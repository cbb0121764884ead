CONSTANTS
    s1 = s1
    s2 = s2
    r1 = r1
    r2 = r2
    Sockets = {s1, s2}
    Devices = {"keyboard", "mouse_abs"}
    Keys = {4}
    Texts <- MCTexts
    Mounts = {r1, r2}
    Images = {"disk.img"}
    Updates = {r1, r2}
    Loads = {r1, r2}
    Jobs = {r1, r2}
    MaxVersion = 2
    Changes = {r1, r2}
    Addresses = {"10.0.0.2/24 10.0.0.1", "10.0.0.3/24 10.0.0.1"}
SYMMETRY DevicesSymmetry
SPECIFICATION Spec
INVARIANTS
    DevicesTypeOK
    KeysReleased
    PasteUnmixed
    MediaConsistent
    UpdatesApart
    
    SentinelTells
    BinariesMatch
    EthernetApplied
