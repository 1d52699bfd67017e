SPECIFICATION Spec
CONSTANTS
    Slot = {s1, s2}  Global = {}
    Width = 1
    MaxRc = 2
    MaxNull = 3
    MaxTraps = 2
    HostResets = FALSE
    Limit = 4
    Base = 1
    InitCap = 2
    Runway = 1
INVARIANT NullPermanent
