SPECIFICATION Spec
CONSTANTS
    Slot = {s1, s2, g}  Global = {g}
    Width = 2
    MaxRc = 2
    MaxNull = 4
    MaxTraps = 0
    HostResets = TRUE
    Limit = 4
    Base = 2
    InitCap = 3
    Runway = 1
SYMMETRY Symmetry
INVARIANTS NoDangling NullCovered
PROPERTY SweepReclaimsGarbage
