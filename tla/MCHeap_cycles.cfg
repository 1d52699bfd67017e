SPECIFICATION Spec
CONSTANTS
    Slot = {s1, s2}  Global = {}
    Width = 1
    MaxRc = 2
    MaxNull = 3
    MaxTraps = 1
    HostResets = FALSE
    Limit = 4
    Base = 1
    InitCap = 2
    Runway = 2
SYMMETRY Symmetry
INVARIANTS TypeOK NoDangling FreeExact CollectorNeverFaults
PROPERTIES SweepReclaimsGarbage ExhaustedOnlyWhenFull LeaksOnlySelfStores WorkRunsDown
