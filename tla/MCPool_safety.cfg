SPECIFICATION Spec
CONSTANTS
    Client = {c1, c2, c3}
    Interp = {i1, i2, i3}
    Size = 2
    Buf = {b1, b2}
    NoInterp = NoInterp
    NoClient = NoClient
SYMMETRY Symmetry
INVARIANTS
    TypeOK
    ExclusiveLoan
    LiveCounted
    NoSendOnClosed
    AttachNeverRefused
    RefsExact
    RunningCodeMapped
    NoLostWakeup
PROPERTY ImplementsLending
