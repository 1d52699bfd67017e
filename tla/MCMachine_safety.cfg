SPECIFICATION Spec
CONSTANTS
    Fn <- Functions
    Sig <- Signatures
    Obj = {o1, o2}
    StackCap = 3
    FrameCap = 3
    MaxRc = 2
    EntryThrows = FALSE
    HollowResumes = FALSE
SYMMETRY Symmetry
INVARIANTS TypeOK NoDangling FramesWhole CoroutineExclusive
PROPERTIES NothingLost RegionCatches
