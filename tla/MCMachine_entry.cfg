SPECIFICATION Spec
CONSTANTS
    Fn <- Functions
    Sig <- Signatures
    Obj = {o1, o2}
    StackCap = 3
    FrameCap = 3
    MaxRc = 2
    EntryThrows = TRUE
    HollowResumes = FALSE
INVARIANT StackCounted
