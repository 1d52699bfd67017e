SPECIFICATION Spec
CONSTANTS
    Member = {m1, m2}
    Fn = {main}
    Main = main
    Header = {1, 2}
    Threshold = 2
    MaxModules = 3
SYMMETRY Symmetry
INVARIANTS TypeOK BuildExclusive NoRequestStranded QueueCoalesced EntryYields SilentRunsNative
PROPERTIES RequestKept
CHECK_DEADLOCK FALSE
