SPECIFICATION FairSpec
CONSTANTS
    Member = {m1, m2}
    Fn = {f}
    Main = main
    Header = {1}
    Threshold = 1
    MaxModules = 2
PROPERTIES ExitServed
CHECK_DEADLOCK FALSE
