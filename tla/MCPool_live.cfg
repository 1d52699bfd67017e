SPECIFICATION FairSpec
CONSTANTS
    Client = {c1, c2}
    Interp = {i1}
    Size = 1
    Buf = {b1}
    NoInterp = NoInterp
    NoClient = NoClient
PROPERTIES GetReturns CloseReleasesAll
