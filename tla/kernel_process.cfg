SPECIFICATION ProcessSpec
CONSTANTS
    MaxKeys = 2
    Keys = {k1, k2}
    MaxWrites = 3
INVARIANTS
    UpIsComplete
    
    ChecksSeeTheDirectory
