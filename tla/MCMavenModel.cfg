SPECIFICATION Spec
INVARIANTS  ReadsDecide 
CONSTANTS
    MaxDepth = 8
    MaxLength = 12
    MaxParents = 2
    MaxBomDepth = 3
    MaxFollowed = 4
