CONSTANTS
    l1 = l1  l2 = l2
    Lines <- MCLines
    MaxLines = 7
    MaxContext = 2
    MaxDiffCells = 20
SPECIFICATION Spec
SYMMETRY MCSymmetry
INVARIANTS
    ScriptIsShortest
    HunksApply
CHECK_DEADLOCK FALSE
