CONSTANTS
    a = a
    b = b
    c = c
    w1 = w1
    Node = {a, b, c}
    NoVote = NoVote
    Reads = {}
    Writes = {}
    Impatient = {a, b, c}
    MaxTerm = 2
SPECIFICATION Spec
CHECK_DEADLOCK FALSE
SYMMETRY Symmetry
PROPERTY CurrentTermMonotonic
