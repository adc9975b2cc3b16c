CONSTANTS
    a = a
    b = b
    c = c
    w1 = w1
    Node = {a, b}
    NoVote = NoVote
    Reads = {}
    Writes = {}
    Impatient = {a, b}
    MaxTerm = 2
SPECIFICATION Spec
CHECK_DEADLOCK FALSE
INVARIANT OneLeader
