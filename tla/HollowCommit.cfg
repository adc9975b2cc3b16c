CONSTANTS
    a = a
    b = b
    c = c
    w1 = w1
    Node = {a, b, c}
    NoVote = NoVote
    Reads = {}
    Writes = {w1}
    Impatient = {a}
    MaxTerm = 1
SPECIFICATION Spec
CHECK_DEADLOCK FALSE
INVARIANT CommittedMeansStored
