CONSTANTS
    p1 = p1
    p2 = p2
    p3 = p3
    p4 = p4
    x = x
    y = y
    Peer = {p1, p2, p3, p4}
    MaxIndex = 5
    Key = {x, y}
    MaxValue = 1
SPECIFICATION DataSpec
SYMMETRY AnyPeer
INVARIANT CommittableIsMajority
INVARIANT ExactWhileInRange
PROPERTY CommittableFollowsPeer
PROPERTY ReplicasStayClose
