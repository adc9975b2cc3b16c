CONSTANTS
    a = a
    b = b
    c = c
    w1 = w1
    r1 = r1
    r2 = r2
    client = client
    Client = client
    Node = {a, b}
    NoVote = NoVote
    Reads = {}
    Writes = {}
    Impatient = {a, b}
    MaxTerm = 2
    MailboxCapacity = 1
    QueueCapacity = 2
    ReplyCapacity = 1
    LateClient = FALSE
    MaxRounds = 1
SPECIFICATION FlowSpec
CHECK_DEADLOCK FALSE
INVARIANT FlowTypeOK
INVARIANT RolesFollowed
PROPERTY DeposedOnlyByLingeringFollower
