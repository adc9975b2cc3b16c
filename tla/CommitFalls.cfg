CONSTANTS
    a = a
    b = b
    c = c
    w1 = w1
    r1 = r1
    r2 = r2
    client = client
    Client = client
    Node = {a, b, c}
    NoVote = NoVote
    Reads = {}
    Writes = {w1}
    Impatient = {a}
    MaxTerm = 1
    MailboxCapacity = 1
    QueueCapacity = 2
    ReplyCapacity = 1
    LateClient = FALSE
    MaxRounds = 1
SPECIFICATION FlowSpec
CHECK_DEADLOCK FALSE
PROPERTY CommitIndexMonotonic
