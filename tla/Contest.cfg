CONSTANTS
    a = a
    b = b
    c = c
    w1 = w1
    r1 = r1
    r2 = r2
    client = client
    Client = client
    Node = {a, b, c}
    NoVote = NoVote
    Reads = {}
    Writes = {}
    Impatient = {a, b}
    MaxTerm = 1
    MailboxCapacity = 8
    QueueCapacity = 32
    ReplyCapacity = 16
    LateClient = FALSE
    MaxRounds = 2
SPECIFICATION FlowSpec
CHECK_DEADLOCK FALSE
INVARIANT TypeOK
INVARIANT OneLeader
INVARIANT NoStrayAnswer
