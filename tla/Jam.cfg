CONSTANTS
    a = a
    b = b
    c = c
    w1 = w1
    r1 = r1
    r2 = r2
    client = client
    Client = client
    Node = {a, b}
    NoVote = NoVote
    Reads = {r1}
    Writes = {w1}
    Impatient = {a, b}
    MaxTerm = 1
    MailboxCapacity = 1
    QueueCapacity = 1
    ReplyCapacity = 1
    LateClient = FALSE
    MaxRounds = 1
SPECIFICATION FairFlowSpec
CHECK_DEADLOCK FALSE
PROPERTY SendsComplete
