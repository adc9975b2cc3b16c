CONSTANTS
    a = a
    b = b
    c = c
    w1 = w1
    r1 = r1
    r2 = r2
    client = client
    Client = client
    Node = {a, b}
    NoVote = NoVote
    Reads = {r1, r2}
    Writes = {}
    Impatient = {a}
    MaxTerm = 1
    MailboxCapacity = 1
    QueueCapacity = 1
    ReplyCapacity = 1
    LateClient = FALSE
    MaxRounds = 5
SPECIFICATION FairFlowSpec
INVARIANT NoRivalNoPanic
PROPERTY SendsComplete
PROPERTY RequestsSettled
PROPERTY HeartbeatsContinue
