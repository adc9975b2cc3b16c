CONSTANTS
    a = a
    b = b
    c = c
    w1 = w1
    r1 = r1
    r2 = r2
    client = client
    Client = client
    Node = {a, b, c}
    NoVote = NoVote
    Reads = {}
    Writes = {w1}
    Impatient = {a}
    MaxTerm = 2
    MailboxCapacity = 1
    QueueCapacity = 4
    ReplyCapacity = 1
    LateClient = TRUE
    MaxRounds = 1
SPECIFICATION FairFlowSpec
INVARIANT NeverFrozen
INVARIANT NoRivalNoPanic
INVARIANT CursorsInLog
INVARIANT AppendsMatchSender
INVARIANT CommitBacked
PROPERTY EstablishedForGood
PROPERTY CommitHasMajority
PROPERTY LeaderEmerges
