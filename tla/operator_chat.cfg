SPECIFICATION FairSpec
CONSTANTS
    m1 = m1
    m2 = m2
    m3 = m3
    main = main
    thread = thread
    other = other
    NoChannel = NoChannel
    NoMessage = NoMessage
    Poller = Poller
    Messages = {m1, m2, m3}
    Channels = {main, thread}
    ChannelOf <- Mixed
    ParentOf <- Parents
    Target = main
    Workers = 2
    MaxEntries = 1
    MayRaise = {"prompt", "read"}
INVARIANTS
    TypeOK
    HistoryBounded
    AnswersStayInConversation
PROPERTY
    EveryPromptIsAnswered
