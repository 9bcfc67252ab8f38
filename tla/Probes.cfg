\* Conversions of every reply, the worker pool, two tasks at one gate; answers
\* of four records; streams of three dnstap frames; two Accept and two Close;
\* four samples; four mtr lines; what systems report of their resolvers.
SPECIFICATION AllSpec
CONSTANTS
    Protocols <- MCProtocols
    FewReplies <- MCFewReplies
    RareReplies <- NoRareReplies
    Requests <- MCRequests
    GateLimit = 1
    Frames <- MCFrames
    MaxStream = 4
    MaxFrameBytes = 3
    MaxEvents = 3
    MaxTotalFrameBytes = 5
    MaxOutstandingQuery = 2
    Acceptors = {1, 2}
    Closers = {1, 2}
    MaxPeers = 3
    SampleCount = 4
    MaxHops = 2
    ReportCycles = 2
    RawDialects <- MCRawDialects
    MaxRawLines = 5
    Configurations <- MCConfigurations
    Questions <- MCQuestions
    Interfaces = {0, 1, 2}
    MaxResolvers = 4
    MaxTurn = 3
    Asked <- MCAsked
    Records <- MCRecords
    Contexts <- MCContexts
    SectionLimits = {2, 3, 4}
    MaxAnswer = 4
    MaxLabels = 3
    MaxDepth = 2
INVARIANTS
    ExchangesAreObservable
    EvidenceHasOneOwner
    BatchIsAccepted
    ReportTellsFailures
    NobodyIsStuck
    CompleteIsWhole
    ExactPairingIsForced
    OneConnectionIsServed
    LatestUpdateIsTaken
    MTRCountsAreCoherent
    ResponsesAreReported
    NamesGoToTheirServers
CHECK_DEADLOCK FALSE
