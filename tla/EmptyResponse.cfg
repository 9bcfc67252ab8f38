\* A response of no byte at all, which the transports hand on as a reply.
SPECIFICATION Spec
CONSTANTS
    Protocols <- MCProtocols
    FewReplies <- MCFewReplies
    RareReplies <- EmptyReply
    Requests <- MCSingle
    GateLimit = 1
INVARIANT
    ReceivedResponsesAreObserved
CHECK_DEADLOCK FALSE
