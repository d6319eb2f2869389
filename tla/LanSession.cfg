CONSTANTS
    MaxSessions = 2
    IdxMask = 3
    TagMod = 2
    Word = 3
    ReqSids <- MCReqSidsAndNobody
    AuthReqs = {"NONE", "STRAIGHT"}
    PrivReqs <- MCLowAndHigh
    SeqReqs <- MCSeqReqs
SPECIFICATION ReplySpec
INVARIANTS
    TypeOK
    ActiveCount
    Reachable
    PrivBounded
PROPERTIES
    CloseAuthority
    PrivChangedByOwner
    RepliesInOrder
    ImplementsTable
CHECK_DEADLOCK FALSE
