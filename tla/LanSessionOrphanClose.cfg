CONSTANTS
    MaxSessions = 1
    IdxMask = 3
    TagMod = 2
    Word = 4
    ReqSids <- MCReqSids
    AuthReqs = {"NONE"}
    PrivReqs <- MCLowAndHigh
    SeqReqs <- MCSeqReqs
SPECIFICATION ReplySpec
INVARIANT StaysUp
CHECK_DEADLOCK FALSE
