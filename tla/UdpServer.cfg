CONSTANTS
    Datagrams <- MCDatagrams
    NoAnswer = NoAnswer
    RcvBuf = 2
SPECIFICATION Spec
INVARIANT ServerTypeOK
PROPERTIES
    ImplementsQueue
    SaneRequestsServed
    DatagramsServed
    StopsWhenQuiet
CHECK_DEADLOCK FALSE
