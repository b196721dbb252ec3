\* As Tcp, without losses: a non-blocking read looks for bytes, then for the end
\* of the stream, and both arrive in between.
CONSTANTS
    Data <- OneWay
    Isn <- NearWrap
    SeqMod = 16
    RxBuf = 2
    TxBuf = 2
    Mss = 1
    MaxRetries = 1
    MaxLoss = 0
    MaxEarly = 0
    EofFirst = {"server"}
    Rooms = {3}
    NonBlocking = {"server"}
    Shared = {}
    ListenerMayClose = {}
    BacklogFull = {FALSE}
SPECIFICATION Spec
INVARIANT CleanEnd
CHECK_DEADLOCK FALSE
