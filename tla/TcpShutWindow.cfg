\* As Tcp, with a receive buffer of one byte: the window shuts, and the update
\* that opens it is lost.
CONSTANTS
    Data <- OneWay
    Isn <- NearWrap
    SeqMod = 16
    RxBuf = 1
    TxBuf = 2
    Mss = 1
    MaxRetries = 1
    MaxLoss = 1
    MaxEarly = 0
    EofFirst = {"server"}
    Rooms = {0, 3}
    NonBlocking = {"server"}
    Shared = {}
    ListenerMayClose = {}
    BacklogFull = {FALSE}
SPECIFICATION Spec
PROPERTY ShutWindowReopens
CHECK_DEADLOCK FALSE
