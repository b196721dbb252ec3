\* The client writes two bytes and ends its stream; the server closes after
\* end of stream.  One loss and one early timer expiry.
CONSTANTS
    Data <- OneWay
    Isn <- NearWrap
    SeqMod = 16
    RxBuf = 2
    TxBuf = 2
    Mss = 1
    MaxRetries = 1
    MaxLoss = 1
    MaxEarly = 1
    EofFirst = {"server"}
    Rooms = {0, 3}
    NonBlocking = {"server"}
    Shared = {}
    ListenerMayClose = {"accept"}
    BacklogFull = {TRUE, FALSE}
SPECIFICATION Spec
INVARIANTS StreamPrefix EofMeansAll FinAckedIsTaken
PROPERTY StreamArrives
CHECK_DEADLOCK FALSE
