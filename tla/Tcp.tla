-------------------------------- MODULE Tcp --------------------------------
(***************************************************************************)
(* One TCP conversation of kernel/core/net.c between two endpoints that    *)
(* both run this stack (the loopback case): the handshake through a        *)
(* listener, the send buffer and its go-back-N retransmission, the receive *)
(* ring and the window it advertises, the four-way close, the orphan a     *)
(* close() leaves behind, and the sweeper.  Every handler runs under the   *)
(* stack lock and is one action.                                           *)
(*                                                                         *)
(* A byte is its position in the writer's stream, so duplication, loss and *)
(* reordering inside the stream are all visible.  Sequence numbers are     *)
(* modulo SeqMod and compared by signed difference, as seq_gt and seq_leq  *)
(* do.  The link (external) delivers in order, as the loopback and SLIRP   *)
(* do, and may lose MaxLoss segments.  Time is not modelled: a deadline    *)
(* passes in a quiet network, or early, at most MaxEarly times.            *)
(***************************************************************************)
EXTENDS Naturals, Sequences

CONSTANTS Data,         \* Data[e]: how many bytes e's program writes
          Isn,          \* Isn[e]: e's initial sequence number
          SeqMod,       \* 2^32 in the code
          RxBuf,        \* TCP_RXBUF
          TxBuf,        \* TCP_TXBUF
          Mss,          \* the device's segment size
          MaxRetries,   \* TCP_RETRIES_MAX
          MaxLoss,      \* segments the link loses
          MaxEarly,     \* timer expiries before the network is quiet
          EofFirst,     \* programs that close only after end of stream
          NonBlocking,  \* programs that make non-blocking receives
          Shared,       \* connections used by two threads of their program
          Rooms,        \* how many segments the device may take from one
                        \* tcp_output before it refuses one (queue full, down)
          ListenerMayClose, \* where the server may close its listener: values of app
          BacklogFull   \* subset of BOOLEAN: whether an accept queue is full

Client == "client"
Server == "server"
Ends == {Client, Server}
Peer(e) == IF e = Client THEN Server ELSE Client

ASSUME TcpAssumption ==
    /\ Data \in [Ends -> Nat]
    /\ SeqMod \in Nat /\ SeqMod % 2 = 0
    /\ Isn \in [Ends -> 0 .. SeqMod - 1]
    /\ {RxBuf, TxBuf, Mss} \subseteq Nat \ {0}
    /\ SeqMod > 2 * (RxBuf + TxBuf + 2)
    /\ {MaxRetries, MaxLoss, MaxEarly} \subseteq Nat
    /\ Rooms \subseteq Nat
    /\ {EofFirst, NonBlocking, Shared} \subseteq SUBSET Ends
    /\ BacklogFull \subseteq BOOLEAN

VARIABLES conn,      \* conn[e]: e's entry of g_conns
          net,       \* net[e]: segments on their way to e
          listening, \* the server's listener is in use
          queued,    \* the child is in the listener's accept queue
          app,       \* app[e]: where e's program is
          sending,   \* programs between the two halves of net_tcp_send
          probing,   \* programs inside a non-blocking net_tcp_recv
          written,   \* bytes e's program handed to net_tcp_send
          read,      \* bytes e's program got from net_tcp_recv
          told,      \* what net_tcp_recv said of e's stream: "open", "error",
                     \* "eof" (0 after a drained ring) or "zero" (non-blocking 0)
          abandoned, \* ends that gave up, or were freed before their FIN's answer
          losses, early

vars == <<conn, net, listening, queued, app, sending, probing, written, read,
          told, abandoned, losses, early>>

States == {"CLOSED", "SYN_SENT", "SYN_RCVD", "ESTABLISHED", "FIN_WAIT_1",
           "FIN_WAIT_2", "CLOSE_WAIT", "LAST_ACK", "TIME_WAIT"}

Least(a, b) == IF a < b THEN a ELSE b

(* ------------------------- sequence arithmetic ------------------------- *)

Add(a, n) == (a + n) % SeqMod

Diff(a, b) == (a + SeqMod - b) % SeqMod

seq_gt(a, b) == Diff(a, b) \in 1 .. (SeqMod \div 2) - 1

seq_leq(a, b) == ~seq_gt(a, b)

(* ------------------------------ the table ------------------------------ *)

\* tcp_alloc_locked's reset; `out` collects what a handler emits.
Fresh ==
    [used |-> TRUE, state |-> "CLOSED", fin_pending |-> FALSE,
     fin_sent |-> FALSE, fin_seq |-> 0, orphan |-> FALSE, peer_fin |-> FALSE,
     reset |-> FALSE, snd_una |-> 0, snd_nxt |-> 0, snd_wnd |-> 0,
     tx |-> <<>>, rcv_nxt |-> 0, rx |-> <<>>, rto |-> FALSE, retries |-> 0,
     parent |-> FALSE, out |-> <<>>]

\* Nothing reads a free entry before tcp_alloc_locked has reset it.
Unused == [Fresh EXCEPT !.used = FALSE]

tcp_rx_free(c) == RxBuf - Len(c.rx)

Segment(seq, ack, flags, data, wnd) ==
    [seq |-> seq, ack |-> ack, flags |-> flags, data |-> data, wnd |-> wnd]

\* Every segment carries the current acknowledgement and window.
tcp_emit(c, seq, flags, data) ==
    [c EXCEPT !.out =
        Append(@, Segment(seq, c.rcv_nxt, flags, data, tcp_rx_free(c)))]

Inflight(c) == Diff(c.snd_nxt, c.snd_una)

CanOutput(c) ==
    c.used /\ c.state \in {"ESTABLISHED", "CLOSE_WAIT", "FIN_WAIT_1", "LAST_ACK"}

\* What the queue, the window and the device allow beyond what is outstanding.
Sendable(c, room) ==
    LET upto == Least(Len(c.tx), c.snd_wnd)
    IN  IF upto > Inflight(c) THEN Least(upto - Inflight(c), room * Mss) ELSE 0

SegmentsOf(n) == (n + Mss - 1) \div Mss

\* n bytes from snd_nxt on, cut into segments of Mss.  A byte is found in tx
\* by its distance from snd_una.
DataSegments(c, n) ==
    [i \in 1 .. SegmentsOf(n) |->
        LET lo == (i - 1) * Mss
        IN  Segment(Add(c.snd_nxt, lo), c.rcv_nxt, {"ACK"},
                    SubSeq(c.tx, Inflight(c) + lo + 1,
                           Inflight(c) + Least(lo + Mss, n)),
                    tcp_rx_free(c))]

\* Our FIN goes out only once every queued byte has been sent, and is not sent
\* when the device refuses it.
FinDue(c, n, room) ==
    /\ c.fin_pending /\ ~c.fin_sent /\ Inflight(c) + n >= Len(c.tx)
    /\ SegmentsOf(n) < room

\* A refused segment ends the loop; with nothing outstanding no timer is armed.
tcp_output(c, room) ==
    LET n == Sendable(c, room)
        d == [c EXCEPT !.out = @ \o DataSegments(c, n), !.snd_nxt = Add(@, n),
                       !.rto = @ \/ Inflight(c) + n > 0]
    IN  IF ~CanOutput(c) THEN c
        ELSE IF ~FinDue(c, n, room) THEN d
        ELSE [tcp_emit(d, Add(c.snd_nxt, n), {"FIN", "ACK"}, <<>>)
                 EXCEPT !.fin_sent = TRUE, !.fin_seq = Add(c.snd_nxt, n),
                        !.snd_nxt = Add(@, 1), !.rto = TRUE]

(* ------------------------- input: the pure parts ----------------------- *)

\* A bare RST for a segment no connection owns; never in answer to an RST.
tcp_send_rst(s) ==
    IF "RST" \in s.flags THEN <<>>
    ELSE IF "ACK" \in s.flags THEN <<Segment(s.ack, 0, {"RST"}, <<>>, 0)>>
    ELSE <<Segment(0, Add(s.seq, Len(s.data) + (IF "SYN" \in s.flags THEN 1 ELSE 0)),
                   {"RST", "ACK"}, <<>>, 0)>>

\* snd_nxt is pulled up by one at most, for the zero-window probe.
PullUp(c, s) ==
    IF seq_gt(s.ack, c.snd_nxt) /\ seq_leq(s.ack, Add(c.snd_nxt, 1))
    THEN [c EXCEPT !.snd_nxt = s.ack] ELSE c

AcksNew(c, s) == seq_gt(s.ack, c.snd_una) /\ seq_leq(s.ack, c.snd_nxt)

\* Bytes acknowledged, clamped to what tx holds.
Release(c, s) ==
    LET n == Least(Diff(s.ack, c.snd_una), Len(c.tx))
    IN  [c EXCEPT !.tx = SubSeq(@, n + 1, Len(@)), !.snd_una = s.ack,
                  !.retries = 0, !.rto = s.ack # c.snd_nxt]

\* The output of a new acknowledgement still uses the window of an older one.
TakeAck(c, s, room) == IF AcksNew(c, s) THEN tcp_output(Release(c, s), room) ELSE c
TakeWindow(c, s, room) == tcp_output([c EXCEPT !.snd_wnd = s.wnd], room)

Establishes(c, s) ==
    c.state = "SYN_RCVD" /\ "ACK" \in s.flags /\ seq_leq(c.snd_nxt, s.ack)

\* tcp_accept_enqueue_locked: a full queue refuses and frees, and tcp_input
\* goes on with the entry it has freed.
Establish(c, full) ==
    LET d == [c EXCEPT !.state = "ESTABLISHED", !.rto = FALSE]
    IN  IF full
        THEN [tcp_emit(d, d.snd_nxt, {"RST"}, <<>>)
                 EXCEPT !.used = FALSE, !.state = "CLOSED"]
        ELSE d

\* Mutant: an acknowledgement of the data in front of the FIN is enough.
FinAckedMutant(c, s) == c.fin_sent /\ seq_leq(c.fin_seq, s.ack)

FinAcked(c, s) == c.fin_sent /\ seq_gt(s.ack, c.fin_seq)

AckStates(c, s) ==
    IF c.state = "FIN_WAIT_1" /\ FinAcked(c, s)
    THEN [c EXCEPT !.state = "FIN_WAIT_2"]
    ELSE IF c.state = "LAST_ACK" /\ FinAcked(c, s)
    THEN [c EXCEPT !.state = "CLOSED", !.rto = FALSE]
    ELSE c

\* Mutant: data is taken whatever its sequence number.
TakeDataMutant(c, s) ==
    IF s.data = <<>> THEN c
    ELSE LET n == Least(Len(s.data), tcp_rx_free(c))
             d == [c EXCEPT !.rx = @ \o SubSeq(s.data, 1, n),
                            !.rcv_nxt = Add(@, n)]
         IN  tcp_emit(d, d.snd_nxt, {"ACK"}, <<>>)

\* tcp_rx_store_locked: as much as fits; out of order is answered, not kept.
TakeData(c, s) ==
    IF s.data = <<>> THEN c
    ELSE LET n == IF s.seq = c.rcv_nxt THEN Least(Len(s.data), tcp_rx_free(c)) ELSE 0
             d == [c EXCEPT !.rx = @ \o SubSeq(s.data, 1, n),
                            !.rcv_nxt = Add(@, n)]
         IN  tcp_emit(d, d.snd_nxt, {"ACK"}, <<>>)

AfterFin(state) ==
    CASE state = "ESTABLISHED" -> "CLOSE_WAIT"
      [] state \in {"FIN_WAIT_1", "FIN_WAIT_2"} -> "TIME_WAIT"
      [] OTHER -> state

\* Mutant: a FIN is taken before the data in front of it.
TakeFinMutant(c, s) ==
    IF "FIN" \notin s.flags THEN c
    ELSE LET d == [c EXCEPT !.rcv_nxt = Add(@, 1), !.peer_fin = TRUE]
         IN  [tcp_emit(d, d.snd_nxt, {"ACK"}, <<>>)
                 EXCEPT !.state = AfterFin(c.state)]

TakeFin(c, s) ==
    IF "FIN" \notin s.flags THEN c
    ELSE LET d == IF Add(s.seq, Len(s.data)) = c.rcv_nxt
                  THEN [c EXCEPT !.rcv_nxt = Add(@, 1), !.peer_fin = TRUE]
                  ELSE c
             r == tcp_emit(d, d.snd_nxt, {"ACK"}, <<>>)
         IN  IF d = c THEN r ELSE [r EXCEPT !.state = AfterFin(c.state)]

(* ------------------------------- actions ------------------------------- *)

Init ==
    /\ conn = [e \in Ends |-> Unused]
    /\ net = [e \in Ends |-> <<>>]
    /\ listening = TRUE /\ queued = FALSE
    /\ app = [e \in Ends |-> IF e = Client THEN "init" ELSE "accept"]
    /\ sending = {} /\ probing = {}
    /\ written = [e \in Ends |-> 0] /\ read = [e \in Ends |-> <<>>]
    /\ told = [e \in Ends |-> "open"]
    /\ abandoned = {} /\ losses = 0 /\ early = 0

Settled(c) == IF c.used THEN [c EXCEPT !.out = <<>>] ELSE Unused

\* The handler of e has run: its entry is c and what it emitted is sent.
Leave(e, c) ==
    \E d \in {c} : /\ conn' = [conn EXCEPT ![e] = Settled(d)]
                  /\ net' = [net EXCEPT ![Peer(e)] = @ \o d.out]

\* The same for a handler run by the first segment in flight to e.
Answer(e, c) ==
    \E d \in {c} : /\ conn' = [conn EXCEPT ![e] = Settled(d)]
                  /\ net' = [net EXCEPT ![e] = Tail(@), ![Peer(e)] = @ \o d.out]

Reply(e, segs) ==
    /\ net' = [net EXCEPT ![e] = Tail(@), ![Peer(e)] = @ \o segs]
    /\ UNCHANGED conn

programs == <<app, sending, probing, written, read, told>>
limits == <<abandoned, losses, early>>

Arrived(e) == net[e] # <<>>
Listens(e) == e = Server /\ listening /\ ~conn[e].used

\* No connection and no listener owns the segment, or the listener gets
\* something other than a SYN.
RxNobody(e) ==
    /\ Arrived(e) /\ ~conn[e].used
    /\ Listens(e) => "SYN" \notin Head(net[e]).flags
    /\ Reply(e, tcp_send_rst(Head(net[e])))
    /\ UNCHANGED <<listening, queued, programs, limits>>

RxReset(e) ==
    /\ Arrived(e) /\ conn[e].used /\ "RST" \in Head(net[e]).flags
    /\ Answer(e, [conn[e] EXCEPT !.reset = TRUE, !.peer_fin = TRUE,
                                 !.state = "CLOSED", !.rto = FALSE])
    /\ UNCHANGED <<listening, queued, programs, limits>>

\* LISTEN: the child is created on the receive path.
RxSyn(e) ==
    /\ Arrived(e) /\ Listens(e)
    /\ LET s == Head(net[e])
           c == [Fresh EXCEPT !.parent = TRUE, !.rcv_nxt = Add(s.seq, 1),
                              !.snd_una = Isn[e], !.snd_nxt = Isn[e],
                              !.snd_wnd = s.wnd, !.state = "SYN_RCVD",
                              !.rto = TRUE]
       IN  /\ "SYN" \in s.flags /\ "RST" \notin s.flags
           /\ Answer(e, [tcp_emit(c, Isn[e], {"SYN", "ACK"}, <<>>)
                            EXCEPT !.snd_nxt = Add(@, 1)])
    /\ UNCHANGED <<listening, queued, programs, limits>>

RxSynAck(e) ==
    /\ Arrived(e) /\ conn[e].used /\ conn[e].state = "SYN_SENT"
    /\ LET s == Head(net[e])
           c == [conn[e] EXCEPT !.rcv_nxt = Add(s.seq, 1), !.snd_una = s.ack,
                                !.snd_wnd = s.wnd, !.state = "ESTABLISHED",
                                !.rto = FALSE, !.retries = 0]
       IN  /\ "RST" \notin s.flags
           /\ IF ~({"SYN", "ACK"} \subseteq s.flags) THEN Reply(e, <<>>)
              ELSE IF s.ack # conn[e].snd_nxt THEN Reply(e, tcp_send_rst(s))
              ELSE \E room \in Rooms :
                     Answer(e, tcp_output(tcp_emit(c, c.snd_nxt, {"ACK"}, <<>>), room))
    /\ UNCHANGED <<listening, queued, programs, limits>>

\* Every other state: acknowledgement, then data, then their FIN.  The
\* acknowledgement of our FIN in LAST_ACK ends the handler.
RxSegment(e) ==
    /\ Arrived(e) /\ conn[e].used /\ conn[e].state # "SYN_SENT"
    /\ LET s == Head(net[e])
           acks == "ACK" \in s.flags
       IN  /\ "RST" \notin s.flags
           /\ \E p \in {IF acks THEN PullUp(conn[e], s) ELSE conn[e]} :
              \E a \in {IF acks THEN TakeAck(p, s, room) ELSE p : room \in Rooms} :
              \E w \in {IF acks THEN TakeWindow(a, s, room) ELSE a : room \in Rooms} :
              \E full \in IF Establishes(w, s) THEN BacklogFull ELSE {FALSE} :
              \E b \in {IF Establishes(w, s) THEN Establish(w, full) ELSE w} :
              \E k \in {IF acks THEN AckStates(b, s) ELSE b} :
                /\ IF b.state = "LAST_ACK" /\ k.state = "CLOSED"
                   THEN Answer(e, k)
                   ELSE \E d \in {TakeData(k, s)} : Answer(e, TakeFin(d, s))
                /\ queued' = (queued \/ (Establishes(w, s) /\ ~full))
    /\ UNCHANGED <<listening, programs, limits>>

Lose(e) ==
    /\ Arrived(e) /\ losses < MaxLoss
    /\ losses' = losses + 1
    /\ net' = [net EXCEPT ![e] = Tail(@)]
    /\ UNCHANGED <<conn, listening, queued, programs, abandoned, early>>

(* ------------------------------ the sweeper ---------------------------- *)

\* A deadline may pass when nothing is in flight and the other program has
\* taken what it was given; earlier only MaxEarly times.
Readable(e) == app[e] \in {"open", "shut"} /\ (conn[e].rx # <<>> \/ conn[e].peer_fin)
Quiet(e) == /\ \A x \in Ends : net[x] = <<>>
            /\ ~(Readable(Peer(e)) /\ told[Peer(e)] = "open")
Due(e) == \/ Quiet(e) /\ UNCHANGED early
          \/ ~Quiet(e) /\ early < MaxEarly /\ early' = early + 1

\* Mutant: the FIN stays marked sent when its data is rolled back.
ResendMutant(c) ==
    IF c.state = "SYN_SENT" THEN tcp_emit(c, c.snd_una, {"SYN"}, <<>>)
    ELSE IF c.state = "SYN_RCVD" THEN tcp_emit(c, c.snd_una, {"SYN", "ACK"}, <<>>)
    ELSE IF c.tx # <<>>
    THEN LET n == IF c.snd_wnd = 0 THEN 1 ELSE Least(Len(c.tx), Mss)
         IN  [tcp_emit(c, c.snd_una, {"ACK"}, SubSeq(c.tx, 1, n))
                 EXCEPT !.snd_nxt = IF Inflight(c) > n THEN Add(c.snd_una, n) ELSE @]
    ELSE IF c.fin_sent THEN tcp_emit(c, c.fin_seq, {"FIN", "ACK"}, <<>>)
    ELSE c

\* Go-Back-N: one segment from snd_una, everything after it unsent again.
Resend(c) ==
    IF c.state = "SYN_SENT" THEN tcp_emit(c, c.snd_una, {"SYN"}, <<>>)
    ELSE IF c.state = "SYN_RCVD" THEN tcp_emit(c, c.snd_una, {"SYN", "ACK"}, <<>>)
    ELSE IF c.tx # <<>>
    THEN LET n == IF c.snd_wnd = 0 THEN 1 ELSE Least(Len(c.tx), Mss)
         IN  [tcp_emit(c, c.snd_una, {"ACK"}, SubSeq(c.tx, 1, n))
                 EXCEPT !.snd_nxt = IF Inflight(c) > n THEN Add(c.snd_una, n) ELSE @,
                        !.fin_sent = FALSE]
    ELSE IF c.fin_sent THEN tcp_emit(c, c.fin_seq, {"FIN", "ACK"}, <<>>)
    ELSE c

Retransmit(e) ==
    /\ conn[e].used /\ conn[e].rto /\ conn[e].retries < MaxRetries
    /\ Due(e)
    /\ Leave(e, Resend([conn[e] EXCEPT !.retries = @ + 1]))
    /\ UNCHANGED <<listening, queued, programs, abandoned, losses>>

GiveUp(e) ==
    /\ conn[e].used /\ conn[e].rto /\ conn[e].retries = MaxRetries
    /\ Due(e)
    /\ Leave(e, [conn[e] EXCEPT !.reset = TRUE, !.peer_fin = TRUE, !.rto = FALSE,
                                !.state = "CLOSED", !.retries = @ + 1])
    /\ abandoned' = abandoned \cup {e}
    /\ UNCHANGED <<listening, queued, programs, losses>>

\* TIME_WAIT is over, whatever is still in flight.
Linger(e) ==
    /\ conn[e].used /\ conn[e].state = "TIME_WAIT"
    /\ Leave(e, IF conn[e].orphan THEN Unused
                ELSE [conn[e] EXCEPT !.state = "CLOSED"])
    /\ UNCHANGED <<listening, queued, programs, limits>>

Answered(c) == c.tx = <<>> /\ c.state \in {"FIN_WAIT_2", "TIME_WAIT", "CLOSED"}

\* An orphan that has finished, or that has run out of patience: the cap of
\* ten seconds is over before all retries are, and asks for nothing else.
Reclaim(e) ==
    /\ conn[e].used /\ conn[e].orphan
    /\ Leave(e, Unused)
    /\ abandoned' = IF Answered(conn[e]) THEN abandoned ELSE abandoned \cup {e}
    /\ UNCHANGED <<listening, queued, programs, losses, early>>

(* --------------------------- the programs' calls ----------------------- *)

Connect ==
    /\ app[Client] = "init"
    /\ LET c == [Fresh EXCEPT !.snd_una = Isn[Client], !.snd_nxt = Isn[Client],
                              !.snd_wnd = 1460, !.state = "SYN_SENT", !.rto = TRUE]
       IN  Leave(Client, [tcp_emit(c, c.snd_nxt, {"SYN"}, <<>>)
                             EXCEPT !.snd_nxt = Add(@, 1)])
    /\ app' = [app EXCEPT ![Client] = "connecting"]
    /\ UNCHANGED <<listening, queued, sending, probing, written, read, told, limits>>

\* The wait ended, by its condition or by its timeout; only ESTABLISHED counts.
ConnectReturn ==
    /\ app[Client] = "connecting"
    /\ IF conn[Client].state = "ESTABLISHED"
       THEN UNCHANGED <<conn, net>> /\ app' = [app EXCEPT ![Client] = "open"]
       ELSE Leave(Client, Unused) /\ app' = [app EXCEPT ![Client] = "failed"]
    /\ UNCHANGED <<listening, queued, sending, probing, written, read, told, limits>>

Accept ==
    /\ app[Server] = "accept" /\ listening /\ queued
    /\ queued' = FALSE
    /\ conn' = [conn EXCEPT ![Server].parent = FALSE]
    /\ app' = [app EXCEPT ![Server] = "open"]
    /\ UNCHANGED <<net, listening, sending, probing, written, read, told, limits>>

\* net_tcp_close of the listener refuses the children nobody accepted: the
\* ones in its queue, not the ones still in SYN_RCVD.
CloseListener ==
    /\ listening /\ app[Server] \in ListenerMayClose
    /\ listening' = FALSE /\ queued' = FALSE
    /\ IF queued
       THEN Leave(Server, [tcp_emit(conn[Server], conn[Server].snd_nxt, {"RST"}, <<>>)
                              EXCEPT !.used = FALSE])
       ELSE UNCHANGED <<conn, net>>
    /\ UNCHANGED <<programs, limits>>

Broken(c) == c.reset \/ c.state = "CLOSED"

\* net_tcp_send looks at the connection, lets the lock go, and looks again.
SendCheck(e) ==
    /\ app[e] = "open" /\ e \notin sending /\ written[e] < Data[e]
    /\ ~Broken(conn[e]) /\ ~conn[e].fin_pending
    /\ conn[e].state \notin {"FIN_WAIT_1", "FIN_WAIT_2", "LAST_ACK"}
    /\ sending' = sending \cup {e}
    /\ UNCHANGED <<conn, net, listening, queued, app, probing, written, read, told, limits>>

SendCopy(e) ==
    /\ e \in sending
    /\ sending' = sending \ {e}
    /\ IF Broken(conn[e]) THEN UNCHANGED <<conn, net, written>>
       ELSE \E n \in 1 .. Least(TxBuf - Len(conn[e].tx), Data[e] - written[e]) :
              LET new == [i \in 1 .. n |-> written[e] + i]
              IN  /\ \E room \in Rooms :
                       Leave(e, tcp_output([conn[e] EXCEPT !.tx = @ \o new], room))
                  /\ written' = [written EXCEPT ![e] = @ + n]
    /\ UNCHANGED <<listening, queued, app, probing, read, told, limits>>

Receiving(e) ==
    /\ app[e] \in {"open", "shut"} /\ told[e] = "open" /\ conn[e].used
    /\ e \notin probing

\* The last section of net_tcp_recv, which a blocking call reaches after its
\* wait: bytes first; then the error, then the end of stream.
Recv(e) ==
    /\ Receiving(e)
    /\ \/ \E n \in 1 .. Len(conn[e].rx) :
            LET c == [conn[e] EXCEPT !.rx = SubSeq(@, n + 1, Len(@))]
            IN  /\ read' = [read EXCEPT ![e] = @ \o SubSeq(conn[e].rx, 1, n)]
                /\ Leave(e, IF c.state \in {"ESTABLISHED", "CLOSE_WAIT"}
                            THEN tcp_emit(c, c.snd_nxt, {"ACK"}, <<>>) ELSE c)
                /\ UNCHANGED told
       \/ /\ conn[e].rx = <<>> /\ (conn[e].peer_fin \/ conn[e].reset)
          /\ told' = [told EXCEPT ![e] = IF conn[e].reset THEN "error" ELSE "eof"]
          /\ UNCHANGED <<conn, net, read>>
    /\ UNCHANGED <<listening, queued, app, sending, probing, written, limits>>

\* A non-blocking call that finds the ring empty lets the lock go, and looks
\* at the reset and at the peer's FIN alone under the next one.
RecvProbe(e) ==
    /\ e \in NonBlocking /\ Receiving(e) /\ conn[e].rx = <<>>
    /\ probing' = probing \cup {e}
    /\ UNCHANGED <<conn, net, listening, queued, app, sending, written, read, told, limits>>

RecvProbed(e) ==
    /\ e \in probing
    /\ probing' = probing \ {e}
    /\ told' = [told EXCEPT ![e] = IF conn[e].reset THEN "error"
                                  ELSE IF conn[e].peer_fin THEN "zero" ELSE @]
    /\ UNCHANGED <<conn, net, listening, queued, app, sending, written, read, limits>>

\* The part shutdown and close share.
StartFin(c, room) ==
    IF c.state \in {"ESTABLISHED", "CLOSE_WAIT"}
    THEN tcp_output([c EXCEPT !.fin_pending = TRUE,
                              !.state = IF @ = "CLOSE_WAIT" THEN "LAST_ACK"
                                        ELSE "FIN_WAIT_1"], room)
    ELSE c

\* A program ends its stream when it has written all, or cannot; one thread
\* of it may do so while another is inside a send or a receive.
Finished(e) ==
    /\ written[e] = Data[e] \/ Broken(conn[e]) \/ e \in Shared
    /\ e \in sending \cup probing => e \in Shared

net_tcp_shutdown(e) ==
    /\ app[e] = "open" /\ Finished(e)
    /\ e \in EofFirst => told[e] # "open"
    /\ \E room \in Rooms : Leave(e, StartFin(conn[e], room))
    /\ app' = [app EXCEPT ![e] = "shut"]
    /\ UNCHANGED <<listening, queued, sending, probing, written, read, told, limits>>

net_tcp_close(e) ==
    /\ \/ app[e] = "open" /\ Finished(e) /\ (e \in EofFirst => told[e] # "open")
       \/ app[e] = "shut" /\ told[e] # "open" /\ e \notin sending \cup probing
    /\ \E room \in Rooms : Leave(e, StartFin(conn[e], room))
    /\ app' = [app EXCEPT ![e] = "closing"]
    /\ UNCHANGED <<listening, queued, sending, probing, written, read, told, limits>>

\* Drained, or the wait timed out.
CloseReturn(e) ==
    /\ app[e] = "closing" /\ e \notin sending \cup probing
    /\ Leave(e, IF Broken(conn[e]) THEN Unused
                ELSE [conn[e] EXCEPT !.orphan = TRUE])
    /\ app' = [app EXCEPT ![e] = "closed"]
    /\ UNCHANGED <<listening, queued, sending, probing, written, read, told, limits>>

tcp_input(e) == RxNobody(e) \/ RxReset(e) \/ RxSyn(e) \/ RxSynAck(e) \/ RxSegment(e)
Sweep(e) == Retransmit(e) \/ GiveUp(e) \/ Linger(e) \/ Reclaim(e)
Calls(e) == \/ e = Client /\ (Connect \/ ConnectReturn)
            \/ e = Server /\ Accept
            \/ SendCheck(e) \/ SendCopy(e) \/ Recv(e) \/ RecvProbed(e)
            \/ net_tcp_close(e) \/ CloseReturn(e)

Next == \/ CloseListener
        \/ \E e \in Ends : \/ tcp_input(e) \/ Lose(e) \/ Sweep(e)
                            \/ Calls(e) \/ RecvProbe(e) \/ net_tcp_shutdown(e)

\* Fairness: the link delivers, the sweeper's timer re-arms itself in its own
\* callback, and a program does not stop between two calls it can make.
\* tcp_input takes a segment wherever there is one, and nobody else takes one
\* more than MaxLoss times: the first conjunct is its weak fairness.
Spec ==
    /\ Init /\ [][Next]_vars
    /\ \A e \in Ends : /\ []<>(net[e] = <<>>) \/ []<><<Len(net'[e]) < Len(net[e])>>_vars
                       /\ WF_vars(Sweep(e))
                       /\ WF_vars(Calls(e))

(* ------------------------------ properties ----------------------------- *)

\* The type of the state: between handlers nothing is left to emit, a ring and
\* a send buffer never hold more than their size, and only a used entry has a
\* timer.
TypeOK ==
    /\ \A e \in Ends :
        /\ conn[e].state \in States /\ conn[e].out = <<>>
        /\ {conn[e].snd_una, conn[e].snd_nxt, conn[e].rcv_nxt, conn[e].fin_seq}
              \subseteq 0 .. SeqMod - 1
        /\ Len(conn[e].rx) <= RxBuf /\ Len(conn[e].tx) <= TxBuf
        /\ conn[e].rto => conn[e].used
        /\ conn[e].retries <= MaxRetries + 1
        /\ app[e] \in {"init", "connecting", "failed", "accept", "open", "shut",
                       "closing", "closed"}
        /\ written[e] <= Data[e]
        /\ told[e] \in {"open", "eof", "zero", "error"}
    /\ listening \in BOOLEAN /\ queued \in BOOLEAN /\ sending \subseteq Ends
    /\ probing \subseteq Ends /\ abandoned \subseteq Ends
    /\ losses \in 0 .. MaxLoss /\ early \in 0 .. MaxEarly

\* What a program has read is the beginning of what the other one wrote: no
\* byte lost inside the stream, doubled, or out of order, whatever the link
\* loses and however often the sender goes back (net.c:1487-1494, 1593-1666).
StreamPrefix ==
    \A e \in Ends :
        /\ Len(read[e]) <= written[Peer(e)]
        /\ \A i \in 1 .. Len(read[e]) : read[e][i] = i

\* End of stream means the whole stream: a program told so by the last section
\* of net_tcp_recv has read every byte the other one handed over before it
\* ended its stream; one told so by a non-blocking call has every byte in its
\* buffer or in its ring (net.c:1469-1477, 1669-1674, 1994-2026).
EofMeansAll ==
    \A e \in Ends :
        /\ told[e] = "eof" => Len(read[e]) = written[Peer(e)]
        /\ told[e] = "zero" /\ conn[e].used
              => Len(read[e]) + Len(conn[e].rx) = written[Peer(e)]

\* "0 for a clean end of stream" (net.c:1982), whichever way the call is made.
CleanEnd ==
    \A e \in Ends : told[e] \in {"eof", "zero"} => Len(read[e]) = written[Peer(e)]

\* A sender believes its FIN is acknowledged only when the peer has taken it:
\* FIN_WAIT_2 is never reached by an acknowledgement of the data alone, even
\* after a retransmission rolled snd_nxt back (net.c:1633-1648).
FinAckedIsTaken ==
    \A e \in Ends :
        conn[e].used /\ conn[e].state = "FIN_WAIT_2" /\ conn[Peer(e)].used
            => conn[Peer(e)].peer_fin

\* The persist branch of the sweeper: queued bytes, nothing outstanding, a
\* shut window and no timer.  The code does nothing there (net.c:1761-1788).
Shut(e) == /\ conn[e].used /\ conn[e].tx # <<>> /\ ~conn[e].rto
           /\ conn[e].snd_nxt = conn[e].snd_una /\ conn[e].snd_wnd = 0

Ended(e) == app[e] \in {"shut", "closing", "closed"}
Reading(e) == app[e] \in {"open", "shut"}
AllRead(e) == Len(read[e]) = written[Peer(e)] /\ told[e] # "open"

\* Bytes or the FIN are queued, nothing is outstanding and no timer is armed:
\* the window is shut, or the device refused the first segment.
Stalled(e) ==
    /\ conn[e].used /\ ~conn[e].rto /\ conn[e].snd_nxt = conn[e].snd_una
    /\ conn[e].tx # <<>> \/ (conn[e].fin_pending /\ ~conn[e].fin_sent)

\* A stream its writer has ended reaches a program that goes on reading, with
\* its end: every byte, although the link loses segments, the device refuses
\* some, and the writer may have closed and gone.  Excepted are a connection
\* given up after MaxRetries, an orphan freed before its FIN is answered, a
\* sender stalled for good, and a reader whose non-blocking call has said 0
\* (net.c:1708-1759, 2094-2142).
StreamArrives ==
    \A e \in Ends :
        []((Ended(e) /\ Reading(Peer(e)))
              => <>(\/ AllRead(Peer(e)) \/ ~Reading(Peer(e)) \/ told[Peer(e)] = "zero"
                    \/ abandoned # {} \/ []Stalled(e)))

\* A shut window does not last: "one byte, periodically, is what breaks that"
\* (net.c:1765).
ShutWindowReopens ==
    \A e \in Ends :
        [](Shut(e) /\ Reading(Peer(e)) => <>(~Shut(e) \/ ~Reading(Peer(e))))
=============================================================================
