------------------------------ MODULE TcpProof ------------------------------
(* Proofs about Tcp, for all sizes of buffers, segments and number space,   *)
(* all streams, and any number of losses, retries and early timers, when no *)
(* connection is used by two threads.                                       *)
(*                                                                          *)
(* The entries hold sequence numbers modulo SeqMod. The invariant says that *)
(* there are numbers that never wrap, the positions of both ends (una, nxt, *)
(* rcv, top, fin) and of every segment under way, of which those are the    *)
(* remainders. A segment that arrives may be old, but the chain it comes    *)
(* from never lets it be a whole window older than what the receiver knows, *)
(* so that comparing the remainders compares the positions.                 *)
(*                                                                          *)
(* A handler is a composition of small steps on one entry. Mid describes an *)
(* entry between two of them, with the segments it has emitted so far; Goes *)
(* hides the positions. The lemmas ...Goes go through the handlers step by  *)
(* step; StepMoves and StepRests put the result back between the two ends;  *)
(* the lemmas ...Keeps do so for every action.                              *)
EXTENDS Tcp, Integers, SequenceTheorems, TLAPS

(* How far apart the ends can be: a full send buffer, a SYN and a FIN.      *)
Window == TxBuf + 2

(* The sequence number of the k-th position of e's stream: 0 is the SYN, k  *)
(* the k-th byte.                                                           *)
Pos(e, k) == Add(Isn[e], k)

(* Sequence numbers as the header carries them.                             *)
SeqNo == 0 .. SeqMod - 1

(* The flags of a segment.                                                  *)
Flags == SUBSET {"SYN", "ACK", "FIN", "RST"}

(* Segments.                                                                *)
SegT == [seq : SeqNo, ack : SeqNo, flags : Flags, data : Seq(Nat), wnd : Nat]

(* Entries of g_conns.                                                      *)
ConnT == [used : BOOLEAN, state : States, fin_pending : BOOLEAN,
          fin_sent : BOOLEAN, fin_seq : SeqNo, orphan : BOOLEAN,
          peer_fin : BOOLEAN, reset : BOOLEAN, snd_una : SeqNo,
          snd_nxt : SeqNo, snd_wnd : Nat, tx : Seq(Nat), rcv_nxt : SeqNo,
          rx : Seq(Nat), rto : BOOLEAN, retries : 0 .. MaxRetries + 1,
          parent : BOOLEAN, out : Seq(SegT)]

(* Unwrapped positions: acknowledged, next, received of the other end, the  *)
(* highest ever sent, and the FIN.                                          *)
Ghost == [una : Nat, nxt : Nat, rcv : Nat, top : Nat, fin : Nat]

(* Segments that are not resets.                                            *)
Live(s) == "RST" \notin s.flags

(* Segments with an acknowledgement.                                        *)
Acks(s) == "ACK" \in s.flags

(* A flag that takes a position of the stream counts for one.               *)
Has(s, f) == IF f \in s.flags THEN 1 ELSE 0

(* The position behind a segment that starts at position k.                 *)
End(s, k) == k + Len(s.data) + Has(s, "FIN") + Has(s, "SYN")

(* A segment of e at position k, acknowledging a: its bytes are where they  *)
(* belong, its FIN is behind all W of them, it ends below top, and it is    *)
(* not so old that the other end, at lo, could take it for a newer one.     *)
Seg(e, s, k, a, W, top, rcv, lo, low) ==
    /\ s.seq = Pos(e, k)
    /\ \A i \in 1 .. Len(s.data) : s.data[i] = k - 1 + i
    /\ s.data # <<>> => k >= 1 /\ k + Len(s.data) <= 1 + W
    /\ "FIN" \in s.flags => s.data = <<>> /\ k >= 1 + W
    /\ "SYN" \in s.flags => s.data = <<>> /\ k = 0 /\ "FIN" \notin s.flags
    /\ "SYN" \notin s.flags => k >= 1 /\ Acks(s)
    /\ End(s, k) <= top
    /\ lo <= k + Window
    /\ Acks(s) => s.ack = Pos(Peer(e), a) /\ 1 <= a /\ a <= rcv
    /\ low = 0 \/ (Acks(s) /\ low <= a)
    /\ e = Server => Acks(s)
    /\ e = Client /\ "SYN" \in s.flags => ~Acks(s)

(* Segments under way, with their positions q and acknowledgements a:       *)
(* acknowledgements never go back, and no segment is a window behind the    *)
(* end of an earlier one.                                                   *)
Chain(e, N, q, a, W, top, rcv, lo, low) ==
    /\ N \in Seq(SegT) /\ q \in Seq(Nat) /\ a \in Seq(Nat)
    /\ Len(q) = Len(N) /\ Len(a) = Len(N)
    /\ \A i \in 1 .. Len(N) : Live(N[i]) => Seg(e, N[i], q[i], a[i], W, top, rcv, lo, low)
    /\ \A i, j \in 1 .. Len(N) : i < j /\ Live(N[i]) /\ Live(N[j]) =>
         /\ End(N[i], q[i]) <= q[j] + Window
         /\ Acks(N[i]) => Acks(N[j]) /\ a[i] <= a[j]

(* The send buffer holds the last bytes written.                            *)
Run(t, W) == \A i \in 1 .. Len(t) : t[i] = W - Len(t) + i

(* The sender's numbers: una <= nxt <= top; the unacknowledged bytes are    *)
(* those in the buffer; a FIN that is sent is the last position.            *)
Numbers(u, n, t, f, L, W, fp, fs) ==
    /\ u <= n /\ n <= t /\ 1 <= n /\ t <= 3 + W
    /\ u = 0 => t = 1 /\ W = 0 /\ L = 0 /\ ~fp
    /\ u >= 1 => L <= W /\ 1 + W <= u + L /\ (L > 0 => u + L = 1 + W)
    /\ L <= TxBuf
    /\ ~fp => t <= 1 + W /\ ~fs
    /\ ~fs \/ L > 0 => t <= 2 + W
    /\ ~fs /\ L > 0 => n <= 1 + W
    /\ fs => f >= 1 + W /\ n = f + 1 /\ t = f + 1

(* The sending half of an entry agrees with the positions.                  *)
Sends(e, c, g, W, ended) ==
    /\ c.snd_una = Pos(e, g.una) /\ c.snd_nxt = Pos(e, g.nxt)
    /\ Numbers(g.una, g.nxt, g.top, g.fin, Len(c.tx), W, c.fin_pending, c.fin_sent)
    /\ Run(c.tx, W)
    /\ c.fin_pending => ended
    /\ c.fin_sent => c.fin_seq = Pos(e, g.fin)

(* What a state says about the handshake and the close: in FIN_WAIT_2 the   *)
(* other end has taken our FIN.                                             *)
Phase(e, c, g, W, rp) ==
    /\ c.state = "SYN_SENT" => e = Client /\ g.una = 0 /\ g.rcv = 0
    /\ c.state = "SYN_RCVD" => e = Server /\ g.top <= 1
    /\ c.state \notin {"SYN_SENT", "SYN_RCVD", "CLOSED"} => g.una >= 1 /\ g.rcv >= 1
    /\ c.state = "FIN_WAIT_2" => rp >= 2 + W
    /\ g.rcv = 0 => e = Client /\ c.tx = <<>> /\ ~c.fin_pending

(* The receiver's numbers: what was read and what is buffered is all that   *)
(* was taken, except for the FIN, which comes after the last byte.          *)
Counts(r, R, L, W, pf, rs, ended) ==
    /\ R + L <= W /\ L <= RxBuf
    /\ r = 0 => R + L = 0 /\ (pf => rs)
    /\ r >= 1 => /\ 1 + R + L <= r
                 /\ 1 + R + L < r => R + L = W /\ ended /\ pf
                 /\ pf /\ ~rs => 1 + R + L < r

(* The receiving half of an entry agrees with the positions.                *)
Receives(e, c, g, rd, W, ended) ==
    /\ Counts(g.rcv, Len(rd), Len(c.rx), W, c.peer_fin, c.reset, ended)
    /\ g.rcv >= 1 => c.rcv_nxt = Pos(Peer(e), g.rcv)
    /\ \A i \in 1 .. Len(c.rx) : c.rx[i] = Len(rd) + i

(* What a handler at one end may rely on: the programs' streams and the     *)
(* numbers when it starts.                                                  *)
Env == [e : Ends, W : Nat, en : BOOLEAN, rd : Seq(Nat), Wp : Nat, ep : BOOLEAN,
        rp : Nat, t0 : Nat, r0 : Nat]

(* An entry in the middle of a handler: both halves agree with the          *)
(* positions, and what it has emitted continues the chain.                  *)
Mid(x, c, g, q, a) ==
    /\ x \in Env /\ c \in ConnT /\ g \in Ghost
    /\ Sends(x.e, c, g, x.W, x.en)
    /\ Phase(x.e, c, g, x.W, x.rp)
    /\ Receives(x.e, c, g, x.rd, x.Wp, x.ep)
    /\ Chain(x.e, c.out, q, a, x.W, g.top, g.rcv, x.t0, x.r0)
    /\ x.t0 <= g.top /\ x.r0 <= g.rcv

-----------------------------------------------------------------------------
(* Sequence numbers.                                                        *)

(* Division with remainder.                                                 *)
LEMMA DivMod ==
  ASSUME NEW M \in Nat \ {0}, NEW x \in Nat
  PROVE  x = M * (x \div M) + (x % M) /\ x % M \in 0 .. M - 1 /\ x \div M \in Nat
OBVIOUS

(* A remainder is determined by being one.                                  *)
LEMMA ModUnique ==
  ASSUME NEW M \in Nat \ {0}, NEW z \in Int, NEW r \in 0 .. M - 1, NEW x \in Int,
         x = M * z + r
  PROVE  x % M = r
OBVIOUS

(* A nonzero multiple of M is at least M away from zero.                    *)
LEMMA Multiples ==
  ASSUME NEW M \in Nat \ {0}, NEW z \in Int, z # 0
  PROVE  M * z >= M \/ M * z <= -M
OBVIOUS

(* Adding before and after the reduction is the same.                       *)
LEMMA AddMod ==
  ASSUME NEW M \in Nat \ {0}, NEW x \in Nat, NEW n \in Nat
  PROVE  ((x % M) + n) % M = (x + n) % M
<1> DEFINE y == x % M
           d == x \div M
           w == y + n
<1>1. x = M * d + y /\ y \in Nat /\ d \in Nat
  BY DivMod
<1>2. w \in Nat
  BY <1>1
<1>3. w = M * (w \div M) + (w % M) /\ w % M \in 0 .. M - 1 /\ w \div M \in Nat
  BY <1>2, DivMod
<1> HIDE DEF d, y
<1>4. PICK v \in Nat : v = w \div M
  BY <1>3
<1>5. PICK r \in 0 .. M - 1 : r = w % M
  BY <1>3
<1>6. w = M * v + r
  BY <1>3, <1>4, <1>5
<1>7. x + n = M * (d + v) + r
  <2>1. x + n = M * d + w
    BY <1>1
  <2>2. M * (d + v) = M * d + M * v
    BY <1>1, <1>4
  <2>3. M * d \in Int /\ M * v \in Int
    BY <1>1, <1>4
  <2> QED BY <2>1, <2>2, <2>3, <1>6
<1>8. x + n \in Int /\ d + v \in Int
  BY <1>1
<1>9. (x + n) % M = r
  BY <1>7, <1>8, ModUnique
<1> QED BY <1>5, <1>9 DEF y

(* What the assumptions on the constants say, one fact at a time.           *)
LEMMA Constants ==
  /\ SeqMod \in Nat \ {0} /\ SeqMod \div 2 \in Nat /\ SeqMod = 2 * (SeqMod \div 2)
  /\ Window \in Nat /\ Window >= 3 /\ Window + 1 < SeqMod \div 2
  /\ \A e \in Ends : Isn[e] \in Nat /\ Isn[e] < SeqMod /\ Peer(e) \in Ends
                     /\ Peer(e) # e /\ Peer(Peer(e)) = e /\ Data[e] \in Nat
                     /\ \A x \in Ends : x = e \/ x = Peer(e)
  /\ RxBuf \in Nat \ {0} /\ TxBuf \in Nat \ {0} /\ Mss \in Nat \ {0}
  /\ MaxRetries \in Nat /\ MaxLoss \in Nat /\ MaxEarly \in Nat
  /\ Rooms \subseteq Nat
<1>1. SeqMod \in Nat /\ SeqMod % 2 = 0 /\ RxBuf \in Nat \ {0} /\ TxBuf \in Nat \ {0}
      /\ SeqMod > 2 * (RxBuf + TxBuf + 2) /\ Mss \in Nat \ {0}
      /\ MaxRetries \in Nat /\ MaxLoss \in Nat /\ MaxEarly \in Nat /\ Rooms \subseteq Nat
  BY TcpAssumption
<1>2. SeqMod \in Nat \ {0} /\ SeqMod \div 2 \in Nat /\ SeqMod = 2 * (SeqMod \div 2)
      /\ Window \in Nat /\ Window >= 3 /\ Window + 1 < SeqMod \div 2
  BY <1>1 DEF Window
<1>3. \A e \in Ends : Isn[e] \in Nat /\ Isn[e] < SeqMod /\ Peer(e) \in Ends
                      /\ Peer(e) # e /\ Peer(Peer(e)) = e /\ Data[e] \in Nat
                      /\ \A x \in Ends : x = e \/ x = Peer(e)
  BY <1>1, TcpAssumption DEF Ends, Peer, Client, Server
<1> QED BY <1>1, <1>2, <1>3

(* Positions map to sequence numbers.                                       *)
LEMMA PosType ==
  ASSUME NEW e \in Ends, NEW k \in Nat
  PROVE  Pos(e, k) \in SeqNo /\ Pos(e, k) \in Nat /\ Pos(e, k) < SeqMod
<1>1. Isn[e] + k \in Nat /\ SeqMod \in Nat \ {0}
  BY Constants
<1>2. (Isn[e] + k) % SeqMod \in 0 .. SeqMod - 1
  BY <1>1, DivMod
<1> QED BY <1>1, <1>2 DEF Pos, Add, SeqNo

(* A sum is a sequence number.                                              *)
LEMMA AddType ==
  ASSUME NEW x \in SeqNo, NEW n \in Nat
  PROVE  Add(x, n) \in SeqNo
<1>1. x + n \in Nat /\ SeqMod \in Nat \ {0}
  BY Constants DEF SeqNo
<1> QED BY <1>1, DivMod DEF Add, SeqNo

(* Moving along the stream is adding to the sequence number.                *)
LEMMA PosAdd ==
  ASSUME NEW e \in Ends, NEW k \in Nat, NEW n \in Nat
  PROVE  Add(Pos(e, k), n) = Pos(e, k + n)
<1>1. Isn[e] + k \in Nat /\ SeqMod \in Nat \ {0}
  BY Constants
<1>2. (((Isn[e] + k) % SeqMod) + n) % SeqMod = ((Isn[e] + k) + n) % SeqMod
  BY <1>1, AddMod
<1>3. (Isn[e] + k) + n = Isn[e] + (k + n)
  BY Constants
<1> QED BY <1>2, <1>3 DEF Pos, Add

(* k is Pos(k) plus a multiple of the modulus, up to the base.              *)
LEMMA PosForm ==
  ASSUME NEW e \in Ends, NEW k \in Nat
  PROVE  \E z \in Int : Isn[e] + k = SeqMod * z + Pos(e, k)
<1>1. Isn[e] + k \in Nat /\ SeqMod \in Nat \ {0}
  BY Constants
<1>2. Isn[e] + k = SeqMod * ((Isn[e] + k) \div SeqMod) + ((Isn[e] + k) % SeqMod)
      /\ (Isn[e] + k) \div SeqMod \in Nat
  BY <1>1, DivMod
<1> QED BY <1>2 DEF Pos, Add

(* Different positions less than SeqMod apart have different numbers.       *)
LEMMA PosDiffer ==
  ASSUME NEW e \in Ends, NEW k \in Nat, NEW m \in Nat
  PROVE  \E z \in Int : k - m = SeqMod * z + (Pos(e, k) - Pos(e, m))
<1>1. PICK x \in Int : Isn[e] + k = SeqMod * x + Pos(e, k)
  BY PosForm
<1>2. PICK y \in Int : Isn[e] + m = SeqMod * y + Pos(e, m)
  BY PosForm
<1>3. Isn[e] \in Nat /\ SeqMod \in Nat /\ Pos(e, k) \in Nat /\ Pos(e, m) \in Nat
  BY Constants, PosType
<1>4. SeqMod * (x - y) = SeqMod * x - SeqMod * y /\ SeqMod * x \in Int /\ SeqMod * y \in Int
  BY <1>3
<1>5. k - m = SeqMod * (x - y) + (Pos(e, k) - Pos(e, m))
  BY <1>1, <1>2, <1>3, <1>4
<1>6. x - y \in Int
  OBVIOUS
<1> QED BY <1>5, <1>6

(* ... so equal numbers mean equal positions.                               *)
LEMMA PosEq ==
  ASSUME NEW e \in Ends, NEW k \in Nat, NEW m \in Nat,
         k < m + SeqMod, m < k + SeqMod, Pos(e, k) = Pos(e, m)
  PROVE  k = m
<1>1. PICK z \in Int : k - m = SeqMod * z + (Pos(e, k) - Pos(e, m))
  BY PosDiffer
<1>2. SeqMod \in Nat \ {0} /\ Pos(e, k) \in Nat /\ Pos(e, m) \in Nat
  BY Constants, PosType
<1>3. k - m = SeqMod * z
  BY <1>1, <1>2
<1>4. z = 0
  BY <1>2, <1>3, Multiples
<1> QED BY <1>2, <1>3, <1>4

(* The distance of two positions, forwards.                                 *)
LEMMA PosDiff ==
  ASSUME NEW e \in Ends, NEW k \in Nat, NEW m \in Nat, m <= k, k < m + SeqMod
  PROVE  Diff(Pos(e, k), Pos(e, m)) = k - m
<1>1. PICK z \in Int : k - m = SeqMod * z + (Pos(e, k) - Pos(e, m))
  BY PosDiffer
<1>2. SeqMod \in Nat \ {0} /\ Pos(e, k) \in Nat /\ Pos(e, m) \in Nat
  BY Constants, PosType
<1> DEFINE x == Pos(e, k) + SeqMod - Pos(e, m)
<1>3. SeqMod * (1 - z) = SeqMod - SeqMod * z /\ SeqMod * z \in Int
  BY <1>2
<1>4. x = SeqMod * (1 - z) + (k - m)
  BY <1>1, <1>2, <1>3
<1>5. 1 - z \in Int /\ x \in Int /\ k - m \in 0 .. SeqMod - 1
  BY <1>2
<1> DEFINE r == k - m
           v == 1 - z
<1>6. x = SeqMod * v + r /\ v \in Int /\ x \in Int /\ r \in 0 .. SeqMod - 1
  BY <1>4, <1>5
<1> HIDE DEF x, v, r
<1>7. x % SeqMod = r
  BY <1>2, <1>6, ModUnique
<1> QED BY <1>7 DEF Diff, x, r

(* A position behind another by at most a window is more than half away.    *)
LEMMA PosDiffBack ==
  ASSUME NEW e \in Ends, NEW k \in Nat, NEW m \in Nat, k < m, m < k + SeqMod
  PROVE  Diff(Pos(e, k), Pos(e, m)) = SeqMod - (m - k)
<1>1. PICK z \in Int : k - m = SeqMod * z + (Pos(e, k) - Pos(e, m))
  BY PosDiffer
<1>2. SeqMod \in Nat \ {0} /\ Pos(e, k) \in Nat /\ Pos(e, m) \in Nat
  BY Constants, PosType
<1> DEFINE x == Pos(e, k) + SeqMod - Pos(e, m)
<1>3. SeqMod * (-z) = -(SeqMod * z) /\ SeqMod * z \in Int
  BY <1>2
<1>4. x = SeqMod * (-z) + (SeqMod - (m - k))
  BY <1>1, <1>2, <1>3
<1>5. -z \in Int /\ x \in Int /\ SeqMod - (m - k) \in 0 .. SeqMod - 1
  BY <1>2
<1> DEFINE r == SeqMod - (m - k)
           v == -z
<1>6. x = SeqMod * v + r /\ v \in Int /\ x \in Int /\ r \in 0 .. SeqMod - 1
  BY <1>4, <1>5
<1> HIDE DEF x, v, r
<1>7. x % SeqMod = r
  BY <1>2, <1>6, ModUnique
<1> QED BY <1>7 DEF Diff, x, r

(* seq_gt compares positions, as long as they are within half the number    *)
(* space.                                                                   *)
LEMMA PosGt ==
  ASSUME NEW e \in Ends, NEW k \in Nat, NEW m \in Nat,
         k <= m + Window + 1, m <= k + Window + 1
  PROVE  /\ seq_gt(Pos(e, k), Pos(e, m)) <=> k > m
         /\ seq_leq(Pos(e, k), Pos(e, m)) <=> k <= m
<1>1. SeqMod \in Nat \ {0} /\ Window \in Nat /\ Window + 1 < SeqMod \div 2
      /\ SeqMod \div 2 \in Nat /\ SeqMod = 2 * (SeqMod \div 2)
  BY Constants
<1>2. CASE m <= k
  <2>1. Diff(Pos(e, k), Pos(e, m)) = k - m
    BY <1>1, <1>2, PosDiff
  <2> QED BY <1>1, <1>2, <2>1 DEF seq_gt, seq_leq
<1>3. CASE k < m
  <2>1. Diff(Pos(e, k), Pos(e, m)) = SeqMod - (m - k)
    BY <1>1, <1>3, PosDiffBack
  <2> QED BY <1>1, <1>3, <2>1 DEF seq_gt, seq_leq
<1> QED BY <1>2, <1>3

USE DEF Live, Acks

-----------------------------------------------------------------------------
(* Segments and chains.                                                     *)

(* Where a segment ends.                                                    *)
LEMMA EndType ==
  ASSUME NEW s \in SegT, NEW k \in Nat
  PROVE  /\ s.data \in Seq(Nat) /\ Len(s.data) \in Nat /\ (Len(s.data) = 0 <=> s.data = <<>>)
         /\ End(s, k) \in Nat /\ k + Len(s.data) <= End(s, k)
         /\ "FIN" \in s.flags \/ "SYN" \in s.flags => k + Len(s.data) < End(s, k)
         /\ "FIN" \notin s.flags /\ "SYN" \notin s.flags => End(s, k) = k + Len(s.data)
         /\ ~("FIN" \in s.flags /\ "SYN" \in s.flags) => End(s, k) <= k + Len(s.data) + 1
<1>1. s.data \in Seq(Nat)
  BY DEF SegT
<1>2. Len(s.data) \in Nat /\ (Len(s.data) = 0 <=> s.data = <<>>)
  BY <1>1
<1>3. \A f : /\ Has(s, f) \in Nat /\ (f \in s.flags => Has(s, f) = 1)
            /\ (f \notin s.flags => Has(s, f) = 0)
  BY DEF Has
<1>4. PICK x \in Nat : x = Has(s, "FIN")
  BY <1>3
<1>5. PICK y \in Nat : y = Has(s, "SYN")
  BY <1>3
<1>6. End(s, k) = k + Len(s.data) + x + y
  BY <1>4, <1>5 DEF End
<1>7. /\ "FIN" \in s.flags => x = 1
      /\ "FIN" \notin s.flags => x = 0
      /\ "SYN" \in s.flags => y = 1
      /\ "SYN" \notin s.flags => y = 0
  BY <1>3, <1>4, <1>5
<1> QED BY <1>1, <1>2, <1>6, <1>7

(* A segment stays a segment as the streams grow.                           *)
LEMMA SegGrow ==
  ASSUME NEW e \in Ends, NEW s \in SegT, NEW k \in Nat, NEW x \in Nat,
         NEW W \in Nat, NEW top \in Nat, NEW rcv \in Nat, NEW lo \in Nat, NEW low \in Nat,
         NEW W2 \in Nat, NEW top2 \in Nat, NEW rcv2 \in Nat, NEW lo2 \in Nat, NEW low2 \in Nat,
         Seg(e, s, k, x, W, top, rcv, lo, low),
         W2 = W \/ (W <= W2 /\ top <= 1 + W), top <= top2, rcv <= rcv2,
         lo2 <= k + Window, low2 = 0 \/ (Acks(s) /\ low2 <= x)
  PROVE  Seg(e, s, k, x, W2, top2, rcv2, lo2, low2)
<1>1. /\ s.data \in Seq(Nat) /\ Len(s.data) \in Nat /\ End(s, k) \in Nat
      /\ "FIN" \in s.flags => k + Len(s.data) < End(s, k)
  BY EndType
<1>2. End(s, k) <= top /\ ("FIN" \in s.flags => W2 = W)
  BY <1>1 DEF Seg
<1> QED BY <1>1, <1>2 DEF Seg

(* ... and as the other end moves on, if it is not left too far behind.     *)
LEMMA SegShift ==
  ASSUME NEW e \in Ends, NEW s \in SegT, NEW k \in Nat, NEW x \in Nat,
         NEW W \in Nat, NEW top \in Nat, NEW rcv \in Nat, NEW lo \in Nat, NEW low \in Nat,
         NEW lo2 \in Nat, NEW low2 \in Nat,
         Seg(e, s, k, x, W, top, rcv, lo, low),
         lo2 <= k + Window, low2 = 0 \/ (Acks(s) /\ low2 <= x)
  PROVE  Seg(e, s, k, x, W, top, rcv, lo2, low2)
BY DEF Seg

(* The window is a number.                                                  *)
LEMMA WindowNat == Window \in Nat
BY Constants

(* What a segment says about its end and its acknowledgement.               *)
LEMMA SegEnd ==
  ASSUME NEW e \in Ends, NEW s \in SegT, NEW k \in Nat, NEW x \in Nat,
         NEW W \in Nat, NEW top \in Nat, NEW rcv \in Nat, NEW lo \in Nat, NEW low \in Nat,
         Seg(e, s, k, x, W, top, rcv, lo, low)
  PROVE  /\ End(s, k) \in Nat /\ 1 <= End(s, k) /\ k <= End(s, k) /\ End(s, k) <= top
         /\ Acks(s) => 1 <= x /\ x <= rcv
         /\ low = 0 \/ (Acks(s) /\ low <= x)
         /\ lo <= k + Window
<1>1. Len(s.data) \in Nat /\ End(s, k) \in Nat /\ k + Len(s.data) <= End(s, k)
      /\ ("SYN" \in s.flags => k + Len(s.data) < End(s, k))
  BY EndType
<1>2. k <= End(s, k) /\ ("SYN" \in s.flags => k < End(s, k))
  BY <1>1
<1>3. 1 <= End(s, k) /\ End(s, k) <= top
  BY <1>1, <1>2 DEF Seg
<1>4. Acks(s) => 1 <= x /\ x <= rcv
  BY DEF Seg
<1>5. low = 0 \/ (Acks(s) /\ low <= x)
  BY DEF Seg
<1>6. lo <= k + Window
  BY DEF Seg
<1> QED BY <1>1, <1>2, <1>3, <1>4, <1>5, <1>6

(* An element of a sequence of numbers.                                     *)
LEMMA ElemNat ==
  ASSUME NEW s \in Seq(Nat), NEW i \in 1 .. Len(s)
  PROVE  s[i] \in Nat
OBVIOUS

(* A chain stays one as the streams grow.                                   *)
LEMMA ChainGrow ==
  ASSUME NEW e \in Ends, NEW N, NEW q, NEW a,
         NEW W \in Nat, NEW top \in Nat, NEW rcv \in Nat, NEW lo \in Nat, NEW low \in Nat,
         NEW W2 \in Nat, NEW top2 \in Nat, NEW rcv2 \in Nat,
         Chain(e, N, q, a, W, top, rcv, lo, low),
         W2 = W \/ (W <= W2 /\ top <= 1 + W), top <= top2, rcv <= rcv2
  PROVE  Chain(e, N, q, a, W2, top2, rcv2, lo, low)
<1>1. \A i \in 1 .. Len(N) : Live(N[i]) => Seg(e, N[i], q[i], a[i], W2, top2, rcv2, lo, low)
  <2> SUFFICES ASSUME NEW i \in 1 .. Len(N), Live(N[i])
               PROVE  Seg(e, N[i], q[i], a[i], W2, top2, rcv2, lo, low)
    OBVIOUS
  <2>1. N[i] \in SegT /\ q[i] \in Nat /\ a[i] \in Nat
    <3>1. PICK S : S = SegT
      OBVIOUS
    <3>2. /\ N \in Seq(S) /\ q \in Seq(Nat) /\ a \in Seq(Nat)
          /\ Len(q) = Len(N) /\ Len(a) = Len(N)
      BY <3>1 DEF Chain
    <3>3. N[i] \in S
      BY <3>2
    <3>4. i \in 1 .. Len(q) /\ i \in 1 .. Len(a)
      BY <3>2
    <3>5. q[i] \in Nat /\ a[i] \in Nat
      BY <3>2, <3>4, ElemNat
    <3> QED BY <3>1, <3>3, <3>5
  <2>2. Seg(e, N[i], q[i], a[i], W, top, rcv, lo, low)
    BY DEF Chain
  <2>3. (low = 0 \/ (Acks(N[i]) /\ low <= a[i])) /\ lo <= q[i] + Window
    BY <2>1, <2>2, SegEnd
  <2> QED BY <2>1, <2>2, <2>3, SegGrow
<1> QED BY <1>1 DEF Chain

(* ... and when its first segment is delivered.                             *)
LEMMA ChainTail ==
  ASSUME NEW e \in Ends, NEW N, NEW q, NEW a, N # <<>>,
         NEW W \in Nat, NEW top \in Nat, NEW rcv \in Nat, NEW lo \in Nat, NEW low \in Nat,
         NEW lo2 \in Nat, NEW low2 \in Nat,
         Chain(e, N, q, a, W, top, rcv, lo, low),
         lo2 <= lo \/ (Live(Head(N)) /\ lo2 <= End(Head(N), Head(q))),
         low2 <= low \/ (Live(Head(N)) /\ Acks(Head(N)) /\ low2 <= Head(a))
  PROVE  Chain(e, Tail(N), Tail(q), Tail(a), W, top, rcv, lo2, low2)
<1>1. N \in Seq(SegT) /\ q \in Seq(Nat) /\ a \in Seq(Nat) /\ Len(q) = Len(N) /\ Len(a) = Len(N)
  BY DEF Chain
<1>2. /\ Tail(N) \in Seq(SegT) /\ Tail(q) \in Seq(Nat) /\ Tail(a) \in Seq(Nat)
      /\ Len(Tail(N)) = Len(N) - 1 /\ Len(Tail(q)) = Len(N) - 1 /\ Len(Tail(a)) = Len(N) - 1
      /\ \A i \in 1 .. Len(N) - 1 : /\ Tail(N)[i] = N[i + 1] /\ Tail(q)[i] = q[i + 1]
                                    /\ Tail(a)[i] = a[i + 1]
      /\ Head(N) = N[1] /\ Head(q) = q[1] /\ Head(a) = a[1] /\ 1 \in 1 .. Len(N)
  BY <1>1
<1>3. \A i \in 1 .. Len(N) : Live(N[i]) => Seg(e, N[i], q[i], a[i], W, top, rcv, lo, low)
  BY DEF Chain
<1>4. \A i, j \in 1 .. Len(N) : i < j /\ Live(N[i]) /\ Live(N[j]) =>
         /\ End(N[i], q[i]) <= q[j] + Window
         /\ Acks(N[i]) => Acks(N[j]) /\ a[i] <= a[j]
  BY DEF Chain
<1>5. ASSUME NEW j \in 1 .. Len(N) - 1, Live(N[j + 1])
      PROVE  Seg(e, N[j + 1], q[j + 1], a[j + 1], W, top, rcv, lo2, low2)
  <2>1. j + 1 \in 1 .. Len(N) /\ 1 < j + 1 /\ 1 \in 1 .. Len(N)
    <3>1. PICK L \in Nat : L = Len(N)
      BY <1>1
    <3>2. j \in 1 .. L - 1
      BY <3>1
    <3>3. j + 1 \in 1 .. L /\ 1 < j + 1 /\ 1 \in 1 .. L
      BY <3>2
    <3> QED BY <3>1, <3>3
  <2>2. N[j + 1] \in SegT /\ q[j + 1] \in Nat /\ a[j + 1] \in Nat
        /\ N[1] \in SegT /\ q[1] \in Nat /\ a[1] \in Nat
    <3>1. PICK S, k : S = SegT /\ k = j + 1
      OBVIOUS
    <3>2. N \in Seq(S) /\ k \in 1 .. Len(N) /\ 1 \in 1 .. Len(N)
      BY <1>1, <2>1, <3>1
    <3>3. N[k] \in S /\ N[1] \in S
      BY <3>2
    <3>4. k \in 1 .. Len(q) /\ 1 \in 1 .. Len(q) /\ k \in 1 .. Len(a) /\ 1 \in 1 .. Len(a)
      BY <1>1, <3>2
    <3>5. q[k] \in Nat /\ q[1] \in Nat /\ a[k] \in Nat /\ a[1] \in Nat
      BY <1>1, <3>4, ElemNat
    <3> QED BY <3>1, <3>3, <3>5
  <2>3. Seg(e, N[j + 1], q[j + 1], a[j + 1], W, top, rcv, lo, low)
    BY <1>3, <1>5, <2>1
  <2>4. /\ low = 0 \/ (Acks(N[j + 1]) /\ low <= a[j + 1])
        /\ lo <= q[j + 1] + Window
    BY <2>2, <2>3, SegEnd
  <2>5. Live(N[1]) => /\ End(N[1], q[1]) <= q[j + 1] + Window
                      /\ Acks(N[1]) => Acks(N[j + 1]) /\ a[1] <= a[j + 1]
    BY <1>4, <1>5, <2>1
  <2>6. Live(N[1]) => End(N[1], q[1]) \in Nat
    BY <1>3, <2>1, <2>2, SegEnd
  <2>7. lo2 <= q[j + 1] + Window
    <3>1. CASE lo2 <= lo
      BY <3>1, <2>2, <2>4, WindowNat
    <3>2. CASE Live(Head(N)) /\ lo2 <= End(Head(N), Head(q))
      <4>1. Live(N[1]) /\ lo2 <= End(N[1], q[1])
        BY <1>2, <3>2
      <4> QED BY <4>1, <2>2, <2>5, <2>6, WindowNat
    <3> QED BY <3>1, <3>2
  <2>8. low2 = 0 \/ (Acks(N[j + 1]) /\ low2 <= a[j + 1])
    <3>1. CASE low2 <= low
      BY <2>2, <2>4, <3>1
    <3>2. CASE Live(Head(N)) /\ Acks(Head(N)) /\ low2 <= Head(a)
      <4>1. Live(N[1]) /\ Acks(N[1]) /\ low2 <= a[1]
        BY <1>2, <3>2
      <4> QED BY <2>2, <2>5, <4>1
    <3> QED BY <3>1, <3>2
  <2> QED BY <2>2, <2>3, <2>7, <2>8, SegShift
<1>6. \A i \in 1 .. Len(Tail(N)) : Live(Tail(N)[i]) =>
        Seg(e, Tail(N)[i], Tail(q)[i], Tail(a)[i], W, top, rcv, lo2, low2)
  BY <1>2, <1>5
<1>7. \A i, j \in 1 .. Len(Tail(N)) : i < j /\ Live(Tail(N)[i]) /\ Live(Tail(N)[j]) =>
         /\ End(Tail(N)[i], Tail(q)[i]) <= Tail(q)[j] + Window
         /\ Acks(Tail(N)[i]) => Acks(Tail(N)[j]) /\ Tail(a)[i] <= Tail(a)[j]
  <2> SUFFICES ASSUME NEW i \in 1 .. Len(Tail(N)), NEW j \in 1 .. Len(Tail(N)),
                      i < j, Live(Tail(N)[i]), Live(Tail(N)[j])
               PROVE  /\ End(Tail(N)[i], Tail(q)[i]) <= Tail(q)[j] + Window
                      /\ Acks(Tail(N)[i]) => Acks(Tail(N)[j]) /\ Tail(a)[i] <= Tail(a)[j]
    OBVIOUS
  <2>A. i \in 1 .. Len(N) - 1 /\ j \in 1 .. Len(N) - 1
    BY <1>2
  <2>B. /\ Tail(N)[i] = N[i + 1] /\ Tail(q)[i] = q[i + 1] /\ Tail(a)[i] = a[i + 1]
        /\ Tail(N)[j] = N[j + 1] /\ Tail(q)[j] = q[j + 1] /\ Tail(a)[j] = a[j + 1]
    BY <1>2, <2>A
  <2>1. i + 1 \in 1 .. Len(N) /\ j + 1 \in 1 .. Len(N) /\ i + 1 < j + 1
    <3>1. PICK L \in Nat : L = Len(N)
      BY <1>1
    <3>2. i \in 1 .. L - 1 /\ j \in 1 .. L - 1 /\ i < j
      BY <3>1, <2>A
    <3>3. i + 1 \in 1 .. L /\ j + 1 \in 1 .. L /\ i + 1 < j + 1
      BY <3>2
    <3> QED BY <3>1, <3>3
  <2>2. Live(N[i + 1]) /\ Live(N[j + 1])
    BY <2>B
  <2>3. /\ End(N[i + 1], q[i + 1]) <= q[j + 1] + Window
        /\ Acks(N[i + 1]) => Acks(N[j + 1]) /\ a[i + 1] <= a[j + 1]
    BY <1>4, <2>1, <2>2
  <2> QED BY <2>B, <2>3
<1>8. Len(Tail(q)) = Len(Tail(N)) /\ Len(Tail(a)) = Len(Tail(N))
  BY <1>2
<1> QED BY <1>2, <1>6, <1>7, <1>8 DEF Chain

(* A concatenation, element by element.                                     *)
LEMMA ConcatFacts ==
  ASSUME NEW S, NEW s \in Seq(S), NEW t \in Seq(S)
  PROVE  /\ s \o t \in Seq(S) /\ Len(s \o t) = Len(s) + Len(t)
         /\ \A i \in 1 .. Len(s) : (s \o t)[i] = s[i]
         /\ \A i \in 1 .. Len(t) : (s \o t)[Len(s) + i] = t[i]
         /\ \A i \in 1 .. Len(s \o t) : i \in 1 .. Len(s) \/ \E j \in 1 .. Len(t) : i = Len(s) + j
<1>1. Len(s) \in Nat /\ Len(t) \in Nat
  OBVIOUS
<1>2. s \o t \in Seq(S) /\ Len(s \o t) = Len(s) + Len(t)
  OBVIOUS
<1>3. \A i \in 1 .. Len(s) : (s \o t)[i] = s[i]
  BY <1>1
<1>4. \A i \in 1 .. Len(t) : (s \o t)[Len(s) + i] = t[i]
  BY <1>1
<1>5. ASSUME NEW i \in 1 .. Len(s \o t), i \notin 1 .. Len(s)
      PROVE  \E j \in 1 .. Len(t) : i = Len(s) + j
  <2>1. i - Len(s) \in 1 .. Len(t) /\ i = Len(s) + (i - Len(s))
    BY <1>1, <1>2, <1>5
  <2> QED BY <2>1
<1> QED BY <1>2, <1>3, <1>4, <1>5

(* The same for sequences of numbers.                                       *)
LEMMA ConcatNat ==
  ASSUME NEW s \in Seq(Nat), NEW t \in Seq(Nat)
  PROVE  /\ s \o t \in Seq(Nat) /\ Len(s \o t) = Len(s) + Len(t)
         /\ \A i \in 1 .. Len(s) : (s \o t)[i] = s[i]
         /\ \A i \in 1 .. Len(t) : (s \o t)[Len(s) + i] = t[i]
         /\ \A i \in 1 .. Len(s \o t) : i \in 1 .. Len(s) \/ \E j \in 1 .. Len(t) : i = Len(s) + j
<1>1. Len(s) \in Nat /\ Len(t) \in Nat
  OBVIOUS
<1>2. s \o t \in Seq(Nat) /\ Len(s \o t) = Len(s) + Len(t)
  OBVIOUS
<1>3. \A i \in 1 .. Len(s) : (s \o t)[i] = s[i]
  BY <1>1
<1>4. \A i \in 1 .. Len(t) : (s \o t)[Len(s) + i] = t[i]
  BY <1>1
<1>5. ASSUME NEW i \in 1 .. Len(s \o t), i \notin 1 .. Len(s)
      PROVE  \E j \in 1 .. Len(t) : i = Len(s) + j
  <2>1. i - Len(s) \in 1 .. Len(t) /\ i = Len(s) + (i - Len(s))
    BY <1>1, <1>2, <1>5
  <2> QED BY <2>1
<1> QED BY <1>2, <1>3, <1>4, <1>5

(* What a handler emitted goes behind what is in flight.                    *)
LEMMA ChainConcat ==
  ASSUME NEW e \in Ends, NEW N, NEW q, NEW a, NEW N2, NEW q2, NEW a2,
         NEW W \in Nat, NEW top \in Nat, NEW rcv \in Nat, NEW lo \in Nat, NEW low \in Nat,
         NEW W2 \in Nat, NEW top2 \in Nat, NEW rcv2 \in Nat,
         Chain(e, N, q, a, W, top, rcv, lo, low),
         Chain(e, N2, q2, a2, W2, top2, rcv2, top, rcv),
         W2 = W \/ (W <= W2 /\ top <= 1 + W), top <= top2, rcv <= rcv2,
         lo <= top, low <= rcv
  PROVE  Chain(e, N \o N2, q \o q2, a \o a2, W2, top2, rcv2, lo, low)
<1>1. Chain(e, N, q, a, W2, top2, rcv2, lo, low)
  BY ChainGrow
<1>2. /\ N \in Seq(SegT) /\ q \in Seq(Nat) /\ a \in Seq(Nat)
      /\ N2 \in Seq(SegT) /\ q2 \in Seq(Nat) /\ a2 \in Seq(Nat)
      /\ Len(q) = Len(N) /\ Len(a) = Len(N) /\ Len(q2) = Len(N2) /\ Len(a2) = Len(N2)
      /\ Len(N) \in Nat /\ Len(N2) \in Nat
  BY DEF Chain
<1>A. N \in Seq(SegT) /\ N2 \in Seq(SegT)
  BY <1>2
<1>B. q \in Seq(Nat) /\ q2 \in Seq(Nat) /\ Len(q) = Len(N) /\ Len(q2) = Len(N2)
  BY <1>2
<1>C. a \in Seq(Nat) /\ a2 \in Seq(Nat) /\ Len(a) = Len(N) /\ Len(a2) = Len(N2)
  BY <1>2
<1> DEFINE M == N \o N2
           r == q \o q2
           b == a \o a2
           n == Len(N)
           m == Len(N2)
<1>3. /\ M \in Seq(SegT) /\ r \in Seq(Nat) /\ b \in Seq(Nat)
      /\ Len(M) = n + m /\ Len(r) = n + m /\ Len(b) = n + m
  <2>1. M \in Seq(SegT) /\ Len(M) = n + m
    BY <1>A, ConcatFacts
  <2>2. r \in Seq(Nat) /\ Len(r) = n + m
    BY <1>B, ConcatNat
  <2>3. b \in Seq(Nat) /\ Len(b) = n + m
    BY <1>C, ConcatNat
  <2> QED BY <2>1, <2>2, <2>3
<1>4. \A i \in 1 .. n : M[i] = N[i] /\ r[i] = q[i] /\ b[i] = a[i]
  <2>1. \A i \in 1 .. Len(N) : (N \o N2)[i] = N[i]
    BY <1>A, ConcatFacts
  <2>2. \A i \in 1 .. Len(q) : (q \o q2)[i] = q[i]
    BY <1>B, ConcatNat
  <2>3. \A i \in 1 .. Len(a) : (a \o a2)[i] = a[i]
    BY <1>C, ConcatNat
  <2> QED BY <1>2, <2>1, <2>2, <2>3
<1>5. \A i \in 1 .. m : M[n + i] = N2[i] /\ r[n + i] = q2[i] /\ b[n + i] = a2[i]
  <2>1. \A i \in 1 .. Len(N2) : (N \o N2)[Len(N) + i] = N2[i]
    <3>1. PICK S : S = SegT
      OBVIOUS
    <3>2. N \in Seq(S) /\ N2 \in Seq(S)
      BY <1>A, <3>1
    <3>3. Len(N) \in Nat /\ Len(N2) \in Nat
      BY <3>2
    <3>4. \A i \in 1 .. Len(N2) : (N \o N2)[Len(N) + i] = N2[i]
      BY <3>2, <3>3
    <3> QED BY <3>4
  <2>2. \A i \in 1 .. Len(q2) : (q \o q2)[Len(q) + i] = q2[i]
    BY <1>B, ConcatNat
  <2>3. \A i \in 1 .. Len(a2) : (a \o a2)[Len(a) + i] = a2[i]
    BY <1>C, ConcatNat
  <2> QED BY <1>2, <2>1, <2>2, <2>3
<1>6. \A i \in 1 .. Len(M) : i \in 1 .. n \/ \E j \in 1 .. m : i = n + j
  BY <1>2, ConcatFacts
<1> HIDE DEF M, r, b, n, m
<1>7. \A i \in 1 .. n : Live(N[i]) => Seg(e, N[i], q[i], a[i], W2, top2, rcv2, lo, low)
  BY <1>1 DEF Chain, n
<1>8. ASSUME NEW i \in 1 .. m, Live(N2[i])
      PROVE  /\ Seg(e, N2[i], q2[i], a2[i], W2, top2, rcv2, lo, low)
             /\ top <= q2[i] + Window
             /\ rcv = 0 \/ (Acks(N2[i]) /\ rcv <= a2[i])
  <2>1. N2[i] \in SegT /\ q2[i] \in Nat /\ a2[i] \in Nat
    <3>1. PICK S : S = SegT
      OBVIOUS
    <3>2. N2 \in Seq(S) /\ i \in 1 .. Len(N2)
      BY <1>2, <3>1 DEF m
    <3>3. N2[i] \in S
      BY <3>2
    <3>4. i \in 1 .. Len(q2) /\ i \in 1 .. Len(a2)
      BY <1>2 DEF m
    <3>5. q2[i] \in Nat /\ a2[i] \in Nat
      BY <1>2, <3>4, ElemNat
    <3> QED BY <3>1, <3>3, <3>5
  <2>2. Seg(e, N2[i], q2[i], a2[i], W2, top2, rcv2, top, rcv)
    BY <1>8 DEF Chain, m
  <2>3. top <= q2[i] + Window /\ (rcv = 0 \/ (Acks(N2[i]) /\ rcv <= a2[i]))
    BY <2>1, <2>2, SegEnd
  <2>4. lo <= q2[i] + Window /\ (low = 0 \/ (Acks(N2[i]) /\ low <= a2[i]))
    BY <2>1, <2>3, Constants
  <2>5. Seg(e, N2[i], q2[i], a2[i], W2, top2, rcv2, lo, low)
    BY <2>1, <2>2, <2>4, SegShift
  <2> QED BY <2>3, <2>5
<1>9. ASSUME NEW i \in 1 .. Len(M), Live(M[i])
      PROVE  Seg(e, M[i], r[i], b[i], W2, top2, rcv2, lo, low)
  <2>1. CASE i \in 1 .. n
    BY <1>4, <1>7, <1>9, <2>1
  <2>2. CASE ~(i \in 1 .. n)
    <3>1. PICK j \in 1 .. m : i = n + j
      BY <1>6, <2>2
    <3>2. M[i] = N2[j] /\ r[i] = q2[j] /\ b[i] = a2[j]
      BY <1>5, <3>1
    <3> QED BY <1>8, <1>9, <3>2
  <2> QED BY <2>1, <2>2
<1>10. ASSUME NEW i \in 1 .. Len(M), NEW j \in 1 .. Len(M), i < j, Live(M[i]), Live(M[j])
       PROVE  /\ End(M[i], r[i]) <= r[j] + Window
              /\ Acks(M[i]) => Acks(M[j]) /\ b[i] <= b[j]
  <2>0. n \in Nat /\ m \in Nat
    BY <1>2 DEF n, m
  <2>1. CASE j \in 1 .. n
    <3>1. i \in 1 .. n
      BY <2>0, <2>1, <1>3, <1>10
    <3> QED BY <3>1, <2>1, <1>1, <1>4, <1>10 DEF Chain, n
  <2>2. CASE i \in 1 .. n /\ ~(j \in 1 .. n)
    <3>1. PICK y \in 1 .. m : j = n + y
      BY <2>2, <1>6
    <3>2. Live(N[i]) /\ Live(N2[y]) /\ M[i] = N[i] /\ r[i] = q[i] /\ b[i] = a[i]
          /\ M[j] = N2[y] /\ r[j] = q2[y] /\ b[j] = a2[y]
      BY <3>1, <2>2, <1>4, <1>5, <1>10
    <3>3. N[i] \in SegT /\ q[i] \in Nat /\ a[i] \in Nat /\ q2[y] \in Nat /\ a2[y] \in Nat
      <4>1. i \in 1 .. Len(N) /\ y \in 1 .. Len(N2)
        BY <2>2 DEF n, m
      <4>2. N[i] \in SegT
        BY <1>A, <4>1
      <4>3. q[i] \in Nat /\ q2[y] \in Nat
        <5>1. i \in 1 .. Len(q) /\ y \in 1 .. Len(q2)
          BY <1>B, <4>1
        <5> QED BY <1>B, <5>1, ElemNat
      <4>4. a[i] \in Nat /\ a2[y] \in Nat
        <5>1. i \in 1 .. Len(a) /\ y \in 1 .. Len(a2)
          BY <1>C, <4>1
        <5> QED BY <1>C, <5>1, ElemNat
      <4> QED BY <4>2, <4>3, <4>4
    <3>4. Seg(e, N[i], q[i], a[i], W, top, rcv, lo, low)
      BY <3>2, <2>2 DEF Chain, n
    <3>5. End(N[i], q[i]) \in Nat /\ End(N[i], q[i]) <= top
          /\ (Acks(N[i]) => 1 <= a[i] /\ a[i] <= rcv)
      BY <3>3, <3>4, SegEnd
    <3>6. top <= q2[y] + Window /\ (rcv = 0 \/ (Acks(N2[y]) /\ rcv <= a2[y]))
      BY <3>2, <1>8
    <3>7. End(N[i], q[i]) <= q2[y] + Window
      <4>1. PICK u, v : u = End(N[i], q[i]) /\ v = q2[y]
        OBVIOUS
      <4>2. u \in Nat /\ v \in Nat
        BY <3>3, <3>5, <4>1
      <4>3. u <= top /\ top <= v + Window
        BY <3>5, <3>6, <4>1
      <4>4. u <= v + Window
        BY <4>2, <4>3, WindowNat
      <4> QED BY <4>1, <4>4
    <3>8. Acks(N[i]) => Acks(N2[y]) /\ a[i] <= a2[y]
      <4> SUFFICES ASSUME Acks(N[i]) PROVE Acks(N2[y]) /\ a[i] <= a2[y]
        OBVIOUS
      <4>1. PICK u, v : u = a[i] /\ v = a2[y]
        OBVIOUS
      <4>2. u \in Nat /\ v \in Nat /\ 1 <= u /\ u <= rcv
        BY <3>3, <3>5, <4>1
      <4>3. Acks(N2[y]) /\ rcv <= v
        BY <3>6, <4>1, <4>2
      <4> QED BY <4>1, <4>2, <4>3
    <3> QED BY <3>2, <3>7, <3>8
  <2>3. CASE ~(i \in 1 .. n)
    <3>1. PICK x \in 1 .. m : i = n + x
      BY <2>3, <1>6
    <3>2. ~(j \in 1 .. n)
      BY <2>0, <3>1, <1>10
    <3>3. PICK y \in 1 .. m : j = n + y
      BY <3>2, <1>6
    <3>4. x < y
      BY <2>0, <3>1, <3>3, <1>10
    <3>5. /\ M[i] = N2[x] /\ r[i] = q2[x] /\ b[i] = a2[x]
          /\ M[j] = N2[y] /\ r[j] = q2[y] /\ b[j] = a2[y]
      BY <3>1, <3>3, <1>5
    <3>6. Live(N2[x]) /\ Live(N2[y])
      BY <3>5, <1>10
    <3>7. /\ End(N2[x], q2[x]) <= q2[y] + Window
          /\ Acks(N2[x]) => Acks(N2[y]) /\ a2[x] <= a2[y]
      BY <3>4, <3>6 DEF Chain, m
    <3> QED BY <3>5, <3>7
  <2> QED BY <2>1, <2>2, <2>3
<1>11. Chain(e, M, r, b, W2, top2, rcv2, lo, low)
  <2>1. Len(r) = Len(M) /\ Len(b) = Len(M)
    BY <1>3
  <2> QED BY <2>1, <1>3, <1>9, <1>10 DEF Chain
<1> QED BY <1>11 DEF M, r, b

(* Nothing is under way.                                                    *)
LEMMA ChainEmpty ==
  ASSUME NEW e \in Ends, NEW W, NEW top, NEW rcv, NEW lo, NEW low
  PROVE  Chain(e, <<>>, <<>>, <<>>, W, top, rcv, lo, low)
BY DEF Chain

(* One segment is under way.                                                *)
LEMMA ChainOne ==
  ASSUME NEW e \in Ends, NEW s \in SegT, NEW k \in Nat, NEW x \in Nat,
         NEW W, NEW top, NEW rcv, NEW lo, NEW low,
         Live(s) => Seg(e, s, k, x, W, top, rcv, lo, low)
  PROVE  Chain(e, <<s>>, <<k>>, <<x>>, W, top, rcv, lo, low)
<1>1. /\ <<s>> \in Seq(SegT) /\ <<k>> \in Seq(Nat) /\ <<x>> \in Seq(Nat)
      /\ Len(<<s>>) = 1 /\ Len(<<k>>) = 1 /\ Len(<<x>>) = 1
      /\ <<s>>[1] = s /\ <<k>>[1] = k /\ <<x>>[1] = x
  OBVIOUS
<1>2. \A i \in 1 .. 1 : i = 1
  OBVIOUS
<1>3. \A i, j \in 1 .. 1 : ~(i < j)
  OBVIOUS
<1> QED BY <1>1, <1>2, <1>3 DEF Chain

-----------------------------------------------------------------------------
(* Emitting.                                                                *)

(* The fields of an entry.                                                  *)
LEMMA ConnType ==
  ASSUME NEW c \in ConnT
  PROVE  /\ c.used \in BOOLEAN /\ c.state \in States /\ c.fin_pending \in BOOLEAN
         /\ c.fin_sent \in BOOLEAN /\ c.fin_seq \in SeqNo /\ c.orphan \in BOOLEAN
         /\ c.peer_fin \in BOOLEAN /\ c.reset \in BOOLEAN /\ c.snd_una \in SeqNo
         /\ c.snd_nxt \in SeqNo /\ c.snd_wnd \in Nat /\ c.tx \in Seq(Nat)
         /\ c.rcv_nxt \in SeqNo /\ c.rx \in Seq(Nat) /\ c.rto \in BOOLEAN
         /\ c.retries \in 0 .. MaxRetries + 1 /\ c.parent \in BOOLEAN /\ c.out \in Seq(SegT)
BY DEF ConnT

(* Sequences have a length.                                                 *)
LEMMA SeqFacts ==
  ASSUME NEW s \in Seq(Nat)
  PROVE  /\ Len(s) \in Nat /\ (Len(s) = 0 <=> s = <<>>)
         /\ \A i \in 1 .. Len(s) : s[i] \in Nat
OBVIOUS

(* The parts of an entry in the middle of a handler.                        *)
LEMMA MidType ==
  ASSUME NEW x, NEW c, NEW g, NEW q, NEW a, Mid(x, c, g, q, a)
  PROVE  /\ x.e \in Ends /\ x.W \in Nat /\ x.en \in BOOLEAN /\ x.rd \in Seq(Nat)
         /\ x.Wp \in Nat /\ x.ep \in BOOLEAN /\ x.rp \in Nat /\ x.t0 \in Nat /\ x.r0 \in Nat
         /\ g.una \in Nat /\ g.nxt \in Nat /\ g.rcv \in Nat /\ g.top \in Nat /\ g.fin \in Nat
         /\ c \in ConnT /\ g \in Ghost /\ x \in Env
BY DEF Mid, Env, Ghost

(* What was ever sent fits the window.                                      *)
LEMMA TopBound ==
  ASSUME NEW e \in Ends, NEW c \in ConnT, NEW g \in Ghost, NEW W \in Nat, NEW en,
         Sends(e, c, g, W, en)
  PROVE  g.top <= g.una + Window /\ g.top <= g.nxt + Window
<1>1. g.una \in Nat /\ g.nxt \in Nat /\ g.top \in Nat /\ Len(c.tx) \in Nat
  BY ConnType, SeqFacts DEF Ghost
<1>2. Window = TxBuf + 2 /\ TxBuf \in Nat /\ Window >= 3
  BY Constants DEF Window
<1>3. g.una <= g.nxt /\ g.nxt <= g.top /\ g.top <= 3 + W /\ Len(c.tx) <= TxBuf
  BY DEF Sends, Numbers
<1>4. CASE g.una = 0
  <2>1. g.top = 1
    BY <1>4 DEF Sends, Numbers
  <2> QED BY <1>1, <1>2, <1>3, <1>4, <2>1
<1>5. CASE g.una >= 1
  <2>1. 1 + W <= g.una + Len(c.tx)
    BY <1>5 DEF Sends, Numbers
  <2> QED BY <1>1, <1>2, <1>3, <2>1
<1> QED BY <1>1, <1>4, <1>5

(* Another segment at the end of what is emitted.                           *)
LEMMA OutMid ==
  ASSUME NEW x, NEW c, NEW g, NEW q, NEW a, Mid(x, c, g, q, a),
         NEW d \in ConnT, NEW h \in Ghost, NEW o, NEW q2, NEW a2,
         d.out = c.out \o o,
         Chain(x.e, o, q2, a2, x.W, h.top, h.rcv, g.top, g.rcv),
         g.top <= h.top, g.rcv <= h.rcv,
         Sends(x.e, d, h, x.W, x.en), Phase(x.e, d, h, x.W, x.rp),
         Receives(x.e, d, h, x.rd, x.Wp, x.ep)
  PROVE  Mid(x, d, h, q \o q2, a \o a2)
<1>1. /\ x.e \in Ends /\ x.W \in Nat /\ x.t0 \in Nat /\ x.r0 \in Nat
      /\ g.top \in Nat /\ g.rcv \in Nat /\ x \in Env
  BY MidType
<1>2. h.top \in Nat /\ h.rcv \in Nat
  BY DEF Ghost
<1>3. Chain(x.e, c.out, q, a, x.W, g.top, g.rcv, x.t0, x.r0) /\ x.t0 <= g.top /\ x.r0 <= g.rcv
  BY DEF Mid
<1>4. Chain(x.e, c.out \o o, q \o q2, a \o a2, x.W, h.top, h.rcv, x.t0, x.r0)
  BY <1>1, <1>2, <1>3, ChainConcat
<1>5. x.t0 <= h.top /\ x.r0 <= h.rcv
  BY <1>1, <1>2, <1>3
<1> QED BY <1>1, <1>4, <1>5 DEF Mid

(* Everything but the numbers of the sending half is left alone.            *)
Frame(c, d) ==
    /\ d.used = c.used /\ d.state = c.state /\ d.fin_pending = c.fin_pending
    /\ d.orphan = c.orphan /\ d.peer_fin = c.peer_fin /\ d.reset = c.reset
    /\ d.snd_una = c.snd_una /\ d.tx = c.tx /\ d.rcv_nxt = c.rcv_nxt /\ d.rx = c.rx

(* A segment's fields.                                                      *)
LEMMA SegView ==
  ASSUME NEW seq, NEW ack, NEW f, NEW data, NEW w,
         seq \in SeqNo, ack \in SeqNo, f \in Flags, data \in Seq(Nat), w \in Nat
  PROVE  /\ Segment(seq, ack, f, data, w) \in SegT
         /\ Segment(seq, ack, f, data, w).seq = seq /\ Segment(seq, ack, f, data, w).ack = ack
         /\ Segment(seq, ack, f, data, w).flags = f /\ Segment(seq, ack, f, data, w).data = data
BY DEF Segment, SegT

(* The advertised window is a number.                                       *)
LEMMA RxFreeNat ==
  ASSUME NEW c, c \in ConnT, Len(c.rx) <= RxBuf
  PROVE  tcp_rx_free(c) \in Nat
<1>1. Len(c.rx) \in Nat /\ RxBuf \in Nat
  BY ConnType, SeqFacts, Constants
<1> QED BY <1>1 DEF tcp_rx_free

(* One segment more is emitted.                                             *)
Emits(c, d, s) == d.out = c.out \o <<s>>

(* tcp_emit adds one segment and changes nothing else.                      *)
LEMMA EmitView ==
  ASSUME NEW c, NEW seq, NEW f, NEW data,
         c \in ConnT, seq \in SeqNo, f \in Flags, data \in Seq(Nat), Len(c.rx) <= RxBuf
  PROVE  /\ tcp_emit(c, seq, f, data) \in ConnT /\ Frame(c, tcp_emit(c, seq, f, data))
         /\ Emits(c, tcp_emit(c, seq, f, data), Segment(seq, c.rcv_nxt, f, data, tcp_rx_free(c)))
         /\ tcp_emit(c, seq, f, data).fin_sent = c.fin_sent
         /\ tcp_emit(c, seq, f, data).fin_seq = c.fin_seq
         /\ tcp_emit(c, seq, f, data).snd_nxt = c.snd_nxt
         /\ tcp_emit(c, seq, f, data).snd_wnd = c.snd_wnd
<1> DEFINE s == Segment(seq, c.rcv_nxt, f, data, tcp_rx_free(c))
           d == tcp_emit(c, seq, f, data)
<1>2. s \in SegT
  BY RxFreeNat, ConnType, SegView
<1>3. d = [c EXCEPT !.out = Append(c.out, s)]
  BY DEF tcp_emit
<1> HIDE DEF s, d
<1>4. c.out \in Seq(SegT)
  BY ConnType
<1>5. Append(c.out, s) \in Seq(SegT) /\ Append(c.out, s) = c.out \o <<s>>
  BY <1>2, <1>4, AppendProperties, AppendIsConcat
<1>6. d \in ConnT
  BY <1>3, <1>5 DEF ConnT
<1>7. d.out = c.out \o <<s>>
  BY <1>3, <1>5 DEF ConnT
<1>8. Frame(c, d) /\ d.fin_sent = c.fin_sent /\ d.fin_seq = c.fin_seq
      /\ d.snd_nxt = c.snd_nxt /\ d.snd_wnd = c.snd_wnd
  BY <1>3 DEF ConnT, Frame
<1> QED BY <1>6, <1>7, <1>8 DEF s, d, Emits

(* The invariants read a connection through these fields only.              *)
LEMMA FrameKeeps ==
  ASSUME NEW e, NEW c, NEW d, NEW g, NEW W, NEW en, NEW rd, NEW Wp, NEW ep, NEW rp,
         Frame(c, d)
  PROVE  /\ Receives(e, c, g, rd, Wp, ep) => Receives(e, d, g, rd, Wp, ep)
         /\ Phase(e, c, g, W, rp) => Phase(e, d, g, W, rp)
         /\ d.fin_sent = c.fin_sent /\ d.fin_seq = c.fin_seq /\ d.snd_nxt = c.snd_nxt
              /\ Sends(e, c, g, W, en) => Sends(e, d, g, W, en)
<1>1. Receives(e, c, g, rd, Wp, ep) => Receives(e, d, g, rd, Wp, ep)
  BY DEF Receives, Frame
<1>2. Phase(e, c, g, W, rp) => Phase(e, d, g, W, rp)
  BY DEF Phase, Frame
<1>3. d.fin_sent = c.fin_sent /\ d.fin_seq = c.fin_seq /\ d.snd_nxt = c.snd_nxt
              /\ Sends(e, c, g, W, en) => Sends(e, d, g, W, en)
  BY DEF Sends, Frame
<1> QED BY <1>1, <1>2, <1>3

(* tcp_emit in the middle of a handler.                                     *)
LEMMA EmitMid ==
  ASSUME NEW x, NEW c, NEW g, NEW q, NEW a, Mid(x, c, g, q, a),
         NEW seq \in SeqNo, NEW f \in Flags,
         NEW data \in Seq(Nat), NEW k \in Nat, NEW v \in Nat,
         \A s \in SegT :
           /\ "RST" \notin f
           /\ s.seq = seq /\ s.ack = c.rcv_nxt /\ s.flags = f /\ s.data = data
           => Seg(x.e, s, k, v, x.W, g.top, g.rcv, g.top, g.rcv)
  PROVE  Mid(x, tcp_emit(c, seq, f, data), g, q \o <<k>>, a \o <<v>>)
<1> DEFINE s == Segment(seq, c.rcv_nxt, f, data, tcp_rx_free(c))
           d == tcp_emit(c, seq, f, data)
<1>1. /\ x.e \in Ends /\ x.W \in Nat /\ x \in Env /\ c \in ConnT /\ g \in Ghost
      /\ g.top \in Nat /\ g.rcv \in Nat
  BY MidType
<1>2. Len(c.rx) <= RxBuf
  BY DEF Mid, Receives, Counts
<1>9. /\ s \in SegT /\ s.seq = seq /\ s.ack = c.rcv_nxt /\ s.flags = f /\ s.data = data
  BY <1>1, <1>2, RxFreeNat, ConnType, SegView
<1>3. /\ d \in ConnT /\ Frame(c, d) /\ Emits(c, d, s)
      /\ d.fin_sent = c.fin_sent /\ d.fin_seq = c.fin_seq /\ d.snd_nxt = c.snd_nxt
  BY <1>1, <1>2, EmitView
<1>4. Live(s) => Seg(x.e, s, k, v, x.W, g.top, g.rcv, g.top, g.rcv)
  BY <1>9
<1> HIDE DEF s, d
<1>5. Chain(x.e, <<s>>, <<k>>, <<v>>, x.W, g.top, g.rcv, g.top, g.rcv)
  BY <1>1, <1>4, <1>9, ChainOne
<1>6. /\ Sends(x.e, d, g, x.W, x.en) /\ Phase(x.e, d, g, x.W, x.rp)
      /\ Receives(x.e, d, g, x.rd, x.Wp, x.ep)
  BY <1>3, FrameKeeps DEF Mid
<1>7. g.top <= g.top /\ g.rcv <= g.rcv
  BY <1>1
<1>8. Mid(x, d, g, q \o <<k>>, a \o <<v>>)
  BY <1>1, <1>3, <1>5, <1>6, <1>7, OutMid DEF Emits
<1> QED BY <1>8 DEF d

(* The empty sequence.                                                      *)
LEMMA Emptiness == <<>> \in Seq(Nat) /\ Len(<<>>) = 0
OBVIOUS

(* The flag sets that the handlers use.                                     *)
LEMMA FlagSets ==
  {"ACK"} \in Flags /\ {"RST"} \in Flags /\ {"SYN"} \in Flags /\ {"SYN", "ACK"} \in Flags
  /\ {"FIN", "ACK"} \in Flags /\ {"RST", "ACK"} \in Flags
BY DEF Flags

(* A bare acknowledgement at snd_nxt.                                       *)
LEMMA AckMid ==
  ASSUME NEW x, NEW c, NEW g, NEW q, NEW a, Mid(x, c, g, q, a), g.rcv >= 1
  PROVE  Mid(x, tcp_emit(c, c.snd_nxt, {"ACK"}, <<>>), g, q \o <<g.nxt>>, a \o <<g.rcv>>)
<1>1. /\ x.e \in Ends /\ x.W \in Nat /\ c \in ConnT /\ g \in Ghost
      /\ g.top \in Nat /\ g.rcv \in Nat /\ g.nxt \in Nat
  BY MidType
<1>2. c.snd_nxt \in SeqNo
  BY <1>1, ConnType
<1>3. /\ c.snd_nxt = Pos(x.e, g.nxt) /\ 1 <= g.nxt /\ g.nxt <= g.top
      /\ c.rcv_nxt = Pos(Peer(x.e), g.rcv)
  BY DEF Mid, Sends, Receives, Numbers, Counts
<1>4. g.top <= g.nxt + Window
  BY <1>1, TopBound DEF Mid
<1>5. ASSUME NEW s \in SegT,
             s.seq = c.snd_nxt, s.ack = c.rcv_nxt, s.flags = {"ACK"}, s.data = <<>>
      PROVE  Seg(x.e, s, g.nxt, g.rcv, x.W, g.top, g.rcv, g.top, g.rcv)
  <2>1. End(s, g.nxt) = g.nxt
    <3>1. End(s, g.nxt) = g.nxt + Len(s.data) /\ Len(s.data) = 0
      BY <1>1, <1>5, EndType
    <3> QED BY <1>1, <3>1
  <2> QED BY <1>1, <1>3, <1>4, <1>5, <2>1 DEF Seg
<1> QED BY <1>1, <1>2, <1>5, EmitMid, Emptiness, FlagSets

(* An RST leaves the stream alone.                                          *)
LEMMA RstMid ==
  ASSUME NEW x, NEW c, NEW g, NEW q, NEW a, Mid(x, c, g, q, a)
  PROVE  Mid(x, tcp_emit(c, c.snd_nxt, {"RST"}, <<>>), g, q \o <<0>>, a \o <<0>>)
<1>1. c \in ConnT
  BY MidType
<1>2. c.snd_nxt \in SeqNo /\ "RST" \in {"RST"} /\ 0 \in Nat
  BY <1>1, ConnType
<1> QED BY <1>2, EmitMid, Emptiness, FlagSets

-----------------------------------------------------------------------------
(* tcp_output.                                                              *)

(* The i-th cut of n bytes starts below n.                                  *)
LEMMA CutBelow ==
  ASSUME NEW n \in Nat, NEW M \in Nat \ {0}, NEW i \in 1 .. ((n + M - 1) \div M)
  PROVE  (i - 1) * M \in Nat /\ (i - 1) * M < n
<1>1. PICK z \in Nat : z = (n + M - 1) \div M
  BY DivMod
<1>2. n + M - 1 \in Nat
  OBVIOUS
<1>3. n + M - 1 = M * z + ((n + M - 1) % M) /\ (n + M - 1) % M \in 0 .. M - 1
  BY <1>1, <1>2, DivMod
<1>4. M * z <= n + M - 1 /\ M * z \in Nat
  BY <1>3
<1>5. i \in 1 .. z
  BY <1>1
<1>6. PICK y \in Nat : z = i + y
  BY <1>5
<1>7. M * z = (i - 1) * M + M + y * M
  BY <1>5, <1>6
<1>8. (i - 1) * M \in Nat /\ y * M \in Nat
  BY <1>5, <1>6
<1> QED BY <1>4, <1>7, <1>8

(* Cuts follow each other.                                                  *)
LEMMA CutApart ==
  ASSUME NEW M \in Nat \ {0}, NEW i \in Nat \ {0}, NEW j \in Nat \ {0}, i < j
  PROVE  (i - 1) * M + M <= (j - 1) * M
<1>1. PICK y \in Nat : j = i + 1 + y
  BY j - i - 1 \in Nat /\ j = i + 1 + (j - i - 1)
<1>2. (j - 1) * M = (i - 1) * M + M + y * M
  BY <1>1
<1>3. (i - 1) * M \in Nat /\ y * M \in Nat
  BY <1>1
<1> QED BY <1>2, <1>3

(* There are as many cuts as it takes.                                      *)
LEMMA CutCount ==
  ASSUME NEW n \in Nat, NEW M \in Nat \ {0}
  PROVE  (n + M - 1) \div M \in Nat
<1>1. n + M - 1 \in Nat
  OBVIOUS
<1> QED BY <1>1, DivMod

(* A piece of a buffer, byte by byte.                                       *)
LEMMA SubSeqNat ==
  ASSUME NEW s, NEW m, NEW n,
         s \in Seq(Nat), m \in Nat \ {0}, n \in Nat, n <= Len(s), m <= n + 1
  PROVE  /\ SubSeq(s, m, n) \in Seq(Nat) /\ Len(SubSeq(s, m, n)) = n + 1 - m
         /\ \A i \in 1 .. n + 1 - m : SubSeq(s, m, n)[i] = s[m - 1 + i]
<1>1. \A i \in m .. n : s[i] \in Nat
  BY ElemNat
<1>2. m \in Int /\ n \in Int
  OBVIOUS
<1>3. /\ SubSeq(s,m,n) \in Seq(Nat)
      /\ Len(SubSeq(s,m,n)) = IF m<=n THEN n-m+1 ELSE 0
      /\ \A i \in 1 .. n-m+1 : SubSeq(s,m,n)[i] = s[m+i-1]
  BY <1>1, <1>2, SubSeqProperties
<1>4. Len(SubSeq(s, m, n)) = n + 1 - m
  BY <1>3
<1>5. \A i \in 1 .. n + 1 - m : SubSeq(s, m, n)[i] = s[m - 1 + i]
  <2>1. n + 1 - m = n - m + 1 /\ \A i \in 1 .. n + 1 - m : m + i - 1 = m - 1 + i
    OBVIOUS
  <2> QED BY <1>3, <2>1
<1> QED BY <1>3, <1>4, <1>5

(* The smaller one.                                                         *)
LEMMA LeastIs ==
  ASSUME NEW i \in Nat, NEW j \in Nat
  PROVE  /\ Least(i, j) \in Nat /\ Least(i, j) <= i /\ Least(i, j) <= j
         /\ Least(i, j) = i \/ Least(i, j) = j
BY DEF Least

(* What is in flight, as the distance of two positions.                     *)
LEMMA InflightIs ==
  ASSUME NEW e \in Ends, NEW c \in ConnT, NEW g \in Ghost, NEW W \in Nat, NEW en,
         Sends(e, c, g, W, en)
  PROVE  Inflight(c) = g.nxt - g.una /\ Inflight(c) \in Nat
<1>1. g.una \in Nat /\ g.nxt \in Nat /\ g.top \in Nat
  BY DEF Ghost
<1>2. g.una <= g.nxt /\ g.nxt <= g.top /\ c.snd_una = Pos(e, g.una) /\ c.snd_nxt = Pos(e, g.nxt)
  BY DEF Sends, Numbers
<1>3. g.top <= g.una + Window
  BY TopBound
<1>4. Window < SeqMod /\ Window \in Nat /\ SeqMod \in Nat
  BY Constants
<1>5. g.nxt < g.una + SeqMod
  BY <1>1, <1>2, <1>3, <1>4
<1>6. Diff(Pos(e, g.nxt), Pos(e, g.una)) = g.nxt - g.una
  BY <1>1, <1>2, <1>5, PosDiff
<1> QED BY <1>1, <1>2, <1>6 DEF Inflight

(* The segments that tcp_output cuts continue the chain.                    *)
LEMMA DataChain ==
  ASSUME NEW x, NEW c, NEW g, NEW q, NEW a, Mid(x, c, g, q, a), g.rcv >= 1, g.una >= 1,
         NEW n \in Nat, n > 0 => Inflight(c) + n <= Len(c.tx),
         NEW top \in Nat, g.top <= top, g.nxt + n <= top
  PROVE  \E q2, a2 : Chain(x.e, DataSegments(c, n), q2, a2, x.W, top, g.rcv, g.top, g.rcv)
<1>1. /\ x.e \in Ends /\ x.W \in Nat /\ c \in ConnT /\ g \in Ghost
      /\ g.top \in Nat /\ g.rcv \in Nat /\ g.nxt \in Nat /\ g.una \in Nat
  BY MidType
<1>2. /\ c.snd_nxt = Pos(x.e, g.nxt) /\ 1 <= g.nxt /\ g.una <= g.nxt /\ g.nxt <= g.top
      /\ c.rcv_nxt = Pos(Peer(x.e), g.rcv) /\ Len(c.rx) <= RxBuf
      /\ (c.tx # <<>> => g.una + Len(c.tx) = 1 + x.W)
      /\ \A i \in 1 .. Len(c.tx) : c.tx[i] = x.W - Len(c.tx) + i
  BY DEF Mid, Sends, Receives, Numbers, Counts, Run
<1>3. g.top <= g.nxt + Window
  BY <1>1, TopBound DEF Mid
<1>4. Inflight(c) = g.nxt - g.una /\ Inflight(c) \in Nat
  BY <1>1, InflightIs DEF Mid
<1>5. Mss \in Nat \ {0} /\ Window \in Nat /\ RxBuf \in Nat
  BY Constants
<1>6. /\ c.tx \in Seq(Nat) /\ Len(c.tx) \in Nat /\ (Len(c.tx) = 0 <=> c.tx = <<>>)
      /\ c.rcv_nxt \in SeqNo /\ c.snd_nxt \in SeqNo
  BY <1>1, ConnType, SeqFacts
<1>7. tcp_rx_free(c) \in Nat
  BY <1>1, <1>2, <1>5, ConnType, SeqFacts DEF tcp_rx_free
<1>I. PICK I \in Nat : I = Inflight(c)
  BY <1>4
<1>L. PICK L \in Nat : L = Len(c.tx)
  BY <1>6
<1>U. PICK U \in Nat : U = g.una
  BY <1>1
<1>X. PICK X \in Nat : X = g.nxt
  BY <1>1
<1>T. PICK T \in Nat : T = g.top
  BY <1>1
<1>V. PICK V \in Nat : V = x.W
  BY <1>1
<1>Y. PICK Y \in Nat : Y = Window
  BY <1>5
<1>Z. /\ I = X - U /\ (L > 0 => U + L = 1 + V) /\ (n > 0 => I + n <= L)
      /\ 1 <= X /\ U <= X /\ X <= T /\ T <= top /\ X + n <= top /\ T <= X + Y
  BY <1>2, <1>3, <1>4, <1>6, <1>I, <1>L, <1>U, <1>X, <1>T, <1>V, <1>Y
<1>8. PICK m \in Nat : m = (n + Mss - 1) \div Mss /\ m = SegmentsOf(n)
  BY <1>5, CutCount DEF SegmentsOf
<1> DEFINE N == DataSegments(c, n)
           q2 == [i \in 1 .. m |-> g.nxt + (i - 1) * Mss]
           a2 == [i \in 1 .. m |-> g.rcv]
           D(i) == SubSeq(c.tx, Inflight(c) + (i - 1) * Mss + 1,
                          Inflight(c) + Least((i - 1) * Mss + Mss, n))
<1>9. ASSUME NEW i \in 1 .. m
      PROVE  /\ (i - 1) * Mss \in Nat /\ (i - 1) * Mss < n
             /\ D(i) \in Seq(Nat)
             /\ Len(D(i)) = Least((i - 1) * Mss + Mss, n) - (i - 1) * Mss
             /\ Least((i - 1) * Mss + Mss, n) \in Nat
             /\ (i - 1) * Mss < Least((i - 1) * Mss + Mss, n)
             /\ Least((i - 1) * Mss + Mss, n) <= n
             /\ Least((i - 1) * Mss + Mss, n) <= (i - 1) * Mss + Mss
             /\ \A j \in 1 .. Len(D(i)) : D(i)[j] = g.nxt + (i - 1) * Mss - 1 + j
  <2>1. (i - 1) * Mss \in Nat /\ (i - 1) * Mss < n
    BY <1>5, <1>8, CutBelow
  <2>2. PICK lo \in Nat : lo = (i - 1) * Mss
    BY <2>1
  <2>3. lo + Mss \in Nat
    BY <1>5
  <2>4. PICK hi \in Nat : hi = Least(lo + Mss, n) /\ hi <= n /\ hi <= lo + Mss
                          /\ (hi = lo + Mss \/ hi = n)
    <3>1. PICK z \in Nat : z = lo + Mss
      BY <2>3
    <3>2. PICK y \in Nat : y = n
      BY <1>5
    <3>3. /\ Least(z, y) \in Nat /\ Least(z, y) <= z /\ Least(z, y) <= y
          /\ Least(z, y) = z \/ Least(z, y) = y
      BY LeastIs
    <3> QED BY <3>1, <3>2, <3>3
  <2>5. lo < hi
    BY <1>5, <2>1, <2>2, <2>4
  <2>6. Inflight(c) + n <= Len(c.tx)
    BY <2>1, <2>2
  <2>7. PICK u \in Nat : u = Inflight(c) + lo + 1
    BY <1>4
  <2>8. PICK v \in Nat : v = Inflight(c) + hi
    BY <1>4
  <2>9. u \in Nat \ {0} /\ v <= Len(c.tx) /\ u <= v + 1
    <3>1. u = I + lo + 1 /\ v = I + hi /\ I + n <= L
      BY <1>I, <1>L, <2>6, <2>7, <2>8
    <3>2. u \in Nat \ {0} /\ v <= L /\ u <= v + 1
      BY <3>1, <2>4, <2>5
    <3> QED BY <3>2, <1>L
  <2>10. /\ SubSeq(c.tx, u, v) \in Seq(Nat) /\ Len(SubSeq(c.tx, u, v)) = v + 1 - u
         /\ \A j \in 1 .. v + 1 - u : SubSeq(c.tx, u, v)[j] = c.tx[u - 1 + j]
    BY <1>6, <2>9, SubSeqNat
  <2>11. D(i) = SubSeq(c.tx, u, v)
    BY <2>2, <2>4, <2>7, <2>8
  <2>12. v + 1 - u = hi - lo
    <3>1. PICK z \in Nat : z = Inflight(c)
      BY <1>4
    <3>2. u = z + lo + 1 /\ v = z + hi
      BY <2>7, <2>8, <3>1
    <3> QED BY <3>2
  <2>13. ASSUME NEW j \in 1 .. v + 1 - u
         PROVE  SubSeq(c.tx, u, v)[j] = g.nxt + lo - 1 + j
    <3>1. u - 1 + j \in 1 .. Len(c.tx)
      BY <1>6, <2>9
    <3>2. c.tx[u - 1 + j] = x.W - Len(c.tx) + (u - 1 + j)
      BY <1>2, <3>1
    <3>3. g.una + Len(c.tx) = 1 + x.W
      BY <1>2, <1>6, <3>1
    <3>4. x.W - Len(c.tx) + (u - 1 + j) = g.nxt + lo - 1 + j
      <4>1. u = I + lo + 1 /\ U + L = 1 + V /\ I = X - U
        BY <1>I, <1>L, <1>U, <1>V, <1>Z, <2>7, <3>3
      <4>2. V - L + (u - 1 + j) = X + lo - 1 + j
        BY <4>1
      <4> QED BY <4>2, <1>L, <1>V, <1>X
    <3> QED BY <2>10, <3>2, <3>4
  <2> HIDE DEF D
  <2>14. D(i) \in Seq(Nat) /\ Len(D(i)) = hi - lo
    BY <2>10, <2>11, <2>12
  <2>15. \A j \in 1 .. Len(D(i)) : D(i)[j] = g.nxt + lo - 1 + j
    BY <2>10, <2>11, <2>13
  <2> QED BY <2>1, <2>2, <2>4, <2>5, <2>14, <2>15
<1>10. \A i \in 1 .. m : N[i] = Segment(Add(c.snd_nxt, (i - 1) * Mss), c.rcv_nxt, {"ACK"},
                                        D(i), tcp_rx_free(c))
  BY <1>8 DEF DataSegments
<1>11. DOMAIN N = 1 .. m
  BY <1>8 DEF DataSegments
<1> HIDE DEF D
<1>12. ASSUME NEW i \in 1 .. m
       PROVE  /\ N[i] \in SegT /\ N[i].seq = Pos(x.e, g.nxt + (i - 1) * Mss)
              /\ N[i].ack = c.rcv_nxt /\ N[i].flags = {"ACK"} /\ N[i].data = D(i)
  <2>1. (i - 1) * Mss \in Nat /\ D(i) \in Seq(Nat)
    BY <1>9
  <2>2. Add(c.snd_nxt, (i - 1) * Mss) = Pos(x.e, g.nxt + (i - 1) * Mss)
    <3>1. PICK lo \in Nat : lo = (i - 1) * Mss
      BY <2>1
    <3>2. Add(Pos(x.e, X), lo) = Pos(x.e, X + lo)
      BY <1>1, PosAdd
    <3> QED BY <1>2, <1>X, <3>1, <3>2
  <2>3. Pos(x.e, g.nxt + (i - 1) * Mss) \in SeqNo
    <3>1. PICK k \in Nat : k = X + (i - 1) * Mss
      BY <2>1
    <3> QED BY <1>1, <1>X, <3>1, PosType
  <2>4. N[i] = Segment(Pos(x.e, g.nxt + (i - 1) * Mss), c.rcv_nxt, {"ACK"}, D(i),
                       tcp_rx_free(c))
    BY <1>10, <2>2
  <2> QED BY <1>6, <1>7, <2>1, <2>3, <2>4, FlagSets DEF Segment, SegT
<1>13. N \in Seq(SegT) /\ Len(N) = m
  <2>1. N = [i \in 1 .. m |-> N[i]]
    BY <1>8 DEF DataSegments
  <2>2. N \in [1 .. m -> SegT]
    BY <2>1, <1>12
  <2> QED BY <2>2, SeqDef
<1>14. /\ q2 \in Seq(Nat) /\ Len(q2) = m /\ a2 \in Seq(Nat) /\ Len(a2) = m
       /\ \A i \in 1 .. m : q2[i] = g.nxt + (i - 1) * Mss /\ q2[i] \in Nat /\ a2[i] = g.rcv
  <2>1. \A i \in 1 .. m : g.nxt + (i - 1) * Mss \in Nat
    <3>1. ASSUME NEW i \in 1 .. m PROVE X + (i - 1) * Mss \in Nat
      <4>1. (i - 1) * Mss \in Nat
        BY <1>9
      <4> QED BY <4>1
    <3> QED BY <1>X, <3>1
  <2>2. q2 \in [1 .. m -> Nat] /\ a2 \in [1 .. m -> Nat]
    BY <1>1, <2>1
  <2> QED BY <2>1, <2>2, SeqDef
<1> HIDE DEF N, q2, a2
<1>15. ASSUME NEW i \in 1 .. m
       PROVE  /\ Seg(x.e, N[i], q2[i], a2[i], x.W, top, g.rcv, g.top, g.rcv)
              /\ End(N[i], q2[i]) = q2[i] + Len(D(i))
              /\ End(N[i], q2[i]) = g.nxt + Least((i - 1) * Mss + Mss, n)
  <2>0. PICK k \in Nat : k = q2[i] /\ k = g.nxt + (i - 1) * Mss
    BY <1>14
  <2>1. PICK lo \in Nat : lo = (i - 1) * Mss
    BY <1>9
  <2>2. PICK hi \in Nat : hi = Least((i - 1) * Mss + Mss, n)
    BY <1>9
  <2>3. /\ lo < n /\ lo < hi /\ hi <= n /\ Len(D(i)) = hi - lo /\ D(i) \in Seq(Nat)
        /\ \A j \in 1 .. Len(D(i)) : D(i)[j] = g.nxt + lo - 1 + j
    BY <1>9, <2>1, <2>2
  <2>4. PICK s \in SegT : s = N[i] /\ s.seq = Pos(x.e, k) /\ s.ack = c.rcv_nxt
                          /\ s.flags = {"ACK"} /\ s.data = D(i)
    BY <1>12, <2>0
  <2>5. End(s, k) = k + Len(s.data)
    BY <2>4, EndType
  <2>6. k = g.nxt + lo /\ End(s, k) = g.nxt + hi
    <3>1. k = X + lo /\ End(s, k) = k + (hi - lo)
      BY <1>X, <2>0, <2>1, <2>3, <2>4, <2>5
    <3>2. (X + lo) + (hi - lo) = X + hi
      OBVIOUS
    <3> QED BY <1>X, <3>1, <3>2
  <2>7. /\ End(s, k) <= top /\ g.top <= k + Window /\ k >= 1
    <3>1. k = X + lo /\ End(s, k) = X + hi
      BY <1>X, <2>6
    <3>2. X + hi <= top /\ T <= (X + lo) + Y /\ X + lo >= 1
      BY <1>Z, <2>3
    <3> QED BY <1>T, <1>Y, <3>1, <3>2
  <2>8. k + Len(s.data) <= 1 + x.W
    <3>1. Inflight(c) + n <= Len(c.tx) /\ c.tx # <<>>
      BY <1>4, <1>6, <2>3
    <3>2. k = X + lo /\ L > 0 /\ I + n <= L /\ Len(s.data) = hi - lo
      BY <1>6, <1>I, <1>L, <1>X, <2>3, <2>4, <2>6, <3>1
    <3>3. (X + lo) + (hi - lo) <= 1 + V
      BY <1>Z, <2>3, <3>2
    <3> QED BY <1>V, <3>2, <3>3
  <2>9. \A j \in 1 .. Len(s.data) : s.data[j] = k - 1 + j
    <3>0. \A j \in 1 .. Len(D(i)) : D(i)[j] = X + lo - 1 + j
      BY <1>X, <2>3
    <3>2. k = X + lo
      BY <1>X, <2>6
    <3>1. \A j \in 1 .. Len(D(i)) : D(i)[j] = k - 1 + j
      BY <3>0, <3>2
    <3> QED BY <3>1, <2>4
  <2>10. Seg(x.e, s, k, g.rcv, x.W, top, g.rcv, g.top, g.rcv)
    BY <1>1, <1>2, <2>4, <2>7, <2>8, <2>9 DEF Seg
  <2> QED BY <1>14, <2>0, <2>2, <2>4, <2>5, <2>6, <2>10
<1>16. ASSUME NEW i \in 1 .. m, NEW j \in 1 .. m, i < j
       PROVE  End(N[i], q2[i]) <= q2[j] + Window
  <2>1. (i - 1) * Mss + Mss <= (j - 1) * Mss
    BY <1>5, <1>16, CutApart
  <2>2. PICK hi \in Nat : hi = Least((i - 1) * Mss + Mss, n) /\ hi <= (i - 1) * Mss + Mss
    BY <1>9
  <2>3. End(N[i], q2[i]) = g.nxt + hi
    BY <1>15, <2>2
  <2>4. (i - 1) * Mss \in Nat /\ (j - 1) * Mss \in Nat
    BY <1>9
  <2>5. q2[j] = g.nxt + (j - 1) * Mss
    BY <1>14
  <2>6. PICK k \in Nat, l \in Nat : k = (i - 1) * Mss /\ l = (j - 1) * Mss
    BY <2>4
  <2>7. k + Mss <= l /\ hi <= k + Mss
    BY <2>1, <2>2, <2>6
  <2>8. X + hi <= (X + l) + Y
    BY <1>5, <2>7
  <2> QED BY <1>X, <1>Y, <2>3, <2>5, <2>6, <2>8
<1>17. ASSUME NEW i \in 1 .. m, NEW j \in 1 .. m
       PROVE  Acks(N[j]) /\ a2[i] <= a2[j]
  <2>1. N[j].flags = {"ACK"}
    BY <1>12
  <2>2. a2[i] = g.rcv /\ a2[j] = g.rcv
    BY <1>14
  <2> QED BY <1>1, <2>1, <2>2
<1>18. Chain(x.e, N, q2, a2, x.W, top, g.rcv, g.top, g.rcv)
  <2>1. Len(q2) = Len(N) /\ Len(a2) = Len(N) /\ Len(N) = m
    BY <1>13, <1>14
  <2>2. N \in Seq(SegT) /\ q2 \in Seq(Nat) /\ a2 \in Seq(Nat)
    BY <1>13, <1>14
  <2> QED BY <2>1, <2>2, <1>15, <1>16, <1>17 DEF Chain
<1> QED BY <1>18 DEF N

(* tcp_output sends no more than the buffer holds.                          *)
LEMMA SendableIs ==
  ASSUME NEW room, room \in Rooms, NEW c \in ConnT, Inflight(c) \in Nat
  PROVE  /\ Sendable(c, room) \in Nat
         /\ Sendable(c, room) > 0 => Inflight(c) + Sendable(c, room) <= Len(c.tx)
<1>1. PICK L \in Nat, w \in Nat : L = Len(c.tx) /\ w = c.snd_wnd
  BY ConnType, SeqFacts
<1>2. PICK u \in Nat : u = Least(L, w) /\ u <= L
  BY LeastIs
<1>3. PICK I \in Nat : I = Inflight(c)
  OBVIOUS
<1>m. PICK m \in Nat : m = room * Mss
  BY Constants
<1>4. Sendable(c, room) = IF u > I THEN Least(u - I, m) ELSE 0
  BY <1>1, <1>2, <1>3, <1>m DEF Sendable
<1>5. CASE u > I
  <2>1. PICK k \in Nat : k = u - I
    BY <1>5
  <2>2. Least(k, m) \in Nat /\ Least(k, m) <= k
    BY LeastIs
  <2>3. PICK n \in Nat : n = Sendable(c, room) /\ n <= k
    BY <1>4, <1>5, <2>1, <2>2
  <2>4. I + n <= L
    BY <1>2, <2>1, <2>3
  <2> QED BY <1>1, <1>3, <2>3, <2>4
<1>6. CASE ~(u > I)
  <2>1. Sendable(c, room) = 0
    BY <1>4, <1>6
  <2> QED BY <2>1
<1> QED BY <1>5, <1>6

(* The positions are numbers.                                               *)
LEMMA GhostType ==
  ASSUME NEW g \in Ghost
  PROVE  g.una \in Nat /\ g.nxt \in Nat /\ g.rcv \in Nat /\ g.top \in Nat /\ g.fin \in Nat
BY DEF Ghost

(* The data part of tcp_output.                                             *)
Sent(c, o, n, r) ==
    [c EXCEPT !.out = c.out \o o, !.snd_nxt = Add(c.snd_nxt, n), !.rto = r]

(* tcp_output's data half, field by field.                                  *)
LEMMA DataView ==
  ASSUME NEW c, NEW o, NEW n, NEW r,
         c \in ConnT, o \in Seq(SegT), n \in Nat, r \in BOOLEAN
  PROVE  /\ Sent(c, o, n, r) \in ConnT /\ Frame(c, Sent(c, o, n, r))
         /\ Sent(c, o, n, r).out = c.out \o o
         /\ Sent(c, o, n, r).snd_nxt = Add(c.snd_nxt, n)
         /\ Sent(c, o, n, r).fin_sent = c.fin_sent
         /\ Sent(c, o, n, r).fin_seq = c.fin_seq
<1>1. c.out \o o \in Seq(SegT)
  BY ConnType, ConcatProperties
<1>2. Add(c.snd_nxt, n) \in SeqNo
  BY ConnType, AddType
<1>3. Sent(c, o, n, r) \in ConnT
  BY <1>1, <1>2 DEF ConnT, Sent
<1>4. /\ Sent(c, o, n, r).out = c.out \o o /\ Sent(c, o, n, r).snd_nxt = Add(c.snd_nxt, n)
      /\ Sent(c, o, n, r).fin_sent = c.fin_sent /\ Sent(c, o, n, r).fin_seq = c.fin_seq
  BY DEF ConnT, Sent
<1>5. Frame(c, Sent(c, o, n, r))
  BY DEF ConnT, Frame, Sent
<1> QED BY <1>3, <1>4, <1>5

(* The sender's numbers after more bytes are sent.                          *)
LEMMA NumData ==
  ASSUME NEW U, NEW X, NEW T, NEW F, NEW L, NEW W, NEW fp, NEW fs, NEW Y, NEW top,
         U \in Nat, X \in Nat, T \in Nat, F \in Nat, L \in Nat, W \in Nat,
         fp \in BOOLEAN, fs \in BOOLEAN, Y \in Nat, top \in Nat,
         Numbers(U, X, T, F, L, W, fp, fs), U >= 1, X <= Y, X < Y => Y - U <= L,
         T <= top, Y <= top, top = T \/ top = Y
  PROVE  Numbers(U, Y, top, F, L, W, fp, fs)
<1>1. TxBuf \in Nat
  BY Constants
<1>2. CASE Y = X
  <2>1. top = T /\ Y = X
    BY <1>2 DEF Numbers
  <2> QED BY <2>1
<1>3. CASE X < Y
  <2>1. L > 0 /\ U + L = 1 + W /\ Y <= 1 + W /\ L <= TxBuf /\ T <= 2 + W /\ L <= W
    BY <1>3 DEF Numbers
  <2>2. ~fs
    BY <1>3, <2>1 DEF Numbers
  <2>3. U <= X /\ X <= T /\ 1 <= X /\ (~fp => T <= 1 + W)
    BY DEF Numbers
  <2> QED BY <1>1, <1>3, <2>1, <2>2, <2>3 DEF Numbers
<1> QED BY <1>2, <1>3

(* The types of the sending half.                                           *)
LEMMA SendsType ==
  ASSUME NEW c \in ConnT, NEW g \in Ghost
  PROVE  /\ g.una \in Nat /\ g.nxt \in Nat /\ g.rcv \in Nat /\ g.top \in Nat /\ g.fin \in Nat
         /\ Len(c.tx) \in Nat /\ c.fin_pending \in BOOLEAN /\ c.fin_sent \in BOOLEAN
         /\ Len(c.rx) \in Nat /\ c.peer_fin \in BOOLEAN /\ c.reset \in BOOLEAN
BY GhostType, ConnType, SeqFacts

(* A ghost from its five positions.                                         *)
MkGhost(u, n, r, t, f) == [una |-> u, nxt |-> n, rcv |-> r, top |-> t, fin |-> f]

(* The positions of a ghost made of five.                                   *)
LEMMA GhostMake ==
  ASSUME NEW u, NEW n, NEW r, NEW t, NEW f,
         u \in Nat, n \in Nat, r \in Nat, t \in Nat, f \in Nat
  PROVE  /\ MkGhost(u, n, r, t, f) \in Ghost
         /\ MkGhost(u, n, r, t, f).una = u /\ MkGhost(u, n, r, t, f).nxt = n
         /\ MkGhost(u, n, r, t, f).rcv = r /\ MkGhost(u, n, r, t, f).top = t
         /\ MkGhost(u, n, r, t, f).fin = f
BY DEF Ghost, MkGhost

(* The larger one.                                                          *)
Most(i, j) == IF i < j THEN j ELSE i

(* The larger one.                                                          *)
LEMMA MostIs ==
  ASSUME NEW i \in Nat, NEW j \in Nat
  PROVE  /\ Most(i, j) \in Nat /\ i <= Most(i, j) /\ j <= Most(i, j)
         /\ Most(i, j) = i \/ Most(i, j) = j
BY DEF Most

(* What is in flight and what may be sent fit the buffer.                   *)
LEMMA DataFits ==
  ASSUME NEW room, room \in Rooms, NEW x, NEW c, NEW g, NEW q, NEW a, Mid(x, c, g, q, a)
  PROVE  /\ Inflight(c) = g.nxt - g.una /\ Inflight(c) \in Nat /\ Sendable(c, room) \in Nat
         /\ Sendable(c, room) > 0 => Inflight(c) + Sendable(c, room) <= Len(c.tx)
<1>1. x.e \in Ends /\ x.W \in Nat /\ c \in ConnT /\ g \in Ghost
  BY MidType
<1>2. Inflight(c) = g.nxt - g.una /\ Inflight(c) \in Nat
  BY <1>1, InflightIs DEF Mid
<1> QED BY <1>1, <1>2, SendableIs

(* d is c after tcp_output has sent what it may of the queue.               *)
HasSent(c, d, room) ==
    /\ Frame(c, d) /\ d.fin_sent = c.fin_sent /\ d.fin_seq = c.fin_seq
    /\ d.out = c.out \o DataSegments(c, Sendable(c, room))
    /\ d.snd_nxt = Add(c.snd_nxt, Sendable(c, room))

(* tcp_output's data half in the middle of a handler.                       *)
LEMMA DataMid ==
  ASSUME NEW room, room \in Rooms,
         NEW x, NEW c, NEW g, NEW q, NEW a, Mid(x, c, g, q, a), g.rcv >= 1, g.una >= 1,
         c.state # "SYN_RCVD", NEW d \in ConnT, HasSent(c, d, room)
  PROVE  \E h, q2, a2 : /\ Mid(x, d, h, q2, a2)
                        /\ h.una = g.una /\ h.rcv = g.rcv /\ h.nxt = g.nxt + Sendable(c, room)
<1>1. x.e \in Ends /\ x.W \in Nat /\ c \in ConnT /\ g \in Ghost
  BY MidType
<1>2. Inflight(c) = g.nxt - g.una /\ Inflight(c) \in Nat
  BY <1>1, DataFits
<1>3. PICK n \in Nat : n = Sendable(c, room) /\ (n > 0 => Inflight(c) + n <= Len(c.tx))
  BY DataFits
<1>7. /\ Frame(c, d) /\ d.out = c.out \o DataSegments(c, n)
      /\ d.snd_nxt = Add(c.snd_nxt, n) /\ d.fin_sent = c.fin_sent /\ d.fin_seq = c.fin_seq
  BY <1>3 DEF HasSent
<1>p. PICK U \in Nat, X \in Nat, T \in Nat, F \in Nat, R \in Nat :
        U = g.una /\ X = g.nxt /\ T = g.top /\ F = g.fin /\ R = g.rcv
  BY <1>1, GhostType
<1>y. PICK Y \in Nat : Y = X + n
  BY <1>3
<1>4. PICK top \in Nat : T <= top /\ Y <= top /\ (top = T \/ top = Y)
  <2>1. Most(T, Y) \in Nat /\ T <= Most(T, Y) /\ Y <= Most(T, Y)
        /\ (Most(T, Y) = T \/ Most(T, Y) = Y)
    BY MostIs
  <2> QED BY <2>1
<1>5. PICK q2, a2 : Chain(x.e, DataSegments(c, n), q2, a2, x.W, top, g.rcv, g.top, g.rcv)
  BY <1>1, <1>3, <1>4, <1>p, <1>y, DataChain
<1>8. PICK h \in Ghost : h.una = U /\ h.nxt = Y /\ h.rcv = R /\ h.top = top /\ h.fin = F
  <2> DEFINE h == MkGhost(U, Y, R, top, F)
  <2>1. h \in Ghost /\ h.una = U /\ h.nxt = Y /\ h.rcv = R /\ h.top = top /\ h.fin = F
    BY GhostMake
  <2> QED BY <2>1
<1>9. d.snd_nxt = Pos(x.e, h.nxt)
  <2>1. c.snd_nxt = Pos(x.e, X)
    BY <1>p DEF Mid, Sends
  <2> QED BY <2>1, <1>1, <1>3, <1>7, <1>8, <1>y, PosAdd
<1>10. Sends(x.e, d, h, x.W, x.en)
  <2>1. Sends(x.e, c, g, x.W, x.en)
    BY DEF Mid
  <2>2. Numbers(U, X, T, F, Len(c.tx), x.W, c.fin_pending, c.fin_sent)
    BY <2>1, <1>p DEF Sends
  <2>3. X <= Y /\ (X < Y => Y - U <= Len(c.tx))
    <3>1. PICK I \in Nat, L \in Nat : I = Inflight(c) /\ L = Len(c.tx)
      BY <1>1, <1>2, SendsType
    <3>2. I = X - U /\ (n > 0 => I + n <= L)
      BY <1>2, <1>3, <1>p, <3>1
    <3>3. X <= Y /\ (X < Y => Y - U <= L)
      BY <3>2, <1>y
    <3> QED BY <3>1, <3>3
  <2>4. Numbers(U, Y, top, F, Len(c.tx), x.W, c.fin_pending, c.fin_sent)
    <3>1. PICK L \in Nat, W \in Nat, fp \in BOOLEAN, fs \in BOOLEAN :
            L = Len(c.tx) /\ W = x.W /\ fp = c.fin_pending /\ fs = c.fin_sent
      BY <1>1, SendsType
    <3>2. Numbers(U, X, T, F, L, W, fp, fs) /\ (X < Y => Y - U <= L) /\ U >= 1
      BY <2>2, <2>3, <3>1, <1>p
    <3>3. Numbers(U, Y, top, F, L, W, fp, fs)
      BY <1>4, <2>3, <3>2, NumData
    <3> QED BY <3>1, <3>3
  <2>5. /\ d.snd_una = c.snd_una /\ d.tx = c.tx /\ d.fin_pending = c.fin_pending
        /\ d.fin_sent = c.fin_sent /\ d.fin_seq = c.fin_seq
    BY <1>7 DEF Frame
  <2>6. Numbers(h.una, h.nxt, h.top, h.fin, Len(d.tx), x.W, d.fin_pending, d.fin_sent)
    BY <1>8, <2>4, <2>5
  <2>7. h.una = g.una /\ h.fin = g.fin
    BY <1>8, <1>p
  <2> QED BY <1>9, <2>1, <2>5, <2>6, <2>7 DEF Sends
<1>11. Phase(x.e, d, h, x.W, x.rp) /\ Receives(x.e, d, h, x.rd, x.Wp, x.ep)
  <2>1. h.una = g.una /\ h.rcv = g.rcv
    BY <1>8, <1>p
  <2> QED BY <1>7, <2>1 DEF Mid, Phase, Receives, Frame
<1>12. Mid(x, d, h, q \o q2, a \o a2)
  <2>1. g.top <= h.top /\ g.rcv <= h.rcv
    BY <1>4, <1>8, <1>p
  <2>2. Chain(x.e, DataSegments(c, n), q2, a2, x.W, h.top, h.rcv, g.top, g.rcv)
    BY <1>5, <1>8, <1>p
  <2> QED BY <1>8, <1>10, <1>7, <1>11, <2>1, <2>2, OutMid
<1> QED BY <1>3, <1>8, <1>12, <1>p, <1>y

(* r is d after tcp_output has sent our FIN.                                *)
HasEnded(d, r) ==
    /\ Frame(d, r) /\ r.fin_sent = TRUE /\ r.fin_seq = d.snd_nxt
    /\ r.snd_nxt = Add(d.snd_nxt, 1)
    /\ Emits(d, r, Segment(d.snd_nxt, d.rcv_nxt, {"FIN", "ACK"}, <<>>, tcp_rx_free(d)))

(* The FIN segment.                                                         *)
LEMMA EndEmit ==
  ASSUME NEW d, d \in ConnT, Len(d.rx) <= RxBuf, NEW m,
         m = tcp_emit(d, d.snd_nxt, {"FIN", "ACK"}, <<>>)
  PROVE  /\ m \in ConnT /\ Frame(d, m) /\ m.snd_nxt = d.snd_nxt
         /\ Emits(d, m, Segment(d.snd_nxt, d.rcv_nxt, {"FIN", "ACK"}, <<>>, tcp_rx_free(d)))
<1>1. d.snd_nxt \in SeqNo
  BY ConnType
<1>2. PICK f \in Flags, z \in Seq(Nat) : f = {"FIN", "ACK"} /\ z = <<>>
  BY FlagSets, Emptiness
<1>3. /\ tcp_emit(d, d.snd_nxt, f, z) \in ConnT /\ Frame(d, tcp_emit(d, d.snd_nxt, f, z))
      /\ Emits(d, tcp_emit(d, d.snd_nxt, f, z),
               Segment(d.snd_nxt, d.rcv_nxt, f, z, tcp_rx_free(d)))
      /\ tcp_emit(d, d.snd_nxt, f, z).snd_nxt = d.snd_nxt
  BY <1>1, EmitView
<1> QED BY <1>2, <1>3, Zenon

(* The marks that a sent FIN leaves.                                        *)
LEMMA EndSet ==
  ASSUME NEW m, NEW d, NEW r, m \in ConnT, d \in ConnT, Frame(d, m),
         r = [m EXCEPT !.fin_sent = TRUE, !.fin_seq = d.snd_nxt,
                       !.snd_nxt = Add(d.snd_nxt, 1), !.rto = TRUE]
  PROVE  /\ r \in ConnT /\ Frame(d, r) /\ r.fin_sent = TRUE /\ r.fin_seq = d.snd_nxt
         /\ r.snd_nxt = Add(d.snd_nxt, 1) /\ r.out = m.out
<1>1. d.snd_nxt \in SeqNo
  BY ConnType
<1>2. Add(d.snd_nxt, 1) \in SeqNo
  BY <1>1, AddType
<1>3. r \in ConnT
  BY <1>1, <1>2 DEF ConnT
<1>4. /\ r.fin_sent = TRUE /\ r.fin_seq = d.snd_nxt /\ r.snd_nxt = Add(d.snd_nxt, 1)
      /\ r.out = m.out
  BY DEF ConnT
<1>5. Frame(d, r)
  BY DEF ConnT, Frame
<1> QED BY <1>3, <1>4, <1>5

(* tcp_output's FIN half, field by field.                                   *)
LEMMA EndView ==
  ASSUME NEW d, d \in ConnT, Len(d.rx) <= RxBuf, NEW r,
         r = [tcp_emit(d, d.snd_nxt, {"FIN", "ACK"}, <<>>)
                 EXCEPT !.fin_sent = TRUE, !.fin_seq = d.snd_nxt,
                        !.snd_nxt = Add(d.snd_nxt, 1), !.rto = TRUE]
  PROVE  r \in ConnT /\ HasEnded(d, r)
<1>3. PICK m : m = tcp_emit(d, d.snd_nxt, {"FIN", "ACK"}, <<>>)
  OBVIOUS
<1>4. /\ m \in ConnT /\ Frame(d, m)
      /\ Emits(d, m, Segment(d.snd_nxt, d.rcv_nxt, {"FIN", "ACK"}, <<>>, tcp_rx_free(d)))
  BY <1>3, EndEmit, Zenon
<1>5. r = [m EXCEPT !.fin_sent = TRUE, !.fin_seq = d.snd_nxt,
                    !.snd_nxt = Add(d.snd_nxt, 1), !.rto = TRUE]
  BY <1>3
<1>6. /\ r \in ConnT /\ Frame(d, r) /\ r.fin_sent = TRUE /\ r.fin_seq = d.snd_nxt
      /\ r.snd_nxt = Add(d.snd_nxt, 1) /\ r.out = m.out
  BY <1>4, <1>5, EndSet, Zenon
<1> QED BY <1>4, <1>6, Zenon DEF HasEnded, Emits

(* The sender's numbers after the FIN is sent.                              *)
LEMMA NumFin ==
  ASSUME NEW U, NEW X, NEW T, NEW F, NEW L, NEW W, NEW fp, NEW fs,
         U \in Nat, X \in Nat, T \in Nat, F \in Nat, L \in Nat, W \in Nat,
         fp \in BOOLEAN, fs \in BOOLEAN,
         Numbers(U, X, T, F, L, W, fp, fs), U >= 1, fp, ~fs, U + L <= X
  PROVE  /\ Numbers(U, X + 1, X + 1, X, L, W, fp, TRUE)
         /\ X >= 1 + W /\ T <= X + 1 /\ 1 <= X
<1>1. TxBuf \in Nat
  BY Constants
<1>2. /\ L <= W /\ 1 + W <= U + L /\ (L > 0 => U + L = 1 + W) /\ L <= TxBuf
      /\ T <= 2 + W /\ (L > 0 => X <= 1 + W) /\ X <= T /\ 1 <= X /\ U <= X
  BY DEF Numbers
<1> QED BY <1>1, <1>2 DEF Numbers

(* tcp_output's FIN half in the middle of a handler.                        *)
LEMMA FinMid ==
  ASSUME NEW x, NEW d, NEW g, NEW q, NEW a, Mid(x, d, g, q, a), g.rcv >= 1, g.una >= 1,
         d.fin_pending, ~d.fin_sent, g.una + Len(d.tx) <= g.nxt, d.state # "SYN_RCVD",
         NEW r, r \in ConnT, HasEnded(d, r)
  PROVE  \E h, q2, a2 : Mid(x, r, h, q2, a2) /\ h.una = g.una /\ h.rcv = g.rcv
<1>1. x.e \in Ends /\ x.W \in Nat /\ d \in ConnT /\ g \in Ghost
  BY MidType
<1>2. PICK U \in Nat, X \in Nat, T \in Nat, F \in Nat, R \in Nat :
        U = g.una /\ X = g.nxt /\ T = g.top /\ F = g.fin /\ R = g.rcv
  BY <1>1, GhostType
<1>3. PICK L \in Nat, W \in Nat, fp \in BOOLEAN, fs \in BOOLEAN :
        L = Len(d.tx) /\ W = x.W /\ fp = d.fin_pending /\ fs = d.fin_sent
  BY <1>1, SendsType
<1>4. Numbers(U, X, T, F, L, W, fp, fs)
  BY <1>2, <1>3 DEF Mid, Sends
<1>5. U >= 1 /\ U + L <= X /\ fp /\ ~fs /\ R >= 1
  BY <1>2, <1>3
<1>6. Numbers(U, X + 1, X + 1, X, L, W, fp, TRUE) /\ X >= 1 + W /\ T <= X + 1 /\ 1 <= X
  BY <1>4, <1>5, NumFin
<1>7. PICK Y \in Nat : Y = X + 1
  OBVIOUS
<1>8. PICK h \in Ghost : h.una = U /\ h.nxt = Y /\ h.rcv = R /\ h.top = Y /\ h.fin = X
  <2> DEFINE h == MkGhost(U, Y, R, Y, X)
  <2>1. h \in Ghost /\ h.una = U /\ h.nxt = Y /\ h.rcv = R /\ h.top = Y /\ h.fin = X
    BY GhostMake
  <2> QED BY <2>1
<1>9. /\ d.snd_una = Pos(x.e, U) /\ d.snd_nxt = Pos(x.e, X)
      /\ d.rcv_nxt = Pos(Peer(x.e), R) /\ Len(d.rx) <= RxBuf
      /\ Run(d.tx, x.W)
      /\ (d.fin_pending => x.en)
  BY <1>2, <1>5 DEF Mid, Sends, Receives, Counts
<1>10. /\ Frame(d, r) /\ r.fin_sent = TRUE /\ r.fin_seq = d.snd_nxt
       /\ r.snd_nxt = Pos(x.e, Y)
  <2>1. Add(Pos(x.e, X), 1) = Pos(x.e, X + 1)
    BY <1>1, PosAdd
  <2> QED BY <2>1, <1>7, <1>9 DEF HasEnded
<1>11. Sends(x.e, r, h, x.W, x.en)
  <2>1. Numbers(h.una, h.nxt, h.top, h.fin, Len(r.tx), x.W, r.fin_pending, r.fin_sent)
    BY <1>3, <1>6, <1>7, <1>8, <1>10 DEF Frame
  <2>2. /\ r.snd_una = d.snd_una /\ r.tx = d.tx /\ r.fin_pending = d.fin_pending
        /\ r.fin_seq = Pos(x.e, h.fin) /\ r.snd_nxt = Pos(x.e, h.nxt) /\ r.snd_una = Pos(x.e, h.una)
    BY <1>8, <1>9, <1>10 DEF Frame
  <2> QED BY <1>9, <2>1, <2>2 DEF Sends
<1>12. Phase(x.e, r, h, x.W, x.rp) /\ Receives(x.e, r, h, x.rd, x.Wp, x.ep)
  <2>1. h.una = g.una /\ h.rcv = g.rcv
    BY <1>2, <1>8
  <2> QED BY <1>10, <2>1 DEF Mid, Phase, Receives, Frame
<1>13. PICK s : s = Segment(d.snd_nxt, d.rcv_nxt, {"FIN", "ACK"}, <<>>, tcp_rx_free(d))
  OBVIOUS
<1>14. /\ s \in SegT /\ s.seq = Pos(x.e, X) /\ s.ack = Pos(Peer(x.e), R)
       /\ s.flags = {"FIN", "ACK"} /\ s.data = <<>>
  <2>1. d.snd_nxt \in SeqNo /\ d.rcv_nxt \in SeqNo
    BY <1>1, ConnType
  <2>2. tcp_rx_free(d) \in Nat
    BY <1>1, <1>9, RxFreeNat
  <2>3. /\ s \in SegT /\ s.seq = d.snd_nxt /\ s.ack = d.rcv_nxt
        /\ s.flags = {"FIN", "ACK"} /\ s.data = <<>>
    <3>1. PICK f \in Flags, z \in Seq(Nat) : f = {"FIN", "ACK"} /\ z = <<>>
      BY FlagSets, Emptiness
    <3>2. s = Segment(d.snd_nxt, d.rcv_nxt, f, z, tcp_rx_free(d))
      BY <1>13, <3>1
    <3>3. s \in SegT /\ s.seq = d.snd_nxt /\ s.ack = d.rcv_nxt /\ s.flags = f /\ s.data = z
      BY <2>1, <2>2, <3>2, SegView
    <3> QED BY <3>1, <3>3
  <2> QED BY <1>9, <2>3
<1>15. Chain(x.e, <<s>>, <<X>>, <<R>>, x.W, h.top, h.rcv, g.top, g.rcv)
  <2>1. T <= X + Window
    BY <1>1, <1>2, TopBound DEF Mid
  <2>2. Len(s.data) = 0 /\ End(s, X) = X + 1
    BY <1>14, Emptiness DEF End, Has
  <2>3. Seg(x.e, s, X, R, W, Y, R, T, R)
    BY <1>1, <1>5, <1>6, <1>7, <1>14, <2>1, <2>2, WindowNat DEF Seg
  <2>4. Seg(x.e, s, X, R, x.W, h.top, h.rcv, g.top, g.rcv)
    BY <1>2, <1>3, <1>8, <2>3
  <2> QED BY <1>1, <1>14, <2>4, ChainOne
<1>16. r.out = d.out \o <<s>>
  BY <1>13 DEF HasEnded, Emits
<1>17. g.top <= h.top /\ g.rcv <= h.rcv
  BY <1>2, <1>6, <1>7, <1>8
<1>18. Mid(x, r, h, q \o <<X>>, a \o <<R>>)
  BY <1>8, <1>11, <1>12, <1>15, <1>16, <1>17, OutMid
<1> QED BY <1>2, <1>8, <1>18

(* What tcp_output does, as a choice of three.                              *)
LEMMA OutputView ==
  ASSUME NEW room, room \in Rooms, NEW c, c \in ConnT, Inflight(c) \in Nat,
         Sendable(c, room) \in Nat, Len(c.rx) <= RxBuf,
         DataSegments(c, Sendable(c, room)) \in Seq(SegT)
  PROVE  \/ ~CanOutput(c) /\ tcp_output(c, room) = c
         \/ CanOutput(c) /\ tcp_output(c, room) \in ConnT /\ HasSent(c, tcp_output(c, room), room)
         \/ /\ CanOutput(c) /\ c.fin_pending /\ ~c.fin_sent
            /\ Inflight(c) + Sendable(c, room) >= Len(c.tx)
            /\ \E d \in ConnT : /\ HasSent(c, d, room) /\ tcp_output(c, room) \in ConnT
                               /\ HasEnded(d, tcp_output(c, room))
<1> DEFINE n == Sendable(c, room)
           o == DataSegments(c, n)
           r == c.rto \/ Inflight(c) + n > 0
           d == Sent(c, o, n, r)
<1>1. r \in BOOLEAN
  BY ConnType
<1>2. /\ d \in ConnT /\ Frame(c, d) /\ d.out = c.out \o o
      /\ d.snd_nxt = Add(c.snd_nxt, n) /\ d.fin_sent = c.fin_sent /\ d.fin_seq = c.fin_seq
  <2> HIDE DEF r
  <2> QED BY <1>1, DataView
<1>3. HasSent(c, d, room)
  BY <1>2, Zenon DEF HasSent
<1>4. CASE ~CanOutput(c)
  BY <1>4 DEF tcp_output
<1>5. CASE CanOutput(c) /\ ~FinDue(c, n, room)
  <2>1. tcp_output(c, room) = d
    BY <1>5 DEF tcp_output, Sent
  <2> QED BY <1>2, <1>3, <1>5, <2>1, Zenon
<1>6. CASE CanOutput(c) /\ FinDue(c, n, room)
  <2>1. tcp_output(c, room) = [tcp_emit(d, d.snd_nxt, {"FIN", "ACK"}, <<>>)
                 EXCEPT !.fin_sent = TRUE, !.fin_seq = d.snd_nxt,
                        !.snd_nxt = Add(d.snd_nxt, 1), !.rto = TRUE]
    <3>1. tcp_output(c, room) = [tcp_emit(d, Add(c.snd_nxt, n), {"FIN", "ACK"}, <<>>)
                 EXCEPT !.fin_sent = TRUE, !.fin_seq = Add(c.snd_nxt, n),
                        !.snd_nxt = Add(@, 1), !.rto = TRUE]
      BY <1>6, Zenon DEF tcp_output, Sent
    <3>2. Len(d.rx) <= RxBuf /\ d.snd_nxt \in SeqNo
      BY <1>2, ConnType DEF Frame
    <3>3. tcp_emit(d, d.snd_nxt, {"FIN", "ACK"}, <<>>).snd_nxt = d.snd_nxt
      BY <1>2, <3>2, EndEmit, Zenon
    <3> QED BY <1>2, <3>1, <3>3, Zenon
  <2> HIDE DEF d
  <2>2. Len(d.rx) <= RxBuf
    BY <1>2 DEF Frame
  <2>3. tcp_output(c, room) \in ConnT /\ HasEnded(d, tcp_output(c, room))
    BY <1>2, <2>1, <2>2, EndView, Zenon
  <2>4. c.fin_pending /\ ~c.fin_sent /\ Inflight(c) + n >= Len(c.tx)
    BY <1>6 DEF FinDue
  <2> QED BY <1>2, <1>3, <1>6, <2>3, <2>4, Zenon
<1> QED BY <1>4, <1>5, <1>6

(* A handler of end x.e has got as far as entry d, with u and r its positions. *)
Goes(x, d, u, r) == \E h, q, a : Mid(x, d, h, q, a) /\ h.una = u /\ h.rcv = r

(* The data segments of tcp_output are segments.                            *)
LEMMA DataOut ==
  ASSUME NEW room, room \in Rooms,
         NEW x, NEW c, NEW g, NEW q, NEW a, Mid(x, c, g, q, a), g.rcv >= 1, g.una >= 1
  PROVE  DataSegments(c, Sendable(c, room)) \in Seq(SegT)
<1>1. PICK n \in Nat : n = Sendable(c, room) /\ (n > 0 => Inflight(c) + n <= Len(c.tx))
  BY DataFits
<1>2. g \in Ghost
  BY MidType
<1>3. PICK X \in Nat, T \in Nat : X = g.nxt /\ T = g.top
  BY <1>2, GhostType
<1>4. PICK Y \in Nat : Y = X + n
  OBVIOUS
<1>5. PICK top \in Nat : T <= top /\ Y <= top
  <2>1. Most(T, Y) \in Nat /\ T <= Most(T, Y) /\ Y <= Most(T, Y)
    BY MostIs
  <2> QED BY <2>1
<1>6. PICK q2, a2 : Chain(x.e, DataSegments(c, n), q2, a2, x.W, top, g.rcv, g.top, g.rcv)
  BY <1>1, <1>3, <1>4, <1>5, DataChain
<1> QED BY <1>1, <1>6 DEF Chain

(* Nothing changes nothing.                                                 *)
LEMMA FrameRefl ==
  ASSUME NEW c
  PROVE  Frame(c, c)
BY DEF Frame

(* Two steps that leave the rest alone.                                     *)
LEMMA FrameTrans ==
  ASSUME NEW c, NEW d, NEW r, Frame(c, d), Frame(d, r)
  PROVE  Frame(c, r)
BY DEF Frame

(* Who may send has been heard.                                             *)
LEMMA CanOutputPhase ==
  ASSUME NEW x, NEW c, NEW g, NEW q, NEW a, Mid(x, c, g, q, a), CanOutput(c)
  PROVE  g.una >= 1 /\ g.rcv >= 1 /\ c.state # "SYN_RCVD"
BY DEF Mid, Phase, CanOutput

(* tcp_output in the middle of a handler.                                   *)
LEMMA OutputMid ==
  ASSUME NEW room, room \in Rooms, NEW x, NEW c, NEW g, NEW q, NEW a, Mid(x, c, g, q, a)
  PROVE  Goes(x, tcp_output(c, room), g.una, g.rcv) /\ Frame(c, tcp_output(c, room))
<1>1. c \in ConnT /\ g \in Ghost
  BY MidType
<1>2. CASE ~CanOutput(c)
  <2>1. tcp_output(c, room) = c
    BY <1>2 DEF tcp_output
  <2> QED BY <2>1, FrameRefl DEF Goes
<1>3. CASE CanOutput(c)
  <2>1. g.una >= 1 /\ g.rcv >= 1 /\ c.state # "SYN_RCVD"
    BY <1>3, CanOutputPhase
  <2>2. DataSegments(c, Sendable(c, room)) \in Seq(SegT)
    BY <2>1, DataOut
  <2>3. Inflight(c) \in Nat /\ Sendable(c, room) \in Nat /\ Inflight(c) = g.nxt - g.una
    BY DataFits
  <2>4. Len(c.rx) <= RxBuf
    BY DEF Mid, Receives, Counts
  <2>5. \/ tcp_output(c, room) \in ConnT /\ HasSent(c, tcp_output(c, room), room)
        \/ /\ c.fin_pending /\ ~c.fin_sent /\ Inflight(c) + Sendable(c, room) >= Len(c.tx)
           /\ \E d \in ConnT : /\ HasSent(c, d, room) /\ tcp_output(c, room) \in ConnT
                               /\ HasEnded(d, tcp_output(c, room))
    BY <1>1, <1>3, <2>2, <2>3, <2>4, OutputView
  <2>6. CASE tcp_output(c, room) \in ConnT /\ HasSent(c, tcp_output(c, room), room)
    <3>1. PICK h, q2, a2 : /\ Mid(x, tcp_output(c, room), h, q2, a2)
                           /\ h.una = g.una /\ h.rcv = g.rcv
      BY <2>1, <2>6, DataMid
    <3>2. Frame(c, tcp_output(c, room))
      BY <2>6 DEF HasSent
    <3> QED BY <3>1, <3>2 DEF Goes
  <2>7. CASE /\ c.fin_pending /\ ~c.fin_sent /\ Inflight(c) + Sendable(c, room) >= Len(c.tx)
             /\ \E d \in ConnT : /\ HasSent(c, d, room) /\ tcp_output(c, room) \in ConnT
                                 /\ HasEnded(d, tcp_output(c, room))
    <3>1. PICK d \in ConnT : /\ HasSent(c, d, room) /\ tcp_output(c, room) \in ConnT
                             /\ HasEnded(d, tcp_output(c, room))
      BY <2>7
    <3>2. PICK h, q2, a2 : /\ Mid(x, d, h, q2, a2)
                           /\ h.una = g.una /\ h.rcv = g.rcv /\ h.nxt = g.nxt + Sendable(c, room)
      BY <2>1, <3>1, DataMid
    <3>3. d.fin_pending = c.fin_pending /\ d.fin_sent = c.fin_sent /\ d.tx = c.tx /\ Frame(c, d)
          /\ d.state = c.state
      BY <3>1 DEF HasSent, Frame
    <3>4. h.una + Len(d.tx) <= h.nxt
      <4>1. PICK U \in Nat, X \in Nat, n \in Nat, L \in Nat :
              U = g.una /\ X = g.nxt /\ n = Sendable(c, room) /\ L = Len(c.tx)
        BY <1>1, <2>3, SendsType
      <4>2. (X - U) + n >= L
        BY <2>3, <2>7, <4>1
      <4>3. U + L <= X + n
        BY <4>2
      <4> QED BY <3>2, <3>3, <4>1, <4>3
    <3>5. h.una >= 1 /\ h.rcv >= 1
      BY <2>1, <3>2
    <3>6. PICK h2, q3, a3 : /\ Mid(x, tcp_output(c, room), h2, q3, a3)
                            /\ h2.una = h.una /\ h2.rcv = h.rcv
      <4>1. d.fin_pending /\ ~d.fin_sent /\ d.state # "SYN_RCVD"
        BY <2>1, <2>7, <3>3
      <4> QED BY <3>1, <3>2, <3>4, <3>5, <4>1, FinMid
    <3>7. Frame(c, tcp_output(c, room))
      BY <3>1, <3>3, FrameTrans DEF HasEnded
    <3> QED BY <3>2, <3>6, <3>7 DEF Goes
  <2> QED BY <2>5, <2>6, <2>7
<1> QED BY <1>2, <1>3

(* The same, with the positions hidden.                                     *)
LEMMA OutputGoes ==
  ASSUME NEW room, room \in Rooms, NEW x, NEW c, NEW u, NEW r, Goes(x, c, u, r)
  PROVE  Goes(x, tcp_output(c, room), u, r) /\ Frame(c, tcp_output(c, room))
<1>1. PICK g, q, a : Mid(x, c, g, q, a) /\ g.una = u /\ g.rcv = r
  BY DEF Goes
<1> QED BY <1>1, OutputMid

-----------------------------------------------------------------------------
(* Acknowledgements.                                                        *)

(* An acknowledgement at v of what is outstanding, or of one past it.       *)
LEMMA NumAck ==
  ASSUME NEW U, NEW X, NEW T, NEW F, NEW L, NEW W, NEW fp, NEW fs, NEW v, NEW M, NEW Y,
         U \in Nat, X \in Nat, T \in Nat, F \in Nat, L \in Nat, W \in Nat,
         fp \in BOOLEAN, fs \in BOOLEAN, v \in Nat, M \in Nat, Y \in Nat,
         Numbers(U, X, T, F, L, W, fp, fs), U < v, v <= T, v <= X + 1,
         M <= L, L - M <= v - U, M = 0 \/ L - M = v - U,
         X <= Y, v <= Y, Y = X \/ Y = v
  PROVE  Numbers(v, Y, T, F, M, W, fp, fs)
<1>1. TxBuf \in Nat /\ U <= X /\ X <= T /\ 1 <= X /\ T <= 3 + W /\ L <= TxBuf
  BY Constants DEF Numbers
<1>2. v >= 1 /\ M <= L /\ Y <= T
  BY <1>1
<1>3. M <= W /\ 1 + W <= v + M /\ (M > 0 => v + M = 1 + W)
  <2>1. CASE U = 0
    <3>1. W = 0 /\ L = 0
      BY <2>1 DEF Numbers
    <3> QED BY <1>2, <3>1
  <2>2. CASE U >= 1
    <3>1. L <= W /\ 1 + W <= U + L /\ (L > 0 => U + L = 1 + W)
      BY <2>2 DEF Numbers
    <3> QED BY <1>2, <3>1
  <2> QED BY <2>1, <2>2
<1>4. (~fp => T <= 1 + W /\ ~fs) /\ (~fs \/ M > 0 => T <= 2 + W)
  BY <1>2 DEF Numbers
<1>5. ~fs /\ M > 0 => Y <= 1 + W
  <2>1. ~fs /\ L > 0 => X <= 1 + W
    BY DEF Numbers
  <2> QED BY <1>2, <1>3, <2>1
<1>6. fs => F >= 1 + W /\ Y = F + 1 /\ T = F + 1
  <2>1. fs => F >= 1 + W /\ X = F + 1 /\ T = F + 1
    BY DEF Numbers
  <2> QED BY <1>2, <2>1
<1> QED BY <1>1, <1>2, <1>3, <1>4, <1>5, <1>6 DEF Numbers

(* What an acknowledgement leaves alone.                                    *)
Same(c, d) ==
    /\ d.used = c.used /\ d.state = c.state /\ d.fin_pending = c.fin_pending
    /\ d.fin_sent = c.fin_sent /\ d.fin_seq = c.fin_seq /\ d.orphan = c.orphan
    /\ d.peer_fin = c.peer_fin /\ d.reset = c.reset /\ d.rcv_nxt = c.rcv_nxt /\ d.rx = c.rx
    /\ d.out = c.out

(* A buffer without its first n bytes.                                      *)
Drop(t, n) == SubSeq(t, n + 1, Len(t))

(* A shortened buffer, byte by byte.                                        *)
LEMMA DropIs ==
  ASSUME NEW t, NEW n, t \in Seq(Nat), n \in Nat, n <= Len(t)
  PROVE  /\ Drop(t, n) \in Seq(Nat) /\ Len(Drop(t, n)) = Len(t) - n
         /\ \A i \in 1 .. Len(t) - n : Drop(t, n)[i] = t[n + i]
<1>1. PICK L \in Nat : L = Len(t)
  BY SeqFacts
<1>2. PICK m \in Nat \ {0} : m = n + 1
  OBVIOUS
<1>3. m <= L + 1 /\ n <= L /\ L <= Len(t)
  BY <1>1, <1>2
<1>4. /\ SubSeq(t, m, L) \in Seq(Nat) /\ Len(SubSeq(t, m, L)) = L + 1 - m
      /\ \A i \in 1 .. L + 1 - m : SubSeq(t, m, L)[i] = t[m - 1 + i]
  BY <1>3, SubSeqNat
<1>5. L + 1 - m = L - n /\ \A i \in 1 .. L - n : m - 1 + i = n + i
  BY <1>2
<1>6. Drop(t, n) = SubSeq(t, m, L)
  BY <1>1, <1>2 DEF Drop
<1> QED BY <1>1, <1>4, <1>5, <1>6

(* A suffix of a run of positions is the run's end.                         *)
LEMMA TailRun ==
  ASSUME NEW t, NEW n, NEW W, t \in Seq(Nat), n \in Nat, W \in Nat, n <= Len(t),
         Run(t, W)
  PROVE  Run(Drop(t, n), W)
<1>1. PICK L \in Nat : L = Len(t)
  BY SeqFacts
<1>4. \A i \in 1 .. L - n : Drop(t, n)[i] = t[n + i]
  BY <1>1, DropIs
<1>5. ASSUME NEW i \in 1 .. L - n PROVE Drop(t, n)[i] = W - (L - n) + i
  <2>1. PICK j \in 1 .. L : j = n + i
    BY <1>1
  <2>2. Drop(t, n)[i] = t[j]
    BY <1>4, <2>1
  <2>4. t[j] = W - L + j
    BY <1>1 DEF Run
  <2>5. W - L + j = W - (L - n) + i
    BY <2>1
  <2> QED BY <2>2, <2>4, <2>5
<1>6. Len(Drop(t, n)) = L - n
  BY <1>1, DropIs
<1> QED BY <1>5, <1>6 DEF Run

(* Released bytes, field by field.                                          *)
LEMMA ReleaseView ==
  ASSUME NEW c, NEW s, NEW n, c \in ConnT, s \in SegT,
         n = Least(Diff(s.ack, c.snd_una), Len(c.tx)), n \in Nat, n <= Len(c.tx)
  PROVE  /\ Release(c, s) \in ConnT /\ Same(c, Release(c, s))
         /\ Release(c, s).snd_nxt = c.snd_nxt /\ Release(c, s).snd_una = s.ack
         /\ Release(c, s).tx = Drop(c.tx, n)
<1> DEFINE t == Drop(c.tx, n)
           r == s.ack # c.snd_nxt
<1>1. c.tx \in Seq(Nat) /\ Len(c.tx) \in Nat
  BY ConnType, SeqFacts
<1>3. t \in Seq(Nat)
  BY <1>1, DropIs
<1>4. Release(c, s) = [c EXCEPT !.tx = t, !.snd_una = s.ack, !.retries = 0, !.rto = r]
  BY DEF Release, Drop
<1>5. 0 \in 0 .. MaxRetries + 1 /\ s.ack \in SeqNo /\ r \in BOOLEAN
  BY Constants DEF SegT
<1> HIDE DEF t, r
<1>6. Release(c, s) \in ConnT
  BY <1>3, <1>4, <1>5 DEF ConnT
<1>7. Release(c, s).snd_nxt = c.snd_nxt /\ Release(c, s).snd_una = s.ack /\ Release(c, s).tx = t
  BY <1>4 DEF ConnT
<1>8. Same(c, Release(c, s))
  BY <1>4 DEF ConnT, Same
<1> QED BY <1>6, <1>7, <1>8 DEF t

(* tcp_input's pull of snd_nxt, field by field.                             *)
LEMMA PullUpView ==
  ASSUME NEW c, NEW s, c \in ConnT, s \in SegT
  PROVE  /\ PullUp(c, s) \in ConnT /\ Same(c, PullUp(c, s))
         /\ PullUp(c, s).snd_una = c.snd_una /\ PullUp(c, s).tx = c.tx
         /\ \/ /\ seq_gt(s.ack, c.snd_nxt) /\ seq_leq(s.ack, Add(c.snd_nxt, 1))
               /\ PullUp(c, s).snd_nxt = s.ack
            \/ /\ ~(seq_gt(s.ack, c.snd_nxt) /\ seq_leq(s.ack, Add(c.snd_nxt, 1)))
               /\ PullUp(c, s) = c
<1>1. s.ack \in SeqNo
  BY DEF SegT
<1>2. CASE seq_gt(s.ack, c.snd_nxt) /\ seq_leq(s.ack, Add(c.snd_nxt, 1))
  <2>1. PullUp(c, s) = [c EXCEPT !.snd_nxt = s.ack]
    BY <1>2 DEF PullUp
  <2>2. /\ PullUp(c, s) \in ConnT /\ PullUp(c, s).snd_una = c.snd_una
        /\ PullUp(c, s).tx = c.tx /\ PullUp(c, s).snd_nxt = s.ack
    BY <1>1, <2>1 DEF ConnT
  <2>3. Same(c, PullUp(c, s))
    BY <2>1 DEF ConnT, Same
  <2> QED BY <1>2, <2>2, <2>3
<1>3. CASE ~(seq_gt(s.ack, c.snd_nxt) /\ seq_leq(s.ack, Add(c.snd_nxt, 1)))
  <2>1. PullUp(c, s) = c
    BY <1>3 DEF PullUp
  <2>2. Same(c, c)
    BY DEF Same
  <2> QED BY <1>3, <2>1, <2>2
<1> QED BY <1>2, <1>3

(* An acknowledgement releases what it acknowledges.                        *)
LEMMA ReleaseMid ==
  ASSUME NEW x, NEW c, NEW g, NEW q, NEW a, Mid(x, c, g, q, a), c.state # "SYN_SENT",
         NEW v, v \in Nat, g.una < v, v <= g.top, v <= g.nxt + 1,
         NEW d, d \in ConnT, Same(c, d), d.snd_una = Pos(x.e, v),
         NEW Y, Y \in Nat, g.nxt <= Y, v <= Y, Y = g.nxt \/ Y = v, d.snd_nxt = Pos(x.e, Y),
         NEW n, n = Least(v - g.una, Len(c.tx)), d.tx = Drop(c.tx, n)
  PROVE  Goes(x, d, v, g.rcv)
<1>1. x.e \in Ends /\ x.W \in Nat /\ c \in ConnT /\ g \in Ghost
  BY MidType
<1>2. PICK U \in Nat, X \in Nat, T \in Nat, F \in Nat, R \in Nat :
        U = g.una /\ X = g.nxt /\ T = g.top /\ F = g.fin /\ R = g.rcv
  BY <1>1, GhostType
<1>3. PICK L \in Nat, W \in Nat, fp \in BOOLEAN, fs \in BOOLEAN :
        L = Len(c.tx) /\ W = x.W /\ fp = c.fin_pending /\ fs = c.fin_sent
  BY <1>1, SendsType
<1>4. Numbers(U, X, T, F, L, W, fp, fs)
  BY <1>2, <1>3 DEF Mid, Sends
<1>5. U < v /\ v <= T /\ v <= X + 1 /\ X <= Y /\ (Y = X \/ Y = v)
  BY <1>2
<1>6. PICK D \in Nat : D = v - U
  BY <1>5
<1>7. n \in Nat /\ n <= L /\ n <= D /\ (n = L \/ n = D)
  <2>1. n = Least(D, L)
    BY <1>2, <1>3, <1>6
  <2> QED BY <2>1, LeastIs
<1>8. PICK M \in Nat : M = L - n
  BY <1>7
<1>9. d.tx \in Seq(Nat) /\ Len(d.tx) = M /\ Run(d.tx, x.W)
  <2>1. PICK t \in Seq(Nat), V \in Nat : t = c.tx /\ V = x.W
    BY <1>1, ConnType
  <2>2. n <= Len(t) /\ Run(t, V)
    BY <1>3, <1>7, <2>1 DEF Mid, Sends
  <2>3. Drop(t, n) \in Seq(Nat) /\ Len(Drop(t, n)) = Len(t) - n
    BY <1>7, <2>2, DropIs
  <2>4. Run(Drop(t, n), V)
    BY <1>7, <2>2, TailRun
  <2> QED BY <1>3, <1>8, <2>1, <2>3, <2>4
<1>10. Numbers(v, Y, T, F, M, W, fp, fs)
  <2>1. M <= L /\ L - M <= v - U /\ (M = 0 \/ L - M = v - U)
    BY <1>6, <1>7, <1>8
  <2> QED BY <1>4, <1>5, <2>1, NumAck
<1>11. PICK h \in Ghost : h.una = v /\ h.nxt = Y /\ h.rcv = R /\ h.top = T /\ h.fin = F
  <2> DEFINE h == MkGhost(v, Y, R, T, F)
  <2>1. h \in Ghost /\ h.una = v /\ h.nxt = Y /\ h.rcv = R /\ h.top = T /\ h.fin = F
    BY GhostMake
  <2> QED BY <2>1
<1>12. Sends(x.e, d, h, x.W, x.en)
  <2>1. d.fin_pending = c.fin_pending /\ d.fin_sent = c.fin_sent /\ d.fin_seq = c.fin_seq
    BY DEF Same
  <2>2. Numbers(h.una, h.nxt, h.top, h.fin, Len(d.tx), x.W, d.fin_pending, d.fin_sent)
    BY <1>3, <1>9, <1>10, <1>11, <2>1
  <2>4. (c.fin_pending => x.en) /\ (c.fin_sent => c.fin_seq = Pos(x.e, h.fin))
    BY <1>2, <1>11 DEF Mid, Sends
  <2> QED BY <1>9, <1>11, <2>1, <2>2, <2>4 DEF Sends
<1>13. Phase(x.e, d, h, x.W, x.rp)
  <2>1. h.una >= 1 /\ h.rcv = g.rcv /\ h.top = g.top
    BY <1>2, <1>5, <1>11
  <2>2. d.state = c.state /\ d.fin_pending = c.fin_pending
    BY DEF Same
  <2>3. g.rcv = 0 => d.tx = <<>>
    <3>1. g.rcv = 0 => L = 0
      BY <1>1, <1>3, ConnType, SeqFacts DEF Mid, Phase
    <3>2. L = 0 => M = 0
      BY <1>7, <1>8
    <3>3. M = 0 => d.tx = <<>>
      BY <1>9, SeqFacts
    <3> QED BY <3>1, <3>2, <3>3
  <2> QED BY <2>1, <2>2, <2>3 DEF Mid, Phase
<1>14. Receives(x.e, d, h, x.rd, x.Wp, x.ep)
  BY <1>2, <1>11 DEF Mid, Receives, Same
<1>15. Mid(x, d, h, q, a)
  <2>1. d.out = c.out
    BY DEF Same
  <2>2. h.top = g.top /\ h.rcv = g.rcv
    BY <1>2, <1>11
  <2> QED BY <1>11, <1>12, <1>13, <1>14, <2>1, <2>2 DEF Mid
<1> QED BY <1>2, <1>11, <1>15 DEF Goes

(* s is the segment that end x.e handles: the k-th position of the other end *)
(* at its front, v the position of ours that it acknowledges; tp is the     *)
(* other end's top and u our snd_una when the handler starts.               *)
Heard(x, s, k, v, tp, u) ==
    /\ s \in SegT /\ k \in Nat /\ v \in Nat /\ tp \in Nat /\ u \in Nat /\ Live(s)
    /\ Seg(Peer(x.e), s, k, v, x.Wp, tp, x.rp, x.r0, u)
    /\ u <= x.rp /\ x.rp <= x.t0
    /\ tp <= x.r0 + Window
    /\ x.r0 = 0 => tp <= 1
    /\ tp >= 2 + x.Wp => x.ep

(* What the acknowledgement of a segment in sight says.                     *)
LEMMA HeardAck ==
  ASSUME NEW x, NEW s, NEW k, NEW v, NEW tp, NEW u, Heard(x, s, k, v, tp, u), x \in Env,
         Acks(s)
  PROVE  /\ s \in SegT /\ v \in Nat /\ s.ack = Pos(x.e, v) /\ 1 <= v /\ u <= v /\ v <= x.rp
         /\ x.rp <= x.t0
<1>1. x.e \in Ends
  BY DEF Env
<1>2. Peer(Peer(x.e)) = x.e
  BY <1>1, Constants
<1>3. s.ack = Pos(Peer(Peer(x.e)), v) /\ 1 <= v /\ v <= x.rp /\ (u = 0 \/ u <= v)
  BY DEF Heard, Seg
<1>4. u \in Nat /\ v \in Nat /\ s \in SegT /\ x.rp <= x.t0
  BY DEF Heard
<1> QED BY <1>2, <1>3, <1>4

(* The fields that nobody but the state machine touches are left alone.     *)
Keep(c, d) ==
    /\ d.used = c.used /\ d.state = c.state /\ d.orphan = c.orphan
    /\ d.peer_fin = c.peer_fin /\ d.reset = c.reset

(* Steps that leave the state machine's fields alone.                       *)
LEMMA KeepOf ==
  ASSUME NEW c, NEW d
  PROVE  (Same(c, d) => Keep(c, d)) /\ (Frame(c, d) => Keep(c, d)) /\ Keep(c, c)
BY DEF Same, Frame, Keep

(* Two such steps.                                                          *)
LEMMA KeepTrans ==
  ASSUME NEW c, NEW d, NEW r, Keep(c, d), Keep(d, r)
  PROVE  Keep(c, r)
BY DEF Keep

(* The four places an acknowledgement can point to.                         *)
LEMMA AckPlaces ==
  ASSUME NEW x, NEW c, NEW g, NEW q, NEW a, Mid(x, c, g, q, a),
         NEW s, NEW v, s \in SegT, v \in Nat, s.ack = Pos(x.e, v), 1 <= v, g.una <= v,
         v <= g.top
  PROVE  /\ seq_gt(s.ack, c.snd_nxt) <=> v > g.nxt
         /\ seq_leq(s.ack, c.snd_nxt) <=> v <= g.nxt
         /\ seq_leq(s.ack, Add(c.snd_nxt, 1)) <=> v <= g.nxt + 1
         /\ seq_gt(s.ack, c.snd_una) <=> v > g.una
         /\ Diff(s.ack, c.snd_una) = v - g.una
         /\ g.una = 0 => v = 1 /\ g.nxt = 1
<1>1. x.e \in Ends /\ x.W \in Nat /\ c \in ConnT /\ g \in Ghost
  BY MidType
<1>2. PICK U \in Nat, X \in Nat, T \in Nat : U = g.una /\ X = g.nxt /\ T = g.top
  BY <1>1, GhostType
<1>3. PICK w \in Nat, M \in Nat : w = Window /\ M = SeqMod /\ w + 1 < M
  BY Constants
<1>4. T <= U + w /\ T <= X + w
  BY <1>1, <1>2, <1>3, TopBound DEF Mid
<1>5. U <= X /\ X <= T /\ 1 <= X /\ (U = 0 => T = 1)
  BY <1>2 DEF Mid, Sends, Numbers
<1>6. U <= v /\ v <= T
  BY <1>2
<1>7. c.snd_nxt = Pos(x.e, X) /\ c.snd_una = Pos(x.e, U)
  BY <1>2 DEF Mid, Sends
<1>8. PICK Y \in Nat : Y = X + 1
  OBVIOUS
<1>9. Add(c.snd_nxt, 1) = Pos(x.e, Y)
  BY <1>1, <1>7, <1>8, PosAdd
<1>10. /\ v <= X + w + 1 /\ X <= v + w + 1 /\ v <= Y + w + 1 /\ Y <= v + w + 1
       /\ v <= U + w + 1 /\ U <= v + w + 1 /\ U <= v /\ v < U + M
  BY <1>3, <1>4, <1>5, <1>6, <1>8
<1>11. /\ seq_gt(Pos(x.e, v), Pos(x.e, X)) <=> v > X
       /\ seq_leq(Pos(x.e, v), Pos(x.e, X)) <=> v <= X
  BY <1>1, <1>3, <1>10, PosGt
<1>12. seq_leq(Pos(x.e, v), Pos(x.e, Y)) <=> v <= Y
  BY <1>1, <1>3, <1>10, PosGt
<1>13. seq_gt(Pos(x.e, v), Pos(x.e, U)) <=> v > U
  BY <1>1, <1>3, <1>10, PosGt
<1>14. Diff(Pos(x.e, v), Pos(x.e, U)) = v - U
  BY <1>1, <1>3, <1>10, PosDiff
<1>15. U = 0 => v = 1 /\ X = 1
  BY <1>5, <1>6
<1> QED BY <1>2, <1>7, <1>8, <1>9, <1>11, <1>12, <1>13, <1>14, <1>15

(* Two steps that leave the receiving half alone.                           *)
LEMMA SameTrans ==
  ASSUME NEW c, NEW d, NEW r, Same(c, d), Same(d, r)
  PROVE  Same(c, r)
BY DEF Same

(* An acknowledgement that releases something.                              *)
LEMMA NewAck ==
  ASSUME NEW x, NEW c, NEW g, NEW q, NEW a, Mid(x, c, g, q, a), c.state # "SYN_SENT",
         NEW s, NEW v, s \in SegT, v \in Nat, s.ack = Pos(x.e, v), 1 <= v, g.una < v,
         v <= g.top, v <= g.nxt + 1
  PROVE  /\ AcksNew(PullUp(c, s), s) /\ Same(c, Release(PullUp(c, s), s))
         /\ Goes(x, Release(PullUp(c, s), s), v, g.rcv)
<1>1. x.e \in Ends /\ x.W \in Nat /\ c \in ConnT /\ g \in Ghost
  BY MidType
<1>2. PICK U \in Nat, X \in Nat : U = g.una /\ X = g.nxt
  BY <1>1, GhostType
<1>3. U < v /\ v <= X + 1 /\ U <= v
  BY <1>2
<1>4. /\ seq_gt(s.ack, c.snd_nxt) <=> v > X
      /\ seq_leq(s.ack, c.snd_nxt) <=> v <= X
      /\ seq_leq(s.ack, Add(c.snd_nxt, 1)) <=> v <= X + 1
      /\ seq_gt(s.ack, c.snd_una) <=> v > U
      /\ Diff(s.ack, c.snd_una) = v - U
  <2>1. g.una <= v
    BY <1>2, <1>3
  <2>2. /\ seq_gt(s.ack, c.snd_nxt) <=> v > g.nxt
        /\ seq_leq(s.ack, c.snd_nxt) <=> v <= g.nxt
        /\ seq_leq(s.ack, Add(c.snd_nxt, 1)) <=> v <= g.nxt + 1
        /\ seq_gt(s.ack, c.snd_una) <=> v > g.una
    BY <2>1, AckPlaces, Zenon
  <2>3. Diff(s.ack, c.snd_una) = v - U
    <3>1. PICK w \in Nat, M \in Nat, T \in Nat : w = Window /\ M = SeqMod /\ w + 1 < M /\ T = g.top
      BY <1>1, Constants, GhostType
    <3>2. T <= U + w
      BY <1>1, <1>2, <3>1, TopBound DEF Mid
    <3>3. v <= T
      BY <3>1
    <3>4. U <= v /\ v < U + M
      BY <1>3, <3>1, <3>2, <3>3
    <3>5. Diff(Pos(x.e, v), Pos(x.e, U)) = v - U
      BY <1>1, <3>1, <3>4, PosDiff
    <3>6. c.snd_una = Pos(x.e, U)
      BY <1>2 DEF Mid, Sends
    <3> QED BY <3>5, <3>6
  <2> QED BY <1>2, <2>2, <2>3
<1>5. PICK p : p = PullUp(c, s)
  OBVIOUS
<1>6. /\ p \in ConnT /\ Same(c, p) /\ p.snd_una = c.snd_una /\ p.tx = c.tx
      /\ \/ v > X /\ p.snd_nxt = s.ack
         \/ v <= X /\ p = c
  BY <1>1, <1>3, <1>4, <1>5, PullUpView
<1>7. PICK Y \in Nat : X <= Y /\ v <= Y /\ (Y = X \/ Y = v) /\ p.snd_nxt = Pos(x.e, Y)
  <2>1. c.snd_nxt = Pos(x.e, X)
    BY <1>2 DEF Mid, Sends
  <2>2. CASE v > X
    BY <1>6, <2>2
  <2>3. CASE v <= X
    BY <1>6, <2>1, <2>3
  <2> QED BY <2>2, <2>3
<1>8. AcksNew(p, s)
  <2>1. seq_gt(s.ack, p.snd_una)
    BY <1>3, <1>4, <1>6
  <2>2. seq_leq(s.ack, p.snd_nxt)
    <3>1. CASE v <= X
      BY <1>4, <1>6, <3>1
    <3>2. CASE v > X
      <4>1. PICK w \in Nat : w = Window
        BY WindowNat
      <4>2. v <= v + w + 1
        OBVIOUS
      <4>3. seq_leq(Pos(x.e, v), Pos(x.e, v)) <=> v <= v
        BY <1>1, <4>1, <4>2, PosGt
      <4> QED BY <1>6, <3>2, <4>3
    <3> QED BY <3>1, <3>2
  <2> QED BY <2>1, <2>2 DEF AcksNew
<1>9. PICK n \in Nat : n = Least(v - U, Len(c.tx)) /\ n <= Len(c.tx)
  <2>0. PICK D \in Nat : D = v - U
    BY <1>3
  <2>1. PICK L \in Nat : L = Len(c.tx)
    BY <1>1, SendsType
  <2>2. Least(D, L) \in Nat /\ Least(D, L) <= L
    BY LeastIs
  <2> QED BY <2>0, <2>1, <2>2
<1>10. PICK d : d = Release(p, s)
  OBVIOUS
<1>11. /\ d \in ConnT /\ Same(p, d) /\ d.snd_nxt = p.snd_nxt /\ d.snd_una = s.ack
       /\ d.tx = Drop(p.tx, n)
  <2>1. n = Least(Diff(s.ack, p.snd_una), Len(p.tx)) /\ n <= Len(p.tx)
    BY <1>4, <1>6, <1>9
  <2> QED BY <1>6, <1>10, <2>1, ReleaseView
<1>12. Same(c, d)
  BY <1>6, <1>11, SameTrans
<1>13. Goes(x, d, v, g.rcv)
  <2>1. d.snd_una = Pos(x.e, v) /\ d.snd_nxt = Pos(x.e, Y) /\ d.tx = Drop(c.tx, n)
    BY <1>6, <1>7, <1>11
  <2>2. g.nxt <= Y /\ v <= Y /\ (Y = g.nxt \/ Y = v) /\ n = Least(v - g.una, Len(c.tx))
    BY <1>2, <1>7, <1>9
  <2> QED BY <1>11, <1>12, <2>1, <2>2, ReleaseMid
<1> QED BY <1>5, <1>8, <1>10, <1>12, <1>13

(* An acknowledgement of nothing new.                                       *)
LEMMA OldAck ==
  ASSUME NEW x, NEW c, NEW g, NEW q, NEW a, Mid(x, c, g, q, a),
         NEW s, NEW v, s \in SegT, v \in Nat, s.ack = Pos(x.e, v), 1 <= v, g.una <= v,
         v <= g.top, v = g.una \/ v > g.nxt + 1
  PROVE  PullUp(c, s) = c /\ ~AcksNew(c, s) /\ g.una >= 1
<1>1. x.e \in Ends /\ x.W \in Nat /\ c \in ConnT /\ g \in Ghost
  BY MidType
<1>2. PICK U \in Nat, X \in Nat : U = g.una /\ X = g.nxt
  BY <1>1, GhostType
<1>3. U <= X
  BY <1>2 DEF Mid, Sends, Numbers
<1>4. /\ seq_gt(s.ack, c.snd_nxt) <=> v > X
      /\ seq_leq(s.ack, c.snd_nxt) <=> v <= X
      /\ seq_leq(s.ack, Add(c.snd_nxt, 1)) <=> v <= X + 1
      /\ seq_gt(s.ack, c.snd_una) <=> v > U
      /\ U = 0 => v = 1 /\ X = 1
  <2>2. /\ seq_gt(s.ack, c.snd_nxt) <=> v > g.nxt
        /\ seq_leq(s.ack, c.snd_nxt) <=> v <= g.nxt
        /\ seq_leq(s.ack, Add(c.snd_nxt, 1)) <=> v <= g.nxt + 1
        /\ seq_gt(s.ack, c.snd_una) <=> v > g.una
        /\ g.una = 0 => v = 1 /\ g.nxt = 1
    BY AckPlaces, ZenonT(60)
  <2> QED BY <1>2, <2>2
<1>5. v = U \/ v > X + 1
  BY <1>2
<1>6. ~(v > X /\ v <= X + 1) /\ ~(v > U /\ v <= X) /\ U >= 1
  BY <1>3, <1>4, <1>5
<1>7. ~(seq_gt(s.ack, c.snd_nxt) /\ seq_leq(s.ack, Add(c.snd_nxt, 1)))
  BY <1>4, <1>6
<1>8. PullUp(c, s) = c
  BY <1>7 DEF PullUp
<1>9. ~AcksNew(c, s)
  BY <1>4, <1>6 DEF AcksNew
<1> QED BY <1>2, <1>6, <1>8, <1>9

(* An acknowledgement, new or old.                                          *)
LEMMA TakeAckGoes ==
  ASSUME NEW room, room \in Rooms,
         NEW x, NEW c, NEW g, NEW q, NEW a, Mid(x, c, g, q, a), c.state # "SYN_SENT",
         NEW s, NEW v, s \in SegT, v \in Nat, s.ack = Pos(x.e, v), 1 <= v, g.una <= v,
         v <= g.top
  PROVE  \E u \in Nat : /\ Goes(x, TakeAck(PullUp(c, s), s, room), u, g.rcv)
                        /\ u = g.una \/ u = v
                        /\ u >= 1 /\ Keep(c, TakeAck(PullUp(c, s), s, room))
<1>1. g.una \in Nat /\ g.nxt \in Nat
  BY MidType
<1>2. CASE v = g.una \/ v > g.nxt + 1
  <2>1. PullUp(c, s) = c /\ ~AcksNew(c, s) /\ g.una >= 1
    BY <1>2, OldAck
  <2>2. TakeAck(PullUp(c, s), s, room) = c
    BY <2>1 DEF TakeAck
  <2>3. Goes(x, c, g.una, g.rcv) /\ Keep(c, c)
    BY KeepOf DEF Goes
  <2> QED BY <1>1, <2>1, <2>2, <2>3
<1>3. CASE v # g.una /\ v <= g.nxt + 1
  <2>1. g.una < v
    BY <1>1, <1>3
  <2>2. PICK d : d = Release(PullUp(c, s), s)
    OBVIOUS
  <2>3. AcksNew(PullUp(c, s), s) /\ Same(c, d) /\ Goes(x, d, v, g.rcv)
    BY <1>3, <2>1, <2>2, NewAck
  <2>4. TakeAck(PullUp(c, s), s, room) = tcp_output(d, room)
    BY <2>2, <2>3 DEF TakeAck
  <2>5. Goes(x, tcp_output(d, room), v, g.rcv) /\ Frame(d, tcp_output(d, room))
    BY <2>3, OutputGoes
  <2>6. Keep(c, tcp_output(d, room))
    BY <2>3, <2>5, KeepOf, KeepTrans
  <2> QED BY <2>4, <2>5, <2>6
<1> QED BY <1>1, <1>2, <1>3

(* Everything the invariant reads of an entry but its state.                *)
Bare(c, d) ==
    /\ d.fin_pending = c.fin_pending /\ d.fin_sent = c.fin_sent /\ d.fin_seq = c.fin_seq
    /\ d.peer_fin = c.peer_fin /\ d.reset = c.reset /\ d.snd_una = c.snd_una
    /\ d.snd_nxt = c.snd_nxt /\ d.tx = c.tx /\ d.rcv_nxt = c.rcv_nxt /\ d.rx = c.rx
    /\ d.out = c.out

(* A change that no position shows.                                         *)
LEMMA BareMid ==
  ASSUME NEW x, NEW c, NEW g, NEW q, NEW a, Mid(x, c, g, q, a),
         NEW d, d \in ConnT, Bare(c, d), Phase(x.e, d, g, x.W, x.rp)
  PROVE  Mid(x, d, g, q, a)
<1>1. Sends(x.e, d, g, x.W, x.en)
  BY DEF Mid, Sends, Bare
<1>2. Receives(x.e, d, g, x.rd, x.Wp, x.ep)
  BY DEF Mid, Receives, Bare
<1>3. d.out = c.out
  BY DEF Bare
<1> QED BY <1>1, <1>2, <1>3 DEF Mid

(* Phase reads the state and the positions only.                            *)
LEMMA PhaseSame ==
  ASSUME NEW e, NEW c, NEW d, NEW g, NEW W, NEW rp, Phase(e, c, g, W, rp), Bare(c, d),
         \/ d.state = c.state \/ d.state = "CLOSED"
         \/ d.state \in {"ESTABLISHED", "CLOSE_WAIT", "FIN_WAIT_1", "LAST_ACK", "TIME_WAIT"}
              /\ g.una >= 1 /\ g.rcv >= 1
         \/ d.state = "FIN_WAIT_2" /\ g.una >= 1 /\ g.rcv >= 1 /\ rp >= 2 + W
  PROVE  Phase(e, d, g, W, rp)
BY DEF Phase, Bare

(* The peer's window is stored.                                             *)
Windowed(c, w) == [c EXCEPT !.snd_wnd = w]

(* A state with its timer stopped.                                          *)
Stated(c, st) == [c EXCEPT !.state = st, !.rto = FALSE]

(* A state, with the timer as it is.                                        *)
Moved(c, st) == [c EXCEPT !.state = st]

(* The entry is given up.                                                   *)
Freed(c) == [c EXCEPT !.used = FALSE, !.state = "CLOSED"]

(* Storing the window, field by field.                                      *)
LEMMA WindowedView ==
  ASSUME NEW c, NEW w, c \in ConnT, w \in Nat
  PROVE  /\ Windowed(c, w) \in ConnT /\ Bare(c, Windowed(c, w)) /\ Keep(c, Windowed(c, w))
<1>1. Windowed(c, w) \in ConnT
  BY DEF ConnT, Windowed
<1>2. Bare(c, Windowed(c, w)) /\ Keep(c, Windowed(c, w))
  BY DEF ConnT, Windowed, Bare, Keep
<1> QED BY <1>1, <1>2

(* A state with its timer stopped, field by field.                          *)
LEMMA StatedView ==
  ASSUME NEW c, NEW st, c \in ConnT, st \in States
  PROVE  /\ Stated(c, st) \in ConnT /\ Bare(c, Stated(c, st)) /\ Stated(c, st).state = st
         /\ Stated(c, st).used = c.used /\ Stated(c, st).orphan = c.orphan
<1>1. Stated(c, st) \in ConnT
  BY DEF ConnT, Stated
<1>2. /\ Bare(c, Stated(c, st)) /\ Stated(c, st).state = st
      /\ Stated(c, st).used = c.used /\ Stated(c, st).orphan = c.orphan
  BY DEF ConnT, Stated, Bare
<1> QED BY <1>1, <1>2

(* A state, field by field.                                                 *)
LEMMA MovedView ==
  ASSUME NEW c, NEW st, c \in ConnT, st \in States
  PROVE  /\ Moved(c, st) \in ConnT /\ Bare(c, Moved(c, st)) /\ Moved(c, st).state = st
         /\ Moved(c, st).used = c.used /\ Moved(c, st).orphan = c.orphan
<1>1. Moved(c, st) \in ConnT
  BY DEF ConnT, Moved
<1>2. /\ Bare(c, Moved(c, st)) /\ Moved(c, st).state = st
      /\ Moved(c, st).used = c.used /\ Moved(c, st).orphan = c.orphan
  BY DEF ConnT, Moved, Bare
<1> QED BY <1>1, <1>2

(* Giving the entry up, field by field.                                     *)
LEMMA FreedView ==
  ASSUME NEW c, c \in ConnT
  PROVE  /\ Freed(c) \in ConnT /\ Bare(c, Freed(c)) /\ Freed(c).state = "CLOSED"
         /\ Freed(c).used = FALSE /\ Freed(c).orphan = c.orphan
<1>1. Freed(c) \in ConnT
  BY DEF ConnT, Freed, States
<1>2. /\ Bare(c, Freed(c)) /\ Freed(c).state = "CLOSED"
      /\ Freed(c).used = FALSE /\ Freed(c).orphan = c.orphan
  BY DEF ConnT, Freed, Bare
<1> QED BY <1>1, <1>2

(* The types behind Goes.                                                   *)
LEMMA GoesType ==
  ASSUME NEW x, NEW c, NEW u, NEW r, Goes(x, c, u, r)
  PROVE  /\ c \in ConnT /\ u \in Nat /\ r \in Nat /\ x \in Env /\ x.e \in Ends
         /\ x.rp \in Nat /\ x.t0 \in Nat /\ x.r0 \in Nat /\ x.W \in Nat /\ x.Wp \in Nat
         /\ x.r0 <= r
BY MidType DEF Goes, Mid

(* A state that the positions allow.                                        *)
LEMMA StateGoes ==
  ASSUME NEW x, NEW c, NEW u, NEW r, Goes(x, c, u, r), NEW d, d \in ConnT, Bare(c, d),
         \/ d.state = c.state \/ d.state = "CLOSED"
         \/ d.state \in {"ESTABLISHED", "CLOSE_WAIT", "FIN_WAIT_1", "LAST_ACK", "TIME_WAIT"}
              /\ u >= 1 /\ r >= 1
         \/ d.state = "FIN_WAIT_2" /\ u >= 1 /\ r >= 1 /\ x.rp >= 2 + x.W
  PROVE  Goes(x, d, u, r)
<1>1. PICK g, q, a : Mid(x, c, g, q, a) /\ g.una = u /\ g.rcv = r
  BY DEF Goes
<1>2. Phase(x.e, c, g, x.W, x.rp)
  BY <1>1 DEF Mid
<1>3. Phase(x.e, d, g, x.W, x.rp)
  BY <1>1, <1>2, PhaseSame
<1>4. Mid(x, d, g, q, a)
  BY <1>1, <1>3, BareMid
<1> QED BY <1>1, <1>4 DEF Goes

(* The peer's window.                                                       *)
LEMMA TakeWindowGoes ==
  ASSUME NEW room, room \in Rooms,
         NEW x, NEW c, NEW u, NEW r, Goes(x, c, u, r), NEW s, s \in SegT
  PROVE  Goes(x, TakeWindow(c, s, room), u, r) /\ Keep(c, TakeWindow(c, s, room))
<1>1. s.wnd \in Nat /\ c \in ConnT
  BY GoesType DEF SegT
<1>2. PICK d : d = Windowed(c, s.wnd)
  OBVIOUS
<1>3. d \in ConnT /\ Bare(c, d) /\ Keep(c, d)
  BY <1>1, <1>2, WindowedView
<1>4. d.state = c.state
  BY <1>3 DEF Keep
<1>5. Goes(x, d, u, r)
  BY <1>3, <1>4, StateGoes
<1>6. Goes(x, tcp_output(d, room), u, r) /\ Frame(d, tcp_output(d, room))
  BY <1>5, OutputGoes
<1>7. TakeWindow(c, s, room) = tcp_output(d, room)
  BY <1>2 DEF TakeWindow, Windowed
<1>8. Keep(c, tcp_output(d, room))
  BY <1>3, <1>6, KeepOf, KeepTrans
<1> QED BY <1>6, <1>7, <1>8

(* Emitting leaves the state machine's fields alone.                        *)
LEMMA EmitKeeps ==
  ASSUME NEW c, NEW seq, NEW f, c \in ConnT, seq \in SeqNo, f \in Flags, Len(c.rx) <= RxBuf
  PROVE  Keep(c, tcp_emit(c, seq, f, <<>>)) /\ tcp_emit(c, seq, f, <<>>) \in ConnT
<1>1. PICK z \in Seq(Nat) : z = <<>>
  BY Emptiness
<1>2. Frame(c, tcp_emit(c, seq, f, z)) /\ tcp_emit(c, seq, f, z) \in ConnT
  BY EmitView
<1> QED BY <1>1, <1>2, KeepOf

(* A reset may be emitted at any time.                                      *)
LEMMA RstGoes ==
  ASSUME NEW x, NEW c, NEW u, NEW r, Goes(x, c, u, r)
  PROVE  /\ Goes(x, tcp_emit(c, c.snd_nxt, {"RST"}, <<>>), u, r)
         /\ Keep(c, tcp_emit(c, c.snd_nxt, {"RST"}, <<>>))
<1>1. PICK g, q, a : Mid(x, c, g, q, a) /\ g.una = u /\ g.rcv = r
  BY DEF Goes
<1>2. Mid(x, tcp_emit(c, c.snd_nxt, {"RST"}, <<>>), g, q \o <<0>>, a \o <<0>>)
  BY <1>1, RstMid
<1>3. Len(c.rx) <= RxBuf /\ c \in ConnT
  BY <1>1 DEF Mid, Receives, Counts
<1>4. c.snd_nxt \in SeqNo
  BY <1>3, ConnType
<1>5. PICK f \in Flags : f = {"RST"}
  BY FlagSets
<1>6. Keep(c, tcp_emit(c, c.snd_nxt, f, <<>>))
  BY <1>3, <1>4, EmitKeeps
<1> QED BY <1>1, <1>2, <1>5, <1>6 DEF Goes

(* An acknowledgement may be emitted at any time.                           *)
LEMMA AckGoes ==
  ASSUME NEW x, NEW c, NEW u, NEW r, Goes(x, c, u, r), r >= 1
  PROVE  /\ Goes(x, tcp_emit(c, c.snd_nxt, {"ACK"}, <<>>), u, r)
         /\ Keep(c, tcp_emit(c, c.snd_nxt, {"ACK"}, <<>>))
<1>1. PICK g, q, a : Mid(x, c, g, q, a) /\ g.una = u /\ g.rcv = r
  BY DEF Goes
<1>2. Mid(x, tcp_emit(c, c.snd_nxt, {"ACK"}, <<>>), g, q \o <<g.nxt>>, a \o <<g.rcv>>)
  BY <1>1, AckMid
<1>3. Len(c.rx) <= RxBuf /\ c \in ConnT
  BY <1>1 DEF Mid, Receives, Counts
<1>4. c.snd_nxt \in SeqNo
  BY <1>3, ConnType
<1>5. PICK f \in Flags : f = {"ACK"}
  BY FlagSets
<1>6. Keep(c, tcp_emit(c, c.snd_nxt, f, <<>>))
  BY <1>3, <1>4, EmitKeeps
<1> QED BY <1>1, <1>2, <1>5, <1>6 DEF Goes

(* The child's handshake is complete; a full queue refuses and frees it.    *)
LEMMA EstablishGoes ==
  ASSUME NEW x, NEW c, NEW u, NEW r, Goes(x, c, u, r), c.state = "SYN_RCVD", u >= 1,
         NEW full, full \in BOOLEAN
  PROVE  /\ Goes(x, Establish(c, full), u, r) /\ Establish(c, full).orphan = c.orphan
         /\ Establish(c, full).state \in {"ESTABLISHED", "CLOSED"}
         /\ full \/ (Establish(c, full).used <=> c.used)
<1>1. c \in ConnT /\ u \in Nat /\ r \in Nat
  BY GoesType
<1>2. r >= 1
  <2>1. PICK g, q, a : Mid(x, c, g, q, a) /\ g.una = u /\ g.rcv = r
    BY DEF Goes
  <2>2. r # 0
    BY <2>1 DEF Mid, Phase, Client, Server
  <2> QED BY <1>1, <2>2
<1>3. PICK d : d = Stated(c, "ESTABLISHED")
  OBVIOUS
<1>4. /\ d \in ConnT /\ Bare(c, d) /\ d.state = "ESTABLISHED"
      /\ d.used = c.used /\ d.orphan = c.orphan
  <2>1. "ESTABLISHED" \in States
    BY DEF States
  <2> QED BY <1>1, <1>3, <2>1, StatedView
<1>5. Goes(x, d, u, r)
  BY <1>2, <1>4, StateGoes
<1>6. CASE ~full
  <2>1. Establish(c, full) = d
    BY <1>3, <1>6 DEF Establish, Stated
  <2> QED BY <1>4, <1>5, <2>1
<1>7. CASE full
  <2>1. PICK m : m = tcp_emit(d, d.snd_nxt, {"RST"}, <<>>)
    OBVIOUS
  <2>2. Goes(x, m, u, r) /\ Keep(d, m)
    BY <1>5, <2>1, RstGoes
  <2>3. m \in ConnT
    BY <2>2, GoesType
  <2>4. /\ Freed(m) \in ConnT /\ Bare(m, Freed(m)) /\ Freed(m).state = "CLOSED"
        /\ Freed(m).orphan = m.orphan
    BY <2>3, FreedView
  <2>5. Goes(x, Freed(m), u, r)
    BY <2>2, <2>4, StateGoes
  <2>6. Establish(c, full) = Freed(m)
    BY <1>3, <1>7, <2>1 DEF Establish, Stated, Freed
  <2>7. Freed(m).orphan = c.orphan
    BY <1>4, <2>2, <2>4 DEF Keep
  <2> QED BY <1>7, <2>4, <2>5, <2>6, <2>7
<1> QED BY <1>6, <1>7

(* A FIN that is sent is behind the stream and is the last position.        *)
LEMMA NumFinAcked ==
  ASSUME NEW U, NEW X, NEW T, NEW F, NEW L, NEW W, NEW fp,
         U \in Nat, X \in Nat, T \in Nat, F \in Nat, L \in Nat, W \in Nat,
         Numbers(U, X, T, F, L, W, fp, TRUE)
  PROVE  F >= 1 + W /\ T = F + 1
BY DEF Numbers

(* Our FIN counts as acknowledged only when the peer has taken it.          *)
LEMMA FinAckedIs ==
  ASSUME NEW x, NEW c, NEW u, NEW r, Goes(x, c, u, r), NEW s, NEW v, s \in SegT,
         v \in Nat, s.ack = Pos(x.e, v), u <= v, v <= x.rp, x.rp <= x.t0, FinAcked(c, s)
  PROVE  x.rp >= 2 + x.W
<1>1. PICK g, q, a : Mid(x, c, g, q, a) /\ g.una = u /\ g.rcv = r
  BY DEF Goes
<1>2. x.e \in Ends /\ x.W \in Nat /\ c \in ConnT /\ g \in Ghost /\ x.rp \in Nat /\ x.t0 \in Nat
  BY <1>1, MidType
<1>3. Sends(x.e, c, g, x.W, x.en) /\ x.t0 <= g.top
  BY <1>1 DEF Mid
<1>4. c.fin_sent = TRUE /\ seq_gt(s.ack, c.fin_seq)
  <2>1. c.fin_sent \in BOOLEAN
    BY <1>2, ConnType
  <2> QED BY <2>1 DEF FinAcked
<1>5. g.top <= g.una + Window
  BY <1>2, <1>3, TopBound
<1>6. /\ Numbers(g.una, g.nxt, g.top, g.fin, Len(c.tx), x.W, c.fin_pending, TRUE)
      /\ c.fin_seq = Pos(x.e, g.fin)
  BY <1>3, <1>4 DEF Sends
<1>7. /\ g.una \in Nat /\ g.nxt \in Nat /\ g.top \in Nat /\ g.fin \in Nat
      /\ Len(c.tx) \in Nat
  BY <1>2, SendsType
<1>8. g.fin >= 1 + x.W /\ g.top = g.fin + 1
  BY <1>2, <1>6, <1>7, NumFinAcked
<1>9. PICK F \in Nat, rp \in Nat, t0 \in Nat, W \in Nat :
        F = g.fin /\ rp = x.rp /\ t0 = x.t0 /\ W = x.W
  BY <1>2, <1>7
<1>10. /\ F >= 1 + W /\ F + 1 <= v + Window /\ v <= rp /\ rp <= t0 /\ t0 <= F + 1
  <2>1. u \in Nat /\ g.top <= u + Window /\ u <= v /\ g.top = F + 1
    BY <1>1, <1>5, <1>7, <1>8, <1>9
  <2>2. F >= 1 + W /\ v <= rp /\ rp <= t0 /\ t0 <= F + 1
    BY <1>3, <1>8, <1>9
  <2> QED BY <2>1, <2>2, WindowNat
<1>11. v <= F + Window + 1 /\ F <= v + Window + 1
  BY <1>10, WindowNat
<1>12. seq_gt(Pos(x.e, v), Pos(x.e, F))
  BY <1>4, <1>6, <1>9
<1>13. v > F
  BY <1>2, <1>11, <1>12, PosGt
<1>14. rp >= 2 + W
  BY <1>10, <1>13
<1> QED BY <1>9, <1>14

(* The states that an acknowledgement of our FIN ends.                      *)
LEMMA AckStatesGoes ==
  ASSUME NEW x, NEW c, NEW u, NEW r, Goes(x, c, u, r), NEW s, NEW v, s \in SegT,
         v \in Nat, s.ack = Pos(x.e, v), u <= v, v <= x.rp, x.rp <= x.t0
  PROVE  /\ Goes(x, AckStates(c, s), u, r) /\ AckStates(c, s).orphan = c.orphan
         /\ AckStates(c, s).state \in {c.state, "FIN_WAIT_2", "CLOSED"}
         /\ AckStates(c, s).used = c.used
<1>1. c \in ConnT /\ u \in Nat /\ r \in Nat
  BY GoesType
<1>2. CASE c.state = "FIN_WAIT_1" /\ FinAcked(c, s)
  <2>1. x.rp >= 2 + x.W
    BY <1>2, FinAckedIs
  <2>2. u >= 1 /\ r >= 1
    <3>1. PICK g, q, a : Mid(x, c, g, q, a) /\ g.una = u /\ g.rcv = r
      BY DEF Goes
    <3> QED BY <1>2, <3>1 DEF Mid, Phase
  <2>3. "FIN_WAIT_2" \in States
    BY DEF States
  <2>4. PICK d : d = Moved(c, "FIN_WAIT_2")
    OBVIOUS
  <2>5. /\ d \in ConnT /\ Bare(c, d) /\ d.state = "FIN_WAIT_2"
        /\ d.used = c.used /\ d.orphan = c.orphan
    BY <1>1, <2>3, <2>4, MovedView
  <2>6. Goes(x, d, u, r)
    BY <2>1, <2>2, <2>5, StateGoes
  <2>7. AckStates(c, s) = d
    BY <1>2, <2>4 DEF AckStates, Moved
  <2> QED BY <2>5, <2>6, <2>7
<1>3. CASE ~(c.state = "FIN_WAIT_1" /\ FinAcked(c, s)) /\ c.state = "LAST_ACK" /\ FinAcked(c, s)
  <2>3. "CLOSED" \in States
    BY DEF States
  <2>4. PICK d : d = Stated(c, "CLOSED")
    OBVIOUS
  <2>5. /\ d \in ConnT /\ Bare(c, d) /\ d.state = "CLOSED"
        /\ d.used = c.used /\ d.orphan = c.orphan
    BY <1>1, <2>3, <2>4, StatedView
  <2>6. Goes(x, d, u, r)
    BY <2>5, StateGoes
  <2>7. AckStates(c, s) = d
    BY <1>3, <2>4 DEF AckStates, Stated
  <2> QED BY <2>5, <2>6, <2>7
<1>4. CASE ~((c.state = "FIN_WAIT_1" \/ c.state = "LAST_ACK") /\ FinAcked(c, s))
  <2>1. AckStates(c, s) = c
    BY <1>4 DEF AckStates
  <2> QED BY <2>1
<1> QED BY <1>2, <1>3, <1>4

(* The acknowledgement half of the handler: pull up, take the               *)
(* acknowledgement, take the window.                                        *)
Acked(c, s, ra, rw) == TakeWindow(TakeAck(PullUp(c, s), s, ra), s, rw)

(* ... and establish, if this completes the handshake.                      *)
Joined(w, s, full) == IF Establishes(w, s) THEN Establish(w, full) ELSE w

(* What Keep says of the state.                                             *)
LEMMA KeepsState ==
  ASSUME NEW c, NEW d, Keep(c, d)
  PROVE  d.used = c.used /\ d.state = c.state /\ d.orphan = c.orphan
BY DEF Keep

(* The acknowledgement half of the handler.                                 *)
LEMMA AckedGoes ==
  ASSUME NEW ra, NEW rw, ra \in Rooms, rw \in Rooms,
         NEW x, NEW c, NEW g, NEW q, NEW a, Mid(x, c, g, q, a), c.state # "SYN_SENT",
         NEW s, NEW v, s \in SegT, v \in Nat, s.ack = Pos(x.e, v), 1 <= v, g.una <= v,
         v <= g.top
  PROVE  \E u \in Nat : /\ Goes(x, Acked(c, s, ra, rw), u, g.rcv) /\ (u = g.una \/ u = v)
                        /\ u >= 1 /\ Keep(c, Acked(c, s, ra, rw))
<1>1. PICK m : m = TakeAck(PullUp(c, s), s, ra)
  OBVIOUS
<1>2. PICK u \in Nat : Goes(x, m, u, g.rcv) /\ (u = g.una \/ u = v) /\ u >= 1 /\ Keep(c, m)
  BY <1>1, TakeAckGoes
<1>3. Goes(x, TakeWindow(m, s, rw), u, g.rcv) /\ Keep(m, TakeWindow(m, s, rw))
  BY <1>2, TakeWindowGoes
<1>4. Acked(c, s, ra, rw) = TakeWindow(m, s, rw)
  BY <1>1 DEF Acked
<1>5. Keep(c, TakeWindow(m, s, rw))
  BY <1>2, <1>3, KeepTrans
<1> QED BY <1>2, <1>3, <1>4, <1>5

(* The handshake's numbers.                                                 *)
LEMMA NumOne ==
  ASSUME NEW U, NEW X, NEW T, NEW F, NEW L, NEW W, NEW fp, NEW fs,
         U \in Nat, X \in Nat, T \in Nat, F \in Nat, L \in Nat, W \in Nat,
         Numbers(U, X, T, F, L, W, fp, fs), T <= 1
  PROVE  X = 1 /\ T = 1
BY DEF Numbers

(* A child that is acknowledged leaves SYN_RCVD.                            *)
LEMMA MustEstablish ==
  ASSUME NEW x, NEW w, NEW u, NEW r, Goes(x, w, u, r), w.state = "SYN_RCVD",
         NEW s, NEW v, s \in SegT, v \in Nat, s.ack = Pos(x.e, v), Acks(s), 1 <= v,
         v <= x.rp, x.rp <= x.t0
  PROVE  Establishes(w, s)
<1>1. PICK g, q, a : Mid(x, w, g, q, a) /\ g.una = u /\ g.rcv = r
  BY DEF Goes
<1>2. x.e \in Ends /\ x.W \in Nat /\ w \in ConnT /\ g \in Ghost /\ x.rp \in Nat /\ x.t0 \in Nat
  BY <1>1, MidType
<1>3. /\ g.una \in Nat /\ g.nxt \in Nat /\ g.top \in Nat /\ g.fin \in Nat
      /\ Len(w.tx) \in Nat
  BY <1>2, SendsType
<1>4. /\ Numbers(g.una, g.nxt, g.top, g.fin, Len(w.tx), x.W, w.fin_pending, w.fin_sent)
      /\ w.snd_nxt = Pos(x.e, g.nxt)
  BY <1>1 DEF Mid, Sends
<1>5. g.top <= 1
  BY <1>1 DEF Mid, Phase
<1>6. g.nxt = 1 /\ g.top = 1
  BY <1>2, <1>3, <1>4, <1>5, NumOne
<1>7. x.t0 <= g.top
  BY <1>1 DEF Mid
<1>8. v = 1
  BY <1>2, <1>6, <1>7
<1>9. 1 \in Nat /\ 1 <= 1 + Window + 1
  BY WindowNat
<1>10. seq_leq(Pos(x.e, 1), Pos(x.e, 1))
  BY <1>2, <1>9, PosGt
<1>11. seq_leq(w.snd_nxt, s.ack)
  BY <1>4, <1>6, <1>8, <1>10
<1> QED BY <1>11 DEF Establishes

(* The acknowledgement of a segment, from beginning to end.                 *)
AckedTo(x, c, d, u, r) ==
    /\ Goes(x, d, u, r) /\ u >= 1 /\ d.orphan = c.orphan
    /\ d.state \notin {"SYN_SENT", "SYN_RCVD"}

(* The handler's first half, for a segment with an acknowledgement.         *)
LEMMA AckPath ==
  ASSUME NEW ra, NEW rw, ra \in Rooms, rw \in Rooms,
         NEW x, NEW c, NEW g, NEW q, NEW a, Mid(x, c, g, q, a), c.state # "SYN_SENT",
         NEW s, NEW k, NEW v, NEW tp, Heard(x, s, k, v, tp, g.una), Acks(s),
         NEW full, full \in BOOLEAN
  PROVE  \E u \in Nat :
           /\ u = g.una \/ u = v
           /\ AckedTo(x, c, AckStates(Joined(Acked(c, s, ra, rw), s, full), s), u, g.rcv)
<1>1. x \in Env /\ x.e \in Ends /\ x.rp \in Nat /\ x.t0 \in Nat /\ g.una \in Nat /\ g.top \in Nat
  BY MidType
<1>2. /\ s \in SegT /\ v \in Nat /\ s.ack = Pos(x.e, v) /\ 1 <= v /\ g.una <= v /\ v <= x.rp
      /\ x.rp <= x.t0
  BY <1>1, HeardAck
<1>3. v <= g.top
  <2>1. x.t0 <= g.top
    BY DEF Mid
  <2> QED BY <1>1, <1>2, <2>1
<1>4. PICK w : w = Acked(c, s, ra, rw)
  OBVIOUS
<1>5. PICK u \in Nat : /\ Goes(x, w, u, g.rcv) /\ (u = g.una \/ u = v)
                       /\ u >= 1 /\ Keep(c, w)
  BY <1>2, <1>3, <1>4, AckedGoes
<1>6. u <= v
  BY <1>1, <1>2, <1>5
<1>7. w.used = c.used /\ w.state = c.state /\ w.orphan = c.orphan
  BY <1>5, KeepsState
<1>8. PICK b : b = Joined(w, s, full)
  OBVIOUS
<1>9. /\ Goes(x, b, u, g.rcv) /\ b.orphan = c.orphan
      /\ b.state \notin {"SYN_SENT", "SYN_RCVD"}
      /\ (full /\ Establishes(w, s)) \/ b.used = c.used
  <2>1. CASE w.state = "SYN_RCVD"
    <3>1. Establishes(w, s)
      BY <1>2, <1>5, <2>1, MustEstablish
    <3>2. b = Establish(w, full)
      BY <1>8, <3>1 DEF Joined
    <3>3. /\ Goes(x, b, u, g.rcv) /\ b.orphan = w.orphan /\ b.state \in {"ESTABLISHED", "CLOSED"}
          /\ full \/ (b.used <=> w.used)
      BY <1>5, <2>1, <3>2, EstablishGoes
    <3>4. full \/ b.used = c.used
      <4>1. w \in ConnT /\ b \in ConnT
        BY <1>5, <3>3, GoesType
      <4>2. w.used \in BOOLEAN /\ b.used \in BOOLEAN
        BY <4>1, ConnType
      <4> QED BY <1>7, <3>3, <4>2
    <3> QED BY <1>7, <3>1, <3>3, <3>4
  <2>2. CASE w.state # "SYN_RCVD"
    <3>1. b = w
      BY <1>8, <2>2 DEF Joined, Establishes
    <3> QED BY <1>5, <1>7, <2>2, <3>1
  <2> QED BY <2>1, <2>2
<1>10. PICK d : d = AckStates(b, s)
  OBVIOUS
<1>11. /\ Goes(x, d, u, g.rcv) /\ d.orphan = b.orphan
       /\ d.state \in {b.state, "FIN_WAIT_2", "CLOSED"} /\ d.used = b.used
  BY <1>2, <1>6, <1>9, <1>10, AckStatesGoes
<1>12. AckedTo(x, c, d, u, g.rcv)
  BY <1>5, <1>9, <1>11 DEF AckedTo
<1> QED BY <1>4, <1>5, <1>8, <1>10, <1>12

-----------------------------------------------------------------------------
(* Data and FIN.                                                            *)

(* What taking data or a FIN leaves alone.                                  *)
Fed(c, d) ==
    /\ d.used = c.used /\ d.state = c.state /\ d.fin_pending = c.fin_pending
    /\ d.fin_sent = c.fin_sent /\ d.fin_seq = c.fin_seq /\ d.orphan = c.orphan
    /\ d.snd_una = c.snd_una /\ d.snd_nxt = c.snd_nxt /\ d.tx = c.tx
    /\ d.out = c.out

(* The receiving half moves, in the middle of a handler.                    *)
LEMMA FedMid ==
  ASSUME NEW x, NEW c, NEW g, NEW q, NEW a, Mid(x, c, g, q, a), g.rcv >= 1,
         NEW d, d \in ConnT, Fed(c, d), NEW r, r \in Nat, g.rcv <= r,
         d.rcv_nxt = Pos(Peer(x.e), r),
         Counts(r, Len(x.rd), Len(d.rx), x.Wp, d.peer_fin, d.reset, x.ep),
         \A i \in 1 .. Len(d.rx) : d.rx[i] = Len(x.rd) + i
  PROVE  Goes(x, d, g.una, r)
<1>1. x.e \in Ends /\ x.W \in Nat /\ c \in ConnT /\ g \in Ghost /\ x \in Env /\ x.t0 \in Nat /\ x.r0 \in Nat
  BY MidType
<1>2. PICK U \in Nat, X \in Nat, T \in Nat, F \in Nat, R \in Nat :
        U = g.una /\ X = g.nxt /\ T = g.top /\ F = g.fin /\ R = g.rcv
  BY <1>1, GhostType
<1>3. PICK h \in Ghost : h.una = U /\ h.nxt = X /\ h.rcv = r /\ h.top = T /\ h.fin = F
  <2> DEFINE h == MkGhost(U, X, r, T, F)
  <2>1. h \in Ghost /\ h.una = U /\ h.nxt = X /\ h.rcv = r /\ h.top = T /\ h.fin = F
    BY GhostMake
  <2> QED BY <2>1
<1>4. h.una = g.una /\ h.nxt = g.nxt /\ h.top = g.top /\ h.fin = g.fin
  BY <1>2, <1>3
<1>5. Sends(x.e, c, g, x.W, x.en) /\ Phase(x.e, c, g, x.W, x.rp)
      /\ Chain(x.e, c.out, q, a, x.W, g.top, g.rcv, x.t0, x.r0)
      /\ x.t0 <= g.top /\ x.r0 <= g.rcv
  BY DEF Mid
<1>6. Sends(x.e, d, h, x.W, x.en)
  BY <1>4, <1>5 DEF Sends, Fed
<1>7. Phase(x.e, d, h, x.W, x.rp)
  <2>1. r >= 1 /\ h.rcv = r
    BY <1>2, <1>3
  <2>2. c.state # "SYN_SENT"
    <3>1. g.rcv # 0
      BY <1>2
    <3> QED BY <1>5, <3>1 DEF Phase
  <2> QED BY <1>4, <1>5, <2>1, <2>2 DEF Phase, Fed
<1>8. Receives(x.e, d, h, x.rd, x.Wp, x.ep)
  BY <1>3 DEF Receives
<1>9. Chain(x.e, c.out, q, a, x.W, g.top, r, x.t0, x.r0)
  <2>1. Chain(x.e, c.out, q, a, x.W, T, R, x.t0, x.r0) /\ R <= r /\ T <= T
    BY <1>2, <1>5
  <2>2. Chain(x.e, c.out, q, a, x.W, T, r, x.t0, x.r0)
    BY <1>1, <2>1, ChainGrow
  <2> QED BY <1>2, <2>2
<1>10. Chain(x.e, d.out, q, a, x.W, h.top, h.rcv, x.t0, x.r0)
  BY <1>3, <1>4, <1>9 DEF Fed
<1>11. x.t0 <= h.top /\ x.r0 <= h.rcv
  BY <1>1, <1>2, <1>3, <1>4, <1>5
<1>12. Mid(x, d, h, q, a)
  BY <1>1, <1>6, <1>7, <1>8, <1>10, <1>11 DEF Mid
<1> QED BY <1>3, <1>4, <1>12 DEF Goes

(* The receiver's numbers after data.                                       *)
LEMMA CountData ==
  ASSUME NEW r, NEW R, NEW L, NEW W, NEW pf, NEW rs, NEW en, NEW y, NEW M,
         r \in Nat, R \in Nat, L \in Nat, W \in Nat, y \in Nat, M \in Nat,
         Counts(r, R, L, W, pf, rs, en), r >= 1, r <= y, M <= RxBuf,
         M - L = y - r, y # r => y <= 1 + W
  PROVE  Counts(y, R, M, W, pf, rs, en) /\ (y # r => r = 1 + R + L)
BY Constants DEF Counts

(* The receiver's numbers after the FIN.                                    *)
LEMMA CountFin ==
  ASSUME NEW r, NEW R, NEW L, NEW W, NEW pf, NEW rs, NEW en,
         r \in Nat, R \in Nat, L \in Nat, W \in Nat,
         Counts(r, R, L, W, pf, rs, en), r >= 1 + W, en = TRUE
  PROVE  Counts(r + 1, R, L, W, TRUE, rs, en)
BY Constants DEF Counts

(* The segment's place in the stream, when it carries data or a FIN.        *)
LEMMA HeardPlace ==
  ASSUME NEW x, NEW s, NEW k, NEW v, NEW tp, NEW u, Heard(x, s, k, v, tp, u), x \in Env,
         s.data # <<>> \/ "FIN" \in s.flags
  PROVE  /\ x.r0 >= 1 /\ k >= 1 /\ k \in Nat /\ s.seq = Pos(Peer(x.e), k)
         /\ k <= x.r0 + Window /\ x.r0 <= k + Window
         /\ s.data # <<>> => k + Len(s.data) <= 1 + x.Wp
         /\ \A i \in 1 .. Len(s.data) : s.data[i] = k - 1 + i
         /\ "FIN" \in s.flags => s.data = <<>> /\ k >= 1 + x.Wp /\ x.ep = TRUE
         /\ s \in SegT /\ End(s, k) \in Nat /\ k + Len(s.data) <= End(s, k)
         /\ "FIN" \in s.flags => k + 1 <= End(s, k)
<1>1. x.e \in Ends /\ x.Wp \in Nat /\ x.r0 \in Nat /\ x.ep \in BOOLEAN
  BY DEF Env
<1>2. Peer(x.e) \in Ends
  BY <1>1, Constants
<1>3. /\ s \in SegT /\ k \in Nat /\ v \in Nat /\ tp \in Nat
      /\ Seg(Peer(x.e), s, k, v, x.Wp, tp, x.rp, x.r0, u)
      /\ tp <= x.r0 + Window /\ (x.r0 = 0 => tp <= 1) /\ (tp >= 2 + x.Wp => x.ep)
  BY DEF Heard
<1>4. /\ s.data \in Seq(Nat) /\ Len(s.data) \in Nat /\ (Len(s.data) = 0 <=> s.data = <<>>)
      /\ End(s, k) \in Nat /\ k + Len(s.data) <= End(s, k)
      /\ ("FIN" \in s.flags \/ "SYN" \in s.flags => k + Len(s.data) < End(s, k))
  BY <1>3, EndType
<1>5. /\ s.seq = Pos(Peer(x.e), k)
      /\ \A i \in 1 .. Len(s.data) : s.data[i] = k - 1 + i
      /\ s.data # <<>> => k >= 1 /\ k + Len(s.data) <= 1 + x.Wp
      /\ "FIN" \in s.flags => s.data = <<>> /\ k >= 1 + x.Wp
      /\ End(s, k) <= tp /\ x.r0 <= k + Window
  BY <1>3 DEF Seg
<1>6. k >= 1
  BY <1>1, <1>3, <1>5
<1>7. End(s, k) >= k + 1
  BY <1>3, <1>4
<1>12. PICK E \in Nat, r0 \in Nat, Wp \in Nat : E = End(s, k) /\ r0 = x.r0 /\ Wp = x.Wp
  BY <1>1, <1>4
<1>13. E >= k + 1 /\ E <= tp /\ tp <= r0 + Window /\ (r0 = 0 => tp <= 1)
  BY <1>3, <1>5, <1>7, <1>12
<1>14. k \in Nat /\ tp \in Nat
  BY <1>3
<1>15. r0 >= 1 /\ k <= r0 + Window /\ k + 1 <= tp
  BY <1>6, <1>13, <1>14, WindowNat
<1>8. x.r0 >= 1
  BY <1>12, <1>15
<1>9. k <= x.r0 + Window
  BY <1>12, <1>15
<1>10. "FIN" \in s.flags => x.ep = TRUE
  <2>1. "FIN" \in s.flags => k >= 1 + Wp
    BY <1>5, <1>12
  <2>2. k >= 1 + Wp => tp >= 2 + Wp
    BY <1>14, <1>15
  <2> QED BY <1>1, <1>3, <1>12, <2>1, <2>2
<1>11. "FIN" \in s.flags => k + 1 <= End(s, k)
  BY <1>7
<1> QED BY <1>3, <1>4, <1>5, <1>6, <1>8, <1>9, <1>10, <1>11

(* Received bytes are the ones that follow the R read so far.               *)
Contig(rx, R) == \A i \in 1 .. Len(rx) : rx[i] = R + i

(* What Goes says of the receiving half.                                    *)
LEMMA GoesRecv ==
  ASSUME NEW x, NEW c, NEW u, NEW r, Goes(x, c, u, r)
  PROVE  /\ Counts(r, Len(x.rd), Len(c.rx), x.Wp, c.peer_fin, c.reset, x.ep)
         /\ r >= 1 => c.rcv_nxt = Pos(Peer(x.e), r)
         /\ Contig(c.rx, Len(x.rd))
         /\ x.rd \in Seq(Nat) /\ Len(x.rd) \in Nat /\ Len(c.rx) \in Nat /\ Len(c.rx) <= RxBuf
<1>1. PICK g, q, a : Mid(x, c, g, q, a) /\ g.una = u /\ g.rcv = r
  BY DEF Goes
<1>2. x.rd \in Seq(Nat) /\ c \in ConnT
  BY <1>1, MidType
<1>3. Len(x.rd) \in Nat
  BY <1>2, SeqFacts
<1>4. Len(c.rx) \in Nat
  BY <1>2, ConnType, SeqFacts
<1>5. Receives(x.e, c, g, x.rd, x.Wp, x.ep)
  BY <1>1 DEF Mid
<1>6. Counts(r, Len(x.rd), Len(c.rx), x.Wp, c.peer_fin, c.reset, x.ep)
  BY <1>1, <1>5 DEF Receives
<1>7. Len(c.rx) <= RxBuf
  BY <1>6 DEF Counts
<1> QED BY <1>1, <1>2, <1>3, <1>4, <1>5, <1>6, <1>7 DEF Receives, Contig

(* The receiving half moves, with the positions hidden.                     *)
LEMMA FedGoes ==
  ASSUME NEW x, NEW c, NEW u, NEW r, Goes(x, c, u, r), r >= 1,
         NEW d, d \in ConnT, Fed(c, d), NEW y, y \in Nat, r <= y,
         d.rcv_nxt = Pos(Peer(x.e), y),
         Counts(y, Len(x.rd), Len(d.rx), x.Wp, d.peer_fin, d.reset, x.ep),
         Contig(d.rx, Len(x.rd))
  PROVE  Goes(x, d, u, y)
<1>1. PICK g, q, a : Mid(x, c, g, q, a) /\ g.una = u /\ g.rcv = r
  BY DEF Goes
<1>2. \A i \in 1 .. Len(d.rx) : d.rx[i] = Len(x.rd) + i
  BY DEF Contig
<1>3. g.rcv >= 1 /\ g.rcv <= y
  BY <1>1
<1>4. Goes(x, d, g.una, y)
  BY <1>1, <1>2, <1>3, FedMid
<1> QED BY <1>1, <1>4

(* Bytes go to the receive buffer and rcv_nxt moves with them.              *)
Stored(c, t, n) == [c EXCEPT !.rx = c.rx \o t, !.rcv_nxt = Add(c.rcv_nxt, n)]

(* Storing bytes, field by field.                                           *)
LEMMA StoredView ==
  ASSUME NEW c, NEW t, NEW n, c \in ConnT, t \in Seq(Nat), n \in Nat
  PROVE  /\ Stored(c, t, n) \in ConnT /\ Fed(c, Stored(c, t, n))
         /\ Stored(c, t, n).peer_fin = c.peer_fin /\ Stored(c, t, n).reset = c.reset
         /\ Stored(c, t, n).rx = c.rx \o t
         /\ Stored(c, t, n).rcv_nxt = Add(c.rcv_nxt, n)
<1>1. c.rx \o t \in Seq(Nat)
  BY ConnType, ConcatNat
<1>2. Add(c.rcv_nxt, n) \in SeqNo
  BY ConnType, AddType
<1>3. PICK z \in Seq(Nat), y \in SeqNo : z = c.rx \o t /\ y = Add(c.rcv_nxt, n)
  BY <1>1, <1>2
<1>4. PICK d : d = [c EXCEPT !.rx = z, !.rcv_nxt = y]
  OBVIOUS
<1>5. Stored(c, t, n) = d
  BY <1>3, <1>4 DEF Stored
<1>6. d \in ConnT
  BY <1>4 DEF ConnT
<1>7. /\ Fed(c, d) /\ d.peer_fin = c.peer_fin /\ d.reset = c.reset /\ d.rx = z
      /\ d.rcv_nxt = y
  BY <1>4 DEF ConnT, Fed
<1> QED BY <1>3, <1>5, <1>6, <1>7

(* The bytes that follow are contiguous.                                    *)
LEMMA ContigJoin ==
  ASSUME NEW s, NEW t, NEW R, s \in Seq(Nat), t \in Seq(Nat), R \in Nat, Contig(s, R),
         \A i \in 1 .. Len(t) : t[i] = R + Len(s) + i
  PROVE  Contig(s \o t, R) /\ Len(s \o t) = Len(s) + Len(t)
<1>1. /\ Len(s \o t) = Len(s) + Len(t)
      /\ \A i \in 1 .. Len(s) : (s \o t)[i] = s[i]
      /\ \A i \in 1 .. Len(t) : (s \o t)[Len(s) + i] = t[i]
      /\ \A i \in 1 .. Len(s \o t) : i \in 1 .. Len(s) \/ \E j \in 1 .. Len(t) : i = Len(s) + j
  BY ConcatNat
<1>2. PICK z : z = s \o t
  OBVIOUS
<1>3. ASSUME NEW i \in 1 .. Len(z)
      PROVE  z[i] = R + i
  <2>1. CASE i \in 1 .. Len(s)
    BY <1>1, <1>2, <2>1 DEF Contig
  <2>2. CASE \E j \in 1 .. Len(t) : i = Len(s) + j
    <3>1. PICK j \in 1 .. Len(t) : i = Len(s) + j
      BY <2>2
    <3>2. z[i] = t[j]
      BY <1>1, <1>2, <3>1
    <3>3. t[j] = R + Len(s) + j
      BY <3>1
    <3>4. Len(s) \in Nat
      BY SeqFacts
    <3>5. R + Len(s) + j = R + i
      BY <3>1, <3>4
    <3> QED BY <3>2, <3>3, <3>5
  <2> QED BY <1>1, <1>2, <2>1, <2>2
<1> QED BY <1>1, <1>2, <1>3 DEF Contig

(* Before the last byte, rcv counts exactly what was read and what is       *)
(* buffered.                                                                *)
LEMMA CountPlace ==
  ASSUME NEW r, NEW R, NEW L, NEW W, NEW pf, NEW rs, NEW en,
         r \in Nat, R \in Nat, L \in Nat, W \in Nat,
         Counts(r, R, L, W, pf, rs, en), r >= 1, r <= W
  PROVE  r = 1 + R + L
BY DEF Counts

(* A window is less than half of the number space.                          *)
LEMMA WindowMod ==
  Window \in Nat /\ SeqMod \in Nat /\ RxBuf \in Nat /\ Window < SeqMod
<1>1. /\ SeqMod \in Nat /\ SeqMod \div 2 \in Nat /\ SeqMod = 2 * (SeqMod \div 2)
      /\ Window \in Nat /\ Window + 1 < SeqMod \div 2 /\ RxBuf \in Nat
  BY Constants
<1> QED BY <1>1

(* The other end.                                                           *)
LEMMA PeerEnd ==
  ASSUME NEW e, e \in Ends
  PROVE  Peer(e) \in Ends
BY Constants

(* Data at rcv_nxt is taken as far as it fits; other data is only answered. *)
LEMMA TakeDataGoes ==
  ASSUME NEW x, NEW c, NEW u, NEW r, Goes(x, c, u, r), r = x.r0,
         NEW s, NEW k, NEW v, NEW tp, NEW u0, Heard(x, s, k, v, tp, u0)
  PROVE  \E y \in Nat : /\ Goes(x, TakeData(c, s), u, y) /\ Keep(c, TakeData(c, s))
                        /\ r <= y /\ (y = r \/ y <= End(s, k))
                        /\ s.data = <<>> => y = r
<1>1. c \in ConnT /\ u \in Nat /\ r \in Nat /\ x \in Env /\ x.e \in Ends /\ x.Wp \in Nat
  BY GoesType
<1>2. CASE s.data = <<>>
  <2>1. TakeData(c, s) = c /\ Keep(c, c)
    BY <1>2, KeepOf DEF TakeData
  <2> QED BY <1>1, <2>1
<1>3. CASE s.data # <<>>
  <2>1. /\ r >= 1 /\ k >= 1 /\ k \in Nat /\ s.seq = Pos(Peer(x.e), k)
        /\ k <= r + Window /\ r <= k + Window
        /\ k + Len(s.data) <= 1 + x.Wp
        /\ \A i \in 1 .. Len(s.data) : s.data[i] = k - 1 + i
        /\ s \in SegT /\ End(s, k) \in Nat /\ k + Len(s.data) <= End(s, k)
    BY <1>1, <1>3, HeardPlace, ZenonT(30)
  <2>S. r >= 1 /\ k >= 1 /\ k \in Nat /\ k <= r + Window /\ r <= k + Window /\ r \in Nat
    BY <1>1, <2>1
  <2>2. /\ Counts(r, Len(x.rd), Len(c.rx), x.Wp, c.peer_fin, c.reset, x.ep)
        /\ c.rcv_nxt = Pos(Peer(x.e), r)
        /\ Contig(c.rx, Len(x.rd)) /\ Len(x.rd) \in Nat /\ Len(c.rx) \in Nat
        /\ Len(c.rx) <= RxBuf
    BY <2>1, GoesRecv
  <2>3. s.data \in Seq(Nat) /\ Len(s.data) \in Nat
    BY <2>1, EndType
  <2>4. PICK n \in Nat :
          /\ n = IF s.seq = c.rcv_nxt THEN Least(Len(s.data), tcp_rx_free(c)) ELSE 0
          /\ n <= Len(s.data) /\ n <= RxBuf - Len(c.rx) /\ (n > 0 => s.seq = c.rcv_nxt)
    <3>1. tcp_rx_free(c) \in Nat /\ tcp_rx_free(c) = RxBuf - Len(c.rx)
      BY <1>1, <2>2, RxFreeNat DEF tcp_rx_free
    <3>2. /\ Least(Len(s.data), tcp_rx_free(c)) \in Nat
          /\ Least(Len(s.data), tcp_rx_free(c)) <= Len(s.data)
          /\ Least(Len(s.data), tcp_rx_free(c)) <= RxBuf - Len(c.rx)
      BY <2>3, <3>1, LeastIs
    <3>3. CASE s.seq = c.rcv_nxt
      BY <3>2, <3>3
    <3>4. CASE s.seq # c.rcv_nxt
      BY <2>2, <2>3, <3>1, <3>4
    <3> QED BY <3>3, <3>4
  <2>5. n > 0 => k = r
    <3>1. Pos(Peer(x.e), k) = Pos(Peer(x.e), r) => k = r
      <4>1. k < r + SeqMod /\ r < k + SeqMod
        BY <2>S, WindowMod
      <4> QED BY <1>1, <2>S, <4>1, PosEq, PeerEnd
    <3> QED BY <2>1, <2>2, <2>4, <3>1
  <2>6. PICK t \in Seq(Nat) : /\ t = SubSeq(s.data, 1, n) /\ Len(t) = n
                              /\ \A i \in 1 .. n : t[i] = s.data[i]
    <3>1. 1 \in Nat \ {0} /\ 1 <= n + 1
      OBVIOUS
    <3>2. /\ SubSeq(s.data, 1, n) \in Seq(Nat) /\ Len(SubSeq(s.data, 1, n)) = n + 1 - 1
          /\ \A i \in 1 .. n + 1 - 1 : SubSeq(s.data, 1, n)[i] = s.data[1 - 1 + i]
      BY <2>3, <2>4, <3>1, SubSeqNat
    <3>3. n + 1 - 1 = n /\ \A i \in 1 .. n : 1 - 1 + i = i
      OBVIOUS
    <3> QED BY <3>2, <3>3
  <2>7. PICK d : d = Stored(c, t, n)
    OBVIOUS
  <2>8. /\ d \in ConnT /\ Fed(c, d) /\ d.peer_fin = c.peer_fin /\ d.reset = c.reset
        /\ d.rx = c.rx \o t /\ d.rcv_nxt = Add(c.rcv_nxt, n)
    <3>1. t \in Seq(Nat) /\ n \in Nat /\ c \in ConnT
      BY <1>1, <2>4, <2>6
    <3> QED BY <3>1, <2>7, StoredView
  <2>9. d.rcv_nxt = Pos(Peer(x.e), r + n)
    <3>1. Add(Pos(Peer(x.e), r), n) = Pos(Peer(x.e), r + n)
      BY <1>1, <2>4, PosAdd, PeerEnd
    <3> QED BY <2>2, <2>8, <3>1
  <2>10. PICK y \in Nat, R \in Nat, L \in Nat, Wp \in Nat, M \in Nat :
            /\ y = r + n /\ R = Len(x.rd) /\ L = Len(c.rx) /\ Wp = x.Wp /\ M = L + n
    <3>1. r + n \in Nat /\ Len(x.rd) \in Nat /\ Len(c.rx) \in Nat /\ x.Wp \in Nat
          /\ Len(c.rx) + n \in Nat
      BY <1>1, <2>2, <2>4
    <3> QED BY <3>1
  <2>D. PICK D \in Nat, E \in Nat : D = Len(s.data) /\ E = End(s, k)
    BY <2>1, <2>3
  <2>N. /\ n \in Nat /\ r \in Nat /\ k \in Nat /\ y = r + n /\ M = L + n
        /\ n <= D /\ n <= RxBuf - L /\ k + D <= 1 + Wp /\ k + D <= E
        /\ (n > 0 => k = r) /\ r >= 1 /\ L <= RxBuf
    BY <2>1, <2>2, <2>4, <2>5, <2>S, <2>10, <2>D
  <2>11. y # r => y <= 1 + Wp
    BY <2>N
  <2>12. Counts(y, R, M, Wp, c.peer_fin, c.reset, x.ep) /\ (y # r => r = 1 + R + L)
    <3>1. r <= y /\ M <= RxBuf /\ M - L = y - r
      BY <2>N, WindowMod
    <3>2. Counts(r, R, L, Wp, c.peer_fin, c.reset, x.ep)
      BY <2>2, <2>10
    <3>3. r \in Nat /\ r >= 1
      BY <2>N
    <3>4. /\ y \in Nat /\ R \in Nat /\ L \in Nat /\ Wp \in Nat /\ M \in Nat /\ r \in Nat
          /\ r >= 1 /\ r <= y /\ M <= RxBuf /\ M - L = y - r /\ (y # r => y <= 1 + Wp)
      BY <2>11, <3>1, <3>3
    <3>5. PICK pf, rs, en : pf = c.peer_fin /\ rs = c.reset /\ en = x.ep
      OBVIOUS
    <3>6. Counts(r, R, L, Wp, pf, rs, en)
      BY <3>2, <3>5
    <3>7. Counts(y, R, M, Wp, pf, rs, en)
      BY <3>4, <3>6, CountData
    <3>8. y # r => r = 1 + R + L
      <4>1. y # r => r <= Wp
        BY <3>4
      <4> QED BY <3>4, <3>6, <4>1, CountPlace, SMTT(30)
    <3> QED BY <3>5, <3>7, <3>8
  <2>13. \A i \in 1 .. Len(t) : t[i] = R + L + i
    <3> SUFFICES ASSUME NEW i \in 1 .. n
                 PROVE  t[i] = R + L + i
      BY <2>6
    <3>1. n > 0 /\ i \in 1 .. Len(s.data)
      BY <2>3, <2>4
    <3>2. t[i] = k - 1 + i
      BY <2>1, <2>6, <3>1
    <3>3. k = 1 + R + L
      BY <2>N, <2>12, <3>1
    <3> QED BY <3>2, <3>3
  <2>14. Contig(d.rx, R) /\ Len(d.rx) = M
    <3>1. c.rx \in Seq(Nat)
      BY <1>1, ConnType
    <3>2. Contig(c.rx, R) /\ \A i \in 1 .. Len(t) : t[i] = R + Len(c.rx) + i
      BY <2>2, <2>10, <2>13
    <3>3. Contig(c.rx \o t, R) /\ Len(c.rx \o t) = Len(c.rx) + Len(t)
      BY <3>1, <3>2, ContigJoin
    <3> QED BY <2>6, <2>8, <2>10, <3>3
  <2>15. Goes(x, d, u, y)
    <3>1. Counts(y, Len(x.rd), Len(d.rx), x.Wp, d.peer_fin, d.reset, x.ep)
      BY <2>8, <2>10, <2>12, <2>14
    <3>2. Contig(d.rx, Len(x.rd)) /\ d.rcv_nxt = Pos(Peer(x.e), y) /\ r <= y
      BY <1>1, <2>9, <2>10, <2>14
    <3> QED BY <2>1, <2>8, <3>1, <3>2, FedGoes
  <2>16. y >= 1 /\ r <= y /\ (y = r \/ y <= End(s, k))
    <3>1. y >= 1 /\ r <= y /\ (y = r \/ y <= E)
      BY <2>N
    <3> QED BY <2>D, <3>1
  <2>17. /\ Goes(x, tcp_emit(d, d.snd_nxt, {"ACK"}, <<>>), u, y)
         /\ Keep(d, tcp_emit(d, d.snd_nxt, {"ACK"}, <<>>))
    BY <2>15, <2>16, AckGoes
  <2>18. TakeData(c, s) = tcp_emit(d, d.snd_nxt, {"ACK"}, <<>>)
    BY <1>3, <2>4, <2>6, <2>7 DEF TakeData, Stored
  <2>19. Keep(c, d)
    BY <2>8 DEF Fed, Keep
  <2>20. Keep(c, tcp_emit(d, d.snd_nxt, {"ACK"}, <<>>))
    BY <2>17, <2>19, KeepTrans
  <2> QED BY <1>3, <2>16, <2>17, <2>18, <2>20
<1> QED BY <1>2, <1>3

(* The peer's FIN is taken.                                                 *)
Ending(c) == [c EXCEPT !.rcv_nxt = Add(c.rcv_nxt, 1), !.peer_fin = TRUE]

(* Taking the FIN, field by field.                                          *)
LEMMA EndingView ==
  ASSUME NEW c, c \in ConnT
  PROVE  /\ Ending(c) \in ConnT /\ Fed(c, Ending(c)) /\ Ending(c).peer_fin = TRUE
         /\ Ending(c).reset = c.reset /\ Ending(c).rx = c.rx
         /\ Ending(c).rcv_nxt = Add(c.rcv_nxt, 1)
<1>1. Add(c.rcv_nxt, 1) \in SeqNo
  BY ConnType, AddType
<1>2. PICK y \in SeqNo : y = Add(c.rcv_nxt, 1)
  BY <1>1
<1>3. PICK d : d = [c EXCEPT !.rcv_nxt = y, !.peer_fin = TRUE]
  OBVIOUS
<1>4. Ending(c) = d
  BY <1>2, <1>3 DEF Ending
<1>5. d \in ConnT
  BY <1>3 DEF ConnT
<1>6. /\ Fed(c, d) /\ d.peer_fin = TRUE /\ d.reset = c.reset /\ d.rx = c.rx /\ d.rcv_nxt = y
  BY <1>3 DEF ConnT, Fed
<1> QED BY <1>2, <1>4, <1>5, <1>6

(* Who is past the handshake has heard and been heard.                      *)
LEMMA GoesPhase ==
  ASSUME NEW x, NEW c, NEW u, NEW r, Goes(x, c, u, r),
         c.state \notin {"SYN_SENT", "SYN_RCVD", "CLOSED"}
  PROVE  u >= 1 /\ r >= 1
<1>1. PICK g, q, a : Mid(x, c, g, q, a) /\ g.una = u /\ g.rcv = r
  BY DEF Goes
<1> QED BY <1>1 DEF Mid, Phase

(* Their FIN: taken only when everything in front of it has been.           *)
LEMMA TakeFinGoes ==
  ASSUME NEW x, NEW c, NEW u, NEW r, Goes(x, c, u, r),
         NEW s, NEW k, NEW v, NEW tp, NEW u0, Heard(x, s, k, v, tp, u0),
         s.data = <<>> => r = x.r0
  PROVE  \E y \in Nat : /\ Goes(x, TakeFin(c, s), u, y)
                        /\ TakeFin(c, s).orphan = c.orphan /\ TakeFin(c, s).used = c.used
                        /\ TakeFin(c, s).state \in {c.state, "CLOSE_WAIT", "TIME_WAIT"}
                        /\ r <= y /\ (y = r \/ y <= End(s, k))
<1>1. c \in ConnT /\ u \in Nat /\ r \in Nat /\ x \in Env /\ x.e \in Ends /\ x.Wp \in Nat
  BY GoesType
<1>2. CASE "FIN" \notin s.flags
  <2>1. TakeFin(c, s) = c /\ r <= r
    BY <1>1, <1>2 DEF TakeFin
  <2> QED BY <1>1, <2>1
<1>3. CASE "FIN" \in s.flags
  <2>1. /\ x.r0 >= 1 /\ k \in Nat /\ s.seq = Pos(Peer(x.e), k)
        /\ k <= x.r0 + Window /\ x.r0 <= k + Window
        /\ s.data = <<>> /\ k >= 1 + x.Wp /\ x.ep = TRUE
        /\ End(s, k) \in Nat /\ k + 1 <= End(s, k)
    BY <1>1, <1>3, HeardPlace, ZenonT(30)
  <2>2. r >= 1 /\ k <= r + Window /\ r <= k + Window /\ k \in Nat /\ r \in Nat
    BY <1>1, <2>1
  <2>3. /\ Counts(r, Len(x.rd), Len(c.rx), x.Wp, c.peer_fin, c.reset, x.ep)
        /\ c.rcv_nxt = Pos(Peer(x.e), r)
        /\ Contig(c.rx, Len(x.rd)) /\ Len(x.rd) \in Nat /\ Len(c.rx) \in Nat
    BY <2>2, GoesRecv
  <2>4. Len(s.data) = 0
    BY <2>1, Emptiness
  <2>5. CASE Add(s.seq, Len(s.data)) # c.rcv_nxt
    <3>1. PICK m : m = tcp_emit(c, c.snd_nxt, {"ACK"}, <<>>)
      OBVIOUS
    <3>2. Goes(x, m, u, r) /\ Keep(c, m)
      BY <2>2, <3>1, AckGoes
    <3>3. TakeFin(c, s) = m
      BY <1>3, <2>5, <3>1 DEF TakeFin
    <3>4. m.used = c.used /\ m.state = c.state /\ m.orphan = c.orphan
      BY <3>2, KeepsState
    <3>5. r <= r
      BY <1>1
    <3> QED BY <1>1, <3>2, <3>3, <3>4, <3>5
  <2>6. CASE Add(s.seq, Len(s.data)) = c.rcv_nxt
    <3>1. k = r
      <4>1. Add(Pos(Peer(x.e), k), 0) = Pos(Peer(x.e), k + 0)
        BY <1>1, <2>2, PosAdd, PeerEnd
      <4>2. k + 0 = k
        BY <2>2
      <4>3. Pos(Peer(x.e), k) = Pos(Peer(x.e), r)
        BY <2>1, <2>3, <2>4, <2>6, <4>1, <4>2
      <4>4. k < r + SeqMod /\ r < k + SeqMod
        BY <2>2, WindowMod
      <4> QED BY <1>1, <2>2, <4>3, <4>4, PosEq, PeerEnd
    <3>2. PICK y \in Nat, R \in Nat, L \in Nat, Wp \in Nat :
            y = r + 1 /\ R = Len(x.rd) /\ L = Len(c.rx) /\ Wp = x.Wp
      <4>1. r + 1 \in Nat /\ Len(x.rd) \in Nat /\ Len(c.rx) \in Nat /\ x.Wp \in Nat
        BY <1>1, <2>3
      <4> QED BY <4>1
    <3>3. PICK d : d = Ending(c)
      OBVIOUS
    <3>4. /\ d \in ConnT /\ Fed(c, d) /\ d.peer_fin = TRUE
          /\ d.reset = c.reset /\ d.rx = c.rx /\ d.rcv_nxt = Add(c.rcv_nxt, 1)
      BY <1>1, <3>3, EndingView
    <3>5. d.rcv_nxt = Pos(Peer(x.e), y)
      <4>1. Add(Pos(Peer(x.e), r), 1) = Pos(Peer(x.e), r + 1)
        BY <1>1, PosAdd, PeerEnd
      <4> QED BY <2>3, <3>2, <3>4, <4>1
    <3>6. Counts(y, R, L, Wp, TRUE, c.reset, x.ep)
      <4>1. r >= 1 + Wp /\ r \in Nat
        BY <2>1, <2>2, <3>1, <3>2
      <4>2. Counts(r, R, L, Wp, c.peer_fin, c.reset, x.ep)
        BY <2>3, <3>2
      <4>3. Counts(r + 1, R, L, Wp, TRUE, c.reset, x.ep)
        BY <2>1, <4>1, <4>2, CountFin
      <4> QED BY <3>2, <4>3
    <3>7. Goes(x, d, u, y)
      <4>1. Counts(y, Len(x.rd), Len(d.rx), x.Wp, d.peer_fin, d.reset, x.ep)
        BY <3>2, <3>4, <3>6
      <4>2. Contig(d.rx, Len(x.rd)) /\ r <= y
        BY <1>1, <2>3, <3>2, <3>4
      <4> QED BY <2>2, <3>4, <3>5, <4>1, <4>2, FedGoes
    <3>8. PICK m : m = tcp_emit(d, d.snd_nxt, {"ACK"}, <<>>)
      OBVIOUS
    <3>9. y >= 1 /\ r <= y
      BY <1>1, <3>2
    <3>10. Goes(x, m, u, y) /\ Keep(d, m)
      BY <3>7, <3>8, <3>9, AckGoes
    <3>11. m \in ConnT /\ m.used = c.used /\ m.state = c.state /\ m.orphan = c.orphan
      <4>1. m.used = d.used /\ m.state = d.state /\ m.orphan = d.orphan
        BY <3>10, KeepsState
      <4>2. m \in ConnT
        BY <3>10, GoesType
      <4> QED BY <3>4, <4>1, <4>2 DEF Fed
    <3>12. y <= End(s, k)
      BY <2>1, <3>1, <3>2
    <3>13. TakeFin(c, s) = m \/ TakeFin(c, s) = Moved(m, AfterFin(c.state))
      BY <1>3, <2>6, <3>3, <3>8 DEF TakeFin, Ending, Moved
    <3>14. CASE TakeFin(c, s) = m
      BY <3>9, <3>10, <3>11, <3>12, <3>14
    <3>15. CASE TakeFin(c, s) = Moved(m, AfterFin(c.state))
      <4>1. /\ AfterFin(c.state) \in {c.state, "CLOSE_WAIT", "TIME_WAIT"}
            /\ AfterFin(c.state) # c.state => c.state \in {"ESTABLISHED", "FIN_WAIT_1", "FIN_WAIT_2"}
        BY DEF AfterFin
      <4>2. AfterFin(c.state) \in States
        BY <1>1, <4>1, ConnType DEF States
      <4>3. PICK n : n = Moved(m, AfterFin(c.state))
        OBVIOUS
      <4>4. /\ n \in ConnT /\ Bare(m, n) /\ n.state = AfterFin(c.state)
            /\ n.used = m.used /\ n.orphan = m.orphan
        BY <3>11, <4>2, <4>3, MovedView
      <4>5. n.state = m.state \/ (n.state \in {"CLOSE_WAIT", "TIME_WAIT"} /\ u >= 1 /\ y >= 1)
        <5>1. CASE AfterFin(c.state) = c.state
          BY <3>11, <4>4, <5>1
        <5>2. CASE AfterFin(c.state) # c.state
          <6>1. m.state \notin {"SYN_SENT", "SYN_RCVD", "CLOSED"}
            BY <3>11, <4>1, <5>2
          <6>2. u >= 1
            BY <3>10, <6>1, GoesPhase
          <6> QED BY <3>9, <4>1, <4>4, <5>2, <6>2
        <5> QED BY <5>1, <5>2
      <4>6. Goes(x, n, u, y)
        BY <3>10, <4>4, <4>5, StateGoes
      <4> QED BY <3>9, <3>11, <3>12, <3>15, <4>1, <4>3, <4>4, <4>6
    <3> QED BY <3>13, <3>14, <3>15
  <2> QED BY <2>5, <2>6
<1> QED BY <1>2, <1>3

(* The handler up to the states that an acknowledgement ends.               *)
Heads(c, s, ra, rw, full) == IF Acks(s) THEN AckStates(Joined(Acked(c, s, ra, rw), s, full), s) ELSE c

(* The handler's last half: data, then FIN.                                 *)
Took(c, s) == TakeFin(TakeData(c, s), s)

(* What running a segment may do to an entry.                               *)
Ran(x, c, s, k, v, u0, d, u, y) ==
    /\ Goes(x, d, u, y)
    /\ u = u0 \/ (Acks(s) /\ u = v)
    /\ x.r0 <= y /\ (y = x.r0 \/ y <= End(s, k))
    /\ d.orphan = c.orphan /\ d.state # "SYN_SENT"
    /\ d.state = "SYN_RCVD" => u = u0 /\ c.state = "SYN_RCVD"
    /\ d.used = c.used \/ u >= 1
    /\ Acks(s) => u >= 1 /\ d.state # "SYN_RCVD"

(* The handler's first half.                                                *)
LEMMA HeadsRan ==
  ASSUME NEW ra, NEW rw, ra \in Rooms, rw \in Rooms,
         NEW x, NEW c, NEW g, NEW q, NEW a, Mid(x, c, g, q, a), c.state # "SYN_SENT",
         NEW s, NEW k, NEW v, NEW tp, Heard(x, s, k, v, tp, g.una), g.rcv = x.r0,
         NEW full, full \in BOOLEAN
  PROVE  \E u \in Nat : Ran(x, c, s, k, v, g.una, Heads(c, s, ra, rw, full), u, x.r0)
<1>1. x.r0 \in Nat /\ g.una \in Nat
  BY MidType
<1>2. CASE Acks(s)
  <2>0. PICK u \in Nat :
           /\ u = g.una \/ u = v
           /\ AckedTo(x, c, AckStates(Joined(Acked(c, s, ra, rw), s, full), s), u, g.rcv)
    BY <1>2, AckPath, ZenonT(60)
  <2>1. PICK d : d = AckStates(Joined(Acked(c, s, ra, rw), s, full), s)
    OBVIOUS
  <2>2. (u = g.una \/ u = v) /\ AckedTo(x, c, d, u, g.rcv)
    BY <2>0, <2>1
  <2>3. Heads(c, s, ra, rw, full) = d
    BY <1>2, <2>1 DEF Heads
  <2>4. Ran(x, c, s, k, v, g.una, d, u, x.r0)
    BY <1>1, <1>2, <2>2 DEF Ran, AckedTo
  <2> QED BY <2>3, <2>4
<1>3. CASE ~Acks(s)
  <2>1. Heads(c, s, ra, rw, full) = c
    BY <1>3 DEF Heads
  <2>2. Goes(x, c, g.una, x.r0)
    BY DEF Goes
  <2>3. Ran(x, c, s, k, v, g.una, c, g.una, x.r0)
    BY <1>1, <1>3, <2>2 DEF Ran
  <2> QED BY <1>1, <2>1, <2>3
<1> QED BY <1>2, <1>3

(* The handler's last half.                                                 *)
LEMMA TookRan ==
  ASSUME NEW x, NEW c, NEW s, NEW k, NEW v, NEW tp, NEW u0, NEW b, NEW u,
         Ran(x, c, s, k, v, u0, b, u, x.r0), Heard(x, s, k, v, tp, u0)
  PROVE  \E y \in Nat : Ran(x, c, s, k, v, u0, Took(b, s), u, y)
<1>1. Goes(x, b, u, x.r0)
  BY DEF Ran
<1>2. x.r0 \in Nat /\ x \in Env
  BY <1>1, GoesType
<1>3. PICK m : m = TakeData(b, s)
  OBVIOUS
<1>4. PICK z \in Nat : /\ Goes(x, m, u, z) /\ Keep(b, m)
                       /\ x.r0 <= z /\ (z = x.r0 \/ z <= End(s, k))
                       /\ s.data = <<>> => z = x.r0
  BY <1>1, <1>3, TakeDataGoes
<1>5. m.used = b.used /\ m.state = b.state /\ m.orphan = b.orphan
  BY <1>4, KeepsState
<1>6. PICK d : d = TakeFin(m, s)
  OBVIOUS
<1>7. PICK y \in Nat : /\ Goes(x, d, u, y) /\ d.orphan = m.orphan /\ d.used = m.used
                       /\ d.state \in {m.state, "CLOSE_WAIT", "TIME_WAIT"}
                       /\ z <= y /\ (y = z \/ y <= End(s, k))
  BY <1>4, <1>6, TakeFinGoes
<1>8. x.r0 <= y /\ (y = x.r0 \/ y <= End(s, k))
  BY <1>2, <1>4, <1>7
<1>9. Ran(x, c, s, k, v, u0, d, u, y)
  BY <1>5, <1>7, <1>8 DEF Ran
<1> QED BY <1>3, <1>6, <1>9 DEF Took

-----------------------------------------------------------------------------
(* Resets and retransmission.                                               *)

(* A connection that is reset, or given up.                                 *)
Breaks(c, d) ==
    /\ d.used = c.used /\ d.fin_pending = c.fin_pending
    /\ d.fin_sent = c.fin_sent /\ d.fin_seq = c.fin_seq /\ d.orphan = c.orphan
    /\ d.snd_una = c.snd_una /\ d.snd_nxt = c.snd_nxt /\ d.tx = c.tx
    /\ d.rcv_nxt = c.rcv_nxt /\ d.rx = c.rx /\ d.out = c.out
    /\ d.state = "CLOSED" /\ d.peer_fin = TRUE /\ d.reset = TRUE

(* The receiver's numbers after a reset.                                    *)
LEMMA CountBreak ==
  ASSUME NEW r, NEW R, NEW L, NEW W, NEW pf, NEW rs, NEW en,
         Counts(r, R, L, W, pf, rs, en)
  PROVE  Counts(r, R, L, W, TRUE, TRUE, en)
BY DEF Counts

(* A broken connection.                                                     *)
LEMMA BreakGoes ==
  ASSUME NEW x, NEW c, NEW u, NEW r, Goes(x, c, u, r), NEW d, d \in ConnT, Breaks(c, d)
  PROVE  Goes(x, d, u, r)
<1>1. PICK g, q, a : Mid(x, c, g, q, a) /\ g.una = u /\ g.rcv = r
  BY DEF Goes
<1>2. /\ Sends(x.e, c, g, x.W, x.en) /\ Phase(x.e, c, g, x.W, x.rp)
      /\ Receives(x.e, c, g, x.rd, x.Wp, x.ep)
  BY <1>1 DEF Mid
<1>3. Sends(x.e, d, g, x.W, x.en)
  BY <1>2 DEF Sends, Breaks
<1>4. Phase(x.e, d, g, x.W, x.rp)
  BY <1>2 DEF Phase, Breaks
<1>5. Counts(g.rcv, Len(x.rd), Len(c.rx), x.Wp, TRUE, TRUE, x.ep)
  BY <1>2, CountBreak DEF Receives
<1>6. Receives(x.e, d, g, x.rd, x.Wp, x.ep)
  BY <1>2, <1>5 DEF Receives, Breaks
<1>7. d.out = c.out
  BY DEF Breaks
<1>8. Mid(x, d, g, q, a)
  BY <1>1, <1>3, <1>4, <1>6, <1>7 DEF Mid
<1> QED BY <1>1, <1>8 DEF Goes

(* Emitting a segment that fits its place.                                  *)
LEMMA EmitFor ==
  ASSUME NEW x, NEW c, NEW g, NEW q, NEW a, Mid(x, c, g, q, a), NEW seq, NEW f, NEW z,
         NEW k, NEW v, seq \in SeqNo, f \in Flags, z \in Seq(Nat), k \in Nat, v \in Nat,
         \A s \in SegT : s.seq = seq /\ s.ack = c.rcv_nxt /\ s.flags = f /\ s.data = z
           => Seg(x.e, s, k, v, x.W, g.top, g.rcv, g.top, g.rcv)
  PROVE  Goes(x, tcp_emit(c, seq, f, z), g.una, g.rcv) /\ Keep(c, tcp_emit(c, seq, f, z))
<1>1. Mid(x, tcp_emit(c, seq, f, z), g, q \o <<k>>, a \o <<v>>)
  BY EmitMid
<1>2. Len(c.rx) <= RxBuf /\ c \in ConnT
  BY DEF Mid, Receives, Counts
<1>3. Frame(c, tcp_emit(c, seq, f, z))
  BY <1>2, EmitView
<1> QED BY <1>1, <1>3, KeepOf DEF Goes

(* Numbers while the SYN is not acknowledged.                               *)
LEMMA NumSyn ==
  ASSUME NEW U, NEW X, NEW T, NEW F, NEW L, NEW W, NEW fp, NEW fs,
         U \in Nat, X \in Nat, T \in Nat, F \in Nat, L \in Nat, W \in Nat,
         Numbers(U, X, T, F, L, W, fp, fs)
  PROVE  1 <= T /\ 1 <= X /\ (U = 0 => T = 1 /\ X = 1 /\ W = 0 /\ L = 0)
BY DEF Numbers

(* The sender's numbers behind Mid.                                         *)
LEMMA MidNums ==
  ASSUME NEW x, NEW c, NEW g, NEW q, NEW a, Mid(x, c, g, q, a)
  PROVE  /\ x.e \in Ends /\ x.W \in Nat /\ c \in ConnT /\ g \in Ghost
         /\ g.una \in Nat /\ g.nxt \in Nat /\ g.rcv \in Nat /\ g.top \in Nat /\ g.fin \in Nat
         /\ Len(c.tx) \in Nat /\ c.fin_pending \in BOOLEAN /\ c.fin_sent \in BOOLEAN
         /\ Numbers(g.una, g.nxt, g.top, g.fin, Len(c.tx), x.W, c.fin_pending, c.fin_sent)
         /\ c.snd_una = Pos(x.e, g.una) /\ c.snd_nxt = Pos(x.e, g.nxt)
         /\ g.rcv >= 1 => c.rcv_nxt = Pos(Peer(x.e), g.rcv)
         /\ g.top <= g.una + Window /\ g.top <= g.nxt + Window
<1>1. x.e \in Ends /\ x.W \in Nat /\ c \in ConnT /\ g \in Ghost
  BY MidType
<1>2. /\ g.una \in Nat /\ g.nxt \in Nat /\ g.rcv \in Nat /\ g.top \in Nat /\ g.fin \in Nat
      /\ Len(c.tx) \in Nat /\ c.fin_pending \in BOOLEAN /\ c.fin_sent \in BOOLEAN
  BY <1>1, SendsType
<1>3. Sends(x.e, c, g, x.W, x.en) /\ Receives(x.e, c, g, x.rd, x.Wp, x.ep)
  BY DEF Mid
<1>4. g.top <= g.una + Window /\ g.top <= g.nxt + Window
  BY <1>1, <1>3, TopBound
<1> QED BY <1>1, <1>2, <1>3, <1>4 DEF Sends, Receives

(* A segment without data or FIN.                                           *)
LEMMA SynEnd ==
  ASSUME NEW s, s \in SegT, s.data = <<>>, "SYN" \in s.flags, "FIN" \notin s.flags
  PROVE  End(s, 0) = 1
<1>1. Len(s.data) = 0
  BY Emptiness
<1> QED BY <1>1 DEF End, Has

(* A SYN goes out again.                                                    *)
LEMMA ResendSyn ==
  ASSUME NEW x, NEW c, NEW g, NEW q, NEW a, Mid(x, c, g, q, a), c.state = "SYN_SENT"
  PROVE  /\ Goes(x, tcp_emit(c, c.snd_una, {"SYN"}, <<>>), g.una, g.rcv)
         /\ Keep(c, tcp_emit(c, c.snd_una, {"SYN"}, <<>>))
<1>1. g.una = 0 /\ g.rcv = 0 /\ x.e = Client
  BY DEF Mid, Phase
<1>2. /\ x.e \in Ends /\ g.top \in Nat /\ c \in ConnT /\ c.snd_una = Pos(x.e, 0)
      /\ g.top <= 0 + Window
  BY <1>1, MidNums
<1>3. 1 <= g.top
  BY MidNums, NumSyn
<1>4. PICK f \in Flags, z \in Seq(Nat) : f = {"SYN"} /\ z = <<>>
  BY FlagSets, Emptiness
<1>5. c.snd_una \in SeqNo
  BY <1>2, ConnType
<1>6. ASSUME NEW s \in SegT, s.seq = c.snd_una, s.ack = c.rcv_nxt, s.flags = f, s.data = z
      PROVE  Seg(x.e, s, 0, 0, x.W, g.top, g.rcv, g.top, g.rcv)
  <2>1. "SYN" \in s.flags /\ "FIN" \notin s.flags /\ "ACK" \notin s.flags /\ s.data = <<>>
    BY <1>4, <1>6
  <2>2. End(s, 0) = 1 /\ Len(s.data) = 0
    BY <2>1, SynEnd, Emptiness
  <2> QED BY <1>1, <1>2, <1>3, <1>6, <2>1, <2>2 DEF Seg, Client, Server
<1>7. 0 \in Nat
  OBVIOUS
<1>8. Goes(x, tcp_emit(c, c.snd_una, f, z), g.una, g.rcv) /\ Keep(c, tcp_emit(c, c.snd_una, f, z))
  BY <1>5, <1>6, <1>7, EmitFor
<1> QED BY <1>4, <1>8

(* tcp_retransmit's SYN+ACK.                                                *)
LEMMA ResendSynAck ==
  ASSUME NEW x, NEW c, NEW g, NEW q, NEW a, Mid(x, c, g, q, a), c.state = "SYN_RCVD",
         g.una = 0
  PROVE  /\ Goes(x, tcp_emit(c, c.snd_una, {"SYN", "ACK"}, <<>>), g.una, g.rcv)
         /\ Keep(c, tcp_emit(c, c.snd_una, {"SYN", "ACK"}, <<>>))
<1>1. x.e = Server /\ g.rcv # 0
  BY DEF Mid, Phase, Client, Server
<1>2. /\ x.e \in Ends /\ g.top \in Nat /\ c \in ConnT /\ c.snd_una = Pos(x.e, 0)
      /\ g.top <= 0 + Window /\ g.rcv \in Nat
  BY MidNums
<1>10. 1 <= g.top
  BY MidNums, NumSyn
<1>3. 1 <= g.top /\ g.rcv >= 1
  BY <1>1, <1>2, <1>10
<1>9. c.rcv_nxt = Pos(Peer(x.e), g.rcv)
  BY <1>3, MidNums
<1>4. PICK f \in Flags, z \in Seq(Nat) : f = {"SYN", "ACK"} /\ z = <<>>
  BY FlagSets, Emptiness
<1>5. c.snd_una \in SeqNo
  BY <1>2, ConnType
<1>6. ASSUME NEW s \in SegT, s.seq = c.snd_una, s.ack = c.rcv_nxt, s.flags = f, s.data = z
      PROVE  Seg(x.e, s, 0, g.rcv, x.W, g.top, g.rcv, g.top, g.rcv)
  <2>1. "SYN" \in s.flags /\ "FIN" \notin s.flags /\ "ACK" \in s.flags /\ s.data = <<>>
    BY <1>4, <1>6
  <2>2. End(s, 0) = 1 /\ Len(s.data) = 0
    BY <2>1, SynEnd, Emptiness
  <2> QED BY <1>1, <1>2, <1>3, <1>6, <1>9, <2>1, <2>2 DEF Seg, Client, Server
<1>7. 0 \in Nat
  OBVIOUS
<1>8. Goes(x, tcp_emit(c, c.snd_una, f, z), g.una, g.rcv) /\ Keep(c, tcp_emit(c, c.snd_una, f, z))
  BY <1>2, <1>5, <1>6, <1>7, EmitFor
<1> QED BY <1>4, <1>8

(* tcp_retransmit's FIN.                                                    *)
LEMMA ResendFin ==
  ASSUME NEW x, NEW c, NEW g, NEW q, NEW a, Mid(x, c, g, q, a), c.fin_sent
  PROVE  /\ Goes(x, tcp_emit(c, c.fin_seq, {"FIN", "ACK"}, <<>>), g.una, g.rcv)
         /\ Keep(c, tcp_emit(c, c.fin_seq, {"FIN", "ACK"}, <<>>))
<1>2. /\ x.e \in Ends /\ g.top \in Nat /\ c \in ConnT /\ g.rcv \in Nat /\ g.fin \in Nat
      /\ x.W \in Nat /\ c.fin_sent = TRUE
  BY MidNums
<1>1. c.fin_seq = Pos(x.e, g.fin)
  BY DEF Mid, Sends
<1>3. g.fin >= 1 + x.W /\ g.top = g.fin + 1
  BY <1>2, MidNums, NumFinAcked
<1>10. g.rcv >= 1
  <2>1. Numbers(g.una, g.nxt, g.top, g.fin, Len(c.tx), x.W, c.fin_pending, c.fin_sent)
    BY MidNums
  <2>2. c.fin_pending
    BY <1>2, <2>1 DEF Numbers
  <2>3. g.rcv # 0
    BY <2>2 DEF Mid, Phase
  <2> QED BY <1>2, <2>3
<1>9. c.rcv_nxt = Pos(Peer(x.e), g.rcv)
  BY <1>10, MidNums
<1>4. PICK f \in Flags, z \in Seq(Nat) : f = {"FIN", "ACK"} /\ z = <<>>
  BY FlagSets, Emptiness
<1>5. c.fin_seq \in SeqNo
  BY <1>2, ConnType
<1>6. ASSUME NEW s \in SegT, s.seq = c.fin_seq, s.ack = c.rcv_nxt, s.flags = f, s.data = z
      PROVE  Seg(x.e, s, g.fin, g.rcv, x.W, g.top, g.rcv, g.top, g.rcv)
  <2>1. "SYN" \notin s.flags /\ "FIN" \in s.flags /\ "ACK" \in s.flags /\ s.data = <<>>
    BY <1>4, <1>6
  <2>2. Len(s.data) = 0
    BY <2>1, Emptiness
  <2>3. End(s, g.fin) = g.fin + 1
    BY <1>2, <2>1, <2>2 DEF End, Has
  <2>4. PICK F \in Nat, T \in Nat, W \in Nat, R \in Nat : F = g.fin /\ T = g.top /\ W = x.W /\ R = g.rcv
    BY <1>2
  <2>5. F >= 1 + W /\ T = F + 1 /\ R >= 1
    BY <1>3, <1>10, <2>4
  <2>6. Seg(x.e, s, F, R, W, T, R, T, R)
    BY <1>1, <1>2, <1>6, <1>9, <2>1, <2>2, <2>3, <2>4, <2>5, Constants DEF Seg
  <2> QED BY <2>4, <2>6
<1>8. Goes(x, tcp_emit(c, c.fin_seq, f, z), g.una, g.rcv) /\ Keep(c, tcp_emit(c, c.fin_seq, f, z))
  BY <1>2, <1>5, <1>6, EmitFor
<1> QED BY <1>4, <1>8

(* The sender's numbers after going back.                                   *)
LEMMA NumBack ==
  ASSUME NEW U, NEW X, NEW T, NEW F, NEW L, NEW W, NEW fp, NEW fs, NEW n, NEW Y, NEW P,
         U \in Nat, X \in Nat, T \in Nat, F \in Nat, L \in Nat, W \in Nat,
         fp \in BOOLEAN, fs \in BOOLEAN, n \in Nat, Y \in Nat, P \in Nat,
         Numbers(U, X, T, F, L, W, fp, fs), 1 <= n, n <= L,
         (Y = X /\ X <= U + n) \/ (Y = U + n /\ X > U + n),
         T <= P, U + n <= P, P = T \/ P = U + n
  PROVE  Numbers(U, Y, P, F, L, W, fp, FALSE)
BY DEF Numbers

(* Bytes in the buffer are not acknowledged.                                *)
LEMMA NumQueued ==
  ASSUME NEW U, NEW X, NEW T, NEW F, NEW L, NEW W, NEW fp, NEW fs,
         U \in Nat, X \in Nat, T \in Nat, F \in Nat, L \in Nat, W \in Nat,
         Numbers(U, X, T, F, L, W, fp, fs), L > 0
  PROVE  U >= 1 /\ U + L = 1 + W /\ U <= X
BY DEF Numbers

(* Go-back-N: snd_nxt returns to snd_una.                                   *)
Back(m, y) == [m EXCEPT !.snd_nxt = y, !.fin_sent = FALSE]

(* Going back, field by field.                                              *)
LEMMA BackView ==
  ASSUME NEW m, NEW y, m \in ConnT, y \in SeqNo
  PROVE  /\ Back(m, y) \in ConnT /\ Frame(m, Back(m, y)) /\ Back(m, y).fin_sent = FALSE
         /\ Back(m, y).snd_nxt = y /\ Back(m, y).out = m.out
<1>1. Back(m, y) \in ConnT
  BY DEF ConnT, Back
<1>2. /\ Frame(m, Back(m, y)) /\ Back(m, y).fin_sent = FALSE
      /\ Back(m, y).snd_nxt = y /\ Back(m, y).out = m.out
  BY DEF ConnT, Back, Frame
<1> QED BY <1>1, <1>2

(* Go-Back-N: the first bytes again, everything after them unsent.          *)
LEMMA ResendData ==
  ASSUME NEW x, NEW c, NEW g, NEW q, NEW a, Mid(x, c, g, q, a), c.state # "SYN_RCVD",
         NEW n, n \in Nat, 1 <= n, n <= Len(c.tx), NEW d,
         d = Back(tcp_emit(c, c.snd_una, {"ACK"}, SubSeq(c.tx, 1, n)),
                  IF Inflight(c) > n THEN Add(c.snd_una, n) ELSE c.snd_nxt)
  PROVE  Goes(x, d, g.una, g.rcv) /\ Frame(c, d)
<1>1. x.e \in Ends /\ x.W \in Nat /\ c \in ConnT /\ g \in Ghost
  BY MidType
<1>2. PICK U \in Nat, X \in Nat, T \in Nat, F \in Nat, R \in Nat :
        U = g.una /\ X = g.nxt /\ T = g.top /\ F = g.fin /\ R = g.rcv
  BY <1>1, GhostType
<1>3. PICK L \in Nat, W \in Nat, fp \in BOOLEAN, fs \in BOOLEAN :
        L = Len(c.tx) /\ W = x.W /\ fp = c.fin_pending /\ fs = c.fin_sent
  BY <1>1, SendsType
<1>4. Numbers(U, X, T, F, L, W, fp, fs)
  BY <1>2, <1>3 DEF Mid, Sends
<1>5. n <= L /\ L > 0
  BY <1>3
<1>6. U >= 1 /\ U + L = 1 + W /\ U <= X
  BY <1>4, <1>5, NumQueued
<1>7. R >= 1
  <2>1. c.tx \in Seq(Nat)
    BY <1>1, ConnType
  <2>2. c.tx # <<>>
    BY <1>3, <1>5, <2>1, SeqFacts
  <2>3. g.rcv # 0
    BY <2>2 DEF Mid, Phase
  <2> QED BY <1>2, <2>3
<1>8. /\ c.snd_una = Pos(x.e, U) /\ c.snd_nxt = Pos(x.e, X)
      /\ c.rcv_nxt = Pos(Peer(x.e), R) /\ Len(c.rx) <= RxBuf
      /\ Run(c.tx, x.W) /\ (c.fin_pending => x.en)
  BY <1>2, <1>7 DEF Mid, Sends, Receives, Counts
<1>9. Inflight(c) = X - U
  BY <1>1, <1>2, InflightIs DEF Mid
<1>10. PICK Y \in Nat : /\ (Y = X /\ X <= U + n) \/ (Y = U + n /\ X > U + n)
                        /\ Pos(x.e, Y) = IF Inflight(c) > n THEN Add(c.snd_una, n) ELSE c.snd_nxt
  <2>1. Add(Pos(x.e, U), n) = Pos(x.e, U + n)
    BY <1>1, PosAdd
  <2>2. CASE X > U + n
    <3>1. Inflight(c) > n
      BY <1>9, <2>2
    <3>2. Pos(x.e, U + n) = IF Inflight(c) > n THEN Add(c.snd_una, n) ELSE c.snd_nxt
      BY <1>8, <2>1, <3>1
    <3>3. U + n \in Nat
      OBVIOUS
    <3> QED BY <2>2, <3>2, <3>3
  <2>3. CASE X <= U + n
    <3>1. ~(Inflight(c) > n)
      BY <1>6, <1>9, <2>3
    <3>2. Pos(x.e, X) = IF Inflight(c) > n THEN Add(c.snd_una, n) ELSE c.snd_nxt
      BY <1>8, <3>1
    <3> QED BY <2>3, <3>2
  <2> QED BY <2>2, <2>3
<1>11. PICK P \in Nat : T <= P /\ U + n <= P /\ (P = T \/ P = U + n)
  <2>1. U + n \in Nat
    OBVIOUS
  <2> DEFINE P == Most(T, U + n)
  <2>2. P \in Nat /\ T <= P /\ U + n <= P /\ (P = T \/ P = U + n)
    BY <2>1, MostIs
  <2> QED BY <2>2
<1>12. Numbers(U, Y, P, F, L, W, fp, FALSE)
  BY <1>4, <1>5, <1>10, <1>11, NumBack
<1>13. PICK h \in Ghost : h.una = U /\ h.nxt = Y /\ h.rcv = R /\ h.top = P /\ h.fin = F
  <2> DEFINE h == MkGhost(U, Y, R, P, F)
  <2>1. h \in Ghost /\ h.una = U /\ h.nxt = Y /\ h.rcv = R /\ h.top = P /\ h.fin = F
    BY GhostMake
  <2> QED BY <2>1
<1>14. PICK z \in Seq(Nat) : /\ z = SubSeq(c.tx, 1, n) /\ Len(z) = n
                             /\ \A i \in 1 .. n : z[i] = c.tx[i]
  <2>0. c.tx \in Seq(Nat)
    BY <1>1, ConnType
  <2>1. 1 \in Nat \ {0} /\ 1 <= n + 1
    OBVIOUS
  <2>2. /\ SubSeq(c.tx, 1, n) \in Seq(Nat) /\ Len(SubSeq(c.tx, 1, n)) = n + 1 - 1
        /\ \A i \in 1 .. n + 1 - 1 : SubSeq(c.tx, 1, n)[i] = c.tx[1 - 1 + i]
    BY <2>0, <2>1, SubSeqNat
  <2>3. n + 1 - 1 = n /\ \A i \in 1 .. n : 1 - 1 + i = i
    OBVIOUS
  <2> QED BY <2>2, <2>3
<1>15. PICK f \in Flags : f = {"ACK"}
  BY FlagSets
<1>16. PICK m : m = tcp_emit(c, c.snd_una, f, z)
  OBVIOUS
<1>17. PICK s : s = Segment(c.snd_una, c.rcv_nxt, f, z, tcp_rx_free(c))
  OBVIOUS
<1>18. c.snd_una \in SeqNo /\ c.rcv_nxt \in SeqNo /\ tcp_rx_free(c) \in Nat
  BY <1>1, <1>8, ConnType, RxFreeNat
<1>19. m \in ConnT /\ Frame(c, m) /\ Emits(c, m, s) /\ m.fin_seq = c.fin_seq
  BY <1>1, <1>8, <1>16, <1>17, <1>18, EmitView
<1>20. s \in SegT /\ s.seq = c.snd_una /\ s.ack = c.rcv_nxt /\ s.flags = f /\ s.data = z
  BY <1>17, <1>18, SegView
<1>21. PICK y \in SeqNo : y = Pos(x.e, Y)
  BY <1>1, PosType
<1>22. d = Back(m, y)
  BY <1>10, <1>14, <1>15, <1>16, <1>21
<1>23. d \in ConnT /\ Frame(m, d) /\ d.fin_sent = FALSE /\ d.snd_nxt = y /\ d.out = m.out
  <2>1. m \in ConnT /\ y \in SeqNo
    BY <1>19, <1>21
  <2>2. /\ Back(m, y) \in ConnT /\ Frame(m, Back(m, y)) /\ Back(m, y).fin_sent = FALSE
        /\ Back(m, y).snd_nxt = y /\ Back(m, y).out = m.out
    BY <2>1, BackView
  <2> QED BY <1>22, <2>2
<1>24. Frame(c, d)
  BY <1>19, <1>23, FrameTrans
<1>25. Sends(x.e, d, h, x.W, x.en)
  <2>1. /\ d.snd_una = Pos(x.e, h.una) /\ d.snd_nxt = Pos(x.e, h.nxt) /\ d.tx = c.tx
        /\ d.fin_pending = c.fin_pending
    BY <1>8, <1>13, <1>21, <1>23, <1>24 DEF Frame
  <2>2. Numbers(h.una, h.nxt, h.top, h.fin, Len(d.tx), x.W, d.fin_pending, d.fin_sent)
    BY <1>3, <1>12, <1>13, <1>23, <2>1
  <2> QED BY <1>8, <1>23, <2>1, <2>2 DEF Sends
<1>26. Phase(x.e, d, h, x.W, x.rp) /\ Receives(x.e, d, h, x.rd, x.Wp, x.ep)
  <2>1. h.una = g.una /\ h.rcv = g.rcv
    BY <1>2, <1>13
  <2> QED BY <1>24, <2>1 DEF Mid, Phase, Receives, Frame
<1>27. Chain(x.e, <<s>>, <<U>>, <<R>>, x.W, h.top, h.rcv, g.top, g.rcv)
  <2>1. T <= U + Window
    BY <1>1, <1>2, TopBound DEF Mid
  <2>2. /\ "SYN" \notin s.flags /\ "FIN" \notin s.flags /\ "ACK" \in s.flags
        /\ Len(s.data) = n /\ s.data # <<>>
    <3>1. "SYN" \notin s.flags /\ "FIN" \notin s.flags /\ "ACK" \in s.flags
      BY <1>15, <1>20
    <3>2. Len(s.data) = n /\ n # 0
      BY <1>14, <1>20
    <3> QED BY <3>1, <3>2, Emptiness
  <2>3. End(s, U) = U + n
    BY <1>20, <2>2, EndType
  <2>4. \A i \in 1 .. Len(s.data) : s.data[i] = U - 1 + i
    <3> SUFFICES ASSUME NEW i \in 1 .. n
                 PROVE  s.data[i] = U - 1 + i
      BY <2>2
    <3>1. i \in 1 .. Len(c.tx)
      BY <1>3, <1>5
    <3>2. c.tx[i] = W - L + i
      BY <1>3, <1>8, <3>1 DEF Run
    <3>3. W - L + i = U - 1 + i
      BY <1>6
    <3> QED BY <1>14, <1>20, <3>2, <3>3
  <2>5. s.seq = Pos(x.e, U) /\ s.ack = Pos(Peer(x.e), R)
    BY <1>8, <1>20
  <2>6. U + n <= 1 + W
    BY <1>5, <1>6
  <2>7. Seg(x.e, s, U, R, W, P, R, T, R)
    BY <1>1, <1>6, <1>7, <1>11, <2>1, <2>2, <2>3, <2>4, <2>5, <2>6 DEF Seg
  <2>8. Seg(x.e, s, U, R, x.W, h.top, h.rcv, g.top, g.rcv)
    BY <1>2, <1>3, <1>13, <2>7
  <2> QED BY <1>1, <1>20, <2>8, ChainOne
<1>28. d.out = c.out \o <<s>>
  BY <1>19, <1>23 DEF Emits
<1>29. g.top <= h.top /\ g.rcv <= h.rcv
  BY <1>2, <1>11, <1>13
<1>30. Mid(x, d, h, q \o <<U>>, a \o <<R>>)
  BY <1>13, <1>23, <1>25, <1>26, <1>27, <1>28, <1>29, OutMid
<1> QED BY <1>2, <1>13, <1>24, <1>30 DEF Goes

(* tcp_retransmit, whatever it sends again.                                 *)
LEMMA ResendGoes ==
  ASSUME NEW x, NEW c, NEW u, NEW r, Goes(x, c, u, r), c.state = "SYN_RCVD" => u = 0
  PROVE  Goes(x, Resend(c), u, r) /\ Keep(c, Resend(c))
<1>1. PICK g, q, a : Mid(x, c, g, q, a) /\ g.una = u /\ g.rcv = r
  BY DEF Goes
<1>2. c \in ConnT
  BY GoesType
<1>3. CASE c.state = "SYN_SENT"
  <2>1. Resend(c) = tcp_emit(c, c.snd_una, {"SYN"}, <<>>)
    BY <1>3 DEF Resend
  <2>2. /\ Goes(x, tcp_emit(c, c.snd_una, {"SYN"}, <<>>), g.una, g.rcv)
        /\ Keep(c, tcp_emit(c, c.snd_una, {"SYN"}, <<>>))
    BY <1>1, <1>3, ResendSyn
  <2> QED BY <1>1, <2>1, <2>2
<1>4. CASE c.state = "SYN_RCVD"
  <2>1. Resend(c) = tcp_emit(c, c.snd_una, {"SYN", "ACK"}, <<>>)
    BY <1>4 DEF Resend
  <2>2. /\ Goes(x, tcp_emit(c, c.snd_una, {"SYN", "ACK"}, <<>>), g.una, g.rcv)
        /\ Keep(c, tcp_emit(c, c.snd_una, {"SYN", "ACK"}, <<>>))
    BY <1>1, <1>4, ResendSynAck
  <2> QED BY <1>1, <2>1, <2>2
<1>5. CASE c.state # "SYN_SENT" /\ c.state # "SYN_RCVD" /\ c.tx # <<>>
  <2>1. PICK n \in Nat : /\ n = IF c.snd_wnd = 0 THEN 1 ELSE Least(Len(c.tx), Mss)
                         /\ 1 <= n /\ n <= Len(c.tx)
    <3>1. c.tx \in Seq(Nat) /\ Mss \in Nat \ {0}
      BY <1>2, ConnType, Constants
    <3>2. Len(c.tx) \in Nat /\ 1 <= Len(c.tx)
      BY <1>5, <3>1, SeqFacts
    <3>3. /\ Least(Len(c.tx), Mss) \in Nat /\ Least(Len(c.tx), Mss) <= Len(c.tx)
          /\ 1 <= Least(Len(c.tx), Mss)
      BY <3>1, <3>2 DEF Least
    <3> QED BY <3>2, <3>3
  <2>2. PICK d : d = Back(tcp_emit(c, c.snd_una, {"ACK"}, SubSeq(c.tx, 1, n)),
                          IF Inflight(c) > n THEN Add(c.snd_una, n) ELSE c.snd_nxt)
    OBVIOUS
  <2>3. Goes(x, d, g.una, g.rcv) /\ Frame(c, d)
    BY <1>1, <1>5, <2>1, <2>2, ResendData
  <2>4. tcp_emit(c, c.snd_una, {"ACK"}, SubSeq(c.tx, 1, n)).snd_nxt = c.snd_nxt
    BY <1>2 DEF tcp_emit, ConnT
  <2>5. Resend(c) = d
    BY <1>5, <2>1, <2>2, <2>4 DEF Resend, Back
  <2> QED BY <1>1, <2>3, <2>5, KeepOf
<1>6. CASE c.state # "SYN_SENT" /\ c.state # "SYN_RCVD" /\ c.tx = <<>> /\ c.fin_sent
  <2>1. Resend(c) = tcp_emit(c, c.fin_seq, {"FIN", "ACK"}, <<>>)
    BY <1>6 DEF Resend
  <2>2. /\ Goes(x, tcp_emit(c, c.fin_seq, {"FIN", "ACK"}, <<>>), g.una, g.rcv)
        /\ Keep(c, tcp_emit(c, c.fin_seq, {"FIN", "ACK"}, <<>>))
    BY <1>1, <1>6, ResendFin
  <2> QED BY <1>1, <2>1, <2>2
<1>7. CASE c.state # "SYN_SENT" /\ c.state # "SYN_RCVD" /\ c.tx = <<>> /\ ~c.fin_sent
  <2>1. Resend(c) = c
    BY <1>7 DEF Resend
  <2> QED BY <2>1, KeepOf
<1> QED BY <1>3, <1>4, <1>5, <1>6, <1>7

-----------------------------------------------------------------------------
(* Calls of the program.                                                    *)

(* An entry at rest is one in the middle of a handler that has emitted      *)
(* nothing.                                                                 *)
LEMMA StartMid ==
  ASSUME NEW x, NEW c, NEW g, x \in Env, c \in ConnT, g \in Ghost, c.out = <<>>,
         Sends(x.e, c, g, x.W, x.en), Phase(x.e, c, g, x.W, x.rp),
         Receives(x.e, c, g, x.rd, x.Wp, x.ep), x.t0 <= g.top, x.r0 <= g.rcv
  PROVE  Mid(x, c, g, <<>>, <<>>)
<1>1. x.e \in Ends
  BY DEF Env
<1>2. Chain(x.e, c.out, <<>>, <<>>, x.W, g.top, g.rcv, x.t0, x.r0)
  BY <1>1, ChainEmpty
<1> QED BY <1>2 DEF Mid

(* A program closes: the FIN is pending.                                    *)
Closing(c, st) == [c EXCEPT !.fin_pending = TRUE, !.state = st]

(* What closing changes.                                                    *)
Closes(c, d) ==
    /\ d.used = c.used /\ d.fin_pending = TRUE
    /\ d.fin_sent = c.fin_sent /\ d.fin_seq = c.fin_seq /\ d.orphan = c.orphan
    /\ d.peer_fin = c.peer_fin /\ d.reset = c.reset /\ d.snd_una = c.snd_una
    /\ d.snd_nxt = c.snd_nxt /\ d.tx = c.tx /\ d.rcv_nxt = c.rcv_nxt /\ d.rx = c.rx
    /\ d.out = c.out

(* Closing, field by field.                                                 *)
LEMMA ClosingView ==
  ASSUME NEW c, NEW st, c \in ConnT, st \in States
  PROVE  /\ Closing(c, st) \in ConnT /\ Closes(c, Closing(c, st))
         /\ Closing(c, st).state = st
<1>1. Closing(c, st) \in ConnT
  BY DEF ConnT, Closing
<1>2. Closes(c, Closing(c, st)) /\ Closing(c, st).state = st
  BY DEF ConnT, Closing, Closes
<1> QED BY <1>1, <1>2

(* The sender's numbers when the FIN becomes pending.                       *)
LEMMA NumClose ==
  ASSUME NEW U, NEW X, NEW T, NEW F, NEW L, NEW W, NEW fp, NEW fs,
         U \in Nat, X \in Nat, T \in Nat, F \in Nat, L \in Nat, W \in Nat,
         Numbers(U, X, T, F, L, W, fp, fs), U >= 1
  PROVE  Numbers(U, X, T, F, L, W, TRUE, fs)
BY DEF Numbers

(* A program closes.                                                        *)
LEMMA StartFinGoes ==
  ASSUME NEW room, room \in Rooms, NEW x, NEW c, NEW u, NEW r, Goes(x, c, u, r), x.en
  PROVE  /\ Goes(x, StartFin(c, room), u, r) /\ StartFin(c, room).orphan = c.orphan
         /\ StartFin(c, room).used = c.used
         /\ StartFin(c, room).state \in {c.state, "FIN_WAIT_1", "LAST_ACK"}
<1>1. c \in ConnT
  BY GoesType
<1>2. CASE c.state \notin {"ESTABLISHED", "CLOSE_WAIT"}
  <2>1. StartFin(c, room) = c
    BY <1>2 DEF StartFin
  <2> QED BY <2>1
<1>3. CASE c.state \in {"ESTABLISHED", "CLOSE_WAIT"}
  <2>1. PICK st \in {"FIN_WAIT_1", "LAST_ACK"} :
          st = IF c.state = "CLOSE_WAIT" THEN "LAST_ACK" ELSE "FIN_WAIT_1"
    OBVIOUS
  <2>2. st \in States
    BY <2>1 DEF States
  <2>3. PICK d : d = Closing(c, st)
    OBVIOUS
  <2>4. d \in ConnT /\ Closes(c, d) /\ d.state = st
    BY <1>1, <2>2, <2>3, ClosingView
  <2>5. PICK g, q, a : Mid(x, c, g, q, a) /\ g.una = u /\ g.rcv = r
    BY DEF Goes
  <2>6. g.una >= 1 /\ g.rcv >= 1
    BY <1>3, <2>5 DEF Mid, Phase
  <2>7. Sends(x.e, d, g, x.W, x.en)
    <3>1. Sends(x.e, c, g, x.W, x.en)
      BY <2>5 DEF Mid
    <3>2. Numbers(g.una, g.nxt, g.top, g.fin, Len(c.tx), x.W, TRUE, c.fin_sent)
      BY <2>5, <2>6, MidNums, NumClose
    <3> QED BY <2>4, <3>1, <3>2 DEF Sends, Closes
  <2>8. Phase(x.e, d, g, x.W, x.rp)
    <3>1. g.rcv # 0
      <4>1. g.rcv \in Nat
        BY <2>5, MidNums
      <4> QED BY <2>6, <4>1
    <3> QED BY <2>1, <2>4, <2>6, <3>1 DEF Phase
  <2>9. Receives(x.e, d, g, x.rd, x.Wp, x.ep) /\ d.out = c.out
    BY <2>4, <2>5 DEF Mid, Receives, Closes
  <2>10. Mid(x, d, g, q, a)
    BY <2>4, <2>5, <2>7, <2>8, <2>9 DEF Mid
  <2>11. Goes(x, d, u, r)
    BY <2>5, <2>10 DEF Goes
  <2>12. Goes(x, tcp_output(d, room), u, r) /\ Frame(d, tcp_output(d, room))
    BY <2>11, OutputGoes
  <2>13. StartFin(c, room) = tcp_output(d, room)
    BY <1>3, <2>1, <2>3 DEF StartFin, Closing
  <2> QED BY <2>1, <2>4, <2>12, <2>13 DEF Frame, Closes
<1> QED BY <1>2, <1>3

(* Bytes go to the send buffer.                                             *)
Queued(c, t) == [c EXCEPT !.tx = c.tx \o t]

(* What queueing changes.                                                   *)
Queues(c, d) ==
    /\ d.used = c.used /\ d.state = c.state /\ d.fin_pending = c.fin_pending
    /\ d.fin_sent = c.fin_sent /\ d.fin_seq = c.fin_seq /\ d.orphan = c.orphan
    /\ d.peer_fin = c.peer_fin /\ d.reset = c.reset /\ d.snd_una = c.snd_una
    /\ d.snd_nxt = c.snd_nxt /\ d.rcv_nxt = c.rcv_nxt /\ d.rx = c.rx
    /\ d.out = c.out

(* Queueing bytes, field by field.                                          *)
LEMMA QueuedView ==
  ASSUME NEW c, NEW t, c \in ConnT, t \in Seq(Nat)
  PROVE  /\ Queued(c, t) \in ConnT /\ Queues(c, Queued(c, t))
         /\ Queued(c, t).tx = c.tx \o t
<1>1. PICK z \in Seq(Nat) : z = c.tx \o t
  BY ConnType, ConcatNat
<1>2. PICK d : d = [c EXCEPT !.tx = z]
  OBVIOUS
<1>3. Queued(c, t) = d
  BY <1>1, <1>2 DEF Queued
<1>4. d \in ConnT
  BY <1>2 DEF ConnT
<1>5. Queues(c, d) /\ d.tx = z
  BY <1>2 DEF ConnT, Queues
<1> QED BY <1>1, <1>3, <1>4, <1>5

(* The sender's numbers after bytes are queued.                             *)
LEMMA NumCopy ==
  ASSUME NEW U, NEW X, NEW T, NEW F, NEW L, NEW W, NEW fp, NEW fs, NEW M, NEW V,
         U \in Nat, X \in Nat, T \in Nat, F \in Nat, L \in Nat, W \in Nat, M \in Nat, V \in Nat,
         fp \in BOOLEAN, fs \in BOOLEAN, fp = FALSE,
         Numbers(U, X, T, F, L, W, fp, fs), U >= 1, L < M, M <= TxBuf,
         M - L = V - W
  PROVE  Numbers(U, X, T, F, M, V, fp, fs)
BY Constants DEF Numbers

(* Before the FIN is pending nothing beyond the bytes is sent.              *)
LEMMA NumOpen ==
  ASSUME NEW U, NEW X, NEW T, NEW F, NEW L, NEW W, NEW fp, NEW fs,
         U \in Nat, X \in Nat, T \in Nat, F \in Nat, L \in Nat, W \in Nat,
         Numbers(U, X, T, F, L, W, fp, fs), fp = FALSE
  PROVE  T <= 1 + W
BY DEF Numbers

(* New bytes continue the buffer.                                           *)
LEMMA RunJoin ==
  ASSUME NEW s, NEW t, NEW W, NEW V, s \in Seq(Nat), t \in Seq(Nat), W \in Nat, V \in Nat,
         V = W + Len(t), Run(s, W), Contig(t, W)
  PROVE  Run(s \o t, V) /\ Len(s \o t) = Len(s) + Len(t)
<1>0. PICK n \in Nat : n = Len(t)
  BY SeqFacts
<1>1. /\ Len(s \o t) = Len(s) + Len(t)
      /\ \A i \in 1 .. Len(s) : (s \o t)[i] = s[i]
      /\ \A i \in 1 .. Len(t) : (s \o t)[Len(s) + i] = t[i]
      /\ \A i \in 1 .. Len(s \o t) : i \in 1 .. Len(s) \/ \E j \in 1 .. Len(t) : i = Len(s) + j
  BY ConcatNat
<1>2. PICK z, L : z = s \o t /\ L = Len(s)
  OBVIOUS
<1>3. L \in Nat /\ Len(z) = L + n
  BY <1>0, <1>1, <1>2, SeqFacts
<1>4. ASSUME NEW i \in 1 .. Len(z)
      PROVE  z[i] = V - Len(z) + i
  <2>0. V - Len(z) + i = W - L + i
    BY <1>0, <1>3
  <2>1. CASE i \in 1 .. Len(s)
    <3>1. z[i] = s[i]
      BY <1>1, <1>2, <2>1
    <3>2. s[i] = W - L + i
      BY <1>2, <2>1 DEF Run
    <3> QED BY <2>0, <3>1, <3>2
  <2>2. CASE \E j \in 1 .. Len(t) : i = Len(s) + j
    <3>1. PICK j \in 1 .. n : i = L + j
      BY <1>0, <1>2, <2>2
    <3>2. z[i] = t[j]
      BY <1>0, <1>1, <1>2, <3>1
    <3>3. t[j] = W + j
      BY <1>0, <3>1 DEF Contig
    <3>5. W + j = W - L + i
      BY <1>3, <3>1
    <3> QED BY <2>0, <3>2, <3>3, <3>5
  <2> QED BY <1>1, <1>2, <2>1, <2>2
<1> QED BY <1>1, <1>2, <1>3, <1>4 DEF Run

(* Bytes handed to net_tcp_send join the queue and the stream.              *)
(* An entry its program may write to, W bytes into the stream.              *)
Writable(x, c, g, W) ==
    /\ x \in Env /\ c \in ConnT /\ g \in Ghost /\ c.out = <<>> /\ W \in Nat
    /\ Sends(x.e, c, g, W, x.en) /\ Phase(x.e, c, g, W, x.rp)
    /\ Receives(x.e, c, g, x.rd, x.Wp, x.ep) /\ x.t0 <= g.top /\ x.r0 <= g.rcv
    /\ ~c.fin_pending /\ c.state \notin {"SYN_SENT", "SYN_RCVD", "CLOSED"} /\ x.rp <= g.top

(* A program's bytes are queued and sent.                                   *)
LEMMA CopyGoes ==
  ASSUME NEW room, room \in Rooms, NEW x, NEW c, NEW g, NEW W, Writable(x, c, g, W),
         NEW t, t \in Seq(Nat), Contig(t, W), 1 <= Len(t), Len(c.tx) + Len(t) <= TxBuf,
         x.W = W + Len(t)
  PROVE  /\ Goes(x, tcp_output(Queued(c, t), room), g.una, g.rcv)
         /\ tcp_output(Queued(c, t), room).orphan = c.orphan
         /\ tcp_output(Queued(c, t), room).state = c.state
         /\ tcp_output(Queued(c, t), room).used = c.used
         /\ g.top <= 1 + W
<1> USE DEF Writable
<1>0. PICK n \in Nat : Len(t) = n /\ 1 <= n /\ Len(c.tx) + n <= TxBuf /\ x.W = W + n
  BY SeqFacts
<1>1. /\ g.una \in Nat /\ g.nxt \in Nat /\ g.rcv \in Nat /\ g.top \in Nat /\ g.fin \in Nat
      /\ Len(c.tx) \in Nat
  BY SendsType
<1>2. g.una >= 1 /\ g.rcv >= 1
  BY DEF Phase
<1>3. PICK d : d = Queued(c, t)
  OBVIOUS
<1>4. d \in ConnT /\ Queues(c, d) /\ d.tx = c.tx \o t
  BY <1>3, QueuedView
<1>5. c.tx \in Seq(Nat) /\ Run(c.tx, W)
  BY ConnType DEF Sends
<1>6. Run(c.tx \o t, x.W) /\ Len(c.tx \o t) = Len(c.tx) + n
  <2>1. x.W \in Nat /\ x.W = W + Len(t)
    BY <1>0 DEF Env
  <2> QED BY <1>0, <1>5, <2>1, RunJoin
<1>7. PICK L \in Nat, M \in Nat, V \in Nat : L = Len(c.tx) /\ M = Len(d.tx) /\ V = x.W
                                          /\ M = L + n /\ V = W + n
  <2>1. Len(c.tx) + n \in Nat /\ W + n \in Nat
    BY <1>0, <1>1
  <2>2. Len(d.tx) = Len(c.tx) + n
    BY <1>4, <1>6
  <2> QED BY <1>0, <1>1, <2>1, <2>2
<1>8. Numbers(g.una, g.nxt, g.top, g.fin, M, V, c.fin_pending, c.fin_sent) /\ g.top <= 1 + W
  <2>1. PICK U \in Nat, X \in Nat, T \in Nat, F \in Nat, fp \in BOOLEAN, fs \in BOOLEAN :
          /\ U = g.una /\ X = g.nxt /\ T = g.top /\ F = g.fin /\ fp = c.fin_pending
          /\ fs = c.fin_sent
    BY <1>1, ConnType
  <2>2. Numbers(U, X, T, F, L, W, fp, fs) /\ fp = FALSE /\ U >= 1
    BY <1>2, <1>7, <2>1 DEF Sends
  <2>3. L < M /\ M <= TxBuf /\ M - L = V - W
    <3>1. M = L + n /\ V = W + n /\ L + n <= TxBuf /\ n >= 1
      BY <1>0, <1>7
    <3>2. n \in Nat /\ W \in Nat /\ TxBuf \in Nat
      BY <1>0, <1>1, Constants
    <3> QED BY <3>1, <3>2
  <2>4. Numbers(U, X, T, F, M, V, fp, fs)
    BY <2>2, <2>3, NumCopy
  <2>5. T <= 1 + W
    BY <2>2, NumOpen
  <2> QED BY <2>1, <2>4, <2>5
<1>9. Sends(x.e, d, g, x.W, x.en)
  <2>1. Numbers(g.una, g.nxt, g.top, g.fin, Len(d.tx), x.W, d.fin_pending, d.fin_sent)
    BY <1>4, <1>7, <1>8 DEF Queues
  <2>2. Run(d.tx, x.W)
    BY <1>4, <1>6
  <2> QED BY <1>4, <2>1, <2>2 DEF Sends, Queues
<1>10. c.state # "FIN_WAIT_2"
  <2>1. x.rp \in Nat
    BY DEF Env
  <2>2. ~(x.rp >= 2 + W)
    <3>1. PICK T \in Nat, rp \in Nat : T = g.top /\ rp = x.rp /\ rp <= T /\ T <= 1 + W
      BY <1>1, <1>8, <2>1
    <3>2. ~(rp >= 2 + W)
      BY <3>1
    <3> QED BY <3>1, <3>2
  <2> QED BY <2>2 DEF Phase
<1>11. Phase(x.e, d, g, x.W, x.rp)
  <2>1. g.rcv # 0
    BY <1>1, <1>2
  <2> QED BY <1>2, <1>4, <1>10, <2>1 DEF Phase, Queues
<1>12. Receives(x.e, d, g, x.rd, x.Wp, x.ep) /\ d.out = <<>>
  BY <1>4 DEF Receives, Queues
<1>13. Mid(x, d, g, <<>>, <<>>)
  BY <1>4, <1>9, <1>11, <1>12, StartMid
<1>14. Goes(x, d, g.una, g.rcv)
  BY <1>13 DEF Goes
<1>15. Goes(x, tcp_output(d, room), g.una, g.rcv) /\ Frame(d, tcp_output(d, room))
  BY <1>14, OutputGoes
<1> QED BY <1>3, <1>4, <1>8, <1>15 DEF Frame, Queues

(* A program takes n bytes.                                                 *)
Taken(c, n) == [c EXCEPT !.rx = Drop(c.rx, n)]

(* What taking changes.                                                     *)
Takes(c, d) ==
    /\ d.used = c.used /\ d.state = c.state /\ d.fin_pending = c.fin_pending
    /\ d.fin_sent = c.fin_sent /\ d.fin_seq = c.fin_seq /\ d.orphan = c.orphan
    /\ d.peer_fin = c.peer_fin /\ d.reset = c.reset /\ d.snd_una = c.snd_una
    /\ d.snd_nxt = c.snd_nxt /\ d.tx = c.tx /\ d.rcv_nxt = c.rcv_nxt
    /\ d.out = c.out

(* Taking bytes, field by field.                                            *)
LEMMA TakenView ==
  ASSUME NEW c, NEW n, c \in ConnT, n \in Nat, n <= Len(c.rx)
  PROVE  /\ Taken(c, n) \in ConnT /\ Takes(c, Taken(c, n)) /\ Taken(c, n).rx = Drop(c.rx, n)
<1>0. c.rx \in Seq(Nat)
  BY ConnType
<1>1. PICK z \in Seq(Nat) : z = Drop(c.rx, n)
  BY <1>0, DropIs
<1>2. PICK d : d = [c EXCEPT !.rx = z]
  OBVIOUS
<1>3. Taken(c, n) = d
  BY <1>1, <1>2 DEF Taken
<1>4. d \in ConnT
  BY <1>2 DEF ConnT
<1>5. Takes(c, d) /\ d.rx = z
  BY <1>2 DEF ConnT, Takes
<1> QED BY <1>1, <1>3, <1>4, <1>5

(* The receiver's numbers after bytes are taken.                            *)
LEMMA CountTake ==
  ASSUME NEW r, NEW R, NEW L, NEW W, NEW pf, NEW rs, NEW en, NEW S, NEW M,
         r \in Nat, R \in Nat, L \in Nat, W \in Nat, S \in Nat, M \in Nat,
         Counts(r, R, L, W, pf, rs, en), R + L = S + M, M <= L
  PROVE  Counts(r, S, M, W, pf, rs, en)
BY Constants DEF Counts

(* What is left in the buffer.                                              *)
LEMMA ContigDrop ==
  ASSUME NEW t, NEW n, NEW R, NEW S, t \in Seq(Nat), n \in Nat, R \in Nat, S \in Nat,
         n <= Len(t), Contig(t, R), S = R + n
  PROVE  Contig(Drop(t, n), S) /\ Len(Drop(t, n)) = Len(t) - n
<1>1. /\ Len(Drop(t, n)) = Len(t) - n
      /\ \A i \in 1 .. Len(t) - n : Drop(t, n)[i] = t[n + i]
  BY DropIs
<1>2. PICK L \in Nat : L = Len(t)
  BY SeqFacts
<1>3. ASSUME NEW i \in 1 .. L - n
      PROVE  Drop(t, n)[i] = S + i
  <2>1. n + i \in 1 .. Len(t)
    BY <1>2
  <2>2. t[n + i] = R + (n + i)
    BY <2>1 DEF Contig
  <2>3. R + (n + i) = S + i
    OBVIOUS
  <2> QED BY <1>1, <1>2, <2>2, <2>3
<1> QED BY <1>1, <1>2, <1>3 DEF Contig

(* net_tcp_recv moves bytes from the ring to the program.                   *)
(* An entry with n bytes for a program that has read rd.                    *)
Holding(x, c, g, rd, n) ==
    /\ x \in Env /\ c \in ConnT /\ g \in Ghost /\ c.out = <<>> /\ rd \in Seq(Nat)
    /\ Sends(x.e, c, g, x.W, x.en) /\ Phase(x.e, c, g, x.W, x.rp)
    /\ Receives(x.e, c, g, rd, x.Wp, x.ep) /\ x.t0 <= g.top /\ x.r0 <= g.rcv
    /\ n \in Nat /\ n <= Len(c.rx) /\ Len(x.rd) = Len(rd) + n

(* A program takes bytes and the window is told.                            *)
LEMMA RecvGoes ==
  ASSUME NEW x, NEW c, NEW g, NEW rd, NEW n, Holding(x, c, g, rd, n)
  PROVE  /\ Goes(x, Taken(c, n), g.una, g.rcv) /\ Takes(c, Taken(c, n))
         /\ Contig(c.rx, Len(rd)) /\ Len(rd) + Len(c.rx) <= x.Wp
<1> USE DEF Holding
<1>1. PICK d : d = Taken(c, n)
  OBVIOUS
<1>2. d \in ConnT /\ Takes(c, d) /\ d.rx = Drop(c.rx, n)
  BY <1>1, TakenView
<1>3. /\ Counts(g.rcv, Len(rd), Len(c.rx), x.Wp, c.peer_fin, c.reset, x.ep)
      /\ Contig(c.rx, Len(rd))
  BY DEF Receives, Contig
<1>4. /\ g.rcv \in Nat /\ Len(rd) \in Nat /\ Len(c.rx) \in Nat /\ x.Wp \in Nat
      /\ Len(x.rd) \in Nat /\ c.rx \in Seq(Nat)
  <2>1. x.rd \in Seq(Nat) /\ c.rx \in Seq(Nat) /\ x.Wp \in Nat
    BY ConnType DEF Env
  <2> QED BY <2>1, SeqFacts, GhostType
<1>5. Contig(d.rx, Len(x.rd)) /\ Len(d.rx) = Len(c.rx) - n
  BY <1>2, <1>3, <1>4, ContigDrop
<1>6. Counts(g.rcv, Len(x.rd), Len(d.rx), x.Wp, c.peer_fin, c.reset, x.ep)
  <2>1. PICK r \in Nat, R \in Nat, L \in Nat, W \in Nat, S \in Nat, M \in Nat :
          /\ r = g.rcv /\ R = Len(rd) /\ L = Len(c.rx) /\ W = x.Wp /\ S = Len(x.rd)
          /\ M = Len(d.rx) /\ R + L = S + M /\ M <= L
    <3>1. Len(d.rx) \in Nat
      BY <1>4, <1>5
    <3>2. Len(rd) + Len(c.rx) = Len(x.rd) + Len(d.rx) /\ Len(d.rx) <= Len(c.rx)
      <4>1. PICK i \in Nat, j \in Nat : i = Len(rd) /\ j = Len(c.rx)
        BY <1>4
      <4>2. Len(x.rd) = i + n /\ Len(d.rx) = j - n
        BY <1>5, <4>1
      <4>3. i + j = (i + n) + (j - n) /\ j - n <= j
        OBVIOUS
      <4> QED BY <4>1, <4>2, <4>3
    <3> QED BY <1>4, <3>1, <3>2
  <2>2. Counts(r, R, L, W, c.peer_fin, c.reset, x.ep)
    BY <1>3, <2>1
  <2>3. Counts(r, S, M, W, c.peer_fin, c.reset, x.ep)
    BY <2>1, <2>2, CountTake
  <2> QED BY <2>1, <2>3
<1>7. Receives(x.e, d, g, x.rd, x.Wp, x.ep)
  BY <1>2, <1>5, <1>6 DEF Receives, Takes, Contig
<1>8. Sends(x.e, d, g, x.W, x.en) /\ Phase(x.e, d, g, x.W, x.rp) /\ d.out = <<>>
  BY <1>2 DEF Sends, Phase, Takes
<1>9. Mid(x, d, g, <<>>, <<>>)
  BY <1>2, <1>7, <1>8, StartMid
<1>10. Len(rd) + Len(c.rx) <= x.Wp
  BY <1>3 DEF Counts
<1> QED BY <1>1, <1>2, <1>3, <1>9, <1>10 DEF Goes

(* The sender's numbers when its SYN is acknowledged.                       *)
LEMMA NumJoin ==
  ASSUME NEW X, NEW T, NEW F, NEW L, NEW W, NEW fp, NEW fs,
         X \in Nat, T \in Nat, F \in Nat, L \in Nat, W \in Nat,
         fp \in BOOLEAN, fs \in BOOLEAN,
         Numbers(0, X, T, F, L, W, fp, fs)
  PROVE  Numbers(1, 1, 1, F, L, W, fp, fs) /\ X = 1 /\ T = 1
BY Constants DEF Numbers

(* The receiver's numbers when the other's SYN is taken.                    *)
LEMMA CountJoin ==
  ASSUME NEW R, NEW L, NEW W, NEW pf, NEW rs, NEW en, R \in Nat, L \in Nat, W \in Nat,
         Counts(0, R, L, W, pf, rs, en)
  PROVE  Counts(1, R, L, W, pf, rs, en)
BY Constants DEF Counts

(* The SYN|ACK of our SYN.                                                  *)
Joining(c, y, s) ==
    [c EXCEPT !.rcv_nxt = y, !.snd_una = s.ack, !.snd_wnd = s.wnd,
              !.state = "ESTABLISHED", !.rto = FALSE, !.retries = 0]

(* What the SYN of the other end changes.                                   *)
Joins(c, d) ==
    /\ d.used = c.used /\ d.state = "ESTABLISHED" /\ d.fin_pending = c.fin_pending
    /\ d.fin_sent = c.fin_sent /\ d.fin_seq = c.fin_seq /\ d.orphan = c.orphan
    /\ d.peer_fin = c.peer_fin /\ d.reset = c.reset
    /\ d.snd_nxt = c.snd_nxt /\ d.tx = c.tx /\ d.rx = c.rx
    /\ d.out = c.out

(* Taking the SYN+ACK, field by field.                                      *)
LEMMA JoiningView ==
  ASSUME NEW c, NEW y, NEW s, c \in ConnT, y \in SeqNo, s \in SegT
  PROVE  /\ Joining(c, y, s) \in ConnT /\ Joins(c, Joining(c, y, s))
         /\ Joining(c, y, s).rcv_nxt = y /\ Joining(c, y, s).snd_una = s.ack
<1>0. PICK k \in SeqNo, w \in Nat : k = s.ack /\ w = s.wnd
  BY DEF SegT
<1>1. PICK d : d = [c EXCEPT !.rcv_nxt = y, !.snd_una = k, !.snd_wnd = w,
                             !.state = "ESTABLISHED", !.rto = FALSE, !.retries = 0]
  OBVIOUS
<1>2. Joining(c, y, s) = d
  BY <1>0, <1>1 DEF Joining
<1>3. 0 \in 0 .. MaxRetries + 1
  BY Constants
<1>4. d \in ConnT
  BY <1>1, <1>3 DEF ConnT, States
<1>5. Joins(c, d) /\ d.rcv_nxt = y /\ d.snd_una = k
  BY <1>1 DEF ConnT, Joins
<1> QED BY <1>0, <1>2, <1>4, <1>5

(* The client takes the SYN+ACK.                                            *)
LEMMA SynAckGoes ==
  ASSUME NEW room, room \in Rooms,
         NEW x, NEW c, NEW g, Mid(x, c, g, <<>>, <<>>), c.state = "SYN_SENT", c.out = <<>>,
         NEW s, NEW k, NEW v, NEW tp, Heard(x, s, k, v, tp, g.una), Acks(s),
         "SYN" \in s.flags, NEW d, d = Joining(c, Add(s.seq, 1), s)
  PROVE  /\ Goes(x, tcp_output(tcp_emit(d, d.snd_nxt, {"ACK"}, <<>>), room), 1, 1)
         /\ Frame(d, tcp_output(tcp_emit(d, d.snd_nxt, {"ACK"}, <<>>), room))
         /\ Joins(c, d) /\ v = 1 /\ End(s, k) = 1 /\ g.una = 0 /\ g.rcv = 0
<1>1. g.una = 0 /\ g.rcv = 0 /\ x.e = Client
  BY DEF Mid, Phase
<1>2. /\ x.e \in Ends /\ g.top \in Nat /\ c \in ConnT /\ g.nxt \in Nat /\ g.fin \in Nat
      /\ c.snd_nxt = Pos(x.e, g.nxt) /\ x.W \in Nat /\ Len(c.tx) \in Nat
      /\ c.fin_pending \in BOOLEAN /\ c.fin_sent \in BOOLEAN /\ x \in Env
      /\ Numbers(0, g.nxt, g.top, g.fin, Len(c.tx), x.W, c.fin_pending, c.fin_sent)
  BY <1>1, MidNums, MidType
<1>3. /\ Numbers(1, 1, 1, g.fin, Len(c.tx), x.W, c.fin_pending, c.fin_sent)
      /\ g.nxt = 1 /\ g.top = 1
  BY <1>2, NumJoin
<1>4. /\ s \in SegT /\ v \in Nat /\ s.ack = Pos(x.e, v) /\ 1 <= v /\ v <= x.rp
      /\ x.rp <= x.t0 /\ x.rp \in Nat /\ x.t0 \in Nat /\ x.t0 <= g.top
  <2>1. x.rp \in Nat /\ x.t0 \in Nat
    BY <1>2 DEF Env
  <2>2. x.t0 <= g.top
    BY DEF Mid
  <2> QED BY <1>2, <2>1, <2>2, HeardAck
<1>5. v = 1
  BY <1>3, <1>4
<1>6. k = 0 /\ s.data = <<>> /\ "FIN" \notin s.flags /\ s.seq = Pos(Peer(x.e), 0)
  BY DEF Heard, Seg
<1>7. End(s, k) = 1
  BY <1>4, <1>6, SynEnd
<1>8. PICK y \in SeqNo : y = Add(s.seq, 1) /\ y = Pos(Peer(x.e), 1)
  <2>1. Peer(x.e) \in Ends /\ 0 \in Nat /\ 1 \in Nat /\ 0 + 1 = 1
    BY <1>2, PeerEnd
  <2>2. Add(Pos(Peer(x.e), 0), 1) = Pos(Peer(x.e), 0 + 1)
    BY <2>1, PosAdd
  <2>3. Pos(Peer(x.e), 1) \in SeqNo
    BY <2>1, PosType
  <2> QED BY <1>6, <2>1, <2>2, <2>3
<1>9. d \in ConnT /\ Joins(c, d) /\ d.rcv_nxt = y /\ d.snd_una = s.ack
  BY <1>2, <1>4, <1>8, JoiningView
<1>10. PICK F \in Nat : F = g.fin
  BY <1>2
<1>11. PICK h \in Ghost : h.una = 1 /\ h.nxt = 1 /\ h.rcv = 1 /\ h.top = 1 /\ h.fin = F
  <2> DEFINE h == MkGhost(1, 1, 1, 1, F)
  <2>0. 1 \in Nat
    OBVIOUS
  <2>1. h \in Ghost /\ h.una = 1 /\ h.nxt = 1 /\ h.rcv = 1 /\ h.top = 1 /\ h.fin = F
    BY <2>0, GhostMake
  <2> QED BY <2>1
<1>12. Sends(x.e, d, h, x.W, x.en)
  <2>1. Sends(x.e, c, g, x.W, x.en)
    BY DEF Mid
  <2>2. Numbers(h.una, h.nxt, h.top, h.fin, Len(d.tx), x.W, d.fin_pending, d.fin_sent)
    BY <1>3, <1>9, <1>10, <1>11 DEF Joins
  <2>3. d.snd_una = Pos(x.e, h.una) /\ d.snd_nxt = Pos(x.e, h.nxt)
    BY <1>2, <1>3, <1>4, <1>5, <1>9, <1>11 DEF Joins
  <2> QED BY <1>9, <1>10, <1>11, <2>1, <2>2, <2>3 DEF Sends, Joins
<1>13. Phase(x.e, d, h, x.W, x.rp)
  BY <1>9, <1>11 DEF Phase, Joins
<1>14. Receives(x.e, d, h, x.rd, x.Wp, x.ep)
  <2>1. Receives(x.e, c, g, x.rd, x.Wp, x.ep)
    BY DEF Mid
  <2>2. Counts(0, Len(x.rd), Len(c.rx), x.Wp, c.peer_fin, c.reset, x.ep)
    BY <1>1, <2>1 DEF Receives
  <2>3. Len(x.rd) \in Nat /\ Len(c.rx) \in Nat /\ x.Wp \in Nat
    <3>1. x.rd \in Seq(Nat) /\ c.rx \in Seq(Nat) /\ x.Wp \in Nat
      BY <1>2, ConnType DEF Env
    <3> QED BY <3>1, SeqFacts
  <2>4. Counts(1, Len(x.rd), Len(c.rx), x.Wp, c.peer_fin, c.reset, x.ep)
    BY <2>2, <2>3, CountJoin
  <2> QED BY <1>8, <1>9, <1>11, <2>1, <2>4 DEF Receives, Joins
<1>15. x.t0 <= h.top /\ x.r0 <= h.rcv
  <2>1. x.r0 <= g.rcv /\ x.r0 \in Nat
    BY <1>2 DEF Mid, Env
  <2> QED BY <1>1, <1>3, <1>4, <1>11, <2>1
<1>16. d.out = <<>>
  BY <1>9 DEF Joins
<1>17. Mid(x, d, h, <<>>, <<>>)
  BY <1>2, <1>9, <1>11, <1>12, <1>13, <1>14, <1>15, <1>16, StartMid
<1>18. Goes(x, d, 1, 1) /\ 1 >= 1
  BY <1>11, <1>17 DEF Goes
<1>19. PICK m : m = tcp_emit(d, d.snd_nxt, {"ACK"}, <<>>)
  OBVIOUS
<1>20. Goes(x, m, 1, 1)
  BY <1>18, <1>19, AckGoes
<1>21. Frame(d, m)
  <2>1. PICK f \in Flags, z \in Seq(Nat) : f = {"ACK"} /\ z = <<>>
    BY FlagSets, Emptiness
  <2>2. Len(d.rx) <= RxBuf
    BY <1>18, GoesRecv
  <2>3. d.snd_nxt \in SeqNo
    BY <1>9, ConnType
  <2>4. Frame(d, tcp_emit(d, d.snd_nxt, f, z))
    BY <1>9, <2>2, <2>3, EmitView
  <2> QED BY <1>19, <2>1, <2>4
<1>22. Goes(x, tcp_output(m, room), 1, 1) /\ Frame(m, tcp_output(m, room))
  BY <1>20, OutputGoes
<1>23. Frame(d, tcp_output(m, room))
  BY <1>21, <1>22, FrameTrans
<1> QED BY <1>1, <1>5, <1>7, <1>9, <1>19, <1>22, <1>23

(* A new entry, before its first segment goes out.                          *)
Young(c, una, rcv, st) ==
    /\ c.used = TRUE /\ c.state = st /\ c.fin_pending = FALSE /\ c.fin_sent = FALSE
    /\ c.orphan = FALSE /\ c.peer_fin = FALSE /\ c.reset = FALSE /\ c.snd_una = una
    /\ c.snd_nxt = una /\ c.tx = <<>> /\ c.rcv_nxt = rcv /\ c.rx = <<>> /\ c.out = <<>>

(* The SYN counts for one.                                                  *)
Advanced(m) == [m EXCEPT !.snd_nxt = Add(m.snd_nxt, 1)]

(* Counting the SYN, field by field.                                        *)
LEMMA AdvancedView ==
  ASSUME NEW m, m \in ConnT
  PROVE  /\ Advanced(m) \in ConnT /\ Frame(m, Advanced(m)) /\ Advanced(m).out = m.out
         /\ Advanced(m).snd_nxt = Add(m.snd_nxt, 1) /\ Advanced(m).fin_sent = m.fin_sent
<1>1. PICK y \in SeqNo : y = Add(m.snd_nxt, 1)
  BY ConnType, AddType
<1>2. PICK d : d = [m EXCEPT !.snd_nxt = y]
  OBVIOUS
<1>3. Advanced(m) = d
  BY <1>1, <1>2 DEF Advanced
<1>4. d \in ConnT
  BY <1>2 DEF ConnT
<1>5. Frame(m, d) /\ d.out = m.out /\ d.snd_nxt = y /\ d.fin_sent = m.fin_sent
  BY <1>2 DEF ConnT, Frame
<1> QED BY <1>1, <1>3, <1>4, <1>5

(* The SYN's position.                                                      *)
LEMMA PosZero ==
  ASSUME NEW e, e \in Ends
  PROVE  Pos(e, 0) = Isn[e] /\ Isn[e] \in SeqNo
<1>1. SeqMod \in Nat \ {0} /\ Isn[e] \in Nat /\ Isn[e] < SeqMod
  BY Constants
<1>2. (Isn[e] + 0) % SeqMod = Isn[e]
  <2>1. Isn[e] + 0 = SeqMod * 0 + Isn[e] /\ Isn[e] \in 0 .. SeqMod - 1 /\ Isn[e] + 0 \in Int
    BY <1>1
  <2>2. PICK i \in 0 .. SeqMod - 1, z \in Int, w \in Int : i = Isn[e] /\ z = 0 /\ w = Isn[e] + 0
    BY <2>1
  <2>3. w = SeqMod * z + i
    BY <2>1, <2>2
  <2>4. w % SeqMod = i
    BY <1>1, <2>3, ModUnique
  <2> QED BY <2>2, <2>4
<1> QED BY <1>1, <1>2 DEF Pos, Add, SeqNo

(* A new sender's numbers.                                                  *)
LEMMA NumNew == Numbers(0, 1, 1, 0, 0, 0, FALSE, FALSE)
BY Constants DEF Numbers

(* A new receiver's numbers.                                                *)
LEMMA CountNew ==
  ASSUME NEW r, NEW W, NEW en, r \in {0, 1}, W \in Nat
  PROVE  Counts(r, 0, 0, W, FALSE, FALSE, en)
BY Constants DEF Counts

(* The two ways to open: a client's SYN, and the answer to one.             *)
Opens(x, isn, r, rcv, st, f) ==
    /\ isn = Isn[x.e]
    /\ f \in Flags /\ "SYN" \in f /\ "FIN" \notin f /\ "RST" \notin f
    /\ \/ x.e = Client /\ r = 0 /\ st = "SYN_SENT" /\ "ACK" \notin f
       \/ x.e = Server /\ r = 1 /\ st = "SYN_RCVD" /\ "ACK" \in f
            /\ rcv = Pos(Peer(x.e), 1)

(* A new entry sends its SYN.                                               *)
LEMMA OpenGoes ==
  ASSUME NEW x, x \in Env, x.t0 = 0, x.r0 = 0, x.W = 0, x.rd = <<>>,
         NEW c, c \in ConnT, NEW r, NEW rcv, NEW st, NEW f, NEW isn,
         Young(c, isn, rcv, st), Opens(x, isn, r, rcv, st, f)
  PROVE  /\ Goes(x, Advanced(tcp_emit(c, isn, f, <<>>)), 0, r)
         /\ Advanced(tcp_emit(c, isn, f, <<>>)).used
         /\ Advanced(tcp_emit(c, isn, f, <<>>)).state = st
         /\ ~Advanced(tcp_emit(c, isn, f, <<>>)).orphan
<1>0. /\ isn = Isn[x.e] /\ f \in Flags /\ "SYN" \in f /\ "FIN" \notin f /\ "RST" \notin f
      /\ \/ x.e = Client /\ r = 0 /\ st = "SYN_SENT" /\ "ACK" \notin f
         \/ x.e = Server /\ r = 1 /\ st = "SYN_RCVD" /\ "ACK" \in f
              /\ rcv = Pos(Peer(x.e), 1)
  BY DEF Opens
<1>1. x.e \in Ends /\ x.Wp \in Nat
  BY DEF Env
<1>2. Pos(x.e, 0) = isn /\ isn \in SeqNo
  BY <1>0, <1>1, PosZero
<1>3. PICK z \in Seq(Nat) : z = <<>>
  BY Emptiness
<1>4. PICK m : m = tcp_emit(c, isn, f, z)
  OBVIOUS
<1>5. PICK s : s = Segment(isn, c.rcv_nxt, f, z, tcp_rx_free(c))
  OBVIOUS
<1>6. Len(c.rx) = 0 /\ Len(c.rx) <= RxBuf
  BY Emptiness, Constants DEF Young
<1>7. c.rcv_nxt \in SeqNo /\ tcp_rx_free(c) \in Nat
  BY <1>6, ConnType, RxFreeNat
<1>8. /\ m \in ConnT /\ Frame(c, m) /\ Emits(c, m, s) /\ m.snd_nxt = c.snd_nxt
      /\ m.fin_sent = c.fin_sent
  BY <1>0, <1>2, <1>4, <1>5, <1>6, EmitView
<1>9. s \in SegT /\ s.seq = isn /\ s.ack = c.rcv_nxt /\ s.flags = f /\ s.data = z
  BY <1>0, <1>2, <1>5, <1>7, SegView
<1>10. PICK d : d = Advanced(m)
  OBVIOUS
<1>11. /\ d \in ConnT /\ Frame(m, d) /\ d.out = m.out /\ d.snd_nxt = Add(m.snd_nxt, 1)
       /\ d.fin_sent = m.fin_sent
  BY <1>8, <1>10, AdvancedView
<1>12. Frame(c, d)
  BY <1>8, <1>11, FrameTrans
<1>13. /\ d.used = TRUE /\ d.state = st /\ d.fin_pending = FALSE /\ d.fin_sent = FALSE
       /\ d.orphan = FALSE /\ d.peer_fin = FALSE /\ d.reset = FALSE /\ d.tx = <<>>
       /\ d.rx = <<>> /\ d.rcv_nxt = rcv /\ d.snd_una = isn
  BY <1>8, <1>11, <1>12 DEF Frame, Young
<1>14. d.snd_nxt = Pos(x.e, 1)
  <2>1. 0 \in Nat /\ 1 \in Nat /\ 0 + 1 = 1
    OBVIOUS
  <2>2. Add(Pos(x.e, 0), 1) = Pos(x.e, 0 + 1)
    BY <1>1, <2>1, PosAdd
  <2> QED BY <1>2, <1>8, <1>11, <2>1, <2>2 DEF Young
<1>15. r \in {0, 1} /\ r \in Nat
  BY <1>0
<1>16. PICK h \in Ghost : h.una = 0 /\ h.nxt = 1 /\ h.rcv = r /\ h.top = 1 /\ h.fin = 0
  <2> DEFINE h == MkGhost(0, 1, r, 1, 0)
  <2>0. 1 \in Nat /\ 0 \in Nat
    OBVIOUS
  <2>1. h \in Ghost /\ h.una = 0 /\ h.nxt = 1 /\ h.rcv = r /\ h.top = 1 /\ h.fin = 0
    BY <1>15, <2>0, GhostMake
  <2> QED BY <2>1
<1>17. Sends(x.e, d, h, x.W, x.en)
  <2>1. Len(d.tx) = 0
    BY <1>13, Emptiness
  <2>2. Numbers(h.una, h.nxt, h.top, h.fin, Len(d.tx), x.W, d.fin_pending, d.fin_sent)
    BY <1>13, <1>16, <2>1, NumNew
  <2>3. Run(d.tx, x.W)
    BY <2>1 DEF Run
  <2> QED BY <1>2, <1>13, <1>14, <1>16, <2>2, <2>3 DEF Sends
<1>18. Phase(x.e, d, h, x.W, x.rp)
  BY <1>0, <1>13, <1>16 DEF Phase, Client, Server
<1>19. Receives(x.e, d, h, x.rd, x.Wp, x.ep)
  <2>1. Len(d.rx) = 0 /\ Len(x.rd) = 0
    BY <1>13, Emptiness
  <2>2. Counts(h.rcv, Len(x.rd), Len(d.rx), x.Wp, d.peer_fin, d.reset, x.ep)
    <3>1. Counts(r, 0, 0, x.Wp, FALSE, FALSE, x.ep)
      BY <1>1, <1>15, Constants DEF Counts
    <3> QED BY <1>13, <1>16, <2>1, <3>1
  <2>3. h.rcv >= 1 => d.rcv_nxt = Pos(Peer(x.e), h.rcv)
    BY <1>0, <1>13, <1>16
  <2> QED BY <2>1, <2>2, <2>3 DEF Receives
<1>20. Chain(x.e, <<s>>, <<0>>, <<r>>, x.W, h.top, h.rcv, x.t0, x.r0)
  <2>1. Len(s.data) = 0 /\ s.data = <<>>
    BY <1>3, <1>9, Emptiness
  <2>2. End(s, 0) = 1
    BY <1>0, <1>9, <2>1, SynEnd
  <2>3. c.rcv_nxt = rcv
    BY DEF Young
  <2>4. Seg(x.e, s, 0, r, 0, 1, r, 0, 0)
    BY <1>0, <1>2, <1>9, <2>1, <2>2, <2>3, WindowNat DEF Seg, Client, Server
  <2>5. Seg(x.e, s, 0, r, x.W, h.top, h.rcv, x.t0, x.r0)
    BY <1>16, <2>4
  <2>6. 0 \in Nat
    OBVIOUS
  <2> QED BY <1>1, <1>9, <1>15, <2>5, <2>6, ChainOne
<1>21. d.out = <<s>>
  <2>1. d.out = <<>> \o <<s>>
    BY <1>8, <1>11 DEF Emits, Young
  <2>2. <<s>> \in Seq(SegT)
    BY <1>9
  <2> QED BY <2>1, <2>2
<1>22. x.t0 <= h.top /\ x.r0 <= h.rcv
  BY <1>15, <1>16
<1>23. Mid(x, d, h, <<0>>, <<r>>)
  BY <1>11, <1>16, <1>17, <1>18, <1>19, <1>20, <1>21, <1>22 DEF Mid
<1> QED BY <1>3, <1>4, <1>10, <1>13, <1>16, <1>23 DEF Goes

-----------------------------------------------------------------------------
(* Both ends.                                                               *)

(* An end's positions, used or not: what was ever sent fits the window, and *)
(* nothing beyond the last byte is sent before the program has ended its    *)
(* stream.                                                                  *)
GhostP(h, W, en, rp) ==
    /\ h \in Ghost
    /\ h.una <= h.top /\ h.top <= 3 + W
    /\ h.una = 0 => h.top <= 1 /\ W = 0
    /\ h.top <= h.una + Window
    /\ h.top >= 2 + W => en
    /\ h.una <= rp /\ rp <= h.top

(* What a program has read is the beginning of the other's stream, and all  *)
(* of it when it was told of its end; a non-blocking call may say so as soon *)
(* as all of it has been taken.                                             *)
ReadP(rd, r, W, en, td) ==
    /\ rd \in Seq(Nat) /\ Len(rd) <= W
    /\ Contig(rd, 0)
    /\ r = 0 => rd = <<>>
    /\ td = "eof" => Len(rd) = W /\ en
    /\ td = "zero" => W \in Nat /\ en /\ 2 + W <= r

(* An end's entry agrees with its positions, if it is in use.               *)
ConnP(e, c, h, W, en, rd, Wp, ep, rp) ==
    /\ c \in ConnT /\ c.out = <<>>
    /\ c.used => /\ Sends(e, c, h, W, en) /\ Phase(e, c, h, W, rp)
                 /\ Receives(e, c, h, rd, Wp, ep)
    /\ ~c.used => c = Unused

(* One end.                                                                 *)
Half(e, c, h, W, en, rd, td, Wp, ep, rp) ==
    /\ GhostP(h, W, en, rp)
    /\ ReadP(rd, h.rcv, Wp, ep, td)
    /\ ConnP(e, c, h, W, en, rd, Wp, ep, rp)

(* Both ends and what is under way between them.                            *)
Duo(e, c, N, h, q, a, W, en, rd, td, b, M, i, m, n, V, ev, sd, sf) ==
    /\ e \in Ends /\ W \in Nat /\ V \in Nat /\ en \in BOOLEAN /\ ev \in BOOLEAN
    /\ Half(e, c, h, W, en, rd, td, V, ev, i.rcv)
    /\ Chain(e, N, q, a, W, h.top, h.rcv, i.rcv, i.una)
    /\ Half(Peer(e), b, i, V, ev, sd, sf, W, en, h.rcv)
    /\ Chain(Peer(e), M, m, n, V, i.top, i.rcv, h.rcv, h.una)

(* A new environment of end e: what the programs have done since is in W, en *)
(* and rd.                                                                  *)
EnvOf(x, e, h, i, V, ev) ==
    /\ x \in Env /\ x.e = e /\ x.Wp = V /\ x.ep = ev /\ x.rp = i.rcv
    /\ x.t0 = h.top /\ x.r0 = h.rcv

(* The free entry.                                                          *)
LEMMA UnusedType == Unused \in ConnT /\ Unused.out = <<>> /\ ~Unused.used
                    /\ Unused.state = "CLOSED" /\ ~Unused.orphan
<1>1. 0 \in SeqNo /\ MaxRetries \in Nat
  BY Constants DEF SeqNo
<1>2. Fresh \in ConnT
  BY <1>1 DEF Fresh, ConnT, States
<1> QED BY <1>1, <1>2 DEF Unused, Fresh, ConnT, States

(* The entry a handler leaves behind, field by field.                       *)
LEMMA SettledView ==
  ASSUME NEW d, d \in ConnT
  PROVE  /\ Settled(d) \in ConnT /\ Settled(d).out = <<>>
         /\ ~d.used => Settled(d) = Unused
         /\ d.used => Frame(d, Settled(d)) /\ Settled(d).fin_sent = d.fin_sent
                      /\ Settled(d).fin_seq = d.fin_seq /\ Settled(d).snd_nxt = d.snd_nxt
         /\ d.used => Settled(d).used
<1>1. CASE d.used
  <2>1. PICK z \in Seq(SegT) : z = <<>>
    BY EmptySeq
  <2>2. PICK s : s = [d EXCEPT !.out = z]
    OBVIOUS
  <2>3. Settled(d) = s
    BY <1>1, <2>1, <2>2 DEF Settled
  <2>4. s \in ConnT
    BY <2>2 DEF ConnT
  <2>5. Frame(d, s) /\ s.fin_sent = d.fin_sent /\ s.fin_seq = d.fin_seq
        /\ s.snd_nxt = d.snd_nxt /\ s.out = z
    BY <2>2 DEF ConnT, Frame
  <2>6. s.used
    BY <1>1, <2>5 DEF Frame
  <2> QED BY <1>1, <2>1, <2>3, <2>4, <2>5, <2>6
<1>2. CASE ~d.used
  BY <1>2, UnusedType DEF Settled
<1> QED BY <1>1, <1>2

(* An end's positions after a handler.                                      *)
LEMMA GhostOf ==
  ASSUME NEW e, NEW c, NEW h, NEW W, NEW en, NEW rp, e \in Ends, c \in ConnT, h \in Ghost,
         W \in Nat, en \in BOOLEAN, rp \in Nat, Sends(e, c, h, W, en), h.una <= rp, rp <= h.top
  PROVE  GhostP(h, W, en, rp) /\ h.top >= 1
<1>1. /\ h.una \in Nat /\ h.nxt \in Nat /\ h.rcv \in Nat /\ h.top \in Nat /\ h.fin \in Nat
      /\ Len(c.tx) \in Nat /\ c.fin_pending \in BOOLEAN /\ c.fin_sent \in BOOLEAN
  BY SendsType
<1>2. /\ Numbers(h.una, h.nxt, h.top, h.fin, Len(c.tx), W, c.fin_pending, c.fin_sent)
      /\ c.fin_pending => en
  BY DEF Sends
<1>3. h.top <= h.una + Window
  BY TopBound
<1>4. /\ h.una <= h.top /\ h.top <= 3 + W /\ (h.una = 0 => h.top <= 1 /\ W = 0)
      /\ 1 <= h.top /\ (~c.fin_pending => h.top <= 1 + W)
  BY <1>1, <1>2 DEF Numbers
<1>5. h.top >= 2 + W => en
  BY <1>1, <1>2, <1>4
<1> QED BY <1>3, <1>4, <1>5 DEF GhostP

(* Where the used entry of an end starts a handler.                         *)
LEMMA HalfGoes ==
  ASSUME NEW e, NEW c, NEW h, NEW W, NEW en, NEW rd, NEW td, NEW V, NEW ev, NEW i, NEW x,
         Half(e, c, h, W, en, rd, td, V, ev, i.rcv), c.used,
         EnvOf(x, e, h, i, V, ev), x.W = W, x.en = en, x.rd = rd
  PROVE  Mid(x, c, h, <<>>, <<>>) /\ Goes(x, c, h.una, h.rcv)
<1>1. /\ c \in ConnT /\ c.out = <<>> /\ h \in Ghost
      /\ Sends(x.e, c, h, x.W, x.en) /\ Phase(x.e, c, h, x.W, x.rp)
      /\ Receives(x.e, c, h, x.rd, x.Wp, x.ep)
  BY DEF Half, ConnP, GhostP, EnvOf
<1>2. x.t0 <= h.top /\ x.r0 <= h.rcv /\ x \in Env
  <2>1. h.top \in Nat /\ h.rcv \in Nat
    BY <1>1, GhostType
  <2> QED BY <2>1 DEF EnvOf
<1>3. Mid(x, c, h, <<>>, <<>>)
  BY <1>1, <1>2, StartMid
<1> QED BY <1>3 DEF Goes

(* What a handler leaves of its own end.                                    *)
LEMMA HalfAfter ==
  ASSUME NEW e, NEW h, NEW i, NEW V, NEW ev, NEW x, EnvOf(x, e, h, i, V, ev),
         NEW d, NEW u, NEW y, Goes(x, d, u, y), u <= x.rp, x.rp <= x.t0, NEW td,
         ReadP(x.rd, y, V, ev, td), NEW N, NEW q, NEW a, NEW W, NEW low,
         Chain(e, N, q, a, W, x.t0, x.r0, x.rp, low), W \in Nat, low \in Nat, low <= x.r0,
         x.W = W \/ (W <= x.W /\ x.t0 <= 1 + W)
  PROVE  \E g, p, b : /\ g.una = u /\ g.rcv = y /\ g.top >= 1
                      /\ Half(e, Settled(d), g, x.W, x.en, x.rd, td, V, ev, i.rcv)
                      /\ Chain(e, N \o d.out, p, b, x.W, g.top, g.rcv, i.rcv, low)
<1>1. PICK g, p, b : Mid(x, d, g, p, b) /\ g.una = u /\ g.rcv = y
  BY DEF Goes
<1>2. /\ x.e \in Ends /\ x.W \in Nat /\ x.en \in BOOLEAN /\ x.rp \in Nat /\ x.t0 \in Nat
      /\ x.r0 \in Nat /\ d \in ConnT /\ g \in Ghost
      /\ g.una \in Nat /\ g.rcv \in Nat /\ g.top \in Nat
  BY <1>1, MidType
<1>3. x.e = e /\ x.rp = i.rcv /\ x.Wp = V /\ x.ep = ev
  BY DEF EnvOf
<1>4. /\ Sends(e, d, g, x.W, x.en) /\ Phase(e, d, g, x.W, x.rp)
      /\ Receives(e, d, g, x.rd, V, ev)
      /\ Chain(e, d.out, p, b, x.W, g.top, g.rcv, x.t0, x.r0)
      /\ x.t0 <= g.top /\ x.r0 <= g.rcv
  BY <1>1, <1>3 DEF Mid
<1>5. x.rp <= g.top
  BY <1>2, <1>4
<1>6. GhostP(g, x.W, x.en, x.rp) /\ g.top >= 1
  BY <1>1, <1>2, <1>3, <1>4, <1>5, GhostOf
<1>7. ConnP(e, Settled(d), g, x.W, x.en, x.rd, V, ev, x.rp)
  <2>1. CASE d.used
    <3>1. PICK s : s = Settled(d)
      OBVIOUS
    <3>2. /\ s \in ConnT /\ s.out = <<>> /\ Frame(d, s) /\ s.fin_sent = d.fin_sent
          /\ s.fin_seq = d.fin_seq /\ s.snd_nxt = d.snd_nxt /\ s.used
      BY <1>2, <2>1, <3>1, SettledView
    <3>3. Sends(e, s, g, x.W, x.en) /\ Phase(e, s, g, x.W, x.rp)
          /\ Receives(e, s, g, x.rd, V, ev)
      BY <1>4, <3>2, FrameKeeps
    <3> QED BY <3>1, <3>2, <3>3 DEF ConnP
  <2>2. CASE ~d.used
    BY <1>2, <2>2, SettledView, UnusedType DEF ConnP
  <2> QED BY <2>1, <2>2
<1>8. Half(e, Settled(d), g, x.W, x.en, x.rd, td, V, ev, i.rcv)
  BY <1>1, <1>3, <1>6, <1>7 DEF Half
<1>9. Chain(e, N \o d.out, q \o p, a \o b, x.W, g.top, g.rcv, x.rp, low)
  BY <1>2, <1>3, <1>4, ChainConcat
<1> QED BY <1>1, <1>3, <1>6, <1>8, <1>9

(* The receiver's numbers as the other end's stream grows.                  *)
LEMMA CountPeer ==
  ASSUME NEW r, NEW R, NEW L, NEW W, NEW pf, NEW rs, NEW en, NEW V, NEW ev,
         r \in Nat, R \in Nat, L \in Nat, W \in Nat, V \in Nat,
         Counts(r, R, L, W, pf, rs, en), W <= V, en => V = W /\ ev
  PROVE  Counts(r, R, L, V, pf, rs, ev)
BY DEF Counts

(* What it leaves of the other: nothing there depends on this end but how   *)
(* much it has written, whether it has ended, and how far it has received.  *)
LEMMA HalfPeer ==
  ASSUME NEW e, NEW c, NEW h, NEW W, NEW en, NEW rd, NEW td, NEW V, NEW ev, NEW r,
         NEW V2, NEW ev2, NEW r2, W \in Nat, V \in Nat, r \in Nat, V2 \in Nat, r2 \in Nat,
         en \in BOOLEAN, ev \in BOOLEAN,
         Half(e, c, h, W, en, rd, td, V, ev, r), V <= V2, ev => ev2 /\ V2 = V,
         r <= r2, r2 <= h.top
  PROVE  Half(e, c, h, W, en, rd, td, V2, ev2, r2)
<1>1. h \in Ghost /\ h.una \in Nat /\ h.rcv \in Nat /\ h.top \in Nat
  BY GhostType DEF Half, GhostP
<1>2. GhostP(h, W, en, r2)
  BY <1>1 DEF Half, GhostP
<1>3. rd \in Seq(Nat) /\ Len(rd) \in Nat /\ Len(rd) <= V
  BY SeqFacts DEF Half, ReadP
<1>4. ReadP(rd, h.rcv, V2, ev2, td)
  <2>1. Len(rd) <= V2
    BY <1>3
  <2> QED BY <1>3, <2>1 DEF Half, ReadP
<1>5. ASSUME c.used
      PROVE  Phase(e, c, h, W, r2) /\ Receives(e, c, h, rd, V2, ev2)
  <2>1. /\ c \in ConnT /\ Phase(e, c, h, W, r) /\ Receives(e, c, h, rd, V, ev)
    BY <1>5 DEF Half, ConnP
  <2>2. c.rx \in Seq(Nat) /\ Len(c.rx) \in Nat
    BY <2>1, ConnType, SeqFacts
  <2>3. Counts(h.rcv, Len(rd), Len(c.rx), V2, c.peer_fin, c.reset, ev2)
    <3>1. Counts(h.rcv, Len(rd), Len(c.rx), V, c.peer_fin, c.reset, ev)
      BY <2>1 DEF Receives
    <3>2. ev => V2 = V /\ ev2
      OBVIOUS
    <3> QED BY <1>1, <1>3, <2>2, <3>1, <3>2, CountPeer
  <2>4. Receives(e, c, h, rd, V2, ev2)
    BY <2>1, <2>3 DEF Receives
  <2>5. c.state = "FIN_WAIT_2" => r2 >= 2 + W
    BY <2>1 DEF Phase
  <2>6. Phase(e, c, h, W, r2)
    BY <2>1, <2>5 DEF Phase
  <2> QED BY <2>4, <2>6
<1>6. ConnP(e, c, h, W, en, rd, V2, ev2, r2)
  BY <1>5 DEF Half, ConnP
<1> QED BY <1>2, <1>4, <1>6 DEF Half

(* What is left of the segments M in flight to an end whose ghost is h: all, *)
(* or all but the first, which the end has handled and which took its       *)
(* acknowledgements to u and what it has received to y.                     *)
Delivered(M, m, n, K, h, u, y) ==
    \/ K = M /\ u = h.una /\ y = h.rcv
    \/ /\ M # <<>> /\ K = Tail(M)
       /\ y = h.rcv \/ (Live(Head(M)) /\ y <= End(Head(M), Head(m)))
       /\ u = h.una \/ (Live(Head(M)) /\ Acks(Head(M)) /\ u <= Head(n))

(* The first segment of a chain.                                            *)
LEMMA FrontOf ==
  ASSUME NEW e, NEW N, NEW q, NEW a, NEW W, NEW top, NEW rcv, NEW lo, NEW low,
         Chain(e, N, q, a, W, top, rcv, lo, low), N # <<>>, Live(Head(N))
  PROVE  /\ Head(N) \in SegT /\ Head(q) \in Nat /\ Head(a) \in Nat
         /\ Seg(e, Head(N), Head(q), Head(a), W, top, rcv, lo, low)
<1>1. N \in Seq(SegT) /\ q \in Seq(Nat) /\ a \in Seq(Nat) /\ Len(q) = Len(N) /\ Len(a) = Len(N)
  BY DEF Chain
<1>2. 1 \in 1 .. Len(N) /\ Head(N) = N[1] /\ Head(N) \in SegT
  <2>1. PICK S : S = SegT
    OBVIOUS
  <2>2. N \in Seq(S)
    BY <1>1, <2>1
  <2>3. 1 \in 1 .. Len(N) /\ Head(N) = N[1] /\ Head(N) \in S
    BY <2>2
  <2> QED BY <2>1, <2>3
<1>3. Head(q) = q[1] /\ Head(a) = a[1] /\ Head(q) \in Nat /\ Head(a) \in Nat
  BY <1>1, <1>2
<1> QED BY <1>2, <1>3 DEF Chain

(* The chain without what was delivered.                                    *)
LEMMA DeliveredChain ==
  ASSUME NEW e, NEW M, NEW m, NEW n, NEW V, NEW i, NEW h, e \in Ends, V \in Nat,
         i \in Ghost, h \in Ghost,
         Chain(e, M, m, n, V, i.top, i.rcv, h.rcv, h.una),
         NEW K, NEW u, NEW y, u \in Nat, y \in Nat, Delivered(M, m, n, K, h, u, y)
  PROVE  /\ \E k, b : Chain(e, K, k, b, V, i.top, i.rcv, y, u)
         /\ u <= h.una \/ u <= i.rcv
         /\ y <= h.rcv \/ y <= i.top
<1>1. /\ i.top \in Nat /\ i.rcv \in Nat /\ h.rcv \in Nat /\ h.una \in Nat
  BY GhostType
<1>2. CASE K = M /\ u = h.una /\ y = h.rcv
  BY <1>1, <1>2
<1>3. CASE /\ M # <<>> /\ K = Tail(M)
           /\ y = h.rcv \/ (Live(Head(M)) /\ y <= End(Head(M), Head(m)))
           /\ u = h.una \/ (Live(Head(M)) /\ Acks(Head(M)) /\ u <= Head(n))
  <2>1. y <= h.rcv \/ (Live(Head(M)) /\ y <= End(Head(M), Head(m)))
    BY <1>1, <1>3
  <2>2. u <= h.una \/ (Live(Head(M)) /\ Acks(Head(M)) /\ u <= Head(n))
    BY <1>1, <1>3
  <2>3. Chain(e, K, Tail(m), Tail(n), V, i.top, i.rcv, y, u)
    BY <1>1, <1>3, <2>1, <2>2, ChainTail
  <2>4. ASSUME Live(Head(M))
        PROVE  /\ End(Head(M), Head(m)) \in Nat /\ End(Head(M), Head(m)) <= i.top
               /\ Head(n) \in Nat /\ (Acks(Head(M)) => Head(n) <= i.rcv)
    <3>1. PICK s, k, v : s = Head(M) /\ k = Head(m) /\ v = Head(n)
      OBVIOUS
    <3>2. /\ s \in SegT /\ k \in Nat /\ v \in Nat
          /\ Seg(e, s, k, v, V, i.top, i.rcv, h.rcv, h.una)
      BY <1>3, <2>4, <3>1, FrontOf
    <3>3. End(s, k) \in Nat /\ End(s, k) <= i.top /\ (Acks(s) => v <= i.rcv)
      BY <1>1, <3>2, SegEnd
    <3> QED BY <3>1, <3>2, <3>3
  <2>5. u <= h.una \/ u <= i.rcv
    <3>1. CASE u <= h.una
      BY <3>1
    <3>2. CASE Live(Head(M)) /\ Acks(Head(M)) /\ u <= Head(n)
      <4>1. Head(n) \in Nat /\ Head(n) <= i.rcv
        BY <2>4, <3>2
      <4> QED BY <1>1, <3>2, <4>1
    <3> QED BY <2>2, <3>1, <3>2
  <2>6. y <= h.rcv \/ y <= i.top
    <3>1. CASE y <= h.rcv
      BY <3>1
    <3>2. CASE Live(Head(M)) /\ y <= End(Head(M), Head(m))
      <4>1. End(Head(M), Head(m)) \in Nat /\ End(Head(M), Head(m)) <= i.top
        BY <2>4, <3>2
      <4>2. PICK E \in Nat : E = End(Head(M), Head(m))
        BY <4>1
      <4> QED BY <1>1, <3>2, <4>1, <4>2
    <3> QED BY <2>1, <3>1, <3>2
  <2> QED BY <2>3, <2>5, <2>6
<1> QED BY <1>2, <1>3 DEF Delivered

(* How the two ends' positions are ordered.                                 *)
LEMMA DuoFacts ==
  ASSUME NEW e, NEW c, NEW N, NEW h, NEW q, NEW a, NEW W, NEW en, NEW rd, NEW td,
         NEW b, NEW M, NEW i, NEW m, NEW n, NEW V, NEW ev, NEW sd, NEW sf,
         Duo(e, c, N, h, q, a, W, en, rd, td, b, M, i, m, n, V, ev, sd, sf)
  PROVE  /\ e \in Ends /\ Peer(e) \in Ends /\ Peer(Peer(e)) = e /\ h \in Ghost /\ i \in Ghost
         /\ h.una \in Nat /\ h.rcv \in Nat /\ h.top \in Nat
         /\ i.una \in Nat /\ i.rcv \in Nat /\ i.top \in Nat
         /\ h.una <= i.rcv /\ i.rcv <= h.top /\ i.una <= h.rcv /\ h.rcv <= i.top
         /\ i.top <= h.rcv + Window /\ (h.rcv = 0 => i.top <= 1)
         /\ (i.top >= 2 + V => ev) /\ (h.una = 0 => h.top <= 1 /\ W = 0)
         /\ (h.rcv = 0 => rd = <<>>)
<1>1. /\ GhostP(h, W, en, i.rcv) /\ GhostP(i, V, ev, h.rcv) /\ e \in Ends
      /\ ReadP(rd, h.rcv, V, ev, td)
  BY DEF Duo, Half
<1>2. h \in Ghost /\ i \in Ghost
  BY <1>1 DEF GhostP
<1>3. /\ h.una \in Nat /\ h.rcv \in Nat /\ h.top \in Nat
      /\ i.una \in Nat /\ i.rcv \in Nat /\ i.top \in Nat
  BY <1>2, GhostType
<1>4. /\ h.una <= i.rcv /\ i.rcv <= h.top /\ i.una <= h.rcv /\ h.rcv <= i.top
      /\ i.top <= i.una + Window /\ (i.una = 0 => i.top <= 1)
      /\ (i.top >= 2 + V => ev) /\ (h.una = 0 => h.top <= 1 /\ W = 0)
  BY <1>1 DEF GhostP
<1>5. i.top <= h.rcv + Window /\ (h.rcv = 0 => i.top <= 1)
  BY <1>3, <1>4, WindowNat
<1>6. Peer(e) \in Ends /\ Peer(Peer(e)) = e
  BY <1>1, Constants
<1>7. h.rcv = 0 => rd = <<>>
  BY <1>1 DEF ReadP
<1> QED BY <1>1, <1>2, <1>3, <1>4, <1>5, <1>6, <1>7

(* A handler of end e: entry d is left, d.out is sent, x is what the end    *)
(* then stands in.                                                          *)
LEMMA DuoMoves ==
  ASSUME NEW e, NEW c, NEW N, NEW h, NEW q, NEW a, NEW W, NEW en, NEW rd, NEW td,
         NEW b, NEW M, NEW i, NEW m, NEW n, NEW V, NEW ev, NEW sd, NEW sf,
         Duo(e, c, N, h, q, a, W, en, rd, td, b, M, i, m, n, V, ev, sd, sf),
         NEW x, EnvOf(x, e, h, i, V, ev), NEW d, NEW u, NEW y, Goes(x, d, u, y),
         NEW K, Delivered(M, m, n, K, h, u, y), NEW tn, ReadP(x.rd, y, V, ev, tn),
         en => x.en /\ x.W = W, x.W = W \/ (W <= x.W /\ h.top <= 1 + W)
  PROVE  \E g, p, o, k, l :
           /\ g.una = u /\ g.rcv = y /\ g.top >= 1
           /\ Duo(e, Settled(d), N \o d.out, g, p, o, x.W, x.en, x.rd, tn,
                  b, K, i, k, l, V, ev, sd, sf)
<1>1. /\ e \in Ends /\ Peer(e) \in Ends /\ h \in Ghost /\ i \in Ghost
      /\ h.una \in Nat /\ h.rcv \in Nat /\ h.top \in Nat
      /\ i.una \in Nat /\ i.rcv \in Nat /\ i.top \in Nat
      /\ h.una <= i.rcv /\ i.rcv <= h.top /\ i.una <= h.rcv /\ h.rcv <= i.top
  BY DuoFacts
<1>2. /\ Half(e, c, h, W, en, rd, td, V, ev, i.rcv)
      /\ Chain(e, N, q, a, W, h.top, h.rcv, i.rcv, i.una)
      /\ Half(Peer(e), b, i, V, ev, sd, sf, W, en, h.rcv)
      /\ Chain(Peer(e), M, m, n, V, i.top, i.rcv, h.rcv, h.una)
      /\ W \in Nat /\ V \in Nat /\ en \in BOOLEAN /\ ev \in BOOLEAN
  BY DEF Duo
<1>3. /\ u \in Nat /\ y \in Nat /\ x.W \in Nat /\ x.r0 <= y
      /\ x.rp = i.rcv /\ x.t0 = h.top /\ x.r0 = h.rcv /\ x.en \in BOOLEAN
  BY GoesType DEF EnvOf, Env
<1>4. PICK k, l : Chain(Peer(e), K, k, l, V, i.top, i.rcv, y, u)
  BY <1>1, <1>2, <1>3, DeliveredChain
<1>5. (u <= h.una \/ u <= i.rcv) /\ (y <= h.rcv \/ y <= i.top)
  BY <1>1, <1>2, <1>3, DeliveredChain
<1>6. u <= x.rp /\ y <= i.top /\ x.rp <= x.t0 /\ i.una <= x.r0 /\ h.rcv <= y
  BY <1>1, <1>3, <1>5
<1>7. /\ Chain(e, N, q, a, W, x.t0, x.r0, x.rp, i.una)
      /\ x.W = W \/ (W <= x.W /\ x.t0 <= 1 + W)
  BY <1>2, <1>3
<1>8. PICK g, p, o : /\ g.una = u /\ g.rcv = y /\ g.top >= 1
                     /\ Half(e, Settled(d), g, x.W, x.en, x.rd, tn, V, ev, i.rcv)
                     /\ Chain(e, N \o d.out, p, o, x.W, g.top, g.rcv, i.rcv, i.una)
  BY <1>1, <1>2, <1>6, <1>7, HalfAfter
<1>9. Half(Peer(e), b, i, V, ev, sd, sf, x.W, x.en, g.rcv)
  <2>1. W <= x.W
    BY <1>2, <1>3
  <2>2. en => x.en /\ x.W = W
    OBVIOUS
  <2>3. Half(Peer(e), b, i, V, ev, sd, sf, x.W, x.en, y)
    BY <1>1, <1>2, <1>3, <1>6, <2>1, <2>2, HalfPeer
  <2> QED BY <1>8, <2>3
<1>10. Chain(Peer(e), K, k, l, V, i.top, i.rcv, g.rcv, g.una)
  BY <1>4, <1>8
<1>11. Duo(e, Settled(d), N \o d.out, g, p, o, x.W, x.en, x.rd, tn,
           b, K, i, k, l, V, ev, sd, sf)
  BY <1>1, <1>2, <1>3, <1>8, <1>9, <1>10 DEF Duo
<1> QED BY <1>8, <1>11

(* What is sent without an entry of its own: nothing, or one reset.         *)
Idle(o) == o = <<>> \/ \E s \in SegT : ~Live(s) /\ o = <<s>>

(* A reset changes no chain.                                                *)
LEMMA IdleChain ==
  ASSUME NEW e, NEW N, NEW q, NEW a, NEW W, NEW top, NEW rcv, NEW lo, NEW low, NEW o,
         e \in Ends, W \in Nat, top \in Nat, rcv \in Nat, lo \in Nat, low \in Nat,
         Chain(e, N, q, a, W, top, rcv, lo, low), Idle(o), lo <= top, low <= rcv
  PROVE  \E p, b : Chain(e, N \o o, p, b, W, top, rcv, lo, low)
<1>1. PICK p, b : Chain(e, o, p, b, W, top, rcv, top, rcv)
  <2>1. CASE o = <<>>
    BY <2>1, ChainEmpty
  <2>2. CASE \E s \in SegT : ~Live(s) /\ o = <<s>>
    <3>1. PICK s \in SegT : ~Live(s) /\ o = <<s>>
      BY <2>2
    <3>2. 0 \in Nat
      OBVIOUS
    <3>3. Chain(e, <<s>>, <<0>>, <<0>>, W, top, rcv, top, rcv)
      BY <3>1, <3>2, ChainOne
    <3> QED BY <3>1, <3>3
  <2> QED BY <2>1, <2>2 DEF Idle
<1>2. Chain(e, N \o o, q \o p, a \o b, W, top, rcv, lo, low)
  <2>1. top <= top /\ rcv <= rcv
    OBVIOUS
  <2> QED BY <1>1, <2>1, ChainConcat
<1> QED BY <1>2

(* The positions do not move.                                               *)
Still(h, u, y) == u = h.una /\ y = h.rcv

(* An entry is left as it is, or freed.                                     *)
Remains(c, d) == d = c \/ d = Unused

(* A program that has ended its stream stays that way.                      *)
Later(en, em) == em \in BOOLEAN /\ (en => em)

(* A step that leaves both ends' numbers alone: the entry may be freed, the *)
(* program may end its stream or be told of the other's end.                *)
LEMMA DuoRests ==
  ASSUME NEW e, NEW c, NEW N, NEW h, NEW q, NEW a, NEW W, NEW en, NEW rd, NEW td,
         NEW b, NEW M, NEW i, NEW m, NEW n, NEW V, NEW ev, NEW sd, NEW sf,
         Duo(e, c, N, h, q, a, W, en, rd, td, b, M, i, m, n, V, ev, sd, sf),
         NEW d, Remains(c, d), NEW o, Idle(o), NEW K, NEW u, NEW y,
         Delivered(M, m, n, K, h, u, y), Still(h, u, y),
         NEW tn, ReadP(rd, y, V, ev, tn), NEW em, Later(en, em)
  PROVE  \E p, z, k, l : Duo(e, d, N \o o, h, p, z, W, em, rd, tn, b, K, i, k, l, V, ev, sd, sf)
<1>1. /\ e \in Ends /\ Peer(e) \in Ends /\ h \in Ghost /\ i \in Ghost
      /\ h.una \in Nat /\ h.rcv \in Nat /\ h.top \in Nat
      /\ i.una \in Nat /\ i.rcv \in Nat /\ i.top \in Nat
      /\ h.una <= i.rcv /\ i.rcv <= h.top /\ i.una <= h.rcv /\ h.rcv <= i.top
  BY DuoFacts
<1>2. /\ Half(e, c, h, W, en, rd, td, V, ev, i.rcv)
      /\ Chain(e, N, q, a, W, h.top, h.rcv, i.rcv, i.una)
      /\ Half(Peer(e), b, i, V, ev, sd, sf, W, en, h.rcv)
      /\ Chain(Peer(e), M, m, n, V, i.top, i.rcv, h.rcv, h.una)
      /\ W \in Nat /\ V \in Nat /\ en \in BOOLEAN /\ ev \in BOOLEAN
  BY DEF Duo
<1>0. em \in BOOLEAN /\ (en => em)
  BY DEF Later
<1>8. u = h.una /\ y = h.rcv
  BY DEF Still
<1>3. PICK k, l : Chain(Peer(e), K, k, l, V, i.top, i.rcv, h.rcv, h.una)
  BY <1>8, <1>1, <1>2, DeliveredChain
<1>4. PICK p, z : Chain(e, N \o o, p, z, W, h.top, h.rcv, i.rcv, i.una)
  BY <1>1, <1>2, IdleChain
<1>5. Half(e, d, h, W, em, rd, tn, V, ev, i.rcv)
  <2>1. GhostP(h, W, em, i.rcv)
    BY <1>0, <1>2 DEF Half, GhostP
  <2>2. ConnP(e, d, h, W, em, rd, V, ev, i.rcv)
    <3>1. CASE d = Unused
      BY <3>1, UnusedType DEF ConnP
    <3>2. CASE d = c
      <4>1. Sends(e, c, h, W, en) => Sends(e, c, h, W, em)
        BY <1>0 DEF Sends
      <4> QED BY <1>2, <3>2, <4>1 DEF Half, ConnP
    <3> QED BY <3>1, <3>2 DEF Remains
  <2> QED BY <1>8, <2>1, <2>2 DEF Half
<1>6. Half(Peer(e), b, i, V, ev, sd, sf, W, em, h.rcv)
  <2>1. en => em /\ W = W
    BY <1>0
  <2>2. W <= W /\ h.rcv <= h.rcv
    BY <1>1, <1>2
  <2> QED BY <1>1, <1>2, <2>1, <2>2, HalfPeer
<1>7. Duo(e, d, N \o o, h, p, z, W, em, rd, tn, b, K, i, k, l, V, ev, sd, sf)
  BY <1>0, <1>1, <1>2, <1>3, <1>4, <1>5, <1>6 DEF Duo
<1> QED BY <1>7

(* The first segment in flight, as its handler sees it.                     *)
LEMMA DuoHeard ==
  ASSUME NEW e, NEW c, NEW N, NEW h, NEW q, NEW a, NEW W, NEW en, NEW rd, NEW td,
         NEW b, NEW M, NEW i, NEW m, NEW n, NEW V, NEW ev, NEW sd, NEW sf,
         Duo(e, c, N, h, q, a, W, en, rd, td, b, M, i, m, n, V, ev, sd, sf),
         M # <<>>, Live(Head(M)), NEW x, EnvOf(x, e, h, i, V, ev)
  PROVE  Heard(x, Head(M), Head(m), Head(n), i.top, h.una)
<1>1. /\ h.una \in Nat /\ h.rcv \in Nat /\ h.top \in Nat /\ i.rcv \in Nat /\ i.top \in Nat
      /\ h.una <= i.rcv /\ i.rcv <= h.top
      /\ i.top <= h.rcv + Window /\ (h.rcv = 0 => i.top <= 1) /\ (i.top >= 2 + V => ev)
  BY DuoFacts
<1>2. Chain(Peer(e), M, m, n, V, i.top, i.rcv, h.rcv, h.una)
  BY DEF Duo
<1>3. /\ Head(M) \in SegT /\ Head(m) \in Nat /\ Head(n) \in Nat
      /\ Seg(Peer(e), Head(M), Head(m), Head(n), V, i.top, i.rcv, h.rcv, h.una)
  BY <1>2, FrontOf
<1>4. x.e = e /\ x.Wp = V /\ x.ep = ev /\ x.rp = i.rcv /\ x.t0 = h.top /\ x.r0 = h.rcv
  BY DEF EnvOf
<1> QED BY <1>1, <1>3, <1>4 DEF Heard

(* Where a program can be.                                                  *)
Apps == {"init", "connecting", "failed", "accept", "open", "shut", "closing", "closed"}

(* The types of the table and of the link.                                  *)
Table == conn \in [Ends -> ConnT] /\ net \in [Ends -> Seq(SegT)]

(* The types of the rest.                                                   *)
Shape ==
    /\ app \in [Ends -> Apps] /\ sending \subseteq Ends /\ probing \subseteq Ends
    /\ written \in [Ends -> Nat] /\ \A e \in Ends : written[e] <= Data[e]
    /\ read \in [Ends -> Seq(Nat)] /\ told \in [Ends -> {"open", "eof", "zero", "error"}]
    /\ abandoned \subseteq Ends /\ listening \in BOOLEAN /\ queued \in BOOLEAN
    /\ losses \in 0 .. MaxLoss /\ early \in 0 .. MaxEarly

(* The conversation as the state has it, seen from e.                       *)
Pair(e, h, q, a, i, m, n) ==
    Duo(e, conn[e], net[Peer(e)], h, q, a, written[e], Ended(e), read[e], told[e],
        conn[Peer(e)], net[e], i, m, n, written[Peer(e)], Ended(Peer(e)),
        read[Peer(e)], told[Peer(e)])

(* What ties an entry to its program.                                       *)
Local(e, h) ==
    /\ conn[e].state = "SYN_RCVD" => h.una = 0
    /\ conn[e].orphan => app[e] = "closed"
    /\ e \in sending => app[e] = "open"
    /\ app[e] \in {"open", "shut", "closing", "closed"}
         => conn[e].state \notin {"SYN_SENT", "SYN_RCVD"}

(* Nothing has left a client that has not called connect; the listener makes *)
(* one child, and what the server's program accepts has been acknowledged.  *)
Hand(e, h) ==
    /\ e = Client /\ app[e] = "init" => h.top = 0 /\ h.rcv = 0 /\ conn[e] = Unused
    /\ e = Server =>
         /\ app[e] # "accept" \/ queued => h.una >= 1 /\ conn[e].state # "SYN_RCVD"
         /\ ~conn[e].used /\ h.top >= 1 => h.una >= 1
         /\ h.top = 0 => h.rcv = 0

(* The conversation, and what ties each end to its program.                 *)
Both(e, h, q, a, i, m, n) ==
    /\ Pair(e, h, q, a, i, m, n)
    /\ Local(e, h) /\ Hand(e, h) /\ Local(Peer(e), i) /\ Hand(Peer(e), i)

(* There are positions for which all of this holds.                         *)
Fine(e) == Table /\ \E h, q, a, i, m, n : Both(e, h, q, a, i, m, n)

(* A step at e leaves the other end alone.                                  *)
Away(e) ==
    /\ conn'[Peer(e)] = conn[Peer(e)] /\ app'[Peer(e)] = app[Peer(e)]
    /\ written'[Peer(e)] = written[Peer(e)] /\ read'[Peer(e)] = read[Peer(e)]
    /\ told'[Peer(e)] = told[Peer(e)]
    /\ Peer(e) \in sending' => Peer(e) \in sending
    /\ Peer(e) = Server => (queued' => queued)

(* What ties the other end to its program does not change.                  *)
LEMMA AwayKeeps ==
  ASSUME NEW e, NEW i, Away(e), Local(Peer(e), i), Hand(Peer(e), i)
  PROVE  Local(Peer(e), i)' /\ Hand(Peer(e), i)'
<1>1. Local(Peer(e), i)'
  BY DEF Away, Local
<1>2. Hand(Peer(e), i)'
  BY DEF Away, Hand
<1> QED BY <1>1, <1>2

(* ... nor whether its stream has ended.                                    *)
LEMMA AwayEnded ==
  ASSUME NEW e, Away(e)
  PROVE  Ended(Peer(e))' = Ended(Peer(e))
BY DEF Away, Ended

(* The conversation is symmetric.                                           *)
LEMMA BothSwap ==
  ASSUME NEW e, NEW h, NEW q, NEW a, NEW i, NEW m, NEW n, e \in Ends,
         Both(e, h, q, a, i, m, n)
  PROVE  Both(Peer(e), i, m, n, h, q, a)
<1>1. Peer(Peer(e)) = e /\ Peer(e) \in Ends
  BY Constants
<1>2. Pair(Peer(e), i, m, n, h, q, a)
  BY <1>1 DEF Both, Pair, Duo
<1> QED BY <1>1, <1>2 DEF Both

(* ... so it is fine at either end.                                         *)
LEMMA FineSwap ==
  ASSUME NEW e, NEW z, e \in Ends, z \in Ends, Fine(e)
  PROVE  Fine(z)
<1>1. z = e \/ z = Peer(e)
  BY Constants
<1>2. PICK h, q, a, i, m, n : Both(e, h, q, a, i, m, n)
  BY DEF Fine
<1>3. Both(Peer(e), i, m, n, h, q, a)
  BY <1>2, BothSwap
<1> QED BY <1>1, <1>2, <1>3 DEF Fine

(* How a handler ends: what its entry d and its acknowledgements u must     *)
(* satisfy with respect to the program.                                     *)
Lands(e, d, u) ==
    /\ d.state = "SYN_RCVD" => u = 0
    /\ d.orphan => app'[e] = "closed"
    /\ e \in sending' => app'[e] = "open"
    /\ app'[e] \in {"open", "shut", "closing", "closed"}
         => d.state \notin {"SYN_SENT", "SYN_RCVD"}
    /\ e = Client => app'[e] # "init"
    /\ e = Server => /\ app'[e] # "accept" \/ queued' => u >= 1 /\ d.state # "SYN_RCVD"
                     /\ d.used \/ u >= 1

(* A handler that lands keeps its end tied to its program.                  *)
LEMMA LandsKeeps ==
  ASSUME NEW e, NEW d, NEW u, NEW g, Lands(e, d, u), d \in ConnT, g.una = u, g.top >= 1,
         conn'[e] = Settled(d), g \in Ghost
  PROVE  Local(e, g)' /\ Hand(e, g)'
<1>1. g.top \in Nat
  BY GhostType
<1>2. PICK s : s = Settled(d)
  OBVIOUS
<1>3. /\ s.state = "SYN_RCVD" => d.state = "SYN_RCVD" /\ d.used
      /\ s.state = "SYN_SENT" => d.state = "SYN_SENT"
      /\ s.orphan => d.orphan /\ (d.used => s.used)
  <2>1. CASE d.used
    BY <1>2, <2>1, SettledView DEF Frame
  <2>2. CASE ~d.used
    BY <1>2, <2>2, SettledView, UnusedType
  <2> QED BY <2>1, <2>2
<1>4. d.used => s.used
  BY <1>2, SettledView
<1>5. Local(e, g)'
  BY <1>2, <1>3 DEF Lands, Local
<1>6. Hand(e, g)'
  BY <1>1, <1>2, <1>3, <1>4 DEF Lands, Hand
<1> QED BY <1>5, <1>6

(* A step in which e's positions move.                                      *)
LEMMA StepMoves ==
  ASSUME NEW e, NEW h, NEW q, NEW a, NEW i, NEW m, NEW n, e \in Ends, Table',
         Both(e, h, q, a, i, m, n), Away(e),
         NEW x, EnvOf(x, e, h, i, written[Peer(e)], Ended(Peer(e))),
         x.W = written'[e], x.en = Ended(e)', x.rd = read'[e],
         NEW d, NEW u, NEW y, Goes(x, d, u, y),
         Delivered(net[e], m, n, net'[e], h, u, y),
         ReadP(read'[e], y, written[Peer(e)], Ended(Peer(e)), told'[e]),
         Ended(e) => Ended(e)' /\ written'[e] = written[e],
         written'[e] = written[e] \/ (written[e] <= written'[e] /\ h.top <= 1 + written[e]),
         conn'[e] = Settled(d), net'[Peer(e)] = net[Peer(e)] \o d.out, Lands(e, d, u)
  PROVE  Fine(e)'
<1>1. PICK V, ev, en, W : V = written[Peer(e)] /\ ev = Ended(Peer(e)) /\ en = Ended(e)
                          /\ W = written[e]
  OBVIOUS
<1>2. Duo(e, conn[e], net[Peer(e)], h, q, a, W, en, read[e], told[e], conn[Peer(e)], net[e],
          i, m, n, V, ev, read[Peer(e)], told[Peer(e)])
  BY <1>1 DEF Both, Pair
<1>3. EnvOf(x, e, h, i, V, ev) /\ ReadP(x.rd, y, V, ev, told'[e])
  BY <1>1
<1>4. (en => x.en /\ x.W = W) /\ (x.W = W \/ (W <= x.W /\ h.top <= 1 + W))
  BY <1>1
<1>5. PICK g, p, o, k, l :
           /\ g.una = u /\ g.rcv = y /\ g.top >= 1
           /\ Duo(e, Settled(d), net[Peer(e)] \o d.out, g, p, o, x.W, x.en, x.rd, told'[e],
                  conn[Peer(e)], net'[e], i, k, l, V, ev, read[Peer(e)], told[Peer(e)])
  BY <1>2, <1>3, <1>4, DuoMoves
<1>6. Ended(Peer(e))' = Ended(Peer(e))
  BY AwayEnded
<1>7. Pair(e, g, p, o, i, k, l)'
  <2>1. /\ conn'[Peer(e)] = conn[Peer(e)] /\ written'[Peer(e)] = V
        /\ read'[Peer(e)] = read[Peer(e)] /\ told'[Peer(e)] = told[Peer(e)]
    BY <1>1 DEF Away
  <2>2. Ended(Peer(e))' = ev
    BY <1>1, <1>6
  <2> QED BY <1>5, <2>1, <2>2 DEF Pair
<1>8. Local(Peer(e), i)' /\ Hand(Peer(e), i)'
  BY AwayKeeps DEF Both
<1>9. d \in ConnT /\ g \in Ghost
  BY <1>5, GoesType DEF Duo, Half, GhostP
<1>10. Local(e, g)' /\ Hand(e, g)'
  BY <1>5, <1>9, LandsKeeps
<1>11. Both(e, g, p, o, i, k, l)'
  BY <1>7, <1>8, <1>10 DEF Both
<1> QED BY <1>11 DEF Fine

(* A step in which no positions move.                                       *)
LEMMA StepRests ==
  ASSUME NEW e, NEW h, NEW q, NEW a, NEW i, NEW m, NEW n, e \in Ends, Table',
         Both(e, h, q, a, i, m, n), Away(e),
         NEW o, Idle(o), conn'[e] = conn[e] \/ conn'[e] = Unused,
         net'[Peer(e)] = net[Peer(e)] \o o,
         Delivered(net[e], m, n, net'[e], h, h.una, h.rcv),
         ReadP(read[e], h.rcv, written[Peer(e)], Ended(Peer(e)), told'[e]),
         Ended(e) => Ended(e)', written'[e] = written[e], read'[e] = read[e],
         Local(e, h)', Hand(e, h)'
  PROVE  Fine(e)'
<1>1. PICK V, ev, en, W : V = written[Peer(e)] /\ ev = Ended(Peer(e)) /\ en = Ended(e)
                          /\ W = written[e]
  OBVIOUS
<1>2. Duo(e, conn[e], net[Peer(e)], h, q, a, W, en, read[e], told[e], conn[Peer(e)], net[e],
          i, m, n, V, ev, read[Peer(e)], told[Peer(e)])
  BY <1>1 DEF Both, Pair
<1>3. ReadP(read[e], h.rcv, V, ev, told'[e])
  BY <1>1
<1>4. PICK em : em = Ended(e)' /\ Later(en, em)
  <2>1. Ended(e)' \in BOOLEAN
    BY DEF Ended
  <2> QED BY <1>1, <2>1 DEF Later
<1>5. PICK p, z, k, l :
           Duo(e, conn'[e], net[Peer(e)] \o o, h, p, z, W, em, read[e], told'[e],
               conn[Peer(e)], net'[e], i, k, l, V, ev, read[Peer(e)], told[Peer(e)])
  <2>1. PICK c, N, rd, td, b, M, sd, sf :
           /\ c = conn[e] /\ N = net[Peer(e)] /\ rd = read[e] /\ td = told[e]
           /\ b = conn[Peer(e)] /\ M = net[e] /\ sd = read[Peer(e)] /\ sf = told[Peer(e)]
    OBVIOUS
  <2>2. PICK d, K, tn : d = conn'[e] /\ K = net'[e] /\ tn = told'[e]
    OBVIOUS
  <2>3. Duo(e, c, N, h, q, a, W, en, rd, td, b, M, i, m, n, V, ev, sd, sf)
    BY <1>2, <2>1
  <2>4. /\ Remains(c, d)
        /\ Delivered(M, m, n, K, h, h.una, h.rcv) /\ ReadP(rd, h.rcv, V, ev, tn)
    BY <1>3, <2>1, <2>2 DEF Remains
  <2>5. PICK p, z, k, l :
           Duo(e, d, N \o o, h, p, z, W, em, rd, tn, b, K, i, k, l, V, ev, sd, sf)
    <3>1. PICK u, y : u = h.una /\ y = h.rcv
      OBVIOUS
    <3>2. Delivered(M, m, n, K, h, u, y) /\ ReadP(rd, y, V, ev, tn)
      BY <2>4, <3>1
    <3>3. Later(en, em)
      BY <1>4
    <3>4. Remains(c, d)
      BY <2>4
    <3>5. Still(h, u, y)
      BY <3>1 DEF Still
    <3> QED BY <2>3, <3>2, <3>3, <3>4, <3>5, DuoRests
  <2> QED BY <2>1, <2>2, <2>5
<1>6. Ended(Peer(e))' = Ended(Peer(e))
  BY AwayEnded
<1>7. Pair(e, h, p, z, i, k, l)'
  <2>1. /\ conn'[Peer(e)] = conn[Peer(e)] /\ written'[Peer(e)] = V
        /\ read'[Peer(e)] = read[Peer(e)] /\ told'[Peer(e)] = told[Peer(e)]
    BY <1>1 DEF Away
  <2>2. Ended(Peer(e))' = ev
    BY <1>1, <1>6
  <2> QED BY <1>1, <1>4, <1>5, <2>1, <2>2 DEF Pair
<1>8. Local(Peer(e), i)' /\ Hand(Peer(e), i)'
  BY AwayKeeps DEF Both
<1>9. Both(e, h, p, z, i, k, l)'
  BY <1>7, <1>8 DEF Both
<1> QED BY <1>9 DEF Fine

(* The link with more on it.                                                *)
LEMMA NetJoin ==
  ASSUME NEW s, NEW t, s \in Seq(SegT), t \in Seq(SegT)
  PROVE  s \o t \in Seq(SegT) /\ s \o <<>> = s
<1>1. PICK S : S = SegT
  OBVIOUS
<1>2. s \in Seq(S) /\ t \in Seq(S)
  BY <1>1
<1>3. s \o t \in Seq(S) /\ s \o <<>> = s
  BY <1>2
<1> QED BY <1>1, <1>3

(* The link with one segment less.                                          *)
LEMMA NetTail ==
  ASSUME NEW s, s \in Seq(SegT), s # <<>>
  PROVE  Tail(s) \in Seq(SegT) /\ Head(s) \in SegT
<1>1. PICK S : S = SegT
  OBVIOUS
<1>2. s \in Seq(S)
  BY <1>1
<1>3. Tail(s) \in Seq(S) /\ Head(s) \in S
  BY <1>2
<1> QED BY <1>1, <1>3

(* There are two ends.                                                      *)
LEMMA EndsApart ==
  ASSUME NEW e, e \in Ends
  PROVE  /\ Peer(e) \in Ends /\ Peer(e) # e /\ Peer(Peer(e)) = e
         /\ e = Server => Peer(e) = Client
         /\ e = Client => Peer(e) = Server
         /\ Client # Server /\ Client \in Ends /\ Server \in Ends
         /\ e = Client \/ e = Server
BY DEF Ends, Peer, Client, Server

(* What Leave changes.                                                      *)
LEMMA LeaveView ==
  ASSUME NEW e, NEW d, Table, e \in Ends, d \in ConnT, Leave(e, d)
  PROVE  /\ Table' /\ conn'[e] = Settled(d) /\ conn'[Peer(e)] = conn[Peer(e)]
         /\ net'[Peer(e)] = net[Peer(e)] \o d.out /\ net'[e] = net[e]
<1>1. Peer(e) \in Ends /\ Peer(e) # e
  BY EndsApart
<1>2. PICK s : s = Settled(d)
  OBVIOUS
<1>3. s \in ConnT
  BY <1>2, SettledView
<1>4. d.out \in Seq(SegT) /\ net[Peer(e)] \in Seq(SegT)
  BY <1>1, ConnType DEF Table
<1>5. PICK t : t = net[Peer(e)] \o d.out
  OBVIOUS
<1>6. t \in Seq(SegT)
  BY <1>4, <1>5, NetJoin
<1>7. conn' = [conn EXCEPT ![e] = s] /\ net' = [net EXCEPT ![Peer(e)] = t]
  BY <1>2, <1>5 DEF Leave
<1>8. PICK p : p = Peer(e)
  OBVIOUS
<1>9. Table' /\ conn'[e] = s /\ conn'[p] = conn[p] /\ net'[p] = t /\ net'[e] = net[e]
  BY <1>1, <1>3, <1>6, <1>7, <1>8 DEF Table
<1> QED BY <1>2, <1>5, <1>8, <1>9

(* What Pass changes.                                                       *)
LEMMA PassView ==
  ASSUME NEW e, NEW o, Table, e \in Ends, o \in Seq(SegT), net[e] # <<>>,
         net' = [net EXCEPT ![e] = Tail(@), ![Peer(e)] = @ \o o]
  PROVE  /\ net' \in [Ends -> Seq(SegT)]
         /\ net'[Peer(e)] = net[Peer(e)] \o o /\ net'[e] = Tail(net[e])
<1>1. Peer(e) \in Ends /\ Peer(e) # e
  BY EndsApart
<1>2. net[e] \in Seq(SegT) /\ net[Peer(e)] \in Seq(SegT)
  BY <1>1 DEF Table
<1>3. PICK t, k, p : t = net[Peer(e)] \o o /\ k = Tail(net[e]) /\ p = Peer(e)
  OBVIOUS
<1>4. t \in Seq(SegT) /\ k \in Seq(SegT)
  BY <1>2, <1>3, NetJoin, NetTail
<1>5. [net EXCEPT ![e] = Tail(@)] = [net EXCEPT ![e] = k]
  BY <1>3
<1>6. net' = [[net EXCEPT ![e] = k] EXCEPT ![p] = t]
  BY <1>1, <1>2, <1>3 DEF Table
<1>7. net' \in [Ends -> Seq(SegT)] /\ net'[p] = t /\ net'[e] = k
  BY <1>1, <1>3, <1>4, <1>6 DEF Table
<1> QED BY <1>3, <1>7

(* What Answer changes.                                                     *)
LEMMA AnswerView ==
  ASSUME NEW e, NEW d, Table, e \in Ends, d \in ConnT, Arrived(e), Answer(e, d)
  PROVE  /\ Table' /\ conn'[e] = Settled(d) /\ conn'[Peer(e)] = conn[Peer(e)]
         /\ net'[Peer(e)] = net[Peer(e)] \o d.out /\ net'[e] = Tail(net[e])
<1>1. Peer(e) \in Ends /\ Peer(e) # e
  BY EndsApart
<1>2. PICK s : s = Settled(d)
  OBVIOUS
<1>3. s \in ConnT
  BY <1>2, SettledView
<1>4. d.out \in Seq(SegT) /\ net[e] # <<>>
  BY ConnType DEF Arrived
<1>5. /\ conn' = [conn EXCEPT ![e] = s]
      /\ net' = [net EXCEPT ![e] = Tail(@), ![Peer(e)] = @ \o d.out]
  BY <1>2 DEF Answer
<1>6. /\ net' \in [Ends -> Seq(SegT)]
      /\ net'[Peer(e)] = net[Peer(e)] \o d.out /\ net'[e] = Tail(net[e])
  BY <1>4, <1>5, PassView
<1>7. PICK p : p = Peer(e)
  OBVIOUS
<1>8. conn' \in [Ends -> ConnT] /\ conn'[e] = s /\ conn'[p] = conn[p]
  BY <1>1, <1>3, <1>5, <1>7 DEF Table
<1> QED BY <1>2, <1>6, <1>7, <1>8 DEF Table

(* Nothing or a reset is a sequence of segments.                            *)
LEMMA IdleType ==
  ASSUME NEW o, Idle(o)
  PROVE  o \in Seq(SegT)
<1>1. CASE o = <<>>
  BY <1>1, EmptySeq
<1>2. CASE \E s \in SegT : ~Live(s) /\ o = <<s>>
  BY <1>2
<1> QED BY <1>1, <1>2 DEF Idle

(* A segment that no entry takes is answered with nothing or a reset.       *)
LEMMA ReplyView ==
  ASSUME NEW e, NEW o, Table, e \in Ends, Idle(o), Arrived(e), Reply(e, o)
  PROVE  /\ Table' /\ conn' = conn
         /\ net'[Peer(e)] = net[Peer(e)] \o o /\ net'[e] = Tail(net[e])
<1>1. o \in Seq(SegT)
  BY IdleType
<1>2. /\ net' \in [Ends -> Seq(SegT)]
      /\ net'[Peer(e)] = net[Peer(e)] \o o /\ net'[e] = Tail(net[e])
  BY <1>1, PassView DEF Arrived, Reply
<1> QED BY <1>2 DEF Reply, Table

(* tcp_send_rst sends a reset or nothing.                                   *)
LEMMA RstIdle ==
  ASSUME NEW s, s \in SegT
  PROVE  Idle(tcp_send_rst(s)) /\ Idle(<<>>)
<1>1. Idle(<<>>)
  BY DEF Idle
<1>2. s.ack \in SeqNo /\ s.seq \in SeqNo /\ Len(s.data) \in Nat /\ s.flags \in Flags
  BY SeqFacts DEF SegT
<1>3. PICK z \in Seq(Nat) : z = <<>>
  BY Emptiness
<1>4. PICK f \in Flags, r \in Flags : f = {"RST"} /\ r = {"RST", "ACK"}
  BY FlagSets
<1>5. 0 \in SeqNo /\ 0 \in Nat
  BY Constants DEF SeqNo
<1>6. Segment(s.ack, 0, f, z, 0) \in SegT /\ ~Live(Segment(s.ack, 0, f, z, 0))
  <2>1. Segment(s.ack, 0, f, z, 0) \in SegT /\ Segment(s.ack, 0, f, z, 0).flags = f
    BY <1>2, <1>5, SegView
  <2> QED BY <1>4, <2>1 DEF Live
<1>7. ASSUME NEW y, y \in SeqNo
      PROVE  Segment(0, y, r, z, 0) \in SegT /\ ~Live(Segment(0, y, r, z, 0))
  <2>1. Segment(0, y, r, z, 0) \in SegT /\ Segment(0, y, r, z, 0).flags = r
    BY <1>5, <1>7, SegView
  <2> QED BY <1>4, <2>1 DEF Live
<1>8. CASE "RST" \in s.flags
  BY <1>1, <1>8 DEF tcp_send_rst
<1>9. CASE "RST" \notin s.flags /\ "ACK" \in s.flags
  <2>1. tcp_send_rst(s) = <<Segment(s.ack, 0, f, z, 0)>>
    BY <1>3, <1>4, <1>9 DEF tcp_send_rst
  <2> QED BY <1>1, <1>6, <2>1 DEF Idle
<1>10. CASE "RST" \notin s.flags /\ "ACK" \notin s.flags
  <2>1. PICK j \in Nat : j = Len(s.data) + (IF "SYN" \in s.flags THEN 1 ELSE 0)
    <3>1. PICK L \in Nat : L = Len(s.data)
      BY <1>2
    <3>2. PICK z1 \in Nat : z1 = IF "SYN" \in s.flags THEN 1 ELSE 0
      <4>1. (IF "SYN" \in s.flags THEN 1 ELSE 0) \in Nat
        OBVIOUS
      <4> QED BY <4>1
    <3>3. L + z1 \in Nat
      OBVIOUS
    <3> QED BY <3>1, <3>2, <3>3
  <2>2. Add(s.seq, j) \in SeqNo
    BY <1>2, AddType
  <2>3. tcp_send_rst(s) = <<Segment(0, Add(s.seq, j), r, z, 0)>>
    BY <1>3, <1>4, <1>10, <2>1 DEF tcp_send_rst
  <2> QED BY <1>1, <1>7, <2>2, <2>3 DEF Idle
<1> QED BY <1>8, <1>9, <1>10

(* An environment from its parts.                                           *)
MkEnv(e, W, en, rd, V, ev, rp, t, r) ==
    [e |-> e, W |-> W, en |-> en, rd |-> rd, Wp |-> V, ep |-> ev, rp |-> rp, t0 |-> t, r0 |-> r]

(* The parts are of the right kind.                                         *)
Setting(e, h, i, W, en, rd, V, ev) ==
    /\ e \in Ends /\ h \in Ghost /\ i \in Ghost /\ W \in Nat /\ V \in Nat
    /\ en \in BOOLEAN /\ ev \in BOOLEAN /\ rd \in Seq(Nat)

(* There is such an environment.                                            *)
LEMMA EnvMake ==
  ASSUME NEW e, NEW h, NEW i, NEW W, NEW en, NEW rd, NEW V, NEW ev,
         Setting(e, h, i, W, en, rd, V, ev)
  PROVE  \E x : EnvOf(x, e, h, i, V, ev) /\ x.W = W /\ x.en = en /\ x.rd = rd
<1>1. PICK rp, t, r : rp = i.rcv /\ t = h.top /\ r = h.rcv
  OBVIOUS
<1>2. rp \in Nat /\ t \in Nat /\ r \in Nat
  BY <1>1, GhostType DEF Setting
<1>3. PICK x : x = MkEnv(e, W, en, rd, V, ev, rp, t, r)
  OBVIOUS
<1>4. x \in Env
  BY <1>2, <1>3 DEF MkEnv, Env, Setting
<1>5. /\ x.e = e /\ x.W = W /\ x.en = en /\ x.rd = rd /\ x.Wp = V /\ x.ep = ev
      /\ x.rp = rp /\ x.t0 = t /\ x.r0 = r
  BY <1>3 DEF MkEnv
<1> QED BY <1>1, <1>4, <1>5 DEF EnvOf

(* A stream has ended or not.                                               *)
LEMMA EndedBool ==
  ASSUME NEW e
  PROVE  Ended(e) \in BOOLEAN /\ Ended(e)' \in BOOLEAN
BY DEF Ended

(* An end's positions and what its program has read.                        *)
LEMMA BothGhost ==
  ASSUME NEW e, NEW h, NEW q, NEW a, NEW i, NEW m, NEW n, Both(e, h, q, a, i, m, n)
  PROVE  /\ e \in Ends /\ Peer(e) \in Ends /\ h \in Ghost /\ i \in Ghost
         /\ h.una \in Nat /\ h.rcv \in Nat /\ h.top \in Nat
         /\ i.una \in Nat /\ i.rcv \in Nat /\ i.top \in Nat
         /\ h.una <= i.rcv /\ i.rcv <= h.top /\ h.rcv <= i.top
         /\ (h.una = 0 => written[e] = 0) /\ (h.rcv = 0 => read[e] = <<>>)
         /\ ReadP(read[e], h.rcv, written[Peer(e)], Ended(Peer(e)), told[e])
         /\ ReadP(read[Peer(e)], i.rcv, written[e], Ended(e), told[Peer(e)])
<1>1. PICK c, N, W, en, rd, td, b, M, V, ev, sd, sf :
         /\ c = conn[e] /\ N = net[Peer(e)] /\ W = written[e] /\ en = Ended(e)
         /\ rd = read[e] /\ td = told[e] /\ b = conn[Peer(e)] /\ M = net[e]
         /\ V = written[Peer(e)] /\ ev = Ended(Peer(e)) /\ sd = read[Peer(e)]
         /\ sf = told[Peer(e)]
  OBVIOUS
<1>2. Duo(e, c, N, h, q, a, W, en, rd, td, b, M, i, m, n, V, ev, sd, sf)
  BY <1>1 DEF Both, Pair
<1>3. /\ e \in Ends /\ Peer(e) \in Ends /\ h \in Ghost /\ i \in Ghost
      /\ h.una \in Nat /\ h.rcv \in Nat /\ h.top \in Nat
      /\ i.una \in Nat /\ i.rcv \in Nat /\ i.top \in Nat
      /\ h.una <= i.rcv /\ i.rcv <= h.top /\ h.rcv <= i.top
      /\ (h.una = 0 => W = 0) /\ (h.rcv = 0 => rd = <<>>)
  BY <1>2, DuoFacts
<1>4. ReadP(rd, h.rcv, V, ev, td) /\ ReadP(sd, i.rcv, W, en, sf)
  BY <1>2 DEF Duo, Half
<1> QED BY <1>1, <1>3, <1>4

(* An end's entry.                                                          *)
LEMMA BothEntry ==
  ASSUME NEW e, NEW h, NEW q, NEW a, NEW i, NEW m, NEW n, Both(e, h, q, a, i, m, n)
  PROVE  /\ conn[e] \in ConnT /\ conn[e].out = <<>> /\ (~conn[e].used => conn[e] = Unused)
         /\ conn[e].used => /\ Sends(e, conn[e], h, written[e], Ended(e))
                            /\ Phase(e, conn[e], h, written[e], i.rcv)
                            /\ Receives(e, conn[e], h, read[e], written[Peer(e)],
                                        Ended(Peer(e)))
BY DEF Both, Pair, Duo, Half, ConnP

(* A used entry, when its handler starts.                                   *)
LEMMA BothGoes ==
  ASSUME NEW e, NEW h, NEW q, NEW a, NEW i, NEW m, NEW n, Both(e, h, q, a, i, m, n),
         conn[e].used, NEW x, EnvOf(x, e, h, i, written[Peer(e)], Ended(Peer(e))),
         x.W = written[e], x.en = Ended(e), x.rd = read[e]
  PROVE  Mid(x, conn[e], h, <<>>, <<>>) /\ Goes(x, conn[e], h.una, h.rcv)
<1>1. PICK c, W, en, rd, td, V, ev :
         /\ c = conn[e] /\ W = written[e] /\ en = Ended(e)
         /\ rd = read[e] /\ td = told[e] /\ V = written[Peer(e)] /\ ev = Ended(Peer(e))
  OBVIOUS
<1>2. Half(e, c, h, W, en, rd, td, V, ev, i.rcv)
  BY <1>1 DEF Both, Pair, Duo
<1>3. EnvOf(x, e, h, i, V, ev) /\ c.used /\ x.W = W /\ x.en = en /\ x.rd = rd
  BY <1>1
<1>4. Mid(x, c, h, <<>>, <<>>) /\ Goes(x, c, h.una, h.rcv)
  BY <1>2, <1>3, HalfGoes
<1> QED BY <1>1, <1>4

(* The environment of a handler.                                            *)
LEMMA BothEnv ==
  ASSUME NEW e, NEW h, NEW q, NEW a, NEW i, NEW m, NEW n, Both(e, h, q, a, i, m, n), Shape
  PROVE  \E x : /\ EnvOf(x, e, h, i, written[Peer(e)], Ended(Peer(e)))
                /\ x.W = written[e] /\ x.en = Ended(e) /\ x.rd = read[e]
<1>1. e \in Ends /\ Peer(e) \in Ends /\ h \in Ghost /\ i \in Ghost
  BY BothGhost
<1>2. written[e] \in Nat /\ written[Peer(e)] \in Nat /\ read[e] \in Seq(Nat)
  BY <1>1 DEF Shape
<1>3. Ended(e) \in BOOLEAN /\ Ended(Peer(e)) \in BOOLEAN
  BY EndedBool
<1>4. PICK W, en, rd, V, ev : /\ W = written[e] /\ en = Ended(e) /\ rd = read[e]
                              /\ V = written[Peer(e)] /\ ev = Ended(Peer(e))
  OBVIOUS
<1>5. Setting(e, h, i, W, en, rd, V, ev)
  BY <1>1, <1>2, <1>3, <1>4 DEF Setting
<1>6. PICK x : EnvOf(x, e, h, i, V, ev) /\ x.W = W /\ x.en = en /\ x.rd = rd
  BY <1>5, EnvMake
<1> QED BY <1>4, <1>6

(* What was read stays a beginning of the stream.                           *)
LEMMA ReadGrows ==
  ASSUME NEW rd, NEW r, NEW V, NEW ev, NEW td, NEW y, ReadP(rd, r, V, ev, td),
         r \in Nat, y \in Nat, r <= y
  PROVE  ReadP(rd, y, V, ev, td)
<1>1. td = "zero" => V \in Nat /\ ev /\ 2 + V <= y
  <2>1. td = "zero" => V \in Nat /\ ev /\ 2 + V <= r
    BY DEF ReadP
  <2>2. V \in Nat /\ 2 + V <= r => 2 + V <= y
    OBVIOUS
  <2> QED BY <2>1, <2>2
<1>2. y = 0 => r = 0
  OBVIOUS
<1> QED BY <1>1, <1>2 DEF ReadP

(* The segment that arrives is one that Heard describes.                    *)
LEMMA BothHeard ==
  ASSUME NEW e, NEW h, NEW q, NEW a, NEW i, NEW m, NEW n, Both(e, h, q, a, i, m, n),
         Arrived(e), Live(Head(net[e])),
         NEW x, EnvOf(x, e, h, i, written[Peer(e)], Ended(Peer(e)))
  PROVE  Heard(x, Head(net[e]), Head(m), Head(n), i.top, h.una)
<1>1. PICK c, N, W, en, rd, td, b, M, V, ev, sd, sf :
         /\ c = conn[e] /\ N = net[Peer(e)] /\ W = written[e] /\ en = Ended(e)
         /\ rd = read[e] /\ td = told[e] /\ b = conn[Peer(e)] /\ M = net[e]
         /\ V = written[Peer(e)] /\ ev = Ended(Peer(e)) /\ sd = read[Peer(e)]
         /\ sf = told[Peer(e)]
  OBVIOUS
<1>2. Duo(e, c, N, h, q, a, W, en, rd, td, b, M, i, m, n, V, ev, sd, sf)
  BY <1>1 DEF Both, Pair
<1>3. M # <<>> /\ Live(Head(M)) /\ EnvOf(x, e, h, i, V, ev)
  BY <1>1 DEF Arrived
<1>4. Heard(x, Head(M), Head(m), Head(n), i.top, h.una)
  BY <1>2, <1>3, DuoHeard
<1> QED BY <1>1, <1>4

(* A handler of the stack: the programs stand still.                        *)
LEMMA Handled ==
  ASSUME NEW e, NEW h, NEW q, NEW a, NEW i, NEW m, NEW n, Both(e, h, q, a, i, m, n),
         Table', UNCHANGED programs, conn'[Peer(e)] = conn[Peer(e)],
         Peer(e) = Server => (queued' => queued),
         NEW x, EnvOf(x, e, h, i, written[Peer(e)], Ended(Peer(e))),
         x.W = written[e], x.en = Ended(e), x.rd = read[e],
         NEW d, NEW u, NEW y, Goes(x, d, u, y),
         Delivered(net[e], m, n, net'[e], h, u, y),
         conn'[e] = Settled(d), net'[Peer(e)] = net[Peer(e)] \o d.out, Lands(e, d, u)
  PROVE  Fine(e)'
<1>1. app' = app /\ sending' = sending /\ written' = written /\ read' = read /\ told' = told
  BY DEF programs
<1>2. Away(e)
  BY <1>1 DEF Away
<1>3. Ended(e)' = Ended(e)
  BY <1>1 DEF Ended
<1>4. e \in Ends /\ h.rcv \in Nat /\ ReadP(read[e], h.rcv, written[Peer(e)], Ended(Peer(e)), told[e])
  BY BothGhost
<1>5. y \in Nat /\ h.rcv <= y
  BY GoesType DEF EnvOf
<1>6. ReadP(read[e], y, written[Peer(e)], Ended(Peer(e)), told[e])
  <2>1. PICK rd, r, V, ev, td : /\ rd = read[e] /\ V = written[Peer(e)] /\ ev = Ended(Peer(e))
                                /\ td = told[e] /\ r = h.rcv
    OBVIOUS
  <2>2. ReadP(rd, r, V, ev, td) /\ r \in Nat /\ r <= y
    BY <1>4, <1>5, <2>1
  <2>3. ReadP(rd, y, V, ev, td)
    BY <1>5, <2>2, ReadGrows
  <2> QED BY <2>1, <2>3
<1>7. ReadP(read'[e], y, written[Peer(e)], Ended(Peer(e)), told'[e])
  BY <1>1, <1>6
<1>8. x.W = written'[e] /\ x.en = Ended(e)' /\ x.rd = read'[e]
  BY <1>1, <1>3
<1>9. /\ Ended(e) => Ended(e)' /\ written'[e] = written[e]
      /\ written'[e] = written[e]
  BY <1>1, <1>3
<1> QED BY <1>2, <1>4, <1>7, <1>8, <1>9, StepMoves

(* A step of the stack that sends at most a reset and frees at most the entry. *)
LEMMA Rested ==
  ASSUME NEW e, NEW h, NEW q, NEW a, NEW i, NEW m, NEW n, Both(e, h, q, a, i, m, n),
         Table', UNCHANGED programs, queued' => queued, conn'[Peer(e)] = conn[Peer(e)],
         \/ conn'[e] = conn[e]
         \/ conn'[e] = Unused /\ (e = Server => h.una >= 1),
         NEW o, Idle(o), net'[Peer(e)] = net[Peer(e)] \o o,
         Delivered(net[e], m, n, net'[e], h, h.una, h.rcv)
  PROVE  Fine(e)'
<1>1. app' = app /\ sending' = sending /\ written' = written /\ read' = read /\ told' = told
  BY DEF programs
<1>2. Away(e)
  BY <1>1 DEF Away
<1>3. Ended(e) => Ended(e)'
  BY <1>1 DEF Ended
<1>4. e \in Ends /\ ReadP(read[e], h.rcv, written[Peer(e)], Ended(Peer(e)), told'[e])
  BY <1>1, BothGhost
<1>5. Local(e, h) /\ Hand(e, h)
  BY DEF Both
<1>6. Local(e, h)'
  BY <1>1, <1>5, UnusedType DEF Local
<1>7. Hand(e, h)'
  BY <1>1, <1>5, UnusedType DEF Hand
<1>8. conn'[e] = conn[e] \/ conn'[e] = Unused
  OBVIOUS
<1>9. written'[e] = written[e] /\ read'[e] = read[e]
  BY <1>1
<1> QED BY <1>2, <1>3, <1>4, <1>6, <1>7, <1>8, <1>9, StepRests

-----------------------------------------------------------------------------
(* Segments that arrive.                                                    *)

(* A segment that no entry owns.                                            *)
LEMMA RxNobodyKeeps ==
  ASSUME NEW e, NEW h, NEW q, NEW a, NEW i, NEW m, NEW n, Both(e, h, q, a, i, m, n),
         Table, RxNobody(e)
  PROVE  Fine(e)'
<1>1. e \in Ends
  BY BothGhost
<1>2. net[e] # <<>> /\ Arrived(e)
  BY DEF RxNobody, Arrived
<1>3. Head(net[e]) \in SegT
  BY <1>1, <1>2, NetTail DEF Table
<1>4. PICK o : o = tcp_send_rst(Head(net[e]))
  OBVIOUS
<1>5. Idle(o)
  BY <1>3, <1>4, RstIdle
<1>6. Reply(e, o) /\ UNCHANGED programs /\ queued' = queued
  BY <1>4 DEF RxNobody
<1>7. /\ Table' /\ conn' = conn
      /\ net'[Peer(e)] = net[Peer(e)] \o o /\ net'[e] = Tail(net[e])
  BY <1>1, <1>2, <1>5, <1>6, ReplyView
<1>8. Delivered(net[e], m, n, net'[e], h, h.una, h.rcv)
  BY <1>2, <1>7 DEF Delivered
<1> QED BY <1>5, <1>6, <1>7, <1>8, Rested

(* The link loses a segment.                                                *)
LEMMA LoseKeeps ==
  ASSUME NEW e, NEW h, NEW q, NEW a, NEW i, NEW m, NEW n, Both(e, h, q, a, i, m, n),
         Table, Lose(e)
  PROVE  Fine(e)'
<1>1. e \in Ends /\ Peer(e) \in Ends /\ Peer(e) # e
  BY BothGhost, EndsApart
<1>2. net[e] # <<>> /\ net' = [net EXCEPT ![e] = Tail(@)] /\ conn' = conn
      /\ UNCHANGED programs /\ queued' = queued
  BY DEF Lose, Arrived
<1>3. net[e] \in Seq(SegT) /\ net[Peer(e)] \in Seq(SegT)
  BY <1>1 DEF Table
<1>4. PICK t, p : t = Tail(net[e]) /\ p = Peer(e)
  OBVIOUS
<1>5. t \in Seq(SegT)
  BY <1>2, <1>3, <1>4, NetTail
<1>6. net' \in [Ends -> Seq(SegT)] /\ net'[p] = net[p] /\ net'[e] = t
  BY <1>1, <1>2, <1>4, <1>5 DEF Table
<1>7. PICK o \in Seq(SegT) : o = <<>>
  BY EmptySeq
<1>8. net'[Peer(e)] = net[Peer(e)] \o o /\ Idle(o)
  BY <1>3, <1>4, <1>6, <1>7, NetJoin DEF Idle
<1>9. Delivered(net[e], m, n, net'[e], h, h.una, h.rcv)
  BY <1>2, <1>4, <1>6 DEF Delivered
<1>10. Table'
  BY <1>2, <1>6 DEF Table
<1> QED BY <1>2, <1>8, <1>9, <1>10, Rested

(* What an entry in use, handled without a change of its state or to CLOSED, *)
(* must satisfy.                                                            *)
LEMMA LandsStays ==
  ASSUME NEW e, NEW h, Local(e, h), Hand(e, h), conn[e].used, NEW d,
         d.used = conn[e].used, d.orphan = conn[e].orphan,
         d.state = conn[e].state \/ d.state = "CLOSED",
         UNCHANGED programs, queued' => queued
  PROVE  Lands(e, d, h.una)
<1>1. app' = app /\ sending' = sending
  BY DEF programs
<1>2. e = Client => app[e] # "init"
  BY UnusedType DEF Hand
<1> QED BY <1>1, <1>2 DEF Lands, Local, Hand

(* A reset is taken.                                                        *)
Broke(c, k) == [c EXCEPT !.reset = TRUE, !.peer_fin = TRUE, !.state = "CLOSED", !.rto = FALSE,
                         !.retries = k]

(* Taking a reset, field by field.                                          *)
LEMMA BrokeView ==
  ASSUME NEW c, NEW k, c \in ConnT, k \in 0 .. MaxRetries + 1
  PROVE  Broke(c, k) \in ConnT /\ Breaks(c, Broke(c, k))
<1>1. Broke(c, k) \in ConnT
  BY DEF ConnT, Broke, States
<1>2. Breaks(c, Broke(c, k))
  BY DEF ConnT, Broke, Breaks
<1> QED BY <1>1, <1>2

(* A reset arrives.                                                         *)
LEMMA RxResetKeeps ==
  ASSUME NEW e, NEW h, NEW q, NEW a, NEW i, NEW m, NEW n, Both(e, h, q, a, i, m, n),
         Table, Shape, RxReset(e)
  PROVE  Fine(e)'
<1>1. e \in Ends /\ conn[e] \in ConnT
  BY BothGhost, BothEntry
<1>2. /\ Arrived(e) /\ net[e] # <<>> /\ conn[e].used /\ UNCHANGED programs /\ queued' = queued
  BY DEF RxReset, Arrived
<1>3. PICK c, k : c = conn[e] /\ k = c.retries
  OBVIOUS
<1>4. c \in ConnT /\ k \in 0 .. MaxRetries + 1
  BY <1>1, <1>3, ConnType
<1>5. PICK d : d = Broke(c, k)
  OBVIOUS
<1>6. d \in ConnT /\ Breaks(c, d)
  BY <1>4, <1>5, BrokeView
<1>7. d = [conn[e] EXCEPT !.reset = TRUE, !.peer_fin = TRUE, !.state = "CLOSED", !.rto = FALSE]
  BY <1>3, <1>4, <1>5 DEF Broke, ConnT
<1>8. Answer(e, d)
  BY <1>7 DEF RxReset
<1>9. /\ Table' /\ conn'[e] = Settled(d) /\ conn'[Peer(e)] = conn[Peer(e)]
      /\ net'[Peer(e)] = net[Peer(e)] \o d.out /\ net'[e] = Tail(net[e])
  BY <1>1, <1>2, <1>6, <1>8, AnswerView
<1>10. PICK x : /\ EnvOf(x, e, h, i, written[Peer(e)], Ended(Peer(e)))
                /\ x.W = written[e] /\ x.en = Ended(e) /\ x.rd = read[e]
  BY BothEnv
<1>11. Goes(x, c, h.una, h.rcv)
  BY <1>2, <1>3, <1>10, BothGoes
<1>12. Goes(x, d, h.una, h.rcv)
  BY <1>6, <1>11, BreakGoes
<1>13. Delivered(net[e], m, n, net'[e], h, h.una, h.rcv)
  BY <1>2, <1>9 DEF Delivered
<1>14. Lands(e, d, h.una)
  <2>1. d.used = conn[e].used /\ d.orphan = conn[e].orphan /\ d.state = "CLOSED"
    BY <1>3, <1>6 DEF Breaks
  <2>2. Local(e, h) /\ Hand(e, h)
    BY DEF Both
  <2> QED BY <1>2, <2>1, <2>2, LandsStays
<1> QED BY <1>2, <1>9, <1>10, <1>12, <1>13, <1>14, Handled

(* The listener's child.                                                    *)
NewChild(s, e) ==
    [Fresh EXCEPT !.parent = TRUE, !.rcv_nxt = Add(s.seq, 1), !.snd_una = Isn[e],
                  !.snd_nxt = Isn[e], !.snd_wnd = s.wnd, !.state = "SYN_RCVD", !.rto = TRUE]

(* tcp_alloc_locked's entry.                                                *)
LEMMA FreshType ==
  /\ Fresh \in ConnT /\ Fresh.used = TRUE /\ Fresh.fin_pending = FALSE /\ Fresh.fin_sent = FALSE
  /\ Fresh.orphan = FALSE /\ Fresh.peer_fin = FALSE /\ Fresh.reset = FALSE /\ Fresh.tx = <<>>
  /\ Fresh.rx = <<>> /\ Fresh.out = <<>> /\ Fresh.rcv_nxt = 0
<1>1. 0 \in SeqNo /\ MaxRetries \in Nat
  BY Constants DEF SeqNo
<1>2. Fresh \in ConnT
  BY <1>1 DEF Fresh, ConnT, States
<1> QED BY <1>2 DEF Fresh

(* The child, field by field.                                               *)
LEMMA NewChildView ==
  ASSUME NEW s, NEW e, s \in SegT, e \in Ends
  PROVE  /\ NewChild(s, e) \in ConnT
         /\ Young(NewChild(s, e), Isn[e], Add(s.seq, 1), "SYN_RCVD")
<1>1. s.seq \in SeqNo /\ s.wnd \in Nat
  BY DEF SegT
<1>2. PICK y \in SeqNo, z \in SeqNo, w \in Nat : y = Add(s.seq, 1) /\ z = Isn[e] /\ w = s.wnd
  BY <1>1, AddType, PosZero
<1>3. PICK f \in ConnT : f = Fresh
  BY FreshType
<1>4. PICK c : c = [f EXCEPT !.parent = TRUE, !.rcv_nxt = y, !.snd_una = z, !.snd_nxt = z,
                             !.snd_wnd = w, !.state = "SYN_RCVD", !.rto = TRUE]
  OBVIOUS
<1>5. c = NewChild(s, e)
  BY <1>2, <1>3, <1>4 DEF NewChild
<1>6. c \in ConnT
  BY <1>3, <1>4 DEF ConnT, States
<1>7. /\ c.used = f.used /\ c.state = "SYN_RCVD" /\ c.fin_pending = f.fin_pending
      /\ c.fin_sent = f.fin_sent /\ c.orphan = f.orphan /\ c.peer_fin = f.peer_fin
      /\ c.reset = f.reset /\ c.snd_una = z /\ c.snd_nxt = z /\ c.tx = f.tx
      /\ c.rcv_nxt = y /\ c.rx = f.rx /\ c.out = f.out
  BY <1>3, <1>4 DEF ConnT
<1>8. Young(c, z, y, "SYN_RCVD")
  BY <1>3, <1>7, FreshType DEF Young
<1> QED BY <1>2, <1>5, <1>6, <1>8

(* The listener makes a child only while it has none and had none: a second *)
(* SYN can no longer be in flight once the first child was acknowledged.    *)
LEMMA RxSynKeeps ==
  ASSUME NEW e, NEW h, NEW q, NEW a, NEW i, NEW m, NEW n, Both(e, h, q, a, i, m, n),
         Table, Shape, RxSyn(e)
  PROVE  Fine(e)'
<1>1. /\ e \in Ends /\ Peer(e) \in Ends /\ h \in Ghost /\ i \in Ghost
      /\ h.una \in Nat /\ h.rcv \in Nat /\ h.top \in Nat /\ h.una <= i.rcv /\ i.rcv <= h.top
      /\ i.rcv \in Nat /\ (h.una = 0 => written[e] = 0) /\ (h.rcv = 0 => read[e] = <<>>)
  BY BothGhost
<1>2. /\ Arrived(e) /\ net[e] # <<>> /\ e = Server /\ ~conn[e].used /\ UNCHANGED programs
      /\ queued' = queued /\ Peer(e) = Client
  <2>1. Arrived(e) /\ Listens(e) /\ UNCHANGED programs /\ queued' = queued
    BY DEF RxSyn
  <2> QED BY <1>1, <2>1, EndsApart DEF Arrived, Listens
<1>3. PICK s, k, v : s = Head(net[e]) /\ k = Head(m) /\ v = Head(n)
  OBVIOUS
<1>4. "SYN" \in s.flags /\ "RST" \notin s.flags /\ Live(s)
  BY <1>3 DEF RxSyn, Live
<1>5. PICK x : /\ EnvOf(x, e, h, i, written[Peer(e)], Ended(Peer(e)))
               /\ x.W = written[e] /\ x.en = Ended(e) /\ x.rd = read[e]
  BY BothEnv
<1>6. Heard(x, s, k, v, i.top, h.una)
  BY <1>2, <1>3, <1>4, <1>5, BothHeard
<1>7. x \in Env /\ x.e = e /\ x.t0 = h.top /\ x.r0 = h.rcv
  BY <1>5 DEF EnvOf
<1>8. s \in SegT /\ Seg(Peer(e), s, k, v, x.Wp, i.top, x.rp, x.r0, h.una)
  BY <1>6, <1>7 DEF Heard
<1>9. h.una = 0 /\ s.seq = Pos(Peer(e), 0) /\ k = 0 /\ s.data = <<>> /\ "FIN" \notin s.flags
  BY <1>2, <1>4, <1>8 DEF Seg
<1>10. h.top = 0 /\ h.rcv = 0
  <2>1. Hand(e, h)
    BY DEF Both
  <2> QED BY <1>1, <1>2, <1>9, <2>1 DEF Hand
<1>11. x.t0 = 0 /\ x.r0 = 0 /\ x.W = 0 /\ x.rd = <<>>
  BY <1>1, <1>5, <1>7, <1>9, <1>10
<1>12. PICK c : c = NewChild(s, e)
  OBVIOUS
<1>13. c \in ConnT /\ Young(c, Isn[e], Add(s.seq, 1), "SYN_RCVD")
  BY <1>1, <1>8, <1>12, NewChildView
<1>14. Add(s.seq, 1) = Pos(Peer(e), 1)
  <2>1. 0 \in Nat /\ 1 \in Nat /\ 0 + 1 = 1
    OBVIOUS
  <2>2. Add(Pos(Peer(e), 0), 1) = Pos(Peer(e), 0 + 1)
    BY <1>1, <2>1, PosAdd
  <2> QED BY <1>9, <2>1, <2>2
<1>15. PICK f \in Flags : f = {"SYN", "ACK"}
  BY FlagSets
<1>16. "SYN" \in f /\ "ACK" \in f /\ "FIN" \notin f /\ "RST" \notin f
  BY <1>15
<1>17. PICK d : d = Advanced(tcp_emit(c, Isn[e], f, <<>>))
  OBVIOUS
<1>18. Goes(x, d, 0, 1) /\ d.used /\ d.state = "SYN_RCVD" /\ ~d.orphan
  <2>1. PICK rcv, isn, st, r : rcv = Add(s.seq, 1) /\ isn = Isn[e] /\ st = "SYN_RCVD" /\ r = 1
    OBVIOUS
  <2>2. Opens(x, isn, r, rcv, st, f)
    BY <1>2, <1>7, <1>14, <1>15, <1>16, <2>1 DEF Opens
  <2>3. Young(c, isn, rcv, st)
    BY <1>7, <1>13, <2>1
  <2>4. /\ Goes(x, Advanced(tcp_emit(c, isn, f, <<>>)), 0, r)
        /\ Advanced(tcp_emit(c, isn, f, <<>>)).used
        /\ Advanced(tcp_emit(c, isn, f, <<>>)).state = st
        /\ ~Advanced(tcp_emit(c, isn, f, <<>>)).orphan
    BY <1>7, <1>11, <1>13, <2>2, <2>3, OpenGoes
  <2> QED BY <1>17, <2>1, <2>4
<1>19. d \in ConnT
  BY <1>18, GoesType
<1>20. Answer(e, d)
  BY <1>3, <1>12, <1>15, <1>17 DEF RxSyn, NewChild, Advanced
<1>21. /\ Table' /\ conn'[e] = Settled(d) /\ conn'[Peer(e)] = conn[Peer(e)]
       /\ net'[Peer(e)] = net[Peer(e)] \o d.out /\ net'[e] = Tail(net[e])
  BY <1>1, <1>2, <1>19, <1>20, AnswerView
<1>22. Delivered(net[e], m, n, net'[e], h, 0, 1)
  <2>1. End(s, 0) = 1
    BY <1>4, <1>8, <1>9, SynEnd
  <2>2. 1 <= End(s, k)
    BY <1>9, <2>1
  <2> QED BY <1>2, <1>3, <1>4, <1>9, <1>21, <2>2 DEF Delivered
<1>23. Lands(e, d, 0)
  <2>1. app' = app /\ sending' = sending
    BY <1>2 DEF programs
  <2>2. Local(e, h) /\ Hand(e, h)
    BY DEF Both
  <2>3. app[e] = "accept" /\ queued = FALSE
    <3>1. queued \in BOOLEAN
      BY DEF Shape
    <3> QED BY <1>2, <1>9, <2>2, <3>1 DEF Hand
  <2> QED BY <1>2, <1>18, <2>1, <2>2, <2>3, EndsApart DEF Lands, Local
<1> QED BY <1>2, <1>5, <1>18, <1>21, <1>22, <1>23, Handled

(* The SYN+ACK arrives.                                                     *)
LEMMA RxSynAckKeeps ==
  ASSUME NEW e, NEW h, NEW q, NEW a, NEW i, NEW m, NEW n, Both(e, h, q, a, i, m, n),
         Table, Shape, RxSynAck(e)
  PROVE  Fine(e)'
<1>1. e \in Ends /\ conn[e] \in ConnT /\ conn[e].out = <<>>
  BY BothGhost, BothEntry
<1>2. /\ Arrived(e) /\ net[e] # <<>> /\ conn[e].used /\ conn[e].state = "SYN_SENT"
      /\ UNCHANGED programs /\ queued' = queued
  BY DEF RxSynAck, Arrived
<1>3. PICK s, k, v : s = Head(net[e]) /\ k = Head(m) /\ v = Head(n)
  OBVIOUS
<1>4. s \in SegT /\ Live(s)
  BY <1>1, <1>2, <1>3, NetTail DEF Table, RxSynAck, Live
<1>5. ASSUME NEW o, Idle(o), Reply(e, o)
      PROVE  Fine(e)'
  <2>1. /\ Table' /\ conn' = conn
        /\ net'[Peer(e)] = net[Peer(e)] \o o /\ net'[e] = Tail(net[e])
    BY <1>1, <1>2, <1>5, ReplyView
  <2>2. Delivered(net[e], m, n, net'[e], h, h.una, h.rcv)
    BY <1>2, <2>1 DEF Delivered
  <2> QED BY <1>2, <1>5, <2>1, <2>2, Rested
<1>6. CASE ~({"SYN", "ACK"} \subseteq s.flags)
  <2>1. Reply(e, <<>>)
    BY <1>3, <1>6 DEF RxSynAck
  <2> QED BY <1>4, <1>5, <2>1, RstIdle
<1>7. CASE {"SYN", "ACK"} \subseteq s.flags /\ s.ack # conn[e].snd_nxt
  <2>1. Reply(e, tcp_send_rst(s))
    BY <1>3, <1>7 DEF RxSynAck
  <2> QED BY <1>4, <1>5, <2>1, RstIdle
<1>8. CASE {"SYN", "ACK"} \subseteq s.flags /\ s.ack = conn[e].snd_nxt
  <2>1. "SYN" \in s.flags /\ Acks(s)
    BY <1>8 DEF Acks
  <2>2. PICK x : /\ EnvOf(x, e, h, i, written[Peer(e)], Ended(Peer(e)))
                 /\ x.W = written[e] /\ x.en = Ended(e) /\ x.rd = read[e]
    BY BothEnv
  <2>3. PICK c : c = conn[e]
    OBVIOUS
  <2>4. Mid(x, c, h, <<>>, <<>>) /\ c.state = "SYN_SENT" /\ c.out = <<>>
    BY <1>1, <1>2, <2>2, <2>3, BothGoes
  <2>5. Heard(x, s, k, v, i.top, h.una)
    BY <1>2, <1>3, <1>4, <2>2, BothHeard
  <2>6. PICK d0 : d0 = Joining(c, Add(s.seq, 1), s)
    OBVIOUS
  <2>7. PICK room, d : /\ room \in Rooms /\ Answer(e, d)
                       /\ d = tcp_output(tcp_emit(d0, d0.snd_nxt, {"ACK"}, <<>>), room)
    <3>1. d0 = [conn[e] EXCEPT !.rcv_nxt = Add(s.seq, 1), !.snd_una = s.ack,
                               !.snd_wnd = s.wnd, !.state = "ESTABLISHED",
                               !.rto = FALSE, !.retries = 0]
      BY <2>3, <2>6 DEF Joining
    <3> QED BY <1>3, <1>8, <3>1 DEF RxSynAck
  <2>8. /\ Goes(x, d, 1, 1) /\ Frame(d0, d) /\ Joins(c, d0) /\ v = 1 /\ End(s, k) = 1
        /\ h.una = 0 /\ h.rcv = 0
    BY <2>1, <2>4, <2>5, <2>6, <2>7, SynAckGoes
  <2>9. d \in ConnT
    BY <2>8, GoesType
  <2>11. /\ Table' /\ conn'[e] = Settled(d) /\ conn'[Peer(e)] = conn[Peer(e)]
         /\ net'[Peer(e)] = net[Peer(e)] \o d.out /\ net'[e] = Tail(net[e])
    BY <1>1, <1>2, <2>7, <2>9, AnswerView
  <2>12. Delivered(net[e], m, n, net'[e], h, 1, 1)
    BY <1>2, <1>3, <1>4, <2>1, <2>8, <2>11 DEF Delivered
  <2>13. Lands(e, d, 1)
    <3>1. app' = app /\ sending' = sending
      BY <1>2 DEF programs
    <3>2. Local(e, h) /\ Hand(e, h)
      BY DEF Both
    <3>3. d.used = conn[e].used /\ d.state = "ESTABLISHED" /\ d.orphan = conn[e].orphan
      BY <2>3, <2>8 DEF Frame, Joins
    <3>4. e = Client => app[e] # "init"
      BY <1>2, <3>2, UnusedType DEF Hand
    <3> QED BY <1>2, <3>1, <3>2, <3>3, <3>4 DEF Lands, Local
  <2> QED BY <1>2, <2>2, <2>8, <2>11, <2>12, <2>13, Handled
<1> QED BY <1>6, <1>7, <1>8

(* The end of the handler: b is the entry when its acknowledgement has been *)
(* taken, k when its state has followed.                                    *)
Finishes(e, s, r, full, b, k) ==
    /\ IF b.state = "LAST_ACK" /\ k.state = "CLOSED"
       THEN Answer(e, k)
       ELSE \E d \in {TakeData(k, s)} : Answer(e, TakeFin(d, s))
    /\ queued' = (queued \/ (Establishes(r, s) /\ ~full))

(* The handler of a segment in one piece.                                   *)
LEMMA RxSegmentRuns ==
  ASSUME NEW e, RxSegment(e), NEW c, c = conn[e], NEW s, s = Head(net[e])
  PROVE  \E ra \in Rooms, rw \in Rooms, full \in BOOLEAN : \E d :
           /\ d = Heads(c, s, ra, rw, full) \/ d = Took(Heads(c, s, ra, rw, full), s)
           /\ Answer(e, d)
           /\ queued' => queued \/ (Acks(s) /\ Establishes(Acked(c, s, ra, rw), s))
<1>1. BacklogFull \subseteq BOOLEAN
  BY TcpAssumption
<1>2. CASE Acks(s)
  <2>2. PICK w : \E ra \in Rooms, rw \in Rooms :
          w = Acked(c, s, ra, rw) /\
          \E full \in IF Establishes(w, s) THEN BacklogFull ELSE {FALSE} :
          \E b \in {IF Establishes(w, s) THEN Establish(w, full) ELSE w} :
          \E k \in {AckStates(b, s)} : Finishes(e, s, w, full, b, k)
    <3>1. "ACK" \in s.flags
      BY <1>2 DEF Acks
    <3>10. \E p \in {IF "ACK" \in Head(net[e]).flags THEN PullUp(conn[e], Head(net[e])) ELSE conn[e]} :
          \E o \in {IF "ACK" \in Head(net[e]).flags THEN TakeAck(p, Head(net[e]), room) ELSE p : room \in Rooms} :
          \E r \in {IF "ACK" \in Head(net[e]).flags THEN TakeWindow(o, Head(net[e]), room) ELSE o : room \in Rooms} :
          \E full \in IF Establishes(r, Head(net[e])) THEN BacklogFull ELSE {FALSE} :
          \E b \in {IF Establishes(r, Head(net[e])) THEN Establish(r, full) ELSE r} :
          \E k \in {IF "ACK" \in Head(net[e]).flags THEN AckStates(b, Head(net[e])) ELSE b} :
            Finishes(e, Head(net[e]), r, full, b, k)
      BY Zenon DEF RxSegment, Finishes
    <3>2. PICK p \in {IF "ACK" \in Head(net[e]).flags THEN PullUp(conn[e], Head(net[e])) ELSE conn[e]} :
          \E o \in {IF "ACK" \in Head(net[e]).flags THEN TakeAck(p, Head(net[e]), room) ELSE p : room \in Rooms} :
          \E r \in {IF "ACK" \in Head(net[e]).flags THEN TakeWindow(o, Head(net[e]), room) ELSE o : room \in Rooms} :
          \E full \in IF Establishes(r, Head(net[e])) THEN BacklogFull ELSE {FALSE} :
          \E b \in {IF Establishes(r, Head(net[e])) THEN Establish(r, full) ELSE r} :
          \E k \in {IF "ACK" \in Head(net[e]).flags THEN AckStates(b, Head(net[e])) ELSE b} :
            Finishes(e, Head(net[e]), r, full, b, k)
      BY <3>10, Zenon
    <3>3. PICK o \in {IF "ACK" \in Head(net[e]).flags THEN TakeAck(p, Head(net[e]), room) ELSE p : room \in Rooms} :
          \E r \in {IF "ACK" \in Head(net[e]).flags THEN TakeWindow(o, Head(net[e]), room) ELSE o : room \in Rooms} :
          \E full \in IF Establishes(r, Head(net[e])) THEN BacklogFull ELSE {FALSE} :
          \E b \in {IF Establishes(r, Head(net[e])) THEN Establish(r, full) ELSE r} :
          \E k \in {IF "ACK" \in Head(net[e]).flags THEN AckStates(b, Head(net[e])) ELSE b} :
            Finishes(e, Head(net[e]), r, full, b, k)
      BY <3>2, Zenon
    <3>4. PICK r \in {IF "ACK" \in Head(net[e]).flags THEN TakeWindow(o, Head(net[e]), room) ELSE o : room \in Rooms} :
          \E full \in IF Establishes(r, Head(net[e])) THEN BacklogFull ELSE {FALSE} :
          \E b \in {IF Establishes(r, Head(net[e])) THEN Establish(r, full) ELSE r} :
          \E k \in {IF "ACK" \in Head(net[e]).flags THEN AckStates(b, Head(net[e])) ELSE b} :
            Finishes(e, Head(net[e]), r, full, b, k)
      BY <3>3, Zenon
    <3>5. p = PullUp(c, s)
      BY <3>1, <3>2
    <3>o. PICK ra \in Rooms : o = TakeAck(p, s, ra)
      BY <3>1, <3>3
    <3>r. PICK rw \in Rooms : r = TakeWindow(o, s, rw)
      BY <3>1, <3>4
    <3>6. r = Acked(c, s, ra, rw)
      BY <3>5, <3>o, <3>r DEF Acked
    <3>7. PICK full \in IF Establishes(r, Head(net[e])) THEN BacklogFull ELSE {FALSE} :
          \E b \in {IF Establishes(r, Head(net[e])) THEN Establish(r, full) ELSE r} :
          \E k \in {IF "ACK" \in Head(net[e]).flags THEN AckStates(b, Head(net[e])) ELSE b} :
            Finishes(e, Head(net[e]), r, full, b, k)
      BY <3>4, Zenon
    <3>8. PICK b \in {IF Establishes(r, Head(net[e])) THEN Establish(r, full) ELSE r} :
          \E k \in {IF "ACK" \in Head(net[e]).flags THEN AckStates(b, Head(net[e])) ELSE b} :
            Finishes(e, Head(net[e]), r, full, b, k)
      BY <3>7, Zenon
    <3>9. \E k \in {AckStates(b, s)} : Finishes(e, s, r, full, b, k)
      BY <3>1, <3>8
    <3> QED BY <3>6, <3>7, <3>8, <3>9
  <2>r. PICK ra \in Rooms, rw \in Rooms : w = Acked(c, s, ra, rw)
    BY <2>2, Zenon
  <2>1. PICK full \in IF Establishes(w, s) THEN BacklogFull ELSE {FALSE} :
          \E b \in {IF Establishes(w, s) THEN Establish(w, full) ELSE w} :
          \E k \in {AckStates(b, s)} : Finishes(e, s, w, full, b, k)
    BY <2>2, Zenon
  <2>3. full \in BOOLEAN
    BY <1>1, <2>1
  <2>4. PICK b, k : b = Joined(w, s, full) /\ k = AckStates(b, s)
    OBVIOUS
  <2>5. /\ IF b.state = "LAST_ACK" /\ k.state = "CLOSED"
           THEN Answer(e, k) ELSE Answer(e, TakeFin(TakeData(k, s), s))
        /\ queued' = (queued \/ (Establishes(w, s) /\ ~full))
    BY <2>1, <2>4 DEF Joined, Finishes
  <2>6. k = Heads(c, s, ra, rw, full)
    BY <1>2, <2>r, <2>4 DEF Heads
  <2>7. Answer(e, k) \/ Answer(e, Took(k, s))
    BY <2>5 DEF Took
  <2>8. queued' => queued \/ Establishes(w, s)
    BY <2>5
  <2> QED BY <1>2, <2>r, <2>3, <2>6, <2>7, <2>8
<1>3. CASE ~Acks(s)
  <2>1. ~Establishes(c, s)
    BY <1>3 DEF Establishes, Acks
  <2>2. /\ IF c.state = "LAST_ACK" /\ c.state = "CLOSED"
           THEN Answer(e, c) ELSE Answer(e, TakeFin(TakeData(c, s), s))
        /\ queued' = (queued \/ FALSE)
    BY <1>3, <2>1 DEF RxSegment, Acks
  <2>3. PICK ra \in Rooms, rw \in Rooms, full \in BOOLEAN : full = FALSE
    <3>1. Rooms # {}
      BY DEF RxSegment
    <3> QED BY <3>1
  <2>4. c = Heads(c, s, ra, rw, full)
    BY <1>3 DEF Heads
  <2>5. Answer(e, Took(c, s))
    BY <2>2 DEF Took
  <2> QED BY <2>2, <2>3, <2>4, <2>5
<1> QED BY <1>2, <1>3

(* Any other segment arrives.                                               *)
LEMMA RxSegmentKeeps ==
  ASSUME NEW e, NEW h, NEW q, NEW a, NEW i, NEW m, NEW n, Both(e, h, q, a, i, m, n),
         Table, Shape, RxSegment(e)
  PROVE  Fine(e)'
<1>1. e \in Ends /\ conn[e] \in ConnT /\ h.una \in Nat /\ h.rcv \in Nat
  BY BothGhost, BothEntry
<1>2. /\ Arrived(e) /\ net[e] # <<>> /\ conn[e].used /\ conn[e].state # "SYN_SENT"
      /\ UNCHANGED programs
  BY DEF RxSegment, Arrived
<1>3. PICK c, s, k, v : c = conn[e] /\ s = Head(net[e]) /\ k = Head(m) /\ v = Head(n)
  OBVIOUS
<1>4. Live(s)
  BY <1>3 DEF RxSegment, Live
<1>5. PICK ra \in Rooms, rw \in Rooms, full \in BOOLEAN : \E d :
           /\ d = Heads(c, s, ra, rw, full) \/ d = Took(Heads(c, s, ra, rw, full), s)
           /\ Answer(e, d)
           /\ queued' => queued \/ (Acks(s) /\ Establishes(Acked(c, s, ra, rw), s))
  BY <1>3, RxSegmentRuns
<1>55. PICK d :
           /\ d = Heads(c, s, ra, rw, full) \/ d = Took(Heads(c, s, ra, rw, full), s)
           /\ Answer(e, d)
           /\ queued' => queued \/ (Acks(s) /\ Establishes(Acked(c, s, ra, rw), s))
  BY <1>5
<1>6. PICK x : /\ EnvOf(x, e, h, i, written[Peer(e)], Ended(Peer(e)))
               /\ x.W = written[e] /\ x.en = Ended(e) /\ x.rd = read[e]
  BY BothEnv
<1>7. Mid(x, c, h, <<>>, <<>>)
  BY <1>2, <1>3, <1>6, BothGoes
<1>8. Heard(x, s, k, v, i.top, h.una)
  BY <1>2, <1>3, <1>4, <1>6, BothHeard
<1>9. x.r0 = h.rcv /\ x.e = e /\ x \in Env
  BY <1>6 DEF EnvOf
<1>10. PICK b : b = Heads(c, s, ra, rw, full)
  OBVIOUS
<1>11. PICK u \in Nat : Ran(x, c, s, k, v, h.una, b, u, x.r0)
  BY <1>2, <1>3, <1>7, <1>8, <1>9, <1>10, HeadsRan
<1>12. PICK y \in Nat : Ran(x, c, s, k, v, h.una, d, u, y)
  <2>1. CASE d = b
    <3>1. x.r0 \in Nat
      BY <1>1, <1>9
    <3> QED BY <1>11, <2>1, <3>1
  <2>2. CASE d = Took(b, s)
    BY <1>8, <1>11, <2>2, TookRan
  <2> QED BY <1>5, <1>55, <1>10, <2>1, <2>2
<1>13. /\ Goes(x, d, u, y) /\ (u = h.una \/ (Acks(s) /\ u = v))
       /\ y = h.rcv \/ y <= End(s, k)
       /\ d.orphan = c.orphan /\ d.state # "SYN_SENT"
       /\ d.state = "SYN_RCVD" => u = h.una /\ c.state = "SYN_RCVD"
       /\ d.used = c.used \/ u >= 1
       /\ Acks(s) => u >= 1 /\ d.state # "SYN_RCVD"
  BY <1>9, <1>12 DEF Ran
<1>14. d \in ConnT
  BY <1>13, GoesType
<1>15. /\ Table' /\ conn'[e] = Settled(d) /\ conn'[Peer(e)] = conn[Peer(e)]
       /\ net'[Peer(e)] = net[Peer(e)] \o d.out /\ net'[e] = Tail(net[e])
  BY <1>1, <1>2, <1>5, <1>55, <1>14, AnswerView
<1>16. Delivered(net[e], m, n, net'[e], h, u, y)
  <2>1. Acks(s) /\ u = v => u <= v
    OBVIOUS
  <2> QED BY <1>2, <1>3, <1>4, <1>13, <1>15, <2>1 DEF Delivered
<1>17. Local(e, h) /\ Hand(e, h)
  BY DEF Both
<1>18. Peer(e) = Server => (queued' => queued)
  <2>1. ASSUME Peer(e) = Server, Acks(s), Establishes(Acked(c, s, ra, rw), s)
        PROVE  FALSE
    <3>1. e = Client
      BY <1>1, <2>1, EndsApart
    <3>2. /\ s \in SegT /\ v \in Nat /\ s.ack = Pos(x.e, v) /\ 1 <= v /\ h.una <= v
          /\ v <= x.rp /\ x.rp <= x.t0
      BY <1>8, <1>9, <2>1, HeardAck
    <3>3. v <= h.top
      <4>1. x.t0 = h.top /\ x.rp = i.rcv /\ h.top \in Nat /\ i.rcv \in Nat
        BY <1>6, BothGhost DEF EnvOf
      <4> QED BY <3>2, <4>1
    <3>4. PICK w : w = Acked(c, s, ra, rw)
      OBVIOUS
    <3>5. Keep(c, w)
      BY <1>2, <1>3, <1>7, <3>2, <3>3, <3>4, AckedGoes
    <3>6. c.state = "SYN_RCVD"
      BY <2>1, <3>4, <3>5 DEF Keep, Establishes
    <3>7. Phase(x.e, c, h, x.W, x.rp)
      BY <1>7 DEF Mid
    <3> QED BY <1>9, <3>1, <3>6, <3>7, EndsApart DEF Phase, Client, Server
  <2> QED BY <1>5, <1>55, <2>1
<1>19. Lands(e, d, u)
  <2>1. app' = app /\ sending' = sending
    BY <1>2 DEF programs
  <2>2. e = Client => app[e] # "init"
    BY <1>2, <1>17, UnusedType DEF Hand
  <2>3. e = Server /\ (app'[e] # "accept" \/ queued') => u >= 1 /\ d.state # "SYN_RCVD"
    <3>1. CASE Acks(s)
      BY <1>13, <3>1
    <3>2. CASE ~Acks(s)
      <4>1. u = h.una /\ (queued' => queued)
        BY <1>5, <1>55, <1>13, <3>2
      <4>2. e = Server /\ (app'[e] # "accept" \/ queued') => h.una >= 1 /\ c.state # "SYN_RCVD"
        BY <1>3, <1>17, <2>1, <4>1 DEF Hand
      <4> QED BY <1>13, <4>1, <4>2
    <3> QED BY <3>1, <3>2
  <2>4. d.used \/ u >= 1
    BY <1>2, <1>3, <1>13
  <2>5. d.state = "SYN_RCVD" => u = 0
    BY <1>3, <1>13, <1>17 DEF Local
  <2>6. /\ d.orphan => app'[e] = "closed"
        /\ e \in sending' => app'[e] = "open"
        /\ app'[e] \in {"open", "shut", "closing", "closed"}
             => d.state \notin {"SYN_SENT", "SYN_RCVD"}
    BY <1>3, <1>13, <1>17, <2>1 DEF Local
  <2> QED BY <2>1, <2>2, <2>3, <2>4, <2>5, <2>6 DEF Lands
<1> QED BY <1>2, <1>6, <1>13, <1>15, <1>16, <1>18, <1>19, Handled

-----------------------------------------------------------------------------
(* The sweeper.                                                             *)

(* A sweep of a used entry that keeps its state or closes it.               *)
LEMMA SweptKeeps ==
  ASSUME NEW e, NEW h, NEW q, NEW a, NEW i, NEW m, NEW n, Both(e, h, q, a, i, m, n),
         Table, conn[e].used, UNCHANGED programs, queued' = queued,
         NEW x, EnvOf(x, e, h, i, written[Peer(e)], Ended(Peer(e))),
         x.W = written[e], x.en = Ended(e), x.rd = read[e],
         NEW d, Goes(x, d, h.una, h.rcv), Leave(e, d),
         d.used = conn[e].used, d.orphan = conn[e].orphan,
         d.state = conn[e].state \/ d.state = "CLOSED"
  PROVE  Fine(e)'
<1>1. e \in Ends /\ d \in ConnT
  BY BothGhost, GoesType
<1>2. /\ Table' /\ conn'[e] = Settled(d) /\ conn'[Peer(e)] = conn[Peer(e)]
      /\ net'[Peer(e)] = net[Peer(e)] \o d.out /\ net'[e] = net[e]
  BY <1>1, LeaveView
<1>3. Delivered(net[e], m, n, net'[e], h, h.una, h.rcv)
  BY <1>2 DEF Delivered
<1>4. Local(e, h) /\ Hand(e, h)
  BY DEF Both
<1>5. Lands(e, d, h.una)
  BY <1>4, LandsStays
<1> QED BY <1>2, <1>3, <1>5, Handled

(* One retry more.                                                          *)
Tried(c, k) == [c EXCEPT !.retries = k]

(* One retry more, field by field.                                          *)
LEMMA TriedView ==
  ASSUME NEW c, NEW k, c \in ConnT, k \in 0 .. MaxRetries + 1
  PROVE  /\ Tried(c, k) \in ConnT /\ Bare(c, Tried(c, k)) /\ Tried(c, k).state = c.state
         /\ Tried(c, k).used = c.used /\ Tried(c, k).orphan = c.orphan
<1>1. Tried(c, k) \in ConnT
  BY DEF ConnT, Tried
<1>2. /\ Bare(c, Tried(c, k)) /\ Tried(c, k).state = c.state
      /\ Tried(c, k).used = c.used /\ Tried(c, k).orphan = c.orphan
  BY DEF ConnT, Tried, Bare
<1> QED BY <1>1, <1>2

(* The sweeper retransmits.                                                 *)
LEMMA RetransmitKeeps ==
  ASSUME NEW e, NEW h, NEW q, NEW a, NEW i, NEW m, NEW n, Both(e, h, q, a, i, m, n),
         Table, Shape, Retransmit(e)
  PROVE  Fine(e)'
<1>1. PICK c, k : c = conn[e] /\ k = c.retries + 1
  OBVIOUS
<1>2. c \in ConnT /\ c.used
  BY <1>1, BothEntry DEF Retransmit
<1>3. k \in 0 .. MaxRetries + 1
  <2>1. c.retries \in 0 .. MaxRetries + 1 /\ c.retries < MaxRetries /\ MaxRetries \in Nat
    BY <1>1, <1>2, ConnType, Constants DEF Retransmit
  <2> QED BY <1>1, <2>1
<1>4. PICK b : b = Tried(c, k)
  OBVIOUS
<1>5. b \in ConnT /\ Bare(c, b) /\ b.state = c.state /\ b.used = c.used /\ b.orphan = c.orphan
  BY <1>2, <1>3, <1>4, TriedView
<1>6. b = [conn[e] EXCEPT !.retries = @ + 1]
  BY <1>1, <1>2, <1>4 DEF Tried, ConnT
<1>7. Leave(e, Resend(b)) /\ UNCHANGED programs /\ queued' = queued
  BY <1>6 DEF Retransmit
<1>8. PICK x : /\ EnvOf(x, e, h, i, written[Peer(e)], Ended(Peer(e)))
               /\ x.W = written[e] /\ x.en = Ended(e) /\ x.rd = read[e]
  BY BothEnv
<1>9. Goes(x, c, h.una, h.rcv)
  BY <1>1, <1>2, <1>8, BothGoes
<1>10. Goes(x, b, h.una, h.rcv)
  BY <1>5, <1>9, StateGoes
<1>11. b.state = "SYN_RCVD" => h.una = 0
  BY <1>1, <1>5 DEF Both, Local
<1>12. PICK d : d = Resend(b)
  OBVIOUS
<1>13. Goes(x, d, h.una, h.rcv) /\ Keep(b, d)
  BY <1>10, <1>11, <1>12, ResendGoes
<1>14. d.used = conn[e].used /\ d.orphan = conn[e].orphan /\ d.state = conn[e].state
  BY <1>1, <1>5, <1>13, KeepsState
<1> QED BY <1>1, <1>2, <1>7, <1>8, <1>12, <1>13, <1>14, SweptKeeps

(* The sweeper gives up.                                                    *)
LEMMA GiveUpKeeps ==
  ASSUME NEW e, NEW h, NEW q, NEW a, NEW i, NEW m, NEW n, Both(e, h, q, a, i, m, n),
         Table, Shape, GiveUp(e)
  PROVE  Fine(e)'
<1>1. PICK c, k : c = conn[e] /\ k = c.retries + 1
  OBVIOUS
<1>2. c \in ConnT /\ c.used
  BY <1>1, BothEntry DEF GiveUp
<1>3. k \in 0 .. MaxRetries + 1
  <2>1. c.retries = MaxRetries /\ MaxRetries \in Nat
    BY <1>1, Constants DEF GiveUp
  <2> QED BY <1>1, <2>1
<1>4. PICK d : d = Broke(c, k)
  OBVIOUS
<1>5. d \in ConnT /\ Breaks(c, d)
  BY <1>2, <1>3, <1>4, BrokeView
<1>6. d = [conn[e] EXCEPT !.reset = TRUE, !.peer_fin = TRUE, !.rto = FALSE,
                          !.state = "CLOSED", !.retries = @ + 1]
  BY <1>1, <1>2, <1>4 DEF Broke, ConnT
<1>7. Leave(e, d) /\ UNCHANGED programs /\ queued' = queued
  BY <1>6 DEF GiveUp
<1>8. PICK x : /\ EnvOf(x, e, h, i, written[Peer(e)], Ended(Peer(e)))
               /\ x.W = written[e] /\ x.en = Ended(e) /\ x.rd = read[e]
  BY BothEnv
<1>9. Goes(x, c, h.una, h.rcv)
  BY <1>1, <1>2, <1>8, BothGoes
<1>10. Goes(x, d, h.una, h.rcv)
  BY <1>5, <1>9, BreakGoes
<1>11. d.used = conn[e].used /\ d.orphan = conn[e].orphan /\ d.state = "CLOSED"
  BY <1>1, <1>5 DEF Breaks
<1> QED BY <1>1, <1>2, <1>7, <1>8, <1>10, <1>11, SweptKeeps

(* Freeing an entry.                                                        *)
LEMMA FreeView ==
  ASSUME NEW e, Table, e \in Ends, Leave(e, Unused)
  PROVE  /\ Table' /\ conn'[e] = Unused /\ conn'[Peer(e)] = conn[Peer(e)] /\ net'[e] = net[e]
         /\ \E o : Idle(o) /\ net'[Peer(e)] = net[Peer(e)] \o o
<1>1. PICK d : d = Unused
  OBVIOUS
<1>2. d \in ConnT /\ d.out = <<>> /\ ~d.used
  BY <1>1, UnusedType
<1>3. Leave(e, d)
  BY <1>1
<1>4. /\ Table' /\ conn'[e] = Settled(d) /\ conn'[Peer(e)] = conn[Peer(e)]
      /\ net'[Peer(e)] = net[Peer(e)] \o d.out /\ net'[e] = net[e]
  BY <1>2, <1>3, LeaveView
<1>5. Settled(d) = Unused /\ Idle(d.out)
  BY <1>2, SettledView DEF Idle
<1> QED BY <1>4, <1>5

(* An entry is freed.                                                       *)
LEMMA FreedKeeps ==
  ASSUME NEW e, NEW h, NEW q, NEW a, NEW i, NEW m, NEW n, Both(e, h, q, a, i, m, n),
         Table, UNCHANGED programs, queued' = queued, Leave(e, Unused),
         e = Server => h.una >= 1
  PROVE  Fine(e)'
<1>1. e \in Ends
  BY BothGhost
<1>2. /\ Table' /\ conn'[e] = Unused /\ conn'[Peer(e)] = conn[Peer(e)] /\ net'[e] = net[e]
  BY <1>1, FreeView
<1>3. PICK o : Idle(o) /\ net'[Peer(e)] = net[Peer(e)] \o o
  BY <1>1, FreeView
<1>4. Delivered(net[e], m, n, net'[e], h, h.una, h.rcv)
  BY <1>2 DEF Delivered
<1> QED BY <1>2, <1>3, <1>4, Rested

(* TIME_WAIT is over: the entry is freed or closed.                         *)
LEMMA LingerKeeps ==
  ASSUME NEW e, NEW h, NEW q, NEW a, NEW i, NEW m, NEW n, Both(e, h, q, a, i, m, n),
         Table, Shape, Linger(e)
  PROVE  Fine(e)'
<1>1. PICK c : c = conn[e]
  OBVIOUS
<1>2. /\ c \in ConnT /\ c.used /\ c.state = "TIME_WAIT" /\ UNCHANGED programs
      /\ queued' = queued /\ Phase(e, c, h, written[e], i.rcv)
  BY <1>1, BothEntry DEF Linger
<1>3. CASE c.orphan
  <2>1. h.una >= 1
    BY <1>2 DEF Phase
  <2>2. Leave(e, Unused)
    BY <1>1, <1>3 DEF Linger
  <2> QED BY <1>2, <2>1, <2>2, FreedKeeps
<1>4. CASE ~c.orphan
  <2>1. PICK d : d = Moved(c, "CLOSED")
    OBVIOUS
  <2>2. d \in ConnT /\ Bare(c, d) /\ d.state = "CLOSED" /\ d.used = c.used /\ d.orphan = c.orphan
    <3>1. "CLOSED" \in States
      BY DEF States
    <3> QED BY <1>2, <2>1, <3>1, MovedView
  <2>3. Leave(e, d)
    BY <1>1, <1>4, <2>1 DEF Linger, Moved
  <2>4. PICK x : /\ EnvOf(x, e, h, i, written[Peer(e)], Ended(Peer(e)))
                 /\ x.W = written[e] /\ x.en = Ended(e) /\ x.rd = read[e]
    BY BothEnv
  <2>5. Goes(x, c, h.una, h.rcv)
    BY <1>1, <1>2, <2>4, BothGoes
  <2>6. Goes(x, d, h.una, h.rcv)
    BY <2>2, <2>5, StateGoes
  <2> QED BY <1>1, <1>2, <2>2, <2>3, <2>4, <2>6, SweptKeeps
<1> QED BY <1>3, <1>4

(* The sweeper frees an orphan.                                             *)
LEMMA ReclaimKeeps ==
  ASSUME NEW e, NEW h, NEW q, NEW a, NEW i, NEW m, NEW n, Both(e, h, q, a, i, m, n),
         Table, Shape, Reclaim(e)
  PROVE  Fine(e)'
<1>1. conn[e].orphan /\ Leave(e, Unused) /\ UNCHANGED programs /\ queued' = queued
  BY DEF Reclaim
<1>2. Local(e, h) /\ Hand(e, h)
  BY DEF Both
<1>3. e = Server => h.una >= 1
  BY <1>1, <1>2 DEF Local, Hand
<1> QED BY <1>1, <1>3, FreedKeeps

-----------------------------------------------------------------------------
(* The calls.                                                               *)

(* An end after its program has ended its stream.                           *)
LEMMA HalfLater ==
  ASSUME NEW e, NEW c, NEW h, NEW W, NEW en, NEW rd, NEW td, NEW V, NEW ev, NEW rp, NEW em,
         Half(e, c, h, W, en, rd, td, V, ev, rp), Later(en, em)
  PROVE  Half(e, c, h, W, em, rd, td, V, ev, rp)
<1>1. en => em
  BY DEF Later
<1>2. GhostP(h, W, em, rp)
  BY <1>1 DEF Half, GhostP
<1>3. Sends(e, c, h, W, en) => Sends(e, c, h, W, em)
  BY <1>1 DEF Sends
<1>4. ConnP(e, c, h, W, em, rd, V, ev, rp)
  BY <1>3 DEF Half, ConnP
<1> QED BY <1>2, <1>4 DEF Half

(* The environment of a call that may end the program's stream.             *)
CallEnv(x, e, h, i) ==
    /\ EnvOf(x, e, h, i, written[Peer(e)], Ended(Peer(e)))
    /\ x.W = written[e] /\ x.en = Ended(e)' /\ x.rd = read[e]

(* The environment of a system call.                                        *)
LEMMA BothCall ==
  ASSUME NEW e, NEW h, NEW q, NEW a, NEW i, NEW m, NEW n, Both(e, h, q, a, i, m, n), Shape,
         Ended(e) => Ended(e)'
  PROVE  \E x : CallEnv(x, e, h, i) /\ (conn[e].used => Goes(x, conn[e], h.una, h.rcv))
<1>1. e \in Ends /\ Peer(e) \in Ends /\ h \in Ghost /\ i \in Ghost
  BY BothGhost
<1>2. written[e] \in Nat /\ written[Peer(e)] \in Nat /\ read[e] \in Seq(Nat)
  BY <1>1 DEF Shape
<1>3. Ended(e)' \in BOOLEAN /\ Ended(Peer(e)) \in BOOLEAN
  BY EndedBool
<1>4. PICK W, en, em, rd, V, ev, c, td :
        /\ W = written[e] /\ en = Ended(e) /\ em = Ended(e)' /\ rd = read[e]
        /\ V = written[Peer(e)] /\ ev = Ended(Peer(e)) /\ c = conn[e] /\ td = told[e]
  OBVIOUS
<1>5. Setting(e, h, i, W, em, rd, V, ev) /\ Later(en, em)
  BY <1>1, <1>2, <1>3, <1>4 DEF Setting, Later
<1>6. PICK x : EnvOf(x, e, h, i, V, ev) /\ x.W = W /\ x.en = em /\ x.rd = rd
  BY <1>5, EnvMake
<1>7. Half(e, c, h, W, en, rd, td, V, ev, i.rcv)
  BY <1>4 DEF Both, Pair, Duo
<1>8. Half(e, c, h, W, em, rd, td, V, ev, i.rcv)
  <2>1. PICK r : r = i.rcv
    OBVIOUS
  <2>2. Half(e, c, h, W, en, rd, td, V, ev, r)
    BY <1>7, <2>1
  <2>3. Half(e, c, h, W, em, rd, td, V, ev, r)
    BY <1>5, <2>2, HalfLater
  <2> QED BY <2>1, <2>3
<1>9. c.used => Goes(x, c, h.una, h.rcv)
  BY <1>6, <1>8, HalfGoes
<1> QED BY <1>4, <1>6, <1>9 DEF CallEnv

(* What a call changes of the program's place.                              *)
LEMMA AppView ==
  ASSUME NEW e, NEW v, e \in Ends, Shape, app' = [app EXCEPT ![e] = v]
  PROVE  app'[e] = v /\ app'[Peer(e)] = app[Peer(e)]
<1>1. Peer(e) \in Ends /\ Peer(e) # e
  BY EndsApart
<1> QED BY <1>1 DEF Shape

(* A call of e's program that runs a handler.                               *)
LEMMA Called ==
  ASSUME NEW e, NEW h, NEW q, NEW a, NEW i, NEW m, NEW n, Both(e, h, q, a, i, m, n),
         Table, Shape, NEW v, app' = [app EXCEPT ![e] = v],
         UNCHANGED <<sending, written, read, told>>, queued' => queued,
         NEW x, CallEnv(x, e, h, i), Ended(e) => Ended(e)',
         NEW d, Goes(x, d, h.una, h.rcv), Leave(e, d), Lands(e, d, h.una)
  PROVE  Fine(e)'
<1>1. /\ e \in Ends /\ d \in ConnT
      /\ ReadP(read[e], h.rcv, written[Peer(e)], Ended(Peer(e)), told[e])
  BY BothGhost, GoesType
<1>2. /\ Table' /\ conn'[e] = Settled(d) /\ conn'[Peer(e)] = conn[Peer(e)]
      /\ net'[Peer(e)] = net[Peer(e)] \o d.out /\ net'[e] = net[e]
  BY <1>1, LeaveView
<1>3. Delivered(net[e], m, n, net'[e], h, h.una, h.rcv)
  BY <1>2 DEF Delivered
<1>4. sending' = sending /\ written' = written /\ read' = read /\ told' = told
      /\ app'[Peer(e)] = app[Peer(e)]
  BY <1>1, AppView
<1>5. Away(e)
  BY <1>2, <1>4 DEF Away
<1>6. /\ EnvOf(x, e, h, i, written[Peer(e)], Ended(Peer(e)))
      /\ x.W = written'[e] /\ x.en = Ended(e)' /\ x.rd = read'[e]
      /\ ReadP(read'[e], h.rcv, written[Peer(e)], Ended(Peer(e)), told'[e])
      /\ written'[e] = written[e]
  BY <1>1, <1>4 DEF CallEnv
<1> QED BY <1>1, <1>2, <1>3, <1>5, <1>6, StepMoves

(* A call that leaves the entry or frees it.                                *)
LEMMA CalledRests ==
  ASSUME NEW e, NEW h, NEW q, NEW a, NEW i, NEW m, NEW n, Both(e, h, q, a, i, m, n),
         Table', Shape, NEW v, app' = [app EXCEPT ![e] = v],
         UNCHANGED <<sending, written, read, told>>, queued' => queued,
         Ended(e) => Ended(e)', conn'[Peer(e)] = conn[Peer(e)],
         conn'[e] = conn[e] \/ conn'[e] = Unused,
         NEW o, Idle(o), net'[Peer(e)] = net[Peer(e)] \o o, net'[e] = net[e],
         Local(e, h)', Hand(e, h)'
  PROVE  Fine(e)'
<1>1. /\ e \in Ends
      /\ ReadP(read[e], h.rcv, written[Peer(e)], Ended(Peer(e)), told[e])
  BY BothGhost
<1>2. Delivered(net[e], m, n, net'[e], h, h.una, h.rcv)
  BY DEF Delivered
<1>3. sending' = sending /\ written' = written /\ read' = read /\ told' = told
      /\ app'[Peer(e)] = app[Peer(e)]
  BY <1>1, AppView
<1>4. Away(e)
  BY <1>3 DEF Away
<1>5. /\ ReadP(read[e], h.rcv, written[Peer(e)], Ended(Peer(e)), told'[e])
      /\ written'[e] = written[e] /\ read'[e] = read[e]
  BY <1>1, <1>3
<1> QED BY <1>1, <1>2, <1>4, <1>5, StepRests

(* A call that leaves the entry alone.                                      *)
LEMMA SameView ==
  ASSUME NEW e, Table, e \in Ends, UNCHANGED <<conn, net>>
  PROVE  /\ Table' /\ conn'[e] = conn[e] /\ conn'[Peer(e)] = conn[Peer(e)] /\ net'[e] = net[e]
         /\ \E o : Idle(o) /\ net'[Peer(e)] = net[Peer(e)] \o o
<1>1. PICK o \in Seq(SegT) : o = <<>>
  BY EmptySeq
<1>2. Peer(e) \in Ends /\ net[Peer(e)] \in Seq(SegT)
  BY EndsApart DEF Table
<1>3. Idle(o) /\ net[Peer(e)] = net[Peer(e)] \o o
  BY <1>1, <1>2, NetJoin DEF Idle
<1> QED BY <1>3 DEF Table

(* tcp_connect's entry.                                                     *)
NewClient(isn) ==
    [Fresh EXCEPT !.snd_una = isn, !.snd_nxt = isn,
                  !.snd_wnd = 1460, !.state = "SYN_SENT", !.rto = TRUE]

(* The client's entry, field by field.                                      *)
LEMMA NewClientView ==
  ASSUME NEW isn, isn \in SeqNo
  PROVE  NewClient(isn) \in ConnT /\ Young(NewClient(isn), isn, 0, "SYN_SENT")
<1>1. PICK f \in ConnT : f = Fresh
  BY FreshType
<1>0. PICK w \in Nat, st \in States : w = 1460 /\ st = "SYN_SENT"
  BY DEF States
<1>2. PICK c : c = [f EXCEPT !.snd_una = isn, !.snd_nxt = isn,
                             !.snd_wnd = w, !.state = st, !.rto = TRUE]
  OBVIOUS
<1>3. c = NewClient(isn)
  BY <1>0, <1>1, <1>2 DEF NewClient
<1>4. c \in ConnT
  BY <1>1, <1>2 DEF ConnT
<1>5. /\ c.used = f.used /\ c.state = "SYN_SENT" /\ c.fin_pending = f.fin_pending
      /\ c.fin_sent = f.fin_sent /\ c.orphan = f.orphan /\ c.peer_fin = f.peer_fin
      /\ c.reset = f.reset /\ c.snd_una = isn /\ c.snd_nxt = isn /\ c.tx = f.tx
      /\ c.rcv_nxt = f.rcv_nxt /\ c.rx = f.rx /\ c.out = f.out
  BY <1>0, <1>1, <1>2 DEF ConnT
<1>6. Young(c, isn, 0, "SYN_SENT")
  BY <1>1, <1>5, FreshType DEF Young
<1> QED BY <1>3, <1>4, <1>6

(* net_tcp_connect.                                                         *)
LEMMA ConnectKeeps ==
  ASSUME NEW e, NEW h, NEW q, NEW a, NEW i, NEW m, NEW n, Both(e, h, q, a, i, m, n),
         Table, Shape, e = Client, Connect
  PROVE  Fine(e)'
<1>1. /\ e \in Ends /\ h.una \in Nat /\ h.top \in Nat /\ i.rcv \in Nat
      /\ h.una <= i.rcv /\ i.rcv <= h.top
      /\ (h.una = 0 => written[e] = 0) /\ (h.rcv = 0 => read[e] = <<>>)
  BY BothGhost
<1>2. /\ app[e] = "init" /\ app' = [app EXCEPT ![e] = "connecting"]
      /\ UNCHANGED <<sending, written, read, told>> /\ queued' = queued
  BY DEF Connect
<1>3. Local(e, h) /\ Hand(e, h)
  BY DEF Both
<1>4. h.top = 0 /\ h.rcv = 0
  BY <1>2, <1>3 DEF Hand
<1>5. h.una = 0
  BY <1>1, <1>4
<1>6. app'[e] = "connecting"
  BY <1>1, <1>2, AppView
<1>7. Ended(e) => Ended(e)'
  BY <1>2 DEF Ended
<1>8. PICK x : CallEnv(x, e, h, i)
  BY <1>7, BothCall
<1>9. x \in Env /\ x.e = e /\ x.t0 = 0 /\ x.r0 = 0 /\ x.W = 0 /\ x.rd = <<>>
  BY <1>1, <1>4, <1>5, <1>8 DEF CallEnv, EnvOf
<1>10. PICK isn, rcv, st, r : isn = Isn[e] /\ rcv = 0 /\ st = "SYN_SENT" /\ r = 0
  OBVIOUS
<1>11. isn \in SeqNo
  BY <1>1, <1>10, PosZero
<1>12. PICK c : c = NewClient(isn)
  OBVIOUS
<1>13. c \in ConnT /\ Young(c, isn, rcv, st)
  BY <1>10, <1>11, <1>12, NewClientView
<1>14. PICK f \in Flags : f = {"SYN"}
  BY FlagSets
<1>15. Opens(x, isn, r, rcv, st, f)
  BY <1>9, <1>10, <1>14 DEF Opens
<1>16. PICK d : d = Advanced(tcp_emit(c, isn, f, <<>>))
  OBVIOUS
<1>17. Goes(x, d, 0, r) /\ d.used /\ d.state = st /\ ~d.orphan
  BY <1>9, <1>13, <1>15, <1>16, OpenGoes
<1>18. Goes(x, d, h.una, h.rcv)
  BY <1>4, <1>5, <1>10, <1>17
<1>19. Leave(e, d)
  <2>1. c.snd_nxt = isn
    BY <1>13 DEF Young
  <2>2. c = [Fresh EXCEPT !.snd_una = Isn[Client], !.snd_nxt = Isn[Client],
                          !.snd_wnd = 1460, !.state = "SYN_SENT", !.rto = TRUE]
    BY <1>10, <1>12 DEF NewClient
  <2>3. Leave(Client, Advanced(tcp_emit(c, c.snd_nxt, {"SYN"}, <<>>)))
    BY <2>2 DEF Connect, Advanced
  <2> QED BY <1>14, <1>16, <2>1, <2>3
<1>20. Lands(e, d, h.una)
  <2>1. e \notin sending'
    BY <1>2, <1>3 DEF Local
  <2>2. PICK st0, ap : st0 = d.state /\ ap = app'[e]
    OBVIOUS
  <2>3. st0 = "SYN_SENT" /\ ap = "connecting" /\ e # Server
    BY <1>1, <1>6, <1>10, <1>17, <2>2, EndsApart
  <2> QED BY <1>17, <2>1, <2>2, <2>3 DEF Lands
<1> QED BY <1>2, <1>7, <1>8, <1>18, <1>19, <1>20, Called

(* net_tcp_connect returns.                                                 *)
LEMMA ConnectReturnKeeps ==
  ASSUME NEW e, NEW h, NEW q, NEW a, NEW i, NEW m, NEW n, Both(e, h, q, a, i, m, n),
         Table, Shape, e = Client, ConnectReturn
  PROVE  Fine(e)'
<1>1. e \in Ends /\ Local(e, h) /\ Hand(e, h) /\ e # Server
  BY BothGhost, EndsApart DEF Both
<1>2. /\ app[e] = "connecting" /\ UNCHANGED <<sending, written, read, told>> /\ queued' = queued
  BY DEF ConnectReturn
<1>3. ~Ended(e) /\ ~conn[e].orphan /\ e \notin sending'
  BY <1>1, <1>2 DEF Ended, Local
<1>4. CASE conn[e].state = "ESTABLISHED"
  <2>1. UNCHANGED <<conn, net>> /\ app' = [app EXCEPT ![e] = "open"]
    BY <1>4 DEF ConnectReturn
  <2>2. /\ Table' /\ conn'[e] = conn[e] /\ conn'[Peer(e)] = conn[Peer(e)] /\ net'[e] = net[e]
    BY <1>1, <2>1, SameView
  <2>3. PICK o : Idle(o) /\ net'[Peer(e)] = net[Peer(e)] \o o
    BY <1>1, <2>1, SameView
  <2>4. app'[e] = "open"
    BY <1>1, <2>1, AppView
  <2>5. Local(e, h)' /\ Hand(e, h)'
    BY <1>1, <1>3, <1>4, <2>2, <2>4 DEF Local, Hand
  <2> QED BY <1>2, <1>3, <2>1, <2>2, <2>3, <2>5, CalledRests
<1>5. CASE conn[e].state # "ESTABLISHED"
  <2>1. Leave(e, Unused) /\ app' = [app EXCEPT ![e] = "failed"]
    BY <1>5 DEF ConnectReturn
  <2>2. /\ Table' /\ conn'[e] = Unused /\ conn'[Peer(e)] = conn[Peer(e)] /\ net'[e] = net[e]
    BY <1>1, <2>1, FreeView
  <2>3. PICK o : Idle(o) /\ net'[Peer(e)] = net[Peer(e)] \o o
    BY <1>1, <2>1, FreeView
  <2>4. app'[e] = "failed"
    BY <1>1, <2>1, AppView
  <2>5. Local(e, h)' /\ Hand(e, h)'
    BY <1>1, <1>3, <2>2, <2>4, UnusedType DEF Local, Hand
  <2> QED BY <1>2, <1>3, <2>1, <2>2, <2>3, <2>5, CalledRests
<1> QED BY <1>4, <1>5

(* The child leaves its listener.                                           *)
Adopted(c) == [c EXCEPT !.parent = FALSE]

(* The adopted child, field by field.                                       *)
LEMMA AdoptedView ==
  ASSUME NEW c, c \in ConnT
  PROVE  /\ Adopted(c) \in ConnT /\ Bare(c, Adopted(c)) /\ Adopted(c).state = c.state
         /\ Adopted(c).used = c.used /\ Adopted(c).orphan = c.orphan
<1>1. Adopted(c) \in ConnT
  BY DEF ConnT, Adopted
<1>2. /\ Bare(c, Adopted(c)) /\ Adopted(c).state = c.state
      /\ Adopted(c).used = c.used /\ Adopted(c).orphan = c.orphan
  BY DEF ConnT, Adopted, Bare
<1> QED BY <1>1, <1>2

(* The free entry has no parent.                                            *)
LEMMA AdoptedUnused == Adopted(Unused) = Unused
<1>1. PICK f \in ConnT : f = Unused
  BY UnusedType
<1>2. f.parent = FALSE
  BY <1>1 DEF Unused, Fresh
<1>3. [f EXCEPT !.parent = FALSE] = f
  BY <1>2 DEF ConnT
<1> QED BY <1>1, <1>3 DEF Adopted

(* An entry at rest is left behind as it is.                                *)
LEMMA SettledSame ==
  ASSUME NEW d, d \in ConnT, d.used, d.out = <<>>
  PROVE  Settled(d) = d
BY DEF Settled, ConnT

(* net_tcp_accept.                                                          *)
LEMMA AcceptKeeps ==
  ASSUME NEW e, NEW h, NEW q, NEW a, NEW i, NEW m, NEW n, Both(e, h, q, a, i, m, n),
         Table, Shape, e = Server, Accept
  PROVE  Fine(e)'
<1>1. e \in Ends /\ Local(e, h) /\ Hand(e, h) /\ e # Client /\ Peer(e) \in Ends /\ Peer(e) # e
  BY BothGhost, EndsApart DEF Both
<1>2. /\ app[e] = "accept" /\ queued /\ queued' = FALSE
      /\ conn' = [conn EXCEPT ![e].parent = FALSE] /\ app' = [app EXCEPT ![e] = "open"]
      /\ net' = net /\ UNCHANGED <<sending, written, read, told>>
  BY DEF Accept
<1>3. PICK c : c = conn[e]
  OBVIOUS
<1>4. c \in ConnT /\ c.out = <<>> /\ (~c.used => c = Unused)
  BY <1>3, BothEntry
<1>5. PICK d : d = Adopted(c)
  OBVIOUS
<1>6. /\ d \in ConnT /\ Bare(c, d) /\ d.state = c.state /\ d.used = c.used
      /\ d.orphan = c.orphan
  BY <1>4, <1>5, AdoptedView
<1>7. conn' = [conn EXCEPT ![e] = d]
  BY <1>2, <1>3, <1>5 DEF Adopted
<1>8. conn' \in [Ends -> ConnT] /\ conn'[e] = d /\ conn'[Peer(e)] = conn[Peer(e)]
  BY <1>1, <1>6, <1>7 DEF Table
<1>9. Table' /\ net'[e] = net[e]
  BY <1>2, <1>8 DEF Table
<1>10. PICK o \in Seq(SegT) : o = <<>>
  BY EmptySeq
<1>11. net'[Peer(e)] = net[Peer(e)] \o o /\ Idle(o)
  BY <1>1, <1>2, <1>10, NetJoin DEF Idle, Table
<1>12. app'[e] = "open"
  BY <1>1, <1>2, AppView
<1>13. ~Ended(e) /\ ~c.orphan /\ e \notin sending'
  BY <1>1, <1>2, <1>3 DEF Ended, Local
<1>14. h.una >= 1 /\ c.state # "SYN_RCVD"
  BY <1>1, <1>2, <1>3 DEF Hand
<1>15. CASE c.used
  <2>1. PICK x : CallEnv(x, e, h, i) /\ Goes(x, c, h.una, h.rcv)
    BY <1>3, <1>13, <1>15, BothCall
  <2>2. Goes(x, d, h.una, h.rcv)
    BY <1>6, <2>1, StateGoes
  <2>3. c.state # "SYN_SENT"
    BY <1>1, <1>3, <1>15, BothEntry DEF Phase
  <2>4. Lands(e, d, h.una)
    <3>1. PICK st, ap, u : st = d.state /\ ap = app'[e] /\ u = h.una
      OBVIOUS
    <3>2. st # "SYN_RCVD" /\ st # "SYN_SENT" /\ ap = "open" /\ u >= 1 /\ ~d.orphan
      BY <1>6, <1>12, <1>13, <1>14, <2>3, <3>1
    <3> QED BY <1>1, <3>1, <3>2 DEF Lands
  <2>5. Settled(d) = d /\ d.out = o
    BY <1>4, <1>6, <1>10, <1>15, SettledSame DEF Bare
  <2>6. ReadP(read[e], h.rcv, written[Peer(e)], Ended(Peer(e)), told[e])
    BY BothGhost
  <2>7. Delivered(net[e], m, n, net'[e], h, h.una, h.rcv)
    BY <1>9 DEF Delivered
  <2>8. sending' = sending /\ written' = written /\ read' = read /\ told' = told
        /\ app'[Peer(e)] = app[Peer(e)]
    BY <1>1, <1>2, AppView
  <2>9. Away(e)
    BY <1>2, <1>8, <2>8 DEF Away
  <2>10. /\ EnvOf(x, e, h, i, written[Peer(e)], Ended(Peer(e)))
         /\ x.W = written'[e] /\ x.en = Ended(e)' /\ x.rd = read'[e]
         /\ ReadP(read'[e], h.rcv, written[Peer(e)], Ended(Peer(e)), told'[e])
         /\ written'[e] = written[e]
    BY <2>1, <2>6, <2>8 DEF CallEnv
  <2>11. conn'[e] = Settled(d) /\ net'[Peer(e)] = net[Peer(e)] \o d.out
    BY <1>8, <1>11, <2>5
  <2> QED BY <1>1, <1>9, <1>13, <2>2, <2>4, <2>7, <2>9, <2>10, <2>11, StepMoves
<1>16. CASE ~c.used
  <2>1. conn'[e] = Unused
    BY <1>4, <1>5, <1>8, <1>16, AdoptedUnused
  <2>2. Local(e, h)' /\ Hand(e, h)'
    BY <1>1, <1>2, <1>12, <1>13, <1>14, <2>1, UnusedType DEF Local, Hand
  <2> QED BY <1>2, <1>8, <1>9, <1>11, <1>13, <2>1, <2>2, CalledRests
<1> QED BY <1>15, <1>16

(* A child that nobody accepts is reset and freed.                          *)
Refused(c) == [tcp_emit(c, c.snd_nxt, {"RST"}, <<>>) EXCEPT !.used = FALSE]

(* The refused child, field by field.                                       *)
LEMMA RefusedView ==
  ASSUME NEW c, c \in ConnT, c.out = <<>>, Len(c.rx) <= RxBuf
  PROVE  Refused(c) \in ConnT /\ ~Refused(c).used /\ Idle(Refused(c).out)
<1>1. PICK f \in Flags : f = {"RST"}
  BY FlagSets
<1>2. PICK z \in Seq(Nat) : z = <<>>
  BY Emptiness
<1>3. PICK seq \in SeqNo, ack \in SeqNo, w \in Nat :
        seq = c.snd_nxt /\ ack = c.rcv_nxt /\ w = tcp_rx_free(c)
  BY ConnType, RxFreeNat
<1>4. PICK s : s = Segment(seq, ack, f, z, w)
  OBVIOUS
<1>5. s \in SegT /\ s.flags = f
  BY <1>4, SegView
<1>6. PICK d : d = tcp_emit(c, seq, f, z)
  OBVIOUS
<1>7. d \in ConnT /\ d.out = c.out \o <<s>>
  <2>1. s = Segment(seq, c.rcv_nxt, f, z, tcp_rx_free(c))
    BY <1>3, <1>4
  <2>2. d \in ConnT /\ Emits(c, d, s)
    BY <1>6, <2>1, EmitView
  <2> QED BY <2>2 DEF Emits
<1>8. c.out \o <<s>> = <<s>>
  BY <1>5
<1>9. Idle(d.out)
  BY <1>1, <1>5, <1>7, <1>8 DEF Idle, Live
<1>10. PICK r : r = [d EXCEPT !.used = FALSE]
  OBVIOUS
<1>11. r \in ConnT /\ ~r.used /\ r.out = d.out
  BY <1>7, <1>10 DEF ConnT
<1>12. r = Refused(c)
  BY <1>1, <1>2, <1>3, <1>6, <1>10 DEF Refused
<1> QED BY <1>9, <1>11, <1>12

(* The receive buffer never overflows.                                      *)
LEMMA RoomLeft ==
  ASSUME NEW e, NEW h, NEW q, NEW a, NEW i, NEW m, NEW n, Both(e, h, q, a, i, m, n)
  PROVE  Len(conn[e].rx) <= RxBuf
<1>1. CASE conn[e].used
  BY <1>1, BothEntry DEF Receives, Counts
<1>2. CASE ~conn[e].used
  <2>1. conn[e].rx = <<>>
    BY <1>2, BothEntry DEF Unused, Fresh
  <2> QED BY <2>1, Emptiness, Constants
<1> QED BY <1>1, <1>2

(* The listener is closed.                                                  *)
LEMMA CloseListenerKeeps ==
  ASSUME NEW e, NEW h, NEW q, NEW a, NEW i, NEW m, NEW n, Both(e, h, q, a, i, m, n),
         Table, Shape, e = Server, CloseListener
  PROVE  Fine(e)'
<1>1. e \in Ends /\ Local(e, h) /\ Hand(e, h)
  BY BothGhost DEF Both
<1>2. UNCHANGED programs /\ queued' = FALSE
  BY DEF CloseListener
<1>3. CASE queued
  <2>1. PICK c, d : c = conn[e] /\ d = Refused(c)
    OBVIOUS
  <2>2. c \in ConnT /\ c.out = <<>> /\ Len(c.rx) <= RxBuf
    BY <2>1, BothEntry, RoomLeft
  <2>3. d \in ConnT /\ ~d.used /\ Idle(d.out)
    BY <2>1, <2>2, RefusedView
  <2>4. Leave(e, d)
    BY <1>3, <2>1 DEF CloseListener, Refused
  <2>5. /\ Table' /\ conn'[e] = Settled(d) /\ conn'[Peer(e)] = conn[Peer(e)]
        /\ net'[Peer(e)] = net[Peer(e)] \o d.out /\ net'[e] = net[e]
    BY <1>1, <2>3, <2>4, LeaveView
  <2>6. conn'[e] = Unused
    BY <2>3, <2>5, SettledView
  <2>7. Delivered(net[e], m, n, net'[e], h, h.una, h.rcv)
    BY <2>5 DEF Delivered
  <2>8. h.una >= 1
    BY <1>1, <1>3 DEF Hand
  <2> QED BY <1>2, <2>3, <2>5, <2>6, <2>7, <2>8, Rested
<1>4. CASE ~queued
  <2>1. UNCHANGED <<conn, net>>
    BY <1>4 DEF CloseListener
  <2>2. /\ Table' /\ conn'[e] = conn[e] /\ conn'[Peer(e)] = conn[Peer(e)] /\ net'[e] = net[e]
    BY <1>1, <2>1, SameView
  <2>3. PICK o : Idle(o) /\ net'[Peer(e)] = net[Peer(e)] \o o
    BY <1>1, <2>1, SameView
  <2>4. Delivered(net[e], m, n, net'[e], h, h.una, h.rcv)
    BY <2>2 DEF Delivered
  <2> QED BY <1>2, <2>2, <2>3, <2>4, Rested
<1> QED BY <1>3, <1>4

(* net_tcp_send, first half.                                                *)
LEMMA SendCheckKeeps ==
  ASSUME NEW e, NEW h, NEW q, NEW a, NEW i, NEW m, NEW n, Both(e, h, q, a, i, m, n),
         Table, Shape, SendCheck(e)
  PROVE  Fine(e)'
<1>1. e \in Ends /\ Local(e, h) /\ Hand(e, h) /\ Peer(e) # e
  BY BothGhost, EndsApart DEF Both
<1>2. /\ app[e] = "open" /\ sending' = sending \cup {e} /\ UNCHANGED <<conn, net>>
      /\ app' = app /\ written' = written /\ read' = read /\ told' = told /\ queued' = queued
  BY DEF SendCheck
<1>3. /\ Table' /\ conn'[e] = conn[e] /\ net'[e] = net[e]
  BY <1>1, <1>2, SameView
<1>4. PICK o : Idle(o) /\ net'[Peer(e)] = net[Peer(e)] \o o
  BY <1>1, <1>2, SameView
<1>5. Away(e)
  BY <1>1, <1>2 DEF Away
<1>6. Delivered(net[e], m, n, net'[e], h, h.una, h.rcv)
  BY <1>3 DEF Delivered
<1>7. ReadP(read[e], h.rcv, written[Peer(e)], Ended(Peer(e)), told'[e])
  BY <1>2, BothGhost
<1>8. Ended(e) => Ended(e)'
  BY <1>2 DEF Ended
<1>9. Local(e, h)' /\ Hand(e, h)'
  BY <1>1, <1>2 DEF Local, Hand
<1>10. written'[e] = written[e] /\ read'[e] = read[e]
  BY <1>2
<1> QED BY <1>1, <1>3, <1>4, <1>5, <1>6, <1>7, <1>8, <1>9, <1>10, StepRests

(* What shutdown and close share.                                           *)
LEMMA StartFinKeeps ==
  ASSUME NEW e, NEW h, NEW q, NEW a, NEW i, NEW m, NEW n, Both(e, h, q, a, i, m, n),
         Table, Shape, app[e] \in {"open", "shut"}, e \notin sending,
         NEW room, room \in Rooms, Leave(e, StartFin(conn[e], room)), NEW v, v \in {"shut", "closing"},
         app' = [app EXCEPT ![e] = v],
         UNCHANGED <<sending, written, read, told>>, queued' = queued
  PROVE  Fine(e)'
<1>1. e \in Ends /\ Local(e, h) /\ Hand(e, h)
  BY BothGhost DEF Both
<1>2. app'[e] = v
  BY <1>1, AppView
<1>3. Ended(e)'
  BY <1>2 DEF Ended
<1>4. PICK c : c = conn[e]
  OBVIOUS
<1>5. /\ c \in ConnT /\ (~c.used => c = Unused) /\ ~c.orphan
      /\ c.state # "SYN_SENT" /\ c.state # "SYN_RCVD"
  BY <1>1, <1>4, BothEntry DEF Local
<1>6. e = Server => h.una >= 1
  BY <1>1 DEF Hand
<1>7. e \notin sending'
  OBVIOUS
<1>8. CASE c.used
  <2>1. PICK x : CallEnv(x, e, h, i) /\ Goes(x, c, h.una, h.rcv)
    BY <1>3, <1>4, <1>8, BothCall
  <2>2. x.en
    BY <1>3, <2>1 DEF CallEnv
  <2>3. PICK d : d = StartFin(c, room)
    OBVIOUS
  <2>4. /\ Goes(x, d, h.una, h.rcv) /\ d.orphan = c.orphan /\ d.used = c.used
        /\ d.state \in {c.state, "FIN_WAIT_1", "LAST_ACK"}
    BY <2>1, <2>2, <2>3, StartFinGoes
  <2>5. Leave(e, d)
    BY <1>4, <2>3
  <2>6. Lands(e, d, h.una)
    <3>1. PICK st, ap, u : st = d.state /\ ap = app'[e] /\ u = h.una
      OBVIOUS
    <3>2. st # "SYN_RCVD" /\ st # "SYN_SENT" /\ ap # "init" /\ ~d.orphan /\ d.used
          /\ (e = Server => u >= 1)
      BY <1>2, <1>5, <1>6, <1>8, <2>4, <3>1
    <3> QED BY <1>7, <3>1, <3>2 DEF Lands
  <2> QED BY <1>3, <2>1, <2>4, <2>5, <2>6, Called
<1>9. CASE ~c.used
  <2>1. c = Unused /\ c.state = "CLOSED"
    BY <1>5, <1>9, UnusedType
  <2>2. StartFin(c, room) = c
    BY <2>1 DEF StartFin
  <2>3. Leave(e, Unused)
    BY <1>4, <2>1, <2>2
  <2>4. /\ Table' /\ conn'[e] = Unused /\ conn'[Peer(e)] = conn[Peer(e)] /\ net'[e] = net[e]
    BY <1>1, <2>3, FreeView
  <2>5. PICK o : Idle(o) /\ net'[Peer(e)] = net[Peer(e)] \o o
    BY <1>1, <2>3, FreeView
  <2>6. Local(e, h)' /\ Hand(e, h)'
    BY <1>2, <1>6, <1>7, <2>4, <1>1, UnusedType DEF Local, Hand
  <2> QED BY <1>3, <2>4, <2>5, <2>6, CalledRests
<1> QED BY <1>8, <1>9

(* net_tcp_shutdown.                                                        *)
LEMMA ShutdownKeeps ==
  ASSUME NEW e, NEW h, NEW q, NEW a, NEW i, NEW m, NEW n, Both(e, h, q, a, i, m, n),
         Table, Shape, Shared = {}, net_tcp_shutdown(e)
  PROVE  Fine(e)'
<1>1. /\ app[e] \in {"open", "shut"} /\ e \notin sending
      /\ app' = [app EXCEPT ![e] = "shut"]
      /\ UNCHANGED <<sending, written, read, told>> /\ queued' = queued
  BY DEF net_tcp_shutdown, Finished
<1>3. PICK room : room \in Rooms /\ Leave(e, StartFin(conn[e], room))
  BY DEF net_tcp_shutdown
<1>2. PICK v : v = "shut" /\ v \in {"shut", "closing"}
  OBVIOUS
<1> QED BY <1>1, <1>2, <1>3, StartFinKeeps

(* net_tcp_close.                                                           *)
LEMMA CloseKeeps ==
  ASSUME NEW e, NEW h, NEW q, NEW a, NEW i, NEW m, NEW n, Both(e, h, q, a, i, m, n),
         Table, Shape, Shared = {}, net_tcp_close(e)
  PROVE  Fine(e)'
<1>1. /\ app[e] \in {"open", "shut"} /\ e \notin sending
      /\ app' = [app EXCEPT ![e] = "closing"]
      /\ UNCHANGED <<sending, written, read, told>> /\ queued' = queued
  BY DEF net_tcp_close, Finished
<1>3. PICK room : room \in Rooms /\ Leave(e, StartFin(conn[e], room))
  BY DEF net_tcp_close
<1>2. PICK v : v = "closing" /\ v \in {"shut", "closing"}
  OBVIOUS
<1> QED BY <1>1, <1>2, <1>3, StartFinKeeps

(* The program lets go of its entry.                                        *)
Orphaned(c) == [c EXCEPT !.orphan = TRUE]

(* The orphan, field by field.                                              *)
LEMMA OrphanedView ==
  ASSUME NEW c, c \in ConnT
  PROVE  /\ Orphaned(c) \in ConnT /\ Bare(c, Orphaned(c)) /\ Orphaned(c).state = c.state
         /\ Orphaned(c).used = c.used
<1>1. Orphaned(c) \in ConnT
  BY DEF ConnT, Orphaned
<1>2. /\ Bare(c, Orphaned(c)) /\ Orphaned(c).state = c.state
      /\ Orphaned(c).used = c.used
  BY DEF ConnT, Orphaned, Bare
<1> QED BY <1>1, <1>2

(* net_tcp_close returns.                                                   *)
LEMMA CloseReturnKeeps ==
  ASSUME NEW e, NEW h, NEW q, NEW a, NEW i, NEW m, NEW n, Both(e, h, q, a, i, m, n),
         Table, Shape, CloseReturn(e)
  PROVE  Fine(e)'
<1>1. e \in Ends /\ Local(e, h) /\ Hand(e, h)
  BY BothGhost DEF Both
<1>2. /\ app[e] = "closing" /\ e \notin sending' /\ app' = [app EXCEPT ![e] = "closed"]
      /\ UNCHANGED <<sending, written, read, told>> /\ queued' = queued
  BY DEF CloseReturn
<1>3. app'[e] = "closed"
  BY <1>1, <1>2, AppView
<1>4. Ended(e)'
  BY <1>3 DEF Ended
<1>5. PICK c : c = conn[e]
  OBVIOUS
<1>6. /\ c \in ConnT /\ (~c.used => c = Unused)
      /\ c.state # "SYN_SENT" /\ c.state # "SYN_RCVD"
  BY <1>1, <1>2, <1>5, BothEntry DEF Local
<1>7. e = Server => h.una >= 1
  BY <1>1, <1>2 DEF Hand
<1>8. CASE Broken(c)
  <2>1. Leave(e, Unused)
    BY <1>5, <1>8 DEF CloseReturn
  <2>2. /\ Table' /\ conn'[e] = Unused /\ conn'[Peer(e)] = conn[Peer(e)] /\ net'[e] = net[e]
    BY <1>1, <2>1, FreeView
  <2>3. PICK o : Idle(o) /\ net'[Peer(e)] = net[Peer(e)] \o o
    BY <1>1, <2>1, FreeView
  <2>4. Local(e, h)' /\ Hand(e, h)'
    BY <1>1, <1>2, <1>3, <1>7, <2>2, UnusedType DEF Local, Hand
  <2> QED BY <1>2, <1>4, <2>2, <2>3, <2>4, CalledRests
<1>9. CASE ~Broken(c)
  <2>1. c.used
    BY <1>6, <1>9, UnusedType DEF Broken
  <2>2. PICK x : CallEnv(x, e, h, i) /\ Goes(x, c, h.una, h.rcv)
    BY <1>4, <1>5, <2>1, BothCall
  <2>3. PICK d : d = Orphaned(c)
    OBVIOUS
  <2>4. d \in ConnT /\ Bare(c, d) /\ d.state = c.state /\ d.used = c.used
    BY <1>6, <2>3, OrphanedView
  <2>5. Goes(x, d, h.una, h.rcv)
    BY <2>2, <2>4, StateGoes
  <2>6. Leave(e, d)
    BY <1>5, <1>9, <2>3 DEF CloseReturn, Orphaned
  <2>7. Lands(e, d, h.una)
    <3>1. PICK st, ap, u : st = d.state /\ ap = app'[e] /\ u = h.una
      OBVIOUS
    <3>2. st # "SYN_RCVD" /\ st # "SYN_SENT" /\ ap = "closed" /\ d.used
          /\ (e = Server => u >= 1)
      BY <1>3, <1>6, <1>7, <2>1, <2>4, <3>1
    <3> QED BY <1>2, <3>1, <3>2 DEF Lands
  <2> QED BY <1>2, <1>4, <2>2, <2>5, <2>6, <2>7, Called
<1> QED BY <1>8, <1>9

(* The bytes a program writes are numbered on.                              *)
LEMMA CopyRun ==
  ASSUME NEW W, NEW j, W \in Nat, j \in Nat
  PROVE  /\ [l \in 1 .. j |-> W + l] \in Seq(Nat) /\ Len([l \in 1 .. j |-> W + l]) = j
         /\ Contig([l \in 1 .. j |-> W + l], W)
<1>1. PICK t : t = [l \in 1 .. j |-> W + l]
  OBVIOUS
<1>2. t \in [1 .. j -> Nat]
  BY <1>1
<1>3. t \in Seq(Nat) /\ Len(t) = j
  BY <1>2
<1>4. Contig(t, W)
  BY <1>1, <1>3 DEF Contig
<1> QED BY <1>1, <1>3, <1>4

(* What stays of a program's state when it calls send or recv.              *)
LEMMA AwayCall ==
  ASSUME NEW e, e \in Ends, Shape, app' = app, conn'[Peer(e)] = conn[Peer(e)],
         NEW W, written' = written \/ written' = [written EXCEPT ![e] = W],
         NEW rd, read' = read \/ read' = [read EXCEPT ![e] = rd],
         NEW td, told' = told \/ told' = [told EXCEPT ![e] = td],
         sending' \subseteq sending, queued' = queued
  PROVE  Away(e)
<1>1. Peer(e) \in Ends /\ Peer(e) # e
  BY EndsApart
<1>2. written'[Peer(e)] = written[Peer(e)]
  BY <1>1 DEF Shape
<1>3. read'[Peer(e)] = read[Peer(e)]
  BY <1>1 DEF Shape
<1>4. told'[Peer(e)] = told[Peer(e)]
  BY <1>1 DEF Shape
<1> QED BY <1>2, <1>3, <1>4 DEF Away

(* net_tcp_send, second half: the connection is not shared, so nobody has   *)
(* closed it since.                                                         *)
LEMMA SendCopyKeeps ==
  ASSUME NEW e, NEW h, NEW q, NEW a, NEW i, NEW m, NEW n, Both(e, h, q, a, i, m, n),
         Table, Shape, SendCopy(e)
  PROVE  Fine(e)'
<1>1. /\ e \in Ends /\ h \in Ghost /\ i \in Ghost /\ Peer(e) \in Ends
      /\ h.rcv \in Nat /\ h.top \in Nat /\ i.rcv <= h.top /\ Local(e, h) /\ Hand(e, h)
      /\ ReadP(read[e], h.rcv, written[Peer(e)], Ended(Peer(e)), told[e])
  BY BothGhost DEF Both
<1>2. /\ e \in sending /\ sending' = sending \ {e} /\ app' = app /\ read' = read
      /\ told' = told /\ queued' = queued
  BY DEF SendCopy
<1>3. app[e] = "open" /\ ~Ended(e) /\ ~Ended(e)'
  BY <1>1, <1>2 DEF Local, Ended
<1>4. CASE Broken(conn[e])
  <2>1. UNCHANGED <<conn, net>> /\ written' = written
    BY <1>4 DEF SendCopy
  <2>2. /\ Table' /\ conn'[e] = conn[e] /\ conn'[Peer(e)] = conn[Peer(e)] /\ net'[e] = net[e]
    BY <1>1, <2>1, SameView
  <2>3. PICK o : Idle(o) /\ net'[Peer(e)] = net[Peer(e)] \o o
    BY <1>1, <2>1, SameView
  <2>4. Away(e)
    BY <1>2, <2>1, <2>2 DEF Away
  <2>5. Delivered(net[e], m, n, net'[e], h, h.una, h.rcv)
    BY <2>2 DEF Delivered
  <2>6. ReadP(read[e], h.rcv, written[Peer(e)], Ended(Peer(e)), told'[e])
    BY <1>1, <1>2
  <2>7. Local(e, h)' /\ Hand(e, h)'
    BY <1>1, <1>2, <2>2 DEF Local, Hand
  <2>8. written'[e] = written[e] /\ read'[e] = read[e]
    BY <1>2, <2>1
  <2> QED BY <1>1, <1>3, <2>2, <2>3, <2>4, <2>5, <2>6, <2>7, <2>8, StepRests
<1>5. CASE ~Broken(conn[e])
  <2>1. PICK c, W, V, ev, rd, td : /\ c = conn[e] /\ W = written[e] /\ V = written[Peer(e)]
                                   /\ ev = Ended(Peer(e)) /\ rd = read[e] /\ td = told[e]
    OBVIOUS
  <2>2. /\ c \in ConnT /\ c.out = <<>> /\ c.used
        /\ c.state \notin {"SYN_SENT", "SYN_RCVD", "CLOSED"}
    BY <1>1, <1>3, <1>5, <2>1, BothEntry, UnusedType DEF Broken, Local
  <2>3. /\ Sends(e, c, h, W, Ended(e)) /\ Phase(e, c, h, W, i.rcv)
        /\ Receives(e, c, h, rd, V, ev)
    BY <2>1, <2>2, BothEntry
  <2>4. ~c.fin_pending
    BY <1>3, <2>3 DEF Sends
  <2>5. PICK j \in 1 .. Least(TxBuf - Len(c.tx), Data[e] - W) :
          /\ \E room \in Rooms :
               Leave(e, tcp_output([c EXCEPT !.tx = @ \o [l \in 1 .. j |-> W + l]], room))
          /\ written' = [written EXCEPT ![e] = @ + j]
    BY <1>5, <2>1 DEF SendCopy
  <2>r. PICK room \in Rooms :
          Leave(e, tcp_output([c EXCEPT !.tx = @ \o [l \in 1 .. j |-> W + l]], room))
    BY <2>5
  <2>6. W \in Nat /\ V \in Nat /\ rd \in Seq(Nat) /\ Data[e] \in Nat /\ TxBuf \in Nat
        /\ Len(c.tx) \in Nat
    BY <1>1, <2>1, <2>2, ConnType, SeqFacts, TcpAssumption DEF Shape
  <2>7. j \in Nat /\ 1 <= j /\ Len(c.tx) + j <= TxBuf
    BY <2>6, Constants DEF Least
  <2>8. PICK X, en : X = W + j /\ en = FALSE
    OBVIOUS
  <2>9. X \in Nat /\ W <= X /\ ev \in BOOLEAN
    <3>1. X \in Nat /\ W <= X
      BY <2>6, <2>7, <2>8
    <3>2. ev \in BOOLEAN
      BY <2>1, EndedBool
    <3> QED BY <3>1, <3>2
  <2>10. Setting(e, h, i, X, en, rd, V, ev)
    BY <1>1, <2>6, <2>8, <2>9 DEF Setting
  <2>11. PICK x : EnvOf(x, e, h, i, V, ev) /\ x.W = X /\ x.en = en /\ x.rd = rd
    BY <2>10, EnvMake
  <2>12. PICK t : t = [l \in 1 .. j |-> W + l]
    OBVIOUS
  <2>13. t \in Seq(Nat) /\ Len(t) = j /\ Contig(t, W)
    BY <2>6, <2>7, <2>12, CopyRun
  <2>14. Writable(x, c, h, W) /\ 1 <= Len(t) /\ Len(c.tx) + Len(t) <= TxBuf
         /\ x.W = W + Len(t)
    <3>1. Ended(e) = en
      BY <1>3, <2>8, EndedBool
    <3>2. Sends(e, c, h, W, en)
      BY <2>3, <3>1
    <3>3. /\ x \in Env /\ x.e = e /\ x.en = en /\ x.rp = i.rcv /\ x.rd = rd /\ x.Wp = V
          /\ x.ep = ev /\ x.t0 = h.top /\ x.r0 = h.rcv
      BY <2>11 DEF EnvOf
    <3>4. Writable(x, c, h, W)
      BY <1>1, <2>2, <2>3, <2>4, <2>6, <3>2, <3>3 DEF Writable
    <3> QED BY <2>7, <2>8, <2>11, <2>13, <3>4
  <2>15. PICK d : d = tcp_output(Queued(c, t), room)
    OBVIOUS
  <2>16. /\ Goes(x, d, h.una, h.rcv) /\ d.orphan = c.orphan /\ d.state = c.state
         /\ d.used = c.used /\ h.top <= 1 + W
    <3>1. t \in Seq(Nat) /\ Contig(t, W) /\ Writable(x, c, h, W) /\ 1 <= Len(t)
          /\ Len(c.tx) + Len(t) <= TxBuf /\ x.W = W + Len(t)
      BY <2>13, <2>14
    <3>2. /\ Goes(x, tcp_output(Queued(c, t), room), h.una, h.rcv)
          /\ tcp_output(Queued(c, t), room).orphan = c.orphan
          /\ tcp_output(Queued(c, t), room).state = c.state
          /\ tcp_output(Queued(c, t), room).used = c.used
          /\ h.top <= 1 + W
      BY <3>1, <2>r, CopyGoes
    <3> QED BY <2>15, <3>2
  <2>17. Leave(e, d)
    BY <2>r, <2>12, <2>15 DEF Queued
  <2>18. /\ Table' /\ conn'[e] = Settled(d) /\ conn'[Peer(e)] = conn[Peer(e)]
         /\ net'[Peer(e)] = net[Peer(e)] \o d.out /\ net'[e] = net[e]
    BY <1>1, <2>16, <2>17, GoesType, LeaveView
  <2>19. written'[e] = X /\ Away(e)
    <3>1. written' = [written EXCEPT ![e] = X]
      BY <2>1, <2>5, <2>8
    <3>2. written'[e] = X
      BY <1>1, <3>1 DEF Shape
    <3>3. Away(e)
      BY <1>1, <1>2, <2>18, <3>1, AwayCall
    <3> QED BY <3>2, <3>3
  <2>20. Lands(e, d, h.una)
    <3>1. PICK st, ap, u : st = d.state /\ ap = app'[e] /\ u = h.una
      OBVIOUS
    <3>2. /\ st # "SYN_RCVD" /\ st # "SYN_SENT" /\ ap = "open" /\ d.used /\ ~d.orphan
          /\ (e = Server => u >= 1)
      BY <1>1, <1>2, <1>3, <2>1, <2>2, <2>16, <3>1 DEF Local, Hand
    <3> QED BY <3>1, <3>2 DEF Lands
  <2>21. Delivered(net[e], m, n, net'[e], h, h.una, h.rcv)
    BY <2>18 DEF Delivered
  <2>22. /\ EnvOf(x, e, h, i, written[Peer(e)], Ended(Peer(e)))
         /\ x.W = written'[e] /\ x.en = Ended(e)' /\ x.rd = read'[e]
         /\ ReadP(read'[e], h.rcv, written[Peer(e)], Ended(Peer(e)), told'[e])
    <3>1. Ended(e)' = en
      BY <1>3, <2>8, EndedBool
    <3> QED BY <1>1, <1>2, <2>1, <2>11, <2>19, <3>1
  <2>23. written[e] <= written'[e] /\ h.top <= 1 + written[e]
    BY <2>1, <2>9, <2>16, <2>19
  <2> QED BY <1>1, <1>3, <2>16, <2>18, <2>19, <2>20, <2>21, <2>22, <2>23, StepMoves
<1> QED BY <1>4, <1>5

(* What a program takes continues what it has read.                         *)
LEMMA SubSeqRun ==
  ASSUME NEW t, NEW j, NEW R, t \in Seq(Nat), j \in Nat, j <= Len(t), R \in Nat, Contig(t, R)
  PROVE  /\ SubSeq(t, 1, j) \in Seq(Nat) /\ Len(SubSeq(t, 1, j)) = j
         /\ Contig(SubSeq(t, 1, j), R)
<1>1. PICK s : s = SubSeq(t, 1, j)
  OBVIOUS
<1>2. PICK L \in Nat : L = Len(t)
  BY SeqFacts
<1>3. s \in Seq(Nat) /\ Len(s) = j /\ \A l \in 1 .. j : s[l] = t[l]
  <2>1. 1 \in Nat \ {0} /\ 1 <= j + 1 /\ j + 1 - 1 = j
    OBVIOUS
  <2>2. s \in Seq(Nat) /\ Len(s) = j /\ \A l \in 1 .. j : s[l] = t[1 - 1 + l]
    BY <1>1, <2>1, SubSeqNat
  <2> QED BY <2>2
<1>4. ASSUME NEW l \in 1 .. Len(s)
      PROVE  s[l] = R + l
  <2>1. l \in 1 .. j /\ l \in 1 .. Len(t)
    BY <1>2, <1>3
  <2> QED BY <1>3, <2>1 DEF Contig
<1>5. Contig(s, R)
  BY <1>4 DEF Contig
<1> QED BY <1>1, <1>3, <1>5

(* What a program has read grows by the front of the ring.                  *)
LEMMA ReadJoin ==
  ASSUME NEW rd, NEW t, NEW j, NEW r, NEW V, NEW ev, NEW td, ReadP(rd, r, V, ev, td),
         t \in Seq(Nat), j \in Nat, j <= Len(t), Contig(t, Len(rd)), V \in Nat,
         Len(rd) + Len(t) <= V, td # "eof", r \in Nat, r # 0
  PROVE  /\ ReadP(rd \o SubSeq(t, 1, j), r, V, ev, td)
         /\ rd \o SubSeq(t, 1, j) \in Seq(Nat)
         /\ Len(rd \o SubSeq(t, 1, j)) = Len(rd) + j
<1>1. rd \in Seq(Nat) /\ Contig(rd, 0)
  BY DEF ReadP
<1>2. PICK R \in Nat, L \in Nat : R = Len(rd) /\ L = Len(t)
  BY <1>1, SeqFacts
<1>3. PICK s : s = SubSeq(t, 1, j)
  OBVIOUS
<1>4. s \in Seq(Nat) /\ Len(s) = j /\ Contig(s, R)
  BY <1>2, <1>3, SubSeqRun
<1>5. \A l \in 1 .. Len(s) : s[l] = 0 + Len(rd) + l
  BY <1>2, <1>4 DEF Contig
<1>6. Contig(rd \o s, 0) /\ Len(rd \o s) = Len(rd) + Len(s)
  <2>1. 0 \in Nat
    OBVIOUS
  <2> QED BY <1>1, <1>4, <1>5, <2>1, ContigJoin
<1>7. rd \o s \in Seq(Nat)
  BY <1>1, <1>4, ConcatNat
<1>8. Len(rd \o s) <= V
  BY <1>2, <1>4, <1>6
<1>9. ReadP(rd \o s, r, V, ev, td)
  BY <1>6, <1>7, <1>8 DEF ReadP
<1> QED BY <1>3, <1>4, <1>6, <1>7, <1>9

(* The end of the stream, as a program sees it.                             *)
LEMMA RecvEofKeeps ==
  ASSUME NEW e, NEW h, NEW q, NEW a, NEW i, NEW m, NEW n, Both(e, h, q, a, i, m, n),
         Table, Shape, conn[e].used, conn[e].rx = <<>>, conn[e].peer_fin \/ conn[e].reset,
         told' = [told EXCEPT ![e] = IF conn[e].reset THEN "error" ELSE "eof"],
         UNCHANGED <<conn, net, read>>, UNCHANGED <<queued, app, sending, written>>
  PROVE  Fine(e)'
<1>1. /\ e \in Ends /\ h.rcv \in Nat /\ Local(e, h) /\ Hand(e, h)
      /\ ReadP(read[e], h.rcv, written[Peer(e)], Ended(Peer(e)), told[e])
  BY BothGhost DEF Both
<1>2. app' = app /\ sending' = sending /\ written' = written /\ read' = read /\ queued' = queued
      /\ UNCHANGED <<conn, net>>
  OBVIOUS
<1>3. /\ Table' /\ conn'[e] = conn[e] /\ conn'[Peer(e)] = conn[Peer(e)] /\ net'[e] = net[e]
  BY <1>1, <1>2, SameView
<1>4. PICK o : Idle(o) /\ net'[Peer(e)] = net[Peer(e)] \o o
  BY <1>1, <1>2, SameView
<1>5. Away(e)
  BY <1>1, <1>2, <1>3, AwayCall
<1>6. Delivered(net[e], m, n, net'[e], h, h.una, h.rcv)
  BY <1>3 DEF Delivered
<1>7. Local(e, h)' /\ Hand(e, h)'
  BY <1>1, <1>2, <1>3 DEF Local, Hand
<1>8. ReadP(read[e], h.rcv, written[Peer(e)], Ended(Peer(e)), told'[e])
  <2>1. PICK r, R, W, pf, rs, en : /\ r = h.rcv /\ R = Len(read[e]) /\ W = written[Peer(e)]
                                   /\ pf = conn[e].peer_fin /\ rs = conn[e].reset
                                   /\ en = Ended(Peer(e))
    OBVIOUS
  <2>2. Counts(r, R, 0, W, pf, rs, en)
    <3>1. Len(conn[e].rx) = 0
      BY Emptiness
    <3> QED BY <2>1, <3>1, BothEntry DEF Receives
  <2>3. R \in Nat
    BY <1>1, <2>1, SeqFacts DEF ReadP
  <2>4. pf /\ ~rs => R = W /\ en
    BY <1>1, <2>1, <2>2, <2>3 DEF Counts
  <2>5. told'[e] = IF rs THEN "error" ELSE "eof"
    BY <1>1, <2>1 DEF Shape
  <2>6. told'[e] # "zero" /\ (told'[e] = "eof" => R = W /\ en)
    BY <2>1, <2>4, <2>5
  <2> QED BY <1>1, <2>1, <2>6 DEF ReadP
<1>9. Ended(e) => Ended(e)'
  BY <1>2 DEF Ended
<1>10. written'[e] = written[e] /\ read'[e] = read[e]
  BY <1>2
<1> QED BY <1>1, <1>3, <1>4, <1>5, <1>6, <1>7, <1>8, <1>9, <1>10, StepRests

(* net_tcp_recv returns bytes.                                              *)
LEMMA RecvBytesKeeps ==
  ASSUME NEW e, NEW h, NEW q, NEW a, NEW i, NEW m, NEW n, Both(e, h, q, a, i, m, n),
         Table, Shape, app[e] \in {"open", "shut"}, told[e] = "open", conn[e].used,
         NEW j, j \in 1 .. Len(conn[e].rx), NEW d,
         d = IF Taken(conn[e], j).state \in {"ESTABLISHED", "CLOSE_WAIT"}
             THEN tcp_emit(Taken(conn[e], j), Taken(conn[e], j).snd_nxt, {"ACK"}, <<>>)
             ELSE Taken(conn[e], j),
         read' = [read EXCEPT ![e] = @ \o SubSeq(conn[e].rx, 1, j)], Leave(e, d),
         UNCHANGED told, UNCHANGED <<queued, app, sending, written>>
  PROVE  Fine(e)'
<1>1. /\ e \in Ends /\ h \in Ghost /\ i \in Ghost /\ Peer(e) \in Ends
      /\ h.rcv \in Nat /\ h.top \in Nat /\ Local(e, h) /\ Hand(e, h)
      /\ ReadP(read[e], h.rcv, written[Peer(e)], Ended(Peer(e)), told[e])
  BY BothGhost DEF Both
<1>2. app' = app /\ sending' = sending /\ written' = written /\ told' = told
      /\ queued' = queued
  OBVIOUS
<1>3. PICK c, W, en, V, ev, rd, td :
        /\ c = conn[e] /\ W = written[e] /\ en = Ended(e) /\ V = written[Peer(e)]
        /\ ev = Ended(Peer(e)) /\ rd = read[e] /\ td = told[e]
  OBVIOUS
<1>4. c \in ConnT /\ c.out = <<>> /\ c.used
  BY <1>3, BothEntry
<1>5. Sends(e, c, h, W, en) /\ Phase(e, c, h, W, i.rcv) /\ Receives(e, c, h, rd, V, ev)
  BY <1>3, <1>4, BothEntry
<1>6. W \in Nat /\ V \in Nat /\ rd \in Seq(Nat) /\ en \in BOOLEAN /\ ev \in BOOLEAN
  BY <1>1, <1>3, EndedBool DEF Shape
<1>7. PICK R \in Nat, L \in Nat, t \in Seq(Nat) : R = Len(rd) /\ L = Len(c.rx) /\ t = c.rx
  BY <1>4, <1>6, ConnType, SeqFacts
<1>8. j \in Nat /\ 1 <= j /\ j <= L
  BY <1>3, <1>7
<1>9. PICK r \in Nat : r = h.rcv
  BY <1>1
<1>10. R + L <= V /\ r # 0 /\ Contig(t, Len(rd))
  <2>1. Counts(r, R, L, V, c.peer_fin, c.reset, ev)
    BY <1>5, <1>7, <1>9 DEF Receives
  <2>2. R + L <= V /\ r # 0
    BY <1>8, <2>1 DEF Counts
  <2> QED BY <1>5, <1>7, <2>2 DEF Receives, Contig
<1>11. PICK nd : nd = rd \o SubSeq(t, 1, j)
  OBVIOUS
<1>12. ReadP(nd, r, V, ev, td) /\ nd \in Seq(Nat) /\ Len(nd) = R + j
  <2>1. ReadP(rd, r, V, ev, td) /\ td # "eof"
    BY <1>1, <1>3, <1>9
  <2>2. Len(rd) + Len(t) <= V /\ j <= Len(t)
    BY <1>7, <1>8, <1>10
  <2> QED BY <1>6, <1>7, <1>8, <1>10, <1>11, <2>1, <2>2, ReadJoin
<1>13. Setting(e, h, i, W, en, nd, V, ev)
  BY <1>1, <1>6, <1>12 DEF Setting
<1>14. PICK x : EnvOf(x, e, h, i, V, ev) /\ x.W = W /\ x.en = en /\ x.rd = nd
  BY <1>13, EnvMake
<1>15. Holding(x, c, h, rd, j)
  <2>1. /\ x \in Env /\ x.e = e /\ x.rp = i.rcv /\ x.Wp = V
        /\ x.ep = ev /\ x.t0 = h.top /\ x.r0 = h.rcv
    BY <1>14 DEF EnvOf
  <2>2. Len(x.rd) = Len(rd) + j /\ j <= Len(c.rx)
    BY <1>7, <1>8, <1>12, <1>14
  <2> QED BY <1>1, <1>4, <1>5, <1>6, <1>8, <1>14, <2>1, <2>2 DEF Holding
<1>16. PICK b : b = Taken(c, j)
  OBVIOUS
<1>17. Goes(x, b, h.una, h.rcv) /\ Takes(c, b)
  BY <1>15, <1>16, RecvGoes
<1>18. /\ Goes(x, d, h.una, h.rcv) /\ d.used = c.used /\ d.orphan = c.orphan
       /\ d.state = c.state
  <2>1. b.used = c.used /\ b.orphan = c.orphan /\ b.state = c.state
    BY <1>17 DEF Takes
  <2>2. CASE b.state \in {"ESTABLISHED", "CLOSE_WAIT"}
    <3>1. d = tcp_emit(b, b.snd_nxt, {"ACK"}, <<>>)
      BY <1>3, <1>16, <2>2
    <3>2. h.rcv >= 1
      BY <1>9, <1>10
    <3>3. Goes(x, d, h.una, h.rcv) /\ Keep(b, d)
      BY <1>17, <3>1, <3>2, AckGoes
    <3> QED BY <2>1, <3>3, KeepsState
  <2>3. CASE b.state \notin {"ESTABLISHED", "CLOSE_WAIT"}
    <3>1. d = b
      BY <1>3, <1>16, <2>3
    <3> QED BY <1>17, <2>1, <3>1
  <2> QED BY <2>2, <2>3
<1>19. d \in ConnT
  BY <1>18, GoesType
<1>20. /\ Table' /\ conn'[e] = Settled(d) /\ conn'[Peer(e)] = conn[Peer(e)]
       /\ net'[Peer(e)] = net[Peer(e)] \o d.out /\ net'[e] = net[e]
  BY <1>1, <1>19, LeaveView
<1>21. read'[e] = nd /\ Away(e)
  <2>1. read' = [read EXCEPT ![e] = nd]
    BY <1>3, <1>7, <1>11
  <2>2. read'[e] = nd
    BY <1>1, <2>1 DEF Shape
  <2> QED BY <1>1, <1>2, <1>20, <2>1, <2>2, AwayCall
<1>22. Lands(e, d, h.una)
  <2>1. PICK st, ap, u : st = d.state /\ ap = app'[e] /\ u = h.una
    OBVIOUS
  <2>2. /\ st # "SYN_RCVD" /\ st # "SYN_SENT" /\ ap \in {"open", "shut"} /\ d.used
        /\ ~d.orphan /\ (e = Server => u >= 1) /\ (e \in sending' => ap = "open")
    BY <1>1, <1>2, <1>3, <1>4, <1>18, <2>1 DEF Local, Hand
  <2> QED BY <2>1, <2>2 DEF Lands
<1>23. Delivered(net[e], m, n, net'[e], h, h.una, h.rcv)
  BY <1>20 DEF Delivered
<1>24. Ended(e)' = Ended(e)
  BY <1>2 DEF Ended
<1>25. /\ EnvOf(x, e, h, i, written[Peer(e)], Ended(Peer(e)))
       /\ x.W = written'[e] /\ x.en = Ended(e)' /\ x.rd = read'[e]
       /\ ReadP(read'[e], h.rcv, written[Peer(e)], Ended(Peer(e)), told'[e])
       /\ written'[e] = written[e]
  BY <1>2, <1>3, <1>9, <1>12, <1>14, <1>21, <1>24
<1> QED BY <1>1, <1>18, <1>20, <1>21, <1>22, <1>23, <1>24, <1>25, StepMoves

(* net_tcp_recv.                                                            *)
LEMMA RecvKeeps ==
  ASSUME NEW e, NEW h, NEW q, NEW a, NEW i, NEW m, NEW n, Both(e, h, q, a, i, m, n),
         Table, Shape, Recv(e)
  PROVE  Fine(e)'
<1>1. /\ app[e] \in {"open", "shut"} /\ told[e] = "open" /\ conn[e].used
      /\ UNCHANGED <<queued, app, sending, written>>
  BY DEF Recv, Receiving
<1>2. CASE /\ conn[e].rx = <<>> /\ (conn[e].peer_fin \/ conn[e].reset)
           /\ told' = [told EXCEPT ![e] = IF conn[e].reset THEN "error" ELSE "eof"]
           /\ UNCHANGED <<conn, net, read>>
  BY <1>1, <1>2, RecvEofKeeps
<1>3. CASE \E j \in 1 .. Len(conn[e].rx) :
             LET c == [conn[e] EXCEPT !.rx = SubSeq(@, j + 1, Len(@))]
             IN  /\ read' = [read EXCEPT ![e] = @ \o SubSeq(conn[e].rx, 1, j)]
                 /\ Leave(e, IF c.state \in {"ESTABLISHED", "CLOSE_WAIT"}
                             THEN tcp_emit(c, c.snd_nxt, {"ACK"}, <<>>) ELSE c)
                 /\ UNCHANGED told
  <2>1. PICK j \in 1 .. Len(conn[e].rx) :
          /\ read' = [read EXCEPT ![e] = @ \o SubSeq(conn[e].rx, 1, j)]
          /\ Leave(e, IF Taken(conn[e], j).state \in {"ESTABLISHED", "CLOSE_WAIT"}
                      THEN tcp_emit(Taken(conn[e], j), Taken(conn[e], j).snd_nxt, {"ACK"}, <<>>)
                      ELSE Taken(conn[e], j))
          /\ UNCHANGED told
    BY <1>3 DEF Taken, Drop
  <2>2. PICK d : d = IF Taken(conn[e], j).state \in {"ESTABLISHED", "CLOSE_WAIT"}
                     THEN tcp_emit(Taken(conn[e], j), Taken(conn[e], j).snd_nxt, {"ACK"}, <<>>)
                     ELSE Taken(conn[e], j)
    OBVIOUS
  <2>3. Leave(e, d)
    BY <2>1, <2>2
  <2> QED BY <1>1, <2>1, <2>2, <2>3, RecvBytesKeeps
<1> QED BY <1>2, <1>3 DEF Recv

(* net_tcp_recv without blocking: all it may say is that the stream is over. *)
LEMMA RecvProbedKeeps ==
  ASSUME NEW e, NEW h, NEW q, NEW a, NEW i, NEW m, NEW n, Both(e, h, q, a, i, m, n),
         Table, Shape, RecvProbed(e)
  PROVE  Fine(e)'
<1>1. /\ e \in Ends /\ h.rcv \in Nat /\ Local(e, h) /\ Hand(e, h)
      /\ ReadP(read[e], h.rcv, written[Peer(e)], Ended(Peer(e)), told[e])
  BY BothGhost DEF Both
<1>2. app' = app /\ sending' = sending /\ written' = written /\ read' = read /\ queued' = queued
      /\ UNCHANGED <<conn, net>>
  BY DEF RecvProbed
<1>t. told' = [told EXCEPT ![e] = IF conn[e].reset THEN "error"
                                  ELSE IF conn[e].peer_fin THEN "zero" ELSE @]
  BY DEF RecvProbed
<1>3. /\ Table' /\ conn'[e] = conn[e] /\ conn'[Peer(e)] = conn[Peer(e)] /\ net'[e] = net[e]
  BY <1>1, <1>2, SameView
<1>4. PICK o : Idle(o) /\ net'[Peer(e)] = net[Peer(e)] \o o
  BY <1>1, <1>2, SameView
<1>5. Away(e)
  BY <1>1, <1>2, <1>3, <1>t, AwayCall
<1>6. Delivered(net[e], m, n, net'[e], h, h.una, h.rcv)
  BY <1>3 DEF Delivered
<1>7. Local(e, h)' /\ Hand(e, h)'
  BY <1>1, <1>2, <1>3 DEF Local, Hand
<1>8. ReadP(read[e], h.rcv, written[Peer(e)], Ended(Peer(e)), told'[e])
  <2>1. PICK r, R, L, W, pf, rs, en : /\ r = h.rcv /\ R = Len(read[e]) /\ W = written[Peer(e)]
                                      /\ pf = conn[e].peer_fin /\ rs = conn[e].reset
                                      /\ en = Ended(Peer(e)) /\ L = Len(conn[e].rx)
    OBVIOUS
  <2>2. told'[e] = IF rs THEN "error" ELSE IF pf THEN "zero" ELSE told[e]
    BY <1>1, <1>t, <2>1 DEF Shape
  <2>3. CASE conn[e].used
    <3>1. Counts(r, R, L, W, pf, rs, en)
      BY <2>1, <2>3, BothEntry DEF Receives
    <3>2. R \in Nat /\ W \in Nat /\ L \in Nat /\ r \in Nat
      <4>1. read[e] \in Seq(Nat) /\ written[Peer(e)] \in Nat
        BY <1>1, BothGhost DEF Shape, ReadP
      <4>2. conn[e].rx \in Seq(Nat)
        BY BothEntry, ConnType
      <4> QED BY <1>1, <2>1, <4>1, <4>2, SeqFacts
    <3>3. pf /\ ~rs => W \in Nat /\ 2 + W <= r /\ en
      BY <3>1, <3>2 DEF Counts
    <3>4. /\ told'[e] = "zero" => told[e] = "zero" \/ (pf /\ ~rs)
          /\ told'[e] = "eof" => told[e] = "eof"
      BY <2>2
    <3> QED BY <1>1, <2>1, <3>3, <3>4 DEF ReadP
  <2>4. CASE ~conn[e].used
    <3>1. conn[e] = Unused
      BY <2>4, BothEntry
    <3>2. ~pf /\ ~rs
      <4>1. conn[e].peer_fin = FALSE /\ conn[e].reset = FALSE
        BY <3>1 DEF Unused, Fresh
      <4> QED BY <2>1, <4>1
    <3>3. told'[e] = told[e]
      BY <2>2, <3>2
    <3> QED BY <1>1, <3>3
  <2> QED BY <2>3, <2>4
<1>9. Ended(e) => Ended(e)'
  BY <1>2 DEF Ended
<1>10. written'[e] = written[e] /\ read'[e] = read[e]
  BY <1>2
<1> QED BY <1>1, <1>3, <1>4, <1>5, <1>6, <1>7, <1>8, <1>9, <1>10, StepRests

(* The first half of that call only goes away and comes back.               *)
LEMMA RecvProbeKeeps ==
  ASSUME NEW e, NEW h, NEW q, NEW a, NEW i, NEW m, NEW n, Both(e, h, q, a, i, m, n),
         Table, Shape, RecvProbe(e)
  PROVE  Fine(e)'
<1>1. /\ e \in Ends /\ h.rcv \in Nat /\ Local(e, h) /\ Hand(e, h)
      /\ ReadP(read[e], h.rcv, written[Peer(e)], Ended(Peer(e)), told[e])
  BY BothGhost DEF Both
<1>2. app' = app /\ sending' = sending /\ written' = written /\ read' = read /\ queued' = queued
      /\ told' = told /\ UNCHANGED <<conn, net>>
  BY DEF RecvProbe
<1>3. /\ Table' /\ conn'[e] = conn[e] /\ conn'[Peer(e)] = conn[Peer(e)] /\ net'[e] = net[e]
  BY <1>1, <1>2, SameView
<1>4. PICK o : Idle(o) /\ net'[Peer(e)] = net[Peer(e)] \o o
  BY <1>1, <1>2, SameView
<1>5. Away(e)
  BY <1>1, <1>2, <1>3 DEF Away
<1>6. Delivered(net[e], m, n, net'[e], h, h.una, h.rcv)
  BY <1>3 DEF Delivered
<1>7. Local(e, h)' /\ Hand(e, h)'
  BY <1>1, <1>2, <1>3 DEF Local, Hand
<1>8. ReadP(read[e], h.rcv, written[Peer(e)], Ended(Peer(e)), told'[e])
  BY <1>1, <1>2
<1>9. Ended(e) => Ended(e)'
  BY <1>2 DEF Ended
<1>10. written'[e] = written[e] /\ read'[e] = read[e]
  BY <1>2
<1> QED BY <1>1, <1>3, <1>4, <1>5, <1>6, <1>7, <1>8, <1>9, <1>10, StepRests

(* ------------------------- the whole next step -------------------------  *)

-----------------------------------------------------------------------------
(* The types.                                                               *)

(* The types after a handler.                                               *)
LEMMA ShapeHandled ==
  ASSUME Shape, UNCHANGED programs, abandoned' \subseteq Ends, listening' \in BOOLEAN,
         queued' \in BOOLEAN, losses' \in 0 .. MaxLoss, early' \in 0 .. MaxEarly
  PROVE  Shape'
BY DEF Shape, programs

(* The types after an arrival.                                              *)
LEMMA ShapeInput ==
  ASSUME NEW e, Shape, tcp_input(e)
  PROVE  Shape'
<1>1. UNCHANGED <<programs, limits, listening>>
  BY DEF tcp_input, RxNobody, RxReset, RxSyn, RxSynAck, RxSegment
<1>2. queued' \in BOOLEAN
  <2>1. CASE RxSegment(e)
    <3>1. PICK w, s, full : queued' = (queued \/ (Establishes(w, s) /\ ~full))
      BY <2>1, Zenon DEF RxSegment
    <3> QED BY <3>1
  <2>2. CASE RxNobody(e) \/ RxReset(e) \/ RxSyn(e) \/ RxSynAck(e)
    <3>1. queued' = queued
      BY <2>2 DEF RxNobody, RxReset, RxSyn, RxSynAck
    <3> QED BY <3>1 DEF Shape
  <2> QED BY <2>1, <2>2 DEF tcp_input
<1>3. UNCHANGED programs /\ abandoned' = abandoned /\ losses' = losses /\ early' = early
      /\ listening' = listening
  BY <1>1 DEF limits
<1>4. /\ abandoned' \subseteq Ends /\ listening' \in BOOLEAN
      /\ losses' \in 0 .. MaxLoss /\ early' \in 0 .. MaxEarly
  BY <1>3 DEF Shape
<1> QED BY <1>2, <1>3, <1>4, ShapeHandled

(* What the timers use up.                                                  *)
LEMMA DueEarly ==
  ASSUME NEW e, Shape, Due(e)
  PROVE  early' \in 0 .. MaxEarly
<1>1. early \in Nat /\ MaxEarly \in Nat /\ early <= MaxEarly
  BY Constants DEF Shape
<1> QED BY <1>1 DEF Due

(* The types after a step of the stack.                                     *)
LEMMA ShapeStack ==
  ASSUME NEW e, e \in Ends, Shape, Lose(e) \/ Sweep(e) \/ CloseListener
  PROVE  Shape'
<1>1. UNCHANGED programs
  BY DEF Lose, Sweep, Retransmit, GiveUp, Linger, Reclaim, CloseListener
<1>2. abandoned' \subseteq Ends
  <2>1. abandoned' = abandoned \/ abandoned' = abandoned \cup {e}
    BY DEF Lose, Sweep, Retransmit, GiveUp, Linger, Reclaim, CloseListener, limits
  <2> QED BY <2>1 DEF Shape
<1>3. listening' \in BOOLEAN /\ queued' \in BOOLEAN
  BY DEF Lose, Sweep, Retransmit, GiveUp, Linger, Reclaim, CloseListener, Shape
<1>4. losses' \in 0 .. MaxLoss
  <2>1. losses \in 0 .. MaxLoss /\ MaxLoss \in Nat
    BY Constants DEF Shape
  <2>2. losses' = losses \/ (losses < MaxLoss /\ losses' = losses + 1)
    BY DEF Lose, Sweep, Retransmit, GiveUp, Linger, Reclaim, CloseListener, limits
  <2> QED BY <2>1, <2>2
<1>5. early' \in 0 .. MaxEarly
  <2>1. CASE Retransmit(e) \/ GiveUp(e)
    BY <2>1, DueEarly DEF Retransmit, GiveUp
  <2>2. CASE Lose(e) \/ Linger(e) \/ Reclaim(e) \/ CloseListener
    BY <2>2 DEF Lose, Linger, Reclaim, CloseListener, limits, Shape
  <2> QED BY <2>1, <2>2 DEF Sweep
<1> QED BY <1>1, <1>2, <1>3, <1>4, <1>5, ShapeHandled

(* The types after a step of the program.                                   *)
LEMMA ShapeApp ==
  ASSUME NEW e, NEW v, e \in Ends, Shape, v \in Apps, app' = [app EXCEPT ![e] = v],
         UNCHANGED <<sending, probing, written, read, told, limits, listening>>,
         queued' \in BOOLEAN
  PROVE  Shape'
<1>1. app' \in [Ends -> Apps]
  BY DEF Shape
<1> QED BY <1>1 DEF Shape, limits

(* The types after a call.                                                  *)
LEMMA ShapeCalls ==
  ASSUME NEW e, e \in Ends, Shape,
         \/ e = Client /\ (Connect \/ ConnectReturn)
         \/ e = Server /\ Accept
         \/ net_tcp_close(e) \/ CloseReturn(e) \/ net_tcp_shutdown(e)
  PROVE  Shape'
<1>1. UNCHANGED <<sending, probing, written, read, told, limits, listening>>
  BY DEF Connect, ConnectReturn, Accept, net_tcp_close, CloseReturn, net_tcp_shutdown
<1>2. queued' \in BOOLEAN
  <2>1. queued' = queued \/ queued' = FALSE
    BY DEF Connect, ConnectReturn, Accept, net_tcp_close, CloseReturn, net_tcp_shutdown
  <2> QED BY <2>1 DEF Shape
<1>3. \E v \in Apps : app' = [app EXCEPT ![e] = v]
  BY DEF Connect, ConnectReturn, Accept, net_tcp_close, CloseReturn, net_tcp_shutdown, Apps
<1> QED BY <1>1, <1>2, <1>3, ShapeApp

(* The types after net_tcp_send.                                            *)
LEMMA ShapeSend ==
  ASSUME NEW e, e \in Ends, Shape, Table, SendCheck(e) \/ SendCopy(e)
  PROVE  Shape'
<1>1. UNCHANGED <<app, probing, read, told, limits, listening, queued>>
  BY DEF SendCheck, SendCopy
<1>2. sending' \subseteq Ends
  BY DEF SendCheck, SendCopy, Shape
<1>3. written' \in [Ends -> Nat] /\ \A z \in Ends : written'[z] <= Data[z]
  <2>1. CASE written' = written
    BY <2>1 DEF Shape
  <2>2. CASE \E j \in 1 .. Least(TxBuf - Len(conn[e].tx), Data[e] - written[e]) :
               written' = [written EXCEPT ![e] = @ + j]
    <3>1. PICK j \in 1 .. Least(TxBuf - Len(conn[e].tx), Data[e] - written[e]) :
               written' = [written EXCEPT ![e] = @ + j]
      BY <2>2
    <3>2. /\ written[e] \in Nat /\ Data[e] \in Nat /\ TxBuf \in Nat /\ Len(conn[e].tx) \in Nat
      <4>1. conn[e] \in ConnT
        BY DEF Table
      <4> QED BY <4>1, ConnType, SeqFacts, Constants DEF Shape
    <3>3. PICK W \in Nat : W = written[e] + j /\ W <= Data[e]
      <4>0. PICK a \in Nat, b \in Nat : a = written[e] /\ b = Data[e]
        BY <3>2
      <4>1. PICK f : f = TxBuf - Len(conn[e].tx)
        OBVIOUS
      <4>N. f \in Int
        BY <3>2, <4>1
      <4>2. j \in 1 .. Least(f, b - a)
        BY <4>0, <4>1
      <4>3. j \in Nat /\ a + j <= b
        BY <4>2, <4>N DEF Least
      <4> QED BY <4>0, <4>3
    <3>4. written' = [written EXCEPT ![e] = W]
      BY <3>1, <3>3
    <3> QED BY <3>3, <3>4 DEF Shape
  <2> QED BY <2>1, <2>2 DEF SendCheck, SendCopy
<1> QED BY <1>1, <1>2, <1>3 DEF Shape, limits

(* The types after net_tcp_recv.                                            *)
LEMMA ShapeRecv ==
  ASSUME NEW e, e \in Ends, Shape, Table, Recv(e)
  PROVE  Shape'
<1>1. UNCHANGED <<app, sending, probing, written, limits, listening, queued>>
  BY DEF Recv
<1>2. told' \in [Ends -> {"open", "eof", "zero", "error"}]
  BY DEF Recv, Shape
<1>3. read' \in [Ends -> Seq(Nat)]
  <2>1. CASE read' = read
    BY <2>1 DEF Shape
  <2>2. CASE \E j \in 1 .. Len(conn[e].rx) :
               read' = [read EXCEPT ![e] = @ \o SubSeq(conn[e].rx, 1, j)]
    <3>1. PICK j \in 1 .. Len(conn[e].rx) :
               read' = [read EXCEPT ![e] = @ \o SubSeq(conn[e].rx, 1, j)]
      BY <2>2
    <3>2. PICK t \in Seq(Nat), L \in Nat : t = conn[e].rx /\ L = Len(t)
      <4>1. conn[e] \in ConnT
        BY DEF Table
      <4> QED BY <4>1, ConnType, SeqFacts
    <3>3. SubSeq(t, 1, j) \in Seq(Nat)
      <4>1. 1 \in Nat \ {0} /\ j \in Nat /\ j <= Len(t) /\ 1 <= j + 1
        BY <3>1, <3>2
      <4> QED BY <4>1, SubSeqNat
    <3>4. PICK rd \in Seq(Nat) : rd = read[e] \o SubSeq(t, 1, j)
      <4>1. read[e] \in Seq(Nat)
        BY DEF Shape
      <4> QED BY <3>3, <4>1, ConcatNat
    <3>5. read' = [read EXCEPT ![e] = rd]
      BY <3>1, <3>2, <3>4
    <3> QED BY <3>5 DEF Shape
  <2> QED BY <2>1, <2>2 DEF Recv
<1> QED BY <1>1, <1>2, <1>3 DEF Shape, limits

(* The types after a non-blocking net_tcp_recv.                             *)
LEMMA ShapeProbe ==
  ASSUME NEW e, e \in Ends, Shape, RecvProbe(e) \/ RecvProbed(e)
  PROVE  Shape'
<1>1. UNCHANGED <<app, sending, written, read, limits, listening, queued>>
  BY DEF RecvProbe, RecvProbed
<1>2. probing' \subseteq Ends
  BY DEF RecvProbe, RecvProbed, Shape
<1>3. told' \in [Ends -> {"open", "eof", "zero", "error"}]
  <2>1. told[e] \in {"open", "eof", "zero", "error"}
    BY DEF Shape
  <2>2. \E v \in {"open", "eof", "zero", "error"} : told' = [told EXCEPT ![e] = v] \/ told' = told
    BY <2>1 DEF RecvProbe, RecvProbed
  <2> QED BY <2>2 DEF Shape
<1> QED BY <1>1, <1>2, <1>3 DEF Shape, limits

-----------------------------------------------------------------------------
(* The invariant.                                                           *)

(* The inductive invariant.                                                 *)
Inv == Shape /\ Fine(Client)

(* tcp_input.                                                               *)
LEMMA FineInput ==
  ASSUME NEW e, Fine(e), Shape, tcp_input(e)
  PROVE  Fine(e)'
<1>1. Table
  BY DEF Fine
<1>2. PICK h, q, a, i, m, n : Both(e, h, q, a, i, m, n)
  BY DEF Fine
<1>3. CASE RxNobody(e)
  BY <1>1, <1>2, <1>3, RxNobodyKeeps
<1>4. CASE RxReset(e)
  BY <1>1, <1>2, <1>4, RxResetKeeps
<1>5. CASE RxSyn(e)
  BY <1>1, <1>2, <1>5, RxSynKeeps
<1>6. CASE RxSynAck(e)
  BY <1>1, <1>2, <1>6, RxSynAckKeeps
<1>7. CASE RxSegment(e)
  BY <1>1, <1>2, <1>7, RxSegmentKeeps
<1> QED BY <1>3, <1>4, <1>5, <1>6, <1>7 DEF tcp_input

(* The sweeper.                                                             *)
LEMMA FineSweep ==
  ASSUME NEW e, Fine(e), Shape, Lose(e) \/ Sweep(e)
  PROVE  Fine(e)'
<1>1. Table
  BY DEF Fine
<1>2. PICK h, q, a, i, m, n : Both(e, h, q, a, i, m, n)
  BY DEF Fine
<1>3. CASE Lose(e)
  BY <1>1, <1>2, <1>3, LoseKeeps
<1>4. CASE Retransmit(e)
  BY <1>1, <1>2, <1>4, RetransmitKeeps
<1>5. CASE GiveUp(e)
  BY <1>1, <1>2, <1>5, GiveUpKeeps
<1>6. CASE Linger(e)
  BY <1>1, <1>2, <1>6, LingerKeeps
<1>7. CASE Reclaim(e)
  BY <1>1, <1>2, <1>7, ReclaimKeeps
<1> QED BY <1>3, <1>4, <1>5, <1>6, <1>7 DEF Sweep

(* The program's calls.                                                     *)
LEMMA FineCalls ==
  ASSUME NEW e, Fine(e), Shape, Shared = {}, Calls(e) \/ RecvProbe(e) \/ net_tcp_shutdown(e)
  PROVE  Fine(e)'
<1>1. Table
  BY DEF Fine
<1>2. PICK h, q, a, i, m, n : Both(e, h, q, a, i, m, n)
  BY DEF Fine
<1>3. CASE e = Client /\ Connect
  BY <1>1, <1>2, <1>3, ConnectKeeps
<1>4. CASE e = Client /\ ConnectReturn
  BY <1>1, <1>2, <1>4, ConnectReturnKeeps
<1>5. CASE e = Server /\ Accept
  BY <1>1, <1>2, <1>5, AcceptKeeps
<1>6. CASE SendCheck(e)
  BY <1>1, <1>2, <1>6, SendCheckKeeps
<1>7. CASE SendCopy(e)
  BY <1>1, <1>2, <1>7, SendCopyKeeps
<1>8. CASE Recv(e)
  BY <1>1, <1>2, <1>8, RecvKeeps
<1>9. CASE net_tcp_close(e)
  BY <1>1, <1>2, <1>9, CloseKeeps
<1>10. CASE CloseReturn(e)
  BY <1>1, <1>2, <1>10, CloseReturnKeeps
<1>11. CASE net_tcp_shutdown(e)
  BY <1>1, <1>2, <1>11, ShutdownKeeps
<1>12. CASE RecvProbe(e)
  BY <1>1, <1>2, <1>12, RecvProbeKeeps
<1>13. CASE RecvProbed(e)
  BY <1>1, <1>2, <1>13, RecvProbedKeeps
<1> QED BY <1>3, <1>4, <1>5, <1>6, <1>7, <1>8, <1>9, <1>10, <1>11, <1>12, <1>13 DEF Calls

(* The listener.                                                            *)
LEMMA FineListener ==
  ASSUME NEW e, e = Server, Fine(e), Shape, CloseListener
  PROVE  Fine(e)'
<1>1. Table
  BY DEF Fine
<1>2. PICK h, q, a, i, m, n : Both(e, h, q, a, i, m, n)
  BY DEF Fine
<1> QED BY <1>1, <1>2, CloseListenerKeeps

(* What holds for one end after a step holds for the other.                 *)
LEMMA FineBack ==
  ASSUME NEW e, NEW z, e \in Ends, z \in Ends, Fine(e)'
  PROVE  Fine(z)'
<1>1. z = e \/ z = Peer(e)
  BY Constants
<1>2. PICK h, q, a, i, m, n : Both(e, h, q, a, i, m, n)'
  BY DEF Fine
<1>3. Peer(Peer(e)) = e /\ Peer(e) \in Ends
  BY Constants
<1>4. Both(Peer(e), i, m, n, h, q, a)'
  <2>1. Pair(Peer(e), i, m, n, h, q, a)'
    BY <1>2, <1>3 DEF Both, Pair, Duo
  <2> QED BY <1>2, <1>3, <2>1 DEF Both
<1> QED BY <1>1, <1>2, <1>4 DEF Fine

(* Every step keeps the invariant.                                          *)
LEMMA StepKeeps ==
  ASSUME Inv, Shared = {}, Next
  PROVE  Inv'
<1>1. Client \in Ends /\ Server \in Ends
  BY EndsApart DEF Ends
<1>2. Shape /\ Fine(Client)
  BY DEF Inv
<1>3. CASE CloseListener
  <2>1. PICK e : e = Server
    OBVIOUS
  <2>2. Fine(e)
    BY <1>1, <1>2, <2>1, FineSwap
  <2>3. Fine(e)'
    BY <1>2, <1>3, <2>1, <2>2, FineListener
  <2>4. Fine(Client)'
    BY <1>1, <2>1, <2>3, FineBack
  <2>5. Shape'
    BY <1>1, <1>2, <1>3, ShapeStack
  <2> QED BY <2>4, <2>5 DEF Inv
<1>4. CASE \E e \in Ends : \/ tcp_input(e) \/ Lose(e) \/ Sweep(e)
                           \/ Calls(e) \/ RecvProbe(e) \/ net_tcp_shutdown(e)
  <2>1. PICK e \in Ends : \/ tcp_input(e) \/ Lose(e) \/ Sweep(e)
                          \/ Calls(e) \/ RecvProbe(e) \/ net_tcp_shutdown(e)
    BY <1>4
  <2>2. Fine(e) /\ Table
    BY <1>1, <1>2, FineSwap DEF Fine
  <2>3. Fine(e)'
    BY <1>2, <2>1, <2>2, FineInput, FineSweep, FineCalls
  <2>4. Fine(Client)'
    BY <1>1, <2>3, FineBack
  <2>5. Shape'
    <3>1. CASE tcp_input(e)
      BY <1>2, <3>1, ShapeInput
    <3>2. CASE Lose(e) \/ Sweep(e)
      BY <1>2, <3>2, ShapeStack
    <3>3. CASE Calls(e) \/ RecvProbe(e) \/ net_tcp_shutdown(e)
      <4>1. CASE SendCheck(e) \/ SendCopy(e)
        BY <1>2, <2>2, <4>1, ShapeSend
      <4>2. CASE Recv(e)
        BY <1>2, <2>2, <4>2, ShapeRecv
      <4>3. CASE \/ e = Client /\ (Connect \/ ConnectReturn)
                 \/ e = Server /\ Accept
                 \/ net_tcp_close(e) \/ CloseReturn(e) \/ net_tcp_shutdown(e)
        BY <1>2, <4>3, ShapeCalls
      <4>5. CASE RecvProbe(e) \/ RecvProbed(e)
        BY <1>2, <4>5, ShapeProbe
      <4>4. \/ SendCheck(e) \/ SendCopy(e) \/ Recv(e) \/ RecvProbe(e) \/ RecvProbed(e)
            \/ e = Client /\ (Connect \/ ConnectReturn)
            \/ e = Server /\ Accept
            \/ net_tcp_close(e) \/ CloseReturn(e) \/ net_tcp_shutdown(e)
        BY <3>3, Zenon DEF Calls
      <4> QED BY <4>1, <4>2, <4>3, <4>4, <4>5
    <3> QED BY <2>1, <3>1, <3>2, <3>3
  <2> QED BY <2>4, <2>5 DEF Inv
<1> QED BY <1>3, <1>4 DEF Next

(* So does a step that changes nothing.                                     *)
LEMMA StutterKeeps ==
  ASSUME Inv, UNCHANGED vars
  PROVE  Inv'
<1>1. /\ conn' = conn /\ net' = net /\ listening' = listening /\ queued' = queued
      /\ app' = app /\ sending' = sending /\ written' = written /\ read' = read
      /\ told' = told /\ abandoned' = abandoned /\ losses' = losses /\ early' = early
      /\ probing' = probing
  BY DEF vars
<1>2. Shape'
  BY <1>1 DEF Inv, Shape
<1>3. Table'
  BY <1>1 DEF Inv, Fine, Table
<1>4. PICK h, q, a, i, m, n : Both(Client, h, q, a, i, m, n)
  BY DEF Inv, Fine
<1>5. Both(Client, h, q, a, i, m, n)'
  BY <1>1, <1>4 DEF Both, Pair, Local, Hand, Ended
<1> QED BY <1>2, <1>3, <1>5 DEF Inv, Fine

(* An end before anything has happened.                                     *)
LEMMA InitHalf ==
  ASSUME NEW e, NEW h, NEW en, h = MkGhost(0, 0, 0, 0, 0), e \in Ends, en = FALSE
  PROVE  Half(e, Unused, h, 0, en, <<>>, "open", 0, en, 0)
<1>1. /\ h \in Ghost /\ h.una = 0 /\ h.nxt = 0 /\ h.rcv = 0 /\ h.top = 0 /\ h.fin = 0
  BY DEF MkGhost, Ghost
<1>2. GhostP(h, 0, en, 0)
  BY <1>1, Constants DEF GhostP
<1>3. ReadP(<<>>, h.rcv, 0, en, "open")
  BY Emptiness DEF ReadP, Contig
<1>4. ConnP(e, Unused, h, 0, en, <<>>, 0, en, 0)
  BY UnusedType DEF ConnP
<1> QED BY <1>2, <1>3, <1>4 DEF Half

(* The initial state satisfies the invariant.                               *)
LEMMA InitKeeps ==
  ASSUME Init
  PROVE  Inv
<1>1. /\ conn = [e \in Ends |-> Unused] /\ net = [e \in Ends |-> <<>>]
      /\ listening = TRUE /\ queued = FALSE
      /\ app = [e \in Ends |-> IF e = Client THEN "init" ELSE "accept"]
      /\ sending = {} /\ probing = {}
      /\ written = [e \in Ends |-> 0] /\ read = [e \in Ends |-> <<>>]
      /\ told = [e \in Ends |-> "open"]
      /\ abandoned = {} /\ losses = 0 /\ early = 0
  BY DEF Init
<1>2. Shape
  <2>1. app \in [Ends -> Apps] /\ told \in [Ends -> {"open", "eof", "zero", "error"}]
    BY <1>1 DEF Apps
  <2>2. written \in [Ends -> Nat] /\ \A e \in Ends : written[e] <= Data[e]
    BY <1>1, Constants
  <2>3. read \in [Ends -> Seq(Nat)]
    <3>1. PICK z \in Seq(Nat) : z = <<>>
      BY Emptiness
    <3> QED BY <1>1, <3>1
  <2>4. losses \in 0 .. MaxLoss /\ early \in 0 .. MaxEarly
    BY <1>1, Constants
  <2>5. listening \in BOOLEAN /\ queued \in BOOLEAN /\ sending \subseteq Ends
        /\ abandoned \subseteq Ends /\ probing \subseteq Ends
    BY <1>1
  <2> QED BY <2>1, <2>2, <2>3, <2>4, <2>5 DEF Shape
<1>3. Table
  <2>1. PICK z \in Seq(SegT) : z = <<>>
    BY EmptySeq
  <2>2. PICK c \in ConnT : c = Unused
    BY UnusedType
  <2> QED BY <1>1, <2>1, <2>2 DEF Table
<1>4. PICK e, p : e = Client /\ p = Peer(e)
  OBVIOUS
<1>5. e \in Ends /\ p \in Ends /\ p = Server /\ e # Server /\ p # Client
  BY <1>4, EndsApart DEF Ends
<1>6. PICK h : h = MkGhost(0, 0, 0, 0, 0)
  OBVIOUS
<1>7. /\ h \in Ghost /\ h.una = 0 /\ h.nxt = 0 /\ h.rcv = 0 /\ h.top = 0 /\ h.fin = 0
  BY <1>6 DEF MkGhost, Ghost
<1>8. PICK en : en = FALSE
  OBVIOUS
<1>9. Half(e, Unused, h, 0, en, <<>>, "open", 0, en, h.rcv)
      /\ Half(p, Unused, h, 0, en, <<>>, "open", 0, en, h.rcv)
  BY <1>5, <1>6, <1>7, <1>8, InitHalf
<1>10. Chain(e, <<>>, <<>>, <<>>, 0, h.top, h.rcv, h.rcv, h.una)
       /\ Chain(p, <<>>, <<>>, <<>>, 0, h.top, h.rcv, h.rcv, h.una)
  BY <1>5, ChainEmpty
<1>11. Duo(e, Unused, <<>>, h, <<>>, <<>>, 0, en, <<>>, "open", Unused, <<>>, h, <<>>, <<>>, 0, en,
           <<>>, "open")
  BY <1>4, <1>5, <1>8, <1>9, <1>10 DEF Duo
<1>12. /\ conn[e] = Unused /\ conn[p] = Unused /\ net[e] = <<>> /\ net[p] = <<>>
       /\ written[e] = 0 /\ written[p] = 0 /\ read[e] = <<>> /\ read[p] = <<>>
       /\ told[e] = "open" /\ told[p] = "open" /\ app[e] = "init" /\ app[p] = "accept"
  BY <1>1, <1>4, <1>5
<1>13. Ended(e) = en /\ Ended(p) = en
  <2>1. Ended(e) = FALSE /\ Ended(p) = FALSE
    BY <1>12 DEF Ended
  <2> QED BY <1>8, <2>1
<1>14. Pair(e, h, <<>>, <<>>, h, <<>>, <<>>)
  BY <1>4, <1>11, <1>12, <1>13 DEF Pair
<1>15. Local(e, h) /\ Hand(e, h) /\ Local(p, h) /\ Hand(p, h)
  BY <1>1, <1>5, <1>7, <1>12, UnusedType DEF Local, Hand
<1>16. Both(e, h, <<>>, <<>>, h, <<>>, <<>>)
  BY <1>4, <1>14, <1>15 DEF Both
<1> QED BY <1>2, <1>3, <1>4, <1>16 DEF Inv, Fine

(* The invariant implies the properties.                                    *)
LEMMA InvGood ==
  ASSUME Inv
  PROVE  TypeOK /\ StreamPrefix /\ EofMeansAll /\ FinAckedIsTaken
<1>1. Shape /\ Fine(Client) /\ Client \in Ends
  BY EndsApart DEF Inv, Ends
<1>2. ASSUME NEW e \in Ends
      PROVE  \E h, q, a, i, m, n : Both(e, h, q, a, i, m, n)
  BY <1>1, <1>2, FineSwap DEF Fine
<1>3. ASSUME NEW e \in Ends
      PROVE  /\ Len(read[e]) <= written[Peer(e)]
             /\ \A j \in 1 .. Len(read[e]) : read[e][j] = j
             /\ told[e] = "eof" => Len(read[e]) = written[Peer(e)]
             /\ told[e] = "zero" /\ conn[e].used
                   => Len(read[e]) + Len(conn[e].rx) = written[Peer(e)]
  <2>1. PICK h, q, a, i, m, n : Both(e, h, q, a, i, m, n)
    BY <1>2
  <2>2. ReadP(read[e], h.rcv, written[Peer(e)], Ended(Peer(e)), told[e])
    BY <2>1, BothGhost
  <2>3. \A j \in 1 .. Len(read[e]) : read[e][j] = 0 + j
    BY <2>2 DEF ReadP, Contig
  <2>4. ASSUME told[e] = "zero", conn[e].used
        PROVE  Len(read[e]) + Len(conn[e].rx) = written[Peer(e)]
    <3>1. PICK R, L, W, r, ev, pf, rs :
            /\ R = Len(read[e]) /\ L = Len(conn[e].rx) /\ W = written[Peer(e)] /\ r = h.rcv
            /\ ev = Ended(Peer(e)) /\ pf = conn[e].peer_fin /\ rs = conn[e].reset
      OBVIOUS
    <3>2. Counts(r, R, L, W, pf, rs, ev)
      BY <2>1, <2>4, <3>1, BothEntry DEF Receives
    <3>3. 2 + W <= r
      BY <2>2, <2>4, <3>1 DEF ReadP
    <3>4. R \in Nat /\ L \in Nat /\ W \in Nat /\ r \in Nat
      <4>1. read[e] \in Seq(Nat) /\ conn[e].rx \in Seq(Nat) /\ written[Peer(e)] \in Nat
        BY <1>1, <1>3, <2>1, BothEntry, ConnType, EndsApart DEF Shape
      <4> QED BY <2>1, <3>1, <4>1, BothGhost, SeqFacts
    <3>5. R + L = W
      BY <3>2, <3>3, <3>4 DEF Counts
    <3> QED BY <3>1, <3>5
  <2>5. /\ Len(read[e]) <= written[Peer(e)]
        /\ told[e] = "eof" => Len(read[e]) = written[Peer(e)]
    BY <2>2 DEF ReadP
  <2>6. ASSUME NEW j \in 1 .. Len(read[e])
        PROVE  read[e][j] = j
    <3>1. read[e][j] = 0 + j
      BY <2>3
    <3> QED BY <3>1
  <2> QED BY <2>4, <2>5, <2>6
<1>4. ASSUME NEW e \in Ends, conn[e].used, conn[e].state = "FIN_WAIT_2", conn[Peer(e)].used
      PROVE  conn[Peer(e)].peer_fin
  <2>1. PICK h, q, a, i, m, n : Both(e, h, q, a, i, m, n)
    BY <1>2
  <2>2. i.rcv >= 2 + written[e]
    BY <1>4, <2>1, BothEntry DEF Phase
  <2>3. Both(Peer(e), i, m, n, h, q, a)
    BY <2>1, BothSwap
  <2>4. PICK c, R, L, W, ev, r : /\ c = conn[Peer(e)] /\ R = Len(read[Peer(e)]) /\ L = Len(c.rx)
                                 /\ W = written[e] /\ ev = Ended(e) /\ r = i.rcv
    OBVIOUS
  <2>5. Counts(r, R, L, W, c.peer_fin, c.reset, ev)
    BY <1>4, <2>3, <2>4, BothEntry, EndsApart DEF Receives
  <2>6. r \in Nat /\ W \in Nat /\ R \in Nat /\ L \in Nat /\ r >= 2 + W
    <3>1. read[Peer(e)] \in Seq(Nat) /\ c.rx \in Seq(Nat)
      BY <1>1, <2>3, <2>4, BothEntry, ConnType, EndsApart DEF Shape
    <3> QED BY <1>1, <2>1, <2>2, <2>4, <3>1, BothGhost, SeqFacts DEF Shape
  <2>7. c.peer_fin
    BY <2>5, <2>6 DEF Counts
  <2> QED BY <2>4, <2>7
<1>5. ASSUME NEW e \in Ends
      PROVE  /\ conn[e].state \in States /\ conn[e].out = <<>>
             /\ {conn[e].snd_una, conn[e].snd_nxt, conn[e].rcv_nxt, conn[e].fin_seq}
                   \subseteq 0 .. SeqMod - 1
             /\ Len(conn[e].rx) <= RxBuf /\ Len(conn[e].tx) <= TxBuf
             /\ conn[e].rto => conn[e].used
             /\ conn[e].retries <= MaxRetries + 1
  <2>1. PICK h, q, a, i, m, n : Both(e, h, q, a, i, m, n)
    BY <1>2
  <2>2. PICK c : c = conn[e]
    OBVIOUS
  <2>3. c \in ConnT /\ c.out = <<>> /\ (~c.used => c = Unused) /\ Len(c.rx) <= RxBuf
    BY <2>1, <2>2, BothEntry, RoomLeft
  <2>4. /\ c.state \in States /\ c.snd_una \in SeqNo /\ c.snd_nxt \in SeqNo
        /\ c.rcv_nxt \in SeqNo /\ c.fin_seq \in SeqNo /\ c.retries \in 0 .. MaxRetries + 1
    BY <2>3 DEF ConnT
  <2>5. Len(c.tx) <= TxBuf
    <3>1. CASE c.used
      BY <2>1, <2>2, <3>1, BothEntry DEF Sends, Numbers
    <3>2. CASE ~c.used
      <4>1. c.tx = <<>>
        BY <2>3, <3>2 DEF Unused, Fresh
      <4> QED BY <4>1, Emptiness, Constants
    <3> QED BY <3>1, <3>2
  <2>6. c.rto => c.used
    BY <2>3 DEF Unused, Fresh
  <2>7. c.retries <= MaxRetries + 1
    BY <2>4, Constants
  <2> QED BY <2>2, <2>3, <2>4, <2>5, <2>6, <2>7 DEF SeqNo
<1>6. TypeOK
  BY <1>1, <1>5 DEF TypeOK, Shape, Apps
<1>7. StreamPrefix /\ EofMeansAll
  BY <1>3 DEF StreamPrefix, EofMeansAll
<1>8. FinAckedIsTaken
  BY <1>4 DEF FinAckedIsTaken
<1> QED BY <1>6, <1>7, <1>8

(* The invariant holds, when no connection is used by two threads, for all  *)
(* buffer, segment and number space sizes, all streams and all numbers of   *)
(* losses, retries and early timers: the positions of both ends and of      *)
(* everything under way always agree (tcp_input, tcp_output, the sweeper    *)
(* and the calls).                                                          *)
THEOREM TcpInvariant ==
  ASSUME Shared = {}
  PROVE  Spec => []Inv
<1>1. Init => Inv
  BY InitKeeps
<1>2. Inv /\ [Next]_vars => Inv'
  BY StepKeeps, StutterKeeps
<1> QED BY <1>1, <1>2, PTL DEF Spec

(* Types, and the buffers' bounds: no segment overruns the receive ring, no *)
(* write the send ring.                                                     *)
THEOREM TcpTypeCorrect ==
  ASSUME Shared = {}
  PROVE  Spec => []TypeOK
BY TcpInvariant, InvGood, PTL

(* What a program reads is the beginning of what the other wrote: no byte   *)
(* lost, repeated or out of order, whatever the link loses and however the  *)
(* numbers wrap (tcp_input's place for data, tcp_retransmit's go-back-N).   *)
THEOREM TcpStreamPrefix ==
  ASSUME Shared = {}
  PROVE  Spec => []StreamPrefix
BY TcpInvariant, InvGood, PTL

(* End of stream is reported only after every byte: tcp_input takes a FIN   *)
(* only in sequence, the last section of net_tcp_recv reports it only once  *)
(* the ring is empty, and a non-blocking call, which may report it over a   *)
(* ring that has just filled, only once that ring holds the rest.           *)
THEOREM TcpEofMeansAll ==
  ASSUME Shared = {}
  PROVE  Spec => []EofMeansAll
BY TcpInvariant, InvGood, PTL

(* FIN_WAIT_2 is entered only when the other end has taken our FIN          *)
(* (FinAcked compares the acknowledgement with fin_seq).                    *)
THEOREM TcpFinAckedIsTaken ==
  ASSUME Shared = {}
  PROVE  Spec => []FinAckedIsTaken
BY TcpInvariant, InvGood, PTL
=============================================================================
