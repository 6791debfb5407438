--------------------------------- MODULE Kcp --------------------------------
(* KCP as libhv uses it over UDP: event/kcp/ikcp.c and hkcp.c, one direction *)
(* of a connection, the sending half of one ikcpcb and the receiving half of *)
(* the other, over a network that loses, repeats and reorders datagrams.     *)
(* Segments are known by their sn, counted from 0; 32-bit numbers do not     *)
(* wrap here.  Time and congestion are left open: any segment may be sent    *)
(* again at any flush, as timeouts and fast retransmission may have it, and  *)
(* the congestion window may be anything.                                    *)
EXTENDS Naturals, Sequences, FiniteSets

CONSTANTS
    WND_RCV,         \* IKCP_WND_RCV, one more than the fragments of a message
    RcvWnd, SndWnd,  \* rcv_wnd, which ikcp_wndsize keeps above WND_RCV, and snd_wnd
    MaxSegs,         \* segments ever sent
    MaxAcks,         \* datagrams of the receiver in flight
    MaxFaults        \* datagrams lost or repeated

ASSUME KcpAssumption ==
    /\ {WND_RCV, RcvWnd, SndWnd} \subseteq Nat \ {0}
    /\ {MaxSegs, MaxAcks, MaxFaults} \subseteq Nat
    /\ RcvWnd >= WND_RCV

VARIABLES
    stream,          \* the segments that ikcp_send has queued, in order: frg, the
                     \* number of the message, and whether that is too long for
                     \* the buffer that hio_read_kcp reads into
    snd_una, snd_nxt, snd_buf, rmt_wnd,
    probing,         \* probe_wait # 0
    rcv_nxt, rcv_buf, rcv_queue,
    acklist, telling,\* acklist, and whether probe has IKCP_ASK_TELL
    got,             \* what ikcp_recv has returned, call by call
    pushes, asks,    \* segments, and a window probe, on their way to the receiver
    acks,            \* datagrams on their way to the sender
    faults

kvars == <<stream, snd_una, snd_nxt, snd_buf, rmt_wnd, probing,
           rcv_nxt, rcv_buf, rcv_queue, acklist, telling, got, pushes, asks, acks, faults>>
sender == <<snd_una, snd_nxt, snd_buf, rmt_wnd, probing>>
receiver == <<rcv_nxt, rcv_buf, rcv_queue, acklist, telling, got>>

Sn == 0..MaxSegs - 1
Datagram == [una : 0..MaxSegs, wnd : 0..RcvWnd, sns : SUBSET Sn]
Least(m, n) == IF m <= n THEN m ELSE n
Most(m, n) == IF m >= n THEN m ELSE n

KInit ==
    /\ stream = <<>> /\ snd_una = 0 /\ snd_nxt = 0 /\ snd_buf = {}
    /\ rmt_wnd = WND_RCV /\ probing = FALSE
    /\ rcv_nxt = 0 /\ rcv_buf = {} /\ rcv_queue = <<>>
    /\ acklist = {} /\ telling = FALSE /\ got = <<>>
    /\ pushes = {} /\ asks = FALSE /\ acks = {} /\ faults = 0

-----------------------------------------------------------------------------
(* The sender. *)

frg_ascending(n, i) == i - 1

frg(n, i) == n - i

(* hio_write_kcp: ikcp_send of a message of n fragments; the last has frg 0. *)
(* One fragment fits DEFAULT_KCP_READ_BUFSIZE, two may, three do not.        *)
ikcp_send(n, long) ==
    /\ n < WND_RCV /\ Len(stream) + n <= MaxSegs
    /\ (n = 1 => ~long) /\ (n > 2 => long)
    /\ LET msg == IF stream = <<>> THEN 1 ELSE stream[Len(stream)].msg + 1
       IN  stream' = stream \o [i \in 1..n |-> [frg |-> frg(n, i), msg |-> msg, long |-> long]]
    /\ UNCHANGED <<sender, receiver, pushes, asks, acks, faults>>

(* ikcp_flush of the sender, from its timer or after a write, when cwnd, or  *)
(* snd_wnd if there is no cwnd, allows w segments: it sends new ones as far  *)
(* as the windows go, those that are due and, if one is due, a window probe. *)
SenderFlushes(w, due, probe) ==
    LET nxt == Most(snd_nxt, Least(snd_una + Least(w, rmt_wnd), Len(stream)))
        fresh == snd_nxt..nxt - 1
    IN  /\ snd_nxt' = nxt /\ snd_buf' = snd_buf \cup fresh
        /\ pushes' = pushes \cup fresh \cup due
        /\ probing' = (rmt_wnd = 0)
        /\ asks' = (asks \/ (probe /\ probing /\ rmt_wnd = 0))
        /\ UNCHANGED <<stream, snd_una, rmt_wnd, receiver, acks, faults>>

(* ikcp_shrink_buf *)
Shrunk(buf) == IF buf = {} THEN snd_nxt ELSE CHOOSE s \in buf : \A r \in buf : s <= r

Acked_above(buf, d) == {s \in buf : s > d.una /\ s \notin d.sns}

(* ikcp_parse_una and ikcp_parse_ack of all that a datagram acknowledges *)
Acked(buf, d) == {s \in buf : s >= d.una /\ s \notin d.sns}

(* ikcp_input of acknowledgements, which also tell the window *)
SenderInput(d) ==
    /\ rmt_wnd' = d.wnd
    /\ snd_buf' = Acked(snd_buf, d) /\ snd_una' = Shrunk(Acked(snd_buf, d))
    /\ UNCHANGED <<stream, snd_nxt, probing, receiver, pushes, asks>>

-----------------------------------------------------------------------------
(* The receiver: hio_read_kcp gives a datagram to ikcp_input and then calls  *)
(* ikcp_recv until it fails.                                                 *)

(* Segments of buf that are next in order go behind queue, which holds at    *)
(* most RcvWnd.                                                              *)
Moves(buf, queue) ==
    \E k \in 0..RcvWnd - Len(queue) :
        LET moved == rcv_nxt..rcv_nxt + k - 1
        IN  /\ moved \subseteq buf /\ (k = RcvWnd - Len(queue) \/ rcv_nxt + k \notin buf)
            /\ rcv_buf' = buf \ moved /\ rcv_nxt' = rcv_nxt + k
            /\ rcv_queue' = queue \o [i \in 1..k |-> rcv_nxt + i - 1]

Queued(i) == stream[rcv_queue[i] + 1]

(* ikcp_peeksize finds a message and it fits the buffer. *)
Readable ==
    /\ rcv_queue # <<>>
    /\ Queued(1).frg < Len(rcv_queue) /\ ~Queued(1).long

InWindow_new(s) == s >= rcv_nxt /\ s < rcv_nxt + RcvWnd

InWindow(s) == s < rcv_nxt + RcvWnd

(* ikcp_input and ikcp_parse_data of segment s *)
ReceiverInput(s) ==
    /\ ~Readable
    /\ IF InWindow(s)
       THEN /\ acklist' = acklist \cup {s}
            /\ IF s >= rcv_nxt THEN Moves(rcv_buf \cup {s}, rcv_queue)
                               ELSE UNCHANGED <<rcv_nxt, rcv_buf, rcv_queue>>
       ELSE UNCHANGED <<acklist, rcv_nxt, rcv_buf, rcv_queue>>
    /\ UNCHANGED <<stream, sender, telling, got, asks, acks>>

(* ikcp_recv takes segments up to the first with frg 0; a queue that was     *)
(* full tells the sender that it no longer is.                               *)
ikcp_recv(n) ==
    /\ Readable
    /\ n \in 1..Len(rcv_queue)
    /\ Queued(n).frg = 0 /\ \A i \in 1..n - 1 : Queued(i).frg # 0
    /\ got' = Append(got, SubSeq(rcv_queue, 1, n))
    /\ Moves(rcv_buf, SubSeq(rcv_queue, n + 1, Len(rcv_queue)))
    /\ telling' = (telling \/ (Len(rcv_queue) >= RcvWnd /\ Len(rcv_queue') < RcvWnd))
    /\ UNCHANGED <<stream, sender, acklist, pushes, asks, acks, faults>>

(* ikcp_flush of the receiver: its acknowledgements and, when asked or when  *)
(* the queue has room again, its window.                                     *)
ReceiverFlushes ==
    /\ ~Readable
    /\ acklist # {} \/ telling
    /\ Cardinality(acks) < MaxAcks
    /\ acks' = acks \cup {[una |-> rcv_nxt, wnd |-> RcvWnd - Len(rcv_queue), sns |-> acklist]}
    /\ acklist' = {} /\ telling' = FALSE
    /\ UNCHANGED <<stream, sender, rcv_nxt, rcv_buf, rcv_queue, got, pushes, asks, faults>>

-----------------------------------------------------------------------------
(* The network. *)

Faulty == faults < MaxFaults /\ faults' = faults + 1

(* What comes in is gone, or comes again. *)
PushArrives(s) ==
    /\ s \in pushes /\ ReceiverInput(s)
    /\ \/ pushes' = pushes \ {s} /\ UNCHANGED faults
       \/ Faulty /\ UNCHANGED pushes

AskArrives ==
    /\ ~Readable
    /\ asks /\ asks' = FALSE /\ telling' = TRUE
    /\ UNCHANGED <<stream, sender, rcv_nxt, rcv_buf, rcv_queue, acklist, got, pushes, acks, faults>>

AckArrives(d) ==
    /\ d \in acks /\ SenderInput(d)
    /\ \/ acks' = acks \ {d} /\ UNCHANGED faults
       \/ Faulty /\ UNCHANGED acks

Loses ==
    /\ Faulty
    /\ \/ \E s \in pushes : pushes' = pushes \ {s} /\ UNCHANGED <<asks, acks>>
       \/ asks /\ asks' = FALSE /\ UNCHANGED <<pushes, acks>>
       \/ \E d \in acks : acks' = acks \ {d} /\ UNCHANGED <<pushes, asks>>
    /\ UNCHANGED <<stream, sender, receiver>>

KNext ==
    \/ \E n \in 1..MaxSegs, long \in BOOLEAN : ikcp_send(n, long)
    \/ \E n \in 1..MaxSegs : ikcp_recv(n)
    \/ \E w \in 0..SndWnd, due \in SUBSET snd_buf, probe \in BOOLEAN : SenderFlushes(w, due, probe)
    \/ ReceiverFlushes
    \/ \E s \in pushes : PushArrives(s)
    \/ AskArrives
    \/ \E d \in acks : AckArrives(d)
    \/ Loses

(* Both ends flush, the windows let a segment through, segments and probes   *)
(* become due, and what is sent arrives unless it is lost.                   *)
KFair ==
    /\ WF_kvars(SenderFlushes(1, snd_buf, TRUE)) /\ WF_kvars(ReceiverFlushes)
    /\ \A s \in Sn : WF_kvars(PushArrives(s))
    /\ WF_kvars(AskArrives) /\ WF_kvars(\E d \in acks : AckArrives(d))
    /\ WF_kvars(\E n \in 1..MaxSegs : ikcp_recv(n))
KSpec == KInit /\ [][KNext]_kvars /\ KFair

-----------------------------------------------------------------------------
(* Properties. *)

(* What the variables hold. *)
KTypeOK ==
    /\ stream \in Seq([frg : Nat, msg : Nat, long : BOOLEAN]) /\ snd_una \in Nat /\ snd_nxt \in Nat
    /\ snd_buf \subseteq Sn /\ rmt_wnd \in 0..RcvWnd /\ probing \in BOOLEAN
    /\ rcv_nxt \in Nat /\ rcv_buf \subseteq Sn /\ rcv_queue \in Seq(Sn)
    /\ acklist \subseteq Sn /\ telling \in BOOLEAN
    /\ pushes \subseteq Sn /\ asks \in BOOLEAN /\ acks \subseteq Datagram /\ faults \in 0..MaxFaults

(* What ikcp_recv returns are the messages that were sent, whole, in order   *)
(* and once, whatever was lost, repeated or reordered.                       *)
WholeOnceInOrder ==
    \A k \in DOMAIN got :
        /\ Len(got[k]) = Cardinality({i \in DOMAIN stream : stream[i].msg = k})
        /\ \A i \in DOMAIN got[k] :
            stream[got[k][i] + 1].msg = k /\ got[k][i] = got[k][1] + i - 1

(* The sender forgets no segment that the receiver does not have.            *)
NoneForgotten ==
    \A s \in 0..snd_nxt - 1 : s \in snd_buf \/ s < rcv_nxt \/ s \in rcv_buf

(* No message up to segment s is too long for the reader's buffer: one that  *)
(* is stays in the queue for good, with all behind it.                       *)
Unobstructed(s) == \A i \in 1..s + 1 : ~stream[i].long

(* What is sent is received in the end, though the datagram that opens a     *)
(* window again may be lost.                                                 *)
AllArrive ==
    \A s \in Sn : (Len(stream) > s /\ Unobstructed(s))
                  ~> (\E k \in DOMAIN got : got[k][Len(got[k])] >= s)
=============================================================================
