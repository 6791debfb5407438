--------------------------- MODULE ProtocolProofs ---------------------------
(***************************************************************************)
(* KCP: whatever the network loses, repeats or reorders, and for any       *)
(* windows, the sender keeps each segment until the receiver has it, and   *)
(* the receiver returns the messages whole, once and in order.             *)
(* MQTT: a broker reads whole packets, and the login first, whatever       *)
(* threads call the client and however its connections end.                *)
(* Timers: however callbacks kill, reset and add them during the walk over *)
(* the pending events, and provided that they reset no other pending timer *)
(* and kill no timer they have just reset, no event is freed that a later  *)
(* step follows, and the loop and EventLoop agree on what there is.        *)
(***************************************************************************)
EXTENDS Kcp, Mqtt, Timers, NaturalsInduction, WellFoundedInduction, FiniteSetTheorems, TLAPS

-----------------------------------------------------------------------------
(* KCP.                                                                      *)

\* The numbers are numbers.
Counts ==
    /\ snd_una \in Nat /\ snd_nxt \in Nat /\ rcv_nxt \in Nat /\ rmt_wnd \in Nat
    /\ snd_buf \subseteq Nat /\ rcv_queue \in Seq(Nat) /\ Len(rcv_queue) <= RcvWnd
    /\ stream \in Seq([frg : Nat, msg : Nat, long : BOOLEAN])

\* Segment s has come in.
Has(s) == s < rcv_nxt \/ s \in rcv_buf

\* Nothing is acknowledged, now or in a datagram of long ago, that has not come
\* in: una is not beyond rcv_nxt, and the numbers listed are of segments that came.
AcksTrue ==
    /\ acklist \subseteq Nat /\ \A s \in acklist : Has(s)
    /\ \A d \in acks :
        /\ d.una \in Nat /\ d.una <= rcv_nxt /\ d.wnd \in Nat
        /\ d.sns \subseteq Nat /\ \A s \in d.sns : Has(s)

\* What is on its way are segments.
PushesAreSegments == pushes \subseteq Nat

KInv == Counts /\ AcksTrue /\ PushesAreSegments /\ NoneForgotten

USE DEF Has

-----------------------------------------------------------------------------
\* ikcp_shrink_buf leaves a number in snd_una.
LEMMA ShrunkIsNat ==
    ASSUME NEW buf \in SUBSET Nat, snd_nxt \in Nat PROVE Shrunk(buf) \in Nat
<1>1. CASE buf = {}
  BY <1>1 DEF Shrunk
<1>2. CASE buf # {}
  <2>1. \E s \in buf : \A r \in buf : s <= r
    <3>1. PICK n \in buf : TRUE
      BY <1>2
    <3> DEFINE R == {p \in Nat \X Nat : p[1] < p[2]}
    <3>2. IsWellFoundedOn(R, Nat)
      BY NatLessThanWellFounded DEF OpToRel
    <3>3. PICK s \in buf : \A r \in buf : ~(<<r, s>> \in R)
      BY <1>2, <3>2, WFMin
    <3>4. ASSUME NEW r \in buf PROVE s <= r
      <4>1. <<r, s>> \in Nat \X Nat /\ ~(<<r, s>> \in R)
        BY <3>3
      <4>2. ~(r < s)
        BY <4>1
      <4> QED
        BY <4>1, <4>2
    <3> QED
      BY <3>4
  <2> QED
    BY <1>2, <2>1 DEF Shrunk
<1> QED
  BY <1>1, <1>2

\* What has come in stays: rcv_nxt only grows, and a segment leaves rcv_buf only
\* behind it.
LEMMA MovesKeeps ==
    ASSUME Counts, NEW buf, rcv_buf \subseteq buf, NEW queue \in Seq(Nat),
           Moves(buf, queue)
    PROVE  /\ rcv_nxt' \in Nat /\ rcv_nxt <= rcv_nxt'
           /\ rcv_queue' \in Seq(Nat) /\ Len(rcv_queue') <= RcvWnd
           /\ \A s \in Nat : s < rcv_nxt \/ s \in buf => s < rcv_nxt' \/ s \in rcv_buf'
<1>1. PICK k \in 0..RcvWnd - Len(queue) :
        /\ rcv_buf' = buf \ (rcv_nxt..rcv_nxt + k - 1) /\ rcv_nxt' = rcv_nxt + k
        /\ rcv_queue' = queue \o [i \in 1..k |-> rcv_nxt + i - 1]
  BY DEF Moves
<1>2. k \in Nat
  BY KcpAssumption
<1>3. [i \in 1..k |-> rcv_nxt + i - 1] \in Seq(Nat)
  BY <1>2 DEF Counts
<1>4. rcv_queue' \in Seq(Nat) /\ Len(rcv_queue') = Len(queue) + k
  BY <1>1, <1>2, <1>3
<1>5. Len(rcv_queue') <= RcvWnd
  BY <1>4, KcpAssumption
<1> QED
  BY <1>1, <1>2, <1>4, <1>5 DEF Counts

-----------------------------------------------------------------------------
(* The sender. *)

LEMMA ikcp_sendKeeps ==
    ASSUME KInv, NEW n \in 1..MaxSegs, NEW long \in BOOLEAN, ikcp_send(n, long) PROVE KInv'
<1>1. stream' \in Seq([frg : Nat, msg : Nat, long : BOOLEAN])
  <2> DEFINE num == IF stream = <<>> THEN 1 ELSE stream[Len(stream)].msg + 1
             more == [i \in 1..n |-> [frg |-> frg(n, i), msg |-> num, long |-> long]]
  <2>1. num \in Nat
    <3>1. CASE stream = <<>>
      BY <3>1
    <3>2. CASE stream # <<>>
      <4> DEFINE Segment == [frg : Nat, msg : Nat, long : BOOLEAN]
      <4>1. stream \in Seq(Segment)
        BY DEF KInv, Counts
      <4> HIDE DEF Segment
      <4>2. stream[Len(stream)] \in Segment
        BY <3>2, <4>1
      <4>3. stream[Len(stream)].msg \in Nat
        BY <4>2 DEF Segment
      <4> QED
        BY <3>2, <4>3
    <3> QED
      BY <3>1, <3>2
  <2>2. more \in Seq([frg : Nat, msg : Nat, long : BOOLEAN])
    <3> DEFINE Segment == [frg : Nat, msg : Nat, long : BOOLEAN]
    <3>1. n \in Nat /\ \A i \in 1..n : frg(n, i) \in Nat
      BY KcpAssumption DEF frg
    <3>2. \A i \in 1..n : [frg |-> frg(n, i), msg |-> num, long |-> long] \in Segment
      BY <2>1, <3>1
    <3> HIDE DEF Segment, num
    <3>3. more \in [1..n -> Segment]
      BY <3>2
    <3>4. more \in Seq(Segment)
      BY <3>1, <3>3
    <3> QED
      BY <3>4 DEF Segment
  <2>3. stream' = stream \o more
    BY DEF ikcp_send
  <2> QED
    BY <2>2, <2>3 DEF KInv, Counts
<1> QED
  BY <1>1 DEF ikcp_send, sender, receiver, KInv, Counts, AcksTrue, PushesAreSegments, NoneForgotten

\* What is sent first goes into snd_buf.
LEMMA SenderFlushesKeeps ==
    ASSUME KInv, NEW w \in 0..SndWnd, NEW due \in SUBSET snd_buf, NEW probe \in BOOLEAN,
           SenderFlushes(w, due, probe)
    PROVE  KInv'
<1>1. w \in Nat
  BY KcpAssumption
<1> DEFINE nxt == Most(snd_nxt, Least(snd_una + Least(w, rmt_wnd), Len(stream)))
<1>2. nxt \in Nat /\ nxt >= snd_nxt
  BY <1>1 DEF KInv, Counts, Most, Least
<1>3. snd_nxt' = nxt /\ snd_buf' = snd_buf \cup (snd_nxt..nxt - 1)
  BY DEF SenderFlushes
<1>4. pushes' = pushes \cup (snd_nxt..nxt - 1) \cup due
  BY DEF SenderFlushes
<1>5. UNCHANGED <<stream, snd_una, rmt_wnd, rcv_nxt, rcv_buf, rcv_queue, acklist, acks>>
  BY DEF SenderFlushes, receiver
<1> HIDE DEF nxt
<1>6. Counts'
  BY <1>2, <1>3, <1>5 DEF KInv, Counts
<1>7. AcksTrue'
  BY <1>5 DEF KInv, AcksTrue
<1>8. PushesAreSegments'
  <2>1. snd_nxt \in Nat /\ pushes \subseteq Nat /\ due \subseteq Nat
    BY DEF KInv, Counts, PushesAreSegments
  <2>2. snd_nxt..nxt - 1 \subseteq Nat
    BY <1>2, <2>1
  <2> QED
    BY <1>4, <2>1, <2>2 DEF PushesAreSegments
<1>9. NoneForgotten'
  BY <1>2, <1>3, <1>5 DEF KInv, Counts, NoneForgotten
<1> QED
  BY <1>6, <1>7, <1>8, <1>9 DEF KInv

\* What a datagram takes out of snd_buf is behind its una or in its list.
LEMMA AckArrivesKeeps ==
    ASSUME KInv, NEW d \in acks, AckArrives(d) PROVE KInv'
<1>1. snd_buf' = {s \in snd_buf : s >= d.una /\ s \notin d.sns} /\ snd_una' = Shrunk(snd_buf')
  BY DEF AckArrives, SenderInput, Acked
<1>2. acks' \subseteq acks /\ rmt_wnd' = d.wnd
  BY DEF AckArrives, SenderInput
<1>3. UNCHANGED <<stream, snd_nxt, rcv_nxt, rcv_buf, rcv_queue, acklist, pushes>>
  BY DEF AckArrives, SenderInput, receiver
<1>4. snd_una' \in Nat
  <2>1. snd_buf' \in SUBSET Nat /\ snd_nxt \in Nat
    BY <1>1 DEF KInv, Counts
  <2> QED
    BY <1>1, <2>1, ShrunkIsNat
<1>5. Counts'
  BY <1>1, <1>2, <1>3, <1>4 DEF KInv, Counts, AcksTrue
<1>6. AcksTrue' /\ PushesAreSegments'
  BY <1>2, <1>3 DEF KInv, AcksTrue, PushesAreSegments
<1>7. NoneForgotten'
  <2> SUFFICES ASSUME NEW s \in 0..snd_nxt - 1 PROVE s \in snd_buf' \/ Has(s)
    BY <1>3 DEF NoneForgotten
  <2>1. s \in snd_buf \/ Has(s)
    BY DEF KInv, NoneForgotten
  <2>2. s < d.una => Has(s)
    BY DEF KInv, Counts, AcksTrue
  <2>3. s \in d.sns => Has(s)
    BY DEF KInv, AcksTrue
  <2>4. s \in Nat /\ d.una \in Nat
    BY DEF KInv, Counts, AcksTrue
  <2> QED
    BY <1>1, <2>1, <2>2, <2>3, <2>4
<1> QED
  BY <1>5, <1>6, <1>7 DEF KInv

-----------------------------------------------------------------------------
(* The receiver. *)

\* Where what has come in stays and nothing else changes, the invariant stays.
LEMMA ReceivingKeeps ==
    ASSUME KInv, rcv_nxt' \in Nat, rcv_nxt <= rcv_nxt',
           rcv_queue' \in Seq(Nat), Len(rcv_queue') <= RcvWnd,
           \A s \in Nat : Has(s) => Has(s)',
           acklist' \subseteq Nat, \A s \in acklist' : Has(s)',
           pushes' \subseteq pushes, UNCHANGED <<stream, sender, acks>>
    PROVE  KInv'
<1>1. UNCHANGED <<stream, snd_una, snd_nxt, snd_buf, rmt_wnd, acks>>
  BY DEF sender
<1>2. Counts' /\ PushesAreSegments'
  BY <1>1 DEF KInv, Counts, PushesAreSegments
<1>3. AcksTrue'
  <2> SUFFICES ASSUME NEW d \in acks
               PROVE  d.una \in Nat /\ d.una <= rcv_nxt' /\ d.wnd \in Nat
                      /\ d.sns \subseteq Nat /\ \A s \in d.sns : Has(s)'
    BY <1>1 DEF AcksTrue
  <2> QED
    BY DEF KInv, Counts, AcksTrue
<1>4. NoneForgotten'
  <2> SUFFICES ASSUME NEW s \in 0..snd_nxt - 1 PROVE s \in snd_buf \/ Has(s)'
    BY <1>1 DEF NoneForgotten
  <2>1. s \in Nat
    BY DEF KInv, Counts
  <2> QED
    BY <2>1 DEF KInv, NoneForgotten
<1> QED
  BY <1>2, <1>3, <1>4 DEF KInv

LEMMA PushArrivesKeeps ==
    ASSUME KInv, NEW s \in pushes, PushArrives(s) PROVE KInv'
<1>1. ReceiverInput(s) /\ pushes' \subseteq pushes /\ s \in Nat
  BY DEF PushArrives, KInv, PushesAreSegments
<1>2. UNCHANGED <<stream, sender, acks>>
  BY <1>1 DEF ReceiverInput
<1>3. Counts /\ rcv_buf \subseteq rcv_buf \cup {s} /\ rcv_queue \in Seq(Nat)
  BY DEF KInv, Counts
<1>4. CASE ~InWindow(s)
  <2>1. UNCHANGED <<rcv_nxt, rcv_buf, rcv_queue, acklist>>
    BY <1>1, <1>4 DEF ReceiverInput
  <2>2. /\ rcv_nxt' \in Nat /\ rcv_nxt <= rcv_nxt'
        /\ rcv_queue' \in Seq(Nat) /\ Len(rcv_queue') <= RcvWnd
    BY <2>1 DEF KInv, Counts
  <2>3. acklist' \subseteq Nat /\ \A r \in acklist' : Has(r)'
    BY <2>1 DEF KInv, AcksTrue, Has
  <2>4. \A r \in Nat : Has(r) => Has(r)'
    BY <2>1 DEF Has
  <2> QED
    BY <1>1, <1>2, <2>2, <2>3, <2>4, ReceivingKeeps
<1>5. CASE InWindow(s) /\ s < rcv_nxt
  <2>1. UNCHANGED <<rcv_nxt, rcv_buf, rcv_queue>> /\ acklist' = acklist \cup {s}
    BY <1>1, <1>3, <1>5 DEF ReceiverInput, Counts
  <2>2. /\ rcv_nxt' \in Nat /\ rcv_nxt <= rcv_nxt'
        /\ rcv_queue' \in Seq(Nat) /\ Len(rcv_queue') <= RcvWnd
    BY <2>1 DEF KInv, Counts
  <2>3. acklist' \subseteq Nat /\ \A r \in acklist' : Has(r)'
    BY <1>1, <1>5, <2>1 DEF KInv, AcksTrue, Has
  <2>4. \A r \in Nat : Has(r) => Has(r)'
    BY <2>1 DEF Has
  <2> QED
    BY <1>1, <1>2, <2>2, <2>3, <2>4, ReceivingKeeps
<1>6. CASE InWindow(s) /\ s >= rcv_nxt
  <2>1. Moves(rcv_buf \cup {s}, rcv_queue) /\ acklist' = acklist \cup {s}
    BY <1>1, <1>6 DEF ReceiverInput
  <2>2. /\ rcv_nxt' \in Nat /\ rcv_nxt <= rcv_nxt'
        /\ rcv_queue' \in Seq(Nat) /\ Len(rcv_queue') <= RcvWnd
        /\ \A r \in Nat : r < rcv_nxt \/ r \in rcv_buf \cup {s} => r < rcv_nxt' \/ r \in rcv_buf'
    BY <1>3, <2>1, MovesKeeps
  <2>3. acklist' \subseteq Nat /\ \A r \in acklist' : Has(r)'
    BY <1>1, <2>1, <2>2 DEF KInv, AcksTrue
  <2>4. \A r \in Nat : Has(r) => Has(r)'
    BY <2>2
  <2> QED
    BY <1>1, <1>2, <2>2, <2>3, <2>4, ReceivingKeeps
<1> QED
  BY <1>1, <1>3, <1>4, <1>5, <1>6 DEF Counts

LEMMA ikcp_recvKeeps ==
    ASSUME KInv, NEW n \in 1..MaxSegs, ikcp_recv(n) PROVE KInv'
<1> DEFINE rest == SubSeq(rcv_queue, n + 1, Len(rcv_queue))
<1>1. rest \in Seq(Nat) /\ Counts
  BY DEF KInv, Counts, ikcp_recv
<1>2. Moves(rcv_buf, rest) /\ UNCHANGED <<stream, sender, acklist, pushes, acks>>
  BY DEF ikcp_recv
<1> HIDE DEF rest
<1>3. /\ rcv_nxt' \in Nat /\ rcv_nxt <= rcv_nxt'
      /\ rcv_queue' \in Seq(Nat) /\ Len(rcv_queue') <= RcvWnd
      /\ \A r \in Nat : Has(r) => Has(r)'
  BY <1>1, <1>2, MovesKeeps
<1>4. acklist' \subseteq Nat /\ \A r \in acklist' : Has(r)'
  BY <1>2, <1>3 DEF KInv, AcksTrue
<1> QED
  BY <1>2, <1>3, <1>4, ReceivingKeeps

\* A new datagram acknowledges what has come in.
LEMMA ReceiverFlushesKeeps ==
    ASSUME KInv, ReceiverFlushes PROVE KInv'
<1> DEFINE d == [una |-> rcv_nxt, wnd |-> RcvWnd - Len(rcv_queue), sns |-> acklist]
<1>1. /\ acks' = acks \cup {d} /\ acklist' = {}
      /\ UNCHANGED <<stream, sender, rcv_nxt, rcv_buf, rcv_queue, pushes>>
  BY DEF ReceiverFlushes
<1>2. d.una = rcv_nxt /\ d.wnd \in Nat /\ d.sns = acklist
  BY KcpAssumption DEF KInv, Counts
<1> HIDE DEF d
<1>3. UNCHANGED <<snd_una, snd_nxt, snd_buf, rmt_wnd>>
  BY <1>1 DEF sender
<1>4. Counts' /\ PushesAreSegments' /\ NoneForgotten'
  BY <1>1, <1>3 DEF KInv, Counts, PushesAreSegments, NoneForgotten
<1>5. AcksTrue'
  <2>1. rcv_nxt \in Nat /\ AcksTrue
    BY DEF KInv, Counts
  <2>2. acklist \subseteq Nat /\ \A s \in acklist : Has(s)
    BY <2>1, Zenon DEF AcksTrue
  <2>3. d.una \in Nat /\ d.una <= rcv_nxt
    BY <1>2, <2>1
  <2>4. d.sns \subseteq Nat /\ \A s \in d.sns : Has(s)
    BY <1>2, <2>2, Zenon
  <2> QED
    BY <1>1, <1>2, <2>1, <2>3, <2>4 DEF AcksTrue
<1> QED
  BY <1>4, <1>5 DEF KInv

-----------------------------------------------------------------------------
(* The theorem. *)

LEMMA KInvInit == KInit => KInv
BY KcpAssumption DEF KInit, KInv, Counts, AcksTrue, PushesAreSegments, NoneForgotten

LEMMA KInvNext == KInv /\ [KNext]_kvars => KInv'
<1> SUFFICES ASSUME KInv, [KNext]_kvars PROVE KInv'
  OBVIOUS
<1>1. ASSUME UNCHANGED <<stream, sender, rcv_nxt, rcv_buf, rcv_queue, acklist>>,
             pushes' \subseteq pushes, acks' \subseteq acks
      PROVE  KInv'
  <2>1. UNCHANGED <<snd_una, snd_nxt, snd_buf, rmt_wnd>>
    BY <1>1 DEF sender
  <2>2. Counts' /\ PushesAreSegments' /\ NoneForgotten'
    BY <1>1, <2>1 DEF KInv, Counts, PushesAreSegments, NoneForgotten
  <2>3. AcksTrue'
    BY <1>1 DEF KInv, AcksTrue
  <2> QED
    BY <2>2, <2>3 DEF KInv
<1>2. ASSUME NEW n \in 1..MaxSegs, NEW long \in BOOLEAN, ikcp_send(n, long) PROVE KInv'
  BY <1>2, ikcp_sendKeeps
<1>3. ASSUME NEW n \in 1..MaxSegs, ikcp_recv(n) PROVE KInv'
  BY <1>3, ikcp_recvKeeps
<1>4. ASSUME NEW w \in 0..SndWnd, NEW due \in SUBSET snd_buf, NEW probe \in BOOLEAN,
             SenderFlushes(w, due, probe)
      PROVE  KInv'
  BY <1>4, SenderFlushesKeeps
<1>5. CASE ReceiverFlushes
  BY <1>5, ReceiverFlushesKeeps
<1>6. ASSUME NEW s \in pushes, PushArrives(s) PROVE KInv'
  BY <1>6, PushArrivesKeeps
<1>7. CASE AskArrives
  BY <1>1, <1>7 DEF AskArrives
<1>8. ASSUME NEW d \in acks, AckArrives(d) PROVE KInv'
  BY <1>8, AckArrivesKeeps
<1>9. CASE Loses
  <2>1. pushes' \subseteq pushes /\ acks' \subseteq acks
    BY <1>9 DEF Loses
  <2>2. UNCHANGED <<stream, sender, rcv_nxt, rcv_buf, rcv_queue, acklist>>
    BY <1>9 DEF Loses, receiver
  <2> QED
    BY <1>1, <2>1, <2>2
<1>10. CASE UNCHANGED kvars
  BY <1>1, <1>10 DEF kvars, sender
<1> QED
  BY <1>2, <1>3, <1>4, <1>5, <1>6, <1>7, <1>8, <1>9, <1>10 DEF KNext

\* The sender forgets no segment that the receiver does not have: the theorem of
\* selective repeat that ikcp_parse_una, ikcp_parse_ack and ikcp_shrink_buf rest on.
THEOREM SegmentsAreKept == KSpec => []NoneForgotten
<1>1. KInv => NoneForgotten
  BY DEF KInv
<1> QED
  BY KInvInit, KInvNext, <1>1, PTL DEF KSpec

-----------------------------------------------------------------------------
(* Messages come out whole, once and in order. *)

\* How many segments ikcp_recv has returned.
Taken == rcv_nxt - Len(rcv_queue)

\* The segments of a message are next to each other, numbered down to 0 by frg,
\* and messages are numbered from 1.
MessagesInRow(s) ==
    /\ s # <<>> => s[1].msg = 1
    /\ \A i \in 1..Len(s) :
        /\ i + s[i].frg <= Len(s)
        /\ i < Len(s) /\ s[i].frg = 0 => s[i + 1].msg = s[i].msg + 1
    /\ \A i, j \in 1..Len(s) : i <= j =>
        /\ s[i].msg <= s[j].msg
        /\ s[i].msg = s[j].msg <=> j <= i + s[i].frg
        /\ j <= i + s[i].frg => s[j].frg = s[i].frg - (j - i)

\* Nothing is on its way or in a buffer that was not put into the stream.
InStream ==
    /\ snd_nxt <= Len(stream) /\ rcv_nxt <= Len(stream)
    /\ snd_buf \cup pushes \cup rcv_buf \subseteq 0..Len(stream) - 1

\* rcv_queue holds the segments below rcv_nxt.
QueueInOrder ==
    /\ Len(rcv_queue) <= rcv_nxt
    /\ \A i \in 1..Len(rcv_queue) : rcv_queue[i] = Taken + i - 1

\* What was returned are the first messages of the stream, up to the end of one.
GotMessages ==
    /\ IF Taken = 0 THEN got = <<>>
       ELSE stream[Taken].frg = 0 /\ stream[Taken].msg = Len(got)
    /\ \A k \in DOMAIN got :
        /\ Len(got[k]) \in Nat \ {0} /\ DOMAIN got[k] = 1..Len(got[k]) /\ got[k][1] \in Nat
        /\ \A i \in DOMAIN got[k] : got[k][i] = got[k][1] + i - 1
        /\ {i \in DOMAIN stream : stream[i].msg = k} = got[k][1] + 1..got[k][1] + Len(got[k])

WholeInv ==
    /\ KInv /\ got \in Seq(Seq(Nat))
    /\ MessagesInRow(stream) /\ InStream /\ QueueInOrder /\ GotMessages

LEMMA Joined ==
    ASSUME NEW S, NEW s \in Seq(S), NEW t \in Seq(S)
    PROVE  /\ s \o t \in Seq(S) /\ Len(s \o t) = Len(s) + Len(t)
           /\ \A i \in 1..Len(s) : (s \o t)[i] = s[i]
           /\ \A i \in Len(s) + 1..Len(s) + Len(t) : (s \o t)[i] = t[i - Len(s)]
OBVIOUS

LEMMA Split ==
    ASSUME NEW S, NEW s \in Seq(S), NEW n \in 1..Len(s)
    PROVE  /\ SubSeq(s, 1, n) \in Seq(S) /\ Len(SubSeq(s, 1, n)) = n
           /\ \A i \in 1..n : SubSeq(s, 1, n)[i] = s[i]
           /\ SubSeq(s, n + 1, Len(s)) \in Seq(S) /\ Len(SubSeq(s, n + 1, Len(s))) = Len(s) - n
           /\ \A i \in 1..Len(s) - n : SubSeq(s, n + 1, Len(s))[i] = s[i + n]
OBVIOUS

LEMMA SegmentTypes ==
    ASSUME Counts
    PROVE  /\ Len(stream) \in Nat /\ DOMAIN stream = 1..Len(stream)
           /\ \A i \in 1..Len(stream) : stream[i].frg \in Nat /\ stream[i].msg \in Nat
<1> DEFINE Segment == [frg : Nat, msg : Nat, long : BOOLEAN]
<1>1. stream \in Seq(Segment)
  BY DEF Counts
<1>2. \A r \in Segment : r.frg \in Nat /\ r.msg \in Nat
  OBVIOUS
<1> HIDE DEF Segment
<1>3. Len(stream) \in Nat /\ DOMAIN stream = 1..Len(stream) /\ \A i \in 1..Len(stream) : stream[i] \in Segment
  BY <1>1
<1> QED
  BY <1>2, <1>3

-----------------------------------------------------------------------------
(* ikcp_send. *)

\* What ikcp_send leaves of the stream and adds to it.
LEMMA ikcp_sendAdds ==
    ASSUME WholeInv, NEW n \in 1..MaxSegs, NEW long \in BOOLEAN, ikcp_send(n, long)
    PROVE  \E num \in Nat :
             /\ num = IF stream = <<>> THEN 1 ELSE stream[Len(stream)].msg + 1
             /\ Len(stream') = Len(stream) + n /\ DOMAIN stream' = 1..Len(stream) + n
             /\ \A i \in 1..Len(stream) : stream'[i] = stream[i]
             /\ \A i \in Len(stream) + 1..Len(stream) + n :
                    stream'[i].msg = num /\ stream'[i].frg = Len(stream) + n - i
<1> DEFINE num == IF stream = <<>> THEN 1 ELSE stream[Len(stream)].msg + 1
           more == [i \in 1..n |-> [frg |-> frg(n, i), msg |-> num, long |-> long]]
           Segment == [frg : Nat, msg : Nat, long : BOOLEAN]
<1>1. stream \in Seq(Segment) /\ Len(stream) \in Nat /\ n \in Nat
  BY KcpAssumption DEF WholeInv, KInv, Counts
<1>2. num \in Nat
  <2>1. stream # <<>> => Len(stream) \in 1..Len(stream)
    BY <1>1
  <2> QED
    BY <2>1, SegmentTypes DEF WholeInv, KInv
<1> HIDE DEF num
<1>3. \A i \in 1..n : more[i].msg = num /\ more[i].frg = n - i
  BY DEF frg
<1>4. \A i \in 1..n : more[i] \in Segment
  <2>1. \A i \in 1..n : frg(n, i) \in Nat
    BY <1>1 DEF frg
  <2> QED
    BY <1>2, <2>1
<1> HIDE DEF Segment
<1>5. more \in Seq(Segment) /\ Len(more) = n
  BY <1>1, <1>4
<1>6. stream' = stream \o more
  BY DEF ikcp_send, num
<1> HIDE DEF more
<1>7. /\ Len(stream') = Len(stream) + n /\ DOMAIN stream' = 1..Len(stream) + n
      /\ \A i \in 1..Len(stream) : stream'[i] = stream[i]
      /\ \A i \in Len(stream) + 1..Len(stream) + n : stream'[i] = more[i - Len(stream)]
  <2> DEFINE whole == stream \o more
  <2>1. /\ whole \in Seq(Segment) /\ Len(whole) = Len(stream) + Len(more)
        /\ \A i \in 1..Len(stream) : whole[i] = stream[i]
        /\ \A i \in Len(stream) + 1..Len(stream) + Len(more) : whole[i] = more[i - Len(stream)]
    BY <1>1, <1>5, Joined
  <2> HIDE DEF whole
  <2>2. DOMAIN whole = 1..Len(whole)
    BY <2>1
  <2> QED
    BY <1>5, <1>6, <2>1, <2>2 DEF whole
<1>8. \A i \in Len(stream) + 1..Len(stream) + n : n - (i - Len(stream)) = Len(stream) + n - i
                                                  /\ i - Len(stream) \in 1..n
  BY <1>1
<1> QED
  BY <1>2, <1>3, <1>7, <1>8, SMTT(60) DEF num

LEMMA ikcp_sendWhole ==
    ASSUME WholeInv, NEW n \in 1..MaxSegs, NEW long \in BOOLEAN, ikcp_send(n, long)
    PROVE  WholeInv'
<1> DEFINE L == Len(stream)
<1>1. PICK num \in Nat :
        /\ num = IF stream = <<>> THEN 1 ELSE stream[L].msg + 1
        /\ Len(stream') = L + n /\ DOMAIN stream' = 1..L + n
        /\ \A i \in 1..L : stream'[i] = stream[i]
        /\ \A i \in L + 1..L + n : stream'[i].msg = num /\ stream'[i].frg = L + n - i
  BY ikcp_sendAdds
<1>2. /\ L \in Nat /\ n \in Nat \ {0} /\ DOMAIN stream = 1..L /\ (stream = <<>> <=> L = 0)
      /\ \A i \in 1..L : stream[i].frg \in Nat /\ stream[i].msg \in Nat
  BY SegmentTypes, KcpAssumption, SMTT(60) DEF WholeInv, KInv, Counts
<1>3. /\ L > 0 => stream[1].msg = 1 /\ num = stream[L].msg + 1
      /\ L = 0 => num = 1
      /\ \A i \in 1..L :
          /\ i + stream[i].frg <= L
          /\ i < L /\ stream[i].frg = 0 => stream[i + 1].msg = stream[i].msg + 1
      /\ \A i, j \in 1..L : i <= j =>
          /\ stream[i].msg <= stream[j].msg
          /\ stream[i].msg = stream[j].msg <=> j <= i + stream[i].frg
          /\ j <= i + stream[i].frg => stream[j].frg = stream[i].frg - (j - i)
  BY <1>1, <1>2 DEF WholeInv, MessagesInRow
<1>4. \A i \in 1..L : stream[i].msg < num
  <2>1. \A i \in 1..L : stream[i].msg <= stream[L].msg
    BY <1>2, <1>3
  <2> QED
    BY <1>2, <1>3, <2>1
<1> HIDE DEF L
<1>5. MessagesInRow(stream')
  <2>1. Len(stream') = L + n /\ stream' # <<>> /\ stream'[1].msg = 1
    <3>1. L + n # 0 /\ 1 \in 1..L + n
      BY <1>2
    <3>2. CASE L = 0
      BY <1>1, <1>2, <1>3, <3>1, <3>2
    <3>3. CASE L # 0
      BY <1>1, <1>2, <1>3, <3>1, <3>3
    <3> QED
      BY <3>2, <3>3
  <2>2. ASSUME NEW i \in 1..L + n
        PROVE  /\ i + stream'[i].frg <= L + n
               /\ i < L + n /\ stream'[i].frg = 0 => stream'[i + 1].msg = stream'[i].msg + 1
    <3>1. CASE i < L
      <4>1. i \in 1..L /\ i + 1 \in 1..L
        BY <1>2, <3>1
      <4> QED
        BY <1>1, <1>2, <1>3, <4>1
    <3>2. CASE i = L
      <4>1. i \in 1..L /\ i + 1 \in L + 1..L + n
        BY <1>2, <3>2
      <4> QED
        BY <1>1, <1>2, <1>3, <3>2, <4>1
    <3>3. CASE i > L
      <4>1. i \in L + 1..L + n
        BY <1>2, <3>3
      <4> QED
        BY <1>1, <1>2, <4>1
    <3> QED
      BY <1>2, <3>1, <3>2, <3>3
  <2>3. ASSUME NEW i \in 1..L + n, NEW j \in 1..L + n, i <= j
        PROVE  /\ stream'[i].msg <= stream'[j].msg
               /\ stream'[i].msg = stream'[j].msg <=> j <= i + stream'[i].frg
               /\ j <= i + stream'[i].frg => stream'[j].frg = stream'[i].frg - (j - i)
    <3>1. CASE j <= L
      <4>1. i \in 1..L /\ j \in 1..L
        BY <1>2, <2>3, <3>1
      <4> QED
        BY <1>1, <1>3, <2>3, <4>1
    <3>2. CASE i <= L /\ j > L
      <4>1. i \in 1..L /\ j \in L + 1..L + n
        BY <1>2, <3>2
      <4>2. /\ stream'[i] = stream[i] /\ stream'[j].msg = num /\ stream[i].msg < num
            /\ i + stream[i].frg <= L /\ stream[i].frg \in Nat /\ stream[i].msg \in Nat
        BY <1>1, <1>2, <1>3, <1>4, <4>1
      <4>3. stream'[i].msg < num /\ stream'[j].msg = num /\ stream'[i].msg \in Nat
        BY <4>2
      <4>4. stream'[i].msg <= stream'[j].msg /\ stream'[i].msg # stream'[j].msg
        BY <4>3
      <4>5. i + stream'[i].frg <= L
        BY <4>2
      <4>6. ~ (j <= i + stream'[i].frg)
        BY <1>2, <3>2, <4>1, <4>2, <4>5
      <4> QED
        BY <4>4, <4>6
    <3>3. CASE i > L
      <4>1. i \in L + 1..L + n /\ j \in L + 1..L + n
        BY <1>2, <2>3, <3>3
      <4> QED
        BY <1>1, <1>2, <2>3, <4>1, SMTT(60)
    <3> QED
      BY <1>2, <2>3, <3>1, <3>2, <3>3
  <2> QED
    BY <2>1, <2>2, <2>3 DEF MessagesInRow
<1>6. UNCHANGED <<snd_nxt, snd_buf, rcv_nxt, rcv_buf, rcv_queue, got, pushes>>
  BY DEF ikcp_send, sender, receiver
<1>7. KInv'
  BY ikcp_sendKeeps DEF WholeInv
<1>8. InStream'
  <2>1. 0..L - 1 \subseteq 0..L + n - 1
    BY <1>2
  <2>2. snd_nxt <= L /\ rcv_nxt <= L /\ snd_buf \cup pushes \cup rcv_buf \subseteq 0..L - 1
    BY DEF WholeInv, InStream, L
  <2>3. snd_nxt \in Nat /\ rcv_nxt \in Nat
    BY DEF WholeInv, KInv, Counts
  <2> QED
    BY <1>1, <1>2, <1>6, <2>1, <2>2, <2>3 DEF InStream
<1>9. QueueInOrder' /\ Taken' = Taken
  BY <1>6 DEF WholeInv, QueueInOrder, Taken
<1>10. Taken \in 0..L
  <2>1. rcv_nxt \in Nat /\ rcv_nxt <= L /\ Len(rcv_queue) \in Nat /\ Len(rcv_queue) <= rcv_nxt
    BY DEF WholeInv, KInv, Counts, InStream, QueueInOrder, L
  <2> QED
    BY <1>2, <2>1 DEF Taken
<1>11. Taken # 0 => Taken \in 1..L /\ stream'[Taken] = stream[Taken]
  BY <1>1, <1>2, <1>10
<1>12. \A k \in DOMAIN got : k < num /\ k \in Nat
  <2>1. got \in Seq(Seq(Nat)) /\ (Taken = 0 => got = <<>>) /\ (Taken # 0 => stream[Taken].msg = Len(got))
    BY DEF WholeInv, GotMessages
  <2>2. Taken # 0 => Len(got) < num
    BY <1>4, <1>11, <2>1
  <2>3. Len(got) \in Nat /\ DOMAIN got = 1..Len(got) /\ (got = <<>> => Len(got) = 0)
    BY <2>1
  <2> QED
    BY <1>1, <2>1, <2>2, <2>3
<1>13. \A k \in DOMAIN got : {i \in DOMAIN stream' : stream'[i].msg = k} = {i \in DOMAIN stream : stream[i].msg = k}
  <2> SUFFICES ASSUME NEW k \in DOMAIN got, NEW i
               PROVE  i \in DOMAIN stream' /\ stream'[i].msg = k <=> i \in DOMAIN stream /\ stream[i].msg = k
    OBVIOUS
  <2>1. i \in 1..L + n <=> i \in 1..L \/ i \in L + 1..L + n
    BY <1>2
  <2>2. i \in L + 1..L + n => stream'[i].msg # k
    BY <1>1, <1>12
  <2> QED
    BY <1>1, <1>2, <2>1, <2>2
<1>14. GotMessages'
  BY <1>6, <1>9, <1>11, <1>13 DEF WholeInv, GotMessages
<1> QED
  BY <1>5, <1>6, <1>7, <1>8, <1>9, <1>14 DEF WholeInv

-----------------------------------------------------------------------------
(* The receiver. *)

\* Segments join the queue in order, and only segments of the stream.
LEMMA MovesInOrder ==
    ASSUME WholeInv, NEW buf \in SUBSET (0..Len(stream) - 1), NEW queue \in Seq(Nat),
           NEW b \in Nat, b = rcv_nxt - Len(queue),
           \A i \in 1..Len(queue) : queue[i] = b + i - 1, Moves(buf, queue)
    PROVE  /\ rcv_nxt' <= Len(stream) /\ rcv_buf' \subseteq 0..Len(stream) - 1
           /\ QueueInOrder' /\ Taken' = b
<1>1. PICK k \in 0..RcvWnd - Len(queue) :
        /\ rcv_nxt..rcv_nxt + k - 1 \subseteq buf
        /\ rcv_buf' = buf \ (rcv_nxt..rcv_nxt + k - 1) /\ rcv_nxt' = rcv_nxt + k
        /\ rcv_queue' = queue \o [i \in 1..k |-> rcv_nxt + i - 1]
  BY DEF Moves
<1>2. /\ k \in Nat /\ rcv_nxt \in Nat /\ rcv_nxt <= Len(stream) /\ Len(stream) \in Nat
      /\ Len(queue) \in Nat
  BY KcpAssumption DEF WholeInv, KInv, Counts, InStream
<1>3. rcv_nxt' <= Len(stream)
  <2>1. CASE k = 0
    BY <1>1, <1>2, <2>1
  <2>2. CASE k # 0
    <3>1. rcv_nxt + k - 1 \in rcv_nxt..rcv_nxt + k - 1
      BY <1>2, <2>2
    <3>2. rcv_nxt + k - 1 \in 0..Len(stream) - 1
      BY <1>1, <3>1
    <3> QED
      BY <1>1, <1>2, <3>2
  <2> QED
    BY <2>1, <2>2
<1>4. rcv_buf' \subseteq 0..Len(stream) - 1
  BY <1>1
<1> DEFINE moved == [i \in 1..k |-> rcv_nxt + i - 1]
<1>5. moved \in Seq(Nat) /\ Len(moved) = k /\ \A i \in 1..k : moved[i] = rcv_nxt + i - 1
  BY <1>2
<1> HIDE DEF moved
<1>6. /\ Len(queue \o moved) = Len(queue) + k
      /\ \A i \in 1..Len(queue) : (queue \o moved)[i] = queue[i]
      /\ \A i \in Len(queue) + 1..Len(queue) + k : (queue \o moved)[i] = moved[i - Len(queue)]
  BY <1>5, Joined
<1>7. rcv_queue' = queue \o moved
  BY <1>1 DEF moved
<1>8. Len(rcv_queue') = Len(queue) + k
  BY <1>6, <1>7
<1>9. Taken' = b
  BY <1>1, <1>2, <1>8 DEF Taken
<1>10. \A i \in 1..Len(queue) + k : rcv_queue'[i] = b + i - 1
  <2> SUFFICES ASSUME NEW i \in 1..Len(queue) + k PROVE rcv_queue'[i] = b + i - 1
    OBVIOUS
  <2>1. CASE i <= Len(queue)
    BY <1>2, <1>6, <1>7, <2>1
  <2>2. CASE i > Len(queue)
    <3>1. i \in Len(queue) + 1..Len(queue) + k /\ i - Len(queue) \in 1..k
      BY <1>2, <2>2
    <3>2. rcv_queue'[i] = rcv_nxt + (i - Len(queue)) - 1
      BY <1>5, <1>6, <1>7, <3>1
    <3> QED
      BY <1>2, <3>2
  <2> QED
    BY <1>2, <2>1, <2>2
<1>11. Len(rcv_queue') <= rcv_nxt'
  BY <1>1, <1>2, <1>8
<1>12. QueueInOrder'
  BY <1>8, <1>9, <1>10, <1>11 DEF QueueInOrder
<1> QED
  BY <1>3, <1>4, <1>9, <1>12

\* The first message of the queue is as long as its first frg says.
LEMMA ikcp_recvTakes ==
    ASSUME WholeInv, NEW n \in 1..MaxSegs, ikcp_recv(n)
    PROVE  /\ n \in 1..Len(rcv_queue) /\ Taken \in Nat /\ Taken + n \in 1..Len(stream)
           /\ stream[Taken + n].frg = 0 /\ stream[Taken + n].msg = Len(got) + 1
           /\ {i \in DOMAIN stream : stream[i].msg = Len(got) + 1} = Taken + 1..Taken + n
<1> DEFINE L == Len(stream)
           b == Taken
<1>1. n \in 1..Len(rcv_queue) /\ Queued(n).frg = 0 /\ \A i \in 1..n - 1 : Queued(i).frg # 0
  BY DEF ikcp_recv
<1>2. /\ L \in Nat /\ DOMAIN stream = 1..L
      /\ \A i \in 1..L : stream[i].frg \in Nat /\ stream[i].msg \in Nat
  BY SegmentTypes DEF WholeInv, KInv
<1>3. /\ rcv_nxt \in Nat /\ rcv_nxt <= L /\ Len(rcv_queue) \in Nat /\ Len(rcv_queue) <= rcv_nxt
      /\ b = rcv_nxt - Len(rcv_queue)
      /\ \A i \in 1..Len(rcv_queue) : rcv_queue[i] = b + i - 1
  BY DEF WholeInv, KInv, Counts, InStream, QueueInOrder, Taken
<1>4. (b = 0 => got = <<>>) /\ (b # 0 => stream[b].frg = 0 /\ stream[b].msg = Len(got))
  BY DEF WholeInv, GotMessages
<1>5. MessagesInRow(stream) /\ got \in Seq(Seq(Nat))
  BY DEF WholeInv
<1> HIDE DEF b
<1>6. b \in Nat /\ b + n <= L /\ n \in Nat \ {0} /\ b + 1 \in 1..L /\ b + n \in 1..L
  BY <1>1, <1>2, <1>3
<1>7. \A i \in 1..n : Queued(i) = stream[b + i]
  <2> SUFFICES ASSUME NEW i \in 1..n PROVE Queued(i) = stream[b + i]
    OBVIOUS
  <2>1. i \in 1..Len(rcv_queue) /\ (b + i - 1) + 1 = b + i
    BY <1>1, <1>3, <1>6
  <2> QED
    BY <1>3, <2>1 DEF Queued
<1>8. stream[b + n].frg = 0 /\ \A i \in 1..n - 1 : stream[b + i].frg # 0
  BY <1>1, <1>6, <1>7, SMTT(60)
<1> DEFINE f == stream[b + 1].frg
           k == stream[b + 1].msg
<1>9. f \in Nat /\ k \in Nat /\ b + 1 + f <= L
  BY <1>2, <1>5, <1>6 DEF MessagesInRow
<1>10. \A j \in 1..L : b + 1 <= j =>
         /\ k <= stream[j].msg
         /\ k = stream[j].msg <=> j <= b + 1 + f
         /\ j <= b + 1 + f => stream[j].frg = f - (j - (b + 1))
  BY <1>5, <1>6 DEF MessagesInRow
<1> HIDE DEF f, k
<1>11. n = f + 1
  <2>1. ASSUME n > f + 1 PROVE FALSE
    <3>1. PICK j \in 1..L : j = b + f + 1
      BY <1>6, <1>9, <2>1
    <3>a. b + 1 <= j /\ j <= b + 1 + f
      BY <1>6, <1>9, <3>1
    <3>2. stream[j].frg = f - (j - (b + 1))
      BY <1>10, <3>a
    <3>3. stream[j].frg = 0
      BY <1>6, <1>9, <3>1, <3>2
    <3>4. f + 1 \in 1..n - 1 /\ b + (f + 1) = j
      BY <1>6, <1>9, <2>1, <3>1
    <3> QED
      BY <1>8, <3>3, <3>4
  <2>2. ASSUME n < f + 1 PROVE FALSE
    <3>1. PICK j \in 1..L : j = b + n
      BY <1>6
    <3>a. b + 1 <= j /\ j <= b + 1 + f
      BY <1>6, <1>9, <2>2, <3>1
    <3>2. stream[j].frg = f - (j - (b + 1))
      BY <1>10, <3>a
    <3>3. stream[j].frg = 0
      BY <1>8, <3>1
    <3>4. f - (j - (b + 1)) = 0
      BY <3>2, <3>3
    <3> QED
      BY <1>6, <1>9, <2>2, <3>1, <3>4
  <2> QED
    BY <1>6, <1>9, <2>1, <2>2
<1>12. k = Len(got) + 1
  <2>1. CASE b = 0
    <3>1. stream # <<>> /\ stream[1].msg = 1
      BY <1>2, <1>5, <1>6 DEF MessagesInRow
    <3> QED
      BY <1>4, <2>1, <3>1 DEF k
  <2>2. CASE b # 0
    <3>1. b \in 1..L /\ b < L
      BY <1>6, <2>2
    <3>2. stream[b + 1].msg = stream[b].msg + 1
      BY <1>4, <1>5, <2>2, <3>1 DEF MessagesInRow
    <3> QED
      BY <1>4, <2>2, <3>2 DEF k
  <2> QED
    BY <2>1, <2>2
<1>13. ASSUME NEW i \in 1..L PROVE stream[i].msg = k <=> i \in b + 1..b + n
  <2>1. CASE i <= b
    <3>1. b \in 1..L /\ b # 0
      BY <1>6, <2>1
    <3>2. stream[i].msg <= stream[b].msg /\ stream[b].msg = Len(got)
      BY <1>4, <1>5, <2>1, <3>1 DEF MessagesInRow
    <3>3. Len(got) \in Nat /\ stream[i].msg \in Nat
      BY <1>2, <1>5
    <3> QED
      BY <1>6, <1>12, <2>1, <3>2, <3>3, SMTT(60)
  <2>2. CASE i > b
    <3>1. b + 1 <= i
      BY <1>6, <2>2
    <3>2. stream[i].msg = k <=> i <= b + 1 + f
      BY <1>10, <3>1
    <3> QED
      BY <1>6, <1>9, <1>11, <3>1, <3>2
  <2> QED
    BY <1>6, <2>1, <2>2
<1>14. b + n \in b + 1..b + n /\ stream[b + n].msg = Len(got) + 1
  BY <1>6, <1>12, <1>13
<1>15. {i \in DOMAIN stream : stream[i].msg = Len(got) + 1} = b + 1..b + n
  <2>1. b + 1..b + n \subseteq 1..L
    BY <1>2, <1>6
  <2> QED
    BY <1>2, <1>12, <1>13, <2>1
<1> QED
  BY <1>1, <1>6, <1>8, <1>14, <1>15 DEF b

LEMMA ikcp_recvWhole == ASSUME WholeInv, NEW n \in 1..MaxSegs, ikcp_recv(n) PROVE WholeInv'
<1> DEFINE message == SubSeq(rcv_queue, 1, n)
           rest == SubSeq(rcv_queue, n + 1, Len(rcv_queue))
<1>1. /\ got' = Append(got, message) /\ Moves(rcv_buf, rest)
      /\ UNCHANGED <<stream, snd_nxt, snd_buf, pushes>>
  BY DEF ikcp_recv, sender
<1>2. /\ n \in 1..Len(rcv_queue) /\ Taken \in Nat /\ Taken + n \in 1..Len(stream)
      /\ stream[Taken + n].frg = 0 /\ stream[Taken + n].msg = Len(got) + 1
      /\ {i \in DOMAIN stream : stream[i].msg = Len(got) + 1} = Taken + 1..Taken + n
  BY ikcp_recvTakes
<1>3. /\ rcv_queue \in Seq(Nat) /\ Len(rcv_queue) \in Nat /\ rcv_nxt \in Nat
      /\ Taken = rcv_nxt - Len(rcv_queue)
      /\ \A i \in 1..Len(rcv_queue) : rcv_queue[i] = Taken + i - 1
  BY DEF WholeInv, KInv, Counts, QueueInOrder, Taken
<1>4. /\ message \in Seq(Nat) /\ Len(message) = n /\ DOMAIN message = 1..n
      /\ \A i \in 1..n : message[i] = rcv_queue[i]
  BY <1>2, <1>3, SMTT(60)
<1>5. /\ rest \in Seq(Nat) /\ Len(rest) = Len(rcv_queue) - n
      /\ \A i \in 1..Len(rcv_queue) - n : rest[i] = rcv_queue[i + n]
  <2>1. rcv_queue \in Seq(Nat) /\ n \in 1..Len(rcv_queue)
    BY <1>2, <1>3
  <2> QED
    BY <2>1, Split
<1> HIDE DEF message, rest
<1>6. PICK b \in Nat : b = Taken + n
  BY <1>2
<1>7. b = rcv_nxt - Len(rest) /\ \A i \in 1..Len(rest) : rest[i] = b + i - 1
  <2>1. b = rcv_nxt - Len(rest)
    BY <1>2, <1>3, <1>5, <1>6
  <2>2. ASSUME NEW i \in 1..Len(rest) PROVE rest[i] = b + i - 1
    <3>1. /\ i + n \in 1..Len(rcv_queue) /\ i \in 1..Len(rcv_queue) - n
          /\ Taken + (i + n) - 1 = b + i - 1
      BY <1>2, <1>3, <1>5, <1>6
    <3>2. rest[i] = rcv_queue[i + n] /\ rcv_queue[i + n] = Taken + (i + n) - 1
      BY <1>3, <1>5, <3>1
    <3> QED
      BY <3>1, <3>2
  <2> QED
    BY <2>1, <2>2
<1>8. rcv_buf \in SUBSET (0..Len(stream) - 1)
  BY DEF WholeInv, InStream
<1>9. /\ rcv_nxt' <= Len(stream) /\ rcv_buf' \subseteq 0..Len(stream) - 1
      /\ QueueInOrder' /\ Taken' = b
  BY <1>1, <1>5, <1>7, <1>8, MovesInOrder
<1>10. KInv' /\ MessagesInRow(stream') /\ InStream'
  <2>1. KInv'
    BY ikcp_recvKeeps DEF WholeInv
  <2> QED
    BY <1>1, <1>9, <2>1 DEF WholeInv, InStream
<1>11. /\ got \in Seq(Seq(Nat)) /\ got' \in Seq(Seq(Nat)) /\ Len(got') = Len(got) + 1
       /\ DOMAIN got' = 1..Len(got) + 1 /\ DOMAIN got = 1..Len(got) /\ Len(got) \in Nat
       /\ \A k \in 1..Len(got) : got'[k] = got[k]
       /\ got'[Len(got) + 1] = message
  BY <1>1, <1>4 DEF WholeInv
<1>12. \A i \in 1..n : message[i] = Taken + i - 1
  <2> SUFFICES ASSUME NEW i \in 1..n PROVE message[i] = Taken + i - 1
    OBVIOUS
  <2>1. i \in 1..Len(rcv_queue)
    BY <1>2, <1>3
  <2> QED
    BY <1>3, <1>4, <2>1
<1>13. message[1] = Taken
  <2>1. 1 \in 1..n /\ Taken + 1 - 1 = Taken
    BY <1>2
  <2> HIDE DEF message
  <2> QED
    BY <1>12, <2>1
<1>14. GotMessages'
  <2>1. Taken' # 0 /\ stream'[Taken'].frg = 0 /\ stream'[Taken'].msg = Len(got')
    BY <1>1, <1>2, <1>6, <1>9, <1>11
  <2>2. ASSUME NEW k \in DOMAIN got'
        PROVE  /\ Len(got'[k]) \in Nat \ {0} /\ DOMAIN got'[k] = 1..Len(got'[k]) /\ got'[k][1] \in Nat
               /\ \A i \in DOMAIN got'[k] : got'[k][i] = got'[k][1] + i - 1
               /\ {i \in DOMAIN stream' : stream'[i].msg = k} = got'[k][1] + 1..got'[k][1] + Len(got'[k])
    <3>1. CASE k = Len(got) + 1
      BY <1>1, <1>2, <1>4, <1>11, <1>12, <1>13, <3>1, SMTT(60)
    <3>2. CASE k # Len(got) + 1
      <4>1. k \in DOMAIN got /\ got'[k] = got[k]
        BY <1>11, <3>2
      <4> QED
        BY <1>1, <4>1 DEF WholeInv, GotMessages
    <3> QED
      BY <3>1, <3>2
  <2> QED
    BY <2>1, <2>2 DEF GotMessages
<1> QED
  BY <1>1, <1>9, <1>10, <1>11, <1>14 DEF WholeInv

LEMMA PushArrivesWhole == ASSUME WholeInv, NEW s \in pushes, PushArrives(s) PROVE WholeInv'
<1>1. ReceiverInput(s) /\ pushes' \subseteq pushes /\ UNCHANGED <<stream, snd_nxt, snd_buf, got>>
  BY DEF PushArrives, ReceiverInput, sender
<1>2. KInv'
  BY PushArrivesKeeps DEF WholeInv
<1>3. CASE UNCHANGED <<rcv_nxt, rcv_buf, rcv_queue>>
  BY <1>1, <1>2, <1>3 DEF WholeInv, InStream, QueueInOrder, GotMessages, Taken
<1>4. CASE Moves(rcv_buf \cup {s}, rcv_queue)
  <2>1. rcv_buf \cup {s} \in SUBSET (0..Len(stream) - 1) /\ rcv_queue \in Seq(Nat)
    BY DEF WholeInv, InStream, KInv, Counts
  <2>2. PICK b \in Nat : b = Taken
    <3>1. rcv_nxt \in Nat /\ Len(rcv_queue) \in Nat /\ Len(rcv_queue) <= rcv_nxt
      BY DEF WholeInv, KInv, Counts, QueueInOrder
    <3> QED
      BY <3>1 DEF Taken
  <2>3. b = rcv_nxt - Len(rcv_queue) /\ \A i \in 1..Len(rcv_queue) : rcv_queue[i] = b + i - 1
    BY <2>2 DEF WholeInv, QueueInOrder, Taken
  <2>4. /\ rcv_nxt' <= Len(stream) /\ rcv_buf' \subseteq 0..Len(stream) - 1
        /\ QueueInOrder' /\ Taken' = b
    BY <1>4, <2>1, <2>3, MovesInOrder
  <2>5. InStream'
    BY <1>1, <2>4 DEF WholeInv, InStream
  <2>6. GotMessages'
    BY <1>1, <2>2, <2>4 DEF WholeInv, GotMessages
  <2> QED
    BY <1>1, <1>2, <2>4, <2>5, <2>6 DEF WholeInv
<1> QED
  BY <1>1, <1>3, <1>4 DEF ReceiverInput

-----------------------------------------------------------------------------
(* The sender and the theorem. *)

LEMMA SenderFlushesWhole ==
    ASSUME WholeInv, NEW w \in 0..SndWnd, NEW due \in SUBSET snd_buf, NEW probe \in BOOLEAN,
           SenderFlushes(w, due, probe)
    PROVE  WholeInv'
<1> DEFINE nxt == Most(snd_nxt, Least(snd_una + Least(w, rmt_wnd), Len(stream)))
<1>1. /\ snd_nxt' = nxt /\ snd_buf' = snd_buf \cup (snd_nxt..nxt - 1)
      /\ pushes' = pushes \cup (snd_nxt..nxt - 1) \cup due
      /\ UNCHANGED <<stream, rcv_nxt, rcv_buf, rcv_queue, got>>
  BY DEF SenderFlushes, receiver
<1>2. nxt <= Len(stream) /\ snd_nxt \in Nat /\ Len(stream) \in Nat /\ nxt \in Nat
  <2>1. /\ snd_nxt \in Nat /\ snd_nxt <= Len(stream) /\ snd_una \in Nat /\ rmt_wnd \in Nat
        /\ Len(stream) \in Nat /\ w \in Nat
    BY KcpAssumption DEF WholeInv, KInv, Counts, InStream
  <2> QED
    BY <2>1 DEF Most, Least
<1> HIDE DEF nxt
<1>3. snd_nxt..nxt - 1 \subseteq 0..Len(stream) - 1
  BY <1>2
<1>4. InStream'
  BY <1>1, <1>2, <1>3 DEF WholeInv, InStream
<1>5. KInv'
  BY SenderFlushesKeeps DEF WholeInv
<1> QED
  BY <1>1, <1>4, <1>5 DEF WholeInv, QueueInOrder, GotMessages, Taken

\* Where the stream, the queues of the receiver and what it returned stay.
LEMMA NothingReceived ==
    ASSUME WholeInv, KInv', UNCHANGED <<stream, snd_nxt, rcv_nxt, rcv_buf, rcv_queue, got>>,
           snd_buf' \subseteq snd_buf, pushes' \subseteq pushes
    PROVE  WholeInv'
BY DEF WholeInv, InStream, QueueInOrder, GotMessages, Taken

LEMMA WholeInit == KInit => WholeInv
<1> SUFFICES ASSUME KInit PROVE WholeInv
  OBVIOUS
<1>1. KInv
  BY KInvInit
<1>2. Len(stream) = 0 /\ Len(rcv_queue) = 0
  BY DEF KInit
<1>3. MessagesInRow(stream)
  BY <1>2 DEF KInit, MessagesInRow
<1>4. InStream
  BY <1>2 DEF KInit, InStream
<1>5. Taken = 0 /\ QueueInOrder
  <2>1. rcv_nxt = 0 /\ Len(rcv_queue) = 0
    BY <1>2 DEF KInit
  <2>2. Taken = 0
    BY <2>1 DEF Taken
  <2> QED
    BY <2>1, <2>2 DEF QueueInOrder
<1>6. GotMessages
  BY <1>5 DEF KInit, GotMessages
<1> QED
  BY <1>1, <1>3, <1>4, <1>5, <1>6 DEF KInit, WholeInv

LEMMA WholeNext == WholeInv /\ [KNext]_kvars => WholeInv'
<1> SUFFICES ASSUME WholeInv, [KNext]_kvars PROVE WholeInv'
  OBVIOUS
<1>1. KInv'
  BY KInvNext DEF WholeInv
<1>2. CASE ReceiverFlushes
  BY <1>1, <1>2, NothingReceived DEF ReceiverFlushes, sender
<1>3. CASE AskArrives
  BY <1>1, <1>3, NothingReceived DEF AskArrives, sender
<1>4. ASSUME NEW d \in acks, AckArrives(d) PROVE WholeInv'
  <2>1. snd_buf' \subseteq snd_buf
    BY <1>4 DEF AckArrives, SenderInput, Acked
  <2> QED
    BY <1>1, <1>4, <2>1, NothingReceived DEF AckArrives, SenderInput, receiver
<1>5. CASE Loses
  <2>1. pushes' \subseteq pushes
    BY <1>5 DEF Loses
  <2> QED
    BY <1>1, <1>5, <2>1, NothingReceived DEF Loses, sender, receiver
<1>6. CASE UNCHANGED kvars
  BY <1>1, <1>6, NothingReceived DEF kvars
<1> QED
  BY <1>2, <1>3, <1>4, <1>5, <1>6, ikcp_sendWhole, ikcp_recvWhole, SenderFlushesWhole,
     PushArrivesWhole DEF KNext

LEMMA WholeFollows == WholeInv => WholeOnceInOrder
<1> SUFFICES ASSUME WholeInv, NEW k \in DOMAIN got
             PROVE  /\ Len(got[k]) = Cardinality({i \in DOMAIN stream : stream[i].msg = k})
                    /\ \A i \in DOMAIN got[k] :
                          stream[got[k][i] + 1].msg = k /\ got[k][i] = got[k][1] + i - 1
  BY DEF WholeOnceInOrder
<1> DEFINE first == got[k][1]
           n == Len(got[k])
<1>1. /\ n \in Nat \ {0} /\ DOMAIN got[k] = 1..n /\ first \in Nat
      /\ \A i \in DOMAIN got[k] : got[k][i] = first + i - 1
      /\ {i \in DOMAIN stream : stream[i].msg = k} = first + 1..first + n
  BY DEF WholeInv, GotMessages
<1> HIDE DEF first, n
<1>2. Cardinality(first + 1..first + n) = n
  <2>1. first + 1 \in Int /\ first + n \in Int /\ first + 1 <= first + n
    BY <1>1
  <2>2. Cardinality(first + 1..first + n) = (first + n) - (first + 1) + 1
    BY <2>1, FS_Interval
  <2> QED
    BY <1>1, <2>2
<1>3. ASSUME NEW i \in 1..n PROVE stream[(first + i - 1) + 1].msg = k
  <2>1. (first + i - 1) + 1 \in first + 1..first + n
    BY <1>1
  <2> QED
    BY <1>1, <2>1
<1> QED
  BY <1>1, <1>2, <1>3 DEF first, n

\* What ikcp_recv returns is the messages that were sent, each whole, once and in
\* order, for any windows and lengths and whatever datagrams are lost, repeated or
\* reordered.
THEOREM MessagesAreWhole == KSpec => []WholeOnceInOrder
BY WholeInit, WholeNext, WholeFollows, PTL DEF KSpec

-----------------------------------------------------------------------------
(* Types, with the bounds of windows and numbers. *)

\* What is in a buffer, on its way or acknowledged is one of the segments that can be
\* sent, and what is acknowledged tells a window that the receiver has.
KcpBounds ==
    /\ Len(stream) <= MaxSegs /\ rmt_wnd \in 0..RcvWnd
    /\ probing \in BOOLEAN /\ telling \in BOOLEAN /\ asks \in BOOLEAN
    /\ acklist \subseteq Sn /\ acks \subseteq Datagram /\ faults \in 0..MaxFaults

KcpTyped == WholeInv /\ KcpBounds

LEMMA SegmentsAreSn ==
    ASSUME KcpTyped
    PROVE  /\ snd_buf \subseteq Sn /\ pushes \subseteq Sn /\ rcv_buf \subseteq Sn
           /\ rcv_queue \in Seq(Sn)
<1>1. /\ Len(stream) \in Nat /\ Len(stream) <= MaxSegs /\ MaxSegs \in Nat /\ rcv_nxt \in Nat
      /\ rcv_nxt <= Len(stream) /\ snd_buf \cup pushes \cup rcv_buf \subseteq 0..Len(stream) - 1
  BY KcpAssumption, SegmentTypes DEF KcpTyped, KcpBounds, WholeInv, KInv, Counts, InStream
<1>2. 0..Len(stream) - 1 \subseteq Sn
  BY <1>1 DEF Sn
<1>3. rcv_queue \in Seq(Nat) /\ Len(rcv_queue) \in Nat /\ Len(rcv_queue) <= rcv_nxt
      /\ \A i \in 1..Len(rcv_queue) : rcv_queue[i] = Taken + i - 1
  BY DEF KcpTyped, WholeInv, KInv, Counts, QueueInOrder
<1>4. ASSUME NEW i \in 1..Len(rcv_queue) PROVE rcv_queue[i] \in Sn
  BY <1>1, <1>3 DEF Taken, Sn
<1>5. rcv_queue \in Seq(Sn)
  BY <1>3, <1>4
<1> QED
  BY <1>1, <1>2, <1>5

LEMMA ReceivingBounds ==
    ASSUME KcpTyped, ReceiverFlushes \/ AskArrives \/ \E n \in 1..MaxSegs : ikcp_recv(n)
    PROVE  KcpBounds'
<1>1. CASE ReceiverFlushes
  <2> DEFINE d == [una |-> rcv_nxt, wnd |-> RcvWnd - Len(rcv_queue), sns |-> acklist]
  <2>1. acks' = acks \cup {d}
    BY <1>1 DEF ReceiverFlushes
  <2>2. rcv_nxt \in 0..MaxSegs
    BY KcpAssumption, SegmentTypes DEF KcpTyped, KcpBounds, WholeInv, KInv, Counts, InStream
  <2>3. RcvWnd - Len(rcv_queue) \in 0..RcvWnd
    BY KcpAssumption DEF KcpTyped, WholeInv, KInv, Counts
  <2>4. d \in Datagram
    BY <2>2, <2>3 DEF Datagram, KcpTyped, KcpBounds
  <2> HIDE DEF d
  <2>5. acklist' = {} /\ telling' \in BOOLEAN /\ UNCHANGED <<stream, rmt_wnd, probing, asks, faults>>
    BY <1>1 DEF ReceiverFlushes, sender
  <2> QED
    BY <2>1, <2>4, <2>5 DEF KcpTyped, KcpBounds
<1>2. CASE AskArrives
  BY <1>2 DEF AskArrives, sender, KcpTyped, KcpBounds
<1>3. ASSUME NEW n \in 1..MaxSegs, ikcp_recv(n) PROVE KcpBounds'
  <2>1. telling' \in BOOLEAN /\ UNCHANGED <<stream, rmt_wnd, probing, asks, acklist, acks, faults>>
    BY <1>3 DEF ikcp_recv, sender, KcpTyped, KcpBounds
  <2> QED
    BY <2>1 DEF KcpTyped, KcpBounds
<1> QED
  BY <1>1, <1>2, <1>3

LEMMA FaultyCounts == ASSUME KcpBounds, Faulty PROVE faults' \in 0..MaxFaults
BY KcpAssumption DEF KcpBounds, Faulty

LEMMA NetworkBounds ==
    ASSUME KcpTyped,
           \/ Loses \/ (\E s \in pushes : PushArrives(s)) \/ \E d \in acks : AckArrives(d)
    PROVE  KcpBounds'
<1>1. CASE Loses
  <2>1. /\ Faulty /\ asks' \in {asks, FALSE} /\ acks' \subseteq acks
        /\ UNCHANGED <<stream, rmt_wnd, probing, telling, acklist>>
    BY <1>1 DEF Loses, sender, receiver
  <2> QED
    BY <2>1, FaultyCounts DEF KcpTyped, KcpBounds
<1>2. ASSUME NEW s \in pushes, PushArrives(s) PROVE KcpBounds'
  <2>1. acklist' \subseteq acklist \cup {s}
        /\ UNCHANGED <<stream, rmt_wnd, probing, telling, asks, acks>>
    BY <1>2 DEF PushArrives, ReceiverInput, sender
  <2>2. faults' \in 0..MaxFaults
    BY <1>2, FaultyCounts DEF PushArrives, KcpTyped, KcpBounds
  <2> QED
    BY <2>1, <2>2, SegmentsAreSn DEF KcpTyped, KcpBounds
<1>3. ASSUME NEW d \in acks, AckArrives(d) PROVE KcpBounds'
  <2>1. rmt_wnd' = d.wnd /\ acks' \subseteq acks
        /\ UNCHANGED <<stream, probing, telling, asks, acklist>>
    BY <1>3 DEF AckArrives, SenderInput, receiver
  <2>2. d.wnd \in 0..RcvWnd
    BY DEF KcpTyped, KcpBounds, Datagram
  <2>3. faults' \in 0..MaxFaults
    BY <1>3, FaultyCounts DEF AckArrives, KcpTyped, KcpBounds
  <2> QED
    BY <2>1, <2>2, <2>3 DEF KcpTyped, KcpBounds
<1> QED
  BY <1>1, <1>2, <1>3

LEMMA SendingBounds ==
    ASSUME KcpTyped,
           \/ \E n \in 1..MaxSegs, long \in BOOLEAN : ikcp_send(n, long)
           \/ \E w \in 0..SndWnd, due \in SUBSET snd_buf, probe \in BOOLEAN :
                SenderFlushes(w, due, probe)
    PROVE  KcpBounds'
<1>1. ASSUME NEW n \in 1..MaxSegs, NEW long \in BOOLEAN, ikcp_send(n, long) PROVE KcpBounds'
  <2>1. Len(stream) \in Nat /\ n \in Nat /\ Len(stream) + n <= MaxSegs
    BY <1>1, KcpAssumption, SegmentTypes DEF ikcp_send, KcpTyped, WholeInv, KInv
  <2>2. Len(stream') = Len(stream) + n
    BY <1>1, ikcp_sendAdds DEF KcpTyped
  <2>3. UNCHANGED <<rmt_wnd, probing, telling, asks, acklist, acks, faults>>
    BY <1>1 DEF ikcp_send, sender, receiver
  <2> QED
    BY <2>1, <2>2, <2>3 DEF KcpTyped, KcpBounds
<1>2. ASSUME NEW w \in 0..SndWnd, NEW due \in SUBSET snd_buf, NEW probe \in BOOLEAN,
             SenderFlushes(w, due, probe)
      PROVE  KcpBounds'
  <2>1. probing' \in BOOLEAN /\ asks' \in BOOLEAN
        /\ UNCHANGED <<stream, rmt_wnd, telling, acklist, acks, faults>>
    BY <1>2 DEF SenderFlushes, receiver, KcpTyped, KcpBounds
  <2> QED
    BY <2>1 DEF KcpTyped, KcpBounds
<1> QED
  BY <1>1, <1>2

LEMMA KcpTypedInit == KInit => KcpTyped
<1> SUFFICES ASSUME KInit PROVE KcpTyped
  OBVIOUS
<1>1. Len(stream) <= MaxSegs /\ rmt_wnd \in 0..RcvWnd /\ faults \in 0..MaxFaults
  BY KcpAssumption DEF KInit
<1>2. probing \in BOOLEAN /\ telling \in BOOLEAN /\ asks \in BOOLEAN /\ acklist = {} /\ acks = {}
  BY DEF KInit
<1> QED
  BY <1>1, <1>2, WholeInit DEF KcpTyped, KcpBounds

LEMMA KcpTypedNext == KcpTyped /\ [KNext]_kvars => KcpTyped'
<1> SUFFICES ASSUME KcpTyped, [KNext]_kvars PROVE KcpTyped'
  OBVIOUS
<1>1. ASSUME UNCHANGED kvars PROVE KcpBounds'
  <2>1. UNCHANGED <<stream, rmt_wnd, probing, telling, asks, acklist, acks, faults>>
    BY <1>1 DEF kvars
  <2> QED
    BY <2>1 DEF KcpTyped, KcpBounds
<1>2. ASSUME KNext PROVE KcpBounds'
  <2>1. CASE \/ \E n \in 1..MaxSegs, long \in BOOLEAN : ikcp_send(n, long)
             \/ \E w \in 0..SndWnd, due \in SUBSET snd_buf, probe \in BOOLEAN :
                  SenderFlushes(w, due, probe)
    BY <2>1, SendingBounds
  <2>2. CASE ReceiverFlushes \/ AskArrives \/ \E n \in 1..MaxSegs : ikcp_recv(n)
    BY <2>2, ReceivingBounds
  <2>3. CASE \/ Loses \/ (\E s \in pushes : PushArrives(s)) \/ \E d \in acks : AckArrives(d)
    BY <2>3, NetworkBounds
  <2> QED
    BY <1>2, <2>1, <2>2, <2>3 DEF KNext
<1>3. KcpBounds'
  BY <1>1, <1>2
<1> QED
  BY <1>3, WholeNext DEF KcpTyped

LEMMA KcpTypedOK == KcpTyped => KTypeOK
BY SegmentsAreSn DEF KTypeOK, KcpTyped, KcpBounds, WholeInv, KInv, Counts

\* Every variable of both ends of a KCP connection and of the network keeps its type:
\* the window told fits rcv_wnd, as the queue never has more than that, and only
\* segments that were sent are buffered, acknowledged or on their way.
THEOREM KcpTypeCorrect == KSpec => []KTypeOK
BY KcpTypedInit, KcpTypedNext, KcpTypedOK, PTL DEF KSpec

-----------------------------------------------------------------------------
(* The MQTT client.                                                          *)

Wrote == Part \X (User \cup {LoopThread})

\* Where things are.
MqttTypes ==
    /\ wrote \in Seq(Wrote) /\ call \in [User -> Stage]
    /\ mutex_ \in User \cup {Nobody}

\* The mutex is kept from a head to its payload, and nothing comes between.
HeadHoldsMutex ==
    /\ \A u \in User : call[u] = "payload" <=> mutex_ = u
    /\ mutex_ # Nobody => wrote # <<>> /\ wrote[Len(wrote)] = <<"head", mutex_>>

\* A head that never gets its payload is the last thing written to a connection.
LostPayloadIsLast ==
    wrote # <<>> /\ wrote[Len(wrote)][1] = "head" /\ mutex_ = Nobody => ~Writable

\* Whoever may write has seen the login.
WritersAfterLogin ==
    /\ reconn_timer => conn = "closed"
    /\ conn \in {"connecting", "closed"} => ~connected /\ ~heartbeat
    /\ connected \/ heartbeat => wrote # <<>>
    /\ \A u \in User : call[u] \in {"publish", "payload", "subscribe"} => wrote # <<>> \/ ~Writable

MInv == MqttTypes /\ HeadHoldsMutex /\ LostPayloadIsLast /\ WritersAfterLogin /\ PacketsSound

-----------------------------------------------------------------------------
\* What a write does to the packets: anything but a payload may follow anything
\* but a head, and a payload its own head.
LEMMA WriteKeepsPackets ==
    ASSUME MqttTypes, PacketsSound, NEW part \in Part, NEW by \in User \cup {LoopThread},
           WritesPart(part, by),
           wrote = <<>> => part \in {"CONNECT", "DISCONNECT"} \/ ~Writable,
           \/ ~Writable
           \/ part = "payload" /\ wrote # <<>> /\ wrote[Len(wrote)] = <<"head", by>>
           \/ part # "payload" /\ (wrote # <<>> => wrote[Len(wrote)][1] # "head")
    PROVE  PacketsSound' /\ wrote' \in Seq(Wrote)
<1>1. CASE ~Writable
  BY <1>1 DEF WritesPart, MqttTypes, PacketsSound, WholePackets, LoginFirst
<1>2. CASE Writable
  <2> DEFINE n == Len(wrote)
             p == <<part, by>>
  <2>1. wrote' = Append(wrote, p) /\ p \in Wrote /\ p[1] = part /\ p[2] = by
    BY <1>2 DEF WritesPart, Wrote
  <2>2. wrote \in Seq(Wrote)
    BY DEF MqttTypes
  <2> HIDE DEF p, Wrote
  <2>3. /\ n \in Nat /\ wrote' \in Seq(Wrote) /\ Len(wrote') = n + 1
        /\ wrote'[n + 1] = p /\ \A i \in 1..n : wrote'[i] = wrote[i]
    BY <2>1, <2>2
  <2>4. DOMAIN wrote = 1..n /\ DOMAIN wrote' = 1..n + 1
    BY <2>2, <2>3
  <2>5. ASSUME NEW i \in 1..n + 1, wrote'[i][1] = "head", i < n + 1
        PROVE  wrote'[i + 1] = <<"payload", wrote'[i][2]>>
    <3>1. i \in 1..n /\ wrote'[i] = wrote[i]
      BY <2>3, <2>5
    <3>2. CASE i < n
      <4>1. wrote[i + 1] = <<"payload", wrote[i][2]>>
        BY <2>4, <2>5, <3>1, <3>2 DEF PacketsSound, WholePackets
      <4>2. i + 1 \in 1..n
        BY <2>3, <3>1, <3>2
      <4> QED
        BY <2>3, <3>1, <4>1, <4>2
    <3>3. CASE i = n
      <4>1. n # 0 /\ wrote # <<>>
        BY <2>2, <3>1, <3>3
      <4>2. part = "payload" /\ wrote[n] = <<"head", by>>
        BY <1>2, <2>5, <3>1, <3>3, <4>1
      <4> QED
        BY <2>3, <3>1, <3>3, <4>2 DEF p
    <3> QED
      BY <2>3, <3>1, <3>2, <3>3
  <2>6. ASSUME NEW i \in 1..n + 1, wrote'[i][1] = "payload"
        PROVE  i > 1 /\ wrote'[i - 1] = <<"head", wrote'[i][2]>>
    <3>1. CASE i \in 1..n
      <4>1. i > 1 /\ wrote[i - 1] = <<"head", wrote[i][2]>>
        BY <2>3, <2>4, <2>6, <3>1 DEF PacketsSound, WholePackets
      <4>2. i - 1 \in 1..n
        BY <2>3, <3>1, <4>1
      <4> QED
        BY <2>3, <3>1, <4>1, <4>2
    <3>2. CASE i = n + 1
      <4>1. part = "payload" /\ wrote'[i][2] = by
        BY <2>1, <2>3, <2>6, <3>2
      <4>2. wrote # <<>> /\ wrote[n] = <<"head", by>>
        BY <1>2, <4>1
      <4>3. n \in 1..n
        BY <2>2, <2>3, <4>2
      <4> QED
        BY <2>3, <3>2, <4>1, <4>2, <4>3
    <3> QED
      BY <2>3, <3>1, <3>2
  <2>7. WholePackets'
    BY <2>3, <2>4, <2>5, <2>6 DEF WholePackets
  <2>8. LoginFirst'
    <3>1. CASE wrote = <<>>
      <4>1. n = 0 /\ wrote'[1] = p
        BY <2>3, <3>1
      <4> QED
        BY <1>2, <2>1, <3>1, <4>1 DEF LoginFirst
    <3>2. CASE wrote # <<>>
      <4>1. 1 \in 1..n
        BY <2>2, <2>3, <3>2
      <4> QED
        BY <2>3, <3>2, <4>1 DEF PacketsSound, LoginFirst
    <3> QED
      BY <3>1, <3>2
  <2> QED
    BY <2>3, <2>7, <2>8 DEF PacketsSound
<1> QED
  BY <1>1, <1>2

\* A write by whoever may take the mutex, of anything but a payload.
LEMMA FreeWrite ==
    ASSUME MInv, NEW part \in Part \ {"payload"}, NEW by \in User \cup {LoopThread},
           mutex_ = Nobody, WritesPart(part, by),
           wrote = <<>> => part \in {"CONNECT", "DISCONNECT"} \/ ~Writable
    PROVE  /\ PacketsSound' /\ wrote' \in Seq(Wrote)
           /\ wrote # <<>> => wrote' # <<>>
           /\ ~Writable => wrote' = wrote
           /\ Writable => wrote' # <<>> /\ wrote'[Len(wrote')] = <<part, by>>
<1>1. MqttTypes /\ PacketsSound
  BY DEF MInv
<1>2. ~Writable \/ (wrote # <<>> => wrote[Len(wrote)][1] # "head")
  BY DEF MInv, LostPayloadIsLast
<1>3. PacketsSound' /\ wrote' \in Seq(Wrote)
  BY <1>1, <1>2, WriteKeepsPackets
<1>4. CASE ~Writable
  BY <1>3, <1>4 DEF WritesPart
<1>5. CASE Writable
  <2>1. wrote' = Append(wrote, <<part, by>>) /\ wrote \in Seq(Wrote)
    BY <1>1, <1>5 DEF WritesPart, MqttTypes
  <2>2. Len(wrote') = Len(wrote) + 1 /\ wrote'[Len(wrote) + 1] = <<part, by>>
    BY <2>1
  <2>3. Len(wrote') # 0
    BY <2>1, <2>2
  <2>4. wrote' # <<>>
    BY <2>3
  <2> QED
    BY <1>3, <1>5, <2>2, <2>4
<1> QED
  BY <1>4, <1>5

-----------------------------------------------------------------------------
(* The loop thread. *)

\* A step of the loop thread that writes and neither begins nor ends a connection.
LEMMA LoopWritesKeeps ==
    ASSUME MInv, NEW part \in {"CONNECT", "reply", "PINGREQ"}, LoopSends(part),
           (conn = "connecting" /\ part = "CONNECT") \/ wrote # <<>>,
           Writable, conn' = "open", UNCHANGED <<settings, connected, heartbeat, mutex_, call>>
    PROVE  MInv'
<1>1. mutex_ = Nobody /\ WritesPart(part, LoopThread) /\ part \in Part \ {"payload"}
  BY DEF LoopSends, Part
<1>2. /\ PacketsSound' /\ wrote' \in Seq(Wrote) /\ wrote' # <<>>
      /\ wrote'[Len(wrote')] = <<part, LoopThread>>
  BY <1>1, FreeWrite
<1>3. MqttTypes' /\ HeadHoldsMutex'
  BY <1>1, <1>2 DEF MInv, MqttTypes, HeadHoldsMutex
<1>4. wrote'[Len(wrote')][1] # "head"
  BY <1>2
<1>5. LostPayloadIsLast'
  BY <1>4 DEF LostPayloadIsLast
<1>6. WritersAfterLogin'
  BY <1>2 DEF MInv, WritersAfterLogin, settings, Writable
<1> QED
  BY <1>2, <1>3, <1>5, <1>6 DEF MInv

\* The end of a connection.
LEMMA on_closeKeeps == ASSUME MInv, on_close PROVE MInv'
<1>1. UNCHANGED <<wrote, call, mutex_>> /\ conn' = "closed" /\ ~connected' /\ ~heartbeat'
  BY DEF on_close
<1>2. MqttTypes' /\ HeadHoldsMutex'
  BY <1>1 DEF MInv, MqttTypes, HeadHoldsMutex
<1>3. LostPayloadIsLast' /\ WritersAfterLogin'
  BY <1>1 DEF LostPayloadIsLast, WritersAfterLogin, Writable
<1>4. PacketsSound'
  BY <1>1 DEF MInv, PacketsSound, WholePackets, LoginFirst
<1> QED
  BY <1>2, <1>3, <1>4 DEF MInv

\* A new connection, on which nothing was written: no call is under way.
LEMMA reconnect_timer_cbKeeps == ASSUME MInv, reconnect_timer_cb PROVE MInv'
<1>1. /\ reconn_timer /\ ~reconn_timer' /\ conn' = "connecting" /\ wrote' = <<>>
      /\ UNCHANGED <<login, mutex_, call>>
      /\ \A u \in User : call[u] \in {"idle", "disconnect", "close"}
  BY DEF reconnect_timer_cb, ShorterThanDelay
<1>2. mutex_ = Nobody
  BY <1>1 DEF MInv, MqttTypes, HeadHoldsMutex
<1>3. MqttTypes' /\ HeadHoldsMutex' /\ LostPayloadIsLast'
  BY <1>1, <1>2 DEF MInv, MqttTypes, HeadHoldsMutex, LostPayloadIsLast
<1>4. WritersAfterLogin'
  BY <1>1 DEF MInv, WritersAfterLogin, login
<1>5. PacketsSound'
  BY <1>1 DEF PacketsSound, WholePackets, LoginFirst
<1> QED
  BY <1>3, <1>4, <1>5 DEF MInv

\* A step that writes nothing and leaves the mutex and what the connection is.
LEMMA NoWriteKeeps ==
    ASSUME MInv, UNCHANGED <<wrote, mutex_>>, call' \in [User -> Stage],
           reconn_timer' => conn' = "closed",
           conn' \in {"connecting", "closed"} => ~connected' /\ ~heartbeat',
           connected' \/ heartbeat' => wrote # <<>>,
           conn' = conn \/ conn' = "broken",
           \A u \in User : call'[u] = "payload" <=> call[u] = "payload",
           \A u \in User : call'[u] \in {"publish", "subscribe"} => call'[u] = call[u] \/ connected
    PROVE  MInv'
<1>1. MqttTypes' /\ HeadHoldsMutex'
  BY DEF MInv, MqttTypes, HeadHoldsMutex
<1>2. LostPayloadIsLast'
  BY DEF MInv, LostPayloadIsLast, Writable
<1>3. WritersAfterLogin'
  <2>1. ASSUME NEW u \in User, call'[u] \in {"publish", "payload", "subscribe"}
        PROVE  wrote # <<>> \/ ~Writable'
    <3>1. call[u] \in {"publish", "payload", "subscribe"} \/ connected
      BY <2>1
    <3> QED
      BY <3>1 DEF MInv, WritersAfterLogin, Writable
  <2> QED
    BY <2>1 DEF WritersAfterLogin
<1>4. PacketsSound'
  BY DEF MInv, PacketsSound, WholePackets, LoginFirst
<1> QED
  BY <1>1, <1>2, <1>3, <1>4 DEF MInv

LEMMA LoopKeeps ==
    ASSUME MInv,
           on_connect \/ on_connack \/ on_request \/ on_pong \/ Ends \/ mqtt_send_ping
             \/ Breaks \/ reconnect_timer_cb
    PROVE  MInv'
<1>1. CASE on_connect
  BY <1>1, LoopWritesKeeps DEF on_connect, Writable, login
<1>2. CASE on_connack
  <2>1. wrote # <<>>
    BY <1>2 DEF on_connack, LoggedIn
  <2> QED
    BY <1>2, <2>1, NoWriteKeeps DEF on_connack, settings, MInv, MqttTypes, WritersAfterLogin
<1>3. CASE on_request
  <2>1. wrote # <<>>
    BY <1>3 DEF on_request, MInv, WritersAfterLogin
  <2> QED
    BY <1>3, <2>1, LoopWritesKeeps DEF on_request, Writable, login
<1>4. CASE on_pong
  BY <1>4, NoWriteKeeps DEF on_pong, settings, MInv, MqttTypes, WritersAfterLogin
<1>5. CASE Ends
  BY <1>5, on_closeKeeps DEF Ends
<1>6. CASE mqtt_send_ping
  <2>1. CASE on_close
    BY <2>1, on_closeKeeps
  <2>2. CASE LoopSends("PINGREQ") /\ UNCHANGED <<conn, settings, connected, heartbeat, mutex_, call>>
    <3>1. conn = "open" /\ wrote # <<>>
      BY <1>6 DEF mqtt_send_ping, MInv, WritersAfterLogin
    <3> QED
      BY <2>2, <3>1, LoopWritesKeeps DEF Writable
  <2> QED
    BY <1>6, <2>1, <2>2 DEF mqtt_send_ping
<1>7. CASE Breaks
  BY <1>7, NoWriteKeeps DEF Breaks, settings, login, MInv, MqttTypes, WritersAfterLogin
<1>8. CASE reconnect_timer_cb
  BY <1>8, reconnect_timer_cbKeeps
<1> QED
  BY <1>1, <1>2, <1>3, <1>4, <1>5, <1>6, <1>7, <1>8

-----------------------------------------------------------------------------
(* Another thread. *)

\* Of a packet in one part, the call ends or goes on to a step that writes nothing.
LEMMA WholePacketKeeps ==
    ASSUME MInv, NEW u \in User, NEW part \in {"SUBSCRIBE", "DISCONNECT"},
           NEW from \in Stage \ {"payload"}, NEW to \in {"idle", "close"},
           mutex_ = Nobody, WritesPart(part, u), Proceeds(u, from, to),
           part = "SUBSCRIBE" => from = "subscribe",
           UNCHANGED <<conn, settings, login, mutex_>>
    PROVE  MInv'
<1>1. wrote = <<>> => part \in {"CONNECT", "DISCONNECT"} \/ ~Writable
  BY DEF MInv, WritersAfterLogin, Proceeds
<1>2. /\ PacketsSound' /\ wrote' \in Seq(Wrote)
      /\ wrote # <<>> => wrote' # <<>>
      /\ ~Writable => wrote' = wrote
      /\ Writable => wrote' # <<>> /\ wrote'[Len(wrote')] = <<part, u>>
  BY <1>1, FreeWrite DEF Part
<1>3. call' = [call EXCEPT ![u] = to] /\ call[u] = from /\ to \in Stage
  BY DEF Proceeds, Stage
<1>4. MqttTypes' /\ HeadHoldsMutex'
  BY <1>2, <1>3 DEF MInv, MqttTypes, HeadHoldsMutex
<1>5. LostPayloadIsLast'
  <2>1. CASE Writable
    <3>1. wrote'[Len(wrote')][1] # "head"
      BY <1>2, <2>1
    <3> QED
      BY <3>1 DEF LostPayloadIsLast
  <2>2. CASE ~Writable
    BY <1>2, <2>2 DEF MInv, LostPayloadIsLast, Writable
  <2> QED
    BY <2>1, <2>2
<1>6. WritersAfterLogin'
  BY <1>2, <1>3 DEF MInv, MqttTypes, WritersAfterLogin, Writable, settings, login
<1> QED
  BY <1>2, <1>4, <1>5, <1>6 DEF MInv

LEMMA PublishHeadKeeps == ASSUME MInv, NEW u \in User, PublishHead(u) PROVE MInv'
<1>1. /\ mutex_ = Nobody /\ WritesPart("head", u) /\ call[u] = "publish"
      /\ UNCHANGED <<conn, settings, login>>
  BY DEF PublishHead, Proceeds
<1>2. wrote = <<>> => ~Writable
  BY <1>1 DEF MInv, WritersAfterLogin
<1>3. /\ PacketsSound' /\ wrote' \in Seq(Wrote)
      /\ wrote # <<>> => wrote' # <<>>
      /\ ~Writable => wrote' = wrote
      /\ Writable => wrote' # <<>> /\ wrote'[Len(wrote')] = <<"head", u>>
  BY <1>1, <1>2, FreeWrite DEF Part
<1>4. CASE Writable
  <2>1. mutex_' = u /\ call' = [call EXCEPT ![u] = "payload"]
    BY <1>4 DEF PublishHead, Proceeds, KeepsMutex
  <2>2. u # Nobody
    BY MqttAssumption
  <2>3. MqttTypes'
    BY <1>3, <2>1 DEF MInv, MqttTypes, Stage
  <2>4. HeadHoldsMutex'
    BY <1>1, <1>3, <1>4, <2>1, <2>2, MqttAssumption DEF MInv, MqttTypes, HeadHoldsMutex
  <2>5. LostPayloadIsLast'
    BY <2>1, <2>2 DEF LostPayloadIsLast
  <2>6. WritersAfterLogin'
    BY <1>1, <1>3, <1>4 DEF MInv, WritersAfterLogin, settings, login
  <2> QED
    BY <1>3, <2>3, <2>4, <2>5, <2>6 DEF MInv
<1>5. CASE ~Writable
  <2>1. UNCHANGED <<wrote, mutex_>> /\ call' = [call EXCEPT ![u] = "idle"]
    BY <1>3, <1>5 DEF PublishHead, Proceeds
  <2>2. /\ call' \in [User -> Stage]
        /\ \A v \in User : call'[v] = "payload" <=> call[v] = "payload"
        /\ \A v \in User : call'[v] \in {"publish", "subscribe"} => call'[v] = call[v]
    BY <1>1, <2>1 DEF MInv, MqttTypes, Stage
  <2> QED
    BY <1>1, <2>1, <2>2, NoWriteKeeps DEF settings, login, MInv, WritersAfterLogin
<1> QED
  BY <1>4, <1>5

LEMMA PublishPayloadKeeps == ASSUME MInv, NEW u \in User, PublishPayload(u) PROVE MInv'
<1>1. /\ WritesPart("payload", u) /\ call[u] = "payload" /\ mutex_' = Nobody
      /\ call' = [call EXCEPT ![u] = "idle"] /\ UNCHANGED <<conn, settings, login>>
  BY DEF PublishPayload, Proceeds
<1>2. mutex_ = u /\ u # Nobody
  BY <1>1, MqttAssumption DEF MInv, HeadHoldsMutex
<1>3. MqttTypes /\ PacketsSound /\ wrote # <<>> /\ wrote[Len(wrote)] = <<"head", u>>
  BY <1>2 DEF MInv, HeadHoldsMutex
<1>4. PacketsSound' /\ wrote' \in Seq(Wrote)
  BY <1>1, <1>3, WriteKeepsPackets DEF Part
<1>5. wrote' = IF Writable THEN Append(wrote, <<"payload", u>>) ELSE wrote
  BY <1>1 DEF WritesPart
<1>6. wrote' # <<>>
  BY <1>3, <1>5 DEF MqttTypes
<1>7. MqttTypes' /\ HeadHoldsMutex'
  BY <1>1, <1>2, <1>4, MqttAssumption DEF MInv, MqttTypes, HeadHoldsMutex, Stage
<1>8. LostPayloadIsLast'
  <2>1. CASE Writable
    <3>1. wrote'[Len(wrote')] = <<"payload", u>>
      BY <1>3, <1>5, <2>1 DEF MqttTypes
    <3> QED
      BY <3>1 DEF LostPayloadIsLast
  <2>2. CASE ~Writable
    BY <1>1, <2>2 DEF LostPayloadIsLast, Writable
  <2> QED
    BY <2>1, <2>2
<1>9. WritersAfterLogin'
  BY <1>1, <1>6 DEF MInv, WritersAfterLogin, settings, login
<1> QED
  BY <1>4, <1>7, <1>8, <1>9 DEF MInv

LEMMA UserKeeps ==
    ASSUME MInv, NEW u \in User, Starts(u) \/ Calls(u) \/ Disconnect(u) PROVE MInv'
<1>1. CASE Starts(u)
  <2>1. PICK to \in {"publish", "subscribe"} : Proceeds(u, "idle", to)
    BY <1>1 DEF Starts
  <2>2. connected /\ UNCHANGED <<wrote, mutex_, conn, settings, login>>
    BY <1>1 DEF Starts
  <2>3. call' \in [User -> Stage] /\ \A v \in User : call'[v] = "payload" <=> call[v] = "payload"
    BY <2>1 DEF Proceeds, MInv, MqttTypes, Stage
  <2> QED
    BY <2>2, <2>3, NoWriteKeeps DEF settings, login, MInv, WritersAfterLogin
<1>2. CASE Disconnect(u) \/ Close(u)
  <2>1. PICK from \in {"idle", "close"}, to \in {"disconnect", "idle"} : Proceeds(u, from, to)
    BY <1>2 DEF Disconnect, Close
  <2>2. UNCHANGED <<wrote, mutex_, conn, reconn_timer, login>>
    BY <1>2 DEF Disconnect, Close, settings
  <2>3. /\ call' \in [User -> Stage]
        /\ \A v \in User : call'[v] = "payload" <=> call[v] = "payload"
        /\ \A v \in User : call'[v] \in {"publish", "subscribe"} => call'[v] = call[v]
    BY <2>1 DEF Proceeds, MInv, MqttTypes, Stage
  <2> QED
    BY <2>2, <2>3, NoWriteKeeps DEF login, MInv, WritersAfterLogin
<1>3. CASE PublishHead(u)
  BY <1>3, PublishHeadKeeps
<1>4. CASE PublishPayload(u)
  BY <1>4, PublishPayloadKeeps
<1>5. CASE Subscribe(u)
  BY <1>5, WholePacketKeeps DEF Subscribe, Stage
<1>6. CASE SendDisconnect(u)
  BY <1>6, WholePacketKeeps DEF SendDisconnect, Stage
<1> QED
  BY <1>1, <1>2, <1>3, <1>4, <1>5, <1>6 DEF Calls

-----------------------------------------------------------------------------
(* The theorem. *)

LEMMA MInvInit == MInit => MInv
BY MqttAssumption DEF MInit, MInv, MqttTypes, Stage, HeadHoldsMutex, LostPayloadIsLast,
   WritersAfterLogin, PacketsSound, WholePackets, LoginFirst

LEMMA MInvNext == MInv /\ [MNext]_mvars => MInv'
<1> SUFFICES ASSUME MInv, [MNext]_mvars PROVE MInv'
  OBVIOUS
<1>1. CASE UNCHANGED mvars
  BY <1>1, NoWriteKeeps DEF mvars, MInv, MqttTypes, WritersAfterLogin
<1>2. CASE MNext
  <2>1. ASSUME NEW u \in User, Starts(u) \/ Calls(u) \/ (~disconnected /\ Disconnect(u))
        PROVE  MInv'
    BY <2>1, UserKeeps
  <2> QED
    BY <1>2, <2>1, LoopKeeps DEF MNext
<1> QED
  BY <1>1, <1>2

\* On every connection the login comes first, and every head of a message is
\* followed by its own payload, for any number of threads that publish, subscribe
\* and disconnect while the loop thread answers, pings and reconnects: what
\* mutex_ and the test of connected are for.
THEOREM PacketsAreSound == MSpec => []PacketsSound
<1>1. MInv => PacketsSound
  BY DEF MInv
<1> QED
  BY MInvInit, MInvNext, <1>1, PTL DEF MSpec

-----------------------------------------------------------------------------
(* Types, and what a disconnect ends.                                        *)

\* A user who disconnects has dropped the setting.  Unless it did so while the timer
\* was armed, the timer is not armed after that; a connection that has ended waits
\* for it as long as nobody leaves.
Leaving ==
    /\ \A u \in User : call[u] \in {"disconnect", "close"} => ~reconn_setting
    /\ disconnected => ~reconn_setting
    /\ Careful => (~reconn_setting => ~reconn_timer)

MqttTyped == MTypeOK /\ Leaving

LEMMA WritesPartType ==
    ASSUME MTypeOK, NEW part \in Part, NEW by \in User \cup {LoopThread}, WritesPart(part, by)
    PROVE  wrote' \in Seq(Part \X (User \cup {LoopThread}))
<1>1. <<part, by>> \in Part \X (User \cup {LoopThread}) /\ wrote \in Seq(Part \X (User \cup {LoopThread}))
  BY DEF MTypeOK
<1> DEFINE W == Part \X (User \cup {LoopThread})
<1> HIDE DEF W
<1>2. Append(wrote, <<part, by>>) \in Seq(W)
  BY <1>1 DEF W
<1> QED
  BY <1>1, <1>2 DEF WritesPart, W

LEMMA LoopSendsType ==
    ASSUME MTypeOK, NEW part \in {"CONNECT", "reply", "PINGREQ"}, LoopSends(part)
    PROVE  wrote' \in Seq(Part \X (User \cup {LoopThread}))
BY WritesPartType DEF LoopSends, Part

LEMMA on_closeTyped == ASSUME MqttTyped, on_close, ping_cnt' \in 0..4 PROVE MqttTyped'
<1>1. MTypeOK'
  BY DEF on_close, Rearms, MqttTyped, MTypeOK
<1>2. Leaving'
  BY DEF on_close, Rearms, MqttTyped, MTypeOK, Leaving
<1> QED
  BY <1>1, <1>2 DEF MqttTyped

LEMMA LoopTyped ==
    ASSUME MqttTyped,
           \/ on_connect \/ on_connack \/ on_request \/ on_pong \/ Ends \/ mqtt_send_ping
           \/ Breaks \/ reconnect_timer_cb \/ ResolveFails
    PROVE  MqttTyped'
<1> USE DEF settings, login
<1>1. CASE on_connect \/ on_request
  <2>1. wrote' \in Seq(Part \X (User \cup {LoopThread}))
    BY <1>1, LoopSendsType DEF on_connect, on_request, MqttTyped
  <2>2. /\ conn' \in {"connecting", "open", "broken", "closed"}
        /\ UNCHANGED <<reconn_setting, reconn_timer, connected, ping_cnt, heartbeat, closing,
                       mutex_, call, disconnected>>
    BY <1>1 DEF on_connect, on_request
  <2> QED
    BY <2>1, <2>2 DEF MqttTyped, MTypeOK, Leaving
<1>2. CASE on_connack \/ on_pong \/ Breaks
  <2>1. MTypeOK'
    <3>1. {connected', heartbeat'} \subseteq BOOLEAN
      BY <1>2 DEF on_connack, on_pong, Breaks, MqttTyped, MTypeOK
    <3>2. conn' \in {conn, "broken"} /\ ping_cnt' \in {ping_cnt, 0}
          /\ UNCHANGED <<reconn_setting, reconn_timer, closing, mutex_, wrote, call, disconnected>>
      BY <1>2 DEF on_connack, on_pong, Breaks
    <3> QED
      BY <3>1, <3>2 DEF MqttTyped, MTypeOK
  <2>2. UNCHANGED <<reconn_setting, reconn_timer, call, disconnected>>
    BY <1>2 DEF on_connack, on_pong, Breaks
  <2>3. Leaving'
    BY <2>2 DEF MqttTyped, Leaving
  <2> QED
    BY <2>1, <2>3 DEF MqttTyped
<1>3. CASE Ends
  BY <1>3, on_closeTyped DEF Ends, MqttTyped, MTypeOK
<1>4. CASE mqtt_send_ping
  <2>1. ping_cnt' \in 0..4
    BY <1>4 DEF mqtt_send_ping, MqttTyped, MTypeOK
  <2>2. CASE on_close
    BY <2>1, <2>2, on_closeTyped
  <2>3. CASE ~on_close
    <3>1. LoopSends("PINGREQ")
      BY <1>4, <2>3 DEF mqtt_send_ping
    <3>2. wrote' \in Seq(Part \X (User \cup {LoopThread}))
      BY <3>1, LoopSendsType DEF MqttTyped
    <3>3. UNCHANGED <<conn, reconn_setting, reconn_timer, connected, heartbeat, closing,
                      mutex_, call, disconnected>>
      BY <1>4, <2>3 DEF mqtt_send_ping
    <3> QED
      BY <2>1, <3>2, <3>3 DEF MqttTyped, MTypeOK, Leaving
  <2> QED
    BY <2>2, <2>3
<1>5. CASE reconnect_timer_cb
  <2>1. MTypeOK'
    <3>1. reconn_timer' \in BOOLEAN /\ closing' \in BOOLEAN
      BY <1>5 DEF reconnect_timer_cb
    <3>2. conn' = "connecting" /\ wrote' = <<>>
          /\ UNCHANGED <<reconn_setting, connected, ping_cnt, heartbeat, mutex_, call, disconnected>>
      BY <1>5 DEF reconnect_timer_cb
    <3> QED
      BY <3>1, <3>2 DEF MqttTyped, MTypeOK
  <2>2. reconn_timer' = FALSE /\ UNCHANGED <<reconn_setting, call, disconnected>>
    BY <1>5 DEF reconnect_timer_cb
  <2>3. Leaving'
    BY <2>2 DEF MqttTyped, Leaving
  <2> QED
    BY <2>1, <2>3 DEF MqttTyped
<1>6. CASE ResolveFails
  BY <1>6 DEF ResolveFails, MqttTyped, MTypeOK, Leaving
<1> QED
  BY <1>1, <1>2, <1>3, <1>4, <1>5, <1>6

\* A step of a user that leaves the connection and the timer alone.
LEMMA UserTyped ==
    ASSUME MqttTyped, NEW u \in User, NEW to \in Stage, call' = [call EXCEPT ![u] = to],
           wrote' \in Seq(Part \X (User \cup {LoopThread})), mutex_' \in User \cup {Nobody},
           UNCHANGED <<conn, reconn_timer, login>>, {closing', disconnected'} \subseteq BOOLEAN,
           reconn_setting' \in {reconn_setting, FALSE},
           (to \in {"disconnect", "close"} \/ disconnected' # disconnected) => ~reconn_setting',
           Careful => reconn_setting' = reconn_setting \/ ~reconn_timer
    PROVE  MqttTyped'
<1>1. call \in [User -> Stage] /\ call' \in [User -> Stage]
  BY DEF MqttTyped, MTypeOK
<1>2. MTypeOK'
  BY <1>1 DEF MqttTyped, MTypeOK, login
<1>3. Leaving'
  <2>1. \A v \in User : call'[v] = IF v = u THEN to ELSE call[v]
    BY <1>1
  <2>2. ~reconn_setting => ~reconn_setting'
    OBVIOUS
  <2>3. \A v \in User : call'[v] \in {"disconnect", "close"} => ~reconn_setting'
    BY <2>1, <2>2 DEF MqttTyped, Leaving
  <2>4. disconnected' => ~reconn_setting'
    BY <2>2 DEF MqttTyped, Leaving
  <2>5. Careful => (~reconn_setting' => ~reconn_timer')
    BY DEF MqttTyped, Leaving
  <2> QED
    BY <2>3, <2>4, <2>5 DEF Leaving
<1> QED
  BY <1>2, <1>3 DEF MqttTyped

LEMMA CallsTyped ==
    ASSUME MqttTyped, NEW u \in User, Starts(u) \/ Calls(u) \/ Disconnect(u)
    PROVE  MqttTyped'
<1> USE DEF settings, Proceeds, Stage
<1>1. wrote \in Seq(Part \X (User \cup {LoopThread})) /\ mutex_ \in User \cup {Nobody}
      /\ {closing, disconnected} \subseteq BOOLEAN
  BY DEF MqttTyped, MTypeOK
<1>2. \A part \in Part : WritesPart(part, u) => wrote' \in Seq(Part \X (User \cup {LoopThread}))
  BY WritesPartType DEF MqttTyped
<1>3. {"head", "payload", "SUBSCRIBE", "DISCONNECT"} \subseteq Part
  BY DEF Part
<1>4. CASE Starts(u)
  BY <1>1, <1>4, UserTyped DEF Starts
<1>5. CASE PublishHead(u)
  BY <1>1, <1>2, <1>3, <1>5, UserTyped DEF PublishHead, KeepsMutex
<1>6. CASE PublishPayload(u)
  BY <1>1, <1>2, <1>3, <1>6, UserTyped DEF PublishPayload
<1>7. CASE Subscribe(u)
  BY <1>1, <1>2, <1>3, <1>7, UserTyped DEF Subscribe
<1>8. CASE Disconnect(u)
  BY <1>1, <1>8, UserTyped DEF Disconnect
<1>9. CASE SendDisconnect(u)
  <2>1. ~reconn_setting
    BY <1>9 DEF SendDisconnect, MqttTyped, Leaving
  <2> QED
    BY <1>1, <1>2, <1>3, <1>9, <2>1, UserTyped DEF SendDisconnect
<1>10. CASE Close(u)
  <2>1. ~reconn_setting
    BY <1>10 DEF Close, MqttTyped, Leaving
  <2> QED
    BY <1>1, <1>10, <2>1, UserTyped DEF Close
<1> QED
  BY <1>4, <1>5, <1>6, <1>7, <1>8, <1>9, <1>10 DEF Calls

LEMMA MqttTypedInit == MInit => MqttTyped
<1> SUFFICES ASSUME MInit PROVE MqttTyped
  OBVIOUS
<1>1. MTypeOK
  <2>1. {reconn_setting, reconn_timer, connected, heartbeat, closing, disconnected} \subseteq BOOLEAN
    BY DEF MInit
  <2>2. /\ conn = "connecting" /\ ping_cnt = 0 /\ mutex_ = Nobody /\ wrote = <<>>
        /\ call \in [User -> Stage]
    BY DEF MInit, Stage
  <2> QED
    BY <2>1, <2>2 DEF MTypeOK
<1>2. Leaving
  BY DEF MInit, Leaving
<1> QED
  BY <1>1, <1>2 DEF MqttTyped

LEMMA MqttTypedNext == MqttTyped /\ [MNext \/ ResolveFails]_mvars => MqttTyped'
<1> SUFFICES ASSUME MqttTyped, [MNext \/ ResolveFails]_mvars PROVE MqttTyped'
  OBVIOUS
<1>1. CASE UNCHANGED mvars
  BY <1>1 DEF mvars, MqttTyped, MTypeOK, Leaving
<1> QED
  BY <1>1, LoopTyped, CallsTyped DEF MNext

\* Every variable of the MQTT client keeps its type, host names that do not resolve
\* included: mutex_ is held by a user or nobody, ping_cnt stays below 5 though it
\* outlives the connection.
THEOREM MqttTypeCorrect == (MSpec => []MTypeOK) /\ (UnresolvedSpec => []MTypeOK)
<1>1. MqttTyped => MTypeOK
  BY DEF MqttTyped
<1>2. MqttTyped /\ [MNext]_mvars => MqttTyped'
  BY MqttTypedNext
<1>3. MSpec => []MTypeOK
  BY MqttTypedInit, <1>1, <1>2, PTL DEF MSpec
<1>4. UnresolvedSpec => []MTypeOK
  BY MqttTypedInit, MqttTypedNext, <1>1, PTL DEF UnresolvedSpec
<1> QED
  BY <1>3, <1>4

\* What mqtt_client_disconnect promises holds as long as nobody calls it while the
\* reconnect timer is armed, between the end of a connection and the next: that call
\* is the only way to a connection that is begun after it has returned.
THEOREM CarefulDisconnectIsFinal ==
    ASSUME Careful
    PROVE  (MSpec => DisconnectIsFinal) /\ (UnresolvedSpec => DisconnectIsFinal)
<1>1. MqttTyped /\ [MNext \/ ResolveFails]_mvars
      => [disconnected => ~(conn = "closed" /\ conn' = "connecting")]_mvars
  <2> SUFFICES ASSUME MqttTyped, MNext \/ ResolveFails, disconnected,
                      conn = "closed", conn' = "connecting"
               PROVE  FALSE
    OBVIOUS
  <2>1. ~reconn_timer
    BY DEF MqttTyped, Leaving
  <2>2. ~reconnect_timer_cb
    BY <2>1 DEF reconnect_timer_cb
  <2>3. conn' = conn \/ conn' \in {"open", "broken", "closed"}
    BY <2>2 DEF MNext, ResolveFails, on_connect, on_connack, on_request, on_pong, Ends, on_close,
       mqtt_send_ping, Breaks, Starts, Calls, PublishHead, PublishPayload, Subscribe,
       Disconnect, SendDisconnect, Close
  <2> QED
    BY <2>3
<1>2. MqttTyped /\ [MNext]_mvars => MqttTyped' 
  BY MqttTypedNext
<1>3. MqttTyped /\ [MNext]_mvars
      => [disconnected => ~(conn = "closed" /\ conn' = "connecting")]_mvars
  BY <1>1
<1>4. MSpec => DisconnectIsFinal
  BY MqttTypedInit, <1>2, <1>3, PTL DEF MSpec, DisconnectIsFinal
<1>5. UnresolvedSpec => DisconnectIsFinal
  BY MqttTypedInit, MqttTypedNext, <1>1, PTL DEF UnresolvedSpec, DisconnectIsFinal
<1> QED
  BY <1>4, <1>5

-----------------------------------------------------------------------------
(* The timers of the loop.                                                  *)

InWalk == {walk[k] : k \in DOMAIN walk}

\* What the variables hold, as far as the proof needs it.
TimerTypes ==
    /\ mem \in [Event -> {"none", "live", "freed"}] /\ repeat \in [Event -> Nat \cup {INFINITE}]
    /\ active \subseteq Event /\ pending \subseteq Event /\ destroy \subseteq Event
    /\ heap \subseteq Timer /\ idles \subseteq Idle
    /\ DOMAIN timers \subseteq Timer /\ timers \in [DOMAIN timers -> Nat \cup {INFINITE}]
    /\ walk \in Seq(Event \cup {NoEvent}) /\ cur \in Event \cup {NoEvent}

\* What can be reached has been allocated and not been freed.
Alive ==
    /\ \A e \in Event : e \in active \cup pending \cup heap \cup idles \cup DOMAIN timers
                              \cup InWalk \cup {cur} => mem[e] = "live"
    /\ \A e \in destroy : mem[e] # "none"
    /\ \A e \in Event : mem[e] = "live" => e \in active \cup pending

\* The walk has what is pending, each event once.
Walking ==
    /\ at \in {"poll", "walk", "call"}
    /\ \A i, j \in DOMAIN walk : walk[i] = walk[j] => i = j
    /\ InWalk \ {NoEvent} \subseteq pending /\ pending \subseteq InWalk \cup {cur}
    /\ at = "call" => cur \notin InWalk
    /\ at # "call" => cur = NoEvent
    /\ at = "poll" => walk = <<>>
    /\ cur \in Idle => cur \in pending

\* An event is marked when it leaves the heap or the list, and then active only
\* until its turn.
Marked ==
    /\ DOMAIN timers = active \cap Timer
    /\ heap \cup idles = active \ destroy
    /\ active \cap destroy \subseteq pending /\ pending \subseteq active \cup destroy

\* The loop's count of a timer and EventLoop's reach zero in the same turn.
Counted ==
    \A t \in DOMAIN timers :
        /\ repeat[t] = 0 <=> t \in destroy
        /\ timers[t] = INFINITE <=> repeat[t] = INFINITE
        /\ timers[t] # INFINITE =>
            timers[t] = repeat[t] + (IF t \in pending /\ t # cur THEN 1 ELSE 0)

TInv == TimerTypes /\ Alive /\ Walking /\ Marked /\ Counted

USE DEF Event

LEMMA KindsDiffer == Timer \cap Idle = {} /\ NoEvent \notin Event
BY TimersAssumption

LEMMA TInvInit == TInit => TInv
<1> SUFFICES ASSUME TInit PROVE TInv
  OBVIOUS
<1>1. TimerTypes
  BY DEF TInit, TimerTypes
<1>2. InWalk = {}
  BY DEF TInit, InWalk
<1> QED
  BY <1>1, <1>2, KindsDiffer DEF TInit, TInv, Alive, Walking, Marked, Counted

-----------------------------------------------------------------------------
(* Operations, with the walk standing still. *)

LEMMA setTimerKeeps ==
    ASSUME TInv, NEW t \in Timer, NEW d \in Timeouts, NEW n \in Repeats, NEW lag \in 0..MaxLag,
           setTimer(t, d, n, lag)
    PROVE  TInv'
<1>1. /\ mem[t] = "none" /\ mem' = [mem EXCEPT ![t] = "live"]
      /\ repeat' = [repeat EXCEPT ![t] = n]
      /\ heap' = heap \cup {t} /\ active' = active \cup {t}
      /\ timers' = [u \in DOMAIN timers \cup {t} |-> IF u = t THEN n ELSE timers[u]]
      /\ UNCHANGED <<pending, destroy, idles, at, walk, cur>>
  BY DEF setTimer, htimer_add, Operates, loopvars
<1>2. n \in Nat \cup {INFINITE} /\ n # 0
  BY TimersAssumption DEF INFINITE
<1>3. t \notin active \cup pending \cup heap \cup idles \cup DOMAIN timers \cup InWalk \cup {cur}
      /\ t \notin destroy
  BY <1>1 DEF TInv, Alive
<1>4. InWalk' = InWalk
  BY <1>1 DEF InWalk
<1>5. TimerTypes'
  BY <1>1, <1>2 DEF TInv, TimerTypes
<1>6. Alive'
  BY <1>1, <1>3, <1>4 DEF TInv, TimerTypes, Alive
<1>7. Walking'
  BY <1>1, <1>4 DEF TInv, Walking
<1>8. Marked'
  BY <1>1, <1>3 DEF TInv, TimerTypes, Marked
<1>9. Counted'
  BY <1>1, <1>2, <1>3 DEF TInv, TimerTypes, Counted, Marked
<1> QED
  BY <1>5, <1>6, <1>7, <1>8, <1>9 DEF TInv

LEMMA killTimerKeeps == ASSUME TInv, ~Careless, NEW t \in Timer, killTimer(t) PROVE TInv'
<1>1. t \in DOMAIN timers /\ t \in active /\ (t = cur => t \in pending)
  BY DEF killTimer, TInv, Marked
<1>2. /\ heap' = heap \ {t} /\ destroy' = destroy \cup {t} /\ active' = active \ {t}
      /\ mem' = IF t \in pending THEN mem ELSE [mem EXCEPT ![t] = "freed"]
      /\ timers' = [u \in DOMAIN timers \ {t} |-> timers[u]]
      /\ UNCHANGED <<pending, repeat, idles, at, walk, cur>>
  BY <1>1 DEF killTimer, Operates, loopvars, htimer_del, EventDel, Without
<1>3. InWalk' = InWalk /\ (t \notin pending => t \notin InWalk /\ t # cur) /\ t \notin idles
  BY <1>1, <1>2, KindsDiffer DEF TInv, TimerTypes, Walking, InWalk
<1>4. TimerTypes'
  BY <1>1, <1>2 DEF TInv, TimerTypes
<1>5. Alive'
  BY <1>1, <1>2, <1>3 DEF TInv, TimerTypes, Alive
<1>6. Walking'
  BY <1>2, <1>3 DEF TInv, Walking
<1>7. Marked'
  BY <1>1, <1>2, <1>3 DEF TInv, TimerTypes, Marked
<1>8. Counted'
  BY <1>1, <1>2 DEF TInv, TimerTypes, Counted
<1> QED
  BY <1>4, <1>5, <1>6, <1>7, <1>8 DEF TInv

LEMMA resetTimerKeeps == ASSUME TInv, ~Careless, NEW t \in Timer, resetTimer(t) PROVE TInv'
<1>1. t \in DOMAIN timers /\ t \in active /\ (t = cur \/ t \notin pending) /\ t \notin idles
  BY KindsDiffer DEF resetTimer, Resettable, TInv, TimerTypes, Marked
<1>2. /\ heap' = heap \cup {t} /\ destroy' = destroy \ {t} /\ pending' = pending \ {t}
      /\ active' = active
      /\ repeat' = [repeat EXCEPT ![t] = IF @ = 0 THEN 1 ELSE @]
      /\ timers' = [timers EXCEPT ![t] = IF @ = 0 THEN 1 ELSE @]
      /\ UNCHANGED <<mem, idles, at, walk, cur>>
  BY <1>1 DEF resetTimer, Resettable, Operates, loopvars, htimer_reset
<1>3. InWalk' = InWalk /\ t \notin InWalk
  BY <1>1, <1>2, KindsDiffer DEF TInv, TimerTypes, Walking, InWalk
<1>4. TimerTypes'
  BY <1>1, <1>2 DEF TInv, TimerTypes
<1>5. Alive'
  BY <1>1, <1>2, <1>3 DEF TInv, TimerTypes, Alive
<1>6. Walking'
  BY <1>1, <1>2, <1>3, KindsDiffer DEF TInv, Walking
<1>7. Marked'
  BY <1>1, <1>2, <1>3 DEF TInv, TimerTypes, Marked
<1>8. Counted'
  BY <1>1, <1>2 DEF TInv, TimerTypes, Counted, INFINITE
<1> QED
  BY <1>4, <1>5, <1>6, <1>7, <1>8 DEF TInv

LEMMA hidle_addKeeps ==
    ASSUME TInv, NEW i \in Idle, NEW n \in Repeats, hidle_add(i, n) PROVE TInv'
<1>1. /\ mem[i] = "none" /\ mem' = [mem EXCEPT ![i] = "live"]
      /\ repeat' = [repeat EXCEPT ![i] = n]
      /\ idles' = idles \cup {i} /\ active' = active \cup {i}
      /\ UNCHANGED <<pending, destroy, heap, timers, at, walk, cur>>
  BY DEF hidle_add, Operates, loopvars
<1>2. n \in Nat \cup {INFINITE}
  BY TimersAssumption
<1>3. i \notin active \cup pending \cup heap \cup idles \cup InWalk \cup {cur}
      /\ i \notin destroy /\ i \notin Timer
  BY <1>1, KindsDiffer DEF TInv, Alive
<1>4. InWalk' = InWalk
  BY <1>1 DEF InWalk
<1>5. TimerTypes'
  BY <1>1, <1>2 DEF TInv, TimerTypes
<1>6. Alive'
  BY <1>1, <1>3, <1>4 DEF TInv, TimerTypes, Alive
<1>7. Walking'
  BY <1>1, <1>4 DEF TInv, Walking
<1>8. Marked'
  BY <1>1, <1>3 DEF TInv, TimerTypes, Marked
<1>9. Counted'
  BY <1>1, <1>3 DEF TInv, TimerTypes, Counted
<1> QED
  BY <1>5, <1>6, <1>7, <1>8, <1>9 DEF TInv

LEMMA hidle_delKeeps == ASSUME TInv, NEW i \in Idle, hidle_del(i) PROVE TInv'
<1>1. i \in active /\ i \notin Timer
  BY KindsDiffer DEF hidle_del
<1>2. /\ idles' = idles \ {i} /\ destroy' = destroy \cup {i} /\ active' = active \ {i}
      /\ mem' = IF i \in pending THEN mem ELSE [mem EXCEPT ![i] = "freed"]
      /\ UNCHANGED <<pending, repeat, heap, timers, at, walk, cur>>
  BY DEF hidle_del, Operates, loopvars, EventDel
<1>3. InWalk' = InWalk /\ (i \notin pending => i \notin InWalk /\ i # cur) /\ i \notin heap
  BY <1>1, <1>2, KindsDiffer DEF TInv, TimerTypes, Walking, InWalk
<1>4. TimerTypes'
  BY <1>2 DEF TInv, TimerTypes
<1>5. Alive'
  BY <1>1, <1>2, <1>3 DEF TInv, TimerTypes, Alive
<1>6. Walking'
  BY <1>2, <1>3 DEF TInv, Walking
<1>7. Marked'
  BY <1>1, <1>2, <1>3 DEF TInv, TimerTypes, Marked
<1>8. Counted'
  BY <1>1, <1>2 DEF TInv, TimerTypes, Counted
<1> QED
  BY <1>4, <1>5, <1>6, <1>7, <1>8 DEF TInv

-----------------------------------------------------------------------------
(* The loop. *)

\* Orders goes through the whole of a set.
LEMMA OrdersAreComplete ==
    ASSUME NEW S, IsFiniteSet(S), NEW s \in Orders(S)
    PROVE  /\ s \in [1..Cardinality(S) -> S] /\ Cardinality(S) \in Nat
           /\ \A i, j \in DOMAIN s : s[i] = s[j] => i = j
           /\ \A e \in S : \E i \in DOMAIN s : s[i] = e
<1>1. s \in [1..Cardinality(S) -> S] /\ \A i, j \in DOMAIN s : s[i] = s[j] => i = j
  BY DEF Orders
<1>2. Cardinality(S) \in Nat
  BY FS_CardinalityType
<1>3. s \in Injection(1..Cardinality(S), S)
  BY <1>1 DEF Injection, IsInjective
<1>4. Cardinality(1..Cardinality(S)) = Cardinality(S)
  BY <1>2, FS_Interval
<1>5. s \in Surjection(1..Cardinality(S), S)
  BY <1>3, <1>4, FS_Injection
<1> QED
  BY <1>1, <1>2, <1>5 DEF Surjection

\* The walk that begins has the events that are pending, and maybe a functor.
LEMMA WalkBegins ==
    ASSUME NEW S \in SUBSET Event, NEW functor \in BOOLEAN, NEW s \in Orders(S),
           walk' = IF functor THEN Append(s, NoEvent) ELSE s
    PROVE  /\ walk' \in Seq(Event \cup {NoEvent})
           /\ \A i, j \in DOMAIN walk' : walk'[i] = walk'[j] => i = j
           /\ InWalk' \ {NoEvent} = S
<1>1. IsFiniteSet(Event) /\ IsFiniteSet(S)
  BY TimersAssumption, FS_Union, FS_Subset
<1> DEFINE n == Cardinality(S)
<1>2. /\ s \in [1..n -> S] /\ n \in Nat
      /\ \A i, j \in DOMAIN s : s[i] = s[j] => i = j
      /\ \A e \in S : \E i \in DOMAIN s : s[i] = e
  BY <1>1, OrdersAreComplete
<1> HIDE DEF n
<1>3. NoEvent \notin S
  BY KindsDiffer
<1>4. s \in Seq(Event \cup {NoEvent}) /\ Len(s) = n /\ DOMAIN s = 1..n
  BY <1>2
<1>5. CASE ~functor
  BY <1>2, <1>3, <1>4, <1>5 DEF InWalk
<1>6. CASE functor
  <2>1. /\ walk' \in Seq(Event \cup {NoEvent}) /\ DOMAIN walk' = 1..n + 1
        /\ walk'[n + 1] = NoEvent /\ \A i \in 1..n : walk'[i] = s[i]
    BY <1>2, <1>4, <1>6
  <2>2. \A i \in 1..n : s[i] \in S /\ s[i] # NoEvent
    BY <1>2, <1>3
  <2>3. \A i, j \in 1..n + 1 : walk'[i] = walk'[j] => i = j
    BY <1>2, <1>4, <2>1, <2>2
  <2>4. InWalk' \ {NoEvent} = S
    BY <1>2, <1>3, <1>4, <2>1, <2>2 DEF InWalk
  <2> QED
    BY <2>1, <2>3, <2>4
<1> QED
  BY <1>5, <1>6

LEMMA TimersPollKeeps ==
    ASSUME TInv, NEW lag \in 1..MaxLag, NEW functor \in BOOLEAN, TimersPoll(lag, functor)
    PROVE  TInv'
<1>1. at = "poll" /\ pending = {} /\ InWalk = {} /\ cur = NoEvent
  BY KindsDiffer DEF TimersPoll, TInv, TimerTypes, Walking, InWalk
<1>2. PICK now \in SUBSET (heap \cup idles) :
        /\ pending' = now /\ destroy' = destroy \cup UsedUp(now)
        /\ heap' = heap \ UsedUp(now) /\ idles' = idles \ UsedUp(now)
        /\ repeat' = [e \in Event |-> IF e \in now THEN Less(repeat[e]) ELSE repeat[e]]
        /\ \E s \in Orders(now) : walk' = IF functor THEN Append(s, NoEvent) ELSE s
  <2> DEFINE due == Due(lag)
  <2>1. due \subseteq heap /\ heap \cap idles = {}
    BY KindsDiffer DEF Due, TInv, TimerTypes
  <2>2. /\ pending' = IF due # {} THEN due ELSE IF functor THEN {} ELSE idles
        /\ \E s \in Orders(pending') : walk' = IF functor THEN Append(s, NoEvent) ELSE s
        /\ IF due # {} \/ functor THEN ProcessTimers(due, lag) ELSE ProcessIdles(lag)
    BY <1>1 DEF TimersPoll, PendingOrders
  <2> HIDE DEF due
  <2>3. CASE due # {} \/ functor
    <3>1. /\ heap' = heap \ UsedUp(due) /\ idles' = idles /\ destroy' = destroy \cup UsedUp(due)
          /\ repeat' = [e \in Event |-> IF e \in due THEN Less(repeat[e]) ELSE repeat[e]]
      BY <2>2, <2>3 DEF ProcessTimers
    <3>2. pending' = due /\ UsedUp(due) \subseteq due
      BY <2>2, <2>3 DEF UsedUp
    <3>3. idles \ UsedUp(due) = idles
      BY <2>1, <3>2
    <3> QED
      BY <2>1, <2>2, <3>1, <3>2, <3>3
  <2>4. CASE ~(due # {} \/ functor)
    <3>1. /\ idles' = idles \ UsedUp(idles) /\ heap' = heap /\ destroy' = destroy \cup UsedUp(idles)
          /\ repeat' = [e \in Event |-> IF e \in idles THEN Less(repeat[e]) ELSE repeat[e]]
      BY <2>2, <2>4 DEF ProcessIdles
    <3>2. pending' = idles /\ UsedUp(idles) \subseteq idles
      BY <2>2, <2>4 DEF UsedUp
    <3>3. heap \ UsedUp(idles) = heap
      BY <2>1, <3>2
    <3> QED
      BY <2>1, <2>2, <3>1, <3>2, <3>3
  <2> QED
    BY <2>3, <2>4
<1>3. at' = "walk" /\ UNCHANGED <<mem, active, timers, cur>>
  BY DEF TimersPoll
<1> DEFINE last == UsedUp(now)
<1>4. last \subseteq now /\ \A e \in now : e \in last <=> repeat[e] = 1
  BY DEF UsedUp
<1> HIDE DEF last
<1>5. destroy' = destroy \cup last /\ heap' = heap \ last /\ idles' = idles \ last
  BY <1>2 DEF last
<1>6. now \in SUBSET Event
  BY <1>2 DEF TInv, TimerTypes
<1>7. /\ walk' \in Seq(Event \cup {NoEvent}) /\ InWalk' \ {NoEvent} = now
      /\ \A i, j \in DOMAIN walk' : walk'[i] = walk'[j] => i = j
  BY <1>2, <1>6, WalkBegins
<1>8. \A e \in now : e \in active /\ e \notin destroy
  BY <1>2 DEF TInv, Marked
<1>9. TimerTypes'
  BY <1>2, <1>4, <1>5, <1>3, <1>6, <1>7 DEF TInv, TimerTypes, Less, INFINITE
<1>10. Alive'
  BY <1>1, <1>2, <1>4, <1>5, <1>3, <1>6, <1>7, <1>8 DEF TInv, TimerTypes, Alive
<1>11. Walking'
  BY <1>1, <1>2, <1>4, <1>5, <1>3, <1>7, KindsDiffer DEF Walking
<1>12. Marked'
  BY <1>1, <1>2, <1>4, <1>5, <1>3, <1>8 DEF TInv, Marked
<1>13. Counted'
  <2> SUFFICES ASSUME NEW t \in DOMAIN timers
               PROVE  /\ repeat'[t] = 0 <=> t \in destroy'
                      /\ timers[t] = INFINITE <=> repeat'[t] = INFINITE
                      /\ timers[t] # INFINITE =>
                          timers[t] = repeat'[t] + (IF t \in pending' /\ t # cur' THEN 1 ELSE 0)
    BY <1>3 DEF Counted
  <2>1. /\ t \in Event /\ t # cur' /\ repeat[t] \in Nat \cup {INFINITE} /\ t \notin pending
        /\ repeat[t] = 0 <=> t \in destroy
        /\ timers[t] = INFINITE <=> repeat[t] = INFINITE
        /\ timers[t] # INFINITE => timers[t] = repeat[t]
    BY <1>1, <1>3, KindsDiffer DEF TInv, TimerTypes, Counted
  <2>2. CASE t \in now
    <3>1. t \in last <=> repeat[t] = 1
      BY <1>4, <2>2
    <3>2. repeat'[t] = Less(repeat[t])
      BY <1>2, <1>4, <1>5, <2>1, <2>2
    <3> QED
      BY <1>2, <1>4, <1>5, <1>8, <2>1, <2>2, <3>1, <3>2 DEF Less, INFINITE
  <2>3. CASE t \notin now
    BY <1>2, <1>4, <1>5, <2>1, <2>3
  <2> QED
    BY <2>2, <2>3
<1> QED
  BY <1>9, <1>10, <1>11, <1>12, <1>13 DEF TInv

\* The next event leaves the walk.
LEMMA WalkGoesOn ==
    ASSUME TInv, walk # <<>>, walk' = Tail(walk)
    PROVE  /\ walk' \in Seq(Event \cup {NoEvent}) /\ Head(walk) \in Event \cup {NoEvent}
           /\ InWalk' = InWalk \ {Head(walk)} /\ Head(walk) \in InWalk
           /\ \A i, j \in DOMAIN walk' : walk'[i] = walk'[j] => i = j
<1> DEFINE n == Len(walk)
<1>1. walk \in Seq(Event \cup {NoEvent}) /\ \A i, j \in DOMAIN walk : walk[i] = walk[j] => i = j
  BY DEF TInv, TimerTypes, Walking
<1>2. /\ walk' \in Seq(Event \cup {NoEvent}) /\ n \in Nat \ {0} /\ DOMAIN walk = 1..n
      /\ DOMAIN walk' = 1..n - 1 /\ \A i \in 1..n - 1 : walk'[i] = walk[i + 1]
      /\ Head(walk) = walk[1] /\ walk[1] \in Event \cup {NoEvent}
  BY <1>1
<1> HIDE DEF n
<1>3. \A i, j \in 1..n - 1 : walk'[i] = walk'[j] => i = j
  BY <1>1, <1>2
<1>4. InWalk' = InWalk \ {walk[1]}
  <2>1. ASSUME NEW e \in InWalk' PROVE e \in InWalk \ {walk[1]}
    <3>1. PICK i \in 1..n - 1 : e = walk[i + 1]
      BY <1>2, <2>1 DEF InWalk
    <3>2. i + 1 \in 1..n /\ 1 \in 1..n /\ i + 1 # 1
      BY <1>2
    <3> QED
      BY <1>1, <1>2, <3>1, <3>2 DEF InWalk
  <2>2. ASSUME NEW e \in InWalk, e # walk[1] PROVE e \in InWalk'
    <3>1. PICK i \in 1..n : e = walk[i] /\ i # 1
      BY <1>2, <2>2 DEF InWalk
    <3>2. i - 1 \in 1..n - 1 /\ walk'[i - 1] = walk[i]
      BY <1>2, <3>1
    <3> QED
      BY <1>2, <3>1, <3>2 DEF InWalk
  <2> QED
    BY <2>1, <2>2
<1>5. Head(walk) \in InWalk
  BY <1>2 DEF InWalk
<1> QED
  BY <1>2, <1>3, <1>4, <1>5

LEMMA LoopCallsKeeps == ASSUME TInv, LoopCalls PROVE TInv'
<1> DEFINE e == Head(walk)
<1>1. /\ at = "walk" /\ walk # <<>> /\ walk' = Tail(walk) /\ at' = "call" /\ cur' = e
      /\ e = NoEvent \/ e \in pending
      /\ timers' = [t \in DOMAIN timers |-> IF t = e THEN Less(timers[t]) ELSE timers[t]]
      /\ UNCHANGED <<mem, active, pending, destroy, repeat, heap, idles>>
  BY DEF LoopCalls, flags
<1>2. /\ walk' \in Seq(Event \cup {NoEvent}) /\ e \in Event \cup {NoEvent}
      /\ InWalk' = InWalk \ {e} /\ e \in InWalk
      /\ \A i, j \in DOMAIN walk' : walk'[i] = walk'[j] => i = j
  BY <1>1, WalkGoesOn
<1> HIDE DEF e
<1>3. cur = NoEvent
  BY <1>1 DEF TInv, Walking
<1>4. Counted'
  <2> SUFFICES ASSUME NEW t \in DOMAIN timers
               PROVE  /\ repeat[t] = 0 <=> t \in destroy
                      /\ timers'[t] = INFINITE <=> repeat[t] = INFINITE
                      /\ timers'[t] # INFINITE =>
                          timers'[t] = repeat[t] + (IF t \in pending /\ t # e THEN 1 ELSE 0)
    BY <1>1 DEF Counted
  <2>1. /\ t \in Event /\ t # cur /\ repeat[t] \in Nat \cup {INFINITE}
        /\ repeat[t] = 0 <=> t \in destroy
        /\ timers[t] = INFINITE <=> repeat[t] = INFINITE
        /\ timers[t] # INFINITE => timers[t] = repeat[t] + (IF t \in pending THEN 1 ELSE 0)
    BY <1>3, KindsDiffer DEF TInv, TimerTypes, Counted
  <2> QED
    BY <1>1, <2>1, KindsDiffer DEF Less, INFINITE
<1>5. timers' \in [DOMAIN timers -> Nat \cup {INFINITE}]
  <2> SUFFICES ASSUME NEW t \in DOMAIN timers, t = e PROVE Less(timers[t]) \in Nat \cup {INFINITE}
    BY <1>1 DEF TInv, TimerTypes
  <2>1. /\ t \in Event /\ t # cur /\ repeat[t] \in Nat \cup {INFINITE} /\ t \in pending
        /\ timers[t] # INFINITE => repeat[t] # INFINITE /\ timers[t] = repeat[t] + 1
    BY <1>1, <1>3, KindsDiffer DEF TInv, TimerTypes, Counted
  <2> QED
    BY <2>1 DEF Less, INFINITE
<1>6. TimerTypes'
  BY <1>1, <1>2, <1>5 DEF TInv, TimerTypes
<1>7. Alive'
  BY <1>1, <1>2 DEF TInv, TimerTypes, Alive
<1>8. Walking'
  BY <1>1, <1>2, <1>3, KindsDiffer DEF TInv, TimerTypes, Walking
<1>9. Marked'
  BY <1>1 DEF TInv, Marked
<1> QED
  BY <1>4, <1>6, <1>7, <1>8, <1>9 DEF TInv

LEMMA LoopReturnsKeeps == ASSUME TInv, LoopReturns PROVE TInv'
<1>1. /\ at = "call" /\ at' = "walk" /\ cur' = NoEvent /\ walk' = walk
      /\ pending' = pending \ {cur} /\ active' = active \ (destroy \cap {cur})
      /\ mem' = IF cur \in destroy THEN [mem EXCEPT ![cur] = "freed"] ELSE mem
      /\ UNCHANGED <<destroy, repeat, heap, idles>>
  BY DEF LoopReturns, Turned
<1>2. /\ InWalk' = InWalk /\ cur \notin InWalk
  BY <1>1 DEF TInv, Walking, InWalk
<1>3. cur \in DOMAIN timers => (timers[cur] = 0 <=> cur \in destroy)
  BY DEF TInv, TimerTypes, Counted, INFINITE
<1>4. timers' = [t \in DOMAIN timers \ (destroy \cap {cur}) |-> timers[t]]
  <2>1. CASE cur \in DOMAIN timers /\ cur \in destroy
    <3>1. timers' = Without(timers, cur) /\ destroy \cap {cur} = {cur}
      BY <1>3, <2>1 DEF LoopReturns
    <3> QED
      BY <3>1 DEF Without
  <2>2. CASE ~(cur \in DOMAIN timers /\ cur \in destroy)
    <3>1. timers' = timers /\ DOMAIN timers \ (destroy \cap {cur}) = DOMAIN timers
      BY <1>3, <2>2 DEF LoopReturns
    <3> QED
      BY <3>1 DEF TInv, TimerTypes
  <2> QED
    BY <2>1, <2>2
<1>5. TimerTypes'
  BY <1>1, <1>4 DEF TInv, TimerTypes
<1>6. Alive'
  BY <1>1, <1>2, <1>4, KindsDiffer DEF TInv, TimerTypes, Alive, Marked
<1>7. Walking'
  BY <1>1, <1>2, KindsDiffer DEF TInv, Walking
<1>8. Marked'
  BY <1>1, <1>4 DEF TInv, TimerTypes, Marked
<1>9. Counted'
  BY <1>1, <1>4, KindsDiffer DEF TInv, TimerTypes, Counted
<1> QED
  BY <1>5, <1>6, <1>7, <1>8, <1>9 DEF TInv

\* An event that was killed since it became pending is freed.
LEMMA LoopSkipsKeeps == ASSUME TInv, LoopSkips PROVE TInv'
<1> DEFINE e == Head(walk)
<1>1. /\ at = "walk" /\ walk # <<>> /\ walk' = Tail(walk) /\ e # NoEvent
      /\ e \notin pending \cap active /\ UNCHANGED <<at, cur, timers>>
  BY DEF LoopSkips
<1>2. /\ walk' \in Seq(Event \cup {NoEvent}) /\ e \in Event \cup {NoEvent}
      /\ InWalk' = InWalk \ {e} /\ e \in InWalk
      /\ \A i, j \in DOMAIN walk' : walk'[i] = walk'[j] => i = j
  BY <1>1, WalkGoesOn
<1>3. e \in pending /\ e \notin active /\ e \in destroy /\ e \notin DOMAIN timers
  BY <1>1, <1>2 DEF TInv, Walking, Marked
<1>4. /\ pending' = pending \ {e} /\ active' = active
      /\ mem' = [mem EXCEPT ![e] = "freed"] /\ UNCHANGED <<destroy, repeat, heap, idles>>
  BY <1>1, <1>3 DEF LoopSkips, Turned
<1> HIDE DEF e
<1>5. cur = NoEvent
  BY <1>1 DEF TInv, Walking
<1>6. TimerTypes'
  BY <1>1, <1>2, <1>4 DEF TInv, TimerTypes
<1>7. Alive'
  BY <1>1, <1>2, <1>3, <1>4, <1>5, KindsDiffer DEF TInv, TimerTypes, Alive, Marked
<1>8. Walking'
  BY <1>1, <1>2, <1>4, <1>5, KindsDiffer DEF TInv, Walking
<1>9. Marked'
  BY <1>1, <1>3, <1>4 DEF TInv, TimerTypes, Marked
<1>10. Counted'
  BY <1>1, <1>3, <1>4 DEF TInv, TimerTypes, Counted
<1> QED
  BY <1>6, <1>7, <1>8, <1>9, <1>10 DEF TInv

LEMMA LoopEndsWalkKeeps == ASSUME TInv, LoopEndsWalk PROVE TInv'
<1>1. /\ walk = <<>> /\ at = "walk" /\ at' = "poll"
      /\ UNCHANGED <<mem, active, pending, destroy, repeat, heap, idles, timers, walk, cur>>
  BY DEF LoopEndsWalk, flags
<1>2. InWalk' = InWalk
  BY <1>1 DEF InWalk
<1> QED
  BY <1>1, <1>2 DEF TInv, TimerTypes, Alive, Walking, Marked, Counted

-----------------------------------------------------------------------------
(* The theorems. *)

LEMMA TInvNext == TInv /\ ~Careless /\ [TNext]_tvars => TInv'
<1> SUFFICES ASSUME TInv, ~Careless, [TNext]_tvars PROVE TInv'
  OBVIOUS
<1>1. CASE TimerSteps
  BY <1>1, TimersPollKeeps, LoopCallsKeeps, LoopReturnsKeeps, LoopSkipsKeeps, LoopEndsWalkKeeps
     DEF TimerSteps
<1>2. CASE \E t \in Timer, d \in Timeouts, n \in Repeats, lag \in 0..MaxLag : setTimer(t, d, n, lag)
  BY <1>2, setTimerKeeps
<1>3. CASE \E t \in Timer : killTimer(t) \/ resetTimer(t)
  BY <1>3, killTimerKeeps, resetTimerKeeps
<1>4. CASE \E i \in Idle, n \in Repeats : hidle_add(i, n)
  BY <1>4, hidle_addKeeps
<1>5. CASE \E i \in Idle : hidle_del(i)
  BY <1>5, hidle_delKeeps
<1>6. CASE UNCHANGED tvars
  <2>1. UNCHANGED <<mem, active, pending, destroy, repeat, heap, idles, timers, walk, cur, at>>
    BY <1>6 DEF tvars
  <2>2. InWalk' = InWalk
    BY <2>1 DEF InWalk
  <2> QED
    BY <2>1, <2>2 DEF TInv, TimerTypes, Alive, Walking, Marked, Counted
<1> QED
  BY <1>1, <1>2, <1>3, <1>4, <1>5, <1>6 DEF TNext

LEMMA TInvHolds == ASSUME ~Careless PROVE TSpec => []TInv
<1>1. TInv /\ [TNext]_tvars => TInv'
  BY TInvNext
<1> QED
  BY <1>1, TInvInit, PTL DEF TSpec

LEMMA DeletionFollows == TInv => SafeDelete
BY DEF TInv, Alive, SafeDelete, Freed, InWalk

\* Nothing that a later step follows, neither the heap and the lists of the loop,
\* nor the walk under way, nor the ids of EventLoop, leads to freed memory.
THEOREM DeletionIsSafe == ASSUME ~Careless PROVE TSpec => []SafeDelete
BY DeletionFollows, TInvHolds, PTL

-----------------------------------------------------------------------------
(* The counters. *)

LEMMA SizeOfOneMore ==
    ASSUME NEW S \in SUBSET Event, NEW e
    PROVE  /\ IsFiniteSet(S) /\ Cardinality(S) \in Nat
           /\ Cardinality(S \cup {e}) = IF e \in S THEN Cardinality(S) ELSE Cardinality(S) + 1
           /\ Cardinality(S \ {e}) = IF e \in S THEN Cardinality(S) - 1 ELSE Cardinality(S)
<1>1. IsFiniteSet(S)
  BY TimersAssumption, FS_Union, FS_Subset
<1> QED
  BY <1>1, FS_CardinalityType, FS_AddElement, FS_RemoveElement

LEMMA CountsKept ==
    ASSUME TInv, CountersExact, ~Careless, [TNext]_tvars PROVE CountersExact'
<1> USE DEF CountersExact
<1>1. heap \in SUBSET Event /\ idles \in SUBSET Event /\ active \in SUBSET Event
  BY DEF TInv, TimerTypes
<1>2. ASSUME NEW t \in Timer, NEW d \in Timeouts, NEW n \in Repeats, NEW lag \in 0..MaxLag,
             setTimer(t, d, n, lag)
      PROVE  CountersExact'
  <2>1. t \notin heap /\ t \notin active
    BY <1>2 DEF setTimer, htimer_add, TInv, Alive
  <2> QED
    BY <1>1, <1>2, <2>1, SizeOfOneMore DEF setTimer, htimer_add
<1>3. ASSUME NEW t \in Timer, killTimer(t) PROVE CountersExact'
  <2>1. t \in active /\ (t \in heap <=> t \notin destroy)
    BY <1>3, KindsDiffer DEF killTimer, TInv, TimerTypes, Marked
  <2>2. /\ heap' = heap \ {t} /\ active' = active \ {t}
        /\ ntimers' = (IF t \in destroy THEN ntimers ELSE ntimers - 1)
        /\ nactives' = nactives - 1 /\ UNCHANGED <<idles, nidles>>
    BY <1>3, <2>1 DEF killTimer, htimer_del, EventDel
  <2> QED
    BY <1>1, <2>1, <2>2, SizeOfOneMore
<1>4. ASSUME NEW t \in Timer, resetTimer(t) PROVE CountersExact'
  <2>1. t \in active /\ (t \in heap <=> t \notin destroy) /\ active' = active
    BY <1>4, KindsDiffer DEF resetTimer, Resettable, htimer_reset, TInv, TimerTypes, Marked
  <2> QED
    BY <1>1, <1>4, <2>1, SizeOfOneMore DEF resetTimer, htimer_reset
<1>5. ASSUME NEW i \in Idle, NEW n \in Repeats, hidle_add(i, n) PROVE CountersExact'
  <2>1. i \notin idles /\ i \notin active
    BY <1>5 DEF hidle_add, TInv, Alive
  <2> QED
    BY <1>1, <1>5, <2>1, SizeOfOneMore DEF hidle_add
<1>6. ASSUME NEW i \in Idle, hidle_del(i) PROVE CountersExact'
  <2>1. i \in active /\ (i \in idles <=> i \notin destroy)
    BY <1>6, KindsDiffer DEF hidle_del, TInv, TimerTypes, Marked
  <2> QED
    BY <1>1, <1>6, <2>1, SizeOfOneMore DEF hidle_del, EventDel
<1>7. ASSUME NEW lag \in 1..MaxLag, NEW functor \in BOOLEAN, TimersPoll(lag, functor)
      PROVE  CountersExact'
  <2>1. ASSUME NEW S \in SUBSET Event, NEW T \in SUBSET S
        PROVE  Cardinality(S \ T) = Cardinality(S) - Cardinality(T)
    <3>1. IsFiniteSet(S) /\ S \cap T = T
      BY SizeOfOneMore
    <3> QED
      BY <3>1, FS_Difference, ZenonT(60)
  <2>2. UsedUp(Due(lag)) \in SUBSET heap /\ UsedUp(idles) \in SUBSET idles
    BY DEF UsedUp, Due
  <2>3. UNCHANGED <<active, nactives>>
    BY <1>7 DEF TimersPoll
  <2>4. CASE ProcessTimers(Due(lag), lag)
    BY <1>1, <2>1, <2>2, <2>3, <2>4 DEF ProcessTimers
  <2>5. CASE ProcessIdles(lag)
    BY <1>1, <2>1, <2>2, <2>3, <2>5 DEF ProcessIdles
  <2> QED
    BY <1>7, <2>4, <2>5 DEF TimersPoll
<1>8. CASE LoopReturns
  <2>1. UNCHANGED <<heap, idles, ntimers, nidles>>
    BY <1>8 DEF LoopReturns, Turned
  <2>2. CASE cur \in active \cap destroy
    <3>1. active' = active \ {cur} /\ nactives' = nactives - 1
      BY <1>8, <2>2 DEF LoopReturns, Turned
    <3> QED
      BY <1>1, <2>1, <2>2, <3>1, SizeOfOneMore
  <2>3. CASE cur \notin active \cap destroy
    <3>1. active' = active /\ nactives' = nactives
      BY <1>8, <2>3 DEF LoopReturns, Turned
    <3> QED
      BY <2>1, <3>1
  <2> QED
    BY <2>2, <2>3
<1>9. CASE LoopSkips
  <2> DEFINE e == Head(walk)
  <2>1. walk # <<>> /\ e # NoEvent /\ e \notin pending \cap active
    BY <1>9 DEF LoopSkips
  <2>2. e \in pending /\ e \notin active
    <3>1. e \in InWalk
      BY <2>1 DEF TInv, TimerTypes, InWalk
    <3> QED
      BY <2>1, <3>1 DEF TInv, Walking
  <2> QED
    BY <1>9, <2>2 DEF LoopSkips, Turned
<1>10. CASE LoopCalls \/ LoopEndsWalk \/ UNCHANGED tvars
  BY <1>10 DEF LoopCalls, LoopEndsWalk, tvars, flags
<1> QED
  BY <1>2, <1>3, <1>4, <1>5, <1>6, <1>7, <1>8, <1>9, <1>10 DEF TNext, TimerSteps

LEMMA CountsInit == TInit => CountersExact
BY FS_EmptySet DEF TInit, CountersExact

LEMMA BooksFollow == TInv => NothingLeftOver /\ RepeatsAgree
<1> SUFFICES ASSUME TInv PROVE NothingLeftOver /\ RepeatsAgree
  OBVIOUS
<1>1. ASSUME at = "poll"
      PROVE  /\ {e \in Event : mem[e] = "live"} = heap \cup idles
             /\ DOMAIN timers = heap /\ active = heap \cup idles /\ pending = {}
  <2>1. pending = {}
    BY <1>1, KindsDiffer DEF TInv, TimerTypes, Walking, InWalk
  <2>2. active = heap \cup idles
    BY <2>1 DEF TInv, Marked
  <2>3. DOMAIN timers = heap
    BY <2>2, KindsDiffer DEF TInv, TimerTypes, Marked
  <2>4. {e \in Event : mem[e] = "live"} = active
    BY <2>1 DEF TInv, TimerTypes, Alive
  <2> QED
    BY <2>1, <2>2, <2>3, <2>4
<1> QED
  BY <1>1 DEF NothingLeftOver, RepeatsAgree, TInv, Counted

\* The counters that decide whether the loop looks at its timers and idles and
\* whether it may quit are exact; between two rounds everything allocated is in the
\* heap or the list of idles, where hloop_cleanup finds it; and the loop and
\* EventLoop have the same repeats left for every timer.
THEOREM BooksAreKept == ASSUME ~Careless PROVE TSpec => []TimersSound
<1>1. TInv /\ CountersExact /\ [TNext]_tvars => CountersExact'
  BY CountsKept
<1> QED
  BY <1>1, CountsInit, BooksFollow, TInvHolds, PTL DEF TSpec, TimersSound

-----------------------------------------------------------------------------
(* Types, whatever callbacks do.                                             *)

\* The remainder of a division by d, which may be of a negative number.
LEMMA Remainder ==
    ASSUME NEW d \in Nat \ {0}, NEW a \in Int
    PROVE  a % d \in 0..d - 1 /\ \E q \in Int : a = d * q + (a % d)
<1> DEFINE q == a \div d
           r == a % d
<1>1. q \in Int /\ r \in 0..d - 1
  OBVIOUS
<1>2. a = d * q + r
  BY <1>1
<1> QED
  BY <1>1, <1>2

\* A due time that has passed moves past now.
LEMMA NextDueType ==
    ASSUME NEW l \in Int, NEW d \in Nat \ {0}
    PROVE  NextDue(l, d) \in 1..d
<1> DEFINE r == (l - 1) % d
           n == r + 1
<1>1. r \in 0..d - 1 /\ \E q \in Int : l - 1 = d * q + r
  <2> DEFINE a == l - 1
  <2>1. a \in Int
    OBVIOUS
  <2> HIDE DEF a
  <2>2. a % d \in 0..d - 1 /\ \E q \in Int : a = d * q + (a % d)
    BY <2>1, Remainder
  <2> QED
    BY <2>2 DEF a
<1>2. PICK q \in Int : l - 1 = d * q + r
  BY <1>1
<1> HIDE DEF r
<1>3. n \in 1..d /\ n - l = d * (0 - q)
  <2>1. n - l = 0 - d * q
    BY <1>1, <1>2
  <2>2. 0 - d * q = d * (0 - q)
    OBVIOUS
  <2> QED
    BY <1>1, <2>1, <2>2
<1>4. (n - l) % d = 0
  <2>1. (d * (0 - q)) % d = 0
    OBVIOUS
  <2> QED
    BY <1>3, <2>1
<1> QED
  BY <1>3, <1>4 DEF NextDue

\* The types, with what makes due times numbers: a timer that is set has a timeout.
TimersTyped ==
    TTypeOK /\ \A t \in heap \cup DOMAIN timers : timeout[t] \in Nat \ {0}

LEMMA LessType ==
    ASSUME NEW n \in Nat \cup {INFINITE}
    PROVE  Less(n) \in Nat \cup {INFINITE}
BY DEF Less, INFINITE

LEMMA DelayType ==
    ASSUME NEW d \in Timeouts
    PROVE  /\ d \in Nat \ {0} /\ DueIn(d) \subseteq Int
BY TimersAssumption DEF DueIn

LEMMA TimersTypedInit == TInit => TimersTyped
BY TimersAssumption DEF TInit, TimersTyped, TTypeOK

LEMMA setTimerTypes ==
    ASSUME TimersTyped, NEW t \in Timer, NEW d \in Timeouts, NEW n \in Repeats, NEW lag \in 0..MaxLag,
           setTimer(t, d, n, lag)
    PROVE  TimersTyped'
<1>1. n \in Nat \cup {INFINITE} /\ lag \in Int /\ d \in Nat \ {0}
  BY TimersAssumption
<1>2. left' \in [Timer -> Int]
  <2>1. PICK due \in DueIn(d) :
          left' = [u \in Timer |-> IF u = t THEN due ELSE IF u \in heap THEN left[u] - lag ELSE left[u]]
    BY DEF setTimer, htimer_add
  <2>2. due \in Int
    BY <2>1, DelayType
  <2>3. \A u \in Timer : left[u] \in Int /\ left[u] - lag \in Int
    BY <1>1 DEF TimersTyped, TTypeOK
  <2> QED
    BY <2>1, <2>2, <2>3
<1>3. DOMAIN timers' \subseteq Timer /\ \A u \in DOMAIN timers' : timers'[u] \in Nat \cup {INFINITE}
  BY <1>1 DEF setTimer, TimersTyped, TTypeOK
<1>4. timeout' \in [Timer -> Nat] /\ \A u \in heap' \cup DOMAIN timers' : timeout'[u] \in Nat \ {0}
  BY <1>1 DEF setTimer, htimer_add, TimersTyped, TTypeOK
<1>5. ops' \in 0..MaxOps
  BY TimersAssumption DEF setTimer, Operates, TimersTyped, TTypeOK
<1>6. mem' \in [Event -> {"none", "live", "freed"}] /\ repeat' \in [Event -> Nat \cup {INFINITE}]
  BY <1>1 DEF setTimer, htimer_add, TimersTyped, TTypeOK
<1>7. /\ heap' \subseteq Timer /\ active' \subseteq Event /\ ntimers' \in Int /\ nactives' \in Int
      /\ UNCHANGED <<pending, destroy, idles, nidles, at, walk, cur>>
  BY DEF setTimer, htimer_add, Operates, loopvars, TimersTyped, TTypeOK
<1> QED
  BY <1>2, <1>3, <1>4, <1>5, <1>6, <1>7 DEF TimersTyped, TTypeOK

\* What EVENT_DEL leaves alone.
LEMMA EventDelTypes ==
    ASSUME TimersTyped, NEW e \in Event, EventDel(e)
    PROVE  /\ active' \subseteq Event /\ nactives' \in Int
           /\ mem' \in [Event -> {"none", "live", "freed"}]
BY DEF EventDel, TimersTyped, TTypeOK

LEMMA OperationTypes ==
    ASSUME TimersTyped, Operates
    PROVE  ops' \in 0..MaxOps /\ UNCHANGED <<at, walk, cur>>
BY TimersAssumption DEF Operates, loopvars, TimersTyped, TTypeOK

LEMMA killTimerTypes == ASSUME TimersTyped, NEW t \in Timer, killTimer(t) PROVE TimersTyped'
<1>1. /\ Operates /\ timers' = Without(timers, t) /\ htimer_del(t)
  BY DEF killTimer
<1>2. /\ DOMAIN timers' \subseteq DOMAIN timers /\ \A u \in DOMAIN timers' : timers'[u] = timers[u]
  BY <1>1 DEF Without
<1>3. /\ heap' \subseteq heap /\ ntimers' \in Int /\ destroy' \subseteq Event
      /\ active' \subseteq Event /\ nactives' \in Int /\ mem' \in [Event -> {"none", "live", "freed"}]
      /\ UNCHANGED <<pending, repeat, timeout, left, idles, nidles>>
  <2>1. CASE t \in active
    <3>1. /\ EventDel(t) /\ heap' = heap \ {t} /\ destroy' = destroy \cup {t}
          /\ ntimers' = IF t \in destroy THEN ntimers ELSE ntimers - 1
          /\ UNCHANGED <<pending, repeat, timeout, left, idles, nidles>>
      BY <1>1, <2>1 DEF htimer_del
    <3>2. active' \subseteq Event /\ nactives' \in Int /\ mem' \in [Event -> {"none", "live", "freed"}]
      BY <3>1, EventDelTypes
    <3> QED
      BY <3>1, <3>2 DEF TimersTyped, TTypeOK
  <2>2. CASE t \notin active
    BY <1>1, <2>2 DEF htimer_del, TimersTyped, TTypeOK
  <2> QED
    BY <2>1, <2>2
<1> QED
  BY <1>1, <1>2, <1>3, OperationTypes DEF TimersTyped, TTypeOK

LEMMA resetTimerTypes == ASSUME TimersTyped, NEW t \in Timer, resetTimer(t) PROVE TimersTyped'
<1>1. /\ Operates /\ t \in DOMAIN timers /\ htimer_reset(t)
      /\ timers' = [timers EXCEPT ![t] = IF @ = 0 THEN 1 ELSE @]
  BY DEF resetTimer, Resettable
<1>0. PICK d \in {timeout[t]} \cup Timeouts :
        \E due \in DueIn(d) : timeout' = [timeout EXCEPT ![t] = d] /\ left' = [left EXCEPT ![t] = due]
  BY <1>1 DEF htimer_reset
<1>2. PICK due \in DueIn(d) :
        timeout' = [timeout EXCEPT ![t] = d] /\ left' = [left EXCEPT ![t] = due]
  BY <1>0
<1>3. timeout[t] \in Nat \ {0} /\ d \in Nat \ {0}
  BY <1>1, <1>2, DelayType DEF TimersTyped
<1>4. due \in Int
  BY <1>2, <1>3 DEF DueIn
<1>5. timeout' \in [Timer -> Nat] /\ left' \in [Timer -> Int]
      /\ \A u \in Timer : timeout'[u] = IF u = t THEN d ELSE timeout[u]
  BY <1>2, <1>3, <1>4 DEF TimersTyped, TTypeOK
<1>6. /\ heap' = heap \cup {t} /\ DOMAIN timers' = DOMAIN timers
      /\ \A u \in DOMAIN timers' : timers'[u] \in Nat \cup {INFINITE}
  BY <1>1 DEF htimer_reset, TimersTyped, TTypeOK
<1>7. repeat' \in [Event -> Nat \cup {INFINITE}]
  BY <1>1 DEF htimer_reset, TimersTyped, TTypeOK
<1>8. /\ ntimers' \in Int /\ destroy' \subseteq Event /\ pending' \subseteq Event
      /\ active' \subseteq Event /\ nactives' \in Int /\ UNCHANGED <<mem, idles, nidles>>
  BY <1>1 DEF htimer_reset, TimersTyped, TTypeOK
<1>9. \A u \in heap' \cup DOMAIN timers' : u \in Timer /\ timeout'[u] \in Nat \ {0}
  BY <1>3, <1>5, <1>6 DEF TimersTyped, TTypeOK
<1> QED
  BY <1>1, <1>5, <1>6, <1>7, <1>8, <1>9, OperationTypes DEF TimersTyped, TTypeOK

LEMMA hidle_addTypes ==
    ASSUME TimersTyped, NEW i \in Idle, NEW n \in Repeats, hidle_add(i, n)
    PROVE  TimersTyped'
<1>1. n \in Nat \cup {INFINITE} /\ Operates
  BY TimersAssumption DEF hidle_add
<1>2. mem' \in [Event -> {"none", "live", "freed"}] /\ repeat' \in [Event -> Nat \cup {INFINITE}]
  BY <1>1 DEF hidle_add, TimersTyped, TTypeOK
<1> QED
  BY <1>1, <1>2, OperationTypes DEF hidle_add, TimersTyped, TTypeOK

LEMMA hidle_delTypes == ASSUME TimersTyped, NEW i \in Idle, hidle_del(i) PROVE TimersTyped'
<1>1. Operates /\ EventDel(i)
  BY DEF hidle_del
<1> QED
  BY <1>1, EventDelTypes, OperationTypes DEF hidle_del, TimersTyped, TTypeOK

LEMMA TimersPollTypes ==
    ASSUME TimersTyped, NEW lag \in 1..MaxLag, NEW functor \in BOOLEAN, TimersPoll(lag, functor)
    PROVE  TimersTyped'
<1> DEFINE due == Due(lag)
           now == IF due # {} THEN due ELSE IF functor THEN {} ELSE idles
<1>1. /\ at' = "walk" /\ UNCHANGED <<cur, mem, active, timeout, nactives, timers, ops>>
      /\ IF due # {} \/ functor THEN ProcessTimers(due, lag) ELSE ProcessIdles(lag)
      /\ pending' = pending \cup now
      /\ \E s \in PendingOrders(now) : walk' = IF functor THEN Append(s, NoEvent) ELSE s
  BY DEF TimersPoll
<1>2. lag \in Nat /\ due \subseteq heap /\ now \subseteq Event
  BY TimersAssumption DEF Due, TimersTyped, TTypeOK
<1>3. IsFiniteSet(now)
  BY <1>2, TimersAssumption, FS_Union, FS_Subset
<1>4. walk' \in Seq(Event \cup {NoEvent})
  <2>1. PICK s \in [1..Cardinality(now) -> now] : walk' = IF functor THEN Append(s, NoEvent) ELSE s
    BY <1>1 DEF PendingOrders, Orders
  <2>2. Cardinality(now) \in Nat
    BY <1>3, FS_CardinalityType
  <2> HIDE DEF now
  <2>3. s \in Seq(Event \cup {NoEvent})
    BY <1>2, <2>2
  <2> QED
    BY <2>1, <2>3
<1>5. /\ repeat' \in [Event -> Nat \cup {INFINITE}] /\ left' \in [Timer -> Int]
      /\ heap' \subseteq heap /\ idles' \subseteq idles /\ destroy' \subseteq Event
      /\ ntimers' \in Int /\ nidles' \in Int
  <2>1. CASE due # {} \/ functor
    <3> DEFINE last == UsedUp(due)
    <3>1. /\ repeat' = [e \in Event |-> IF e \in due THEN Less(repeat[e]) ELSE repeat[e]]
          /\ left' = [t \in Timer |->
                IF t \in due \ last THEN NextDue(left[t] - lag, timeout[t])
                ELSE IF t \in heap THEN left[t] - lag ELSE left[t]]
          /\ heap' = heap \ last /\ ntimers' = ntimers - Cardinality(last)
          /\ destroy' = destroy \cup last
          /\ UNCHANGED <<idles, nidles>>
      BY <1>1, <2>1 DEF ProcessTimers
    <3>2. last \subseteq due
      BY DEF UsedUp
    <3>3. IsFiniteSet(last) /\ Cardinality(last) \in Nat
      BY <1>2, <3>2, TimersAssumption, FS_Subset, FS_CardinalityType DEF TimersTyped, TTypeOK
    <3> HIDE DEF last, due
    <3>4. ASSUME NEW t \in Timer PROVE left'[t] \in Int
      <4>1. left[t] \in Int /\ left[t] - lag \in Int
        BY <1>2 DEF TimersTyped, TTypeOK
      <4>2. CASE t \in due \ last
        <5>1. timeout[t] \in Nat \ {0}
          BY <1>2, <4>2 DEF TimersTyped
        <5>2. NextDue(left[t] - lag, timeout[t]) \in 1..timeout[t]
          BY <4>1, <5>1, NextDueType
        <5> QED
          BY <3>1, <4>2, <5>1, <5>2
      <4> QED
        BY <3>1, <4>1, <4>2
    <3>5. left' \in [Timer -> Int]
      BY <3>1, <3>4
    <3>6. repeat' \in [Event -> Nat \cup {INFINITE}]
      BY <3>1, LessType DEF TimersTyped, TTypeOK
    <3> QED
      BY <1>2, <3>1, <3>2, <3>3, <3>5, <3>6 DEF TimersTyped, TTypeOK
  <2>2. CASE ~ (due # {} \/ functor)
    <3> DEFINE last == UsedUp(idles)
    <3>1. /\ repeat' = [e \in Event |-> IF e \in idles THEN Less(repeat[e]) ELSE repeat[e]]
          /\ idles' = idles \ last /\ nidles' = nidles - Cardinality(last)
          /\ destroy' = destroy \cup last
          /\ left' = [t \in Timer |-> IF t \in heap THEN left[t] - lag ELSE left[t]]
          /\ UNCHANGED <<heap, ntimers>>
      BY <1>1, <2>2 DEF ProcessIdles
    <3>2. last \subseteq idles
      BY DEF UsedUp
    <3>3. IsFiniteSet(last) /\ Cardinality(last) \in Nat
      BY <3>2, TimersAssumption, FS_Subset, FS_CardinalityType DEF TimersTyped, TTypeOK
    <3> HIDE DEF last, due
    <3>4. left' \in [Timer -> Int]
      <4>1. \A t \in Timer : left[t] \in Int /\ left[t] - lag \in Int
        BY <1>2 DEF TimersTyped, TTypeOK
      <4> QED
        BY <3>1, <4>1
    <3>5. repeat' \in [Event -> Nat \cup {INFINITE}]
      BY <3>1, LessType DEF TimersTyped, TTypeOK
    <3> QED
      BY <3>1, <3>2, <3>3, <3>4, <3>5 DEF TimersTyped, TTypeOK
  <2> QED
    BY <2>1, <2>2
<1> HIDE DEF due, now
<1> QED
  BY <1>1, <1>2, <1>4, <1>5 DEF TimersTyped, TTypeOK

LEMMA TurnedTypes ==
    ASSUME TimersTyped, NEW e \in Event \cup {NoEvent}, Turned(e)
    PROVE  /\ pending' \subseteq Event /\ active' \subseteq Event /\ nactives' \in Int
           /\ mem' \in [Event -> {"none", "live", "freed"}]
           /\ UNCHANGED <<destroy, repeat, timeout, left, heap, idles, ntimers, nidles, ops>>
BY DEF Turned, TimersTyped, TTypeOK

LEMMA WalkTypes ==
    ASSUME TimersTyped, walk # <<>>
    PROVE  Head(walk) \in Event \cup {NoEvent} /\ Tail(walk) \in Seq(Event \cup {NoEvent})
BY DEF TimersTyped, TTypeOK

LEMMA LoopTypes ==
    ASSUME TimersTyped, LoopCalls \/ LoopReturns \/ LoopSkips \/ LoopEndsWalk
    PROVE  TimersTyped'
<1>1. CASE LoopCalls
  <2>1. /\ walk # <<>> /\ cur' = Head(walk) /\ walk' = Tail(walk) /\ at' = "call"
        /\ timers' = [t \in DOMAIN timers |-> IF t = cur' THEN Less(timers[t]) ELSE timers[t]]
        /\ UNCHANGED <<mem, active, pending, destroy, repeat, timeout, left, heap, idles,
                       ntimers, nidles, nactives, ops>>
    BY <1>1 DEF LoopCalls, flags
  <2>2. DOMAIN timers' = DOMAIN timers /\ \A t \in DOMAIN timers' : timers'[t] \in Nat \cup {INFINITE}
    BY <2>1, LessType DEF TimersTyped, TTypeOK
  <2> QED
    BY <2>1, <2>2, WalkTypes DEF TimersTyped, TTypeOK
<1>2. CASE LoopReturns
  <2>1. /\ at' = "walk" /\ cur' = NoEvent /\ Turned(cur) /\ UNCHANGED walk
        /\ timers' = IF cur \in DOMAIN timers /\ timers[cur] = 0 THEN Without(timers, cur) ELSE timers
    BY <1>2 DEF LoopReturns
  <2>2. /\ DOMAIN timers' \subseteq DOMAIN timers /\ \A u \in DOMAIN timers' : timers'[u] = timers[u]
    BY <2>1 DEF Without
  <2>3. cur \in Event \cup {NoEvent}
    BY DEF TimersTyped, TTypeOK
  <2> QED
    BY <2>1, <2>2, <2>3, TurnedTypes DEF TimersTyped, TTypeOK
<1>3. CASE LoopSkips
  <2>1. walk # <<>> /\ walk' = Tail(walk) /\ UNCHANGED <<timers, at, cur>>
    BY <1>3 DEF LoopSkips
  <2>2. CASE Head(walk) \in pending
    <3>1. Turned(Head(walk))
      BY <1>3, <2>2 DEF LoopSkips
    <3> QED
      BY <2>1, <3>1, WalkTypes, TurnedTypes DEF TimersTyped, TTypeOK
  <2>3. CASE Head(walk) \notin pending
    BY <1>3, <2>1, <2>3, WalkTypes DEF LoopSkips, flags, TimersTyped, TTypeOK
  <2> QED
    BY <2>2, <2>3
<1>4. CASE LoopEndsWalk
  BY <1>4 DEF LoopEndsWalk, flags, TimersTyped, TTypeOK
<1> QED
  BY <1>1, <1>2, <1>3, <1>4

LEMMA TimersTypedNext == TimersTyped /\ [TNext]_tvars => TimersTyped'
<1> SUFFICES ASSUME TimersTyped, [TNext]_tvars PROVE TimersTyped'
  OBVIOUS
<1>1. CASE TimerSteps
  BY <1>1, TimersPollTypes, LoopTypes DEF TimerSteps
<1>2. CASE UNCHANGED tvars
  BY <1>2 DEF tvars, TimersTyped, TTypeOK
<1> QED
  BY <1>1, <1>2, setTimerTypes, killTimerTypes, resetTimerTypes, hidle_addTypes, hidle_delTypes DEF TNext

\* Every variable of timers and loop keeps its type whatever callbacks do, careless ones
\* included: due times stay numbers, as a timer that is set has a timeout.
THEOREM TimersTypeCorrect == TSpec => []TTypeOK
<1>1. TimersTyped => TTypeOK
  BY DEF TimersTyped
<1> QED
  BY TimersTypedInit, TimersTypedNext, <1>1, PTL DEF TSpec

\* A timer that was killed is not called, though it was due and in the walk already.
THEOREM KilledTimersAreSilent == ASSUME ~Careless PROVE TSpec => KilledIsSilent
<1>1. TInv /\ [TNext]_tvars => [\A t \in Timer : cur # t /\ cur' = t => t \in DOMAIN timers]_tvars
  <2> SUFFICES ASSUME TInv, TNext, NEW t \in Timer, cur # t, cur' = t PROVE t \in DOMAIN timers
    OBVIOUS
  <2>1. t # NoEvent
    BY KindsDiffer
  <2>2. LoopCalls
    BY <2>1 DEF TNext, TimerSteps, TimersPoll, LoopReturns, LoopSkips, LoopEndsWalk,
       setTimer, killTimer, resetTimer, Resettable, hidle_add, hidle_del, Operates, loopvars
  <2>3. t \in active
    BY <2>1, <2>2 DEF LoopCalls
  <2> QED
    BY <2>3 DEF TInv, Marked
<1>2. TSpec => []TInv
  BY TInvHolds
<1> QED
  BY <1>1, <1>2, PTL DEF TSpec, KilledIsSilent
=============================================================================
