----------------------------- MODULE HioProofs -----------------------------
(***************************************************************************)
(* What holds of an hio for any number of writers, any message length and  *)
(* any buffer sizes, provided that no hio_close comes between an           *)
(* hio_write's test of closed and its lock.                                *)
(***************************************************************************)
EXTENDS Hio, Integers, WellFoundedInduction, TLAPS

Inside  == {"try", "add", "enqueue"}
Closing == {"done", "clear", "close_cb", "closesocket"}

\* The mutex has one owner, and the loop is it when it drains.
Mutex ==
    /\ wpc \in [Writers -> Inside \cup {"test", "lock", "written", "close", "done"}]
    /\ \A w \in Writers : wpc[w] \in Inside => lock = w
    /\ lpc = "drain" => lock = "loop"

\* No writer is on its way into an hio that is closed.
ClosedIsLeft == closed => \A w \in Writers : wpc[w] \notin Inside \cup {"lock"}

\* An open hio is ready, so that no writer resets it.
OpenIsReady == (~closed => ready) /\ close_cb = TRUE

\* How far hio_close and hio_done have got.
ClosingSteps ==
    /\ lpc \in Closing => closed
    /\ lpc \in Closing \ {"done"} => ~ready
    /\ lpc \in {"close_cb", "closesocket"} => write_queue = << >>
    /\ lpc = "closesocket" => reported
    /\ ~fd => /\ closed /\ ~ready /\ write_queue = << >> /\ reported
              /\ lpc \in {"poll", "close"}

\* WRITE is watched for before the first entry is queued, and until the last.
Watching ==
    /\ \A w \in Writers : wpc[w] = "enqueue" => "WRITE" \in events
    /\ write_queue # << >> /\ ~closed => "WRITE" \in events

HInv == Mutex /\ ClosedIsLeft /\ OpenIsReady /\ ClosingSteps /\ Watching

USE DEF Inside, Closing

-----------------------------------------------------------------------------
\* What hio_write and hio_close_async do leaves HInv true.
LEMMA WriterKeeps ==
    ASSUME HInv, NEW w \in Writers, Writer(w) PROVE HInv'
<1> USE HioAssumption DEF HInv, Mutex, ClosedIsLeft, OpenIsReady, ClosingSteps, Watching
<1>1. CASE WriterTests(w)
  BY <1>1 DEF WriterTests, stateVars, queueVars, connVars
<1>2. CASE WriterLocks(w)
  BY <1>2 DEF WriterLocks, stateVars, queueVars, connVars
<1>3. CASE WriterTries(w)
  BY <1>3 DEF WriterTries, stateVars, queueVars, connVars
<1>4. CASE WriterWatches(w)
  <2>1. ready
    BY <1>4 DEF WriterWatches
  <2> QED
    BY <1>4, <2>1 DEF WriterWatches, stateVars, connVars
<1>5. CASE WriterEnqueues(w)
  BY <1>5 DEF WriterEnqueues, stateVars, queueVars, connVars
<1>6. CASE WriterReturns(w)
  BY <1>6 DEF WriterReturns, stateVars, queueVars, connVars
<1>7. CASE WriterPostsClose(w)
  BY <1>7 DEF WriterPostsClose, stateVars, queueVars, connVars
<1> QED
  BY <1>1, <1>2, <1>3, <1>4, <1>5, <1>6, <1>7 DEF Writer

\* So does what the loop thread does.
LEMMA LoopKeeps ==
    ASSUME HInv, ~LateWriters, Loop PROVE HInv'
<1> USE HioAssumption
    DEF HInv, Mutex, ClosedIsLeft, OpenIsReady, ClosingSteps, Watching, Watched,
        writerVars, stateVars, queueVars, connVars
<1>1. CASE LoopWritable     BY <1>1 DEF LoopWritable
<1>2. CASE LoopLocks        BY <1>2 DEF LoopLocks
<1>3. CASE LoopHasDrained   BY <1>3 DEF LoopHasDrained
<1>4. CASE LoopDrains       BY <1>4 DEF LoopDrains
<1>5. CASE LoopCannotDrain  BY <1>5 DEF LoopCannotDrain
<1>6. CASE LoopReadEnds     BY <1>6 DEF LoopReadEnds
<1>7. CASE LoopTakesClose   BY <1>7 DEF LoopTakesClose
<1>8. CASE LoopCloseTimeout BY <1>8 DEF LoopCloseTimeout
<1>9. CASE LoopIsClosed     BY <1>9 DEF LoopIsClosed
<1>10. CASE LoopClosesLater BY <1>10 DEF LoopClosesLater
<1>11. CASE LoopCloses      BY <1>11 DEF LoopCloses
<1>12. CASE LoopIsDone      BY <1>12 DEF LoopIsDone
<1>13. CASE LoopClears      BY <1>13 DEF LoopClears
<1>14. CASE LoopCallsBack   BY <1>14 DEF LoopCallsBack
<1>15. CASE LoopClosesSocket BY <1>15 DEF LoopClosesSocket
<1>16. CASE LoopReopens     BY <1>16 DEF LoopReopens, hio_ready
<1> QED
  BY <1>1, <1>2, <1>3, <1>4, <1>5, <1>6, <1>7, <1>8, <1>9, <1>10, <1>11, <1>12,
     <1>13, <1>14, <1>15, <1>16 DEF Loop

\* HInv is an invariant: the peer and stuttering touch nothing it speaks of.
LEMMA HInvHolds == ASSUME ~LateWriters PROVE Spec => []HInv
<1>1. Init => HInv
  BY HioAssumption
     DEF Init, HInv, Mutex, ClosedIsLeft, OpenIsReady, ClosingSteps, Watching
<1>2. HInv /\ [Next]_vars => HInv'
  <2> SUFFICES ASSUME HInv, [Next]_vars PROVE HInv'
    OBVIOUS
  <2> USE DEF HInv, Mutex, ClosedIsLeft, OpenIsReady, ClosingSteps, Watching,
              writerVars, stateVars, queueVars, connVars
  <2>1. CASE Loop
    BY <2>1, LoopKeeps
  <2>2. CASE \E w \in Writers : Writer(w)
    BY <2>2, WriterKeeps
  <2>3. CASE PeerReads
    BY <2>3 DEF PeerReads
  <2>4. CASE PeerEnds
    BY <2>4 DEF PeerEnds
  <2>5. CASE UNCHANGED vars
    BY <2>5 DEF vars
  <2> QED
    BY <2>1, <2>2, <2>3, <2>4, <2>5 DEF Next
<1> QED
  BY <1>1, <1>2, PTL DEF Spec

-----------------------------------------------------------------------------
\* An open hio whose write queue is not empty is watched for WRITE, so that
\* hio_handle_events calls nio_write when the socket has room.
THEOREM QueueIsWatched == ASSUME ~LateWriters PROVE Spec => []QueueWatched
<1>1. HInv => QueueWatched
  BY DEF HInv, Watching, QueueWatched
<1> QED
  BY <1>1, HInvHolds, PTL

\* No descriptor is closed whose hclose_cb was not called.
THEOREM CloseIsReported == ASSUME ~LateWriters PROVE Spec => []CloseReported
<1>1. HInv => CloseReported
  BY DEF HInv, ClosingSteps, CloseReported
<1> QED
  BY <1>1, HInvHolds, PTL

-----------------------------------------------------------------------------
(* The close events in the loop's queue.                                    *)

\* No event is newer than the hio, and the id of this connection is its own.
IdsTell ==
    /\ id \in Nat /\ posted \in Seq([id : Nat, conn : 1 .. MaxConn]) /\ conn \in 1 .. MaxConn
    /\ \A k \in 1 .. Len(posted) :
          posted[k].id <= id /\ (posted[k].id = id => posted[k].conn = conn)

\* What a sequence holds.
LEMMA Entry == ASSUME NEW S, NEW s \in Seq(S), NEW k \in 1 .. Len(s) PROVE s[k] \in S
  OBVIOUS

\* Posting an event, taking one and using the hio again keep the ids apart.
LEMMA IdsKept == ASSUME HInv, IdsTell, ~LateWriters, [Next]_vars PROVE IdsTell'
<1> USE DEF IdsTell
<1>1. CASE UNCHANGED <<id, posted, conn>>
  BY <1>1
<1>2. ASSUME NEW w \in Writers, Writer(w) PROVE IdsTell'
  <2>1. CASE WriterPostsClose(w)
    <3>1. UNCHANGED <<id, conn>> /\ posted' = Append(posted, [id |-> id, conn |-> conn])
      BY <2>1 DEF WriterPostsClose, stateVars, connVars
    <3> DEFINE e == [id |-> id, conn |-> conn]
    <3>2. /\ posted' \in Seq([id : Nat, conn : 1 .. MaxConn])
          /\ Len(posted') = Len(posted) + 1
          /\ posted'[Len(posted) + 1] = e
          /\ \A k \in 1 .. Len(posted) : posted'[k] = posted[k]
      BY <3>1
    <3> QED
      BY <3>1, <3>2
  <2>2. CASE WriterWatches(w)
    <3>1. ready
      BY <2>2, HioAssumption DEF WriterWatches, HInv, Mutex, ClosedIsLeft, OpenIsReady
    <3> QED
      BY <1>1, <2>2, <3>1 DEF WriterWatches, stateVars, connVars
  <2>3. CASE WriterTests(w) \/ WriterLocks(w) \/ WriterTries(w) \/ WriterEnqueues(w) \/ WriterReturns(w)
    BY <1>1, <2>3
       DEF WriterTests, WriterLocks, WriterTries, WriterEnqueues, WriterReturns, stateVars, connVars
  <2> QED
    BY <1>2, <2>1, <2>2, <2>3 DEF Writer
<1>3. CASE LoopTakesClose
  <2>1. posted # << >> /\ posted' = Tail(posted) /\ UNCHANGED <<id, conn>>
    BY <1>3 DEF LoopTakesClose, stateVars
  <2>2. /\ posted' \in Seq([id : Nat, conn : 1 .. MaxConn])
        /\ Len(posted') = Len(posted) - 1
        /\ \A k \in 1 .. Len(posted') : posted'[k] = posted[k + 1]
    BY <2>1
  <2> QED
    BY <2>1, <2>2, SMTT(60)
<1>4. CASE LoopReopens
  <2>1. id' = id + 1 /\ conn' = conn + 1 /\ conn < MaxConn /\ UNCHANGED posted
    BY <1>4 DEF LoopReopens, hio_ready, HInv, ClosingSteps
  <2>2. ASSUME NEW k \in 1 .. Len(posted)
        PROVE  posted[k].id \in Nat /\ posted[k].id <= id + 1 /\ posted[k].id # id + 1
    <3>1. posted[k] \in [id : Nat, conn : 1 .. MaxConn]
      BY Entry
    <3>2. posted[k].id <= id
      OBVIOUS
    <3> QED
      BY <3>1, <3>2
  <2>3. conn' \in 1 .. MaxConn
    BY <2>1, HioAssumption
  <2> QED
    BY <2>1, <2>2, <2>3
<1>5. CASE Loop /\ ~LoopTakesClose /\ ~LoopReopens
  BY <1>1, <1>5
     DEF Loop, LoopWritable, LoopLocks, LoopHasDrained, LoopDrains, LoopCannotDrain,
         LoopReadEnds, LoopCloseTimeout, LoopIsClosed, LoopClosesLater, LoopCloses,
         LoopIsDone, LoopClears, LoopCallsBack, LoopClosesSocket, stateVars, connVars
<1>6. CASE PeerReads \/ PeerEnds \/ UNCHANGED vars
  BY <1>1, <1>6 DEF PeerReads, PeerEnds, vars, stateVars, connVars
<1> QED
  BY <1>2, <1>3, <1>4, <1>5, <1>6 DEF Next

\* The id comparison of hio_close_event_cb keeps every close event to the
\* connection it was posted on, however long it waits in the loop's queue.
THEOREM ClosesAreOwn == ASSUME ~LateWriters PROVE Spec => OwnClosesOnly
<1>1. Init => IdsTell
  BY HioAssumption DEF Init, IdsTell
<1>2. HInv /\ IdsTell /\ [Next]_vars => IdsTell'
  BY IdsKept
<1>3. IdsTell /\ [Next]_vars
        => [posted # << >> /\ posted' = Tail(posted) /\ lpc' = "close"
            => Head(posted).conn = conn]_vars
  <2> SUFFICES ASSUME IdsTell, Next, posted # << >>, posted' = Tail(posted), lpc' = "close"
               PROVE  Head(posted).conn = conn
    OBVIOUS
  <2>1. posted' # posted /\ Len(posted') < Len(posted) /\ Head(posted) = posted[1]
    BY DEF IdsTell
  <2>2. LoopTakesClose
    <3>1. ASSUME NEW w \in Writers, Writer(w) PROVE FALSE
      <4>1. CASE WriterPostsClose(w)
        <5>1. posted' = Append(posted, [id |-> id, conn |-> conn])
          BY <4>1 DEF WriterPostsClose
        <5>2. Len(posted') = Len(posted) + 1
          BY <5>1 DEF IdsTell
        <5> QED
          BY <2>1, <5>2 DEF IdsTell
      <4>2. CASE ~WriterPostsClose(w)
        BY <2>1, <3>1, <4>2
           DEF Writer, WriterTests, WriterLocks, WriterTries, WriterWatches, WriterEnqueues,
               WriterReturns
      <4> QED
        BY <4>1, <4>2
    <3>2. CASE Loop
      BY <2>1, <3>2
         DEF Loop, LoopWritable, LoopLocks, LoopHasDrained, LoopDrains, LoopCannotDrain,
             LoopReadEnds, LoopCloseTimeout, LoopIsClosed, LoopClosesLater, LoopCloses,
             LoopIsDone, LoopClears, LoopCallsBack, LoopClosesSocket, LoopReopens
    <3>3. CASE PeerReads \/ PeerEnds
      BY <2>1, <3>3 DEF PeerReads, PeerEnds
    <3> QED
      BY <3>1, <3>2, <3>3 DEF Next
  <2>3. Head(posted).id = id
    BY <2>2 DEF LoopTakesClose
  <2> QED
    BY <2>1, <2>3 DEF IdsTell
<1> QED
  BY <1>1, <1>2, <1>3, HInvHolds, PTL DEF Spec, OwnClosesOnly

-----------------------------------------------------------------------------
(* What is on its way.                                                      *)

Waiting == {"test", "lock"}

\* A writer that has not yet written is whole, and it is only the head of the
\* queue, or the one writer that finds the queue empty, that has been torn.
TornAtHead ==
    /\ \A w \in Writers :
          /\ wpc[w] \in Waiting => rest[w] = MsgLen
          /\ wpc[w] = "try" => rest[w] = MsgLen /\ write_queue = << >>
          /\ wpc[w] = "add" => rest[w] # 0 /\ write_queue = << >>
          /\ wpc[w] = "enqueue" => rest[w] # 0 /\ (rest[w] # MsgLen => write_queue = << >>)
    /\ \A i \in 2 .. Len(write_queue) : write_queue[i].left = MsgLen

\* How many bytes the queue holds, given that shape.
Unsent == IF write_queue = << >> THEN 0
          ELSE write_queue[1].left + (Len(write_queue) - 1) * MsgLen

\* The one writer that holds the mutex and has written a part.
Torn(w) == wpc[w] \in {"add", "enqueue"} /\ rest[w] # MsgLen

\* One of whose message nothing was taken.
Untaken(w) == wpc[w] \in {"test", "lock", "try", "add", "enqueue"} /\ ~Torn(w)

\* write_bufsize is exact as long as the hio is open, whoever has the mutex.
Exact == ~closed => write_bufsize = Unsent

\* An hio that is closed and not being closed has no descriptor.
ClosedHasNoFd == closed /\ lpc \notin Closing => ~fd

\* The messages that the queue holds are the last that were taken, and none is
\* taken that still waits.
QueueIsTaken ==
    ~closed =>
      /\ Len(write_queue) <= Len(taken)
      /\ \A j \in 1 .. Len(write_queue) :
            write_queue[j].m = taken[Len(taken) - Len(write_queue) + j]
      /\ \A w \in Writers :
            /\ Torn(w) => taken # << >> /\ taken[Len(taken)] = w
            /\ Untaken(w) => \A i \in 1 .. Len(taken) : taken[i] # w

\* The wire has the bytes of what was taken, up to those that the queue and the
\* torn writer have.
Byte(k) == (k - 1) \div MsgLen + 1

Upto(n) ==
    /\ Len(out) + n = Len(taken) * MsgLen
    /\ \A k \in 1 .. Len(out) : out[k] = taken[Byte(k)]

WireIsPrefix ==
    ~closed =>
      /\ \A w \in Writers : Torn(w) => Upto(rest[w])
      /\ (\A w \in Writers : ~Torn(w)) => Upto(Unsent)

\* A close that waits was asked for, and one that is carried out once more.
CloseWasAsked ==
    ~closed /\ ~error =>
      /\ close \/ lpc = "close" => asked >= 1
      /\ close /\ lpc = "close" => asked >= 2

BInv == TypeOK /\ TornAtHead /\ Exact /\ ClosedHasNoFd
OInv == QueueIsTaken /\ WireIsPrefix /\ CloseWasAsked

-----------------------------------------------------------------------------
(* What the operations on a queue and on a wire give.                       *)

Entries == [m : Writers, left : 1 .. MsgLen]

LEMMA HeadOf ==
    ASSUME NEW S, NEW s \in Seq(S), s # << >>
    PROVE  Len(s) \in Nat \ {0} /\ s[1] = Head(s) /\ s[1] \in S
  OBVIOUS

LEMMA TailOf ==
    ASSUME NEW S, NEW s \in Seq(S), s # << >>
    PROVE  /\ Tail(s) \in Seq(S) /\ Len(Tail(s)) = Len(s) - 1
           /\ \A i \in 1 .. Len(s) - 1 : Tail(s)[i] = s[i + 1]
  OBVIOUS

LEMMA Appended ==
    ASSUME NEW S, NEW s \in Seq(S), NEW e \in S
    PROVE  /\ Append(s, e) \in Seq(S) /\ Len(Append(s, e)) = Len(s) + 1
           /\ Append(s, e)[Len(s) + 1] = e
           /\ \A i \in 1 .. Len(s) : Append(s, e)[i] = s[i]
  OBVIOUS

\* Equal bytes after s, and n copies of one.
LEMMA Joined ==
    ASSUME NEW S, NEW s \in Seq(S), NEW r \in Seq(S), NEW e, \A i \in 1 .. Len(r) : r[i] = e
    PROVE  /\ s \o r \in Seq(S) /\ Len(s \o r) = Len(s) + Len(r)
           /\ \A i \in 1 .. Len(s) : (s \o r)[i] = s[i]
           /\ \A i \in Len(s) + 1 .. Len(s) + Len(r) : (s \o r)[i] = e
  OBVIOUS

\* What __nio_write puts on the wire.
Copies(e, n) == [k \in 1 .. n |-> e]

Longer(t, s, e, n) ==
    /\ Len(t) = Len(s) + n
    /\ \A i \in 1 .. Len(s) : t[i] = s[i]
    /\ \A i \in Len(s) + 1 .. Len(s) + n : t[i] = e

LEMMA CopiesAfter ==
    ASSUME NEW S, NEW s \in Seq(S), NEW e \in S, NEW n \in Nat
    PROVE  s \o Copies(e, n) \in Seq(S) /\ Longer(s \o Copies(e, n), s, e, n)
<1>1. Copies(e, n) \in Seq(S) /\ Len(Copies(e, n)) = n /\ \A i \in 1 .. n : Copies(e, n)[i] = e
  BY DEF Copies
<1> QED
  BY <1>1, Joined DEF Longer

\* The head of a queue, shortened.
LEMMA Shortened ==
    ASSUME NEW s \in Seq(Entries), s # << >>,
           NEW n \in 1 .. MsgLen, n < s[1].left,
           NEW t, t = [s EXCEPT ![1].left = @ - n]
    PROVE  /\ t \in Seq(Entries) /\ Len(t) = Len(s)
           /\ t[1].m = s[1].m /\ t[1].left = s[1].left - n
           /\ \A i \in 2 .. Len(s) : t[i] = s[i]
<1>1. s[1] \in Entries /\ Len(s) \in Nat \ {0}
  BY HeadOf
<1> DEFINE e == [s[1] EXCEPT !.left = @ - n]
<1>2. e \in Entries /\ e.m = s[1].m /\ e.left = s[1].left - n
  BY <1>1, HioAssumption, SMTT(60) DEF Entries
<1>3. t = [s EXCEPT ![1] = e]
  OBVIOUS
<1> HIDE DEF e
<1>4. /\ [s EXCEPT ![1] = e] \in Seq(Entries) /\ Len([s EXCEPT ![1] = e]) = Len(s)
      /\ [s EXCEPT ![1] = e][1] = e
      /\ \A i \in 2 .. Len(s) : [s EXCEPT ![1] = e][i] = s[i]
  BY <1>1, <1>2
<1> QED
  BY <1>2, <1>3, <1>4

-----------------------------------------------------------------------------
(* The types and the count of the queue's bytes.                            *)

USE DEF Waiting

\* A queue's bytes are a number, and no fewer than its head has.
LEMMA UnsentBounds ==
    ASSUME write_queue \in Seq(Entries), write_queue # << >>
    PROVE  /\ write_queue[1] \in Entries /\ write_queue[1].left \in 1 .. MsgLen
           /\ write_queue[1].m \in Writers
           /\ Unsent \in Nat /\ Unsent >= write_queue[1].left
<1>1. Len(write_queue) - 1 \in Nat /\ write_queue[1] \in Entries
  BY HeadOf
<1> DEFINE n == Len(write_queue) - 1
           h == write_queue[1].left
<1>2. n * MsgLen \in Nat
  <2>1. n \in Nat /\ MsgLen \in Nat
    BY <1>1, HioAssumption
  <2> HIDE DEF n
  <2> QED
    BY <2>1
<1>3. h \in 1 .. MsgLen /\ write_queue[1].m \in Writers
  BY <1>1 DEF Entries
<1>4. Unsent = h + n * MsgLen
  BY DEF Unsent
<1> HIDE DEF n, h
<1>5. Unsent \in Nat /\ Unsent >= h
  BY <1>2, <1>3, <1>4, HioAssumption
<1> QED
  BY <1>1, <1>3, <1>5 DEF h

\* The two variables that writing changes.
LEMMA WriteTypes ==
    ASSUME out \in Seq(Writers), room \in Nat, NEW len \in Nat,
           NEW n \in CanWrite(len), NEW m \in Writers, Write(m, n)
    PROVE  /\ out' \in Seq(Writers) /\ room' \in 0 .. room /\ n \in 1 .. len
           /\ out' = out \o Copies(m, n)
<1>1. n \in 1 .. len /\ n <= room
  BY DEF CanWrite
<1>2. out' = out \o Copies(m, n) /\ room' = room - n
  BY DEF Write, Copies
<1>3. out' \in Seq(Writers)
  BY <1>1, <1>2, CopiesAfter
<1> QED
  BY <1>1, <1>2, <1>3

Wpcs == {"test", "lock", "try", "add", "enqueue", "written", "close", "done"}

\* What hio_write does leaves the types right.
LEMMA WriterTypes ==
    ASSUME HInv, BInv, NEW w \in Writers, Writer(w) PROVE TypeOK'
<1> USE HioAssumption DEF BInv
<1>0. /\ wpc \in [Writers -> Wpcs] /\ rest \in [Writers -> 0 .. MsgLen]
      /\ rest[w] \in 0 .. MsgLen /\ lock \in Writers \cup {"loop", "none"}
      /\ room \in 0 .. Room /\ out \in Seq(Writers) /\ taken \in Seq(Writers)
      /\ write_queue \in Seq(Entries) /\ write_bufsize \in 0 .. MaxWriteBuf
      /\ error \in BOOLEAN
  BY DEF TypeOK, Threads, Entries, Wpcs
<1>a. ASSUME NEW s \in Wpcs, wpc' = [wpc EXCEPT ![w] = s] PROVE wpc' \in [Writers -> Wpcs]
  BY <1>0, <1>a
<1>1. CASE WriterTests(w)
  BY <1>1 DEF WriterTests, stateVars, queueVars, wireVars, connVars, TypeOK, Threads
<1>2. CASE WriterLocks(w)
  BY <1>2 DEF WriterLocks, stateVars, queueVars, wireVars, connVars, TypeOK, Threads
<1>3. CASE WriterTries(w)
  <2>1. UNCHANGED <<lpc, stateVars, events, queueVars, timers, posted, connVars>>
    BY <1>3 DEF WriterTries
  <2>2. wpc' \in [Writers -> Wpcs] /\ lock' \in Threads /\ error' \in BOOLEAN
    BY <1>3, <1>0, <1>a DEF WriterTries, Wpcs, Threads
  <2>3. rest' \in [Writers -> 0 .. MsgLen]
    <3>1. CASE UNCHANGED rest
      BY <1>0, <3>1
    <3>2. ASSUME NEW n \in CanWrite(rest[w]), rest' = [rest EXCEPT ![w] = @ - n]
          PROVE  rest' \in [Writers -> 0 .. MsgLen]
      <4>1. n \in 1 .. rest[w] /\ rest[w] - n \in 0 .. MsgLen
        BY <1>0 DEF CanWrite
      <4> QED
        BY <1>0, <3>2, <4>1
    <3> QED
      BY <1>3, <3>1, <3>2 DEF WriterTries
  <2>4. room' \in 0 .. Room /\ out' \in Seq(Writers)
    <3>1. CASE UNCHANGED wireVars
      BY <1>0, <3>1 DEF wireVars
    <3>2. ASSUME NEW n \in CanWrite(rest[w]), Write(w, n)
          PROVE  room' \in 0 .. Room /\ out' \in Seq(Writers)
      <4>1. out' \in Seq(Writers) /\ room' \in 0 .. room
        BY <1>0, <3>2, WriteTypes
      <4> QED
        BY <1>0, <4>1
    <3> QED
      BY <1>3, <3>1, <3>2 DEF WriterTries
  <2>5. taken' \in Seq(Writers)
    <3>1. taken' = taken \/ taken' = Append(taken, w)
      BY <1>3 DEF WriterTries, wireVars
    <3>2. Append(taken, w) \in Seq(Writers)
      BY <1>0, Appended
    <3> QED
      BY <1>0, <3>1, <3>2
  <2> QED
    BY <2>1, <2>2, <2>3, <2>4, <2>5, SMTT(60) DEF stateVars, queueVars, connVars, TypeOK, Threads, Wpcs
<1>4. CASE WriterWatches(w)
  <2>1. ready
    BY <1>4 DEF WriterWatches, HInv, Mutex, ClosedIsLeft, OpenIsReady
  <2>2. /\ UNCHANGED <<stateVars, error, write_bufsize>>
        /\ UNCHANGED <<rest, lpc, lock, write_queue, timers, posted, wireVars, connVars>>
        /\ events' = events \cup {"WRITE"}
    BY <1>4, <2>1 DEF WriterWatches
  <2>3. wpc' \in [Writers -> Wpcs]
    BY <1>4, <1>a DEF WriterWatches, Wpcs
  <2> QED
    BY <2>2, <2>3 DEF stateVars, wireVars, connVars, TypeOK, Threads, Wpcs
<1>5. CASE WriterEnqueues(w)
  <2>1. UNCHANGED <<rest, lpc, stateVars, events, timers, posted, room, out, connVars>>
    BY <1>5 DEF WriterEnqueues
  <2>2. wpc' \in [Writers -> Wpcs] /\ lock' \in Threads /\ error' \in BOOLEAN
    BY <1>5, <1>0, <1>a DEF WriterEnqueues, Wpcs, Threads
  <2>3. taken' \in Seq(Writers)
    <3>1. taken' = taken \/ taken' = Append(taken, w)
      BY <1>5 DEF WriterEnqueues, queueVars
    <3>2. Append(taken, w) \in Seq(Writers)
      BY <1>0, Appended
    <3> QED
      BY <1>0, <3>1, <3>2
  <2>4. write_bufsize' \in 0 .. MaxWriteBuf
    BY <1>5, <1>0 DEF WriterEnqueues, queueVars
  <2>5. write_queue' \in Seq(Entries)
    <3>1. rest[w] \in 1 .. MsgLen
      BY <1>0, <1>5 DEF WriterEnqueues, TornAtHead
    <3>2. [m |-> w, left |-> rest[w]] \in Entries
      BY <3>1 DEF Entries
    <3>3. write_queue' = write_queue \/ write_queue' = Append(write_queue, [m |-> w, left |-> rest[w]])
      BY <1>5 DEF WriterEnqueues, queueVars
    <3>4. Append(write_queue, [m |-> w, left |-> rest[w]]) \in Seq(Entries)
      BY <1>0, <3>2, Appended
    <3> QED
      BY <1>0, <3>3, <3>4
  <2> QED
    BY <2>1, <2>2, <2>3, <2>4, <2>5 DEF stateVars, connVars, TypeOK, Threads, Wpcs, Entries
<1>6. CASE WriterReturns(w)
  <2>1. wpc' \in [Writers -> Wpcs]
    BY <1>6, <1>a DEF WriterReturns, Wpcs
  <2> QED
    BY <1>6, <2>1
       DEF WriterReturns, stateVars, queueVars, wireVars, connVars, TypeOK, Threads, Wpcs
<1>7. CASE WriterPostsClose(w)
  <2>1. wpc' \in [Writers -> Wpcs]
    BY <1>7, <1>a DEF WriterPostsClose, Wpcs
  <2>2. posted' \in Seq([id : Nat, conn : 1 .. MaxConn])
    BY <1>7 DEF WriterPostsClose, TypeOK
  <2> QED
    BY <1>7, <2>1, <2>2
       DEF WriterPostsClose, stateVars, queueVars, wireVars, connVars, TypeOK, Threads, Wpcs
<1> QED
  BY <1>1, <1>2, <1>3, <1>4, <1>5, <1>6, <1>7 DEF Writer

\* nio_write drains the queue of an open hio only.
LEMMA DrainIsOpen == ASSUME HInv, BInv, lpc = "drain" PROVE ~closed
<1>1. ~fd => lpc \in {"poll", "close"}
  BY DEF HInv, ClosingSteps
<1>2. closed => ~fd
  BY DEF BInv, ClosedHasNoFd, Closing
<1> QED
  BY <1>1, <1>2

\* So does what the loop thread does.
LEMMA LoopTypes == ASSUME HInv, BInv, Loop PROVE TypeOK'
<1> USE HioAssumption
    DEF BInv, writerVars, stateVars, queueVars, wireVars, connVars
<1>4. CASE LoopDrains
  <2>1. PICK n \in CanWrite(Head(write_queue).left) :
          /\ Write(Head(write_queue).m, n)
          /\ write_bufsize' = write_bufsize - n
          /\ write_queue' = IF n = Head(write_queue).left THEN Tail(write_queue)
                            ELSE [write_queue EXCEPT ![1].left = @ - n]
    BY <1>4 DEF LoopDrains
  <2>2. /\ write_queue \in Seq(Entries) /\ room \in 0 .. Room /\ out \in Seq(Writers)
        /\ write_bufsize \in 0 .. MaxWriteBuf /\ lock \in Threads
    BY DEF TypeOK, Entries
  <2>3. write_queue # << >> /\ Head(write_queue) = write_queue[1]
        /\ write_queue[1].left \in 1 .. MsgLen /\ write_queue[1].m \in Writers
    BY <1>4, <2>2, HeadOf, UnsentBounds DEF LoopDrains
  <2>4. out' \in Seq(Writers) /\ room' \in 0 .. Room /\ n \in 1 .. write_queue[1].left
    <3>1. /\ write_queue[1].left \in Nat /\ n \in CanWrite(write_queue[1].left)
          /\ Write(write_queue[1].m, n)
      BY <2>1, <2>3
    <3>2. out' \in Seq(Writers) /\ room' \in 0 .. room /\ n \in 1 .. write_queue[1].left
      BY <2>2, <2>3, <3>1, WriteTypes
    <3> QED
      BY <2>2, <3>2
  <2>6. write_bufsize' \in 0 .. MaxWriteBuf
    <3>1. ~closed
      BY <1>4, DrainIsOpen DEF LoopDrains
    <3>2. write_bufsize >= write_queue[1].left
      BY <2>2, <2>3, <3>1, UnsentBounds DEF Exact
    <3>3. write_bufsize' = write_bufsize - n
      BY <2>1
    <3> QED
      BY <2>2, <2>3, <2>4, <3>2, <3>3, SMTT(60)
  <2>7. write_queue' \in Seq(Entries)
    <3>1. CASE n = write_queue[1].left
      BY <2>1, <2>2, <2>3, <3>1, TailOf
    <3>2. CASE n # write_queue[1].left
      <4>1. n < write_queue[1].left /\ n \in 1 .. MsgLen
        BY <2>3, <2>4, <3>2
      <4>2. write_queue' = [write_queue EXCEPT ![1].left = @ - n]
        BY <2>1, <2>3, <3>2
      <4> QED
        BY <2>2, <2>3, <4>1, <4>2, Shortened
    <3> QED
      BY <3>1, <3>2
  <2>8. lpc' \in {"drain", "poll"} /\ lock' \in Threads
    BY <1>4, <2>2 DEF LoopDrains, Threads
  <2>9. UNCHANGED <<writerVars, stateVars, error, events, timers, posted, taken, connVars>>
    BY <1>4 DEF LoopDrains
  <2> QED
    BY <2>4, <2>6, <2>7, <2>8, <2>9, SMTT(60) DEF TypeOK, Threads, Entries
<1>16. CASE LoopReopens
  <2>1. UNCHANGED <<writerVars, lpc, lock, write_queue, timers, posted>>
    BY <1>16 DEF LoopReopens
  <2>2. /\ fd' = TRUE /\ peer' = "alive" /\ room' = Room
        /\ conn' = conn + 1 /\ conn < MaxConn
        /\ taken' = << >> /\ out' = << >> /\ asked' = 0 /\ reported' = FALSE
    BY <1>16 DEF LoopReopens
  <2>3. hio_ready(TRUE, {"READ"})
    BY <1>16 DEF LoopReopens, HInv, ClosingSteps
  <2>4. /\ ready' = TRUE /\ closed' = FALSE /\ close' = FALSE /\ error' = FALSE
        /\ id' = id + 1 /\ events' = {"READ"} /\ write_bufsize' = 0
        /\ close_cb' = TRUE /\ close_timer' = 0
    BY <2>3 DEF hio_ready
  <2>5. conn' \in 1 .. MaxConn /\ id' \in Nat /\ Room \in 0 .. Room /\ 0 \in 0 .. MaxWriteBuf
    BY <2>2, <2>4 DEF TypeOK
  <2>6. /\ taken' \in Seq(Writers) /\ out' \in Seq(Writers) /\ asked' \in Nat
        /\ room' \in 0 .. Room /\ write_bufsize' \in 0 .. MaxWriteBuf /\ close_timer' \in Nat
    BY <2>2, <2>4, <2>5
  <2>7. /\ wpc' \in [Writers -> Wpcs] /\ rest' \in [Writers -> 0 .. MsgLen]
        /\ lpc' = lpc /\ lock' \in Threads /\ write_queue' \in Seq(Entries)
        /\ timers' \subseteq Nat \ {0} /\ posted' \in Seq([id : Nat, conn : 1 .. MaxConn])
    BY <2>1 DEF TypeOK, Entries, Wpcs
  <2> QED
    BY <2>2, <2>4, <2>5, <2>6, <2>7 DEF TypeOK, Entries, Wpcs
<1>7. CASE LoopTakesClose
  <2>1. posted \in Seq([id : Nat, conn : 1 .. MaxConn]) /\ posted # << >> /\ posted' = Tail(posted)
    BY <1>7 DEF LoopTakesClose, TypeOK
  <2>2. posted' \in Seq([id : Nat, conn : 1 .. MaxConn])
    BY <2>1, TailOf
  <2>3. /\ lpc' \in {"poll", "close"} /\ asked' \in Nat
        /\ UNCHANGED <<writerVars, lock, stateVars, error, events, queueVars, timers,
                       wireVars, fd, peer, conn, reported>>
    BY <1>7, SMTT(60) DEF LoopTakesClose, TypeOK
  <2> QED
    BY <2>2, <2>3 DEF TypeOK, Threads
<1> USE DEF TypeOK, Threads
<1>1. CASE LoopWritable     BY <1>1 DEF LoopWritable
<1>2. CASE LoopLocks        BY <1>2 DEF LoopLocks
<1>3. CASE LoopHasDrained   BY <1>3 DEF LoopHasDrained
<1>5. CASE LoopCannotDrain  BY <1>5, ZenonT(60) DEF LoopCannotDrain
<1>6. CASE LoopReadEnds     BY <1>6 DEF LoopReadEnds
<1>8. CASE LoopCloseTimeout BY <1>8 DEF LoopCloseTimeout
<1>9. CASE LoopIsClosed     BY <1>9 DEF LoopIsClosed
<1>10. CASE LoopClosesLater BY <1>10 DEF LoopClosesLater
<1>11. CASE LoopCloses      BY <1>11 DEF LoopCloses
<1>12. CASE LoopIsDone      BY <1>12, ZenonT(60) DEF LoopIsDone
<1>13. CASE LoopClears      BY <1>13 DEF LoopClears
<1>14. CASE LoopCallsBack   BY <1>14 DEF LoopCallsBack
<1>15. CASE LoopClosesSocket BY <1>15, ZenonT(60) DEF LoopClosesSocket
<1> QED
  BY <1>1, <1>2, <1>3, <1>4, <1>5, <1>6, <1>7, <1>8, <1>9, <1>10, <1>11, <1>12,
     <1>13, <1>14, <1>15, <1>16 DEF Loop

\* A writer's steps tear no message but the head of the queue.
LEMMA WriterTears ==
    ASSUME HInv, BInv, NEW w \in Writers, Writer(w) PROVE TornAtHead'
<1> USE HioAssumption
<1>0. /\ wpc \in [Writers -> Wpcs] /\ rest \in [Writers -> 0 .. MsgLen]
      /\ rest[w] \in 0 .. MsgLen /\ write_queue \in Seq(Entries)
      /\ TornAtHead
      /\ \A u \in Writers : wpc[u] \in {"try", "add", "enqueue"} => lock = u
  BY DEF TypeOK, Entries, Wpcs, BInv, HInv, Mutex, Inside
<1>1. CASE WriterTests(w)
  BY <1>0, <1>1 DEF WriterTests, queueVars, TornAtHead, Wpcs
<1>2. CASE WriterLocks(w)
  BY <1>0, <1>2 DEF WriterLocks, queueVars, TornAtHead, Wpcs
<1>3. CASE WriterTries(w)
  <2>1. /\ wpc[w] = "try" /\ write_queue = << >> /\ write_queue' = write_queue
        /\ rest[w] = MsgLen
    BY <1>0, <1>3 DEF WriterTries, TornAtHead, queueVars
  <2>2. wpc' \in [Writers -> Wpcs]
        /\ wpc'[w] \in {"add", "written", "close"}
        /\ \A u \in Writers \ {w} : wpc'[u] = wpc[u] /\ rest'[u] = rest[u]
    BY <1>0, <1>3 DEF WriterTries, Wpcs, wireVars
  <2>3. wpc'[w] = "add" => rest'[w] # 0
    <3>1. ASSUME NEW n \in CanWrite(rest[w]), rest' = [rest EXCEPT ![w] = @ - n],
                 wpc' = [wpc EXCEPT ![w] = IF n = MsgLen THEN "written" ELSE "add"]
          PROVE  wpc'[w] = "add" => rest'[w] # 0
      BY <1>0, <2>1, <3>1 DEF CanWrite
    <3> QED
      BY <1>0, <1>3, <2>1, <3>1 DEF WriterTries
  <2> QED
    BY <1>0, <2>1, <2>2, <2>3 DEF TornAtHead
<1>4. CASE WriterWatches(w)
  BY <1>0, <1>4 DEF WriterWatches, queueVars, TornAtHead, Wpcs
<1>5. CASE WriterEnqueues(w)
  <2>1. /\ wpc[w] = "enqueue" /\ rest' = rest /\ wpc'[w] \in {"close", "written"}
        /\ \A u \in Writers \ {w} : wpc'[u] = wpc[u]
    BY <1>0, <1>5 DEF WriterEnqueues
  <2>2. \A u \in Writers \ {w} : wpc'[u] \notin {"try", "add", "enqueue"}
    BY <1>0, <2>1
  <2>3. \A i \in 2 .. Len(write_queue') : write_queue'[i].left = MsgLen
    <3> DEFINE e == [m |-> w, left |-> rest[w]]
    <3>1. CASE write_queue' = write_queue
      BY <1>0, <3>1 DEF TornAtHead
    <3>2. CASE write_queue' = Append(write_queue, e)
      <4>1. e \in Entries
        BY <1>0, <2>1 DEF Entries, TornAtHead
      <4>2. e.left = MsgLen \/ write_queue = << >>
        BY <1>0, <2>1 DEF TornAtHead
      <4> HIDE DEF e
      <4>3. /\ Len(write_queue') = Len(write_queue) + 1 /\ Len(write_queue) \in Nat
            /\ write_queue'[Len(write_queue) + 1] = e
            /\ \A i \in 1 .. Len(write_queue) : write_queue'[i] = write_queue[i]
        BY <1>0, <3>2, <4>1, Appended
      <4>4. \A i \in 2 .. Len(write_queue) : write_queue[i].left = MsgLen
        BY <1>0 DEF TornAtHead
      <4> QED
        BY <4>2, <4>3, <4>4
    <3> QED
      BY <1>5, <3>1, <3>2 DEF WriterEnqueues, queueVars
  <2> QED
    BY <1>0, <2>1, <2>2, <2>3 DEF TornAtHead
<1>6. CASE WriterReturns(w)
  BY <1>0, <1>6 DEF WriterReturns, queueVars, TornAtHead, Wpcs
<1>7. CASE WriterPostsClose(w)
  BY <1>0, <1>7 DEF WriterPostsClose, queueVars, TornAtHead, Wpcs
<1> QED
  BY <1>1, <1>2, <1>3, <1>4, <1>5, <1>6, <1>7 DEF Writer

\* The loop drains the queue from its head.
LEMMA LoopTears == ASSUME HInv, BInv, Loop PROVE TornAtHead'
<1>0. write_queue \in Seq(Entries) /\ TornAtHead /\ UNCHANGED writerVars
  BY DEF TypeOK, Entries, BInv, Loop, LoopWritable, LoopLocks, LoopHasDrained, LoopDrains,
         LoopCannotDrain, LoopReadEnds, LoopTakesClose, LoopCloseTimeout, LoopIsClosed,
         LoopClosesLater, LoopCloses, LoopIsDone, LoopClears, LoopCallsBack,
         LoopClosesSocket, LoopReopens
<1>1. CASE UNCHANGED write_queue
  BY <1>0, <1>1 DEF TornAtHead, writerVars
<1>2. CASE LoopClears
  BY <1>0, <1>2 DEF LoopClears, TornAtHead, writerVars
<1>3. CASE LoopDrains
  <2>1. write_queue # << >>
    BY <1>3 DEF LoopDrains
  <2>2. \A i \in 2 .. Len(write_queue') : write_queue'[i].left = MsgLen
    <3>1. Len(write_queue) \in Nat /\ \A i \in 2 .. Len(write_queue) : write_queue[i].left = MsgLen
      BY <1>0 DEF TornAtHead
    <3>2. CASE write_queue' = Tail(write_queue)
      <4>1. /\ Len(write_queue') = Len(write_queue) - 1
            /\ \A i \in 1 .. Len(write_queue) - 1 : write_queue'[i] = write_queue[i + 1]
        BY <1>0, <2>1, <3>2, TailOf
      <4>2. ASSUME NEW i \in 2 .. Len(write_queue') PROVE write_queue'[i].left = MsgLen
        <5>1. i \in 1 .. Len(write_queue) - 1 /\ i + 1 \in 2 .. Len(write_queue)
          BY <3>1, <4>1
        <5> QED
          BY <3>1, <4>1, <5>1
      <4> QED
        BY <4>2
    <3>3. ASSUME NEW n \in CanWrite(Head(write_queue).left), n # Head(write_queue).left,
                 write_queue' = [write_queue EXCEPT ![1].left = @ - n]
          PROVE  \A i \in 2 .. Len(write_queue') : write_queue'[i].left = MsgLen
      <4>1. n \in 1 .. MsgLen /\ n < write_queue[1].left
        BY <1>0, <2>1, <3>3, HeadOf, UnsentBounds, HioAssumption DEF CanWrite
      <4>2. /\ Len(write_queue') = Len(write_queue)
            /\ \A i \in 2 .. Len(write_queue) : write_queue'[i] = write_queue[i]
        BY <1>0, <2>1, <3>3, <4>1, Shortened
      <4> QED
        BY <3>1, <4>2
    <3> QED
      BY <1>3, <3>2, <3>3 DEF LoopDrains
  <2>3. \A w \in Writers : wpc[w] \in {"try", "add", "enqueue"} => FALSE
    BY <1>3, HioAssumption DEF HInv, Mutex, Inside, LoopDrains
  <2> QED
    BY <1>0, <2>2, <2>3 DEF TornAtHead, writerVars
<1> QED
  BY <1>1, <1>2, <1>3
     DEF Loop, LoopWritable, LoopLocks, LoopHasDrained, LoopCannotDrain, LoopReadEnds,
         LoopTakesClose, LoopCloseTimeout, LoopIsClosed, LoopClosesLater, LoopCloses,
         LoopIsDone, LoopCallsBack, LoopClosesSocket, LoopReopens, queueVars

\* What enqueue adds.
LEMMA EnqueueAdds ==
    ASSUME BInv, NEW w \in Writers, WriterEnqueues(w), write_queue' # write_queue
    PROVE  /\ write_queue' = Append(write_queue, [m |-> w, left |-> rest[w]])
           /\ write_bufsize' = write_bufsize + rest[w]
           /\ Unsent \in Nat /\ Unsent' = Unsent + rest[w]
<1>0. write_queue \in Seq(Entries) /\ rest[w] \in 0 .. MsgLen /\ MsgLen \in Nat
  BY HioAssumption DEF TypeOK, Entries, BInv
<1> DEFINE e == [m |-> w, left |-> rest[w]]
           n == Len(write_queue)
<1>1. write_queue' = Append(write_queue, e) /\ write_bufsize' = write_bufsize + rest[w]
  BY DEF WriterEnqueues, queueVars
<1>2. e \in Entries /\ (write_queue = << >> \/ rest[w] = MsgLen)
  BY <1>0 DEF WriterEnqueues, Entries, BInv, TornAtHead
<1>3. e.left = rest[w]
  OBVIOUS
<1>4. /\ n \in Nat /\ write_queue' # << >> /\ Len(write_queue') = n + 1
      /\ write_queue'[n + 1].left = rest[w]
      /\ \A i \in 1 .. n : write_queue'[i] = write_queue[i]
  <2> HIDE DEF e
  <2> QED
    BY <1>0, <1>1, <1>2, <1>3, Appended
<1>5. CASE write_queue = << >>
  <2>1. Unsent = 0 /\ n = 0 /\ write_queue'[1].left = rest[w]
    BY <1>0, <1>4, <1>5 DEF Unsent
  <2>2. Unsent' = rest[w] + 0 * MsgLen
    BY <1>4, <2>1 DEF Unsent
  <2> QED
    BY <1>0, <1>1, <2>1, <2>2
<1>6. CASE write_queue # << >>
  <2>1. rest[w] = MsgLen /\ write_queue'[1] = write_queue[1] /\ write_queue[1].left \in Nat
        /\ n # 0 /\ Unsent \in Nat
    BY <1>0, <1>2, <1>4, <1>6, UnsentBounds, HeadOf
  <2>2. Unsent = write_queue[1].left + (n - 1) * MsgLen
    BY <1>6 DEF Unsent
  <2>3. Unsent' = write_queue[1].left + n * MsgLen
    BY <1>4, <2>1 DEF Unsent
  <2>4. n * MsgLen = (n - 1) * MsgLen + MsgLen /\ (n - 1) * MsgLen \in Int
    <3>1. n \in Int /\ MsgLen \in Int
      BY <1>0, <1>4
    <3> HIDE DEF n
    <3> QED
      BY <3>1
  <2>5. Unsent' = Unsent + rest[w]
    BY <1>0, <2>1, <2>2, <2>3, <2>4
  <2> QED
    BY <1>1, <2>1, <2>5
<1> QED
  BY <1>5, <1>6

\* What one turn of nio_write takes.
LEMMA DrainTakes ==
    ASSUME BInv, LoopDrains
    PROVE  \E n \in 1 .. write_queue[1].left :
             /\ out' = out \o Copies(write_queue[1].m, n)
             /\ write_bufsize' = write_bufsize - n
             /\ Unsent \in Nat /\ Unsent' = Unsent - n
             /\ \/ write_queue' = Tail(write_queue)
                \/ /\ n \in 1 .. MsgLen /\ n < write_queue[1].left
                   /\ write_queue' = [write_queue EXCEPT ![1].left = @ - n]
<1>0. write_queue \in Seq(Entries) /\ MsgLen \in Nat \ {0} /\ room \in Nat /\ out \in Seq(Writers)
  BY HioAssumption DEF TypeOK, Entries, BInv
<1>1. PICK n \in CanWrite(Head(write_queue).left) :
        /\ Write(Head(write_queue).m, n)
        /\ write_bufsize' = write_bufsize - n
        /\ write_queue' = IF n = Head(write_queue).left THEN Tail(write_queue)
                          ELSE [write_queue EXCEPT ![1].left = @ - n]
  BY DEF LoopDrains
<1>2. write_queue # << >>
  BY DEF LoopDrains
<1>3. /\ Head(write_queue) = write_queue[1] /\ write_queue[1].left \in 1 .. MsgLen
      /\ write_queue[1].m \in Writers /\ Len(write_queue) \in Nat \ {0} /\ Unsent \in Nat
  BY <1>0, <1>2, HeadOf, UnsentBounds
<1>4. n \in 1 .. write_queue[1].left /\ out' = out \o Copies(write_queue[1].m, n)
  <2>1. write_queue[1].left \in Nat /\ n \in CanWrite(write_queue[1].left) /\ Write(write_queue[1].m, n)
    BY <1>1, <1>3
  <2> QED
    BY <1>0, <1>3, <2>1, WriteTypes
<1> DEFINE q == Len(write_queue)
           h == write_queue[1].left
<1>5. Unsent = h + (q - 1) * MsgLen
  BY <1>2 DEF Unsent
<1>6. CASE n = write_queue[1].left
  <2>1. write_queue' = Tail(write_queue)
    BY <1>1, <1>3, <1>6
  <2>2. Len(write_queue') = q - 1 /\ \A i \in 1 .. q - 1 : write_queue'[i] = write_queue[i + 1]
    BY <1>0, <1>2, <2>1, TailOf
  <2>3. CASE q = 1
    <3>1. Unsent' = 0
      BY <1>0, <1>2, <2>1, <2>3, HeadOf, TailOf DEF Unsent
    <3>2. Unsent = h + 0 * MsgLen
      BY <1>5, <2>3
    <3>3. Unsent' = Unsent - n
      BY <1>0, <1>3, <1>6, <3>1, <3>2
    <3> QED
      BY <1>1, <1>3, <1>4, <2>1, <3>3
  <2>4. CASE q # 1
    <3>1. 1 \in 1 .. q - 1 /\ 2 \in 2 .. q
      <4>1. q \in Nat \ {0}
        BY <1>3
      <4> HIDE DEF q
      <4> QED
        BY <2>4, <4>1
    <3>2. write_queue'[1].left = MsgLen /\ write_queue' # << >>
      BY <2>2, <3>1 DEF BInv, TornAtHead
    <3>3. Unsent' = MsgLen + ((q - 1) - 1) * MsgLen
      BY <2>2, <3>2 DEF Unsent
    <3>4. q \in Nat /\ h \in Nat /\ n = h
      BY <1>0, <1>3, <1>6
    <3> HIDE DEF q, h
    <3>5. MsgLen + ((q - 1) - 1) * MsgLen = (q - 1) * MsgLen /\ (q - 1) * MsgLen \in Int
      BY <1>0, <3>4
    <3>6. Unsent' = Unsent - n
      BY <1>5, <3>3, <3>4, <3>5
    <3> QED
      BY <1>1, <1>3, <1>4, <2>1, <3>6
  <2> QED
    BY <2>3, <2>4
<1>7. CASE n # write_queue[1].left
  <2>1. n < write_queue[1].left /\ n \in 1 .. MsgLen
    BY <1>0, <1>3, <1>4, <1>7
  <2>2. write_queue' = [write_queue EXCEPT ![1].left = @ - n]
    BY <1>1, <1>3, <1>7
  <2>3. Len(write_queue') = q /\ write_queue'[1].left = h - n
    BY <1>0, <1>2, <2>1, <2>2, Shortened
  <2>4. write_queue' # << >>
    BY <1>3, <2>3
  <2>5. Unsent' = (h - n) + (q - 1) * MsgLen
    BY <2>3, <2>4 DEF Unsent
  <2>6. q - 1 \in Int /\ h \in Int /\ n \in Int
    BY <1>0, <1>3, <1>4
  <2> HIDE DEF q, h
  <2>7. (q - 1) * MsgLen \in Int
    BY <1>0, <2>6
  <2>8. Unsent' = Unsent - n
    BY <1>5, <2>5, <2>6, <2>7
  <2> QED
    BY <1>1, <1>3, <1>4, <2>1, <2>2, <2>8
<1> QED
  BY <1>6, <1>7

\* Whoever changes the queue counts what it changes.
LEMMA WriterCounts ==
    ASSUME HInv, BInv, NEW w \in Writers, Writer(w) PROVE Exact'
<1>0. Exact
  BY DEF BInv
<1>1. CASE UNCHANGED <<closed, write_bufsize, write_queue>>
  BY <1>0, <1>1 DEF Exact, Unsent
<1>2. CASE WriterWatches(w)
  <2>1. ready
    BY <1>2 DEF WriterWatches, HInv, Mutex, ClosedIsLeft, OpenIsReady, Inside
  <2> QED
    BY <1>1, <1>2, <2>1 DEF WriterWatches, stateVars
<1>3. CASE WriterEnqueues(w) /\ write_queue' # write_queue
  <2>1. closed' = closed
    BY <1>3 DEF WriterEnqueues, stateVars
  <2>2. write_bufsize' = write_bufsize + rest[w] /\ Unsent' = Unsent + rest[w]
    BY <1>3, EnqueueAdds
  <2> QED
    BY <1>0, <2>1, <2>2 DEF Exact
<1>4. WriterEnqueues(w) => UNCHANGED <<closed, write_bufsize, write_queue>> \/ write_queue' # write_queue
  BY DEF WriterEnqueues, stateVars, queueVars
<1> QED
  BY <1>1, <1>2, <1>3, <1>4
     DEF Writer, WriterTests, WriterLocks, WriterTries, WriterReturns,
         WriterPostsClose, stateVars, queueVars

LEMMA LoopCounts == ASSUME HInv, BInv, Loop PROVE Exact'
<1>0. Exact
  BY DEF BInv
<1>1. CASE UNCHANGED <<closed, write_bufsize, write_queue>>
  BY <1>0, <1>1 DEF Exact, Unsent
<1>2. CASE closed'
  BY <1>2 DEF Exact
<1>3. CASE LoopClears
  BY <1>2, <1>3 DEF LoopClears, HInv, ClosingSteps, Closing, stateVars
<1>4. CASE LoopReopens
  <2>1. write_queue' = << >> /\ write_bufsize' = 0
    BY <1>4 DEF LoopReopens, hio_ready, HInv, ClosingSteps
  <2> QED
    BY <2>1 DEF Exact, Unsent
<1>5. CASE LoopDrains
  <2>1. ~closed /\ closed' = closed
    BY <1>5, DrainIsOpen DEF LoopDrains, stateVars
  <2> QED
    BY <1>0, <1>5, <2>1, DrainTakes DEF Exact
<1> QED
  BY <1>1, <1>2, <1>3, <1>4, <1>5
     DEF Loop, LoopWritable, LoopLocks, LoopHasDrained, LoopCannotDrain, LoopReadEnds,
         LoopTakesClose, LoopCloseTimeout, LoopIsClosed, LoopClosesLater, LoopCloses,
         LoopIsDone, LoopCallsBack, LoopClosesSocket, stateVars, queueVars

\* The peer changes nothing that is counted.
LEMMA PeerKeepsB == ASSUME HInv, BInv, PeerReads \/ PeerEnds PROVE BInv'
<1> USE DEF BInv
<1>1. /\ UNCHANGED <<writerVars, lpc, lock, stateVars, error, events, queueVars, timers,
                     posted, out, taken, fd, conn, asked, reported>>
      /\ room' \in 0 .. Room /\ peer' \in {"alive", "eof", "reset"}
  BY HioAssumption DEF PeerReads, PeerEnds, wireVars, connVars, TypeOK
<1>2. TypeOK'
  BY <1>1 DEF TypeOK, writerVars, stateVars, queueVars, Threads
<1>3. TornAtHead' /\ Exact' /\ ClosedHasNoFd'
  BY <1>1 DEF TornAtHead, Exact, Unsent, ClosedHasNoFd, writerVars, stateVars, queueVars
<1> QED
  BY <1>2, <1>3

\* A descriptor is closed with its hio, and both are used again at once.
LEMMA FdGoes == ASSUME HInv, BInv, Next PROVE ClosedHasNoFd'
<1> USE DEF BInv, ClosedHasNoFd, Closing, stateVars, connVars
<1>1. ASSUME NEW w \in Writers, Writer(w) PROVE ClosedHasNoFd'
  BY <1>1
     DEF Writer, WriterTests, WriterLocks, WriterTries, WriterWatches, WriterEnqueues,
         WriterReturns, WriterPostsClose, hio_ready
<1>2. CASE Loop
  BY <1>2
     DEF Loop, LoopWritable, LoopLocks, LoopHasDrained, LoopDrains, LoopCannotDrain,
         LoopReadEnds, LoopTakesClose, LoopCloseTimeout, LoopIsClosed, LoopClosesLater,
         LoopCloses, LoopIsDone, LoopClears, LoopCallsBack, LoopClosesSocket, LoopReopens,
         Watched, HInv, ClosingSteps, hio_ready
<1>3. CASE PeerReads \/ PeerEnds
  BY <1>3, PeerKeepsB
<1> QED
  BY <1>1, <1>2, <1>3 DEF Next

LEMMA BInvHolds == ASSUME ~LateWriters PROVE Spec => []BInv
<1>1. Init => BInv
  <2> SUFFICES ASSUME Init PROVE BInv
    OBVIOUS
  <2> USE HioAssumption DEF Init
  <2>1. TypeOK
    <3>1. /\ wpc \in [Writers -> Wpcs] /\ rest \in [Writers -> 0 .. MsgLen]
          /\ write_bufsize \in 0 .. MaxWriteBuf /\ conn \in 1 .. MaxConn
      BY DEF Wpcs
    <3>2. /\ write_queue \in Seq(Entries) /\ posted \in Seq([id : Nat, conn : 1 .. MaxConn])
          /\ taken \in Seq(Writers) /\ out \in Seq(Writers)
      OBVIOUS
    <3> QED
      BY <3>1, <3>2 DEF TypeOK, Threads, Wpcs, Entries
  <2>2. TornAtHead /\ Exact /\ ClosedHasNoFd
    BY DEF TornAtHead, Exact, Unsent, ClosedHasNoFd
  <2> QED
    BY <2>1, <2>2 DEF BInv
<1>2. HInv /\ BInv /\ [Next]_vars => BInv'
  <2> SUFFICES ASSUME HInv, BInv, [Next]_vars PROVE BInv'
    OBVIOUS
  <2>1. CASE Loop
    BY <2>1, LoopTypes, LoopTears, LoopCounts, FdGoes DEF BInv, Next
  <2>2. ASSUME NEW w \in Writers, Writer(w) PROVE BInv'
    BY <2>2, WriterTypes, WriterTears, WriterCounts, FdGoes DEF BInv, Next
  <2>3. CASE PeerReads \/ PeerEnds
    BY <2>3, PeerKeepsB
  <2>4. CASE UNCHANGED vars
    BY <2>4, SMTT(60) DEF vars, BInv, TypeOK, Threads, TornAtHead, Exact, Unsent, ClosedHasNoFd,
                writerVars, stateVars, queueVars, wireVars, connVars
  <2> QED
    BY <2>1, <2>2, <2>3, <2>4 DEF Next
<1> QED
  BY <1>1, <1>2, HInvHolds, PTL DEF Spec

-----------------------------------------------------------------------------
(* The sum over the queue, a recursive function, has the closed form Unsent *)
(* as long as no entry but the head has been torn.                          *)

\* Every set of naturals has a least element: what induction rests on.
LEMMA Least ==
    ASSUME NEW T, T \subseteq Nat, T # {}
    PROVE  \E x \in T : \A y \in T : x <= y
<1>1. \E x \in T : \A y \in T : ~ (<<y, x>> \in OpToRel(<, Nat))
  BY WFMin, NatLessThanWellFounded, Zenon
<1>2. \E x \in T : \A y \in T : ~ (y < x)
  BY <1>1, Zenon DEF OpToRel
<1> QED
  BY <1>2

\* g sums the first n entries of the queue.
IsSum(g, n) == \A k \in 0 .. n : g[k] = IF k = 0 THEN 0 ELSE g[k - 1] + write_queue[k].left

\* There is such a function, so that Queued is one.
LEMMA SumExists ==
    ASSUME TypeOK PROVE \E g \in [0 .. Len(write_queue) -> Nat] : IsSum(g, Len(write_queue))
<1> DEFINE T == {n \in Nat : n <= Len(write_queue) /\ ~ \E g \in [0 .. n -> Nat] : IsSum(g, n)}
<1>0. /\ Len(write_queue) \in Nat
      /\ \A i \in 1 .. Len(write_queue) : write_queue[i].left \in Nat
  <2>1. write_queue \in Seq(Entries)
    BY DEF TypeOK, Entries
  <2>2. ASSUME NEW i \in 1 .. Len(write_queue) PROVE write_queue[i].left \in Nat
    <3>1. write_queue[i] \in Entries
      BY <2>1, Entry
    <3> QED
      BY <3>1, HioAssumption DEF Entries
  <2> QED
    BY <2>1, <2>2
<1>1. SUFFICES ASSUME T # {} PROVE FALSE
  BY <1>0
<1>2. PICK n \in T : \A k \in T : n <= k
  <2> HIDE DEF T
  <2>1. T \subseteq Nat
    BY DEF T
  <2> QED
    BY <1>1, <2>1, Least
<1>3. n \in Nat /\ n <= Len(write_queue) /\ ~ \E g \in [0 .. n -> Nat] : IsSum(g, n)
  OBVIOUS
<1>4. n # 0
  <2>1. [k \in 0 .. 0 |-> 0] \in [0 .. 0 -> Nat] /\ IsSum([k \in 0 .. 0 |-> 0], 0)
    BY DEF IsSum
  <2> QED
    BY <1>3, <2>1
<1>5. PICK g \in [0 .. n - 1 -> Nat] : IsSum(g, n - 1)
  <2>1. n - 1 \in Nat /\ n - 1 <= Len(write_queue) /\ ~ (n <= n - 1)
    BY <1>0, <1>3, <1>4
  <2> QED
    BY <1>2, <2>1
<1> DEFINE h == [k \in 0 .. n |-> IF k = n THEN g[n - 1] + write_queue[n].left ELSE g[k]]
<1>6. h \in [0 .. n -> Nat] /\ IsSum(h, n)
  <2>1. write_queue[n].left \in Nat /\ g[n - 1] \in Nat
    BY <1>0, <1>3, <1>4
  <2> QED
    BY <1>3, <1>4, <1>5, <2>1, SMTT(60) DEF IsSum
<1> QED
  BY <1>3, <1>6

LEMMA QueuedSums ==
    ASSUME TypeOK
    PROVE  \A k \in 0 .. Len(write_queue) :
              Queued[k] = IF k = 0 THEN 0 ELSE Queued[k - 1] + write_queue[k].left
<1>1. PICK g \in [0 .. Len(write_queue) -> Nat] : IsSum(g, Len(write_queue))
  BY SumExists
<1>2. g = [k \in 0 .. Len(write_queue) |-> IF k = 0 THEN 0 ELSE g[k - 1] + write_queue[k].left]
  BY <1>1 DEF IsSum
<1>3. Queued = [k \in 0 .. Len(write_queue) |->
                  IF k = 0 THEN 0 ELSE Queued[k - 1] + write_queue[k].left]
  BY <1>2, Zenon DEF Queued
<1> QED
  BY <1>3, Zenon

\* By induction on the entries.
LEMMA QueuedIs == ASSUME BInv PROVE Queued[Len(write_queue)] = Unsent
<1>0. /\ write_queue \in Seq(Entries) /\ Len(write_queue) \in Nat /\ MsgLen \in Nat
      /\ \A i \in 2 .. Len(write_queue) : write_queue[i].left = MsgLen
      /\ TypeOK
  BY HioAssumption DEF BInv, TypeOK, Entries, TornAtHead
<1>1. CASE write_queue = << >>
  <2>1. Len(write_queue) = 0 /\ 0 \in 0 .. Len(write_queue)
    BY <1>0, <1>1
  <2>2. Queued[0] = 0
    BY <1>0, <2>1, QueuedSums
  <2> QED
    BY <1>1, <2>1, <2>2 DEF Unsent
<1>2. CASE write_queue # << >>
  <2> DEFINE h == write_queue[1].left
             q == Len(write_queue)
             T == {n \in Nat : n \in 1 .. q /\ Queued[n] # h + (n - 1) * MsgLen}
  <2>1. q \in Nat \ {0} /\ h \in Nat
    BY <1>0, <1>2, HeadOf, UnsentBounds
  <2>2. T = {}
    <3> SUFFICES ASSUME T # {} PROVE FALSE
      OBVIOUS
    <3>1. PICK n \in T : \A k \in T : n <= k
      <4> HIDE DEF T
      <4>1. T \subseteq Nat
        BY DEF T
      <4> QED
        BY <4>1, Least
    <3>2. n \in 1 .. q /\ Queued[n] # h + (n - 1) * MsgLen
      OBVIOUS
    <3>3. Queued[n] = Queued[n - 1] + write_queue[n].left /\ Queued[0] = 0
      <4>1. n \in 0 .. q /\ 0 \in 0 .. q /\ n # 0
        BY <2>1, <3>2
      <4> QED
        BY <1>0, <4>1, QueuedSums
    <3>4. CASE n = 1
      <4>1. (n - 1) * MsgLen = 0
        BY <1>0, <3>4
      <4> QED
        BY <2>1, <3>2, <3>3, <3>4, <4>1
    <3>5. CASE n # 1
      <4>1. n - 1 \in 1 .. q /\ n - 1 \in Nat /\ n \in 2 .. q /\ ~ (n <= n - 1)
        BY <2>1, <3>2, <3>5
      <4>2. Queued[n - 1] = h + (n - 1 - 1) * MsgLen
        BY <3>1, <4>1
      <4>3. write_queue[n].left = MsgLen
        BY <1>0, <4>1
      <4>4. (n - 1 - 1) * MsgLen + MsgLen = (n - 1) * MsgLen /\ (n - 1 - 1) * MsgLen \in Int
        <5>1. n - 1 \in Int /\ MsgLen \in Int
          BY <1>0, <4>1
        <5> QED
          BY <5>1
      <4> HIDE DEF h
      <4> QED
        BY <1>0, <2>1, <3>2, <3>3, <4>2, <4>3, <4>4
    <3> QED
      BY <3>4, <3>5
  <2>3. q \in Nat /\ q \in 1 .. q /\ q \notin T
    BY <2>1, <2>2
  <2>4. Queued[q] = h + (q - 1) * MsgLen
    BY <2>3
  <2> QED
    BY <1>2, <2>4 DEF Unsent
<1> QED
  BY <1>1, <1>2

\* What the fields of the hio hold, and write_bufsize the sum of what is queued.
THEOREM BufsizeIsExact == ASSUME ~LateWriters PROVE Spec => []BuffersSound
<1>1. BInv => BuffersSound
  BY QueuedIs DEF BInv, Exact, BuffersSound, BufsizeExact
<1> QED
  BY <1>1, BInvHolds, PTL

-----------------------------------------------------------------------------
(* What is on the wire.                                                     *)

\* The bytes of the q-th message.
LEMMA Quotient ==
    ASSUME NEW M \in Nat \ {0}, NEW q \in Nat, NEW r \in 0 .. M - 1 PROVE (q * M + r) \div M = q
  OBVIOUS

LEMMA ByteOf ==
    ASSUME NEW q \in Nat, NEW k \in Nat, NEW r \in 1 .. MsgLen, k = q * MsgLen + r
    PROVE  Byte(k) = q + 1
<1>1. MsgLen \in Nat \ {0} /\ r - 1 \in 0 .. MsgLen - 1
  BY HioAssumption
<1>2. (q * MsgLen + (r - 1)) \div MsgLen = q
  BY <1>1, Quotient
<1>3. q * MsgLen \in Nat
  BY <1>1
<1>4. k - 1 = q * MsgLen + (r - 1)
  BY <1>1, <1>3
<1> QED
  BY <1>2, <1>4 DEF Byte

\* The bytes of n messages belong to one of them.
LEMMA ByteWithin ==
    ASSUME NEW n \in Nat, NEW k \in 1 .. n * MsgLen PROVE Byte(k) \in 1 .. n
<1> DEFINE d == (k - 1) \div MsgLen
           r == (k - 1) % MsgLen
<1>1. MsgLen \in Nat \ {0} /\ n * MsgLen \in Nat
  BY HioAssumption
<1>2. k - 1 \in Nat /\ k - 1 < n * MsgLen
  BY <1>1
<1>3. d \in Int /\ r \in 0 .. MsgLen - 1 /\ k - 1 = MsgLen * d + r
  BY <1>1, <1>2
<1> HIDE DEF d, r
<1>4. d >= 0
  <2> SUFFICES ASSUME d <= 0 - 1 PROVE FALSE
    BY <1>3
  <2>1. MsgLen * d <= 0 - MsgLen
    BY <1>1, <1>3
  <2> QED
    BY <1>1, <1>2, <1>3, <2>1
<1>5. d < n
  <2> SUFFICES ASSUME n <= d PROVE FALSE
    BY <1>3
  <2>1. n * MsgLen <= MsgLen * d
    BY <1>1, <1>3
  <2> QED
    BY <1>1, <1>2, <1>3, <2>1
<1>6. Byte(k) = d + 1
  BY DEF Byte, d
<1> QED
  BY <1>3, <1>4, <1>5, <1>6

LEMMA BytesOf ==
    ASSUME NEW s \in Seq(Writers)
    PROVE  /\ Stream!Bytes(s) \in Seq(Writers) /\ Len(Stream!Bytes(s)) = Len(s) * MsgLen
           /\ \A k \in 1 .. Len(s) * MsgLen : Stream!Bytes(s)[k] = s[Byte(k)]
<1>1. Len(s) \in Nat /\ Len(s) * MsgLen \in Nat
  BY HioAssumption
<1>2. \A k \in 1 .. Len(s) * MsgLen : s[Byte(k)] \in Writers
  BY <1>1, ByteWithin, Entry
<1>3. Stream!Bytes(s) = [k \in 1 .. Len(s) * MsgLen |-> s[Byte(k)]]
  BY DEF Stream!Bytes, Byte
<1> DEFINE n == Len(s) * MsgLen
           f == [k \in 1 .. n |-> s[Byte(k)]]
<1>4. f \in Seq(Writers) /\ Len(f) = n
  <2>1. f \in [1 .. n -> Writers]
    BY <1>2
  <2> HIDE DEF f, n
  <2> QED
    BY <1>1, <2>1 DEF n
<1> QED
  BY <1>3, <1>4

LEMMA BeginsIs ==
    ASSUME NEW s \in Seq(Writers), NEW t \in Seq(Writers), Len(s) <= Len(t),
           \A k \in 1 .. Len(s) : s[k] = t[k]
    PROVE  Stream!Begins(s, t)
<1>1. SubSeq(t, 1, Len(s)) = s
  OBVIOUS
<1> QED
  BY <1>1 DEF Stream!Begins

\* A writer that writes the first part of its message finds the wire at the end
\* of another.
LEMMA TriesWire ==
    ASSUME HInv, BInv, OInv, NEW w \in Writers, WriterTries(w)
    PROVE  QueueIsTaken' /\ WireIsPrefix'
<1>0. /\ wpc \in [Writers -> Wpcs] /\ rest \in [Writers -> 0 .. MsgLen] /\ out \in Seq(Writers)
      /\ taken \in Seq(Writers) /\ room \in Nat /\ MsgLen \in Nat \ {0}
      /\ Len(taken) \in Nat /\ Len(out) \in Nat
  BY HioAssumption DEF BInv, TypeOK, Wpcs
<1>a. Len(taken) \in Nat /\ Len(out) \in Nat /\ MsgLen \in Nat \ {0}
  BY <1>0
<1>b. out \in Seq(Writers)
  BY <1>0
<1>1. wpc[w] = "try" /\ write_queue = << >> /\ rest[w] = MsgLen
      /\ UNCHANGED <<write_queue, closed>>
  BY DEF WriterTries, BInv, TornAtHead, queueVars, stateVars
<1>2. ~closed
  BY <1>1 DEF HInv, ClosedIsLeft, Inside
<1>3. \A u \in Writers \ {w} : wpc'[u] = wpc[u] /\ rest'[u] = rest[u]
  BY <1>0 DEF WriterTries, wireVars
<1>4. /\ \A u \in Writers : ~Torn(u)
      /\ \A u \in Writers \ {w} : ~Torn(u)' /\ (Untaken(u)' => Untaken(u))
  <2>1. \A u \in Writers \ {w} : wpc[u] \notin {"try", "add", "enqueue"}
    BY <1>1 DEF HInv, Mutex, Inside
  <2> QED
    BY <1>1, <1>3, <2>1 DEF Torn, Untaken
<1>5. Unsent = 0 /\ Unsent' = 0
  BY <1>1 DEF Unsent
<1>6. /\ Len(out) = Len(taken) * MsgLen /\ Len(taken) * MsgLen \in Nat
      /\ \A k \in 1 .. Len(out) : out[k] = taken[Byte(k)]
  BY <1>0, <1>2, <1>4, <1>5 DEF OInv, WireIsPrefix, Upto
<1>7. \A u \in Writers : Untaken(u) => \A i \in 1 .. Len(taken) : taken[i] # u
  BY <1>2 DEF OInv, QueueIsTaken
<1>8. Untaken(w)
  BY <1>1 DEF Untaken, Torn
<1>9. Len(write_queue) = 0 /\ Len(write_queue') = 0
  BY <1>1
<1>10. CASE UNCHANGED <<rest, wireVars>>
  <2>1. UNCHANGED <<out, taken, rest>> /\ ~Torn(w)'
    BY <1>0, <1>1, <1>10 DEF wireVars, Torn
  <2>2. QueueIsTaken'
    BY <1>1, <1>4, <1>7, <1>8, <1>9, <2>1 DEF QueueIsTaken
  <2>3. WireIsPrefix'
    <3>1. \A u \in Writers : ~Torn(u)'
      BY <1>4, <2>1
    <3>2. Len(out') + Unsent' = Len(taken') * MsgLen
      BY <1>a, <1>5, <1>6, <2>1
    <3>3. \A k \in 1 .. Len(out') : out'[k] = taken'[Byte(k)]
      BY <1>6, <2>1
    <3> QED
      BY <3>1, <3>2, <3>3 DEF WireIsPrefix, Upto
  <2> QED
    BY <2>2, <2>3
<1>11. ASSUME NEW n \in CanWrite(rest[w]), Write(w, n), taken' = Append(taken, w),
              rest' = [rest EXCEPT ![w] = @ - n],
              wpc' = [wpc EXCEPT ![w] = IF n = MsgLen THEN "written" ELSE "add"]
       PROVE  QueueIsTaken' /\ WireIsPrefix'
  <2>1. out' = out \o Copies(w, n) /\ n \in 1 .. MsgLen
    BY <1>0, <1>1, <1>11, WriteTypes
  <2>a. n \in Nat /\ n <= MsgLen
    BY <1>0, <2>1
  <2>2. /\ Len(out') = Len(out) + n /\ \A k \in 1 .. Len(out) : out'[k] = out[k]
        /\ \A k \in Len(out) + 1 .. Len(out) + n : out'[k] = w
    <3>1. Longer(out \o Copies(w, n), out, w, n)
      BY <1>b, <2>a, CopiesAfter
    <3>2. Longer(out', out, w, n)
      BY <2>1, <3>1
    <3> QED
      BY <3>2 DEF Longer
  <2>3. /\ Len(taken') = Len(taken) + 1 /\ taken'[Len(taken) + 1] = w
        /\ \A i \in 1 .. Len(taken) : taken'[i] = taken[i]
    BY <1>0, <1>11, Appended
  <2>4. IF n = MsgLen THEN ~Torn(w)' /\ ~Untaken(w)'
                      ELSE Torn(w)' /\ ~Untaken(w)' /\ rest'[w] = MsgLen - n
    BY <1>0, <1>1, <1>11, <2>1 DEF Torn, Untaken
  <2>5. \A k \in 1 .. Len(out') : out'[k] = taken'[Byte(k)]
    <3>1. ASSUME NEW k \in 1 .. Len(out) PROVE out'[k] = taken'[Byte(k)]
      <4>1. Byte(k) \in 1 .. Len(taken)
        BY <1>0, <1>6, ByteWithin
      <4> QED
        BY <1>6, <2>2, <2>3, <4>1
    <3>2. ASSUME NEW k \in Len(out) + 1 .. Len(out) + n PROVE out'[k] = taken'[Byte(k)]
      <4>1. PICK r \in 1 .. MsgLen : r = k - Len(out)
        <5>1. k - Len(out) \in 1 .. MsgLen
          BY <1>a, <2>a
        <5> QED
          BY <5>1
      <4>2. k = Len(taken) * MsgLen + r /\ k \in Nat
        BY <1>0, <1>6, <4>1
      <4>3. Byte(k) = Len(taken) + 1
        BY <1>0, <4>2, ByteOf
      <4> QED
        BY <2>2, <2>3, <4>3
    <3> QED
      BY <1>0, <2>1, <2>2, <3>1, <3>2
  <2>6. Len(taken') * MsgLen = Len(taken) * MsgLen + MsgLen
    BY <1>0, <2>3
  <2>7. QueueIsTaken'
    <3>1. \A u \in Writers : Untaken(u)' => u # w /\ Untaken(u)
      BY <1>4, <2>4
    <3>2. ASSUME NEW u \in Writers, Untaken(u)', NEW i \in 1 .. Len(taken') PROVE taken'[i] # u
      <4>1. u # w /\ i \in 1 .. Len(taken) + 1
        BY <2>3, <3>1, <3>2
      <4>2. CASE i = Len(taken) + 1
        BY <2>3, <4>1, <4>2
      <4>3. CASE i \in 1 .. Len(taken)
        BY <1>7, <2>3, <3>1, <3>2, <4>3
      <4> QED
        BY <1>a, <4>1, <4>2, <4>3
    <3>3. ASSUME NEW u \in Writers, Torn(u)' PROVE taken' # << >> /\ taken'[Len(taken')] = u
      <4>1. u = w
        BY <1>4, <3>3
      <4> QED
        BY <1>0, <2>3, <4>1
    <3>4. Len(write_queue') <= Len(taken') /\ 1 .. Len(write_queue') = {}
      BY <1>0, <1>9, <2>3
    <3> QED
      BY <3>2, <3>3, <3>4 DEF QueueIsTaken
  <2>8. WireIsPrefix'
    <3>1. CASE n = MsgLen
      <4>1. \A u \in Writers : ~Torn(u)'
        BY <1>4, <2>4, <3>1
      <4>2. Len(out') + 0 = Len(taken') * MsgLen
        BY <1>0, <1>6, <2>1, <2>2, <2>6, <3>1
      <4> QED
        BY <1>5, <2>5, <4>1, <4>2 DEF WireIsPrefix, Upto
    <3>2. CASE n # MsgLen
      <4>1. \A u \in Writers : Torn(u)' <=> u = w
        BY <1>4, <2>4, <3>2
      <4>2. Len(out') + rest'[w] = Len(taken') * MsgLen
        BY <1>0, <1>6, <2>1, <2>2, <2>4, <2>6, <3>2
      <4> QED
        BY <2>5, <4>1, <4>2 DEF WireIsPrefix, Upto
    <3> QED
      BY <3>1, <3>2
  <2> QED
    BY <2>7, <2>8
<1> QED
  BY <1>10, <1>11 DEF WriterTries

\* enqueue takes over what the torn writer has left, or a whole message.
LEMMA EnqueuesWire ==
    ASSUME HInv, BInv, OInv, NEW w \in Writers, WriterEnqueues(w)
    PROVE  QueueIsTaken' /\ WireIsPrefix'
<1>0. /\ wpc \in [Writers -> Wpcs] /\ rest \in [Writers -> 0 .. MsgLen] /\ out \in Seq(Writers)
      /\ taken \in Seq(Writers) /\ MsgLen \in Nat \ {0} /\ write_queue \in Seq(Entries)
      /\ Len(taken) \in Nat /\ Len(out) \in Nat /\ Len(write_queue) \in Nat
      /\ rest[w] \in 1 .. MsgLen
  <2>1. /\ wpc \in [Writers -> Wpcs] /\ rest \in [Writers -> 0 .. MsgLen] /\ out \in Seq(Writers)
        /\ taken \in Seq(Writers) /\ MsgLen \in Nat \ {0} /\ write_queue \in Seq(Entries)
    BY HioAssumption DEF BInv, TypeOK, Wpcs, Entries
  <2>2. rest[w] # 0
    BY DEF BInv, TornAtHead, WriterEnqueues
  <2> QED
    BY <2>1, <2>2
<1>a. Len(taken) \in Nat /\ Len(out) \in Nat /\ MsgLen \in Nat \ {0} /\ rest[w] \in Nat
  BY <1>0
<1>1. /\ wpc[w] = "enqueue" /\ UNCHANGED <<rest, closed, out>>
      /\ rest[w] # MsgLen => write_queue = << >>
  BY DEF WriterEnqueues, BInv, TornAtHead, stateVars
<1>2. ~closed
  BY <1>1 DEF HInv, ClosedIsLeft, Inside
<1>3. /\ wpc'[w] \in {"close", "written"}
      /\ \A u \in Writers \ {w} : wpc'[u] = wpc[u]
  BY <1>0 DEF WriterEnqueues
<1>4. /\ \A u \in Writers \ {w} : ~Torn(u)
      /\ \A u \in Writers : ~Torn(u)' /\ (Untaken(u)' => u # w /\ Untaken(u))
  <2>1. \A u \in Writers \ {w} : wpc[u] \notin {"try", "add", "enqueue"}
    BY <1>1 DEF HInv, Mutex, Inside
  <2> QED
    BY <1>1, <1>3, <2>1 DEF Torn, Untaken
<1>5. /\ Len(write_queue) <= Len(taken)
      /\ \A j \in 1 .. Len(write_queue) :
            write_queue[j].m = taken[Len(taken) - Len(write_queue) + j]
      /\ \A u \in Writers : Untaken(u) => \A i \in 1 .. Len(taken) : taken[i] # u
  BY <1>2 DEF OInv, QueueIsTaken
<1>6. CASE UNCHANGED queueVars
  \* The queue is full: no message was torn, for what is left of one fits.
  <2>1. ~Torn(w)
    <3> SUFFICES ASSUME Torn(w) PROVE FALSE
      OBVIOUS
    <3>1. write_queue = << >> /\ write_bufsize = 0
      BY <1>1, <1>2 DEF Torn, BInv, Exact, Unsent
    <3>2. ~ (write_bufsize + rest[w] > MaxWriteBuf)
      BY <1>0, <3>1, HioAssumption
    <3>3. write_bufsize' = write_bufsize + rest[w]
      BY <3>2 DEF WriterEnqueues
    <3> QED
      BY <1>0, <1>6, <3>1, <3>3 DEF queueVars
  <2>2. taken' = taken /\ write_queue' = write_queue
    <3>1. write_bufsize' = write_bufsize /\ write_bufsize \in Nat /\ write_queue' = write_queue
      BY <1>6 DEF queueVars, BInv, TypeOK
    <3> QED
      BY <1>0, <3>1 DEF WriterEnqueues
  <2>3. Unsent' = Unsent
    BY <2>2 DEF Unsent
  <2>4. Upto(Unsent)
    BY <1>2, <1>4, <2>1 DEF OInv, WireIsPrefix
  <2>5. WireIsPrefix'
    BY <1>1, <1>4, <2>2, <2>3, <2>4 DEF WireIsPrefix, Upto
  <2>6. QueueIsTaken'
    BY <1>4, <1>5, <2>2 DEF QueueIsTaken
  <2> QED
    BY <2>5, <2>6
<1>7. CASE ~ UNCHANGED queueVars
  <2> DEFINE e == [m |-> w, left |-> rest[w]]
             q == Len(write_queue)
  <2>1. /\ write_queue' = Append(write_queue, e)
        /\ taken' = IF rest[w] = MsgLen THEN Append(taken, w) ELSE taken
    BY <1>7 DEF WriterEnqueues
  <2>2. e \in Entries /\ e.m = w
    BY <1>0 DEF Entries
  <2>3. write_queue' # write_queue
    <3> HIDE DEF e
    <3>1. Len(write_queue') = Len(write_queue) + 1
      BY <1>0, <2>1, <2>2, Appended
    <3> QED
      BY <1>0, <3>1
  <2>4. Unsent \in Nat /\ Unsent' = Unsent + rest[w]
    BY <2>3, EnqueueAdds
  <2>5. /\ Len(write_queue') = q + 1 /\ write_queue'[q + 1].m = w
        /\ \A j \in 1 .. q : write_queue'[j] = write_queue[j]
    <3> HIDE DEF e
    <3> QED
      BY <1>0, <2>1, <2>2, Appended
  <2>6. CASE rest[w] = MsgLen
    <3>1. /\ taken' = Append(taken, w) /\ ~Torn(w)
      BY <2>1, <2>6 DEF Torn
    <3>2. /\ Len(taken') = Len(taken) + 1 /\ taken'[Len(taken) + 1] = w
          /\ \A i \in 1 .. Len(taken) : taken'[i] = taken[i]
      BY <1>0, <3>1, Appended
    <3>3. Len(out) + Unsent = Len(taken) * MsgLen /\ \A k \in 1 .. Len(out) : out[k] = taken[Byte(k)]
      BY <1>2, <1>4, <3>1 DEF OInv, WireIsPrefix, Upto
    <3>4. ASSUME NEW k \in 1 .. Len(out') PROVE out'[k] = taken'[Byte(k)]
      <4>1. k \in 1 .. Len(taken) * MsgLen /\ k \in 1 .. Len(out) /\ out' = out
        <5>1. Len(out') = Len(out) /\ out' = out
          BY <1>1
        <5>2. Len(taken) * MsgLen \in Nat
          BY <1>0
        <5> QED
          BY <1>0, <2>4, <3>3, <5>1, <5>2
      <4>2. Byte(k) \in 1 .. Len(taken)
        BY <1>0, <4>1, ByteWithin
      <4> QED
        BY <3>2, <3>3, <4>1, <4>2
    <3>5. Len(out') + Unsent' = Len(taken') * MsgLen
      <4>1. Len(taken') * MsgLen = Len(taken) * MsgLen + MsgLen
        BY <1>0, <3>2
      <4>2. Len(out') = Len(out) /\ Len(taken) * MsgLen \in Nat
        BY <1>0, <1>1
      <4>3. Len(out) + Unsent = Len(taken) * MsgLen
        BY <3>3
      <4> QED
        BY <1>a, <2>4, <2>6, <4>1, <4>2, <4>3
    <3>6. WireIsPrefix'
      BY <1>4, <3>4, <3>5 DEF WireIsPrefix, Upto
    <3>7. ASSUME NEW j \in 1 .. Len(write_queue')
          PROVE  write_queue'[j].m = taken'[Len(taken') - Len(write_queue') + j]
      <4>1. CASE j = q + 1
        <5>1. Len(taken') - Len(write_queue') + j = Len(taken) + 1
          BY <1>0, <2>5, <3>2, <4>1
        <5> QED
          BY <2>5, <3>2, <4>1, <5>1
      <4>2. CASE j # q + 1
        <5>1. /\ j \in 1 .. q /\ Len(taken') - Len(write_queue') + j = Len(taken) - q + j
              /\ Len(taken) - q + j \in 1 .. Len(taken)
          BY <1>0, <1>5, <2>5, <3>2, <4>2
        <5> QED
          BY <1>5, <2>5, <3>2, <5>1
      <4> QED
        BY <4>1, <4>2
    <3>8. ASSUME NEW u \in Writers, Untaken(u)', NEW i \in 1 .. Len(taken') PROVE taken'[i] # u
      <4>1. u # w /\ Untaken(u) /\ i \in 1 .. Len(taken) + 1
        BY <1>4, <3>2, <3>8
      <4>2. CASE i = Len(taken) + 1
        BY <3>2, <4>1, <4>2
      <4>3. CASE i \in 1 .. Len(taken)
        BY <1>5, <3>2, <4>1, <4>3
      <4> QED
        BY <1>a, <4>1, <4>2, <4>3
    <3>9. Len(write_queue') <= Len(taken')
      BY <1>0, <1>5, <2>5, <3>2
    <3>10. QueueIsTaken'
      BY <1>4, <3>7, <3>8, <3>9 DEF QueueIsTaken
    <3> QED
      BY <3>6, <3>10
  <2>7. CASE rest[w] # MsgLen
    <3>1. taken' = taken /\ Torn(w) /\ write_queue = << >> /\ q = 0
      BY <1>1, <2>1, <2>7 DEF Torn
    <3>2. taken # << >> /\ taken[Len(taken)] = w
      BY <1>2, <3>1 DEF OInv, QueueIsTaken
    <3>3. Len(out) + rest[w] = Len(taken) * MsgLen /\ \A k \in 1 .. Len(out) : out[k] = taken[Byte(k)]
      BY <1>2, <3>1 DEF OInv, WireIsPrefix, Upto
    <3>4. Unsent' = rest[w]
      BY <1>0, <2>4, <3>1 DEF Unsent
    <3>5. WireIsPrefix'
      BY <1>1, <1>4, <3>1, <3>3, <3>4 DEF WireIsPrefix, Upto
    <3>6. Len(write_queue') = 1 /\ write_queue'[1].m = w /\ Len(taken) >= 1
      BY <1>0, <2>5, <3>1, <3>2
    <3>7. ASSUME NEW j \in 1 .. Len(write_queue')
          PROVE  write_queue'[j].m = taken'[Len(taken') - Len(write_queue') + j]
      <4>1. j = 1 /\ Len(taken') - Len(write_queue') + j = Len(taken)
        BY <1>0, <3>1, <3>6
      <4> QED
        BY <3>1, <3>2, <3>6, <4>1
    <3>8. QueueIsTaken'
      BY <1>0, <1>4, <1>5, <3>1, <3>6, <3>7 DEF QueueIsTaken
    <3> QED
      BY <3>5, <3>8
  <2> QED
    BY <2>6, <2>7
<1> QED
  BY <1>6, <1>7

\* Nothing else that a writer does is seen on the wire.
LEMMA WriterWire ==
    ASSUME HInv, BInv, OInv, NEW w \in Writers, Writer(w)
    PROVE  QueueIsTaken' /\ WireIsPrefix'
<1>1. CASE WriterTries(w)
  BY <1>1, TriesWire
<1>2. CASE WriterEnqueues(w)
  BY <1>2, EnqueuesWire
<1>3. CASE ~WriterTries(w) /\ ~WriterEnqueues(w)
  <2>0. wpc \in [Writers -> Wpcs]
    BY DEF BInv, TypeOK, Wpcs
  <2>1. UNCHANGED <<rest, write_queue, taken, out, closed>>
    <3>1. WriterWatches(w) => ready
      BY DEF WriterWatches, HInv, Mutex, ClosedIsLeft, OpenIsReady, Inside
    <3> QED
      BY <1>3, <3>1 DEF Writer, WriterTests, WriterLocks, WriterWatches, WriterReturns,
                        WriterPostsClose, queueVars, wireVars, stateVars
  <2>2. /\ \A u \in Writers \ {w} : wpc'[u] = wpc[u]
        /\ wpc[w] \in {"test", "lock"} => rest[w] = MsgLen
        /\ \/ wpc[w] = "test" /\ wpc'[w] \in {"done", "lock"}
           \/ wpc[w] = "lock" /\ wpc'[w] \in {"try", "enqueue"}
           \/ wpc[w] = "add" /\ wpc'[w] = "enqueue"
           \/ wpc[w] = "written" /\ wpc'[w] \in {"done", "close"}
           \/ wpc[w] = "close" /\ wpc'[w] = "done"
    BY <1>3, <2>0 DEF BInv, TornAtHead, Waiting, Writer, WriterTests, WriterLocks, WriterWatches,
                      WriterReturns, WriterPostsClose
  <2>3. \A u \in Writers : Torn(u)' = Torn(u) /\ (Untaken(u)' => Untaken(u))
    BY <2>1, <2>2 DEF Torn, Untaken
  <2>4. Unsent' = Unsent
    BY <2>1 DEF Unsent
  <2>5. QueueIsTaken'
    BY <2>1, <2>3 DEF OInv, QueueIsTaken
  <2>6. WireIsPrefix'
    BY <2>1, <2>3, <2>4 DEF OInv, WireIsPrefix, Upto
  <2> QED
    BY <2>5, <2>6
<1> QED
  BY <1>1, <1>2, <1>3

\* nio_write sends the head of the queue, which is the message that the wire
\* ends with or comes next.
LEMMA DrainsWire ==
    ASSUME HInv, BInv, OInv, LoopDrains PROVE QueueIsTaken' /\ WireIsPrefix'
<1>0. /\ out \in Seq(Writers) /\ taken \in Seq(Writers) /\ write_queue \in Seq(Entries)
      /\ write_queue # << >>
  BY DEF BInv, TypeOK, Entries, LoopDrains
<1>a. Len(taken) \in Nat /\ Len(out) \in Nat /\ MsgLen \in Nat \ {0} /\ Len(write_queue) \in Nat \ {0}
  BY <1>0, HeadOf, HioAssumption
<1>1. lpc = "drain" /\ UNCHANGED <<wpc, rest, closed, taken>>
  BY DEF LoopDrains, writerVars, stateVars
<1>2. ~closed
  BY <1>1, DrainIsOpen
<1>3. \A u \in Writers : ~Torn(u) /\ ~Torn(u)' /\ Untaken(u)' = Untaken(u)
  <2>1. \A u \in Writers : wpc[u] \notin {"try", "add", "enqueue"}
    BY <1>1, HioAssumption DEF HInv, Mutex, Inside
  <2> QED
    BY <1>1, <2>1 DEF Torn, Untaken
<1> DEFINE q == Len(write_queue)
           h == write_queue[1].left
           m == write_queue[1].m
<1>4. /\ q <= Len(taken)
      /\ \A j \in 1 .. q : write_queue[j].m = taken[Len(taken) - q + j]
      /\ \A u \in Writers : Untaken(u) => \A i \in 1 .. Len(taken) : taken[i] # u
  BY <1>2 DEF OInv, QueueIsTaken
<1>5. Len(out) + Unsent = Len(taken) * MsgLen /\ \A k \in 1 .. Len(out) : out[k] = taken[Byte(k)]
  BY <1>2, <1>3 DEF OInv, WireIsPrefix, Upto
<1>6. PICK n \in 1 .. h :
        /\ out' = out \o Copies(m, n)
        /\ Unsent \in Nat /\ Unsent' = Unsent - n
        /\ \/ write_queue' = Tail(write_queue)
           \/ /\ n \in 1 .. MsgLen /\ n < h
              /\ write_queue' = [write_queue EXCEPT ![1].left = @ - n]
  BY DrainTakes
<1>7. h \in 1 .. MsgLen /\ m \in Writers /\ n \in Nat /\ n <= h
  BY <1>0, UnsentBounds
<1>8. Unsent = h + (q - 1) * MsgLen
  BY <1>0 DEF Unsent
<1>9. m = taken[Len(taken) - q + 1] /\ Len(taken) - q + 1 \in 1 .. Len(taken)
  <2>1. 1 \in 1 .. q /\ Len(taken) - q + 1 \in 1 .. Len(taken)
    BY <1>a, <1>4
  <2> QED
    BY <1>4, <2>1
<1>10. Longer(out', out, m, n)
  <2>1. Longer(out \o Copies(m, n), out, m, n)
    BY <1>0, <1>7, CopiesAfter
  <2> QED
    BY <1>6, <2>1
<1>11. \A k \in 1 .. Len(out') : out'[k] = taken'[Byte(k)]
  <2>1. ASSUME NEW k \in 1 .. Len(out) PROVE out'[k] = taken'[Byte(k)]
    BY <1>1, <1>5, <1>10 DEF Longer
  <2>2. ASSUME NEW k \in Len(out) + 1 .. Len(out) + n PROVE out'[k] = taken'[Byte(k)]
    <3>1. MsgLen - h + (k - Len(out)) \in 1 .. MsgLen
      BY <1>a, <1>7, SMTT(60)
    <3>2. PICK r \in 1 .. MsgLen : r = MsgLen - h + (k - Len(out))
      BY <3>1
    <3>3. PICK p \in Nat : p = Len(taken) - q
      <4>1. q <= Len(taken)
        BY <1>4
      <4>2. Len(taken) - q \in Nat
        BY <1>a, <4>1
      <4> QED
        BY <4>2
    <3>4. q \in Nat \ {0} /\ h \in Nat /\ Len(taken) \in Nat /\ Len(out) \in Nat /\ k \in Nat
      BY <1>a, <1>7
    <3>5. Len(out) + (h + (q - 1) * MsgLen) = Len(taken) * MsgLen
      BY <1>5, <1>8
    <3>6. k = p * MsgLen + r
      <4> HIDE DEF q, h
      <4>1. p * MsgLen = Len(taken) * MsgLen - q * MsgLen /\ q * MsgLen \in Nat
            /\ Len(taken) * MsgLen \in Nat
        BY <1>a, <3>3, <3>4
      <4>2. (q - 1) * MsgLen = q * MsgLen - MsgLen
        BY <1>a, <3>4
      <4> QED
        BY <1>a, <3>2, <3>4, <3>5, <4>1, <4>2, SMTT(60)
    <3>7. Byte(k) = p + 1
      BY <3>4, <3>6, ByteOf
    <3>8. taken'[Byte(k)] = m
      BY <1>1, <1>9, <3>3, <3>7
    <3> QED
      BY <1>10, <3>8 DEF Longer
  <2>3. Len(out') = Len(out) + n
    BY <1>10 DEF Longer
  <2> QED
    BY <1>a, <1>7, <2>1, <2>2, <2>3
<1>12. WireIsPrefix'
  <2>1. Len(out') + Unsent' = Len(taken') * MsgLen
    <3>1. Len(out') = Len(out) + n /\ Len(out) + Unsent = Len(taken) * MsgLen
      BY <1>5, <1>10 DEF Longer
    <3>2. Unsent \in Nat /\ Unsent' = Unsent - n /\ n \in Nat
      BY <1>6, <1>7
    <3> QED
      BY <1>a, <1>1, <3>1, <3>2
  <2> QED
    BY <1>3, <1>11, <2>1 DEF WireIsPrefix, Upto
<1>13. QueueIsTaken'
  <2>1. CASE write_queue' = Tail(write_queue)
    <3>1. Len(write_queue') = q - 1 /\ \A j \in 1 .. q - 1 : write_queue'[j] = write_queue[j + 1]
      BY <1>0, <2>1, TailOf
    <3>2. ASSUME NEW j \in 1 .. Len(write_queue')
          PROVE  write_queue'[j].m = taken'[Len(taken') - Len(write_queue') + j]
      <4>1. j \in 1 .. q - 1 /\ j + 1 \in 1 .. q
        BY <1>a, <3>1
      <4>2. Len(taken') - Len(write_queue') + j = Len(taken) - q + (j + 1)
        BY <1>a, <1>1, <3>1, <4>1
      <4> QED
        BY <1>1, <1>4, <3>1, <4>1, <4>2
    <3>3. Len(write_queue') <= Len(taken')
      BY <1>a, <1>1, <1>4, <3>1
    <3> QED
      BY <1>1, <1>3, <1>4, <3>2, <3>3 DEF QueueIsTaken
  <2>2. CASE /\ n \in 1 .. MsgLen /\ n < h
             /\ write_queue' = [write_queue EXCEPT ![1].left = @ - n]
    <3>1. /\ Len(write_queue') = q /\ write_queue'[1].m = m
          /\ \A j \in 2 .. q : write_queue'[j] = write_queue[j]
      BY <1>0, <2>2, Shortened
    <3>2. \A j \in 1 .. q : write_queue'[j].m = write_queue[j].m
      BY <1>a, <3>1
    <3> QED
      BY <1>1, <1>3, <1>4, <3>1, <3>2 DEF QueueIsTaken
  <2> QED
    BY <1>6, <2>1, <2>2
<1> QED
  BY <1>12, <1>13

\* Nothing else that the loop thread does is seen on the wire of an open hio.
LEMMA LoopWire == ASSUME HInv, BInv, OInv, Loop PROVE QueueIsTaken' /\ WireIsPrefix'
<1>1. CASE LoopDrains
  BY <1>1, DrainsWire
<1>2. CASE closed'
  BY <1>2 DEF QueueIsTaken, WireIsPrefix
<1>3. CASE UNCHANGED <<write_queue, wpc, rest, taken, out, closed>>
  <2>1. Unsent' = Unsent /\ \A u \in Writers : Torn(u)' = Torn(u) /\ Untaken(u)' = Untaken(u)
    BY <1>3 DEF Unsent, Torn, Untaken
  <2>2. QueueIsTaken'
    BY <1>3, <2>1 DEF OInv, QueueIsTaken
  <2>3. WireIsPrefix'
    BY <1>3, <2>1 DEF OInv, WireIsPrefix, Upto
  <2> QED
    BY <2>2, <2>3
<1>4. CASE LoopClears
  BY <1>2, <1>4 DEF LoopClears, HInv, ClosingSteps, Closing, stateVars
<1>5. CASE LoopReopens
  <2>1. /\ closed /\ write_queue' = << >> /\ taken' = << >> /\ out' = << >>
        /\ UNCHANGED <<wpc, rest>>
    BY <1>5 DEF LoopReopens, HInv, ClosingSteps, writerVars
  <2>2. \A u \in Writers : ~Torn(u)'
    BY <2>1 DEF HInv, ClosedIsLeft, Inside, Torn
  <2>3. Len(write_queue') = 0 /\ Len(taken') = 0 /\ Len(out') = 0 /\ Unsent' = 0
    BY <2>1 DEF Unsent
  <2>4. QueueIsTaken'
    BY <2>2, <2>3 DEF QueueIsTaken
  <2>5. WireIsPrefix'
    BY <2>2, <2>3, HioAssumption DEF WireIsPrefix, Upto
  <2> QED
    BY <2>4, <2>5
<1> QED
  BY <1>1, <1>2, <1>3, <1>4, <1>5
     DEF Loop, LoopWritable, LoopLocks, LoopHasDrained, LoopCannotDrain, LoopReadEnds,
         LoopTakesClose, LoopCloseTimeout, LoopIsClosed, LoopClosesLater, LoopCloses,
         LoopIsDone, LoopCallsBack, LoopClosesSocket, writerVars, stateVars, queueVars, wireVars

\* Every way into hio_close is counted, or is an error.
LEMMA CloseAsked == ASSUME HInv, BInv, OInv, Next PROVE CloseWasAsked'
<1>0. asked \in Nat /\ error \in BOOLEAN /\ close \in BOOLEAN /\ closed \in BOOLEAN
      /\ CloseWasAsked
  BY DEF BInv, TypeOK, OInv
<1>1. ASSUME NEW w \in Writers, Writer(w) PROVE CloseWasAsked'
  <2>1. WriterWatches(w) => ready
    BY DEF WriterWatches, HInv, Mutex, ClosedIsLeft, OpenIsReady, Inside
  <2>2. UNCHANGED <<lpc, asked>>
    BY <1>1
       DEF Writer, WriterTests, WriterLocks, WriterTries, WriterWatches, WriterEnqueues,
           WriterReturns, WriterPostsClose, connVars
  <2>3. UNCHANGED <<closed, close>>
    BY <1>1, <2>1
       DEF Writer, WriterTests, WriterLocks, WriterTries, WriterWatches, WriterEnqueues,
           WriterReturns, WriterPostsClose, stateVars
  <2>4. error' = error \/ error' = TRUE
    BY <1>1, <2>1
       DEF Writer, WriterTests, WriterLocks, WriterTries, WriterWatches, WriterEnqueues,
           WriterReturns, WriterPostsClose
  <2> QED
    BY <1>0, <2>2, <2>3, <2>4 DEF CloseWasAsked
<1>2. CASE Loop
  <2> USE <1>0 DEF CloseWasAsked, stateVars, connVars
  <2>1. CASE LoopReopens
    BY <2>1 DEF LoopReopens, hio_ready, HInv, ClosingSteps
  <2>2. CASE LoopHasDrained
    BY <2>2 DEF LoopHasDrained
  <2>3. CASE LoopReadEnds
    BY <2>3 DEF LoopReadEnds, Watched
  <2>4. CASE LoopTakesClose
    BY <2>4 DEF LoopTakesClose
  <2>5. CASE LoopClosesLater
    BY <2>5 DEF LoopClosesLater
  <2>6. CASE LoopCloseTimeout \/ LoopCannotDrain
    BY <2>6 DEF LoopCloseTimeout, LoopCannotDrain
  <2>7. CASE LoopWritable \/ LoopLocks \/ LoopDrains \/ LoopIsClosed \/ LoopCloses
             \/ LoopIsDone \/ LoopClears \/ LoopCallsBack \/ LoopClosesSocket
    BY <2>7 DEF LoopWritable, LoopLocks, LoopDrains, LoopIsClosed, LoopCloses, LoopIsDone,
                LoopClears, LoopCallsBack, LoopClosesSocket, HInv, ClosingSteps, Closing
  <2> QED
    BY <1>2, <2>1, <2>2, <2>3, <2>4, <2>5, <2>6, <2>7 DEF Loop
<1>3. CASE PeerReads \/ PeerEnds
  BY <1>0, <1>3 DEF PeerReads, PeerEnds, CloseWasAsked, stateVars, connVars
<1> QED
  BY <1>1, <1>2, <1>3 DEF Next

LEMMA OInvHolds == ASSUME ~LateWriters PROVE Spec => []OInv
<1>1. Init => OInv
  <2> SUFFICES ASSUME Init PROVE OInv
    OBVIOUS
  <2>1. /\ Len(write_queue) = 0 /\ Len(taken) = 0 /\ Len(out) = 0 /\ Unsent = 0
        /\ \A w \in Writers : ~Torn(w)
    BY DEF Init, Unsent, Torn
  <2>2. QueueIsTaken
    BY <2>1 DEF QueueIsTaken
  <2>3. WireIsPrefix
    BY <2>1, HioAssumption DEF WireIsPrefix, Upto
  <2>4. CloseWasAsked
    BY DEF Init, CloseWasAsked
  <2> QED
    BY <2>2, <2>3, <2>4 DEF OInv
<1>2. HInv /\ BInv /\ OInv /\ [Next]_vars => OInv'
  <2> SUFFICES ASSUME HInv, BInv, OInv, [Next]_vars PROVE OInv'
    OBVIOUS
  <2>1. CASE Loop
    BY <2>1, LoopWire, CloseAsked DEF OInv, Next
  <2>2. ASSUME NEW w \in Writers, Writer(w) PROVE OInv'
    BY <2>2, WriterWire, CloseAsked DEF OInv, Next
  <2>3. CASE PeerReads \/ PeerEnds \/ UNCHANGED vars
    <3>1. UNCHANGED <<wpc, rest, lpc, closed, close, error, write_queue, taken, out, asked>>
      BY <2>3 DEF PeerReads, PeerEnds, vars, writerVars, stateVars, queueVars, wireVars, connVars
    <3>2. Unsent' = Unsent /\ \A u \in Writers : Torn(u)' = Torn(u) /\ Untaken(u)' = Untaken(u)
      BY <3>1 DEF Unsent, Torn, Untaken
    <3>3. QueueIsTaken'
      BY <3>1, <3>2 DEF OInv, QueueIsTaken
    <3>4. WireIsPrefix'
      BY <3>1, <3>2 DEF OInv, WireIsPrefix, Upto
    <3>5. CloseWasAsked'
      BY <3>1 DEF OInv, CloseWasAsked
    <3> QED
      BY <3>3, <3>4, <3>5 DEF OInv
  <2> QED
    BY <2>1, <2>2, <2>3 DEF Next
<1> QED
  BY <1>1, <1>2, HInvHolds, BInvHolds, PTL DEF Spec

-----------------------------------------------------------------------------
(* The refinement: the hio with its write queue implements ByteStream.      *)

\* What an open hio has put on the wire is a prefix of the messages taken.
LEMMA WireBegins ==
    ASSUME BInv, OInv, ~closed PROVE Stream!Begins(out, Stream!Bytes(taken))
<1>0. /\ out \in Seq(Writers) /\ taken \in Seq(Writers) /\ rest \in [Writers -> 0 .. MsgLen]
      /\ write_queue \in Seq(Entries)
  BY DEF BInv, TypeOK, Entries
<1>1. PICK n \in Nat : Upto(n)
  <2>1. CASE \E w \in Writers : Torn(w)
    <3>1. PICK w \in Writers : Torn(w)
      BY <2>1
    <3>2. rest[w] \in Nat /\ Upto(rest[w])
      BY <1>0, <3>1, HioAssumption DEF OInv, WireIsPrefix
    <3> QED
      BY <3>2
  <2>2. CASE \A w \in Writers : ~Torn(w)
    <3>1. Unsent \in Nat
      <4>1. write_queue = << >> => Unsent = 0
        BY DEF Unsent
      <4> QED
        BY <1>0, <4>1, UnsentBounds
    <3>2. Upto(Unsent)
      BY <2>2 DEF OInv, WireIsPrefix
    <3> QED
      BY <3>1, <3>2
  <2> QED
    BY <2>1, <2>2
<1>2. Len(out) \in Nat /\ Len(taken) * MsgLen \in Nat
  <2>1. Len(taken) \in Nat /\ MsgLen \in Nat
    BY <1>0, HioAssumption
  <2> QED
    BY <1>0, <2>1
<1>3. Len(out) <= Len(taken) * MsgLen
  BY <1>1, <1>2 DEF Upto
<1>4. ASSUME NEW k \in 1 .. Len(out) PROVE out[k] = Stream!Bytes(taken)[k]
  <2>1. k \in 1 .. Len(taken) * MsgLen
    BY <1>2, <1>3
  <2>2. out[k] = taken[Byte(k)]
    BY <1>1 DEF Upto
  <2>3. Stream!Bytes(taken)[k] = taken[Byte(k)]
    BY <1>0, <2>1, BytesOf
  <2> QED
    BY <2>2, <2>3
<1>5. Stream!Bytes(taken) \in Seq(Writers) /\ Len(Stream!Bytes(taken)) = Len(taken) * MsgLen
  BY <1>0, BytesOf
<1> HIDE DEF Stream!Bytes
<1> QED
  BY <1>0, <1>3, <1>4, <1>5, BeginsIs

\* No step takes back what is on the wire, and a message is taken once.
LEMMA WireGrows ==
    ASSUME HInv, BInv, OInv, Next, ~closed, ~closed'
    PROVE  /\ Stream!Begins(out, out')
           /\ \/ UNCHANGED taken
              \/ \E w \in Writers : /\ \A i \in DOMAIN taken : taken[i] # w
                                    /\ taken' = Append(taken, w)
<1>0. out \in Seq(Writers) /\ taken \in Seq(Writers) /\ rest \in [Writers -> 0 .. MsgLen]
      /\ room \in Nat /\ write_queue \in Seq(Entries)
  BY HioAssumption DEF BInv, TypeOK, Entries
<1>1. ASSUME UNCHANGED out PROVE Stream!Begins(out, out')
  BY <1>0, <1>1, BeginsIs
<1>2. ASSUME NEW w \in Writers, NEW n \in Nat, out' = out \o Copies(w, n)
      PROVE  Stream!Begins(out, out')
  <2>1. out \o Copies(w, n) \in Seq(Writers) /\ Longer(out \o Copies(w, n), out, w, n)
    BY <1>0, CopiesAfter
  <2>2. out' \in Seq(Writers) /\ Longer(out', out, w, n)
    BY <1>2, <2>1
  <2>3. Len(out) \in Nat /\ Len(out') = Len(out) + n /\ \A k \in 1 .. Len(out) : out[k] = out'[k]
    BY <1>0, <2>2 DEF Longer
  <2>4. Len(out) <= Len(out')
    BY <2>3
  <2> QED
    BY <1>0, <2>2, <2>3, <2>4, BeginsIs
<1>3. ASSUME NEW w \in Writers, Untaken(w)
      PROVE  \A i \in DOMAIN taken : taken[i] # w
  BY <1>0, <1>3 DEF OInv, QueueIsTaken
<1>4. CASE LoopDrains
  <2>1. write_queue # << >> /\ UNCHANGED taken
    BY <1>4 DEF LoopDrains
  <2>2. write_queue[1].m \in Writers /\ write_queue[1].left \in 1 .. MsgLen
    BY <1>0, <2>1, UnsentBounds
  <2>3. PICK n \in 1 .. write_queue[1].left : out' = out \o Copies(write_queue[1].m, n)
    BY <1>4, DrainTakes
  <2>4. n \in Nat
    BY <2>2
  <2> QED
    BY <1>2, <2>1, <2>2, <2>3, <2>4
<1>5. ASSUME NEW w \in Writers, WriterTries(w)
      PROVE  /\ Stream!Begins(out, out')
             /\ \/ UNCHANGED taken
                \/ \E v \in Writers : (\A i \in DOMAIN taken : taken[i] # v) /\ taken' = Append(taken, v)
  <2>1. Untaken(w)
    BY <1>5 DEF WriterTries, BInv, TornAtHead, Untaken, Torn
  <2>2. CASE UNCHANGED wireVars
    BY <1>1, <2>2 DEF wireVars
  <2>3. ASSUME NEW n \in CanWrite(rest[w]), Write(w, n), taken' = Append(taken, w)
        PROVE  /\ Stream!Begins(out, out')
               /\ \E v \in Writers : (\A i \in DOMAIN taken : taken[i] # v) /\ taken' = Append(taken, v)
    <3>1. rest[w] \in Nat
      BY <1>0, HioAssumption
    <3>2. n \in Nat /\ out' = out \o Copies(w, n)
      BY <1>0, <2>3, <3>1, WriteTypes
    <3> QED
      BY <1>2, <1>3, <2>1, <2>3, <3>2
  <2> QED
    BY <1>5, <2>2, <2>3 DEF WriterTries
<1>6. ASSUME NEW w \in Writers, WriterEnqueues(w)
      PROVE  /\ Stream!Begins(out, out')
             /\ \/ UNCHANGED taken
                \/ \E v \in Writers : (\A i \in DOMAIN taken : taken[i] # v) /\ taken' = Append(taken, v)
  <2>1. UNCHANGED out
    BY <1>6 DEF WriterEnqueues
  <2>2. taken' = taken \/ (rest[w] = MsgLen /\ taken' = Append(taken, w))
    BY <1>6 DEF WriterEnqueues
  <2>3. rest[w] = MsgLen => Untaken(w)
    BY <1>6 DEF WriterEnqueues, Untaken, Torn
  <2> QED
    BY <1>1, <1>3, <2>1, <2>2, <2>3
<1>7. CASE LoopReopens
  BY <1>7 DEF LoopReopens, HInv, ClosingSteps
<1>8. CASE UNCHANGED <<out, taken>>
  BY <1>1, <1>8
<1>9. ASSUME NEW w \in Writers, Writer(w), ~WriterTries(w), ~WriterEnqueues(w)
      PROVE  UNCHANGED <<out, taken>>
  BY <1>9 DEF Writer, WriterTests, WriterLocks, WriterWatches, WriterReturns,
              WriterPostsClose, wireVars
<1>10. ASSUME Loop, ~LoopDrains, ~LoopReopens PROVE UNCHANGED <<out, taken>>
  BY <1>10 DEF Loop, LoopWritable, LoopLocks, LoopHasDrained, LoopCannotDrain, LoopReadEnds,
               LoopTakesClose, LoopCloseTimeout, LoopIsClosed, LoopClosesLater, LoopCloses,
               LoopIsDone, LoopClears, LoopCallsBack, LoopClosesSocket, wireVars
<1>11. PeerReads \/ PeerEnds => UNCHANGED <<out, taken>>
  BY DEF PeerReads, PeerEnds, wireVars
<1> QED
  BY <1>4, <1>5, <1>6, <1>7, <1>8, <1>9, <1>10, <1>11 DEF Next

\* While the hio is closed the wire is left alone, until it is used again.
LEMMA ClosedIsStill ==
    ASSUME HInv, BInv, Next, closed PROVE UNCHANGED <<taken, out, closed>> \/ Stream!Fresh'
<1>1. ASSUME NEW w \in Writers, Writer(w) PROVE UNCHANGED <<taken, out, closed>>
  <2>1. wpc[w] \notin {"try", "add", "enqueue"}
    BY DEF HInv, ClosedIsLeft, Inside
  <2> QED
    BY <1>1, <2>1
       DEF Writer, WriterTests, WriterLocks, WriterTries, WriterWatches, WriterEnqueues,
           WriterReturns, WriterPostsClose, stateVars, wireVars
<1>2. CASE LoopReopens
  <2>1. closed' = FALSE /\ taken' = << >> /\ out' = << >>
    BY <1>2 DEF LoopReopens, hio_ready, HInv, ClosingSteps
  <2> QED
    BY <2>1 DEF Stream!Fresh
<1>3. CASE Loop /\ ~LoopReopens
  <2>1. ~LoopDrains
    BY DrainIsOpen DEF LoopDrains
  <2>2. closed = TRUE
    BY DEF BInv, TypeOK
  <2> QED
    BY <1>3, <2>1, <2>2
       DEF Loop, LoopWritable, LoopLocks, LoopHasDrained, LoopCannotDrain, LoopReadEnds,
           LoopTakesClose, LoopCloseTimeout, LoopIsClosed, LoopClosesLater, LoopCloses,
           LoopIsDone, LoopClears, LoopCallsBack, LoopClosesSocket, stateVars, wireVars
<1>4. CASE PeerReads \/ PeerEnds
  BY <1>4 DEF PeerReads, PeerEnds, stateVars, wireVars
<1> QED
  BY <1>1, <1>2, <1>3, <1>4 DEF Next

\* The step that closes the hio is taken by hio_close, and sends nothing.
LEMMA ClosingStep ==
    ASSUME HInv, BInv, Next, ~closed, closed'
    PROVE  LoopCloses /\ UNCHANGED <<taken, out>>
<1>1. ASSUME NEW w \in Writers, Writer(w) PROVE FALSE
  <2>1. WriterWatches(w) => ready
    BY DEF WriterWatches, HInv, Mutex, ClosedIsLeft, OpenIsReady, Inside
  <2> QED
    BY <1>1, <2>1
       DEF Writer, WriterTests, WriterLocks, WriterTries, WriterWatches, WriterEnqueues,
           WriterReturns, WriterPostsClose, stateVars
<1>2. CASE Loop
  <2>1. LoopCloses
    <3>1. ~LoopCallsBack
      BY DEF LoopCallsBack, HInv, ClosingSteps, Closing
    <3>2. ~LoopReopens
      BY DEF LoopReopens, hio_ready, HInv, ClosingSteps
    <3> QED
      BY <1>2, <3>1, <3>2
         DEF Loop, LoopWritable, LoopLocks, LoopHasDrained, LoopDrains, LoopCannotDrain,
             LoopReadEnds, LoopTakesClose, LoopCloseTimeout, LoopIsClosed, LoopClosesLater,
             LoopIsDone, LoopClears, LoopClosesSocket, stateVars
  <2> QED
    BY <2>1 DEF LoopCloses, wireVars
<1>3. CASE PeerReads \/ PeerEnds
  BY <1>3 DEF PeerReads, PeerEnds, stateVars
<1> QED
  BY <1>1, <1>2, <1>3 DEF Next

\* On every connection the peer gets whole messages one after the other, however
\* the socket cuts them and the threads take turns: the hio implements the
\* stream of bytes.
THEOREM MessagesStayWhole == ASSUME ~LateWriters PROVE Spec => WholeMessages
<1>1. Init => Stream!Fresh
  BY DEF Init, Stream!Fresh
<1>2. HInv /\ BInv /\ OInv /\ BInv' /\ OInv' /\ [Next]_vars
        => [Stream!Go \/ Stream!End \/ Stream!Again]_(Stream!bvars)
  <2> SUFFICES ASSUME HInv, BInv, OInv, BInv', OInv', [Next]_vars
               PROVE  Stream!Go \/ Stream!End \/ Stream!Again \/ UNCHANGED Stream!bvars
    OBVIOUS
  <2>0. closed \in BOOLEAN /\ closed' \in BOOLEAN
    BY DEF BInv, TypeOK
  <2>1. CASE UNCHANGED vars
    BY <2>1 DEF vars, stateVars, wireVars, Stream!bvars
  <2>2. CASE Next /\ ~closed /\ ~closed'
    <3>1. Stream!Begins(out, out')
      BY <2>2, WireGrows
    <3>2. (Stream!Begins(out, Stream!Bytes(taken)))'
      BY <2>2, WireBegins, PTL
    <3>3. \/ UNCHANGED taken
          \/ \E w \in Writers : /\ \A i \in DOMAIN taken : taken[i] # w
                                /\ taken' = Append(taken, w)
      BY <2>2, WireGrows
    <3> QED
      BY <2>2, <3>1, <3>2, <3>3 DEF Stream!Go
  <2>3. CASE Next /\ ~closed /\ closed'
    BY <2>3, ClosingStep DEF Stream!End
  <2>4. CASE Next /\ closed
    BY <2>0, <2>4, ClosedIsStill DEF Stream!Again, Stream!bvars
  <2> QED
    BY <2>1, <2>2, <2>3, <2>4
<1> QED
  BY <1>1, <1>2, HInvHolds, BInvHolds, OInvHolds, PTL DEF Spec, WholeMessages, Stream!BSpec

\* A connection whose close was asked for once, without an error, is closed only
\* when all messages are on the wire: write_queue and io->close put it off.
THEOREM ClosesOrderly == ASSUME ~LateWriters PROVE Spec => OrderlyClose
<1>1. HInv /\ BInv /\ OInv /\ [Next]_vars
        => [closed' /\ ~closed /\ ~error /\ asked = 1 => out = Stream!Bytes(taken)]_vars
  <2> SUFFICES ASSUME HInv, BInv, OInv, Next, closed', ~closed, ~error, asked = 1
               PROVE  out = Stream!Bytes(taken)
    OBVIOUS
  <2>1. LoopCloses
    BY ClosingStep
  <2>2. write_queue = << >>
    BY <2>1 DEF LoopCloses, MustWait, OInv, CloseWasAsked
  <2>3. \A w \in Writers : ~Torn(w)
    BY <2>1, HioAssumption DEF LoopCloses, HInv, Mutex, Inside, Torn
  <2>4. Upto(0)
    BY <2>2, <2>3 DEF OInv, WireIsPrefix, Unsent
  <2>5. out \in Seq(Writers) /\ taken \in Seq(Writers)
    BY DEF BInv, TypeOK
  <2>6. Len(out) = Len(taken) * MsgLen
    <3>1. Len(out) \in Nat /\ Len(out) + 0 = Len(taken) * MsgLen
      BY <2>4, <2>5 DEF Upto
    <3> QED
      BY <3>1
  <2>7. Stream!Begins(out, Stream!Bytes(taken))
    BY WireBegins
  <2>8. Stream!Bytes(taken) \in Seq(Writers) /\ Len(Stream!Bytes(taken)) = Len(out)
    BY <2>5, <2>6, BytesOf
  <2>9. ASSUME NEW S, NEW t \in Seq(S), NEW s, s = SubSeq(t, 1, Len(t)) PROVE s = t
    BY <2>9
  <2>10. out = SubSeq(Stream!Bytes(taken), 1, Len(Stream!Bytes(taken)))
    BY <2>7, <2>8 DEF Stream!Begins
  <2> QED
    BY <2>8, <2>9, <2>10
<1> QED
  BY <1>1, HInvHolds, BInvHolds, OInvHolds, PTL DEF Spec, OrderlyClose
=============================================================================
