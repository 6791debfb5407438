-------------------------------- MODULE Hio --------------------------------
(***************************************************************************)
(* One hio_t of libhv, written to and closed by several threads: hio_write *)
(* and hio_close_async in any thread, nio_read, nio_write, hio_close and   *)
(* the close timer in the loop thread, hio_get when the file descriptor,   *)
(* and with it the hio_t, is used for the next connection.                 *)
(*                                                                         *)
(* A step ends where write_mutex is taken or released, and where a field   *)
(* that is read without it is tested.  A message is its writer's name,     *)
(* MsgLen bytes long; the socket takes as many bytes as its buffer has     *)
(* room for.  An hio_write in the loop thread has fewer interleavings than *)
(* one in another thread, and is not told apart from it.                   *)
(***************************************************************************)
EXTENDS Naturals, Sequences, FiniteSets

CONSTANTS Writers,      \* threads, each writing one message
          MsgLen,       \* its length
          MaxWriteBuf,  \* max_write_bufsize
          Room,         \* the size of the socket's buffer
          MaxConn,      \* bound: connections on the descriptor
          LateWriters   \* may hio_close come between hio_write's test of
                        \* closed and its lock?

ASSUME HioAssumption ==
    /\ IsFiniteSet(Writers) /\ "none" \notin Writers /\ "loop" \notin Writers
    /\ MsgLen \in Nat \ {0} /\ Room \in Nat \ {0} /\ MaxConn \in Nat \ {0}
    /\ MaxWriteBuf \in Nat /\ MsgLen <= MaxWriteBuf
    /\ LateWriters \in BOOLEAN

VARIABLES
    wpc, rest,     \* per writer: where it is; the bytes not yet written
    lpc,           \* loop thread: where it is
    lock,          \* write_mutex: its owner or "none"
    id,            \* io->id
    ready, closed, close, error, events, write_bufsize,    \* hio_t
    write_queue,   \* its entries: whose message, how many bytes are left
    close_cb,      \* io->close_cb is set
    close_timer,   \* io->close_timer, 0 for NULL
    timers,        \* close timers in the loop's heap
    posted,        \* hio_close events in the loop's queue: the id they have,
                   \* and as a ghost the connection they were posted on
    fd,            \* the descriptor is open
    room,          \* free bytes in the socket's buffer
    peer,          \* alive, eof (it hung up), reset
    conn,          \* ghost: the number of this connection
    taken,         \* ghost: messages accepted on it, in order
    out,           \* ghost: bytes the socket took on it
    asked,         \* ghost: closes asked for by callers and peer
    reported       \* ghost: hclose_cb was called on it

writerVars == <<wpc, rest>>
stateVars  == <<id, ready, closed, close, close_cb, close_timer>>
queueVars  == <<write_queue, write_bufsize>>
wireVars   == <<room, out, taken>>
connVars   == <<fd, peer, conn, asked, reported>>
vars == <<writerVars, lpc, lock, stateVars, error, events, queueVars, timers,
          posted, wireVars, connVars>>

-----------------------------------------------------------------------------
\* hio_ready: all fields are reset, and the callbacks.
hio_ready(cb, ev) ==
    /\ ready' = TRUE /\ closed' = FALSE /\ close' = FALSE /\ error' = FALSE
    /\ id' = id + 1
    /\ events' = ev
    /\ write_bufsize' = 0
    /\ close_cb' = cb
    /\ close_timer' = 0

\* __nio_write: what it can write of len bytes of m.
CanWrite(len) == {n \in 1 .. len : fd /\ peer # "reset" /\ n <= room}
EAGAIN == fd /\ peer # "reset" /\ room = 0
Fails == ~fd \/ peer = "reset"

Write(m, n) == out' = out \o [k \in 1 .. n |-> m] /\ room' = room - n

-----------------------------------------------------------------------------
(* A writer: hio_write, then perhaps hio_close.                             *)

\* Nothing is written to an hio that is closed.
WriterTests(w) ==
    /\ wpc[w] = "test"
    /\ wpc' = [wpc EXCEPT ![w] = IF closed THEN "done" ELSE "lock"]
    /\ UNCHANGED <<rest, lpc, lock, stateVars, error, events, queueVars,
                   timers, posted, wireVars, connVars>>

\* Mutant: the socket is tried although the queue has something to write first.
WriterLocks_and_overtakes(w) ==
    /\ wpc[w] = "lock"
    /\ lock = "none"
    /\ lock' = w
    /\ wpc' = [wpc EXCEPT ![w] = "try"]
    /\ UNCHANGED <<rest, lpc, stateVars, error, events, queueVars, timers,
                   posted, wireVars, connVars>>

WriterLocks(w) ==
    /\ wpc[w] = "lock"
    /\ lock = "none"
    /\ lock' = w
    /\ wpc' = [wpc EXCEPT ![w] = IF write_queue = << >> THEN "try" ELSE "enqueue"]
    /\ UNCHANGED <<rest, lpc, stateVars, error, events, queueVars, timers,
                   posted, wireVars, connVars>>

\* try_write.
WriterTries(w) ==
    /\ wpc[w] = "try"
    /\ \/ \E n \in CanWrite(rest[w]) :
             /\ Write(w, n)
             /\ taken' = Append(taken, w)
             /\ rest' = [rest EXCEPT ![w] = @ - n]
             /\ wpc' = [wpc EXCEPT ![w] = IF n = MsgLen THEN "written" ELSE "add"]
             /\ lock' = IF n = MsgLen THEN "none" ELSE w
             /\ UNCHANGED error
       \/ /\ EAGAIN
          /\ wpc' = [wpc EXCEPT ![w] = "add"]
          /\ UNCHANGED <<rest, lock, error, wireVars>>
       \/ /\ Fails
          /\ error' = TRUE
          /\ lock' = "none"
          /\ wpc' = [wpc EXCEPT ![w] = "close"]
          /\ UNCHANGED <<rest, wireVars>>
    /\ UNCHANGED <<lpc, stateVars, events, queueVars, timers, posted, connVars>>

\* hio_add(io, hio_handle_events, HV_WRITE): an hio that is not ready is made so.
WriterWatches(w) ==
    /\ wpc[w] = "add"
    /\ wpc' = [wpc EXCEPT ![w] = "enqueue"]
    /\ \/ /\ ready
          /\ events' = events \cup {"WRITE"}
          /\ UNCHANGED <<stateVars, error, write_bufsize>>
       \/ ~ready /\ hio_ready(FALSE, {"WRITE"})
    /\ UNCHANGED <<rest, lpc, lock, write_queue, timers, posted, wireVars, connVars>>

\* enqueue: the queue has a limit; the hio that reaches it is closed.
WriterEnqueues(w) ==
    /\ wpc[w] = "enqueue"
    /\ lock' = "none"
    /\ \/ /\ write_bufsize + rest[w] > MaxWriteBuf
          /\ error' = TRUE
          /\ wpc' = [wpc EXCEPT ![w] = "close"]
          /\ UNCHANGED <<queueVars, taken>>
       \/ /\ write_bufsize + rest[w] <= MaxWriteBuf
          /\ write_queue' = Append(write_queue, [m |-> w, left |-> rest[w]])
          /\ write_bufsize' = write_bufsize + rest[w]
          /\ taken' = IF rest[w] = MsgLen THEN Append(taken, w) ELSE taken
          /\ wpc' = [wpc EXCEPT ![w] = "written"]
          /\ UNCHANGED error
    /\ UNCHANGED <<rest, lpc, stateVars, events, timers, posted, room, out, connVars>>

\* The caller goes on to hio_close, or does not.
WriterReturns(w) ==
    /\ wpc[w] = "written"
    /\ wpc' = [wpc EXCEPT ![w] = "done"] \/ (~closed /\ wpc' = [wpc EXCEPT ![w] = "close"])
    /\ UNCHANGED <<rest, lpc, lock, stateVars, error, events, queueVars,
                   timers, posted, wireVars, connVars>>

\* hio_close_async.
WriterPostsClose(w) ==
    /\ wpc[w] = "close"
    /\ posted' = Append(posted, [id |-> id, conn |-> conn])
    /\ wpc' = [wpc EXCEPT ![w] = "done"]
    /\ UNCHANGED <<rest, lpc, lock, stateVars, error, events, queueVars,
                   timers, wireVars, connVars>>

Writer(w) == \/ WriterTests(w) \/ WriterLocks(w) \/ WriterTries(w)
             \/ WriterWatches(w) \/ WriterEnqueues(w) \/ WriterReturns(w)
             \/ WriterPostsClose(w)

-----------------------------------------------------------------------------
(* The loop thread: hio_handle_events, nio_read, nio_write, the close timer *)
(* and the hio_close events.                                                *)

Watched(ev) == lpc = "poll" /\ fd /\ ev \in events

\* Mutant: WRITE is deleted each time it fires.
LoopWritable_oneshot ==
    /\ Watched("WRITE")
    /\ room > 0 \/ peer = "reset"
    /\ lock = "none"
    /\ events' = events \ {"WRITE"}
    /\ lpc' = "nio_write"
    /\ UNCHANGED <<writerVars, lock, stateVars, error, queueVars, timers, posted,
                   wireVars, connVars>>

\* hio_handle_events: WRITE is deleted if the queue is empty; write_mutex is
\* released before nio_write takes it again.
LoopWritable ==
    /\ Watched("WRITE")
    /\ room > 0 \/ peer = "reset"
    /\ lock = "none"
    /\ events' = IF write_queue = << >> THEN events \ {"WRITE"} ELSE events
    /\ lpc' = "nio_write"
    /\ UNCHANGED <<writerVars, lock, stateVars, error, queueVars, timers, posted,
                   wireVars, connVars>>

LoopLocks ==
    /\ lpc = "nio_write"
    /\ lock = "none"
    /\ lock' = "loop"
    /\ lpc' = "drain"
    /\ UNCHANGED <<writerVars, stateVars, error, events, queueVars, timers,
                   posted, wireVars, connVars>>

\* nio_write: the queue is empty, and a close may have waited for that.
LoopHasDrained ==
    /\ lpc = "drain"
    /\ write_queue = << >>
    /\ lock' = "none"
    /\ close' = FALSE
    /\ lpc' = IF close THEN "close" ELSE "poll"
    /\ UNCHANGED <<writerVars, id, ready, closed, close_cb, close_timer, error,
                   events, queueVars, timers, posted, wireVars, connVars>>

\* Mutant: write_bufsize counts what was ever queued.
LoopDrains_uncounted ==
    /\ lpc = "drain"
    /\ write_queue # << >>
    /\ \E n \in CanWrite(Head(write_queue).left) :
          /\ Write(Head(write_queue).m, n)
          /\ write_queue' = IF n = Head(write_queue).left THEN Tail(write_queue)
                            ELSE [write_queue EXCEPT ![1].left = @ - n]
          /\ IF n = Head(write_queue).left THEN UNCHANGED <<lock, lpc>>
                                           ELSE lock' = "none" /\ lpc' = "poll"
    /\ UNCHANGED <<writerVars, stateVars, error, events, write_bufsize, timers,
                   posted, taken, connVars>>

\* nio_write, one turn: it goes on as long as the socket takes whole entries.
LoopDrains ==
    /\ lpc = "drain"
    /\ write_queue # << >>
    /\ \E n \in CanWrite(Head(write_queue).left) :
          /\ Write(Head(write_queue).m, n)
          /\ write_bufsize' = write_bufsize - n
          /\ write_queue' = IF n = Head(write_queue).left THEN Tail(write_queue)
                            ELSE [write_queue EXCEPT ![1].left = @ - n]
          /\ IF n = Head(write_queue).left THEN UNCHANGED <<lock, lpc>>
                                           ELSE lock' = "none" /\ lpc' = "poll"
    /\ UNCHANGED <<writerVars, stateVars, error, events, timers, posted, taken, connVars>>

LoopCannotDrain ==
    /\ lpc = "drain"
    /\ write_queue # << >>
    /\ lock' = "none"
    /\ \/ EAGAIN /\ lpc' = "poll" /\ UNCHANGED error
       \/ Fails /\ lpc' = "close" /\ error' = TRUE
    /\ UNCHANGED <<writerVars, stateVars, events, queueVars, timers, posted,
                   wireVars, connVars>>

\* nio_read: disconnect, or read_error.
LoopReadEnds ==
    /\ Watched("READ")
    /\ peer # "alive"
    /\ error' = (error \/ peer = "reset")
    /\ asked' = asked + 1
    /\ lpc' = "close"
    /\ UNCHANGED <<writerVars, lock, stateVars, events, queueVars, timers, posted,
                   wireVars, fd, peer, conn, reported>>

\* Mutant: the event closes whatever uses the hio.
LoopTakesClose_any ==
    /\ lpc = "poll" /\ lpc' = "close"
    /\ posted # << >> /\ posted' = Tail(posted)
    /\ asked' = asked + 1
    /\ UNCHANGED <<writerVars, lock, stateVars, error, events, queueVars, timers,
                   wireVars, fd, peer, conn, reported>>

\* hio_close_event_cb: an event that another connection's close has left is not
\* obeyed.
LoopTakesClose ==
    /\ lpc = "poll"
    /\ posted # << >>
    /\ posted' = Tail(posted)
    /\ IF Head(posted).id = id THEN lpc' = "close" /\ asked' = asked + 1
                            ELSE UNCHANGED <<lpc, asked>>
    /\ UNCHANGED <<writerVars, lock, stateVars, error, events, queueVars, timers,
                   wireVars, fd, peer, conn, reported>>

LoopCloseTimeout ==
    /\ lpc = "poll"
    /\ \E t \in timers : timers' = timers \ {t}
    /\ error' = TRUE
    /\ lpc' = "close"
    /\ UNCHANGED <<writerVars, lock, stateVars, events, queueVars, posted,
                   wireVars, connVars>>

-----------------------------------------------------------------------------
(* hio_close in the loop thread.                                            *)

\* Mutant: a close waits for nobody.
MustWait_not == FALSE

MustWait == write_queue # << >> /\ ~error /\ ~close

LoopIsClosed ==
    /\ lpc = "close"
    /\ closed
    /\ lpc' = "poll"
    /\ UNCHANGED <<writerVars, lock, stateVars, error, events, queueVars, timers,
                   posted, wireVars, connVars>>

\* Mutant: no time limit.
LoopClosesLater_untimed ==
    /\ lpc = "close"
    /\ ~closed /\ lock = "none" /\ MustWait
    /\ close' = TRUE
    /\ lpc' = "poll"
    /\ UNCHANGED <<writerVars, lock, id, ready, closed, close_cb, close_timer, error,
                   events, queueVars, timers, posted, wireVars, connVars>>

\* write_queue not empty, close later: a timer that io->close_timer may already
\* have pointed to is forgotten, and goes on.
LoopClosesLater ==
    /\ lpc = "close"
    /\ ~closed /\ lock = "none" /\ MustWait
    /\ close' = TRUE
    /\ \E t \in 1 .. Cardinality(timers) + 1 :
          t \notin timers /\ timers' = timers \cup {t} /\ close_timer' = t
    /\ lpc' = "poll"
    /\ UNCHANGED <<writerVars, lock, id, ready, closed, close_cb, error, events,
                   queueVars, posted, wireVars, connVars>>

LoopCloses ==
    /\ lpc = "close"
    /\ ~closed /\ lock = "none" /\ ~MustWait
    /\ LateWriters \/ \A w \in Writers : wpc[w] # "lock"
    /\ closed' = TRUE
    /\ lpc' = "done"
    /\ UNCHANGED <<writerVars, lock, id, ready, close, close_cb, close_timer, error,
                   events, queueVars, timers, posted, wireVars, connVars>>

\* hio_done, in two steps because only the second takes write_mutex.
LoopIsDone ==
    /\ lpc = "done"
    /\ ready' = FALSE
    /\ events' = {}
    /\ lpc' = "clear"
    /\ UNCHANGED <<writerVars, lock, id, closed, close, close_cb, close_timer, error,
                   queueVars, timers, posted, wireVars, connVars>>

LoopClears ==
    /\ lpc = "clear"
    /\ lock = "none"
    /\ write_queue' = << >>
    /\ lpc' = "close_cb"
    /\ UNCHANGED <<writerVars, lock, stateVars, error, events, write_bufsize, timers,
                   posted, wireVars, connVars>>

\* Mutant: a connection that failed is not reported.
LoopCallsBack_unless_error ==
    /\ lpc = "close_cb"
    /\ timers' = timers \ {close_timer}
    /\ close_timer' = 0
    /\ closed' = TRUE
    /\ reported' = (close_cb /\ ~error)
    /\ lpc' = "closesocket"
    /\ UNCHANGED <<writerVars, lock, id, ready, close, close_cb, error, events,
                   queueVars, posted, wireVars, fd, peer, conn, asked>>

\* __close_cb: the timer that close_timer points to is deleted; hio_close_cb.
LoopCallsBack ==
    /\ lpc = "close_cb"
    /\ timers' = timers \ {close_timer}
    /\ close_timer' = 0
    /\ closed' = TRUE
    /\ reported' = close_cb
    /\ lpc' = "closesocket"
    /\ UNCHANGED <<writerVars, lock, id, ready, close, close_cb, error, events,
                   queueVars, posted, wireVars, fd, peer, conn, asked>>

LoopClosesSocket ==
    /\ lpc = "closesocket"
    /\ fd' = FALSE
    /\ lpc' = "poll"
    /\ UNCHANGED <<writerVars, lock, stateVars, error, events, queueVars, timers,
                   posted, wireVars, peer, conn, asked, reported>>

\* The descriptor is used again: hio_get makes the hio ready unless it is, and
\* the new owner sets its callback and reads.  How it connects is left out.
LoopReopens ==
    /\ lpc = "poll"
    /\ ~fd /\ conn < MaxConn
    /\ \/ ~ready /\ hio_ready(TRUE, {"READ"})
       \/ /\ ready
          /\ close_cb' = TRUE
          /\ events' = events \cup {"READ"}
          /\ UNCHANGED <<id, ready, closed, close, close_timer, error, write_bufsize>>
    /\ fd' = TRUE /\ peer' = "alive" /\ room' = Room
    /\ conn' = conn + 1
    /\ taken' = << >> /\ out' = << >> /\ asked' = 0 /\ reported' = FALSE
    /\ UNCHANGED <<writerVars, lpc, lock, write_queue, timers, posted>>

Loop == \/ LoopWritable \/ LoopLocks \/ LoopHasDrained \/ LoopDrains
        \/ LoopCannotDrain \/ LoopReadEnds \/ LoopTakesClose
        \/ LoopCloseTimeout \/ LoopIsClosed \/ LoopClosesLater \/ LoopCloses
        \/ LoopIsDone \/ LoopClears \/ LoopCallsBack \/ LoopClosesSocket
        \/ LoopReopens

-----------------------------------------------------------------------------
(* The peer: it reads, hangs up, or resets the connection.                  *)

PeerReads ==
    /\ fd /\ peer # "reset"
    /\ room < Room
    /\ room' = room + 1
    /\ UNCHANGED <<writerVars, lpc, lock, stateVars, error, events, queueVars,
                   timers, posted, out, taken, connVars>>

PeerEnds ==
    /\ fd
    /\ \/ peer = "alive" /\ peer' \in {"eof", "reset"}
       \/ peer = "eof" /\ peer' = "reset"
    /\ UNCHANGED <<writerVars, lpc, lock, stateVars, error, events, queueVars,
                   timers, posted, wireVars, fd, conn, asked, reported>>

\* A connection in use: earlier messages may fill the socket's buffer.
Init ==
    /\ wpc = [w \in Writers |-> "test"] /\ rest = [w \in Writers |-> MsgLen]
    /\ lpc = "poll" /\ lock = "none"
    /\ id = 1 /\ ready = TRUE /\ closed = FALSE /\ close = FALSE /\ error = FALSE
    /\ events = {"READ"} /\ write_queue = << >> /\ write_bufsize = 0
    /\ close_cb = TRUE /\ close_timer = 0 /\ timers = {} /\ posted = << >>
    /\ fd = TRUE /\ room \in 0 .. Room /\ peer = "alive"
    /\ conn = 1 /\ taken = << >> /\ out = << >> /\ asked = 0 /\ reported = FALSE

Next == Loop \/ PeerReads \/ PeerEnds \/ \E w \in Writers : Writer(w)

Spec == Init /\ [][Next]_vars

\* The threads are scheduled, so that each gets the mutex in the end (none takes
\* it for ever), and close timers fire.  The peer promises nothing.
LiveSpec == Spec /\ WF_vars(Loop) /\ \A w \in Writers : WF_vars(Writer(w))

-----------------------------------------------------------------------------
Threads == Writers \cup {"loop", "none"}

TypeOK ==
    /\ wpc \in [Writers -> {"test", "lock", "try", "add", "enqueue", "written",
                            "close", "done"}]
    /\ rest \in [Writers -> 0 .. MsgLen]
    /\ lpc \in {"poll", "nio_write", "drain", "close", "done", "clear", "close_cb",
                "closesocket"}
    /\ lock \in Threads
    /\ id \in Nat /\ conn \in 1 .. MaxConn
    /\ ready \in BOOLEAN /\ closed \in BOOLEAN /\ close \in BOOLEAN
    /\ error \in BOOLEAN /\ close_cb \in BOOLEAN /\ fd \in BOOLEAN
    /\ reported \in BOOLEAN
    /\ events \subseteq {"READ", "WRITE"}
    /\ write_queue \in Seq([m : Writers, left : 1 .. MsgLen])
    /\ write_bufsize \in 0 .. MaxWriteBuf
    /\ close_timer \in Nat /\ timers \subseteq Nat \ {0}
    /\ posted \in Seq([id : Nat, conn : 1 .. MaxConn])
    /\ room \in 0 .. Room /\ peer \in {"alive", "eof", "reset"}
    /\ taken \in Seq(Writers) /\ out \in Seq(Writers) /\ asked \in Nat

Queued[k \in 0 .. Len(write_queue)] ==
    IF k = 0 THEN 0 ELSE Queued[k - 1] + write_queue[k].left

\* hio_write_bufsize is the "current buffer size of write queue" whenever nobody
\* is at it, although three places write it and hio_done does not.
BufsizeExact ==
    lock = "none" /\ ~closed => write_bufsize = Queued[Len(write_queue)]

\* What the variables hold, and the count of the bytes in the write queue.
BuffersSound == TypeOK /\ BufsizeExact

\* Nobody adds WRITE to an hio whose queue is not empty: it is still there.
QueueWatched ==
    lock = "none" /\ write_queue # << >> /\ ~closed => "WRITE" \in events

\* hclose_cb is called before the descriptor is closed.
CloseReported == ~fd => reported

\* A connection carries whole messages in the order in which their writers got
\* the mutex, whatever part of them the socket takes at once.
Stream == INSTANCE ByteStream WITH Msgs <- Writers, wire <- out, open <- ~closed
WholeMessages == Stream!BSpec

\* The only close that was asked for, by caller or peer, waits until all messages
\* are sent, those included that are written while it waits.
OrderlyClose ==
    [][closed' /\ ~closed /\ ~error /\ asked = 1 => out = Stream!Bytes(taken)]_vars

\* A close event that waits in the loop's queue while the descriptor, and with it
\* the hio, passes to another connection does not close that one.
OwnClosesOnly ==
    [][posted # << >> /\ posted' = Tail(posted) /\ lpc' = "close"
        => Head(posted).conn = conn]_vars

\* A close that waits for the queue ends, also if the peer never reads again.
LateCloseEnds == close ~> closed
=============================================================================
