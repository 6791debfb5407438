-------------------------- MODULE WebSocketClient ---------------------------
(***************************************************************************)
(* The example program and the WebSocket client it is built on:            *)
(*                                                                         *)
(*   main thread   connect, subscribe (NumSubs times), sleep, destructors  *)
(*                 (src/ClientExample.cpp);                                *)
(*   loop thread   connect, TLS, onConnection, onMessage, heartbeat,       *)
(*                 close, redirect, posted functors, cleanup               *)
(*                 (WebSocketClient.cpp, TcpClient.h, Channel.h, nio.c);   *)
(*   server        accepts, refuses or redirects, sends frames, hangs up.  *)
(*                                                                         *)
(* A connection is a generation g: the hio_t of one socket together with   *)
(* the Channel object built on it.  A redirect opens generation g + 1.     *)
(* A write goes to the socket or, when the socket takes nothing, to the    *)
(* hio's write queue; hio_write is one step here.                          *)
(***************************************************************************)
EXTENDS Integers, Sequences

CONSTANTS NumSubs,     \* calls of subscribe in main
          MaxChan,     \* bound: connections (1 + redirects followed)
          InCap,       \* bound: items the server has in flight to the client
          Frames,      \* the kinds of frame the server sends
          LateFrames   \* may the server send frames behind its CLOSE frame?

ASSUME ClientAssumption ==
    /\ NumSubs \in Nat \ {0}
    /\ MaxChan \in Nat \ {0}
    /\ InCap \in Nat \ {0}
    /\ Frames \subseteq {"text", "ping", "pong", "close"}
    /\ LateFrames \in BOOLEAN

Gen == 1 .. MaxChan

Refusal  == {"garbage", "refused", "badkey"}  \* responses answered by a close
Response == Refusal \cup {"accept", "redirect"}

UPGRADE == -1   \* data: the upgrade request, or a subscription by its id

\* What is written, and what a write queue holds: data items in order, and
\* whether there are PING or PONG frames among them.
Data(x) == [data |-> <<x>>, control |-> FALSE]
Control == [data |-> << >>, control |-> TRUE]
Nothing == [data |-> << >>, control |-> FALSE]

PingCap == 4    \* ping_cnt beyond 3: the heartbeat tells no such values apart

VARIABLES
    pc,          \* main: where it is
    req,         \* main: m_request_id
    held,        \* main: the Channel that WebSocketClient::send dereferenced
    channel,     \* client: the current generation, 0 for NULL
    state,       \* client: State
    ping_cnt,    \* client: ping_cnt
    status,      \* per Channel: Channel::Status
    alive,       \* per Channel: not yet destroyed
    notify,      \* per Channel: onclose is set
    io,          \* per hio: phase of the socket
    closing,     \* per hio: io->close, a close waiting for the write queue
    heartbeat,   \* per hio: the heartbeat timer is running
    wq,          \* per hio: write_queue
    out,         \* per hio: the data that the socket took
    inq,         \* per hio: what the server sent and the loop has not read
    eof,         \* per hio: the server hung up
    srv,         \* per hio: what the server does with the connection
    loop,        \* loop thread: off, running, stopping, cleanup, stopped
    lpc,         \* loop thread: the callback it is in
    cur,         \* loop thread: the generation that callback is about
    chunk,       \* loop thread: the part of the read buffer not yet handled
    posted,      \* functors and events posted to the loop
    lastcb,      \* ghost: the application callback invoked last
    unanswered   \* ghost: PINGs written since the last PONG was handled

mainVars == <<pc, req, held>>
wireVars == <<inq, eof, srv>>
hioVars  == <<status, io, closing, heartbeat, wq, state, lastcb>>
loopVars == <<loop, lpc, cur, chunk>>
vars == <<mainVars, wireVars, hioVars, loopVars, channel, ping_cnt, alive,
          notify, out, posted, unanswered>>

-----------------------------------------------------------------------------
(* Channel.h: the queries.                                                  *)

openIo == {"idle", "connecting", "tls", "up"}

isOpened(g) == status[g] \notin {"NULL", "CLOSED"} /\ io[g] \in openIo

\* Mutant: any open channel counts as connected.
isConnected_when_opened == channel # 0 /\ isOpened(channel)

isConnected == channel # 0 /\ status[channel] = "CONNECTED" /\ isOpened(channel)

PostedClose(g) == <<"hio_close", g>>

\* hio_write to a full write queue or a broken socket sets io->error and posts
\* hio_close_async; so does a connect() that fails.
CloseIsPosted(g) == \E i \in DOMAIN posted : posted[i] = PostedClose(g)

\* Channel::on_close; the client's onConnection reports the end.
\* Mutants: only an upgraded connection is reported; the state is not reset.
on_close_when_upgraded(g) ==
    /\ status' = [status EXCEPT ![g] = "CLOSED"]
    /\ state' = IF notify[g] THEN "WS_CLOSED" ELSE state
    /\ lastcb' = IF notify[g] /\ state = "WS_OPENED" THEN "onclose" ELSE lastcb

on_close(g) ==
    /\ status' = [status EXCEPT ![g] = "CLOSED"]
    /\ state' = IF notify[g] THEN "WS_CLOSED" ELSE state
    /\ lastcb' = IF notify[g] THEN "onclose" ELSE lastcb

\* Mutant: __close_cb forgets the heartbeat timer.
close_timers_but_heartbeat(g) ==
    closing' = [closing EXCEPT ![g] = FALSE] /\ UNCHANGED heartbeat

close_timers(g) ==
    /\ closing' = [closing EXCEPT ![g] = FALSE]
    /\ heartbeat' = [heartbeat EXCEPT ![g] = FALSE]

(* The rest of hio_close: hio_done drops the write queue, __close_cb. *)
CloseNow(g) ==
    /\ io' = [io EXCEPT ![g] = "closed"]
    /\ wq' = [wq EXCEPT ![g] = Nothing]
    /\ close_timers(g)
    /\ on_close(g)


\* hio_close when the write queue is empty, io->error is set, or it is called
\* again after it was put off.
ClosesAtOnce(g) == wq[g] = Nothing \/ CloseIsPosted(g) \/ closing[g]

\* Otherwise io->close = 1, and a timer.
CloseLater(g) ==
    /\ closing' = [closing EXCEPT ![g] = TRUE]
    /\ UNCHANGED <<io, heartbeat, wq, state, lastcb>>

\* hio_close without an error, as called when the peer hangs up.
hio_close(g) ==
    IF ClosesAtOnce(g) THEN CloseNow(g) ELSE CloseLater(g) /\ UNCHANGED status

\* Channel::close, in the loop thread.
ChannelClose(g) ==
    IF ~isOpened(g) THEN UNCHANGED hioVars
    ELSE IF ClosesAtOnce(g) THEN CloseNow(g)
    ELSE CloseLater(g) /\ status' = [status EXCEPT ![g] = "CLOSED"]

\* A second event would find the hio closed: at most one is kept per hio.
WriteFails(g) ==
    /\ ~CloseIsPosted(g)
    /\ posted' = Append(posted, PostedClose(g))
    /\ UNCHANGED <<out, wq>>

\* What the socket takes becomes visible to the server.
ToSocket(g, item) == out' = [out EXCEPT ![g] = @ \o item.data]

Enqueue(g, item) ==
    wq' = [wq EXCEPT ![g] = [data |-> @.data \o item.data,
                             control |-> @.control \/ item.control]]

\* hio_write(io, item) of an hio that is up.
\* Mutant: it does not look at the write queue first.
Written_past_queue(g, item) ==
    \/ ToSocket(g, item) /\ UNCHANGED <<wq, posted>>
    \/ Enqueue(g, item) /\ UNCHANGED <<out, posted>>

Written(g, item) ==
    \/ wq[g] = Nothing /\ ToSocket(g, item) /\ UNCHANGED <<wq, posted>>
    \/ Enqueue(g, item) /\ UNCHANGED <<out, posted>>

hio_write(g, item) ==
    \/ io[g] = "up" /\ (Written(g, item) \/ WriteFails(g))
    \/ io[g] # "up" /\ UNCHANGED <<out, wq, posted>>

-----------------------------------------------------------------------------
(* The main thread.                                                         *)

\* WSClient::connect, open() on a client without a channel, and start().
MainConnect ==
    /\ pc = "connect"
    /\ pc' = "wait"
    /\ \/ /\ state' = "WS_CLOSED"           \* createsocket failed; open's -1 is ignored
          /\ UNCHANGED <<channel, status, alive, io, loop, posted>>
       \/ /\ channel' = 1
          /\ status' = [status EXCEPT ![1] = "OPENED"]
          /\ alive' = [alive EXCEPT ![1] = TRUE]
          /\ io' = [io EXCEPT ![1] = "idle"]
          /\ state' = "CONNECTING"
          /\ loop' = "running"
          /\ posted' = << <<"startConnect", 1>> >>
    /\ UNCHANGED <<req, held, wireVars, closing, heartbeat, wq, lastcb, lpc,
                   cur, chunk, ping_cnt, notify, out, unanswered>>

\* subscribe's `while(!isConnected())' loop ends.
MainSeesConnected ==
    /\ pc = "wait"
    /\ isConnected
    /\ pc' = "send"
    /\ UNCHANGED <<req, held, wireVars, hioVars, loopVars, channel, ping_cnt,
                   alive, notify, out, posted, unanswered>>

\* Its body: sleep and look again.
MainSleepsInLoop ==
    /\ pc = "wait"
    /\ ~isConnected
    /\ UNCHANGED vars

\* Mutant: main subscribes once too often.
SubscribeReturns_once_more ==
    /\ req' = req + 1
    /\ pc' = IF req = NumSubs THEN "sleep" ELSE "wait"
    /\ held' = 0

\* ++m_request_id, whatever send returned; main's next statement follows.
SubscribeReturns ==
    /\ req' = req + 1
    /\ pc' = IF req + 1 = NumSubs THEN "sleep" ELSE "wait"
    /\ held' = 0

\* WebSocketClient::send up to Channel::write's isOpened test.
MainSend ==
    /\ pc = "send"
    /\ \/ /\ isOpened(channel)
          /\ pc' = "write"
          /\ held' = channel
          /\ UNCHANGED req
       \/ ~isOpened(channel) /\ SubscribeReturns
    /\ UNCHANGED <<wireVars, hioVars, loopVars, channel, ping_cnt, alive,
                   notify, out, posted, unanswered>>

\* The rest of send: hio_write of the frame on the channel that was tested.
MainWrite ==
    /\ pc = "write"
    /\ hio_write(held, Data(req))
    /\ SubscribeReturns
    /\ UNCHANGED <<wireVars, status, io, closing, heartbeat, state, lastcb,
                   loopVars, channel, ping_cnt, alive, notify, unanswered>>

\* The long sleep is over and ~WSClient runs: close() if connected.
MainDestroy ==
    /\ pc = "sleep"
    /\ pc' = "stop"
    /\ IF isConnected
       THEN /\ posted' = Append(posted, <<"closesocket", 0>>)
            /\ state' = "WS_CLOSED"
       ELSE UNCHANGED <<posted, state>>
    /\ UNCHANGED <<req, held, wireVars, status, io, closing, heartbeat, wq,
                   lastcb, loopVars, channel, ping_cnt, alive, notify, out, unanswered>>


EventLoopStop == loop' = "stopping"

\* ~WebSocketClient: TcpClientTmpl::stop posts closesocket and stops the loop.
MainStop ==
    /\ pc = "stop"
    /\ pc' = IF loop = "off" THEN "exited" ELSE "join"
    /\ IF loop = "running"
       THEN /\ posted' = Append(posted, <<"closesocket", 0>>)
            /\ EventLoopStop
       ELSE UNCHANGED <<posted, loop>>
    /\ UNCHANGED <<req, held, wireVars, hioVars, lpc, cur, chunk, channel,
                   ping_cnt, alive, notify, out, unanswered>>

\* stop(true) returns once the loop thread has stopped; the members die.
MainJoin ==
    /\ pc = "join"
    /\ loop = "stopped"
    /\ pc' = "exited"
    /\ UNCHANGED <<req, held, wireVars, hioVars, loopVars, channel, ping_cnt,
                   alive, notify, out, posted, unanswered>>

Main == \/ MainConnect \/ MainSeesConnected \/ MainSleepsInLoop \/ MainSend
        \/ MainWrite \/ MainDestroy \/ MainStop \/ MainJoin

-----------------------------------------------------------------------------
(* The loop thread.  Every callback runs to its end before the next event   *)
(* is taken up; lpc marks the points at which the main thread can see or    *)
(* change what the callback works on.                                       *)

LoopFree == loop \in {"running", "stopping"} /\ lpc = "idle"

\* The custom event at the head of the queue is of this kind.
TakePosted(what) ==
    /\ LoopFree
    /\ posted # << >>
    /\ Head(posted)[1] = what

\* EventLoopThread's pre functor, TcpClient's startConnect: hio_connect is in
\* progress, or connect() failed at once and startConnect's error stops the loop.
LoopStartConnect ==
    /\ TakePosted("startConnect")
    /\ status' = [status EXCEPT ![1] = "CONNECTING"]
    /\ notify' = [notify EXCEPT ![1] = TRUE]
    /\ \/ /\ io' = [io EXCEPT ![1] = "connecting"]
          /\ posted' = Tail(posted)
          /\ UNCHANGED loop
       \/ /\ posted' = Append(Tail(posted), PostedClose(1))
          /\ loop' = "stopping"
          /\ UNCHANGED io
    /\ UNCHANGED <<mainVars, wireVars, closing, heartbeat, wq, state, lastcb,
                   lpc, cur, chunk, channel, ping_cnt, alive, out, unanswered>>

\* nio_connect: the socket is connected, the TLS handshake begins.
LoopTcpConnected(g) ==
    /\ LoopFree
    /\ io[g] = "connecting"
    /\ io' = [io EXCEPT ![g] = "tls"]
    /\ UNCHANGED <<mainVars, wireVars, status, closing, heartbeat, wq, state,
                   lastcb, loopVars, channel, ping_cnt, alive, notify, out,
                   posted, unanswered>>

\* ssl_client_handshake is done: on_connect publishes CONNECTED and calls onconnect.
LoopHandshakeDone(g) ==
    /\ LoopFree
    /\ io[g] = "tls"
    /\ io' = [io EXCEPT ![g] = "up"]
    /\ status' = [status EXCEPT ![g] = "CONNECTED"]
    /\ lpc' = "onConnection"
    /\ cur' = g
    /\ UNCHANGED <<mainVars, wireVars, closing, heartbeat, wq, state, lastcb,
                   loop, chunk, channel, ping_cnt, alive, notify, out, posted,
                   unanswered>>

\* A connect error, a failed TLS handshake or the connect timer.
LoopConnectFails(g) ==
    /\ LoopFree
    /\ io[g] \in {"connecting", "tls"}
    /\ CloseNow(g)
    /\ UNCHANGED <<mainVars, wireVars, loopVars, channel, ping_cnt, alive,
                   notify, out, posted, unanswered>>

\* The client's onConnection: write the upgrade request, prepare the parser.
LoopOnConnection ==
    /\ lpc = "onConnection"
    /\ lpc' = "idle"
    /\ hio_write(cur, Data(UPGRADE))
    /\ state' = "WS_UPGRADING"
    /\ UNCHANGED <<mainVars, wireVars, status, io, closing, heartbeat, lastcb,
                   loop, cur, chunk, channel, ping_cnt, alive, notify,
                   unanswered>>

\* nio_read: some of what the server sent goes to onMessage as one buffer.
LoopRead(g) ==
    /\ LoopFree
    /\ io[g] = "up"
    /\ alive[g]                  \* otherwise on_read uses a destroyed Channel
    /\ \E n \in 1 .. Len(inq[g]) :
          /\ chunk' = SubSeq(inq[g], 1, n)
          /\ inq' = [inq EXCEPT ![g] = SubSeq(@, n + 1, Len(@))]
    /\ lpc' = "onMessage"
    /\ cur' = g
    /\ UNCHANGED <<mainVars, eof, srv, hioVars, loop, channel, ping_cnt, alive,
                   notify, out, posted, unanswered>>

\* Mutant: nio_read takes 0 for "nothing yet".
LoopHangup_unseen(g) ==
    /\ LoopFree
    /\ io[g] = "up" /\ inq[g] = << >> /\ eof[g]
    /\ UNCHANGED vars

\* nio_read returns 0: the server hung up.
LoopHangup(g) ==
    /\ LoopFree
    /\ io[g] = "up"
    /\ inq[g] = << >>
    /\ eof[g]
    /\ hio_close(g)
    /\ UNCHANGED <<mainVars, wireVars, loopVars, channel, ping_cnt, alive,
                   notify, out, posted, unanswered>>

\* nio_read or nio_write fails.
LoopIoError(g) ==
    /\ LoopFree
    /\ io[g] = "up"
    /\ CloseNow(g)
    /\ UNCHANGED <<mainVars, wireVars, loopVars, channel, ping_cnt, alive,
                   notify, out, posted, unanswered>>

\* nio_write empties the write queue, then carries out a close that waited for it.
LoopDrain(g) ==
    /\ LoopFree
    /\ io[g] = "up"
    /\ wq[g] # Nothing
    /\ ToSocket(g, wq[g])
    /\ IF closing[g]
       THEN CloseNow(g)
       ELSE /\ wq' = [wq EXCEPT ![g] = Nothing]
            /\ UNCHANGED <<status, io, closing, heartbeat, state, lastcb>>
    /\ UNCHANGED <<mainVars, wireVars, loopVars, channel, ping_cnt, alive,
                   notify, posted, unanswered>>

\* __close_timeout_cb: a close has waited too long.
LoopCloseTimeout(g) ==
    /\ LoopFree
    /\ closing[g]
    /\ CloseNow(g)
    /\ UNCHANGED <<mainVars, wireVars, loopVars, channel, ping_cnt, alive,
                   notify, out, posted, unanswered>>

\* hio_close_event_cb, posted by a write that failed.
LoopPostedClose ==
    /\ TakePosted("hio_close")
    /\ LET g == Head(posted)[2]
       IN  IF io[g] \in openIo THEN CloseNow(g) ELSE UNCHANGED hioVars
    /\ posted' = Tail(posted)
    /\ UNCHANGED <<mainVars, wireVars, loopVars, channel, ping_cnt, alive,
                   notify, out, unanswered>>

\* closesocket's functor.
LoopPostedClosesocket ==
    /\ TakePosted("closesocket")
    /\ ChannelClose(channel)
    /\ posted' = Tail(posted)
    /\ UNCHANGED <<mainVars, wireVars, loopVars, channel, ping_cnt, alive,
                   notify, out, unanswered>>

-----------------------------------------------------------------------------
(* onMessage: the HTTP response to the upgrade request, then frames.  The   *)
(* callbacks of WebSocketParser all return 0, so its execute consumes every *)
(* buffer to the end and onMessage's "websocket parse error!" has no step.  *)

ReturnToLoop == lpc' = "idle" /\ chunk' = << >> /\ UNCHANGED <<loop, cur>>

InUpgrade(items) ==
    /\ lpc = "onMessage"
    /\ state = "WS_UPGRADING"
    /\ Head(chunk) \in items

\* Parse error, status other than 101, or a wrong Sec-WebSocket-Accept.
LoopUpgradeRefused ==
    /\ InUpgrade(Refusal)
    /\ ChannelClose(channel)
    /\ ReturnToLoop
    /\ UNCHANGED <<mainVars, wireVars, channel, ping_cnt, alive, notify, out,
                   posted, unanswered>>

\* 101: the parser is replaced, the heartbeat set, onopen called.
LoopUpgraded ==
    /\ InUpgrade({"accept"})
    /\ state' = "WS_OPENED"
    /\ ping_cnt' = 0
    /\ unanswered' = 0
    /\ heartbeat' = [heartbeat EXCEPT ![channel] = TRUE]
    /\ lastcb' = "onopen"
    /\ chunk' = Tail(chunk)
    /\ lpc' = IF Tail(chunk) = << >> THEN "idle" ELSE "onMessage"
    /\ UNCHANGED <<mainVars, wireVars, status, io, closing, wq, loop, cur,
                   channel, alive, notify, out, posted>>

\* Mutant: channel->onclose stays set.
LoopRedirect_with_onclose ==
    /\ InUpgrade({"redirect"})
    /\ lpc' = "closeOld"
    /\ UNCHANGED <<mainVars, wireVars, hioVars, loop, cur, chunk, channel,
                   ping_cnt, alive, notify, out, posted, unanswered>>

\* 3xx with a Location: channel->onclose = NULL, then open(ws_url).
LoopRedirect ==
    /\ InUpgrade({"redirect"})
    /\ notify' = [notify EXCEPT ![channel] = FALSE]
    /\ lpc' = "closeOld"
    /\ UNCHANGED <<mainVars, wireVars, hioVars, loop, cur, chunk, channel,
                   ping_cnt, alive, out, posted, unanswered>>

\* Mutant: open without close().
LoopCloseOld_without_close ==
    /\ lpc = "closeOld"
    /\ lpc' = "reopen"
    /\ UNCHANGED <<hioVars, mainVars, wireVars, loop, cur, chunk, channel,
                   ping_cnt, alive, notify, out, posted, unanswered>>

\* open's close(): closesocket runs at once, unless EventLoop::stop has cut the
\* loop off (then its functor is dropped).
LoopCloseOld ==
    /\ lpc = "closeOld"
    /\ lpc' = "reopen"
    /\ IF loop = "running" THEN ChannelClose(channel) ELSE UNCHANGED hioVars
    /\ UNCHANGED <<mainVars, wireVars, loop, cur, chunk, channel, ping_cnt,
                   alive, notify, out, posted, unanswered>>

\* The rest of open when createsocket finds no address or no socket: its result
\* is ignored.
LoopReopenFails ==
    /\ lpc = "reopen"
    /\ ReturnToLoop
    /\ state' = "WS_CLOSED"
    /\ UNCHANGED <<mainVars, wireVars, status, io, closing, heartbeat, wq,
                   lastcb, channel, ping_cnt, alive, notify, out, posted,
                   unanswered>>

\* createsocket replaces the Channel, and start() runs startConnect at once.
LoopReopen ==
    /\ lpc = "reopen"
    /\ loop = "running"
    /\ channel < MaxChan
    /\ ReturnToLoop
    /\ channel' = channel + 1
    /\ alive' = [alive EXCEPT ![channel] = FALSE, ![channel + 1] = TRUE]
    /\ status' = [status EXCEPT ![channel + 1] = "CONNECTING"]
    /\ notify' = [notify EXCEPT ![channel + 1] = TRUE]
    /\ state' = "CONNECTING"
    /\ \/ /\ io' = [io EXCEPT ![channel + 1] = "connecting"]
          /\ UNCHANGED posted
       \/ /\ io' = [io EXCEPT ![channel + 1] = "idle"]
          /\ posted' = Append(posted, PostedClose(channel + 1))
    /\ UNCHANGED <<mainVars, wireVars, closing, heartbeat, wq, lastcb,
                   ping_cnt, out, unanswered>>

\* EventLoop::stop has set loop_ to NULL: createsocket's hio_get dereferences it.
LoopReopenCrashes ==
    /\ lpc = "reopen"
    /\ loop = "stopping"
    /\ channel < MaxChan
    /\ lpc' = "crashed"
    /\ pc' = "crashed"
    /\ UNCHANGED <<req, held, wireVars, hioVars, loop, cur, chunk, channel,
                   ping_cnt, alive, notify, out, posted, unanswered>>

\* A buffer in any other state than these two is dropped.
LoopDropBuffer ==
    /\ lpc = "onMessage"
    /\ state \notin {"WS_UPGRADING", "WS_OPENED"}
    /\ ReturnToLoop
    /\ UNCHANGED <<mainVars, wireVars, hioVars, channel, ping_cnt, alive,
                   notify, out, posted, unanswered>>

\* The state is tested once; then the parser goes through the whole buffer.
LoopFeedParser ==
    /\ lpc = "onMessage"
    /\ state = "WS_OPENED"
    /\ lpc' = "frames"
    /\ UNCHANGED <<mainVars, wireVars, hioVars, loop, cur, chunk, channel,
                   ping_cnt, alive, notify, out, posted, unanswered>>

NextFrame(f) ==
    /\ lpc = "frames"
    /\ Head(chunk) = f
    /\ chunk' = Tail(chunk)
    /\ lpc' = IF Tail(chunk) = << >> THEN "idle" ELSE "frames"
    /\ UNCHANGED <<loop, cur, mainVars, wireVars, channel, alive, notify>>

LoopOnText ==
    /\ NextFrame("text")
    /\ lastcb' = "onmessage"
    /\ UNCHANGED <<status, io, closing, heartbeat, wq, state, ping_cnt, out,
                   posted, unanswered>>

\* Channel::write of a control frame, by the loop thread.
WriteControl ==
    IF isOpened(channel) THEN hio_write(channel, Control)
                         ELSE UNCHANGED <<out, wq, posted>>

LoopOnPing ==
    /\ NextFrame("ping")
    /\ WriteControl
    /\ UNCHANGED <<status, io, closing, heartbeat, state, lastcb, ping_cnt,
                   unanswered>>

LoopOnPong ==
    /\ NextFrame("pong")
    /\ ping_cnt' = 0
    /\ unanswered' = 0
    /\ UNCHANGED <<hioVars, out, posted>>

LoopOnClose ==
    /\ NextFrame("close")
    /\ ChannelClose(channel)
    /\ UNCHANGED <<ping_cnt, out, posted, unanswered>>

\* Mutant: one tick later.
GivesUp_late == ping_cnt = 4

GivesUp == ping_cnt = 3

\* The heartbeat timer: give up at the fourth tick without a PONG, else PING.
LoopHeartbeat(g) ==
    /\ LoopFree
    /\ heartbeat[g]
    /\ ping_cnt' = IF ping_cnt < PingCap THEN ping_cnt + 1 ELSE PingCap
    /\ IF GivesUp
       THEN ChannelClose(channel) /\ UNCHANGED <<out, posted, unanswered>>
       ELSE /\ WriteControl
            /\ unanswered' = IF isOpened(channel) /\ UNCHANGED posted
                             THEN unanswered + 1 ELSE unanswered
            /\ UNCHANGED <<status, io, closing, heartbeat, state, lastcb>>
    /\ UNCHANGED <<mainVars, wireVars, loopVars, channel, alive, notify>>

-----------------------------------------------------------------------------
(* The end of the loop thread: hloop_run returns and hloop_cleanup frees    *)
(* every hio.                                                               *)

LoopLeaves ==
    /\ loop = "stopping"
    /\ lpc = "idle"
    /\ loop' = "cleanup"
    /\ UNCHANGED <<mainVars, wireVars, hioVars, lpc, cur, chunk, channel,
                   ping_cnt, alive, notify, out, posted, unanswered>>

\* hio_free: hio_close, and the memory is gone even if the close was put off.
LoopFreesIo(g) ==
    /\ loop = "cleanup"
    /\ io[g] \in openIo
    /\ IF ClosesAtOnce(g)
       THEN CloseNow(g)
       ELSE /\ io' = [io EXCEPT ![g] = "freed"]
            /\ heartbeat' = [heartbeat EXCEPT ![g] = FALSE]
            /\ UNCHANGED <<status, closing, wq, state, lastcb>>
    /\ UNCHANGED <<mainVars, wireVars, loopVars, channel, ping_cnt, alive,
                   notify, out, posted, unanswered>>

LoopStops ==
    /\ loop = "cleanup"
    /\ \A g \in Gen : io[g] \notin openIo
    /\ loop' = "stopped"
    /\ UNCHANGED <<mainVars, wireVars, hioVars, lpc, cur, chunk, channel,
                   ping_cnt, alive, notify, out, posted, unanswered>>

Callback == \/ LoopOnConnection \/ LoopUpgradeRefused \/ LoopUpgraded
            \/ LoopRedirect \/ LoopCloseOld \/ LoopReopenFails
            \/ LoopReopen \/ LoopReopenCrashes \/ LoopDropBuffer
            \/ LoopFeedParser \/ LoopOnText \/ LoopOnPing \/ LoopOnPong
            \/ LoopOnClose

Loop == \/ Callback
        \/ LoopStartConnect \/ LoopPostedClose \/ LoopPostedClosesocket
        \/ LoopLeaves \/ LoopStops
        \/ \E g \in Gen : \/ LoopTcpConnected(g) \/ LoopHandshakeDone(g)
                          \/ LoopConnectFails(g) \/ LoopRead(g)
                          \/ LoopHangup(g) \/ LoopIoError(g)
                          \/ LoopDrain(g) \/ LoopCloseTimeout(g)
                          \/ LoopHeartbeat(g)
                          \/ LoopFreesIo(g)

-----------------------------------------------------------------------------
(* The server, external: one HTTP response, then frames.  A connection that *)
(* does not begin with the upgrade request is answered as a bad request.    *)

ServerResponds(g) ==
    /\ io[g] = "up"
    /\ srv[g] = "new"
    /\ out[g] # << >>
    /\ \E r \in IF Head(out[g]) = UPGRADE THEN Response ELSE {"garbage"} :
          /\ inq' = [inq EXCEPT ![g] = Append(@, r)]
          /\ srv' = [srv EXCEPT ![g] = IF r = "accept" THEN "open" ELSE "done"]
    /\ UNCHANGED <<mainVars, eof, hioVars, loopVars, channel, ping_cnt, alive,
                   notify, out, posted, unanswered>>

ServerSends(g) ==
    /\ io[g] = "up"
    /\ srv[g] = "open"
    /\ Len(inq[g]) < InCap
    /\ \E f \in Frames :
          /\ inq' = [inq EXCEPT ![g] = Append(@, f)]
          /\ srv' = [srv EXCEPT ![g] = IF f = "close" /\ ~LateFrames THEN "done" ELSE @]
    /\ UNCHANGED <<mainVars, eof, hioVars, loopVars, channel, ping_cnt, alive,
                   notify, out, posted, unanswered>>

ServerHangsUp(g) ==
    /\ io[g] = "up"
    /\ ~eof[g]
    /\ eof' = [eof EXCEPT ![g] = TRUE]
    /\ srv' = [srv EXCEPT ![g] = "done"]
    /\ UNCHANGED <<mainVars, inq, hioVars, loopVars, channel, ping_cnt, alive,
                   notify, out, posted, unanswered>>

Server == \E g \in Gen : ServerResponds(g) \/ ServerSends(g) \/ ServerHangsUp(g)

-----------------------------------------------------------------------------
Init ==
    /\ pc = "connect" /\ req = 0 /\ held = 0
    /\ channel = 0 /\ state = "WS_CLOSED" /\ ping_cnt = 0
    /\ status = [g \in Gen |-> "NULL"]
    /\ alive = [g \in Gen |-> FALSE]
    /\ notify = [g \in Gen |-> FALSE]
    /\ io = [g \in Gen |-> "none"]
    /\ closing = [g \in Gen |-> FALSE]
    /\ heartbeat = [g \in Gen |-> FALSE]
    /\ wq = [g \in Gen |-> Nothing]
    /\ out = [g \in Gen |-> << >>]
    /\ inq = [g \in Gen |-> << >>]
    /\ eof = [g \in Gen |-> FALSE]
    /\ srv = [g \in Gen |-> "new"]
    /\ loop = "off" /\ lpc = "idle" /\ cur = 0 /\ chunk = << >>
    /\ posted = << >>
    /\ lastcb = "none" /\ unanswered = 0

\* The process has ended.
Exited == pc \in {"exited", "crashed"} /\ UNCHANGED vars

Next == Main \/ Loop \/ Server \/ Exited

Spec == Init /\ [][Next]_vars

(* The scheduler runs both threads.  A loop iteration serves timers, custom *)
(* events and the stop flag however many reads there are, hence SF.  main's *)
(* long sleep (MainDestroy), the network and the server are not fair.       *)
Fairness ==
    /\ WF_vars(MainConnect) /\ WF_vars(MainSeesConnected) /\ WF_vars(MainSend)
    /\ WF_vars(MainWrite) /\ WF_vars(MainStop) /\ WF_vars(MainJoin)
    /\ WF_vars(Callback) /\ WF_vars(LoopStops)
    /\ SF_vars(LoopPostedClose) /\ SF_vars(LoopPostedClosesocket)
    /\ SF_vars(LoopStartConnect) /\ SF_vars(LoopLeaves)
    /\ \A g \in Gen : /\ SF_vars(LoopHeartbeat(g))
                      /\ SF_vars(LoopCloseTimeout(g))
                      /\ SF_vars(LoopRead(g)) /\ SF_vars(LoopHangup(g))
                      /\ WF_vars(LoopFreesIo(g))

LiveSpec == Spec /\ Fairness

-----------------------------------------------------------------------------
Ids == 0 .. (NumSubs - 1)
Events == {<<"startConnect", 1>>, <<"closesocket", 0>>} \cup
          {PostedClose(g) : g \in Gen}

HttpAndFrames == Response \cup Frames

Items == [data : Seq(Ids \cup {UPGRADE}), control : BOOLEAN]

MainTypeOK ==
    /\ pc \in {"connect", "wait", "send", "write", "sleep", "stop", "join",
              "exited", "crashed"}
    /\ req \in 0 .. NumSubs
    /\ held \in 0 .. MaxChan

ClientTypeOK ==
    /\ channel \in 0 .. MaxChan
    /\ ping_cnt \in 0 .. PingCap
    /\ alive \in [Gen -> BOOLEAN]
    /\ notify \in [Gen -> BOOLEAN]
    /\ unanswered \in Nat

HioTypeOK ==
    /\ status \in [Gen -> {"NULL", "OPENED", "CONNECTING", "CONNECTED", "CLOSED"}]
    /\ io \in [Gen -> {"none", "closed", "freed"} \cup openIo]
    /\ closing \in [Gen -> BOOLEAN]
    /\ heartbeat \in [Gen -> BOOLEAN]
    /\ wq \in [Gen -> Items]
    /\ state \in {"CONNECTING", "WS_UPGRADING", "WS_OPENED", "WS_CLOSED"}
    /\ lastcb \in {"none", "onopen", "onmessage", "onclose"}

SentTypeOK ==
    /\ out \in [Gen -> Seq(Ids \cup {UPGRADE})]
    /\ posted \in Seq(Events)

WireTypeOK ==
    /\ inq \in [Gen -> Seq(HttpAndFrames)]
    /\ eof \in [Gen -> BOOLEAN]
    /\ srv \in [Gen -> {"new", "open", "done"}]

LoopTypeOK ==
    /\ loop \in {"off", "running", "stopping", "cleanup", "stopped"}
    /\ lpc \in {"idle", "onConnection", "onMessage", "closeOld", "reopen",
               "frames", "crashed"}
    /\ cur \in 0 .. MaxChan
    /\ chunk \in Seq(HttpAndFrames)

TypeOK == /\ MainTypeOK /\ ClientTypeOK /\ HioTypeOK
          /\ SentTypeOK /\ WireTypeOK /\ LoopTypeOK

\* The callbacks come in the order that the comment over WebSocketClient::open
\* gives, over all connections of the client: a redirected connection reports
\* nothing, and nothing follows onclose.
S == INSTANCE Session
CallbackOrder == S!SSpec

\* The heartbeat never has more than three PINGs unanswered: at the tick after
\* the third it closes the channel, and no later tick writes again although the
\* timer keeps running while the close waits for the write queue.
PingBudget == unanswered <= 3

\* What was written to a connection: taken by the socket, or queued.
Sent(g) == out[g] \o wq[g].data

\* m_request_id gives every subscription its own id: on each connection the ids
\* are in the order of the calls, and no id is used on two connections.
RequestOrder ==
    \A g, h \in Gen :
        \A i \in DOMAIN Sent(g), j \in DOMAIN Sent(h) :
            Sent(g)[i] # UPGRADE /\ Sent(h)[j] # UPGRADE =>
                /\ g = h /\ i < j => Sent(g)[i] < Sent(g)[j]
                /\ Sent(g)[i] = Sent(h)[j] => g = h /\ i = j

\* Some connection ended or is bound to: the only way to lose a subscription.
Failing(g) == \/ status[g] = "CLOSED"
              \/ closing[g]
              \/ io[g] \in {"closed", "freed"}
              \/ CloseIsPosted(g)

\* subscribe ignores what send returns, yet every subscription it counted was
\* written, unless a connection has failed.
LostOnlyWithConnection ==
    (\A g \in Gen : ~Failing(g)) =>
        \A id \in 0 .. (req - 1) : \E g \in Gen : \E i \in DOMAIN Sent(g) : Sent(g)[i] = id

\* A redirect leaves no second connection behind: an hio other than the current
\* channel's is closed, or waits for its write queue only.
OldConnectionsEnd == \A g \in Gen : g # channel /\ io[g] \in openIo => closing[g]

\* The application is told how things are: the end of a connection that reports
\* to it has been reported, and the WebSocket state, which main and the loop both
\* write, says opened only between onopen and onclose.
EndReported ==
    /\ \A g \in Gen : io[g] = "closed" /\ notify[g] => lastcb = "onclose"
    /\ state = "WS_OPENED" => lastcb \in {"onopen", "onmessage"}

\* The heartbeat timer lives no longer than the socket it pings on, and always
\* belongs to the current channel, which is the one its callback uses.
TimerOwner == \A g \in Gen : heartbeat[g] => g = channel /\ io[g] = "up" /\ alive[g]

\* A server that stops answering is noticed: the heartbeat does not run forever
\* without PONGs being handled forever.
SilentServerDropped ==
    <>[](\E g \in Gen : heartbeat[g]) => []<><<LoopOnPong>>_vars

\* When the server hangs up the hio is closed in the end, whatever the loop is
\* doing, and however many frames and queued writes are left.
HangupCloses == \A g \in Gen : eof[g] ~> io[g] \in {"closed", "freed"}

\* A connection whose server is gone, with or without a word, is given up.
DeadConnectionsEnd == SilentServerDropped /\ HangupCloses


-----------------------------------------------------------------------------
(* What the repository's comments say and this code does not keep.          *)

\* WebSocketClient.cpp, over open: TCP::onConnection => websocket_handshake
\* precedes everything else that is sent.
HandshakeFirst == \A g \in Gen : out[g] # << >> => Head(out[g]) = UPGRADE

\* Channel.h, in ~Channel: detach, so that a closing hio does not reach the
\* destroyed Channel through its context.
NoDanglingContext == \A g \in Gen : io[g] = "up" => alive[g]
=============================================================================
