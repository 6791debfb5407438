--------------------------- MODULE AsyncHttpClient --------------------------
(* hv::AsyncHttpClient: tasks, the connections they are sent on, the pools    *)
(* of idle connections, the timer of each attempt, retries and redirects.    *)
(* All of it but send runs in one loop thread, so a step is a handler: a     *)
(* queued functor, a timer, an event of a connection.  The server and the    *)
(* clock are the environment.                                                *)
EXTENDS Naturals, Sequences, FiniteSets

CONSTANTS
    Task, Limited,   \* requests, and those with a timeout
    Addr,            \* addresses
    MaxChan,         \* SocketChannels ever made
    MaxAttempt,      \* timers ever set
    RetryCounts,     \* HttpRequest.retry_count
    Wrap,            \* 2^32, the counter's range
    NoTask, NoTimer

ASSUME HttpAssumption ==
    /\ Limited \subseteq Task /\ NoTask \notin Task /\ NoTimer \notin Nat
    /\ RetryCounts \subseteq 0..Wrap - 1 /\ Wrap \in Nat \ {0, 1}
    /\ Addr # {} /\ MaxChan \in Nat /\ MaxAttempt \in Nat

VARIABLES
    given, expired,  \* tasks given to send; those whose timeout has passed
    target,         \* the address in HttpRequest.url
    retry_count,
    calls,          \* how often HttpClientTask.cb was called, up to 2
    hfunctors,      \* sendInLoop functors the loop has yet to run
    delayed,        \* how many setTimeouts of retry_delay wait for a task
    st,             \* per channel: "none", "connecting", "connected", "closing"
                    \* (hio_close waits for the write queue), "doomed" (a close
                    \* is posted) or "gone"
    peer,           \* its address
    backlog,        \* is part of the request still in the hio's write queue?
    unanswered,           \* tasks whose requests were written and not answered
    task, timerID,  \* HttpClientContext
    pools,          \* conn_pools
    htimers,        \* timers of attempts that are set: [id, chan, task]
    attempts        \* timers set so far

Chan == 1..MaxChan   \* by the order of their making; fds are used again
hvars == <<given, expired, target, retry_count, calls, hfunctors, delayed, st, peer,
           backlog, unanswered, task, timerID, pools, htimers, attempts>>
taskvars == <<given, expired, target>>

HInit ==
    /\ given = {} /\ expired = {}
    /\ target \in [Task -> Addr] /\ retry_count \in [Task -> RetryCounts]
    /\ calls = [t \in Task |-> 0] /\ delayed = [t \in Task |-> 0]
    /\ hfunctors = <<>> /\ htimers = {} /\ attempts = 0
    /\ st = [c \in Chan |-> "none"] 
    /\ peer = [c \in Chan |-> CHOOSE a \in Addr : TRUE]
    /\ backlog = [c \in Chan |-> FALSE] /\ unanswered = [c \in Chan |-> <<>>]
    /\ task = [c \in Chan |-> NoTask] /\ timerID = [c \in Chan |-> NoTimer]
    /\ pools = [a \in Addr |-> <<>>]

Called(S) == calls' = [t \in Task |-> IF t \in S /\ calls[t] < 2 THEN calls[t] + 1
                                                          ELSE calls[t]]
Decremented_signed(n) == n - 1
Decremented(n) == (n + Wrap - 1) % Wrap

Dropped_not(s, c) == s

Members(s) == {s[i] : i \in DOMAIN s}

(* ConnPool::remove: the first of its kind *)
Dropped(s, c) ==
    IF c \notin Members(s) THEN s
    ELSE LET i == CHOOSE i \in DOMAIN s : s[i] = c /\ \A j \in 1..i - 1 : s[j] # c
         IN  SubSeq(s, 1, i - 1) \o SubSeq(s, i + 1, Len(s))

-----------------------------------------------------------------------------
(* Sending. *)

(* send, from any thread *)
send(t) ==
    /\ t \notin given /\ given' = given \cup {t}
    /\ hfunctors' = Append(hfunctors, t)
    /\ UNCHANGED <<expired, target, retry_count, calls, delayed, st, peer, backlog,
                   unanswered, task, timerID, pools, htimers, attempts>>

Expire(t) ==
    /\ t \in (given \cap Limited) \ expired
    /\ expired' = expired \cup {t}
    /\ UNCHANGED <<given, target, retry_count, calls, hfunctors, delayed, st, peer,
                   backlog, unanswered, task, timerID, pools, htimers, attempts>>

TakesTask_untimed(c, t) ==
    /\ task' = [task EXCEPT ![c] = t] /\ UNCHANGED <<attempts, timerID, htimers>>

(* The context takes the task and its timer; the timer an earlier task may   *)
(* have left in timerID is forgotten, not killed.                            *)
TakesTask(c, t) ==
    /\ task' = [task EXCEPT ![c] = t]
    /\ IF t \in Limited
       THEN /\ attempts' = attempts + 1
            /\ timerID' = [timerID EXCEPT ![c] = attempts]
            /\ htimers' = htimers \cup {[id |-> attempts, chan |-> c, task |-> t]}
       ELSE UNCHANGED <<attempts, timerID, htimers>>

(* sendRequest: what does not go out at once waits in the write queue. *)
Writes(c, t) ==
    /\ unanswered' = [unanswered EXCEPT ![c] = Append(@, t)]
    /\ \E rest \in BOOLEAN : backlog' = [backlog EXCEPT ![c] = @ \/ rest]

(* doTask on an idle connection of the pool.  One that is on its way out     *)
(* since it was put there is not isConnected: startConnect fails on it and   *)
(* posts its close.                                                          *)
Reuses(c, t) ==
    /\ pools' = [pools EXCEPT ![target[t]] = Tail(@)]
    /\ TakesTask(c, t)
    /\ IF st[c] = "connected"
       THEN Writes(c, t) /\ UNCHANGED st
       ELSE st' = [st EXCEPT ![c] = "doomed"] /\ UNCHANGED <<unanswered, backlog>>
    /\ UNCHANGED <<calls, peer>>

(* doTask on a new connection *)
Connects(c, t) ==
    /\ st[c] = "none" /\ st' = [st EXCEPT ![c] = "connecting"]
    /\ \A d \in Chan : d < c => st[d] # "none"
    /\ peer' = [peer EXCEPT ![c] = target[t]]
    /\ TakesTask(c, t)
    /\ UNCHANGED <<calls, backlog, unanswered, pools>>

(* doTask fails: too late, no such host, no socket. *)
Fails(t) ==
    /\ Called({t})
    /\ UNCHANGED <<st, peer, backlog, unanswered, task, timerID, pools, htimers, attempts>>

(* sendInLoop and doTask *)
sendInLoop(t) ==
    /\ IF t \in expired THEN Fails(t)
       ELSE /\ attempts < MaxAttempt
            /\ \/ Fails(t)
               \/ IF pools[target[t]] = <<>>
                  THEN \E c \in Chan : Connects(c, t)
                  ELSE Reuses(Head(pools[target[t]]), t)
    /\ UNCHANGED <<taskvars, retry_count>>

RunsHttpFunctor ==
    /\ hfunctors # <<>> /\ hfunctors' = Tail(hfunctors)
    /\ sendInLoop(Head(hfunctors)) /\ UNCHANGED delayed

RetryIsDue(t) ==
    /\ delayed[t] > 0 /\ delayed' = [delayed EXCEPT ![t] = @ - 1]
    /\ sendInLoop(t) /\ UNCHANGED hfunctors

-----------------------------------------------------------------------------
(* The end of a connection, in the handler that brings it about.            *)

(* HttpClientContext holding t, when the fired timers are gone: without a    *)
(* task, that is after callback, its timer is killed too.                    *)
Holds(c, t, fired) ==
    /\ task' = [task EXCEPT ![c] = t]
    /\ htimers' = {r \in htimers \ fired : t # NoTask \/ r.id # timerID[c]}
    /\ timerID' = IF t = NoTask THEN [timerID EXCEPT ![c] = NoTimer] ELSE timerID

(* onclose while the context holds t and the functors are q: retry, at once  *)
(* or after retry_delay, or not; removeChannel, whose ~HttpClientContext     *)
(* kills the timer.                                                          *)
onclose(c, t, q, fired) ==
    /\ st' = [st EXCEPT ![c] = "gone"]
    /\ pools' = [pools EXCEPT ![peer[c]] = Dropped(@, c)]
    /\ Holds(c, NoTask, fired)
    /\ IF t = NoTask THEN hfunctors' = q /\ UNCHANGED <<retry_count, delayed>>
       ELSE /\ retry_count' = [retry_count EXCEPT ![t] = Decremented(@)]
            /\ IF retry_count[t] = 0 THEN hfunctors' = q /\ UNCHANGED delayed
               ELSE \/ hfunctors' = Append(q, t) /\ UNCHANGED delayed
                    \/ hfunctors' = q /\ delayed' = [delayed EXCEPT ![t] = @ + 1]

(* hio_close puts the end off while the request is being written. *)
PutOff(c) == st[c] = "closing" \/ (st[c] = "connected" /\ backlog[c])

(* Channel::close while the context holds t and the functors are q *)
close(c, t, q, fired) ==
    IF PutOff(c)
    THEN /\ st' = [st EXCEPT ![c] = "closing"] /\ Holds(c, t, fired) /\ hfunctors' = q
         /\ UNCHANGED <<pools, retry_count, delayed>>
    ELSE onclose(c, t, q, fired)

GivenUp_always(t) == {u \in Task : u = t}

(* Whom errorCallback calls when onclose finds the context holding t. *)
GivenUp(t) == {u \in Task : u = t /\ retry_count[u] = 0}

GivenUpByClose(c, t) == IF PutOff(c) THEN {} ELSE GivenUp(t)

(* The peer or the network ends it, or hio_close has waited long enough. *)
ConnectionEnds(c) ==
    /\ st[c] \notin {"none", "gone"}
    /\ onclose(c, task[c], hfunctors, {}) /\ Called(GivenUp(task[c]))
    /\ UNCHANGED <<taskvars, peer, backlog, unanswered, attempts>>

(* The timer of an attempt: its handler reads the channel and its task. *)
TimerFires(r) ==
    /\ r.task \in expired /\ st[r.chan] # "gone" /\ task[r.chan] # NoTask
    /\ close(r.chan, task[r.chan], hfunctors, {r})
    /\ Called(GivenUpByClose(r.chan, task[r.chan]))
    /\ UNCHANGED <<taskvars, peer, backlog, unanswered, attempts>>

-----------------------------------------------------------------------------
(* Events of a connection. *)

(* onconnect *)
Connected(c) ==
    /\ st[c] = "connecting" /\ st' = [st EXCEPT ![c] = "connected"]
    /\ Writes(c, task[c])
    /\ UNCHANGED <<taskvars, retry_count, calls, hfunctors, delayed, peer, task, timerID,
                   pools, htimers, attempts>>

(* The write queue is empty; a close that was put off is due. *)
Drained(c) ==
    /\ backlog[c] /\ st[c] \in {"connected", "closing"}
    /\ backlog' = [backlog EXCEPT ![c] = FALSE]
    /\ IF st[c] = "closing"
       THEN onclose(c, task[c], hfunctors, {}) /\ Called(GivenUp(task[c]))
       ELSE UNCHANGED <<st, pools, task, htimers, timerID, retry_count, hfunctors, delayed, calls>>
    /\ UNCHANGED <<taskvars, peer, unanswered, attempts>>

(* A reply is there, in full; nobody reads it when the task is done. *)
Arrives(c) ==
    /\ st[c] \in {"connected", "closing"} /\ unanswered[c] # <<>>
    /\ unanswered' = [unanswered EXCEPT ![c] = Tail(@)]
    /\ UNCHANGED <<given, expired, peer, backlog, attempts>>

ReplyIgnored(c) ==
    /\ Arrives(c) /\ task[c] = NoTask
    /\ UNCHANGED <<target, retry_count, calls, hfunctors, delayed, st, task, timerID, pools, htimers>>

(* conn_pools.add, where both sides keep the connection *)
Pools(c) == pools' = [pools EXCEPT ![peer[c]] = Append(@, c)]

(* onread of a reply, or of something that is none: callback, then the pool *)
(* or close.                                                                *)
ReplyIsFinal(c, keepalive) ==
    /\ Arrives(c) /\ task[c] # NoTask /\ Called({task[c]})
    /\ IF keepalive
       THEN Pools(c) /\ Holds(c, NoTask, {}) /\ UNCHANGED <<st, retry_count, hfunctors, delayed>>
       ELSE close(c, NoTask, hfunctors, {})
    /\ UNCHANGED target

(* onread of a redirection: the task is sent again and is still the context's. *)
ReplyRedirects(c, keepalive, a) ==
    /\ Arrives(c) /\ task[c] # NoTask
    /\ target' = [target EXCEPT ![task[c]] = a]
    /\ LET q == Append(hfunctors, task[c]) IN
       IF keepalive
       THEN /\ Pools(c) /\ hfunctors' = q
            /\ UNCHANGED <<st, task, timerID, htimers, retry_count, delayed, calls>>
       ELSE close(c, task[c], q, {}) /\ Called(GivenUpByClose(c, task[c]))

HttpSteps ==
    \/ RunsHttpFunctor
    \/ \E t \in Task : RetryIsDue(t)
    \/ \E r \in htimers : TimerFires(r)
    \/ \E c \in Chan : st[c] \in {"closing", "doomed"} /\ ConnectionEnds(c)

HNext ==
    \/ \E t \in Task : send(t) \/ Expire(t) \/ RetryIsDue(t)
    \/ RunsHttpFunctor
    \/ \E r \in htimers : TimerFires(r)
    \/ \E c \in Chan :
        \/ ConnectionEnds(c) \/ Connected(c) \/ Drained(c) \/ ReplyIgnored(c)
        \/ \E keepalive \in BOOLEAN : ReplyIsFinal(c, keepalive)

(* Time passes and the loop runs; servers need not answer. *)
HSpec == HInit /\ [][HNext]_hvars
HFair == WF_hvars(HttpSteps) /\ \A t \in Task : WF_hvars(Expire(t))

(* With servers that redirect. *)
RedirectNext ==
    \/ HNext
    \/ \E c \in Chan, keepalive \in BOOLEAN, a \in Addr : ReplyRedirects(c, keepalive, a)

RedirectSpec == HInit /\ [][RedirectNext]_hvars

-----------------------------------------------------------------------------
(* Properties. *)

(* What the variables hold. *)
HTypeOK ==
    /\ given \subseteq Task /\ expired \subseteq Task /\ target \in [Task -> Addr]
    /\ retry_count \in [Task -> 0..Wrap - 1]
    /\ calls \in [Task -> 0..2] /\ delayed \in [Task -> Nat] /\ hfunctors \in Seq(Task)
    /\ st \in [Chan -> {"none", "connecting", "connected", "closing", "doomed", "gone"}]
    /\ peer \in [Chan -> Addr] /\ backlog \in [Chan -> BOOLEAN]
    /\ unanswered \in [Chan -> Seq(Task)] /\ task \in [Chan -> Task \cup {NoTask}]
    /\ timerID \in [Chan -> Nat \cup {NoTimer}] /\ attempts \in 0..MaxAttempt
    /\ pools \in [Addr -> Seq(Chan)]
    /\ htimers \subseteq [id : Nat, chan : Chan, task : Task]

(* The handler of a timer finds the channel and its task: the assertion in   *)
(* it holds, though the context is used for one task after another.          *)
TimeoutHasTask ==
    \A r \in htimers : st[r.chan] # "gone" /\ task[r.chan] # NoTask

(* Where a task is: queued, waiting for its retry, on a channel, or done. *)
Places(t) == Cardinality({i \in DOMAIN hfunctors : hfunctors[i] = t}) + delayed[t]
             + Cardinality({c \in Chan : task[c] = t}) + calls[t]

(* A task is in one place: no retry, timeout or late close loses it, sends   *)
(* it twice or calls its callback twice.                                     *)
OnePlace == \A t \in given : Places(t) = 1

(* conn_pools has live connections of its address, without a task and once.  *)
PooledAreIdle ==
    \A a \in Addr :
        /\ \A c \in Members(pools[a]) : st[c] # "gone" /\ peer[c] = a /\ task[c] = NoTask
        /\ \A i, j \in DOMAIN pools[a] : pools[a][i] = pools[a][j] => i = j

(* The reply a task waits for on a connection is its own: no request whose   *)
(* task is gone is still unanswered there.                                   *)
OwnReply ==
    \A c \in Chan : unanswered[c] # <<>> /\ task[c] # NoTask => unanswered[c] = <<task[c]>>

(* A timer is for the task that its channel's context holds, which its       *)
(* handler closes the channel on, and no task with a timeout is on a channel *)
(* without one, unless that is being closed: nothing else ends an attempt    *)
(* that a server does not answer.                                            *)
AttemptsTimed ==
    /\ \A r \in htimers : r.task = task[r.chan]
    /\ \A c \in Chan : task[c] \in Limited /\ st[c] # "closing" =>
            \E r \in htimers : r.chan = c

RequestsSound == TimeoutHasTask /\ PooledAreIdle /\ OwnReply /\ AttemptsTimed

(* The callback of a request with a timeout is called, whatever servers do.  *)
CallbackComes == \A t \in Limited : (t \in given) ~> (calls[t] > 0)
=============================================================================
