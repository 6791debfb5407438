-------------------------- MODULE EventLoopThread ---------------------------
(***************************************************************************)
(* hv::EventLoopThread, the hv::EventLoop it owns and the hloop_t inside:  *)
(* start, stop, join, and functors posted from other threads.              *)
(*                                                                         *)
(*   owner     start(true, pre), stop(true), join;                         *)
(*   posters   queueInLoop of one functor each;                            *)
(*   loop      loop_thread: run, hloop_run, eventfd_read_cb, cleanup.      *)
(*                                                                         *)
(* There is no lock around status, loop_, and the fields of hloop_t: every *)
(* access that another thread can get in between of is a step.  What a     *)
(* mutex encloses is one step.  An event carries no data that is used: an  *)
(* event of a functor makes the loop take the functor at the head of       *)
(* customEvents, an event of hloop_wakeup does nothing, so hloop's queue   *)
(* is a number of events of either kind.                                   *)
(***************************************************************************)
EXTENDS Naturals, Sequences, FiniteSets

CONSTANTS Posters,     \* threads that post
          Pre,         \* the functor that start is given
          Settled,     \* does the owner stop only when Pre has run and the
                       \* posters are done, as ClientExample does?
          PreMayFail,  \* may Pre return an error, which stops the loop?
          FdsMayFail   \* may the eventfd not be created?

ASSUME ThreadAssumption == /\ IsFiniteSet(Posters)
                           /\ Pre \notin Posters
                           /\ Settled \in BOOLEAN
                           /\ PreMayFail \in BOOLEAN
                           /\ FdsMayFail \in BOOLEAN

VARIABLES
    opc,           \* owner: where it is
    loop_tid,      \* owner: stop's local variable, "owner" or "loop"
    ppc,           \* per poster: where it is
    lpc,           \* loop thread: where it is
    thread,        \* EventLoopThread: status
    status,        \* EventLoop: status
    loop_,         \* EventLoop: loop_ is not NULL
    customEvents,  \* EventLoop: functors
    allocated,     \* hloop_t: not yet freed
    hstatus,       \* hloop_t: status
    tid,           \* hloop_t: tid, "owner" (who created it) or "loop"
    eventfds,      \* hloop_t: the eventfd exists
    counter,       \* the eventfd's counter
    todo,          \* eventfd_read_cb: iterations left
    functorEvents, \* hloop_t: custom_events that carry a functor
    wakeups,       \* hloop_t: custom_events that do not
    ran,           \* ghost: functors that have run
    crash          \* ghost: how the process died, or "none"

ownerVars == <<opc, loop_tid>>
queueVars == <<eventfds, counter, functorEvents, wakeups>>
statusVars == <<thread, status, loop_, allocated, hstatus, tid>>
vars == <<ownerVars, ppc, lpc, statusVars, customEvents, queueVars, todo, ran, crash>>

-----------------------------------------------------------------------------
(* hloop_post_event, under custom_events_mutex.  If the eventfd cannot be   *)
(* created the event is dropped.                                            *)

Posted(functors, wakes) ==
    \/ /\ eventfds' = TRUE
       /\ counter' = counter + 1
       /\ functorEvents' = functorEvents + functors
       /\ wakeups' = wakeups + wakes
    \/ FdsMayFail /\ ~eventfds /\ UNCHANGED queueVars

\* Mutant: a functor is not queued while another one waits.
Push_coalesced(f) ==
    customEvents' = IF customEvents = << >> THEN <<f>> ELSE customEvents

\* postEvent's customEvents.push, under mutex_.
Push(f) == customEvents' = Append(customEvents, f)

\* loop_ is dereferenced.
Dies == /\ ~(loop_ /\ allocated)
        /\ crash' = IF loop_ THEN "freed" ELSE "NULL"

Usable == loop_ /\ allocated /\ UNCHANGED crash

-----------------------------------------------------------------------------
(* The owner.                                                               *)

\* start: the thread is created.
OwnerStart ==
    /\ opc = "start"
    /\ opc' = "wait"
    /\ thread' = "starting"
    /\ lpc' = "entry"
    /\ UNCHANGED <<loop_tid, ppc, status, loop_, allocated, hstatus, tid,
                   customEvents, queueVars, todo, ran, crash>>

\* start returns when loop_->status() is kRunning or later.
OwnerStarted ==
    /\ opc = "wait"
    /\ status # "initialized"
    /\ opc' = "started"
    /\ UNCHANGED <<loop_tid, ppc, lpc, statusVars, customEvents, queueVars,
                   todo, ran, crash>>

\* stop: status() is tested, and set.
OwnerTestsStatus ==
    /\ opc = "started"
    /\ Settled => Pre \in ran /\ \A p \in Posters : ppc[p] = "done"
    /\ opc' = IF thread = "stopped" THEN "returned" ELSE "setStatus"
    /\ UNCHANGED <<loop_tid, ppc, lpc, statusVars, customEvents, queueVars,
                   todo, ran, crash>>

OwnerSetsStatus ==
    /\ opc = "setStatus"
    /\ opc' = "tid"
    /\ thread' = "stopping"
    /\ UNCHANGED <<loop_tid, ppc, lpc, status, loop_, allocated, hstatus, tid,
                   customEvents, queueVars, todo, ran, crash>>

\* loop_->tid(): the caller's own id once loop_ is NULL.
OwnerReadsTid ==
    /\ opc = "tid"
    /\ \/ ~loop_ /\ loop_tid' = "owner" /\ opc' = "stop" /\ UNCHANGED crash
       \/ Usable /\ loop_tid' = tid /\ opc' = "stop"
       \/ loop_ /\ Dies /\ UNCHANGED <<opc, loop_tid>>
    /\ UNCHANGED <<ppc, lpc, statusVars, customEvents, queueVars, todo, ran>>

\* loop_->stop(): the test of loop_, then setStatus(kStopping).
OwnerTestsLoop ==
    /\ opc = "stop"
    /\ opc' = IF loop_ THEN "setStopping" ELSE "waitStopped"
    /\ UNCHANGED <<loop_tid, ppc, lpc, statusVars, customEvents, queueVars,
                   todo, ran, crash>>

OwnerSetsStopping ==
    /\ opc = "setStopping"
    /\ opc' = "hloop_stop"
    /\ status' = "stopping"
    /\ UNCHANGED <<loop_tid, ppc, lpc, thread, loop_, allocated, hstatus, tid,
                   customEvents, queueVars, todo, ran, crash>>

\* Mutant: the status is saved before the wakeup, which is then the access that
\* comes too late.
OwnerWakesUp_after_stop ==
    /\ opc = "hloop_stop"
    /\ Usable
    /\ opc' = "saveStop"
    /\ hstatus' = "stop"
    /\ UNCHANGED <<loop_tid, ppc, lpc, thread, status, loop_, allocated, tid,
                   customEvents, queueVars, todo, ran>>

\* hloop_stop(loop_): wake another thread up.
OwnerWakesUp ==
    /\ opc = "hloop_stop"
    /\ \/ /\ Usable
          /\ opc' = "saveStop"
          /\ IF tid = "owner" THEN UNCHANGED queueVars ELSE Posted(0, 1)
       \/ Dies /\ UNCHANGED <<opc, queueVars>>
    /\ UNCHANGED <<loop_tid, ppc, lpc, statusVars, customEvents, todo, ran>>

\* Mutant: the loop is forgotten but not stopped.
OwnerSavesStop_not ==
    /\ opc = "saveStop"
    /\ opc' = "waitStopped"
    /\ loop_' = FALSE
    /\ UNCHANGED <<loop_tid, ppc, lpc, thread, status, allocated, hstatus, tid,
                   customEvents, queueVars, todo, ran, crash>>

\* The status is saved after the wakeup; loop_ = NULL.
OwnerSavesStop ==
    /\ opc = "saveStop"
    /\ \/ /\ allocated
          /\ opc' = "waitStopped"
          /\ hstatus' = "stop"
          /\ loop_' = FALSE
          /\ UNCHANGED crash
       \/ ~allocated /\ crash' = "freed" /\ UNCHANGED <<opc, hstatus, loop_>>
    /\ UNCHANGED <<loop_tid, ppc, lpc, thread, status, allocated, tid,
                   customEvents, queueVars, todo, ran>>

\* Mutant: it waits for the EventLoop's status instead of the thread's.
OwnerReturns_on_loop_status ==
    /\ opc = "waitStopped"
    /\ loop_tid = "owner" \/ status = "stopped"
    /\ opc' = "returned"
    /\ UNCHANGED <<loop_tid, ppc, lpc, statusVars, customEvents, queueVars,
                   todo, ran, crash>>

\* stop(true) returns, at once if it takes itself for the loop thread.
OwnerReturns ==
    /\ opc = "waitStopped"
    /\ loop_tid = "owner" \/ thread = "stopped"
    /\ opc' = "returned"
    /\ UNCHANGED <<loop_tid, ppc, lpc, statusVars, customEvents, queueVars,
                   todo, ran, crash>>

\* ~EventLoopThread joins the thread.
OwnerJoins ==
    /\ opc = "returned"
    /\ lpc = "done"
    /\ opc' = "joined"
    /\ UNCHANGED <<loop_tid, ppc, lpc, statusVars, customEvents, queueVars,
                   todo, ran, crash>>

Owner == \/ OwnerStart \/ OwnerStarted \/ OwnerTestsStatus \/ OwnerSetsStatus
         \/ OwnerReadsTid \/ OwnerTestsLoop \/ OwnerSetsStopping
         \/ OwnerWakesUp \/ OwnerSavesStop \/ OwnerReturns \/ OwnerJoins

-----------------------------------------------------------------------------
(* A poster: queueInLoop, from any thread but the loop's.                   *)

\* postEvent: nothing is done without a loop_.
PosterPushes(p) ==
    /\ ppc[p] = "post"
    /\ IF loop_
       THEN Push(p) /\ ppc' = [ppc EXCEPT ![p] = "event"]
       ELSE UNCHANGED customEvents /\ ppc' = [ppc EXCEPT ![p] = "done"]
    /\ UNCHANGED <<ownerVars, lpc, statusVars, queueVars, todo, ran, crash>>

\* hloop_post_event(loop_, &ev->event), outside mutex_.
PosterPostsEvent(p) ==
    /\ ppc[p] = "event"
    /\ \/ Usable /\ Posted(1, 0) /\ ppc' = [ppc EXCEPT ![p] = "done"]
       \/ Dies /\ UNCHANGED <<queueVars, ppc>>
    /\ UNCHANGED <<ownerVars, lpc, statusVars, customEvents, todo, ran>>

-----------------------------------------------------------------------------
(* The loop thread.                                                         *)

\* loop_thread: setStatus(kStarted), and Pre is pushed and posted.
LoopEntry ==
    /\ lpc = "entry"
    /\ thread' = "started"
    /\ Push(Pre)
    /\ lpc' = "postPre"
    /\ UNCHANGED <<ownerVars, ppc, status, loop_, allocated, hstatus, tid,
                   queueVars, todo, ran, crash>>

LoopPostsPre ==
    /\ lpc = "postPre"
    /\ Posted(1, 0)
    /\ lpc' = "run"
    /\ UNCHANGED <<ownerVars, ppc, statusVars, customEvents, todo, ran, crash>>

\* EventLoop::run: setStatus(kRunning).
LoopRuns ==
    /\ lpc = "run"
    /\ status' = "running"
    /\ lpc' = "load"
    /\ UNCHANGED <<ownerVars, ppc, thread, loop_, allocated, hstatus, tid,
                   customEvents, queueVars, todo, ran, crash>>

\* The argument of hloop_run is loaded; hloop_run(NULL) does nothing.
LoopLoadsLoop ==
    /\ lpc = "load"
    /\ lpc' = IF loop_ THEN "hloop_run" ELSE "ended"
    /\ UNCHANGED <<ownerVars, ppc, statusVars, customEvents, queueVars, todo,
                   ran, crash>>

\* hloop_run saves status and tid.
LoopSetsRunning ==
    /\ lpc = "hloop_run"
    /\ hstatus' = "running"
    /\ lpc' = "setTid"
    /\ UNCHANGED <<ownerVars, ppc, thread, status, loop_, allocated, tid,
                   customEvents, queueVars, todo, ran, crash>>

\* Mutant: the tid stays the one of the thread that created the loop.
LoopSetsTid_not ==
    /\ lpc = "setTid"
    /\ eventfds' \in {TRUE} \cup (IF FdsMayFail THEN {eventfds} ELSE {})
    /\ lpc' = "poll"
    /\ UNCHANGED <<ownerVars, ppc, statusVars, customEvents, counter,
                   functorEvents, wakeups, todo, ran, crash>>

\* The eventfd is created now unless a post did so.
LoopSetsTid ==
    /\ lpc = "setTid"
    /\ tid' = "loop"
    /\ eventfds' \in {TRUE} \cup (IF FdsMayFail THEN {eventfds} ELSE {})
    /\ lpc' = "poll"
    /\ UNCHANGED <<ownerVars, ppc, thread, status, loop_, allocated, hstatus,
                   customEvents, counter, functorEvents, wakeups, todo, ran,
                   crash>>

\* An iteration of hloop_run: the status is looked at after the wait, which
\* takes at most HLOOP_MAX_BLOCK_TIME; the eventfd is readable.
LoopPolls ==
    /\ lpc = "poll"
    /\ \/ hstatus = "stop" /\ lpc' = "cleanup"
       \/ hstatus = "running" /\ counter > 0 /\ lpc' = "read"
    /\ UNCHANGED <<ownerVars, ppc, statusVars, customEvents, queueVars, todo,
                   ran, crash>>

\* Mutant: one event is handled, whatever the counter says.
LoopReadsCounter_one ==
    /\ lpc = "read"
    /\ todo' = 1
    /\ counter' = 0
    /\ lpc' = "events"
    /\ UNCHANGED <<ownerVars, ppc, statusVars, customEvents, eventfds,
                   functorEvents, wakeups, ran, crash>>

\* nio_read reads, and so clears, the counter.
LoopReadsCounter ==
    /\ lpc = "read"
    /\ todo' = counter
    /\ counter' = 0
    /\ lpc' = "events"
    /\ UNCHANGED <<ownerVars, ppc, statusVars, customEvents, eventfds,
                   functorEvents, wakeups, ran, crash>>

\* eventfd_read_cb, one iteration: an event is taken under custom_events_mutex.
LoopTakesEvent ==
    /\ lpc = "events"
    /\ todo > 0
    /\ todo' = todo - 1
    /\ \/ /\ functorEvents > 0
          /\ functorEvents' = functorEvents - 1
          /\ lpc' = "functor"
          /\ UNCHANGED wakeups
       \/ /\ wakeups > 0
          /\ wakeups' = wakeups - 1
          /\ UNCHANGED <<functorEvents, lpc>>
    /\ UNCHANGED <<ownerVars, ppc, statusVars, customEvents, eventfds, counter,
                   ran, crash>>

\* The loop is over, or the queue is empty.
LoopEventsDone ==
    /\ lpc = "events"
    /\ todo = 0 \/ functorEvents + wakeups = 0
    /\ todo' = 0
    /\ lpc' = "poll"
    /\ UNCHANGED <<ownerVars, ppc, statusVars, customEvents, queueVars, ran, crash>>

\* onCustomEvent takes the functor at the head, which front() of an empty queue
\* does not have, and calls it.  When Pre fails, it calls loop_->stop().
LoopRunsFunctor ==
    /\ lpc = "functor"
    /\ IF customEvents = << >>
       THEN crash' = "empty" /\ UNCHANGED <<lpc, customEvents, ran>>
       ELSE /\ customEvents' = Tail(customEvents)
            /\ ran' = ran \cup {Head(customEvents)}
            /\ lpc' \in {"events"} \cup
                        (IF PreMayFail /\ Head(customEvents) = Pre THEN {"selfStop"} ELSE {})
            /\ UNCHANGED crash
    /\ UNCHANGED <<ownerVars, ppc, statusVars, queueVars, todo>>

\* EventLoop::stop in the loop thread: the test of loop_, setStatus(kStopping).
LoopStopsItself ==
    /\ lpc = "selfStop"
    /\ IF loop_ THEN status' = "stopping" /\ lpc' = "selfSave"
                ELSE UNCHANGED status /\ lpc' = "events"
    /\ UNCHANGED <<ownerVars, ppc, thread, loop_, allocated, hstatus, tid,
                   customEvents, queueVars, todo, ran, crash>>

\* hloop_stop(loop_), without a wakeup; loop_ = NULL.
LoopSavesStop ==
    /\ lpc = "selfSave"
    /\ \/ Usable /\ hstatus' = "stop" /\ loop_' = FALSE /\ lpc' = "events"
       \/ Dies /\ UNCHANGED <<hstatus, loop_, lpc>>
    /\ UNCHANGED <<ownerVars, ppc, thread, status, allocated, tid,
                   customEvents, queueVars, todo, ran>>

\* The end of hloop_run, with HLOOP_FLAG_AUTO_FREE: hloop_cleanup, HV_FREE.
LoopCleansUp ==
    /\ lpc = "cleanup"
    /\ lpc' = "ended"
    /\ hstatus' = "stop"
    /\ allocated' = FALSE
    /\ eventfds' = FALSE /\ counter' = 0 /\ functorEvents' = 0 /\ wakeups' = 0
    /\ UNCHANGED <<ownerVars, ppc, thread, status, loop_, tid, customEvents,
                   todo, ran, crash>>

\* EventLoop::run: setStatus(kStopped).
LoopEnds ==
    /\ lpc = "ended"
    /\ lpc' = "assert"
    /\ status' = "stopped"
    /\ UNCHANGED <<ownerVars, ppc, thread, loop_, allocated, hstatus, tid,
                   customEvents, queueVars, todo, ran, crash>>

\* loop_thread: assert(loop_->isStopped()), setStatus(kStopped).
LoopThreadEnds ==
    /\ lpc = "assert"
    /\ \/ /\ status = "stopped"
          /\ lpc' = "done"
          /\ thread' = "stopped"
          /\ UNCHANGED crash
       \/ status # "stopped" /\ crash' = "assert" /\ UNCHANGED <<lpc, thread>>
    /\ UNCHANGED <<ownerVars, ppc, status, loop_, allocated, hstatus, tid,
                   customEvents, queueVars, todo, ran>>

Loop == \/ LoopEntry \/ LoopPostsPre \/ LoopRuns \/ LoopLoadsLoop
        \/ LoopSetsRunning \/ LoopSetsTid \/ LoopPolls \/ LoopReadsCounter
        \/ LoopTakesEvent \/ LoopEventsDone \/ LoopRunsFunctor
        \/ LoopStopsItself \/ LoopSavesStop \/ LoopCleansUp \/ LoopEnds
        \/ LoopThreadEnds

-----------------------------------------------------------------------------
Init ==
    /\ opc = "start" /\ loop_tid = "owner"
    /\ ppc = [p \in Posters |-> "post"]
    /\ lpc = "off"
    /\ thread = "initialized" /\ status = "initialized"
    /\ loop_ = TRUE /\ allocated = TRUE
    /\ hstatus = "stop" /\ tid = "owner"
    /\ customEvents = << >>
    /\ eventfds = FALSE /\ counter = 0 /\ functorEvents = 0 /\ wakeups = 0
    /\ todo = 0 /\ ran = {} /\ crash = "none"

\* Nothing runs in a process that has died.
Step == Owner \/ Loop \/ \E p \in Posters : PosterPushes(p) \/ PosterPostsEvent(p)

Next == \/ crash = "none" /\ Step
        \/ (crash # "none" \/ opc = "joined") /\ UNCHANGED vars

Spec == Init /\ [][Next]_vars

\* Every thread is scheduled; a wait that looks again every millisecond sees a
\* condition that stays true.
LiveSpec == /\ Spec
            /\ WF_vars(crash = "none" /\ Owner)
            /\ WF_vars(crash = "none" /\ Loop)
            /\ \A p \in Posters : WF_vars(/\ crash = "none"
                                          /\ PosterPushes(p) \/ PosterPostsEvent(p))

-----------------------------------------------------------------------------
TypeOK ==
    /\ opc \in {"start", "wait", "started", "setStatus", "tid", "stop",
                "setStopping", "hloop_stop", "saveStop", "waitStopped", "returned", "joined"}
    /\ loop_tid \in {"owner", "loop"} /\ tid \in {"owner", "loop"}
    /\ ppc \in [Posters -> {"post", "event", "done"}]
    /\ lpc \in {"off", "entry", "postPre", "run", "load", "hloop_run", "setTid",
                "poll", "read", "events", "functor", "selfStop", "selfSave",
                "cleanup", "ended", "assert", "done"}
    /\ thread \in {"initialized", "starting", "started", "stopping", "stopped"}
    /\ status \in {"initialized", "running", "stopping", "stopped"}
    /\ loop_ \in BOOLEAN /\ allocated \in BOOLEAN /\ eventfds \in BOOLEAN
    /\ hstatus \in {"stop", "running"}
    /\ counter \in Nat /\ todo \in Nat /\ functorEvents \in Nat /\ wakeups \in Nat
    /\ customEvents \in Seq(Posters \cup {Pre})
    /\ ran \subseteq Posters \cup {Pre}
    /\ crash \in {"none", "NULL", "freed", "empty", "assert"}

\* onCustomEvent never finds customEvents empty, although functors are queued
\* under one mutex and their events under another, in either order.
FunctorForEveryEvent == crash # "empty"

\* The eventfd's counter and what eventfd_read_cb has left to do say how many
\* events there are: none is left behind in the queue, none is waited for.
EventsCounted == counter + todo = functorEvents + wakeups

\* An owner that stops a loop nobody else uses any more never reaches a loop_ that
\* is NULL or freed, and assert(loop_->isStopped()) holds.
NoCrash == crash = "none"

\* stop(true) "will block until loop_thread stopped".
StopWaits == opc \in {"returned", "joined"} => thread = "stopped" /\ lpc = "done"

\* The owner sees the life cycle of module LoopLife, in which the test, the
\* wakeup and the three stores of stop are one step.
Life == INSTANCE LoopLife WITH
            life <- IF lpc = "off" THEN "off"
                    ELSE IF lpc = "done" THEN "stopped"
                    ELSE IF loop_ THEN "running" ELSE "stopping",
            returned <- opc \in {"returned", "joined"}
LifeCycle == Life!LSpec

\* A functor posted to a loop that is not stopped runs in the end.
FunctorsRun == \A p \in Posters : ppc[p] = "event" ~> p \in ran \/ ~loop_

\* stop(true) returns, and the thread can be joined.
StopReturns == opc = "setStatus" ~> opc = "joined"

\* Neither a poster nor the owner is left waiting for the loop thread.
LoopServesAll == FunctorsRun /\ StopReturns
=============================================================================
