------------------------------- MODULE Timers -------------------------------
(* Timers and idles of one event loop: htimer_t and hidle_t with the lists   *)
(* and counters of hloop.c, and the map in which EventLoop keeps its Timers. *)
(* Everything runs in the loop's thread; what interleaves is the loop's walk *)
(* over the pending events and the operations their callbacks call.  Memory  *)
(* is not used twice, so a freed event stays recognisable.                   *)
EXTENDS Integers, Sequences, FiniteSets

CONSTANTS
    Timer, Idle,     \* the htimer_t and hidle_t that are ever allocated
    Timeouts,        \* timeouts asked for
    Coarse,          \* those whose due time htimer_add rounds down
    Repeats,         \* repeats asked for
    MaxLag,          \* most time between two hloop_update_time
    MaxOps,          \* operations the callbacks of a behaviour call
    Careless,        \* callbacks also reset a timer that is pending, and kill it
    NoEvent

INFINITE == -1       \* (uint32_t)-1: EventLoop and hloop never decrement it

ASSUME TimersAssumption ==
    /\ Timer \cap Idle = {} /\ NoEvent \notin Timer \cup Idle
    /\ IsFiniteSet(Timer) /\ IsFiniteSet(Idle)
    /\ Timeouts \subseteq Nat \ {0} /\ Coarse \subseteq Timeouts \ {1}
    /\ Repeats \subseteq (Nat \ {0}) \cup {INFINITE}
    /\ MaxLag \in Nat \ {0} /\ MaxOps \in Nat /\ Careless \in BOOLEAN

VARIABLES
    mem,        \* "none", "live" or "freed", for each event
    active, pending, destroy,   \* the events with the flag
    repeat,     \* hevent.repeat
    timeout, left,      \* htimeout_t.timeout, and next_timeout - cur_hrtime
    heap,       \* loop->timers
    idles,      \* loop->idles
    ntimers, nidles, nactives,
    timers,     \* EventLoop::timers: the Timer.repeat of each id it holds
    at,         \* "poll", "walk" or "call": where the loop's thread is
    walk,       \* what is left of loop->pendings, from the next event on
    cur,        \* the event whose callback runs, NoEvent for a functor
    ops         \* operations called so far

Event == Timer \cup Idle
Freed == {e \in Event : mem[e] = "freed"}
tvars == <<mem, active, pending, destroy, repeat, timeout, left, heap, idles,
           ntimers, nidles, nactives, timers, at, walk, cur, ops>>
loopvars == <<at, walk, cur>>
flags == <<active, pending, destroy>>

TInit ==
    /\ mem = [e \in Event |-> "none"]
    /\ active = {} /\ pending = {} /\ destroy = {}
    /\ repeat = [e \in Event |-> 0]
    /\ timeout = [t \in Timer |-> 0] /\ left = [t \in Timer |-> 0]
    /\ heap = {} /\ idles = {} /\ timers = <<>>
    /\ ntimers = 0 /\ nidles = 0 /\ nactives = 0
    /\ at = "call" /\ walk = <<>> /\ cur = NoEvent /\ ops = 0

(* The due times htimer_add and htimer_reset give a timer: long ones in full *)
(* tenths of a second are rounded down.                                      *)
DueIn(d) == IF d \in Coarse THEN {d - 1, d} ELSE {d}

(* A decrement that leaves INFINITE alone. *)
Less(n) == IF n = INFINITE THEN n ELSE n - 1

Without(f, t) == [u \in DOMAIN f \ {t} |-> f[u]]

-----------------------------------------------------------------------------
(* Operations that callbacks, and functors queued from other threads, call. *)

Operates == at = "call" /\ ops < MaxOps /\ ops' = ops + 1 /\ UNCHANGED loopvars

(* htimer_add, which also brings cur_hrtime up to date *)
htimer_add(t, d, n, lag) ==
    /\ mem[t] = "none" /\ mem' = [mem EXCEPT ![t] = "live"]
    /\ repeat' = [repeat EXCEPT ![t] = n]
    /\ timeout' = [timeout EXCEPT ![t] = d]
    /\ \E due \in DueIn(d) :
        left' = [u \in Timer |-> IF u = t THEN due
                                 ELSE IF u \in heap THEN left[u] - lag ELSE left[u]]
    /\ heap' = heap \cup {t} /\ ntimers' = ntimers + 1
    /\ active' = active \cup {t} /\ nactives' = nactives + 1
    /\ UNCHANGED <<pending, destroy, idles, nidles>>

(* EventLoop::setTimer in the loop's thread *)
setTimer(t, d, n, lag) ==
    /\ Operates /\ htimer_add(t, d, n, lag)
    /\ timers' = [u \in DOMAIN timers \cup {t} |-> IF u = t THEN n ELSE timers[u]]

EventDel_at_once(e) ==
    /\ active' = active \ {e}
    /\ nactives' = nactives - 1
    /\ mem' = [mem EXCEPT ![e] = "freed"]

(* EVENT_DEL of an active event that is marked as destroyed: the memory of a *)
(* pending one stays until hloop_process_pendings gets to it.                *)
EventDel(e) ==
    /\ active' = active \ {e}
    /\ nactives' = nactives - 1
    /\ mem' = IF e \in pending THEN mem ELSE [mem EXCEPT ![e] = "freed"]

htimer_del(t) ==
    /\ IF t \in active
       THEN /\ heap' = heap \ {t}
            /\ ntimers' = IF t \in destroy THEN ntimers ELSE ntimers - 1
            /\ destroy' = destroy \cup {t}
            /\ EventDel(t)
       ELSE UNCHANGED <<heap, ntimers, destroy, active, nactives, mem>>
    /\ UNCHANGED <<pending, repeat, timeout, left, idles, nidles>>

(* EventLoop::killTimer in the loop's thread *)
killTimer(t) ==
    /\ Operates /\ t \in DOMAIN timers \ Freed
    /\ Careless \/ t # cur \/ t \in pending
    /\ timers' = Without(timers, t) /\ htimer_del(t)

(* htimer_reset with EVENT_RESET, which also revives a timer that is marked *)
htimer_reset(t) ==
    /\ ntimers' = IF t \in destroy THEN ntimers + 1 ELSE ntimers
    /\ heap' = heap \cup {t}
    /\ repeat' = [repeat EXCEPT ![t] = IF @ = 0 THEN 1 ELSE @]
    /\ \E d \in {timeout[t]} \cup Timeouts :
        /\ timeout' = [timeout EXCEPT ![t] = d]
        /\ \E due \in DueIn(d) : left' = [left EXCEPT ![t] = due]
    /\ destroy' = destroy \ {t} /\ pending' = pending \ {t}
    /\ active' = active \cup {t}
    /\ nactives' = IF t \in active THEN nactives ELSE nactives + 1
    /\ UNCHANGED <<mem, idles, nidles>>

Resettable(t) ==
    /\ Operates /\ t \in DOMAIN timers \ Freed
    /\ Careless \/ t = cur \/ t \notin pending

(* EventLoop::resetTimer in the loop's thread *)
resetTimer(t) ==
    /\ Resettable(t) /\ htimer_reset(t)
    /\ timers' = [timers EXCEPT ![t] = IF @ = 0 THEN 1 ELSE @]

hidle_add(i, n) ==
    /\ Operates /\ mem[i] = "none"
    /\ mem' = [mem EXCEPT ![i] = "live"]
    /\ repeat' = [repeat EXCEPT ![i] = n]
    /\ idles' = idles \cup {i} /\ nidles' = nidles + 1
    /\ active' = active \cup {i} /\ nactives' = nactives + 1
    /\ UNCHANGED <<pending, destroy, timeout, left, heap, ntimers, timers>>

hidle_del(i) ==
    /\ Operates /\ mem[i] = "live" /\ i \in active
    /\ idles' = idles \ {i}
    /\ nidles' = IF i \in destroy THEN nidles ELSE nidles - 1
    /\ destroy' = destroy \cup {i}
    /\ EventDel(i)
    /\ UNCHANGED <<pending, repeat, timeout, left, heap, ntimers, timers>>

-----------------------------------------------------------------------------
(* The loop. *)

Due(lag) == {t \in heap : left[t] - lag <= 0}

(* The first due time after now of a timer that was due at l <= 0. *)
NextDue(l, d) == CHOOSE n \in 1..d : (n - l) % d = 0

UsedUp_infinite_too(S) == {e \in S : repeat[e] \in {1, INFINITE}}

(* Those of S that lose their last repeat. *)
UsedUp(S) == {e \in S : repeat[e] = 1}

(* __hloop_process_timers: every due timer loses one repeat; the last one    *)
(* takes it off the heap, or its due time moves past now.                    *)
ProcessTimers(due, lag) ==
    LET last == UsedUp(due)
    IN  /\ repeat' = [e \in Event |-> IF e \in due THEN Less(repeat[e]) ELSE repeat[e]]
        /\ left' = [t \in Timer |->
              IF t \in due \ last THEN NextDue(left[t] - lag, timeout[t])
              ELSE IF t \in heap THEN left[t] - lag ELSE left[t]]
        /\ heap' = heap \ last /\ ntimers' = ntimers - Cardinality(last)
        /\ destroy' = destroy \cup last
        /\ UNCHANGED <<idles, nidles>>

(* hloop_process_idles *)
ProcessIdles(lag) ==
    LET last == UsedUp(idles)
    IN  /\ repeat' = [e \in Event |-> IF e \in idles THEN Less(repeat[e]) ELSE repeat[e]]
        /\ idles' = idles \ last /\ nidles' = nidles - Cardinality(last)
        /\ destroy' = destroy \cup last
        /\ left' = [t \in Timer |-> IF t \in heap THEN left[t] - lag ELSE left[t]]
        /\ UNCHANGED <<heap, ntimers>>

Orders(S) == {s \in [1..Cardinality(S) -> S] : \A i, j \in DOMAIN s : s[i] = s[j] => i = j}

(* EVENT_PENDING puts an event in front of its list, so the timers that were *)
(* due first come last.                                                      *)
PendingOrders(S) ==
    {s \in Orders(S) : \A i, j \in DOMAIN s :
        i < j /\ {s[i], s[j]} \subseteq Timer => left[s[i]] >= left[s[j]]}

(* hloop_process_events up to hloop_process_pendings: idles run when nothing *)
(* else does.  A functor, from the eventfd's hio, is an event of its own.    *)
TimersPoll(lag, functor) ==
    /\ at = "poll" /\ at' = "walk" /\ UNCHANGED cur
    /\ LET due == Due(lag)
           now == IF due # {} THEN due ELSE IF functor THEN {} ELSE idles
       IN  /\ IF due # {} \/ functor THEN ProcessTimers(due, lag) ELSE ProcessIdles(lag)
           /\ pending' = pending \cup now
           /\ \E s \in PendingOrders(now) :
                walk' = IF functor THEN Append(s, NoEvent) ELSE s
    /\ UNCHANGED <<mem, active, timeout, nactives, timers, ops>>

(* hloop_process_pendings calls the next event's callback; EventLoop::onTimer *)
(* counts before it calls the user's.                                         *)
LoopCalls ==
    /\ at = "walk" /\ walk # <<>>
    /\ LET e == Head(walk)
       IN  /\ e = NoEvent \/ e \in (pending \cap active) \ Freed
           /\ cur' = e
           /\ timers' = [t \in DOMAIN timers |-> IF t = e THEN Less(timers[t]) ELSE timers[t]]
    /\ walk' = Tail(walk) /\ at' = "call"
    /\ UNCHANGED <<mem, flags, repeat, timeout, left, heap, idles,
                   ntimers, nidles, nactives, ops>>

(* The end of an event's turn: it is no longer pending, and deleted if marked. *)
Turned(e) ==
    /\ pending' = pending \ {e}
    /\ active' = active \ (destroy \cap {e})
    /\ nactives' = IF e \in active \cap destroy THEN nactives - 1 ELSE nactives
    /\ mem' = IF e \in destroy THEN [mem EXCEPT ![e] = "freed"] ELSE mem
    /\ UNCHANGED <<destroy, repeat, timeout, left, heap, idles, ntimers, nidles, ops>>

(* The callback returns to onTimer, which drops a Timer that is used up, and *)
(* to hloop_process_pendings.                                                *)
LoopReturns ==
    /\ at = "call" /\ at' = "walk"
    /\ cur \notin Freed
    /\ cur' = NoEvent
    /\ timers' = IF cur \in DOMAIN timers /\ timers[cur] = 0 THEN Without(timers, cur)
                                                             ELSE timers
    /\ Turned(cur)
    /\ UNCHANGED walk

LoopSkips_undeleted ==
    /\ at = "walk" /\ walk # <<>> /\ Head(walk) # NoEvent
    /\ Head(walk) \notin Freed \cup (pending \cap active)
    /\ walk' = Tail(walk) /\ pending' = pending \ {Head(walk)}
    /\ UNCHANGED <<mem, active, destroy, repeat, timeout, left, heap, idles,
                   ntimers, nidles, nactives, timers, at, cur, ops>>

(* An event that was killed, or reset, since it became pending. *)
LoopSkips ==
    /\ at = "walk" /\ walk # <<>> /\ Head(walk) # NoEvent
    /\ Head(walk) \notin Freed \cup (pending \cap active)
    /\ walk' = Tail(walk)
    /\ IF Head(walk) \in pending
       THEN Turned(Head(walk))
       ELSE UNCHANGED <<mem, flags, repeat, timeout, left, heap, idles,
                        ntimers, nidles, nactives, ops>>
    /\ UNCHANGED <<timers, at, cur>>

LoopEndsWalk ==
    /\ at = "walk" /\ walk = <<>> /\ at' = "poll"
    /\ UNCHANGED <<mem, flags, repeat, timeout, left, heap, idles,
                   ntimers, nidles, nactives, timers, walk, cur, ops>>

TimerSteps ==
    \/ \E lag \in 1..MaxLag, functor \in BOOLEAN : TimersPoll(lag, functor)
    \/ LoopCalls \/ LoopReturns \/ LoopSkips \/ LoopEndsWalk

TNext ==
    \/ TimerSteps
    \/ \E t \in Timer, d \in Timeouts, n \in Repeats, lag \in 0..MaxLag : setTimer(t, d, n, lag)
    \/ \E t \in Timer : killTimer(t) \/ resetTimer(t)
    \/ \E i \in Idle, n \in Repeats : hidle_add(i, n)
    \/ \E i \in Idle : hidle_del(i)

(* The loop runs and callbacks return. *)
TSpec == TInit /\ [][TNext]_tvars /\ WF_tvars(TimerSteps)

-----------------------------------------------------------------------------
(* Properties. *)

(* What the variables hold. *)
TTypeOK ==
    /\ mem \in [Event -> {"none", "live", "freed"}]
    /\ active \subseteq Event /\ pending \subseteq Event /\ destroy \subseteq Event
    /\ repeat \in [Event -> Nat \cup {INFINITE}] /\ left \in [Timer -> Int]
    /\ timeout \in [Timer -> Nat]
    /\ heap \subseteq Timer /\ idles \subseteq Idle
    /\ ntimers \in Int /\ nidles \in Int /\ nactives \in Int
    /\ DOMAIN timers \subseteq Timer /\ \A t \in DOMAIN timers : timers[t] \in Nat \cup {INFINITE}
    /\ at \in {"poll", "walk", "call"}
    /\ walk \in Seq(Event \cup {NoEvent}) /\ cur \in Event \cup {NoEvent}
    /\ ops \in 0..MaxOps

(* hloop.c:126 "Now we can safely delete event marked as destroy": nothing   *)
(* that a later step follows leads to freed memory, neither the loop's heap, *)
(* lists and walk nor the ids EventLoop knows.                               *)
SafeDelete ==
    \A e \in Freed :
        /\ e \notin heap \cup idles \cup DOMAIN timers
        /\ e # cur /\ \A k \in DOMAIN walk : walk[k] # e

(* The counters that decide whether the loop looks at its timers and idles,  *)
(* and whether it may quit, count what there is.                             *)
CountersExact ==
    /\ ntimers = Cardinality(heap) /\ nidles = Cardinality(idles)
    /\ nactives = Cardinality(active)

(* Between two rounds nothing is left over: hloop_cleanup, which frees the   *)
(* heap and the idles, frees every event, and EventLoop knows every timer.   *)
NothingLeftOver ==
    at = "poll" =>
        /\ {e \in Event : mem[e] = "live"} = heap \cup idles
        /\ DOMAIN timers = heap /\ active = heap \cup idles
        /\ pending = {}

(* The repeats the loop counts and those EventLoop counts are the same, but  *)
(* for the one that is on its way: else one of them ends a timer that the    *)
(* other still has.                                                          *)
RepeatsAgree ==
    \A t \in DOMAIN timers : timers[t] # INFINITE =>
        timers[t] = repeat[t] + (IF t \in pending /\ t # cur THEN 1 ELSE 0)

(* A timer that was killed is not called, though it may have been due and in *)
(* the walk already.                                                         *)
KilledIsSilent ==
    [][\A t \in Timer : cur # t /\ cur' = t => t \in DOMAIN timers]_tvars

(* A timer or idle with a count is called that often, or killed, and freed. *)
FiniteEventsEnd ==
    \A t \in Timer : (mem[t] = "live" /\ repeat[t] # INFINITE) ~> (mem[t] = "freed")

(* An interval is called again and again until it is killed. *)
IntervalsRepeat ==
    \A t \in Timer : (t \in DOMAIN timers) ~> (cur = t \/ t \notin DOMAIN timers)

TimersSound == CountersExact /\ NothingLeftOver /\ RepeatsAgree
TimersRun == KilledIsSilent /\ FiniteEventsEnd /\ IntervalsRepeat
=============================================================================
