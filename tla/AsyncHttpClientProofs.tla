------------------------ MODULE AsyncHttpClientProofs ------------------------
(***************************************************************************)
(* As long as no server redirects, the timers, the pools and the replies   *)
(* of AsyncHttpClient are what its handlers take them for, and each task   *)
(* is in one place, for any number of requests, addresses and connections. *)
(***************************************************************************)
EXTENDS AsyncHttpClient, SequenceTheorems, FiniteSetTheorems, TLAPS

Stages == {"none", "connecting", "connected", "closing", "doomed", "gone"}

\* Where things are.
HttpTypes ==
    /\ target \in [Task -> Addr] /\ hfunctors \in Seq(Task) /\ attempts \in Nat
    /\ st \in [Chan -> Stages] /\ peer \in [Chan -> Addr]
    /\ unanswered \in [Chan -> Seq(Task \cup {NoTask})]
    /\ task \in [Chan -> Task \cup {NoTask}] /\ timerID \in [Chan -> Nat \cup {NoTimer}]
    /\ pools \in [Addr -> Seq(Chan)] /\ htimers \subseteq [id : Nat, chan : Chan, task : Task]

\* A connection that is not made yet has been sent nothing.
NothingSentYet == \A c \in Chan : st[c] \in {"none", "connecting"} => unanswered[c] = <<>>

\* A timer that is set is the one its channel's context knows and will kill.
TimersKnown ==
    \A r \in htimers :
        /\ st[r.chan] \notin {"none", "gone"} /\ task[r.chan] # NoTask
        /\ r.id = timerID[r.chan]

\* Nothing is twice in s.
OnceEach(s) == \A i, j \in DOMAIN s : s[i] = s[j] => i = j

\* A pool has connections of its address that wait for nothing, each once.
PoolOf(a, s) ==
    /\ OnceEach(s)
    /\ \A c \in Members(s) :
        /\ st[c] \notin {"none", "connecting", "gone"} /\ peer[c] = a
        /\ task[c] = NoTask /\ unanswered[c] = <<>>

PoolsClean == \A a \in Addr : PoolOf(a, pools[a])

HInv == HttpTypes /\ NothingSentYet /\ TimersKnown /\ PoolsClean /\ OwnReply

-----------------------------------------------------------------------------
(* What adding, taking and removing leave of a pool. *)

LEMMA DroppedLeaves ==
    ASSUME NEW S, NEW s \in Seq(S), NEW c, OnceEach(s)
    PROVE  Dropped(s, c) \in Seq(S) /\ OnceEach(Dropped(s, c))
           /\ Members(Dropped(s, c)) \subseteq Members(s) \ {c}
<1>1. CASE c \notin Members(s)
  BY <1>1 DEF Dropped
<1>2. CASE c \in Members(s)
  <2>1. PICK k \in DOMAIN s : s[k] = c
    BY <1>2 DEF Members
  <2>2. \A j \in 1..k - 1 : s[j] # c
    BY <2>1 DEF OnceEach
  <2> DEFINE i == CHOOSE i \in DOMAIN s : s[i] = c /\ \A j \in 1..i - 1 : s[j] # c
             d == SubSeq(s, 1, i - 1) \o SubSeq(s, i + 1, Len(s))
  <2>3. i \in DOMAIN s /\ s[i] = c
    BY <2>1, <2>2
  <2> HIDE DEF i
  <2>4. i \in 1..Len(s) /\ Len(s) \in Nat
    BY <2>3
  <2> DEFINE u == SubSeq(s, 1, i - 1)
             v == SubSeq(s, i + 1, Len(s))
  <2>10. u \in Seq(S) /\ Len(u) = i - 1 /\ \A j \in 1..i - 1 : u[j] = s[j]
    BY <2>4
  <2>11. v \in Seq(S) /\ Len(v) = Len(s) - i /\ \A j \in 1..Len(s) - i : v[j] = s[j + i]
    BY <2>4
  <2> HIDE DEF u, v
  <2>12. /\ u \o v \in Seq(S) /\ Len(u \o v) = Len(s) - 1
        /\ \A j \in 1..Len(s) - 1 : (u \o v)[j] = IF j < i THEN s[j] ELSE s[j + 1]
    <3>1. u \o v \in Seq(S) /\ Len(u \o v) = Len(s) - 1
      <4>1. u \o v \in Seq(S) /\ Len(u \o v) = Len(u) + Len(v)
        BY <2>10, <2>11, ConcatProperties
      <4> QED
        BY <2>4, <2>10, <2>11, <4>1
    <3>2. \A j \in 1..Len(s) - 1 : (u \o v)[j] = IF j <= Len(u) THEN u[j] ELSE v[j - Len(u)]
      BY <2>4, <2>10, <2>11, SMTT(60)
    <3>3. ASSUME NEW j \in 1..Len(s) - 1, ~(j < i) PROVE v[j - Len(u)] = s[j + 1]
      <4>1. j - Len(u) \in 1..Len(s) - i
        BY <2>4, <2>10, <3>3
      <4> QED
        BY <2>4, <2>10, <2>11, <4>1
    <3> QED
      BY <2>4, <2>10, <3>1, <3>2, <3>3
  <2>5. d \in Seq(S) /\ Len(d) = Len(s) - 1
        /\ \A j \in 1..Len(d) : d[j] = IF j < i THEN s[j] ELSE s[j + 1]
    BY <2>12 DEF u, v
  <2> HIDE DEF d
  <2>6. OnceEach(d)
    <3> SUFFICES ASSUME NEW j \in 1..Len(d), NEW m \in 1..Len(d), d[j] = d[m] PROVE j = m
      BY <2>5 DEF OnceEach
    <3> DEFINE to(n) == IF n < i THEN n ELSE n + 1
    <3>1. to(j) \in 1..Len(s) /\ to(m) \in 1..Len(s) /\ d[j] = s[to(j)] /\ d[m] = s[to(m)]
      BY <2>4, <2>5
    <3>2. \A x, y \in 1..Len(s) : s[x] = s[y] => x = y
      BY <2>4 DEF OnceEach
    <3> HIDE DEF to
    <3>3. to(j) = to(m)
      BY <3>1, <3>2
    <3> QED
      BY <2>4, <2>5, <3>3 DEF to
  <2>7. ASSUME NEW x \in Members(d) PROVE x \in Members(s) /\ x # c
    <3>1. PICK j \in 1..Len(d) : x = d[j]
      BY <2>5, <2>7 DEF Members
    <3>2. PICK m \in 1..Len(s) : x = s[m] /\ m # i
      BY <2>4, <2>5, <3>1
    <3> QED
      BY <2>3, <2>4, <3>2 DEF Members, OnceEach
  <2>8. Dropped(s, c) = d
    BY <1>2 DEF Dropped, d, i
  <2> QED
    BY <2>5, <2>6, <2>7, <2>8
<1> QED
  BY <1>1, <1>2

LEMMA TailLeaves ==
    ASSUME NEW S, NEW s \in Seq(S), s # <<>>, OnceEach(s)
    PROVE  Tail(s) \in Seq(S) /\ OnceEach(Tail(s)) /\ Head(s) \in Members(s)
           /\ Members(Tail(s)) \subseteq Members(s) \ {Head(s)}
<1>1. /\ Tail(s) \in Seq(S) /\ Len(Tail(s)) = Len(s) - 1 /\ Len(s) \in Nat \ {0}
      /\ \A j \in 1..Len(s) - 1 : Tail(s)[j] = s[j + 1]
  OBVIOUS
<1>2. Head(s) = s[1]
  OBVIOUS
<1>3. DOMAIN s = 1..Len(s) /\ DOMAIN Tail(s) = 1..Len(s) - 1
  BY <1>1
<1>4. OnceEach(Tail(s))
  BY <1>1, <1>3 DEF OnceEach
<1>5. ASSUME NEW x \in Members(Tail(s)) PROVE x \in Members(s) /\ x # Head(s)
  <2>1. PICK j \in 1..Len(s) - 1 : x = s[j + 1]
    BY <1>1, <1>3, <1>5 DEF Members
  <2>2. j + 1 \in 1..Len(s) /\ j + 1 # 1
    BY <1>1, <2>1
  <2> QED
    BY <1>1, <1>2, <1>3, <2>1, <2>2 DEF Members, OnceEach
<1>6. Head(s) \in Members(s)
  BY <1>1, <1>2, <1>3 DEF Members
<1> QED
  BY <1>1, <1>4, <1>5, <1>6

LEMMA AppendLeaves ==
    ASSUME NEW S, NEW s \in Seq(S), NEW c \in S, c \notin Members(s), OnceEach(s)
    PROVE  Append(s, c) \in Seq(S) /\ OnceEach(Append(s, c))
           /\ Members(Append(s, c)) = Members(s) \cup {c}
<1>1. /\ Append(s, c) \in Seq(S) /\ Len(Append(s, c)) = Len(s) + 1 /\ Len(s) \in Nat
      /\ \A j \in 1..Len(s) : Append(s, c)[j] = s[j]
      /\ Append(s, c)[Len(s) + 1] = c
  OBVIOUS
<1>2. DOMAIN s = 1..Len(s) /\ DOMAIN Append(s, c) = 1..Len(s) + 1
  BY <1>1
<1>3. \A j \in 1..Len(s) : s[j] # c
  BY <1>2 DEF Members
<1>4. OnceEach(Append(s, c))
  BY <1>1, <1>2, <1>3 DEF OnceEach
<1>5. Members(Append(s, c)) = Members(s) \cup {c}
  BY <1>1, <1>2 DEF Members
<1> QED
  BY <1>1, <1>4, <1>5

-----------------------------------------------------------------------------
(* A handler changes one connection. *)

OthersAlone(c) ==
    \A d \in Chan \ {c} :
        /\ st'[d] = st[d] /\ peer'[d] = peer[d] /\ task'[d] = task[d]
        /\ timerID'[d] = timerID[d] /\ unanswered'[d] = unanswered[d]

\* So it keeps the invariant when c is as it should be afterwards.
LEMMA OneConnection ==
    ASSUME HInv, NEW c \in Chan, HttpTypes', OthersAlone(c),
           \A r \in htimers' : r.chan # c => r \in htimers,
           \A r \in htimers' : r.chan = c => /\ st'[c] \notin {"none", "gone"}
                                             /\ task'[c] # NoTask /\ r.id = timerID'[c],
           st'[c] \in {"none", "connecting"} => unanswered'[c] = <<>>,
           unanswered'[c] # <<>> /\ task'[c] # NoTask => unanswered'[c] = <<task'[c]>>,
           \A a \in Addr :
               /\ OnceEach(pools'[a])
               /\ Members(pools'[a]) \subseteq Members(pools[a]) \cup {c}
               /\ c \in Members(pools'[a]) =>
                   /\ st'[c] \notin {"none", "connecting", "gone"} /\ peer'[c] = a
                   /\ task'[c] = NoTask /\ unanswered'[c] = <<>>
    PROVE  HInv'
<1>1. NothingSentYet'
  BY DEF HInv, NothingSentYet, OthersAlone
<1>2. TimersKnown'
  <2> SUFFICES ASSUME NEW r \in htimers'
               PROVE  /\ st'[r.chan] \notin {"none", "gone"} /\ task'[r.chan] # NoTask
                      /\ r.id = timerID'[r.chan]
    BY DEF TimersKnown
  <2>1. CASE r.chan = c
    BY <2>1
  <2>2. CASE r.chan # c
    <3>1. r \in htimers /\ r.chan \in Chan \ {c}
      BY <2>2 DEF HInv, HttpTypes
    <3> QED
      BY <3>1 DEF HInv, TimersKnown, OthersAlone
  <2> QED
    BY <2>1, <2>2
<1>3. OwnReply'
  BY DEF HInv, OwnReply, OthersAlone
<1>4. PoolsClean'
  <2> SUFFICES ASSUME NEW a \in Addr, NEW d \in Members(pools'[a])
               PROVE  /\ st'[d] \notin {"none", "connecting", "gone"} /\ peer'[d] = a
                      /\ task'[d] = NoTask /\ unanswered'[d] = <<>>
    BY DEF PoolsClean, PoolOf
  <2>1. CASE d = c
    BY <2>1
  <2>2. CASE d # c
    <3>1. d \in Members(pools[a])
      BY <2>2
    <3>2. d \in Chan \ {c}
      BY <2>2, <3>1 DEF HInv, HttpTypes, Members
    <3> QED
      BY <3>1, <3>2 DEF HInv, PoolsClean, PoolOf, OthersAlone
  <2> QED
    BY <2>1, <2>2
<1> QED
  BY <1>1, <1>2, <1>3, <1>4 DEF HInv

\* A connection with a task is in no pool, and one without has no timer.
LEMMA TasksAndPools ==
    ASSUME HInv, NEW c \in Chan
    PROVE  /\ task[c] # NoTask \/ st[c] \in {"none", "connecting"} => \A a \in Addr : c \notin Members(pools[a])
           /\ task[c] = NoTask \/ st[c] \in {"none", "gone"} => \A r \in htimers : r.chan # c
           /\ \A r \in htimers : r.chan = c => r.id = timerID[c]
           /\ \A a \in Addr : OnceEach(pools[a])
BY DEF HInv, TimersKnown, PoolsClean, PoolOf

-----------------------------------------------------------------------------
(* Sending. *)

LEMMA TakesTaskTypes ==
    ASSUME HInv, NEW c \in Chan, NEW t \in Task, TakesTask(c, t),
           task[c] = NoTask \/ st[c] = "none"
    PROVE  /\ task' = [task EXCEPT ![c] = t] /\ attempts' \in Nat
           /\ timerID' \in [Chan -> Nat \cup {NoTimer}]
           /\ \A d \in Chan \ {c} : timerID'[d] = timerID[d]
           /\ htimers' \subseteq [id : Nat, chan : Chan, task : Task]
           /\ \A r \in htimers' : IF r.chan = c THEN r.id = timerID'[c] ELSE r \in htimers
<1>1. \A r \in htimers : r.chan # c
  BY TasksAndPools
<1>2. CASE t \in Limited
  <2> DEFINE r == [id |-> attempts, chan |-> c, task |-> t]
  <2>1. /\ timerID' = [timerID EXCEPT ![c] = attempts] /\ htimers' = htimers \cup {r}
        /\ attempts' = attempts + 1
    BY <1>2 DEF TakesTask
  <2>2. r \in [id : Nat, chan : Chan, task : Task] /\ r.chan = c /\ r.id = attempts
    BY DEF HInv, HttpTypes
  <2> HIDE DEF r
  <2> QED
    BY <1>1, <2>1, <2>2 DEF HInv, HttpTypes, TakesTask
<1>3. CASE t \notin Limited
  BY <1>1, <1>3 DEF HInv, HttpTypes, TakesTask
<1> QED
  BY <1>2, <1>3

LEMMA ConnectsKeeps ==
    ASSUME HInv, NEW c \in Chan, NEW t \in Task, Connects(c, t),
           UNCHANGED target, hfunctors' \in Seq(Task)
    PROVE  HInv'
<1>1. /\ st[c] = "none" /\ st' = [st EXCEPT ![c] = "connecting"]
      /\ peer' = [peer EXCEPT ![c] = target[t]] /\ TakesTask(c, t)
      /\ UNCHANGED <<unanswered, pools>>
  BY DEF Connects
<1>2. /\ task' = [task EXCEPT ![c] = t] /\ attempts' \in Nat
      /\ timerID' \in [Chan -> Nat \cup {NoTimer}]
      /\ \A d \in Chan \ {c} : timerID'[d] = timerID[d]
      /\ htimers' \subseteq [id : Nat, chan : Chan, task : Task]
      /\ \A r \in htimers' : IF r.chan = c THEN r.id = timerID'[c] ELSE r \in htimers
  BY <1>1, TakesTaskTypes
<1>3. HttpTypes'
  BY <1>1, <1>2 DEF HInv, HttpTypes, Stages
<1>4. OthersAlone(c)
  BY <1>1, <1>2 DEF HInv, HttpTypes, OthersAlone
<1>5. st'[c] = "connecting" /\ task'[c] = t /\ t # NoTask /\ unanswered'[c] = <<>>
  BY <1>1, <1>2, HttpAssumption DEF HInv, HttpTypes, NothingSentYet
<1>6. \A a \in Addr : OnceEach(pools'[a]) /\ c \notin Members(pools'[a])
  BY <1>1, TasksAndPools
<1> QED
  BY <1>1, <1>2, <1>3, <1>4, <1>5, <1>6, OneConnection

LEMMA ReusesKeeps ==
    ASSUME HInv, NEW t \in Task, pools[target[t]] # <<>>, NEW c, c = Head(pools[target[t]]),
           Reuses(c, t), UNCHANGED target, hfunctors' \in Seq(Task)
    PROVE  HInv'
<1> DEFINE s == pools[target[t]]
<1>1. target[t] \in Addr /\ s \in Seq(Chan) /\ PoolOf(target[t], s)
  BY DEF HInv, HttpTypes, PoolsClean
<1>2. /\ Tail(s) \in Seq(Chan) /\ OnceEach(Tail(s)) /\ c \in Members(s)
      /\ Members(Tail(s)) \subseteq Members(s) \ {c}
  BY <1>1, TailLeaves DEF PoolOf
<1>3. /\ c \in Chan /\ st[c] \notin {"none", "gone"} /\ peer[c] = target[t]
      /\ task[c] = NoTask /\ unanswered[c] = <<>>
  BY <1>1, <1>2 DEF Members, PoolOf
<1>4. pools' = [pools EXCEPT ![target[t]] = Tail(s)] /\ TakesTask(c, t) /\ peer' = peer
  BY DEF Reuses
<1> HIDE DEF s
<1>5. /\ task' = [task EXCEPT ![c] = t] /\ attempts' \in Nat
      /\ timerID' \in [Chan -> Nat \cup {NoTimer}]
      /\ \A d \in Chan \ {c} : timerID'[d] = timerID[d]
      /\ htimers' \subseteq [id : Nat, chan : Chan, task : Task]
      /\ \A r \in htimers' : IF r.chan = c THEN r.id = timerID'[c] ELSE r \in htimers
  BY <1>3, <1>4, TakesTaskTypes
<1>6. /\ st' \in [Chan -> Stages] /\ unanswered' \in [Chan -> Seq(Task \cup {NoTask})]
      /\ \A d \in Chan \ {c} : st'[d] = st[d] /\ unanswered'[d] = unanswered[d]
      /\ st'[c] \in {"connected", "doomed"} /\ unanswered'[c] \in {<<>>, <<t>>}
  <2>1. CASE st[c] = "connected"
    <3>1. unanswered' = [unanswered EXCEPT ![c] = Append(<<>>, t)] /\ st' = st
      BY <1>3, <2>1 DEF Reuses, Writes, HInv, HttpTypes
    <3>2. Append(<<>>, t) = <<t>> /\ <<t>> \in Seq(Task \cup {NoTask})
      OBVIOUS
    <3> QED
      BY <1>3, <2>1, <3>1, <3>2 DEF HInv, HttpTypes
  <2>2. CASE st[c] # "connected"
    BY <1>3, <2>2 DEF Reuses, HInv, HttpTypes, Stages
  <2> QED
    BY <2>1, <2>2
<1>7. HttpTypes'
  BY <1>1, <1>2, <1>4, <1>5, <1>6 DEF HInv, HttpTypes
<1>8. OthersAlone(c)
  BY <1>3, <1>4, <1>5, <1>6 DEF HInv, HttpTypes, OthersAlone
<1>9. task'[c] = t /\ t # NoTask
  BY <1>3, <1>5, HttpAssumption DEF HInv, HttpTypes
<1>10. \A a \in Addr : /\ OnceEach(pools'[a])
                       /\ Members(pools'[a]) \subseteq Members(pools[a]) \ {c}
  <2> SUFFICES ASSUME NEW a \in Addr
               PROVE  OnceEach(pools'[a]) /\ Members(pools'[a]) \subseteq Members(pools[a]) \ {c}
    OBVIOUS
  <2>1. CASE a = target[t]
    BY <1>2, <1>4, <2>1 DEF s, HInv, HttpTypes
  <2>2. CASE a # target[t]
    <3>1. pools'[a] = pools[a]
      BY <1>4, <2>2 DEF HInv, HttpTypes
    <3>2. c \notin Members(pools[a])
      BY <1>3, <2>2 DEF HInv, PoolsClean, PoolOf
    <3> QED
      BY <3>1, <3>2 DEF HInv, PoolsClean, PoolOf
  <2> QED
    BY <2>1, <2>2
<1> QED
  BY <1>3, <1>5, <1>6, <1>7, <1>8, <1>9, <1>10, OneConnection

-----------------------------------------------------------------------------
(* The end of a connection. *)

\* What a reply, or none, does to what is unanswered.
Answers(c) ==
    /\ unanswered' \in [Chan -> Seq(Task \cup {NoTask})]
    /\ \A d \in Chan \ {c} : unanswered'[d] = unanswered[d]

LEMMA AppendTask ==
    ASSUME NEW q \in Seq(Task), NEW t \in Task PROVE Append(q, t) \in Seq(Task)
OBVIOUS

LEMMA oncloseKeeps ==
    ASSUME HInv, NEW c \in Chan, NEW t \in Task \cup {NoTask}, NEW q \in Seq(Task), NEW fired,
           onclose(c, t, q, fired), Answers(c), UNCHANGED <<peer, target, attempts>>
    PROVE  HInv'
<1>1. /\ st' = [st EXCEPT ![c] = "gone"] /\ task' = [task EXCEPT ![c] = NoTask]
      /\ pools' = [pools EXCEPT ![peer[c]] = Dropped(@, c)]
      /\ timerID' = [timerID EXCEPT ![c] = NoTimer]
      /\ htimers' = {r \in htimers \ fired : r.id # timerID[c]}
  BY DEF onclose, Holds
<1>2. hfunctors' \in Seq(Task)
  <2>1. CASE t = NoTask
    BY <2>1 DEF onclose
  <2>2. CASE t # NoTask
    <3>1. hfunctors' \in {q, Append(q, t)}
      BY <2>2 DEF onclose
    <3> QED
      BY <2>2, <3>1, AppendTask
  <2> QED
    BY <2>1, <2>2
<1>3. /\ peer[c] \in Addr /\ pools[peer[c]] \in Seq(Chan) /\ OnceEach(pools[peer[c]])
  BY TasksAndPools DEF HInv, HttpTypes
<1>4. /\ Dropped(pools[peer[c]], c) \in Seq(Chan) /\ OnceEach(Dropped(pools[peer[c]], c))
      /\ Members(Dropped(pools[peer[c]], c)) \subseteq Members(pools[peer[c]]) \ {c}
  BY <1>3, DroppedLeaves
<1>5. HttpTypes'
  BY <1>1, <1>2, <1>3, <1>4 DEF HInv, HttpTypes, Stages, Answers
<1>6. OthersAlone(c)
  BY <1>1 DEF HInv, HttpTypes, OthersAlone, Answers
<1>7. st'[c] = "gone" /\ task'[c] = NoTask
  BY <1>1 DEF HInv, HttpTypes
<1>8. \A r \in htimers' : r \in htimers /\ r.chan # c
  BY <1>1, TasksAndPools
<1>9. ASSUME NEW a \in Addr
      PROVE  OnceEach(pools'[a]) /\ Members(pools'[a]) \subseteq Members(pools[a]) \ {c}
  <2>1. CASE a = peer[c]
    BY <1>1, <1>4, <2>1 DEF HInv, HttpTypes
  <2>2. CASE a # peer[c]
    <3>1. pools'[a] = pools[a]
      BY <1>1, <2>2 DEF HInv, HttpTypes
    <3>2. c \notin Members(pools[a])
      BY <2>2 DEF HInv, PoolsClean, PoolOf
    <3> QED
      BY <3>1, <3>2, TasksAndPools
  <2> QED
    BY <2>1, <2>2
<1> QED
  BY <1>5, <1>6, <1>7, <1>8, <1>9, OneConnection

\* A context that holds no task any more has no timer either.
LEMMA HoldsLeaves ==
    ASSUME HInv, NEW c \in Chan, NEW t \in {task[c], NoTask}, NEW fired, Holds(c, t, fired)
    PROVE  /\ task' \in [Chan -> Task \cup {NoTask}] /\ task'[c] = t
           /\ timerID' \in [Chan -> Nat \cup {NoTimer}]
           /\ \A d \in Chan \ {c} : task'[d] = task[d] /\ timerID'[d] = timerID[d]
           /\ htimers' \subseteq htimers
           /\ \A r \in htimers' : r.chan = c => t # NoTask /\ r.id = timerID'[c]
<1>1. /\ task' = [task EXCEPT ![c] = t]
      /\ htimers' = {r \in htimers \ fired : t # NoTask \/ r.id # timerID[c]}
      /\ timerID' = IF t = NoTask THEN [timerID EXCEPT ![c] = NoTimer] ELSE timerID
  BY DEF Holds
<1>2. \A r \in htimers : r.chan = c => r.id = timerID[c]
  BY TasksAndPools
<1> QED
  BY <1>1, <1>2 DEF HInv, HttpTypes

\* hio_close, when it puts the end off, leaves a closing connection.
LEMMA closeKeeps ==
    ASSUME HInv, NEW c \in Chan, task[c] # NoTask, NEW t \in {task[c], NoTask},
           NEW fired, close(c, t, hfunctors, fired), Answers(c),
           t # NoTask => unanswered' = unanswered, UNCHANGED <<peer, target, attempts>>
    PROVE  HInv'
<1>1. t \in Task \cup {NoTask} /\ hfunctors \in Seq(Task)
  BY DEF HInv, HttpTypes
<1>2. CASE ~PutOff(c)
  <2>1. onclose(c, t, hfunctors, fired)
    BY <1>2 DEF close
  <2> QED
    BY <1>1, <2>1, oncloseKeeps
<1>3. CASE PutOff(c)
  <2>1. /\ st' = [st EXCEPT ![c] = "closing"] /\ Holds(c, t, fired)
        /\ UNCHANGED <<pools, hfunctors>>
    BY <1>3 DEF close
  <2>2. /\ task' \in [Chan -> Task \cup {NoTask}] /\ task'[c] = t
        /\ timerID' \in [Chan -> Nat \cup {NoTimer}]
        /\ \A d \in Chan \ {c} : task'[d] = task[d] /\ timerID'[d] = timerID[d]
        /\ htimers' \subseteq htimers
        /\ \A r \in htimers' : r.chan = c => t # NoTask /\ r.id = timerID'[c]
    BY <2>1, HoldsLeaves
  <2>3. HttpTypes'
    BY <2>1, <2>2 DEF HInv, HttpTypes, Stages, Answers
  <2>4. OthersAlone(c) /\ st'[c] = "closing"
    BY <2>1, <2>2 DEF HInv, HttpTypes, OthersAlone, Answers
  <2>5. unanswered'[c] # <<>> /\ task'[c] # NoTask => unanswered'[c] = <<task'[c]>>
    BY <2>2 DEF HInv, OwnReply
  <2>6. \A a \in Addr : OnceEach(pools'[a]) /\ c \notin Members(pools'[a])
    BY <2>1, TasksAndPools
  <2> QED
    BY <2>1, <2>2, <2>3, <2>4, <2>5, <2>6, OneConnection
<1> QED
  BY <1>2, <1>3

-----------------------------------------------------------------------------
(* Events of a connection. *)

LEMMA AnswersNothing == ASSUME HInv, NEW c, UNCHANGED unanswered PROVE Answers(c)
BY DEF HInv, HttpTypes, Answers

LEMMA ArrivesAnswers ==
    ASSUME HInv, NEW c \in Chan, Arrives(c)
    PROVE  Answers(c) /\ (task[c] # NoTask => unanswered'[c] = <<>>)
<1>1. unanswered[c] # <<>> /\ unanswered' = [unanswered EXCEPT ![c] = Tail(@)]
  BY DEF Arrives
<1>2. Tail(unanswered[c]) \in Seq(Task \cup {NoTask})
  BY <1>1 DEF HInv, HttpTypes
<1>3. task[c] # NoTask => unanswered[c] = <<task[c]>>
  BY <1>1 DEF HInv, OwnReply
<1>4. Tail(<<task[c]>>) = <<>>
  OBVIOUS
<1> QED
  BY <1>1, <1>2, <1>3, <1>4 DEF HInv, HttpTypes, Answers

LEMMA ReplyIsFinalKeeps ==
    ASSUME HInv, NEW c \in Chan, NEW keepalive \in BOOLEAN, ReplyIsFinal(c, keepalive)
    PROVE  HInv'
<1>1. /\ Arrives(c) /\ task[c] # NoTask /\ st[c] \in {"connected", "closing"}
      /\ UNCHANGED <<target, peer, attempts>>
  BY DEF ReplyIsFinal, Arrives
<1>2. Answers(c) /\ unanswered'[c] = <<>>
  BY <1>1, ArrivesAnswers
<1>3. CASE ~keepalive
  <2>1. close(c, NoTask, hfunctors, {})
    BY <1>3 DEF ReplyIsFinal
  <2> QED
    BY <1>1, <1>2, <2>1, closeKeeps
<1>4. CASE keepalive
  <2>1. /\ pools' = [pools EXCEPT ![peer[c]] = Append(@, c)]
        /\ Holds(c, NoTask, {}) /\ UNCHANGED <<st, hfunctors>>
    BY <1>4 DEF ReplyIsFinal, Pools
  <2>2. /\ task' \in [Chan -> Task \cup {NoTask}] /\ task'[c] = NoTask
        /\ timerID' \in [Chan -> Nat \cup {NoTimer}]
        /\ \A d \in Chan \ {c} : task'[d] = task[d] /\ timerID'[d] = timerID[d]
        /\ htimers' \subseteq htimers
        /\ \A r \in htimers' : r.chan # c
    BY <2>1, HoldsLeaves
  <2>3. /\ peer[c] \in Addr /\ pools[peer[c]] \in Seq(Chan)
        /\ OnceEach(pools[peer[c]]) /\ c \notin Members(pools[peer[c]])
    BY <1>1, TasksAndPools DEF HInv, HttpTypes
  <2>4. /\ Append(pools[peer[c]], c) \in Seq(Chan) /\ OnceEach(Append(pools[peer[c]], c))
        /\ Members(Append(pools[peer[c]], c)) = Members(pools[peer[c]]) \cup {c}
    BY <2>3, AppendLeaves
  <2>5. HttpTypes'
    BY <1>1, <1>2, <2>1, <2>2, <2>3, <2>4 DEF HInv, HttpTypes, Answers
  <2>6. OthersAlone(c)
    BY <1>1, <1>2, <2>1, <2>2 DEF HInv, HttpTypes, OthersAlone, Answers
  <2>7. ASSUME NEW a \in Addr
        PROVE  /\ OnceEach(pools'[a]) /\ Members(pools'[a]) \subseteq Members(pools[a]) \cup {c}
               /\ c \in Members(pools'[a]) => peer'[c] = a
    <3>1. CASE a = peer[c]
      BY <1>1, <2>1, <2>4, <3>1 DEF HInv, HttpTypes
    <3>2. CASE a # peer[c]
      <4>1. pools'[a] = pools[a]
        BY <2>1, <3>2 DEF HInv, HttpTypes
      <4> QED
        BY <1>1, <4>1, TasksAndPools
    <3> QED
      BY <3>1, <3>2
  <2> QED
    BY <1>1, <1>2, <2>1, <2>2, <2>5, <2>6, <2>7, OneConnection
<1> QED
  BY <1>3, <1>4

LEMMA ConnectedKeeps == ASSUME HInv, NEW c \in Chan, Connected(c) PROVE HInv'
<1>1. /\ st[c] = "connecting" /\ st' = [st EXCEPT ![c] = "connected"]
      /\ unanswered' = [unanswered EXCEPT ![c] = Append(@, task[c])]
      /\ UNCHANGED <<target, hfunctors, peer, task, timerID, pools, htimers, attempts>>
  BY DEF Connected, Writes, taskvars
<1>2. unanswered[c] = <<>> /\ task[c] \in Task \cup {NoTask}
  BY <1>1 DEF HInv, HttpTypes, NothingSentYet
<1>3. Append(<<>>, task[c]) = <<task[c]>> /\ <<task[c]>> \in Seq(Task \cup {NoTask})
  BY <1>2
<1>4. unanswered' = [unanswered EXCEPT ![c] = <<task[c]>>]
  BY <1>1, <1>2, <1>3
<1>5. HttpTypes'
  BY <1>1, <1>3, <1>4 DEF HInv, HttpTypes, Stages
<1>6. OthersAlone(c) /\ st'[c] = "connected" /\ unanswered'[c] = <<task'[c]>>
  BY <1>1, <1>4 DEF HInv, HttpTypes, OthersAlone
<1>7. \A a \in Addr : OnceEach(pools'[a]) /\ c \notin Members(pools'[a])
  BY <1>1, TasksAndPools
<1>8. \A r \in htimers' : r.chan = c => task'[c] # NoTask /\ r.id = timerID'[c]
  BY <1>1, TasksAndPools
<1> QED
  BY <1>1, <1>5, <1>6, <1>7, <1>8, OneConnection

\* A step that leaves connections and timers as they are, but for answers nobody waits for.
LEMMA QuietKeeps ==
    ASSUME HInv, NEW c \in Chan, Answers(c), task[c] = NoTask \/ unanswered' = unanswered,
           unanswered[c] = <<>> => unanswered'[c] = <<>>,
           hfunctors' \in Seq(Task),
           UNCHANGED <<target, st, peer, task, timerID, pools, htimers, attempts>>
    PROVE  HInv'
<1>1. HttpTypes'
  BY DEF HInv, HttpTypes, Answers
<1>2. NothingSentYet' /\ OwnReply'
  BY DEF HInv, NothingSentYet, OwnReply, Answers
<1>3. TimersKnown'
  BY DEF HInv, TimersKnown
<1>4. PoolsClean'
  <2> SUFFICES ASSUME NEW a \in Addr, NEW d \in Members(pools[a]) PROVE unanswered'[d] = <<>>
    BY DEF HInv, PoolsClean, PoolOf
  <2>1. d \in Chan /\ unanswered[d] = <<>>
    BY DEF HInv, HttpTypes, Members, PoolsClean, PoolOf
  <2> QED
    BY <2>1 DEF Answers
<1> QED
  BY <1>1, <1>2, <1>3, <1>4 DEF HInv

LEMMA ConnectionKeeps ==
    ASSUME HInv, NEW c \in Chan,
           \/ ConnectionEnds(c) \/ Connected(c) \/ Drained(c) \/ ReplyIgnored(c)
           \/ \E keepalive \in BOOLEAN : ReplyIsFinal(c, keepalive)
    PROVE  HInv'
<1>1. task[c] \in Task \cup {NoTask} /\ hfunctors \in Seq(Task)
  BY DEF HInv, HttpTypes
<1>2. ASSUME onclose(c, task[c], hfunctors, {}), UNCHANGED <<taskvars, peer, unanswered, attempts>>
      PROVE  HInv'
  BY <1>1, <1>2, AnswersNothing, oncloseKeeps DEF taskvars
<1>3. CASE ConnectionEnds(c)
  BY <1>2, <1>3 DEF ConnectionEnds
<1>4. CASE Drained(c)
  <2>1. UNCHANGED <<taskvars, peer, unanswered, attempts>>
    BY <1>4 DEF Drained
  <2>2. CASE st[c] = "closing"
    BY <1>2, <1>4, <2>1, <2>2 DEF Drained
  <2>3. CASE st[c] # "closing"
    BY <1>1, <1>4, <2>1, <2>3, AnswersNothing, QuietKeeps DEF Drained, taskvars
  <2> QED
    BY <2>2, <2>3
<1>5. CASE ReplyIgnored(c)
  <2>1. unanswered[c] # <<>> /\ task[c] = NoTask /\ Answers(c)
    BY <1>5, ArrivesAnswers DEF ReplyIgnored, Arrives
  <2>2. UNCHANGED <<target, hfunctors, st, peer, task, timerID, pools, htimers, attempts>>
    BY <1>5 DEF ReplyIgnored, Arrives
  <2> QED
    BY <1>1, <2>1, <2>2, QuietKeeps
<1> QED
  BY <1>3, <1>4, <1>5, ConnectedKeeps, ReplyIsFinalKeeps

LEMMA TimerFiresKeeps == ASSUME HInv, NEW r \in htimers, TimerFires(r) PROVE HInv'
<1> DEFINE c == r.chan
<1>1. /\ c \in Chan /\ task[c] # NoTask /\ close(c, task[c], hfunctors, {r})
      /\ UNCHANGED <<target, peer, unanswered, attempts>>
  BY DEF TimerFires, taskvars, HInv, HttpTypes
<1> QED
  BY <1>1, AnswersNothing, closeKeeps

-----------------------------------------------------------------------------
(* The theorem. *)

\* Where no connection and no timer changes.
LEMMA NothingKeeps ==
    ASSUME HInv, hfunctors' \in Seq(Task),
           UNCHANGED <<target, st, peer, unanswered, task, timerID, pools, htimers, attempts>>
    PROVE  HInv'
BY DEF HInv, HttpTypes, NothingSentYet, TimersKnown, PoolsClean, PoolOf, OwnReply

LEMMA sendInLoopKeeps ==
    ASSUME HInv, NEW t \in Task, sendInLoop(t), hfunctors' \in Seq(Task) PROVE HInv'
<1>1. UNCHANGED target
  BY DEF sendInLoop, taskvars
<1>2. CASE Fails(t)
  BY <1>1, <1>2, NothingKeeps DEF Fails
<1>3. CASE \E c \in Chan : Connects(c, t)
  BY <1>1, <1>3, ConnectsKeeps
<1>4. CASE pools[target[t]] # <<>> /\ Reuses(Head(pools[target[t]]), t)
  BY <1>1, <1>4, ReusesKeeps
<1> QED
  BY <1>2, <1>3, <1>4 DEF sendInLoop

LEMMA HInvInit == HInit => HInv
<1> SUFFICES ASSUME HInit PROVE HInv
  OBVIOUS
<1>1. HttpTypes
  <2>1. peer \in [Chan -> Addr]
    BY HttpAssumption DEF HInit
  <2> QED
    BY <2>1 DEF HInit, HttpTypes, Stages
<1>2. NothingSentYet /\ TimersKnown /\ OwnReply
  BY DEF HInit, NothingSentYet, TimersKnown, OwnReply
<1>3. PoolsClean
  BY DEF HInit, PoolsClean, PoolOf, OnceEach, Members
<1> QED
  BY <1>1, <1>2, <1>3 DEF HInv

LEMMA HInvNext == HInv /\ [HNext]_hvars => HInv'
<1> SUFFICES ASSUME HInv, [HNext]_hvars PROVE HInv'
  OBVIOUS
<1>1. hfunctors \in Seq(Task)
  BY DEF HInv, HttpTypes
<1>2. ASSUME NEW t \in Task, send(t) PROVE HInv'
  <2>1. hfunctors' \in Seq(Task)
    BY <1>1, <1>2, AppendTask DEF send
  <2> QED
    BY <1>2, <2>1, NothingKeeps DEF send
<1>3. ASSUME NEW t \in Task, Expire(t) PROVE HInv'
  BY <1>1, <1>3, NothingKeeps DEF Expire
<1>4. ASSUME NEW t \in Task, RetryIsDue(t) PROVE HInv'
  BY <1>1, <1>4, sendInLoopKeeps DEF RetryIsDue
<1>5. CASE RunsHttpFunctor
  <2>1. hfunctors # <<>> /\ hfunctors' = Tail(hfunctors) /\ sendInLoop(Head(hfunctors))
    BY <1>5 DEF RunsHttpFunctor
  <2>2. Head(hfunctors) \in Task /\ Tail(hfunctors) \in Seq(Task)
    BY <1>1, <2>1
  <2> QED
    BY <2>1, <2>2, sendInLoopKeeps
<1>6. ASSUME NEW r \in htimers, TimerFires(r) PROVE HInv'
  BY <1>6, TimerFiresKeeps
<1>7. CASE UNCHANGED hvars
  BY <1>1, <1>7, NothingKeeps DEF hvars
<1> QED
  BY <1>2, <1>3, <1>4, <1>5, <1>6, <1>7, ConnectionKeeps DEF HNext

LEMMA HandlersSound == HInv => TimeoutHasTask /\ PooledAreIdle /\ OwnReply
BY DEF HInv, TimersKnown, TimeoutHasTask, PoolsClean, PoolOf, OnceEach, PooledAreIdle

-----------------------------------------------------------------------------
(* Where a task is, counted. *)

InQueue(q, t) == {i \in DOMAIN q : q[i] = t}
OnChan(f, t) == {c \in Chan : f[c] = t}
One(x, y) == IF x = y THEN 1 ELSE 0

LEMMA ShiftedSet ==
    ASSUME NEW S, NEW T, IsFiniteSet(S), NEW f \in [S -> T],
           \A x, y \in S : f[x] = f[y] => x = y, \A y \in T : \E x \in S : f[x] = y
    PROVE  IsFiniteSet(T) /\ Cardinality(T) = Cardinality(S)
<1>1. f \in Bijection(S, T)
  BY DEF Bijection, Injection, Surjection, IsInjective
<1>2. ExistsBijection(S, T)
  BY <1>1 DEF ExistsBijection
<1> QED
  BY <1>2, FS_Bijection

LEMMA InQueueFinite ==
    ASSUME NEW S, NEW q \in Seq(S), NEW t
    PROVE  IsFiniteSet(InQueue(q, t)) /\ Cardinality(InQueue(q, t)) \in Nat
<1>1. IsFiniteSet(1..Len(q)) /\ InQueue(q, t) \in SUBSET (1..Len(q))
  BY FS_Interval DEF InQueue
<1> QED
  BY <1>1, FS_Subset, FS_CardinalityType

LEMMA InQueueAppend ==
    ASSUME NEW S, NEW q \in Seq(S), NEW u \in S, NEW t
    PROVE  Cardinality(InQueue(Append(q, u), t)) = Cardinality(InQueue(q, t)) + One(u, t)
<1>1. /\ Len(q) \in Nat /\ DOMAIN q = 1..Len(q) /\ DOMAIN Append(q, u) = 1..Len(q) + 1
      /\ \A i \in 1..Len(q) : Append(q, u)[i] = q[i]
      /\ Append(q, u)[Len(q) + 1] = u
  OBVIOUS
<1>2. IsFiniteSet(InQueue(q, t)) /\ Cardinality(InQueue(q, t)) \in Nat
  BY InQueueFinite
<1>3. CASE u = t
  <2>1. InQueue(Append(q, u), t) = InQueue(q, t) \cup {Len(q) + 1}
    BY <1>1, <1>3 DEF InQueue
  <2>2. Len(q) + 1 \notin InQueue(q, t)
    BY <1>1 DEF InQueue
  <2> QED
    BY <1>2, <1>3, <2>1, <2>2, FS_AddElement DEF One
<1>4. CASE u # t
  <2>1. InQueue(Append(q, u), t) = InQueue(q, t)
    BY <1>1, <1>4 DEF InQueue
  <2> QED
    BY <1>2, <1>4, <2>1 DEF One
<1> QED
  BY <1>3, <1>4

LEMMA InQueueTail ==
    ASSUME NEW S, NEW q \in Seq(S), q # <<>>, NEW t
    PROVE  Cardinality(InQueue(q, t)) = Cardinality(InQueue(Tail(q), t)) + One(Head(q), t)
<1>1. /\ Len(q) \in Nat \ {0} /\ DOMAIN q = 1..Len(q) /\ DOMAIN Tail(q) = 1..Len(q) - 1
      /\ \A i \in 1..Len(q) - 1 : Tail(q)[i] = q[i + 1]
      /\ Head(q) = q[1] /\ Tail(q) \in Seq(S)
  OBVIOUS
<1> DEFINE later == InQueue(q, t) \ {1}
           shift == [i \in InQueue(Tail(q), t) |-> i + 1]
<1>2. /\ IsFiniteSet(InQueue(q, t)) /\ Cardinality(InQueue(q, t)) \in Nat
      /\ IsFiniteSet(InQueue(Tail(q), t)) /\ Cardinality(InQueue(Tail(q), t)) \in Nat
  BY <1>1, InQueueFinite
<1>3. shift \in [InQueue(Tail(q), t) -> later]
  BY <1>1 DEF InQueue
<1>4. \A x, y \in InQueue(Tail(q), t) : shift[x] = shift[y] => x = y
  BY <1>1 DEF InQueue
<1>5. ASSUME NEW y \in later PROVE \E x \in InQueue(Tail(q), t) : shift[x] = y
  <2>1. y - 1 \in InQueue(Tail(q), t) /\ y = (y - 1) + 1
    BY <1>1 DEF InQueue
  <2> QED
    BY <2>1
<1> HIDE DEF shift, later
<1>6. Cardinality(later) = Cardinality(InQueue(Tail(q), t))
  BY <1>2, <1>3, <1>4, <1>5, ShiftedSet
<1>7. 1 \in InQueue(q, t) <=> Head(q) = t
  BY <1>1 DEF InQueue
<1>8. Cardinality(later) = IF 1 \in InQueue(q, t) THEN Cardinality(InQueue(q, t)) - 1
                                                   ELSE Cardinality(InQueue(q, t))
  BY <1>2, FS_RemoveElement DEF later
<1> QED
  BY <1>2, <1>6, <1>7, <1>8 DEF One

LEMMA OnChanFinite ==
    ASSUME NEW f, NEW t
    PROVE  IsFiniteSet(OnChan(f, t)) /\ Cardinality(OnChan(f, t)) \in Nat
<1>1. IsFiniteSet(Chan) /\ OnChan(f, t) \in SUBSET Chan
  BY HttpAssumption, FS_Interval DEF OnChan, Chan
<1> QED
  BY <1>1, FS_Subset, FS_CardinalityType

LEMMA OnChanChanges ==
    ASSUME NEW f, NEW g, NEW t, NEW c \in Chan, \A d \in Chan \ {c} : g[d] = f[d]
    PROVE  Cardinality(OnChan(g, t)) + One(f[c], t) = Cardinality(OnChan(f, t)) + One(g[c], t)
<1> DEFINE others == OnChan(f, t) \ {c}
<1>1. OnChan(g, t) \ {c} = others
  BY DEF OnChan
<1>2. /\ IsFiniteSet(OnChan(f, t)) /\ Cardinality(OnChan(f, t)) \in Nat
      /\ IsFiniteSet(OnChan(g, t)) /\ Cardinality(OnChan(g, t)) \in Nat
  BY OnChanFinite
<1>3. (c \in OnChan(f, t) <=> f[c] = t) /\ (c \in OnChan(g, t) <=> g[c] = t)
  BY DEF OnChan
<1>4. Cardinality(others) = Cardinality(OnChan(f, t)) - One(f[c], t)
  <2>1. Cardinality(OnChan(f, t) \ {c}) = IF c \in OnChan(f, t) THEN Cardinality(OnChan(f, t)) - 1
                                          ELSE Cardinality(OnChan(f, t))
    BY <1>2, FS_RemoveElement
  <2> QED
    BY <1>2, <1>3, <2>1 DEF One
<1> HIDE DEF others
<1>5. Cardinality(others) = Cardinality(OnChan(g, t)) - One(g[c], t)
  <2>1. Cardinality(OnChan(g, t) \ {c}) = IF c \in OnChan(g, t) THEN Cardinality(OnChan(g, t)) - 1
                                          ELSE Cardinality(OnChan(g, t))
    BY <1>2, FS_RemoveElement
  <2>2. Cardinality(OnChan(g, t) \ {c}) = Cardinality(OnChan(g, t)) - One(g[c], t)
    BY <1>2, <1>3, <2>1 DEF One
  <2> QED
    BY <1>1, <2>2
<1>6. One(f[c], t) \in Nat /\ One(g[c], t) \in Nat
  BY DEF One
<1> QED
  BY <1>2, <1>4, <1>5, <1>6

-----------------------------------------------------------------------------
(* A task is in one place. *)

Awaiting(t) == Cardinality(InQueue(hfunctors, t))
Held(t) == Cardinality(OnChan(task, t))

PlaceTypes == given \subseteq Task /\ delayed \in [Task -> Nat] /\ calls \in [Task -> 0..2]

\* A connection that is not made has no task.
UnmadeHoldNothing == \A c \in Chan : st[c] = "none" => task[c] = NoTask

\* The inductive form: a task nobody has sent is nowhere.
PlacesInv ==
    /\ HInv /\ PlaceTypes /\ UnmadeHoldNothing
    /\ \A t \in Task : Places(t) = IF t \in given THEN 1 ELSE 0

LEMMA PlacesSum == \A t : Places(t) = Awaiting(t) + delayed[t] + Held(t) + calls[t]
BY DEF Places, Awaiting, Held, InQueue, OnChan

LEMMA CountsAreNats ==
    ASSUME PlacesInv
    PROVE  \A t \in Task : /\ Awaiting(t) \in Nat /\ delayed[t] \in Nat /\ Held(t) \in Nat
                           /\ calls[t] \in 0..2 /\ Places(t) \in {0, 1}
<1> SUFFICES ASSUME NEW t \in Task
             PROVE  /\ Awaiting(t) \in Nat /\ delayed[t] \in Nat /\ Held(t) \in Nat
                    /\ calls[t] \in 0..2 /\ Places(t) \in {0, 1}
  OBVIOUS
<1>1. hfunctors \in Seq(Task)
  BY DEF PlacesInv, HInv, HttpTypes
<1> QED
  BY <1>1, InQueueFinite, OnChanFinite DEF PlacesInv, PlaceTypes, Awaiting, Held, One

LEMMA HeldChanges ==
    ASSUME NEW u, NEW c \in Chan, \A d \in Chan \ {c} : task'[d] = task[d]
    PROVE  Held(u)' + One(task[c], u) = Held(u) + One(task'[c], u)
BY OnChanChanges DEF Held

\* A call that is not one too many is counted.
LEMMA CalledCounts ==
    ASSUME calls \in [Task -> 0..2], NEW S, Called(S)
    PROVE  /\ calls' \in [Task -> 0..2]
           /\ \A t \in Task : calls[t] < 2 => calls'[t] = calls[t] + (IF t \in S THEN 1 ELSE 0)
           /\ \A t \in Task : t \notin S => calls'[t] = calls[t]
BY DEF Called, One

\* sendInLoop puts its task on a connection or calls it back.
LEMMA sendInLoopPlaces ==
    ASSUME PlacesInv, NEW t \in Task, calls[t] = 0, sendInLoop(t)
    PROVE  /\ calls' \in [Task -> 0..2]
           /\ \A u \in Task : Held(u)' + calls'[u] = Held(u) + calls[u] + One(u, t)
<1>1. calls \in [Task -> 0..2] /\ task \in [Chan -> Task \cup {NoTask}]
  BY DEF PlacesInv, PlaceTypes, HInv, HttpTypes
<1>2. \A u \in Task : Held(u) \in Nat /\ calls[u] \in 0..2
  BY CountsAreNats
<1>3. CASE Fails(t)
  <2>1. Called({t}) /\ task' = task
    BY <1>3 DEF Fails
  <2>2. \A u \in Task : calls'[u] = calls[u] + One(u, t)
    BY <1>1, <2>1, CalledCounts DEF One
  <2>3. \A u \in Task : Held(u)' = Held(u)
    BY <2>1 DEF Held
  <2>4. calls' \in [Task -> 0..2]
    BY <1>1, <2>1, CalledCounts
  <2> QED
    BY <1>2, <2>2, <2>3, <2>4 DEF One
<1>4. ASSUME NEW c \in Chan, task[c] = NoTask, task' = [task EXCEPT ![c] = t], UNCHANGED calls
      PROVE  /\ calls' \in [Task -> 0..2]
             /\ \A u \in Task : Held(u)' + calls'[u] = Held(u) + calls[u] + One(u, t)
  <2> SUFFICES ASSUME NEW u \in Task
               PROVE  Held(u)' + calls'[u] = Held(u) + calls[u] + One(u, t)
    BY <1>1, <1>4
  <2>1. Held(u)' + One(NoTask, u) = Held(u) + One(t, u)
    <3>1. \A d \in Chan \ {c} : task'[d] = task[d]
      BY <1>1, <1>4
    <3>2. Held(u)' + One(task[c], u) = Held(u) + One(task'[c], u)
      BY <3>1, HeldChanges
    <3> QED
      BY <1>1, <1>4, <3>2
  <2>2. One(NoTask, u) = 0
    BY HttpAssumption DEF One
  <2>3. Held(u)' \in Nat
    BY OnChanFinite DEF Held
  <2> QED
    BY <1>2, <1>4, <2>1, <2>2, <2>3 DEF One
<1>5. CASE \E c \in Chan : Connects(c, t)
  <2>1. PICK c \in Chan : Connects(c, t)
    BY <1>5
  <2>2. st[c] = "none" /\ task' = [task EXCEPT ![c] = t] /\ UNCHANGED calls
    BY <2>1 DEF Connects, TakesTask
  <2>3. task[c] = NoTask
    BY <2>2 DEF PlacesInv, UnmadeHoldNothing
  <2> QED
    BY <1>4, <2>2, <2>3
<1>6. CASE pools[target[t]] # <<>> /\ Reuses(Head(pools[target[t]]), t)
  <2> DEFINE c == Head(pools[target[t]])
  <2>1. task' = [task EXCEPT ![c] = t] /\ UNCHANGED calls
    BY <1>6 DEF Reuses, TakesTask
  <2>2. c \in Chan /\ task[c] = NoTask
    <3>1. target[t] \in Addr /\ pools[target[t]] \in Seq(Chan) /\ PoolOf(target[t], pools[target[t]])
      BY DEF PlacesInv, HInv, HttpTypes, PoolsClean
    <3>2. c \in Members(pools[target[t]]) /\ c \in Chan
      BY <1>6, <3>1, TailLeaves DEF PoolOf
    <3> QED
      BY <3>1, <3>2 DEF PoolOf
  <2> HIDE DEF c
  <2> QED
    BY <1>4, <2>1, <2>2
<1> QED
  BY <1>3, <1>5, <1>6 DEF sendInLoop

\* onclose queues its task, delays it or gives it up.
LEMMA onclosePlaces ==
    ASSUME PlacesInv, NEW c \in Chan, NEW t \in Task \cup {NoTask}, t \in Task => calls[t] = 0,
           NEW q \in Seq(Task), NEW fired, onclose(c, t, q, fired), NEW S, Called(S),
           S \cap Task = GivenUp(t)
    PROVE  /\ task' = [task EXCEPT ![c] = NoTask]
           /\ delayed' \in [Task -> Nat] /\ calls' \in [Task -> 0..2]
           /\ \A u \in Task : Awaiting(u)' + delayed'[u] + calls'[u]
                 = Cardinality(InQueue(q, u)) + delayed[u] + calls[u] + One(u, t)
<1>1. calls \in [Task -> 0..2] /\ delayed \in [Task -> Nat]
  BY DEF PlacesInv, PlaceTypes
<1>2. task' = [task EXCEPT ![c] = NoTask]
  BY DEF onclose, Holds
<1>3. calls' \in [Task -> 0..2]
  BY <1>1, CalledCounts
<1>4. \A u \in Task : Cardinality(InQueue(q, u)) \in Nat /\ delayed[u] \in Nat /\ calls[u] \in 0..2
  BY <1>1, InQueueFinite
<1>5. \A u \in Task : One(u, t) \in Nat
  BY DEF One
<1> DEFINE Sum(u) == Awaiting(u)' + delayed'[u] + calls'[u]
                     = Cardinality(InQueue(q, u)) + delayed[u] + calls[u] + One(u, t)
<1>6. CASE t = NoTask
  <2>1. hfunctors' = q /\ delayed' = delayed
    BY <1>6 DEF onclose
  <2>2. \A u \in Task : u \notin S /\ One(u, t) = 0
    BY <1>6, HttpAssumption DEF GivenUp, One
  <2>3. \A u \in Task : calls'[u] = calls[u]
    BY <1>1, <2>2, CalledCounts
  <2>4. \A u \in Task : Awaiting(u)' = Cardinality(InQueue(q, u))
    BY <2>1 DEF Awaiting
  <2>5. ASSUME NEW u \in Task PROVE Sum(u)
    BY <1>4, <2>1, <2>2, <2>3, <2>4
  <2> QED
    BY <1>1, <1>2, <1>3, <2>1, <2>5
<1>7. CASE t # NoTask /\ retry_count[t] = 0
  <2>1. hfunctors' = q /\ delayed' = delayed
    BY <1>7 DEF onclose
  <2>2. \A u \in Task : u \in S <=> u = t
    BY <1>7 DEF GivenUp
  <2>3. ASSUME NEW u \in Task PROVE calls'[u] = calls[u] + One(u, t)
    <3>1. CASE u = t
      BY <1>1, <2>2, <3>1, CalledCounts DEF One
    <3>2. CASE u # t
      BY <1>1, <1>4, <2>2, <3>2, CalledCounts DEF One
    <3> QED
      BY <3>1, <3>2
  <2>4. \A u \in Task : Awaiting(u)' = Cardinality(InQueue(q, u))
    BY <2>1 DEF Awaiting
  <2>5. ASSUME NEW u \in Task PROVE Sum(u)
    BY <1>4, <1>5, <2>1, <2>3, <2>4
  <2> QED
    BY <1>1, <1>2, <1>3, <2>1, <2>5
<1>8. CASE t # NoTask /\ retry_count[t] # 0
  <2>1. \A u \in Task : u \notin S
    BY <1>8 DEF GivenUp
  <2>2. \A u \in Task : calls'[u] = calls[u]
    BY <1>1, <2>1, CalledCounts
  <2>3. CASE hfunctors' = Append(q, t) /\ delayed' = delayed
    <3>1. \A u \in Task : Awaiting(u)' = Cardinality(InQueue(q, u)) + One(u, t)
      BY <1>8, <2>3, InQueueAppend DEF Awaiting, One
    <3>2. ASSUME NEW u \in Task PROVE Sum(u)
      <4>1. /\ calls'[u] = calls[u] /\ delayed'[u] = delayed[u]
            /\ Awaiting(u)' = Cardinality(InQueue(q, u)) + One(u, t)
        BY <2>2, <2>3, <3>1
      <4>2. /\ calls[u] \in Int /\ delayed[u] \in Int /\ One(u, t) \in Int
            /\ Cardinality(InQueue(q, u)) \in Int
        BY <1>4, <1>5
      <4> QED
        BY <4>1, <4>2
    <3> QED
      BY <1>1, <1>2, <1>3, <2>3, <3>2
  <2>4. CASE hfunctors' = q /\ delayed' = [delayed EXCEPT ![t] = @ + 1]
    <3>1. delayed' \in [Task -> Nat] /\ \A u \in Task : delayed'[u] = delayed[u] + One(u, t)
      BY <1>1, <1>8, <2>4 DEF One
    <3>2. \A u \in Task : Awaiting(u)' = Cardinality(InQueue(q, u))
      BY <2>4 DEF Awaiting
    <3>3. ASSUME NEW u \in Task PROVE Sum(u)
      <4>1. /\ calls'[u] = calls[u] /\ delayed'[u] = delayed[u] + One(u, t)
            /\ Awaiting(u)' = Cardinality(InQueue(q, u))
        BY <2>2, <3>1, <3>2
      <4>2. /\ calls[u] \in Int /\ delayed[u] \in Int /\ One(u, t) \in Int
            /\ Cardinality(InQueue(q, u)) \in Int
        BY <1>4, <1>5
      <4> QED
        BY <4>1, <4>2
    <3> QED
      BY <1>1, <1>2, <1>3, <3>1, <3>3
  <2> QED
    BY <1>8, <2>3, <2>4 DEF onclose
<1> QED
  BY <1>6, <1>7, <1>8

\* A task that is anywhere else was not called back.
LEMMA UncalledElsewhere ==
    ASSUME PlacesInv, NEW t \in Task, Awaiting(t) > 0 \/ delayed[t] > 0 \/ Held(t) > 0
    PROVE  calls[t] = 0
<1>1. Awaiting(t) \in Nat /\ delayed[t] \in Nat /\ Held(t) \in Nat /\ calls[t] \in Nat
  BY CountsAreNats
<1>2. Awaiting(t) + delayed[t] + Held(t) + calls[t] \in {0, 1}
  BY CountsAreNats, PlacesSum
<1> QED
  BY <1>1, <1>2

LEMMA HeldIsUncalled ==
    ASSUME PlacesInv, NEW c \in Chan, task[c] \in Task PROVE calls[task[c]] = 0
<1>1. c \in OnChan(task, task[c])
  BY DEF OnChan
<1>2. Held(task[c]) # 0 /\ Held(task[c]) \in Nat
  BY <1>1, OnChanFinite, FS_EmptySet DEF Held
<1> QED
  BY <1>2, UncalledElsewhere

\* A context that lets its task go.
LEMMA TaskLeaves ==
    ASSUME PlacesInv, NEW c \in Chan, task' = [task EXCEPT ![c] = NoTask], NEW u \in Task
    PROVE  Held(u)' + One(u, task[c]) = Held(u) /\ Held(u)' \in Nat
<1>1. task \in [Chan -> Task \cup {NoTask}]
  BY DEF PlacesInv, HInv, HttpTypes
<1>2. \A d \in Chan \ {c} : task'[d] = task[d]
  BY <1>1
<1>3. Held(u)' + One(task[c], u) = Held(u) + One(task'[c], u)
  BY <1>2, HeldChanges
<1>4. One(task'[c], u) = 0 /\ One(task[c], u) = One(u, task[c])
  BY <1>1, HttpAssumption DEF One
<1>5. Held(u) \in Nat /\ Held(u)' \in Nat
  BY OnChanFinite DEF Held
<1> QED
  BY <1>3, <1>4, <1>5

\* A step that gives no task away keeps the sum of each.
LEMMA SumKept ==
    ASSUME PlacesInv, HInv', UnmadeHoldNothing', PlaceTypes', given' = given,
           \A u \in Task : Awaiting(u)' + delayed'[u] + Held(u)' + calls'[u]
                           = Awaiting(u) + delayed[u] + Held(u) + calls[u]
    PROVE  PlacesInv'
<1>1. \A u \in Task : Places(u)' = Awaiting(u)' + delayed'[u] + Held(u)' + calls'[u]
  BY DEF Places, Awaiting, Held, InQueue, OnChan
<1>2. \A u \in Task : Places(u)' = Places(u)
  BY <1>1, PlacesSum
<1> QED
  BY <1>2 DEF PlacesInv

\* The end of a connection moves its task, if it has one.
LEMMA oncloseMoves ==
    ASSUME PlacesInv, HInv', NEW c \in Chan, NEW fired,
           onclose(c, task[c], hfunctors, fired), Called(GivenUp(task[c])), given' = given
    PROVE  PlacesInv'
<1> DEFINE t == task[c]
<1>1. t \in Task \cup {NoTask} /\ hfunctors \in Seq(Task) /\ (t \in Task => calls[t] = 0)
  BY HeldIsUncalled DEF PlacesInv, HInv, HttpTypes
<1>2. GivenUp(t) \cap Task = GivenUp(t)
  BY DEF GivenUp
<1> HIDE DEF t
<1>3. /\ task' = [task EXCEPT ![c] = NoTask]
      /\ delayed' \in [Task -> Nat] /\ calls' \in [Task -> 0..2]
      /\ \A u \in Task : Awaiting(u)' + delayed'[u] + calls'[u]
            = Cardinality(InQueue(hfunctors, u)) + delayed[u] + calls[u] + One(u, t)
  <2>1. onclose(c, t, hfunctors, fired) /\ Called(GivenUp(t))
    BY DEF t
  <2> QED
    BY <1>1, <1>2, <2>1, onclosePlaces
<1>4. ASSUME NEW u \in Task
      PROVE  Awaiting(u)' + delayed'[u] + Held(u)' + calls'[u]
             = Awaiting(u) + delayed[u] + Held(u) + calls[u]
  <2>1. Held(u)' + One(u, t) = Held(u) /\ Held(u)' \in Nat
    BY <1>3, TaskLeaves DEF t
  <2>2. Awaiting(u)' + delayed'[u] + calls'[u] = Awaiting(u) + delayed[u] + calls[u] + One(u, t)
    BY <1>3 DEF Awaiting
  <2>3. /\ Awaiting(u) \in Nat /\ delayed[u] \in Nat /\ calls[u] \in Nat /\ One(u, t) \in Nat
        /\ delayed'[u] \in Nat /\ calls'[u] \in Nat
    BY <1>3, CountsAreNats DEF One
  <2>4. Awaiting(u)' \in Nat
    <3>1. hfunctors' \in Seq(Task)
      BY DEF HInv, HttpTypes
    <3> QED
      BY <3>1, InQueueFinite DEF Awaiting
  <2> QED
    BY <2>1, <2>2, <2>3, <2>4
<1>5. st' = [st EXCEPT ![c] = "gone"]
  BY DEF onclose
<1>6. UnmadeHoldNothing'
  BY <1>3, <1>5 DEF PlacesInv, HInv, HttpTypes, UnmadeHoldNothing
<1>7. PlaceTypes'
  BY <1>3 DEF PlacesInv, PlaceTypes
<1> QED
  BY <1>4, <1>6, <1>7, SumKept

-----------------------------------------------------------------------------
(* The handlers. *)

\* Where only what is not counted changes.
LEMMA NothingMoves ==
    ASSUME PlacesInv, HInv', UNCHANGED <<given, calls, delayed, hfunctors, task>>,
           \A c \in Chan : st'[c] = "none" => st[c] = "none"
    PROVE  PlacesInv'
<1>1. UnmadeHoldNothing'
  BY DEF PlacesInv, UnmadeHoldNothing
<1>2. PlaceTypes'
  BY DEF PlacesInv, PlaceTypes
<1>3. \A u \in Task : Awaiting(u)' = Awaiting(u) /\ Held(u)' = Held(u)
  BY DEF Awaiting, Held
<1> QED
  BY <1>1, <1>2, <1>3, SumKept

LEMMA sendPlaces == ASSUME PlacesInv, HInv', NEW t \in Task, send(t) PROVE PlacesInv'
<1>1. /\ t \notin given /\ given' = given \cup {t} /\ hfunctors' = Append(hfunctors, t)
      /\ UNCHANGED <<calls, delayed, st, task>>
  BY DEF send
<1>2. UnmadeHoldNothing' /\ PlaceTypes'
  BY <1>1 DEF PlacesInv, PlaceTypes, UnmadeHoldNothing
<1>3. ASSUME NEW u \in Task PROVE Places(u)' = IF u \in given' THEN 1 ELSE 0
  <2>1. Awaiting(u)' = Awaiting(u) + One(t, u)
    <3>1. hfunctors \in Seq(Task)
      BY DEF PlacesInv, HInv, HttpTypes
    <3> QED
      BY <1>1, <3>1, InQueueAppend DEF Awaiting
  <2>2. Held(u)' = Held(u)
    BY <1>1 DEF Held
  <2>3. Places(u)' = Awaiting(u)' + delayed'[u] + Held(u)' + calls'[u]
    BY DEF Places, Awaiting, Held, InQueue, OnChan
  <2>4. /\ Awaiting(u) \in Nat /\ delayed[u] \in Nat /\ Held(u) \in Nat /\ calls[u] \in Nat
        /\ One(t, u) \in Nat
    BY CountsAreNats DEF One
  <2>5. Places(u)' = Places(u) + One(t, u)
    BY <1>1, <2>1, <2>2, <2>3, <2>4, PlacesSum, SMTT(60)
  <2>6. Places(u) = IF u \in given THEN 1 ELSE 0
    BY DEF PlacesInv
  <2> QED
    BY <1>1, <2>5, <2>6 DEF One
<1> QED
  BY <1>2, <1>3 DEF PlacesInv

\* A functor or a retry gives its task to sendInLoop.
LEMMA sendInLoopMoves ==
    ASSUME PlacesInv, HInv', NEW t \in Task, sendInLoop(t), given' = given,
           delayed' \in [Task -> Nat],
           \A u \in Task : /\ Awaiting(u)' + delayed'[u] + One(u, t) = Awaiting(u) + delayed[u]
                           /\ Awaiting(u)' \in Nat
    PROVE  PlacesInv'
<1>1. calls[t] = 0
  <2>1. Awaiting(t) + delayed[t] # 0
    <3>1. Awaiting(t)' \in Nat /\ delayed'[t] \in Nat /\ One(t, t) = 1
      BY DEF One
    <3>2. Awaiting(t)' + delayed'[t] + One(t, t) = Awaiting(t) + delayed[t]
      OBVIOUS
    <3> QED
      BY <3>1, <3>2
  <2>2. Awaiting(t) \in Nat /\ delayed[t] \in Nat
    BY CountsAreNats
  <2> QED
    BY <2>1, <2>2, UncalledElsewhere
<1>2. /\ calls' \in [Task -> 0..2]
      /\ \A u \in Task : Held(u)' + calls'[u] = Held(u) + calls[u] + One(u, t)
  BY <1>1, sendInLoopPlaces
<1>3. PlaceTypes'
  BY <1>2 DEF PlacesInv, PlaceTypes
<1>4. ASSUME NEW u \in Task
      PROVE  Awaiting(u)' + delayed'[u] + Held(u)' + calls'[u]
             = Awaiting(u) + delayed[u] + Held(u) + calls[u]
  <2>1. /\ Awaiting(u) \in Nat /\ delayed[u] \in Nat /\ Held(u) \in Nat /\ calls[u] \in Nat
        /\ One(u, t) \in Nat /\ delayed'[u] \in Nat /\ Awaiting(u)' \in Nat
    BY CountsAreNats DEF One
  <2>2. Held(u)' \in Nat /\ calls'[u] \in Nat
    BY <1>2, OnChanFinite DEF Held
  <2>3. /\ Awaiting(u)' + delayed'[u] + One(u, t) = Awaiting(u) + delayed[u]
        /\ Held(u)' + calls'[u] = Held(u) + calls[u] + One(u, t)
    BY <1>2
  <2>4. Awaiting(u)' + delayed'[u] = Awaiting(u) + delayed[u] - One(u, t)
    BY <2>1, <2>3, SMTT(60)
  <2>5. Held(u)' + calls'[u] = Held(u) + calls[u] + One(u, t)
    BY <2>3
  <2> QED
    BY <2>1, <2>2, <2>4, <2>5
<1>5. UnmadeHoldNothing'
  <2>1. UnmadeHoldNothing /\ st \in [Chan -> Stages] /\ task \in [Chan -> Task \cup {NoTask}]
    BY DEF PlacesInv, HInv, HttpTypes
  <2>2. CASE Fails(t)
    BY <2>1, <2>2 DEF Fails, UnmadeHoldNothing
  <2>3. CASE \E c \in Chan : Connects(c, t)
    <3>1. PICK c \in Chan : Connects(c, t)
      BY <2>3
    <3> QED
      BY <2>1, <3>1 DEF Connects, TakesTask, UnmadeHoldNothing
  <2>4. CASE pools[target[t]] # <<>> /\ Reuses(Head(pools[target[t]]), t)
    <3> DEFINE c == Head(pools[target[t]])
    <3>1. /\ task' = [task EXCEPT ![c] = t]
          /\ (st' = st /\ st[c] = "connected") \/ st' = [st EXCEPT ![c] = "doomed"]
      BY <2>4 DEF Reuses, TakesTask
    <3> HIDE DEF c
    <3> QED
      BY <2>1, <3>1 DEF UnmadeHoldNothing
  <2> QED
    BY <2>2, <2>3, <2>4 DEF sendInLoop
<1> QED
  BY <1>3, <1>4, <1>5, SumKept

LEMMA functorPlaces == ASSUME PlacesInv, HInv', RunsHttpFunctor PROVE PlacesInv'
<1>1. /\ hfunctors # <<>> /\ hfunctors' = Tail(hfunctors) /\ sendInLoop(Head(hfunctors))
      /\ delayed' = delayed /\ given' = given
  BY DEF RunsHttpFunctor, sendInLoop, taskvars
<1>2. hfunctors \in Seq(Task)
  BY DEF PlacesInv, HInv, HttpTypes
<1>3. PICK t \in Task : t = Head(hfunctors)
  BY <1>1, <1>2
<1>4. ASSUME NEW u \in Task
      PROVE  Awaiting(u)' + delayed'[u] + One(u, t) = Awaiting(u) + delayed[u] /\ Awaiting(u)' \in Nat
  <2>1. Awaiting(u) = Awaiting(u)' + One(t, u)
    BY <1>1, <1>2, <1>3, InQueueTail DEF Awaiting
  <2>2. One(t, u) = One(u, t) /\ One(u, t) \in Nat
    BY DEF One
  <2>3. Awaiting(u)' \in Nat
    <3>1. hfunctors' \in Seq(Task)
      BY <1>1, <1>2
    <3> QED
      BY <3>1, InQueueFinite DEF Awaiting
  <2> QED
    BY <1>1, <2>1, <2>2, <2>3, CountsAreNats
<1>5. delayed' \in [Task -> Nat]
  BY <1>1 DEF PlacesInv, PlaceTypes
<1> QED
  BY <1>1, <1>3, <1>4, <1>5, sendInLoopMoves

LEMMA retryPlaces == ASSUME PlacesInv, HInv', NEW t \in Task, RetryIsDue(t) PROVE PlacesInv'
<1>1. /\ delayed[t] > 0 /\ delayed' = [delayed EXCEPT ![t] = @ - 1]
      /\ hfunctors' = hfunctors /\ sendInLoop(t) /\ given' = given
  BY DEF RetryIsDue, sendInLoop, taskvars
<1>2. delayed \in [Task -> Nat]
  BY DEF PlacesInv, PlaceTypes
<1>3. delayed' \in [Task -> Nat]
  BY <1>1, <1>2
<1>4. ASSUME NEW u \in Task
      PROVE  Awaiting(u)' + delayed'[u] + One(u, t) = Awaiting(u) + delayed[u] /\ Awaiting(u)' \in Nat
  <2>1. Awaiting(u)' = Awaiting(u)
    BY <1>1 DEF Awaiting
  <2>2. delayed'[u] + One(u, t) = delayed[u] /\ delayed[u] \in Nat
    BY <1>1, <1>2 DEF One
  <2>3. delayed'[u] \in Nat /\ One(u, t) \in Nat
    BY <1>3 DEF One
  <2> QED
    BY <2>1, <2>2, <2>3, CountsAreNats
<1> QED
  BY <1>1, <1>3, <1>4, sendInLoopMoves

\* A reply that is final takes its task from the context to its callback.
LEMMA ReplyIsFinalPlaces ==
    ASSUME PlacesInv, HInv', NEW c \in Chan, NEW keepalive \in BOOLEAN,
           ReplyIsFinal(c, keepalive)
    PROVE  PlacesInv'
<1>1. /\ task[c] # NoTask /\ Called({task[c]}) /\ given' = given /\ st[c] # "none"
  BY DEF ReplyIsFinal, Arrives
<1>2. /\ task \in [Chan -> Task \cup {NoTask}] /\ st \in [Chan -> Stages]
      /\ calls \in [Task -> 0..2]
  BY DEF PlacesInv, HInv, HttpTypes, PlaceTypes
<1>3. /\ task' = [task EXCEPT ![c] = NoTask] /\ hfunctors' = hfunctors /\ delayed' = delayed
      /\ \A d \in Chan : st'[d] = "none" => st[d] = "none"
  <2>1. CASE keepalive
    BY <2>1 DEF ReplyIsFinal, Holds
  <2>2. CASE ~keepalive /\ PutOff(c)
    BY <1>2, <2>2 DEF ReplyIsFinal, close, Holds
  <2>3. CASE ~keepalive /\ ~PutOff(c)
    BY <1>2, <2>3 DEF ReplyIsFinal, close, onclose, Holds
  <2> QED
    BY <2>1, <2>2, <2>3
<1>4. UnmadeHoldNothing'
  BY <1>2, <1>3 DEF PlacesInv, UnmadeHoldNothing
<1>5. calls' \in [Task -> 0..2]
  BY <1>1, <1>2, CalledCounts
<1>6. PlaceTypes'
  BY <1>1, <1>3, <1>5 DEF PlacesInv, PlaceTypes
<1>7. task[c] \in Task /\ calls[task[c]] = 0
  BY <1>1, <1>2, HeldIsUncalled
<1>8. ASSUME NEW u \in Task
      PROVE  Awaiting(u)' + delayed'[u] + Held(u)' + calls'[u]
             = Awaiting(u) + delayed[u] + Held(u) + calls[u]
  <2>1. Held(u)' + One(u, task[c]) = Held(u) /\ Held(u)' \in Nat
    BY <1>3, TaskLeaves
  <2>2. calls'[u] = calls[u] + One(u, task[c])
    <3>1. CASE u = task[c]
      BY <1>1, <1>2, <1>7, <3>1, CalledCounts DEF One
    <3>2. CASE u # task[c]
      <4>1. calls'[u] = calls[u] /\ calls[u] \in Nat /\ One(u, task[c]) = 0
        BY <1>1, <1>2, <3>2, CalledCounts DEF One
      <4> QED
        BY <4>1
    <3> QED
      BY <3>1, <3>2
  <2>3. Awaiting(u)' = Awaiting(u) /\ delayed'[u] = delayed[u]
    BY <1>3 DEF Awaiting
  <2>4. /\ Awaiting(u) \in Nat /\ delayed[u] \in Nat /\ calls[u] \in Nat
        /\ One(u, task[c]) \in Nat
    BY CountsAreNats DEF One
  <2> QED
    BY <2>1, <2>2, <2>3, <2>4
<1> QED
  BY <1>1, <1>4, <1>6, <1>8, SumKept

LEMMA TimerFiresPlaces ==
    ASSUME PlacesInv, HInv', NEW r \in htimers, TimerFires(r) PROVE PlacesInv'
<1> DEFINE c == r.chan
<1>1. /\ c \in Chan /\ close(c, task[c], hfunctors, {r})
      /\ Called(GivenUpByClose(c, task[c])) /\ given' = given
  BY DEF TimerFires, taskvars, PlacesInv, HInv, HttpTypes
<1>2. CASE ~PutOff(c)
  BY <1>1, <1>2, oncloseMoves DEF close, GivenUpByClose
<1>3. CASE PutOff(c)
  <2>1. /\ st' = [st EXCEPT ![c] = "closing"] /\ task' = [task EXCEPT ![c] = task[c]]
        /\ hfunctors' = hfunctors /\ delayed' = delayed /\ Called({})
    BY <1>1, <1>3 DEF close, Holds, GivenUpByClose
  <2>2. calls' = calls
    BY <2>1 DEF Called, PlacesInv, PlaceTypes
  <2>3. task' = task /\ \A d \in Chan : st'[d] = "none" => st[d] = "none"
    BY <2>1 DEF PlacesInv, HInv, HttpTypes
  <2> QED
    BY <1>1, <2>1, <2>2, <2>3, NothingMoves
<1> QED
  BY <1>2, <1>3

LEMMA ConnectionPlaces ==
    ASSUME PlacesInv, HInv', NEW c \in Chan,
           \/ ConnectionEnds(c) \/ Connected(c) \/ Drained(c) \/ ReplyIgnored(c)
           \/ \E keepalive \in BOOLEAN : ReplyIsFinal(c, keepalive)
    PROVE  PlacesInv'
<1>1. CASE ConnectionEnds(c)
  BY <1>1, oncloseMoves DEF ConnectionEnds, taskvars
<1>2. CASE Connected(c)
  <2>1. /\ UNCHANGED <<given, calls, delayed, hfunctors, task>>
        /\ \A d \in Chan : st'[d] = "none" => st[d] = "none"
    BY <1>2 DEF Connected, taskvars, PlacesInv, HInv, HttpTypes
  <2> QED
    BY <2>1, NothingMoves
<1>3. CASE Drained(c)
  <2>1. CASE st[c] = "closing"
    BY <1>3, <2>1, oncloseMoves DEF Drained, taskvars
  <2>2. CASE st[c] # "closing"
    BY <1>3, <2>2, NothingMoves DEF Drained, taskvars
  <2> QED
    BY <2>1, <2>2
<1>4. CASE ReplyIgnored(c)
  BY <1>4, NothingMoves DEF ReplyIgnored, Arrives
<1> QED
  BY <1>1, <1>2, <1>3, <1>4, ReplyIsFinalPlaces

LEMMA PlacesInit == HInit => PlacesInv
<1> SUFFICES ASSUME HInit PROVE PlacesInv
  OBVIOUS
<1>1. HInv
  BY HInvInit
<1>2. PlaceTypes /\ UnmadeHoldNothing
  BY DEF HInit, PlaceTypes, UnmadeHoldNothing
<1>3. ASSUME NEW t \in Task PROVE Places(t) = IF t \in given THEN 1 ELSE 0
  <2>1. {i \in DOMAIN hfunctors : hfunctors[i] = t} = {}
    BY DEF HInit
  <2>2. {c \in Chan : task[c] = t} = {}
    BY HttpAssumption DEF HInit
  <2>3. delayed[t] = 0 /\ calls[t] = 0 /\ given = {}
    BY DEF HInit
  <2> QED
    BY <2>1, <2>2, <2>3, FS_EmptySet DEF Places
<1> QED
  BY <1>1, <1>2, <1>3 DEF PlacesInv

LEMMA PlacesNext == PlacesInv /\ [HNext]_hvars => PlacesInv'
<1> SUFFICES ASSUME PlacesInv, [HNext]_hvars PROVE PlacesInv'
  OBVIOUS
<1>1. HInv'
  BY HInvNext DEF PlacesInv
<1>2. ASSUME NEW t \in Task, Expire(t) PROVE PlacesInv'
  BY <1>1, <1>2, NothingMoves DEF Expire
<1>3. CASE UNCHANGED hvars
  BY <1>1, <1>3, NothingMoves DEF hvars
<1> QED
  BY <1>1, <1>2, <1>3, sendPlaces, retryPlaces, functorPlaces, TimerFiresPlaces,
     ConnectionPlaces DEF HNext

\* Without redirections a task that was given to send is queued, delayed, on one
\* connection or called back, and in one of these places only: whatever times out,
\* is put off, is retried or comes late, its callback is called at most once and
\* it is not forgotten.
THEOREM TasksAreInOnePlace == HSpec => []OnePlace
<1>1. PlacesInv => OnePlace
  BY DEF PlacesInv, PlaceTypes, OnePlace
<1> QED
  BY PlacesInit, PlacesNext, <1>1, PTL DEF HSpec

-----------------------------------------------------------------------------
(* Attempts and their timers.                                                *)

\* No two contexts know the same timer, so none kills the other's; a connection is
\* only made for a task.
TimersApart ==
    /\ \A c \in Chan : timerID[c] # NoTimer => timerID[c] < attempts
    /\ \A c, d \in Chan : c # d /\ timerID[c] = timerID[d] => timerID[c] = NoTimer
    /\ \A c \in Chan : st[c] = "connecting" => task[c] # NoTask

Timed == TimersApart /\ AttemptsTimed

\* A handler that changes one connection keeps them so when c's timer is as it should
\* be and no other is touched.
LEMMA OneTimed ==
    ASSUME HInv, HInv', Timed, NEW c \in Chan, OthersAlone(c), attempts <= attempts',
           timerID'[c] = timerID[c] \/ timerID'[c] = NoTimer
               \/ (timerID'[c] = attempts /\ attempts < attempts'),
           \A r \in htimers : r.chan # c => r \in htimers',
           \A r \in htimers' : IF r.chan = c THEN r.task = task'[c] ELSE r \in htimers,
           st'[c] = "connecting" => task'[c] # NoTask,
           task'[c] \in Limited /\ st'[c] # "closing" => \E r \in htimers' : r.chan = c
    PROVE  Timed'
<1>1. attempts \in Nat /\ attempts' \in Nat /\ NoTimer \notin Nat
      /\ \A d \in Chan : timerID[d] \in Nat \cup {NoTimer} /\ timerID'[d] \in Nat \cup {NoTimer}
  BY HttpAssumption DEF HInv, HttpTypes
<1>2. \A d \in Chan : timerID'[d] # NoTimer => timerID'[d] < attempts'
  BY <1>1 DEF Timed, TimersApart, OthersAlone
<1>3. ASSUME NEW d \in Chan, NEW e \in Chan, d # e, timerID'[d] = timerID'[e]
      PROVE  timerID'[d] = NoTimer
  BY <1>1, <1>3 DEF Timed, TimersApart, OthersAlone
<1>4. \A d \in Chan : st'[d] = "connecting" => task'[d] # NoTask
  BY DEF Timed, TimersApart, OthersAlone
<1>5. ASSUME NEW r \in htimers' PROVE r.task = task'[r.chan]
  <2>1. CASE r.chan = c
    BY <2>1
  <2>2. CASE r.chan # c
    <3>1. r \in htimers /\ r.chan \in Chan \ {c}
      BY <2>2 DEF HInv, HttpTypes
    <3> QED
      BY <3>1 DEF Timed, AttemptsTimed, OthersAlone
  <2> QED
    BY <2>1, <2>2
<1>6. ASSUME NEW d \in Chan, task'[d] \in Limited, st'[d] # "closing"
      PROVE  \E r \in htimers' : r.chan = d
  <2>1. CASE d = c
    BY <1>6, <2>1
  <2>2. CASE d # c
    <3>1. PICK r \in htimers : r.chan = d
      BY <1>6, <2>2 DEF Timed, AttemptsTimed, OthersAlone
    <3> QED
      BY <2>2, <3>1
  <2> QED
    BY <2>1, <2>2
<1> QED
  BY <1>2, <1>3, <1>4, <1>5, <1>6 DEF Timed, TimersApart, AttemptsTimed

\* Where no connection and no timer changes.
LEMMA NothingTimed ==
    ASSUME HInv, Timed, UNCHANGED <<task, timerID, htimers, attempts>>,
           \/ UNCHANGED st
           \/ \E c \in Chan : st[c] = "connecting" /\ st' = [st EXCEPT ![c] = "connected"]
    PROVE  Timed'
<1>1. \A c \in Chan : /\ st'[c] = "connecting" => st[c] = "connecting"
                      /\ st[c] = "closing" => st'[c] = "closing"
  BY DEF HInv, HttpTypes
<1> QED
  BY <1>1 DEF Timed, TimersApart, AttemptsTimed

LEMMA TakesTaskTimed ==
    ASSUME HInv, HInv', Timed, NEW c \in Chan, NEW t \in Task, TakesTask(c, t),
           task[c] = NoTask \/ st[c] = "none",
           \A d \in Chan \ {c} : /\ st'[d] = st[d] /\ peer'[d] = peer[d]
                                 /\ unanswered'[d] = unanswered[d]
    PROVE  Timed'
<1>1. /\ task'[c] = t /\ t # NoTask /\ \A r \in htimers : r.chan # c
      /\ \A d \in Chan \ {c} : task'[d] = task[d]
  BY TasksAndPools, HttpAssumption DEF TakesTask, HInv, HttpTypes
<1>2. CASE t \in Limited
  <2> DEFINE r == [id |-> attempts, chan |-> c, task |-> t]
  <2>1. /\ timerID' = [timerID EXCEPT ![c] = attempts] /\ htimers' = htimers \cup {r}
        /\ attempts' = attempts + 1
    BY <1>2 DEF TakesTask
  <2>2. r.chan = c /\ r.task = t
    OBVIOUS
  <2> HIDE DEF r
  <2>3. OthersAlone(c) /\ timerID'[c] = attempts
    BY <1>1, <2>1 DEF OthersAlone, HInv, HttpTypes
  <2>4. attempts \in Nat
    BY DEF HInv, HttpTypes
  <2>5. \A x \in htimers' : IF x.chan = c THEN x.task = task'[c] ELSE x \in htimers
    BY <1>1, <2>1, <2>2
  <2>6. \E x \in htimers' : x.chan = c
    BY <2>1, <2>2
  <2> QED
    BY <1>1, <2>1, <2>3, <2>4, <2>5, <2>6, OneTimed
<1>3. CASE t \notin Limited
  <2>1. UNCHANGED <<attempts, timerID, htimers>>
    BY <1>3 DEF TakesTask
  <2>2. OthersAlone(c) /\ attempts \in Nat
    BY <1>1, <2>1 DEF OthersAlone, HInv, HttpTypes
  <2> QED
    BY <1>1, <1>3, <2>1, <2>2, OneTimed
<1> QED
  BY <1>2, <1>3

LEMMA sendInLoopTimed ==
    ASSUME HInv, HInv', Timed, NEW t \in Task, sendInLoop(t) PROVE Timed'
<1>1. CASE Fails(t)
  BY <1>1, NothingTimed DEF Fails
<1>2. ASSUME NEW c \in Chan, Connects(c, t) PROVE Timed'
  BY <1>2, TakesTaskTimed DEF Connects, HInv, HttpTypes
<1>3. CASE pools[target[t]] # <<>> /\ Reuses(Head(pools[target[t]]), t)
  <2> DEFINE s == pools[target[t]]
             c == Head(s)
  <2>1. target[t] \in Addr /\ s \in Seq(Chan) /\ PoolOf(target[t], s)
    BY DEF HInv, HttpTypes, PoolsClean
  <2>2. c \in Members(s) /\ c \in Chan
    BY <1>3, <2>1, TailLeaves DEF PoolOf
  <2>3. task[c] = NoTask
    BY <2>1, <2>2 DEF PoolOf
  <2>4. Reuses(c, t)
    BY <1>3
  <2> HIDE DEF c, s
  <2>5. TakesTask(c, t) /\ \A d \in Chan \ {c} : /\ st'[d] = st[d] /\ peer'[d] = peer[d]
                                                 /\ unanswered'[d] = unanswered[d]
    BY <2>2, <2>4, SMTT(60) DEF Reuses, Writes, HInv, HttpTypes
  <2> QED
    BY <2>2, <2>3, <2>5, TakesTaskTimed
<1> QED
  BY <1>1, <1>2, <1>3 DEF sendInLoop

\* A context that lets go of its task, or loses the timer that has fired, touches no
\* other context's timer.
LEMMA HoldsTimed ==
    ASSUME HInv, HInv', Timed, NEW c \in Chan, NEW t \in {task[c], NoTask}, NEW fired,
           Holds(c, t, fired), \A r \in fired : r.chan = c,
           UNCHANGED <<peer, attempts>>, Answers(c), \A d \in Chan \ {c} : st'[d] = st[d],
           t # NoTask => st'[c] = "closing",
           st'[c] # "connecting"
    PROVE  Timed'
<1>1. /\ task' = [task EXCEPT ![c] = t]
      /\ htimers' = {r \in htimers \ fired : t # NoTask \/ r.id # timerID[c]}
      /\ timerID' = IF t = NoTask THEN [timerID EXCEPT ![c] = NoTimer] ELSE timerID
  BY DEF Holds
<1>2. ASSUME NEW r \in htimers, r.chan # c PROVE r \in htimers'
  <2>1. r.chan \in Chan /\ r.id \in Nat /\ r.id = timerID[r.chan]
    BY DEF HInv, HttpTypes, TimersKnown
  <2>2. timerID[r.chan] # timerID[c]
    BY <1>2, <2>1, HttpAssumption DEF Timed, TimersApart
  <2> QED
    BY <1>1, <1>2, <2>1, <2>2
<1>3. OthersAlone(c) /\ task'[c] = t
  BY <1>1 DEF OthersAlone, Answers, HInv, HttpTypes
<1>4. timerID'[c] = timerID[c] \/ timerID'[c] = NoTimer
  BY <1>1 DEF HInv, HttpTypes
<1>5. ASSUME NEW r \in htimers', r.chan = c PROVE r.task = task'[c]
  <2>1. r \in htimers /\ t # NoTask
    BY <1>1, <1>5, TasksAndPools
  <2> QED
    BY <1>3, <1>5, <2>1 DEF Timed, AttemptsTimed
<1>6. attempts \in Nat /\ NoTask \notin Limited
  BY HttpAssumption DEF HInv, HttpTypes
<1> QED
  BY <1>1, <1>2, <1>3, <1>4, <1>5, <1>6, OneTimed

LEMMA oncloseTimed ==
    ASSUME HInv, HInv', Timed, NEW c \in Chan, NEW t, NEW q, NEW fired,
           onclose(c, t, q, fired), \A r \in fired : r.chan = c,
           UNCHANGED <<peer, attempts>>, Answers(c)
    PROVE  Timed'
<1>1. st' = [st EXCEPT ![c] = "gone"] /\ Holds(c, NoTask, fired)
  BY DEF onclose
<1>2. st'[c] = "gone" /\ \A d \in Chan \ {c} : st'[d] = st[d]
  BY <1>1 DEF HInv, HttpTypes
<1> QED
  BY <1>1, <1>2, HoldsTimed

LEMMA closeTimed ==
    ASSUME HInv, HInv', Timed, NEW c \in Chan, NEW t \in {task[c], NoTask}, NEW fired,
           close(c, t, hfunctors, fired), \A r \in fired : r.chan = c,
           UNCHANGED <<peer, attempts>>, Answers(c)
    PROVE  Timed'
<1>1. CASE PutOff(c)
  <2>1. st' = [st EXCEPT ![c] = "closing"] /\ Holds(c, t, fired)
    BY <1>1 DEF close
  <2>2. st'[c] = "closing" /\ \A d \in Chan \ {c} : st'[d] = st[d]
    BY <2>1 DEF HInv, HttpTypes
  <2> QED
    BY <2>1, <2>2, HoldsTimed
<1>2. CASE ~PutOff(c)
  BY <1>2, oncloseTimed DEF close
<1> QED
  BY <1>1, <1>2

LEMMA ConnectionTimed ==
    ASSUME HInv, HInv', Timed, NEW c \in Chan,
           \/ ConnectionEnds(c) \/ Connected(c) \/ Drained(c) \/ ReplyIgnored(c)
           \/ \E keepalive \in BOOLEAN : ReplyIsFinal(c, keepalive)
    PROVE  Timed'
<1>1. CASE ConnectionEnds(c)
  BY <1>1, AnswersNothing, oncloseTimed DEF ConnectionEnds
<1>2. CASE Connected(c)
  BY <1>2, NothingTimed DEF Connected
<1>3. CASE Drained(c)
  <2>1. CASE st[c] = "closing"
    BY <1>3, <2>1, AnswersNothing, oncloseTimed DEF Drained
  <2>2. CASE st[c] # "closing"
    BY <1>3, <2>2, NothingTimed DEF Drained
  <2> QED
    BY <2>1, <2>2
<1>4. CASE ReplyIgnored(c)
  BY <1>4, NothingTimed DEF ReplyIgnored, Arrives
<1>5. ASSUME NEW keepalive \in BOOLEAN, ReplyIsFinal(c, keepalive) PROVE Timed'
  <2>1. Answers(c) /\ UNCHANGED <<peer, attempts>> /\ st[c] \in {"connected", "closing"}
    BY <1>5, ArrivesAnswers DEF ReplyIsFinal, Arrives
  <2>2. CASE keepalive
    <3>1. Holds(c, NoTask, {}) /\ UNCHANGED st
      BY <1>5, <2>2 DEF ReplyIsFinal
    <3> QED
      BY <2>1, <3>1, HoldsTimed
  <2>3. CASE ~keepalive
    <3>1. close(c, NoTask, hfunctors, {})
      BY <1>5, <2>3 DEF ReplyIsFinal
    <3> QED
      BY <2>1, <3>1, closeTimed
  <2> QED
    BY <2>2, <2>3
<1> QED
  BY <1>1, <1>2, <1>3, <1>4, <1>5

LEMMA TimedInit == HInit => Timed
BY HttpAssumption DEF HInit, Timed, TimersApart, AttemptsTimed

LEMMA TimedNext == HInv /\ Timed /\ [HNext]_hvars => Timed'
<1> SUFFICES ASSUME HInv, Timed, [HNext]_hvars PROVE Timed'
  OBVIOUS
<1>1. HInv'
  BY HInvNext
<1>2. ASSUME NEW t \in Task, send(t) \/ Expire(t) PROVE Timed'
  BY <1>2, NothingTimed DEF send, Expire
<1>3. ASSUME NEW t \in Task, RetryIsDue(t) PROVE Timed'
  BY <1>1, <1>3, sendInLoopTimed DEF RetryIsDue
<1>4. CASE RunsHttpFunctor
  <2>1. Head(hfunctors) \in Task
    BY <1>4 DEF RunsHttpFunctor, HInv, HttpTypes
  <2> QED
    BY <1>1, <1>4, <2>1, sendInLoopTimed DEF RunsHttpFunctor
<1>5. ASSUME NEW r \in htimers, TimerFires(r) PROVE Timed'
  <2> DEFINE c == r.chan
  <2>1. /\ c \in Chan /\ close(c, task[c], hfunctors, {r})
        /\ UNCHANGED <<peer, unanswered, attempts>>
    BY <1>5 DEF TimerFires, HInv, HttpTypes
  <2> QED
    BY <1>1, <2>1, AnswersNothing, closeTimed
<1>6. CASE UNCHANGED hvars
  BY <1>6, NothingTimed DEF hvars
<1> QED
  BY <1>1, <1>2, <1>3, <1>4, <1>5, <1>6, ConnectionTimed DEF HNext

LEMMA RequestsFollow == HInv /\ Timed => RequestsSound
BY HandlersSound DEF RequestsSound, Timed

\* Without redirections the assertion of a timeout's handler holds, a pool has live
\* connections of its address, once and without a task, and a reply that a task
\* waits for on a connection is its own.  A context that is used for one task after
\* another has the timer of the task it holds and no other, though timerID is
\* overwritten and not killed; so the time of an attempt is limited from the moment
\* its task is on a channel.
THEOREM RequestsAreSound == HSpec => []RequestsSound
<1>1. HInv /\ Timed => RequestsSound
  BY RequestsFollow
<1>2. HInit => HInv /\ Timed
  BY HInvInit, TimedInit
<1>3. HInv /\ Timed /\ [HNext]_hvars => (HInv /\ Timed)'
  BY HInvNext, TimedNext
<1> QED
  BY <1>1, <1>2, <1>3, PTL DEF HSpec

-----------------------------------------------------------------------------
(* Types. *)

\* What HInv leaves open: the counters, and that nothing but tasks is sent.
HttpCounts ==
    /\ given \subseteq Task /\ expired \subseteq Task
    /\ retry_count \in [Task -> 0..Wrap - 1] /\ calls \in [Task -> 0..2]
    /\ delayed \in [Task -> Nat] /\ backlog \in [Chan -> BOOLEAN]
    /\ unanswered \in [Chan -> Seq(Task)] /\ attempts <= MaxAttempt

HttpTyped == HInv /\ Timed /\ HttpCounts

LEMMA DecrementedType ==
    ASSUME NEW n \in 0..Wrap - 1 PROVE Decremented(n) \in 0..Wrap - 1
<1> DEFINE a == n + Wrap - 1
<1>1. a \in Int /\ Wrap \in Nat \ {0}
  BY HttpAssumption
<1> HIDE DEF a
<1>2. a % Wrap \in 0..Wrap - 1
  BY <1>1
<1> QED
  BY <1>2 DEF Decremented, a

LEMMA CalledType == ASSUME HttpCounts, NEW S, Called(S) PROVE calls' \in [Task -> 0..2]
BY CalledCounts DEF HttpCounts

LEMMA WritesType ==
    ASSUME HttpCounts, NEW c \in Chan, NEW t \in Task, Writes(c, t)
    PROVE  backlog' \in [Chan -> BOOLEAN] /\ unanswered' \in [Chan -> Seq(Task)]
<1>1. Append(unanswered[c], t) \in Seq(Task)
  BY AppendTask DEF HttpCounts
<1>2. unanswered' \in [Chan -> Seq(Task)]
  BY <1>1 DEF HttpCounts, Writes
<1>3. backlog' \in [Chan -> BOOLEAN]
  BY DEF HttpCounts, Writes
<1> QED
  BY <1>2, <1>3

LEMMA sendInLoopCounts ==
    ASSUME HInv, HttpCounts, NEW t \in Task, sendInLoop(t)
    PROVE  /\ calls' \in [Task -> 0..2] /\ backlog' \in [Chan -> BOOLEAN]
           /\ unanswered' \in [Chan -> Seq(Task)] /\ attempts' <= MaxAttempt
           /\ UNCHANGED <<given, expired, retry_count>>
<1>1. UNCHANGED <<given, expired, retry_count>>
  BY DEF sendInLoop, taskvars
<1>2. CASE Fails(t)
  BY <1>1, <1>2, CalledType DEF Fails, HttpCounts
<1>3. ASSUME NEW c \in Chan, TakesTask(c, t), attempts < MaxAttempt PROVE attempts' <= MaxAttempt
  BY <1>3, HttpAssumption DEF TakesTask, HInv, HttpTypes
<1>4. ASSUME NEW c \in Chan, Connects(c, t), attempts < MaxAttempt
      PROVE  /\ calls' \in [Task -> 0..2] /\ backlog' \in [Chan -> BOOLEAN]
             /\ unanswered' \in [Chan -> Seq(Task)] /\ attempts' <= MaxAttempt
  BY <1>3, <1>4 DEF Connects, HttpCounts
<1>5. ASSUME pools[target[t]] # <<>>, Reuses(Head(pools[target[t]]), t), attempts < MaxAttempt
      PROVE  /\ calls' \in [Task -> 0..2] /\ backlog' \in [Chan -> BOOLEAN]
             /\ unanswered' \in [Chan -> Seq(Task)] /\ attempts' <= MaxAttempt
  <2> DEFINE c == Head(pools[target[t]])
  <2>1. pools[target[t]] \in Seq(Chan)
    BY DEF HInv, HttpTypes
  <2>2. c \in Chan
    BY <1>5, <2>1
  <2> HIDE DEF c
  <2>3. TakesTask(c, t) /\ UNCHANGED calls /\ (Writes(c, t) \/ UNCHANGED <<unanswered, backlog>>)
    BY <1>5 DEF Reuses, c
  <2> QED
    BY <1>3, <1>5, <2>2, <2>3, WritesType DEF HttpCounts
<1> QED
  BY <1>1, <1>2, <1>4, <1>5 DEF sendInLoop

LEMMA oncloseCounts ==
    ASSUME HttpCounts, NEW c, NEW t \in Task \cup {NoTask}, NEW q, NEW fired,
           onclose(c, t, q, fired)
    PROVE  retry_count' \in [Task -> 0..Wrap - 1] /\ delayed' \in [Task -> Nat]
<1>1. CASE t = NoTask
  BY <1>1 DEF onclose, HttpCounts
<1>2. CASE t # NoTask
  <2>1. Decremented(retry_count[t]) \in 0..Wrap - 1
    BY <1>2, DecrementedType DEF HttpCounts
  <2>2. retry_count' = [retry_count EXCEPT ![t] = Decremented(retry_count[t])]
        /\ (UNCHANGED delayed \/ delayed' = [delayed EXCEPT ![t] = @ + 1])
    BY <1>2 DEF onclose
  <2>3. retry_count' \in [Task -> 0..Wrap - 1]
    BY <1>2, <2>1, <2>2 DEF HttpCounts
  <2>4. delayed' \in [Task -> Nat]
    <3>1. delayed[t] + 1 \in Nat
      BY <1>2 DEF HttpCounts
    <3> QED
      BY <2>2, <3>1 DEF HttpCounts
  <2> QED
    BY <2>3, <2>4
<1> QED
  BY <1>1, <1>2

LEMMA closeCounts ==
    ASSUME HttpCounts, NEW c, NEW t \in Task \cup {NoTask}, NEW fired,
           close(c, t, hfunctors, fired)
    PROVE  retry_count' \in [Task -> 0..Wrap - 1] /\ delayed' \in [Task -> Nat]
<1>1. CASE PutOff(c)
  BY <1>1 DEF close, HttpCounts
<1>2. CASE ~PutOff(c)
  BY <1>2, oncloseCounts DEF close
<1> QED
  BY <1>1, <1>2

LEMMA ArrivesType ==
    ASSUME HttpCounts, NEW c \in Chan, Arrives(c)
    PROVE  unanswered' \in [Chan -> Seq(Task)] /\ UNCHANGED <<given, expired, backlog, attempts>>
<1>1. Tail(unanswered[c]) \in Seq(Task)
  BY DEF Arrives, HttpCounts
<1> QED
  BY <1>1 DEF Arrives, HttpCounts

LEMMA ConnectionCounts ==
    ASSUME HttpTyped, NEW c \in Chan,
           \/ ConnectionEnds(c) \/ Connected(c) \/ Drained(c) \/ ReplyIgnored(c)
           \/ \E keepalive \in BOOLEAN : ReplyIsFinal(c, keepalive)
    PROVE  HttpCounts'
<1> USE DEF HttpTyped
<1>1. task[c] \in Task \cup {NoTask}
  BY DEF HInv, HttpTypes
<1>2. CASE ConnectionEnds(c)
  BY <1>1, <1>2, CalledType, oncloseCounts DEF ConnectionEnds, taskvars, HttpCounts
<1>3. CASE Connected(c)
  <2>1. task[c] \in Task
    BY <1>1, <1>3 DEF Connected, Timed, TimersApart
  <2>2. Writes(c, task[c]) /\ UNCHANGED <<given, expired, retry_count, calls, delayed, attempts>>
    BY <1>3 DEF Connected, taskvars
  <2> QED
    BY <2>1, <2>2, WritesType DEF HttpCounts
<1>4. CASE Drained(c)
  <2>1. backlog' \in [Chan -> BOOLEAN] /\ UNCHANGED <<given, expired, unanswered, attempts>>
    BY <1>4 DEF Drained, taskvars, HttpCounts
  <2>2. /\ calls' \in [Task -> 0..2] /\ retry_count' \in [Task -> 0..Wrap - 1]
        /\ delayed' \in [Task -> Nat]
    <3>1. CASE st[c] = "closing"
      BY <1>1, <1>4, <3>1, CalledType, oncloseCounts DEF Drained
    <3>2. CASE st[c] # "closing"
      BY <1>4, <3>2 DEF Drained, HttpCounts
    <3> QED
      BY <3>1, <3>2
  <2> QED
    BY <2>1, <2>2 DEF HttpCounts
<1>5. CASE ReplyIgnored(c)
  BY <1>5, ArrivesType DEF ReplyIgnored, HttpCounts
<1>6. ASSUME NEW keepalive \in BOOLEAN, ReplyIsFinal(c, keepalive) PROVE HttpCounts'
  <2>1. unanswered' \in [Chan -> Seq(Task)] /\ UNCHANGED <<given, expired, backlog, attempts>>
        /\ calls' \in [Task -> 0..2]
    BY <1>6, ArrivesType, CalledType DEF ReplyIsFinal
  <2>2. retry_count' \in [Task -> 0..Wrap - 1] /\ delayed' \in [Task -> Nat]
    BY <1>6, closeCounts DEF ReplyIsFinal, HttpCounts
  <2> QED
    BY <2>1, <2>2 DEF HttpCounts
<1> QED
  BY <1>2, <1>3, <1>4, <1>5, <1>6

LEMMA HttpTypedInit == HInit => HttpTyped
<1> SUFFICES ASSUME HInit PROVE HttpTyped
  OBVIOUS
<1>1. retry_count \in [Task -> 0..Wrap - 1] /\ attempts <= MaxAttempt
  <2>1. retry_count \in [Task -> RetryCounts] /\ attempts = 0
    BY DEF HInit
  <2>2. RetryCounts \subseteq 0..Wrap - 1 /\ MaxAttempt \in Nat
    BY HttpAssumption
  <2>3. [Task -> RetryCounts] \subseteq [Task -> 0..Wrap - 1]
    BY <2>2
  <2> QED
    BY <2>1, <2>2, <2>3
<1>2. HttpCounts
  BY <1>1 DEF HInit, HttpCounts
<1> QED
  BY <1>2, HInvInit, TimedInit DEF HttpTyped

LEMMA HttpTypedNext == HttpTyped /\ [HNext]_hvars => HttpTyped'
<1> SUFFICES ASSUME HttpTyped, [HNext]_hvars PROVE HttpTyped'
  OBVIOUS
<1>1. HInv' /\ Timed'
  BY HInvNext, TimedNext DEF HttpTyped
<1>2. ASSUME NEW t \in Task, send(t) \/ Expire(t) PROVE HttpCounts'
  BY <1>2 DEF send, Expire, HttpTyped, HttpCounts
<1>3. ASSUME NEW t \in Task, RetryIsDue(t) PROVE HttpCounts'
  <2>1. delayed' \in [Task -> Nat]
    BY <1>3 DEF RetryIsDue, HttpTyped, HttpCounts
  <2> QED
    BY <1>3, <2>1, sendInLoopCounts DEF RetryIsDue, HttpTyped, HttpCounts
<1>4. ASSUME RunsHttpFunctor PROVE HttpCounts'
  <2>1. Head(hfunctors) \in Task /\ sendInLoop(Head(hfunctors)) /\ UNCHANGED delayed
    BY <1>4 DEF RunsHttpFunctor, HttpTyped, HInv, HttpTypes
  <2> QED
    BY <2>1, sendInLoopCounts DEF HttpTyped, HttpCounts
<1>5. ASSUME NEW r \in htimers, TimerFires(r) PROVE HttpCounts'
  <2> DEFINE c == r.chan
  <2>1. /\ task[c] \in Task \cup {NoTask} /\ close(c, task[c], hfunctors, {r})
        /\ Called(GivenUpByClose(c, task[c]))
        /\ UNCHANGED <<given, expired, backlog, unanswered, attempts>>
    BY <1>5 DEF TimerFires, taskvars, HttpTyped, HInv, HttpTypes
  <2>2. retry_count' \in [Task -> 0..Wrap - 1] /\ delayed' \in [Task -> Nat]
    BY <2>1, closeCounts DEF HttpTyped
  <2>3. calls' \in [Task -> 0..2]
    BY <2>1, CalledType DEF HttpTyped
  <2> QED
    BY <2>1, <2>2, <2>3 DEF HttpTyped, HttpCounts
<1>6. ASSUME UNCHANGED hvars PROVE HttpCounts'
  BY <1>6 DEF hvars, HttpTyped, HttpCounts
<1>7. HttpCounts'
  BY <1>2, <1>3, <1>4, <1>5, <1>6, ConnectionCounts DEF HNext
<1> QED
  BY <1>1, <1>7 DEF HttpTyped

LEMMA HttpTypedOK == HttpTyped => HTypeOK
BY DEF HttpTyped, HttpCounts, HInv, HttpTypes, Stages, HTypeOK

\* Every variable of AsyncHttpClient keeps its type, the retry counter that is
\* decremented at zero included; only tasks are queued and written, never a context
\* without one.
THEOREM HttpTypeCorrect == HSpec => []HTypeOK
BY HttpTypedInit, HttpTypedNext, HttpTypedOK, PTL DEF HSpec
=============================================================================
