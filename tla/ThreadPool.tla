----------------------------- MODULE ThreadPool -----------------------------
(* HThreadPool of cpputil/hthreadpool.h: workers that come and go between a  *)
(* least and a greatest number, tasks queued under task_mutex, counters that *)
(* are atomic one by one, and wait, which reads three of them.  Committers   *)
(* are threads that call commit; the owner also calls wait, pause, resume    *)
(* and, when the committers are done, stop.  The list of thread objects and  *)
(* thread_mutex around it are left out.                                      *)
EXTENDS Integers, Sequences, FiniteSets

CONSTANTS
    Committer, Worker, Task,
    MinThreads, MaxThreads,      \* min_thread_num, max_thread_num
    NoTask, NoWorker

ASSUME ThreadPoolAssumption ==
    /\ MinThreads \in Nat \ {0} /\ MaxThreads \in Nat /\ MinThreads <= MaxThreads
    /\ NoTask \notin Task /\ NoWorker \notin Worker
    /\ IsFiniteSet(Worker) /\ IsFiniteSet(Committer)

VARIABLES
    pstatus,             \* "STOP", "RUNNING" or "PAUSE"
    cur_num, idle_num,   \* cur_thread_num, idle_thread_num
    tasks,
    cpc, to_create, new, \* per committer: where it is; threads it has yet to create;
                         \* the one it has started and not added
    item,                \* per committer: the task it commits
    wpc, job,            \* per worker: where it is; the task it runs
    task_mutex,          \* its holder, where one holds it over a step
    owner,               \* the owner in wait or stop
    saw_idle,            \* what wait read
    committed, done,     \* tasks given to commit; tasks that have run
    leavers, awaited     \* threads that leave while wait reads; tasks it waits for

pvars == <<pstatus, cur_num, idle_num, tasks, cpc, to_create, new, item, wpc, job, task_mutex,
           owner, saw_idle, committed, done, leavers, awaited>>
committing == <<cpc, to_create, new, item, committed>>
working == <<wpc, job, done>>
waiting == <<owner, saw_idle, leavers, awaited>>
counters == <<cur_num, idle_num>>

PInit ==
    /\ pstatus = "STOP" /\ cur_num = 0 /\ idle_num = 0 /\ tasks = <<>>
    /\ cpc = [c \in Committer |-> "out"] /\ to_create = [c \in Committer |-> 0]
    /\ new = [c \in Committer |-> NoWorker] /\ item = [c \in Committer |-> NoTask]
    /\ wpc = [w \in Worker |-> "none"] /\ job = [w \in Worker |-> NoTask]
    /\ task_mutex = NoWorker
    /\ owner = "out" /\ saw_idle = 0 /\ leavers = 0 /\ awaited = {}
    /\ committed = {} /\ done = {}

CommitterGoes(c, from, to) == cpc[c] = from /\ cpc' = [cpc EXCEPT ![c] = to]
Turns(w, from, to) == wpc[w] = from /\ wpc' = [wpc EXCEPT ![w] = to]

-----------------------------------------------------------------------------
(* commit; start when the pool is stopped *)

Commits(c, t) ==
    /\ owner \notin {"notifies", "joins"} /\ t \notin committed
    /\ CommitterGoes(c, "out", IF pstatus = "STOP" THEN "starts" ELSE "decides")
    /\ committed' = committed \cup {t} /\ item' = [item EXCEPT ![c] = t]
    /\ UNCHANGED <<pstatus, counters, tasks, to_create, new, working, task_mutex, waiting>>

StartsPool(c) ==
    /\ IF pstatus # "STOP"
       THEN CommitterGoes(c, "starts", "decides") /\ UNCHANGED <<pstatus, to_create>>
       ELSE /\ CommitterGoes(c, "starts", "creates") /\ pstatus' = "RUNNING"
            /\ to_create' = [to_create EXCEPT ![c] = MinThreads]
    /\ UNCHANGED <<counters, tasks, new, item, committed, working, task_mutex, waiting>>

(* An int is compared with a size_t: a negative one counts as very large. *)
TooFewIdle == idle_num \in 0..Len(tasks) /\ cur_num < MaxThreads

Decides(c) ==
    /\ CommitterGoes(c, "decides", IF TooFewIdle THEN "extends" ELSE "pushes")
    /\ UNCHANGED <<pstatus, counters, tasks, to_create, new, item, committed, working, task_mutex, waiting>>

(* createThread: the thread runs before addThread counts it. *)
CreatesThread(c) ==
    /\ cpc[c] \in {"creates", "extends"}
    /\ IF cur_num >= MaxThreads \/ (cpc[c] = "creates" /\ to_create[c] = 0)
       THEN /\ CommitterGoes(c, cpc[c], IF cpc[c] = "creates" THEN "decides" ELSE "pushes")
            /\ UNCHANGED <<to_create, new, wpc>>
       ELSE \E w \in Worker :
            /\ Turns(w, "none", "top") /\ new' = [new EXCEPT ![c] = w]
            /\ CommitterGoes(c, cpc[c], IF cpc[c] = "creates" THEN "adds" ELSE "adds one")
            /\ to_create' = [to_create EXCEPT ![c] = IF cpc[c] = "creates" THEN @ - 1 ELSE 0]
    /\ UNCHANGED <<pstatus, counters, tasks, item, committed, job, done, task_mutex, waiting>>

(* addThread, its two counts *)
AddsCur(c) ==
    /\ cpc[c] \in {"adds", "adds one"} /\ new[c] # NoWorker
    /\ cur_num' = cur_num + 1 /\ new' = [new EXCEPT ![c] = NoWorker]
    /\ UNCHANGED <<pstatus, idle_num, tasks, cpc, to_create, item, committed, working, task_mutex, waiting>>

AddsIdle(c) ==
    /\ cpc[c] \in {"adds", "adds one"} /\ new[c] = NoWorker
    /\ idle_num' = idle_num + 1
    /\ CommitterGoes(c, cpc[c], IF cpc[c] = "adds" THEN "creates" ELSE "pushes")
    /\ UNCHANGED <<pstatus, cur_num, tasks, to_create, new, item, committed, working, task_mutex, waiting>>

Pushes(c) ==
    /\ task_mutex = NoWorker
    /\ CommitterGoes(c, "pushes", "notifies") /\ tasks' = Append(tasks, item[c])
    /\ UNCHANGED <<pstatus, counters, to_create, new, item, committed, working, task_mutex, waiting>>

Sleeping == {w \in Worker : wpc[w] = "waits"}

Notifies(c) ==
    /\ CommitterGoes(c, "notifies", "out")
    /\ IF Sleeping = {} THEN UNCHANGED wpc
       ELSE \E w \in Sleeping : Turns(w, "waits", "locks")
    /\ item' = [item EXCEPT ![c] = NoTask]
    /\ UNCHANGED <<pstatus, counters, tasks, to_create, new, committed, job, done, task_mutex, waiting>>

-----------------------------------------------------------------------------
(* A worker. *)

LoopsAgain(w) ==
    /\ pstatus # "PAUSE"
    /\ Turns(w, "top", IF pstatus = "STOP" THEN "none" ELSE "locks")
    /\ UNCHANGED <<pstatus, counters, tasks, committing, job, done, task_mutex, waiting>>

Takes_uncounted(w) ==
    /\ job' = [job EXCEPT ![w] = Head(tasks)] /\ tasks' = Tail(tasks)
    /\ UNCHANGED idle_num

Takes(w) ==
    /\ job' = [job EXCEPT ![w] = Head(tasks)] /\ tasks' = Tail(tasks)
    /\ idle_num' = idle_num - 1

MayLeave_last == cur_num >= MinThreads

MayLeave == cur_num > MinThreads

(* It has task_mutex: wait_for's predicate, or its timeout (late), and what  *)
(* follows.                                                                  *)
Locked(w, late) ==
    /\ task_mutex = NoWorker
    /\ IF pstatus = "STOP"
       THEN Turns(w, wpc[w], "none") /\ UNCHANGED <<tasks, job, task_mutex, idle_num>>
       ELSE IF tasks # <<>>
       THEN Turns(w, wpc[w], "runs") /\ Takes(w) /\ UNCHANGED task_mutex
       ELSE /\ UNCHANGED <<tasks, job, idle_num>>
            /\ IF ~late THEN Turns(w, wpc[w], "waits") /\ UNCHANGED task_mutex
               ELSE IF MayLeave THEN Turns(w, wpc[w], "leaves") /\ task_mutex' = w
               ELSE Turns(w, wpc[w], "top") /\ UNCHANGED task_mutex
    /\ UNCHANGED <<pstatus, cur_num, committing, done, waiting>>

WorkerLocks(w) == wpc[w] = "locks" /\ Locked(w, FALSE)

WorkerTimesOut(w) == wpc[w] = "waits" /\ Locked(w, TRUE)

(* delThread, its two counts *)
LeavesCur(w) ==
    /\ Turns(w, "leaves", "left") /\ cur_num' = cur_num - 1
    /\ leavers' = leavers + 1
    /\ UNCHANGED <<pstatus, idle_num, tasks, committing, job, done, task_mutex, owner, saw_idle, awaited>>

LeavesIdle(w) ==
    /\ Turns(w, "left", "none") /\ idle_num' = idle_num - 1 /\ task_mutex' = NoWorker
    /\ leavers' = IF owner = "reads cur" THEN leavers ELSE leavers - 1
    /\ UNCHANGED <<pstatus, cur_num, tasks, committing, job, done, owner, saw_idle, awaited>>

Runs(w) ==
    /\ Turns(w, "runs", "ran") /\ done' = done \cup {job[w]} /\ job' = [job EXCEPT ![w] = NoTask]
    /\ UNCHANGED <<pstatus, counters, tasks, committing, task_mutex, waiting>>

Ran(w) ==
    /\ Turns(w, "ran", "top") /\ idle_num' = idle_num + 1
    /\ UNCHANGED <<pstatus, cur_num, tasks, committing, job, done, task_mutex, waiting>>

-----------------------------------------------------------------------------
(* The owner. *)

Pauses ==
    /\ owner = "out" /\ pstatus = "RUNNING" /\ pstatus' = "PAUSE"
    /\ UNCHANGED <<counters, tasks, committing, working, task_mutex, waiting>>

Resumes ==
    /\ owner = "out" /\ pstatus = "PAUSE" /\ pstatus' = "RUNNING"
    /\ UNCHANGED <<counters, tasks, committing, working, task_mutex, waiting>>

Committing == \E c \in Committer : cpc[c] # "out"

(* wait looks at the tasks, at idle_thread_num and at cur_thread_num. *)
OwnerWaits ==
    /\ owner = "out" /\ pstatus = "RUNNING"
    /\ owner' = "reads tasks" /\ awaited' = committed \ {item[c] : c \in Committer}
    /\ UNCHANGED <<pstatus, counters, tasks, committing, working, task_mutex, saw_idle, leavers>>

ReadsTasks ==
    /\ owner = "reads tasks" /\ tasks = <<>> /\ owner' = "reads idle"
    /\ UNCHANGED <<pstatus, counters, tasks, committing, working, task_mutex, saw_idle, leavers, awaited>>

ReadsIdle ==
    /\ owner = "reads idle" /\ owner' = "reads cur" /\ saw_idle' = idle_num
    /\ UNCHANGED <<pstatus, counters, tasks, committing, working, task_mutex, leavers, awaited>>

Leaving == {w \in Worker : wpc[w] = "left"}

ReadsCur ==
    /\ owner = "reads cur"
    /\ IF saw_idle = cur_num
       THEN owner' = "out" /\ awaited' = {}
       ELSE owner' = "reads tasks" /\ UNCHANGED awaited
    /\ leavers' = Cardinality(Leaving)
    /\ UNCHANGED <<pstatus, counters, tasks, committing, working, task_mutex, saw_idle>>

(* stop stores the status without task_mutex, notifies and joins. *)
Stops ==
    /\ owner = "out" /\ ~Committing /\ pstatus # "STOP"
    /\ pstatus' = "STOP" /\ owner' = "notifies"
    /\ UNCHANGED <<counters, tasks, committing, working, task_mutex, saw_idle, leavers, awaited>>

StopNotifies ==
    /\ owner = "notifies" /\ owner' = "joins"
    /\ wpc' = [w \in Worker |-> IF w \in Sleeping THEN "locks" ELSE wpc[w]]
    /\ UNCHANGED <<pstatus, counters, tasks, committing, job, done, task_mutex, saw_idle, leavers, awaited>>

StopJoined ==
    /\ owner = "joins" /\ \A w \in Worker : wpc[w] = "none"
    /\ owner' = "out" /\ cur_num' = 0 /\ idle_num' = 0
    /\ UNCHANGED <<pstatus, tasks, committing, working, task_mutex, saw_idle, leavers, awaited>>

CommitterSteps(c) ==
    \/ StartsPool(c) \/ Decides(c) \/ CreatesThread(c) \/ AddsCur(c) \/ AddsIdle(c)
    \/ Pushes(c) \/ Notifies(c)
WorkerSteps(w) ==
    \/ LoopsAgain(w) \/ WorkerLocks(w) \/ WorkerTimesOut(w) \/ LeavesCur(w) \/ LeavesIdle(w)
    \/ Runs(w) \/ Ran(w)
OwnerSteps == ReadsTasks \/ ReadsIdle \/ ReadsCur \/ StopNotifies \/ StopJoined

PNext ==
    \/ \E c \in Committer : CommitterSteps(c) \/ \E t \in Task : Commits(c, t)
    \/ \E w \in Worker : WorkerSteps(w)
    \/ OwnerSteps \/ Pauses \/ Resumes \/ OwnerWaits \/ Stops

(* Threads run, tasks return and waits end. *)
PFair ==
    /\ \A c \in Committer : WF_pvars(CommitterSteps(c))
    /\ \A w \in Worker : WF_pvars(WorkerSteps(w))
    /\ WF_pvars(OwnerSteps)
PSpec == PInit /\ [][PNext]_pvars /\ PFair

-----------------------------------------------------------------------------
(* Properties. *)

(* What the variables hold. *)
PTypeOK ==
    /\ pstatus \in {"STOP", "RUNNING", "PAUSE"}
    /\ cur_num \in Nat /\ idle_num \in Int /\ tasks \in Seq(Task)
    /\ to_create \in [Committer -> 0..MinThreads] /\ new \in [Committer -> Worker \cup {NoWorker}]
    /\ item \in [Committer -> Task \cup {NoTask}] /\ job \in [Worker -> Task \cup {NoTask}]
    /\ task_mutex \in Worker \cup {NoWorker}
    /\ committed \subseteq Task /\ done \subseteq committed /\ leavers \in Nat

(* wait, which holds no mutex and reads the queue and two counters one after *)
(* the other, returns when the tasks it waits for have run: but it takes a   *)
(* thread that is leaving, counted off cur_thread_num and not yet off        *)
(* idle_thread_num, for one that has finished, and returns that much early.  *)
WaitMeansDone ==
    [][owner = "reads cur" /\ owner' = "out" => Cardinality(awaited \ done) <= leavers]_pvars

(* Every task that was committed runs, unless the pool is paused or stopped: *)
(* commit decides on a new thread before it queues the task, and the thread  *)
(* it counts on may be about to leave.                                       *)
TasksRun == \A t \in Task : (t \in committed) ~> (t \in done \/ pstatus # "RUNNING")

(* stop ends, though it stores the status without task_mutex and its notify  *)
(* may come before a worker waits.                                           *)
StopEnds == (owner = "notifies") ~> (owner = "out")
=============================================================================
