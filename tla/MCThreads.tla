----------------------------- MODULE MCThreads ------------------------------
(* Parts of the library that threads share, checked in one run: each         *)
(* behaviour is a behaviour of one of them, the others do not move.          *)
EXTENDS Queue, EventLoopThread, Framing, ObjectPool, ThreadPool

VARIABLE part
Parts == {"queue", "loop thread", "framing", "object pool", "thread pool"}

QueueSteps ==
    part = "queue" /\ QNext /\ UNCHANGED <<part, vars, fvars, ovars, pvars>>
LoopThreadSteps ==
    part = "loop thread" /\ Next /\ UNCHANGED <<part, qvars, fvars, ovars, pvars>>
FramingSteps ==
    part = "framing" /\ FNext /\ UNCHANGED <<part, qvars, vars, ovars, pvars>>
ObjectPoolSteps ==
    part = "object pool" /\ ONext /\ UNCHANGED <<part, qvars, vars, fvars, pvars>>
ThreadPoolSteps ==
    part = "thread pool" /\ PNext /\ UNCHANGED <<part, qvars, vars, fvars, ovars>>

(* A part that does not move has only one initial state. *)
ThreadsInit ==
    /\ part \in Parts /\ QInit /\ Init /\ FInit /\ OInit /\ PInit
    /\ part # "queue" => \A n \in InitSizes : maxsize <= n
    /\ part # "framing" => ~isClient /\ \A s \in Sender : \A n \in Lengths : len[s] <= n

ThreadsNext ==
    QueueSteps \/ LoopThreadSteps \/ FramingSteps \/ ObjectPoolSteps \/ ThreadPoolSteps

ThreadsSpec ==
    /\ ThreadsInit /\ [][ThreadsNext]_<<part, qvars, vars, fvars, ovars, pvars>>
    /\ \A b \in Borrower : WF_ovars(part = "object pool" /\ BorrowRuns(b))
    /\ \A c \in Committer : WF_pvars(part = "thread pool" /\ CommitterSteps(c))
    /\ \A w \in Worker : WF_pvars(part = "thread pool" /\ WorkerSteps(w))
    /\ WF_pvars(part = "thread pool" /\ OwnerSteps)

(* What the variables of the five parts hold. *)
ThreadsTypesOK ==
    QTypeOK /\ WindowInBounds /\ TypeOK /\ EventsCounted /\ FTypeOK /\ OTypeOK /\ PTypeOK

(* Calls that wait return, and tasks that are committed run, whatever the    *)
(* other threads do.                                                         *)
CallsReturn == BorrowReturns /\ TasksRun /\ StopEnds
=============================================================================
