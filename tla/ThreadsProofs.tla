---------------------------- MODULE ThreadsProofs ----------------------------
(***************************************************************************)
(* What the parts that threads share keep, they keep together: a step of   *)
(* MCThreads is a step of one part and no step of any other, so that the   *)
(* inductive invariant of each is one of the composed specification.       *)
(***************************************************************************)
EXTENDS MCThreads, FramingProofs, UtilityProofs

LEMMA OnePartInit == ThreadsInit => QInit /\ Init /\ FInit /\ OInit /\ PInit
BY DEF ThreadsInit

LEMMA OnePartSteps ==
    [ThreadsNext]_<<part, qvars, vars, fvars, ovars, pvars>> =>
        [QNext]_qvars /\ [Next]_vars /\ [FNext]_fvars /\ [ONext]_ovars /\ [PNext]_pvars
BY DEF ThreadsNext, QueueSteps, LoopThreadSteps, FramingSteps, ObjectPoolSteps, ThreadPoolSteps

ThreadsInv == QInv /\ CountInv /\ OwedInv /\ FTyped /\ PoolInv /\ WorkersInv

LEMMA ThreadsInvInit == ThreadsInit => ThreadsInv
BY OnePartInit, QInvInit, CountInit, OwedInit, FormattedInit, PoolInit, WorkersInit DEF ThreadsInv

LEMMA ThreadsInvNext ==
    ThreadsInv /\ [ThreadsNext]_<<part, qvars, vars, fvars, ovars, pvars>> => ThreadsInv'
<1> SUFFICES ASSUME ThreadsInv, [ThreadsNext]_<<part, qvars, vars, fvars, ovars, pvars>>
             PROVE  ThreadsInv'
  OBVIOUS
<1>1. [QNext]_qvars /\ [Next]_vars /\ [FNext]_fvars /\ [ONext]_ovars /\ [PNext]_pvars
  BY OnePartSteps
<1>2. QInv' /\ PoolInv' /\ WorkersInv'
  BY <1>1, QInvNext, PoolNext, WorkersNext DEF ThreadsInv
<1>3. CountInv' /\ OwedInv'
  BY <1>1, CountStep, OwedStep DEF ThreadsInv
<1>4. FTyped'
  BY <1>1, FormattedNext DEF ThreadsInv
<1> QED
  BY <1>2, <1>3, <1>4 DEF ThreadsInv

(* The variables of the queue, the loop's thread, the frames, the object     *)
(* pool and the thread pool hold what their code takes them to hold, with    *)
(* the bounds of indices, lengths and counts, for any numbers of threads,    *)
(* objects, elements and posters and in any of their interleavings.          *)
THEOREM ThreadsTypeCorrect == ThreadsSpec => []ThreadsTypesOK
<1>1. ThreadsInv => ThreadsTypesOK
  <2> SUFFICES ASSUME ThreadsInv PROVE ThreadsTypesOK
    OBVIOUS
  <2>1. QTypeOK /\ WindowInBounds
    BY DEF ThreadsInv, QInv
  <2>2. TypeOK /\ EventsCounted
    BY DEF ThreadsInv, CountInv
  <2>3. FTypeOK
    BY TypedOK DEF ThreadsInv
  <2>4. OTypeOK /\ PTypeOK
    BY DEF ThreadsInv, PoolInv, WorkersInv
  <2> QED
    BY <2>1, <2>2, <2>3, <2>4 DEF ThreadsTypesOK
<1> QED
  BY <1>1, ThreadsInvInit, ThreadsInvNext, PTL DEF ThreadsSpec

(* And what they promise: a functor for every event of the loop, frames      *)
(* taken for what they are and messages whole and in order, an object lent   *)
(* to one thread at a time and counted right.                                *)
THEOREM ThreadsKeepPromises ==
    ThreadsSpec => [](FunctorForEveryEvent /\ FramesSound /\ LendsOnce)
<1>1. ThreadsInv => FunctorForEveryEvent /\ FramesSound /\ LendsOnce
  <2> SUFFICES ASSUME ThreadsInv PROVE FunctorForEveryEvent /\ FramesSound /\ LendsOnce
    OBVIOUS
  <2>1. FunctorForEveryEvent
    BY DEF ThreadsInv, OwedInv, FunctorForEveryEvent
  <2>2. FramesSound
    BY Sound DEF ThreadsInv, FTyped
  <2>3. LendsOnce
    BY DEF ThreadsInv, PoolInv, LendsOnce
  <2> QED
    BY <2>1, <2>2, <2>3
<1> QED
  BY <1>1, ThreadsInvInit, ThreadsInvNext, PTL DEF ThreadsSpec
=============================================================================
