--------------------------- MODULE UtilityProofs ----------------------------
(***************************************************************************)
(* For every element set and every capacity, the array of base/queue.h     *)
(* stays in bounds and implements the FIFO of module Fifo; for any number  *)
(* of threads and objects, HObjectPool lends each object to one thread and *)
(* counts them right; HThreadPool's wait returns early by no more than the *)
(* threads that are leaving; and for any set of posters, EventLoopThread   *)
(* counts its events, has a functor for every event and, for an owner that *)
(* stops as ClientExample does, does not crash and waits in stop(true).    *)
(***************************************************************************)
EXTENDS Queue, ObjectPool, ThreadPool, EventLoopThread, SequenceTheorems, FiniteSetTheorems, TLAPS

-----------------------------------------------------------------------------
(* The inductive invariant: a full queue has offset 0 because of            *)
(* WindowInBounds, which is what makes doubling without a move correct.     *)

\* A full array leaves the window no room to be displaced.
LEMMA FullAtZero == ASSUME QInv, size = maxsize
                    PROVE  offset = 0
  BY DEF QInv, QTypeOK, WindowInBounds

\* qtype##_init preserves the invariant.
LEMMA InitInv == ASSUME NEW n \in InitSizes, qinit(n)
                 PROVE  QInv'
  BY QueueAssumption DEF QInv, QTypeOK, WindowInBounds, WindowFilled, filled, Cells, qinit

\* pop_front preserves the invariant: the wrap to 0 happens only when the queue
\* has become empty.
LEMMA PopInv == ASSUME QInv, pop_front
                PROVE  QInv'
  <1>1. QTypeOK'
    BY DEF QInv, QTypeOK, pop_front, Cells
  <1>2. WindowInBounds'
    BY DEF QInv, QTypeOK, WindowInBounds, pop_front
  <1>3. WindowFilled'
    BY DEF QInv, QTypeOK, WindowInBounds, WindowFilled, filled, pop_front, Cells
  <1> QED BY <1>1, <1>2, <1>3 DEF QInv

\* What push_back leaves in the array, in each of its three cases: the old
\* elements in order from the new offset, the new element behind them.
LEMMA PushCells ==
    ASSUME QInv, NEW e \in Elem, push_back(e)
    PROVE  /\ size' = size + 1
           /\ maxsize' \in Nat
           /\ offset' \in Nat
           /\ offset' + size' <= maxsize'
           /\ ptr' \in [Cells(maxsize') -> Elem \cup {Nil}]
           /\ \A i \in Cells(size) : ptr'[offset' + i] = ptr[offset + i]
           /\ ptr'[offset' + size] = e
  <1> USE QueueAssumption DEF QInv, QTypeOK, WindowInBounds, Cells
  <1>1. CASE size = maxsize
    <2>1. offset = 0
      BY <1>1, FullAtZero
    <2>2. doubled \in Nat /\ doubled > maxsize
      BY DEF doubled
    <2>3. /\ ptr' = [resized(doubled) EXCEPT ![size] = e]
          /\ size' = size + 1 /\ maxsize' = doubled /\ offset' = 0
      BY <1>1, <2>1 DEF push_back
    <2>4. resized(doubled) \in [Cells(doubled) -> Elem \cup {Nil}]
      BY <2>2 DEF resized
    <2>5. ptr' \in [Cells(maxsize') -> Elem \cup {Nil}]
      BY <1>1, <2>2, <2>3, <2>4
    <2>6. \A i \in Cells(size) : ptr'[i] = ptr[i]
      BY <1>1, <2>2, <2>3 DEF resized
    <2>7. ptr'[size] = e
      BY <1>1, <2>2, <2>3, <2>4
    <2> QED BY <1>1, <2>1, <2>2, <2>3, <2>5, <2>6, <2>7
  <1>2. CASE size # maxsize /\ offset + size = maxsize
    <2>1. /\ ptr' = [moved EXCEPT ![size] = e]
          /\ size' = size + 1 /\ maxsize' = maxsize /\ offset' = 0
      BY <1>2 DEF push_back
    <2>2. moved \in [Cells(maxsize) -> Elem \cup {Nil}]
      BY <1>2 DEF moved
    <2>3. ptr' \in [Cells(maxsize') -> Elem \cup {Nil}]
      BY <1>2, <2>1, <2>2
    <2>4. \A i \in Cells(size) : ptr'[i] = ptr[offset + i]
      BY <1>2, <2>1 DEF moved
    <2>5. ptr'[size] = e
      BY <1>2, <2>1, <2>2
    <2> QED BY <1>2, <2>1, <2>3, <2>4, <2>5
  <1>3. CASE size # maxsize /\ offset + size # maxsize
    <2>1. /\ ptr' = [ptr EXCEPT ![offset + size] = e]
          /\ size' = size + 1 /\ maxsize' = maxsize /\ offset' = offset
      BY <1>3 DEF push_back
    <2>2. ptr' \in [Cells(maxsize') -> Elem \cup {Nil}]
      BY <1>3, <2>1
    <2>3. \A i \in Cells(size) : ptr'[offset + i] = ptr[offset + i]
      BY <1>3, <2>1
    <2>4. ptr'[offset + size] = e
      BY <1>3, <2>1
    <2> QED BY <1>3, <2>1, <2>2, <2>3, <2>4
  <1> QED BY <1>1, <1>2, <1>3

\* push_back preserves the invariant.
LEMMA PushInv == ASSUME QInv, NEW e \in Elem, push_back(e)
                 PROVE  QInv'
  <1> USE DEF QInv, QTypeOK, WindowInBounds, WindowFilled, filled
  <1>1. QTypeOK' /\ WindowInBounds'
    BY PushCells
  <1>2. ASSUME NEW i \in Cells(size') PROVE ptr'[offset' + i] \in Elem
    <2>1. i \in Cells(size) \/ i = size
      <3>1. size' = size + 1
        BY PushCells
      <3> QED BY <3>1 DEF Cells
    <2> QED BY <2>1, PushCells
  <1> QED BY <1>1, <1>2

LEMMA QInvInit == QInit => QInv
BY DEF QInit, QInv, QTypeOK, WindowInBounds, WindowFilled, filled, Cells

LEMMA QInvNext == QInv /\ [QNext]_qvars => QInv'
  <1> SUFFICES ASSUME QInv, [QNext]_qvars PROVE QInv'
    OBVIOUS
  <1>1. CASE \E n \in InitSizes : qinit(n)
    BY <1>1, InitInv
  <1>2. CASE \E e \in Elem : push_back(e)
    BY <1>2, PushInv
  <1>3. CASE pop_front
    BY <1>3, PopInv
  <1>4. CASE cleanup
    BY <1>4 DEF cleanup, QInv, QTypeOK, WindowInBounds, WindowFilled, filled, Cells
  <1>5. CASE UNCHANGED qvars
    BY <1>5 DEF qvars, QInv, QTypeOK, WindowInBounds, WindowFilled, filled, Cells
  <1> QED BY <1>1, <1>2, <1>3, <1>4, <1>5 DEF QNext

\* Every index the queue operations touch lies inside the array.
THEOREM QueueSafe == QSpec => []QInv
  BY QInvInit, QInvNext, PTL DEF QSpec

-----------------------------------------------------------------------------
(* Refinement of Fifo under contents <- window.                             *)

\* A run of filled cells, read in order, is a sequence of elements.
LEMMA SliceIsSeq ==
    ASSUME NEW p, NEW n \in Nat, NEW o \in Nat, filled(p, n, o)
    PROVE  slice(p, n, o) \in Seq(Elem) /\ Len(slice(p, n, o)) = n
  <1>1. ASSUME NEW i \in 1 .. n PROVE p[o + i - 1] \in Elem
    <2>1. i - 1 \in Cells(n) /\ o + i - 1 = o + (i - 1)
      BY DEF Cells
    <2> QED BY <2>1 DEF filled
  <1> QED BY <1>1 DEF slice

\* The window is a sequence of elements of length size, in either state of a step.
LEMMA WindowSeq == ASSUME QInv
                   PROVE  window \in Seq(Elem) /\ Len(window) = size
  BY SliceIsSeq DEF QInv, QTypeOK, WindowFilled, window

LEMMA WindowSeqNext == ASSUME QInv'
                       PROVE  window' \in Seq(Elem) /\ Len(window') = size'
  BY SliceIsSeq DEF QInv, QTypeOK, WindowFilled, window

\* push_back appends to the window.
LEMMA PushRefines == ASSUME QInv, NEW e \in Elem, push_back(e)
                     PROVE  window' = Append(window, e)
  <1> DEFINE longer == Append(window, e)
  <1>1. window \in Seq(Elem) /\ Len(window) = size /\ size \in Nat
    BY WindowSeq DEF QInv, QTypeOK
  <1>2. window' \in Seq(Elem) /\ Len(window') = size + 1
    <2>1. QInv'
      BY PushInv
    <2> QED BY <2>1, WindowSeqNext, PushCells
  <1>3. /\ longer \in Seq(Elem) /\ Len(longer) = size + 1
        /\ \A i \in 1 .. size : longer[i] = window[i]
        /\ longer[size + 1] = e
    BY <1>1, AppendProperties
  <1>4. ASSUME NEW i \in 1 .. (size + 1) PROVE window'[i] = longer[i]
    <2>1. offset' \in Nat /\ size' = size + 1
      BY PushCells
    <2>2. window'[i] = ptr'[offset' + (i - 1)]
      BY <1>1, <2>1 DEF window, slice
    <2>3. CASE i = size + 1
      BY <1>1, <1>3, <2>1, <2>2, <2>3, PushCells
    <2>4. CASE i # size + 1
      <3>1. i - 1 \in Cells(size) /\ i \in 1 .. size
        BY <1>1, <2>4 DEF Cells
      <3>2. window[i] = ptr[offset + (i - 1)]
        BY <1>1, <3>1 DEF window, slice, QInv, QTypeOK
      <3> QED BY <1>3, <2>2, <3>1, <3>2, PushCells
    <2> QED BY <2>3, <2>4
  <1> HIDE DEF longer
  <1>5. window' = longer
    BY <1>2, <1>3, <1>4, SeqEqual
  <1> QED BY <1>5 DEF longer

\* pop_front drops the first element of the window.
LEMMA PopRefines == ASSUME QInv, pop_front
                    PROVE  window # << >> /\ window' = Tail(window)
  <1> USE DEF QInv, QTypeOK, WindowInBounds
  <1>1. window \in Seq(Elem) /\ Len(window) = size
    BY WindowSeq
  <1>2. size > 0 /\ size' = size - 1 /\ ptr' = ptr
    BY DEF pop_front
  <1>3. window # << >>
    BY <1>1, <1>2
  <1>4. /\ Tail(window) \in Seq(Elem) /\ Len(Tail(window)) = size - 1
        /\ \A i \in 1 .. (size - 1) : Tail(window)[i] = window[i + 1]
    BY <1>1, <1>2, <1>3, HeadTailProperties
  <1>5. window' \in Seq(Elem) /\ Len(window') = size - 1
    <2>1. QInv'
      BY PopInv
    <2> QED BY <1>2, <2>1, WindowSeqNext
  <1>6. ASSUME NEW i \in 1 .. (size - 1) PROVE window'[i] = window[i + 1]
    BY <1>2 DEF pop_front, window, slice
  <1>7. window' = Tail(window)
    BY <1>4, <1>5, <1>6, SeqEqual
  <1> QED BY <1>3, <1>7

\* A queue without elements is the empty FIFO.
LEMMA EmptyWindow == ASSUME size = 0
                     PROVE  window = << >>
  BY DEF window, slice

\* base/queue.h implements the FIFO that its header comment promises.
THEOREM QueueRefinesFifo == QSpec => FifoSpec
  <1>1. QInit => F!FInit
    BY EmptyWindow DEF QInit, F!FInit
  <1>2. QInv /\ [QNext]_qvars => [F!FNext]_window
    <2> SUFFICES ASSUME QInv, [QNext]_qvars PROVE [F!FNext]_window
      OBVIOUS
    <2>1. ASSUME NEW n \in InitSizes, qinit(n) PROVE F!FNext
      <3>1. window' = << >>
        BY <2>1 DEF qinit, window, slice
      <3> QED BY <3>1 DEF F!FNext, F!FReset
    <2>2. ASSUME NEW e \in Elem, push_back(e) PROVE F!FNext
      BY <2>2, PushRefines DEF F!FNext, F!FPush
    <2>3. CASE pop_front
      BY <2>3, PopRefines DEF F!FNext, F!FPop
    <2>4. CASE cleanup
      <3>1. window' = << >>
        BY <2>4 DEF cleanup, window, slice
      <3> QED BY <3>1 DEF F!FNext, F!FReset
    <2>5. CASE UNCHANGED qvars
      BY <2>5 DEF qvars, window
    <2> QED BY <2>1, <2>2, <2>3, <2>4, <2>5 DEF QNext
  <1> QED BY <1>1, <1>2, QueueSafe, PTL DEF QSpec, FifoSpec, F!FSpec

-----------------------------------------------------------------------------
(* HObjectPool. *)

\* The inductive invariant: a thread in Borrow holds nothing, and what is idle or
\* lent was made.
PoolInv ==
    /\ OTypeOK /\ NoSharing /\ CountExact
    /\ \A b \in Borrower : bpc[b] # "out" => has[b] = NoObject
    /\ Idle_ \subseteq made /\ Held \subseteq made

\* Sets of objects and of threads are finite, so their sizes can be compared.
LEMMA PoolFinite ==
    ASSUME PoolInv
    PROVE  /\ IsFiniteSet(Held) /\ Cardinality(Held) \in Nat
           /\ IsFiniteSet(Creating) /\ Cardinality(Creating) \in Nat
           /\ Len(objects_) \in Nat
<1>1. Held \in SUBSET Object /\ Creating \in SUBSET Borrower
  BY DEF PoolInv, OTypeOK, Creating
<1> QED
  BY <1>1, ObjectPoolAssumption, FS_Subset, FS_CardinalityType DEF PoolInv, OTypeOK

\* A thread that gets an object nobody has, or gives its own away.
LEMMA HeldGains ==
    ASSUME PoolInv, NEW b \in Borrower, has[b] = NoObject, NEW o \in Object, o \notin Held,
           has' = [has EXCEPT ![b] = o]
    PROVE  /\ Held' = Held \cup {o} /\ Cardinality(Held') = Cardinality(Held) + 1
           /\ \A c, d \in Borrower : has'[c] = has'[d] /\ has'[c] # NoObject => c = d
<1>1. has \in [Borrower -> Object \cup {NoObject}] /\ o # NoObject
  BY ObjectPoolAssumption DEF PoolInv, OTypeOK
<1>2. \A c \in Borrower : has[c] # o
  BY <1>1 DEF Held
<1>3. Held' = Held \cup {o}
  <2>1. \A c \in Borrower : has'[c] = IF c = b THEN o ELSE has[c]
    BY <1>1
  <2> QED
    BY <1>1, <2>1 DEF Held
<1>4. Cardinality(Held') = Cardinality(Held) + 1
  BY <1>3, PoolFinite, FS_AddElement
<1> QED
  BY <1>1, <1>2, <1>3, <1>4 DEF PoolInv, NoSharing

LEMMA HeldLoses ==
    ASSUME PoolInv, NEW b \in Borrower, has[b] # NoObject, has' = [has EXCEPT ![b] = NoObject]
    PROVE  /\ Held' = Held \ {has[b]} /\ Cardinality(Held') = Cardinality(Held) - 1
           /\ has[b] \in Held
           /\ \A c, d \in Borrower : has'[c] = has'[d] /\ has'[c] # NoObject => c = d
<1>1. has \in [Borrower -> Object \cup {NoObject}]
  BY DEF PoolInv, OTypeOK
<1>2. \A c \in Borrower : has[c] = has[b] => c = b
  BY DEF PoolInv, NoSharing
<1>3. has[b] \in Held
  BY DEF Held
<1>4. Held' = Held \ {has[b]}
  <2>1. \A c \in Borrower : has'[c] = IF c = b THEN NoObject ELSE has[c]
    BY <1>1
  <2> QED
    BY <1>1, <1>2, <2>1 DEF Held
<1>5. Cardinality(Held') = Cardinality(Held) - 1
  BY <1>3, <1>4, PoolFinite, FS_RemoveElement
<1> QED
  BY <1>1, <1>3, <1>4, <1>5 DEF PoolInv, NoSharing

\* Where no thread begins or ends creating.
LEMMA CreatingKept ==
    ASSUME NEW B, B = Creating, \A b \in Borrower : bpc'[b] = "creates" <=> bpc[b] = "creates"
    PROVE  Creating' = B
BY DEF Creating

LEMMA NotifyOneWakes ==
    ASSUME PoolInv, NotifyOne
    PROVE  /\ bpc' \in [Borrower -> {"out", "tried", "creates", "waits", "woken"}]
           /\ \A b \in Borrower : bpc'[b] = bpc[b] \/ (bpc[b] = "waits" /\ bpc'[b] = "woken")
<1>1. bpc \in [Borrower -> {"out", "tried", "creates", "waits", "woken"}]
  BY DEF PoolInv, OTypeOK
<1>2. CASE Waiting = {}
  BY <1>1, <1>2 DEF NotifyOne
<1>3. CASE Waiting # {}
  <2>1. PICK w \in Waiting : Goes(w, "woken")
    BY <1>3 DEF NotifyOne
  <2> QED
    BY <1>1, <2>1 DEF Goes, Waiting
<1> QED
  BY <1>2, <1>3

-----------------------------------------------------------------------------
(* What the operations do to the list of idle objects. *)

LEMMA IdleLosesHead ==
    ASSUME PoolInv, objects_ # <<>>, objects_' = Tail(objects_)
    PROVE  /\ Head(objects_) \in Object /\ Head(objects_) \in Idle_ /\ Head(objects_) \notin Held
           /\ objects_' \in Seq(Object) /\ Len(objects_') = Len(objects_) - 1
           /\ Idle_' = Idle_ \ {Head(objects_)}
           /\ \A i, j \in DOMAIN objects_' : objects_'[i] = objects_'[j] => i = j
<1>1. objects_ \in Seq(Object) /\ \A i, j \in DOMAIN objects_ : objects_[i] = objects_[j] => i = j
  BY DEF PoolInv, OTypeOK, NoSharing
<1>2. /\ Len(objects_) \in Nat \ {0} /\ DOMAIN objects_ = 1..Len(objects_)
      /\ Head(objects_) = objects_[1] /\ objects_' \in Seq(Object)
      /\ Len(objects_') = Len(objects_) - 1 /\ DOMAIN objects_' = 1..Len(objects_) - 1
      /\ \A i \in 1..Len(objects_) - 1 : objects_'[i] = objects_[i + 1]
  BY <1>1
<1>3. Head(objects_) \in Idle_
  BY <1>2 DEF Idle_
<1>4. Idle_' = Idle_ \ {Head(objects_)}
  <2>1. ASSUME NEW o \in Idle_' PROVE o \in Idle_ /\ o # Head(objects_)
    <3>1. PICK i \in 1..Len(objects_) - 1 : o = objects_[i + 1]
      BY <1>2, <2>1 DEF Idle_
    <3>2. i + 1 \in DOMAIN objects_ /\ 1 \in DOMAIN objects_ /\ i + 1 # 1
      BY <1>2, <3>1
    <3> QED
      BY <1>1, <1>2, <3>1, <3>2 DEF Idle_
  <2>2. ASSUME NEW o \in Idle_, o # Head(objects_) PROVE o \in Idle_'
    <3>1. PICK i \in 1..Len(objects_) : o = objects_[i] /\ i # 1
      BY <1>2, <2>2 DEF Idle_
    <3>2. i - 1 \in DOMAIN objects_' /\ objects_'[i - 1] = objects_[(i - 1) + 1]
      BY <1>2, <3>1
    <3>3. (i - 1) + 1 = i
      BY <3>1
    <3> QED
      BY <3>1, <3>2, <3>3 DEF Idle_
  <2> QED
    BY <2>1, <2>2
<1>5. \A i, j \in DOMAIN objects_' : objects_'[i] = objects_'[j] => i = j
  BY <1>1, <1>2
<1> QED
  BY <1>1, <1>2, <1>3, <1>4, <1>5 DEF PoolInv, NoSharing

LEMMA IdleGains ==
    ASSUME PoolInv, NEW o \in Object, o \notin Idle_, objects_' = Append(objects_, o)
    PROVE  /\ objects_' \in Seq(Object) /\ Len(objects_') = Len(objects_) + 1
           /\ Idle_' = Idle_ \cup {o}
           /\ \A i, j \in DOMAIN objects_' : objects_'[i] = objects_'[j] => i = j
<1>1. objects_ \in Seq(Object) /\ \A i, j \in DOMAIN objects_ : objects_[i] = objects_[j] => i = j
  BY DEF PoolInv, OTypeOK, NoSharing
<1>2. /\ Len(objects_) \in Nat /\ DOMAIN objects_ = 1..Len(objects_)
      /\ objects_' \in Seq(Object) /\ Len(objects_') = Len(objects_) + 1
      /\ DOMAIN objects_' = 1..Len(objects_) + 1
      /\ \A i \in 1..Len(objects_) : objects_'[i] = objects_[i]
      /\ objects_'[Len(objects_) + 1] = o
  BY <1>1
<1>3. \A i \in 1..Len(objects_) : objects_[i] # o
  BY <1>2 DEF Idle_
<1>4. Idle_' = Idle_ \cup {o}
  BY <1>2 DEF Idle_
<1>5. \A i, j \in DOMAIN objects_' : objects_'[i] = objects_'[j] => i = j
  BY <1>1, <1>2, <1>3
<1> QED
  BY <1>2, <1>4, <1>5

LEMMA SequenceErased ==
    ASSUME NEW S, NEW s \in Seq(S), NEW i \in 1..Len(s)
    PROVE  /\ Erased(s, i) \in Seq(S) /\ Len(Erased(s, i)) = Len(s) - 1
           /\ \A j \in 1..Len(s) - 1 : Erased(s, i)[j] = IF j < i THEN s[j] ELSE s[j + 1]
<1> DEFINE u == SubSeq(s, 1, i - 1)
           v == SubSeq(s, i + 1, Len(s))
<1>1. i \in 1..Len(s) /\ Len(s) \in Nat
  OBVIOUS
<1>2. u \in Seq(S) /\ Len(u) = i - 1 /\ \A j \in 1..i - 1 : u[j] = s[j]
  BY <1>1
<1>3. v \in Seq(S) /\ Len(v) = Len(s) - i /\ \A j \in 1..Len(s) - i : v[j] = s[j + i]
  BY <1>1
<1>4. Erased(s, i) = u \o v
  BY DEF Erased
<1> HIDE DEF u, v
<1>5. u \o v \in Seq(S) /\ Len(u \o v) = Len(s) - 1
  <2>1. u \o v \in Seq(S) /\ Len(u \o v) = Len(u) + Len(v)
    BY <1>2, <1>3, ConcatProperties
  <2> QED
    BY <1>1, <1>2, <1>3, <2>1
<1>6. \A j \in 1..Len(s) - 1 : (u \o v)[j] = IF j <= Len(u) THEN u[j] ELSE v[j - Len(u)]
  BY <1>1, <1>2, <1>3, SMTT(60)
<1>7. ASSUME NEW j \in 1..Len(s) - 1, ~(j < i) PROVE v[j - Len(u)] = s[j + 1]
  <2>1. j - Len(u) \in 1..Len(s) - i
    BY <1>1, <1>2, <1>7
  <2> QED
    BY <1>1, <1>2, <1>3, <2>1, SMTT(60)
<1>8. ASSUME NEW j \in 1..Len(s) - 1
      PROVE  (u \o v)[j] = IF j < i THEN s[j] ELSE s[j + 1]
  <2>1. CASE j < i
    <3>1. j <= Len(u) /\ j \in 1..i - 1
      BY <1>1, <1>2, <2>1
    <3> QED
      BY <1>2, <1>6, <2>1, <3>1
  <2>2. CASE ~(j < i)
    <3>1. ~(j <= Len(u))
      BY <1>1, <1>2, <2>2
    <3>2. (u \o v)[j] = v[j - Len(u)]
      BY <1>6, <3>1
    <3> QED
      BY <1>7, <2>2, <3>2
  <2> QED
    BY <2>1, <2>2
<1> QED
  BY <1>4, <1>5, <1>8

LEMMA IdleErases ==
    ASSUME PoolInv, NEW i \in DOMAIN objects_,
           objects_' = Erased(objects_, i)
    PROVE  /\ objects_' \in Seq(Object) /\ Len(objects_') = Len(objects_) - 1
           /\ Idle_' \subseteq Idle_
           /\ \A j, k \in DOMAIN objects_' : objects_'[j] = objects_'[k] => j = k
<1>1. objects_ \in Seq(Object) /\ \A j, k \in DOMAIN objects_ : objects_[j] = objects_[k] => j = k
  BY DEF PoolInv, OTypeOK, NoSharing
<1>2. i \in 1..Len(objects_) /\ Len(objects_) \in Nat /\ DOMAIN objects_ = 1..Len(objects_)
  BY <1>1
<1>3. /\ objects_' \in Seq(Object) /\ Len(objects_') = Len(objects_) - 1
      /\ \A j \in 1..Len(objects_) - 1 :
            objects_'[j] = IF j < i THEN objects_[j] ELSE objects_[j + 1]
  BY <1>1, <1>2, SequenceErased, ZenonT(60)
<1>4. DOMAIN objects_' = 1..Len(objects_) - 1
  BY <1>3
<1>5. Idle_' \subseteq Idle_
  <2> SUFFICES ASSUME NEW o \in Idle_' PROVE o \in Idle_
    OBVIOUS
  <2>1. PICK j \in 1..Len(objects_) - 1 : o = objects_'[j]
    BY <1>4 DEF Idle_
  <2>2. j \in 1..Len(objects_) /\ j + 1 \in 1..Len(objects_)
    BY <1>2, <2>1
  <2>3. o = objects_[j] \/ o = objects_[j + 1]
    BY <1>3, <2>1
  <2> QED
    BY <1>2, <2>2, <2>3 DEF Idle_
<1>6. ASSUME NEW j \in DOMAIN objects_', NEW k \in DOMAIN objects_', objects_'[j] = objects_'[k]
      PROVE  j = k
  <2> DEFINE to(n) == IF n < i THEN n ELSE n + 1
  <2>1. j \in 1..Len(objects_) - 1 /\ k \in 1..Len(objects_) - 1
    BY <1>4, <1>6
  <2>2. /\ to(j) \in DOMAIN objects_ /\ objects_'[j] = objects_[to(j)]
        /\ to(k) \in DOMAIN objects_ /\ objects_'[k] = objects_[to(k)]
    BY <1>2, <1>3, <2>1
  <2> HIDE DEF to
  <2>3. to(j) = to(k)
    BY <1>1, <1>6, <2>2
  <2> QED
    BY <1>2, <2>1, <2>3 DEF to
<1> QED
  BY <1>3, <1>5, <1>6

-----------------------------------------------------------------------------
(* The steps. *)

\* A step after which the lists and counts fit keeps the invariant.
LEMMA PoolKept ==
    ASSUME PoolInv, objects_' \in Seq(Object), object_num' \in Nat, object_num' <= MaxNum,
           made' \subseteq Object, has' \in [Borrower -> Object \cup {NoObject}],
           bpc' \in [Borrower -> {"out", "tried", "creates", "waits", "woken"}],
           Idle_' \cap Held' = {}, Idle_' \subseteq made', Held' \subseteq made',
           \A i, j \in DOMAIN objects_' : objects_'[i] = objects_'[j] => i = j,
           \A b, c \in Borrower : has'[b] = has'[c] /\ has'[b] # NoObject => b = c,
           object_num' = Len(objects_') + Cardinality(Held') + Cardinality(Creating'),
           \A b \in Borrower : bpc'[b] # "out" => has'[b] = NoObject
    PROVE  PoolInv'
BY DEF PoolInv, OTypeOK, NoSharing, CountExact, Idle_, Held, Creating

LEMMA TakesFrontKeeps ==
    ASSUME PoolInv, NEW b \in Borrower, bpc[b] # "creates", has[b] = NoObject,
           objects_ # <<>>, TakesFront(b), UNCHANGED <<object_num, made>>
    PROVE  PoolInv'
<1> DEFINE o == Head(objects_)
<1>1. /\ has' = [has EXCEPT ![b] = o] /\ objects_' = Tail(objects_)
      /\ bpc' = [bpc EXCEPT ![b] = "out"]
  BY DEF TakesFront, Goes
<1>2. /\ o \in Object /\ o \in Idle_ /\ o \notin Held
      /\ objects_' \in Seq(Object) /\ Len(objects_') = Len(objects_) - 1
      /\ Idle_' = Idle_ \ {o}
      /\ \A i, j \in DOMAIN objects_' : objects_'[i] = objects_'[j] => i = j
  BY <1>1, IdleLosesHead
<1> HIDE DEF o
<1>3. /\ Held' = Held \cup {o} /\ Cardinality(Held') = Cardinality(Held) + 1
      /\ \A c, d \in Borrower : has'[c] = has'[d] /\ has'[c] # NoObject => c = d
  BY <1>1, <1>2, HeldGains
<1>4. OTypeOK /\ \A c \in Borrower : bpc[c] # "out" => has[c] = NoObject
  BY DEF PoolInv
<1>5. Creating' = Creating
  BY <1>1, <1>4 DEF Creating, OTypeOK
<1>6. /\ has' \in [Borrower -> Object \cup {NoObject}]
      /\ bpc' \in [Borrower -> {"out", "tried", "creates", "waits", "woken"}]
      /\ \A c \in Borrower : bpc'[c] # "out" => has'[c] = NoObject
  BY <1>1, <1>2, <1>4 DEF OTypeOK
<1>7. object_num' = Len(objects_') + Cardinality(Held') + Cardinality(Creating')
  BY <1>2, <1>3, <1>5, PoolFinite DEF PoolInv, CountExact
<1>8. Idle_' \cap Held' = {} /\ Idle_' \subseteq made' /\ Held' \subseteq made'
  BY <1>2, <1>3 DEF PoolInv, NoSharing
<1>9. object_num' \in Nat /\ object_num' <= MaxNum /\ made' \subseteq Object
  BY DEF PoolInv, OTypeOK, CountExact
<1> QED
  BY <1>2, <1>3, <1>6, <1>7, <1>8, <1>9, PoolKept

\* Steps that only move a thread on.
LEMMA ThreadMovesKeeps ==
    ASSUME PoolInv, UNCHANGED <<objects_, made, has>>,
           bpc' \in [Borrower -> {"out", "tried", "creates", "waits", "woken"}],
           \A b \in Borrower : bpc'[b] # "out" => has[b] = NoObject,
           object_num' \in Nat, object_num' <= MaxNum,
           object_num' = object_num + Cardinality(Creating') - Cardinality(Creating),
           Cardinality(Creating') \in Nat
    PROVE  PoolInv'
<1>1. Idle_' = Idle_ /\ Held' = Held
  BY DEF Idle_, Held
<1>2. object_num' = Len(objects_') + Cardinality(Held') + Cardinality(Creating')
  BY <1>1, PoolFinite DEF PoolInv, CountExact
<1> QED
  BY <1>1, <1>2, PoolKept DEF PoolInv, OTypeOK, NoSharing

LEMMA TryBorrowKeeps == ASSUME PoolInv, NEW b \in Borrower, TryBorrow(b) PROVE PoolInv'
<1>1. bpc[b] = "out" /\ has[b] = NoObject /\ UNCHANGED <<object_num, made>>
  BY DEF TryBorrow
<1>2. CASE objects_ # <<>>
  BY <1>1, <1>2, TakesFrontKeeps DEF TryBorrow
<1>3. CASE objects_ = <<>>
  <2>1. bpc' = [bpc EXCEPT ![b] = "tried"] /\ UNCHANGED <<objects_, has>>
    BY <1>3 DEF TryBorrow, Goes
  <2>2. Creating' = Creating
    BY <1>1, <2>1 DEF Creating, PoolInv, OTypeOK
  <2> QED
    BY <1>1, <2>1, <2>2, PoolFinite, ThreadMovesKeeps DEF PoolInv, OTypeOK, CountExact
<1> QED
  BY <1>2, <1>3

LEMMA BorrowKeeps == ASSUME PoolInv, NEW b \in Borrower, Borrow(b) PROVE PoolInv'
<1>1. /\ bpc[b] = "tried" /\ has[b] = NoObject /\ UNCHANGED <<objects_, made, has>>
      /\ bpc \in [Borrower -> {"out", "tried", "creates", "waits", "woken"}]
  BY DEF Borrow, PoolInv, OTypeOK
<1>2. CASE object_num < MaxNum
  <2>1. bpc' = [bpc EXCEPT ![b] = "creates"] /\ object_num' = object_num + 1
    BY <1>2 DEF Borrow, Goes
  <2>2. Creating' = Creating \cup {b} /\ b \notin Creating
    BY <1>1, <2>1 DEF Creating
  <2>3. Cardinality(Creating') = Cardinality(Creating) + 1
    BY <2>2, PoolFinite, FS_AddElement
  <2>4. /\ bpc' \in [Borrower -> {"out", "tried", "creates", "waits", "woken"}]
        /\ \A c \in Borrower : bpc'[c] # "out" => has[c] = NoObject
    BY <1>1, <2>1 DEF PoolInv
  <2>5. object_num \in Nat /\ Cardinality(Creating) \in Nat /\ MaxNum \in Nat
    BY PoolFinite, ObjectPoolAssumption DEF PoolInv, OTypeOK
  <2> QED
    BY <1>1, <1>2, <2>1, <2>3, <2>4, <2>5, ThreadMovesKeeps
<1>3. CASE ~(object_num < MaxNum)
  <2>1. PICK to \in {"waits", "out"} : bpc' = [bpc EXCEPT ![b] = to]
    BY <1>3 DEF Borrow, Goes
  <2>2. object_num' = object_num
    BY <1>3 DEF Borrow
  <2>3. Creating' = Creating
    BY <1>1, <2>1 DEF Creating
  <2>4. /\ bpc' \in [Borrower -> {"out", "tried", "creates", "waits", "woken"}]
        /\ \A c \in Borrower : bpc'[c] # "out" => has[c] = NoObject
    BY <1>1, <2>1 DEF PoolInv
  <2> QED
    BY <1>1, <2>2, <2>3, <2>4, PoolFinite, ThreadMovesKeeps DEF PoolInv, OTypeOK, CountExact
<1> QED
  BY <1>2, <1>3

LEMMA CreatesKeeps == ASSUME PoolInv, NEW b \in Borrower, Creates(b) PROVE PoolInv'
<1>1. /\ bpc[b] = "creates" /\ has[b] = NoObject /\ bpc' = [bpc EXCEPT ![b] = "out"]
      /\ objects_' = objects_
      /\ bpc \in [Borrower -> {"out", "tried", "creates", "waits", "woken"}]
  BY DEF Creates, Goes, PoolInv, OTypeOK
<1>2. Creating' = Creating \ {b} /\ b \in Creating
  BY <1>1 DEF Creating
<1>3. Cardinality(Creating') = Cardinality(Creating) - 1 /\ Cardinality(Creating) \in Nat \ {0}
  BY <1>2, PoolFinite, FS_RemoveElement, FS_EmptySet
<1>4. bpc' \in [Borrower -> {"out", "tried", "creates", "waits", "woken"}]
  BY <1>1
<1>5. /\ object_num \in Nat /\ object_num <= MaxNum /\ MaxNum \in Nat
      /\ object_num = Len(objects_) + Cardinality(Held) + Cardinality(Creating)
  BY ObjectPoolAssumption DEF PoolInv, OTypeOK, CountExact
<1>6. CASE object_num' = object_num - 1 /\ UNCHANGED <<made, has>>
  <2>1. object_num' \in Nat
    BY <1>3, <1>5, <1>6, PoolFinite
  <2>2. \A c \in Borrower : bpc'[c] # "out" => has[c] = NoObject
    BY <1>1 DEF PoolInv
  <2> QED
    BY <1>1, <1>3, <1>4, <1>5, <1>6, <2>1, <2>2, ThreadMovesKeeps
<1>7. ASSUME NEW o \in Object \ made, made' = made \cup {o}, has' = [has EXCEPT ![b] = o],
             object_num' = object_num
      PROVE  PoolInv'
  <2>1. o \notin Held /\ o \notin Idle_ /\ o \in Object
    BY <1>7 DEF PoolInv
  <2>2. /\ Held' = Held \cup {o} /\ Cardinality(Held') = Cardinality(Held) + 1
        /\ \A c, d \in Borrower : has'[c] = has'[d] /\ has'[c] # NoObject => c = d
    BY <1>1, <1>7, <2>1, HeldGains
  <2>3. Idle_' = Idle_
    BY <1>1 DEF Idle_
  <2>4. /\ has' \in [Borrower -> Object \cup {NoObject}]
        /\ \A c \in Borrower : bpc'[c] # "out" => has'[c] = NoObject
    BY <1>1, <1>7 DEF PoolInv, OTypeOK
  <2>5. object_num' = Len(objects_') + Cardinality(Held') + Cardinality(Creating')
    BY <1>1, <1>3, <1>5, <1>7, <2>2, PoolFinite
  <2>6. Idle_' \cap Held' = {} /\ Idle_' \subseteq made' /\ Held' \subseteq made'
        /\ made' \subseteq Object
    BY <1>7, <2>1, <2>2, <2>3 DEF PoolInv, NoSharing, OTypeOK
  <2>7. objects_' \in Seq(Object) /\ \A i, j \in DOMAIN objects_' : objects_'[i] = objects_'[j] => i = j
    BY <1>1 DEF PoolInv, OTypeOK, NoSharing
  <2> QED
    BY <1>4, <1>5, <1>7, <2>2, <2>4, <2>5, <2>6, <2>7, PoolKept
<1> QED
  BY <1>6, <1>7 DEF Creates

LEMMA WaitingKeeps ==
    ASSUME PoolInv, NEW b \in Borrower, WaitEnds(b) \/ WakesUnnotified(b) \/ TimesOut(b)
    PROVE  PoolInv'
<1>1. /\ bpc[b] \in {"waits", "woken"} /\ has[b] = NoObject /\ UNCHANGED <<object_num, made>>
      /\ bpc \in [Borrower -> {"out", "tried", "creates", "waits", "woken"}]
  BY DEF WaitEnds, WakesUnnotified, TimesOut, PoolInv, OTypeOK
<1>2. ASSUME NEW to \in {"woken", "out"}, Goes(b, to), UNCHANGED <<objects_, has>>
      PROVE  PoolInv'
  <2>1. Creating' = Creating
    BY <1>1, <1>2 DEF Creating, Goes
  <2>2. /\ bpc' \in [Borrower -> {"out", "tried", "creates", "waits", "woken"}]
        /\ \A c \in Borrower : bpc'[c] # "out" => has[c] = NoObject
    BY <1>1, <1>2 DEF PoolInv, Goes
  <2> QED
    BY <1>1, <1>2, <2>1, <2>2, PoolFinite, ThreadMovesKeeps DEF PoolInv, OTypeOK, CountExact
<1>3. CASE WaitEnds(b)
  BY <1>1, <1>2, <1>3, TakesFrontKeeps DEF WaitEnds
<1> QED
  BY <1>2, <1>3 DEF WakesUnnotified, TimesOut

LEMMA ReturnKeeps == ASSUME PoolInv, NEW b \in Borrower, Return(b) PROVE PoolInv'
<1> DEFINE o == has[b]
<1>1. /\ bpc[b] = "out" /\ o # NoObject /\ objects_' = Append(objects_, o)
      /\ has' = [has EXCEPT ![b] = NoObject] /\ UNCHANGED <<object_num, made>> /\ NotifyOne
  BY DEF Return
<1>2. /\ Held' = Held \ {o} /\ Cardinality(Held') = Cardinality(Held) - 1 /\ o \in Held
      /\ \A c, d \in Borrower : has'[c] = has'[d] /\ has'[c] # NoObject => c = d
  BY <1>1, HeldLoses
<1>3. o \in Object /\ o \notin Idle_
  BY <1>2 DEF PoolInv, NoSharing, OTypeOK
<1> HIDE DEF o
<1>4. /\ objects_' \in Seq(Object) /\ Len(objects_') = Len(objects_) + 1
      /\ Idle_' = Idle_ \cup {o}
      /\ \A i, j \in DOMAIN objects_' : objects_'[i] = objects_'[j] => i = j
  BY <1>1, <1>3, IdleGains
<1>5. /\ bpc' \in [Borrower -> {"out", "tried", "creates", "waits", "woken"}]
      /\ \A c \in Borrower : bpc'[c] = bpc[c] \/ (bpc[c] = "waits" /\ bpc'[c] = "woken")
  BY <1>1, NotifyOneWakes
<1>6. Creating' = Creating
  BY <1>5 DEF Creating
<1>7. has' \in [Borrower -> Object \cup {NoObject}] /\ \A c \in Borrower : bpc'[c] # "out" => has'[c] = NoObject
  BY <1>1, <1>5 DEF PoolInv, OTypeOK
<1>8. object_num' = Len(objects_') + Cardinality(Held') + Cardinality(Creating')
  BY <1>1, <1>2, <1>4, <1>6, PoolFinite DEF PoolInv, CountExact
<1>9. Idle_' \cap Held' = {} /\ Idle_' \subseteq made' /\ Held' \subseteq made'
  BY <1>1, <1>2, <1>4 DEF PoolInv, NoSharing
<1>10. object_num' \in Nat /\ object_num' <= MaxNum /\ made' \subseteq Object
  BY <1>1 DEF PoolInv, OTypeOK, CountExact
<1> QED
  BY <1>2, <1>4, <1>5, <1>7, <1>8, <1>9, <1>10, PoolKept

LEMMA AddKeeps == ASSUME PoolInv, NEW o \in Object, Add(o) PROVE PoolInv'
<1>1. /\ o \notin made /\ made' = made \cup {o} /\ object_num < MaxNum
      /\ objects_' = Append(objects_, o) /\ object_num' = object_num + 1
      /\ has' = has /\ NotifyOne
  BY DEF Add
<1>2. o \notin Idle_ /\ o \notin Held
  BY <1>1 DEF PoolInv
<1>3. /\ objects_' \in Seq(Object) /\ Len(objects_') = Len(objects_) + 1
      /\ Idle_' = Idle_ \cup {o}
      /\ \A i, j \in DOMAIN objects_' : objects_'[i] = objects_'[j] => i = j
  BY <1>1, <1>2, IdleGains
<1>4. /\ bpc' \in [Borrower -> {"out", "tried", "creates", "waits", "woken"}]
      /\ \A c \in Borrower : bpc'[c] = bpc[c] \/ (bpc[c] = "waits" /\ bpc'[c] = "woken")
  BY <1>1, NotifyOneWakes
<1>5. Creating' = Creating /\ Held' = Held
  BY <1>1, <1>4 DEF Creating, Held
<1>6. \A c \in Borrower : bpc'[c] # "out" => has'[c] = NoObject
  BY <1>1, <1>4 DEF PoolInv
<1>7. /\ object_num \in Nat /\ object_num' \in Nat /\ object_num' <= MaxNum
      /\ object_num' = Len(objects_') + Cardinality(Held') + Cardinality(Creating')
  BY <1>1, <1>3, <1>5, PoolFinite, ObjectPoolAssumption DEF PoolInv, CountExact, OTypeOK
<1>8. /\ Idle_' \cap Held' = {} /\ Idle_' \subseteq made' /\ Held' \subseteq made'
      /\ made' \subseteq Object
  BY <1>1, <1>2, <1>3, <1>5 DEF PoolInv, NoSharing, OTypeOK
<1>9. /\ has' \in [Borrower -> Object \cup {NoObject}]
      /\ \A c, d \in Borrower : has'[c] = has'[d] /\ has'[c] # NoObject => c = d
  BY <1>1 DEF PoolInv, OTypeOK, NoSharing
<1> QED
  BY <1>3, <1>4, <1>6, <1>7, <1>8, <1>9, PoolKept

LEMMA RemoveKeeps == ASSUME PoolInv, NEW o \in Object, Remove(o) PROVE PoolInv'
<1>1. PICK i \in DOMAIN objects_ : objects_' = Erased(objects_, i)
  BY DEF Remove
<1>2. object_num' = object_num - 1 /\ UNCHANGED <<made, bpc, has>>
  BY DEF Remove
<1>3. /\ objects_' \in Seq(Object) /\ Len(objects_') = Len(objects_) - 1
      /\ Idle_' \subseteq Idle_
      /\ \A j, k \in DOMAIN objects_' : objects_'[j] = objects_'[k] => j = k
  BY <1>1, IdleErases
<1>4. Creating' = Creating /\ Held' = Held
  BY <1>2 DEF Creating, Held
<1>5. Len(objects_') \in Nat
  BY <1>3
<1>6. /\ object_num' \in Nat /\ object_num' <= MaxNum
      /\ object_num' = Len(objects_') + Cardinality(Held') + Cardinality(Creating')
  BY <1>2, <1>3, <1>4, <1>5, PoolFinite, ObjectPoolAssumption, SMTT(60) DEF PoolInv, CountExact, OTypeOK
<1>7. /\ Idle_' \cap Held' = {} /\ Idle_' \subseteq made' /\ Held' \subseteq made'
      /\ made' \subseteq Object
  BY <1>2, <1>3, <1>4 DEF PoolInv, NoSharing, OTypeOK
<1>8. /\ has' \in [Borrower -> Object \cup {NoObject}]
      /\ bpc' \in [Borrower -> {"out", "tried", "creates", "waits", "woken"}]
      /\ \A c, d \in Borrower : has'[c] = has'[d] /\ has'[c] # NoObject => c = d
      /\ \A c \in Borrower : bpc'[c] # "out" => has'[c] = NoObject
  BY <1>2 DEF PoolInv, OTypeOK, NoSharing
<1> QED
  BY <1>3, <1>6, <1>7, <1>8, PoolKept

-----------------------------------------------------------------------------

LEMMA PoolInit == OInit => PoolInv
<1> SUFFICES ASSUME OInit PROVE PoolInv
  OBVIOUS
<1>1. Idle_ = {} /\ Held = {} /\ Creating = {} /\ Len(objects_) = 0
  BY DEF OInit, Idle_, Held, Creating
<1>2. OTypeOK
  BY DEF OInit, OTypeOK
<1>3. NoSharing
  BY <1>1 DEF OInit, NoSharing
<1>4. CountExact
  BY <1>1, FS_EmptySet, ObjectPoolAssumption DEF OInit, CountExact
<1> QED
  BY <1>1, <1>2, <1>3, <1>4 DEF OInit, PoolInv

LEMMA PoolNext == PoolInv /\ [ONext]_ovars => PoolInv'
<1> SUFFICES ASSUME PoolInv, [ONext]_ovars PROVE PoolInv'
  OBVIOUS
<1>1. CASE UNCHANGED ovars
  BY <1>1 DEF ovars, PoolInv, OTypeOK, NoSharing, CountExact, Idle_, Held, Creating
<1>2. ASSUME NEW b \in Borrower,
             TryBorrow(b) \/ Borrow(b) \/ Creates(b) \/ WaitEnds(b)
             \/ WakesUnnotified(b) \/ TimesOut(b) \/ Return(b)
      PROVE  PoolInv'
  BY <1>2, TryBorrowKeeps, BorrowKeeps, CreatesKeeps, WaitingKeeps, ReturnKeeps
<1> QED
  BY <1>1, <1>2, AddKeeps, RemoveKeeps DEF ONext

\* HObjectPool never lends an object to two threads or one it also keeps, and
\* _object_num, though an object is made outside the mutex and the making may
\* fail, counts what is idle, lent or being made and stays within _max_num.
THEOREM PoolLendsOnce == OSpec => []LendsOnce
<1>1. PoolInv => LendsOnce
  BY DEF PoolInv, LendsOnce
<1> QED
  BY PoolInit, PoolNext, <1>1, PTL DEF OSpec

-----------------------------------------------------------------------------
(* HThreadPool: wait returns early only by the threads that are leaving.     *)
(* createThread and delThread count a thread in cur_thread_num first and in  *)
(* idle_thread_num after, a task the other way round: the sets below are the *)
(* threads in between.                                                       *)

Adding == {c \in Committer : cpc[c] \in {"adds", "adds one"} /\ new[c] = NoWorker}
Running == {w \in Worker : wpc[w] = "runs"}
Busy == {w \in Worker : wpc[w] \in {"runs", "ran"}}
Queued == {tasks[i] : i \in 1..Len(tasks)}
Jobs == {job[w] : w \in Running}

CommitterPlaces ==
    {"out", "starts", "creates", "adds", "decides", "extends", "adds one", "pushes", "notifies"}
WorkerPlaces == {"none", "top", "locks", "waits", "runs", "ran", "leaves", "left"}

PlacesOK ==
    /\ cpc \in [Committer -> CommitterPlaces] /\ wpc \in [Worker -> WorkerPlaces]
    /\ owner \in {"out", "reads tasks", "reads idle", "reads cur", "notifies", "joins"}
    /\ saw_idle \in Int

(* The two counts differ by the threads that are between them. *)
CountsApart ==
    cur_num + Cardinality(Leaving) = idle_num + Cardinality(Adding) + Cardinality(Busy)

(* delThread runs under task_mutex, and the least number of threads stays. *)
LeavesLocked ==
    \A w \in Worker :
        /\ wpc[w] \in {"leaves", "left"} => task_mutex = w
        /\ wpc[w] = "leaves" => cur_num > MinThreads

StopIsQuiet == owner \in {"notifies", "joins"} => \A c \in Committer : cpc[c] = "out"

(* A task that was committed is in its caller's hands, queued, run or done. *)
TasksPlaced ==
    /\ \A c \in Committer : cpc[c] # "out" => item[c] \in committed
    /\ Queued \subseteq committed /\ Jobs \subseteq committed
    /\ \A t \in committed :
          \/ t \in Queued \/ t \in Jobs \/ t \in done
          \/ \E c \in Committer : cpc[c] \notin {"out", "notifies"} /\ item[c] = t

(* What wait has still to wait for, after each of its reads. *)
AwaitedPlaced ==
    /\ owner = "reads tasks" => awaited \subseteq Queued \cup Jobs \cup done
    /\ owner \in {"reads idle", "reads cur"} => awaited \subseteq Jobs \cup done

LeaversCounted ==
    /\ owner # "reads cur" => leavers = Cardinality(Leaving)
    /\ owner = "reads cur" => cur_num + leavers >= saw_idle + Cardinality(awaited \ done)

WorkersInv ==
    /\ PTypeOK /\ PlacesOK /\ CountsApart /\ LeavesLocked /\ StopIsQuiet
    /\ TasksPlaced /\ AwaitedPlaced /\ LeaversCounted

LEMMA ThreadsFinite ==
    /\ IsFiniteSet(Leaving) /\ Cardinality(Leaving) \in Nat
    /\ IsFiniteSet(Adding) /\ Cardinality(Adding) \in Nat
    /\ IsFiniteSet(Busy) /\ Cardinality(Busy) \in Nat
    /\ IsFiniteSet(Running) /\ Running \subseteq Busy
<1>1. IsFiniteSet(Worker) /\ IsFiniteSet(Committer)
  BY ThreadPoolAssumption
<1>2. Leaving \subseteq Worker /\ Busy \subseteq Worker /\ Running \subseteq Busy /\ Adding \subseteq Committer
  BY DEF Leaving, Busy, Running, Adding
<1> QED
  BY <1>1, <1>2, FS_Subset, FS_CardinalityType

(* Each thread runs one task at a time. *)
LEMMA JobsAreFew ==
    IsFiniteSet(Jobs) /\ Cardinality(Jobs) \in Nat /\ Cardinality(Jobs) <= Cardinality(Busy)
<1> DEFINE f == [w \in Running |-> job[w]]
<1>1. f \in Surjection(Running, Jobs)
  BY DEF Surjection, Jobs
<1>2. IsFiniteSet(Jobs) /\ Cardinality(Jobs) <= Cardinality(Running)
  BY <1>1, ThreadsFinite, FS_Surjection
<1>3. Cardinality(Running) <= Cardinality(Busy) /\ Cardinality(Running) \in Nat
  BY ThreadsFinite, FS_Subset, FS_CardinalityType
<1>4. Cardinality(Jobs) \in Nat
  BY <1>2, FS_CardinalityType
<1> QED
  BY <1>2, <1>3, <1>4, ThreadsFinite

LEMMA AwaitedIsFinite ==
    ASSUME WorkersInv, owner = "reads cur"
    PROVE  IsFiniteSet(awaited \ done) /\ Cardinality(awaited \ done) \in Nat
<1>1. awaited \ done \subseteq Jobs
  BY DEF WorkersInv, AwaitedPlaced
<1> QED
  BY <1>1, JobsAreFew, FS_Subset, FS_CardinalityType

(* Where a step leaves the threads between their two counts as they are, and *)
(* both counts, CountsApart and what wait compares stay.                     *)
LEMMA CountsStay ==
    ASSUME WorkersInv, Adding' = Adding, Busy' = Busy, Leaving' = Leaving,
           UNCHANGED counters
    PROVE  CountsApart'
BY DEF WorkersInv, CountsApart, counters

LEMMA LeaversStay ==
    ASSUME WorkersInv, Leaving' = Leaving, UNCHANGED <<waiting, cur_num, done>>
    PROVE  LeaversCounted'
BY DEF WorkersInv, LeaversCounted, waiting

LEMMA AwaitedStays ==
    ASSUME WorkersInv, Queued \subseteq Queued', Jobs \subseteq Jobs',
           UNCHANGED <<waiting, done>>
    PROVE  AwaitedPlaced'
BY DEF WorkersInv, AwaitedPlaced, waiting

(* A step of a committer that takes no task and touches no worker. *)
LEMMA CommitterMoves ==
    ASSUME WorkersInv, NEW c \in Committer, cpc[c] # "out", cpc'[c] # "out",
           cpc[c] # "notifies", cpc'[c] # "notifies",
           \A d \in Committer \ {c} : cpc'[d] = cpc[d],
           UNCHANGED <<tasks, item, committed, working, task_mutex, waiting>>,
           cur_num' \in Nat, cur_num <= cur_num'
    PROVE  LeavesLocked' /\ StopIsQuiet' /\ TasksPlaced' /\ AwaitedPlaced' 
           /\ Leaving' = Leaving /\ Busy' = Busy
<1>1. Leaving' = Leaving /\ Busy' = Busy /\ Queued' = Queued /\ Jobs' = Jobs
  BY DEF Leaving, Busy, Queued, Jobs, Running, working
<1>2. LeavesLocked'
  BY ThreadPoolAssumption DEF WorkersInv, LeavesLocked, working, PTypeOK
<1>3. StopIsQuiet'
  BY DEF WorkersInv, StopIsQuiet, waiting
<1>4. TasksPlaced'
  BY <1>1 DEF WorkersInv, TasksPlaced, working
<1>5. AwaitedPlaced'
  BY <1>1, AwaitedStays DEF working
<1> QED
  BY <1>1, <1>2, <1>3, <1>4, <1>5

LEMMA StartsPoolKeeps == ASSUME WorkersInv, NEW c \in Committer, StartsPool(c) PROVE WorkersInv'
<1>1. /\ cpc[c] = "starts" /\ cpc' = [cpc EXCEPT ![c] = cpc'[c]] /\ cpc'[c] \in {"decides", "creates"}
      /\ UNCHANGED <<counters, tasks, new, item, committed, working, task_mutex, waiting>>
  BY DEF StartsPool, CommitterGoes, WorkersInv, PlacesOK
<1>2. PTypeOK'
  BY ThreadPoolAssumption, SMTT(60) DEF StartsPool, WorkersInv, PTypeOK, counters, working, waiting, CommitterGoes
<1>3. PlacesOK'
  BY <1>1 DEF WorkersInv, PlacesOK, CommitterPlaces, working, waiting
<1>4. Adding' = Adding
  BY <1>1, <1>3 DEF Adding, WorkersInv, PlacesOK
<1>5. \A d \in Committer \ {c} : cpc'[d] = cpc[d]
  BY <1>1 DEF WorkersInv, PlacesOK
<1>6. cur_num' \in Nat /\ cur_num <= cur_num'
  BY <1>1 DEF counters, WorkersInv, PTypeOK
<1>7. LeavesLocked' /\ StopIsQuiet' /\ TasksPlaced' /\ AwaitedPlaced' /\ Leaving' = Leaving /\ Busy' = Busy
  BY <1>1, <1>5, <1>6, CommitterMoves
<1>8. CountsApart' /\ LeaversCounted'
  BY <1>1, <1>4, <1>7, CountsStay, LeaversStay DEF counters, working
<1> QED
  BY <1>2, <1>3, <1>7, <1>8 DEF WorkersInv

LEMMA DecidesKeeps == ASSUME WorkersInv, NEW c \in Committer, Decides(c) PROVE WorkersInv'
<1>1. /\ cpc[c] = "decides" /\ cpc' = [cpc EXCEPT ![c] = cpc'[c]] /\ cpc'[c] \in {"extends", "pushes"}
      /\ UNCHANGED <<pstatus, counters, tasks, to_create, new, item, committed, working, task_mutex, waiting>>
  BY DEF Decides, CommitterGoes, WorkersInv, PlacesOK
<1>2. PTypeOK'
  BY <1>1 DEF WorkersInv, PTypeOK, counters, working, waiting
<1>3. PlacesOK'
  BY <1>1 DEF WorkersInv, PlacesOK, CommitterPlaces, working, waiting
<1>4. Adding' = Adding
  BY <1>1, <1>3 DEF Adding, WorkersInv, PlacesOK
<1>5. \A d \in Committer \ {c} : cpc'[d] = cpc[d]
  BY <1>1 DEF WorkersInv, PlacesOK
<1>6. cur_num' \in Nat /\ cur_num <= cur_num'
  BY <1>1 DEF counters, WorkersInv, PTypeOK
<1>7. LeavesLocked' /\ StopIsQuiet' /\ TasksPlaced' /\ AwaitedPlaced' /\ Leaving' = Leaving /\ Busy' = Busy
  BY <1>1, <1>5, <1>6, CommitterMoves
<1>8. CountsApart' /\ LeaversCounted'
  BY <1>1, <1>4, <1>7, CountsStay, LeaversStay DEF counters, working
<1> QED
  BY <1>2, <1>3, <1>7, <1>8 DEF WorkersInv

LEMMA AddsCurKeeps == ASSUME WorkersInv, NEW c \in Committer, AddsCur(c) PROVE WorkersInv'
<1>1. /\ cpc[c] \in {"adds", "adds one"} /\ new[c] # NoWorker /\ cur_num' = cur_num + 1
      /\ new' = [new EXCEPT ![c] = NoWorker]
      /\ UNCHANGED <<pstatus, idle_num, tasks, cpc, to_create, item, committed, working, task_mutex, waiting>>
  BY DEF AddsCur
<1>2. cur_num \in Nat /\ idle_num \in Int
  BY DEF WorkersInv, PTypeOK
<1>3. cur_num' = cur_num + 1 /\ cur_num' \in Nat /\ cur_num <= cur_num'
  <2>1. cur_num' = cur_num + 1
    BY DEF AddsCur
  <2> QED
    BY <1>2, <2>1
<1>4. PTypeOK'
  BY <1>1, <1>3 DEF WorkersInv, PTypeOK, working, waiting
<1>5. PlacesOK'
  BY <1>1 DEF WorkersInv, PlacesOK, working, waiting
<1>6. LeavesLocked' /\ StopIsQuiet' /\ TasksPlaced' /\ AwaitedPlaced' /\ Leaving' = Leaving /\ Busy' = Busy
  BY <1>1, <1>3, CommitterMoves
<1>7. c \notin Adding /\ Adding' = Adding \cup {c}
  BY <1>1 DEF Adding, WorkersInv, PTypeOK
<1>8. Cardinality(Adding') = Cardinality(Adding) + 1
  BY <1>7, ThreadsFinite, FS_AddElement
<1>9. CountsApart'
  <2>1. idle_num' = idle_num
    BY <1>1
  <2> QED
    BY <1>2, <1>3, <1>6, <1>8, <2>1, ThreadsFinite DEF WorkersInv, CountsApart
<1>10. LeaversCounted'
  <2>1. owner # "reads cur" => leavers' = Cardinality(Leaving')
    BY <1>1, <1>6 DEF WorkersInv, LeaversCounted, waiting
  <2>2. ASSUME owner = "reads cur" PROVE cur_num' + leavers' >= saw_idle' + Cardinality(awaited' \ done')
    <3>1. Cardinality(awaited \ done) \in Nat /\ leavers \in Nat /\ saw_idle \in Int
      BY <2>2, AwaitedIsFinite DEF WorkersInv, PTypeOK, PlacesOK
    <3>2. cur_num + leavers >= saw_idle + Cardinality(awaited \ done)
      BY <2>2 DEF WorkersInv, LeaversCounted
    <3>3. awaited' \ done' = awaited \ done /\ leavers' = leavers /\ saw_idle' = saw_idle
      BY <1>1 DEF waiting, working
    <3> QED
      BY <1>2, <1>3, <3>1, <3>2, <3>3
  <2> QED
    BY <1>1, <2>1, <2>2 DEF LeaversCounted, waiting
<1> QED
  BY <1>4, <1>5, <1>6, <1>9, <1>10 DEF WorkersInv

LEMMA AddsIdleKeeps == ASSUME WorkersInv, NEW c \in Committer, AddsIdle(c) PROVE WorkersInv'
<1>1. /\ cpc[c] \in {"adds", "adds one"} /\ new[c] = NoWorker
      /\ cpc' = [cpc EXCEPT ![c] = cpc'[c]] /\ cpc'[c] \in {"creates", "pushes"}
      /\ UNCHANGED <<pstatus, cur_num, tasks, to_create, new, item, committed, working, task_mutex, waiting>>
  BY DEF AddsIdle, CommitterGoes, WorkersInv, PlacesOK
<1>2. cur_num \in Nat /\ idle_num \in Int
  BY DEF WorkersInv, PTypeOK
<1>3. idle_num' = idle_num + 1
  BY DEF AddsIdle
<1>4. idle_num' \in Int /\ cur_num' = cur_num
  <2>1. idle_num' \in Int
    BY <1>2, <1>3
  <2> QED
    BY <1>1, <2>1
<1>5. PTypeOK'
  BY <1>1, <1>4 DEF WorkersInv, PTypeOK, working, waiting
<1>6. PlacesOK'
  BY <1>1 DEF WorkersInv, PlacesOK, CommitterPlaces, working, waiting
<1>7. \A d \in Committer \ {c} : cpc'[d] = cpc[d]
  BY <1>1 DEF WorkersInv, PlacesOK
<1>8. LeavesLocked' /\ StopIsQuiet' /\ TasksPlaced' /\ AwaitedPlaced' /\ Leaving' = Leaving /\ Busy' = Busy
  <2>1. cur_num' \in Nat /\ cur_num <= cur_num'
    BY <1>2, <1>4
  <2> QED
    BY <1>1, <1>7, <2>1, CommitterMoves
<1>9. c \in Adding /\ Adding' = Adding \ {c}
  BY <1>1, <1>7 DEF Adding
<1>10. Cardinality(Adding') = Cardinality(Adding) - 1
  BY <1>9, ThreadsFinite, FS_RemoveElement
<1>11. CountsApart'
  BY <1>2, <1>3, <1>4, <1>8, <1>10, ThreadsFinite DEF WorkersInv, CountsApart
<1>12. LeaversCounted'
  BY <1>1, <1>8, LeaversStay DEF working
<1> QED
  BY <1>5, <1>6, <1>8, <1>11, <1>12 DEF WorkersInv

(* A step that leaves a worker where it is, or takes it from one of the      *)
(* places outside the counts to another.                                     *)
Uncounted == {"none", "top", "locks", "waits"}

LEMMA WorkersElsewhere ==
    ASSUME WorkersInv,
           \A w \in Worker : wpc'[w] = wpc[w] \/ (wpc[w] \in Uncounted /\ wpc'[w] \in Uncounted),
           UNCHANGED <<job, cur_num, task_mutex>>
    PROVE  Leaving' = Leaving /\ Busy' = Busy /\ Jobs' = Jobs /\ LeavesLocked'
<1>1. Leaving' = Leaving /\ Busy' = Busy /\ Running' = Running
  BY DEF Leaving, Busy, Running, Uncounted
<1>2. Jobs' = Jobs
  BY <1>1 DEF Jobs
<1>3. LeavesLocked'
  BY DEF WorkersInv, LeavesLocked, Uncounted
<1> QED
  BY <1>1, <1>2, <1>3

LEMMA CreatesThreadKeeps == ASSUME WorkersInv, NEW c \in Committer, CreatesThread(c) PROVE WorkersInv'
<1>1. /\ cpc[c] \in {"creates", "extends"}
      /\ UNCHANGED <<pstatus, counters, tasks, item, committed, job, done, task_mutex, waiting>>
  BY DEF CreatesThread
<1>2. /\ cpc \in [Committer -> CommitterPlaces] /\ wpc \in [Worker -> WorkerPlaces]
      /\ new \in [Committer -> Worker \cup {NoWorker}]
      /\ to_create \in [Committer -> 0..MinThreads]
  BY DEF WorkersInv, PlacesOK, PTypeOK
<1>3. \/ /\ cpc' = [cpc EXCEPT ![c] = IF cpc[c] = "creates" THEN "decides" ELSE "pushes"]
         /\ UNCHANGED <<to_create, new, wpc>>
      \/ \E w \in Worker :
         /\ wpc[w] = "none" /\ wpc' = [wpc EXCEPT ![w] = "top"] /\ new' = [new EXCEPT ![c] = w]
         /\ cpc' = [cpc EXCEPT ![c] = IF cpc[c] = "creates" THEN "adds" ELSE "adds one"]
         /\ cpc[c] = "creates" => to_create[c] # 0
         /\ to_create' = [to_create EXCEPT ![c] = IF cpc[c] = "creates" THEN @ - 1 ELSE 0]
  BY DEF CreatesThread, CommitterGoes, Turns
<1>4. /\ cpc' \in [Committer -> CommitterPlaces] /\ wpc' \in [Worker -> WorkerPlaces]
      /\ new' \in [Committer -> Worker \cup {NoWorker}]
      /\ cpc'[c] \notin {"out", "notifies"} /\ \A d \in Committer \ {c} : cpc'[d] = cpc[d] /\ new'[d] = new[d]
      /\ cpc'[c] \in {"adds", "adds one"} => new'[c] # NoWorker
      /\ \A w \in Worker : wpc'[w] = wpc[w] \/ (wpc[w] \in Uncounted /\ wpc'[w] \in Uncounted)
  <2>1. CASE UNCHANGED <<to_create, new, wpc>>
             /\ cpc' = [cpc EXCEPT ![c] = IF cpc[c] = "creates" THEN "decides" ELSE "pushes"]
    BY <1>2, <2>1 DEF CommitterPlaces
  <2>2. CASE ~(UNCHANGED <<to_create, new, wpc>>
               /\ cpc' = [cpc EXCEPT ![c] = IF cpc[c] = "creates" THEN "decides" ELSE "pushes"])
    <3>1. PICK w \in Worker :
             /\ wpc[w] = "none" /\ wpc' = [wpc EXCEPT ![w] = "top"] /\ new' = [new EXCEPT ![c] = w]
             /\ cpc' = [cpc EXCEPT ![c] = IF cpc[c] = "creates" THEN "adds" ELSE "adds one"]
      BY <1>3, <2>2
    <3> QED
      BY <1>2, <3>1, ThreadPoolAssumption DEF CommitterPlaces, WorkerPlaces, Uncounted
  <2> QED
    BY <2>1, <2>2
<1>5. to_create' \in [Committer -> 0..MinThreads]
  <2>1. to_create[c] \in 0..MinThreads /\ 0 \in 0..MinThreads
        /\ (to_create[c] # 0 => to_create[c] - 1 \in 0..MinThreads)
    BY <1>2, ThreadPoolAssumption
  <2> QED
    BY <1>1, <1>2, <1>3, <2>1
<1>6. PTypeOK'
  BY <1>1, <1>4, <1>5 DEF WorkersInv, PTypeOK, counters, waiting
<1>7. PlacesOK'
  BY <1>1, <1>4 DEF WorkersInv, PlacesOK, waiting
<1>8. Leaving' = Leaving /\ Busy' = Busy /\ Jobs' = Jobs /\ LeavesLocked'
  BY <1>1, <1>4, WorkersElsewhere DEF counters
<1>9. Adding' = Adding
  BY <1>1, <1>4 DEF Adding
<1>10. Queued' = Queued
  BY <1>1 DEF Queued
<1>11. StopIsQuiet'
  BY <1>1, <1>4 DEF WorkersInv, StopIsQuiet, waiting
<1>12. TasksPlaced'
  BY <1>1, <1>4, <1>8, <1>10 DEF WorkersInv, TasksPlaced
<1>13. AwaitedPlaced'
  BY <1>1, <1>8, <1>10, AwaitedStays
<1>14. CountsApart' /\ LeaversCounted'
  BY <1>1, <1>8, <1>9, CountsStay, LeaversStay DEF counters
<1> QED
  BY <1>6, <1>7, <1>8, <1>11, <1>12, <1>13, <1>14 DEF WorkersInv

LEMMA CommitsKeeps ==
    ASSUME WorkersInv, NEW c \in Committer, NEW t \in Task, Commits(c, t) PROVE WorkersInv'
<1>1. /\ owner \notin {"notifies", "joins"} /\ t \notin committed /\ cpc[c] = "out"
      /\ cpc' = [cpc EXCEPT ![c] = cpc'[c]] /\ cpc'[c] \in {"starts", "decides"}
      /\ committed' = committed \cup {t} /\ item' = [item EXCEPT ![c] = t]
      /\ UNCHANGED <<pstatus, counters, tasks, to_create, new, working, task_mutex, waiting>>
  BY DEF Commits, CommitterGoes, WorkersInv, PlacesOK
<1>2. PTypeOK'
  BY <1>1 DEF WorkersInv, PTypeOK, counters, working, waiting
<1>3. PlacesOK'
  BY <1>1 DEF WorkersInv, PlacesOK, CommitterPlaces, working, waiting
<1>4. \A d \in Committer \ {c} : cpc'[d] = cpc[d] /\ item'[d] = item[d]
  BY <1>1 DEF WorkersInv, PlacesOK, PTypeOK
<1>5. item'[c] = t
  BY <1>1 DEF WorkersInv, PTypeOK
<1>6. Adding' = Adding
  BY <1>1, <1>4 DEF Adding
<1>7. Leaving' = Leaving /\ Busy' = Busy /\ Queued' = Queued /\ Jobs' = Jobs
  BY <1>1 DEF Leaving, Busy, Queued, Jobs, Running, working
<1>8. LeavesLocked' /\ StopIsQuiet'
  BY <1>1 DEF WorkersInv, LeavesLocked, StopIsQuiet, working, waiting, counters
<1>9. TasksPlaced'
  <2>1. \A d \in Committer : cpc'[d] # "out" => item'[d] \in committed'
    BY <1>1, <1>4, <1>5 DEF WorkersInv, TasksPlaced
  <2>2. ASSUME NEW k \in committed'
        PROVE  \/ k \in Queued' \/ k \in Jobs' \/ k \in done'
               \/ \E d \in Committer : cpc'[d] \notin {"out", "notifies"} /\ item'[d] = k
    <3>1. CASE k = t
      BY <1>1, <1>5, <3>1
    <3>2. CASE k \in committed
      BY <1>1, <1>4, <1>7, <3>2 DEF WorkersInv, TasksPlaced, working
    <3> QED
      BY <1>1, <3>1, <3>2
  <2> QED
    BY <1>1, <1>7, <2>1, <2>2 DEF WorkersInv, TasksPlaced
<1>10. AwaitedPlaced'
  BY <1>1, <1>7, AwaitedStays DEF working
<1>11. CountsApart' /\ LeaversCounted'
  BY <1>1, <1>6, <1>7, CountsStay, LeaversStay DEF counters, working
<1> QED
  BY <1>2, <1>3, <1>8, <1>9, <1>10, <1>11 DEF WorkersInv

LEMMA NothingQueued == ASSUME tasks = <<>> PROVE Queued = {}
<1>1. Len(tasks) = 0
  OBVIOUS
<1>2. 1..0 = {}
  OBVIOUS
<1> QED
  BY <1>1, <1>2 DEF Queued

LEMMA QueuedGrows ==
    ASSUME tasks \in Seq(Task), NEW t \in Task, tasks' = Append(tasks, t)
    PROVE  tasks' \in Seq(Task) /\ Queued' = Queued \cup {t}
<1>1. /\ Len(tasks) \in Nat /\ tasks' \in Seq(Task) /\ Len(tasks') = Len(tasks) + 1
      /\ \A i \in 1..Len(tasks) : tasks'[i] = tasks[i]
      /\ tasks'[Len(tasks) + 1] = t
  OBVIOUS
<1> QED
  BY <1>1 DEF Queued

LEMMA QueuedLosesHead ==
    ASSUME tasks \in Seq(Task), tasks # <<>>, tasks' = Tail(tasks)
    PROVE  /\ Head(tasks) \in Queued /\ tasks' \in Seq(Task) /\ Head(tasks) \in Task
           /\ Queued = Queued' \cup {Head(tasks)}
<1>1. /\ Len(tasks) \in Nat \ {0} /\ tasks' \in Seq(Task) /\ Len(tasks') = Len(tasks) - 1
      /\ Head(tasks) = tasks[1] /\ tasks[1] \in Task
      /\ \A i \in 1..Len(tasks) - 1 : tasks'[i] = tasks[i + 1]
  OBVIOUS
<1>2. ASSUME NEW t \in Queued, t # Head(tasks) PROVE t \in Queued'
  <2>1. PICK i \in 1..Len(tasks) : t = tasks[i]
    BY <1>2 DEF Queued
  <2>2. i - 1 \in 1..Len(tasks') /\ tasks'[i - 1] = tasks[(i - 1) + 1] /\ (i - 1) + 1 = i
    BY <1>1, <1>2, <2>1
  <2> QED
    BY <2>1, <2>2 DEF Queued
<1>3. ASSUME NEW t \in Queued' PROVE t \in Queued
  <2>1. PICK i \in 1..Len(tasks') : t = tasks'[i]
    BY <1>3 DEF Queued
  <2>2. i + 1 \in 1..Len(tasks) /\ t = tasks[i + 1]
    BY <1>1, <2>1
  <2> QED
    BY <2>2 DEF Queued
<1>4. Head(tasks) \in Queued
  BY <1>1 DEF Queued
<1> QED
  BY <1>1, <1>2, <1>3, <1>4

LEMMA PushesKeeps == ASSUME WorkersInv, NEW c \in Committer, Pushes(c) PROVE WorkersInv'
<1>1. /\ cpc[c] = "pushes" /\ cpc' = [cpc EXCEPT ![c] = "notifies"]
      /\ tasks' = Append(tasks, item[c])
      /\ UNCHANGED <<pstatus, counters, to_create, new, item, committed, working, task_mutex, waiting>>
  BY DEF Pushes, CommitterGoes
<1>2. tasks \in Seq(Task) /\ committed \subseteq Task /\ item[c] \in committed
  BY <1>1 DEF WorkersInv, PTypeOK, TasksPlaced
<1>3. tasks' \in Seq(Task) /\ Queued' = Queued \cup {item[c]}
  BY <1>1, <1>2, QueuedGrows
<1>4. PTypeOK'
  BY <1>1, <1>3 DEF WorkersInv, PTypeOK, counters, working, waiting
<1>5. PlacesOK'
  BY <1>1 DEF WorkersInv, PlacesOK, CommitterPlaces, working, waiting
<1>6. \A d \in Committer : cpc'[d] = IF d = c THEN "notifies" ELSE cpc[d]
  BY <1>1 DEF WorkersInv, PlacesOK
<1>7. Adding' = Adding
  <2>1. ASSUME NEW d \in Committer
        PROVE  cpc'[d] \in {"adds", "adds one"} <=> cpc[d] \in {"adds", "adds one"}
    <3>1. cpc[c] = "pushes"
      BY <1>1
    <3> QED
      BY <1>6, <3>1
  <2> QED
    BY <1>1, <2>1 DEF Adding
<1>8. Leaving' = Leaving /\ Busy' = Busy /\ Jobs' = Jobs
  BY <1>1 DEF Leaving, Busy, Jobs, Running, working
<1>9. LeavesLocked' /\ StopIsQuiet'
  BY <1>1, <1>6 DEF WorkersInv, LeavesLocked, StopIsQuiet, working, waiting, counters
<1>10. TasksPlaced'
  BY <1>1, <1>2, <1>3, <1>6, <1>8 DEF WorkersInv, TasksPlaced, working
<1>11. AwaitedPlaced'
  BY <1>1, <1>3, <1>8, AwaitedStays DEF working
<1>12. CountsApart' /\ LeaversCounted'
  BY <1>1, <1>7, <1>8, CountsStay, LeaversStay DEF counters, working
<1> QED
  BY <1>4, <1>5, <1>9, <1>10, <1>11, <1>12 DEF WorkersInv

LEMMA NotifiesKeeps == ASSUME WorkersInv, NEW c \in Committer, Notifies(c) PROVE WorkersInv'
<1>1. /\ cpc[c] = "notifies" /\ cpc' = [cpc EXCEPT ![c] = "out"]
      /\ item' = [item EXCEPT ![c] = NoTask]
      /\ UNCHANGED <<pstatus, counters, tasks, to_create, new, committed, job, done, task_mutex, waiting>>
  BY DEF Notifies, CommitterGoes
<1>2. wpc' = wpc \/ \E w \in Worker : wpc[w] = "waits" /\ wpc' = [wpc EXCEPT ![w] = "locks"]
  BY DEF Notifies, Turns, Sleeping
<1>3. /\ wpc' \in [Worker -> WorkerPlaces]
      /\ \A w \in Worker : wpc'[w] = wpc[w] \/ (wpc[w] \in Uncounted /\ wpc'[w] \in Uncounted)
  BY <1>2 DEF WorkersInv, PlacesOK, WorkerPlaces, Uncounted
<1>4. PTypeOK'
  BY <1>1 DEF WorkersInv, PTypeOK, counters, waiting
<1>5. PlacesOK'
  BY <1>1, <1>3 DEF WorkersInv, PlacesOK, CommitterPlaces, waiting
<1>6. \A d \in Committer : /\ cpc'[d] = IF d = c THEN "out" ELSE cpc[d]
                           /\ d # c => item'[d] = item[d]
  BY <1>1 DEF WorkersInv, PlacesOK, PTypeOK
<1>7. Adding' = Adding
  <2>1. ASSUME NEW d \in Committer
        PROVE  cpc'[d] \in {"adds", "adds one"} <=> cpc[d] \in {"adds", "adds one"}
    <3>1. cpc[c] = "notifies"
      BY <1>1
    <3> QED
      BY <1>6, <3>1
  <2> QED
    BY <1>1, <2>1 DEF Adding
<1>8. Leaving' = Leaving /\ Busy' = Busy /\ Jobs' = Jobs /\ LeavesLocked'
  BY <1>1, <1>3, WorkersElsewhere DEF counters
<1>9. Queued' = Queued
  BY <1>1 DEF Queued
<1>10. StopIsQuiet'
  BY <1>1, <1>6 DEF WorkersInv, StopIsQuiet, waiting
<1>11. TasksPlaced'
  BY <1>1, <1>6, <1>8, <1>9 DEF WorkersInv, TasksPlaced
<1>12. AwaitedPlaced'
  BY <1>1, <1>8, <1>9, AwaitedStays
<1>13. CountsApart' /\ LeaversCounted'
  BY <1>1, <1>7, <1>8, CountsStay, LeaversStay DEF counters
<1> QED
  BY <1>4, <1>5, <1>8, <1>10, <1>11, <1>12, <1>13 DEF WorkersInv

-----------------------------------------------------------------------------
(* The same for what a worker does.                                          *)

(* A worker's step that leaves the counts alone. *)
LEMMA WorkerRests ==
    ASSUME WorkersInv, wpc' \in [Worker -> WorkerPlaces], Leaving' = Leaving, Busy' = Busy,
           Jobs' = Jobs, LeavesLocked', task_mutex' \in Worker \cup {NoWorker},
           UNCHANGED <<pstatus, counters, tasks, committing, job, done, waiting>>
    PROVE  WorkersInv'
<1>1. PTypeOK'
  BY DEF WorkersInv, PTypeOK, counters, committing, waiting
<1>2. PlacesOK'
  BY DEF WorkersInv, PlacesOK, committing, waiting
<1>3. Adding' = Adding /\ Queued' = Queued
  BY DEF Adding, Queued, committing
<1>4. StopIsQuiet'
  BY DEF WorkersInv, StopIsQuiet, committing, waiting
<1>5. TasksPlaced'
  BY <1>3 DEF WorkersInv, TasksPlaced, committing
<1>6. AwaitedPlaced'
  BY <1>3, AwaitedStays
<1>7. CountsApart' /\ LeaversCounted'
  BY <1>3, CountsStay, LeaversStay DEF counters
<1> QED
  BY <1>1, <1>2, <1>4, <1>5, <1>6, <1>7 DEF WorkersInv

LEMMA LoopsAgainKeeps == ASSUME WorkersInv, NEW w \in Worker, LoopsAgain(w) PROVE WorkersInv'
<1>1. /\ wpc[w] = "top" /\ wpc' = [wpc EXCEPT ![w] = wpc'[w]] /\ wpc'[w] \in {"none", "locks"}
      /\ UNCHANGED <<pstatus, counters, tasks, committing, job, done, task_mutex, waiting>>
  BY DEF LoopsAgain, Turns, WorkersInv, PlacesOK
<1>2. /\ wpc' \in [Worker -> WorkerPlaces]
      /\ \A v \in Worker : wpc'[v] = wpc[v] \/ (wpc[v] \in Uncounted /\ wpc'[v] \in Uncounted)
  BY <1>1 DEF WorkersInv, PlacesOK, WorkerPlaces, Uncounted
<1>3. Leaving' = Leaving /\ Busy' = Busy /\ Jobs' = Jobs /\ LeavesLocked'
  BY <1>1, <1>2, WorkersElsewhere DEF counters
<1>4. task_mutex' \in Worker \cup {NoWorker}
  BY <1>1 DEF WorkersInv, PTypeOK
<1> QED
  BY <1>1, <1>2, <1>3, <1>4, WorkerRests

LEMMA TakesKeeps ==
    ASSUME WorkersInv, NEW w \in Worker, wpc[w] \in {"locks", "waits"}, tasks # <<>>,
           wpc' = [wpc EXCEPT ![w] = "runs"], Takes(w),
           UNCHANGED <<pstatus, cur_num, committing, done, waiting, task_mutex>>
    PROVE  WorkersInv'
<1>1. job' = [job EXCEPT ![w] = Head(tasks)] /\ tasks' = Tail(tasks)
  BY DEF Takes
<1>2. cur_num \in Nat /\ idle_num \in Int
  BY DEF WorkersInv, PTypeOK
<1>3. idle_num' = idle_num - 1
  BY DEF Takes
<1>4. idle_num' \in Int
  BY <1>2, <1>3
<1>5. tasks \in Seq(Task) /\ committed \subseteq Task
  BY DEF WorkersInv, PTypeOK
<1>6. /\ Head(tasks) \in Queued /\ tasks' \in Seq(Task) /\ Head(tasks) \in Task
      /\ Queued = Queued' \cup {Head(tasks)}
  BY <1>1, <1>5, QueuedLosesHead
<1>7. PTypeOK'
  BY <1>1, <1>4, <1>6 DEF WorkersInv, PTypeOK, committing, waiting
<1>8. PlacesOK'
  BY DEF WorkersInv, PlacesOK, WorkerPlaces, committing, waiting
<1>9. /\ \A v \in Worker \ {w} : wpc'[v] = wpc[v] /\ job'[v] = job[v]
      /\ wpc'[w] = "runs" /\ job'[w] = Head(tasks)
  BY <1>1 DEF WorkersInv, PlacesOK, PTypeOK
<1>10. Leaving' = Leaving
  BY <1>9 DEF Leaving
<1>11. w \notin Busy /\ Busy' = Busy \cup {w} /\ w \notin Running /\ Running' = Running \cup {w}
  BY <1>9 DEF Busy, Running
<1>12. Cardinality(Busy') = Cardinality(Busy) + 1
  BY <1>11, ThreadsFinite, FS_AddElement
<1>13. Jobs' = Jobs \cup {Head(tasks)}
  <2>1. \A v \in Running : job'[v] = job[v]
    BY <1>9, <1>11 DEF Running
  <2> QED
    BY <1>9, <1>11, <2>1 DEF Jobs
<1>14. Adding' = Adding
  BY DEF Adding, committing
<1>15. CountsApart'
  BY <1>2, <1>3, <1>10, <1>12, <1>14, ThreadsFinite DEF WorkersInv, CountsApart
<1>16. LeavesLocked' /\ StopIsQuiet'
  BY <1>9 DEF WorkersInv, LeavesLocked, StopIsQuiet, committing, waiting
<1>17. TasksPlaced'
  BY <1>6, <1>13 DEF WorkersInv, TasksPlaced, committing
<1>18. AwaitedPlaced'
  BY <1>6, <1>13, tasks # <<>> DEF WorkersInv, AwaitedPlaced, waiting
<1>19. LeaversCounted'
  BY <1>10, LeaversStay
<1> QED
  BY <1>7, <1>8, <1>15, <1>16, <1>17, <1>18, <1>19 DEF WorkersInv

LEMMA LockedKeeps ==
    ASSUME WorkersInv, NEW w \in Worker, NEW late \in BOOLEAN, Locked(w, late),
           wpc[w] \in {"locks", "waits"}
    PROVE  WorkersInv'
<1>1. task_mutex = NoWorker /\ UNCHANGED <<pstatus, cur_num, committing, done, waiting>>
  BY DEF Locked
<1>2. CASE wpc' = [wpc EXCEPT ![w] = wpc'[w]] /\ wpc'[w] \in Uncounted
           /\ UNCHANGED <<tasks, job, task_mutex, idle_num>>
  <2>1. /\ wpc' \in [Worker -> WorkerPlaces]
        /\ \A v \in Worker : wpc'[v] = wpc[v] \/ (wpc[v] \in Uncounted /\ wpc'[v] \in Uncounted)
    BY <1>2 DEF WorkersInv, PlacesOK, WorkerPlaces, Uncounted
  <2>2. Leaving' = Leaving /\ Busy' = Busy /\ Jobs' = Jobs /\ LeavesLocked'
    BY <1>1, <1>2, <2>1, WorkersElsewhere DEF counters
  <2> QED
    BY <1>1, <1>2, <2>1, <2>2, WorkerRests DEF counters
<1>3. CASE /\ wpc' = [wpc EXCEPT ![w] = "leaves"] /\ task_mutex' = w /\ cur_num > MinThreads
           /\ UNCHANGED <<tasks, job, idle_num>>
  <2>1. /\ wpc' \in [Worker -> WorkerPlaces] /\ wpc'[w] = "leaves"
        /\ \A v \in Worker \ {w} : wpc'[v] = wpc[v] 
    BY <1>3 DEF WorkersInv, PlacesOK, WorkerPlaces
  <2>2. Leaving' = Leaving /\ Busy' = Busy /\ Running' = Running
    BY <2>1, wpc[w] \in {"locks", "waits"} DEF Leaving, Busy, Running
  <2>3. Jobs' = Jobs
    BY <1>3, <2>2 DEF Jobs
  <2>4. \A v \in Worker : wpc[v] \notin {"leaves", "left"}
    BY <1>1, ThreadPoolAssumption DEF WorkersInv, LeavesLocked
  <2>5. LeavesLocked'
    BY <1>1, <1>3, <2>1, <2>4 DEF LeavesLocked
  <2>6. task_mutex' \in Worker \cup {NoWorker}
    BY <1>3
  <2> QED
    BY <1>1, <1>3, <2>1, <2>2, <2>3, <2>5, <2>6, WorkerRests DEF counters
<1>4. CASE /\ tasks # <<>> /\ wpc' = [wpc EXCEPT ![w] = "runs"] /\ Takes(w) /\ UNCHANGED task_mutex
  BY <1>1, <1>4, TakesKeeps
<1> QED
  <2>1. wpc[w] \in Uncounted /\ wpc \in [Worker -> WorkerPlaces]
    BY DEF Uncounted, WorkersInv, PlacesOK
  <2>2. CASE pstatus = "STOP"
    BY <1>2, <2>1, <2>2 DEF Locked, Turns, Uncounted
  <2>3. CASE pstatus # "STOP" /\ tasks # <<>>
    BY <1>4, <2>3 DEF Locked, Turns
  <2>4. CASE pstatus # "STOP" /\ tasks = <<>>
    BY <1>2, <1>3, <2>1, <2>4 DEF Locked, Turns, Uncounted, MayLeave
  <2> QED
    BY <2>2, <2>3, <2>4

LEMMA LeavesCurKeeps == ASSUME WorkersInv, NEW w \in Worker, LeavesCur(w) PROVE WorkersInv'
<1>1. /\ wpc[w] = "leaves" /\ wpc' = [wpc EXCEPT ![w] = "left"]
      /\ UNCHANGED <<pstatus, idle_num, tasks, committing, job, done, task_mutex, owner, saw_idle, awaited>>
  BY DEF LeavesCur, Turns
<1>2. cur_num' = cur_num - 1 /\ leavers' = leavers + 1
  BY DEF LeavesCur
<1>3. /\ cur_num \in Nat /\ idle_num \in Int /\ leavers \in Nat /\ saw_idle \in Int
      /\ MinThreads \in Nat /\ MinThreads > 0
  <2>1. cur_num \in Nat /\ idle_num \in Int /\ leavers \in Nat /\ saw_idle \in Int
    BY DEF WorkersInv, PTypeOK, PlacesOK
  <2>2. MinThreads \in Nat /\ MinThreads > 0
    BY ThreadPoolAssumption
  <2> QED
    BY <2>1, <2>2
<1>4. cur_num > MinThreads
  BY <1>1 DEF WorkersInv, LeavesLocked
<1>5. cur_num' \in Nat /\ leavers' \in Nat
  BY <1>2, <1>3, <1>4
<1>6. PTypeOK'
  BY <1>1, <1>5 DEF WorkersInv, PTypeOK, committing
<1>7. PlacesOK'
  BY <1>1 DEF WorkersInv, PlacesOK, WorkerPlaces, committing
<1>8. wpc'[w] = "left" /\ \A v \in Worker \ {w} : wpc'[v] = wpc[v]
  BY <1>1 DEF WorkersInv, PlacesOK
<1>9. /\ w \notin Leaving /\ Leaving' = Leaving \cup {w} /\ Busy' = Busy /\ Running' = Running
      /\ Adding' = Adding /\ Queued' = Queued
  BY <1>1, <1>8 DEF Leaving, Busy, Running, Adding, Queued, committing
<1>10. Jobs' = Jobs
  BY <1>1, <1>9 DEF Jobs
<1>11. Cardinality(Leaving') = Cardinality(Leaving) + 1
  BY <1>9, ThreadsFinite, FS_AddElement
<1>12. CountsApart'
  <2>1. idle_num' = idle_num
    BY <1>1
  <2> QED
    BY <1>2, <1>3, <1>9, <1>11, <2>1, ThreadsFinite DEF WorkersInv, CountsApart
<1>13. LeavesLocked'
  <2>1. \A v \in Worker \ {w} : wpc[v] \notin {"leaves", "left"}
    BY <1>1 DEF WorkersInv, LeavesLocked
  <2> QED
    BY <1>1, <1>8, <2>1 DEF WorkersInv, LeavesLocked
<1>14. StopIsQuiet'
  BY <1>1 DEF WorkersInv, StopIsQuiet, committing
<1>15. TasksPlaced'
  BY <1>1, <1>9, <1>10 DEF WorkersInv, TasksPlaced, committing
<1>16. AwaitedPlaced'
  BY <1>1, <1>9, <1>10 DEF WorkersInv, AwaitedPlaced
<1>17. LeaversCounted'
  <2>1. owner # "reads cur" => leavers' = Cardinality(Leaving')
    BY <1>2, <1>11 DEF WorkersInv, LeaversCounted
  <2>2. ASSUME owner = "reads cur"
        PROVE  cur_num' + leavers' >= saw_idle + Cardinality(awaited \ done)
    <3>1. Cardinality(awaited \ done) \in Nat
      BY <2>2, AwaitedIsFinite
    <3>2. cur_num + leavers >= saw_idle + Cardinality(awaited \ done)
      BY <2>2 DEF WorkersInv, LeaversCounted
    <3> QED
      BY <1>2, <1>3, <3>1, <3>2
  <2> QED
    BY <1>1, <2>1, <2>2 DEF LeaversCounted
<1> QED
  BY <1>6, <1>7, <1>12, <1>13, <1>14, <1>15, <1>16, <1>17 DEF WorkersInv

LEMMA LeavesIdleKeeps == ASSUME WorkersInv, NEW w \in Worker, LeavesIdle(w) PROVE WorkersInv'
<1>1. /\ wpc[w] = "left" /\ wpc' = [wpc EXCEPT ![w] = "none"] /\ task_mutex' = NoWorker
      /\ UNCHANGED <<pstatus, cur_num, tasks, committing, job, done, owner, saw_idle, awaited>>
  BY DEF LeavesIdle, Turns
<1>2. idle_num' = idle_num - 1
  BY DEF LeavesIdle
<1>3. leavers' = IF owner = "reads cur" THEN leavers ELSE leavers - 1
  BY DEF LeavesIdle
<1>4. cur_num \in Nat /\ idle_num \in Int /\ leavers \in Nat
  BY DEF WorkersInv, PTypeOK
<1>5. wpc'[w] = "none" /\ \A v \in Worker \ {w} : wpc'[v] = wpc[v]
  BY <1>1 DEF WorkersInv, PlacesOK
<1>6. /\ w \in Leaving /\ Leaving' = Leaving \ {w} /\ Busy' = Busy /\ Running' = Running
      /\ Adding' = Adding /\ Queued' = Queued
  BY <1>1, <1>5 DEF Leaving, Busy, Running, Adding, Queued, committing
<1>7. Jobs' = Jobs
  BY <1>1, <1>6 DEF Jobs
<1>8. Cardinality(Leaving') = Cardinality(Leaving) - 1 /\ Cardinality(Leaving') \in Nat
  <2>1. Cardinality(Leaving') = Cardinality(Leaving) - 1 /\ IsFiniteSet(Leaving')
    BY <1>6, ThreadsFinite, FS_RemoveElement
  <2> QED
    BY <2>1, FS_CardinalityType
<1>9. owner # "reads cur" => leavers = Cardinality(Leaving)
  BY DEF WorkersInv, LeaversCounted
<1>10. idle_num' \in Int /\ leavers' \in Nat
  <2>1. idle_num' \in Int
    BY <1>2, <1>4
  <2>2. leavers' = leavers \/ leavers' = Cardinality(Leaving')
    BY <1>4, <1>8, <1>9, <1>3, ThreadsFinite
  <2> QED
    BY <1>4, <1>8, <2>1, <2>2
<1>11. PTypeOK'
  BY <1>1, <1>10 DEF WorkersInv, PTypeOK, committing
<1>12. PlacesOK'
  BY <1>1 DEF WorkersInv, PlacesOK, WorkerPlaces, committing
<1>13. CountsApart'
  <2>1. cur_num' = cur_num
    BY <1>1
  <2> QED
    BY <1>2, <1>4, <1>6, <1>8, <2>1, ThreadsFinite DEF WorkersInv, CountsApart
<1>14. LeavesLocked'
  <2>1. \A v \in Worker \ {w} : wpc[v] \notin {"leaves", "left"}
    BY <1>1 DEF WorkersInv, LeavesLocked
  <2> QED
    BY <1>1, <1>5, <2>1 DEF LeavesLocked
<1>15. StopIsQuiet'
  BY <1>1 DEF WorkersInv, StopIsQuiet, committing
<1>16. TasksPlaced'
  BY <1>1, <1>6, <1>7 DEF WorkersInv, TasksPlaced, committing
<1>17. AwaitedPlaced'
  BY <1>1, <1>6, <1>7 DEF WorkersInv, AwaitedPlaced
<1>18. LeaversCounted'
  <2>1. owner # "reads cur" => leavers' = Cardinality(Leaving')
    BY <1>8, <1>9, <1>3
  <2>2. owner = "reads cur" => leavers' = leavers
    BY <1>3
  <2> QED
    BY <1>1, <2>1, <2>2 DEF WorkersInv, LeaversCounted
<1> QED
  BY <1>11, <1>12, <1>13, <1>14, <1>15, <1>16, <1>17, <1>18 DEF WorkersInv

LEMMA RunsKeeps == ASSUME WorkersInv, NEW w \in Worker, Runs(w) PROVE WorkersInv'
<1>1. /\ wpc[w] = "runs" /\ wpc' = [wpc EXCEPT ![w] = "ran"]
      /\ done' = done \cup {job[w]} /\ job' = [job EXCEPT ![w] = NoTask]
      /\ UNCHANGED <<pstatus, counters, tasks, committing, task_mutex, waiting>>
  BY DEF Runs, Turns
<1>2. /\ wpc'[w] = "ran" /\ \A v \in Worker \ {w} : wpc'[v] = wpc[v] /\ job'[v] = job[v]
  BY <1>1 DEF WorkersInv, PlacesOK, PTypeOK
<1>3. w \in Running /\ Running' = Running \ {w} /\ job[w] \in Jobs /\ job[w] \in committed
  BY <1>1, <1>2 DEF Running, Jobs, WorkersInv, TasksPlaced
<1>4. Jobs \subseteq Jobs' \cup {job[w]} /\ Jobs' \subseteq Jobs
  <2>1. \A v \in Running' : v \in Running /\ job'[v] = job[v]
    BY <1>2, <1>3 DEF Running
  <2>2. \A v \in Running : v = w \/ (v \in Running' /\ job'[v] = job[v])
    BY <1>2, <1>3 DEF Running
  <2> QED
    BY <2>1, <2>2 DEF Jobs
<1>5. Leaving' = Leaving /\ Busy' = Busy /\ Adding' = Adding /\ Queued' = Queued
  BY <1>1, <1>2 DEF Leaving, Busy, Adding, Queued, committing
<1>6. PTypeOK'
  BY <1>1, <1>3 DEF WorkersInv, PTypeOK, committing, counters, waiting
<1>7. PlacesOK'
  BY <1>1 DEF WorkersInv, PlacesOK, WorkerPlaces, committing, waiting
<1>8. LeavesLocked' /\ StopIsQuiet'
  BY <1>1, <1>2 DEF WorkersInv, LeavesLocked, StopIsQuiet, committing, waiting, counters
<1>9. TasksPlaced'
  BY <1>1, <1>3, <1>4, <1>5 DEF WorkersInv, TasksPlaced, committing
<1>10. awaited' \ done' \subseteq awaited \ done /\ done \subseteq done'
  BY <1>1 DEF waiting
<1>11. AwaitedPlaced'
  BY <1>1, <1>4, <1>5 DEF WorkersInv, AwaitedPlaced, waiting
<1>12. CountsApart'
  BY <1>1, <1>5, CountsStay
<1>13. LeaversCounted'
  <2>1. cur_num \in Nat /\ leavers \in Nat /\ saw_idle \in Int
    BY DEF WorkersInv, PTypeOK, PlacesOK
  <2>2. /\ cur_num' = cur_num /\ leavers' = leavers /\ saw_idle' = saw_idle /\ owner' = owner
    BY <1>1 DEF counters, waiting
  <2>3. ASSUME owner = "reads cur"
        PROVE  /\ Cardinality(awaited' \ done') <= Cardinality(awaited \ done)
               /\ Cardinality(awaited' \ done') \in Nat /\ Cardinality(awaited \ done) \in Nat
    <3>1. IsFiniteSet(awaited \ done)
      BY <2>3, AwaitedIsFinite
    <3> QED
      BY <1>10, <3>1, FS_Subset, FS_CardinalityType
  <2>4. ASSUME owner = "reads cur"
        PROVE  cur_num' + leavers' >= saw_idle' + Cardinality(awaited' \ done')
    <3> DEFINE n == Cardinality(awaited \ done)
               m == Cardinality(awaited' \ done')
    <3>1. cur_num + leavers >= saw_idle + n
      BY <2>4 DEF WorkersInv, LeaversCounted
    <3>2. m <= n /\ m \in Nat /\ n \in Nat
      BY <2>3, <2>4
    <3>3. cur_num + leavers >= saw_idle + m
      <4> HIDE DEF n, m
      <4> QED
        BY <2>1, <3>1, <3>2
    <3> QED
      BY <2>2, <3>3
  <2> QED
    BY <1>5, <2>2, <2>4 DEF WorkersInv, LeaversCounted
<1> QED
  BY <1>6, <1>7, <1>8, <1>9, <1>11, <1>12, <1>13 DEF WorkersInv

LEMMA RanKeeps == ASSUME WorkersInv, NEW w \in Worker, Ran(w) PROVE WorkersInv'
<1>1. /\ wpc[w] = "ran" /\ wpc' = [wpc EXCEPT ![w] = "top"]
      /\ UNCHANGED <<pstatus, cur_num, tasks, committing, job, done, task_mutex, waiting>>
  BY DEF Ran, Turns
<1>2. idle_num' = idle_num + 1
  BY DEF Ran
<1>3. cur_num \in Nat /\ idle_num \in Int
  BY DEF WorkersInv, PTypeOK
<1>4. idle_num' \in Int
  BY <1>2, <1>3
<1>5. wpc'[w] = "top" /\ \A v \in Worker \ {w} : wpc'[v] = wpc[v]
  BY <1>1 DEF WorkersInv, PlacesOK
<1>6. /\ w \in Busy /\ Busy' = Busy \ {w} /\ Leaving' = Leaving /\ Running' = Running
      /\ Adding' = Adding /\ Queued' = Queued
  BY <1>1, <1>5 DEF Leaving, Busy, Running, Adding, Queued, committing
<1>7. Jobs' = Jobs
  BY <1>1, <1>6 DEF Jobs
<1>8. Cardinality(Busy') = Cardinality(Busy) - 1
  BY <1>6, ThreadsFinite, FS_RemoveElement
<1>9. PTypeOK'
  BY <1>1, <1>4 DEF WorkersInv, PTypeOK, committing, waiting
<1>10. PlacesOK'
  BY <1>1 DEF WorkersInv, PlacesOK, WorkerPlaces, committing, waiting
<1>11. CountsApart'
  <2>1. cur_num' = cur_num
    BY <1>1
  <2> QED
    BY <1>2, <1>3, <1>6, <1>8, <2>1, ThreadsFinite DEF WorkersInv, CountsApart
<1>12. LeavesLocked' /\ StopIsQuiet'
  BY <1>1, <1>5 DEF WorkersInv, LeavesLocked, StopIsQuiet, committing, waiting
<1>13. TasksPlaced'
  BY <1>1, <1>6, <1>7 DEF WorkersInv, TasksPlaced, committing
<1>14. AwaitedPlaced'
  BY <1>1, <1>6, <1>7, AwaitedStays
<1>15. LeaversCounted'
  BY <1>1, <1>6, LeaversStay
<1> QED
  BY <1>9, <1>10, <1>11, <1>12, <1>13, <1>14, <1>15 DEF WorkersInv

-----------------------------------------------------------------------------
(* The same for what the owner does.                                         *)

(* The owner's steps but StopNotifies and StopJoined touch no thread. *)
OwnerOnly == UNCHANGED <<counters, tasks, committing, working, task_mutex>>

LEMMA OwnerMoves ==
    ASSUME WorkersInv, OwnerOnly, AwaitedPlaced', LeaversCounted', StopIsQuiet',
           pstatus' \in {"STOP", "RUNNING", "PAUSE"},
           owner' \in {"out", "reads tasks", "reads idle", "reads cur", "notifies", "joins"},
           saw_idle' \in Int, leavers' \in Nat
    PROVE  WorkersInv'
<1>1. Leaving' = Leaving /\ Adding' = Adding /\ Busy' = Busy /\ Queued' = Queued /\ Jobs' = Jobs
  BY DEF OwnerOnly, Leaving, Adding, Busy, Queued, Jobs, Running, committing, working
<1>2. PTypeOK'
  BY DEF OwnerOnly, WorkersInv, PTypeOK, counters, committing, working
<1>3. PlacesOK'
  BY DEF OwnerOnly, WorkersInv, PlacesOK, committing, working
<1>4. CountsApart'
  BY <1>1, CountsStay DEF OwnerOnly
<1>5. LeavesLocked'
  BY DEF OwnerOnly, WorkersInv, LeavesLocked, counters, working
<1>6. TasksPlaced'
  BY <1>1 DEF OwnerOnly, WorkersInv, TasksPlaced, committing, working
<1> QED
  BY <1>2, <1>3, <1>4, <1>5, <1>6 DEF WorkersInv

LEMMA SameLeaving == ASSUME OwnerOnly PROVE Leaving' = Leaving /\ Queued' = Queued /\ Jobs' = Jobs
BY DEF OwnerOnly, Leaving, Queued, Jobs, Running, committing, working

LEMMA PausesKeeps == ASSUME WorkersInv, Pauses \/ Resumes PROVE WorkersInv'
<1>1. /\ OwnerOnly /\ owner = "out" /\ UNCHANGED waiting
      /\ pstatus' \in {"STOP", "RUNNING", "PAUSE"}
  BY DEF Pauses, Resumes, OwnerOnly
<1>2. AwaitedPlaced' /\ LeaversCounted' /\ StopIsQuiet'
  BY <1>1, SameLeaving DEF WorkersInv, AwaitedPlaced, LeaversCounted, StopIsQuiet, waiting
<1>3. owner' = "out" /\ saw_idle' \in Int /\ leavers' \in Nat
  BY <1>1 DEF WorkersInv, PTypeOK, PlacesOK, waiting
<1> QED
  BY <1>1, <1>2, <1>3, OwnerMoves

LEMMA OwnerWaitsKeeps == ASSUME WorkersInv, OwnerWaits PROVE WorkersInv'
<1>1. /\ OwnerOnly /\ owner = "out" /\ owner' = "reads tasks"
      /\ awaited' = committed \ {item[c] : c \in Committer}
      /\ UNCHANGED <<pstatus, saw_idle, leavers>>
  BY DEF OwnerWaits, OwnerOnly
<1>2. AwaitedPlaced'
  <2>1. awaited' \subseteq Queued \cup Jobs \cup done
    BY <1>1 DEF WorkersInv, TasksPlaced
  <2> QED
    BY <1>1, <2>1, SameLeaving DEF AwaitedPlaced, OwnerOnly, working
<1>3. LeaversCounted' /\ StopIsQuiet'
  BY <1>1, SameLeaving DEF WorkersInv, LeaversCounted, StopIsQuiet
<1>4. saw_idle' \in Int /\ leavers' \in Nat /\ pstatus' \in {"STOP", "RUNNING", "PAUSE"}
  BY <1>1 DEF WorkersInv, PTypeOK, PlacesOK
<1> QED
  BY <1>1, <1>2, <1>3, <1>4, OwnerMoves

LEMMA ReadsTasksKeeps == ASSUME WorkersInv, ReadsTasks PROVE WorkersInv'
<1>1. /\ OwnerOnly /\ owner = "reads tasks" /\ owner' = "reads idle" /\ tasks = <<>>
      /\ UNCHANGED <<pstatus, saw_idle, leavers, awaited>>
  BY DEF ReadsTasks, OwnerOnly
<1>2. AwaitedPlaced'
  <2>1. Queued = {}
    BY <1>1, NothingQueued
  <2> QED
    BY <1>1, <2>1, SameLeaving DEF WorkersInv, AwaitedPlaced, OwnerOnly, working
<1>3. LeaversCounted' /\ StopIsQuiet'
  BY <1>1, SameLeaving DEF WorkersInv, LeaversCounted, StopIsQuiet
<1>4. saw_idle' \in Int /\ leavers' \in Nat /\ pstatus' \in {"STOP", "RUNNING", "PAUSE"}
  BY <1>1 DEF WorkersInv, PTypeOK, PlacesOK
<1> QED
  BY <1>1, <1>2, <1>3, <1>4, OwnerMoves

(* Here the two counts, read one after the other, first bound what runs. *)
LEMMA ReadsIdleKeeps == ASSUME WorkersInv, ReadsIdle PROVE WorkersInv'
<1>1. /\ OwnerOnly /\ owner = "reads idle" /\ owner' = "reads cur" /\ saw_idle' = idle_num
      /\ UNCHANGED <<pstatus, leavers, awaited>>
  BY DEF ReadsIdle, OwnerOnly
<1>2. awaited \ done \subseteq Jobs
  BY <1>1 DEF WorkersInv, AwaitedPlaced
<1>3. /\ IsFiniteSet(awaited \ done) /\ Cardinality(awaited \ done) \in Nat
      /\ Cardinality(awaited \ done) <= Cardinality(Jobs)
  BY <1>2, JobsAreFew, FS_Subset, FS_CardinalityType
<1>4. Cardinality(awaited \ done) <= Cardinality(Busy)
  BY <1>3, JobsAreFew, ThreadsFinite
<1>5. cur_num \in Nat /\ idle_num \in Int /\ leavers \in Nat
  BY DEF WorkersInv, PTypeOK
<1>6. leavers = Cardinality(Leaving)
  BY <1>1 DEF WorkersInv, LeaversCounted
<1>7. cur_num + leavers >= idle_num + Cardinality(awaited \ done)
  BY <1>3, <1>4, <1>5, <1>6, ThreadsFinite DEF WorkersInv, CountsApart
<1>8. UNCHANGED <<cur_num, done>>
  BY <1>1 DEF OwnerOnly, counters, working
<1>9. AwaitedPlaced' /\ LeaversCounted'
  <2>1. Jobs' = Jobs
    BY <1>1, SameLeaving
  <2> QED
    BY <1>1, <1>2, <1>7, <1>8, <2>1 DEF AwaitedPlaced, LeaversCounted
<1>10. StopIsQuiet'
  BY <1>1 DEF StopIsQuiet
<1>11. saw_idle' \in Int /\ leavers' \in Nat /\ pstatus' \in {"STOP", "RUNNING", "PAUSE"}
  BY <1>1, <1>5 DEF WorkersInv, PTypeOK, PlacesOK
<1> QED
  BY <1>1, <1>9, <1>10, <1>11, OwnerMoves

LEMMA ReadsCurKeeps == ASSUME WorkersInv, ReadsCur PROVE WorkersInv'
<1>1. /\ OwnerOnly /\ owner = "reads cur" /\ leavers' = Cardinality(Leaving)
      /\ UNCHANGED <<pstatus, saw_idle>>
  BY DEF ReadsCur, OwnerOnly
<1>2. owner' = "out" \/ (owner' = "reads tasks" /\ awaited' = awaited)
  BY DEF ReadsCur
<1>3. AwaitedPlaced'
  <2>1. Queued' = Queued /\ Jobs' = Jobs /\ done' = done
    BY <1>1, SameLeaving DEF OwnerOnly, working
  <2> QED
    BY <1>1, <1>2, <2>1 DEF WorkersInv, AwaitedPlaced
<1>4. LeaversCounted' /\ StopIsQuiet'
  BY <1>1, <1>2, SameLeaving DEF LeaversCounted, StopIsQuiet
<1>5. saw_idle' \in Int /\ leavers' \in Nat /\ pstatus' \in {"STOP", "RUNNING", "PAUSE"}
  BY <1>1, ThreadsFinite DEF WorkersInv, PTypeOK, PlacesOK
<1> QED
  BY <1>1, <1>2, <1>3, <1>4, <1>5, OwnerMoves

LEMMA StopsKeeps == ASSUME WorkersInv, Stops PROVE WorkersInv'
<1>1. /\ OwnerOnly /\ owner = "out" /\ owner' = "notifies" /\ pstatus' = "STOP"
      /\ \A c \in Committer : cpc[c] = "out"
      /\ UNCHANGED <<saw_idle, leavers, awaited>>
  BY DEF Stops, OwnerOnly, Committing
<1>2. AwaitedPlaced' /\ LeaversCounted' /\ StopIsQuiet'
  BY <1>1, SameLeaving DEF WorkersInv, AwaitedPlaced, LeaversCounted, StopIsQuiet, OwnerOnly, committing
<1>3. saw_idle' \in Int /\ leavers' \in Nat
  BY <1>1 DEF WorkersInv, PTypeOK, PlacesOK
<1> QED
  BY <1>1, <1>2, <1>3, OwnerMoves

LEMMA StopNotifiesKeeps == ASSUME WorkersInv, StopNotifies PROVE WorkersInv'
<1>1. /\ owner = "notifies" /\ owner' = "joins"
      /\ wpc' = [w \in Worker |-> IF w \in Sleeping THEN "locks" ELSE wpc[w]]
      /\ UNCHANGED <<pstatus, counters, tasks, committing, job, done, task_mutex, saw_idle, leavers, awaited>>
  BY DEF StopNotifies
<1>2. /\ wpc' \in [Worker -> WorkerPlaces]
      /\ \A w \in Worker : wpc'[w] = wpc[w] \/ (wpc[w] \in Uncounted /\ wpc'[w] \in Uncounted)
  BY <1>1 DEF WorkersInv, PlacesOK, WorkerPlaces, Uncounted, Sleeping
<1>3. Leaving' = Leaving /\ Busy' = Busy /\ Jobs' = Jobs /\ LeavesLocked'
  BY <1>1, <1>2, WorkersElsewhere DEF counters
<1>4. Adding' = Adding /\ Queued' = Queued
  BY <1>1 DEF Adding, Queued, committing
<1>5. PTypeOK'
  BY <1>1 DEF WorkersInv, PTypeOK, counters, committing
<1>6. PlacesOK'
  BY <1>1, <1>2 DEF WorkersInv, PlacesOK, committing
<1>7. StopIsQuiet'
  BY <1>1 DEF WorkersInv, StopIsQuiet, committing
<1>8. TasksPlaced'
  BY <1>1, <1>3, <1>4 DEF WorkersInv, TasksPlaced, committing
<1>9. AwaitedPlaced' /\ LeaversCounted'
  BY <1>1, <1>3 DEF WorkersInv, AwaitedPlaced, LeaversCounted
<1>10. CountsApart'
  BY <1>1, <1>3, <1>4, CountsStay
<1> QED
  BY <1>3, <1>5, <1>6, <1>7, <1>8, <1>9, <1>10 DEF WorkersInv

LEMMA StopJoinedKeeps == ASSUME WorkersInv, StopJoined PROVE WorkersInv'
<1>1. /\ owner = "joins" /\ owner' = "out" /\ cur_num' = 0 /\ idle_num' = 0
      /\ \A w \in Worker : wpc[w] = "none"
      /\ UNCHANGED <<pstatus, tasks, committing, working, task_mutex, saw_idle, leavers, awaited>>
  BY DEF StopJoined
<1>2. \A c \in Committer : cpc[c] = "out"
  BY <1>1 DEF WorkersInv, StopIsQuiet
<1>3. /\ Leaving' = {} /\ Busy' = {} /\ Adding' = {} /\ Leaving' = Leaving
      /\ Queued' = Queued /\ Jobs' = Jobs
  BY <1>1, <1>2 DEF Leaving, Busy, Adding, Queued, Jobs, Running, committing, working
<1>4. PTypeOK'
  BY <1>1 DEF WorkersInv, PTypeOK, committing, working
<1>5. PlacesOK'
  BY <1>1 DEF WorkersInv, PlacesOK, committing, working
<1>6. CountsApart'
  BY <1>1, <1>3, FS_EmptySet DEF CountsApart
<1>7. LeavesLocked' /\ StopIsQuiet'
  BY <1>1 DEF LeavesLocked, StopIsQuiet, working
<1>8. TasksPlaced'
  BY <1>1, <1>3 DEF WorkersInv, TasksPlaced, committing, working
<1>9. AwaitedPlaced' /\ LeaversCounted'
  BY <1>1, <1>3 DEF WorkersInv, AwaitedPlaced, LeaversCounted
<1> QED
  BY <1>4, <1>5, <1>6, <1>7, <1>8, <1>9 DEF WorkersInv

-----------------------------------------------------------------------------

LEMMA WorkersInit == PInit => WorkersInv
<1> SUFFICES ASSUME PInit PROVE WorkersInv
  OBVIOUS
<1>1. cur_num = 0 /\ idle_num = 0 /\ leavers = 0 /\ saw_idle = 0 /\ 0 \in Nat /\ 0 \in Int
  BY DEF PInit
<1>2. PTypeOK
  <2>1. 0 \in 0..MinThreads
    BY ThreadPoolAssumption
  <2> QED
    BY <1>1, <2>1, ThreadPoolAssumption DEF PInit, PTypeOK
<1>3. PlacesOK
  BY DEF PInit, PlacesOK, CommitterPlaces, WorkerPlaces
<1>4. Leaving = {} /\ Busy = {} /\ Adding = {} /\ Queued = {} /\ Jobs = {}
  BY NothingQueued DEF PInit, Leaving, Busy, Adding, Jobs, Running
<1>5. CountsApart
  BY <1>1, <1>4, FS_EmptySet DEF CountsApart
<1>6. LeavesLocked /\ StopIsQuiet
  BY DEF PInit, LeavesLocked, StopIsQuiet
<1>7. TasksPlaced /\ AwaitedPlaced
  BY <1>4 DEF PInit, TasksPlaced, AwaitedPlaced
<1>8. LeaversCounted
  BY <1>1, <1>4, FS_EmptySet DEF PInit, LeaversCounted
<1> QED
  BY <1>2, <1>3, <1>5, <1>6, <1>7, <1>8 DEF WorkersInv

LEMMA WorkersNext == WorkersInv /\ [PNext]_pvars => WorkersInv'
<1> SUFFICES ASSUME WorkersInv, [PNext]_pvars PROVE WorkersInv'
  OBVIOUS
<1>1. ASSUME NEW c \in Committer, CommitterSteps(c) PROVE WorkersInv'
  BY <1>1, StartsPoolKeeps, DecidesKeeps, CreatesThreadKeeps, AddsCurKeeps, AddsIdleKeeps,
     PushesKeeps, NotifiesKeeps DEF CommitterSteps
<1>2. ASSUME NEW c \in Committer, NEW t \in Task, Commits(c, t) PROVE WorkersInv'
  BY <1>2, CommitsKeeps
<1>3. ASSUME NEW w \in Worker, WorkerLocks(w) \/ WorkerTimesOut(w) PROVE WorkersInv'
  BY <1>3, LockedKeeps DEF WorkerLocks, WorkerTimesOut
<1>4. ASSUME NEW w \in Worker, WorkerSteps(w) PROVE WorkersInv'
  BY <1>3, <1>4, LoopsAgainKeeps, LeavesCurKeeps, LeavesIdleKeeps, RunsKeeps, RanKeeps DEF WorkerSteps
<1>5. ASSUME OwnerSteps \/ Pauses \/ Resumes \/ OwnerWaits \/ Stops PROVE WorkersInv'
  BY <1>5, PausesKeeps, OwnerWaitsKeeps, ReadsTasksKeeps, ReadsIdleKeeps, ReadsCurKeeps,
     StopsKeeps, StopNotifiesKeeps, StopJoinedKeeps DEF OwnerSteps
<1>6. CASE UNCHANGED pvars
  <2>1. /\ OwnerOnly /\ UNCHANGED waiting /\ pstatus' = pstatus
    BY <1>6 DEF pvars, OwnerOnly, counters, committing, working, waiting
  <2>2. AwaitedPlaced' /\ LeaversCounted' /\ StopIsQuiet'
    BY <2>1, SameLeaving
       DEF WorkersInv, AwaitedPlaced, LeaversCounted, StopIsQuiet, OwnerOnly, waiting, counters, working, committing
  <2>3. /\ pstatus' \in {"STOP", "RUNNING", "PAUSE"} /\ saw_idle' \in Int /\ leavers' \in Nat
        /\ owner' \in {"out", "reads tasks", "reads idle", "reads cur", "notifies", "joins"}
    BY <2>1 DEF WorkersInv, PTypeOK, PlacesOK, waiting
  <2> QED
    BY <2>1, <2>2, <2>3, OwnerMoves
<1> QED
  BY <1>1, <1>2, <1>4, <1>5, <1>6 DEF PNext

(* cur_thread_num is never negative, however threads come, leave and are     *)
(* stopped; what runs was committed.                                         *)
THEOREM ThreadPoolTypeCorrect == PSpec => []PTypeOK
<1>1. WorkersInv => PTypeOK
  BY DEF WorkersInv
<1> QED
  BY <1>1, WorkersInit, WorkersNext, PTL DEF PSpec

LEMMA AtMost == ASSUME NEW a \in Nat, NEW b \in Nat, NEW n \in Nat, a + b >= a + n PROVE n <= b
OBVIOUS

(* HThreadPool::wait returns when the tasks it waits for have run, but for   *)
(* as many as there were threads leaving while it read the two counts, for   *)
(* any threads, tasks and interleavings.                                     *)
THEOREM WaitIsEarlyByLeavers == PSpec => WaitMeansDone
<1>1. WorkersInv /\ [PNext]_pvars =>
         [owner = "reads cur" /\ owner' = "out" => Cardinality(awaited \ done) <= leavers]_pvars
  <2> SUFFICES ASSUME WorkersInv, [PNext]_pvars, owner = "reads cur", owner' = "out"
               PROVE  Cardinality(awaited \ done) <= leavers
    OBVIOUS
  <2> DEFINE n == Cardinality(awaited \ done)
  <2>1. ReadsCur
    BY DEF PNext, CommitterSteps, WorkerSteps, OwnerSteps, pvars, waiting, Commits, StartsPool,
       Decides, CreatesThread, AddsCur, AddsIdle, Pushes, Notifies, LoopsAgain, WorkerLocks,
       WorkerTimesOut, Locked, LeavesCur, LeavesIdle, Runs, Ran, Pauses, Resumes, OwnerWaits,
       ReadsTasks, ReadsIdle, ReadsCur, Stops, StopNotifies, StopJoined
  <2>2. saw_idle = cur_num
    BY <2>1 DEF ReadsCur
  <2>3. cur_num + leavers >= saw_idle + n
    BY DEF WorkersInv, LeaversCounted
  <2>4. cur_num \in Nat /\ leavers \in Nat /\ saw_idle \in Int /\ n \in Nat
    BY AwaitedIsFinite DEF WorkersInv, PTypeOK, PlacesOK
  <2>5. n <= leavers
    <3>1. cur_num + leavers >= cur_num + n
      BY <2>2, <2>3
    <3> HIDE DEF n
    <3> QED
      BY <2>4, <3>1, AtMost
  <2> QED
    BY <2>5
<1> QED
  BY <1>1, WorkersInit, WorkersNext, PTL DEF PSpec, WaitMeansDone

-----------------------------------------------------------------------------
(* EventLoopThread and EventLoop.                                            *)

\* A post keeps the queue's types.
LEMMA PostedType ==
    ASSUME TypeOK, NEW m \in Nat, NEW n \in Nat, Posted(m, n)
    PROVE  eventfds' \in BOOLEAN /\ counter' \in Nat /\ functorEvents' \in Nat /\ wakeups' \in Nat
  <1>1. eventfds' \in BOOLEAN
    BY Zenon DEF TypeOK, Posted, queueVars
  <1>2. counter' \in Nat /\ functorEvents' \in Nat /\ wakeups' \in Nat
    <2> USE DEF TypeOK
    <2>1. CASE UNCHANGED queueVars
      BY <2>1 DEF queueVars
    <2>2. CASE ~(UNCHANGED queueVars)
      BY <2>2 DEF Posted
    <2> QED BY <2>1, <2>2
  <1> QED BY <1>1, <1>2

\* The type invariant is inductive as it stands.
LEMMA TypeStep == TypeOK /\ [Next]_vars => TypeOK'
  <1> SUFFICES ASSUME TypeOK, [Next]_vars PROVE TypeOK'
    OBVIOUS
  <1> USE ThreadAssumption DEF TypeOK, ownerVars, queueVars, statusVars, Push, Usable, Dies
  <1>1. CASE OwnerStart
    BY <1>1 DEF OwnerStart
  <1>2. CASE OwnerStarted
    BY <1>2 DEF OwnerStarted
  <1>3. CASE OwnerTestsStatus
    BY <1>3 DEF OwnerTestsStatus
  <1>4. CASE OwnerSetsStatus
    BY <1>4 DEF OwnerSetsStatus
  <1>5. CASE OwnerReadsTid
    BY <1>5 DEF OwnerReadsTid
  <1>6. CASE OwnerTestsLoop
    BY <1>6 DEF OwnerTestsLoop
  <1>7. CASE OwnerSetsStopping
    BY <1>7 DEF OwnerSetsStopping
  <1>8. CASE OwnerWakesUp
    BY <1>8, PostedType DEF OwnerWakesUp
  <1>9. CASE OwnerSavesStop
    <2>1. loop_' \in BOOLEAN
      BY <1>9, Zenon DEF OwnerSavesStop
    <2> QED BY <1>9, <2>1 DEF OwnerSavesStop
  <1>10. CASE OwnerReturns
    BY <1>10 DEF OwnerReturns
  <1>11. CASE OwnerJoins
    BY <1>11 DEF OwnerJoins
  <1>12. ASSUME NEW p \in Posters, PosterPushes(p) PROVE TypeOK'
    BY <1>12, SMTT(60) DEF PosterPushes
  <1>13. ASSUME NEW p \in Posters, PosterPostsEvent(p) PROVE TypeOK'
    BY <1>13, PostedType DEF PosterPostsEvent
  <1>14. CASE LoopEntry
    BY <1>14 DEF LoopEntry
  <1>15. CASE LoopPostsPre
    BY <1>15, PostedType DEF LoopPostsPre
  <1>16. CASE LoopRuns
    BY <1>16 DEF LoopRuns
  <1>17. CASE LoopLoadsLoop
    BY <1>17 DEF LoopLoadsLoop
  <1>18. CASE LoopSetsRunning
    BY <1>18 DEF LoopSetsRunning
  <1>19. CASE LoopSetsTid
    <2>1. eventfds' \in BOOLEAN
      BY <1>19, Zenon DEF LoopSetsTid
    <2> QED BY <1>19, <2>1 DEF LoopSetsTid
  <1>20. CASE LoopPolls
    BY <1>20 DEF LoopPolls
  <1>21. CASE LoopReadsCounter
    BY <1>21 DEF LoopReadsCounter
  <1>22. CASE LoopTakesEvent
    BY <1>22 DEF LoopTakesEvent
  <1>23. CASE LoopEventsDone
    BY <1>23 DEF LoopEventsDone
  <1>24. CASE LoopRunsFunctor
    BY <1>24 DEF LoopRunsFunctor
  <1>25. CASE LoopStopsItself
    BY <1>25 DEF LoopStopsItself
  <1>26. CASE LoopSavesStop
    <2>1. loop_' \in BOOLEAN
      BY <1>26, Zenon DEF LoopSavesStop
    <2> QED BY <1>26, <2>1 DEF LoopSavesStop
  <1>27. CASE LoopCleansUp
    <2>1. allocated' \in BOOLEAN /\ eventfds' \in BOOLEAN
      BY <1>27, Zenon DEF LoopCleansUp
    <2> QED BY <1>27, <2>1 DEF LoopCleansUp
  <1>28. CASE LoopEnds
    BY <1>28 DEF LoopEnds
  <1>29. CASE LoopThreadEnds
    BY <1>29 DEF LoopThreadEnds
  <1>30. CASE UNCHANGED vars
    BY <1>30 DEF vars
  <1> QED BY <1>1, <1>2, <1>3, <1>4, <1>5, <1>6, <1>7, <1>8, <1>9, <1>10, <1>11, <1>12, <1>13, <1>14, <1>15, <1>16, <1>17, <1>18, <1>19, <1>20, <1>21, <1>22, <1>23, <1>24, <1>25, <1>26, <1>27, <1>28, <1>29, <1>30 DEF Next, Step, Owner, Loop

LEMMA TypeInit == Init => TypeOK
  <1> SUFFICES ASSUME Init PROVE TypeOK
    OBVIOUS
  <1>1. loop_ \in BOOLEAN /\ allocated \in BOOLEAN /\ eventfds \in BOOLEAN
    BY Zenon DEF Init
  <1> QED BY <1>1 DEF Init, TypeOK

\* Every variable keeps its type; in particular eventfd_read_cb never iterates
\* more often than the counter said.
THEOREM ThreadTypeCorrect == Spec => []TypeOK
  BY TypeInit, TypeStep, PTL DEF Spec

-----------------------------------------------------------------------------
(* The events are counted: outside eventfd_read_cb nothing is left to do.   *)

InEvents == {"events", "functor", "selfStop", "selfSave"}

CountInv == /\ TypeOK /\ EventsCounted
            /\ lpc \notin InEvents => todo = 0
            /\ opc = "start" => lpc = "off"

LEMMA CountInit == Init => CountInv
  BY TypeInit DEF Init, CountInv, EventsCounted, InEvents

LEMMA CountStep == CountInv /\ [Next]_vars => CountInv'
  <1> SUFFICES ASSUME CountInv, [Next]_vars PROVE CountInv'
    OBVIOUS
  <1>1. TypeOK'
    BY TypeStep DEF CountInv
  <1> USE <1>1 DEF CountInv, TypeOK, EventsCounted, InEvents, ownerVars, queueVars, statusVars,
          Posted, Usable, Dies
  <1>2. CASE Owner
    <2>1. CASE OwnerWakesUp
      BY <1>1, <2>1 DEF OwnerWakesUp
    <2>2. CASE OwnerStart
      BY <1>1, <2>2 DEF OwnerStart
    <2>3. CASE ~OwnerWakesUp /\ ~OwnerStart
      <3>1. UNCHANGED <<lpc, counter, functorEvents, wakeups, todo>> /\ opc' # "start"
        BY <1>2, <2>3 DEF Owner, OwnerStarted, OwnerTestsStatus, OwnerSetsStatus,
           OwnerReadsTid, OwnerTestsLoop, OwnerSetsStopping, OwnerSavesStop,
           OwnerReturns, OwnerJoins
      <3> QED BY <1>1, <3>1
    <2> QED BY <2>1, <2>2, <2>3
  <1>3. ASSUME NEW p \in Posters, PosterPushes(p) \/ PosterPostsEvent(p) PROVE CountInv'
    BY <1>3 DEF PosterPushes, PosterPostsEvent
  <1>4. CASE LoopEntry \/ LoopPostsPre \/ LoopRuns \/ LoopLoadsLoop \/ LoopSetsRunning
             \/ LoopSetsTid \/ LoopPolls \/ LoopStopsItself \/ LoopSavesStop \/ LoopEnds
             \/ LoopThreadEnds
    <2>1. CASE LoopPostsPre
      BY <1>1, <2>1 DEF LoopPostsPre
    <2>2. CASE ~LoopPostsPre
      <3>1. UNCHANGED <<counter, functorEvents, wakeups, todo>>
        BY <1>4, <2>2 DEF LoopEntry, LoopRuns, LoopLoadsLoop, LoopSetsRunning,
           LoopSetsTid, LoopPolls, LoopStopsItself, LoopSavesStop, LoopEnds, LoopThreadEnds
      <3>2. lpc \in InEvents => lpc' \in InEvents
        BY <1>4, <2>2 DEF LoopEntry, LoopRuns, LoopLoadsLoop, LoopSetsRunning,
           LoopSetsTid, LoopPolls, LoopStopsItself, LoopSavesStop, LoopEnds, LoopThreadEnds
      <3>3. opc' = opc /\ lpc # "off"
        BY <1>4, <2>2 DEF LoopEntry, LoopRuns, LoopLoadsLoop, LoopSetsRunning,
           LoopSetsTid, LoopPolls, LoopStopsItself, LoopSavesStop, LoopEnds, LoopThreadEnds
      <3> QED BY <1>1, <3>1, <3>2, <3>3
    <2> QED BY <2>1, <2>2
  <1>5. CASE LoopReadsCounter \/ LoopTakesEvent \/ LoopEventsDone \/ LoopCleansUp
    BY <1>5 DEF LoopReadsCounter, LoopTakesEvent, LoopEventsDone, LoopCleansUp
  <1>6. CASE LoopRunsFunctor
    BY <1>6 DEF LoopRunsFunctor
  <1>7. CASE UNCHANGED vars
    BY <1>7 DEF vars
  <1> QED BY <1>2, <1>3, <1>4, <1>5, <1>6, <1>7 DEF Next, Step, Loop

\* However posts, wakeups and reads of the eventfd interleave, its counter and
\* what is left to do add up to the events in the queue.
THEOREM EventsAlwaysCounted == Spec => []EventsCounted
  <1>1. CountInv => EventsCounted
    BY DEF CountInv
  <1> QED BY <1>1, CountInit, CountStep, PTL DEF Spec

-----------------------------------------------------------------------------
(* Whoever is between customEvents.push and hloop_post_event, and whoever   *)
(* has taken an event and not yet its functor, has a functor in the queue.  *)

InFlight == {p \in Posters : ppc[p] = "event"}

One(b) == IF b THEN 1 ELSE 0

Owed == functorEvents + Cardinality(InFlight) + One(lpc = "postPre") + One(lpc = "functor")

OwedInv == TypeOK /\ Owed <= Len(customEvents) /\ crash # "empty"

\* A poster that pushes is one more in flight, one that posts is one less.
LEMMA InFlightCount ==
    /\ IsFiniteSet(InFlight) /\ Cardinality(InFlight) \in Nat
    /\ \A p \in Posters : p \notin InFlight =>
          Cardinality(InFlight \cup {p}) = Cardinality(InFlight) + 1
    /\ \A p \in InFlight : Cardinality(InFlight \ {p}) = Cardinality(InFlight) - 1
                           /\ Cardinality(InFlight) > 0
  <1>1. IsFiniteSet(InFlight)
    BY ThreadAssumption, FS_Subset DEF InFlight
  <1>2. Cardinality(InFlight) \in Nat
    BY <1>1, FS_CardinalityType
  <1>3. \A p \in Posters : p \notin InFlight =>
          Cardinality(InFlight \cup {p}) = Cardinality(InFlight) + 1
    BY <1>1, FS_AddElement
  <1>4. \A p \in InFlight : Cardinality(InFlight \ {p}) = Cardinality(InFlight) - 1
    BY <1>1, FS_RemoveElement
  <1>5. \A p \in InFlight : Cardinality(InFlight) > 0
    BY <1>1, <1>2, FS_EmptySet
  <1> QED BY <1>1, <1>2, <1>3, <1>4, <1>5

LEMMA OwedStep == OwedInv /\ [Next]_vars => OwedInv'
  <1> SUFFICES ASSUME OwedInv, [Next]_vars PROVE OwedInv'
    OBVIOUS
  <1>1. TypeOK /\ TypeOK' /\ Owed <= Len(customEvents) /\ crash # "empty"
    BY TypeStep DEF OwedInv
  <1>2. Cardinality(InFlight) \in Nat /\ functorEvents \in Nat /\ Len(customEvents) \in Nat
        /\ functorEvents' \in Nat /\ Len(customEvents)' \in Nat
    BY <1>1, InFlightCount DEF TypeOK
  <1>3. ppc' = ppc => Cardinality(InFlight)' = Cardinality(InFlight)
    BY DEF InFlight
  <1> USE <1>2 DEF Owed, One, OwedInv
  <1>4. CASE Owner
    <2>1. /\ UNCHANGED <<ppc, customEvents, functorEvents>>
          /\ lpc' = "functor" => lpc = "functor"
          /\ lpc' = "postPre" => lpc = "postPre"
          /\ crash' # "empty"
      BY <1>1, <1>4 DEF Owner, OwnerStart, OwnerStarted, OwnerTestsStatus, OwnerSetsStatus,
         OwnerReadsTid, OwnerTestsLoop, OwnerSetsStopping, OwnerWakesUp, OwnerSavesStop,
         OwnerReturns, OwnerJoins, ownerVars, queueVars, statusVars, Posted, Usable, Dies, TypeOK
    <2> QED BY <1>1, <1>3, <2>1
  <1>5. ASSUME NEW p \in Posters, PosterPushes(p) PROVE OwedInv'
    <2>1. CASE loop_
      <3>1. p \notin InFlight /\ InFlight' = InFlight \cup {p}
        BY <1>1, <1>5, <2>1 DEF PosterPushes, InFlight, TypeOK
      <3>2. Len(customEvents') = Len(customEvents) + 1
        BY <1>1, <1>5, <2>1 DEF PosterPushes, Push, TypeOK
      <3>3. Cardinality(InFlight') = Cardinality(InFlight) + 1
        BY <3>1, InFlightCount
      <3> QED BY <1>1, <1>5, <3>2, <3>3 DEF PosterPushes, queueVars
    <2>2. CASE ~loop_
      <3>1. InFlight' = InFlight
        BY <1>1, <1>5, <2>2 DEF PosterPushes, InFlight, TypeOK
      <3> QED BY <1>1, <1>5, <2>2, <3>1 DEF PosterPushes, queueVars
    <2> QED BY <2>1, <2>2
  <1>6. ASSUME NEW p \in Posters, PosterPostsEvent(p) PROVE OwedInv'
    <2>1. CASE ppc' = [ppc EXCEPT ![p] = "done"]
      <3>1. p \in InFlight /\ InFlight' = InFlight \ {p}
        BY <1>1, <1>6, <2>1 DEF PosterPostsEvent, InFlight, TypeOK
      <3>2. Cardinality(InFlight') = Cardinality(InFlight) - 1 /\ Cardinality(InFlight) > 0
        BY <3>1, InFlightCount
      <3>3. functorEvents' \in {functorEvents, functorEvents + 1}
        BY <1>6 DEF PosterPostsEvent, Posted, queueVars
      <3>4. crash' # "empty"
        BY <1>1, <1>6 DEF PosterPostsEvent, Usable, Dies
      <3> QED BY <1>1, <1>6, <3>2, <3>3, <3>4 DEF PosterPostsEvent
    <2>2. CASE Dies /\ UNCHANGED <<queueVars, ppc>>
      BY <1>1, <1>3, <1>6, <2>2 DEF PosterPostsEvent, Dies, queueVars
    <2> QED BY <1>6, <2>1, <2>2 DEF PosterPostsEvent
  <1>7. CASE LoopEntry
    <2>1. Len(customEvents') = Len(customEvents) + 1
      BY <1>1, <1>7 DEF LoopEntry, Push, TypeOK, ThreadAssumption
    <2> QED BY <1>1, <1>3, <1>7, <2>1 DEF LoopEntry, queueVars
  <1>8. CASE LoopPostsPre
    <2>1. functorEvents' \in {functorEvents, functorEvents + 1}
      BY <1>8 DEF LoopPostsPre, Posted, queueVars
    <2> QED BY <1>1, <1>3, <1>8, <2>1 DEF LoopPostsPre
  <1>9. CASE LoopRuns \/ LoopLoadsLoop \/ LoopSetsRunning \/ LoopSetsTid \/ LoopPolls
             \/ LoopReadsCounter \/ LoopEventsDone \/ LoopStopsItself \/ LoopSavesStop
             \/ LoopCleansUp \/ LoopEnds \/ LoopThreadEnds
    <2>1. crash' # "empty"
      BY <1>1, <1>9 DEF LoopRuns, LoopLoadsLoop, LoopSetsRunning, LoopSetsTid, LoopPolls,
         LoopReadsCounter, LoopEventsDone, LoopStopsItself, LoopSavesStop, LoopCleansUp,
         LoopEnds, LoopThreadEnds, Usable, Dies
    <2>2. UNCHANGED <<ppc, customEvents>> /\ functorEvents' \in {0, functorEvents}
          /\ lpc' \notin {"functor", "postPre"}
      BY <1>1, <1>9 DEF LoopRuns, LoopLoadsLoop, LoopSetsRunning, LoopSetsTid, LoopPolls,
         LoopReadsCounter, LoopEventsDone, LoopStopsItself, LoopSavesStop, LoopCleansUp,
         LoopEnds, LoopThreadEnds, queueVars
    <2> QED BY <1>1, <1>3, <2>1, <2>2
  <1>10. CASE LoopTakesEvent
    BY <1>1, <1>3, <1>10 DEF LoopTakesEvent
  <1>11. CASE LoopRunsFunctor
    <2>1. customEvents # << >>
      BY <1>1, <1>11 DEF LoopRunsFunctor, TypeOK
    <2>2. Len(customEvents') = Len(customEvents) - 1
      BY <1>1, <1>11, <2>1 DEF LoopRunsFunctor, TypeOK
    <2> QED BY <1>1, <1>3, <1>11, <2>1, <2>2 DEF LoopRunsFunctor, queueVars
  <1>12. CASE UNCHANGED vars
    BY <1>1, <1>3, <1>12 DEF vars, queueVars
  <1> QED BY <1>4, <1>5, <1>6, <1>7, <1>8, <1>9, <1>10, <1>11, <1>12 DEF Next, Step, Loop

LEMMA OwedInit == Init => OwedInv
  <1> SUFFICES ASSUME Init PROVE OwedInv
    OBVIOUS
  <1>1. InFlight = {} /\ Cardinality({}) = 0
    BY FS_EmptySet DEF Init, InFlight
  <1> QED BY <1>1, TypeInit DEF Init, OwedInv, Owed, One

\* Whatever the order in which posters push functors and post their events,
\* and whether or not events are dropped, onCustomEvent finds a functor.
THEOREM FunctorAlwaysThere == Spec => []FunctorForEveryEvent
  <1>1. OwedInv => FunctorForEveryEvent
    BY DEF OwedInv, FunctorForEveryEvent
  <1> QED BY <1>1, OwedInit, OwedStep, PTL DEF Spec

-----------------------------------------------------------------------------
(* An owner that stops as ClientExample does, once Pre has run and nobody   *)
(* else uses the loop.  The loop thread is then past hloop_run's stores, so *)
(* that stop sees its tid and is not overwritten; and as the loop cannot    *)
(* end before stop has saved STOP, loop_ is good until then.                *)

Early   == {"off", "entry", "postPre", "run", "load", "hloop_run", "setTid"}
Turning == {"poll", "read", "events", "functor"}
Ending  == {"cleanup", "ended", "assert", "done"}

NotYet  == {"start", "wait", "started"}
Past   == {"waitStopped", "returned", "joined"}

LoopStage == /\ lpc \in Early \cup Turning \cup Ending
             /\ opc = "start" <=> lpc = "off"
             /\ lpc \in Early => Pre \notin ran
             /\ lpc \notin Early => tid = "loop"

OwnerStage == opc \notin NotYet => Pre \in ran /\ \A p \in Posters : ppc[p] = "done"

LoopIsGood == /\ opc \notin Past => /\ loop_ /\ lpc \notin Ending
                                    /\ lpc \in Turning \cup {"setTid"} => hstatus = "running"
              /\ opc \in Past => ~loop_
              /\ lpc \notin {"ended", "assert", "done"} => allocated

StopIsSeen == /\ lpc \in {"assert", "done"} => status = "stopped"
              /\ opc \notin NotYet \cup {"setStatus", "tid"} => loop_tid = "loop"
              /\ opc \in {"returned", "joined"} => lpc = "done"
              /\ thread = "stopped" <=> lpc = "done"

SettledInv == OwedInv /\ NoCrash /\ LoopStage /\ OwnerStage /\ LoopIsGood /\ StopIsSeen

\* While somebody is still to push or post, or the loop is not yet turning, loop_
\* is good.
LEMMA GoodLoop == ASSUME SettledInv
                  PROVE  /\ opc \notin Past => loop_ /\ allocated
                         /\ lpc \in Early => opc \in NotYet
                         /\ \A p \in Posters : ppc[p] # "done" => opc \in NotYet
  BY DEF SettledInv, LoopStage, OwnerStage, LoopIsGood, Early, Turning, Ending, NotYet, Past

\* The owner's steps.
LEMMA SettledOwner ==
    ASSUME Settled, ~PreMayFail, SettledInv, OwedInv', Owner
    PROVE  SettledInv'
  <1> USE GoodLoop DEF SettledInv, NoCrash, LoopStage, OwnerStage, LoopIsGood, StopIsSeen, Early, Turning, Ending, NotYet, Past,
          ownerVars, queueVars, statusVars, Usable, Dies
  <1>1. CASE OwnerStart
    BY <1>1 DEF OwnerStart
  <1>2. CASE OwnerStarted
    BY <1>2 DEF OwnerStarted
  <1>3. CASE OwnerTestsStatus
    BY <1>3 DEF OwnerTestsStatus
  <1>4. CASE OwnerSetsStatus
    BY <1>4 DEF OwnerSetsStatus
  <1>5. CASE OwnerReadsTid
    BY <1>5 DEF OwnerReadsTid
  <1>6. CASE OwnerTestsLoop
    BY <1>6 DEF OwnerTestsLoop
  <1>7. CASE OwnerSetsStopping
    BY <1>7 DEF OwnerSetsStopping
  <1>8. CASE OwnerWakesUp
    BY <1>8 DEF OwnerWakesUp
  <1>9. CASE OwnerSavesStop
    BY <1>9 DEF OwnerSavesStop
  <1>10. CASE OwnerReturns
    BY <1>10 DEF OwnerReturns
  <1>11. CASE OwnerJoins
    BY <1>11 DEF OwnerJoins
  <1> QED BY <1>1, <1>2, <1>3, <1>4, <1>5, <1>6, <1>7, <1>8, <1>9, <1>10, <1>11 DEF Owner

\* The loop thread's steps.
LEMMA SettledLoop ==
    ASSUME Settled, ~PreMayFail, SettledInv, OwedInv', Loop
    PROVE  SettledInv'
  <1> USE GoodLoop DEF SettledInv, NoCrash, LoopStage, OwnerStage, LoopIsGood, StopIsSeen, Early, Turning, Ending, NotYet, Past,
          ownerVars, queueVars, statusVars, Usable, Dies
  <1>1. CASE LoopEntry
    BY <1>1 DEF LoopEntry
  <1>2. CASE LoopPostsPre
    BY <1>2 DEF LoopPostsPre
  <1>3. CASE LoopRuns
    BY <1>3 DEF LoopRuns
  <1>4. CASE LoopLoadsLoop
    BY <1>4 DEF LoopLoadsLoop
  <1>5. CASE LoopSetsRunning
    BY <1>5 DEF LoopSetsRunning
  <1>6. CASE LoopSetsTid
    BY <1>6 DEF LoopSetsTid
  <1>7. CASE LoopPolls
    BY <1>7 DEF LoopPolls
  <1>8. CASE LoopReadsCounter
    BY <1>8 DEF LoopReadsCounter
  <1>9. CASE LoopTakesEvent
    BY <1>9 DEF LoopTakesEvent
  <1>10. CASE LoopEventsDone
    BY <1>10 DEF LoopEventsDone
  <1>11. CASE LoopRunsFunctor
    <2>1. customEvents # << >>
      BY <1>11 DEF LoopRunsFunctor, OwedInv, FunctorForEveryEvent
    <2>2. /\ lpc = "functor" /\ lpc' = "events" /\ crash' = "none"
          /\ ran' = ran \cup {Head(customEvents)}
          /\ UNCHANGED <<opc, loop_tid, ppc, thread, status, loop_, allocated, hstatus, tid>>
      BY <1>11, <2>1 DEF LoopRunsFunctor
    <2>3. ran \subseteq ran'
      BY <2>2
    <2> QED BY <2>2, <2>3
  <1>12. CASE LoopStopsItself
    BY <1>12 DEF LoopStopsItself
  <1>13. CASE LoopSavesStop
    BY <1>13 DEF LoopSavesStop
  <1>14. CASE LoopCleansUp
    BY <1>14 DEF LoopCleansUp
  <1>15. CASE LoopEnds
    BY <1>15 DEF LoopEnds
  <1>16. CASE LoopThreadEnds
    BY <1>16 DEF LoopThreadEnds
  <1> QED BY <1>1, <1>2, <1>3, <1>4, <1>5, <1>6, <1>7, <1>8, <1>9, <1>10, <1>11, <1>12, <1>13, <1>14, <1>15, <1>16 DEF Loop

\* The posters' steps.
LEMMA SettledPoster ==
    ASSUME Settled, ~PreMayFail, SettledInv, OwedInv', NEW p \in Posters,
           PosterPushes(p) \/ PosterPostsEvent(p)
    PROVE  SettledInv'
  <1>1. opc \in NotYet /\ loop_ /\ allocated
    BY GoodLoop DEF PosterPushes, PosterPostsEvent, NotYet, Past
  <1>2. UNCHANGED <<opc, loop_tid, lpc, statusVars, ran, crash>>
    BY <1>1 DEF PosterPushes, PosterPostsEvent, Usable, Dies, ownerVars
  <1> QED BY <1>1, <1>2 DEF SettledInv, NoCrash, LoopStage, OwnerStage, LoopIsGood, StopIsSeen,
                            statusVars

LEMMA SettledStep ==
    ASSUME Settled, ~PreMayFail PROVE SettledInv /\ [Next]_vars => SettledInv'
  <1> SUFFICES ASSUME SettledInv, [Next]_vars PROVE SettledInv'
    OBVIOUS
  <1>1. OwedInv'
    BY OwedStep DEF SettledInv
  <1>2. CASE Step
    BY <1>1, <1>2, SettledOwner, SettledLoop, SettledPoster DEF Step
  <1>3. CASE UNCHANGED vars
    BY <1>1, <1>3 DEF vars, ownerVars, statusVars, SettledInv, NoCrash, LoopStage, OwnerStage,
       LoopIsGood, StopIsSeen
  <1> QED BY <1>2, <1>3 DEF Next

LEMMA SettledInit == Init => SettledInv
  <1> SUFFICES ASSUME Init PROVE SettledInv
    OBVIOUS
  <1>1. OwedInv
    BY OwedInit
  <1> QED BY <1>1 DEF Init, SettledInv, NoCrash, LoopStage, OwnerStage, LoopIsGood, StopIsSeen,
                      Early, Turning, Ending, NotYet, Past

\* stop(true), called as ClientExample does, touches no hloop_t that is gone, for
\* any number of threads that have posted.
THEOREM SettledNeverCrashes == ASSUME Settled, ~PreMayFail PROVE Spec => []NoCrash
  <1>1. SettledInv => NoCrash
    BY DEF SettledInv
  <1> QED BY <1>1, SettledInit, SettledStep, PTL DEF Spec

\* and it returns only when the loop thread has ended.
THEOREM SettledStopWaits == ASSUME Settled, ~PreMayFail PROVE Spec => []StopWaits
  <1>1. SettledInv => StopWaits
    BY DEF SettledInv, StopIsSeen, StopWaits
  <1> QED BY <1>1, SettledInit, SettledStep, PTL DEF Spec

-----------------------------------------------------------------------------
(* Such an owner sees the life cycle of LoopLife: the loop thread's own     *)
(* steps but the first and the last, and all but two of stop's, stutter.    *)

lifeSeen == IF lpc = "off" THEN "off"
            ELSE IF lpc = "done" THEN "stopped"
            ELSE IF loop_ THEN "running" ELSE "stopping"

hasReturned == opc \in {"returned", "joined"}

LifeStep == \/ /\ lifeSeen = "off" /\ lifeSeen' = "running" /\ hasReturned' = hasReturned
            \/ /\ lifeSeen = "running" /\ lifeSeen' = "stopping" /\ hasReturned' = hasReturned
            \/ /\ lifeSeen = "stopping" /\ lifeSeen' = "stopped" /\ hasReturned' = hasReturned
            \/ /\ lifeSeen = "stopped" /\ hasReturned' = TRUE /\ lifeSeen' = lifeSeen
            \/ /\ lifeSeen' = lifeSeen /\ hasReturned' = hasReturned

LEMMA OwnerLives ==
    ASSUME Settled, ~PreMayFail, SettledInv, SettledInv', Owner PROVE LifeStep
  <1> USE DEF lifeSeen, hasReturned, LifeStep
  <1>1. CASE OwnerStart
    BY <1>1, GoodLoop DEF OwnerStart, SettledInv, LoopStage, NotYet, Past
  <1>2. CASE OwnerSavesStop
    <2>1. /\ opc = "saveStop" /\ opc' = "waitStopped" /\ loop_' = FALSE /\ lpc' = lpc
      BY <1>2, GoodLoop DEF OwnerSavesStop, SettledInv, NoCrash, Past
    <2>2. loop_ /\ lpc \notin {"off", "done"}
      BY <2>1, GoodLoop DEF SettledInv, LoopStage, LoopIsGood, Ending, Past
    <2> QED BY <2>1, <2>2
  <1>3. CASE OwnerReturns \/ OwnerJoins
    <2>1. /\ opc' \in {"returned", "joined"} /\ UNCHANGED <<lpc, loop_>>
      BY <1>3 DEF OwnerReturns, OwnerJoins, statusVars
    <2>2. lpc' = "done"
      BY <2>1 DEF SettledInv, StopIsSeen
    <2> QED BY <2>1, <2>2
  <1>4. CASE OwnerTestsStatus
    <2>1. /\ opc = "started" /\ UNCHANGED <<lpc, loop_>>
          /\ opc' = IF thread = "stopped" THEN "returned" ELSE "setStatus"
      BY <1>4 DEF OwnerTestsStatus, statusVars
    <2>2. thread # "stopped"
      BY <2>1 DEF SettledInv, LoopIsGood, StopIsSeen, Ending, Past
    <2> QED BY <2>1, <2>2
  <1>5. CASE \/ OwnerStarted \/ OwnerSetsStatus \/ OwnerReadsTid \/ OwnerTestsLoop
             \/ OwnerSetsStopping \/ OwnerWakesUp
    BY <1>5 DEF OwnerStarted, OwnerSetsStatus, OwnerReadsTid, OwnerTestsLoop, OwnerSetsStopping,
                OwnerWakesUp, statusVars
  <1> QED BY <1>1, <1>2, <1>3, <1>4, <1>5 DEF Owner

LEMMA LoopLives ==
    ASSUME Settled, ~PreMayFail, SettledInv, SettledInv', Loop PROVE LifeStep
  <1> USE DEF lifeSeen, hasReturned, LifeStep
  <1>1. CASE LoopThreadEnds
    <2>1. lpc = "assert" /\ lpc' = "done" /\ UNCHANGED <<opc, loop_>>
      BY <1>1 DEF LoopThreadEnds, SettledInv, StopIsSeen, ownerVars
    <2>2. ~loop_
      BY <2>1 DEF SettledInv, LoopIsGood, Ending
    <2> QED BY <2>1, <2>2
  <1>2. CASE LoopSavesStop \/ LoopStopsItself
    BY <1>2 DEF LoopSavesStop, LoopStopsItself, SettledInv, LoopStage, Early, Turning, Ending
  <1>3. CASE Loop /\ ~LoopThreadEnds /\ ~LoopSavesStop /\ ~LoopStopsItself
    <2>1. lpc \notin {"off", "done"} /\ lpc' \notin {"off", "done"} /\ UNCHANGED <<opc, loop_>>
      BY <1>3 DEF Loop, LoopEntry, LoopPostsPre, LoopRuns, LoopLoadsLoop, LoopSetsRunning,
                  LoopSetsTid, LoopPolls, LoopReadsCounter, LoopTakesEvent, LoopEventsDone,
                  LoopRunsFunctor, LoopCleansUp, LoopEnds, ownerVars, statusVars
    <2> QED BY <2>1
  <1> QED BY <1>1, <1>2, <1>3

\* EventLoopThread implements LoopLife, which is what WebSocketClient makes of
\* it, for any number of posters.
THEOREM SettledLifeCycle == ASSUME Settled, ~PreMayFail PROVE Spec => LifeCycle
  <1>1. Init => Life!LInit
    BY DEF Init, Life!LInit
  <1>2. SettledInv /\ SettledInv' /\ [Next]_vars => LifeStep
    <2> SUFFICES ASSUME SettledInv, SettledInv', [Next]_vars PROVE LifeStep
      OBVIOUS
    <2>1. CASE \E p \in Posters : PosterPushes(p) \/ PosterPostsEvent(p)
      BY <2>1 DEF PosterPushes, PosterPostsEvent, ownerVars, statusVars, LifeStep, lifeSeen, hasReturned
    <2>2. CASE UNCHANGED vars
      BY <2>2 DEF vars, ownerVars, statusVars, LifeStep, lifeSeen, hasReturned
    <2> QED BY <2>1, <2>2, OwnerLives, LoopLives DEF Next, Step
  <1>3. LifeStep => [Life!LNext]_<<IF lpc = "off" THEN "off"
                                   ELSE IF lpc = "done" THEN "stopped"
                                   ELSE IF loop_ THEN "running" ELSE "stopping",
                                   opc \in {"returned", "joined"}>>
    BY DEF LifeStep, lifeSeen, hasReturned, Life!LNext, Life!Start, Life!Stop, Life!End, Life!Return
  <1> QED BY <1>1, <1>2, <1>3, SettledInit, SettledStep, PTL DEF Spec, LifeCycle, Life!LSpec
=============================================================================
