----------------------------- MODULE ObjectPool -----------------------------
(* HObjectPool of cpputil/hobjectpool.h: objects that threads borrow and     *)
(* return, made when there are too few, waited for when there are enough.    *)
(* A step is what happens under mutex_; making an object and waiting for     *)
(* cond_ happen outside it.  std::list keeps the objects in order.           *)
EXTENDS Naturals, Sequences, FiniteSets

CONSTANTS
    Borrower,      \* threads
    Object,        \* objects, each made once
    MaxNum,        \* _max_num
    Waits,         \* _timeout > 0
    NoObject

ASSUME ObjectPoolAssumption ==
    /\ IsFiniteSet(Borrower) /\ IsFiniteSet(Object)
    /\ NoObject \notin Object /\ MaxNum \in Nat /\ Waits \in BOOLEAN

VARIABLES
    objects_,      \* the idle objects
    object_num,    \* _object_num
    made,          \* objects that exist or existed
    bpc,           \* per thread: where it is in Borrow
    has            \* per thread: the object it holds

ovars == <<objects_, object_num, made, bpc, has>>

OInit ==
    /\ objects_ = <<>> /\ object_num = 0 /\ made = {}
    /\ bpc = [b \in Borrower |-> "out"] /\ has = [b \in Borrower |-> NoObject]

Goes(b, to) == bpc' = [bpc EXCEPT ![b] = to]

(* objects_.front and pop_front *)
TakesFront(b) ==
    /\ has' = [has EXCEPT ![b] = Head(objects_)] /\ objects_' = Tail(objects_)
    /\ Goes(b, "out")

(* Borrow begins with TryBorrow. *)
TryBorrow(b) ==
    /\ bpc[b] = "out" /\ has[b] = NoObject
    /\ IF objects_ # <<>> THEN TakesFront(b)
       ELSE Goes(b, "tried") /\ UNCHANGED <<objects_, has>>
    /\ UNCHANGED <<object_num, made>>

(* It takes the mutex again and does not look at objects_ again: it makes an *)
(* object, waits, or returns NULL.                                           *)
Borrow(b) ==
    /\ bpc[b] = "tried"
    /\ Goes(b, IF object_num < MaxNum THEN "creates" ELSE IF Waits THEN "waits" ELSE "out")
    /\ object_num' = IF object_num < MaxNum THEN object_num + 1 ELSE object_num
    /\ UNCHANGED <<objects_, made, has>>

(* TFactory::create, which may fail, and the step after it *)
Creates(b) ==
    /\ bpc[b] = "creates" /\ Goes(b, "out")
    /\ \/ \E o \in Object \ made :
            /\ made' = made \cup {o} /\ has' = [has EXCEPT ![b] = o]
            /\ UNCHANGED object_num
       \/ object_num' = object_num - 1 /\ UNCHANGED <<made, has>>
    /\ UNCHANGED objects_

(* cond_.wait_for ends: with an object, with none because another thread was *)
(* faster or nobody notified, or by its timeout.                             *)
WaitEnds_keeping(b) ==
    /\ bpc[b] = "woken" /\ objects_ # <<>>
    /\ has' = [has EXCEPT ![b] = Head(objects_)] /\ Goes(b, "out")
    /\ UNCHANGED <<objects_, object_num, made>>

WaitEnds(b) ==
    /\ bpc[b] = "woken"
    /\ IF objects_ # <<>> THEN TakesFront(b) ELSE Goes(b, "out") /\ UNCHANGED <<objects_, has>>
    /\ UNCHANGED <<object_num, made>>

WakesUnnotified(b) ==
    /\ bpc[b] = "waits" /\ Goes(b, "woken") /\ UNCHANGED <<objects_, object_num, made, has>>

TimesOut(b) ==
    /\ bpc[b] = "waits" /\ Goes(b, "out") /\ UNCHANGED <<objects_, object_num, made, has>>

Waiting == {b \in Borrower : bpc[b] = "waits"}

(* cond_.notify_one after the step of thread b *)
NotifyOne ==
    IF Waiting = {} THEN UNCHANGED bpc ELSE \E w \in Waiting : Goes(w, "woken")

Return(b) ==
    /\ bpc[b] = "out" /\ has[b] # NoObject
    /\ objects_' = Append(objects_, has[b]) /\ has' = [has EXCEPT ![b] = NoObject]
    /\ NotifyOne /\ UNCHANGED <<object_num, made>>

Add(o) ==
    /\ o \notin made /\ made' = made \cup {o} /\ object_num < MaxNum
    /\ objects_' = Append(objects_, o) /\ object_num' = object_num + 1
    /\ NotifyOne /\ UNCHANGED has

(* list::erase *)
Erased(s, i) == SubSeq(s, 1, i - 1) \o SubSeq(s, i + 1, Len(s))

(* It erases the first and looks no further. *)
Remove(o) ==
    /\ \E i \in DOMAIN objects_ :
        /\ objects_[i] = o /\ \A j \in 1..i - 1 : objects_[j] # o
        /\ objects_' = Erased(objects_, i)
    /\ object_num' = object_num - 1
    /\ UNCHANGED <<made, bpc, has>>

ONext ==
    \/ \E b \in Borrower :
        \/ TryBorrow(b) \/ Borrow(b) \/ Creates(b) \/ WaitEnds(b)
        \/ WakesUnnotified(b) \/ TimesOut(b) \/ Return(b)
    \/ \E o \in Object : Add(o) \/ Remove(o)

(* Threads run, and a wait times out. *)
BorrowRuns(b) == Borrow(b) \/ Creates(b) \/ WaitEnds(b) \/ TimesOut(b)
OSpec == OInit /\ [][ONext]_ovars /\ \A b \in Borrower : WF_ovars(BorrowRuns(b))

-----------------------------------------------------------------------------
(* Properties. *)

Idle_ == {objects_[i] : i \in DOMAIN objects_}
Held == {has[b] : b \in Borrower} \ {NoObject}
Creating == {b \in Borrower : bpc[b] = "creates"}

(* What the variables hold. *)
OTypeOK ==
    /\ objects_ \in Seq(Object) /\ object_num \in Nat /\ made \subseteq Object
    /\ bpc \in [Borrower -> {"out", "tried", "creates", "waits", "woken"}]
    /\ has \in [Borrower -> Object \cup {NoObject}]

(* An object is idle once or held by one thread. *)
NoSharing ==
    /\ Idle_ \cap Held = {}
    /\ \A i, j \in DOMAIN objects_ : objects_[i] = objects_[j] => i = j
    /\ \A b, c \in Borrower : has[b] = has[c] /\ has[b] # NoObject => b = c

(* _object_num counts the objects that are idle, lent or being made, so that *)
(* there are never more than _max_num, though they are made without the      *)
(* mutex and creation may fail.                                              *)
CountExact ==
    /\ object_num = Len(objects_) + Cardinality(Held) + Cardinality(Creating)
    /\ object_num <= MaxNum

(* Every Borrow returns, with an object or without. *)
BorrowReturns == \A b \in Borrower : (bpc[b] # "out") ~> (bpc[b] = "out")

LendsOnce == NoSharing /\ CountExact
=============================================================================
