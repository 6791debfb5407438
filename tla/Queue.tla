------------------------------- MODULE Queue --------------------------------
(***************************************************************************)
(* QUEUE_DECL of libhv's base/queue.h: a growable array `ptr' of `maxsize' *)
(* cells in which the `size' elements sit contiguously from `offset'.      *)
(* The window never wraps around the array: push_back moves it back to the *)
(* front when it touches the end.                                          *)
(***************************************************************************)
EXTENDS Integers, Sequences

CONSTANTS Elem,            \* the values stored (events, write buffers)
          Nil,             \* the content of a zeroed cell
          QUEUE_INIT_SIZE, \* capacity that resize(0) falls back to
          InitSizes,       \* capacities the users pass to init
          MaxCells         \* bound: capacity beyond which push_back stops

ASSUME QueueAssumption ==
    /\ Nil \notin Elem
    /\ QUEUE_INIT_SIZE \in Nat \ {0}
    /\ InitSizes \subseteq Nat \ {0}
    /\ MaxCells \in Nat

VARIABLES ptr, size, maxsize, offset

qvars == <<ptr, size, maxsize, offset>>

Cells(n) == 0 .. (n - 1)

\* An all-zero struct, as hio_ready and hloop_new leave it.
QInit ==
    /\ ptr = [i \in Cells(0) |-> Nil]
    /\ size = 0
    /\ maxsize = 0
    /\ offset = 0

\* qtype##_init, called by its users only on a queue without storage.
qinit(n) ==
    /\ maxsize = 0
    /\ ptr' = [i \in Cells(n) |-> Nil]
    /\ size' = 0
    /\ maxsize' = n
    /\ offset' = 0

\* hv_realloc: the old cells are kept, the new ones are zeroed.
resized(n) == [i \in Cells(n) |-> IF i < maxsize THEN ptr[i] ELSE Nil]

\* Mutant: memmove that starts at the array instead of at the window.
moved_from_start == [i \in Cells(maxsize) |-> ptr[i]]

\* memmove of the window to the front; the cells behind it keep their values.
moved == [i \in Cells(maxsize) |-> IF i < size THEN ptr[offset + i] ELSE ptr[i]]

doubled == IF maxsize = 0 THEN QUEUE_INIT_SIZE ELSE 2 * maxsize

push_back(e) ==
    LET full == size = maxsize
        atEnd == ~full /\ offset + size = maxsize
        newMax == IF full THEN doubled ELSE maxsize
        newOff == IF atEnd THEN 0 ELSE offset
        cells == IF full THEN resized(doubled) ELSE IF atEnd THEN moved ELSE ptr
    IN  /\ newMax <= MaxCells
        /\ ptr' = [cells EXCEPT ![newOff + size] = e]
        /\ size' = size + 1
        /\ maxsize' = newMax
        /\ offset' = newOff

\* Mutant: pop_front that does not test for an empty queue.
pop_front_unchecked ==
    /\ size' = size - 1
    /\ offset' = IF offset + 1 = maxsize THEN 0 ELSE offset + 1
    /\ size > -2
    /\ UNCHANGED <<ptr, maxsize>>

pop_front ==
    /\ size > 0
    /\ size' = size - 1
    /\ offset' = IF offset + 1 = maxsize THEN 0 ELSE offset + 1
    /\ UNCHANGED <<ptr, maxsize>>

cleanup ==
    /\ ptr' = [i \in Cells(0) |-> Nil]
    /\ size' = 0
    /\ maxsize' = 0
    /\ offset' = 0

QNext ==
    \/ \E n \in InitSizes : qinit(n)
    \/ \E e \in Elem : push_back(e)
    \/ pop_front
    \/ cleanup

QSpec == QInit /\ [][QNext]_qvars

-----------------------------------------------------------------------------
QTypeOK ==
    /\ size \in Nat
    /\ maxsize \in Nat
    /\ offset \in Nat
    /\ ptr \in [Cells(maxsize) -> Elem \cup {Nil}]

\* The window lies inside the array, so push_back's store at offset + size and
\* front's read at offset never leave the storage.
WindowInBounds == offset + size <= maxsize

\* Every cell of the window holds an element that was pushed, never a zeroed one.
filled(p, n, o) == \A i \in Cells(n) : p[o + i] \in Elem

WindowFilled == filled(ptr, size, offset)

QInv == QTypeOK /\ WindowInBounds /\ WindowFilled

-----------------------------------------------------------------------------
\* The elements in queue order.
slice(p, n, o) == [i \in 1 .. n |-> p[o + i - 1]]

window == slice(ptr, size, offset)

F == INSTANCE Fifo WITH contents <- window

FifoSpec == F!FSpec

=============================================================================
