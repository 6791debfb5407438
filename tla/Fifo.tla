-------------------------------- MODULE Fifo --------------------------------
(***************************************************************************)
(* What base/queue.h promises its users ("FIFO: push_back, pop_front"):    *)
(* a sequence that grows at its end and shrinks at its front.  The hio     *)
(* write queue and the loop's custom-event queue are instances.            *)
(***************************************************************************)
EXTENDS Sequences

CONSTANT Elem

VARIABLE contents

FInit == contents = << >>

FPush(e) == contents' = Append(contents, e)

FPop == /\ contents # << >>
        /\ contents' = Tail(contents)

FReset == contents' = << >>

FNext == (\E e \in Elem : FPush(e)) \/ FPop \/ FReset

FSpec == FInit /\ [][FNext]_contents
=============================================================================
