------------------------------ MODULE LoopLife ------------------------------
(***************************************************************************)
(* What an EventLoopThread promises the thread that owns it: between start *)
(* and stop(true) the loop runs, and when stop has returned it has ended.  *)
(* Module WebSocketClient uses the loop thread in just these steps.        *)
(***************************************************************************)
VARIABLES life,      \* off, running, stopping, stopped
          returned   \* stop(true) has returned

LInit == life = "off" /\ ~returned

Start == life = "off" /\ life' = "running" /\ UNCHANGED returned

Stop == life = "running" /\ life' = "stopping" /\ UNCHANGED returned

End == life = "stopping" /\ life' = "stopped" /\ UNCHANGED returned

Return == life = "stopped" /\ returned' = TRUE /\ UNCHANGED life

LNext == Start \/ Stop \/ End \/ Return

LSpec == LInit /\ [][LNext]_<<life, returned>>
=============================================================================
