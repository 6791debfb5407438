----------------------------- MODULE ByteStream -----------------------------
(***************************************************************************)
(* What an hio promises to those who write to it: on one connection the    *)
(* peer gets the messages one after the other, none torn or repeated.  How *)
(* a close treats what is not yet sent is left open here.                  *)
(***************************************************************************)
EXTENDS Naturals, Sequences

CONSTANTS Msgs, MsgLen
VARIABLES taken,  \* the messages accepted on this connection, in order
          wire,   \* the bytes on it; a byte is the message it belongs to
          open    \* the connection is open

bvars == <<taken, wire, open>>

Bytes(s) == [k \in 1 .. Len(s) * MsgLen |-> s[(k - 1) \div MsgLen + 1]]

Begins(s, t) == Len(s) <= Len(t) /\ s = SubSeq(t, 1, Len(s))

Fresh == taken = << >> /\ wire = << >> /\ open = TRUE

\* A message is taken, bytes are sent, or both.
Go == /\ open /\ UNCHANGED open
      /\ \/ UNCHANGED taken
         \/ \E m \in Msgs : /\ \A i \in DOMAIN taken : taken[i] # m
                            /\ taken' = Append(taken, m)
      /\ Begins(wire, wire') /\ Begins(wire', Bytes(taken'))

End == open /\ ~open' /\ UNCHANGED <<taken, wire>>

Again == ~open /\ Fresh'

BSpec == Fresh /\ [][Go \/ End \/ Again]_bvars
=============================================================================
