----------------------------- MODULE BoundedFifo -----------------------------
(***************************************************************************)
(* What an endpoint's receive queue promises: a first-in first-out queue   *)
(* of bounded capacity.  Every message that enters leaves once, in order,  *)
(* and none is lost or made up.                                            *)
(***************************************************************************)
EXTENDS Naturals, Sequences

CONSTANTS Msg,       \* the messages
          Capacity   \* the most messages the queue ever holds

VARIABLES queue,     \* messages in the queue, oldest first
          out        \* messages that have left the queue, oldest first

fifoVars == <<queue, out>>

Init == queue = <<>> /\ out = <<>>

Put(m) ==
  /\ Len(queue) < Capacity
  /\ queue' = Append(queue, m)
  /\ UNCHANGED out

Get ==
  /\ queue # <<>>
  /\ out' = Append(out, Head(queue))
  /\ queue' = Tail(queue)

Next == (\E m \in Msg : Put(m)) \/ Get

Spec == Init /\ [][Next]_fifoVars
=============================================================================
