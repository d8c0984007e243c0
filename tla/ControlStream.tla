---------------------------- MODULE ControlStream ----------------------------
(***************************************************************************)
(* What a controller promises to those who push control messages: the       *)
(* messages it accepts reach the socket in the order they were accepted,    *)
(* each at most once and none before those in front of it.                  *)
(***************************************************************************)
EXTENDS Naturals, Sequences

CONSTANT Msg

VARIABLES
  accepted,   \* messages accepted, in order
  sent        \* messages written to the control socket, in order

vars == <<accepted, sent>>

Init == accepted = <<>> /\ sent = <<>>

Accept(m) ==
  /\ accepted' = Append(accepted, m)
  /\ UNCHANGED sent

Send ==
  /\ Len(sent) < Len(accepted)
  /\ sent' = Append(sent, accepted[Len(sent) + 1])
  /\ UNCHANGED accepted

Next == Send \/ \E m \in Msg : Accept(m)

Spec == Init /\ [][Next]_vars

=============================================================================
