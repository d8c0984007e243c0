---------------------------- MODULE SampleQueue ----------------------------
(***************************************************************************)
(* What the audio player promises: the samples decoded are played in their  *)
(* order, with silence between them where some was inserted, none twice.    *)
(* Old samples may be dropped, never so many that fewer than Target remain. *)
(***************************************************************************)
EXTENDS Integers, Sequences

CONSTANTS
  Target,    \* samples to keep buffered
  Capacity,  \* samples the buffer can hold
  Labels     \* samples are numbered modulo Labels, from 1

VARIABLES
  queue,     \* samples accepted and not yet played
  due,       \* number of the next sample to accept
  out        \* samples being played

vars == <<queue, due, out>>

Silence == 0
Label(n) == ((n - 1) % Labels) + 1
Samples(first, n) == [i \in 1..n |-> Label(first + i - 1)]
Without(n) == SubSeq(queue, n + 1, Len(queue))

Init == queue = <<>> /\ due = 1 /\ out = <<>>

Accept(n) ==
  /\ Len(queue) + n <= Capacity
  /\ queue' = queue \o Samples(due, n)
  /\ due' = Label(due + n)
  /\ UNCHANGED out

InsertSilence(n) ==
  /\ Len(queue) + n <= Target
  /\ queue' = queue \o [i \in 1..n |-> Silence]
  /\ UNCHANGED <<due, out>>

Play(n) ==
  /\ out' = SubSeq(queue, 1, n)
  /\ queue' = Without(n)
  /\ UNCHANGED due

EndPlay == out' = <<>> /\ UNCHANGED <<queue, due>>

Drop(n) ==
  /\ Len(queue) - n >= Target
  /\ queue' = Without(n)
  /\ UNCHANGED <<due, out>>

Next ==
  \/ \E n \in 1..Capacity : Accept(n) \/ InsertSilence(n) \/ Drop(n)
  \/ \E n \in 0..Len(queue) : Play(n)
  \/ EndPlay

Spec == Init /\ [][Next]_vars

=============================================================================
