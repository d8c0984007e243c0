----------------------------- MODULE Connection -----------------------------
(***************************************************************************)
(* What the client may expect of sc_server (server.h): its thread reports   *)
(* either that it is connected or that the connection failed, once, and     *)
(* ends after a failure, or when it is stopped.                             *)
(***************************************************************************)
VARIABLES
  lists,    \* a --list-* option was given: the thread ends by itself
  told,     \* nothing, connected, failed
  stopped,  \* sc_server_stop was called
  ended     \* the server thread has returned

vars == <<lists, told, stopped, ended>>

Init ==
  lists \in BOOLEAN /\ told = "nothing" /\ stopped = FALSE /\ ended = FALSE

Connect ==
  /\ told = "nothing" /\ told' = "connected"
  /\ ended' = lists
  /\ UNCHANGED <<lists, stopped>>

Fail ==
  /\ told = "nothing" /\ told' = "failed"
  /\ ended' = TRUE
  /\ UNCHANGED <<lists, stopped>>

Stop == ~stopped /\ stopped' = TRUE /\ UNCHANGED <<lists, told, ended>>

End ==
  /\ told = "connected" /\ stopped /\ ~ended
  /\ ended' = TRUE
  /\ UNCHANGED <<lists, told, stopped>>

Next == Connect \/ Fail \/ Stop \/ End

Spec == Init /\ [][Next]_vars

=============================================================================
