---------------------------- MODULE MCController ----------------------------
(* Model values for Controller: three droppable messages, two that are not. *)
EXTENDS Controller

CONSTANTS d1, d2, d3, n1, n2

=============================================================================
