----------------------------- MODULE MCRpcBridge -----------------------------
(* Model values for RpcBridge.                                              *)
EXTENDS RpcBridge, TLC

\* Requests, activities and handlers are interchangeable (safety runs only).
Symmetry ==
  Permutations(Request) \cup Permutations(Handler) \cup Permutations(Activity)

=============================================================================
