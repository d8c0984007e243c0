------------------------------ MODULE MCScreen ------------------------------
(* A device that rotates, on a desktop that holds its frames in one           *)
(* direction only.                                                           *)
EXTENDS Screen

MCFrameSizes == {Size(8, 4), Size(4, 8)}
MCUserSizes  == {Size(11, 9)}
MCRequests   == {[fullscreen |-> TRUE, w |-> 0, h |-> 0], [fullscreen |-> FALSE, w |-> 0, h |-> 6],
                 [fullscreen |-> FALSE, w |-> 9, h |-> 6]}
\* a window one unit wide
MCThin       == {[fullscreen |-> FALSE, w |-> 1, h |-> 4]}
MCDesktop    == Size(20, 10)

=============================================================================
