------------------------------- MODULE MCSsh -------------------------------
(* Files of every length up to one more than an int counts. *)
EXTENDS SshTransfer

CONSTANT MaxLength

\* Bytes are told apart by their place.
MCSources == {[k \in 1 .. n |-> k] : n \in 0 .. MaxLength}

MCReadError == -2

\* Left over from whatever was on the stack.
MCGarbage == {-1, 0, 2}
=============================================================================
