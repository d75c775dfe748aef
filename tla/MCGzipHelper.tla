---------------------------- MODULE MCGzipHelper ----------------------------
(* No file, a short one, one longer than the buffer. *)
EXTENDS GzipHelper

Old == -3
MCOldFiles == {<< >>, <<Old>>, [k \in 1 .. Capacity + 1 |-> Old]}
=============================================================================
