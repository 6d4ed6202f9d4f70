--------------------------- MODULE MCLoginSession ---------------------------
(* LoginSession for TLC: the requests are interchangeable. *)
EXTENDS LoginSession, TLC

Interchangeable == Permutations(Requests)
=============================================================================
