----------------------------- MODULE MCRateLimit -----------------------------
(* RateLimit for TLC: requests and addresses are interchangeable. *)
EXTENDS RateLimit, TLC

Symmetry == Permutations(Requests) \cup Permutations(Ips)
=============================================================================
