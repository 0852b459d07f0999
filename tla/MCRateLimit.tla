------------------------------ MODULE MCRateLimit ------------------------------
(* Small instances of RateLimit. *)
EXTENDS RateLimit, TLC

MCSymmetry == Permutations(ApiRequests) \cup Permutations(Users)
================================================================================
