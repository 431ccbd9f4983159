---------------------------- MODULE MCRateLimit ----------------------------
(* TLC instance of RateLimit; requests are model values, all alike.         *)
EXTENDS RateLimit, TLC

Interchangeable == Permutations(Requests)

=============================================================================
