----------------------------- MODULE MCListing -----------------------------
(* TLC instance of Listing; rows are model values, all alike.               *)
EXTENDS Listing, TLC

Interchangeable == Permutations(Rows)

=============================================================================
