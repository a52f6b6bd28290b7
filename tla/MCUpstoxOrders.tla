---------------------------- MODULE MCUpstoxOrders ----------------------------
(* UpstoxOrders for TLC: callers are interchangeable, and so are ids. *)
EXTENDS UpstoxOrders, TLC

Symmetry == Permutations(Caller) \cup Permutations(Key)

=============================================================================
