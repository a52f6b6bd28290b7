----------------------------- MODULE MCDhanOrders -----------------------------
(* DhanOrders for TLC: callers are interchangeable, and so are ids. *)
EXTENDS DhanOrders, TLC

Symmetry == Permutations(Caller) \cup Permutations(Key)

=============================================================================
