------------------------- MODULE MCStreamOrchestrator -------------------------
(* StreamOrchestrator for TLC. *)
EXTENDS StreamOrchestrator

CONSTANTS c1, c2, b1, b2, i1, i2

\* All ask the same broker; the other is there to fail over to.  One client
\* always wants the same instrument, the other that or another.
OneBroker == {<<c1, b1, {i1}>>, <<c2, b1, {i1}>>, <<c2, b1, {i2}>>}

=============================================================================
