------------------------ MODULE MCSubscriptionEngine ------------------------
\* One instrument that is asked for in two modes, and another.
EXTENDS SubscriptionEngine

CONSTANTS i1, i2, LTP, FULL

Lines == {<<i1, LTP>>, <<i1, FULL>>, <<i2, LTP>>}
=============================================================================
