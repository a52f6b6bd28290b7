----------------------------- MODULE OrderService -----------------------------
(***************************************************************************)
(* What an order adapter with an idempotency cache promises its callers    *)
(* (IdempotencyCache in brokers/dhan/orders.py, and its Upstox and port    *)
(* counterparts): as long as the service remembers the order it placed     *)
(* under a correlation id, it answers with that order and does not send    *)
(* another.                                                                *)
(*                                                                         *)
(* It cannot promise that for ever.  A lapse is an event after which one   *)
(* more order under the same id is possible: the service forgets the order *)
(* it knew, or a request of its leaves without an answer, so that the      *)
(* broker may or may not have taken it.  Every order beyond the first has  *)
(* a lapse of its own to account for it.                                   *)
(***************************************************************************)
EXTENDS Integers

CONSTANTS
    Key,        \* correlation ids
    NoReply     \* the reply before there was any

VARIABLES
    book,       \* orders the broker has taken under each id
    known,      \* the order the service would answer with, 0 when it knows none
    lapses,     \* lapses under each id so far
    reply       \* the last answer given to a caller: <<id, order>>

vars == <<book, known, lapses, reply>>

Init ==
    /\ book = [k \in Key |-> 0]
    /\ known = [k \in Key |-> 0]
    /\ lapses = [k \in Key |-> 0]
    /\ reply = NoReply

\* The broker takes an order and the service learns of it.
Take(k) ==
    /\ known[k] = 0
    /\ book' = [book EXCEPT ![k] = @ + 1]
    /\ known' = [known EXCEPT ![k] = book[k] + 1]
    /\ UNCHANGED <<lapses, reply>>

\* The broker takes an order of a request that went unanswered.
TakeUnanswered(k) ==
    /\ book[k] < lapses[k] + (IF known[k] = 0 THEN 0 ELSE 1)
    /\ book' = [book EXCEPT ![k] = @ + 1]
    /\ UNCHANGED <<known, lapses, reply>>

\* Some ids suffer a lapse; those in F also lose the order known for them.
Lapse(S, F) ==
    /\ F \subseteq S
    /\ \A k \in F : known[k] # 0
    /\ lapses' = [k \in Key |-> IF k \in S THEN lapses[k] + 1 ELSE lapses[k]]
    /\ known' = [k \in Key |-> IF k \in F THEN 0 ELSE known[k]]
    /\ UNCHANGED <<book, reply>>

\* A caller is answered with the order the service knows.
Answer(k) ==
    /\ known[k] # 0
    /\ reply' = <<k, known[k]>>
    /\ UNCHANGED <<book, known, lapses>>

Next ==
    \/ \E k \in Key : Take(k) \/ TakeUnanswered(k) \/ Answer(k)
    \/ \E S, F \in SUBSET Key : Lapse(S, F)

Spec == Init /\ [][Next]_vars

\* Every order beyond the first is accounted for by a lapse.
DuplicatesExcused == \A k \in Key : book[k] <= 1 + lapses[k]

=============================================================================
