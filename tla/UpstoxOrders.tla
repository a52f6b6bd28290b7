----------------------------- MODULE UpstoxOrders -----------------------------
(***************************************************************************)
(* UpstoxOrderCommandAdapter.place_order                                   *)
(* (brokers/upstox/orders/order_command_adapter.py) with the               *)
(* InMemoryIdempotencyCache of orders/idempotency.py, over the two         *)
(* attempts that UpstoxHttpClient._execute_request makes.                  *)
(*                                                                         *)
(* The promise of OrderService, kept in another way than in DhanOrders:    *)
(* each get() and put() locks the cache, but nothing is held between       *)
(* them, so the calls of several threads interleave; entries neither       *)
(* expire nor are evicted; the POST is repeated only when a rejected       *)
(* token could be refreshed; the event is published before the order is    *)
(* put in the cache.  Calls without a correlation id do not touch the      *)
(* cache and are left out.                                                 *)
(***************************************************************************)
EXTENDS Integers, FiniteSets

CONSTANTS
    Caller,         \* threads that call place_order
    Key,            \* correlation ids
    NoReply,        \* the value of reply before the first answer
    MaxExtra        \* callers of the model drop an id after that many lapses and overlaps

VARIABLES
    pc,         \* where each caller stands in place_order
    key,        \* the correlation id of its call
    attempt,    \* the attempt of its POST: 1 or 2
    order,      \* the order the broker answered its POST with
    cached,     \* _store: the order under each id, 0 where there is none
    book,       \* orders the broker has taken under each id
    limbo,      \* unanswered requests the broker may yet take
    lapses,     \* history: see OrderService
    overlaps,   \* history: calls that found another one under their id under way
    events,     \* history: ORDER_PLACED events published under each id
    reply       \* history: the last answer given to a caller

call == <<pc, key, attempt, order>>
broker == <<book, limbo>>
history == <<lapses, overlaps, events, reply>>
vars == <<call, cached, broker, history>>

UnderWay == {"prepare", "post", "publish", "put"}
Location == {"idle"} \cup UnderWay

Init ==
    /\ pc = [c \in Caller |-> "idle"]
    /\ key \in [Caller -> Key]
    /\ attempt = [c \in Caller |-> 1]
    /\ order = [c \in Caller |-> 0]
    /\ cached = [k \in Key |-> 0]
    /\ book = [k \in Key |-> 0]
    /\ limbo = [k \in Key |-> 0]
    /\ lapses = [k \in Key |-> 0]
    /\ overlaps = [k \in Key |-> 0]
    /\ events = [k \in Key |-> 0]
    /\ reply = NoReply

Goto(c, l) == pc' = [pc EXCEPT ![c] = l]

\* place_order of c returns or raises.
Leave(c) ==
    /\ Goto(c, "idle")
    /\ attempt' = [attempt EXCEPT ![c] = 1]
    /\ order' = [order EXCEPT ![c] = 0]
    /\ UNCHANGED key

\* One more lapse for every id in S.
LapseOf(S) == lapses' = [k \in Key |-> IF k \in S THEN lapses[k] + 1 ELSE lapses[k]]

\* The calls under an id that stand at one of these locations.
At(k, locations) == {c \in Caller : key[c] = k /\ pc[c] \in locations}

-----------------------------------------------------------------------------
(* place_order *)

\* Mutation: a hit announces the order again.
ReplayPublishes(c, k) ==
    /\ pc[c] = "idle"
    /\ cached[k] # 0
    /\ reply' = <<k, cached[k]>>
    /\ events' = [events EXCEPT ![k] = IF @ <= book[k] THEN @ + 1 ELSE @]
    /\ UNCHANGED <<call, cached, broker, lapses, overlaps>>

\* get() finds the id: answer with the order placed earlier.
Replay(c, k) ==
    /\ pc[c] = "idle"
    /\ cached[k] # 0
    /\ reply' = <<k, cached[k]>>
    /\ UNCHANGED <<call, cached, broker, lapses, overlaps, events>>

\* get() does not find the id: go on.
Enter(c, k) ==
    /\ pc[c] = "idle"
    /\ lapses[k] + overlaps[k] < MaxExtra
    /\ cached[k] = 0
    /\ key' = [key EXCEPT ![c] = k]
    /\ Goto(c, "prepare")
    /\ overlaps' = [overlaps EXCEPT ![k] = IF At(k, UnderWay) = {} THEN @ ELSE @ + 1]
    /\ UNCHANGED <<attempt, order, cached, broker, lapses, events, reply>>

\* The risk manager, the resolver, the preview or the open circuit breaker
\* ends the call: nothing was sent.
Reject(c) ==
    /\ pc[c] = "prepare"
    /\ Leave(c)
    /\ UNCHANGED <<cached, broker, history>>

\* The POST leaves.
Send(c) ==
    /\ pc[c] = "prepare"
    /\ Goto(c, "post")
    /\ UNCHANGED <<key, attempt, order, cached, broker, history>>

\* Mutation: the request goes out again after every rejected token.
ResendAgain(c) ==
    /\ pc[c] = "post"
    /\ attempt[c] <= 2
    /\ attempt' = [attempt EXCEPT ![c] = @ + 1]
    /\ UNCHANGED <<pc, key, order, cached, broker, history>>

\* 401 or 403 on the first attempt, and the token could be refreshed.
Resend(c) ==
    /\ pc[c] = "post"
    /\ attempt[c] = 1
    /\ attempt' = [attempt EXCEPT ![c] = 2]
    /\ UNCHANGED <<pc, key, order, cached, broker, history>>

\* The broker takes the order and its answer arrives.
Answered(c) ==
    /\ pc[c] = "post"
    /\ book' = [book EXCEPT ![key[c]] = @ + 1]
    /\ order' = [order EXCEPT ![c] = book[key[c]] + 1]
    /\ Goto(c, "publish")
    /\ UNCHANGED <<key, attempt, cached, limbo, history>>

\* Any other error ends the call with a failed response or an exception: the
\* broker refused the order, or sent no readable answer and it is in limbo.
Fail(c) ==
    /\ pc[c] = "post"
    /\ Leave(c)
    /\ \/ UNCHANGED <<limbo, lapses>>
       \/ limbo' = [limbo EXCEPT ![key[c]] = @ + 1] /\ LapseOf({key[c]})
    /\ UNCHANGED <<cached, book, overlaps, events, reply>>

\* _publish_order_placed, silently when there is no event bus ...
Publish(c) ==
    /\ pc[c] = "publish"
    /\ events' \in {events, [events EXCEPT ![key[c]] = @ + 1]}
    /\ Goto(c, "put")
    /\ UNCHANGED <<key, attempt, order, cached, broker, lapses, overlaps, reply>>

\* ... or the event bus raises: the caller gets that, and the order the broker
\* has taken is not remembered.
PublishRaises(c) ==
    /\ pc[c] = "publish"
    /\ Leave(c)
    /\ LapseOf({key[c]})
    /\ UNCHANGED <<cached, broker, overlaps, events, reply>>

\* Mutation: the order is returned without being put in the cache.
ReturnWithoutPut(c) ==
    /\ pc[c] = "put"
    /\ reply' = <<key[c], order[c]>>
    /\ Leave(c)
    /\ UNCHANGED <<cached, broker, lapses, overlaps, events>>

\* put() and return.
Put(c) ==
    /\ pc[c] = "put"
    /\ cached' = [cached EXCEPT ![key[c]] = order[c]]
    /\ reply' = <<key[c], order[c]>>
    /\ Leave(c)
    /\ UNCHANGED <<broker, lapses, overlaps, events>>

-----------------------------------------------------------------------------
(* The broker and the process *)

\* The broker takes a request whose sender has given up on it, or drops it.
TakeLate(k) ==
    /\ limbo[k] > 0
    /\ limbo' = [limbo EXCEPT ![k] = @ - 1]
    /\ book' \in {book, [book EXCEPT ![k] = @ + 1]}
    /\ UNCHANGED <<call, cached, history>>

\* The process dies and comes back with an empty cache; the requests on the
\* wire are in limbo.
Restart ==
    /\ pc' = [c \in Caller |-> "idle"]
    /\ attempt' = [c \in Caller |-> 1]
    /\ order' = [c \in Caller |-> 0]
    /\ cached' = [k \in Key |-> 0]
    /\ limbo' = [k \in Key |-> limbo[k] + Cardinality(At(k, {"post"}))]
    /\ LapseOf({k \in Key : cached[k] # 0 \/ At(k, {"post", "publish", "put"}) # {}})
    /\ UNCHANGED <<key, book, overlaps, events, reply>>

PlaceOrder(c) ==
    \/ \E k \in Key : Replay(c, k) \/ Enter(c, k)
    \/ Reject(c)
    \/ Send(c)
    \/ Resend(c)
    \/ Answered(c)
    \/ Fail(c)
    \/ Publish(c)
    \/ PublishRaises(c)
    \/ Put(c)

Next ==
    \/ \E c \in Caller : PlaceOrder(c)
    \/ \E k \in Key : TakeLate(k)
    \/ Restart

Spec == Init /\ [][Next]_vars

-----------------------------------------------------------------------------
(* Properties *)

\* Every variable keeps its type.
TypeOK ==
    /\ pc \in [Caller -> Location]
    /\ key \in [Caller -> Key]
    /\ attempt \in [Caller -> {1, 2}]
    /\ order \in [Caller -> Nat]
    /\ cached \in [Key -> Nat]
    /\ book \in [Key -> Nat]
    /\ limbo \in [Key -> Nat]
    /\ lapses \in [Key -> Nat]
    /\ overlaps \in [Key -> Nat]
    /\ events \in [Key -> Nat]
    /\ reply \in (Key \X Nat) \cup {NoReply}

\* No order is announced twice, and none that was not taken (place_order,
\* _publish_order_placed).
EventsMatchOrders == \A k \in Key : events[k] <= book[k]

\* Every order beyond the first under an id is accounted for: by a lapse, or by
\* a call that began while another one under the id was under way.  A call that
\* begins after one has returned never adds an order of its own (get before the
\* POST, put before the return).
ExtraOrdersAccounted == \A k \in Key : book[k] <= 1 + lapses[k] + overlaps[k]

\* orders/idempotency.py:1, "In-memory idempotency cache for order placement
\* safety": under one id there is one order, as long as no request goes
\* unanswered and nothing is forgotten.
DuplicatesExcused == \A k \in Key : book[k] <= 1 + lapses[k]

=============================================================================
