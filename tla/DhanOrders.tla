------------------------------ MODULE DhanOrders ------------------------------
(***************************************************************************)
(* OrdersAdapter.place_order and the IdempotencyCache of                   *)
(* brokers/dhan/orders.py, over the attempts that _request of              *)
(* http_client.py makes for one POST.  Callers are threads.                *)
(*                                                                         *)
(* lock(correlation_id) takes the one RLock of the cache whatever the id,  *)
(* so a call that misses holds it from the look-up to its return, through  *)
(* every attempt and backoff sleep of the POST.  A call that hits does     *)
(* nothing between taking and releasing the lock and is one step here; a   *)
(* caller waiting for the lock has done nothing yet and is idle.           *)
(*                                                                         *)
(* The broker numbers the orders it takes under an id 1, 2, ...  A request *)
(* that ends without a readable answer (time-out, dropped connection, 5xx, *)
(* a body that is not JSON) is in limbo: the broker may have taken it, may *)
(* take it later or never.  Live orders are allowed, and every call has a  *)
(* correlation id: place_order makes one up when the caller gives none.    *)
(***************************************************************************)
EXTENDS Integers, FiniteSets

CONSTANTS
    Caller,         \* threads that call place_order
    Key,            \* correlation ids
    NoReply,        \* the value of reply before the first answer
    Free,           \* the owner of the lock when nobody holds it
    MaxAttempts,    \* RetryConfig.max_retries of the HTTP client
    MaxSize,        \* IdempotencyCache._max_size
    Ttl,            \* IdempotencyCache._ttl, in ticks
    MaxLapses       \* callers of the model drop an id after that many lapses

ASSUME DhanOrdersConfig ==
    /\ Free \notin Caller
    /\ MaxAttempts \in Nat \ {0}
    /\ MaxSize \in Nat \ {0}
    /\ Ttl \in Nat

VARIABLES
    lock,       \* the holder of IdempotencyCache._lock
    pc,         \* where each caller stands in place_order
    key,        \* the correlation id of its call
    attempt,    \* the attempt of its POST, counted from 1
    order,      \* the order the broker answered its POST with
    cached,     \* _cache: the order under each id, 0 where there is no entry
    age,        \* ticks since the entry was put, up to Ttl + 1
    book,       \* orders the broker has taken under each id
    limbo,      \* unanswered requests the broker may yet take
    lapses,     \* history: see OrderService
    events,     \* history: ORDER_PLACED events published under each id
    reply       \* history: the last answer given to a caller

call == <<lock, pc, key, attempt, order>>
cache == <<cached, age>>
broker == <<book, limbo>>
history == <<lapses, events, reply>>
vars == <<call, cache, broker, history>>

Location == {"idle", "prepare", "post", "put", "publish"}

Init ==
    /\ lock = Free
    /\ pc = [c \in Caller |-> "idle"]
    /\ key \in [Caller -> Key]
    /\ attempt = [c \in Caller |-> 1]
    /\ order = [c \in Caller |-> 0]
    /\ cached = [k \in Key |-> 0]
    /\ age = [k \in Key |-> 0]
    /\ book = [k \in Key |-> 0]
    /\ limbo = [k \in Key |-> 0]
    /\ lapses = [k \in Key |-> 0]
    /\ events = [k \in Key |-> 0]
    /\ reply = NoReply

Goto(c, l) == pc' = [pc EXCEPT ![c] = l]

\* place_order of c returns or raises: the with block gives the lock back.
Leave(c) ==
    /\ Goto(c, "idle")
    /\ lock' = Free
    /\ attempt' = [attempt EXCEPT ![c] = 1]
    /\ order' = [order EXCEPT ![c] = 0]
    /\ UNCHANGED key

\* One more lapse for every id in S.
LapseOf(S) == lapses' = [k \in Key |-> IF k \in S THEN lapses[k] + 1 ELSE lapses[k]]

Entries == {k \in Key : cached[k] # 0}

\* get(): an entry answers until it is older than the time to live.
Hit(k) == cached[k] # 0 /\ age[k] <= Ttl

-----------------------------------------------------------------------------
(* place_order *)

\* Mutation: a hit announces the order again.
ReplayPublishes(c, k) ==
    /\ pc[c] = "idle"
    /\ lock = Free
    /\ Hit(k)
    /\ reply' = <<k, cached[k]>>
    /\ events' = [events EXCEPT ![k] = IF @ <= book[k] THEN @ + 1 ELSE @]
    /\ UNCHANGED <<call, cache, broker, lapses>>

\* The id is in the cache: answer with the order placed earlier.
Replay(c, k) ==
    /\ pc[c] = "idle"
    /\ lock = Free
    /\ Hit(k)
    /\ reply' = <<k, cached[k]>>
    /\ UNCHANGED <<call, cache, broker, lapses, events>>

\* Mutation: look up first, lock later.
EnterUnlocked(c, k) ==
    /\ pc[c] = "idle"
    /\ lapses[k] < MaxLapses
    /\ ~Hit(k)
    /\ lock' = c
    /\ key' = [key EXCEPT ![c] = k]
    /\ Goto(c, "prepare")
    /\ cached' = [cached EXCEPT ![k] = 0]
    /\ LapseOf({k} \cap Entries)
    /\ UNCHANGED <<attempt, order, age, broker, events, reply>>

\* The id is not in the cache, or its entry has expired and get() deletes it:
\* go on, holding the lock.
Enter(c, k) ==
    /\ pc[c] = "idle"
    /\ lock = Free
    /\ lapses[k] < MaxLapses
    /\ ~Hit(k)
    /\ lock' = c
    /\ key' = [key EXCEPT ![c] = k]
    /\ Goto(c, "prepare")
    /\ cached' = [cached EXCEPT ![k] = 0]
    /\ LapseOf({k} \cap Entries)
    /\ UNCHANGED <<attempt, order, age, broker, events, reply>>

\* Validation, the resolver, the risk manager, the payload check, the open
\* circuit breaker or the local rate limit raises: nothing was sent.
Reject(c) ==
    /\ pc[c] = "prepare"
    /\ Leave(c)
    /\ UNCHANGED <<cache, broker, history>>

\* The first attempt of the POST leaves.
Send(c) ==
    /\ pc[c] = "prepare"
    /\ Goto(c, "post")
    /\ UNCHANGED <<lock, key, attempt, order, cache, broker, history>>

\* The broker takes the order and its answer arrives.
Answered(c) ==
    /\ pc[c] = "post"
    /\ book' = [book EXCEPT ![key[c]] = @ + 1]
    /\ order' = [order EXCEPT ![c] = book[key[c]] + 1]
    /\ Goto(c, "put")
    /\ UNCHANGED <<lock, key, attempt, cache, limbo, history>>

\* How an attempt that brings no order ends: refused by the broker (4xx, 429,
\* 401 with a token refresh, status "failure", a connection never made), or
\* without an answer that says so.
Refused(c) == UNCHANGED <<limbo, lapses>>

Unanswered(c) ==
    /\ limbo' = [limbo EXCEPT ![key[c]] = @ + 1]
    /\ LapseOf({key[c]})

\* The loop of _request posts the same payload again.
Retry(c) ==
    /\ pc[c] = "post"
    /\ attempt[c] < MaxAttempts
    /\ attempt' = [attempt EXCEPT ![c] = @ + 1]
    /\ Refused(c) \/ Unanswered(c)
    /\ UNCHANGED <<lock, pc, key, order, cache, book, events, reply>>

\* _request raises: the attempts are used up, or the error is not retried.
GiveUp(c) ==
    /\ pc[c] = "post"
    /\ Leave(c)
    /\ Refused(c) \/ Unanswered(c)
    /\ UNCHANGED <<cache, book, events, reply>>

\* put(): a full cache first drops its oldest entry.
Put(c) ==
    /\ pc[c] = "put"
    /\ \E S \in SUBSET Entries :
          /\ IF Cardinality(Entries) < MaxSize
             THEN S = {}
             ELSE \E oldest \in Entries :
                     /\ \A k \in Entries : age[k] <= age[oldest]
                     /\ S = {oldest}
          /\ cached' = [k \in Key |-> IF k = key[c] THEN order[c]
                                      ELSE IF k \in S THEN 0 ELSE cached[k]]
          /\ LapseOf(S)
    /\ age' = [age EXCEPT ![key[c]] = 0]
    /\ Goto(c, "publish")
    /\ UNCHANGED <<lock, key, attempt, order, broker, events, reply>>

\* _publish, silently when there is no event bus, and return the order ...
Publish(c) ==
    /\ pc[c] = "publish"
    /\ events' \in {events, [events EXCEPT ![key[c]] = @ + 1]}
    /\ reply' = <<key[c], order[c]>>
    /\ Leave(c)
    /\ UNCHANGED <<cache, broker, lapses>>

\* ... or the event bus raises, and the caller gets that instead.
PublishRaises(c) ==
    /\ pc[c] = "publish"
    /\ Leave(c)
    /\ UNCHANGED <<cache, broker, history>>

-----------------------------------------------------------------------------
(* The broker, the clock and the process *)

\* The broker takes a request whose sender has given up on it, or drops it.
TakeLate(k) ==
    /\ limbo[k] > 0
    /\ limbo' = [limbo EXCEPT ![k] = @ - 1]
    /\ book' \in {book, [book EXCEPT ![k] = @ + 1]}
    /\ UNCHANGED <<call, cache, history>>

Tick ==
    /\ age' = [k \in Key |-> IF cached[k] # 0 /\ age[k] <= Ttl THEN age[k] + 1 ELSE age[k]]
    /\ UNCHANGED <<call, cached, broker, history>>

OnTheWire(c, k) == pc[c] = "post" /\ key[c] = k

InHand(c, k) == pc[c] = "put" /\ key[c] = k

\* The process dies and comes back with an empty cache; a request on the wire
\* is in limbo.
Restart ==
    /\ lock' = Free
    /\ pc' = [c \in Caller |-> "idle"]
    /\ attempt' = [c \in Caller |-> 1]
    /\ order' = [c \in Caller |-> 0]
    /\ cached' = [k \in Key |-> 0]
    /\ limbo' = [k \in Key |-> IF \E c \in Caller : OnTheWire(c, k)
                               THEN limbo[k] + 1 ELSE limbo[k]]
    /\ LapseOf({k \in Key : \/ k \in Entries
                            \/ \E c \in Caller : InHand(c, k) \/ OnTheWire(c, k)})
    /\ UNCHANGED <<key, age, book, events, reply>>

PlaceOrder(c) ==
    \/ \E k \in Key : Replay(c, k) \/ Enter(c, k)
    \/ Reject(c)
    \/ Send(c)
    \/ Answered(c)
    \/ Retry(c)
    \/ GiveUp(c)
    \/ Put(c)
    \/ Publish(c)
    \/ PublishRaises(c)

Next ==
    \/ \E c \in Caller : PlaceOrder(c)
    \/ \E k \in Key : TakeLate(k)
    \/ Tick
    \/ Restart

Spec == Init /\ [][Next]_vars

-----------------------------------------------------------------------------
(* Properties *)

\* Every variable keeps its type; the caller that is busy holds the lock.
TypeOK ==
    /\ lock \in Caller \cup {Free}
    /\ pc \in [Caller -> Location]
    /\ \A c \in Caller : pc[c] # "idle" <=> lock = c
    /\ key \in [Caller -> Key]
    /\ attempt \in [Caller -> 1..MaxAttempts]
    /\ order \in [Caller -> Nat]
    /\ cached \in [Key -> Nat]
    /\ age \in [Key -> 0..(Ttl + 1)]
    /\ book \in [Key -> Nat]
    /\ limbo \in [Key -> Nat]
    /\ lapses \in [Key -> Nat]
    /\ events \in [Key -> Nat]
    /\ reply \in (Key \X Nat) \cup {NoReply}

\* The order place_order would answer with for k, or is about to cache.
Known(k) ==
    IF cached[k] # 0 THEN cached[k]
    ELSE IF lock # Free /\ InHand(lock, k) THEN order[lock] ELSE 0

KnownOrders == [k \in Key |-> Known(k)]

\* place_order keeps the promise of an order service, in spite of concurrent
\* calls, retries, late answers, expiry, eviction and restarts.
OS == INSTANCE OrderService WITH known <- KnownOrders
ImplementsOrderService == OS!Spec

\* Every order beyond the first under an id has a lapse of its own.
DuplicatesExcused == \A k \in Key : book[k] <= 1 + lapses[k]

\* No order is announced twice: ORDER_PLACED is published at most once for
\* each order that was taken, and never by a call answered from the cache
\* (place_order, _publish).
EventsMatchOrders == \A k \in Key : events[k] <= book[k]

=============================================================================
