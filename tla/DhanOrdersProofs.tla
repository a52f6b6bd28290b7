--------------------------- MODULE DhanOrdersProofs ---------------------------
(***************************************************************************)
(* Proofs about DhanOrders, for any number of callers, ids and attempts,   *)
(* any cache size and any time to live.                                    *)
(***************************************************************************)
EXTENDS DhanOrders, TLAPS

\* While a caller has no order yet, the lock it holds keeps its id out of the
\* cache; once it has put its order there, the lock keeps the entry in.
HolderAlone ==
    \A c \in Caller :
        /\ pc[c] \in {"prepare", "post", "put"} => cached[key[c]] = 0
        /\ pc[c] = "publish" => cached[key[c]] = order[c]
        /\ pc[c] \in {"put", "publish"} => order[c] # 0

\* Orders taken or in limbo never outnumber the lapses by more than the one
\* order that is remembered.
OrdersCounted ==
    \A k \in Key : book[k] + limbo[k] <= lapses[k] + (IF Known(k) = 0 THEN 0 ELSE 1)

\* The order in the hands of a caller has not been announced yet.
EventsBehind ==
    \A k \in Key :
        events[k] + (IF \E c \in Caller : key[c] = k /\ pc[c] \in {"put", "publish"}
                     THEN 1 ELSE 0) <= book[k]

IInv == TypeOK /\ HolderAlone /\ OrdersCounted /\ EventsBehind

\* Nobody is inside place_order while the lock is free, and nobody but the
\* holder while it is held.
LEMMA HolderOnly ==
    ASSUME TypeOK, NEW c \in Caller, NEW d \in Caller, pc[c] # "idle", pc[d] # "idle"
    PROVE  c = d
BY DEF TypeOK

\* The initial states satisfy the inductive invariant.
LEMMA InitIInv == Init => IInv
BY DhanOrdersConfig
   DEF Init, IInv, TypeOK, Location, HolderAlone, OrdersCounted, EventsBehind,
       Known, InHand

-----------------------------------------------------------------------------
(* Every action keeps the invariant, and is a step of OrderService. *)

\* An answer from the cache.
LEMMA ReplayStep ==
    ASSUME IInv, NEW c \in Caller, NEW k \in Key, Replay(c, k)
    PROVE  IInv' /\ OS!Answer(k)
<1> USE DEF Replay, call, cache, broker, Hit
<1>1. Known(k) = cached[k] /\ KnownOrders' = KnownOrders
  BY DEF Known, KnownOrders, InHand
<1>2. OS!Answer(k)
  BY <1>1 DEF OS!Answer, KnownOrders
<1>3. IInv'
  BY DEF IInv, TypeOK, HolderAlone, OrdersCounted, EventsBehind, Known, InHand
<1> QED BY <1>2, <1>3

\* A miss: if an expired entry is deleted, that is a lapse.
LEMMA EnterStep ==
    ASSUME IInv, NEW c \in Caller, NEW k \in Key, Enter(c, k)
    PROVE  IInv' /\ OS!Lapse({k} \cap Entries, {k} \cap Entries)
<1> USE DEF Enter, Goto, LapseOf, broker, Entries
<1>a. TypeOK /\ \A d \in Caller : pc[d] = "idle"
  BY DhanOrdersConfig DEF IInv, TypeOK
<1>b. \A j \in Key : Known(j) = cached[j] /\ Known(j)' = IF j = k THEN 0 ELSE cached[j]
  BY <1>a DEF Known, InHand, TypeOK
<1>1. TypeOK'
  BY <1>a DEF TypeOK, Location
<1>2. HolderAlone'
  BY <1>a DEF HolderAlone, TypeOK
<1>3. OrdersCounted'
  BY <1>a, <1>b DEF IInv, OrdersCounted, TypeOK
<1>4. EventsBehind'
  BY <1>a DEF IInv, EventsBehind, TypeOK
<1>5. OS!Lapse({k} \cap Entries, {k} \cap Entries)
  BY <1>a, <1>b DEF OS!Lapse, KnownOrders
<1> QED BY <1>1, <1>2, <1>3, <1>4, <1>5 DEF IInv

\* Steps of a caller that touch neither the cache nor the broker.
LEMMA RejectStep ==
    ASSUME IInv, NEW c \in Caller, Reject(c)
    PROVE  IInv' /\ UNCHANGED OS!vars
<1> USE DEF Reject, Leave, Goto, cache, broker, history
<1>a. TypeOK /\ lock = c /\ \A d \in Caller : d # c => pc[d] = "idle"
  BY DhanOrdersConfig DEF IInv, TypeOK
<1>b. \A j \in Key : Known(j)' = Known(j)
  BY <1>a DEF Known, InHand, TypeOK
<1>1. TypeOK'
  BY <1>a, DhanOrdersConfig DEF TypeOK, Location
<1>2. HolderAlone'
  BY <1>a DEF IInv, HolderAlone, TypeOK
<1>3. OrdersCounted'
  BY <1>a, <1>b DEF IInv, OrdersCounted, TypeOK
<1>4. EventsBehind'
  BY <1>a DEF IInv, EventsBehind, TypeOK
<1>5. UNCHANGED OS!vars
  BY <1>b DEF OS!vars, KnownOrders
<1> QED BY <1>1, <1>2, <1>3, <1>4, <1>5 DEF IInv

LEMMA SendStep ==
    ASSUME IInv, NEW c \in Caller, Send(c)
    PROVE  IInv' /\ UNCHANGED OS!vars
<1> USE DEF Send, Goto, cache, broker, history
<1>a. TypeOK /\ lock = c /\ \A d \in Caller : d # c => pc[d] = "idle"
  BY DhanOrdersConfig DEF IInv, TypeOK
<1>b. \A j \in Key : Known(j)' = Known(j)
  BY <1>a DEF Known, InHand, TypeOK
<1>1. TypeOK'
  BY <1>a DEF TypeOK, Location
<1>2. HolderAlone'
  BY <1>a DEF IInv, HolderAlone, TypeOK
<1>3. OrdersCounted'
  BY <1>a, <1>b DEF IInv, OrdersCounted, TypeOK
<1>4. EventsBehind'
  BY <1>a DEF IInv, EventsBehind, TypeOK
<1>5. UNCHANGED OS!vars
  BY <1>b DEF OS!vars, KnownOrders
<1> QED BY <1>1, <1>2, <1>3, <1>4, <1>5 DEF IInv

\* The broker's answer: the order becomes known the moment it arrives.
LEMMA AnsweredStep ==
    ASSUME IInv, NEW c \in Caller, Answered(c)
    PROVE  IInv' /\ OS!Take(key[c])
<1> USE DEF Answered, Goto, cache, history
<1> DEFINE k == key[c]
<1>a. /\ TypeOK /\ lock = c /\ lock # Free
      /\ \A d \in Caller : d # c => pc[d] = "idle"
      /\ k \in Key /\ cached[k] = 0
  BY DhanOrdersConfig DEF IInv, TypeOK, HolderAlone
<1>b. \A j \in Key : /\ Known(j) = cached[j]
                     /\ Known(j)' = IF j = k THEN book[k] + 1 ELSE Known(j)
  BY <1>a DEF Known, InHand, TypeOK
<1>1. TypeOK'
  BY <1>a DEF TypeOK, Location
<1>2. HolderAlone'
  BY <1>a DEF IInv, HolderAlone, TypeOK
<1>3. OrdersCounted'
  BY <1>a, <1>b DEF IInv, OrdersCounted, TypeOK
<1>4. EventsBehind'
  BY <1>a DEF IInv, EventsBehind, TypeOK
<1>5. OS!Take(k)
  BY <1>a, <1>b DEF OS!Take, KnownOrders, TypeOK
<1> QED BY <1>1, <1>2, <1>3, <1>4, <1>5 DEF IInv

\* An attempt without an order leaves what is known alone.
LEMMA FruitlessStep ==
    ASSUME IInv, NEW c \in Caller, Retry(c) \/ GiveUp(c)
    PROVE  IInv' /\ (UNCHANGED OS!vars \/ OS!Lapse({key[c]}, {}))
<1> USE DEF Leave, Goto, cache
<1>a. /\ TypeOK /\ lock = c /\ pc[c] = "post" /\ key[c] \in Key
      /\ \A d \in Caller : d # c => pc[d] = "idle"
  BY DhanOrdersConfig DEF IInv, TypeOK, Retry, GiveUp
<1>b. /\ UNCHANGED <<key, cached, age, book, events, reply>>
      /\ Refused(c) \/ Unanswered(c)
  BY DEF Retry, GiveUp
<1>c. \/ UNCHANGED <<lock, pc, order>>
      \/ /\ lock' = Free /\ pc' = [pc EXCEPT ![c] = "idle"]
         /\ order' = [order EXCEPT ![c] = 0]
  BY DEF Retry, GiveUp
<1>d. \A j \in Key : Known(j)' = Known(j)
  BY <1>a, <1>b, <1>c DEF Known, InHand, TypeOK
<1>e. limbo' \in [Key -> Nat] /\ lapses' \in [Key -> Nat]
  BY <1>a, <1>b DEF Refused, Unanswered, LapseOf, TypeOK
<1>f. attempt' \in [Caller -> 1..MaxAttempts]
  BY <1>a, DhanOrdersConfig DEF Retry, GiveUp, TypeOK
<1>1. TypeOK'
  BY <1>a, <1>b, <1>c, <1>e, <1>f, DhanOrdersConfig DEF TypeOK, Location
<1>2. HolderAlone'
  BY <1>a, <1>b, <1>c DEF IInv, HolderAlone, TypeOK
<1>3. OrdersCounted'
  BY <1>a, <1>b, <1>d DEF IInv, OrdersCounted, Refused, Unanswered, LapseOf, TypeOK
<1>4. EventsBehind'
  BY <1>a, <1>b, <1>c DEF IInv, EventsBehind, TypeOK
<1>5. UNCHANGED OS!vars \/ OS!Lapse({key[c]}, {})
  <2>1. CASE Refused(c)
    BY <2>1, <1>b, <1>d DEF Refused, OS!vars, KnownOrders
  <2>2. CASE Unanswered(c)
    BY <2>2, <1>b, <1>d DEF Unanswered, LapseOf, OS!Lapse, KnownOrders
  <2> QED BY <1>b, <2>1, <2>2
<1> QED BY <1>1, <1>2, <1>3, <1>4, <1>5 DEF IInv

\* Putting the order in the cache hands it over from the caller to the entry;
\* the entry dropped to make room is a lapse of another id.
LEMMA PutStep ==
    ASSUME IInv, NEW c \in Caller, Put(c)
    PROVE  IInv' /\ \E S \in SUBSET Key : OS!Lapse(S, S)
<1> USE DEF Put, Goto, broker
<1> DEFINE k == key[c]
<1>a. /\ TypeOK /\ lock = c /\ lock # Free
      /\ \A d \in Caller : d # c => pc[d] = "idle"
      /\ k \in Key /\ cached[k] = 0 /\ order[c] # 0 /\ order[c] \in Nat
  BY DhanOrdersConfig DEF IInv, TypeOK, HolderAlone
<1>b. PICK S \in SUBSET Entries :
        /\ cached' = [j \in Key |-> IF j = k THEN order[c]
                                   ELSE IF j \in S THEN 0 ELSE cached[j]]
        /\ LapseOf(S)
  OBVIOUS
<1>c. S \subseteq Key /\ k \notin S /\ \A j \in S : cached[j] # 0
  BY <1>a, <1>b DEF Entries
<1>d. \A j \in Key : /\ Known(j) = IF j = k THEN order[c] ELSE cached[j]
                     /\ Known(j)' = IF j \in S THEN 0 ELSE Known(j)
  BY <1>a, <1>b, <1>c DEF Known, InHand, TypeOK
<1>1. TypeOK'
  <2>1. cached' \in [Key -> Nat] /\ lapses' \in [Key -> Nat]
    BY <1>a, <1>b DEF TypeOK, LapseOf
  <2>2. age' \in [Key -> 0..(Ttl + 1)]
    BY <1>a, DhanOrdersConfig DEF TypeOK
  <2>3. pc' \in [Caller -> Location] /\ \A d \in Caller : pc'[d] # "idle" <=> lock' = d
    BY <1>a DEF TypeOK, Location
  <2> QED BY <1>a, <2>1, <2>2, <2>3 DEF TypeOK
<1>2. HolderAlone'
  BY <1>a, <1>b DEF IInv, HolderAlone, TypeOK
<1>3. OrdersCounted'
  BY <1>a, <1>b, <1>c, <1>d DEF IInv, OrdersCounted, TypeOK, LapseOf
<1>4. EventsBehind'
  BY <1>a DEF IInv, EventsBehind, TypeOK
<1>5. OS!Lapse(S, S)
  BY <1>a, <1>b, <1>c, <1>d DEF OS!Lapse, KnownOrders, LapseOf
<1> QED BY <1>1, <1>2, <1>3, <1>4, <1>5, <1>c DEF IInv

\* The caller is answered with the entry it has just put.
LEMMA PublishStep ==
    ASSUME IInv, NEW c \in Caller, Publish(c)
    PROVE  IInv' /\ OS!Answer(key[c])
<1> USE DEF Publish, Leave, Goto, cache, broker
<1>a. /\ TypeOK /\ lock = c /\ key[c] \in Key
      /\ cached[key[c]] = order[c] /\ order[c] # 0 /\ order[c] \in Nat
      /\ \A d \in Caller : d # c => pc[d] = "idle"
  BY DhanOrdersConfig DEF IInv, TypeOK, HolderAlone
<1>b. \A j \in Key : Known(j) = cached[j] /\ Known(j)' = cached[j]
  BY <1>a DEF Known, InHand, TypeOK
<1>1. TypeOK'
  BY <1>a, DhanOrdersConfig DEF TypeOK, Location
<1>2. HolderAlone'
  BY <1>a DEF IInv, HolderAlone, TypeOK
<1>3. OrdersCounted'
  BY <1>a, <1>b DEF IInv, OrdersCounted, TypeOK
<1>4. EventsBehind'
  BY <1>a DEF IInv, EventsBehind, TypeOK
<1>5. OS!Answer(key[c])
  BY <1>a, <1>b DEF OS!Answer, KnownOrders
<1> QED BY <1>1, <1>2, <1>3, <1>4, <1>5 DEF IInv

LEMMA PublishRaisesStep ==
    ASSUME IInv, NEW c \in Caller, PublishRaises(c)
    PROVE  IInv' /\ UNCHANGED OS!vars
<1> USE DEF PublishRaises, Leave, Goto, cache, broker, history
<1>a. /\ TypeOK /\ lock = c /\ \A d \in Caller : d # c => pc[d] = "idle"
  BY DhanOrdersConfig DEF IInv, TypeOK
<1>b. \A j \in Key : Known(j) = cached[j] /\ Known(j)' = cached[j]
  BY <1>a DEF Known, InHand, TypeOK
<1>1. TypeOK'
  BY <1>a, DhanOrdersConfig DEF TypeOK, Location
<1>2. HolderAlone'
  BY <1>a DEF IInv, HolderAlone, TypeOK
<1>3. OrdersCounted'
  BY <1>a, <1>b DEF IInv, OrdersCounted, TypeOK
<1>4. EventsBehind'
  BY <1>a DEF IInv, EventsBehind, TypeOK
<1>5. UNCHANGED OS!vars
  BY <1>b DEF OS!vars, KnownOrders
<1> QED BY <1>1, <1>2, <1>3, <1>4, <1>5 DEF IInv

\* A late order is paid for by the lapse its request left behind.
LEMMA TakeLateStep ==
    ASSUME IInv, NEW k \in Key, TakeLate(k)
    PROVE  IInv' /\ (UNCHANGED OS!vars \/ OS!TakeUnanswered(k))
<1> USE DEF TakeLate, call, cache, history
<1>a. TypeOK
  BY DEF IInv
<1>b. \A j \in Key : Known(j)' = Known(j)
  BY DEF Known, InHand
<1>c. book[k] + limbo[k] <= lapses[k] + (IF Known(k) = 0 THEN 0 ELSE 1)
  BY DEF IInv, OrdersCounted
<1>1. TypeOK'
  BY <1>a DEF TypeOK
<1>2. HolderAlone'
  BY DEF IInv, HolderAlone
<1>3. OrdersCounted'
  BY <1>a, <1>b DEF IInv, OrdersCounted, TypeOK
<1>4. EventsBehind'
  BY <1>a DEF IInv, EventsBehind, TypeOK
<1>5. CASE book' = book
  BY <1>5, <1>1, <1>2, <1>3, <1>4, <1>b DEF IInv, OS!vars, KnownOrders
<1>6. CASE book' = [book EXCEPT ![k] = @ + 1]
  <2>1. book[k] < lapses[k] + (IF KnownOrders[k] = 0 THEN 0 ELSE 1)
    BY <1>a, <1>c DEF TypeOK, KnownOrders
  <2>2. OS!TakeUnanswered(k)
    BY <2>1, <1>6, <1>b DEF OS!TakeUnanswered, KnownOrders
  <2> QED BY <2>2, <1>1, <1>2, <1>3, <1>4 DEF IInv
<1> QED BY <1>5, <1>6

\* Ageing changes no order.
LEMMA TickStep ==
    ASSUME IInv, Tick
    PROVE  IInv' /\ UNCHANGED OS!vars
<1> USE DEF Tick, call, broker, history
<1>1. \A j \in Key : Known(j)' = Known(j)
  BY DEF Known, InHand
<1>2. TypeOK'
  BY DhanOrdersConfig DEF IInv, TypeOK
<1>3. UNCHANGED OS!vars
  BY <1>1 DEF OS!vars, KnownOrders
<1> QED BY <1>1, <1>2, <1>3 DEF IInv, HolderAlone, OrdersCounted, EventsBehind

\* A restart forgets every order known and leaves the request on the wire in
\* limbo, one lapse for each.
LEMMA RestartStep ==
    ASSUME IInv, Restart
    PROVE  IInv' /\ \E S, F \in SUBSET Key : OS!Lapse(S, F)
<1> USE DEF Restart, LapseOf
<1> DEFINE S == {k \in Key : \/ k \in Entries
                            \/ \E c \in Caller : InHand(c, k) \/ OnTheWire(c, k)}
           F == {k \in Key : Known(k) # 0}
<1>a. TypeOK /\ OrdersCounted /\ HolderAlone
  BY DEF IInv
<1>b. \A k \in Key : Known(k)' = 0
  BY DEF Known
<1>c. \A k \in Key : Known(k) # 0 => k \in S
  BY <1>a DEF Known, Entries, TypeOK
<1>d. \A k \in Key : (\E c \in Caller : OnTheWire(c, k)) => k \in S /\ Known(k) = 0
  BY <1>a, HolderOnly DEF Known, OnTheWire, InHand, TypeOK, HolderAlone
<1>1. TypeOK'
  BY <1>a, DhanOrdersConfig DEF TypeOK, Location
<1>2. HolderAlone'
  BY DEF HolderAlone
<1>3. OrdersCounted'
  <2> SUFFICES ASSUME NEW k \in Key
               PROVE  (book[k] + limbo[k] <= lapses[k] + (IF Known(k) = 0 THEN 0 ELSE 1))'
    BY DEF OrdersCounted
  <2>1. book[k] + limbo[k] <= lapses[k] + (IF Known(k) = 0 THEN 0 ELSE 1)
    BY <1>a DEF OrdersCounted
  <2>2. lapses'[k] = IF k \in S THEN lapses[k] + 1 ELSE lapses[k]
    OBVIOUS
  <2>3. limbo'[k] = IF \E c \in Caller : OnTheWire(c, k) THEN limbo[k] + 1 ELSE limbo[k]
    OBVIOUS
  <2> HIDE DEF S
  <2> QED BY <2>1, <2>2, <2>3, <1>a, <1>b, <1>c, <1>d DEF TypeOK
<1>4. EventsBehind'
  BY DEF IInv, EventsBehind, TypeOK
<1>5. OS!Lapse(S, F)
  <2>1. F \subseteq S /\ \A k \in F : KnownOrders[k] # 0
    BY <1>c DEF KnownOrders
  <2>2. KnownOrders' = [k \in Key |-> IF k \in F THEN 0 ELSE KnownOrders[k]]
    BY <1>b DEF KnownOrders
  <2> QED BY <2>1, <2>2 DEF OS!Lapse
<1> QED BY <1>1, <1>2, <1>3, <1>4, <1>5 DEF IInv

-----------------------------------------------------------------------------

\* Every step keeps the invariant and is a step of OrderService or a stutter.
LEMMA Step == IInv /\ [Next]_vars => IInv' /\ [OS!Next]_OS!vars
<1> SUFFICES ASSUME IInv, [Next]_vars
             PROVE  IInv' /\ [OS!Next]_OS!vars
  OBVIOUS
<1>t. \A c \in Caller : key[c] \in Key
  BY DEF IInv, TypeOK
<1>1. ASSUME NEW c \in Caller, NEW k \in Key, Replay(c, k)  PROVE IInv' /\ OS!Next
  BY <1>1, ReplayStep DEF OS!Next
<1>2. ASSUME NEW c \in Caller, NEW k \in Key, Enter(c, k)  PROVE IInv' /\ OS!Next
  BY <1>2, EnterStep DEF OS!Next, Entries
<1>3. ASSUME NEW c \in Caller, Answered(c)  PROVE IInv' /\ OS!Next
  BY <1>3, <1>t, AnsweredStep DEF OS!Next
<1>4. ASSUME NEW c \in Caller, Retry(c) \/ GiveUp(c)  PROVE IInv' /\ [OS!Next]_OS!vars
  BY <1>4, <1>t, FruitlessStep DEF OS!Next
<1>5. ASSUME NEW c \in Caller, Put(c)  PROVE IInv' /\ OS!Next
  BY <1>5, PutStep DEF OS!Next
<1>6. ASSUME NEW c \in Caller, Publish(c)  PROVE IInv' /\ OS!Next
  BY <1>6, <1>t, PublishStep DEF OS!Next
<1>7. ASSUME NEW k \in Key, TakeLate(k)  PROVE IInv' /\ [OS!Next]_OS!vars
  BY <1>7, TakeLateStep DEF OS!Next
<1>8. CASE Restart
  BY <1>8, RestartStep DEF OS!Next
<1>9. CASE Tick
  BY <1>9, TickStep
<1>10. ASSUME NEW c \in Caller, Reject(c) \/ Send(c) \/ PublishRaises(c)
       PROVE  IInv' /\ UNCHANGED OS!vars
  BY <1>10, RejectStep, SendStep, PublishRaisesStep
<1>11. CASE UNCHANGED vars
  BY <1>11 DEF vars, call, cache, broker, history, IInv, TypeOK, HolderAlone,
     OrdersCounted, EventsBehind, Known, InHand, KnownOrders, OS!vars
<1> QED
  BY <1>1, <1>2, <1>3, <1>4, <1>5, <1>6, <1>7, <1>8, <1>9, <1>10, <1>11
     DEF Next, PlaceOrder

\* The invariant holds in every reachable state.
THEOREM AlwaysIInv == Spec => []IInv
<1>1. IInv /\ [Next]_vars => IInv'
  BY Step
<1> QED BY InitIInv, <1>1, PTL DEF Spec

\* Type correctness, mutual exclusion of busy callers included.
THEOREM Typing == Spec => []TypeOK
<1>1. IInv => TypeOK
  BY DEF IInv
<1> QED BY AlwaysIInv, <1>1, PTL

\* Every order beyond the first under an id is accounted for by a reply that
\* was lost or an order that was forgotten.
THEOREM EveryDuplicateExcused == Spec => []DuplicatesExcused
<1>1. IInv => DuplicatesExcused
  BY DEF IInv, TypeOK, OrdersCounted, DuplicatesExcused
<1> QED BY AlwaysIInv, <1>1, PTL

\* No order is announced twice.
THEOREM AnnouncedOnce == Spec => []EventsMatchOrders
<1>1. IInv => EventsMatchOrders
  BY DEF IInv, TypeOK, EventsBehind, EventsMatchOrders
<1> QED BY AlwaysIInv, <1>1, PTL

\* place_order implements an order service.
THEOREM Implementation == Spec => ImplementsOrderService
<1>1. Init => OS!Init
  BY DhanOrdersConfig DEF Init, OS!Init, KnownOrders, Known, InHand
<1>2. IInv /\ [Next]_vars => [OS!Next]_OS!vars
  BY Step
<1> QED BY AlwaysIInv, <1>1, <1>2, PTL DEF Spec, OS!Spec, ImplementsOrderService

=============================================================================
