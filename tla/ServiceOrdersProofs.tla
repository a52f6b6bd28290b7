------------------------- MODULE ServiceOrdersProofs -------------------------
(***************************************************************************)
(* Proofs about the components of MCServices that place, remember and      *)
(* report orders, laid out as in ServicesProofs.                           *)
(***************************************************************************)
EXTENDS MCServices, Sequences, FiniteSetTheorems, TLAPS

(***************************************************************************)
(* Upstox order placement: what the cache, the calls under way and the     *)
(* wire may still turn into orders.                                        *)
(***************************************************************************)
\* Whatever runs, Orders goes through its own specification.
THEOREM OrdersImplemented == Spec => Orders!Spec
<1>1. Init => Orders!Init
  BY DEF Init
<1>2. [Next]_vars => [Orders!Next]_(Orders!vars)
  <2> SUFFICES ASSUME [Next]_vars PROVE [Orders!Next]_(Orders!vars)
    OBVIOUS
  <2>1. CASE Orders!Next
    BY <2>1
  <2>2. CASE UNCHANGED ordersVars
    BY <2>2 DEF ordersVars, Orders!vars, Orders!call, Orders!broker, Orders!history
  <2> QED BY <2>1, <2>2 DEF Next, vars, Rest, Runs
<1> QED BY <1>1, <1>2, PTL DEF Spec, Orders!Spec

\* The instance counts as FiniteSets does.
LEMMA OrdersCardinality == \A S : Orders!Cardinality(S) = Cardinality(S)
BY DEF Orders!Cardinality, Cardinality

\* Calls that have not been answered.
Asking(k) == Cardinality(Orders!At(k, {"prepare", "post"}))

\* Calls that have an order to announce.
Announcing(k) == Cardinality(Orders!At(k, {"publish"}))

\* An order that was answered has a number.
OrdersNumbered == \A c \in Caller : pc[c] \in {"publish", "put"} => order[c] # 0

\* Orders, requests in limbo and calls that may yet place one: each but the
\* first under an id has a lapse or an overlap. The first needs none while it
\* is cached or its call is under way.
OrdersCounted ==
  \A k \in Key :
    book[k] + limbo[k] + Asking(k) <=
      lapses[k] + overlaps[k] + (IF cached[k] # 0 \/ Orders!At(k, Orders!UnderWay) # {} THEN 1 ELSE 0)

\* Each order is announced once at most, after it was taken.
EventsBehind == \A k \in Key : events[k] + Announcing(k) <= book[k]

\* The inductive invariant of Upstox order placement.
OrdersInv == Orders!TypeOK /\ OrdersNumbered /\ OrdersCounted /\ EventsBehind

\* The calls at some places are a finite set.
LEMMA AtFinite ==
  ASSUME NEW k \in Key, NEW S
  PROVE  IsFiniteSet(Orders!At(k, S)) /\ Cardinality(Orders!At(k, S)) \in Nat
<1>1. Orders!At(k, S) \subseteq Caller
  BY DEF Orders!At
<1> QED BY <1>1, OrdersAssumption, FS_Subset, FS_CardinalityType

\* A caller moves: the sets of calls at some places gain or lose it.
LEMMA AtMoves ==
  ASSUME NEW c \in Caller, NEW k \in Key, NEW S,
         \A d \in Caller \ {c} : pc'[d] = pc[d] /\ key'[d] = key[d]
  PROVE  Cardinality(Orders!At(k, S)') =
              Cardinality(Orders!At(k, S)) - (IF key[c] = k /\ pc[c] \in S THEN 1 ELSE 0)
                                    + (IF key'[c] = k /\ pc'[c] \in S THEN 1 ELSE 0)
<1>2. Orders!At(k, S)' = (Orders!At(k, S) \ {c}) \cup (IF key'[c] = k /\ pc'[c] \in S THEN {c} ELSE {})
  BY DEF Orders!At
<1>3. c \in Orders!At(k, S) <=> key[c] = k /\ pc[c] \in S
  BY DEF Orders!At
<1>4. IsFiniteSet(Orders!At(k, S)) /\ Cardinality(Orders!At(k, S)) \in Nat
  BY AtFinite
<1>5. /\ IsFiniteSet(Orders!At(k, S) \ {c})
      /\ Cardinality(Orders!At(k, S) \ {c}) = IF c \in Orders!At(k, S) THEN Cardinality(Orders!At(k, S)) - 1 ELSE Cardinality(Orders!At(k, S))
  BY <1>4, FS_RemoveElement
<1>6. Cardinality((Orders!At(k, S) \ {c}) \cup {c}) = Cardinality(Orders!At(k, S) \ {c}) + 1
  BY <1>5, FS_AddElement
<1>7. CASE key'[c] = k /\ pc'[c] \in S
  BY <1>2, <1>3, <1>4, <1>5, <1>6, <1>7
<1>8. CASE ~(key'[c] = k /\ pc'[c] \in S)
  <2>1. Orders!At(k, S)' = Orders!At(k, S) \ {c}
    BY <1>2, <1>8
  <2>2. Cardinality(Orders!At(k, S)') = Cardinality(Orders!At(k, S) \ {c})
    BY <2>1
  <2> QED BY <1>3, <1>4, <1>5, <1>8, <2>2
<1> QED BY <1>7, <1>8

\* What a move changes in the counts of an id.
LEMMA MovesCount ==
  ASSUME NEW c \in Caller, NEW k \in Key,
         \A d \in Caller \ {c} : pc'[d] = pc[d] /\ key'[d] = key[d]
  PROVE  /\ Asking(k) \in Nat /\ Announcing(k) \in Nat
         /\ Asking(k)' = Asking(k) - (IF key[c] = k /\ pc[c] \in {"prepare", "post"} THEN 1 ELSE 0)
                                   + (IF key'[c] = k /\ pc'[c] \in {"prepare", "post"} THEN 1 ELSE 0)
         /\ Announcing(k)' = Announcing(k) - (IF key[c] = k /\ pc[c] = "publish" THEN 1 ELSE 0)
                                           + (IF key'[c] = k /\ pc'[c] = "publish" THEN 1 ELSE 0)
         /\ key[c] # k /\ key'[c] # k => Orders!At(k, Orders!UnderWay)' = Orders!At(k, Orders!UnderWay)
         /\ key'[c] = k /\ pc'[c] \in Orders!UnderWay => Orders!At(k, Orders!UnderWay)' # {}
         /\ key[c] = k /\ pc[c] \in Orders!UnderWay => Orders!At(k, Orders!UnderWay) # {}
<1>1. Asking(k) \in Nat /\ Announcing(k) \in Nat
  BY AtFinite DEF Asking, Announcing
<1>2. Asking(k)' = Asking(k) - (IF key[c] = k /\ pc[c] \in {"prepare", "post"} THEN 1 ELSE 0)
                             + (IF key'[c] = k /\ pc'[c] \in {"prepare", "post"} THEN 1 ELSE 0)
  BY AtMoves DEF Asking
<1>3. Announcing(k)' = Announcing(k) - (IF key[c] = k /\ pc[c] \in {"publish"} THEN 1 ELSE 0)
                                     + (IF key'[c] = k /\ pc'[c] \in {"publish"} THEN 1 ELSE 0)
  BY AtMoves DEF Announcing
<1>4. /\ key[c] # k /\ key'[c] # k => Orders!At(k, Orders!UnderWay)' = Orders!At(k, Orders!UnderWay)
      /\ key'[c] = k /\ pc'[c] \in Orders!UnderWay => Orders!At(k, Orders!UnderWay)' # {}
  BY DEF Orders!At
<1>5. key[c] = k /\ pc[c] \in Orders!UnderWay => Orders!At(k, Orders!UnderWay) # {}
  BY DEF Orders!At
<1> QED BY <1>1, <1>2, <1>3, <1>4, <1>5

\* No move: the counts stay.
LEMMA NoMove ==
  ASSUME NEW k \in Key, UNCHANGED <<pc, key>>
  PROVE  /\ Asking(k)' = Asking(k) /\ Announcing(k)' = Announcing(k)
         /\ Orders!At(k, Orders!UnderWay)' = Orders!At(k, Orders!UnderWay)
BY DEF Asking, Announcing, Orders!At

\* The numbers of the invariant are numbers.
LEMMA Counts ==
  ASSUME Orders!TypeOK
  PROVE  \A k \in Key : /\ book[k] \in Nat /\ limbo[k] \in Nat /\ lapses[k] \in Nat /\ overlaps[k] \in Nat
                        /\ events[k] \in Nat /\ cached[k] \in Nat
                        /\ Asking(k) \in Nat /\ Announcing(k) \in Nat
BY AtFinite DEF Orders!TypeOK, Asking, Announcing

\* An id that is cached.
LEMMA ReplayStep ==
  ASSUME OrdersInv, NEW c \in Caller, NEW k \in Key, Orders!Replay(c, k)
  PROVE  OrdersInv'
<1>1. /\ reply' = <<k, cached[k]>>
      /\ UNCHANGED <<pc, key, attempt, order, cached, book, limbo, lapses, overlaps, events>>
  BY DEF Orders!Replay, Orders!call, Orders!broker
<1>2. Orders!TypeOK'
  BY <1>1 DEF OrdersInv, Orders!TypeOK
<1> QED BY <1>1, <1>2, NoMove DEF OrdersInv, OrdersNumbered, OrdersCounted, EventsBehind

\* A call goes on with an id that is not cached.
LEMMA OrdersEnterStep ==
  ASSUME OrdersInv, NEW c \in Caller, NEW k \in Key, Orders!Enter(c, k)
  PROVE  OrdersInv'
<1>1. /\ pc[c] = "idle" /\ cached[k] = 0 /\ pc' = [pc EXCEPT ![c] = "prepare"]
      /\ key' = [key EXCEPT ![c] = k]
      /\ overlaps' = [overlaps EXCEPT ![k] = IF Orders!At(k, Orders!UnderWay) = {} THEN overlaps[k] ELSE overlaps[k] + 1]
      /\ UNCHANGED <<attempt, order, cached, book, limbo, lapses, events, reply>>
  BY DEF Orders!Enter, Orders!Goto, Orders!broker
<1>2. Orders!TypeOK'
  BY <1>1 DEF OrdersInv, Orders!TypeOK, Orders!Location, Orders!UnderWay
<1>3. \A d \in Caller \ {c} : key'[d] = key[d] /\ pc'[d] = pc[d]
  BY <1>1 DEF OrdersInv, Orders!TypeOK
<1>4. key'[c] = k /\ pc'[c] = "prepare" /\ key' \in [Caller -> Key] /\ "prepare" \in Orders!Location
  BY <1>1, <1>2 DEF OrdersInv, Orders!TypeOK, Orders!Location, Orders!UnderWay
<1>5. OrdersNumbered'
  BY <1>1, <1>3, <1>4 DEF OrdersInv, OrdersNumbered
<1>6. ASSUME NEW j \in Key
      PROVE  /\ Asking(j)' = Asking(j) + (IF j = k THEN 1 ELSE 0)
             /\ Announcing(j)' = Announcing(j)
             /\ j # k => (Orders!At(j, Orders!UnderWay) # {} => Orders!At(j, Orders!UnderWay)' # {})
             /\ Orders!At(k, Orders!UnderWay)' # {}
  <2>1. /\ Asking(j) \in Nat /\ Announcing(j) \in Nat
        /\ Asking(j)' = Asking(j) - 0 + (IF k = j THEN 1 ELSE 0)
        /\ Announcing(j)' = Announcing(j) - 0 + 0
    BY <1>1, <1>3, <1>4, MovesCount DEF OrdersInv
  <2>2. j # k => (Orders!At(j, Orders!UnderWay) # {} => Orders!At(j, Orders!UnderWay)' # {})
    BY <1>1, <1>3 DEF Orders!At, Orders!UnderWay
  <2>3. Orders!At(k, Orders!UnderWay)' # {}
    BY <1>4 DEF Orders!At, Orders!UnderWay
  <2> QED BY <2>1, <2>2, <2>3
<1>7. \A j \in Key : overlaps'[j] = IF j = k THEN IF Orders!At(k, Orders!UnderWay) = {} THEN overlaps[k] ELSE overlaps[k] + 1
                                    ELSE overlaps[j]
  BY <1>1 DEF OrdersInv, Orders!TypeOK
<1>8. OrdersCounted'
  BY <1>1, <1>6, <1>7, Counts DEF OrdersInv, OrdersCounted
<1>9. EventsBehind'
  BY <1>1, <1>6, Counts DEF OrdersInv, EventsBehind
<1> QED BY <1>2, <1>5, <1>8, <1>9 DEF OrdersInv

\* Steps of a call: from one place to another, with what it has of its id.
OrdersCallMoves(c, l) ==
  /\ l \in Orders!Location /\ pc[c] \in Orders!UnderWay
  /\ pc' = [pc EXCEPT ![c] = l] /\ key' = key /\ overlaps' = overlaps
  /\ attempt' \in [Caller -> {1, 2}] /\ order' \in [Caller -> Nat]
  /\ cached' \in [Key -> Nat] /\ book' \in [Key -> Nat] /\ limbo' \in [Key -> Nat]
  /\ lapses' \in [Key -> Nat] /\ events' \in [Key -> Nat]
  /\ reply' \in (Key \X Nat) \cup {NoReply}
  /\ \A d \in Caller \ {c} : order'[d] = order[d]
  /\ l \in {"publish", "put"} => order'[c] # 0
  /\ \A k \in Key \ {key[c]} :
       /\ book'[k] = book[k] /\ limbo'[k] = limbo[k] /\ lapses'[k] = lapses[k]
       /\ events'[k] = events[k] /\ cached'[k] = cached[k]
  /\ cached[key[c]] # 0 => cached'[key[c]] # 0
  /\ book'[key[c]] + limbo'[key[c]] + lapses[key[c]]
        + (IF l \in {"prepare", "post"} THEN 1 ELSE 0)
        + (IF l \in Orders!UnderWay \/ cached'[key[c]] # 0 THEN 0 ELSE 1) <=
     book[key[c]] + limbo[key[c]] + lapses'[key[c]]
        + (IF pc[c] \in {"prepare", "post"} THEN 1 ELSE 0)
  /\ events'[key[c]] + book[key[c]] + (IF l = "publish" THEN 1 ELSE 0) <=
     events[key[c]] + book'[key[c]] + (IF pc[c] = "publish" THEN 1 ELSE 0)

\* Such a step keeps the invariant.
LEMMA CallStep ==
  ASSUME OrdersInv, NEW c \in Caller, NEW l, OrdersCallMoves(c, l)
  PROVE  OrdersInv'
<1> DEFINE i == key[c]
<1>1. Orders!TypeOK' /\ i \in Key /\ key' \in [Caller -> Key] /\ key'[c] = i
  BY DEF OrdersCallMoves, OrdersInv, Orders!TypeOK
<1>2. \A d \in Caller : pc'[d] = IF d = c THEN l ELSE pc[d]
  BY DEF OrdersCallMoves, OrdersInv, Orders!TypeOK
<1>3. OrdersNumbered'
  BY <1>2 DEF OrdersCallMoves, OrdersInv, OrdersNumbered
<1>4. \A k \in Key :
         /\ Asking(k) \in Nat /\ Announcing(k) \in Nat
         /\ Asking(k)' = Asking(k) - (IF i = k /\ pc[c] \in {"prepare", "post"} THEN 1 ELSE 0)
                                   + (IF i = k /\ l \in {"prepare", "post"} THEN 1 ELSE 0)
         /\ Announcing(k)' = Announcing(k) - (IF i = k /\ pc[c] = "publish" THEN 1 ELSE 0)
                                           + (IF i = k /\ l = "publish" THEN 1 ELSE 0)
         /\ i # k => Orders!At(k, Orders!UnderWay)' = Orders!At(k, Orders!UnderWay)
         /\ i = k /\ l \in Orders!UnderWay => Orders!At(k, Orders!UnderWay)' # {}
  <2> SUFFICES ASSUME NEW k \in Key
               PROVE /\ Asking(k) \in Nat /\ Announcing(k) \in Nat
                     /\ Asking(k)' = Asking(k) - (IF key[c] = k /\ pc[c] \in {"prepare", "post"} THEN 1 ELSE 0)
                                               + (IF key'[c] = k /\ pc'[c] \in {"prepare", "post"} THEN 1 ELSE 0)
                     /\ Announcing(k)' = Announcing(k) - (IF key[c] = k /\ pc[c] = "publish" THEN 1 ELSE 0)
                                                       + (IF key'[c] = k /\ pc'[c] = "publish" THEN 1 ELSE 0)
                     /\ key[c] # k /\ key'[c] # k => Orders!At(k, Orders!UnderWay)' = Orders!At(k, Orders!UnderWay)
                     /\ key'[c] = k /\ pc'[c] \in Orders!UnderWay => Orders!At(k, Orders!UnderWay)' # {}
    BY <1>1, <1>2
  <2>1. \A d \in Caller \ {c} : pc'[d] = pc[d] /\ key'[d] = key[d]
    BY <1>2 DEF OrdersCallMoves
  <2> QED BY <2>1, MovesCount
<1>5. \A k \in Key : /\ book[k] \in Nat /\ limbo[k] \in Nat /\ lapses[k] \in Nat /\ overlaps[k] \in Nat
                     /\ events[k] \in Nat /\ cached[k] \in Nat
                     /\ book'[k] \in Nat /\ limbo'[k] \in Nat /\ lapses'[k] \in Nat
                     /\ events'[k] \in Nat /\ cached'[k] \in Nat
  BY DEF OrdersCallMoves, OrdersInv, Orders!TypeOK
<1>6. ASSUME NEW k \in Key
      PROVE  book'[k] + limbo'[k] + Asking(k)' <=
               lapses'[k] + overlaps'[k] + (IF cached'[k] # 0 \/ Orders!At(k, Orders!UnderWay)' # {} THEN 1 ELSE 0)
  <2>0. book[k] + limbo[k] + Asking(k) <=
             lapses[k] + overlaps[k] + (IF cached[k] # 0 \/ Orders!At(k, Orders!UnderWay) # {} THEN 1 ELSE 0)
    BY DEF OrdersInv, OrdersCounted
  <2>1. CASE k # i
    BY <1>4, <2>0, <2>1 DEF OrdersCallMoves
  <2>2. CASE k = i
    <3>1. CASE l \in Orders!UnderWay \/ cached'[i] # 0
      BY <1>1, <1>4, <1>5, <2>0, <2>2, <3>1 DEF OrdersCallMoves
    <3>2. CASE ~(l \in Orders!UnderWay \/ cached'[i] # 0)
      BY <1>1, <1>4, <1>5, <2>0, <2>2, <3>2 DEF OrdersCallMoves
    <3> QED BY <3>1, <3>2
  <2> QED BY <2>1, <2>2
<1>7. ASSUME NEW k \in Key PROVE events'[k] + Announcing(k)' <= book'[k]
  <2>0. events[k] + Announcing(k) <= book[k]
    BY DEF OrdersInv, EventsBehind
  <2>1. CASE k # i
    BY <1>4, <2>0, <2>1 DEF OrdersCallMoves
  <2>2. CASE k = i
    BY <1>1, <1>4, <1>5, <2>0, <2>2 DEF OrdersCallMoves
  <2> QED BY <2>1, <2>2
<1>8. OrdersCounted' /\ EventsBehind'
  BY <1>6, <1>7 DEF OrdersCounted, EventsBehind
<1> QED BY <1>1, <1>3, <1>8 DEF OrdersInv

\* The call is refused before, or sends, its request.
LEMMA PrepareStep ==
  ASSUME OrdersInv, NEW c \in Caller, Orders!Reject(c) \/ Orders!Send(c)
  PROVE  OrdersInv'
<1>0. key[c] \in Key
  BY DEF OrdersInv, Orders!TypeOK
<1>1. CASE Orders!Reject(c)
  <2>1. /\ pc[c] = "prepare" /\ pc' = [pc EXCEPT ![c] = "idle"]
        /\ order' = [order EXCEPT ![c] = 0] /\ attempt' = [attempt EXCEPT ![c] = 1]
        /\ UNCHANGED <<key, cached, book, limbo, lapses, overlaps, events, reply>>
    BY <1>1 DEF Orders!Reject, Orders!Leave, Orders!Goto, Orders!broker, Orders!history
  <2>2. OrdersCallMoves(c, "idle")
    BY <1>0, <2>1
    DEF OrdersCallMoves, OrdersInv, Orders!TypeOK, Orders!Location, Orders!UnderWay
  <2> QED BY <2>2, CallStep
<1>2. CASE Orders!Send(c)
  <2>1. OrdersCallMoves(c, "post")
    BY <1>0, <1>2 DEF Orders!Send, Orders!Goto, OrdersCallMoves, OrdersInv, Orders!TypeOK,
       Orders!Location, Orders!UnderWay, Orders!broker, Orders!history
  <2> QED BY <2>1, CallStep
<1> QED BY <1>1, <1>2

\* The request is repeated with a new token.
LEMMA ResendStep ==
  ASSUME OrdersInv, NEW c \in Caller, Orders!Resend(c)
  PROVE  OrdersInv'
<1>1. /\ attempt' = [attempt EXCEPT ![c] = 2]
      /\ UNCHANGED <<pc, key, order, cached, book, limbo, lapses, overlaps, events, reply>>
  BY DEF Orders!Resend, Orders!broker, Orders!history
<1>2. Orders!TypeOK'
  BY <1>1 DEF OrdersInv, Orders!TypeOK
<1> QED BY <1>1, <1>2, NoMove DEF OrdersInv, OrdersNumbered, OrdersCounted, EventsBehind

\* The broker's answer, or none.
LEMMA PostStep ==
  ASSUME OrdersInv, NEW c \in Caller, Orders!Answered(c) \/ Orders!Fail(c)
  PROVE  OrdersInv'
<1>0. key[c] \in Key
  BY DEF OrdersInv, Orders!TypeOK
<1>1. CASE Orders!Answered(c)
  <2>1. /\ pc[c] = "post" /\ pc' = [pc EXCEPT ![c] = "publish"]
        /\ book' = [book EXCEPT ![key[c]] = book[key[c]] + 1]
        /\ order' = [order EXCEPT ![c] = book[key[c]] + 1]
        /\ UNCHANGED <<key, attempt, cached, limbo, lapses, overlaps, events, reply>>
    BY <1>1 DEF Orders!Answered, Orders!Goto, Orders!history
  <2>2. /\ order' \in [Caller -> Nat] /\ book' \in [Key -> Nat] /\ order'[c] # 0
        /\ book'[key[c]] = book[key[c]] + 1
        /\ \A d \in Caller \ {c} : order'[d] = order[d]
        /\ \A k \in Key \ {key[c]} : book'[k] = book[k]
    BY <1>0, <2>1 DEF OrdersInv, Orders!TypeOK
  <2>3. /\ limbo[key[c]] \in Nat /\ lapses[key[c]] \in Nat /\ events[key[c]] \in Nat
        /\ book[key[c]] \in Nat
    BY <1>0 DEF OrdersInv, Orders!TypeOK
  <2>9. OrdersCallMoves(c, "publish")
    BY <2>1, <2>2, <2>3
    DEF OrdersCallMoves, OrdersInv, Orders!TypeOK, Orders!Location, Orders!UnderWay
  <2> QED BY <2>9, CallStep
<1>2. CASE Orders!Fail(c)
  <2>1. /\ pc[c] = "post" /\ pc' = [pc EXCEPT ![c] = "idle"]
        /\ order' = [order EXCEPT ![c] = 0] /\ attempt' = [attempt EXCEPT ![c] = 1]
        /\ UNCHANGED <<key, cached, book, overlaps, events, reply>>
    BY <1>2 DEF Orders!Fail, Orders!Leave, Orders!Goto
  <2>2. \/ UNCHANGED <<limbo, lapses>>
        \/ /\ limbo' = [limbo EXCEPT ![key[c]] = limbo[key[c]] + 1]
           /\ lapses' = [k \in Key |-> IF k = key[c] THEN lapses[k] + 1 ELSE lapses[k]]
    BY <1>2 DEF Orders!Fail, Orders!LapseOf
  <2>3. /\ limbo' \in [Key -> Nat] /\ lapses' \in [Key -> Nat]
        /\ \A k \in Key \ {key[c]} : limbo'[k] = limbo[k] /\ lapses'[k] = lapses[k]
        /\ \/ limbo'[key[c]] = limbo[key[c]] /\ lapses'[key[c]] = lapses[key[c]]
           \/ limbo'[key[c]] = limbo[key[c]] + 1 /\ lapses'[key[c]] = lapses[key[c]] + 1
    BY <1>0, <2>2 DEF OrdersInv, Orders!TypeOK
  <2>4. /\ limbo[key[c]] \in Nat /\ lapses[key[c]] \in Nat /\ events[key[c]] \in Nat
        /\ book[key[c]] \in Nat
    BY <1>0 DEF OrdersInv, Orders!TypeOK
  <2>9. OrdersCallMoves(c, "idle")
    BY <2>1, <2>3, <2>4
    DEF OrdersCallMoves, OrdersInv, Orders!TypeOK, Orders!Location, Orders!UnderWay
  <2> QED BY <2>9, CallStep
<1> QED BY <1>1, <1>2

\* The order is announced, or the bus raises.
LEMMA PublishStep ==
  ASSUME OrdersInv, NEW c \in Caller, Orders!Publish(c) \/ Orders!PublishRaises(c)
  PROVE  OrdersInv'
<1>0. key[c] \in Key
  BY DEF OrdersInv, Orders!TypeOK
<1>3. /\ limbo[key[c]] \in Nat /\ lapses[key[c]] \in Nat /\ events[key[c]] \in Nat
      /\ book[key[c]] \in Nat
  BY <1>0 DEF OrdersInv, Orders!TypeOK
<1>1. CASE Orders!Publish(c)
  <2>1. /\ pc[c] = "publish" /\ pc' = [pc EXCEPT ![c] = "put"]
        /\ \/ events' = events \/ events' = [events EXCEPT ![key[c]] = events[key[c]] + 1]
        /\ UNCHANGED <<key, attempt, order, cached, book, limbo, lapses, overlaps, reply>>
    BY <1>1 DEF Orders!Publish, Orders!Goto, Orders!broker
  <2>2. /\ events' \in [Key -> Nat]
        /\ events'[key[c]] <= events[key[c]] + 1
        /\ \A k \in Key \ {key[c]} : events'[k] = events[k]
        /\ order[c] # 0 /\ events'[key[c]] \in Nat
    BY <1>0, <2>1 DEF OrdersInv, Orders!TypeOK, OrdersNumbered
  <2>9. OrdersCallMoves(c, "put")
    BY <1>3, <2>1, <2>2
    DEF OrdersCallMoves, OrdersInv, Orders!TypeOK, Orders!Location, Orders!UnderWay
  <2> QED BY <2>9, CallStep
<1>2. CASE Orders!PublishRaises(c)
  <2>1. /\ pc[c] = "publish" /\ pc' = [pc EXCEPT ![c] = "idle"]
        /\ order' = [order EXCEPT ![c] = 0] /\ attempt' = [attempt EXCEPT ![c] = 1]
        /\ UNCHANGED <<key, cached, book, limbo, overlaps, events, reply>>
        /\ lapses' = [k \in Key |-> IF k = key[c] THEN lapses[k] + 1 ELSE lapses[k]]
    BY <1>2 DEF Orders!PublishRaises, Orders!Leave, Orders!Goto, Orders!LapseOf, Orders!broker
  <2>2. /\ lapses' \in [Key -> Nat] /\ lapses'[key[c]] = lapses[key[c]] + 1
        /\ \A k \in Key \ {key[c]} : lapses'[k] = lapses[k]
    BY <1>0, <2>1 DEF OrdersInv, Orders!TypeOK
  <2>9. OrdersCallMoves(c, "idle")
    BY <1>3, <2>1, <2>2
    DEF OrdersCallMoves, OrdersInv, Orders!TypeOK, Orders!Location, Orders!UnderWay
  <2> QED BY <2>9, CallStep
<1> QED BY <1>1, <1>2

\* The order is cached and returned.
LEMMA PutStep ==
  ASSUME OrdersInv, NEW c \in Caller, Orders!Put(c)
  PROVE  OrdersInv'
<1>0. key[c] \in Key
  BY DEF OrdersInv, Orders!TypeOK
<1>1. /\ pc[c] = "put" /\ pc' = [pc EXCEPT ![c] = "idle"]
      /\ order' = [order EXCEPT ![c] = 0] /\ attempt' = [attempt EXCEPT ![c] = 1]
      /\ cached' = [cached EXCEPT ![key[c]] = order[c]]
      /\ reply' = <<key[c], order[c]>>
      /\ UNCHANGED <<key, book, limbo, lapses, overlaps, events>>
  BY DEF Orders!Put, Orders!Leave, Orders!Goto, Orders!broker
<1>2. /\ cached' \in [Key -> Nat] /\ cached'[key[c]] # 0
      /\ \A k \in Key \ {key[c]} : cached'[k] = cached[k]
      /\ reply' \in (Key \X Nat) \cup {NoReply}
  BY <1>0, <1>1 DEF OrdersInv, Orders!TypeOK, OrdersNumbered
<1>3. /\ limbo[key[c]] \in Nat /\ lapses[key[c]] \in Nat /\ events[key[c]] \in Nat
      /\ book[key[c]] \in Nat
  BY <1>0 DEF OrdersInv, Orders!TypeOK
<1>9. OrdersCallMoves(c, "idle")
  BY <1>1, <1>2, <1>3
  DEF OrdersCallMoves, OrdersInv, Orders!TypeOK, Orders!Location, Orders!UnderWay
<1> QED BY <1>9, CallStep

\* The broker takes a request from limbo, or drops it.
LEMMA TakeLateStep ==
  ASSUME OrdersInv, NEW k \in Key, Orders!TakeLate(k)
  PROVE  OrdersInv'
<1>1. /\ limbo[k] > 0 /\ limbo' = [limbo EXCEPT ![k] = limbo[k] - 1]
      /\ \/ book' = book \/ book' = [book EXCEPT ![k] = book[k] + 1]
      /\ UNCHANGED <<pc, key, attempt, order, cached, lapses, overlaps, events, reply>>
  BY DEF Orders!TakeLate, Orders!call, Orders!history
<1>2. Orders!TypeOK'
  BY <1>1 DEF OrdersInv, Orders!TypeOK
<1>3. /\ \A j \in Key \ {k} : limbo'[j] = limbo[j] /\ book'[j] = book[j]
      /\ book'[k] + limbo'[k] <= book[k] + limbo[k] /\ book'[k] >= book[k]
      /\ book'[k] \in Nat /\ limbo'[k] \in Nat
  BY <1>1 DEF OrdersInv, Orders!TypeOK
<1>4. ASSUME NEW j \in Key
      PROVE  /\ book'[j] + limbo'[j] + Asking(j)' <=
                  lapses'[j] + overlaps'[j] + (IF cached'[j] # 0 \/ Orders!At(j, Orders!UnderWay)' # {} THEN 1 ELSE 0)
             /\ events'[j] + Announcing(j)' <= book'[j]
  <2>1. /\ Asking(j)' = Asking(j) /\ Announcing(j)' = Announcing(j)
        /\ Orders!At(j, Orders!UnderWay)' = Orders!At(j, Orders!UnderWay)
    BY <1>1, NoMove
  <2>2. /\ book[j] + limbo[j] + Asking(j) <=
                  lapses[j] + overlaps[j] + (IF cached[j] # 0 \/ Orders!At(j, Orders!UnderWay) # {} THEN 1 ELSE 0)
        /\ events[j] + Announcing(j) <= book[j]
    BY DEF OrdersInv, OrdersCounted, EventsBehind
  <2>3. /\ book[j] \in Nat /\ limbo[j] \in Nat /\ lapses[j] \in Nat /\ overlaps[j] \in Nat
        /\ events[j] \in Nat /\ cached[j] \in Nat
        /\ Asking(j) \in Nat /\ Announcing(j) \in Nat
    BY Counts DEF OrdersInv
  <2> QED BY <1>1, <1>3, <2>1, <2>2, <2>3
<1>5. OrdersCounted' /\ EventsBehind'
  BY <1>4 DEF OrdersCounted, EventsBehind
<1>6. OrdersNumbered'
  BY <1>1 DEF OrdersInv, OrdersNumbered
<1> QED BY <1>2, <1>5, <1>6 DEF OrdersInv

\* The process restarts.
LEMMA RestartStep ==
  ASSUME OrdersInv, Orders!Restart
  PROVE  OrdersInv'
<1>1. /\ pc' = [c \in Caller |-> "idle"]
      /\ attempt' = [c \in Caller |-> 1] /\ order' = [c \in Caller |-> 0]
      /\ cached' = [k \in Key |-> 0]
      /\ limbo' = [k \in Key |-> limbo[k] + Cardinality(Orders!At(k, {"post"}))]
      /\ UNCHANGED <<key, book, overlaps, events, reply>>
      /\ lapses' = [k \in Key |-> IF cached[k] # 0 \/ Orders!At(k, {"post", "publish", "put"}) # {}
                                    THEN lapses[k] + 1 ELSE lapses[k]]
  BY OrdersCardinality DEF Orders!Restart, Orders!LapseOf
<1>2. \A k \in Key : Cardinality(Orders!At(k, {"post"})) \in Nat
  BY AtFinite
<1>3. Orders!TypeOK'
  BY <1>1, <1>2 DEF OrdersInv, Orders!TypeOK, Orders!Location
<1>4. OrdersNumbered'
  BY <1>1 DEF OrdersNumbered
<1>6. \A k \in Key : Asking(k)' = 0 /\ Announcing(k)' = 0 /\ Orders!At(k, Orders!UnderWay)' = {}
  <2> SUFFICES ASSUME NEW k \in Key
               PROVE  /\ Orders!At(k, {"prepare", "post"})' = {} /\ Orders!At(k, {"publish"})' = {}
                      /\ Orders!At(k, Orders!UnderWay)' = {}
    BY FS_EmptySet DEF Asking, Announcing
  <2> QED BY <1>1 DEF Orders!At, Orders!UnderWay
<1>7. ASSUME NEW k \in Key
      PROVE  book'[k] + limbo'[k] <= lapses'[k] + overlaps'[k]
  <2> DEFINE posted == Cardinality(Orders!At(k, {"post"}))
  <2>1. /\ book[k] + limbo[k] + Asking(k) <=
             lapses[k] + overlaps[k] + (IF cached[k] # 0 \/ Orders!At(k, Orders!UnderWay) # {} THEN 1 ELSE 0)
    BY DEF OrdersInv, OrdersCounted
  <2>2. /\ book[k] \in Nat /\ limbo[k] \in Nat /\ lapses[k] \in Nat /\ overlaps[k] \in Nat
        /\ Asking(k) \in Nat /\ posted \in Nat
    BY <1>2, Counts DEF OrdersInv
  <2>3. posted <= Asking(k)
    <3>1. Orders!At(k, {"post"}) \subseteq Orders!At(k, {"prepare", "post"})
      BY DEF Orders!At
    <3>2. IsFiniteSet(Orders!At(k, {"prepare", "post"}))
      BY AtFinite
    <3> QED BY <3>1, <3>2, FS_Subset DEF Asking
  <2>4. CASE cached[k] # 0 \/ Orders!At(k, {"post", "publish", "put"}) # {}
    BY <1>1, <2>1, <2>2, <2>3, <2>4
  <2>5. CASE cached[k] = 0 /\ Orders!At(k, {"post", "publish", "put"}) = {}
    <3>1. Orders!At(k, {"post"}) = {} /\ posted = 0
      <4>1. Orders!At(k, {"post"}) \subseteq Orders!At(k, {"post", "publish", "put"})
        BY DEF Orders!At
      <4> QED BY <4>1, <2>5, FS_EmptySet
    <3>2. Orders!At(k, Orders!UnderWay) = Orders!At(k, {"prepare", "post"})
      BY <2>5 DEF Orders!At, Orders!UnderWay
    <3>3. Orders!At(k, {"prepare", "post"}) # {} => Asking(k) # 0
      BY AtFinite, FS_EmptySet DEF Asking
    <3>4. lapses'[k] = lapses[k] /\ limbo'[k] = limbo[k] + posted
      BY <1>1, <2>5
    <3> QED BY <1>1, <2>1, <2>2, <2>5, <3>1, <3>2, <3>3, <3>4
  <2> QED BY <2>4, <2>5
<1>8. OrdersCounted'
  <2> SUFFICES ASSUME NEW k \in Key
               PROVE  book'[k] + limbo'[k] + Asking(k)' <=
                        lapses'[k] + overlaps'[k] + (IF cached'[k] # 0 \/ Orders!At(k, Orders!UnderWay)' # {} THEN 1 ELSE 0)
    BY DEF OrdersCounted
  <2>1. book'[k] \in Nat /\ limbo'[k] \in Nat /\ lapses'[k] \in Nat /\ overlaps'[k] \in Nat
    BY <1>3 DEF Orders!TypeOK
  <2>2. cached'[k] = 0
    BY <1>1
  <2> QED BY <1>6, <1>7, <2>1, <2>2
<1>9. EventsBehind'
  <2> SUFFICES ASSUME NEW k \in Key PROVE events'[k] + Announcing(k)' <= book'[k]
    BY DEF EventsBehind
  <2>1. events[k] + Announcing(k) <= book[k]
    BY DEF OrdersInv, EventsBehind
  <2>2. events[k] \in Nat /\ Announcing(k) \in Nat /\ book[k] \in Nat
    BY Counts DEF OrdersInv
  <2> QED BY <1>1, <1>6, <2>1, <2>2
<1> QED BY <1>3, <1>4, <1>8, <1>9 DEF OrdersInv

\* Upstox order placement keeps its invariant.
THEOREM OrdersInvariant == Orders!Spec => []OrdersInv
<1>1. Orders!Init => OrdersInv
  <2> SUFFICES ASSUME Orders!Init PROVE OrdersInv
    OBVIOUS
  <2>1. Orders!TypeOK
    BY DEF Orders!Init, Orders!TypeOK, Orders!Location
  <2>2. OrdersNumbered
    BY DEF Orders!Init, OrdersNumbered
  <2>3. \A k \in Key : Orders!At(k, {"prepare", "post"}) = {} /\ Orders!At(k, {"publish"}) = {}
    BY DEF Orders!Init, Orders!At
  <2>4. \A k \in Key : Asking(k) = 0 /\ Announcing(k) = 0
    BY <2>3, FS_EmptySet DEF Asking, Announcing
  <2>5. OrdersCounted /\ EventsBehind
    BY <2>4 DEF Orders!Init, OrdersCounted, EventsBehind
  <2> QED BY <2>1, <2>2, <2>5 DEF OrdersInv
<1>2. OrdersInv /\ [Orders!Next]_(Orders!vars) => OrdersInv'
  <2> SUFFICES ASSUME OrdersInv, [Orders!Next]_(Orders!vars) PROVE OrdersInv'
    OBVIOUS
  <2>1. ASSUME NEW c \in Caller, Orders!PlaceOrder(c) PROVE OrdersInv'
    BY <2>1, ReplayStep, OrdersEnterStep, PrepareStep, ResendStep, PostStep, PublishStep,
       PutStep
       DEF Orders!PlaceOrder
  <2>2. CASE UNCHANGED Orders!vars
    <3>1. UNCHANGED <<pc, key, attempt, order, cached, book, limbo, lapses, overlaps, events, reply>>
      BY <2>2 DEF Orders!vars, Orders!call, Orders!broker, Orders!history
    <3>2. Orders!TypeOK' /\ OrdersNumbered'
      BY <3>1 DEF OrdersInv, Orders!TypeOK, OrdersNumbered
    <3> QED BY <3>1, <3>2, NoMove DEF OrdersInv, OrdersCounted, EventsBehind
  <2> QED BY <2>1, <2>2, TakeLateStep, RestartStep DEF Orders!Next
<1> QED BY <1>1, <1>2, PTL DEF Orders!Spec

\* For any number of callers and ids, over crashes, unanswered requests and
\* event buses that raise: no order is announced twice, or without the broker
\* having taken it (place_order, _publish_order_placed).
THEOREM EventsMatchOrdersHolds == Spec => []EventsMatchOrders
<1>1. OrdersInv => Orders!EventsMatchOrders
  <2> SUFFICES ASSUME OrdersInv, NEW k \in Key PROVE events[k] <= book[k]
    BY DEF Orders!EventsMatchOrders
  <2>1. events[k] + Announcing(k) <= book[k]
    BY DEF OrdersInv, EventsBehind
  <2> QED BY <2>1, Counts DEF OrdersInv
<1> QED BY <1>1, OrdersInvariant, OrdersImplemented, PTL DEF EventsMatchOrders

\* For any number of callers and ids: an extra order under an id has a lapse
\* or an overlapping call of its own; calls one after the other never place a
\* second one (get before the POST, put before the return).
THEOREM ExtraOrdersAccountedHolds == Spec => []ExtraOrdersAccounted
<1>1. OrdersInv => Orders!ExtraOrdersAccounted
  <2> SUFFICES ASSUME OrdersInv, NEW k \in Key PROVE book[k] <= 1 + lapses[k] + overlaps[k]
    BY DEF Orders!ExtraOrdersAccounted
  <2>1. book[k] + limbo[k] + Asking(k) <=
          lapses[k] + overlaps[k] + (IF cached[k] # 0 \/ Orders!At(k, Orders!UnderWay) # {} THEN 1 ELSE 0)
    BY DEF OrdersInv, OrdersCounted
  <2> QED BY <2>1, Counts DEF OrdersInv
<1> QED BY <1>1, OrdersInvariant, OrdersImplemented, PTL DEF ExtraOrdersAccounted

(***************************************************************************)
(* The cache in a file: one order needs no excuse while the file, or a     *)
(* process at work, answers for it.                                        *)
(***************************************************************************)
\* Whatever runs, Cache goes through its own specification.
THEOREM CacheImplemented == Spec => Cache!Spec
<1>1. Init => Cache!Init
  BY DEF Init
<1>2. [Next]_vars => [Cache!Next]_(Cache!vars)
  <2> SUFFICES ASSUME [Next]_vars PROVE [Cache!Next]_(Cache!vars)
    OBVIOUS
  <2>1. CASE Cache!Next
    BY <2>1
  <2>2. CASE UNCHANGED cacheVars
    BY <2>2 DEF cacheVars, Cache!vars
  <2> QED BY <2>1, <2>2 DEF Next, vars, Rest, Runs
<1> QED BY <1>1, <1>2, PTL DEF Spec, Cache!Spec

\* The instance counts as FiniteSets does.
LEMMA CacheCardinality == \A S : Cache!Cardinality(S) = Cardinality(S)
BY DEF Cache!Cardinality, Cardinality

\* Processes that have found nothing under the id and are about to place.
Placing == {p \in Procs : procs[p].at = "placing"}

\* Orders placed or about to be.
CacheOrders == placed + Cardinality(Placing)

\* Bounded by the model.
OrdersBounded == CacheOrders <= MaxOrders

\* The order that needs no excuse: in the file, or a process is about to put it there.
OrderKept == CacheOrders <= excused + (IF Cache!Busy # {} \/ file = "live" THEN 1 ELSE 0)

\* The inductive invariant of the cache in a file.
CacheInv == Cache!TypeOK /\ OrdersBounded /\ OrderKept

\* A process that does nothing.
LEMMA IdleState == Cache!Idle \in Cache!States
BY DEF Cache!Idle, Cache!States

\* A process that has an order.
Working == {"placing", "putting", "writing"}

\* They are a finite set.
LEMMA PlacingCounted == IsFiniteSet(Placing) /\ Cardinality(Placing) \in Nat
<1>1. Placing \subseteq Procs
  BY DEF Placing
<1> QED BY <1>1, CacheAssumption, FS_Subset, FS_CardinalityType

\* One process moves: who is about to place, and who is busy.
LEMMA PlacingMoves ==
  ASSUME NEW p \in Procs, \A q \in Procs \ {p} : procs'[q].at = procs[q].at
  PROVE  /\ Cardinality(Placing') = Cardinality(Placing)
                                   - (IF procs[p].at = "placing" THEN 1 ELSE 0)
                                   + (IF procs'[p].at = "placing" THEN 1 ELSE 0)
         /\ procs'[p].at \in Working => Cache!Busy' # {}
         /\ procs'[p].at \notin Working /\ procs[p].at \notin Working => Cache!Busy' = Cache!Busy
<1>1. Placing' = (Placing \ {p}) \cup (IF procs'[p].at = "placing" THEN {p} ELSE {})
  BY DEF Placing
<1>2. p \in Placing <=> procs[p].at = "placing"
  BY DEF Placing
<1>3. IsFiniteSet(Placing) /\ Cardinality(Placing) \in Nat
  BY PlacingCounted
<1>4. /\ IsFiniteSet(Placing \ {p})
      /\ Cardinality(Placing \ {p}) = IF p \in Placing THEN Cardinality(Placing) - 1 ELSE Cardinality(Placing)
  BY <1>3, FS_RemoveElement
<1>5. Cardinality((Placing \ {p}) \cup {p}) = Cardinality(Placing \ {p}) + 1
  BY <1>4, FS_AddElement
<1>6. Cardinality(Placing') = Cardinality(Placing)
                                   - (IF procs[p].at = "placing" THEN 1 ELSE 0)
                                   + (IF procs'[p].at = "placing" THEN 1 ELSE 0)
  <2>1. CASE procs'[p].at = "placing"
    BY <1>1, <1>2, <1>3, <1>4, <1>5, <2>1
  <2>2. CASE procs'[p].at # "placing"
    <3>1. Placing' = Placing \ {p}
      BY <1>1, <2>2
    <3>2. Cardinality(Placing') = Cardinality(Placing \ {p})
      BY <3>1
    <3> QED BY <1>2, <1>3, <1>4, <2>2, <3>2
  <2> QED BY <2>1, <2>2
<1>7. /\ procs'[p].at \in Working => Cache!Busy' # {}
      /\ procs'[p].at \notin Working /\ procs[p].at \notin Working => Cache!Busy' = Cache!Busy
  BY DEF Cache!Busy, Working
<1> QED BY <1>6, <1>7

\* Become.
LEMMA Becomes ==
  ASSUME Cache!TypeOK, NEW p \in Procs,
         NEW l \in {"idle", "removing", "placing", "putting", "writing"},
         Cache!Become(p, l)
  PROVE  /\ procs'[p].at = l
         /\ \A q \in Procs \ {p} : procs'[q] = procs[q]
         /\ procs' \in [Procs -> Cache!States]
<1>1. procs' = [procs EXCEPT ![p] = [Cache!Idle EXCEPT !.at = l]]
  BY DEF Cache!Become
<1>2. [Cache!Idle EXCEPT !.at = l] \in Cache!States /\ [Cache!Idle EXCEPT !.at = l].at = l
  <2>1. 0 \in 0 .. 1 /\ TRUE \in BOOLEAN
    OBVIOUS
  <2> QED BY <2>1, IdleState DEF Cache!States
<1> QED BY <1>1, <1>2 DEF Cache!TypeOK

\* An excuse pays for an order.
LEMMA Excused ==
  ASSUME CacheInv, NEW event, Cache!Excuse(event)
  PROVE  /\ excused' \in 0 .. MaxOrders /\ excused' >= excused
         /\ event => CacheOrders <= excused' 
         /\ ~event => excused' = excused
<1>1. excused \in 0 .. MaxOrders /\ placed \in Nat /\ Cardinality(Placing) \in Nat
  BY CacheAssumption, PlacingCounted DEF CacheInv, Cache!TypeOK
<1>2. excused' = IF event /\ excused < MaxOrders THEN excused + 1 ELSE excused
  BY DEF Cache!Excuse
<1>3. CacheOrders <= excused + 1 /\ CacheOrders <= MaxOrders /\ CacheOrders \in Nat
  BY <1>1 DEF CacheInv, OrderKept, OrdersBounded, CacheOrders
<1> QED BY <1>1, <1>2, <1>3, CacheAssumption

\* A miss.
LEMMA MissStep ==
  ASSUME CacheInv, NEW p \in Procs, procs[p].at \in {"idle", "removing"}, Cache!Miss(p),
         procs' \in [Procs -> Cache!States], procs'[p].at = "placing",
         \A q \in Procs \ {p} : procs'[q].at = procs[q].at,
         file' \in {"absent", "torn"}, memory' \in [Procs -> {"none", "live", "expired"}]
  PROVE  CacheInv'
<1>1. placed' = placed /\ Cache!Excuse(Cache!Busy # {} \/ file = "live")
  BY DEF Cache!Miss
<1>2. CacheOrders < MaxOrders
  BY CacheCardinality DEF Cache!Miss, CacheOrders, Placing
<1>4. /\ Cardinality(Placing') = Cardinality(Placing) - 0 + 1 /\ Cache!Busy' # {}
  BY PlacingMoves DEF Working
<1>5. /\ excused' \in 0 .. MaxOrders /\ excused' >= excused
      /\ Cache!Busy # {} \/ file = "live" => CacheOrders <= excused'
  BY <1>1, Excused
<1>7. Cache!TypeOK'
  BY <1>1, <1>5 DEF CacheInv, Cache!TypeOK
<1>8. placed \in Nat /\ Cardinality(Placing) \in Nat /\ excused \in Nat /\ excused' \in Nat
  BY <1>5, CacheAssumption, PlacingCounted DEF CacheInv, Cache!TypeOK
<1>9. ~(Cache!Busy # {} \/ file = "live") => CacheOrders <= excused
  BY <1>8 DEF CacheInv, OrderKept, CacheOrders
<1>10. OrdersBounded' /\ OrderKept'
  BY <1>1, <1>2, <1>4, <1>5, <1>8, <1>9, CacheAssumption
  DEF OrdersBounded, OrderKept, CacheOrders
<1> QED BY <1>7, <1>10 DEF CacheInv

\* A look-up that finds the order.
LEMMA AnswerStep ==
  ASSUME CacheInv, UNCHANGED <<file, procs, placed, excused>>,
         memory' \in [Procs -> {"none", "live", "expired"}]
  PROVE  CacheInv'
<1>1. Cache!TypeOK'
  BY DEF CacheInv, Cache!TypeOK
<1>2. Placing' = Placing /\ Cache!Busy' = Cache!Busy
  BY DEF Placing, Cache!Busy
<1>3. CacheOrders' = CacheOrders
  BY <1>2 DEF CacheOrders
<1> QED BY <1>1, <1>2, <1>3 DEF CacheInv, OrdersBounded, OrderKept

\* A process gives up, is done, or has yet to remove a file.
LEMMA DoneStep ==
  ASSUME CacheInv, NEW p \in Procs, NEW l \in {"idle", "removing"}, Cache!Become(p, l),
         placed' = placed,
         file' \in {"absent", "torn", "live", "expired"},
         memory' \in [Procs -> {"none", "live", "expired"}],
         NEW event, Cache!Excuse(event),
         \/ event
         \/ file' = "live"
         \/ procs[p].at = "placing"
         \/ procs[p].at \in {"idle", "removing"} /\ file' = file
  PROVE  CacheInv'
<1>1. /\ procs'[p].at = l /\ \A q \in Procs \ {p} : procs'[q] = procs[q]
      /\ procs' \in [Procs -> Cache!States]
  BY Becomes DEF CacheInv
<1>2. /\ Cardinality(Placing') = Cardinality(Placing) - (IF procs[p].at = "placing" THEN 1 ELSE 0) + 0
      /\ procs[p].at \in {"idle", "removing"} => Cache!Busy' = Cache!Busy
  BY <1>1, PlacingMoves DEF Working
<1>3. /\ excused' \in 0 .. MaxOrders /\ excused' >= excused
      /\ event => CacheOrders <= excused'
  BY Excused
<1>4. Cache!TypeOK'
  BY <1>1, <1>3 DEF CacheInv, Cache!TypeOK
<1>5. placed \in Nat /\ Cardinality(Placing) \in Nat /\ excused \in Nat /\ excused' \in Nat
  BY <1>3, CacheAssumption, PlacingCounted DEF CacheInv, Cache!TypeOK
<1>6. OrdersBounded'
  BY <1>2, <1>5, CacheAssumption DEF CacheInv, OrdersBounded, CacheOrders
<1>7. CacheOrders <= excused + 1
  BY <1>5 DEF CacheInv, OrderKept, CacheOrders
<1>8. OrderKept'
  <2>1. CASE event
    BY <1>2, <1>3, <1>5, <2>1 DEF OrderKept, CacheOrders
  <2>2. CASE procs[p].at \in {"idle", "removing"} /\ file' = file
    BY <1>2, <1>3, <1>5, <2>2 DEF CacheInv, OrderKept, CacheOrders
  <2>3. CASE procs[p].at = "placing"
    BY <1>2, <1>3, <1>5, <1>7, <2>3 DEF OrderKept, CacheOrders
  <2>4. CASE file' = "live"
    BY <1>2, <1>3, <1>5, <1>7, <2>4 DEF OrderKept, CacheOrders
  <2> QED BY <2>1, <2>2, <2>3, <2>4
<1> QED BY <1>4, <1>6, <1>8 DEF CacheInv

\* A look-up, with the lock or without.
LEMMA GetStep ==
  ASSUME CacheInv, NEW p \in Procs, Cache!Get(p) \/ Cache!GetUnlocked(p)
  PROVE  CacheInv'
<1>1. /\ procs[p].at = "idle" /\ file' = file
      /\ memory' \in [Procs -> {"none", "live", "expired"}]
      /\ Cache!Answer(p) \/ Cache!Look(p)
  BY DEF Cache!Get, Cache!GetUnlocked, CacheInv, Cache!TypeOK
<1>2. CASE Cache!Answer(p)
  BY <1>1, <1>2, AnswerStep DEF Cache!Answer
<1>3. CASE file = "expired" /\ Cache!Become(p, "removing") /\ UNCHANGED <<placed, excused>>
  <2>1. Cache!Excuse(FALSE)
    BY <1>3 DEF Cache!Excuse
  <2> QED BY <1>1, <1>3, <2>1, DoneStep DEF CacheInv, Cache!TypeOK
<1>4. CASE file \in {"absent", "torn"} /\ Cache!Miss(p) /\ Cache!Become(p, "placing")
  <2>1. /\ procs'[p].at = "placing" /\ \A q \in Procs \ {p} : procs'[q] = procs[q]
        /\ procs' \in [Procs -> Cache!States]
    BY <1>4, Becomes DEF CacheInv
  <2> QED BY <1>1, <1>4, <2>1, MissStep
<1> QED BY <1>1, <1>2, <1>3, <1>4 DEF Cache!Look

\* The expired file is removed.
LEMMA RemoveStep ==
  ASSUME CacheInv, NEW p \in Procs, Cache!Remove(p)
  PROVE  CacheInv'
<1>1. /\ procs[p].at = "removing" /\ Cache!Miss(p) /\ file' = "absent" /\ memory' = memory
      /\ procs' = [q \in Procs |-> IF q = p THEN [Cache!Idle EXCEPT !.at = "placing"]
                                   ELSE IF q \in Cache!Writers THEN [procs[q] EXCEPT !.gone = TRUE]
                                   ELSE procs[q]]
  BY DEF Cache!Remove
<1>2. ASSUME NEW q \in Procs
      PROVE  /\ procs'[q] \in Cache!States
             /\ q # p => procs'[q].at = procs[q].at
             /\ q = p => procs'[q].at = "placing"
  <2>1. procs[q] \in Cache!States
    BY DEF CacheInv, Cache!TypeOK
  <2>4. 0 \in 0 .. 1 /\ TRUE \in BOOLEAN
    OBVIOUS
  <2>2. CASE q = p
    <3>1. procs'[q] = [Cache!Idle EXCEPT !.at = "placing"]
      BY <1>1, <2>2
    <3> QED BY <2>2, <2>4, <3>1, IdleState DEF Cache!States
  <2>3. CASE q # p
    <3>1. procs'[q] = [procs[q] EXCEPT !.gone = TRUE] \/ procs'[q] = procs[q]
      BY <1>1, <2>3
    <3> QED BY <2>1, <2>3, <2>4, <3>1 DEF Cache!States
  <2> QED BY <2>2, <2>3
<1>3. procs' \in [Procs -> Cache!States] /\ memory' \in [Procs -> {"none", "live", "expired"}]
  BY <1>1, <1>2 DEF CacheInv, Cache!TypeOK
<1> QED BY <1>1, <1>2, <1>3, MissStep

\* The order is placed.
LEMMA PlaceStep ==
  ASSUME CacheInv, NEW p \in Procs, Cache!Place(p)
  PROVE  CacheInv'
<1>1. /\ procs[p].at = "placing" /\ placed' = placed + 1 /\ Cache!Become(p, "putting")
      /\ UNCHANGED <<file, memory, excused>>
  BY DEF Cache!Place
<1>2. /\ procs'[p].at = "putting" /\ \A q \in Procs \ {p} : procs'[q] = procs[q]
      /\ procs' \in [Procs -> Cache!States]
  BY <1>1, Becomes DEF CacheInv
<1>3. /\ Cardinality(Placing') = Cardinality(Placing) - 1 + 0 /\ Cache!Busy' # {}
  BY <1>1, <1>2, PlacingMoves DEF Working
<1>4. p \in Cache!Busy
  BY <1>1 DEF Cache!Busy
<1>5. placed \in Nat /\ Cardinality(Placing) \in Nat /\ excused \in Nat
      /\ Cardinality(Placing') \in Nat
  <2>1. (IsFiniteSet(Placing) /\ Cardinality(Placing) \in Nat)'
    BY PlacingCounted, PTL
  <2> QED BY <2>1, CacheAssumption, PlacingCounted DEF CacheInv, Cache!TypeOK
<1>6. CacheOrders' = CacheOrders
  BY <1>1, <1>3, <1>5 DEF CacheOrders
<1>7. placed' \in 0 .. MaxOrders
  BY <1>1, <1>3, <1>5, CacheAssumption DEF CacheInv, OrdersBounded, CacheOrders
<1>8. Cache!TypeOK'
  BY <1>1, <1>2, <1>7 DEF CacheInv, Cache!TypeOK
<1> QED BY <1>1, <1>3, <1>4, <1>6, <1>8 DEF CacheInv, OrdersBounded, OrderKept

\* A process stays at work on its put.
LEMMA PuttingStep ==
  ASSUME CacheInv, NEW p \in Procs, UNCHANGED <<placed, excused, memory>>,
         procs[p].at \in {"putting", "writing"}, procs'[p].at \in {"putting", "writing"},
         file' \in {"absent", "torn", "live", "expired"},
         procs' \in [Procs -> Cache!States],
         \A q \in Procs \ {p} : procs'[q].at = procs[q].at
  PROVE  CacheInv'
<1>1. Cardinality(Placing') = Cardinality(Placing) - 0 + 0 /\ Cache!Busy' # {} /\ Cache!Busy # {}
  BY PlacingMoves DEF Working, Cache!Busy
<1>2. placed \in Nat /\ Cardinality(Placing) \in Nat /\ excused \in Nat
  BY CacheAssumption, PlacingCounted DEF CacheInv, Cache!TypeOK
<1>3. Cache!TypeOK'
  BY DEF CacheInv, Cache!TypeOK
<1>4. CacheOrders' = CacheOrders
  BY <1>1, <1>2 DEF CacheOrders
<1>5. OrdersBounded' /\ OrderKept'
  BY <1>1, <1>2, <1>4 DEF CacheInv, OrdersBounded, OrderKept, CacheOrders
<1> QED BY <1>3, <1>5 DEF CacheInv

\* The file is opened, which cuts it off.
LEMMA OpenStep ==
  ASSUME CacheInv, NEW p \in Procs, Cache!Open(p)
  PROVE  CacheInv'
<1>1. /\ procs[p].at = "putting" /\ file' = "torn" /\ UNCHANGED <<memory, placed, excused>>
      /\ procs' = [q \in Procs |->
                 IF q = p THEN [procs[p] EXCEPT !.at = "writing", !.mixed = Cache!Writers # {}, !.gone = FALSE]
                 ELSE IF q \in Cache!Writers THEN [procs[q] EXCEPT !.mixed = TRUE] ELSE procs[q]]
  BY Zenon DEF Cache!Open
<1>2. \A q \in Procs : procs[q] \in Cache!States
  BY DEF CacheInv, Cache!TypeOK
<1>3. (Cache!Writers # {}) \in BOOLEAN
  OBVIOUS
<1>4. ASSUME NEW q \in Procs
      PROVE  /\ procs'[q] \in Cache!States
             /\ q # p => procs'[q].at = procs[q].at
             /\ q = p => procs'[q].at = "writing"
  <2> DEFINE mixed == Cache!Writers # {}
  <2>3. mixed \in BOOLEAN /\ 0 \in 0 .. 1 /\ procs[q] \in Cache!States
    BY <1>2
  <2>1. CASE q = p
    <3>1. procs'[q] = [procs[q] EXCEPT !.at = "writing", !.mixed = mixed, !.gone = FALSE]
      BY Zenon, <1>1, <2>1
    <3> HIDE DEF mixed
    <3> QED BY <2>1, <2>3, <3>1 DEF Cache!States
  <2>2. CASE q # p
    <3>1. procs'[q] = [procs[q] EXCEPT !.mixed = TRUE] \/ procs'[q] = procs[q]
      BY Zenon, <1>1, <2>2
    <3> HIDE DEF mixed
    <3> QED BY <2>2, <2>3, <3>1 DEF Cache!States
  <2> QED BY <2>1, <2>2
<1>5. procs' \in [Procs -> Cache!States]
  <2> DEFINE after(q) == IF q = p THEN [procs[p] EXCEPT !.at = "writing", !.mixed = Cache!Writers # {}, !.gone = FALSE]
                 ELSE IF q \in Cache!Writers THEN [procs[q] EXCEPT !.mixed = TRUE] ELSE procs[q]
  <2>1. procs' = [q \in Procs |-> after(q)]
    BY Zenon, <1>1
  <2> HIDE DEF after
  <2>2. procs' = [q \in Procs |-> procs'[q]]
    BY Zenon, <2>1
  <2>3. \A q \in Procs : procs'[q] \in Cache!States
    BY <1>4
  <2> QED BY <2>2, <2>3
<1>6. /\ procs[p].at = "putting" /\ file' = "torn" /\ UNCHANGED <<memory, placed, excused>>
  BY Zenon, <1>1
<1> QED BY <1>4, <1>5, <1>6, PuttingStep

\* The text is in the file.
LEMMA WriteStep ==
  ASSUME CacheInv, NEW p \in Procs, Cache!Write(p)
  PROVE  CacheInv'
<1>1. procs[p].at = "writing" /\ Cache!Become(p, "idle") /\ UNCHANGED <<memory, placed>>
  BY DEF Cache!Write
<1>2. memory' \in [Procs -> {"none", "live", "expired"}]
  BY <1>1 DEF CacheInv, Cache!TypeOK
<1>5. CASE file' = file /\ Cache!Excuse(file # "live")
  <2>1. file' \in {"absent", "torn", "live", "expired"}
    BY <1>5 DEF CacheInv, Cache!TypeOK
  <2> QED BY <1>1, <1>2, <1>5, <2>1, DoneStep
<1>3. CASE file' = "live" /\ excused' = excused
  <2>1. Cache!Excuse(FALSE)
    BY <1>3 DEF Cache!Excuse
  <2> QED BY <1>1, <1>2, <1>3, <2>1, DoneStep
<1>4. CASE file' = "torn" /\ Cache!Excuse(TRUE)
  BY <1>1, <1>2, <1>4, DoneStep
<1> QED BY <1>3, <1>4, <1>5 DEF Cache!Write

\* The file cannot be written, or the memory has an answer.
LEMMA FailStep ==
  ASSUME CacheInv, NEW p \in Procs, Cache!WriteFails(p) \/ Cache!PutUnlocked(p)
  PROVE  CacheInv'
<1>1. /\ procs[p].at \in {"putting", "writing"} /\ UNCHANGED <<file, memory, placed>>
      /\ \/ procs' = [procs EXCEPT ![p] = [procs[p] EXCEPT !.at = "putting", !.tries = 1]] /\ UNCHANGED excused
         \/ Cache!Become(p, "idle") /\ Cache!Excuse(TRUE)
  BY DEF Cache!WriteFails, Cache!PutUnlocked
<1>2. /\ file' \in {"absent", "torn", "live", "expired"}
      /\ memory' \in [Procs -> {"none", "live", "expired"}]
  BY <1>1 DEF CacheInv, Cache!TypeOK
<1>3. CASE Cache!Become(p, "idle") /\ Cache!Excuse(TRUE)
  BY <1>1, <1>2, <1>3, DoneStep
<1>4. CASE procs' = [procs EXCEPT ![p] = [procs[p] EXCEPT !.at = "putting", !.tries = 1]] /\ UNCHANGED excused
  <2>1. procs[p] \in Cache!States
    BY DEF CacheInv, Cache!TypeOK
  <2> DEFINE again == [procs[p] EXCEPT !.at = "putting", !.tries = 1]
  <2>3. /\ again \in Cache!States
        /\ again.at = "putting"
    <3>1. 1 \in 0 .. 1
      OBVIOUS
    <3> QED BY <2>1, <3>1 DEF Cache!States
  <2> HIDE DEF again
  <2>4. procs' = [procs EXCEPT ![p] = again]
    BY <1>4 DEF again
  <2>2. /\ procs'[p].at = "putting"
        /\ procs' \in [Procs -> Cache!States]
        /\ \A q \in Procs \ {p} : procs'[q].at = procs[q].at
    BY <2>3, <2>4 DEF CacheInv, Cache!TypeOK
  <2> QED BY <1>1, <1>2, <1>4, <2>2, PuttingStep
<1> QED BY <1>1, <1>3, <1>4

\* A process dies.
LEMMA CrashStep ==
  ASSUME CacheInv, NEW p \in Procs, Cache!Crash(p)
  PROVE  CacheInv'
<1>1. /\ Cache!Become(p, "idle") /\ UNCHANGED <<file, placed>> /\ memory' = [memory EXCEPT ![p] = "none"]
      /\ Cache!Excuse(procs[p].at \in {"putting", "writing"})
  BY DEF Cache!Crash
<1>2. /\ file' \in {"absent", "torn", "live", "expired"}
      /\ memory' \in [Procs -> {"none", "live", "expired"}]
      /\ procs[p].at \in {"idle", "removing", "placing", "putting", "writing"}
  BY <1>1 DEF CacheInv, Cache!TypeOK, Cache!States
<1> QED BY <1>1, <1>2, DoneStep

\* Entries expire.
LEMMA TimeStep ==
  ASSUME CacheInv, Cache!Expire \/ \E p \in Procs : Cache!Forget(p)
  PROVE  CacheInv'
<1>1. CASE Cache!Expire
  <2>1. /\ file' = "expired" /\ Cache!Excuse(TRUE) /\ UNCHANGED <<procs, memory, placed>>
    BY <1>1 DEF Cache!Expire
  <2>2. excused' \in 0 .. MaxOrders /\ CacheOrders <= excused'
    BY <2>1, Excused
  <2>3. Cache!TypeOK'
    BY <2>1, <2>2 DEF CacheInv, Cache!TypeOK
  <2>4. Placing' = Placing
    BY <2>1 DEF Placing
  <2>5. placed \in Nat /\ Cardinality(Placing) \in Nat /\ excused' \in Nat
    BY <2>2, CacheAssumption, PlacingCounted DEF CacheInv, Cache!TypeOK
  <2>6. CacheOrders' = CacheOrders
    BY <2>1, <2>4 DEF CacheOrders
  <2>7. OrdersBounded' /\ OrderKept'
    BY <2>2, <2>5, <2>6 DEF CacheInv, OrdersBounded, OrderKept, CacheOrders
  <2> QED BY <2>3, <2>7 DEF CacheInv
<1>2. ASSUME NEW p \in Procs, Cache!Forget(p) PROVE CacheInv'
  <2>1. UNCHANGED <<file, procs, placed, excused>> /\ memory' \in [Procs -> {"none", "live", "expired"}]
    BY <1>2 DEF Cache!Forget, CacheInv, Cache!TypeOK
  <2> QED BY <2>1, AnswerStep
<1> QED BY <1>1, <1>2

\* The cache in a file keeps its invariant.
THEOREM CacheInvariant == Cache!Spec => []CacheInv
<1>1. Cache!Init => CacheInv
  <2> SUFFICES ASSUME Cache!Init PROVE CacheInv
    OBVIOUS
  <2>1. Cache!TypeOK
    BY CacheAssumption DEF Cache!Init, Cache!TypeOK, Cache!Idle, Cache!States
  <2>2. Placing = {}
    BY DEF Cache!Init, Placing, Cache!Idle
  <2>3. CacheOrders = 0
    BY <2>2, FS_EmptySet DEF Cache!Init, CacheOrders
  <2> QED BY <2>1, <2>3, CacheAssumption DEF Cache!Init, CacheInv, OrdersBounded, OrderKept
<1>2. CacheInv /\ [Cache!Next]_(Cache!vars) => CacheInv'
  <2> SUFFICES ASSUME CacheInv, [Cache!Next]_(Cache!vars) PROVE CacheInv'
    OBVIOUS
  <2>1. CASE UNCHANGED Cache!vars
    BY <2>1, AnswerStep DEF Cache!vars, CacheInv, Cache!TypeOK
  <2> QED BY <2>1, GetStep, RemoveStep, PlaceStep, OpenStep, WriteStep, FailStep, CrashStep,
             TimeStep DEF Cache!Next
<1> QED BY <1>1, <1>2, PTL DEF Cache!Spec

\* For any number of processes, over crashes, failed writes, look-ups without the
\* lock, and expired files that are removed when another has come in their place: of the orders placed under an id each but the first has
\* an excuse of its own, so the file answers for every other one
\* (DurableIdempotencyCache, FileIdempotencyCache).
THEOREM RepeatsExcusedHolds == Spec => []RepeatsExcused
<1>1. CacheInv => Cache!RepeatsExcused
  <2> SUFFICES ASSUME CacheInv PROVE Cache!RepeatsExcused
    OBVIOUS
  <2>1. placed \in Nat /\ Cardinality(Placing) \in Nat /\ excused \in Nat
    BY CacheAssumption, PlacingCounted DEF CacheInv, Cache!TypeOK
  <2> QED BY <2>1, CacheCardinality
          DEF CacheInv, OrderKept, CacheOrders, Cache!RepeatsExcused, Placing
<1> QED BY <1>1, CacheInvariant, CacheImplemented, PTL DEF RepeatsExcused

(***************************************************************************)
(* The paper broker: trades counted, booked and told of.                   *)
(***************************************************************************)
\* Whatever runs, Paper goes through its own specification.
THEOREM PaperImplemented == Spec => Paper!Spec
<1>1. Init => Paper!Init
  BY DEF Init
<1>2. [Next]_vars => [Paper!Next]_(Paper!vars)
  <2> SUFFICES ASSUME [Next]_vars PROVE [Paper!Next]_(Paper!vars)
    OBVIOUS
  <2>1. CASE Paper!Next
    BY <2>1
  <2>2. CASE UNCHANGED paperVars
    BY <2>2 DEF paperVars, Paper!vars
  <2> QED BY <2>1, <2>2 DEF Next, vars, Rest, Runs
<1> QED BY <1>1, <1>2, PTL DEF Spec, Paper!Spec

\* The instance counts as FiniteSets does.
LEMMA PaperCardinality == \A S : Paper!Cardinality(S) = Cardinality(S)
BY DEF Paper!Cardinality, Cardinality

\* Where a placement stands.
Places == {"idle", "counted", "numbered", "filled", "rejected", "listed", "traded", "booking"}

\* The states of a placement.
Placement == [at : Places, seq : 0 .. MaxOrders, id : Paper!AnyId, order : 0 .. MaxOrders,
              trade : 0 .. MaxOrders]

\* The placements that stand at one of these places.
Standing(S) == {t \in Threads : placements[t].at \in S}

\* Their number.
Tally(S) == Cardinality(Standing(S))

\* Placements that are to list their order yet.
Unlisted == {"counted", "numbered", "filled", "rejected"}

\* Placements that the OMS has filled and their callers do not know of.
Filled == {"filled", "listed", "traded", "booking"}

\* Trades are counted, booked and told of one after the other.
Tallied ==
  /\ position + Tally({"traded"}) = tseq
  /\ accepted + Tally({"booking"}) = position
  /\ Len(trades) = position
  /\ tseq + Tally({"listed"}) <= Len(orders)
  /\ Len(orders) + Tally(Unlisted) <= MaxOrders

\* Without an OMS nothing is under way; numbers in use are not 0.
NumbersUsed ==
  /\ ~oms => Paper!Busy = {} /\ seq = Len(orders)
  /\ \A t \in Threads :
       /\ placements[t].at = "counted" => seq # 0
       /\ placements[t].at \in {"numbered", "filled", "rejected"} => placements[t].seq # 0
       /\ placements[t].at \in {"numbered", "filled"} => placements[t].order # 0
       /\ placements[t].at = "booking" => placements[t].trade # 0

\* One placement at a time: the books of the OMS.
AloneBooked ==
  oms /\ ~overlapped =>
    /\ \A t \in Threads, u \in Threads :
         placements[t].at # "idle" /\ placements[u].at # "idle" => t = u
    /\ booked = 1 .. accepted
    /\ IsFiniteSet(known) /\ Cardinality(known) + repeated = accepted + Tally(Filled)
    /\ \A k \in known : k.id \in Ids \/ k.id \in 1 .. seq
    /\ \A t \in Threads :
         /\ placements[t].at \in {"counted", "numbered"} =>
              \A k \in known : k.id = seq => k.id \in Ids
         /\ placements[t].at = "numbered" => placements[t].id \in Ids \/ placements[t].id = seq
         /\ placements[t].at = "counted" => placements[t].id \in Ids \union {0}
         /\ placements[t].at \in {"numbered", "filled"} => placements[t].seq = seq
         /\ placements[t].at = "booking" => placements[t].trade = accepted + 1

\* The inductive invariant of the paper broker.
PaperInv == Paper!TypeOK /\ Tallied /\ NumbersUsed /\ AloneBooked

\* The placements at some places are a finite set.
LEMMA Counted ==
  ASSUME NEW S
  PROVE  IsFiniteSet(Standing(S)) /\ Tally(S) \in Nat
<1>1. Standing(S) \subseteq Threads
  BY DEF Standing
<1> QED BY <1>1, PaperAssumption, FS_Subset, FS_CardinalityType DEF Tally

\* The numbers of those that the tallies speak of.
LEMMA CountedNow == Tally({"traded"}) \in Nat /\ Tally({"booking"}) \in Nat /\ Tally({"listed"}) \in Nat
BY Counted

\* One placement moves.
LEMMA Moved ==
  ASSUME NEW t \in Threads, NEW S, \A u \in Threads \ {t} : placements'[u] = placements[u]
  PROVE  Tally(S)' = Tally(S) - (IF placements[t].at \in S THEN 1 ELSE 0)
                      + (IF placements'[t].at \in S THEN 1 ELSE 0)
<1>1. Standing(S)' = (Standing(S) \ {t}) \cup (IF placements'[t].at \in S THEN {t} ELSE {})
  BY DEF Standing
<1>2. t \in Standing(S) <=> placements[t].at \in S
  BY DEF Standing
<1>3. IsFiniteSet(Standing(S)) /\ Tally(S) \in Nat /\ Tally(S) = Cardinality(Standing(S))
  BY Counted DEF Tally
<1>4. /\ IsFiniteSet(Standing(S) \ {t})
      /\ Cardinality(Standing(S) \ {t}) = IF t \in Standing(S) THEN Tally(S) - 1 ELSE Tally(S)
  BY <1>3, FS_RemoveElement
<1>5. Cardinality((Standing(S) \ {t}) \cup {t}) = Cardinality(Standing(S) \ {t}) + 1
  BY <1>4, FS_AddElement
<1>6. Tally(S)' = Cardinality(Standing(S)')
  BY DEF Tally
<1>7. CASE placements'[t].at \in S
  BY <1>1, <1>2, <1>3, <1>4, <1>5, <1>6, <1>7
<1>8. CASE placements'[t].at \notin S
  <2>1. Standing(S)' = Standing(S) \ {t}
    BY <1>1, <1>8
  <2>2. Tally(S)' = Cardinality(Standing(S) \ {t})
    BY <1>6, <2>1
  <2> QED BY <1>2, <1>3, <1>4, <1>8, <2>2
<1> QED BY <1>7, <1>8

\* What a step of a placement does to the tallies.
LEMMA Tallies ==
  ASSUME NEW t \in Threads, \A u \in Threads \ {t} : placements'[u] = placements[u],
         NEW here, placements[t].at = here, NEW there, placements'[t].at = there
  PROVE  /\ Tally({"traded"})' = Tally({"traded"}) - (IF here = "traded" THEN 1 ELSE 0) + (IF there = "traded" THEN 1 ELSE 0)
         /\ Tally({"booking"})' = Tally({"booking"}) - (IF here = "booking" THEN 1 ELSE 0) + (IF there = "booking" THEN 1 ELSE 0)
         /\ Tally({"listed"})' = Tally({"listed"}) - (IF here = "listed" THEN 1 ELSE 0) + (IF there = "listed" THEN 1 ELSE 0)
         /\ Tally(Unlisted)' = Tally(Unlisted) - (IF here \in Unlisted THEN 1 ELSE 0) + (IF there \in Unlisted THEN 1 ELSE 0)
         /\ Tally(Filled)' = Tally(Filled) - (IF here \in Filled THEN 1 ELSE 0) + (IF there \in Filled THEN 1 ELSE 0)
         /\ Tally({"traded"}) \in Nat /\ Tally({"booking"}) \in Nat /\ Tally({"listed"}) \in Nat
         /\ Tally(Unlisted) \in Nat /\ Tally(Filled) \in Nat
<1>1. ASSUME NEW S PROVE Tally(S)' = Tally(S) - (IF here \in S THEN 1 ELSE 0) + (IF there \in S THEN 1 ELSE 0)
  BY Moved
<1>2. \A x, y : x \in {y} <=> x = y
  OBVIOUS
<1>3. /\ Tally({"traded"})' = Tally({"traded"}) - (IF here = "traded" THEN 1 ELSE 0) + (IF there = "traded" THEN 1 ELSE 0)
  BY <1>1, <1>2
<1>4. /\ Tally({"booking"})' = Tally({"booking"}) - (IF here = "booking" THEN 1 ELSE 0) + (IF there = "booking" THEN 1 ELSE 0)
  BY <1>1, <1>2
<1>5. /\ Tally({"listed"})' = Tally({"listed"}) - (IF here = "listed" THEN 1 ELSE 0) + (IF there = "listed" THEN 1 ELSE 0)
  BY <1>1, <1>2
<1>6. /\ Tally(Unlisted)' = Tally(Unlisted) - (IF here \in Unlisted THEN 1 ELSE 0) + (IF there \in Unlisted THEN 1 ELSE 0)
      /\ Tally(Filled)' = Tally(Filled) - (IF here \in Filled THEN 1 ELSE 0) + (IF there \in Filled THEN 1 ELSE 0)
  <2>1. Unlisted' = Unlisted /\ Filled' = Filled
    BY DEF Unlisted, Filled
  <2> QED BY <1>1, <2>1
<1> QED BY <1>3, <1>4, <1>5, <1>6, Counted

\* What a placement keeps that goes from one place to another.
LEMMA AtStep ==
  ASSUME Paper!TypeOK, NEW t \in Threads, NEW here, NEW there \in Places, Paper!At(t, here, there)
  PROVE  /\ placements[t].at = here /\ placements'[t].at = there
         /\ placements'[t].seq = placements[t].seq /\ placements'[t].trade = placements[t].trade
         /\ placements'[t].id = placements[t].id /\ placements'[t].order = placements[t].order
         /\ placements[t] \in Placement
         /\ placements[t].seq \in 0 .. MaxOrders /\ placements[t].order \in 0 .. MaxOrders
         /\ placements[t].trade \in 0 .. MaxOrders /\ placements[t].id \in Paper!AnyId
         /\ \A u \in Threads \ {t} : placements'[u] = placements[u]
         /\ placements' \in [Threads -> Placement]
<1>1. placements \in [Threads -> Placement]
  BY DEF Paper!TypeOK, Placement, Places
<1>2. placements[t].at = here /\ placements' = [placements EXCEPT ![t] = [placements[t] EXCEPT !.at = there]]
  BY DEF Paper!At
<1>3. /\ [placements[t] EXCEPT !.at = there] \in Placement
      /\ [placements[t] EXCEPT !.at = there].at = there
      /\ [placements[t] EXCEPT !.at = there].seq = placements[t].seq
      /\ [placements[t] EXCEPT !.at = there].id = placements[t].id
      /\ [placements[t] EXCEPT !.at = there].order = placements[t].order
      /\ [placements[t] EXCEPT !.at = there].trade = placements[t].trade
      /\ placements[t].seq \in 0 .. MaxOrders /\ placements[t].order \in 0 .. MaxOrders
      /\ placements[t].trade \in 0 .. MaxOrders /\ placements[t].id \in Paper!AnyId
  BY <1>1 DEF Placement
<1> HIDE DEF Placement, Places
<1> QED BY <1>1, <1>2, <1>3

\* What a placement that ends leaves.
LEMMA LeaveStep ==
  ASSUME Paper!TypeOK, NEW t \in Threads, NEW here, Paper!Leave(t, here)
  PROVE  /\ placements[t].at = here /\ placements'[t].at = "idle"
         /\ placements[t].seq \in 0 .. MaxOrders /\ placements[t].trade \in 0 .. MaxOrders
         /\ \A u \in Threads \ {t} : placements'[u] = placements[u]
         /\ placements' \in [Threads -> Placement]
<1>1. placements \in [Threads -> Placement]
  BY DEF Paper!TypeOK, Placement, Places
<1>2. placements[t].at = here /\ placements' = [placements EXCEPT ![t] = Paper!Idle]
  BY DEF Paper!Leave
<1>3. Paper!Idle \in Placement /\ Paper!Idle.at = "idle"
  BY PaperAssumption DEF Paper!Idle, Placement, Places, Paper!AnyId
<1>4. placements[t].seq \in 0 .. MaxOrders /\ placements[t].trade \in 0 .. MaxOrders
  BY <1>1 DEF Placement
<1> HIDE DEF Placement, Places, Paper!Idle
<1> QED BY <1>1, <1>2, <1>3, <1>4

\* The types of the counters and lists.
LEMMA Parts ==
  ASSUME Paper!TypeOK
  PROVE  /\ seq \in Nat /\ tseq \in Nat /\ position \in Nat /\ accepted \in Nat
         /\ orders \in Seq(Paper!Numbers) /\ trades \in Seq(Paper!Numbers)
         /\ Len(orders) \in Nat /\ Len(trades) \in Nat
BY PaperAssumption DEF Paper!TypeOK, Paper!Numbers

\* With the placements typed and moved as a step says.
LEMMA PaperTyped ==
  ASSUME placements' \in [Threads -> Placement], oms' \in BOOLEAN, overlapped' \in BOOLEAN,
         seq' \in 0 .. MaxOrders, tseq' \in 0 .. MaxOrders,
         orders' \in Seq(Paper!Numbers), trades' \in Seq(Paper!Numbers),
         position' \in 0 .. MaxOrders, accepted' \in 0 .. MaxOrders,
         known' \subseteq [id : Paper!AnyId, order : Paper!Numbers],
         booked' \subseteq Paper!Numbers, repeated' \in Nat
  PROVE  Paper!TypeOK'
BY DEF Paper!TypeOK, Placement, Places, Paper!Numbers

\* The only placement under way.
LEMMA Alone ==
  ASSUME AloneBooked, oms, ~overlapped, NEW t \in Threads, placements[t].at # "idle"
  PROVE  \A u \in Threads \ {t} : placements[u].at = "idle"
BY DEF AloneBooked

\* A placement without an OMS, in one step.
LEMMA InternalStep ==
  ASSUME PaperInv, NEW t \in Threads, Paper!PlaceInternal(t)
  PROVE  PaperInv'
<1>1. /\ ~oms /\ Len(orders) + Cardinality(Paper!Busy) < MaxOrders
      /\ seq' = seq + 1 /\ orders' = Append(orders, seq + 1)
      /\ tseq' = tseq + 1 /\ trades' = Append(trades, tseq + 1)
      /\ position' = position + 1 /\ accepted' = accepted + 1
      /\ UNCHANGED <<oms, placements, known, booked, repeated, overlapped>>
  BY PaperCardinality DEF Paper!PlaceInternal, Paper!Room
<1>2. /\ seq = Len(orders) /\ Paper!Busy = {} /\ Paper!Busy' = {}
  BY <1>1 DEF PaperInv, NumbersUsed, Paper!Busy
<1>3. Cardinality(Paper!Busy) = 0
  BY <1>2, FS_EmptySet
<1>4. \A S : "idle" \notin S => Standing(S) = {} /\ Standing(S)' = {}
  BY <1>2 DEF Standing, Paper!Busy
<1>5. \A S : "idle" \notin S => Tally(S) = 0 /\ Tally(S)' = 0
  BY <1>4, FS_EmptySet DEF Tally
<1>6. /\ Tally({"traded"}) = 0 /\ Tally({"booking"}) = 0 /\ Tally({"listed"}) = 0 /\ Tally(Unlisted) = 0
      /\ Tally({"traded"})' = 0 /\ Tally({"booking"})' = 0 /\ Tally({"listed"})' = 0 /\ Tally(Unlisted)' = 0
  BY <1>5 DEF Unlisted
<1>7. /\ seq \in Nat /\ tseq \in Nat /\ position \in Nat /\ accepted \in Nat
      /\ orders \in Seq(Paper!Numbers) /\ trades \in Seq(Paper!Numbers)
      /\ Len(orders) \in Nat /\ Len(trades) \in Nat
  BY Parts DEF PaperInv
<1>8. /\ position = tseq /\ accepted = position /\ Len(trades) = position /\ tseq <= Len(orders)
  BY <1>6, <1>7 DEF PaperInv, Tallied
<1>9. seq + 1 \in 1 .. MaxOrders /\ tseq + 1 \in 1 .. MaxOrders
  BY <1>1, <1>2, <1>3, <1>7, <1>8, PaperAssumption
<1>10. /\ orders' \in Seq(Paper!Numbers) /\ trades' \in Seq(Paper!Numbers)
       /\ Len(orders') = Len(orders) + 1 /\ Len(trades') = Len(trades) + 1
  BY <1>1, <1>7, <1>9 DEF Paper!Numbers
<1>11. Paper!TypeOK'
  BY <1>1, <1>7, <1>8, <1>9, <1>10, PaperAssumption DEF PaperInv, Paper!TypeOK, Paper!Numbers
<1>12. Tallied'
  BY <1>1, <1>2, <1>3, <1>6, <1>7, <1>8, <1>10, PaperAssumption DEF Tallied
<1>13. NumbersUsed'
  BY <1>1, <1>2, <1>10 DEF PaperInv, NumbersUsed, Paper!Busy
<1>14. AloneBooked'
  BY <1>1 DEF AloneBooked
<1> QED BY <1>11, <1>12, <1>13, <1>14 DEF PaperInv

\* A placement begins.
LEMMA CountStep ==
  ASSUME PaperInv, NEW t \in Threads, Paper!Count(t)
  PROVE  PaperInv'
<1>1. /\ oms /\ Len(orders) + Cardinality(Paper!Busy) < MaxOrders /\ seq < MaxOrders
      /\ placements[t].at = "idle"
      /\ seq' = seq + 1 /\ overlapped' = (overlapped \/ Paper!Busy # {})
      /\ UNCHANGED <<oms, tseq, orders, trades, position, known, booked, accepted, repeated>>
  BY PaperCardinality DEF Paper!Count, Paper!Room, Paper!books
<1>2. /\ placements[t].at = "idle" /\ placements'[t].at = "counted"
      /\ placements'[t].id \in Ids \union {0}
      /\ \A u \in Threads \ {t} : placements'[u] = placements[u]
      /\ placements' \in [Threads -> Placement]
  <2>1. PICK id \in Ids \union {0} :
          placements' = [placements EXCEPT ![t] = [Paper!Idle EXCEPT !.at = "counted", !.id = id]]
    BY Zenon DEF Paper!Count
  <2> USE DEF Placement
  <2>4. Paper!Idle \in Placement
    BY PaperAssumption DEF Paper!Idle, Places, Paper!AnyId
  <2>5. id \in Paper!AnyId /\ "counted" \in Places
    BY PaperAssumption DEF Paper!AnyId, Places
  <2>2. /\ [Paper!Idle EXCEPT !.at = "counted", !.id = id] \in Placement
        /\ [Paper!Idle EXCEPT !.at = "counted", !.id = id].at = "counted"
        /\ [Paper!Idle EXCEPT !.at = "counted", !.id = id].id = id
    BY <2>4, <2>5
  <2>3. placements \in [Threads -> Placement]
    BY DEF PaperInv, Paper!TypeOK, Placement, Places
  <2> HIDE DEF Placement, Paper!Idle
  <2> QED BY <1>1, <2>1, <2>2, <2>3
<1>3. /\ Tally({"traded"})' = Tally({"traded"}) /\ Tally({"booking"})' = Tally({"booking"})
      /\ Tally({"listed"})' = Tally({"listed"}) /\ Tally(Unlisted)' = Tally(Unlisted) + 1
      /\ Tally(Filled)' = Tally(Filled) /\ Tally(Unlisted) \in Nat
  BY <1>2, Tallies DEF Unlisted, Filled
<1>4. /\ seq \in Nat /\ tseq \in Nat /\ position \in Nat /\ accepted \in Nat
      /\ Len(orders) \in Nat
  BY Parts DEF PaperInv
<1>5. Paper!TypeOK'
  <2>1. seq' \in 0 .. MaxOrders /\ overlapped' \in BOOLEAN
    BY <1>1, <1>4, PaperAssumption DEF PaperInv, Paper!TypeOK
  <2> QED BY <1>1, <1>2, <2>1, PaperTyped DEF PaperInv, Paper!TypeOK, Paper!Numbers
<1>6. Tally(Unlisted) <= Cardinality(Paper!Busy) /\ Cardinality(Paper!Busy) \in Nat
  <2>1. Standing(Unlisted) \subseteq Paper!Busy /\ Paper!Busy \subseteq Threads
    BY DEF Standing, Paper!Busy, Unlisted
  <2>2. IsFiniteSet(Paper!Busy)
    BY <2>1, PaperAssumption, FS_Subset
  <2> QED BY <2>1, <2>2, FS_Subset, FS_CardinalityType DEF Tally
<1>7. Tallied'
  BY <1>1, <1>3, <1>4, <1>6, PaperAssumption DEF PaperInv, Tallied
<1>8. NumbersUsed'
  BY <1>1, <1>2, <1>4 DEF PaperInv, NumbersUsed, Paper!Busy
<1>9. AloneBooked'
  <2> SUFFICES ASSUME ~overlapped'
               PROVE  AloneBooked'
    BY DEF AloneBooked
  <2>1. ~overlapped /\ \A u \in Threads : placements[u].at = "idle"
    BY <1>1 DEF Paper!Busy
  <2>2. \A u \in Threads \ {t} : placements'[u].at = "idle"
    BY <1>2, <2>1
  <2>3. /\ booked = 1 .. accepted /\ IsFiniteSet(known)
        /\ Cardinality(known) + repeated = accepted + Tally(Filled)
        /\ \A k \in known : k.id \in Ids \/ k.id \in 1 .. seq
    BY <1>1, <2>1 DEF PaperInv, AloneBooked
  <2>4. \A k \in known' : (k.id \in Ids \/ k.id \in 1 .. seq') /\ (k.id = seq' => k.id \in Ids)
    BY <1>1, <1>4, <2>3
  <2> QED BY <1>1, <1>2, <1>3, <2>2, <2>3, <2>4 DEF AloneBooked
<1> QED BY <1>5, <1>7, <1>8, <1>9 DEF PaperInv

\* It reads its number.
LEMMA NumberStep ==
  ASSUME PaperInv, NEW t \in Threads, Paper!Number(t)
  PROVE  PaperInv'
<1>1. /\ placements[t].at = "counted"
      /\ placements' = [placements EXCEPT ![t] =
                          [placements[t] EXCEPT !.at = "numbered", !.seq = seq,
                             !.id = IF placements[t].id = 0 THEN seq ELSE placements[t].id,
                             !.order = seq]]
      /\ UNCHANGED <<oms, seq, tseq, orders, trades, position, known, booked, accepted, repeated, overlapped>>
  BY DEF Paper!Number, Paper!counts, Paper!books
<1>2. /\ placements'[t].at = "numbered" /\ placements'[t].seq = seq /\ placements'[t].order = seq
      /\ placements'[t].id = IF placements[t].id = 0 THEN seq ELSE placements[t].id
      /\ \A u \in Threads \ {t} : placements'[u] = placements[u]
      /\ placements' \in [Threads -> Placement]
  <2> DEFINE id == IF placements[t].id = 0 THEN seq ELSE placements[t].id
  <2>1. placements \in [Threads -> Placement] /\ seq \in 0 .. MaxOrders /\ "numbered" \in Places
    BY DEF PaperInv, Paper!TypeOK, Placement, Places
  <2>2. id \in Paper!AnyId
    BY <2>1 DEF Placement, Paper!AnyId
  <2>3. placements' = [placements EXCEPT ![t] =
                         [placements[t] EXCEPT !.at = "numbered", !.seq = seq, !.id = id, !.order = seq]]
    BY <1>1
  <2> HIDE DEF id
  <2>4. /\ [placements[t] EXCEPT !.at = "numbered", !.seq = seq, !.id = id, !.order = seq] \in Placement
        /\ [placements[t] EXCEPT !.at = "numbered", !.seq = seq, !.id = id, !.order = seq].at = "numbered"
        /\ [placements[t] EXCEPT !.at = "numbered", !.seq = seq, !.id = id, !.order = seq].seq = seq
        /\ [placements[t] EXCEPT !.at = "numbered", !.seq = seq, !.id = id, !.order = seq].id = id
        /\ [placements[t] EXCEPT !.at = "numbered", !.seq = seq, !.id = id, !.order = seq].order = seq
    BY <2>1, <2>2 DEF Placement
  <2>5. /\ placements'[t].at = "numbered" /\ placements'[t].seq = seq /\ placements'[t].id = id
        /\ placements'[t].order = seq
        /\ \A u \in Threads \ {t} : placements'[u] = placements[u]
        /\ placements' \in [Threads -> Placement]
    BY <2>1, <2>3, <2>4
  <2> QED BY <2>5 DEF id
<1>3. /\ Tally({"traded"})' = Tally({"traded"}) /\ Tally({"booking"})' = Tally({"booking"})
      /\ Tally({"listed"})' = Tally({"listed"}) /\ Tally(Unlisted)' = Tally(Unlisted)
      /\ Tally(Filled)' = Tally(Filled) /\ Tally(Unlisted) \in Nat
  BY <1>1, <1>2, Tallies DEF Unlisted, Filled
<1>5. Paper!TypeOK'
  BY <1>1, <1>2, PaperTyped DEF PaperInv, Paper!TypeOK, Paper!Numbers
<1>7. Tallied'
  BY <1>1, <1>3 DEF PaperInv, Tallied
<1>8. NumbersUsed'
  BY <1>1, <1>2 DEF PaperInv, NumbersUsed, Paper!Busy
<1>9. AloneBooked'
  BY <1>1, <1>2, <1>3 DEF PaperInv, AloneBooked
<1> QED BY <1>5, <1>7, <1>8, <1>9 DEF PaperInv

\* There is no price.
LEMMA NoPriceStep ==
  ASSUME PaperInv, NEW t \in Threads, Paper!NoPrice(t)
  PROVE  PaperInv'
<1>1. /\ Paper!Leave(t, "numbered")
      /\ UNCHANGED <<oms, seq, tseq, orders, trades, position, known, booked, accepted, repeated, overlapped>>
  BY DEF Paper!NoPrice, Paper!counts, Paper!books
<1>2. /\ placements[t].at = "numbered" /\ placements'[t].at = "idle"
      /\ \A u \in Threads \ {t} : placements'[u] = placements[u]
      /\ placements' \in [Threads -> Placement]
  BY <1>1, LeaveStep DEF PaperInv
<1>3. /\ Tally({"traded"})' = Tally({"traded"}) /\ Tally({"booking"})' = Tally({"booking"})
      /\ Tally({"listed"})' = Tally({"listed"}) /\ Tally(Unlisted)' = Tally(Unlisted) - 1
      /\ Tally(Filled)' = Tally(Filled) /\ Tally(Unlisted) \in Nat
  BY <1>2, Tallies DEF Unlisted, Filled
<1>4. Len(orders) \in Nat
  BY Parts DEF PaperInv
<1>5. Paper!TypeOK'
  BY <1>1, <1>2, PaperTyped DEF PaperInv, Paper!TypeOK, Paper!Numbers
<1>7. Tallied'
  BY <1>1, <1>3, <1>4, PaperAssumption DEF PaperInv, Tallied
<1>8. NumbersUsed'
  BY <1>1, <1>2 DEF PaperInv, NumbersUsed, Paper!Busy
<1>9. AloneBooked'
  BY <1>1, <1>2, <1>3 DEF PaperInv, AloneBooked
<1> QED BY <1>5, <1>7, <1>8, <1>9 DEF PaperInv

\* The OMS rejects it.
LEMMA RefusedStep ==
  ASSUME PaperInv, NEW t \in Threads, Paper!At(t, "numbered", "rejected"),
         UNCHANGED <<oms, seq, tseq, orders, trades, position, known, booked, accepted, repeated, overlapped>>
  PROVE  PaperInv'
<1>1. /\ placements[t].at = "numbered" /\ placements'[t].at = "rejected"
      /\ placements'[t].seq = placements[t].seq
      /\ \A u \in Threads \ {t} : placements'[u] = placements[u]
      /\ placements' \in [Threads -> Placement]
  BY AtStep DEF PaperInv, Places
<1>2. /\ Tally({"traded"})' = Tally({"traded"}) /\ Tally({"booking"})' = Tally({"booking"})
      /\ Tally({"listed"})' = Tally({"listed"}) /\ Tally(Unlisted)' = Tally(Unlisted)
      /\ Tally(Filled)' = Tally(Filled)
  BY <1>1, Tallies DEF Unlisted, Filled
<1>3. Paper!TypeOK'
  BY <1>1, PaperTyped DEF PaperInv, Paper!TypeOK, Paper!Numbers
<1>4. Tallied'
  BY <1>2 DEF PaperInv, Tallied
<1>5. NumbersUsed'
  BY <1>1 DEF PaperInv, NumbersUsed, Paper!Busy
<1>6. AloneBooked'
  BY <1>1, <1>2 DEF PaperInv, AloneBooked
<1> QED BY <1>3, <1>4, <1>5, <1>6 DEF PaperInv

\* The OMS has filled it, now or before: alone, it knows one order more or has
\* been asked for one that it knew.
LEMMA FilledStep ==
  ASSUME PaperInv, NEW t \in Threads,
         placements[t].at = "numbered", placements'[t].at = "filled",
         placements'[t].seq = placements[t].seq, placements'[t].order # 0,
         \A u \in Threads \ {t} : placements'[u] = placements[u],
         placements' \in [Threads -> Placement],
         UNCHANGED <<oms, seq, tseq, orders, trades, position, booked, accepted, overlapped>>,
         known' \subseteq [id : Paper!AnyId, order : Paper!Numbers], repeated' \in Nat,
         oms /\ ~overlapped =>
           /\ IsFiniteSet(known') /\ Cardinality(known') + repeated' = accepted + Tally(Filled) + 1
           /\ \A k \in known' : k.id \in Ids \/ k.id \in 1 .. seq
  PROVE  PaperInv'
<1>1. /\ Tally({"traded"})' = Tally({"traded"}) /\ Tally({"booking"})' = Tally({"booking"})
      /\ Tally({"listed"})' = Tally({"listed"}) /\ Tally(Unlisted)' = Tally(Unlisted)
      /\ Tally(Filled)' = Tally(Filled) + 1 /\ Tally(Filled) \in Nat
  BY Tallies DEF Unlisted, Filled
<1>2. Paper!TypeOK'
  BY PaperTyped DEF PaperInv, Paper!TypeOK, Paper!Numbers
<1>3. Tallied'
  BY <1>1 DEF PaperInv, Tallied
<1>4. NumbersUsed'
  BY DEF PaperInv, NumbersUsed, Paper!Busy
<1>5. AloneBooked'
  <2> SUFFICES ASSUME oms', ~overlapped' PROVE AloneBooked'
    BY DEF AloneBooked
  <2>1. oms /\ ~overlapped
    OBVIOUS
  <2>2. placements[t].seq = seq /\ booked = 1 .. accepted
    BY <2>1 DEF PaperInv, AloneBooked
  <2>3. \A u \in Threads \ {t} : placements[u].at = "idle"
    BY <2>1, Alone DEF PaperInv
  <2>4. \A u \in Threads \ {t} : placements'[u].at = "idle"
    BY <2>3
  <2>5. accepted \in Nat
    BY Parts DEF PaperInv
  <2>6. IsFiniteSet(known') /\ Cardinality(known') + repeated' = accepted' + Tally(Filled)'
    BY <1>1, <2>1, <2>5
  <2> QED BY <2>1, <2>2, <2>4, <2>6 DEF AloneBooked
<1> QED BY <1>2, <1>3, <1>4, <1>5 DEF PaperInv

\* The OMS answers.
LEMMA SubmitStep ==
  ASSUME PaperInv, NEW t \in Threads, Paper!Submit(t)
  PROVE  PaperInv'
<1>1. UNCHANGED <<oms, seq, tseq, orders, trades, position, booked, accepted, overlapped>>
  BY DEF Paper!Submit, Paper!counts, Paper!books
<1>2. known \subseteq [id : Paper!AnyId, order : Paper!Numbers] /\ repeated \in Nat
  BY DEF PaperInv, Paper!TypeOK
<1>3. CASE Paper!SubmitNew(t) /\ Paper!At(t, "numbered", "rejected") /\ known' = known
  BY <1>1, <1>3, RefusedStep DEF Paper!SubmitNew
<1>4. CASE /\ Paper!SubmitNew(t) /\ Paper!At(t, "numbered", "filled")
           /\ known' = known \union {[id |-> placements[t].id, order |-> placements[t].seq]}
  <2> DEFINE new == [id |-> placements[t].id, order |-> placements[t].seq]
  <2>1. /\ placements[t].at = "numbered" /\ placements'[t].at = "filled"
        /\ placements'[t].seq = placements[t].seq /\ placements'[t].order = placements[t].order
        /\ placements[t].seq \in 0 .. MaxOrders /\ placements[t].id \in Paper!AnyId
        /\ \A u \in Threads \ {t} : placements'[u] = placements[u]
        /\ placements' \in [Threads -> Placement]
    <3>1. Paper!At(t, "numbered", "filled")
      BY <1>4
    <3>2. "filled" \in Places /\ Paper!TypeOK
      BY DEF PaperInv, Places
    <3> QED BY <3>1, <3>2, AtStep, Zenon
  <2>2. placements[t].seq # 0 /\ placements[t].order # 0
    BY <2>1 DEF PaperInv, NumbersUsed
  <2>3. placements[t].seq \in Paper!Numbers
    BY <2>1, <2>2, PaperAssumption DEF Paper!Numbers
  <2>4. new \in [id : Paper!AnyId, order : Paper!Numbers] /\ new.id = placements[t].id
    BY <2>1, <2>3
  <2>5. repeated' = repeated /\ new \notin known /\ known' = known \union {new}
    BY <1>4, <2>4 DEF Paper!SubmitNew
  <2> HIDE DEF new
  <2>6. known' \subseteq [id : Paper!AnyId, order : Paper!Numbers]
    BY <1>2, <2>4, <2>5
  <2>7. ASSUME oms, ~overlapped
        PROVE  /\ IsFiniteSet(known') /\ Cardinality(known') + repeated' = accepted + Tally(Filled) + 1
               /\ \A k \in known' : k.id \in Ids \/ k.id \in 1 .. seq
    <3>1. /\ IsFiniteSet(known) /\ Cardinality(known) + repeated = accepted + Tally(Filled)
          /\ \A k \in known : k.id \in Ids \/ k.id \in 1 .. seq
          /\ placements[t].id \in Ids \/ placements[t].id = seq
          /\ placements[t].seq = seq
      BY <2>1, <2>7 DEF PaperInv, AloneBooked
    <3>2. IsFiniteSet(known') /\ Cardinality(known') = Cardinality(known) + 1
      BY <2>5, <3>1, FS_AddElement
    <3>3. Cardinality(known) \in Nat /\ accepted \in Nat /\ Tally(Filled) \in Nat
      BY <3>1, FS_CardinalityType, Counted, Parts DEF PaperInv
    <3>4. seq \in 1 .. seq
      BY <2>2, <3>1, Parts DEF PaperInv
    <3>5. \A k \in known' : k.id \in Ids \/ k.id \in 1 .. seq
      BY <2>4, <2>5, <3>1, <3>4
    <3>6. Cardinality(known') + repeated' = accepted + Tally(Filled) + 1
      BY <1>2, <2>5, <3>1, <3>2, <3>3
    <3> QED BY <3>2, <3>5, <3>6
  <2> QED BY <1>1, <1>2, <2>1, <2>2, <2>5, <2>6, <2>7, FilledStep
<1>5. CASE Paper!SubmitKnown(t)
  <2>1. PICK k \in known :
          /\ k.id = placements[t].id
          /\ placements' = [placements EXCEPT ![t] = [placements[t] EXCEPT !.at = "filled", !.order = k.order]]
    BY <1>5, Zenon DEF Paper!SubmitKnown
  <2>2. /\ placements[t].at = "numbered" /\ known' = known
        /\ repeated' = IF placements[t].id \in Ids THEN repeated + 1 ELSE repeated
    BY <1>5 DEF Paper!SubmitKnown
  <2>3. k.order \in Paper!Numbers /\ k.order \in 0 .. MaxOrders /\ k.order # 0
    BY <1>2, <2>1, PaperAssumption DEF Paper!Numbers
  <2>4. /\ placements'[t].at = "filled" /\ placements'[t].order = k.order
        /\ placements'[t].seq = placements[t].seq
        /\ \A u \in Threads \ {t} : placements'[u] = placements[u]
        /\ placements' \in [Threads -> Placement]
    <3>1. placements \in [Threads -> Placement] /\ "filled" \in Places
      BY DEF PaperInv, Paper!TypeOK, Placement, Places
    <3>2. /\ [placements[t] EXCEPT !.at = "filled", !.order = k.order] \in Placement
          /\ [placements[t] EXCEPT !.at = "filled", !.order = k.order].at = "filled"
          /\ [placements[t] EXCEPT !.at = "filled", !.order = k.order].order = k.order
          /\ [placements[t] EXCEPT !.at = "filled", !.order = k.order].seq = placements[t].seq
      BY <2>3, <3>1 DEF Placement
    <3> HIDE DEF Placement, Places
    <3> QED BY <2>1, <3>1, <3>2
  <2>5. repeated' \in Nat
    BY <1>2, <2>2
  <2>6. ASSUME oms, ~overlapped
        PROVE  /\ IsFiniteSet(known') /\ Cardinality(known') + repeated' = accepted + Tally(Filled) + 1
               /\ \A d \in known' : d.id \in Ids \/ d.id \in 1 .. seq
    <3>1. /\ IsFiniteSet(known) /\ Cardinality(known) + repeated = accepted + Tally(Filled)
          /\ \A d \in known : d.id \in Ids \/ d.id \in 1 .. seq
          /\ \A d \in known : d.id = seq => d.id \in Ids
          /\ placements[t].id \in Ids \/ placements[t].id = seq
      BY <2>2, <2>6 DEF PaperInv, AloneBooked
    <3>2. placements[t].id \in Ids
      BY <2>1, <3>1
    <3>3. Cardinality(known) \in Nat /\ accepted \in Nat /\ Tally(Filled) \in Nat
      BY <3>1, FS_CardinalityType, Counted, Parts DEF PaperInv
    <3>4. Cardinality(known) + repeated' = accepted + Tally(Filled) + 1
      BY <1>2, <2>2, <3>1, <3>2, <3>3
    <3> QED BY <2>2, <3>1, <3>4
  <2> QED BY <1>1, <1>2, <2>2, <2>3, <2>4, <2>5, <2>6, FilledStep
<1> QED BY <1>3, <1>4, <1>5 DEF Paper!Submit, Paper!SubmitNew

\* A rejected order is listed.
LEMMA RejectStep ==
  ASSUME PaperInv, NEW t \in Threads, Paper!Reject(t)
  PROVE  PaperInv'
<1>1. /\ Paper!Leave(t, "rejected") /\ orders' = Append(orders, placements[t].seq)
      /\ UNCHANGED <<oms, seq, tseq, trades, position, known, booked, accepted, repeated, overlapped>>
  BY DEF Paper!Reject, Paper!counts
<1>2. /\ placements[t].at = "rejected" /\ placements'[t].at = "idle"
      /\ placements[t].seq \in 0 .. MaxOrders
      /\ \A u \in Threads \ {t} : placements'[u] = placements[u]
      /\ placements' \in [Threads -> Placement]
  BY <1>1, LeaveStep DEF PaperInv
<1>3. /\ Tally({"traded"})' = Tally({"traded"}) /\ Tally({"booking"})' = Tally({"booking"})
      /\ Tally({"listed"})' = Tally({"listed"}) /\ Tally(Unlisted)' = Tally(Unlisted) - 1
      /\ Tally(Filled)' = Tally(Filled) /\ Tally(Unlisted) \in Nat /\ Tally({"listed"}) \in Nat
  BY <1>2, Tallies DEF Unlisted, Filled
<1>4. tseq \in Nat /\ Len(orders) \in Nat /\ orders \in Seq(Paper!Numbers) /\ Len(orders') = Len(orders) + 1
      /\ placements[t].seq \in Paper!Numbers /\ orders' \in Seq(Paper!Numbers)
  BY <1>1, <1>2, Parts, PaperAssumption DEF PaperInv, NumbersUsed, Paper!Numbers
<1>5. Paper!TypeOK'
  BY <1>1, <1>2, <1>4, PaperTyped DEF PaperInv, Paper!TypeOK, Paper!Numbers
<1>7. Tallied'
  BY <1>1, <1>3, <1>4, PaperAssumption DEF PaperInv, Tallied
<1>8. NumbersUsed'
  BY <1>1, <1>2 DEF PaperInv, NumbersUsed, Paper!Busy
<1>9. AloneBooked'
  BY <1>1, <1>2, <1>3 DEF PaperInv, AloneBooked
<1> QED BY <1>5, <1>7, <1>8, <1>9 DEF PaperInv

\* A filled order is listed, and the counter set back.
LEMMA PaperListStep ==
  ASSUME PaperInv, NEW t \in Threads, Paper!List(t)
  PROVE  PaperInv'
<1>1. /\ Paper!At(t, "filled", "listed") /\ orders' = Append(orders, placements[t].order)
      /\ seq' = placements[t].seq
      /\ UNCHANGED <<oms, tseq, trades, position, known, booked, accepted, repeated, overlapped>>
  BY DEF Paper!List
<1>2. /\ placements[t].at = "filled" /\ placements'[t].at = "listed"
      /\ placements[t].seq \in 0 .. MaxOrders /\ placements[t].seq # 0
      /\ placements[t].order \in 0 .. MaxOrders /\ placements[t].order # 0
      /\ \A u \in Threads \ {t} : placements'[u] = placements[u]
      /\ placements' \in [Threads -> Placement]
  BY <1>1, AtStep DEF PaperInv, Places, NumbersUsed
<1>3. /\ Tally({"traded"})' = Tally({"traded"}) /\ Tally({"booking"})' = Tally({"booking"})
      /\ Tally({"listed"})' = Tally({"listed"}) + 1 /\ Tally(Unlisted)' = Tally(Unlisted) - 1
      /\ Tally(Filled)' = Tally(Filled) /\ Tally(Unlisted) \in Nat /\ Tally({"listed"}) \in Nat
  BY <1>2, Tallies DEF Unlisted, Filled
<1>4. tseq \in Nat /\ Len(orders) \in Nat /\ orders \in Seq(Paper!Numbers) /\ Len(orders') = Len(orders) + 1
      /\ placements[t].order \in Paper!Numbers /\ orders' \in Seq(Paper!Numbers)
  BY <1>1, <1>2, Parts, PaperAssumption DEF PaperInv, Paper!Numbers
<1>5. Paper!TypeOK'
  BY <1>1, <1>2, <1>4, PaperTyped DEF PaperInv, Paper!TypeOK, Paper!Numbers
<1>7. Tallied'
  BY <1>1, <1>3, <1>4, PaperAssumption DEF PaperInv, Tallied
<1>8. NumbersUsed'
  <2>1. oms
    BY <1>2 DEF PaperInv, NumbersUsed, Paper!Busy
  <2> QED BY <1>1, <1>2, <2>1 DEF PaperInv, NumbersUsed
<1>9. AloneBooked'
  <2>1. CASE oms /\ ~overlapped
    <3>1. seq' = seq
      BY <1>1, <1>2, <2>1 DEF PaperInv, AloneBooked
    <3> QED BY <1>1, <1>2, <1>3, <3>1 DEF PaperInv, AloneBooked
  <2>2. CASE ~(oms /\ ~overlapped)
    BY <1>1, <2>2 DEF AloneBooked
  <2> QED BY <2>1, <2>2
<1> QED BY <1>5, <1>7, <1>8, <1>9 DEF PaperInv

\* Its trade is counted.
LEMMA CountTradeStep ==
  ASSUME PaperInv, NEW t \in Threads, Paper!CountTrade(t)
  PROVE  PaperInv'
<1>1. /\ Paper!At(t, "listed", "traded") /\ tseq' = tseq + 1
      /\ UNCHANGED <<oms, seq, orders, trades, position, known, booked, accepted, repeated, overlapped>>
  BY DEF Paper!CountTrade, Paper!books
<1>2. /\ placements[t].at = "listed" /\ placements'[t].at = "traded"
      /\ \A u \in Threads \ {t} : placements'[u] = placements[u]
      /\ placements' \in [Threads -> Placement]
  BY <1>1, AtStep DEF PaperInv, Places
<1>3. /\ Tally({"traded"})' = Tally({"traded"}) + 1 /\ Tally({"booking"})' = Tally({"booking"})
      /\ Tally({"listed"})' = Tally({"listed"}) - 1 /\ Tally(Unlisted)' = Tally(Unlisted)
      /\ Tally(Filled)' = Tally(Filled) /\ Tally(Unlisted) \in Nat /\ Tally({"listed"}) \in Nat
      /\ Tally({"listed"})' \in Nat /\ Tally({"traded"}) \in Nat
  <2>1. (Tally({"traded"}) \in Nat /\ Tally({"booking"}) \in Nat /\ Tally({"listed"}) \in Nat)'
    BY CountedNow, PTL
  <2> QED BY <1>2, <2>1, Tallies DEF Unlisted, Filled
<1>4. tseq \in Nat /\ position \in Nat /\ Len(orders) \in Nat
  BY Parts DEF PaperInv
<1>5. Paper!TypeOK'
  <2>1. tseq' \in 0 .. MaxOrders
    BY <1>1, <1>3, <1>4, PaperAssumption DEF PaperInv, Tallied
  <2> QED BY <1>1, <1>2, <2>1, PaperTyped DEF PaperInv, Paper!TypeOK, Paper!Numbers
<1>7. Tallied'
  BY <1>1, <1>3, <1>4 DEF PaperInv, Tallied
<1>8. NumbersUsed'
  BY <1>1, <1>2 DEF PaperInv, NumbersUsed, Paper!Busy
<1>9. AloneBooked'
  BY <1>1, <1>2, <1>3 DEF PaperInv, AloneBooked
<1> QED BY <1>5, <1>7, <1>8, <1>9 DEF PaperInv

\* The trade and the position are booked.
LEMMA BookTradeStep ==
  ASSUME PaperInv, NEW t \in Threads, Paper!BookTrade(t)
  PROVE  PaperInv'
<1>1. /\ placements[t].at = "traded"
      /\ placements' = [placements EXCEPT ![t] = [placements[t] EXCEPT !.at = "booking", !.trade = tseq]]
      /\ trades' = Append(trades, tseq) /\ position' = position + 1
      /\ UNCHANGED <<oms, seq, tseq, orders, known, booked, accepted, repeated, overlapped>>
  BY DEF Paper!BookTrade, Paper!counts
<1>2. /\ placements'[t].at = "booking" /\ placements'[t].trade = tseq
      /\ \A u \in Threads \ {t} : placements'[u] = placements[u]
      /\ placements' \in [Threads -> Placement]
  <2>1. placements \in [Threads -> Placement] /\ tseq \in 0 .. MaxOrders /\ "booking" \in Places
    BY DEF PaperInv, Paper!TypeOK, Placement, Places
  <2>2. /\ [placements[t] EXCEPT !.at = "booking", !.trade = tseq] \in Placement
        /\ [placements[t] EXCEPT !.at = "booking", !.trade = tseq].at = "booking"
        /\ [placements[t] EXCEPT !.at = "booking", !.trade = tseq].trade = tseq
    BY <2>1 DEF Placement
  <2> QED BY <1>1, <2>1, <2>2
<1>3. /\ Tally({"traded"})' = Tally({"traded"}) - 1 /\ Tally({"booking"})' = Tally({"booking"}) + 1
      /\ Tally({"listed"})' = Tally({"listed"}) /\ Tally(Unlisted)' = Tally(Unlisted)
      /\ Tally(Filled)' = Tally(Filled) /\ Tally({"traded"})' \in Nat /\ Tally({"traded"}) \in Nat /\ Tally({"booking"}) \in Nat
  <2>1. (Tally({"traded"}) \in Nat /\ Tally({"booking"}) \in Nat /\ Tally({"listed"}) \in Nat)'
    BY CountedNow, PTL
  <2>2. \A u \in Threads \ {t} : placements'[u] = placements[u]
    BY <1>2
  <2>3. /\ Tally({"traded"})' = Tally({"traded"}) - 1 + 0 /\ Tally({"booking"})' = Tally({"booking"}) - 0 + 1
        /\ Tally({"listed"})' = Tally({"listed"}) - 0 + 0
        /\ Tally(Unlisted)' = Tally(Unlisted) - 0 + 0 /\ Tally(Filled)' = Tally(Filled) - 1 + 1
        /\ Tally({"traded"}) \in Nat /\ Tally({"booking"}) \in Nat /\ Tally({"listed"}) \in Nat
        /\ Tally(Unlisted) \in Nat /\ Tally(Filled) \in Nat
    <3>1. /\ "traded" \in Filled /\ "booking" \in Filled
          /\ "traded" \notin Unlisted /\ "booking" \notin Unlisted
      BY DEF Unlisted, Filled
    <3> QED BY <1>1, <1>2, <2>2, <3>1, Tallies
  <2> QED BY <2>1, <2>3
<1>4. /\ tseq \in Nat /\ position \in Nat /\ accepted \in Nat /\ trades \in Seq(Paper!Numbers) /\ tseq \in 0 .. MaxOrders
      /\ Len(trades) \in Nat
  BY Parts DEF PaperInv, Paper!TypeOK
<1>5. tseq # 0 /\ position + 1 <= tseq
  BY <1>3, <1>4 DEF PaperInv, Tallied
<1>6. trades' \in Seq(Paper!Numbers) /\ Len(trades') = Len(trades) + 1
  <2>1. tseq \in Paper!Numbers
    BY <1>4, <1>5, PaperAssumption DEF Paper!Numbers
  <2> QED BY <1>1, <1>4, <2>1
<1>7. Paper!TypeOK'
  <2>1. position' \in 0 .. MaxOrders
    BY <1>1, <1>4, <1>5, PaperAssumption
  <2> QED BY <1>1, <1>2, <1>6, <2>1, PaperTyped DEF PaperInv, Paper!TypeOK, Paper!Numbers
<1>8. Tallied'
  BY <1>1, <1>3, <1>4, <1>6 DEF PaperInv, Tallied
<1>9. NumbersUsed'
  BY <1>1, <1>2, <1>5 DEF PaperInv, NumbersUsed, Paper!Busy
<1>10. AloneBooked'
  <2> SUFFICES ASSUME oms, ~overlapped PROVE AloneBooked'
    BY <1>1 DEF AloneBooked
  <2>1. \A u \in Threads \ {t} : placements[u].at = "idle"
    BY <1>1, Alone DEF PaperInv
  <2>2. Standing({"traded"}) = {t} /\ Standing({"booking"}) = {}
    BY <1>1, <2>1 DEF Standing
  <2>3. Tally({"traded"}) = 1 /\ Tally({"booking"}) = 0
    BY <2>2, FS_EmptySet, FS_Singleton DEF Tally
  <2>4. tseq = accepted + 1
    BY <1>4, <2>3 DEF PaperInv, Tallied
  <2>5. \A u \in Threads \ {t} : placements'[u].at = "idle"
    BY <1>2, <2>1
  <2>6. /\ booked = 1 .. accepted /\ IsFiniteSet(known)
        /\ Cardinality(known) + repeated = accepted + Tally(Filled)
        /\ \A k \in known : k.id \in Ids \/ k.id \in 1 .. seq
    BY DEF PaperInv, AloneBooked
  <2> QED BY <1>1, <1>2, <1>3, <2>4, <2>5, <2>6 DEF AloneBooked
<1> QED BY <1>7, <1>8, <1>9, <1>10 DEF PaperInv

\* The OMS books the trade, and the caller is told.
LEMMA RecordStep ==
  ASSUME PaperInv, NEW t \in Threads, Paper!RecordTrade(t)
  PROVE  PaperInv'
<1>1. /\ Paper!Leave(t, "booking") /\ booked' = booked \cup {placements[t].trade}
      /\ accepted' = accepted + 1
      /\ UNCHANGED <<oms, seq, tseq, orders, trades, position, known, repeated, overlapped>>
  BY DEF Paper!RecordTrade, Paper!counts, Paper!books
<1>2. /\ placements[t].at = "booking" /\ placements'[t].at = "idle"
      /\ placements[t].trade \in 0 .. MaxOrders
      /\ \A u \in Threads \ {t} : placements'[u] = placements[u]
      /\ placements' \in [Threads -> Placement]
  BY <1>1, LeaveStep DEF PaperInv
<1>3. /\ Tally({"traded"})' = Tally({"traded"}) /\ Tally({"booking"})' = Tally({"booking"}) - 1
      /\ Tally({"listed"})' = Tally({"listed"}) /\ Tally(Unlisted)' = Tally(Unlisted)
      /\ Tally(Filled)' = Tally(Filled) - 1 /\ Tally({"booking"})' \in Nat /\ Tally({"booking"}) \in Nat /\ Tally(Filled) \in Nat
  <2>1. (Tally({"traded"}) \in Nat /\ Tally({"booking"}) \in Nat /\ Tally({"listed"}) \in Nat)'
    BY CountedNow, PTL
  <2> QED BY <1>1, <1>2, <2>1, Tallies DEF Unlisted, Filled
<1>4. position \in Nat /\ accepted \in Nat /\ position \in 0 .. MaxOrders
  BY Parts DEF PaperInv, Paper!TypeOK
<1>5. Paper!TypeOK'
  <2>1. accepted' \in 0 .. MaxOrders
    BY <1>1, <1>3, <1>4, PaperAssumption DEF PaperInv, Tallied
  <2>2. placements[t].trade \in Paper!Numbers
    BY <1>2, PaperAssumption DEF PaperInv, NumbersUsed, Paper!Numbers
  <2>3. booked' \subseteq Paper!Numbers
    BY <1>1, <2>2 DEF PaperInv, Paper!TypeOK, Paper!Numbers
  <2> QED BY <1>1, <1>2, <2>1, <2>3, PaperTyped DEF PaperInv, Paper!TypeOK, Paper!Numbers
<1>7. Tallied'
  BY <1>1, <1>3, <1>4 DEF PaperInv, Tallied
<1>8. NumbersUsed'
  BY <1>1, <1>2 DEF PaperInv, NumbersUsed, Paper!Busy
<1>9. AloneBooked'
  <2> SUFFICES ASSUME oms, ~overlapped PROVE AloneBooked'
    BY <1>1 DEF AloneBooked
  <2>1. \A u \in Threads \ {t} : placements'[u].at = "idle"
    BY <1>2, Alone DEF PaperInv
  <2>2. /\ booked = 1 .. accepted /\ IsFiniteSet(known)
        /\ Cardinality(known) + repeated = accepted + Tally(Filled) /\ placements[t].trade = accepted + 1
        /\ \A k \in known : k.id \in Ids \/ k.id \in 1 .. seq
    BY <1>2 DEF PaperInv, AloneBooked
  <2>3. booked' = 1 .. accepted'
    BY <1>1, <1>4, <2>2
  <2>4. IsFiniteSet(known') /\ Cardinality(known') + repeated' = accepted' + Tally(Filled)'
    BY <1>1, <1>3, <1>4, <2>2
  <2> QED BY <1>1, <1>2, <2>1, <2>2, <2>3, <2>4 DEF AloneBooked
<1> QED BY <1>5, <1>7, <1>8, <1>9 DEF PaperInv

\* The paper broker keeps its invariant.
THEOREM PaperInvariant == Paper!Spec => []PaperInv
<1>1. Paper!Init => PaperInv
  <2> SUFFICES ASSUME Paper!Init PROVE PaperInv
    OBVIOUS
  <2>0. 0 \in 0 .. MaxOrders
    BY PaperAssumption
  <2>1. Paper!TypeOK
    <3>1. Paper!Idle \in [at : {"idle", "counted", "numbered", "filled", "rejected",
                          "listed", "traded", "booking"},
                    seq : 0 .. MaxOrders, id : Paper!AnyId, order : 0 .. MaxOrders,
                    trade : 0 .. MaxOrders]
      BY <2>0 DEF Paper!Idle, Paper!AnyId
    <3>2. orders \in Seq(Paper!Numbers) /\ trades \in Seq(Paper!Numbers)
      BY DEF Paper!Init
    <3> QED BY <2>0, <3>1, <3>2 DEF Paper!Init, Paper!TypeOK
  <2>2. \A S : "idle" \notin S => Standing(S) = {}
    BY DEF Paper!Init, Paper!Idle, Standing
  <2>3. \A S : "idle" \notin S => Tally(S) = 0
    BY <2>2, FS_EmptySet DEF Tally
  <2>4. Tally({"traded"}) = 0 /\ Tally({"booking"}) = 0 /\ Tally({"listed"}) = 0 /\ Tally(Unlisted) = 0 /\ Tally(Filled) = 0
    BY <2>3 DEF Unlisted, Filled
  <2>5. Len(orders) = 0 /\ Len(trades) = 0
    BY DEF Paper!Init
  <2>6. Tallied
    BY <2>4, <2>5, PaperAssumption DEF Paper!Init, Tallied
  <2>7. NumbersUsed
    BY <2>5 DEF Paper!Init, NumbersUsed, Paper!Busy, Paper!Idle
  <2>8. AloneBooked
    BY <2>4, FS_EmptySet DEF Paper!Init, AloneBooked, Paper!Idle
  <2> QED BY <2>1, <2>6, <2>7, <2>8 DEF PaperInv
<1>2. PaperInv /\ [Paper!Next]_(Paper!vars) => PaperInv'
  <2> SUFFICES ASSUME PaperInv, [Paper!Next]_(Paper!vars) PROVE PaperInv'
    OBVIOUS
  <2>1. CASE UNCHANGED Paper!vars
    <3>1. UNCHANGED <<oms, seq, tseq, placements, orders, trades, position, known, booked, accepted, repeated, overlapped>>
      BY <2>1 DEF Paper!vars
    <3>2. \A S : Tally(S)' = Tally(S)
      BY <3>1 DEF Tally, Standing
    <3>3. Filled' = Filled /\ Unlisted' = Unlisted
      BY DEF Filled, Unlisted
    <3>4. Paper!TypeOK' /\ NumbersUsed'
      BY <3>1 DEF PaperInv, Paper!TypeOK, NumbersUsed, Paper!Busy
    <3> QED BY <3>1, <3>2, <3>3, <3>4 DEF PaperInv, Tallied, AloneBooked
  <2> QED BY <2>1, InternalStep, CountStep, NumberStep, NoPriceStep, SubmitStep, RejectStep,
             PaperListStep, CountTradeStep, BookTradeStep, RecordStep DEF Paper!Next
<1> QED BY <1>1, <1>2, PTL DEF Paper!Spec

\* For any number of threads and any ids, with an OMS and without: when no
\* placement is under way, positions and trades add up to what callers were
\* told of, and so do the books of the OMS if placements never overlapped,
\* each repeat of a caller's id being one trade more for the order known, and
\* although the counter of orders goes back (PaperOrders._place_via_oms).
THEOREM FillsBookedHolds == Spec => []FillsBooked
<1>1. PaperInv => Paper!FillsBooked
  <2> SUFFICES ASSUME PaperInv, Paper!Busy = {} PROVE
        /\ position = accepted /\ Len(trades) = accepted
        /\ oms => \/ overlapped
                  \/ Cardinality(known) + repeated = accepted /\ Cardinality(booked) = accepted
    BY PaperCardinality DEF Paper!FillsBooked
  <2>1. Standing({"booking"}) = {} /\ Standing(Filled) = {}
    BY DEF Standing, Paper!Busy, Filled
  <2>2. Tally({"booking"}) = 0 /\ Tally(Filled) = 0
    BY <2>1, FS_EmptySet DEF Tally
  <2>3. position \in Nat /\ accepted \in Nat
    BY Parts DEF PaperInv
  <2>4. position = accepted /\ Len(trades) = accepted
    BY <2>2, <2>3 DEF PaperInv, Tallied
  <2>5. Cardinality(1 .. accepted) = accepted
    BY <2>3, FS_Interval
  <2> QED BY <2>2, <2>3, <2>4, <2>5 DEF PaperInv, AloneBooked
<1> QED BY <1>1, PaperInvariant, PaperImplemented, PTL DEF FillsBooked

(***************************************************************************)
(* The order streams: the highest quantity told, and what is remembered    *)
(* of it.                                                                  *)
(***************************************************************************)
\* Whatever runs, Fills goes through its own specification.
THEOREM FillsImplemented == Spec => Fills!Spec
<1>1. Init => Fills!Init
  BY DEF Init
<1>2. [Next]_vars => [Fills!Next]_(Fills!vars)
  <2> SUFFICES ASSUME [Next]_vars PROVE [Fills!Next]_(Fills!vars)
    OBVIOUS
  <2>1. CASE Fills!Next
    BY <2>1
  <2>2. CASE UNCHANGED fillsVars
    BY <2>2 DEF fillsVars, Fills!vars, Fills!stream, Fills!books
  <2> QED BY <2>1, <2>2 DEF Next, vars, Rest, Runs
<1> QED BY <1>1, <1>2, PTL DEF Spec, Fills!Spec

\* The updates that the stream looks at, and the highest quantity they tell of.
Looked == {u \in seen : broker = "upstox" => u.priced}

\* A highest quantity, 0 if there is none.
Highest(m, us) == (m = 0 \/ \E u \in us : u.filled = m) /\ \A u \in us : u.filled <= m

\* The highest quantity told.
Whole == Fills!Told(Looked)

\* What TRADEs were made of.
Sold == published + refused

\* Dhan has looked at an update without a price.
Late == broker = "dhan" /\ seen # {u \in seen : u.priced}

\* The TRADEs add up to the highest quantity told, and to what is remembered
\* once more when the order was forgotten.
SumsKept ==
  /\ Highest(Whole, Looked)
  /\ cumulative <= Whole
  /\ ~forgotten => cumulative = Whole /\ Sold <= cumulative
  /\ forgotten => Sold <= Whole + cumulative
  /\ Late \/ Sold >= Whole

\* The inductive invariant of the order streams.
FillsInv == Fills!TypeOK /\ SumsKept

\* A highest quantity is the one that Told chooses.
LEMMA ToldIs ==
  ASSUME NEW us, \A u \in us : u.filled \in Nat, NEW m \in Nat, Highest(m, us)
  PROVE  Fills!Told(us) = m
<1> DEFINE S == {u.filled : u \in us} \cup {0}
<1>1. m \in S /\ \A y \in S : m >= y
  BY DEF Highest
<1>2. \A x \in S : (\A y \in S : x >= y) => x = m
  BY <1>1
<1> QED BY <1>1, <1>2 DEF Fills!Told, Fills!Max

\* Quantities are numbers.
LEMMA SeenTyped ==
  ASSUME Fills!TypeOK
  PROVE  /\ \A u \in mail : u.filled \in 0 .. Size /\ u.priced \in BOOLEAN
         /\ \A u \in Looked : u.filled \in Nat
         /\ cumulative \in Nat /\ published \in Nat /\ refused \in Nat
BY FillsAssumption DEF Fills!TypeOK, Fills!Updates, Looked

\* The highest quantity told is a number.
LEMMA WholeNat ==
  ASSUME FillsInv
  PROVE  Whole \in Nat /\ \A u \in Looked : u.filled <= Whole
<1>1. Whole = 0 \/ \E u \in Looked : u.filled = Whole
  BY DEF FillsInv, SumsKept, Highest
<1>2. \A u \in Looked : u.filled \in Nat
  BY SeenTyped DEF FillsInv
<1> QED BY <1>1, <1>2 DEF FillsInv, SumsKept, Highest

\* Steps that handle no update.
LEMMA Elsewhere ==
  ASSUME FillsInv, Fills!TypeOK', UNCHANGED <<broker, cumulative, published, refused, seen, forgotten>>
  PROVE  FillsInv'
<1>1. Looked' = Looked /\ Late' = Late /\ Sold' = Sold
  BY DEF Looked, Late, Sold
<1>2. Whole' = Whole
  BY <1>1 DEF Whole, Fills!Told
<1> QED BY <1>1, <1>2 DEF FillsInv, SumsKept, Highest

\* An update is handled.
LEMMA UpdateStep ==
  ASSUME FillsInv, NEW r \in Fills!Readers, NEW u \in mail, Fills!OnOrderUpdate(r, u)
  PROVE  FillsInv'
<1> DEFINE counted == broker = "upstox" => u.priced
           n == u.filled
           whole == IF counted /\ n > Whole THEN n ELSE Whole
<1>1. /\ n \in 0 .. Size /\ n \in Nat /\ u.priced \in BOOLEAN /\ cumulative \in 0 .. Size
      /\ cumulative \in Nat /\ published \in Nat /\ refused \in Nat /\ Whole \in Nat
      /\ broker \in {"dhan", "upstox"}
  BY SeenTyped, WholeNat DEF FillsInv, Fills!TypeOK
<1>2. /\ cumulative' = Fills!Remember(u) /\ seen' = seen \cup {u}
      /\ readers' = [readers EXCEPT ![r] = IF broker = "upstox" /\ stopped THEN "none" ELSE readers[r]]
      /\ UNCHANGED <<broker, filled, mail, task, stopped, forwarded, forgotten>>
  BY DEF Fills!OnOrderUpdate, Fills!ReadOn
<1>3. /\ cumulative' = IF counted /\ n > cumulative THEN n ELSE cumulative
      /\ Fills!Publish(u) \in Nat
      /\ Fills!Publish(u) <= cumulative' - cumulative
      /\ u.priced => Fills!Publish(u) = cumulative' - cumulative
  BY <1>1, <1>2 DEF Fills!Remember, Fills!Publish, Fills!Counts
<1>4. /\ published' \in Nat /\ refused' \in Nat
      /\ Sold' = Sold + Fills!Publish(u)
  BY <1>1, <1>3 DEF Fills!OnOrderUpdate, Sold
<1>5. Fills!TypeOK'
  <2>1. cumulative' \in 0 .. Size
    BY <1>1, <1>3
  <2>2. readers' \in [Fills!Readers -> {"none", "up", "retrying"}]
    BY <1>2 DEF FillsInv, Fills!TypeOK
  <2>3. seen' \subseteq mail'
    BY <1>2 DEF FillsInv, Fills!TypeOK
  <2> QED BY <1>2, <1>4, <2>1, <2>2, <2>3 DEF FillsInv, Fills!TypeOK, Fills!Updates
<1>6. Looked' = IF counted THEN Looked \cup {u} ELSE Looked
  BY <1>2 DEF Looked
<1>7. Highest(whole, Looked')
  <2>1. (Whole = 0 \/ \E v \in Looked : v.filled = Whole) /\ \A v \in Looked : v.filled <= Whole /\ v.filled \in Nat
    BY SeenTyped DEF FillsInv, SumsKept, Highest
  <2>2. CASE counted
    BY <1>1, <1>6, <2>1, <2>2 DEF Highest
  <2>3. CASE ~counted
    BY <1>6, <2>1, <2>3 DEF Highest
  <2> QED BY <2>2, <2>3
<1>8. Whole' = whole
  <2>1. \A v \in Looked' : v.filled \in Nat
    BY <1>1, <1>6, SeenTyped DEF FillsInv
  <2>2. Fills!Told(Looked') = whole
    BY <1>1, <1>7, <2>1, ToldIs
  <2> QED BY <2>2 DEF Whole, Fills!Told
<1>9. /\ Late => Late'
      /\ ~Late' => (u.priced \/ ~counted)
  BY <1>1, <1>2 DEF Late
<1>10. Sold \in Nat
  BY <1>1 DEF Sold
<1>11. /\ cumulative <= Whole
       /\ ~forgotten => cumulative = Whole /\ Sold <= cumulative
       /\ forgotten => Sold <= Whole + cumulative
       /\ Late \/ Sold >= Whole
  BY DEF FillsInv, SumsKept
<1> HIDE DEF counted, n
<1>12. cumulative' <= whole
  BY <1>1, <1>3, <1>11
<1>13. ~forgotten' => cumulative' = whole /\ Sold' <= cumulative'
  BY <1>1, <1>2, <1>3, <1>4, <1>10, <1>11
<1>14. forgotten' => Sold' <= whole + cumulative'
  BY <1>1, <1>2, <1>3, <1>4, <1>10, <1>11
<1>15. Late' \/ Sold' >= whole
  <2>1. CASE ~Late' /\ ~counted
    BY <1>1, <1>3, <1>4, <1>9, <1>10, <1>11, <2>1
  <2>2. CASE ~Late' /\ u.priced
    <3>1. Sold' = Sold + (cumulative' - cumulative) /\ Sold >= Whole
      BY <1>3, <1>4, <1>9, <1>11, <2>2
    <3> QED BY <1>1, <1>3, <1>10, <1>11, <3>1
  <2> QED BY <1>9, <2>1, <2>2
<1>16. SumsKept'
  BY <1>7, <1>8, <1>12, <1>13, <1>14, <1>15 DEF SumsKept, Highest
<1> QED BY <1>5, <1>16 DEF FillsInv

\* The cache drops the order.
LEMMA ForgetStep ==
  ASSUME FillsInv, Fills!Forget
  PROVE  FillsInv'
<1>1. /\ cumulative > 0 /\ ~forgotten /\ cumulative' = 0 /\ forgotten' = TRUE
      /\ UNCHANGED <<broker, filled, mail, readers, task, stopped, published, refused, forwarded, seen>>
  BY DEF Fills!Forget, Fills!stream
<1>2. Looked' = Looked /\ Late' = Late /\ Sold' = Sold
  BY <1>1 DEF Looked, Late, Sold
<1>3. Whole' = Whole /\ Whole \in Nat
  BY <1>2, WholeNat DEF Whole, Fills!Told
<1>4. Fills!TypeOK'
  <2>1. cumulative' \in 0 .. Size
    BY <1>1, FillsAssumption
  <2> QED BY <1>1, <2>1 DEF FillsInv, Fills!TypeOK, Fills!Updates
<1>5. Sold \in Nat
  BY SeenTyped DEF FillsInv, Sold
<1>6. SumsKept'
  BY <1>1, <1>2, <1>3, <1>5 DEF FillsInv, SumsKept, Highest
<1> QED BY <1>4, <1>6 DEF FillsInv

\* The exchange and the readers.
LEMMA OtherSteps ==
  ASSUME FillsInv,
         \/ \E n \in 1 .. Size, p \in BOOLEAN : Fills!Fill(n, p)
         \/ Fills!Disconnect
         \/ \E r \in Fills!Readers : Fills!Connect(r) \/ Fills!Drop(r) \/ Fills!Retry(r) \/ Fills!OnTrade(r) \/ Fills!MessageFails(r)
         \/ UNCHANGED Fills!vars
  PROVE  FillsInv'
<1>1. ASSUME NEW n \in 1 .. Size, NEW p \in BOOLEAN, Fills!Fill(n, p) PROVE FillsInv'
  <2>1. /\ filled + n <= Size /\ filled' = filled + n
        /\ mail' = mail \cup {[filled |-> filled + n, priced |-> p]}
        /\ UNCHANGED <<broker, readers, task, stopped, cumulative, published, refused, forwarded, seen, forgotten>>
    BY <1>1 DEF Fills!Fill, Fills!stream, Fills!books
  <2>2. filled + n \in 0 .. Size
    BY <2>1, FillsAssumption DEF FillsInv, Fills!TypeOK
  <2>3. Fills!TypeOK'
    BY <2>1, <2>2 DEF FillsInv, Fills!TypeOK, Fills!Updates
  <2> QED BY <2>1, <2>3, Elsewhere
<1>2. CASE Fills!Disconnect
  <2>1. stopped' = TRUE /\ UNCHANGED <<broker, filled, mail, cumulative, published, refused, forwarded, seen, forgotten>>
        /\ \/ readers' = [readers EXCEPT ![task] = "none"] /\ task' = 0
           \/ UNCHANGED <<readers, task>>
    BY <1>2 DEF Fills!Disconnect, Fills!books
  <2>2. Fills!TypeOK'
    BY <2>1 DEF FillsInv, Fills!TypeOK, Fills!Updates, Fills!Readers
  <2> QED BY <2>1, <2>2, Elsewhere
<1>3. ASSUME NEW r \in Fills!Readers, Fills!Connect(r) \/ Fills!Drop(r) \/ Fills!Retry(r) PROVE FillsInv'
  <2>1. UNCHANGED <<broker, filled, mail, cumulative, published, refused, forwarded, seen, forgotten>>
    BY <1>3 DEF Fills!Connect, Fills!Drop, Fills!Retry, Fills!books
  <2>2. /\ readers' \in [Fills!Readers -> {"none", "up", "retrying"}]
        /\ task' \in Fills!Readers \cup {0} /\ stopped' \in BOOLEAN
    BY <1>3 DEF Fills!Connect, Fills!Drop, Fills!Retry, FillsInv, Fills!TypeOK
  <2>3. Fills!TypeOK'
    BY <2>1, <2>2 DEF FillsInv, Fills!TypeOK, Fills!Updates
  <2> QED BY <2>1, <2>3, Elsewhere
<1>4. ASSUME NEW r \in Fills!Readers, Fills!OnTrade(r) PROVE FillsInv'
  <2>1. /\ UNCHANGED <<broker, filled, mail, task, stopped, cumulative, published, refused, seen, forgotten>>
        /\ forwarded < MaxTrades /\ forwarded' = forwarded + 1
        /\ readers' = [readers EXCEPT ![r] = IF broker = "upstox" /\ stopped THEN "none" ELSE readers[r]]
    BY <1>4 DEF Fills!OnTrade, Fills!ReadOn
  <2>2. readers' \in [Fills!Readers -> {"none", "up", "retrying"}] /\ forwarded' \in 0 .. MaxTrades
    BY <2>1, FillsAssumption DEF FillsInv, Fills!TypeOK
  <2>3. Fills!TypeOK'
    BY <2>1, <2>2 DEF FillsInv, Fills!TypeOK, Fills!Updates
  <2> QED BY <2>1, <2>3, Elsewhere
<1>6. ASSUME NEW r \in Fills!Readers, Fills!MessageFails(r) PROVE FillsInv'
  <2>1. /\ UNCHANGED <<broker, filled, mail, task, stopped, cumulative, published, refused, forwarded, seen, forgotten>>
        /\ readers' = [readers EXCEPT ![r] = IF broker = "upstox" /\ stopped THEN "none" ELSE readers[r]]
    BY <1>6 DEF Fills!MessageFails, Fills!ReadOn, Fills!books
  <2>2. readers' \in [Fills!Readers -> {"none", "up", "retrying"}]
    BY <2>1 DEF FillsInv, Fills!TypeOK
  <2>3. Fills!TypeOK'
    BY <2>1, <2>2 DEF FillsInv, Fills!TypeOK, Fills!Updates
  <2> QED BY <2>1, <2>3, Elsewhere
<1>5. CASE UNCHANGED Fills!vars
  <2>1. Fills!TypeOK'
    BY <1>5 DEF Fills!vars, Fills!stream, Fills!books, FillsInv, Fills!TypeOK, Fills!Updates
  <2> QED BY <1>5, <2>1, Elsewhere DEF Fills!vars
<1> QED BY <1>1, <1>2, <1>3, <1>4, <1>5, <1>6

\* The order streams keep their invariant.
THEOREM FillsInvariant == Fills!Spec => []FillsInv
<1>1. Fills!Init => FillsInv
  <2> SUFFICES ASSUME Fills!Init PROVE FillsInv
    OBVIOUS
  <2>1. Fills!TypeOK
    <3>1. 0 \in 0 .. Size /\ 0 \in 0 .. MaxTrades
      BY FillsAssumption
    <3>2. readers \in [Fills!Readers -> {"none", "up", "retrying"}]
      BY DEF Fills!Init
    <3> QED BY <3>1, <3>2 DEF Fills!Init, Fills!TypeOK, Fills!Updates, Fills!Readers
  <2>2. Looked = {} /\ Highest(0, Looked)
    BY DEF Fills!Init, Looked, Highest
  <2>3. Whole = 0
    BY <2>2, ToldIs DEF Whole
  <2>4. SumsKept
    BY <2>2, <2>3 DEF Fills!Init, SumsKept, Sold
  <2> QED BY <2>1, <2>4 DEF FillsInv
<1>2. FillsInv /\ [Fills!Next]_(Fills!vars) => FillsInv'
  BY UpdateStep, ForgetStep, OtherSteps DEF Fills!Next
<1> QED BY <1>1, <1>2, PTL DEF Fills!Spec

\* For an order of any size, and updates lost, repeated and out of order, over
\* reconnects: the TRADEs made of them add up to the highest quantity told,
\* counted once more at most when the cache forgot the order, and short of it
\* only when Dhan told of a fill without its price (the cumulative caches of
\* both order streams).
THEOREM FillsAddUpHolds == Spec => []FillsAddUp
<1>1. FillsInv => Fills!FillsAddUp
  <2> SUFFICES ASSUME FillsInv PROVE Fills!FillsAddUp
    OBVIOUS
  <2> DEFINE priced == {u \in seen : u.priced}
  <2>1. Looked = IF broker = "upstox" THEN priced ELSE seen
    BY DEF Looked
  <2>2. Whole = IF broker = "upstox" THEN Fills!Told(priced) ELSE Fills!Told(seen)
    BY <2>1 DEF Whole
  <2>3. Whole \in Nat /\ Sold \in Nat /\ cumulative \in Nat
    BY WholeNat, SeenTyped DEF FillsInv, Sold
  <2>4. Sold <= Whole + (IF forgotten THEN Whole ELSE 0) /\ (Late \/ Sold >= Whole)
    BY <2>3 DEF FillsInv, SumsKept
  <2> QED BY <2>2, <2>4 DEF Fills!FillsAddUp, Sold, Late
<1> QED BY <1>1, FillsInvariant, FillsImplemented, PTL DEF FillsAddUp
===============================================================================
