----------------------------- MODULE PaperOrders -----------------------------
(***************************************************************************)
(* PaperOrders: orders filled at once, in the books of the OMS when there  *)
(* is one and in its own.  A caller may give a correlation id; otherwise   *)
(* one is made of the sequence number.  Without an OMS a placement is one  *)
(* step, under the lock, and its id is only noted; with it the counters    *)
(* are raised and read outside, the order's counter is set back to the     *)
(* number of the placement that ends, and a placement that the OMS answers *)
(* with an order it knows goes on like any other.                          *)
(* The risk check without an OMS has no risk manager to ask: it allows.     *)
(*                                                                         *)
(* No order is ever OPEN: cancel and modify refuse whatever they are given. *)
(* Quantities and prices are left out: a position is a number of fills.    *)
(***************************************************************************)
EXTENDS Integers, Sequences, FiniteSets

CONSTANTS Threads,
          Ids,        \* correlation ids of callers
          MaxOrders   \* bound: placements

VARIABLES oms,           \* whether there is an order manager
          seq, tseq,     \* _order_seq, _trade_seq
          placements,
          orders, trades, position,  \* numbers of orders and trades; fills
          known, booked, \* correlation ids, with their orders, and trade ids
                         \* in the OMS, external
          accepted,      \* placements that were filled, as their callers see it
          repeated,      \* those with an id of a caller's that the OMS knew
          overlapped     \* two placements were under way at once

vars == <<oms, seq, tseq, placements, orders, trades, position, known, booked, accepted,
          repeated, overlapped>>
counts == <<seq, tseq>>
books == <<orders, trades, position>>

\* `id' is 0 when the caller gave none, `order' the order to list.
Idle == [at |-> "idle", seq |-> 0, id |-> 0, order |-> 0, trade |-> 0]
Busy == {t \in Threads : placements[t].at # "idle"}
Numbers == 1 .. MaxOrders
AnyId == 0 .. MaxOrders \union Ids

TypeOK ==
  /\ oms \in BOOLEAN /\ overlapped \in BOOLEAN
  /\ seq \in 0 .. MaxOrders /\ tseq \in 0 .. MaxOrders
  /\ placements \in [Threads -> [at : {"idle", "counted", "numbered", "filled", "rejected",
                                    "listed", "traded", "booking"},
                              seq : 0 .. MaxOrders, id : AnyId, order : 0 .. MaxOrders,
                              trade : 0 .. MaxOrders]]
  /\ orders \in Seq(Numbers) /\ trades \in Seq(Numbers)
  /\ position \in 0 .. MaxOrders /\ accepted \in 0 .. MaxOrders
  /\ known \subseteq [id : AnyId, order : Numbers] /\ booked \subseteq Numbers
  /\ repeated \in Nat

Init ==
  /\ oms \in BOOLEAN
  /\ seq = 0 /\ tseq = 0
  /\ placements = [t \in Threads |-> Idle]
  /\ orders = <<>> /\ trades = <<>> /\ position = 0
  /\ known = {} /\ booked = {} /\ accepted = 0 /\ repeated = 0 /\ overlapped = FALSE

\* Bound: as many placements as there are numbers.
Room == Len(orders) + Cardinality(Busy) < MaxOrders

(***************************************************************************)
(* Without an OMS                                                          *)
(***************************************************************************)
PlaceInternal(t) ==
  /\ ~oms /\ Room
  /\ seq' = seq + 1 /\ orders' = Append(orders, seq + 1)
  /\ tseq' = tseq + 1 /\ trades' = Append(trades, tseq + 1)
  /\ position' = position + 1 /\ accepted' = accepted + 1
  /\ UNCHANGED <<oms, placements, known, booked, repeated, overlapped>>

(***************************************************************************)
(* With an OMS                                                             *)
(***************************************************************************)
Leave(t, here) == placements[t].at = here /\ placements' = [placements EXCEPT ![t] = Idle]
At(t, here, there) == placements[t].at = here /\ placements' = [placements EXCEPT ![t].at = there]

Count(t) ==
  /\ oms /\ Room /\ seq < MaxOrders
  /\ placements[t].at = "idle"
  /\ \E id \in Ids \union {0} :
       placements' = [placements EXCEPT ![t] = [Idle EXCEPT !.at = "counted", !.id = id]]
  /\ seq' = seq + 1
  /\ overlapped' = (overlapped \/ Busy # {})
  /\ UNCHANGED <<oms, tseq, books, known, booked, accepted, repeated>>

\* The number is read, and stands for an id that the caller did not give.
Number(t) ==
  /\ placements[t].at = "counted"
  /\ LET id == IF placements[t].id = 0 THEN seq ELSE placements[t].id
     IN  placements' = [placements EXCEPT ![t] =
                          [@ EXCEPT !.at = "numbered", !.seq = seq, !.id = id, !.order = seq]]
  /\ UNCHANGED <<oms, counts, books, known, booked, accepted, repeated, overlapped>>

\* get_ltp raises: the caller gets the error, the number stays used.
NoPrice(t) ==
  /\ Leave(t, "numbered")
  /\ UNCHANGED <<oms, counts, books, known, booked, accepted, repeated, overlapped>>

\* OrderManager.place_order: a new id is filled, or refused by the risk manager.
SubmitNew(t) ==
  /\ \A k \in known : k.id # placements[t].id
  /\ \/ /\ At(t, "numbered", "filled")
        /\ known' = known \union {[id |-> placements[t].id, order |-> placements[t].seq]}
     \/ At(t, "numbered", "rejected") /\ UNCHANGED known
  /\ UNCHANGED repeated

\* A known one is answered with the order that the OMS has for it.
SubmitKnown(t) ==
  /\ placements[t].at = "numbered"
  /\ \E k \in known :
       /\ k.id = placements[t].id
       /\ placements' = [placements EXCEPT ![t] = [@ EXCEPT !.at = "filled", !.order = k.order]]
  /\ repeated' = IF placements[t].id \in Ids THEN repeated + 1 ELSE repeated
  /\ UNCHANGED known

Submit(t) ==
  /\ SubmitNew(t) \/ SubmitKnown(t)
  /\ UNCHANGED <<oms, counts, books, booked, accepted, overlapped>>

Reject(t) ==
  /\ Leave(t, "rejected")
  /\ orders' = Append(orders, placements[t].seq)
  /\ UNCHANGED <<oms, counts, trades, position, known, booked, accepted, repeated, overlapped>>

\* Mutation: the counter is set back to the number before.
ListBefore(t) ==
  /\ At(t, "filled", "listed")
  /\ orders' = Append(orders, placements[t].order) /\ seq' = placements[t].seq - 1
  /\ UNCHANGED <<oms, tseq, trades, position, known, booked, accepted, repeated, overlapped>>

\* The order of the OMS is listed, known or new; "sync sequence counter": back
\* to the number of this placement.
List(t) ==
  /\ At(t, "filled", "listed")
  /\ orders' = Append(orders, placements[t].order) /\ seq' = placements[t].seq
  /\ UNCHANGED <<oms, tseq, trades, position, known, booked, accepted, repeated, overlapped>>

CountTrade(t) ==
  /\ At(t, "listed", "traded")
  /\ tseq' = tseq + 1
  /\ UNCHANGED <<oms, seq, books, known, booked, accepted, repeated, overlapped>>

BookTrade(t) ==
  /\ placements[t].at = "traded"
  /\ placements' = [placements EXCEPT ![t] = [@ EXCEPT !.at = "booking", !.trade = tseq]]
  /\ trades' = Append(trades, tseq) /\ position' = position + 1
  /\ UNCHANGED <<oms, counts, orders, known, booked, accepted, repeated, overlapped>>

\* OrderManager.record_trade takes a trade id once.
RecordTrade(t) ==
  /\ Leave(t, "booking")
  /\ booked' = booked \cup {placements[t].trade}
  /\ accepted' = accepted + 1
  /\ UNCHANGED <<oms, counts, books, known, repeated, overlapped>>

Next == \E t \in Threads :
  \/ PlaceInternal(t)
  \/ Count(t) \/ Number(t) \/ NoPrice(t) \/ Submit(t) \/ Reject(t) \/ List(t)
  \/ CountTrade(t) \/ BookTrade(t) \/ RecordTrade(t)

Spec == Init /\ [][Next]_vars

\* When no placement is under way, every fill that a caller was told of is in
\* the positions and the trade book; and in the books of the OMS, unless
\* placements have overlapped: a trade for each, and an order for each but
\* those that repeated an id of a caller's, which are booked once more.
FillsBooked ==
  Busy = {} =>
    /\ position = accepted /\ Len(trades) = accepted
    /\ oms => \/ overlapped
              \/ Cardinality(known) + repeated = accepted /\ Cardinality(booked) = accepted
==============================================================================
