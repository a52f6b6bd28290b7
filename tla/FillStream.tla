------------------------------ MODULE FillStream ------------------------------
(***************************************************************************)
(* The order streams of Dhan and Upstox.  An update carries what has been  *)
(* filled of an order so far; the stream publishes a TRADE of what is new  *)
(* since the last one, which it keeps in a cache of one hour.  Updates can  *)
(* be lost, repeated and out of order.  Upstox also sends trades.           *)
(*                                                                         *)
(* One order.  `readers' are the threads (Dhan) or tasks (Upstox) that read *)
(* a socket; both handle an update without giving way to the other.         *)
(***************************************************************************)
EXTENDS Integers, FiniteSetsExt

CONSTANTS Size,       \* of the order
          MaxTrades   \* bound: trades that Upstox sends

Readers == {1, 2}

VARIABLES broker,
          filled, mail,   \* at the exchange; updates sent
          readers, task,  \* state of each; the last one started
          stopped,
          cumulative,     \* last cumulative quantity, 0 if unknown
          published,      \* quantity of all TRADEs made of order updates
          refused,        \* quantity of those whose publication raised
          forwarded,      \* TRADEs made of trades
          seen,           \* order updates whose ORDER_UPDATED went out
          forgotten       \* the cache has dropped the order

vars == <<broker, filled, mail, readers, task, stopped, cumulative, published, refused,
          forwarded, seen, forgotten>>
stream == <<readers, task, stopped>>
books == <<cumulative, published, refused, forwarded, seen>>

Updates == [filled : 0 .. Size, priced : BOOLEAN]

TypeOK ==
  /\ broker \in {"dhan", "upstox"}
  /\ filled \in 0 .. Size /\ mail \subseteq Updates
  /\ readers \in [Readers -> {"none", "up", "retrying"}]
  /\ task \in Readers \cup {0} /\ stopped \in BOOLEAN
  /\ cumulative \in 0 .. Size /\ published \in Nat /\ refused \in Nat
  /\ forwarded \in 0 .. MaxTrades
  /\ seen \subseteq mail /\ forgotten \in BOOLEAN

Init ==
  /\ broker \in {"dhan", "upstox"}
  /\ filled = 0 /\ mail = {}
  /\ readers = [r \in Readers |-> "none"] /\ task = 0 /\ stopped = FALSE
  /\ cumulative = 0 /\ published = 0 /\ refused = 0 /\ forwarded = 0 /\ seen = {} /\ forgotten = FALSE

Alive == {r \in Readers : readers[r] # "none"}

(***************************************************************************)
(* The exchange, external.  The average price may come later.              *)
(***************************************************************************)
Fill(n, priced) ==
  /\ filled + n <= Size
  /\ filled' = filled + n
  /\ mail' = mail \cup {[filled |-> filled + n, priced |-> priced]}
  /\ UNCHANGED <<broker, stream, books, forgotten>>

(***************************************************************************)
(* Readers                                                                 *)
(***************************************************************************)
\* Dhan's start does nothing while its thread lives; Upstox's connect adds a
\* task to one that runs.
Connect(r) ==
  /\ readers[r] = "none"
  /\ broker = "dhan" => Alive = {}
  /\ readers' = [readers EXCEPT ![r] = "up"] /\ task' = r /\ stopped' = FALSE
  /\ UNCHANGED <<broker, filled, mail, books, forgotten>>

\* Dhan's thread stays in the socket until it drops; Upstox cancels the task
\* it knows of.
Disconnect ==
  /\ stopped' = TRUE
  /\ IF broker = "upstox" /\ task # 0
     THEN readers' = [readers EXCEPT ![task] = "none"] /\ task' = 0
     ELSE UNCHANGED <<readers, task>>
  /\ UNCHANGED <<broker, filled, mail, books, forgotten>>

Drop(r) ==
  /\ readers[r] = "up"
  /\ readers' = [readers EXCEPT ![r] = IF stopped THEN "none" ELSE "retrying"]
  /\ UNCHANGED <<broker, filled, mail, task, stopped, books, forgotten>>

\* Dhan connects again.  Upstox opens sockets but goes on to read the old one,
\* which fails each time, until its retries are used up.
Retry(r) ==
  /\ readers[r] = "retrying"
  /\ readers' = [readers EXCEPT ![r] = IF stopped \/ broker = "upstox" THEN "none" ELSE "up"]
  /\ UNCHANGED <<broker, filled, mail, task, stopped, books, forgotten>>

(***************************************************************************)
(* Updates                                                                 *)
(***************************************************************************)
\* Upstox looks at no update without a price; Dhan remembers its quantity.
Counts(u) == broker = "dhan" \/ (u.priced /\ u.filled > 0)

\* Mutation: a lower quantity that comes late is remembered.
RememberLast(u) == IF Counts(u) THEN u.filled ELSE cumulative

Remember(u) == IF Counts(u) /\ u.filled > cumulative THEN u.filled ELSE cumulative
Publish(u) == IF Counts(u) /\ u.priced /\ u.filled > cumulative THEN u.filled - cumulative ELSE 0

\* A task of Upstox looks at _stopped after each message.
ReadOn(r) == readers' = [readers EXCEPT ![r] = IF broker = "upstox" /\ stopped THEN "none" ELSE @]

\* ORDER_UPDATED first, then the TRADE; the quantity is remembered in between:
\* when the TRADE's publication raises, the error is logged and the fill is not
\* published again.
OnOrderUpdate(r, u) ==
  /\ readers[r] = "up"
  /\ cumulative' = Remember(u)
  /\ \/ published' = published + Publish(u) /\ UNCHANGED refused
     \/ Publish(u) > 0 /\ refused' = refused + Publish(u) /\ UNCHANGED published
  /\ seen' = seen \cup {u}
  /\ ReadOn(r)
  /\ UNCHANGED <<broker, filled, mail, task, stopped, forwarded, forgotten>>

\* A trade is published as it comes, also when an update has told of it.
OnTrade(r) ==
  /\ broker = "upstox" /\ readers[r] = "up" /\ filled > 0 /\ forwarded < MaxTrades
  /\ forwarded' = forwarded + 1
  /\ ReadOn(r)
  /\ UNCHANGED <<broker, filled, mail, task, stopped, cumulative, published, refused, seen, forgotten>>

\* A message that cannot be converted, or whose first publication raises: the error
\* is logged, nothing is remembered and no TRADE made.
MessageFails(r) ==
  /\ readers[r] = "up" /\ mail # {}
  /\ ReadOn(r)
  /\ UNCHANGED <<broker, filled, mail, task, stopped, books, forgotten>>

\* The cache drops the order: one hour, or 10000 others.  Bound: once.
Forget ==
  /\ cumulative > 0 /\ ~forgotten
  /\ cumulative' = 0 /\ forgotten' = TRUE
  /\ UNCHANGED <<broker, filled, mail, stream, published, refused, forwarded, seen>>

Next ==
  \/ \E n \in 1 .. Size, p \in BOOLEAN : Fill(n, p)
  \/ Disconnect \/ Forget
  \/ \E r \in Readers : \/ Connect(r) \/ Drop(r) \/ Retry(r) \/ OnTrade(r) \/ MessageFails(r)
                        \/ \E u \in mail : OnOrderUpdate(r, u)

Spec == Init /\ [][Next]_vars

Told(us) == Max({u.filled : u \in us} \cup {0})

\* The TRADEs made of order updates, with those that raised, add up to the
\* highest quantity told, in whatever order and however often the updates come,
\* and over reconnects. An update whose ORDER_UPDATED fails tells nothing: the
\* next one makes up for it, as none does for a TRADE that raised.
\* Forgetting the order counts it at most once more.  Updates without a price
\* cost Upstox nothing once a price comes; they lose Dhan a fill.
FillsAddUp ==
  LET priced == {u \in seen : u.priced}
      whole  == IF broker = "upstox" THEN Told(priced) ELSE Told(seen)
      late   == broker = "dhan" /\ seen # priced
      sum    == published + refused
  IN  /\ sum <= whole + (IF forgotten THEN whole ELSE 0)
      /\ late \/ sum >= whole
===============================================================================
