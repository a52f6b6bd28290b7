------------------------------ MODULE MCServices ------------------------------
(***************************************************************************)
(* The components that share no state with one another, for TLC.  In each  *)
(* behaviour one of them, `running', goes through its specification, while *)
(* the others rest in one of their initial states: the reachable states    *)
(* are those of each component, side by side.                              *)
(***************************************************************************)
EXTENDS Integers, FiniteSets, TLC

CONSTANTS Caller, Key, NoReply, MaxExtra,                        \* UpstoxOrders
          Brokers, Lookback, MaxChunk, Close, Early, Swallows,
          Today, Queries, MaxParallel, Concurrent, MaxChanges,   \* HistoricalCoordinator
          Unit, Rate, Capacity, Default, Reserved, MaxWait,      \* QuotaScheduler
          MaxTokens,                                             \* UpstoxTokens
          Size, MaxTrades,                                       \* FillStream
          Procs, Ids, MaxOrders,     \* DurableIdempotency, PaperOrders, FeedAdmission
          Gateways, Instruments, Cap, MaxDrops,                  \* DepthFeed
          MaxStreak,                                             \* FeedAdmission
          Threads, None

VARIABLES running,
          pc, key, attempt, order, cached, book, limbo, lapses, overlaps, events, reply,
          registered, healthy, changes, phase, query, decision, plan, progress, answer,
          clock, cur, tries, asking, failures, unseen, result,
          buckets, caps, profiled, waits, since,
          totp, snapshot, holder, stored, origin, life, revoked, issued, cooling, threads, crossed,
          broker, filled, mail, readers, task, stopped, cumulative, published, refused,
          forwarded, seen, forgotten,
          file, procs, memory, placed, excused,
          oms, seq, tseq, placements, orders, trades, position, known, booked, accepted,
          repeated, overlapped,
          deep, thread, stopping, connected, ws, calls, subs, toSend, asked, cache, lost,
          second, drops,
          lock, held, feeds, ending, cooldown, filed, streak, left

Orders    == INSTANCE UpstoxOrders
History   == INSTANCE HistoricalCoordinator
Quota     == INSTANCE QuotaScheduler
Tokens    == INSTANCE UpstoxTokens
Fills     == INSTANCE FillStream
Cache     == INSTANCE DurableIdempotency
Paper     == INSTANCE PaperOrders
Depth     == INSTANCE DepthFeed
Admission == INSTANCE FeedAdmission

(***************************************************************************)
(* Assumptions about the constants, by component                           *)
(***************************************************************************)
ASSUME OrdersAssumption == IsFiniteSet(Caller)

\* Brokers tell how many days they go back and how many they give at a time.
ASSUME HistoryAssumption ==
  /\ IsFiniteSet(Brokers) /\ Lookback \in [Brokers -> Nat]
  /\ MaxChunk \in [Brokers -> Nat \ {0}] /\ Today \in Int
  /\ \A q \in Queries : q.from \in Int /\ q.to \in Int
  /\ MaxParallel \in Nat /\ Concurrent \in Nat /\ MaxChanges \in Nat

\* Executions wait no longer than backfills, and neither does any other caller.
ASSUME QuotaAssumption ==
  /\ Unit \in Nat \ {0} /\ Rate \in Nat \ {0} /\ Reserved \in Nat \ {0}
  /\ Capacity \in Nat /\ Default \in Nat
  /\ MaxWait \in [Quota!Priorities -> Nat]
  /\ \A p \in Quota!Priorities : MaxWait[p] <= MaxWait["backfill"]

ASSUME TokensAssumption == MaxTokens \in Nat \ {0}
ASSUME FillsAssumption == Size \in Nat /\ MaxTrades \in Nat
ASSUME CacheAssumption == IsFiniteSet(Procs) /\ MaxOrders \in Nat
ASSUME PaperAssumption == IsFiniteSet(Threads) /\ MaxOrders \in Nat
ASSUME DepthAssumption == None \notin Instruments /\ Cap \in Nat /\ MaxDrops \in Nat
ASSUME AdmissionAssumption == None \notin Procs /\ MaxStreak \in Nat

ordersVars == <<pc, key, attempt, order, cached, book, limbo, lapses, overlaps, events, reply>>
historyVars == <<registered, healthy, changes, phase, query, decision, plan, progress,
                 answer, clock, cur, tries, asking, failures, unseen, result>>
quotaVars == <<buckets, caps, profiled, waits, since>>
tokensVars == <<totp, snapshot, holder, stored, origin, life, revoked, issued, cooling,
                threads, crossed>>
fillsVars == <<broker, filled, mail, readers, task, stopped, cumulative, published,
               refused, forwarded, seen, forgotten>>
cacheVars == <<file, procs, memory, placed, excused>>
paperVars == <<oms, seq, tseq, placements, orders, trades, position, known, booked,
               accepted, repeated, overlapped>>
depthVars == <<deep, thread, stopping, connected, ws, calls, subs, toSend, asked, cache,
               lost, second, drops>>
admissionVars == <<lock, held, feeds, ending, cooldown, filed, streak, left>>
vars == <<running, ordersVars, historyVars, quotaVars, tokensVars, fillsVars, cacheVars,
          paperVars, depthVars, admissionVars>>

Services == {"orders", "history", "quota", "tokens", "fills", "cache", "paper",
             "depth", "admission"}

Init ==
  /\ running \in Services
  /\ Orders!Init /\ History!Init /\ Quota!Init /\ Tokens!Init /\ Fills!Init
  /\ Cache!Init /\ Paper!Init /\ Depth!Init /\ Admission!Init
  /\ running # "history" => query = CHOOSE q \in Queries : TRUE
  /\ totp \/ issued > 1 => running = "tokens"
  /\ broker = "upstox" => running = "fills"
  /\ oms => running = "paper"
  /\ deep => running = "depth"

\* What a step of the component leaves alone.
Rest(name) ==
  /\ IF name = "orders" THEN TRUE ELSE UNCHANGED ordersVars
  /\ IF name = "history" THEN TRUE ELSE UNCHANGED historyVars
  /\ IF name = "quota" THEN TRUE ELSE UNCHANGED quotaVars
  /\ IF name = "tokens" THEN TRUE ELSE UNCHANGED tokensVars
  /\ IF name = "fills" THEN TRUE ELSE UNCHANGED fillsVars
  /\ IF name = "cache" THEN TRUE ELSE UNCHANGED cacheVars
  /\ IF name = "paper" THEN TRUE ELSE UNCHANGED paperVars
  /\ IF name = "depth" THEN TRUE ELSE UNCHANGED depthVars
  /\ IF name = "admission" THEN TRUE ELSE UNCHANGED admissionVars

Runs(name) == running = name /\ UNCHANGED running

Next ==
  \/ Runs("orders") /\ Orders!Next /\ Rest("orders")
  \/ Runs("history") /\ History!Next /\ Rest("history")
  \/ Runs("quota") /\ Quota!Next /\ Rest("quota")
  \/ Runs("tokens") /\ Tokens!Next /\ Rest("tokens")
  \/ Runs("fills") /\ Fills!Next /\ Rest("fills")
  \/ Runs("cache") /\ Cache!Next /\ Rest("cache")
  \/ Runs("paper") /\ Paper!Next /\ Rest("paper")
  \/ Runs("depth") /\ Depth!Next /\ Rest("depth")
  \/ Runs("admission") /\ Admission!Next /\ Rest("admission")

Spec == Init /\ [][Next]_vars

(***************************************************************************)
(* The properties of the components, each while its component runs         *)
(***************************************************************************)
\* Every component keeps its types and the bounds in them.
TypeOK ==
  CASE running = "orders"    -> Orders!TypeOK
    [] running = "history"   -> History!TypeOK
    [] running = "quota"     -> Quota!TypeOK
    [] running = "tokens"    -> Tokens!TypeOK
    [] running = "fills"     -> Fills!TypeOK
    [] running = "cache"     -> Cache!TypeOK
    [] running = "paper"     -> Paper!TypeOK
    [] running = "depth"     -> Depth!TypeOK
    [] running = "admission" -> Admission!TypeOK

\* Upstox orders: none is announced twice, or without having been taken.
EventsMatchOrders == running = "orders" => Orders!EventsMatchOrders

\* Upstox orders: an extra order under an id has a lapse or an overlap of its own.
ExtraOrdersAccounted == running = "orders" => Orders!ExtraOrdersAccounted

\* Historical bars: the plan shares the request out between the brokers.
PlanShares == running = "history" => History!PlanShares

\* Historical bars: missing days and the bars of fallbacks show in the series.
LossShows == running = "history" => History!LossShows

\* Historical bars: brokers that disagree on a day are seen to.
ConflictsSeen == running = "history" => History!ConflictsSeen

\* Quota: data traffic never starves executions.
OnlyExecutionsExhaust == running = "quota" => Quota!OnlyExecutionsExhaust

\* Upstox tokens: a refreshed token reaches the retry and all later requests.
RefreshReachesRequests == running = "tokens" => Tokens!RefreshReachesRequests

\* Order streams: the TRADEs made of cumulative updates add up.
FillsAddUp == running = "fills" => Fills!FillsAddUp

\* The cache in a file: a repeated order has an excuse of its own.
RepeatsExcused == running = "cache" => Cache!RepeatsExcused

\* Paper orders: positions, trade books and the OMS agree with the callers.
FillsBooked == running = "paper" => Paper!FillsBooked

\* Depth feeds: a live connection has been asked for what is subscribed.
SubscriptionsAsked == running = "depth" => Depth!SubscriptionsAsked

\* Depth feeds: no book has the levels of another instrument.
BooksOwned == running = "depth" => Depth!BooksOwned

\* Dhan's market feed: one socket to an account, whatever processes do.
OneFeed == running = "admission" => Admission!OneFeed

(***************************************************************************)
(* Values of the constants                                                 *)
(***************************************************************************)
Symmetry == Permutations(Threads) \union Permutations(Gateways)

\* Dhan goes back far and Upstox not, as in their capability tables.
MCBrokers == {"dhan", "upstox"}
MCLookback == ("dhan" :> 6) @@ ("upstox" :> 2)
MCMaxChunk == ("dhan" :> 2) @@ ("upstox" :> 2)
MCClose == ("dhan" :> 1) @@ ("upstox" :> 2)
MCUpstox == {"upstox"}
Strategies == {"prefer_primary", "prefer_newest_provenance", "fail_on_conflict"}
\* All that dhan has, a stretch across the two windows, recent days, old days.
Dates == {<<3, 10>>, <<7, 9>>, <<9, 10>>, <<3, 5>>}
MCQueries == {[from |-> d[1], to |-> d[2], strategy |-> s] :
                d \in Dates, s \in Strategies}

\* Executions wait shorter than backfills, live data not at all.
MCMaxWait == [execution |-> 1, live |-> 0, backfill |-> 2]
==============================================================================
