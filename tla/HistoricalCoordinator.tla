------------------------ MODULE HistoricalCoordinator ------------------------
(***************************************************************************)
(* HistoricalDataCoordinator.fetch, reached through                        *)
(* IntelligentMarketGateway.history: the requested days are shared out to  *)
(* the brokers by how far back each can go, fetched in chunks at the same  *)
(* time, a failed chunk is tried at the fallback brokers one after the     *)
(* other, and the answers are merged into a series with its gaps and a     *)
(* degraded mark.  BrokerRegistry and BrokerRouter choose the brokers; the *)
(* application may deregister one, or report it unhealthy, at any time.    *)
(*                                                                         *)
(* Days are numbers.  What one broker answers for a chunk is kept whole, as *)
(* an answer with its days; a bar of the series is the answer it is from.  *)
(***************************************************************************)
EXTENDS Integers, Sequences, FiniteSets, FiniteSetsExt

CONSTANTS Brokers,
          Lookback,    \* max_lookback_days of each broker
          MaxChunk,    \* max_chunk_days of each broker
          Close,       \* the close each broker reports; a conflict if they differ
          Early,       \* brokers that also return the day before a chunk
          Swallows,    \* brokers whose gateway turns an error into no bars
          Today, Queries,
          MaxParallel, \* RoutingPolicy.max_parallel_sources
          Concurrent,  \* HistoricalQuery.max_concurrent_fetches
          MaxChanges   \* bound: changes of the registry during a fetch

VARIABLES registered,  \* BrokerRegistry._gateways
          healthy,     \* brokers whose snapshot is usable
          changes,
          phase, query,
          decision,    \* the brokers of the decision: primary, then the others
          plan,        \* the chunks, in the order in which they are gathered
          progress,    \* of each chunk
          answer,      \* of each chunk
          clock,       \* answers so far, for fetched_at
          cur, tries,  \* the chunk being tried elsewhere, and where
          asking,      \* whether the first of tries is being asked
          failures,    \* failed chunks in the ledger
          unseen,      \* chunks of which an error was swallowed
          result

registry == <<registered, healthy, changes>>
fallback == <<cur, tries, asking>>
vars == <<registry, phase, query, decision, plan, progress, answer, clock, fallback,
          failures, unseen, result>>

Eligible == registered \intersect healthy
NoAnswer == [days |-> {}, by |-> "", at |-> 0, fallback |-> FALSE]
Nothing == [bars |-> <<>>, conflicts |-> {}, gaps |-> {}, degraded |-> FALSE]

Init ==
  /\ registered = Brokers /\ healthy = Brokers /\ changes = 0
  /\ phase = "idle" /\ query \in Queries
  /\ decision = <<>> /\ plan = <<>> /\ progress = <<>> /\ answer = <<>> /\ clock = 0
  /\ cur = 0 /\ tries = <<>> /\ asking = FALSE
  /\ failures = 0 /\ unseen = {} /\ result = Nothing

(***************************************************************************)
(* BrokerRegistry: what the application does meanwhile                     *)
(***************************************************************************)
Change ==
  /\ changes < MaxChanges /\ changes' = changes + 1
  /\ UNCHANGED <<phase, query, decision, plan, progress, answer, clock, fallback,
                 failures, unseen, result>>

Deregister(b) ==
  /\ b \in registered /\ Change
  /\ registered' = registered \ {b} /\ healthy' = healthy \ {b}

Register(b) ==
  /\ Change
  /\ registered' = registered \union {b} /\ healthy' = healthy \union {b}

UpdateHealth(b, ok) ==
  /\ b \in registered /\ Change
  /\ healthy' = IF ok THEN healthy \union {b} ELSE healthy \ {b}
  /\ UNCHANGED registered

(***************************************************************************)
(* BrokerRouter.route: the candidates in an order of the policy's choosing *)
(* (its list, or the head-room of the quota at the time)                   *)
(***************************************************************************)
Orders(S) == {s \in [1 .. Cardinality(S) -> S] : Range(s) = S}
\* The positions of the brokers among whom the days are shared out.
Asked(o) == 1 .. Min({Len(o), Max({MaxParallel, 1})})

(***************************************************************************)
(* _partition_ranges: the broker that goes back least gets the recent      *)
(* days, the one that goes back most the older ones, any other nothing.    *)
(* They are given by their positions in the decision.                      *)
(***************************************************************************)
Earliest(b) == Today - Lookback[b]

\* The sort by look-back, which is stable.
Sorted(i, j) == \/ Lookback[decision[i]] < Lookback[decision[j]]
                \/ Lookback[decision[i]] = Lookback[decision[j]] /\ i <= j
Short(P) == CHOOSE i \in P : \A j \in P : Sorted(i, j)
Long(P) == CHOOSE i \in P : \A j \in P : Sorted(j, i)

Span(b, from, to) == [broker |-> b, from |-> from, to |-> to]

\* What a broker can give of the days up to one.
Reach(b, to) == Span(b, Max({query.from, Earliest(b)}), to)
Recent(P) == Reach(decision[Short(P)], query.to)

\* Mutation: the older days reach into the recent ones.
OlderOverlap(P) == Reach(decision[Long(P)], Recent(P).from)
Older(P) == Reach(decision[Long(P)], Recent(P).from - 1)

\* A range in chunks of the broker's size; an empty one gives none.
Chunks(r) ==
  LET size == MaxChunk[r.broker]
      n    == IF r.from > r.to THEN 0 ELSE (r.to - r.from) \div size + 1
  IN  [i \in 1 .. n |-> Span(r.broker, r.from + (i - 1) * size,
                              Min({r.from + i * size - 1, r.to}))]

Planned(P) ==
  IF P = {} THEN <<>>
  ELSE Chunks(Recent(P)) \o IF Short(P) = Long(P) THEN <<>> ELSE Chunks(Older(P))

(***************************************************************************)
(* fetch: routing and planning.  get_capabilities raises for a broker that *)
(* is deregistered; the partition ignores it, the chunking does not.       *)
(***************************************************************************)
Route ==
  /\ phase = "idle"
  /\ \/ /\ Eligible = {} /\ decision' = <<>>
     \/ decision' \in Orders(Eligible) /\ Eligible # {}
  /\ phase' = "routed"
  /\ UNCHANGED <<registry, query, plan, progress, answer, clock, fallback,
                 failures, unseen, result>>

Empty(q) == [Nothing EXCEPT !.gaps = q.from .. q.to, !.degraded = TRUE]

Plan ==
  /\ phase = "routed"
  /\ LET chunks == Planned({i \in Asked(decision) : decision[i] \in registered})
     IN  /\ plan' = chunks
         /\ progress' = [i \in DOMAIN chunks |-> "waiting"]
         /\ answer' = [i \in DOMAIN chunks |-> NoAnswer]
         /\ phase' = IF chunks = <<>> THEN "done" ELSE "fetching"
         /\ result' = IF chunks = <<>> THEN Empty(query) ELSE Nothing
  /\ UNCHANGED <<registry, query, decision, clock, fallback, failures, unseen>>

PlanRaises ==
  /\ phase = "routed" /\ \E i \in Asked(decision) : decision[i] \notin registered
  /\ phase' = "raised"
  /\ UNCHANGED <<registry, query, decision, plan, progress, answer, clock, fallback,
                 failures, unseen, result>>

(***************************************************************************)
(* _fetch_chunk, for a chunk of the plan or for a fallback                 *)
(***************************************************************************)
\* What a broker has for the days: no more than it goes back.
Bars(b, r) == {d \in (IF b \in Early THEN r.from - 1 ELSE r.from) .. r.to :
                 Earliest(b) <= d /\ d <= Today}

Returned(b, days) ==
  [days |-> days, by |-> b, at |-> clock + 1, fallback |-> phase = "falling"]

\* No quota before the deadline, or the registry has no usable gateway.
Refused(b) == b \notin Eligible

Ask(i) ==
  /\ phase = "fetching" /\ progress[i] = "waiting"
  /\ \A j \in 1 .. i - 1 : progress[j] # "waiting"
  /\ Cardinality({j \in DOMAIN plan : progress[j] = "asked"}) < Concurrent
  /\ \/ /\ ~Refused(plan[i].broker)
        /\ progress' = [progress EXCEPT ![i] = "asked"]
        /\ UNCHANGED failures
     \/ /\ progress' = [progress EXCEPT ![i] = "failed"]
        /\ failures' = failures + 1
  /\ UNCHANGED <<registry, phase, query, decision, plan, answer, clock, fallback,
                 unseen, result>>

\* The broker answers, fails, or fails unseen.
Answer(i) ==
  /\ phase = "fetching" /\ progress[i] = "asked"
  /\ LET b == plan[i].broker
     IN  \/ /\ progress' = [progress EXCEPT ![i] = "ok"]
            /\ answer' = [answer EXCEPT ![i] = Returned(b, Bars(b, plan[i]))]
            /\ clock' = clock + 1
            /\ UNCHANGED <<failures, unseen>>
         \/ /\ b \notin Swallows
            /\ progress' = [progress EXCEPT ![i] = "failed"]
            /\ failures' = failures + 1
            /\ UNCHANGED <<answer, clock, unseen>>
         \/ /\ b \in Swallows
            /\ progress' = [progress EXCEPT ![i] = "ok"] /\ unseen' = unseen \union {i}
            /\ UNCHANGED <<answer, clock, failures>>
  /\ UNCHANGED <<registry, phase, query, decision, plan, fallback, result>>

(***************************************************************************)
(* _try_fallback, for one failed chunk after the other                     *)
(***************************************************************************)
Gathered == \A i \in DOMAIN plan : progress[i] \in {"ok", "failed"}
Left == {i \in DOMAIN plan : progress[i] = "failed" /\ i > cur}

\* The decision is taken anew; its primary is not among the fallback brokers,
\* and the broker that failed is left out.
NextFailed ==
  /\ \/ phase = "fetching" /\ Gathered
     \/ phase = "falling" /\ tries = <<>>
  /\ Left # {}
  /\ phase' = "falling"
  /\ cur' = Min(Left)
  /\ \/ Eligible = {} /\ tries' = <<>>
     \/ \E primary \in Eligible :
          tries' \in Orders(Eligible \ {primary, plan[cur'].broker})
  /\ UNCHANGED <<registry, query, decision, plan, progress, answer, clock, asking,
                 failures, unseen, result>>

AskFallback ==
  /\ phase = "falling" /\ tries # <<>> /\ ~asking
  /\ \/ /\ ~Refused(Head(tries)) /\ asking' = TRUE
        /\ UNCHANGED <<tries, failures>>
     \/ /\ tries' = Tail(tries) /\ failures' = failures + 1
        /\ UNCHANGED asking
  /\ UNCHANGED <<registry, phase, query, decision, plan, progress, answer, clock, cur,
                 unseen, result>>

\* Mutation: the primary's failure is forgotten when a fallback answers.
AnswerFallbackClears ==
  /\ asking /\ asking' = FALSE
  /\ answer' = [answer EXCEPT ![cur] = Returned(Head(tries), Bars(Head(tries), plan[cur]))]
  /\ progress' = [progress EXCEPT ![cur] = "ok"]
  /\ clock' = clock + 1 /\ tries' = <<>> /\ failures' = 0
  /\ UNCHANGED <<registry, phase, query, decision, plan, cur, unseen, result>>

AnswerFallback ==
  /\ asking /\ asking' = FALSE
  /\ LET b == Head(tries)
     IN  \/ /\ answer' = [answer EXCEPT ![cur] = Returned(b, Bars(b, plan[cur]))]
            /\ progress' = [progress EXCEPT ![cur] = "ok"]
            /\ clock' = clock + 1 /\ tries' = <<>>
            /\ UNCHANGED <<failures, unseen>>
         \/ /\ b \notin Swallows
            /\ tries' = Tail(tries) /\ failures' = failures + 1
            /\ UNCHANGED <<progress, answer, clock, unseen>>
         \/ /\ b \in Swallows
            /\ progress' = [progress EXCEPT ![cur] = "ok"]
            /\ tries' = <<>> /\ unseen' = unseen \union {cur}
            /\ UNCHANGED <<answer, clock, failures>>
  /\ UNCHANGED <<registry, phase, query, decision, plan, cur, result>>

(***************************************************************************)
(* _merge, _detect_gaps and the manifest                                   *)
(***************************************************************************)
\* Mutation: the first bar stays, and nobody looks whether others agree.
MergeDayFirst(d) ==
  [keep |-> Min({i \in DOMAIN plan : d \in answer[i].days}), clash |-> FALSE]

\* The bar of answer i against what is kept: that stays, unless the new one
\* disagrees, was fetched later, and the newest is preferred.
Keep(acc, i) ==
  IF acc.keep = 0 THEN [acc EXCEPT !.keep = i]
  ELSE IF Close[answer[i].by] = Close[answer[acc.keep].by] THEN acc
  ELSE [clash |-> TRUE,
        keep |-> IF /\ query.strategy = "prefer_newest_provenance"
                    /\ answer[i].at > answer[acc.keep].at
                 THEN i ELSE acc.keep]

\* The bars of a day, in the order of the chunks.
MergeDay(d) ==
  LET merged[n \in 0 .. Len(plan)] ==
        IF n = 0 THEN [keep |-> 0, clash |-> FALSE]
        ELSE IF d \in answer[n].days THEN Keep(merged[n - 1], n) ELSE merged[n - 1]
  IN  merged[Len(plan)]

Days == UNION {answer[i].days : i \in DOMAIN plan}

\* Only the days before the first bar and after the last are gaps.
Gaps(days) == {d \in query.from .. query.to : d < Min(days) \/ d > Max(days)}

Merged == [bars      |-> [d \in Days |-> MergeDay(d).keep],
           conflicts |-> {d \in Days : MergeDay(d).clash},
           gaps      |-> Gaps(Days),
           degraded  |-> failures > 0]

Finish ==
  /\ \/ phase = "fetching" /\ Gathered
     \/ phase = "falling" /\ tries = <<>>
  /\ Left = {}
  /\ IF Days = {} THEN phase' = "done" /\ result' = Empty(query)
     ELSE IF Merged.conflicts # {} /\ query.strategy = "fail_on_conflict"
     THEN phase' = "raised" /\ UNCHANGED result
     ELSE phase' = "done" /\ result' = Merged
  /\ UNCHANGED <<registry, query, decision, plan, progress, answer, clock, fallback,
                 failures, unseen>>

\* IntelligentMarketGateway.history: when fetch raises, one broker is asked for
\* all of it, past the coordinator.  It never asks to fail on a conflict.
HistoryOfOne ==
  /\ phase = "raised" /\ query.strategy # "fail_on_conflict"
  /\ phase' = IF Eligible = {} THEN "error" ELSE "single"
  /\ UNCHANGED <<registry, query, decision, plan, progress, answer, clock, fallback,
                 failures, unseen, result>>

Next ==
  \/ \E b \in Brokers : \/ Deregister(b) \/ Register(b)
                        \/ \E ok \in BOOLEAN : UpdateHealth(b, ok)
  \/ Route \/ Plan \/ PlanRaises
  \/ \E i \in DOMAIN plan : Ask(i) \/ Answer(i)
  \/ NextFailed \/ AskFallback \/ AnswerFallback
  \/ Finish \/ HistoryOfOne

Spec == Init /\ [][Next]_vars

(***************************************************************************)
(* Properties                                                              *)
(***************************************************************************)
States == {"waiting", "asked", "ok", "failed"}
Phases == {"idle", "routed", "fetching", "falling", "done", "raised", "single", "error"}

Spans == [broker : Brokers, from : Int, to : Int]
Answers == [days : SUBSET Int, by : Brokers \union {""}, at : Nat, fallback : BOOLEAN]

\* The types of the registry and of the fetch, and how many chunks are fetched
\* at a time.
TypeOK ==
  /\ registered \subseteq Brokers /\ healthy \subseteq registered
  /\ changes \in 0 .. MaxChanges
  /\ phase \in Phases /\ query \in Queries
  /\ decision \in Seq(Brokers) /\ plan \in Seq(Spans)
  /\ \A i \in DOMAIN plan : plan[i].from <= plan[i].to
  /\ progress \in [DOMAIN plan -> States] /\ answer \in [DOMAIN plan -> Answers]
  /\ Cardinality({i \in DOMAIN plan : progress[i] = "asked"}) <= Concurrent
  /\ cur \in 0 .. Len(plan) /\ tries \in Seq(Brokers) /\ asking \in BOOLEAN
  /\ clock \in Nat /\ failures \in Nat /\ unseen \subseteq DOMAIN plan

Requested == query.from .. query.to
DaysOf(c) == c.from .. c.to

\* The plan shares the request out: no day twice, no chunk beyond its broker's
\* reach or its size, none outside the request unless that ends before a
\* broker's window begins, and every requested day that one of the brokers
\* asked reaches is in a chunk.
PlanShares ==
  /\ \A i, j \in DOMAIN plan : i # j => DaysOf(plan[i]) \intersect DaysOf(plan[j]) = {}
  /\ \A i \in DOMAIN plan :
       /\ plan[i].from >= Earliest(plan[i].broker)
       /\ Cardinality(DaysOf(plan[i])) <= MaxChunk[plan[i].broker]
       /\ DaysOf(plan[i]) \subseteq Requested \/ \E b \in Range(decision) : query.to < Earliest(b)
  /\ plan # <<>> /\ changes = 0 =>
       \A i \in Asked(decision), d \in Requested :
         d >= Earliest(decision[i]) => \E j \in DOMAIN plan : d \in DaysOf(plan[j])

\* A requested day of which the series has no bar shows: it is in a gap, or the
\* series is degraded, unless a gateway took its broker's error for no bars.  A
\* bar is marked as a fallback's exactly if its chunk was planned for another
\* broker than it came from, and degrades the series.
LossShows ==
  phase = "done" =>
    /\ \A d \in Requested \ DOMAIN result.bars :
         \/ d \in result.gaps \/ result.degraded
         \/ \E i \in unseen : d \in DaysOf(plan[i])
    /\ \A d \in DOMAIN result.bars :
         LET i == result.bars[d]
         IN  /\ answer[i].fallback <=> answer[i].by # plan[i].broker
             /\ answer[i].fallback => result.degraded

\* A series returned under fail_on_conflict has no day on which two of its
\* answers disagree; under another strategy each such day is a conflict, and
\* with prefer_newest_provenance the bar kept is the latest that disagrees.
ConflictsSeen ==
  phase = "done" =>
    \A i, j \in DOMAIN plan : \A d \in answer[i].days \intersect answer[j].days :
      Close[answer[i].by] # Close[answer[j].by] =>
        /\ query.strategy # "fail_on_conflict" /\ d \in result.conflicts
        /\ query.strategy = "prefer_newest_provenance" =>
             answer[result.bars[d]].at >= answer[i].at
==============================================================================
