---------------------------- MODULE QuotaScheduler ----------------------------
(***************************************************************************)
(* QuotaScheduler for one broker and endpoint class.  A thread (or, with   *)
(* acquire_async, a task) polls the token bucket it has looked up until it  *)
(* gets a token or its priority's deadline passes.  A part of each bucket is *)
(* kept for executions.  Registering the profile again replaces the bucket; *)
(* threads that wait keep the old one.                                     *)
(*                                                                         *)
(* A tick is one polling interval; tokens are counted in units, Unit to a  *)
(* token, refilled at each tick.                                           *)
(***************************************************************************)
EXTENDS Integers

CONSTANTS Threads,
          Unit,      \* units to a token
          Rate,      \* units that a bucket gains in a tick
          Capacity,  \* of a registered bucket, in units
          Default,   \* capacity of the bucket of an unregistered class
          Reserved,  \* reserved share: one in so many units
          MaxWait    \* ticks each priority waits; 0 is one try

Priorities == {"execution", "live", "backfill"}

VARIABLES buckets,   \* units in the current bucket and in the one before
          caps,      \* capacity of each
          profiled,  \* whether the class has a bucket
          waits,     \* what each thread is doing
          since      \* ticks since an execution was served, by bucket

vars == <<buckets, caps, profiled, waits, since>>

\* After so many ticks a bucket has gained a token.
Horizon == Unit \div Rate + 1
Idle == [state |-> "idle", priority |-> "live", left |-> 0, bucket |-> "new"]

TypeOK ==
  /\ caps \in [{"old", "new"} -> {Capacity, Default}]
  /\ buckets \in [{"old", "new"} -> Nat]
  /\ \A b \in {"old", "new"} : buckets[b] <= caps[b]
  /\ profiled \in BOOLEAN
  /\ waits \in [Threads -> [state : {"idle", "trying", "asleep"},
                            priority : Priorities, left : 0 .. MaxWait["backfill"],
                            bucket : {"old", "new"}]]
  /\ since \in [{"old", "new"} -> 0 .. Horizon]

Init ==
  /\ caps = [b \in {"old", "new"} |-> Default]
  /\ buckets = caps
  /\ profiled = FALSE
  /\ waits = [t \in Threads |-> Idle]
  /\ since = [b \in {"old", "new"} |-> Horizon]

\* The reserve of a bucket is a fraction of its capacity.
Reserve(b) == caps[b] \div Reserved

Full(c) ==
  /\ caps' = [old |-> caps["new"], new |-> c]
  /\ buckets' = [old |-> buckets["new"], new |-> c]
  /\ since' = [old |-> since["new"], new |-> Horizon]

\* Bound: a bucket is replaced only when nobody waits for the one before it.
RegisterProfile ==
  /\ \A t \in Threads : waits[t].bucket = "old" => waits[t].state = "idle"
  /\ profiled' = TRUE
  /\ Full(Capacity)
  /\ waits' = [t \in Threads |-> IF waits[t].state # "idle"
                                 THEN [waits[t] EXCEPT !.bucket = "old"] ELSE waits[t]]

\* acquire: an unknown class gets a default bucket for good.
Acquire(t, p) ==
  /\ waits[t].state = "idle"
  /\ profiled' = TRUE
  /\ IF profiled THEN UNCHANGED <<caps, buckets, since>> ELSE Full(Default)
  /\ waits' = [waits EXCEPT ![t] = [state |-> "trying", priority |-> p,
                                    left |-> MaxWait[p], bucket |-> "new"]]

\* Mutation: the reserve is open to everybody.
GrantsAll(b, p) == buckets[b] >= Unit

\* _TokenBucket.try_acquire: all but executions leave the reserve alone.  The
\* caller has its token, or past the deadline a QuotaExhaustedError; release
\* does nothing.
Grants(b, p) ==
  buckets[b] - (IF p = "execution" THEN 0 ELSE Reserve(b)) >= Unit

Try(t) ==
  LET b == waits[t].bucket
      p == waits[t].priority
  IN  /\ waits[t].state = "trying"
      /\ \/ /\ Grants(b, p)
            /\ buckets' = [buckets EXCEPT ![b] = @ - Unit]
            /\ since' = [since EXCEPT ![b] = IF p = "execution" THEN 0 ELSE @]
            /\ waits' = [waits EXCEPT ![t] = Idle]
         \/ /\ ~Grants(b, p)
            /\ waits' = [waits EXCEPT ![t] = IF @.left = 0 THEN Idle
                                             ELSE [@ EXCEPT !.state = "asleep"]]
            /\ UNCHANGED <<buckets, since>>
  /\ UNCHANGED <<caps, profiled>>

Sum(x, y, top) == IF x + y > top THEN top ELSE x + y

\* A polling interval passes; a sleeper tries again, at the deadline once more.
Tick ==
  /\ buckets' = [b \in {"old", "new"} |-> Sum(buckets[b], Rate, caps[b])]
  /\ since' = [b \in {"old", "new"} |-> Sum(since[b], 1, Horizon)]
  /\ waits' = [t \in Threads |->
                 LET w == waits[t]
                     left == IF w.left > 0 THEN w.left - 1 ELSE 0
                 IN  IF w.state # "idle"
                     THEN [w EXCEPT !.left = left, !.state = "trying"] ELSE w]
  /\ UNCHANGED <<caps, profiled>>

Next ==
  \/ RegisterProfile \/ Tick
  \/ \E t \in Threads : \/ \E p \in Priorities : Acquire(t, p)
                        \/ Try(t)

Spec == Init /\ [][Next]_vars

\* An execution is refused only when another was served from the same bucket
\* less than a token's time before: data traffic never starves executions,
\* where the reserve holds a token.
OnlyExecutionsExhaust ==
  \A t \in Threads :
    (waits[t].state = "trying" /\ waits[t].priority = "execution" /\ waits[t].left = 0) =>
      LET b == waits[t].bucket
      IN  \/ Grants(b, "execution")
          \/ Reserve(b) < Unit
          \/ since[b] * Rate < Unit
==============================================================================
