--------------------------- MODULE RetryExecutor ----------------------------
(***************************************************************************)
(* brokers/common/resilience/retry.py (and its async twin retry_async.py): *)
(* callers that share one circuit breaker and one token bucket of          *)
(* rate_limiter.py run execute() concurrently.                             *)
(*                                                                         *)
(* Each attempt of execute() takes several steps, and the other callers    *)
(* run between them: the breaker is read (Check), a token is waited for    *)
(* (Acquire), fn() runs, and its outcome is recorded in the breaker as it  *)
(* then is, whatever it was when the attempt was admitted.                 *)
(*                                                                         *)
(* The variables run, streak and rest are history: they are computed from  *)
(* what happened, never from the breaker's counters, and no action reads   *)
(* them.                                                                   *)
(***************************************************************************)
EXTENDS CircuitBreaker

CONSTANTS
    Caller,         \* threads or tasks inside execute()
    MaxAttempts,    \* RetryConfig.max_attempts
    Capacity        \* RateLimitConfig.capacity of the category's bucket

\* RetryConfig and RateLimitConfig reject values that are not positive.
ASSUME RetryConfig ==
    /\ MaxAttempts \in Nat \ {0}
    /\ Capacity \in Nat \ {0}

VARIABLES
    cb,         \* the circuit breaker
    tokens,     \* TokenBucketRateLimiter._tokens
    pc,         \* where each caller stands in execute()
    attempt,    \* its attempt, counted from 1
    healthy,    \* whether fn() succeeds when it is called
    exposed,    \* callers whose fn() was running while it was not
    run,        \* failures recorded in CLOSED since the last success or closing
    streak,     \* successes recorded since the last entry into HALF_OPEN
    rest        \* ticks since the last entry into OPEN

health == <<healthy, exposed>>
history == <<run, streak, rest>>
vars == <<cb, tokens, pc, attempt, health, history>>

Location == {"idle", "check", "limiter", "fn", "sleep"}

Init ==
    /\ cb = NewBreaker
    /\ tokens = Capacity
    /\ pc = [c \in Caller |-> "idle"]
    /\ attempt = [c \in Caller |-> 1]
    /\ healthy = TRUE
    /\ exposed = {}
    /\ run = 0 /\ streak = 0 /\ rest = OpenDuration

Goto(c, l) == pc' = [pc EXCEPT ![c] = l]

Finish(c) == Goto(c, "idle") /\ UNCHANGED attempt

\* fn() is over for c, one way or another.
Answered(c) == exposed' = exposed \ {c} /\ UNCHANGED <<tokens, healthy>>

Entered(s) == cb.state # s /\ cb'.state = s

\* What an outside observer of one step notes down.
Observe(event) ==
    /\ run' = CASE event = "reset" \/ Entered("CLOSED") -> 0
                [] event = "success" /\ cb.state = "CLOSED" -> 0
                [] event = "failure" /\ cb.state = "CLOSED" -> Bump(run)
                [] OTHER -> run
    /\ streak' = CASE Entered("HALF_OPEN") -> 0
                   [] event = "success" /\ cb.state = "HALF_OPEN" -> Bump(streak)
                   [] OTHER -> streak
    /\ rest' = CASE Entered("OPEN") -> 0
                 [] event = "tick" /\ rest < OpenDuration -> rest + 1
                 [] OTHER -> rest

-----------------------------------------------------------------------------
(* execute() *)

\* A caller enters execute().
Start(c) ==
    /\ pc[c] = "idle"
    /\ Goto(c, "check")
    /\ attempt' = [attempt EXCEPT ![c] = 1]
    /\ UNCHANGED <<cb, tokens, health, history>>

\* 1. Circuit breaker check, refused: CircuitBreakerOpenError.
CheckRefused(c) ==
    /\ pc[c] = "check"
    /\ ~Allows(cb)
    /\ Finish(c)
    /\ UNCHANGED <<cb, tokens, health, history>>

\* 1. Circuit breaker check, passed: reading the state may half-open it.
CheckAdmitted(c) ==
    /\ pc[c] = "check"
    /\ Allows(cb)
    /\ cb' = Poll(cb)
    /\ Goto(c, "limiter")
    /\ Observe("admitted")
    /\ UNCHANGED <<tokens, attempt, health>>

\* Mutation: the bucket is debited without a look at what it holds.
AcquireUnchecked(c) ==
    /\ pc[c] = "limiter"
    /\ tokens' = tokens - 1
    /\ Goto(c, "fn")
    /\ exposed' = IF healthy THEN exposed ELSE exposed \cup {c}
    /\ UNCHANGED <<cb, attempt, healthy, history>>

\* 2. Rate limit acquire: wait, with no timeout, for a token.
Acquire(c) ==
    /\ pc[c] = "limiter"
    /\ tokens >= 1
    /\ tokens' = tokens - 1
    /\ Goto(c, "fn")
    /\ exposed' = IF healthy THEN exposed ELSE exposed \cup {c}
    /\ UNCHANGED <<cb, attempt, healthy, history>>

\* 3-4. fn() returned: record the success and return its result.
Succeed(c) ==
    /\ pc[c] = "fn"
    /\ cb' = OnSuccess(cb)
    /\ Finish(c)
    /\ Answered(c)
    /\ Observe("success")

\* fn() raised CircuitBreakerOpenError (a breaker further down): passed on
\* without being recorded here.
NestedOpen(c) ==
    /\ pc[c] = "fn"
    /\ c \in exposed
    /\ Finish(c)
    /\ Answered(c)
    /\ UNCHANGED <<cb, history>>

\* fn() raised an error that is not retryable, or a retryable one on the
\* last attempt: record the failure and raise it.
FailForGood(c) ==
    /\ pc[c] = "fn"
    /\ c \in exposed
    /\ cb' = OnFailure(cb)
    /\ Finish(c)
    /\ Answered(c)
    /\ Observe("failure")

\* fn() raised a retryable error and attempts are left: record the failure
\* and sleep for the backoff delay.
FailAndRetry(c) ==
    /\ pc[c] = "fn"
    /\ c \in exposed
    /\ attempt[c] < MaxAttempts
    /\ cb' = OnFailure(cb)
    /\ attempt' = [attempt EXCEPT ![c] = @ + 1]
    /\ Goto(c, "sleep")
    /\ Answered(c)
    /\ Observe("failure")

\* The delay is over: the loop begins its next attempt.
Wake(c) ==
    /\ pc[c] = "sleep"
    /\ Goto(c, "check")
    /\ UNCHANGED <<cb, tokens, attempt, health, history>>

-----------------------------------------------------------------------------
(* The rest of the process *)

\* An operator calls reset() on the breaker.
ResetBreaker ==
    /\ cb' = Reset(cb)
    /\ Observe("reset")
    /\ UNCHANGED <<tokens, pc, attempt, health>>

\* Somebody reads the state property for the observability endpoints.
ReadState ==
    /\ cb' = Poll(cb)
    /\ Observe("read")
    /\ UNCHANGED <<tokens, pc, attempt, health>>

\* Time passes, by what _refill needs to add one token: the open period ages
\* and the bucket fills up to its capacity.
Tick ==
    /\ cb' = Aged(cb)
    /\ tokens' = IF tokens < Capacity THEN tokens + 1 ELSE tokens
    /\ Observe("tick")
    /\ UNCHANGED <<pc, attempt, health>>

\* The remote end goes down, under every fn() that is running, or comes back.
Toggle ==
    /\ healthy' = ~healthy
    /\ exposed' = IF healthy THEN {c \in Caller : pc[c] = "fn"} ELSE exposed
    /\ UNCHANGED <<cb, tokens, pc, attempt, history>>

Execute(c) ==
    \/ Start(c)
    \/ CheckRefused(c)
    \/ CheckAdmitted(c)
    \/ Acquire(c)
    \/ Succeed(c)
    \/ NestedOpen(c)
    \/ FailForGood(c)
    \/ FailAndRetry(c)
    \/ Wake(c)

Next == (\E c \in Caller : Execute(c)) \/ ResetBreaker \/ ReadState \/ Tick \/ Toggle

Spec == Init /\ [][Next]_vars

\* Callers inside execute() keep running and time keeps passing; callers come
\* back with new requests (the feeds and pollers above this layer do).
FairSpec ==
    /\ Spec
    /\ WF_vars(Tick)
    /\ \A c \in Caller : WF_vars(Execute(c))

-----------------------------------------------------------------------------
(* Properties *)

\* Every variable keeps its type: counters within their bounds, callers at
\* one of the points of execute().
TypeOK ==
    /\ cb \in Breaker
    /\ tokens \in 0..Capacity
    /\ pc \in [Caller -> Location]
    /\ attempt \in [Caller -> 1..MaxAttempts]
    /\ healthy \in BOOLEAN
    /\ exposed \subseteq Caller
    /\ run \in 0..CountBound
    /\ streak \in 0..CountBound
    /\ rest \in 0..OpenDuration

\* A half-open breaker has been open for the whole open period since it last
\* opened: late results, resets and re-openings never shorten the wait
\* (state property, _transition_to stamping _opened_at_ns).
HalfOpenOnlyAfterRest == cb.state = "HALF_OPEN" => rest >= OpenDuration

\* Nobody is admitted between an opening and the end of its open period,
\* whichever caller opened it (allow_request).
NoAdmissionWhileOpen ==
    [][\A c \in Caller :
          pc[c] = "check" /\ pc'[c] = "limiter" =>
             /\ cb'.state # "OPEN"
             /\ cb'.state = "HALF_OPEN" => rest >= OpenDuration]_vars

\* A closed breaker opens only when FailureThreshold failures in a row have
\* been recorded with no success between them, counted over all callers and
\* from the last closing on: failures of an earlier outage do not count
\* (on_failure, on_success and _transition_to together).
OpensOnlyOnFailuresInARow ==
    [][cb.state = "CLOSED" /\ cb'.state = "OPEN" => run + 1 >= FailureThreshold]_vars

\* Without an operator's reset a breaker closes only from HALF_OPEN, and only
\* with the SuccessThreshold-th success recorded since it became half-open:
\* successes counted while CLOSED do not carry over (on_success).
ClosesOnlyAfterProbes ==
    [][cb.state # "CLOSED" /\ cb'.state = "CLOSED" /\ pc' # pc =>
          /\ cb.state = "HALF_OPEN"
          /\ streak + 1 >= SuccessThreshold]_vars

\* Once the remote end stays healthy and callers keep calling, the breaker
\* closes for good, whatever results of the outage are still in flight.
Recovery == <>[]healthy => <>[](cb.state = "CLOSED")

=============================================================================
