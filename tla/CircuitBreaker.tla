--------------------------- MODULE CircuitBreaker ---------------------------
(***************************************************************************)
(* brokers/common/resilience/circuit_breaker.py                            *)
(*                                                                         *)
(* A breaker is a record; every operation of the class runs under its      *)
(* RLock and is therefore one function from breakers to breakers.  The     *)
(* modules that use a breaker (RetryExecutor, DhanHttpClient) keep one in  *)
(* a variable and apply these operators to it.                             *)
(*                                                                         *)
(* Two abstractions.  Instead of the nanosecond stamp _opened_at_ns a      *)
(* breaker keeps the ticks elapsed since then, counted up to OpenDuration: *)
(* the code only ever asks whether the difference has reached the          *)
(* duration.  The failure and success counters grow without bound in the   *)
(* code; here they stop at CountBound, which is at least either threshold, *)
(* and the code only compares them with the thresholds.                    *)
(***************************************************************************)
EXTENDS Integers

CONSTANTS
    FailureThreshold,   \* CircuitBreakerConfig.failure_threshold
    SuccessThreshold,   \* CircuitBreakerConfig.success_threshold
    OpenDuration,       \* CircuitBreakerConfig.open_duration_ms, in ticks
    CountBound          \* where the counters of the model stop

\* CircuitBreakerConfig.__post_init__ rejects any value that is not positive.
ASSUME BreakerConfig ==
    /\ FailureThreshold \in Nat \ {0}
    /\ SuccessThreshold \in Nat \ {0}
    /\ OpenDuration \in Nat \ {0}
    /\ CountBound \in Nat
    /\ CountBound >= FailureThreshold
    /\ CountBound >= SuccessThreshold

CircuitState == {"CLOSED", "OPEN", "HALF_OPEN"}

Breaker == [state : CircuitState,
            failures : 0..CountBound,
            successes : 0..CountBound,
            elapsed : 0..OpenDuration]

NewBreaker == [state |-> "CLOSED", failures |-> 0, successes |-> 0, elapsed |-> 0]

\* One more on a counter, up to the bound.
Bump(n) == IF n < CountBound THEN n + 1 ELSE n

-----------------------------------------------------------------------------
(* Mutations of _transition_to and of the handlers, for the mutant runs.   *)

\* The success count survives the entry into HALF_OPEN.
TransitionKeepsSuccesses(b, s) ==
    IF b.state = s THEN b
    ELSE [state |-> s,
          failures |-> IF s = "CLOSED" THEN 0 ELSE b.failures,
          successes |-> IF s = "CLOSED" THEN 0 ELSE b.successes,
          elapsed |-> IF s = "OPEN" THEN 0 ELSE b.elapsed]

\* The opening time is stamped on the first opening only.
TransitionKeepsStamp(b, s) ==
    IF b.state = s THEN b
    ELSE [state |-> s,
          failures |-> IF s = "CLOSED" THEN 0 ELSE b.failures,
          successes |-> IF s = "OPEN" THEN b.successes ELSE 0,
          elapsed |-> b.elapsed]

\* Closing leaves the failure count of the outage in place.
TransitionKeepsFailures(b, s) ==
    IF b.state = s THEN b
    ELSE [state |-> s,
          failures |-> b.failures,
          successes |-> IF s = "OPEN" THEN b.successes ELSE 0,
          elapsed |-> IF s = "OPEN" THEN 0 ELSE b.elapsed]

-----------------------------------------------------------------------------

\* _transition_to(new_state)
Transition(b, s) ==
    IF b.state = s THEN b
    ELSE [state |-> s,
          failures |-> IF s = "CLOSED" THEN 0 ELSE b.failures,
          successes |-> IF s = "OPEN" THEN b.successes ELSE 0,
          elapsed |-> IF s = "OPEN" THEN 0 ELSE b.elapsed]

\* A reading of the state that never moves an open breaker to HALF_OPEN.
PollNever(b) == b

\* The state property: what the breaker becomes when somebody reads it.
Poll(b) ==
    IF b.state = "OPEN" /\ b.elapsed >= OpenDuration
    THEN Transition(b, "HALF_OPEN")
    ELSE b

\* allow_request(): read the state, admit unless it is OPEN.
Allows(b) == Poll(b).state # "OPEN"

\* on_success(): probes close a half-open breaker, a success in CLOSED
\* clears the failures, a success that arrives while OPEN changes nothing.
OnSuccess(b) ==
    CASE b.state = "HALF_OPEN" ->
           LET counted == [b EXCEPT !.successes = Bump(b.successes)] IN
           IF counted.successes >= SuccessThreshold
           THEN Transition(counted, "CLOSED")
           ELSE counted
      [] b.state = "CLOSED" -> [b EXCEPT !.successes = Bump(b.successes), !.failures = 0]
      [] b.state = "OPEN" -> b

\* on_failure(): every failure is counted, also one that arrives while OPEN.
OnFailure(b) ==
    LET counted == [b EXCEPT !.failures = Bump(b.failures)] IN
    IF \/ b.state = "HALF_OPEN"
       \/ b.state = "CLOSED" /\ counted.failures >= FailureThreshold
    THEN Transition(counted, "OPEN")
    ELSE counted

\* reset()
Reset(b) == [Transition(b, "CLOSED") EXCEPT !.failures = 0, !.successes = 0]

\* One tick of time.monotonic_ns().
Aged(b) == [b EXCEPT !.elapsed = IF b.elapsed < OpenDuration THEN b.elapsed + 1 ELSE b.elapsed]

=============================================================================
