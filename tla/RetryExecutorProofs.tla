------------------------ MODULE RetryExecutorProofs -------------------------
(***************************************************************************)
(* Proofs about RetryExecutor, for every number of callers and attempts,   *)
(* every threshold and every open duration.                                *)
(***************************************************************************)
EXTENDS RetryExecutor, TLAPS

\* What ties the breaker's own counters and stamp to the history: without it
\* HalfOpenOnlyAfterRest is not inductive, because whether an OPEN breaker may
\* become HALF_OPEN is decided by elapsed and not by rest.
CountersAgree ==
    /\ cb.state = "CLOSED" => cb.failures = run /\ run < FailureThreshold
    /\ cb.state = "HALF_OPEN" => cb.successes = streak /\ streak < SuccessThreshold
    /\ cb.state = "OPEN" => cb.elapsed = rest

IInv == TypeOK /\ CountersAgree /\ HalfOpenOnlyAfterRest

\* The part of the type invariant and of the agreement that speaks of the
\* breaker and of the history alone.
BreakerOK ==
    /\ cb \in Breaker
    /\ run \in 0..CountBound
    /\ streak \in 0..CountBound
    /\ rest \in 0..OpenDuration
    /\ CountersAgree
    /\ HalfOpenOnlyAfterRest

\* Reading the state keeps the agreement, whether it half-opens or not.
LEMMA PollKeeps ==
    ASSUME BreakerOK, NEW event \in {"admitted", "read"},
           cb' = Poll(cb), Observe(event)
    PROVE  BreakerOK'
<1> USE BreakerConfig DEF BreakerOK, Breaker, CircuitState, CountersAgree,
        HalfOpenOnlyAfterRest, Observe, Entered, Poll, Transition, Bump
<1>1. CASE cb.state = "OPEN" /\ cb.elapsed >= OpenDuration
  BY <1>1
<1>2. CASE ~(cb.state = "OPEN" /\ cb.elapsed >= OpenDuration)
  BY <1>2
<1> QED BY <1>1, <1>2

\* Recording a success keeps the agreement.
LEMMA SuccessKeeps ==
    ASSUME BreakerOK, cb' = OnSuccess(cb), Observe("success")
    PROVE  BreakerOK'
<1> USE BreakerConfig DEF BreakerOK, Breaker, CircuitState, CountersAgree,
        HalfOpenOnlyAfterRest, Observe, Entered, OnSuccess, Transition, Bump
<1>1. CASE cb.state = "CLOSED"
  <2>1. cb' = [state |-> "CLOSED", failures |-> 0,
               successes |-> Bump(cb.successes), elapsed |-> cb.elapsed]
    BY <1>1
  <2>2. /\ run' = 0 /\ streak' = streak /\ rest' = rest
    BY <1>1, <2>1
  <2>3. cb' \in Breaker /\ cb'.state = "CLOSED" /\ cb'.failures = 0
    BY <2>1
  <2> QED BY <2>2, <2>3
<1>2. CASE cb.state = "OPEN"
  BY <1>2
<1>3. CASE cb.state = "HALF_OPEN"
  BY <1>3
<1> QED BY <1>1, <1>2, <1>3

\* Recording a failure keeps the agreement.
LEMMA FailureKeeps ==
    ASSUME BreakerOK, cb' = OnFailure(cb), Observe("failure")
    PROVE  BreakerOK'
<1> USE BreakerConfig DEF BreakerOK, Breaker, CircuitState, CountersAgree,
        HalfOpenOnlyAfterRest, Observe, Entered, OnFailure, Transition, Bump
<1>1. CASE cb.state = "CLOSED"
  BY <1>1
<1>2. CASE cb.state = "OPEN"
  BY <1>2
<1>3. CASE cb.state = "HALF_OPEN"
  BY <1>3
<1> QED BY <1>1, <1>2, <1>3

\* A tick of the clock keeps the agreement.
LEMMA TickKeeps ==
    ASSUME BreakerOK, cb' = Aged(cb), Observe("tick")
    PROVE  BreakerOK'
BY BreakerConfig DEF BreakerOK, Breaker, CircuitState, CountersAgree,
    HalfOpenOnlyAfterRest, Observe, Entered, Aged, Bump

\* A reset keeps the agreement.
LEMMA ResetKeeps ==
    ASSUME BreakerOK, cb' = Reset(cb), Observe("reset")
    PROVE  BreakerOK'
<1>1. cb' = [state |-> "CLOSED", failures |-> 0, successes |-> 0, elapsed |-> cb.elapsed]
  BY DEF Reset, Transition, BreakerOK, Breaker, CircuitState
<1> QED
  BY <1>1, BreakerConfig DEF BreakerOK, Breaker, CircuitState, CountersAgree,
    HalfOpenOnlyAfterRest, Observe, Entered

-----------------------------------------------------------------------------

\* The initial state satisfies the inductive invariant.
LEMMA InitIInv == Init => IInv
BY BreakerConfig, RetryConfig
   DEF Init, IInv, TypeOK, CountersAgree, HalfOpenOnlyAfterRest, NewBreaker,
       Breaker, CircuitState, Location, BreakerOK

\* Every step preserves the inductive invariant.
LEMMA StepIInv == IInv /\ [Next]_vars => IInv'
<1> SUFFICES ASSUME IInv, [Next]_vars
             PROVE  IInv'
  OBVIOUS
<1> USE BreakerConfig, RetryConfig
<1>a. BreakerOK /\ TypeOK
  BY DEF IInv, BreakerOK, TypeOK
<1>b. BreakerOK' /\ (tokens \in 0..Capacity)' /\ (pc \in [Caller -> Location])'
        /\ (attempt \in [Caller -> 1..MaxAttempts])' /\ (healthy \in BOOLEAN)'
        /\ (exposed \subseteq Caller)'
      => IInv'
  BY DEF IInv, BreakerOK, TypeOK
<1>c. UNCHANGED <<cb, history>> => BreakerOK'
  BY <1>a DEF BreakerOK, history, CountersAgree, HalfOpenOnlyAfterRest
<1>1. ASSUME NEW c \in Caller, Start(c)  PROVE IInv'
  BY <1>1, <1>a, <1>b, <1>c DEF Start, Goto, TypeOK, Location, health
<1>2. ASSUME NEW c \in Caller, CheckRefused(c)  PROVE IInv'
  BY <1>2, <1>a, <1>b, <1>c DEF CheckRefused, Finish, Goto, TypeOK, Location, health
<1>3. ASSUME NEW c \in Caller, CheckAdmitted(c)  PROVE IInv'
  <2>1. BreakerOK'
    BY <1>3, <1>a, PollKeeps DEF CheckAdmitted
  <2> QED BY <1>3, <2>1, <1>a, <1>b DEF CheckAdmitted, Goto, TypeOK, Location, health
<1>4. ASSUME NEW c \in Caller, Acquire(c)  PROVE IInv'
  BY <1>4, <1>a, <1>b, <1>c DEF Acquire, Goto, TypeOK, Location
<1>5. ASSUME NEW c \in Caller, Succeed(c)  PROVE IInv'
  <2>1. BreakerOK'
    BY <1>5, <1>a, SuccessKeeps DEF Succeed
  <2> QED BY <1>5, <2>1, <1>a, <1>b DEF Succeed, Finish, Answered, Goto, TypeOK, Location
<1>6. ASSUME NEW c \in Caller, NestedOpen(c)  PROVE IInv'
  BY <1>6, <1>a, <1>b, <1>c DEF NestedOpen, Finish, Answered, Goto, TypeOK, Location
<1>7. ASSUME NEW c \in Caller, FailForGood(c)  PROVE IInv'
  <2>1. BreakerOK'
    BY <1>7, <1>a, FailureKeeps DEF FailForGood
  <2> QED BY <1>7, <2>1, <1>a, <1>b DEF FailForGood, Finish, Answered, Goto, TypeOK, Location
<1>8. ASSUME NEW c \in Caller, FailAndRetry(c)  PROVE IInv'
  <2>1. BreakerOK'
    BY <1>8, <1>a, FailureKeeps DEF FailAndRetry
  <2>2. (attempt \in [Caller -> 1..MaxAttempts])'
    BY <1>8, <1>a DEF FailAndRetry, TypeOK
  <2> QED BY <1>8, <2>1, <2>2, <1>a, <1>b DEF FailAndRetry, Answered, Goto, TypeOK, Location
<1>9. ASSUME NEW c \in Caller, Wake(c)  PROVE IInv'
  BY <1>9, <1>a, <1>b, <1>c DEF Wake, Goto, TypeOK, Location, health
<1>10. ASSUME ResetBreaker  PROVE IInv'
  <2>1. BreakerOK'
    BY <1>10, <1>a, ResetKeeps DEF ResetBreaker
  <2> QED BY <1>10, <2>1, <1>a, <1>b DEF ResetBreaker, TypeOK, health
<1>11. ASSUME ReadState  PROVE IInv'
  <2>1. BreakerOK'
    BY <1>11, <1>a, PollKeeps DEF ReadState
  <2> QED BY <1>11, <2>1, <1>a, <1>b DEF ReadState, TypeOK, health
<1>12. ASSUME Tick  PROVE IInv'
  <2>1. BreakerOK'
    BY <1>12, <1>a, TickKeeps DEF Tick
  <2> QED BY <1>12, <2>1, <1>a, <1>b DEF Tick, TypeOK, health
<1>13. ASSUME Toggle  PROVE IInv'
  BY <1>13, <1>a, <1>b, <1>c DEF Toggle, TypeOK, history
<1>14. CASE UNCHANGED vars
  BY <1>14, <1>a, <1>b, <1>c DEF vars, TypeOK, health
<1> QED
  BY <1>1, <1>2, <1>3, <1>4, <1>5, <1>6, <1>7, <1>8, <1>9, <1>10, <1>11, <1>12,
     <1>13, <1>14 DEF Next, Execute

\* The inductive invariant holds throughout.
THEOREM AlwaysIInv == Spec => []IInv
BY InitIInv, StepIInv, PTL DEF Spec

\* Counters, locations and history keep their types.
THEOREM Typing == Spec => []TypeOK
<1>1. IInv => TypeOK
  BY DEF IInv
<1> QED BY <1>1, AlwaysIInv, PTL

\* A half-open breaker has rested for the whole open period, whatever the
\* interleaving of callers, late results, resets and reads.
THEOREM RestBeforeHalfOpen == Spec => []HalfOpenOnlyAfterRest
<1>1. IInv => HalfOpenOnlyAfterRest
  BY DEF IInv
<1> QED BY <1>1, AlwaysIInv, PTL

-----------------------------------------------------------------------------
(* The action properties *)

\* Which steps write the breaker.
LEMMA BreakerWriters ==
    ASSUME [Next]_vars
    PROVE  \/ UNCHANGED cb
           \/ cb' = Poll(cb)
           \/ cb' = OnSuccess(cb)
           \/ cb' = OnFailure(cb)
           \/ cb' = Aged(cb)
           \/ cb' = Reset(cb) /\ UNCHANGED pc
BY DEF Next, vars, Execute, Start, CheckRefused, CheckAdmitted, Acquire, Succeed,
       NestedOpen, FailForGood, FailAndRetry, Wake, ResetBreaker, ReadState, Tick, Toggle

\* A closed breaker opens only on FailureThreshold failures in a row.
THEOREM OpeningNeedsFailures == Spec => OpensOnlyOnFailuresInARow
<1>1. ASSUME IInv, [Next]_vars, cb.state = "CLOSED", cb'.state = "OPEN"
      PROVE  run + 1 >= FailureThreshold
  <2>1. cb' = OnFailure(cb)
    BY <1>1, BreakerWriters
       DEF IInv, TypeOK, Breaker, Poll, OnSuccess, Aged, Reset, Transition
  <2> QED
    BY <1>1, <2>1, BreakerConfig
       DEF IInv, TypeOK, Breaker, CountersAgree, OnFailure, Transition, Bump
<1>2. IInv /\ [Next]_vars
      => [cb.state = "CLOSED" /\ cb'.state = "OPEN" => run + 1 >= FailureThreshold]_vars
  BY <1>1
<1> QED BY <1>2, AlwaysIInv, PTL DEF Spec, OpensOnlyOnFailuresInARow

\* Short of a reset, a breaker closes only from HALF_OPEN and on the
\* SuccessThreshold-th success since it became half-open.
THEOREM ClosingNeedsProbes == Spec => ClosesOnlyAfterProbes
<1>1. ASSUME IInv, [Next]_vars, cb.state # "CLOSED", cb'.state = "CLOSED", pc' # pc
      PROVE  cb.state = "HALF_OPEN" /\ streak + 1 >= SuccessThreshold
  <2>1. cb' = OnSuccess(cb)
    BY <1>1, BreakerWriters
       DEF IInv, TypeOK, Breaker, CircuitState, Poll, OnFailure, Aged, Transition
  <2>2. cb.state = "HALF_OPEN"
    BY <1>1, <2>1 DEF IInv, TypeOK, Breaker, CircuitState, OnSuccess
  <2> QED
    BY <1>1, <2>1, <2>2, BreakerConfig
       DEF IInv, TypeOK, Breaker, CountersAgree, OnSuccess, Transition, Bump
<1>2. IInv /\ [Next]_vars
      => [cb.state # "CLOSED" /\ cb'.state = "CLOSED" /\ pc' # pc =>
            /\ cb.state = "HALF_OPEN"
            /\ streak + 1 >= SuccessThreshold]_vars
  BY <1>1
<1> QED BY <1>2, AlwaysIInv, PTL DEF Spec, ClosesOnlyAfterProbes

\* Nobody is admitted while the breaker is open and its open period runs.
THEOREM NoEarlyAdmission == Spec => NoAdmissionWhileOpen
<1>1. ASSUME IInv, [Next]_vars, NEW c \in Caller, pc[c] = "check", pc'[c] = "limiter"
      PROVE  cb'.state # "OPEN" /\ (cb'.state = "HALF_OPEN" => rest >= OpenDuration)
  <2>1. cb' = Poll(cb) /\ Allows(cb)
    BY <1>1 DEF Next, vars, Execute, Start, CheckRefused, CheckAdmitted, Acquire,
       Succeed, NestedOpen, FailForGood, FailAndRetry, Wake, ResetBreaker, ReadState,
       Tick, Toggle, Finish, Goto, IInv, TypeOK, Location
  <2>2. CASE cb.state = "OPEN" /\ cb.elapsed >= OpenDuration
    BY <1>1, <2>1, <2>2 DEF IInv, TypeOK, CountersAgree, Breaker, Allows
  <2>3. CASE ~(cb.state = "OPEN" /\ cb.elapsed >= OpenDuration)
    BY <1>1, <2>1, <2>3
       DEF IInv, TypeOK, Breaker, HalfOpenOnlyAfterRest, Poll, Allows
  <2> QED BY <2>2, <2>3
<1>2. IInv /\ [Next]_vars
      => [\A c \in Caller :
            pc[c] = "check" /\ pc'[c] = "limiter" =>
               /\ cb'.state # "OPEN"
               /\ cb'.state = "HALF_OPEN" => rest >= OpenDuration]_vars
  BY <1>1
<1> QED BY <1>2, AlwaysIInv, PTL DEF Spec, NoAdmissionWhileOpen

=============================================================================
