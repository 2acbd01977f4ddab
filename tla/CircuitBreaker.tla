--------------------------- MODULE CircuitBreaker ---------------------------
(***************************************************************************)
(* core/resilience.py: one CircuitBreaker shared by the threads of a       *)
(* process, each calling a remote service through retry_with_backoff       *)
(* around circuit_breaker.                                                 *)
(*                                                                         *)
(* The breaker's lock is held for one access to its state at a time and    *)
(* never while the service is called, so a call admitted in one state of   *)
(* the breaker may be answered in another.                                 *)
(***************************************************************************)
EXTENDS Integers

CONSTANTS
    Callers,
    Threshold,      \* failure_threshold
    Recovery,       \* recovery_timeout, in ticks
    MaxRetries      \* max_retries

ASSUME ConstantsAssumption ==
    Threshold \in Nat \ {0} /\ Recovery \in Nat /\ MaxRetries \in Nat

VARIABLES
    state,      \* _state
    failures,   \* _failure_count; beyond the threshold nothing compares it
    age,        \* time.monotonic() - _last_failure_time, up to recovery_timeout
    pc,         \* where each caller is
    seen,       \* its local variable `state` in call()
    attempt,    \* its local variable `attempt` in the retry wrapper
    up          \* does the service answer?

breaker == <<state, failures, age>>
breakerVars == <<state, failures, age, pc, seen, attempt, up>>

CircuitState == {"closed", "open", "half_open"}

-----------------------------------------------------------------------------
\* MUTANT: HALF_OPEN after any time.
ObservedEarly == IF state = "open" THEN "half_open" ELSE state

\* MUTANT: OPEN for good.
ObservedNever == state

\* The `state` property: what it returns, and leaves in _state.
Observed == IF state = "open" /\ age = Recovery THEN "half_open" ELSE state

\* MUTANT: the counter is left as it was.
OnSuccessKeepsCount == state' = "closed" /\ UNCHANGED <<failures, age>>

OnSuccess == state' = "closed" /\ failures' = 0 /\ UNCHANGED age

\* MUTANT: a failure in HALF_OPEN starts a new count.
OnFailureRestarts ==
    /\ failures' = IF state = "half_open" \/ failures = Threshold THEN 1 ELSE failures + 1
    /\ state' = IF failures' = Threshold THEN "open" ELSE state
    /\ age' = 0

OnFailure ==
    /\ failures' = IF failures < Threshold THEN failures + 1 ELSE Threshold
    /\ state' = IF failures' = Threshold THEN "open" ELSE state
    /\ age' = 0

\* MUTANT: the attempts are not counted.
RetryForever(c) == pc' = [pc EXCEPT ![c] = "sleep"] /\ UNCHANGED attempt

\* MUTANT: range(max_retries + 2), and a last sleep.
RetryOnceMore(c) ==
    \/ /\ attempt[c] <= MaxRetries
       /\ pc' = [pc EXCEPT ![c] = "sleep"]
       /\ attempt' = [attempt EXCEPT ![c] = @ + 1]
    \/ /\ attempt[c] > MaxRetries
       /\ pc' = [pc EXCEPT ![c] = "idle"]
       /\ UNCHANGED attempt

\* The `except` of the retry wrapper: sleep and try again, or raise.
RetryOrRaise(c) ==
    \/ /\ attempt[c] < MaxRetries
       /\ pc' = [pc EXCEPT ![c] = "sleep"]
       /\ attempt' = [attempt EXCEPT ![c] = @ + 1]
    \/ /\ attempt[c] = MaxRetries
       /\ pc' = [pc EXCEPT ![c] = "idle"]
       /\ UNCHANGED attempt

-----------------------------------------------------------------------------
\* Somebody calls the decorated function.
Call(c) ==
    /\ pc[c] = "idle"
    /\ pc' = [pc EXCEPT ![c] = "call"]
    /\ attempt' = [attempt EXCEPT ![c] = 0]
    /\ UNCHANGED <<breaker, seen, up>>

\* call(): the state is read, and unless it is OPEN the thread goes on to call the
\* service; when exactly it does decides nothing, so "running" begins here.
Admit(c) ==
    /\ pc[c] = "call"
    /\ Observed # "open"
    /\ state' = Observed
    /\ seen' = [seen EXCEPT ![c] = Observed]
    /\ pc' = [pc EXCEPT ![c] = "running"]
    /\ UNCHANGED <<failures, age, attempt, up>>

\* The fallback answers, if there is one and it can.
FallBack(c) == pc' = [pc EXCEPT ![c] = "idle"] /\ UNCHANGED attempt

\* CircuitBreakerError, an Exception like any other to the retry wrapper.
Reject(c) ==
    /\ pc[c] = "call"
    /\ Observed = "open"
    /\ FallBack(c) \/ RetryOrRaise(c)
    /\ UNCHANGED <<breaker, seen, up>>

Succeed(c) ==
    /\ pc[c] = "running"
    /\ OnSuccess
    /\ pc' = [pc EXCEPT ![c] = "idle"]
    /\ UNCHANGED <<seen, attempt, up>>

\* The service raises one of expected_exceptions.
Fail(c) ==
    /\ pc[c] = "running" /\ ~up
    /\ OnFailure
    /\ RetryOrRaise(c)
    /\ UNCHANGED <<seen, up>>

\* It raises something else: neither handler runs, and nothing is retried.
Escape(c) ==
    /\ pc[c] = "running" /\ ~up
    /\ pc' = [pc EXCEPT ![c] = "idle"]
    /\ UNCHANGED <<breaker, seen, attempt, up>>

\* time.sleep(delay) ends.
Wake(c) ==
    /\ pc[c] = "sleep"
    /\ pc' = [pc EXCEPT ![c] = "call"]
    /\ UNCHANGED <<breaker, seen, attempt, up>>

\* Anyone may read the `state` property.
Inspect ==
    /\ state' = Observed
    /\ UNCHANGED <<failures, age, pc, seen, attempt, up>>

Reset ==
    /\ state' = "closed" /\ failures' = 0
    /\ UNCHANGED <<age, pc, seen, attempt, up>>

BreakerTick ==
    /\ age < Recovery
    /\ age' = age + 1
    /\ UNCHANGED <<state, failures, pc, seen, attempt, up>>

\* The service breaks down or recovers.
Toggle ==
    /\ up' = ~up
    /\ UNCHANGED <<breaker, pc, seen, attempt>>

BreakerInit ==
    /\ state = "closed" /\ failures = 0 /\ age = Recovery
    /\ pc = [c \in Callers |-> "idle"]
    /\ seen = [c \in Callers |-> "closed"]
    /\ attempt = [c \in Callers |-> 0]
    /\ up = TRUE

BreakerStep(c) == Admit(c) \/ Reject(c) \/ Succeed(c) \/ Fail(c) \/ Escape(c) \/ Wake(c)

BreakerNext == \/ \E c \in Callers : Call(c) \/ BreakerStep(c)
        \/ Inspect \/ Reset \/ BreakerTick \/ Toggle

BreakerSpec == BreakerInit /\ [][BreakerNext]_breakerVars

\* Time passes, a call that is running ends (it has no timeout of its own, but the
\* clients it wraps have), and a sleep ends.
FairSpec == /\ BreakerSpec
            /\ WF_breakerVars(BreakerTick)
            /\ \A c \in Callers : WF_breakerVars(BreakerStep(c))

\* Moreover somebody keeps calling.
BusySpec == FairSpec /\ \A c \in Callers : WF_breakerVars(Call(c))

-----------------------------------------------------------------------------
BreakerTypeOK ==
    /\ state \in CircuitState /\ failures \in 0 .. Threshold /\ age \in 0 .. Recovery
    /\ pc \in [Callers -> {"idle", "call", "running", "sleep"}]
    /\ seen \in [Callers -> {"closed", "half_open"}]
    /\ attempt \in [Callers -> 0 .. MaxRetries]
    /\ up \in BOOLEAN

\* The state and the counter agree however the answers of concurrent calls are
\* ordered: the breaker is closed exactly when the failures counted since the last
\* success are fewer than the threshold (resilience.py:85-98).  In HALF_OPEN the
\* counter is still there, so one failure is enough to open it again.
ClosedBelowThreshold == state = "closed" <=> failures < Threshold

\* "HALF_OPEN -> ... failure -> OPEN" (resilience.py:7), also for the failure of a
\* call that was admitted before the breaker opened.
HalfOpenFailureReopens ==
    [][\A c \in Callers : Fail(c) /\ state = "half_open" => state' = "open"]_breakerVars

\* While the breaker is closed or half open again, the failure that opened it is
\* recovery_timeout old, unless a call succeeded or reset() was called: no thread is
\* let through to the service while it is OPEN.  It speaks of the moment the state is
\* read (resilience.py:60-65 and 73-77); a thread let through starts its call a little
\* later (line 80), and another may have opened the breaker in between.
FailFast ==
    [][\A c \in Callers :
          pc[c] # "running" /\ pc'[c] = "running" =>
              failures < Threshold \/ age = Recovery]_breakerVars

\* Every call ends after at most MaxRetries retries (resilience.py:165-184).
CallsEnd == \A c \in Callers : pc[c] = "call" ~> pc[c] = "idle"

\* Once the service has recovered for good and somebody keeps calling, the breaker
\* closes for good (resilience.py:62-91).
Recovers == <>[]up => <>[](state = "closed")

=============================================================================
