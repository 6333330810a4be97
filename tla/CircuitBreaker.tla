--------------------------- MODULE CircuitBreaker ---------------------------
(***************************************************************************)
(* The circuit breaker (reliability/circuit.py), one per dependency and    *)
(* process, called by concurrent tasks.                                    *)
(*                                                                         *)
(* A call awaits its dependency outside the lock, so results arrive in any *)
(* order and long after the breaker has moved on.  The monotonic clock is  *)
(* kept as the time since the breaker opened, which matters only up to     *)
(* recovery_time.                                                          *)
(***************************************************************************)
EXTENDS Naturals

CONSTANTS Callers,           \* tasks that call through the breaker
          FailureThreshold,  \* failure_threshold
          SuccessThreshold,  \* success_threshold
          RecoveryTime,      \* recovery_time, in ticks
          MaxFailures        \* bound on the failure counter

ASSUME BreakerAssumption ==
    /\ FailureThreshold \in Nat \ {0}
    /\ SuccessThreshold \in Nat \ {0}
    /\ RecoveryTime \in Nat
    /\ MaxFailures \in Nat

VARIABLES
    state,      \* _state
    failures,   \* _failures
    successes,  \* _successes
    age,        \* time.monotonic() - _opened_at, up to RecoveryTime
    call,       \* call[c]: what caller c is doing
    healthy,    \* the dependency answers
    streak,     \* history: failed results since the last good one
    probes      \* history: good results since the last failed one or opening

breaker == <<state, failures, successes, age>>
bvars == <<breaker, call, healthy, streak, probes>>

BreakerInit ==
    /\ state = "closed"
    /\ failures = 0
    /\ successes = 0
    /\ age = RecoveryTime
    /\ call = [c \in Callers |-> "idle"]
    /\ healthy = TRUE
    /\ streak = 0
    /\ probes = 0

-----------------------------------------------------------------------------

\* Reading the state property lets an open breaker become half open.
Lapsed == state = "open" /\ age >= RecoveryTime

ReadState ==
    IF Lapsed THEN state' = "half_open" /\ successes' = 0
              ELSE UNCHANGED <<state, successes>>

\* Somebody looks: the state property is public, and reading it has the effect.
Look ==
    /\ Lapsed
    /\ ReadState
    /\ UNCHANGED <<failures, age, call, healthy, streak, probes>>

\* call(): raise CircuitOpen, or await the dependency.
Begin(c) ==
    /\ call[c] # "waiting"
    /\ ReadState
    /\ call' = [call EXCEPT ![c] = IF state' = "open" THEN "refused" ELSE "waiting"]
    /\ UNCHANGED <<failures, age, healthy, streak, probes>>

\* Mutant: a good result leaves the failures of a closed breaker.
OnSuccessKeeps ==
    IF state = "half_open" THEN state' = "closed" /\ failures' = 0 /\ UNCHANGED <<successes, age>>
    ELSE UNCHANGED breaker

\* Mutant: the first good result closes the breaker.
OnSuccessAtOnce == state' = "closed" /\ failures' = 0 /\ UNCHANGED <<successes, age>>

\* Mutant: good results do not add up.
OnSuccessNoSum ==
    IF state = "half_open" THEN successes' = 1 /\ UNCHANGED <<state, failures, age>>
    ELSE failures' = 0 /\ UNCHANGED <<state, successes, age>>

\* _on_success
OnSuccess ==
    IF state = "half_open"
    THEN /\ successes' = successes + 1
         /\ IF successes + 1 >= SuccessThreshold
            THEN state' = "closed" /\ failures' = 0
            ELSE UNCHANGED <<state, failures>>
         /\ UNCHANGED age
    ELSE failures' = 0 /\ UNCHANGED <<state, successes, age>>

\* _on_failure
OnFailure ==
    /\ failures' = failures + 1
    /\ IF state = "half_open" \/ failures + 1 >= FailureThreshold
       THEN state' = "open" /\ age' = 0
       ELSE UNCHANGED <<state, age>>
    /\ UNCHANGED successes

Succeed(c) ==
    /\ call[c] = "waiting" /\ healthy
    /\ OnSuccess
    /\ call' = [call EXCEPT ![c] = "idle"]
    /\ streak' = 0
    /\ probes' = IF probes < SuccessThreshold THEN probes + 1 ELSE probes
    /\ UNCHANGED healthy

RaiseError(c) ==
    /\ call[c] = "waiting" /\ ~healthy
    /\ failures < MaxFailures
    /\ OnFailure
    /\ call' = [call EXCEPT ![c] = "idle"]
    /\ streak' = streak + 1
    /\ probes' = 0
    /\ UNCHANGED healthy

\* The task is cancelled, by the agent's timeout for one: CancelledError is no
\* Exception, so the breaker hears nothing of it.
Cancel(c) ==
    /\ call[c] = "waiting"
    /\ call' = [call EXCEPT ![c] = "idle"]
    /\ UNCHANGED <<breaker, healthy, streak, probes>>

Tick ==
    /\ age < RecoveryTime
    /\ age' = age + 1
    /\ UNCHANGED <<state, failures, successes, call, healthy, streak, probes>>

Outage == healthy' = ~healthy /\ UNCHANGED <<breaker, call, streak, probes>>

Result(c) == Succeed(c) \/ RaiseError(c)

BreakerNext ==
    \/ \E c \in Callers : Begin(c) \/ Result(c) \/ Cancel(c)
    \/ Look \/ Tick \/ Outage

BreakerSpec == BreakerInit /\ [][BreakerNext]_bvars

\* Time passes, and tasks keep calling and keep getting answers: a worker with
\* work has calls to make, and a call ends in a result infinitely often, not
\* always in a cancellation.
FairBreakerSpec ==
    /\ BreakerSpec
    /\ WF_bvars(Tick)
    /\ \A c \in Callers : WF_bvars(Begin(c)) /\ SF_bvars(Result(c))

-----------------------------------------------------------------------------
(* Properties *)

\* The type of every variable.
BreakerTypeOK ==
    /\ state \in {"closed", "open", "half_open"}
    /\ failures \in Nat
    /\ successes \in Nat
    /\ age \in 0..RecoveryTime
    /\ call \in [Callers -> {"idle", "waiting", "refused"}]
    /\ healthy \in BOOLEAN
    /\ streak \in Nat
    /\ probes \in 0..SuccessThreshold

\* A closed breaker counts exactly the failures since the last good result, and
\* has not missed its threshold; _on_success and _on_failure keep it so in any
\* order of late results.
ClosedCountsTheStreak ==
    state = "closed" => failures = streak /\ failures < FailureThreshold

\* A half open breaker is still short of the successes that would close it, and
\* every one it counts is a good result since it opened with no failure since.
HalfOpenCountsProbes ==
    state = "half_open" => successes < SuccessThreshold /\ successes <= probes

\* The breaker trips only on an unbroken run of failures, opens again only on a
\* failed result, never skips the probing on its way back, and closes only when
\* enough results in a row were good.
LegalTransitions ==
    [][/\ state = "closed" /\ state' # "closed" =>
            state' = "open" /\ streak' >= FailureThreshold
       /\ state = "open" /\ state' # "open" =>
            state' = "half_open" /\ age >= RecoveryTime
       /\ state = "half_open" /\ state' = "open" => streak' > 0
       /\ state = "half_open" /\ state' = "closed" => probes' >= SuccessThreshold]_bvars

\* The breaker recovers: once the dependency stays up, it is eventually closed
\* for good.
Recovers == <>[]healthy => <>[](state = "closed")

=============================================================================
