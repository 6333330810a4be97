-------------------------------- MODULE Panel --------------------------------
(***************************************************************************)
(* The panel at work: SpecialistAgent.run (agents/base.py) over call_llm   *)
(* (llm/client.py), with_retry (reliability/retry.py) and the BudgetGuard  *)
(* (reliability/budget.py), fanned out by the workflow engine.             *)
(*                                                                         *)
(* The agents of a panel share one guard and interleave at every await;    *)
(* panels of other reviews run at the same time and share the day's        *)
(* spending through the table agent_events.  The breaker between the       *)
(* retry and the provider is CircuitBreaker; here it may be open or not.   *)
(***************************************************************************)
EXTENDS Findings

CONSTANTS Panels,     \* reviews in progress
          Agents,     \* the agents of a panel
          Attempts,   \* RetryPolicy.attempts
          Estimate,   \* _worst_case_cost of a request
          Costs,      \* what a request may cost in the end
          ReviewCap,  \* settings.review_cost_cap_usd
          DailyCap    \* settings.daily_cost_cap_usd

ASSUME PanelAssumption ==
    /\ Attempts \in Nat \ {0}
    /\ Estimate \in Nat /\ Costs \subseteq Nat
    /\ ReviewCap \in Nat /\ DailyCap \in Nat
    /\ IsFiniteSet(Agents)

\* The worst case, an estimate from the length of the prompt, is one.
ASSUME WorstCaseAssumption == \A cost \in Costs : cost <= Estimate

VARIABLES
    panel,    \* panel[p]: "new", "running" or "done"
    guard,    \* guard[p]: the BudgetGuard
    at,       \* at[p][a]: where the agent is
    tries,    \* tries[p][a]: the calls its retry made to the provider
    owed,     \* owed[p][a]: what the answer it holds cost
    verdict,  \* verdict[p][a]: the status it returned
    together, \* together[p]: the most calls that were in flight at once (for the properties)
    events    \* table agent_events: what the day's llm_call rows add up to

agents == <<at, tries, owed, verdict, together>>
vars   == <<panel, guard, agents, events>>

Init ==
    /\ panel = [p \in Panels |-> "new"]
    /\ guard = [p \in Panels |-> [day_spent |-> 0, review_spent |-> 0]]
    /\ at = [p \in Panels |-> [a \in Agents |-> "ready"]]
    /\ tries = [p \in Panels |-> [a \in Agents |-> 0]]
    /\ owed = [p \in Panels |-> [a \in Agents |-> 0]]
    /\ verdict = [p \in Panels |-> [a \in Agents |-> "none"]]
    /\ together = [p \in Panels |-> 0]
    /\ events = 0

\* The sum over the rows of the day, whichever review wrote them.
spend_today_usd == events

\* BudgetGuard.load, then run_panel.  A failed read counts as nothing spent.
Load(p, read) ==
    /\ panel[p] = "new"
    /\ panel' = [panel EXCEPT ![p] = "running"]
    /\ guard' = [guard EXCEPT ![p].day_spent = IF read THEN spend_today_usd ELSE 0]
    /\ UNCHANGED <<agents, events>>

-----------------------------------------------------------------------------
(* One agent *)

\* Mutant: what the review charged so far is not counted.
CheckAtStartOnly(g) ==
    /\ Estimate <= ReviewCap
    /\ g.day_spent + Estimate <= DailyCap

\* BudgetGuard.check lets the request through.
Check(g) ==
    /\ g.review_spent + Estimate <= ReviewCap
    /\ g.day_spent + g.review_spent + Estimate <= DailyCap

\* The agent returns a verdict and is done; its locals are gone.
Answered(p, a, status) ==
    /\ at' = [at EXCEPT ![p][a] = "done"]
    /\ verdict' = [verdict EXCEPT ![p][a] = status]
    /\ tries' = [tries EXCEPT ![p][a] = 0]
    /\ owed' = [owed EXCEPT ![p][a] = 0]

\* Given where the agents are: those whose call was let through and not charged yet.
in_flight(where) == {a \in Agents : where[a] \in {"calling", "backoff"}}

\* The breaker refuses (CircuitOpen is no LLMError, so there is no retry), or
\* the provider is asked.
Call(p, a, open) ==
    IF open THEN Answered(p, a, "failed") /\ UNCHANGED together
    ELSE /\ at' = [at EXCEPT ![p][a] = "calling"]
         /\ tries' = [tries EXCEPT ![p][a] = @ + 1]
         /\ LET calls == Cardinality(in_flight(at[p]) \cup {a})
            IN together' = [together EXCEPT ![p] = IF calls > @ THEN calls ELSE @]
         /\ UNCHANGED <<verdict, owed>>

\* call_llm up to its first await.
Begin(p, a, open) ==
    /\ panel[p] = "running" /\ at[p][a] = "ready"
    /\ IF Check(guard[p]) THEN Call(p, a, open)
       ELSE Answered(p, a, "budget_denied") /\ UNCHANGED together
    /\ UNCHANGED <<panel, guard, events>>

\* with_retry slept, and tries again.
Again(p, a, open) ==
    /\ at[p][a] = "backoff"
    /\ Call(p, a, open)
    /\ UNCHANGED <<panel, guard, events>>

\* The provider answered: the cost is charged to the guard.
Respond(p, a, cost) ==
    /\ at[p][a] = "calling"
    /\ guard' = [guard EXCEPT ![p].review_spent = @ + cost]
    /\ owed' = [owed EXCEPT ![p][a] = cost]
    /\ at' = [at EXCEPT ![p][a] = "recording"]
    /\ UNCHANGED <<panel, tries, verdict, together, events>>

\* An LLMError: back off, until the attempts are used up (RetryExhausted).
RaiseLLMError(p, a) ==
    /\ at[p][a] = "calling"
    /\ IF tries[p][a] < Attempts
       THEN /\ at' = [at EXCEPT ![p][a] = "backoff"]
            /\ UNCHANGED <<verdict, tries, owed>>
       ELSE Answered(p, a, "failed")
    /\ UNCHANGED <<panel, guard, together, events>>

\* A refusal, or an error that is no LLMError: no retry.
GiveUp(p, a) ==
    /\ at[p][a] = "calling"
    /\ Answered(p, a, "failed")
    /\ UNCHANGED <<panel, guard, together, events>>

\* spine.llm_call writes its row, or drops it, and the output is parsed.  One that is
\* no JSON is an ok verdict without findings; an exception of _parse is outside the
\* agent's try, and the engine that gathers the panel records a failure.
Record(p, a, written, parsed) ==
    /\ at[p][a] = "recording"
    /\ events' = IF written THEN events + owed[p][a] ELSE events
    /\ Answered(p, a, IF parsed THEN "ok" ELSE "failed")
    /\ UNCHANGED <<panel, guard, together>>

\* Mutant: the call is not cancelled and may still answer.
TimeOutLeavesCall(p, a) ==
    /\ at[p][a] \in {"calling", "backoff", "recording"}
    /\ verdict' = [verdict EXCEPT ![p][a] = "timeout"]
    /\ UNCHANGED <<panel, guard, at, tries, owed, together, events>>

\* agent_timeout_s pass: wait_for cancels call_llm, wherever it waits.
TimeOut(p, a) ==
    /\ at[p][a] \in {"calling", "backoff", "recording"}
    /\ Answered(p, a, "timeout")
    /\ UNCHANGED <<panel, guard, together, events>>

Step(p, a) ==
    \/ \E open \in BOOLEAN : Begin(p, a, open) \/ Again(p, a, open)
    \/ \E cost \in Costs : Respond(p, a, cost)
    \/ RaiseLLMError(p, a) \/ GiveUp(p, a)
    \/ \E written, parsed \in BOOLEAN : Record(p, a, written, parsed)
    \/ TimeOut(p, a)

-----------------------------------------------------------------------------

\* run_panel collects the verdicts.
Return(p) ==
    /\ panel[p] = "running"
    /\ \A a \in Agents : at[p][a] = "done"
    /\ panel' = [panel EXCEPT ![p] = "done"]
    /\ UNCHANGED <<guard, agents, events>>

Next ==
    \E p \in Panels : \/ \E read \in BOOLEAN : Load(p, read)
                      \/ \E a \in Agents : Step(p, a)
                      \/ Return(p)

\* The event loop runs what can run.  Nothing is assumed of the provider: a call
\* that never answers times out.
Spec ==
    /\ Init /\ [][Next]_vars
    /\ \A p \in Panels : /\ WF_vars(\E read \in BOOLEAN : Load(p, read))
                         /\ WF_vars(Return(p))
                         /\ \A a \in Agents : WF_vars(Step(p, a))

-----------------------------------------------------------------------------
(* Properties *)

\* The type of every variable.
TypeOK ==
    /\ panel \in [Panels -> {"new", "running", "done"}]
    /\ guard \in [Panels -> [day_spent : Nat, review_spent : Nat]]
    /\ at \in [Panels -> [Agents -> {"ready", "calling", "backoff", "recording", "done"}]]
    /\ tries \in [Panels -> [Agents -> 0..Attempts]]
    /\ owed \in [Panels -> [Agents -> Costs \cup {0}]]
    /\ verdict \in [Panels -> [Agents -> VerdictStatus \cup {"none"}]]
    /\ together \in [Panels -> Nat]
    /\ events \in Nat

Promise == INSTANCE FanOut WITH returned <- {p \in Panels : panel[p] = "done"}

\* The panel keeps the promise the pipeline builds on: refusals, errors, an open
\* breaker, a spent budget and a provider that never answers all become exactly
\* one verdict of the agent, for good, and run_panel returns.
KeepsPromise == Promise!Spec

\* check looks at what was charged and reserves nothing, so agents that run together
\* may spend more than either cap allows, but not without bound: counting what is
\* charged and the worst case of every call in flight, a review exceeds its cap, and
\* the day's cap as it read the day when it started, by at most one worst case for
\* each call that was ever in flight beside another.  One call at a time keeps the caps.
OverspendIsBounded ==
    \A p \in Panels : together[p] > 0 =>
        LET spent == guard[p].review_spent + Estimate * Cardinality(in_flight(at[p]))
            over == Estimate * (together[p] - 1)
        IN /\ spent <= ReviewCap + over
           /\ guard[p].day_spent + spent <= DailyCap + over

=============================================================================
