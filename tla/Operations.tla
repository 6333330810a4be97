----------------------------- MODULE Operations -----------------------------
(***************************************************************************)
(* A deployment: the schema is migrated, a runner dying and being started  *)
(* again, while the pipeline enqueues items and operators decide them over *)
(* the same database.                                                      *)
(***************************************************************************)
EXTENDS HumanQueue

ASSUME OperationsAssumption ==
    /\ Items \subseteq Nat \ {0} /\ Priorities \in [Items -> SUBSET Nat]
    /\ Limit \in Nat \ {0} /\ Failures \in Nat

qvars == <<items, arrivals, feedback, page, request, lost, failures>>

ovars == <<mvars, qvars>>

OperationsInit == MigrateInit /\ QueueInit

OperationsNext ==
    \/ (MigrateStep \/ Die) /\ UNCHANGED qvars
    \/ QueueStep /\ UNCHANGED mvars

\* The migrate command is repeated until nothing is pending; statements return;
\* every operator keeps looking at the queue and deciding.
OperationsSpec ==
    /\ OperationsInit /\ [][OperationsNext]_ovars
    /\ WF_ovars(MigrateStep /\ UNCHANGED qvars)
    /\ \A o \in Operators :
          /\ WF_ovars(Respond(o) /\ UNCHANGED mvars)
          /\ WF_ovars(Work(o) /\ UNCHANGED mvars)

-----------------------------------------------------------------------------
(* For TLC *)

\* 001_core.sql: a note, then the two tables; the second statement holds a
\* semicolon in a comment, the first one in a literal.
Core == <<"-", "-", ";", "n", "H", "'", ";", "'", ";", "n",
          "/", "*", ";", "*", "/", "F", ";", "n", "-", "-", "a">>

\* 003_timeseries.sql: a function with a body, then the trigger, dropped under a
\* comment before it is created.
Timeseries == <<"a", "$", "b", "$", ";", "$", "b", "$", ";", "n",
                "-", "-", "a", "n", "D", "\"", ";", "\"", ";", "T">>

MCFiles   == <<Core, Timeseries>>
MCCreates == <<{"H", "F"}, {"T"}>>

\* What waits in the first place is not urgent, what takes the other one may be.
MCPriorities == <<{50}, {1, 50}>>

\* Two items of one review: a job that ran twice may have enqueued it twice.
MCReviewOf == <<1, 1>>

-----------------------------------------------------------------------------
(* Properties *)

\* The ledger is true: what a recorded file is there to create exists, however
\* often the runner died and wherever, and the audit trail keeps its trigger
\* (split_statements, apply_migrations, 003_timeseries.sql).
LedgerIsTrue == \A f \in ledger : Creates[f] \subseteq schema

\* Feedback is earned: every row of feedback was written by one decision of an
\* item of that review, taken by that person and in that sense, which nobody has
\* changed since; and every decided item has its row, unless its request is still
\* under way or was cut off between the two statements of decide().
FeedbackIsEarned ==
    /\ \A r \in feedback : /\ ReviewOf[r.id] = r.review
                           /\ items[r.id].decided_by = r.actor
                           /\ items[r.id].verdict = r.verdict
    /\ \A i \in Items :
          items[i].state \in {"approved", "rejected"} =>
              \/ i \in lost
              \/ \E o \in Operators : request[o].item = i
              \/ \E r \in feedback : r.id = i

\* The migrations get through in the end: nothing a dying runner leaves behind
\* keeps the next one from running the same file again.
MigrationsFinish == <>[](ledger = DOMAIN Files)

\* An item that is more urgent than the one waiting in i arrives.
Overtakes(i) ==
    \E j \in Items : /\ items[i].state = "open" /\ items[j].state # "open"
                     /\ items'[j].state = "open" /\ items'[j].priority < items[i].priority

\* Only urgency passes anybody by: however many items arrive and however small
\* the page is, what waits for a human is decided, unless more urgent items keep
\* arriving for ever (open_hitl orders by priority and then by created_at).
QueueIsServed ==
    \A i \in Items :
        <>[][~Overtakes(i)]_ovars =>
            (items[i].state = "open" ~> items[i].state \in {"approved", "rejected"})

=============================================================================
