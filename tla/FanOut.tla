------------------------------- MODULE FanOut -------------------------------
(***************************************************************************)
(* What the pipeline relies on when it fans a panel out (WorkflowEngine.   *)
(* run_panel): every agent answers exactly once, whatever happened to it,  *)
(* no answer is taken back, and a panel returns when all its agents have   *)
(* answered, whatever other panels do.                                     *)
(***************************************************************************)
EXTENDS Findings

CONSTANTS Panels, Agents

VARIABLES verdict,  \* verdict[p][a]: the status of the agent's verdict, or "none"
          returned  \* the panels whose run_panel has returned

vars == <<verdict, returned>>

Init ==
    /\ verdict = [p \in Panels |-> [a \in Agents |-> "none"]]
    /\ returned = {}

Answer(p, a) ==
    /\ verdict[p][a] = "none"
    /\ \E s \in VerdictStatus : verdict' = [verdict EXCEPT ![p][a] = s]
    /\ UNCHANGED returned

Return(p) ==
    /\ \A a \in Agents : verdict[p][a] # "none"
    /\ returned' = returned \cup {p}
    /\ UNCHANGED verdict

Next == \E p \in Panels : Return(p) \/ \E a \in Agents : Answer(p, a)

Spec ==
    /\ Init /\ [][Next]_vars
    /\ \A p \in Panels : /\ WF_vars(Return(p))
                         /\ \A a \in Agents : WF_vars(Answer(p, a))

=============================================================================
