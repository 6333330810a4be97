---------------------------- MODULE EvaluationMC ----------------------------
(* Evaluation for TLC: three cases, of which an edit drops one and relabels *)
(* another; panels that find the defect, flag a clean line, lose an agent   *)
(* or lose everybody.                                                       *)
EXTENDS Evaluation, TLC

Hit(line, confidence) ==
    [agent |-> "correctness", category |-> "logic", severity |-> "major",
     file_path |-> 1, line_start |-> line, line_end |-> line, title |-> {"w"},
     confidence |-> confidence, agreeing |-> {}, categories |-> {},
     evidence |-> <<>>]

\* The verdicts of a panel of which the agents in lost have failed.
PanelOf(findings, lost, cost) ==
    [i \in 1..4 |->
       LET a == <<"correctness", "docs", "security", "tests">>[i]
       IN [agent |-> a, status |-> IF a \in lost THEN "failed" ELSE "ok",
           findings |-> IF a = "correctness" THEN findings ELSE <<>>,
           cost_usd |-> IF a \in lost THEN 0 ELSE cost]]

Good  == PanelOf(<<Hit(5, 9000)>>, {}, 20)
Wrong == PanelOf(<<Hit(20, 9000)>>, {}, 20)
Shaky == PanelOf(<<Hit(5, 9000)>>, {"tests"}, 20)
Dead  == PanelOf(<<>>, AgentType, 0)

DefectAt(line, category) ==
    [file_path |-> 1, line |-> line, agent |-> "correctness", categories |-> {category},
     min_severity |-> "minor"]

Case(id, category) ==
    [id |-> id, expected_decision |-> "auto_post",
     expected |-> <<DefectAt(5, category)>>, must_not_find |-> <<DefectAt(20, "logic")>>,
     may_find |-> <<>>, permitted_concerns |-> {}]

Before == <<Case("a", "logic"), Case("b", "logic"), Case("c", "logic")>>
After  == <<Case("a", "documentation"), Case("b", "logic")>>

MCSets == {Before, After}

MCOutcomes == [a |-> {Good, Wrong, Dead}, b |-> {Good, Shaky}, c |-> {Good}]

AnyPath == Permutations(Paths)

=============================================================================
