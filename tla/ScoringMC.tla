------------------------------ MODULE ScoringMC ------------------------------
(***************************************************************************)
(* What the golden set makes of every panel: the findings are consolidated *)
(* by the fan-in and scored against two cases whose labels differ.         *)
(***************************************************************************)
EXTENDS AggregatorMC, Scoring

LabelAt(line, agent, categories, severity) ==
    [file_path |-> 1, line |-> line, agent |-> agent, categories |-> categories,
     min_severity |-> severity]

\* Defects in three families, one of them with two readings; a line that is
\* clean for one reading; an observation that is optional; a permitted concern.
CaseA ==
    [id |-> "a", expected_decision |-> "escalate",
     expected |-> <<LabelAt(1, "security", {"authz"}, "major"),
                    LabelAt(5, "correctness", {"logic", "error_handling"}, "minor"),
                    LabelAt(9, "tests", {"test_coverage"}, "info")>>,
     must_not_find |-> <<LabelAt(14, "security", {"other"}, "info")>>,
     may_find |-> <<LabelAt(1, "none", {"test_coverage"}, "info")>>,
     permitted_concerns |-> {<<"correctness", "api_contract">>}]

\* A defect that a citation reaches, one that another is just too far from, a
\* missing test.
CaseB ==
    [id |-> "b", expected_decision |-> "none",
     expected |-> <<LabelAt(25, "none", {}, "info"),
                    LabelAt(18, "correctness", {"logic"}, "major"),
                    LabelAt(1, "tests", {"test_coverage"}, "info")>>,
     must_not_find |-> <<LabelAt(5, "none", {}, "info")>>,
     may_find |-> <<>>, permitted_concerns |-> {}]

Golden == <<CaseA, CaseB>>

Run == [decision |-> "escalate", confidence |-> 900, cost_usd |-> 100,
        failed_agents |-> {}]

Results(findings) == [i \in DOMAIN Golden |-> score_case(Golden[i], findings, Run)]

Found(findings, case) == LabelsFound(score_case(case, findings, Run).matches)

-----------------------------------------------------------------------------
(* Properties *)

\* The report adds up: every label is found or missed and never both, nobody's
\* hits are counted twice or left out of the agents' table, exactly the judged
\* findings are in the calibration bins, and a label stands for one concern at
\* least (score, _calibration, the recall of render).
ReportAddsUp ==
    LET results == Results(output)
        report  == score(results)
        b       == report.overall
        labels  == Sum(LAMBDA c : Len(c.expected), Golden)
        Agents(Op(_)) == FoldSet(LAMBDA a, n : n + Op(report.by_agent[a]), 0, AgentType)
    IN /\ b.labels_found + b.misses = labels
       /\ b.hits + b.allowed + b.false_positives + b.unlabelled
             = Len(Golden) * Len(output)
       /\ b.hits = Agents(LAMBDA x : x.hits)
       /\ b.unlabelled = Agents(LAMBDA x : x.unlabelled)
       /\ b.labels_found <= b.concerns
       /\ b.labels_found <= Agents(LAMBDA x : x.labels_found)
       /\ b.hits + b.false_positives = Sum(LAMBDA x : x.count, report.calibration)
       /\ b.hits = Sum(LAMBDA x : x.hits, report.calibration)
       /\ recall_full_panels(report) = recall(b)

AboutTests(label) == \E c \in label.categories : family_of(c) = "testing"

\* Two citations of the panel that _dedupe_evidence takes for one.
TakenForOne ==
    \E i, j \in DOMAIN Raw : \E d \in DOMAIN Raw[i].evidence, e \in DOMAIN Raw[j].evidence :
        /\ Raw[i].evidence[d] # Raw[j].evidence[e]
        /\ Raw[i].evidence[d].file_path = Raw[j].evidence[e].file_path
        /\ Raw[i].evidence[d].line_start = Raw[j].evidence[e].line_start
        /\ Raw[i].evidence[d].excerpt = Raw[j].evidence[e].excerpt

\* f is one of those that g folds, or was merged into one of them.
Swallows(g, f) ==
    /\ "more" \in g.title
    /\ \E i \in DOMAIN merge(Raw) :
          LET m == merge(Raw)[i]
          IN m.agent = g.agent /\ m.category = g.category /\ Holds(m, f)

\* What consolidation may cost in recall, and nothing else.  A label that a
\* finding of the panel satisfies by its own lines is satisfied by the review,
\* unless a fold swallowed it: a fold keeps none of the concerns that were merged
\* into what it swallows, and of the places twelve.  One that a finding satisfies
\* by a citation is so too, unless a fold swallowed the finding, or it was merged:
\* into one with six citations, or with the same first line cited twice
\* (_dedupe_evidence keeps the first of them).
ConsolidationKeepsRecall ==
    \A c \in DOMAIN Golden :
        \A l \in Found(Raw, Golden[c]) \ Found(output, Golden[c]) :
            \A i \in {j \in DOMAIN Raw : l \in classify(Raw[j], Golden[c]).labels} :
                LET f     == Raw[i]
                    label == Golden[c].expected[l]
                    itself == near(f.file_path, f.line_start, f.line_end, label)
                IN \E k \in DOMAIN output :
                     LET g == output[k]
                     IN \/ /\ Swallows(g, f)
                           /\ itself /\ AboutTests(label) => Len(g.evidence) = 12
                        \/ /\ ~itself /\ Holds(g, f)
                           /\ Len(g.evidence) = 6 \/ TakenForOne

\* Rescoring a recorded run finds nothing that was not found when it was measured:
\* a finding's record hits no other labels (as_dict, _rebuild).  It may score
\* better all the same, because a trap that only the rest of a cited range is on is
\* not fallen into again; where every citation is one line long the finding counts
\* for exactly what it did.
RescoreFindsNoMore ==
    \A c \in DOMAIN Golden : \A k \in DOMAIN output :
        LET f      == output[k]
            before == classify(f, Golden[c])
            after  == classify(recorded(f), Golden[c])
        IN /\ after.labels \subseteq before.labels
           /\ (\A e \in DOMAIN f.evidence :
                    f.evidence[e].line_start # 0
                        => EndOf(f.evidence[e]) = f.evidence[e].line_start)
                 => [after EXCEPT !.finding = f] = before

=============================================================================
