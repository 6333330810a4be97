------------------------------ MODULE Matching ------------------------------
(***************************************************************************)
(* Deciding whether a finding is the one a label of the golden set         *)
(* describes (evaluation/matching.py, the labels of evaluation/fixtures).  *)
(*                                                                         *)
(* A label is [file_path, line, agent, categories, min_severity]: agent is *)
(* "none" where the label names nobody, and categories is the set of the   *)
(* alternatives it names ("a|b"), empty where it names no category.  Notes *)
(* are left out.  A match knows the labels it covers by their position in  *)
(* case.expected, which stands for their identity.                         *)
(***************************************************************************)
EXTENDS Findings, SequencesExt

LINE_TOLERANCE == 3

Abs(n) == IF n < 0 THEN -n ELSE n

near(path, lo, hi, label) ==
    /\ path = label.file_path
    /\ \/ lo <= label.line /\ label.line <= hi
       \/ Abs(lo - label.line) <= LINE_TOLERANCE
       \/ Abs(hi - label.line) <= LINE_TOLERANCE

\* The last line of a piece of evidence that has a first one.
EndOf(e) == IF e.line_end = 0 THEN e.line_start ELSE e.line_end

\* Mutant: only the finding's own lines count.
LocatesOwnLines(finding, label) ==
    near(finding.file_path, finding.line_start, finding.line_end, label)

\* The finding's own lines, or a place it cites, reach the label.
locates(finding, label) ==
    \/ near(finding.file_path, finding.line_start, finding.line_end, label)
    \/ \E i \in DOMAIN finding.evidence :
          LET e == finding.evidence[i]
          IN e.line_start # 0 /\ near(e.file_path, e.line_start, EndOf(e), label)

\* The same without the tolerance, which would drag findings onto a trap.
covers(finding, label) ==
    LET On(path, lo, hi) ==
            path = label.file_path /\ lo <= label.line /\ label.line <= hi
    IN \/ On(finding.file_path, finding.line_start, finding.line_end)
       \/ \E i \in DOMAIN finding.evidence :
             LET e == finding.evidence[i]
             IN e.line_start # 0 /\ On(e.file_path, e.line_start, EndOf(e))

\* A trap fires on the line it declares clean, within its scope.  A trap's
\* category is compared as a whole, so one that names alternatives never fires.
traps(finding, trap) ==
    /\ covers(finding, trap)
    /\ trap.agent \in {"none", finding.agent}
    /\ trap.categories \in {{}, {finding.category}}

\* finding.categories or [finding.category]
CategoriesFound(f) == IF f.categories = {} THEN {f.category} ELSE f.categories

\* The families agree; a label that names no category, or one that is unknown,
\* makes no claim.  For a docs label a contract finding counts if the docs
\* specialist contributed to it.
same_concern(finding, label) ==
    LET found    == CategoriesFound(finding)
        families == {family_of(c) : c \in label.categories}
    IN \/ label.categories = {}
       \/ label.categories \ Category # {}
       \/ \E c \in found : family_of(c) \in families
       \/ /\ families = {"docs"} /\ "api_contract" \in found
          /\ "docs" \in finding.agreeing \cup {finding.agent}

-----------------------------------------------------------------------------

\* classify(), for one finding: a hit; a trap, unless the finding reaches a
\* labelled defect; permitted; or unlabelled.
classify(f, case) ==
    LET covered == {i \in DOMAIN case.expected :
                      locates(f, case.expected[i]) /\ same_concern(f, case.expected[i])}
        aimed   == \E i \in DOMAIN case.expected : locates(f, case.expected[i])
        trapped == \E i \in DOMAIN case.must_not_find : traps(f, case.must_not_find[i])
        permitted ==
            \/ \E i \in DOMAIN case.may_find :
                  locates(f, case.may_find[i]) /\ same_concern(f, case.may_find[i])
            \/ <<f.agent, f.category>> \in case.permitted_concerns
        primary == case.expected[Min(covered)]
        hit     == covered # {}
    IN [finding |-> f,
        kind    |-> IF hit THEN "hit"
                    ELSE IF trapped /\ ~aimed THEN "false_positive"
                    ELSE IF permitted THEN "allowed"
                    ELSE "unlabelled",
        labels  |-> covered,
        agent_correct |->
            hit /\ (\/ primary.agent = "none"
                    \/ primary.agent \in (IF f.agreeing = {} THEN {f.agent} ELSE f.agreeing)),
        category_correct |->
            hit /\ (\/ primary.categories = {}
                    \/ CategoriesFound(f) \cap primary.categories # {}),
        severity_sufficient |->
            hit /\ SeverityIndex(f.severity) >= SeverityIndex(primary.min_severity)]

LabelsFound(matches) == UNION {matches[i].labels : i \in DOMAIN matches}

\* The labels that no hit covers.
missed(case, matches) == DOMAIN case.expected \ LabelsFound(matches)

=============================================================================
