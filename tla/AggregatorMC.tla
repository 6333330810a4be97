---------------------------- MODULE AggregatorMC ----------------------------
(***************************************************************************)
(* The fan-in on every panel of a few reports: agents report findings one  *)
(* at a time (SpecialistAgent._parse), and what aggregate makes of them is *)
(* looked at in every state.                                               *)
(***************************************************************************)
EXTENDS Aggregator

CONSTANTS Pool,         \* findings an agent may report
          MaxFindings   \* bound: findings of the whole panel

\* What SpecialistAgent._parse makes: nobody agrees with a finding yet, and it
\* has one category.
ASSUME PoolAssumption ==
    /\ Pool \subseteq FindingType
    /\ \A f \in Pool : f.agreeing = {} /\ f.categories = {} /\ f.line_start <= f.line_end
    /\ MaxFindings \in Nat

VARIABLES reported,  \* reported[a]: the findings of agent a's verdict
          output     \* what aggregate makes of them

rvars == <<reported, output>>

Panelists == {f.agent : f \in Pool}

\* The panel's verdicts, ORDER BY agent.
Verdicts(r) ==
    LET Row(a) == IF a \in Panelists
                  THEN <<[status |-> "ok", findings |-> r[a]]>> ELSE <<>>
    IN Row("correctness") \o Row("docs") \o Row("security") \o Row("tests")

Raw == RawFindings(Verdicts(reported))

ReportInit == /\ reported = [a \in Panelists |-> <<>>]
              /\ output = <<>>

\* One more finding of an agent was parsed and grounded.
Report(f) ==
    /\ reported' = [reported EXCEPT ![f.agent] = Append(@, f)]
    /\ Len(Raw') <= MaxFindings
    /\ output' = aggregate(Verdicts(reported')).findings

ReportNext == \E f \in Pool : Report(f)

ReportSpec == ReportInit /\ [][ReportNext]_rvars

-----------------------------------------------------------------------------
(* Findings for TLC *)

Finding(agent, category, severity, from, to, word, confidence) ==
    [agent |-> agent, category |-> category, severity |-> severity,
     file_path |-> 1, line_start |-> from, line_end |-> to, title |-> {word},
     confidence |-> confidence, agreeing |-> {}, categories |-> {},
     evidence |-> <<>>]

\* The finding cites ranges of lines besides its own.
Citing(f, ranges) ==
    [f EXCEPT !.evidence = [i \in DOMAIN ranges |->
        [file_path |-> 1, line_start |-> ranges[i][1], line_end |-> ranges[i][2],
         excerpt |-> {}]]]

\* Three specialists, on lines that touch and lines that do not, in one family and
\* across families, in the same words and in others.  The citations of the first
\* of correctness and the second of security do not fit in a merge's six, nor
\* those of the last of tests and the places of a group in a fold's twelve.
MixedPool ==
    {Finding("security", "authz", "critical", 1, 1, "w", 6000),
     Citing(Finding("security", "injection", "minor", 1, 5, "w", 9000),
            <<<<33, 33>>, <<34, 34>>, <<16, 25>>>>),
     Finding("security", "logic", "major", 5, 9, "w", 8000),
     Citing(Finding("security", "other", "info", 16, 16, "y", 5000), <<<<13, 14>>>>),
     Citing(Finding("correctness", "logic", "critical", 1, 5, "w", 9000),
            <<<<9, 14>>, <<30, 30>>, <<31, 31>>, <<32, 32>>>>),
     Finding("correctness", "logic", "minor", 5, 5, "t", 7000),
     Citing(Finding("correctness", "api_contract", "minor", 5, 5, "y", 7000), <<<<16, 16>>>>),
     Finding("tests", "test_coverage", "minor", 1, 1, "w", 7000),
     Finding("tests", "test_coverage", "major", 5, 5, "t", 5000),
     Citing(Finding("tests", "test_coverage", "major", 9, 9, "u", 9000),
            [i \in 1..11 |-> <<40 + i, 40 + i>>])}

-----------------------------------------------------------------------------
(* Properties *)

Holds(place, f) ==
    /\ place.file_path = f.file_path
    /\ place.line_start <= f.line_start /\ f.line_end <= place.line_end

\* g is where a reader of the review finds f: on its lines, or among the places
\* that a folded recommendation cites.
StandsFor(g, f) == Holds(g, f) \/ \E i \in DOMAIN g.evidence : Holds(g.evidence[i], f)

\* A folded recommendation with no room for another place.
FullFold(g) == "more" \in g.title /\ Len(g.evidence) = 12

\* Nothing is buried: whatever is merged and folded, every reported finding is
\* represented by one at least as severe, and if only as severe then at least as
\* confident (up to the cap of 0.99 that _collapse puts on agreement).  Where it
\* is may be lost in one way only: a fold cites twelve places at most (_fold).
NothingBuried ==
    \A i \in DOMAIN Raw : \E k \in DOMAIN output :
        LET f == Raw[i]
            g == output[k]
        IN /\ StandsFor(g, f) \/ FullFold(g)
           /\ \/ SeverityIndex(g.severity) > SeverityIndex(f.severity)
              \/ /\ g.severity = f.severity
                 /\ g.confidence >= Min({AgreementCap, f.confidence})

\* The title of a finding, or of a fold of recommendations that f stands for.
TitleOf(f) == {f.title} \cup
              (IF f.category \in COLLAPSIBLE_CATEGORIES THEN {AndMore(f.title)} ELSE {})

\* Nothing is invented: every finding of the review is one that a specialist
\* made, at that severity, in that category and in those words but for the "(and n
\* more)" of _fold; and each agent that is said to agree with it did report
\* something there, on lines of the finding's (_collapse).
NothingInvented ==
    \A k \in DOMAIN output :
        LET g == output[k]
        IN /\ \E i \in DOMAIN Raw :
                  /\ Raw[i].agent = g.agent /\ Raw[i].category = g.category
                  /\ Raw[i].severity = g.severity /\ g.title \in TitleOf(Raw[i])
                  /\ Holds(g, Raw[i])
           /\ \A a \in g.agreeing : \E i \in DOMAIN Raw :
                  Raw[i].agent = a /\ Holds(g, Raw[i])

\* An agent that repeats itself is no second witness: no finding is more
\* confident than the best reports of the distinct agents justify together.
RepetitionIsNotAgreement ==
    Raw # <<>> =>
        LET BestOf(a) == Max({0} \cup {Raw[i].confidence :
                                i \in {j \in DOMAIN Raw : Raw[j].agent = a}})
            miss == FoldSet(LAMBDA a, p : (p * (One - BestOf(a))) \div One,
                            One, Panelists)
        IN \A k \in DOMAIN output : output[k].confidence <= One - miss

=============================================================================
