------------------------------- MODULE Scoring -------------------------------
(***************************************************************************)
(* The numbers of an evaluation run (evaluation/metrics.py), what a saved  *)
(* report keeps of it, and the comparison with a baseline (evaluation/     *)
(* report.py, scripts/rescore.py).                                         *)
(*                                                                         *)
(* A rate is a fraction <<a, b>>, <<0, 1>> where the code avoids dividing  *)
(* by zero (decision_accuracy is None then); a cost is in units of 0.0001  *)
(* USD.  Comparisons and rounding are exact where the code's are those of  *)
(* floating point numbers.                                                 *)
(***************************************************************************)
EXTENDS Matching

AgentCount == 4   \* len(ALL_AGENTS)

Rate(a, b) == IF b = 0 THEN <<0, 1>> ELSE <<a, b>>

\* round(rate, 3), in thousandths.
Rounded(r) == (2000 * r[1] + r[2]) \div (2 * r[2])

Bucket == [hits |-> 0, allowed |-> 0, labels_found |-> 0, concerns |-> 0,
           false_positives |-> 0, unlabelled |-> 0, misses |-> 0]

precision_strict(b)  == Rate(b.hits, b.hits + b.false_positives + b.unlabelled)
precision_lenient(b) == Rate(b.hits, b.hits + b.false_positives)
recall(b)            == Rate(b.labels_found, b.labels_found + b.misses)
duplicate_rate(b)    == Rate(b.hits, b.concerns)

\* 2pr / (p + r)
f1(b) == LET p == precision_strict(b)
             r == recall(b)
         IN Rate(2 * p[1] * r[1], p[1] * r[2] + r[1] * p[2])

-----------------------------------------------------------------------------
(* Scoring *)

\* run is what else a case's result records: [decision, confidence, cost_usd,
\* failed_agents].
score_case(case, findings, run) ==
    LET matches == [i \in DOMAIN findings |-> classify(findings[i], case)]
    IN [case |-> case, matches |-> matches, missed |-> missed(case, matches), run |-> run]

OfKind(matches, kind) == SelectSeq(matches, LAMBDA m : m.kind = kind)

\* What one match adds to the counts.  A label counts once for the run and once
\* for each agent, a (label, family) pair once for the run.
CountMatch(acc, m) ==
    LET a        == m.finding.agent
        concerns == {<<l, family_of(m.finding.category)>> : l \in m.labels} \ acc.concerns
        new      == m.labels \ acc.labels
        newOf    == m.labels \ acc.per_agent[a]
        Add(b, labels, pairs) ==
            CASE m.kind = "hit"            -> [b EXCEPT !.hits = @ + 1,
                                                 !.labels_found = @ + Cardinality(labels),
                                                 !.concerns = @ + Cardinality(pairs)]
              [] m.kind = "false_positive" -> [b EXCEPT !.false_positives = @ + 1]
              [] m.kind = "allowed"        -> [b EXCEPT !.allowed = @ + 1]
              [] m.kind = "unlabelled"     -> [b EXCEPT !.unlabelled = @ + 1]
    IN [overall   |-> Add(acc.overall, new, concerns),
        by_agent  |-> [acc.by_agent EXCEPT ![a] = Add(@, newOf, {})],
        labels    |-> acc.labels \cup m.labels,
        concerns  |-> acc.concerns \cup concerns,
        per_agent |-> [acc.per_agent EXCEPT ![a] = @ \cup m.labels]]

\* Mutant: what was seen is not forgotten between two cases.
CountResultSeen(acc, result) ==
    LET counted == FoldLeft(CountMatch, acc, result.matches)
    IN [counted EXCEPT !.overall.misses = @ + Cardinality(result.missed)]

\* One case: nothing was seen yet, its matches are counted, then its misses; a
\* miss is the business of the agent its label names.
CountResult(acc, result) ==
    LET fresh   == [acc EXCEPT !.labels = {}, !.concerns = {},
                               !.per_agent = [a \in AgentType |-> {}]]
        counted == FoldLeft(CountMatch, fresh, result.matches)
        Missed(a) == {i \in result.missed : result.case.expected[i].agent = a}
    IN [counted EXCEPT
          !.overall.misses = @ + Cardinality(result.missed),
          !.by_agent = [a \in AgentType |->
                          [@[a] EXCEPT !.misses = @ + Cardinality(Missed(a))]]]

\* An agent without a bucket has an empty one.
Counts(results) ==
    FoldLeft(CountResult,
             [overall |-> Bucket, by_agent |-> [a \in AgentType |-> Bucket],
              labels |-> {}, concerns |-> {}, per_agent |-> [a \in AgentType |-> {}]],
             results)

\* CONFIDENCE_BINS: where each starts; the last one includes 1.
BinStarts == <<0, 5000, 6000, 7000, 8000, 9000, 10001>>

scoreable(matches) == SelectSeq(matches, LAMBDA m : m.kind \in {"hit", "false_positive"})

Sum(Op(_), s) == FoldLeft(LAMBDA n, x : n + Op(x), 0, s)

\* _calibration: count, summed confidence and hits of every bin.
calibration(matches) ==
    [b \in 1..6 |->
       LET members == SelectSeq(scoreable(matches),
                                LAMBDA m : /\ BinStarts[b] <= m.finding.confidence
                                           /\ m.finding.confidence < BinStarts[b + 1])
       IN [count      |-> Len(members),
           confidence |-> Sum(LAMBDA m : m.finding.confidence, members),
           hits       |-> Len(OfKind(members, "hit"))]]

\* _ece: sum over the bins of count/total * |hits/count - confidence/count|.
ece(matches) ==
    Rate(Sum(LAMBDA b : Abs(10000 * b.hits - b.confidence), calibration(matches)),
         10000 * Len(scoreable(matches)))

score(results) ==
    LET matches == FlattenSeq([i \in DOMAIN results |-> results[i].matches])
        hits    == OfKind(matches, "hit")
        counts  == Counts(results)
        decided == SelectSeq(results, LAMBDA r : r.case.expected_decision # "none")
        Share(Op(_), s) == Rate(Len(SelectSeq(s, Op)), Len(s))
    IN [overall            |-> counts.overall,
        by_agent           |-> counts.by_agent,
        calibration        |-> calibration(matches),
        ece                |-> ece(matches),
        category_agreement |-> Share(LAMBDA m : m.category_correct, hits),
        agent_attribution  |-> Share(LAMBDA m : m.agent_correct, hits),
        decision_accuracy  |-> Share(LAMBDA r : r.run.decision = r.case.expected_decision, decided),
        cost_per_case_usd  |-> Rate(Sum(LAMBDA r : r.run.cost_usd, results), Len(results)),
        cases              |-> results]

\* render(): recall over the cases whose whole panel answered.
recall_full_panels(report) ==
    LET intact == SelectSeq(report.cases, LAMBDA c : c.run.failed_agents = {})
        found  == Sum(LAMBDA c : Cardinality(LabelsFound(c.matches)), intact)
    IN Rate(found, found + Sum(LAMBDA c : Cardinality(c.missed), intact))

-----------------------------------------------------------------------------
(* What is saved, and what is made of it later *)

\* Mutant: a citation is recorded by the line it stops before.
RecordByEnd(f) ==
    [f EXCEPT !.evidence =
        [i \in DOMAIN @ |-> LET line == EndOf(@[i]) + 1
                           IN [@[i] EXCEPT !.line_start = line, !.line_end = line]]]

\* "cites" of as_dict: of each citation that has a line, the path and first line.
cites(f) ==
    FoldLeft(LAMBDA cs, e :
               IF e.line_start = 0 THEN cs
               ELSE Append(cs, [file_path |-> e.file_path, line |-> e.line_start]),
             <<>>, f.evidence)

\* A finding as it was saved (confidence to three places) and as _rebuild reads it.
recorded(f) ==
    [f EXCEPT !.confidence = 10 * ((@ + 5) \div 10),
              !.evidence   = [i \in DOMAIN cites(f) |->
                                LET c == cites(f)[i]
                                IN [file_path |-> c.file_path, line_start |-> c.line,
                                    line_end |-> c.line, excerpt |-> {}]]]

\* as_dict: what compare and rescore read of a saved run.
as_dict(report) ==
    [precision_strict |-> Rounded(precision_strict(report.overall)),
     recall           |-> Rounded(recall(report.overall)),
     f1               |-> Rounded(f1(report.overall)),
     ece              |-> Rounded(report.ece),
     per_case_usd     |-> (2 * report.cost_per_case_usd[1] + report.cost_per_case_usd[2])
                              \div (2 * report.cost_per_case_usd[2]),
     per_case         |->
        [i \in DOMAIN report.cases |->
           LET c == report.cases[i]
           IN [id |-> c.case.id, run |-> c.run,
               findings |-> [k \in DOMAIN c.matches |-> recorded(c.matches[k].finding)]]]]

\* The outages that rescoring still skips.
rescore_skips(saved) ==
    LET dead == Len(SelectSeq(saved.per_case,
                              LAMBDA c : Cardinality(c.run.failed_agents) >= AgentCount))
    IN 4 * dead > Len(saved.per_case)

\* rescore, for one recorded run: the findings as recorded under the labels as
\* they are now; a case the set no longer has is dropped.
rescored(saved, golden) ==
    LET known == SelectSeq(saved.per_case, LAMBDA c : c.id \in DOMAIN golden)
    IN score([i \in DOMAIN known |->
                score_case(golden[known[i].id], known[i].findings, known[i].run)])

\* Mutant: before and after are swapped.
CompareSwapped(current, base) ==
    LET Over(r, before) == 1000 * r[1] > (before + 20) * r[2]
    IN \/ Over(precision_strict(current.overall), base.precision_strict)
       \/ Over(recall(current.overall), base.recall)
       \/ Over(f1(current.overall), base.f1)

\* compare: has one of the five rows moved by more than 0.02 the wrong way?
compare(current, base) ==
    LET Below(r, before, unit) == unit * r[1] < (before - unit \div 50) * r[2]
        Above(r, before, unit) == unit * r[1] > (before + unit \div 50) * r[2]
    IN \/ Below(precision_strict(current.overall), base.precision_strict, 1000)
       \/ Below(recall(current.overall), base.recall, 1000)
       \/ Below(f1(current.overall), base.f1, 1000)
       \/ Above(current.ece, base.ece, 1000)
       \/ current.cost_per_case_usd[1] >
             (base.per_case_usd + 200) * current.cost_per_case_usd[2]

=============================================================================
