----------------------------- MODULE Aggregator -----------------------------
(***************************************************************************)
(* The fan-in (orchestration/aggregator.py): cluster the findings of the   *)
(* panel, collapse each cluster into one finding, fold a repeated          *)
(* recommendation, sort, and score the review as a whole.                  *)
(*                                                                         *)
(* A title is the set of its content words (_words without the stop        *)
(* words); bodies and merged_into carry no decision and are left out.  A   *)
(* piece of evidence is a place and its excerpt, 0 standing for no line.   *)
(***************************************************************************)
EXTENDS Findings, SequencesExt

CONSTANT CollapseAfter   \* settings.collapse_repeated_after

ASSUME CollapseAfterAssumption == CollapseAfter \in Nat

-----------------------------------------------------------------------------
(* Clustering *)

\* _title_similarity(a, b) >= TITLE_SIMILARITY_THRESHOLD (0.45), Jaccard
\* over content words; two titles without content words are not similar.
TitlesSimilar(a, b) ==
    /\ a # {} /\ b # {}
    /\ 100 * Cardinality(a \cap b) >= 45 * Cardinality(a \cup b)

same_issue(f, g) ==
    /\ overlaps(f, g)
    /\ \/ f.category = g.category
       \/ /\ f.category # "other" /\ g.category # "other"
          /\ family_of(f.category) = family_of(g.category)
       \/ TitlesSimilar(f.title, g.title)

\* The first cluster with a member that describes the same issue takes the
\* finding; otherwise it opens a cluster of its own.
Place(clusters, f) ==
    LET hits == {i \in DOMAIN clusters :
                    \E j \in DOMAIN clusters[i] : same_issue(f, clusters[i][j])}
    IN IF hits = {} THEN Append(clusters, <<f>>)
                    ELSE [clusters EXCEPT ![Min(hits)] = Append(@, f)]

Clusters(findings) == FoldLeft(Place, <<>>, findings)

-----------------------------------------------------------------------------
(* Collapsing a cluster *)

\* max(..., key=(severity index, confidence)): Python keeps the first maximum.
Rank(f) == 100000 * SeverityIndex(f.severity) + f.confidence

PrimaryIndex(fs) ==
    CHOOSE i \in DOMAIN fs : \A j \in DOMAIN fs :
        \/ Rank(fs[i]) > Rank(fs[j])
        \/ Rank(fs[i]) = Rank(fs[j]) /\ i <= j

Primary(fs) == fs[PrimaryIndex(fs)]

AgentsOf(fs) == {fs[i].agent : i \in DOMAIN fs}

Best(fs, a) == Max({fs[i].confidence : i \in {j \in DOMAIN fs : fs[j].agent = a}})

\* Agreement makes nothing certain: at most 0.99.
AgreementCap == 9900

\* Mutant: an agent that repeats itself counts every time.
NoisyOrOfAll(fs) ==
    LET miss == FoldLeft(LAMBDA p, f : (p * (One - f.confidence)) \div One, One, fs)
    IN Min({AgreementCap, One - miss})

\* Noisy-OR over the best finding of each distinct agent.
NoisyOr(fs) ==
    LET miss == FoldSet(LAMBDA a, p : (p * (One - Best(fs, a))) \div One,
                        One, AgentsOf(fs))
    IN Min({AgreementCap, One - miss})

FirstN(s, n) == SubSeq(s, 1, Min({n, Len(s)}))

\* The citations of a cluster, finding by finding.
AllEvidence(cluster) == FoldLeft(LAMBDA es, f : es \o f.evidence, <<>>, cluster)

\* The first citation of each place and excerpt.
Distinct(all) ==
    LET Key(e) == <<e.file_path, e.line_start, e.excerpt>>
        New(i) == \A j \in 1..(i - 1) : Key(all[j]) # Key(all[i])
    IN FoldLeftDomain(LAMBDA out, i : IF New(i) THEN Append(out, all[i]) ELSE out, <<>>, all)

\* _dedupe_evidence: six pieces at most.
dedupe_evidence(cluster) == FirstN(Distinct(AllEvidence(cluster)), 6)

\* Mutant: the first report of a cluster stands for it.
CollapseFirst(cluster) == cluster[1]

\* Mutant: the first report with the severity of the worst one.
CollapseMix(cluster) == [cluster[1] EXCEPT !.severity = Primary(cluster).severity]

\* _collapse
collapse(cluster) ==
    IF Len(cluster) = 1 THEN cluster[1]
    ELSE [Primary(cluster) EXCEPT
            !.confidence = IF Cardinality(AgentsOf(cluster)) > 1
                           THEN NoisyOr(cluster) ELSE @,
            !.agreeing   = AgentsOf(cluster),
            !.categories = {cluster[i].category : i \in DOMAIN cluster},
            !.line_start = Min({cluster[i].line_start : i \in DOMAIN cluster}),
            !.line_end   = Max({cluster[i].line_end : i \in DOMAIN cluster}),
            !.evidence   = dedupe_evidence(cluster)]

merge(findings) ==
    LET cs == Clusters(findings) IN [i \in DOMAIN cs |-> collapse(cs[i])]

-----------------------------------------------------------------------------
(* Folding one agent's repeated recommendation *)

\* "{title} (and n more)", as words.
AndMore(title) == title \cup {"more"}

\* Every other place of the group travels as evidence, twelve pieces at most.
fold(group) ==
    LET others   == RemoveAt(group, PrimaryIndex(group))
        Cited(f) == [file_path |-> f.file_path, line_start |-> f.line_start,
                     line_end |-> f.line_end, excerpt |-> f.title]
    IN [Primary(group) EXCEPT
          !.title      = AndMore(@),
          !.confidence = Max({group[i].confidence : i \in DOMAIN group}),
          !.evidence   = FirstN(@ \o [i \in DOMAIN others |-> Cited(others[i])], 12)]

\* The members of s that are in W, in their order.
Among(s, W) == FoldLeft(LAMBDA out, x : IF x \in W THEN Append(out, x) ELSE out, <<>>, s)

\* The groups are keyed by (agent, category); a dict keeps them in the order in
\* which their first finding appears.
collapse_repeated(findings) ==
    LET Collapsible(f)  == f.category \in COLLAPSIBLE_CATEGORIES
        Key(f)          == <<f.agent, f.category>>
        All             == {findings[i] : i \in DOMAIN findings}
        Group(f)        == Among(findings, {g \in All : Key(g) = Key(f)})
        Opens(i)        == /\ Collapsible(findings[i])
                           /\ \A j \in 1..(i - 1) : Key(findings[j]) # Key(findings[i])
        AddGroup(out, i) ==
            IF ~Opens(i) THEN out
            ELSE LET g == Group(findings[i])
                 IN IF Len(g) < CollapseAfter THEN out \o g
                                              ELSE Append(out, fold(g))
    IN FoldLeftDomain(AddGroup, Among(findings, {f \in All : ~Collapsible(f)}), findings)

-----------------------------------------------------------------------------
(* Ordering and scoring *)

\* merged.sort(key=(-severity index, -confidence, file_path)), stable.
SortFindings(fs) ==
    LET Before(i, j) ==
            \/ Rank(fs[i]) > Rank(fs[j])
            \/ /\ Rank(fs[i]) = Rank(fs[j])
               /\ \/ fs[i].file_path < fs[j].file_path
                  \/ fs[i].file_path = fs[j].file_path /\ i < j
    IN [k \in DOMAIN fs |->
          fs[CHOOSE i \in DOMAIN fs :
                Cardinality({j \in DOMAIN fs : Before(j, i)}) = k - 1]]

Total(Op(_), fs) == FoldLeft(LAMBDA sum, f : sum + Op(f), 0, fs)

\* Round a/b to the nearest integer.
Round(a, b) == (2 * a + b) \div (2 * b)

\* The severity weighted mean of the findings' confidences, discounted by the
\* share of the panel that failed, in thousandths.
overall_confidence(findings, verdicts) ==
    LET n     == Len(verdicts)
        good  == Len(SelectSeq(verdicts, ok))
        score == Total(LAMBDA f : f.confidence * Weight(f.severity), findings)
        whole == Total(LAMBDA f : Weight(f.severity), findings)
    IN IF n = 0 THEN 0
       ELSE IF findings = <<>> THEN Round(1000 * good, n)
       ELSE Round(score * good, 10 * whole * n)

\* What the panel found: the findings of the verdicts that are ok, in the
\* order of the verdicts.
RawFindings(verdicts) ==
    FoldLeft(LAMBDA fs, v : IF ok(v) THEN fs \o v.findings ELSE fs, <<>>, verdicts)

aggregate(verdicts) ==
    LET merged == SortFindings(collapse_repeated(merge(RawFindings(verdicts))))
    IN [findings |-> merged, confidence |-> overall_confidence(merged, verdicts)]

=============================================================================
