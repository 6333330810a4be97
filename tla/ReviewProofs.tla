---------------------------- MODULE ReviewProofs ----------------------------
(***************************************************************************)
(* What a review and an evaluation of it may be trusted for: the fan-in    *)
(* invents nothing and buries nothing, a recorded finding is never better  *)
(* than the one it records, and no outage is saved as a measurement.       *)
(***************************************************************************)
EXTENDS ScoringMC, Evaluation, FanInProofs

-----------------------------------------------------------------------------
(* A panel's reports *)

\* The verdicts of a panel are ok, and each has its agent's findings.
OkVerdicts(r) == {[status |-> "ok", findings |-> r[a]] : a \in Panelists}

\* Verdicts returns verdicts of the panel and nothing else.
LEMMA VerdictsFacts ==
    ASSUME NEW r
    PROVE  Verdicts(r) \in Seq(OkVerdicts(r))
<1> DEFINE Row(a) == IF a \in Panelists
                     THEN <<[status |-> "ok", findings |-> r[a]]>> ELSE <<>>
           V == OkVerdicts(r)
<1>1. ASSUME NEW a PROVE Row(a) \in Seq(V)
  <2>1. CASE a \in Panelists
    <3>1. [status |-> "ok", findings |-> r[a]] \in V
      BY <2>1 DEF OkVerdicts
    <3>2. ASSUME NEW T, NEW v \in T PROVE <<v>> \in Seq(T)
      OBVIOUS
    <3> QED BY <2>1, <3>1, <3>2
  <2>2. CASE a \notin Panelists
    BY <2>2
  <2> QED BY <2>1, <2>2
<1>2. Verdicts(r) = Row("correctness") \o Row("docs") \o Row("security") \o Row("tests")
  BY DEF Verdicts
<1> HIDE DEF Row, V
<1>3. \A s, t \in Seq(V) : s \o t \in Seq(V)
  OBVIOUS
<1>4. Verdicts(r) \in Seq(V)
  BY <1>1, <1>2, <1>3
<1> QED BY <1>4 DEF V

\* What the panel found is in the pool.
LEMMA RawFacts ==
    ASSUME NEW r \in [Panelists -> Seq(Pool)]
    PROVE  /\ RawFindings(Verdicts(r)) \in Seq(Pool)
           /\ RawFindings(Verdicts(r)) \in Seq(FindingType)
           /\ \A i \in DOMAIN RawFindings(Verdicts(r)) : RawFindings(Verdicts(r))[i] \in Pool
<1>1. Verdicts(r) \in Seq(OkVerdicts(r))
  BY VerdictsFacts
<1>2. \A v \in OkVerdicts(r) : ok(v) => v.findings \in Seq(Pool)
  BY DEF OkVerdicts
<1>3. RawFindings(Verdicts(r)) \in Seq(Pool)
  BY <1>1, <1>2, RawFindingsFacts
<1> QED BY <1>3, PoolAssumption

\* The reports are the agents' own, within the bound, and the output is what the
\* fan-in makes of them.
ReportInv ==
    /\ reported \in [Panelists -> Seq(Pool)]
    /\ Len(Raw) <= MaxFindings
    /\ \/ Raw = <<>> /\ output = <<>>
       \/ output = aggregate(Verdicts(reported)).findings

\* Nobody has reported anything at the start.
LEMMA InitReportInv == ReportInit => ReportInv
<1> SUFFICES ASSUME ReportInit PROVE ReportInv
  OBVIOUS
<1>1. reported \in [Panelists -> Seq(Pool)] /\ output = <<>>
  BY DEF ReportInit
<1>2. Raw = <<>>
  <2> DEFINE vs == Verdicts(reported)
             V  == OkVerdicts(reported)
  <2>1. vs \in Seq(V)
    BY VerdictsFacts
  <2>2. \A v \in V : ok(v) => v.findings \in Seq(Pool)
    BY <1>1 DEF OkVerdicts
  <2>3. \A v \in V : v.findings = <<>>
    BY DEF OkVerdicts, ReportInit
  <2> HIDE DEF vs, V
  <2>4. \A i \in DOMAIN vs : vs[i] \in V
    BY <2>1
  <2>5. RawFindings(vs) = <<>>
    BY <2>1, <2>2, <2>3, <2>4, RawFindingsFacts
  <2> QED BY <2>5 DEF Raw, vs
<1>3. Len(Raw) <= MaxFindings
  BY <1>2, PoolAssumption
<1> QED BY <1>1, <1>2, <1>3 DEF ReportInv

\* A report adds a finding of its agent, and the fan-in starts over.
LEMMA StepReportInv == ReportInv /\ [ReportNext]_rvars => ReportInv'
<1> SUFFICES ASSUME ReportInv, [ReportNext]_rvars PROVE ReportInv'
  OBVIOUS
<1>1. CASE UNCHANGED rvars
  BY <1>1 DEF rvars, ReportInv, Raw
<1>2. ASSUME NEW f \in Pool, Report(f) PROVE ReportInv'
  <2>1. f.agent \in Panelists
    BY DEF Panelists
  <2>2. reported' \in [Panelists -> Seq(Pool)]
    BY <1>2, <2>1 DEF Report, ReportInv
  <2> QED BY <1>2, <2>2 DEF Report, ReportInv
<1> QED BY <1>1, <1>2 DEF ReportNext

\* What holds of the fan-in of any panel holds of every report: each finding of
\* the output is a finding of the panel, agreed on by agents of the panel, and
\* each finding of the panel is told by one of the output that is as bad.
LEMMA ReportFacts ==
    ASSUME ReportInv
    PROVE  /\ Raw \in Seq(FindingType) /\ output \in Seq(FindingType)
           /\ \A i \in DOMAIN Raw : Raw[i] \in Pool
           /\ \A k \in DOMAIN output :
                /\ \E i \in DOMAIN Raw : Tells(output[k], Raw[i])
                /\ Agreed(output[k], Raw)
           /\ \A i \in DOMAIN Raw : \E k \in DOMAIN output :
                /\ AsBad(output[k], Raw[i])
                /\ Stands(output[k], Raw[i]) \/ (~Small(Raw) /\ Full(output[k]))
<1>1. /\ Raw \in Seq(Pool) /\ Raw \in Seq(FindingType)
      /\ \A i \in DOMAIN Raw : Raw[i] \in Pool
  BY RawFacts DEF ReportInv, Raw
<1>2. \A i \in DOMAIN Raw : Raw[i].agreeing = {}
  BY <1>1, PoolAssumption
<1>3. CASE Raw = <<>> /\ output = <<>>
  <2>1. <<>> \in Seq(FindingType) /\ DOMAIN <<>> = {}
    OBVIOUS
  <2> QED BY <1>1, <1>3, <2>1
<1>4. CASE output = aggregate(Verdicts(reported)).findings
  <2> DEFINE vs == Verdicts(reported)
  <2>1. Raw = RawFindings(vs)
    BY DEF Raw
  <2> HIDE DEF vs
  <2>2. /\ aggregate(vs).findings \in Seq(FindingType)
        /\ \A k \in DOMAIN aggregate(vs).findings :
             LET g == aggregate(vs).findings[k] IN
             /\ \E i \in DOMAIN Raw : Tells(g, Raw[i])
             /\ Agreed(g, Raw)
        /\ \A i \in DOMAIN Raw : \E k \in DOMAIN aggregate(vs).findings :
             LET g == aggregate(vs).findings[k] IN
             /\ AsBad(g, Raw[i])
             /\ Stands(g, Raw[i]) \/ (~Small(Raw) /\ Full(g))
    BY <1>1, <1>2, <2>1, ReviewFacts
  <2> QED BY <1>1, <1>4, <2>2 DEF vs
<1> QED BY <1>3, <1>4 DEF ReportInv

\* The reports and the output are always what they should be.
THEOREM ReportInvariance == ReportSpec => []ReportInv
BY InitReportInv, StepReportInv, PTL DEF ReportSpec

\* Nothing is invented, whatever the agents report: clustering, collapsing and
\* folding make up no finding, no severity, no category, no words but those of the
\* fold, and nobody agrees with a finding who reported nothing on its lines.
THEOREM NothingIsInvented == ReportSpec => []NothingInvented
<1>1. ReportInv => NothingInvented
  <2> SUFFICES ASSUME ReportInv, NEW k \in DOMAIN output
               PROVE  /\ \E i \in DOMAIN Raw :
                           /\ Raw[i].agent = output[k].agent
                           /\ Raw[i].category = output[k].category
                           /\ Raw[i].severity = output[k].severity
                           /\ output[k].title \in TitleOf(Raw[i])
                           /\ Holds(output[k], Raw[i])
                      /\ \A a \in output[k].agreeing : \E i \in DOMAIN Raw :
                           Raw[i].agent = a /\ Holds(output[k], Raw[i])
    BY DEF NothingInvented
  <2>1. /\ \E i \in DOMAIN Raw : Tells(output[k], Raw[i])
        /\ Agreed(output[k], Raw)
    BY ReportFacts
  <2>2. ASSUME NEW f, Titled(output[k], f) PROVE output[k].title \in TitleOf(f)
    BY <2>2 DEF Titled, Recommends, TitleOf
  <2> QED BY <2>1, <2>2 DEF Tells, Agreed, Holds
<1> QED BY <1>1, ReportInvariance, PTL

\* Nothing is buried, whatever the agents report and however much of it is merged
\* and folded: every finding of the panel is found in the review, at least as
\* severe and as confident, on its lines or among the places cited, unless the
\* twelve that a fold may cite are taken.
THEOREM NothingIsBuried == ReportSpec => []NothingBuried
<1>1. ReportInv => NothingBuried
  <2> SUFFICES ASSUME ReportInv, NEW i \in DOMAIN Raw
               PROVE  \E k \in DOMAIN output :
                        /\ StandsFor(output[k], Raw[i]) \/ FullFold(output[k])
                        /\ \/ SeverityIndex(output[k].severity) > SeverityIndex(Raw[i].severity)
                           \/ /\ output[k].severity = Raw[i].severity
                              /\ output[k].confidence >= Min({AgreementCap, Raw[i].confidence})
    BY DEF NothingBuried
  <2>1. PICK k \in DOMAIN output :
          /\ AsBad(output[k], Raw[i])
          /\ Stands(output[k], Raw[i]) \/ Full(output[k])
    BY ReportFacts
  <2>2. Stands(output[k], Raw[i]) => StandsFor(output[k], Raw[i])
    BY DEF Stands, Spans, StandsFor, Holds
  <2>3. Full(output[k]) => FullFold(output[k])
    BY DEF Full, FullFold
  <2> QED BY <2>1, <2>2, <2>3 DEF AsBad
<1> QED BY <1>1, ReportInvariance, PTL

\* Every finding of the panel has one in the review that is as bad and that covers
\* or cites its lines.
NothingLost ==
    \A i \in DOMAIN Raw : \E k \in DOMAIN output :
        AsBad(output[k], Raw[i]) /\ StandsFor(output[k], Raw[i])

\* No place is lost as long as twelve pieces of evidence are enough for those that
\* a fold makes one finding cite: seven findings at most, each of which cites few
\* enough places of its own.
THEOREM NothingIsLost ==
    ASSUME MaxFindings <= 7, \A f \in Pool : Len(f.evidence) + MaxFindings <= 13
    PROVE  ReportSpec => []NothingLost
<1>1. ReportInv => NothingLost
  <2> SUFFICES ASSUME ReportInv, NEW i \in DOMAIN Raw
               PROVE  \E k \in DOMAIN output :
                        AsBad(output[k], Raw[i]) /\ StandsFor(output[k], Raw[i])
    BY DEF NothingLost
  <2>1. Raw \in Seq(FindingType) /\ Len(Raw) \in Nat /\ Len(Raw) <= MaxFindings /\ MaxFindings \in Nat
    BY ReportFacts, PoolAssumption DEF ReportInv
  <2>2. Small(Raw)
    <3>1. ASSUME NEW j \in DOMAIN Raw PROVE Len(Raw[j].evidence) + Len(Raw) <= 13
      <4>1. Raw[j] \in Pool /\ Raw[j] \in FindingType
        BY ReportFacts
      <4>2. Raw[j].evidence \in Seq(EvidenceType)
        BY <4>1, FieldFacts
      <4>3. Len(Raw[j].evidence) \in Nat /\ Len(Raw[j].evidence) + MaxFindings <= 13
        BY <4>1, <4>2
      <4> QED BY <2>1, <4>3
    <3> QED BY <2>1, <3>1 DEF Small, Room
  <2>3. PICK k \in DOMAIN output : AsBad(output[k], Raw[i]) /\ Stands(output[k], Raw[i])
    BY <2>2, ReportFacts
  <2> QED BY <2>3 DEF Stands, Spans, StandsFor, Holds
<1> QED BY <1>1, ReportInvariance, PTL

-----------------------------------------------------------------------------
(* Recorded findings *)

\* A citation as a saved report has it.
Cite(e) == [file_path |-> e.file_path, line |-> e.line_start]

\* The places f cites that have a line.
Cited(f) == {Cite(f.evidence[i]) : i \in {j \in DOMAIN f.evidence : f.evidence[j].line_start # 0}}

\* What is saved of a finding's citations are the first lines of all that have one.
LEMMA CitesFacts ==
    ASSUME NEW f \in FindingType
    PROVE  /\ cites(f) \in Seq(Cited(f))
           /\ \A j \in DOMAIN f.evidence : f.evidence[j].line_start # 0
                 => \E i \in DOMAIN cites(f) : cites(f)[i] = Cite(f.evidence[j])
<1> DEFINE all == f.evidence
           n == Len(all)
           A == Seq(Cited(f))
           Add(cs, e) == IF e.line_start = 0 THEN cs ELSE Append(cs, Cite(e))
           F == [i \in 1..n |-> [cs \in A |-> Add(cs, all[i])]]
<1>1. all \in Seq(EvidenceType) /\ n \in Nat /\ DOMAIN all = 1..n
  BY FieldFacts
<1>2. ASSUME NEW i \in 1..n, NEW cs \in A PROVE Add(cs, all[i]) \in A
  <2>1. CASE all[i].line_start # 0
    <3>1. Cite(all[i]) \in Cited(f)
      BY <1>1, <2>1 DEF Cited
    <3> QED BY <2>1, <3>1, AppendFacts
  <2> QED BY <2>1
<1>0. <<>> \in A
  OBVIOUS
<1> HIDE DEF n, A, all
<1>3. F \in [1..n -> [A -> A]]
  BY <1>2
<1>4. PICK g \in [SUBSET (1..n) -> A] : Recursion(g, n, <<>>, F)
  <2> HIDE DEF F
  <2> QED BY <1>0, <1>1, <1>3, FoldExists, Zenon
<1>5. ASSUME NEW q \in SUBSET (1..n)
      PROVE  g[q] = IF q = {} THEN <<>> ELSE Add(g[q \ {Max(q)}], all[Max(q)])
  <2>1. CASE q # {}
    <3>1. Max(q) \in 1..n
      BY <1>1, <2>1, MaxFacts
    <3>2. g[q \ {Max(q)}] \in A
      OBVIOUS
    <3> QED BY <1>4, <2>1, <3>1, <3>2 DEF Recursion
  <2> QED BY <1>4, <2>1 DEF Recursion
<1>6. PICK h : /\ h = [q \in SUBSET (1..n) |->
                         IF q = {} THEN <<>> ELSE Add(h[q \ {Max(q)}], all[Max(q)])]
               /\ cites(f) = h[1..n]
  <2>1. DOMAIN all = 1..n
    BY <1>1
  <2>2. g = [q \in SUBSET (1..n) |->
               IF q = {} THEN <<>> ELSE Add(g[q \ {Max(q)}], all[Max(q)])]
    <3> HIDE DEF F
    <3> QED BY <1>5
  <2>3. cites(f) = FoldLeft(Add, <<>>, all)
    BY Zenon DEF cites, Cite, all
  <2> HIDE DEF Add
  <2> QED BY <2>1, <2>2, <2>3, Zenon DEF FoldLeft, MapThenFoldSet
<1>7. ASSUME NEW q \in SUBSET (1..n), q # {}, h[q \ {Max(q)}] \in A
      PROVE  h[q] = F[Max(q)][h[q \ {Max(q)}]]
  <2>1. Max(q) \in 1..n
    BY <1>1, <1>7, MaxFacts
  <2>2. h[q] = Add(h[q \ {Max(q)}], all[Max(q)])
    BY <1>6, <1>7
  <2> QED BY <1>7, <2>1, <2>2
<1>8. PICK c : Chain(c, n, A, <<>>, F, h[1..n])
  <2> HIDE DEF F
  <2>1. Unfolds(h, n, A, <<>>, F)
    BY <1>6, <1>7 DEF Unfolds
  <2> QED BY <1>0, <1>1, <1>3, <2>1, FoldChain, Zenon
<1>9. c \in [0..n -> A] /\ c[n] = cites(f) /\ \A k \in 1..n : c[k] = F[k][c[k - 1]]
  <2> HIDE DEF F
  <2> QED BY <1>6, <1>8 DEF Chain
<1>10. ASSUME NEW k \in 1..n
       PROVE  /\ c[k - 1] \in A /\ c[k] \in A
              /\ c[k] = IF all[k].line_start = 0 THEN c[k - 1] ELSE Append(c[k - 1], Cite(all[k]))
  <2>1. k \in 0..n /\ k - 1 \in 0..n
    BY <1>1
  <2>2. c[k - 1] \in A /\ c[k] \in A
    BY <1>9, <2>1
  <2> QED BY <1>9, <2>2
<1> HIDE DEF F
<1>11. n \in 0..n /\ cites(f) \in A
  BY <1>1, <1>9
<1>12. ASSUME NEW j \in 1..n, all[j].line_start # 0
       PROVE  \E i \in DOMAIN c[n] : c[n][i] = Cite(all[j])
  <2> DEFINE x == Cite(all[j])
             B == {cs \in A : \E i \in DOMAIN cs : cs[i] = x}
  <2>1. j \in 0..n /\ x \in Cited(f)
    BY <1>1, <1>12 DEF Cited, all
  <2>2. /\ c[j] \in A /\ Len(c[j - 1]) + 1 \in DOMAIN c[j]
        /\ c[j][Len(c[j - 1]) + 1] = x
    <3> HIDE DEF x
    <3>1. c[j] = Append(c[j - 1], x) /\ c[j - 1] \in Seq(Cited(f))
      BY <1>10, <1>12 DEF x, A
    <3>2. c[j] \in A
      BY <1>10
    <3>3. /\ Len(c[j - 1]) + 1 \in DOMAIN Append(c[j - 1], x)
          /\ Append(c[j - 1], x)[Len(c[j - 1]) + 1] = x
      BY <2>1, <3>1, AppendFacts
    <3> QED BY <3>1, <3>2, <3>3
  <2>3. ASSUME NEW k \in 1..n, c[k - 1] \in B PROVE c[k] \in B
    <3> HIDE DEF x
    <3>1. PICK i \in DOMAIN c[k - 1] : c[k - 1][i] = x
      BY <2>3
    <3>2. CASE all[k].line_start = 0
      BY <1>10, <2>3, <3>2
    <3>3. CASE all[k].line_start # 0
      <4>1. c[k - 1] \in Seq(Cited(f)) /\ Cite(all[k]) \in Cited(f)
        BY <1>1, <1>10, <3>3 DEF A, Cited, all
      <4>2. c[k] = Append(c[k - 1], Cite(all[k]))
        BY <1>10, <3>3
      <4>3. i \in DOMAIN c[k] /\ c[k][i] = x
        BY <3>1, <4>1, <4>2, AppendFacts
      <4> QED BY <1>10, <4>3
    <3> QED BY <3>2, <3>3
  <2>4. c[j] \in B
    BY <2>2
  <2> HIDE DEF B, x
  <2>5. c[n] \in B
    BY <1>1, <2>1, <2>3, <2>4, StaysFrom
  <2> QED BY <2>5 DEF B, x
<1> QED BY <1>1, <1>9, <1>11, <1>12 DEF A, all

\* A range of lines reaches a label that its first line reaches.
LEMMA NearFacts ==
    ASSUME NEW path, NEW lo \in Int, NEW hi \in Int, NEW label, label.line \in Int,
           near(path, lo, lo, label)
    PROVE  near(path, lo, hi, label)
BY DEF near, Abs, LINE_TOLERANCE

\* What a record cites are the first lines of what its finding cites.
LEMMA RecordedPlaces ==
    ASSUME NEW f \in FindingType
    PROVE  LET r == recorded(f) IN
           /\ r.file_path = f.file_path /\ r.line_start = f.line_start /\ r.line_end = f.line_end
           /\ r.agent = f.agent /\ r.category = f.category /\ r.severity = f.severity
           /\ r.categories = f.categories /\ r.agreeing = f.agreeing
           /\ \A i \in DOMAIN r.evidence : \E j \in DOMAIN f.evidence :
                /\ f.evidence[j].line_start # 0
                /\ r.evidence[i].file_path = f.evidence[j].file_path
                /\ r.evidence[i].line_start = f.evidence[j].line_start
                /\ EndOf(r.evidence[i]) = f.evidence[j].line_start
           /\ \A j \in DOMAIN f.evidence : f.evidence[j].line_start # 0 =>
                \E i \in DOMAIN r.evidence :
                  /\ r.evidence[i].file_path = f.evidence[j].file_path
                  /\ r.evidence[i].line_start = f.evidence[j].line_start
                  /\ EndOf(r.evidence[i]) = f.evidence[j].line_start
<1> DEFINE r == recorded(f)
<1>1. /\ r.file_path = f.file_path /\ r.line_start = f.line_start /\ r.line_end = f.line_end
      /\ r.agent = f.agent /\ r.category = f.category /\ r.severity = f.severity
      /\ r.categories = f.categories /\ r.agreeing = f.agreeing
  BY DEF recorded, FindingType
<1>2. r.evidence = [i \in DOMAIN cites(f) |->
                      [file_path |-> cites(f)[i].file_path, line_start |-> cites(f)[i].line,
                       line_end |-> cites(f)[i].line, excerpt |-> {}]]
  BY DEF recorded, FindingType
<1> HIDE DEF r
<1>3. ASSUME NEW i \in DOMAIN cites(f), NEW e, cites(f)[i] = Cite(e)
      PROVE  /\ i \in DOMAIN r.evidence
             /\ r.evidence[i].file_path = e.file_path
             /\ r.evidence[i].line_start = e.line_start
             /\ EndOf(r.evidence[i]) = e.line_start
  <2>1. cites(f)[i].file_path = e.file_path /\ cites(f)[i].line = e.line_start
    BY <1>3 DEF Cite
  <2>2. /\ r.evidence[i].file_path = e.file_path /\ r.evidence[i].line_start = e.line_start
        /\ r.evidence[i].line_end = e.line_start
    BY <1>2, <2>1
  <2> QED BY <1>2, <2>2 DEF EndOf
<1>4. ASSUME NEW i \in DOMAIN r.evidence
      PROVE  \E j \in DOMAIN f.evidence :
                /\ f.evidence[j].line_start # 0 /\ cites(f)[i] = Cite(f.evidence[j])
  <2>1. i \in DOMAIN cites(f)
    BY <1>2
  <2>2. cites(f)[i] \in Cited(f)
    BY <2>1, CitesFacts
  <2> QED BY <2>2 DEF Cited
<1>5. ASSUME NEW i \in DOMAIN r.evidence
      PROVE  \E j \in DOMAIN f.evidence :
                /\ f.evidence[j].line_start # 0
                /\ r.evidence[i].file_path = f.evidence[j].file_path
                /\ r.evidence[i].line_start = f.evidence[j].line_start
                /\ EndOf(r.evidence[i]) = f.evidence[j].line_start
  <2>1. i \in DOMAIN cites(f)
    BY <1>2
  <2> QED BY <1>3, <1>4, <2>1
<1>6. ASSUME NEW j \in DOMAIN f.evidence, f.evidence[j].line_start # 0
      PROVE  \E i \in DOMAIN r.evidence :
                /\ r.evidence[i].file_path = f.evidence[j].file_path
                /\ r.evidence[i].line_start = f.evidence[j].line_start
                /\ EndOf(r.evidence[i]) = f.evidence[j].line_start
  <2>1. PICK i \in DOMAIN cites(f) : cites(f)[i] = Cite(f.evidence[j])
    BY <1>6, CitesFacts
  <2> QED BY <1>3, <2>1
<1> QED BY <1>1, <1>5, <1>6 DEF r

\* Every place that f cites is one line.
OneLiners(f) == \A j \in DOMAIN f.evidence :
    f.evidence[j].line_start # 0 => EndOf(f.evidence[j]) = f.evidence[j].line_start

\* A finding reaches whatever its record reaches: the record has its own lines,
\* and of a place it cites the first line.
LEMMA RecordedLocates ==
    ASSUME NEW f \in FindingType, NEW label, label.line \in Int
    PROVE  /\ locates(recorded(f), label) => locates(f, label)
           /\ OneLiners(f) /\ locates(f, label) => locates(recorded(f), label)
<1> DEFINE r == recorded(f)
           At(g, i) == near(g.evidence[i].file_path, g.evidence[i].line_start,
                            EndOf(g.evidence[i]), label)
           Own(g)   == near(g.file_path, g.line_start, g.line_end, label)
<1>1. \A g : locates(g, label) <=>
         Own(g) \/ \E i \in DOMAIN g.evidence : g.evidence[i].line_start # 0 /\ At(g, i)
  BY DEF locates
<1>2. Own(r) <=> Own(f)
  BY RecordedPlaces
<1>3. ASSUME NEW i \in DOMAIN r.evidence, At(r, i) PROVE locates(f, label)
  <2>1. PICK j \in DOMAIN f.evidence :
          /\ f.evidence[j].line_start # 0
          /\ r.evidence[i].file_path = f.evidence[j].file_path
          /\ r.evidence[i].line_start = f.evidence[j].line_start
          /\ EndOf(r.evidence[i]) = f.evidence[j].line_start
    BY RecordedPlaces
  <2> DEFINE e == f.evidence[j]
  <2>2. near(e.file_path, e.line_start, e.line_start, label)
    BY <1>3, <2>1
  <2>3. e.line_start \in Int /\ EndOf(e) \in Int
    <3>1. e \in EvidenceType
      BY FieldFacts
    <3> QED BY <3>1 DEF EvidenceType, EndOf
  <2>4. near(e.file_path, e.line_start, EndOf(e), label)
    BY <2>2, <2>3, NearFacts
  <2> QED BY <1>1, <2>1, <2>4
<1>4. ASSUME OneLiners(f), NEW j \in DOMAIN f.evidence, f.evidence[j].line_start # 0, At(f, j)
      PROVE  locates(r, label)
  <2>1. PICK i \in DOMAIN r.evidence :
          /\ r.evidence[i].file_path = f.evidence[j].file_path
          /\ r.evidence[i].line_start = f.evidence[j].line_start
          /\ EndOf(r.evidence[i]) = f.evidence[j].line_start
    BY <1>4, RecordedPlaces
  <2>2. EndOf(f.evidence[j]) = f.evidence[j].line_start
    BY <1>4 DEF OneLiners
  <2>3. r.evidence[i].line_start # 0 /\ At(r, i)
    BY <1>4, <2>1, <2>2
  <2> QED BY <1>1, <2>3
<1> HIDE DEF At, Own
<1>5. locates(r, label) => locates(f, label)
  BY <1>1, <1>2, <1>3
<1>6. OneLiners(f) /\ locates(f, label) => locates(r, label)
  BY <1>1, <1>2, <1>4
<1> QED BY <1>5, <1>6 DEF r

\* It is on a line without tolerance if its record is, and the record is too where
\* the places are one line long.
LEMMA RecordedCovers ==
    ASSUME NEW f \in FindingType, OneLiners(f), NEW label
    PROVE  covers(recorded(f), label) <=> covers(f, label)
<1> DEFINE r == recorded(f)
           On(path, lo, hi) == path = label.file_path /\ lo <= label.line /\ label.line <= hi
           At(g, i) == On(g.evidence[i].file_path, g.evidence[i].line_start, EndOf(g.evidence[i]))
           Own(g)   == On(g.file_path, g.line_start, g.line_end)
<1>1. \A g : covers(g, label) <=>
         Own(g) \/ \E i \in DOMAIN g.evidence : g.evidence[i].line_start # 0 /\ At(g, i)
  BY DEF covers
<1> HIDE DEF On
<1>2. Own(r) <=> Own(f)
  BY RecordedPlaces
<1>3. ASSUME NEW i \in DOMAIN r.evidence, At(r, i)
      PROVE  \E j \in DOMAIN f.evidence : f.evidence[j].line_start # 0 /\ At(f, j)
  <2>1. PICK j \in DOMAIN f.evidence :
          /\ f.evidence[j].line_start # 0
          /\ r.evidence[i].file_path = f.evidence[j].file_path
          /\ r.evidence[i].line_start = f.evidence[j].line_start
          /\ EndOf(r.evidence[i]) = f.evidence[j].line_start
    BY RecordedPlaces
  <2>2. EndOf(f.evidence[j]) = f.evidence[j].line_start
    BY <2>1 DEF OneLiners
  <2> QED BY <1>3, <2>1, <2>2
<1>4. ASSUME NEW j \in DOMAIN f.evidence, f.evidence[j].line_start # 0, At(f, j)
      PROVE  \E i \in DOMAIN r.evidence : r.evidence[i].line_start # 0 /\ At(r, i)
  <2>1. PICK i \in DOMAIN r.evidence :
          /\ r.evidence[i].file_path = f.evidence[j].file_path
          /\ r.evidence[i].line_start = f.evidence[j].line_start
          /\ EndOf(r.evidence[i]) = f.evidence[j].line_start
    BY <1>4, RecordedPlaces
  <2>2. EndOf(f.evidence[j]) = f.evidence[j].line_start
    BY <1>4 DEF OneLiners
  <2> QED BY <1>4, <2>1, <2>2
<1> HIDE DEF At, Own
<1>5. covers(r, label) <=> covers(f, label)
  BY <1>1, <1>2, <1>3, <1>4
<1> QED BY <1>5 DEF r

\* A record is about what its finding is about.
LEMMA RecordedConcern ==
    ASSUME NEW f \in FindingType, NEW label
    PROVE  same_concern(recorded(f), label) <=> same_concern(f, label)
<1>1. /\ recorded(f).category = f.category /\ recorded(f).categories = f.categories
      /\ recorded(f).agreeing = f.agreeing /\ recorded(f).agent = f.agent
  BY RecordedPlaces
<1>2. CategoriesFound(recorded(f)) = CategoriesFound(f)
  BY <1>1 DEF CategoriesFound
<1> QED BY <1>1, <1>2 DEF same_concern

\* The labels that g satisfies.
Satisfied(g, case) == {i \in DOMAIN case.expected :
                          locates(g, case.expected[i]) /\ same_concern(g, case.expected[i])}

\* A record satisfies no label that its finding does not, and the same ones where
\* the places are one line long.
LEMMA RecordedLabels ==
    ASSUME NEW f \in FindingType, NEW case, \A i \in DOMAIN case.expected : case.expected[i].line \in Int
    PROVE  /\ Satisfied(recorded(f), case) \subseteq Satisfied(f, case)
           /\ OneLiners(f) => Satisfied(recorded(f), case) = Satisfied(f, case)
<1>1. ASSUME NEW i \in DOMAIN case.expected
      PROVE  /\ locates(recorded(f), case.expected[i]) => locates(f, case.expected[i])
             /\ OneLiners(f) /\ locates(f, case.expected[i])
                    => locates(recorded(f), case.expected[i])
             /\ same_concern(recorded(f), case.expected[i]) <=> same_concern(f, case.expected[i])
  BY RecordedLocates, RecordedConcern
<1> QED BY <1>1 DEF Satisfied

\* What classify makes of what it asks of a finding.
Judged(g, case, covered, aimed, trapped, permitted) ==
    LET primary == case.expected[Min(covered)]
        hit     == covered # {}
    IN [finding |-> g,
        kind    |-> IF hit THEN "hit"
                    ELSE IF trapped /\ ~aimed THEN "false_positive"
                    ELSE IF permitted THEN "allowed"
                    ELSE "unlabelled",
        labels  |-> covered,
        agent_correct |->
            hit /\ (\/ primary.agent = "none"
                    \/ primary.agent \in (IF g.agreeing = {} THEN {g.agent} ELSE g.agreeing)),
        category_correct |->
            hit /\ (\/ primary.categories = {}
                    \/ CategoriesFound(g) \cap primary.categories # {}),
        severity_sufficient |->
            hit /\ SeverityIndex(g.severity) >= SeverityIndex(primary.min_severity)]

Aimed(g, case) == \E i \in DOMAIN case.expected : locates(g, case.expected[i])

Trapped(g, case) == \E i \in DOMAIN case.must_not_find : traps(g, case.must_not_find[i])

Permitted(g, case) ==
    \/ \E i \in DOMAIN case.may_find :
          locates(g, case.may_find[i]) /\ same_concern(g, case.may_find[i])
    \/ <<g.agent, g.category>> \in case.permitted_concerns

LEMMA ClassifyFacts ==
    ASSUME NEW g, NEW case
    PROVE  classify(g, case) = Judged(g, case, Satisfied(g, case), Aimed(g, case),
                                      Trapped(g, case), Permitted(g, case))
BY Zenon DEF classify, Judged, Satisfied, Aimed, Trapped, Permitted

\* Where the places are one line long, a record counts for what its finding does.
LEMMA RecordedCountsTheSame ==
    ASSUME NEW f \in FindingType, OneLiners(f), NEW case,
           \A i \in DOMAIN case.expected : case.expected[i].line \in Int,
           \A i \in DOMAIN case.may_find : case.may_find[i].line \in Int
    PROVE  [classify(recorded(f), case) EXCEPT !.finding = f] = classify(f, case)
<1> DEFINE r == recorded(f)
<1>1. /\ r.agent = f.agent /\ r.category = f.category /\ r.severity = f.severity
      /\ r.categories = f.categories /\ r.agreeing = f.agreeing
  BY RecordedPlaces
<1>2. Satisfied(r, case) = Satisfied(f, case)
  BY RecordedLabels
<1>3. \A i \in DOMAIN case.expected :
        locates(r, case.expected[i]) <=> locates(f, case.expected[i])
  BY RecordedLocates
<1>4. Aimed(r, case) <=> Aimed(f, case)
  BY <1>3 DEF Aimed
<1>5. \A l : covers(r, l) <=> covers(f, l)
  BY RecordedCovers
<1>6. \A i \in DOMAIN case.may_find :
        /\ locates(r, case.may_find[i]) <=> locates(f, case.may_find[i])
        /\ same_concern(r, case.may_find[i]) <=> same_concern(f, case.may_find[i])
  BY RecordedLocates, RecordedConcern
<1> HIDE DEF r
<1>7. Trapped(r, case) <=> Trapped(f, case)
  BY <1>1, <1>5 DEF Trapped, traps
<1>8. Permitted(r, case) <=> Permitted(f, case)
  BY <1>1, <1>6 DEF Permitted
<1>9. CategoriesFound(r) = CategoriesFound(f)
  BY <1>1 DEF CategoriesFound
<1>10. ASSUME NEW C, NEW a, NEW b, NEW t, NEW u, NEW p, NEW q, a <=> b, t <=> u, p <=> q
       PROVE  [Judged(r, case, C, a, t, p) EXCEPT !.finding = f] = Judged(f, case, C, b, u, q)
  <2> DEFINE J == Judged(r, case, C, a, t, p)
             K == Judged(f, case, C, b, u, q)
  <2>1. J.kind = K.kind /\ J.labels = K.labels
    BY <1>10 DEF Judged
  <2>2. J.agent_correct = K.agent_correct
    BY <1>1, Zenon DEF Judged
  <2>3. J.category_correct = K.category_correct
    BY <1>9, Zenon DEF Judged
  <2>4. J.severity_sufficient = K.severity_sufficient
    BY <1>1, Zenon DEF Judged
  <2>5. [J EXCEPT !.finding = f] =
           [finding |-> f, kind |-> J.kind, labels |-> J.labels,
            agent_correct |-> J.agent_correct, category_correct |-> J.category_correct,
            severity_sufficient |-> J.severity_sufficient]
    <3>1. ASSUME NEW v1, NEW v2, NEW v3, NEW v4, NEW v5, NEW v6, NEW R,
                 R = [finding |-> v1, kind |-> v2, labels |-> v3, agent_correct |-> v4,
                      category_correct |-> v5, severity_sufficient |-> v6]
          PROVE  [R EXCEPT !.finding = f] =
                   [finding |-> f, kind |-> R.kind, labels |-> R.labels,
                    agent_correct |-> R.agent_correct, category_correct |-> R.category_correct,
                    severity_sufficient |-> R.severity_sufficient]
      BY <3>1
    <3>2. \E v1, v2, v3, v4, v5, v6 :
             J = [finding |-> v1, kind |-> v2, labels |-> v3, agent_correct |-> v4,
                  category_correct |-> v5, severity_sufficient |-> v6]
      BY Zenon DEF Judged
    <3> HIDE DEF J
    <3> QED BY <3>1, <3>2
  <2>6. K = [finding |-> f, kind |-> K.kind, labels |-> K.labels,
             agent_correct |-> K.agent_correct, category_correct |-> K.category_correct,
             severity_sufficient |-> K.severity_sufficient]
    BY DEF Judged
  <2> HIDE DEF J, K
  <2>7. [J EXCEPT !.finding = f] = K
    BY <2>1, <2>2, <2>3, <2>4, <2>5, <2>6
  <2> QED BY <2>7 DEF J, K
<1>11. classify(r, case) = Judged(r, case, Satisfied(r, case), Aimed(r, case),
                                  Trapped(r, case), Permitted(r, case))
  BY ClassifyFacts
<1>12. classify(f, case) = Judged(f, case, Satisfied(f, case), Aimed(f, case),
                                  Trapped(f, case), Permitted(f, case))
  BY ClassifyFacts
<1>13. [classify(r, case) EXCEPT !.finding = f] = classify(f, case)
  BY <1>2, <1>4, <1>7, <1>8, <1>10, <1>11, <1>12
<1> QED BY <1>13 DEF r

\* Rescoring makes up no hit, whatever the panel reported, and where every citation
\* is one line long it changes nothing at all.
THEOREM RescoringIsHonest == ReportSpec => []RescoreFindsNoMore
<1> DEFINE Lines(s) == \A l \in DOMAIN s : s[l].line \in Int
<1>1. /\ Lines(CaseA.expected) /\ Lines(CaseB.expected)
      /\ Lines(CaseA.may_find) /\ Lines(CaseB.may_find)
  <2>1. ASSUME NEW line \in Int, NEW agent, NEW categories, NEW severity
        PROVE  LabelAt(line, agent, categories, severity).line \in Int
    BY DEF LabelAt
  <2>2. ASSUME NEW x, NEW y, NEW z, x.line \in Int, y.line \in Int, z.line \in Int
        PROVE  Lines(<<x, y, z>>) /\ Lines(<<x>>) /\ Lines(<<>>)
    BY <2>2
  <2>3. Lines(CaseA.expected) /\ Lines(CaseB.expected)
    BY <2>1, <2>2 DEF CaseA, CaseB
  <2>4. Lines(CaseA.may_find)
    BY <2>1 DEF CaseA
  <2>5. Lines(CaseB.may_find)
    BY DEF CaseB
  <2> QED BY <2>3, <2>4, <2>5
<1>2. ASSUME NEW c \in DOMAIN Golden
      PROVE  Lines(Golden[c].expected) /\ Lines(Golden[c].may_find)
  <2>1. Golden[c] = CaseA \/ Golden[c] = CaseB
    BY DEF Golden
  <2> HIDE DEF Lines
  <2> QED BY <1>1, <2>1
<1>3. ASSUME ReportInv PROVE RescoreFindsNoMore
  <2> SUFFICES ASSUME NEW c \in DOMAIN Golden, NEW k \in DOMAIN output
               PROVE  /\ classify(recorded(output[k]), Golden[c]).labels
                           \subseteq classify(output[k], Golden[c]).labels
                      /\ OneLiners(output[k]) =>
                           [classify(recorded(output[k]), Golden[c]) EXCEPT !.finding = output[k]]
                              = classify(output[k], Golden[c])
    BY DEF RescoreFindsNoMore, OneLiners
  <2>1. output[k] \in FindingType
    <3>1. output \in Seq(FindingType)
      BY <1>3, ReportFacts
    <3> QED BY <3>1
  <2>2. \A g : classify(g, Golden[c]).labels = Satisfied(g, Golden[c])
    BY DEF classify, Satisfied
  <2>3. Satisfied(recorded(output[k]), Golden[c]) \subseteq Satisfied(output[k], Golden[c])
    BY <1>2, <2>1, RecordedLabels
  <2>4. classify(recorded(output[k]), Golden[c]).labels
           \subseteq classify(output[k], Golden[c]).labels
    BY <2>2, <2>3
  <2>5. ASSUME OneLiners(output[k])
        PROVE  [classify(recorded(output[k]), Golden[c]) EXCEPT !.finding = output[k]]
                  = classify(output[k], Golden[c])
    BY <1>2, <2>1, <2>5, RecordedCountsTheSame
  <2> QED BY <2>4, <2>5
<1> QED BY <1>3, ReportInvariance, PTL

-----------------------------------------------------------------------------
(* An eval's measurements *)

\* The calls a run lost, case by case: those of a report that is scored and those
\* of a report that was saved alike.
LEMMA LostChain ==
    ASSUME NEW s, NEW n \in Nat, DOMAIN s = 1..n,
           \A i \in 1..n : IsFiniteSet(s[i].run.failed_agents)
    PROVE  \E c \in [0..n -> Nat] :
              /\ c[0] = 0 /\ c[n] = FailedCalls(s)
              /\ \A k \in 1..n : c[k] = c[k - 1] + Cardinality(s[k].run.failed_agents)
<1> DEFINE A == Nat
           Add(m, r) == m + Cardinality(r.run.failed_agents)
           F == [i \in 1..n |-> [m \in A |-> Add(m, s[i])]]
<1>1. n \in Nat /\ DOMAIN s = 1..n /\ 0 \in A
  OBVIOUS
<1>2. ASSUME NEW i \in 1..n, NEW m \in A PROVE Add(m, s[i]) \in A
  <2>1. Cardinality(s[i].run.failed_agents) \in Nat
    BY FS_CardinalityType
  <2> QED BY <2>1
<1> HIDE DEF A
<1>3. F \in [1..n -> [A -> A]]
  BY <1>2
<1>4. PICK g \in [SUBSET (1..n) -> A] : Recursion(g, n, 0, F)
  <2> HIDE DEF F
  <2> QED BY <1>1, <1>3, FoldExists, Zenon
<1>5. ASSUME NEW q \in SUBSET (1..n)
      PROVE  g[q] = IF q = {} THEN 0 ELSE Add(g[q \ {Max(q)}], s[Max(q)])
  <2>1. CASE q # {}
    <3>1. Max(q) \in 1..n
      BY <1>1, <2>1, MaxFacts
    <3>2. g[q \ {Max(q)}] \in A
      OBVIOUS
    <3> QED BY <1>4, <2>1, <3>1, <3>2 DEF Recursion
  <2> QED BY <1>4, <2>1 DEF Recursion
<1>6. PICK h : /\ h = [q \in SUBSET (1..n) |->
                         IF q = {} THEN 0 ELSE Add(h[q \ {Max(q)}], s[Max(q)])]
               /\ FailedCalls(s) = h[1..n]
  <2>1. g = [q \in SUBSET (1..n) |->
               IF q = {} THEN 0 ELSE Add(g[q \ {Max(q)}], s[Max(q)])]
    <3> HIDE DEF F
    <3> QED BY <1>5
  <2>2. FailedCalls(s) = FoldLeft(Add, 0, s)
    BY Zenon DEF FailedCalls, Sum
  <2> HIDE DEF Add
  <2> QED BY <1>1, <2>1, <2>2, Zenon DEF FoldLeft, MapThenFoldSet
<1>7. ASSUME NEW q \in SUBSET (1..n), q # {}, h[q \ {Max(q)}] \in A
      PROVE  h[q] = F[Max(q)][h[q \ {Max(q)}]]
  <2>1. Max(q) \in 1..n
    BY <1>1, <1>7, MaxFacts
  <2>2. h[q] = Add(h[q \ {Max(q)}], s[Max(q)])
    BY <1>6, <1>7
  <2> QED BY <1>7, <2>1, <2>2
<1>8. PICK c : Chain(c, n, A, 0, F, h[1..n])
  <2> HIDE DEF F
  <2>1. Unfolds(h, n, A, 0, F)
    BY <1>6, <1>7 DEF Unfolds
  <2> QED BY <1>1, <1>3, <2>1, FoldChain, Zenon
<1>9. ASSUME NEW k \in 1..n PROVE c[k] = Add(c[k - 1], s[k])
  <2>1. k - 1 \in 0..n
    BY <1>1
  <2> QED BY <1>8, <2>1 DEF Chain
<1>10. c \in [0..n -> A] /\ c[0] = 0 /\ c[n] = FailedCalls(s)
  <2> HIDE DEF F
  <2> QED BY <1>6, <1>8 DEF Chain
<1> HIDE DEF F
<1> QED BY <1>9, <1>10 DEF A

\* Lists of cases that lost the same agents lost as many calls.
LEMMA SameLoss ==
    ASSUME NEW s, NEW t, NEW n \in Nat, DOMAIN s = 1..n, DOMAIN t = 1..n,
           \A i \in 1..n : s[i].run = t[i].run /\ IsFiniteSet(s[i].run.failed_agents)
    PROVE  FailedCalls(s) = FailedCalls(t) /\ FailedCalls(s) \in Nat
<1>1. PICK c \in [0..n -> Nat] :
        /\ c[0] = 0 /\ c[n] = FailedCalls(s)
        /\ \A k \in 1..n : c[k] = c[k - 1] + Cardinality(s[k].run.failed_agents)
  BY LostChain
<1>2. PICK d \in [0..n -> Nat] :
        /\ d[0] = 0 /\ d[n] = FailedCalls(t)
        /\ \A k \in 1..n : d[k] = d[k - 1] + Cardinality(t[k].run.failed_agents)
  <2>1. \A i \in 1..n : IsFiniteSet(t[i].run.failed_agents)
    OBVIOUS
  <2> QED BY <2>1, LostChain
<1> DEFINE S == {k \in 0..n : c[k] = d[k]}
<1>3. 0 \in S
  BY <1>1, <1>2
<1>4. ASSUME NEW k \in 0..(n - 1), k \in S PROVE k + 1 \in S
  <2>1. k + 1 \in 1..n /\ (k + 1) - 1 = k /\ k + 1 \in 0..n
    OBVIOUS
  <2> QED BY <1>1, <1>2, <1>4, <2>1
<1>5. \A k \in 0..n : k \in S
  <2> HIDE DEF S
  <2> QED BY <1>3, <1>4, UpTo
<1> QED BY <1>1, <1>2, <1>5

\* At most a tenth of a run's calls were lost.
Measures(run) == 10 * FailedCalls(run.per_case) <= AgentCount * Len(run.per_case)

\* A run of as many cases as there are, with the agents that each of them lost.
Complete(results, n) ==
    /\ n \in Nat /\ results \in [1..n -> {results[i] : i \in 1..n}]
    /\ \A i \in 1..n : IsFiniteSet(results[i].run.failed_agents)

\* What is saved of a run that was not refused is a measurement.
LEMMA ScoredMeasures ==
    ASSUME NEW results, NEW n, Complete(results, n), ~refuse_if_everything_failed(results)
    PROVE  Measures(as_dict(score(results)))
<1> DEFINE saved == as_dict(score(results)).per_case
<1>1. score(results).cases = results
  BY DEF score
<1>2. saved = [i \in DOMAIN results |->
                 [id |-> results[i].case.id, run |-> results[i].run,
                  findings |-> [k \in DOMAIN results[i].matches |->
                                  recorded(results[i].matches[k].finding)]]]
  BY <1>1 DEF as_dict
<1>3. n \in Nat /\ DOMAIN results = 1..n /\ results \in Seq({results[i] : i \in 1..n})
  <2>1. n \in Nat /\ results \in [1..n -> {results[i] : i \in 1..n}]
    BY DEF Complete
  <2> DEFINE R == {results[i] : i \in 1..n}
  <2> HIDE DEF R
  <2>2. n \in Nat /\ results \in [1..n -> R]
    BY <2>1 DEF R
  <2>3. DOMAIN results = 1..n /\ results \in Seq(R)
    BY <2>2
  <2> QED BY <2>2, <2>3 DEF R
<1>4. DOMAIN saved = 1..n /\ \A i \in 1..n : saved[i].run = results[i].run
  BY <1>2, <1>3
<1>5. Len(results) = n
  BY <1>3
<1>6. Len(saved) = n
  <2>1. ASSUME NEW t, t = [i \in 1..n |-> t[i]] PROVE Len(t) = n
    <3> DEFINE T == {t[i] : i \in 1..n}
    <3>1. \A i \in 1..n : t[i] \in T
      OBVIOUS
    <3> HIDE DEF T
    <3>2. t \in [1..n -> T]
      BY <2>1, <3>1
    <3>3. t \in Seq(T) /\ DOMAIN t = 1..n
      BY <1>3, <3>2
    <3> QED BY <1>3, <3>3
  <2>2. saved = [i \in 1..n |-> saved[i]]
    BY <1>2, <1>3
  <2> QED BY <2>1, <2>2
<1>7. FailedCalls(results) = FailedCalls(saved) /\ FailedCalls(results) \in Nat
  <2> HIDE DEF saved
  <2>1. \A i \in 1..n : results[i].run = saved[i].run /\ IsFiniteSet(results[i].run.failed_agents)
    BY <1>4 DEF Complete
  <2> QED BY <1>3, <1>4, <2>1, SameLoss
<1>8. ~(10 * FailedCalls(results) > Len(results) * AgentCount)
  BY DEF refuse_if_everything_failed
<1> HIDE DEF saved
<1>9. 10 * FailedCalls(saved) <= AgentCount * Len(saved)
  BY <1>3, <1>5, <1>6, <1>7, <1>8 DEF AgentCount
<1> QED BY <1>9 DEF Measures, saved

\* A case's panel lost finitely many agents.
LEMMA RunCaseFacts ==
    ASSUME NEW case, NEW verdicts \in Seq(Verdict)
    PROVE  IsFiniteSet(run_case(case, verdicts).run.failed_agents)
<1>1. run_case(case, verdicts).run.failed_agents
        = {verdicts[i].agent : i \in {j \in DOMAIN verdicts : ~ok(verdicts[j])}}
  BY DEF run_case, score_case
<1>2. ASSUME NEW i \in DOMAIN verdicts PROVE verdicts[i].agent \in AgentType
  <2>1. verdicts[i] \in Verdict
    OBVIOUS
  <2> QED BY <2>1 DEF Verdict
<1>3. IsFiniteSet(AgentType)
  <2>1. IsFiniteSet({"docs"})
    BY FS_Singleton
  <2>2. IsFiniteSet({"docs"} \cup {"tests"})
    BY <2>1, FS_AddElement
  <2>3. IsFiniteSet(({"docs"} \cup {"tests"}) \cup {"correctness"})
    BY <2>2, FS_AddElement
  <2>4. IsFiniteSet((({"docs"} \cup {"tests"}) \cup {"correctness"}) \cup {"security"})
    BY <2>3, FS_AddElement
  <2>5. AgentType = (({"docs"} \cup {"tests"}) \cup {"correctness"}) \cup {"security"}
    BY DEF AgentType
  <2> QED BY <2>4, <2>5
<1>4. run_case(case, verdicts).run.failed_agents \subseteq AgentType
  BY <1>1, <1>2
<1> QED BY <1>3, <1>4, FS_Subset

\* The eval in progress, of any phase: a record of these fields.
IsEval(c) ==
    /\ c = [phase |-> c.phase, cases |-> c.cases, repeat |-> c.repeat, save |-> c.save,
            baseline |-> c.baseline, waiting |-> c.waiting, busy |-> c.busy,
            results |-> c.results, reports |-> c.reports]
    /\ c.phase \in {"running", "reporting"}
    /\ c.cases \in Sets
    /\ c.save \in Paths \cup {NoPath}

\* Its cases wait, are under way or have a result, which says which agents failed.
CasesInv(c) ==
    /\ c.waiting \in Seq(DOMAIN c.cases)
    /\ c.busy \subseteq DOMAIN c.cases
    /\ c.results = [i \in DOMAIN c.results |-> c.results[i]]
    /\ \A i \in DOMAIN c.results : IsFiniteSet(c.results[i].run.failed_agents)

\* Its reports so far are measurements.
ReportsInv(c) ==
    \E T : c.reports \in Seq(T) /\ \A r \in T : Measures(as_dict(r))

\* FilesHoldMeasurements of files f, with the loss of a run under its name.
FilesInv(f) ==
    \A p \in Paths : ~f[p].rescored => \A k \in DOMAIN f[p].runs : Measures(f[p].runs[k])

\* What the files hold, and what an eval holds until it writes to one.
EvalInv ==
    /\ golden \in Sets
    /\ files = [p \in Paths |-> files[p]]
    /\ cmd # Idle => IsEval(cmd) /\ CasesInv(cmd) /\ ReportsInv(cmd)
    /\ FilesInv(files)

\* Nothing is saved at first.
LEMMA InitEvalInv == Init => EvalInv
<1> SUFFICES ASSUME Init PROVE EvalInv
  OBVIOUS
<1>1. golden \in Sets /\ cmd = Idle /\ files = [p \in Paths |-> files[p]]
  BY DEF Init
<1>2. FilesInv(files)
  BY DEF Init, NoFile, FilesInv
<1> QED BY <1>1, <1>2 DEF EvalInv

\* A run starts with nobody's result.
LEMMA StartRunFacts ==
    ASSUME NEW c, IsEval(c), ReportsInv(c)
    PROVE  LET d == StartRun(c) IN IsEval(d) /\ CasesInv(d) /\ ReportsInv(d) /\ d # Idle
<1> DEFINE d == StartRun(c)
<1>1. /\ d.phase = c.phase /\ d.cases = c.cases /\ d.save = c.save /\ d.reports = c.reports
      /\ d.waiting = [i \in DOMAIN c.cases |-> i] /\ d.busy = {} /\ d.results = <<>>
      /\ d = [phase |-> d.phase, cases |-> d.cases, repeat |-> d.repeat, save |-> d.save,
              baseline |-> d.baseline, waiting |-> d.waiting, busy |-> d.busy,
              results |-> d.results, reports |-> d.reports]
  <2> DEFINE w == [i \in DOMAIN c.cases |-> i]
  <2>1. /\ DOMAIN d = DOMAIN c /\ d.waiting = w /\ d.busy = {} /\ d.results = <<>>
        /\ d.phase = c.phase /\ d.cases = c.cases /\ d.repeat = c.repeat /\ d.save = c.save
        /\ d.baseline = c.baseline /\ d.reports = c.reports
        /\ d = [x \in DOMAIN d |-> d[x]]
    <3>1. /\ c = [x \in DOMAIN c |-> c[x]]
          /\ DOMAIN c = {"phase", "cases", "repeat", "save", "baseline", "waiting", "busy",
                         "results", "reports"}
      BY DEF IsEval
    <3>2. d = [[[c EXCEPT !.waiting = w] EXCEPT !.busy = {}] EXCEPT !.results = <<>>]
      BY DEF StartRun
    <3> HIDE DEF d, w
    <3> QED BY <3>1, <3>2
  <2>2. d = [phase |-> d.phase, cases |-> d.cases, repeat |-> d.repeat, save |-> d.save,
              baseline |-> d.baseline, waiting |-> d.waiting, busy |-> d.busy,
              results |-> d.results, reports |-> d.reports]
    <3>1. DOMAIN c = {"phase", "cases", "repeat", "save", "baseline", "waiting", "busy",
                      "results", "reports"}
      BY DEF IsEval
    <3> HIDE DEF d
    <3> QED BY <2>1, <3>1
  <2> HIDE DEF d
  <2> QED BY <2>1, <2>2
<1> HIDE DEF d
<1>2. IsEval(d)
  BY <1>1 DEF IsEval
<1>3. d.waiting \in Seq(DOMAIN d.cases)
  <2>1. c.cases \in Seq({c.cases[i] : i \in DOMAIN c.cases})
    BY EvaluationAssumption DEF IsEval
  <2> DEFINE n == Len(c.cases)
  <2>2. n \in Nat /\ DOMAIN c.cases = 1..n
    BY <2>1
  <2> HIDE DEF n
  <2>3. d.waiting \in [1..n -> 1..n]
    BY <1>1, <2>2
  <2>4. d.waiting \in Seq(1..n)
    BY <2>2, <2>3
  <2> QED BY <1>1, <2>2, <2>4
<1>4. CasesInv(d)
  <2>1. DOMAIN <<>> = {} /\ <<>> = [i \in {} |-> <<>>[i]]
    OBVIOUS
  <2> QED BY <1>1, <1>3, <2>1 DEF CasesInv
<1>5. ReportsInv(d)
  BY <1>1 DEF ReportsInv
<1>6. d # Idle
  <2>1. d.phase \in {"running", "reporting"}
    BY <1>2 DEF IsEval
  <2> QED BY <2>1 DEF Idle
<1> QED BY <1>2, <1>4, <1>5, <1>6 DEF d

\* Every step keeps the measurements.
LEMMA StepEvalInv == EvalInv /\ [Next]_vars => EvalInv'
<1> SUFFICES ASSUME EvalInv, [Next]_vars PROVE EvalInv'
  OBVIOUS
<1> DEFINE Going(c) == IsEval(c) /\ CasesInv(c) /\ ReportsInv(c)
<1>0. /\ golden \in Sets /\ files = [p \in Paths |-> files[p]] /\ FilesInv(files)
      /\ cmd # Idle => Going(cmd)
  BY DEF EvalInv
<1>a. ASSUME cmd.phase = "running" \/ cmd.phase = "reporting" PROVE Going(cmd)
  BY <1>0, <1>a DEF Idle
<1>b. ASSUME UNCHANGED <<golden, files>>, cmd' # Idle => Going(cmd') PROVE EvalInv'
  <2>1. FilesInv(files')
    BY <1>0, <1>b
  <2>2. golden' \in Sets /\ files' = [p \in Paths |-> files'[p]]
    BY <1>0, <1>b
  <2>3. cmd' # Idle => IsEval(cmd') /\ CasesInv(cmd') /\ ReportsInv(cmd')
    BY <1>b
  <2>4. (cmd # Idle => IsEval(cmd) /\ CasesInv(cmd) /\ ReportsInv(cmd))'
    BY <2>3 DEF IsEval, CasesInv, ReportsInv, Idle
  <2> QED BY <2>1, <2>2, <2>4 DEF EvalInv
<1> DEFINE Moved(c) ==
             c = [cmd EXCEPT !.phase = c.phase, !.waiting = c.waiting, !.busy = c.busy,
                             !.results = c.results, !.reports = c.reports]
<1>c. ASSUME IsEval(cmd), NEW c, c.phase \in {"running", "reporting"}, Moved(c)
      PROVE  IsEval(c) /\ c.cases = cmd.cases
  BY <1>c DEF IsEval
<1> HIDE DEF Moved
<1>1. CASE UNCHANGED vars
  BY <1>0, <1>1, <1>b DEF vars
<1>2. ASSUME NEW r \in 1..MaxRepeat, NEW s \in Paths \cup {NoPath}, NEW b \in Paths \cup {NoPath},
             Eval(r, s, b)
      PROVE  EvalInv'
  <2> DEFINE c == [phase |-> "running", cases |-> golden, repeat |-> r,
                   save |-> s, baseline |-> b,
                   waiting |-> <<>>, busy |-> {}, results |-> <<>>, reports |-> <<>>]
  <2>1. IsEval(c)
    BY <1>0 DEF IsEval
  <2>2. ReportsInv(c)
    <3> DEFINE T == {}
    <3>1. c.reports \in Seq(T) /\ \A x \in T : Measures(as_dict(x))
      OBVIOUS
    <3> HIDE DEF T, c
    <3> QED BY <3>1 DEF ReportsInv
  <2>3. cmd' = StartRun(c) /\ UNCHANGED <<golden, files>>
    BY <1>2 DEF Eval
  <2> HIDE DEF c
  <2>4. Going(cmd')
    BY <2>1, <2>2, <2>3, StartRunFacts
  <2> QED BY <1>b, <2>3, <2>4
<1>3. CASE Acquire
  <2>1. /\ Going(cmd) /\ UNCHANGED <<golden, files>> /\ cmd.waiting # <<>>
        /\ cmd' = [cmd EXCEPT !.waiting = Tail(@), !.busy = @ \cup {Head(cmd.waiting)}]
    BY <1>3, <1>a DEF Acquire
  <2>2. /\ cmd'.waiting = Tail(cmd.waiting) /\ cmd'.busy = cmd.busy \cup {Head(cmd.waiting)}
        /\ cmd'.results = cmd.results /\ cmd'.reports = cmd.reports /\ cmd'.phase = cmd.phase
        /\ Moved(cmd')
    BY <2>1 DEF IsEval, Moved
  <2>3. IsEval(cmd') /\ cmd'.cases = cmd.cases
    <3>1. IsEval(cmd) /\ cmd'.phase \in {"running", "reporting"}
      BY <2>1, <2>2 DEF IsEval
    <3> QED BY <2>2, <3>1, <1>c
  <2>4. ASSUME NEW T, NEW w \in Seq(T), w # <<>> PROVE Tail(w) \in Seq(T) /\ Head(w) \in T
    BY <2>4
  <2>5. CasesInv(cmd')
    <3>1. cmd.waiting \in Seq(DOMAIN cmd.cases)
      BY <2>1 DEF CasesInv
    <3>2. Tail(cmd.waiting) \in Seq(DOMAIN cmd.cases) /\ Head(cmd.waiting) \in DOMAIN cmd.cases
      BY <2>1, <2>4, <3>1
    <3> QED BY <2>1, <2>2, <2>3, <3>2 DEF CasesInv
  <2>6. ReportsInv(cmd')
    BY <2>1, <2>2 DEF ReportsInv
  <2> QED BY <1>b, <2>1, <2>3, <2>5, <2>6
<1>4. ASSUME NEW i \in Busy, CaseEnds(i) PROVE EvalInv'
  <2>1. CASE Raise(i)
    BY <1>b, <2>1 DEF Raise
  <2>2. ASSUME NEW v \in Outcomes[cmd.cases[i].id], Finish(i, v) PROVE EvalInv'
    <3> DEFINE x == run_case(cmd.cases[i], v)
    <3>1. /\ Going(cmd) /\ UNCHANGED <<golden, files>> /\ i \in cmd.busy
          /\ cmd' = [cmd EXCEPT !.busy = @ \ {i},
                       !.results = [j \in DOMAIN @ \cup {i} |-> IF j = i THEN x ELSE @[j]]]
      BY <2>2, <1>a DEF Finish
    <3>2. IsFiniteSet(x.run.failed_agents)
      <4>1. i \in DOMAIN cmd.cases /\ cmd.cases \in Sets
        BY <3>1 DEF CasesInv, IsEval
      <4>2. v \in Seq(Verdict)
        BY <2>2, <4>1, EvaluationAssumption
      <4> QED BY <4>2, RunCaseFacts
    <3> HIDE DEF x
    <3>3. /\ cmd'.waiting = cmd.waiting /\ cmd'.busy = cmd.busy \ {i}
          /\ cmd'.results = [j \in DOMAIN cmd.results \cup {i} |-> IF j = i THEN x ELSE cmd.results[j]]
          /\ cmd'.reports = cmd.reports /\ cmd'.phase = cmd.phase
          /\ Moved(cmd')
      BY <3>1 DEF IsEval, Moved
    <3>4. IsEval(cmd') /\ cmd'.cases = cmd.cases
      <4>1. IsEval(cmd) /\ cmd'.phase \in {"running", "reporting"}
        BY <3>1, <3>3 DEF IsEval
      <4> QED BY <3>3, <4>1, <1>c
    <3>5. CasesInv(cmd')
      BY <3>1, <3>2, <3>3, <3>4 DEF CasesInv
    <3>6. ReportsInv(cmd')
      BY <3>1, <3>3 DEF ReportsInv
    <3> QED BY <1>b, <3>1, <3>4, <3>5, <3>6
  <2> QED BY <1>4, <2>1, <2>2 DEF CaseEnds
<1>5. CASE Outage
  <2>1. Going(cmd) /\ UNCHANGED <<golden, files>>
    BY <1>5, <1>a DEF Outage, Gathered
  <2>2. CASE cmd' = Idle
    BY <1>b, <2>1, <2>2
  <2>3. CASE cmd' = [cmd EXCEPT !.phase = "reporting"]
    <3>1. /\ cmd'.waiting = cmd.waiting /\ cmd'.busy = cmd.busy /\ cmd'.results = cmd.results
          /\ cmd'.reports = cmd.reports /\ cmd'.phase = "reporting"
          /\ Moved(cmd')
      BY <2>1, <2>3 DEF IsEval, Moved
    <3>2. IsEval(cmd') /\ cmd'.cases = cmd.cases
      <4>1. cmd'.phase \in {"running", "reporting"}
        BY <3>1
      <4>2. IsEval(cmd)
        BY <2>1
      <4> QED BY <3>1, <4>1, <4>2, <1>c
    <3>3. CasesInv(cmd') /\ ReportsInv(cmd')
      BY <2>1, <3>1, <3>2 DEF CasesInv, ReportsInv
    <3> QED BY <1>b, <2>1, <3>2, <3>3
  <2> QED BY <1>5, <2>2, <2>3 DEF Outage
<1>6. CASE Scored
  <2> DEFINE new  == score(cmd.results)
             next == [cmd EXCEPT !.reports = Append(cmd.reports, new)]
  <2>1. /\ Going(cmd) /\ UNCHANGED <<golden, files>>
        /\ DOMAIN cmd.results = DOMAIN cmd.cases /\ ~refuse_if_everything_failed(cmd.results)
        /\ \/ cmd' = StartRun(next)
           \/ cmd' = [next EXCEPT !.phase = "reporting"]
    BY <1>6, <1>a DEF Scored, Gathered
  <2>2. Measures(as_dict(new))
    <3> DEFINE n == Len(cmd.cases)
    <3>1. cmd.cases \in Seq({cmd.cases[i] : i \in DOMAIN cmd.cases})
      BY <2>1, EvaluationAssumption DEF IsEval
    <3>2. n \in Nat /\ DOMAIN cmd.cases = 1..n
      BY <3>1
    <3> HIDE DEF n
    <3>3. Complete(cmd.results, n)
      BY <2>1, <3>2 DEF CasesInv, Complete
    <3> QED BY <2>1, <3>3, ScoredMeasures
  <2> HIDE DEF new
  <2>3. PICK T : cmd.reports \in Seq(T) /\ \A r \in T : Measures(as_dict(r))
    BY <2>1 DEF ReportsInv
  <2>4. /\ next.waiting = cmd.waiting /\ next.busy = cmd.busy /\ next.results = cmd.results
        /\ next.reports = Append(cmd.reports, new) /\ next.phase = cmd.phase
        /\ Moved(next)
    BY <2>1 DEF IsEval, Moved
  <2> HIDE DEF next
  <2>5. IsEval(next) /\ next.cases = cmd.cases
    <3>1. IsEval(cmd) /\ next.phase \in {"running", "reporting"}
      BY <2>1, <2>4 DEF IsEval
    <3> QED BY <2>4, <3>1, <1>c
  <2>6. ReportsInv(next)
    <3> DEFINE U == T \cup {new}
    <3>1. \A r \in U : Measures(as_dict(r))
      BY <2>2, <2>3
    <3>2. new \in U /\ T \subseteq U
      OBVIOUS
    <3> HIDE DEF U
    <3>3. cmd.reports \in Seq(U)
      BY <2>3, <3>2
    <3>4. Append(cmd.reports, new) \in Seq(U)
      BY <3>2, <3>3
    <3> QED BY <2>4, <3>1, <3>4 DEF ReportsInv
  <2>7. CASE cmd' = StartRun(next)
    <3>1. Going(cmd')
      BY <2>5, <2>6, <2>7, StartRunFacts
    <3> QED BY <1>b, <2>1, <3>1
  <2>8. CASE cmd' = [next EXCEPT !.phase = "reporting"]
    <3>1. /\ cmd'.waiting = next.waiting /\ cmd'.busy = next.busy /\ cmd'.results = next.results
          /\ cmd'.reports = next.reports /\ cmd'.phase = "reporting" /\ cmd'.cases = next.cases
          /\ cmd'.save = next.save
          /\ cmd' = [phase |-> cmd'.phase, cases |-> cmd'.cases, repeat |-> cmd'.repeat,
                     save |-> cmd'.save, baseline |-> cmd'.baseline, waiting |-> cmd'.waiting,
                     busy |-> cmd'.busy, results |-> cmd'.results, reports |-> cmd'.reports]
      BY <2>5, <2>8 DEF IsEval
    <3>2. IsEval(cmd')
      BY <2>5, <3>1 DEF IsEval
    <3>3. CasesInv(cmd')
      BY <2>1, <2>4, <2>5, <3>1 DEF CasesInv
    <3>4. ReportsInv(cmd')
      BY <2>6, <3>1 DEF ReportsInv
    <3> QED BY <1>b, <2>1, <3>2, <3>3, <3>4
  <2> QED BY <2>1, <2>7, <2>8
<1>7. CASE Conclude
  <2>1. /\ Going(cmd) /\ cmd' = Idle /\ UNCHANGED golden
        /\ files' = IF cmd.save = NoPath THEN files
                    ELSE [files EXCEPT ![cmd.save] = Saved(cmd.reports, FALSE)]
    BY <1>7, <1>a DEF Conclude
  <2>2. CASE cmd.save = NoPath
    BY <1>b, <2>1, <2>2
  <2>3. CASE cmd.save # NoPath
    <3>1. cmd.save \in Paths
      BY <2>1, <2>3 DEF IsEval
    <3>2. files' = [p \in Paths |-> IF p = cmd.save THEN Saved(cmd.reports, FALSE) ELSE files[p]]
      BY <1>0, <2>1, <2>3, <3>1
    <3>3. ASSUME NEW k \in DOMAIN Saved(cmd.reports, FALSE).runs
          PROVE  Measures(Saved(cmd.reports, FALSE).runs[k])
      <4>1. PICK T : cmd.reports \in Seq(T) /\ \A r \in T : Measures(as_dict(r))
        BY <2>1 DEF ReportsInv
      <4>2. k \in DOMAIN cmd.reports /\ Saved(cmd.reports, FALSE).runs[k] = as_dict(cmd.reports[k])
        BY <3>3 DEF Saved
      <4>3. cmd.reports[k] \in T
        BY <4>1, <4>2
      <4> QED BY <4>1, <4>2, <4>3
    <3>5. FilesInv(files')
      BY <1>0, <3>2, <3>3 DEF FilesInv
    <3>6. files' = [p \in Paths |-> files'[p]]
      BY <3>2
    <3> QED BY <1>0, <2>1, <3>5, <3>6 DEF EvalInv, Idle
  <2> QED BY <2>2, <2>3
<1>8. ASSUME NEW set \in Sets, Relabel(set) PROVE EvalInv'
  <2>1. golden' \in Sets /\ UNCHANGED <<files, cmd>>
    BY <1>8 DEF Relabel
  <2>2. FilesInv(files')
    BY <1>0, <2>1
  <2>3. (cmd # Idle => IsEval(cmd) /\ CasesInv(cmd) /\ ReportsInv(cmd))'
    BY <1>0, <2>1 DEF IsEval, CasesInv, ReportsInv, Idle
  <2> QED BY <1>0, <2>1, <2>2, <2>3 DEF EvalInv
<1>9. ASSUME NEW p \in Paths, NEW q \in Paths, Rescore(p, q) PROVE EvalInv'
  <2>1. PICK runs : files' = [files EXCEPT ![q] = Saved(runs, TRUE)]
    BY <1>9, Zenon DEF Rescore
  <2>2. files' = [x \in Paths |-> IF x = q THEN Saved(runs, TRUE) ELSE files[x]]
    BY <1>0, <2>1
  <2>3. Saved(runs, TRUE).rescored
    BY DEF Saved
  <2>5. FilesInv(files')
    BY <1>0, <2>2, <2>3 DEF FilesInv
  <2>6. UNCHANGED <<golden, cmd>>
    BY <1>9, Zenon DEF Rescore
  <2>7. (cmd # Idle => IsEval(cmd) /\ CasesInv(cmd) /\ ReportsInv(cmd))'
    BY <1>0, <2>6 DEF IsEval, CasesInv, ReportsInv, Idle
  <2>8. files' = [x \in Paths |-> files'[x]]
    BY <2>2
  <2> QED BY <1>0, <2>5, <2>6, <2>7, <2>8 DEF EvalInv
<1> HIDE DEF Going
<1> QED
  BY <1>1, <1>2, <1>3, <1>4, <1>5, <1>6, <1>7, <1>8, <1>9 DEF Next

\* No outage is ever recorded as a result, whatever panels fail, in however many
\* cases, runs and evals, and whatever is relabelled and rescored in between.
THEOREM NoOutageIsSaved == Spec => []FilesHoldMeasurements
<1>1. EvalInv => FilesHoldMeasurements
  BY Zenon DEF EvalInv, FilesInv, FilesHoldMeasurements, Measures, FailedCalls
<1> QED BY <1>1, InitEvalInv, StepEvalInv, PTL DEF Spec

=============================================================================
