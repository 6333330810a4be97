--------------------------- MODULE PipelineProofs ---------------------------
(***************************************************************************)
(* Proofs about Pipeline, for any deliveries, any panel of agents, any     *)
(* number of pushes and attempts, any reports and any settings of the      *)
(* aggregator and the gate.                                                *)
(*                                                                         *)
(* Of the aggregator most of them need only that it is a function of the   *)
(* stored rows; the last needs that it comes back empty exactly when no ok *)
(* row says anything, and NothingDisclosed what stands for a finding in    *)
(* the review, which FanInProofs shows.  Of the gate they need the three   *)
(* lemmas that follow.                                                     *)
(***************************************************************************)
EXTENDS Pipeline, FanInProofs

\* Every agent has a row.
Whole(panel) == \A a \in Agents : panel[a] # NoVerdict

\* Every agent's row is ok.
AllOk(panel) == \A a \in Agents : ok(panel[a])

\* load_verdicts returns rows of the panel and nothing else.
LEMMA LoadsOnlyRows ==
    ASSUME NEW panel
    PROVE  LoadVerdicts(panel) \in Seq({panel[x] : x \in Agents})
<1> DEFINE Row(b) == IF b \in Agents /\ panel[b] # NoVerdict THEN <<panel[b]>> ELSE <<>>
           V == {panel[x] : x \in Agents}
<1>1. ASSUME NEW b PROVE Row(b) \in Seq(V)
  <2>1. CASE b \in Agents /\ panel[b] # NoVerdict
    <3>1. panel[b] \in V /\ Row(b) = <<panel[b]>>
      BY <2>1
    <3>2. ASSUME NEW T, NEW v \in T PROVE <<v>> \in Seq(T)
      OBVIOUS
    <3> QED BY <3>1, <3>2
  <2>2. CASE ~(b \in Agents /\ panel[b] # NoVerdict)
    BY <2>2
  <2> QED BY <2>1, <2>2
<1>2. LoadVerdicts(panel)
        = Row("correctness") \o Row("docs") \o Row("security") \o Row("tests")
  BY DEF LoadVerdicts
<1> HIDE DEF Row, V
<1>3. \A s, t \in Seq(V) : s \o t \in Seq(V)
  OBVIOUS
<1>4. LoadVerdicts(panel) \in Seq(V)
  BY <1>1, <1>2, <1>3
<1> QED BY <1>4 DEF V

\* load_verdicts returns the row of every agent that has one.
LEMMA LoadsEveryRow ==
    ASSUME NEW panel, NEW a \in Agents, panel[a] # NoVerdict
    PROVE  \E i \in DOMAIN LoadVerdicts(panel) : LoadVerdicts(panel)[i] = panel[a]
<1> DEFINE Row(b) == IF b \in Agents /\ panel[b] # NoVerdict THEN <<panel[b]>> ELSE <<>>
           A == Row("correctness")
           B == Row("docs")
           C == Row("security")
           D == Row("tests")
<1>1. LoadVerdicts(panel) = A \o B \o C \o D
  BY DEF LoadVerdicts
<1>2. ASSUME NEW b PROVE Row(b) \in Seq({panel[x] : x \in Agents})
  <2>1. CASE b \in Agents /\ panel[b] # NoVerdict
    <3>1. panel[b] \in {panel[x] : x \in Agents}
      BY <2>1
    <3>2. Row(b) = <<panel[b]>>
      BY <2>1
    <3>3. ASSUME NEW T, NEW v \in T PROVE <<v>> \in Seq(T)
      OBVIOUS
    <3> QED BY <3>1, <3>2, <3>3
  <2>2. CASE ~(b \in Agents /\ panel[b] # NoVerdict)
    BY <2>2
  <2> QED BY <2>1, <2>2
<1>3. a \in {"correctness", "docs", "security", "tests"}
  BY PipelineAssumption DEF AgentType
<1>4. Row(a) = <<panel[a]>>
  OBVIOUS
<1>5. /\ A \in Seq({panel[x] : x \in Agents}) /\ B \in Seq({panel[x] : x \in Agents})
      /\ C \in Seq({panel[x] : x \in Agents}) /\ D \in Seq({panel[x] : x \in Agents})
  BY <1>2
<1> HIDE DEF Row, A, B, C, D
<1> DEFINE S == Seq({panel[x] : x \in Agents})
           Holds(X) == X \in S /\ \E i \in DOMAIN X : X[i] = panel[a]
<1>6. ASSUME NEW X \in S, NEW Y \in S, Holds(X) \/ Holds(Y) PROVE Holds(X \o Y)
  <2>1. X \o Y \in S /\ Len(X \o Y) = Len(X) + Len(Y)
    OBVIOUS
  <2>2. CASE Holds(X)
    <3>1. PICK i \in DOMAIN X : X[i] = panel[a]
      BY <2>2
    <3>2. i \in DOMAIN (X \o Y) /\ (X \o Y)[i] = panel[a]
      BY <3>1
    <3> QED BY <2>1, <3>2
  <2>3. CASE Holds(Y)
    <3>1. PICK i \in DOMAIN Y : Y[i] = panel[a]
      BY <2>3
    <3>2. Len(X) + i \in DOMAIN (X \o Y) /\ (X \o Y)[Len(X) + i] = panel[a]
      BY <3>1
    <3> QED BY <2>1, <3>2
  <2> QED BY <1>6, <2>2, <2>3
<1>7. Holds(Row(a))
  BY <1>2, <1>4
<1>8. Holds(A) \/ Holds(B) \/ Holds(C) \/ Holds(D)
  BY <1>3, <1>7 DEF A, B, C, D
<1> HIDE DEF S, Holds
<1>9. A \in S /\ B \in S /\ C \in S /\ D \in S
  BY <1>5 DEF S
<1>10. A \o B \in S /\ A \o B \o C \in S
  BY <1>5 DEF S
<1>11. Holds(A \o B \o C \o D)
  BY <1>6, <1>8, <1>9, <1>10
<1> QED BY <1>1, <1>11 DEF Holds

\* The gate escalates unless every row it was given is ok.
LEMMA GateNeedsWholePanel ==
    ASSUME NEW panel, Whole(panel), Decide(panel).decision # "escalate"
    PROVE  AllOk(panel)
<1> SUFFICES ASSUME NEW a \in Agents, ~ok(panel[a]) PROVE FALSE
  BY DEF AllOk
<1>1. PICK i \in DOMAIN LoadVerdicts(panel) : LoadVerdicts(panel)[i] = panel[a]
  BY LoadsEveryRow DEF Whole
<1> QED BY <1>1 DEF Decide, evaluate, Escalate

\* What the gate may answer.
LEMMA GateAnswers ==
    ASSUME NEW panel
    PROVE  /\ Decide(panel) = [decision |-> Decide(panel).decision,
                               reason |-> Decide(panel).reason,
                               postable |-> Decide(panel).postable]
           /\ Decide(panel).decision \in Decision
           /\ Decide(panel).reason \in EscalationReason \cup {NoReason}
           /\ Decide(panel).decision = "escalate" => Decide(panel).reason \in EscalationReason
BY DEF Decide, evaluate, Escalate, Decision, EscalationReason, NoReason

\* The gate posts only when there is something to post, and, unless the setting
\* is off, only when nothing it saw is a critical security finding.
LEMMA GatePosts ==
    ASSUME NEW panel, Decide(panel).decision = "auto_post"
    PROVE  /\ Aggregated(panel).findings # <<>>
           /\ EscalateCriticalSecurity =>
                \A i \in DOMAIN Aggregated(panel).findings :
                    ~CriticalSecurity(Aggregated(panel).findings[i])
BY DEF Decide, evaluate, Escalate, HoldsCritical, Aggregated

-----------------------------------------------------------------------------
(* What is aggregated from the stored rows *)

\* What an agent reports: nobody agrees yet, and it is in one category.
Fresh == {f \in FindingType : f.agreeing = {} /\ f.categories = {}}

\* What the ok rows of a panel say.
LEMMA RawPanelFacts ==
    ASSUME NEW panel \in [Agents -> AnyVerdict]
    PROVE  /\ RawFindings(LoadVerdicts(panel)) \in Seq(Fresh)
           /\ RawFindings(LoadVerdicts(panel)) \in Seq(FindingType)
<1> DEFINE vs == LoadVerdicts(panel)
           V  == {panel[a] : a \in Agents}
<1>1. vs \in Seq(V)
  BY LoadsOnlyRows
<1>2. ASSUME NEW v \in V, ok(v) PROVE v.findings \in Seq(Fresh)
  <2>1. PICK a \in Agents, r \in Reports : v.findings = Tagged(r, a)
    BY <1>2 DEF AnyVerdict, NoVerdict, Verdicts, ok
  <2>2. a \in AgentType /\ r \in Seq(FindingType)
    BY PipelineAssumption
  <2>3. ASSUME NEW i \in DOMAIN r PROVE [r[i] EXCEPT !.agent = a] \in Fresh
    <3>1. r[i] \in FindingType /\ r[i].agreeing = {} /\ r[i].categories = {}
      BY <2>2, PipelineAssumption
    <3>2. ASSUME NEW f \in FindingType, f.agreeing = {}, f.categories = {}
          PROVE  [f EXCEPT !.agent = a] \in Fresh
      BY <2>2, <3>2 DEF FindingType, Fresh
    <3> QED BY <3>1, <3>2
  <2>4. Tagged(r, a) \in Seq(Fresh)
    BY <2>2, <2>3 DEF Tagged
  <2> QED BY <2>1, <2>4
<1>3. RawFindings(vs) \in Seq(Fresh)
  <2> HIDE DEF vs, V
  <2> QED BY <1>1, <1>2, RawFindingsFacts
<1>4. Fresh \subseteq FindingType
  BY DEF Fresh
<1> QED BY <1>3, <1>4

\* An ok row of the panel has something to say.
Heard(panel) == \E a \in Agents : ok(panel[a]) /\ panel[a].findings # <<>>

\* What is aggregated from the stored rows is empty only if no ok row says
\* anything.
LEMMA PanelFacts ==
    ASSUME NEW panel \in [Agents -> AnyVerdict]
    PROVE  Aggregated(panel).findings # <<>> <=> Heard(panel)
<1> DEFINE vs == LoadVerdicts(panel)
           V  == {panel[a] : a \in Agents}
           X  == UNION {{v.findings[i] : i \in DOMAIN v.findings} : v \in V}
<1>1. vs \in Seq(V)
  BY LoadsOnlyRows
<1>2. ASSUME NEW v \in V, ok(v) PROVE v.findings \in Seq(X)
  <2>1. v \in AnyVerdict
    OBVIOUS
  <2>2. PICK a \in Agents, r \in Reports : v.findings = Tagged(r, a)
    BY <1>2, <2>1 DEF AnyVerdict, NoVerdict, Verdicts, ok
  <2>3. r \in Seq(FindingType)
    BY PipelineAssumption
  <2> DEFINE fs == v.findings
  <2>4. Len(r) \in Nat /\ DOMAIN fs = 1..Len(r)
    BY <2>2, <2>3 DEF Tagged
  <2>5. \A i \in 1..Len(r) : fs[i] \in X
    BY <2>4
  <2>6. fs = [i \in 1..Len(r) |-> fs[i]]
    BY <2>2, <2>4 DEF Tagged
  <2> HIDE DEF fs, X
  <2>7. fs \in Seq(X)
    BY <2>4, <2>5, <2>6
  <2> QED BY <2>7 DEF fs
<1>3. Aggregated(panel).findings # <<>> <=>
         \E i \in DOMAIN vs : ok(vs[i]) /\ vs[i].findings # <<>>
  <2> HIDE DEF vs, V, X
  <2>1. aggregate(vs).findings # <<>> <=>
         \E i \in DOMAIN vs : ok(vs[i]) /\ vs[i].findings # <<>>
    BY <1>1, <1>2, AggregateFacts
  <2> QED BY <2>1 DEF Aggregated, vs
<1>4. ASSUME NEW i \in DOMAIN vs, ok(vs[i]), vs[i].findings # <<>> PROVE Heard(panel)
  <2>1. vs[i] \in V
    <3> HIDE DEF vs, V
    <3> QED BY <1>1
  <2>2. PICK a \in Agents : vs[i] = panel[a]
    BY <2>1
  <2> QED BY <1>4, <2>2 DEF Heard
<1>5. ASSUME Heard(panel)
      PROVE  \E i \in DOMAIN vs : ok(vs[i]) /\ vs[i].findings # <<>>
  <2>1. PICK a \in Agents : ok(panel[a]) /\ panel[a].findings # <<>>
    BY <1>5 DEF Heard
  <2>2. panel[a] # NoVerdict
    BY <2>1 DEF NoVerdict
  <2>3. PICK i \in DOMAIN vs : vs[i] = panel[a]
    BY <2>2, LoadsEveryRow
  <2> QED BY <2>1, <2>3
<1> QED BY <1>3, <1>4, <1>5

-----------------------------------------------------------------------------
(* Types *)

\* The initial tables, queue and memory are well typed.
LEMMA InitTypeOK == Init => TypeOK
<1> SUFFICES ASSUME Init PROVE TypeOK
  OBVIOUS
<1>1. NoVerdict \in AnyVerdict /\ NoReview \in ReviewRow /\ 0 \in Heads
  BY PipelineAssumption DEF AnyVerdict, NoReview, ReviewRow, NoReason, Heads
<1>2. /\ kind \in [Deliveries -> {"webhook", "replay", "dry_run"}]
      /\ job \in [Deliveries -> JobState]
      /\ tries \in [Deliveries -> Nat]
      /\ at \in [Deliveries -> Steps]
      /\ sha \in [Deliveries -> Heads]
      /\ todo \in [Deliveries -> SUBSET Agents]
      /\ got \in [Deliveries -> [Agents -> AnyVerdict]]
      /\ head \in Heads
      /\ delivered \subseteq Deliveries
  BY <1>1 DEF Init, JobState, Steps
<1>3. /\ posts \in [Reviews -> Nat]
      /\ reviews \in [Reviews -> ReviewRow]
      /\ rows \in [Reviews -> [Agents -> AnyVerdict]]
      /\ returned \in [Reviews -> [Agents -> Nat]]
  BY <1>1 DEF Init
<1>4. hitl \in [Reviews -> Seq(HitlItem)]
  BY DEF Init
<1>5. DOMAIN plan = Deliveries /\ \A d \in Deliveries : IsPlan(plan[d])
  BY DEF Init, NoPlan, Decision, IsPlan
<1>6. DOMAIN findings = Reviews /\ \A r \in Reviews : IsFindings(findings[r])
  BY DEF Init, NoFindings, IsFindings
<1> QED BY <1>2, <1>3, <1>4, <1>5, <1>6 DEF TypeOK

\* A step of job d keeps every variable well typed.
LEMMA StepTypeOK ==
    ASSUME TypeOK, NEW d \in Deliveries,
           Submit(d) \/ Step(d) \/ Aggregate(d) \/ Crash(d) \/ Fail(d)
    PROVE  TypeOK'
<1> USE DEF memory, queue, github, tables, Steps, JobState
<1>0. /\ Current(d) \in Reviews /\ NoVerdict \in AnyVerdict /\ 0 \in Heads
      /\ IsPlan(NoPlan)
  BY PipelineAssumption
  DEF TypeOK, Reviews, Current, AnyVerdict, Heads, NoPlan, IsPlan, Decision
<1>f. ASSUME Forget(d)
      PROVE  /\ at' \in [Deliveries -> Steps] /\ sha' \in [Deliveries -> Heads]
             /\ todo' \in [Deliveries -> SUBSET Agents]
             /\ got' \in [Deliveries -> [Agents -> AnyVerdict]]
             /\ DOMAIN plan' = Deliveries /\ \A e \in Deliveries : IsPlan(plan'[e])
  BY <1>0, <1>f DEF Forget, TypeOK
<1>g. ASSUME NEW row \in ReviewRow, Finish(d, row) PROVE TypeOK'
  BY <1>0, <1>g DEF Finish, TypeOK
<1>h. /\ Finished("suppressed", "auto_post", NoReason, FALSE) \in ReviewRow
      /\ Finished("suppressed", "suppress", NoReason, FALSE) \in ReviewRow
      /\ Finished("posted", "auto_post", NoReason, TRUE) \in ReviewRow
      /\ Finished("awaiting_human", "escalate", plan[d].reason, FALSE) \in ReviewRow
  BY DEF Finished, ReviewRow, Decision, TypeOK, IsPlan
<1>1. CASE Submit(d)
  BY <1>1 DEF Submit, TypeOK
<1>2. CASE Start(d)
  BY <1>2 DEF Start, TypeOK
<1>3. CASE Complete(d)
  BY <1>f, <1>3 DEF Complete, TypeOK
<1>4. CASE Crash(d)
  BY <1>f, <1>4 DEF Crash, TypeOK
<1>5. CASE Fail(d)
  BY <1>f, <1>5 DEF Fail, TypeOK
<1>6. CASE RecordDelivery(d)
  BY <1>6 DEF RecordDelivery, TypeOK
<1>7. CASE Fetch(d)
  BY <1>7 DEF Fetch, TypeOK
<1>8. CASE OpenReview(d)
  <2>1. Running \in ReviewRow
    BY DEF Running, NoReview, ReviewRow
  <2> QED BY <1>0, <2>1, <1>8 DEF OpenReview, TypeOK
<1>9. CASE Resume(d)
  BY <1>9 DEF Resume, TypeOK
<1>10. CASE \E a \in Agents : \E v \in Verdicts(a) : AgentReturns(d, a, v)
  <2>a. PICK a \in Agents : \E v \in Verdicts(a) : AgentReturns(d, a, v)
    BY <1>10
  <2>1. PICK v \in Verdicts(a) : AgentReturns(d, a, v)
    BY <2>a
  <2>2. v \in AnyVerdict
    BY DEF AnyVerdict
  <2>3. got' \in [Deliveries -> [Agents -> AnyVerdict]]
    BY <2>1, <2>2 DEF AgentReturns, TypeOK
  <2>4. returned' \in [Reviews -> [Agents -> Nat]]
    BY <1>0, <2>1 DEF AgentReturns, TypeOK
  <2> QED BY <2>1, <2>3, <2>4 DEF AgentReturns, TypeOK
<1>11. CASE FanIn(d)
  BY <1>11 DEF FanIn, TypeOK
<1>12. CASE \E a \in Agents : SaveVerdict(d, a)
  <2>1. PICK a \in Agents : SaveVerdict(d, a)
    BY <1>12
  <2>2. rows' \in [Reviews -> [Agents -> AnyVerdict]]
    BY <1>0, <2>1 DEF SaveVerdict, TypeOK
  <2>3. todo' \in [Deliveries -> SUBSET Agents] /\ at' \in [Deliveries -> Steps]
    BY <2>1 DEF SaveVerdict, TypeOK
  <2> QED BY <2>1, <2>2, <2>3 DEF SaveVerdict, TypeOK
<1>13. CASE Aggregate(d)
  <2>1. IsPlan(Decide(rows[Current(d)]))
    BY GateAnswers DEF IsPlan
  <2>2. DOMAIN plan' = Deliveries /\ \A e \in Deliveries : IsPlan(plan'[e])
    BY <2>1, <1>13 DEF Aggregate, TypeOK
  <2>3. DOMAIN findings' = Reviews /\ \A r \in Reviews : IsFindings(findings'[r])
    BY <1>0, <1>13 DEF Aggregate, SaveFindings, TypeOK, IsFindings
  <2> QED BY <2>2, <2>3, <1>13 DEF Aggregate, TypeOK
<1>14. CASE ActDryRun(d)
  BY <1>g, <1>h, <1>14 DEF ActDryRun
<1>15. CASE ActSuppress(d)
  BY <1>g, <1>h, <1>15 DEF ActSuppress
<1>16. CASE PostReview(d)
  BY <1>0, <1>16 DEF PostReview, TypeOK
<1>k. ASSUME DeliveryFailed(d)
      PROVE  /\ DOMAIN plan' = Deliveries /\ \A e \in Deliveries : IsPlan(plan'[e])
             /\ at' \in [Deliveries -> Steps]
  BY <1>k DEF DeliveryFailed, TypeOK, IsPlan, Decision, EscalationReason
<1>17. CASE \E reached \in BOOLEAN : PostReviewFails(d, reached)
  BY <1>0, <1>k, <1>17 DEF PostReviewFails, DeliveryFailed, TypeOK
<1>18. CASE MarkPosted(d)
  <2>1. DOMAIN findings' = Reviews /\ \A r \in Reviews : IsFindings(findings'[r])
    BY <1>0, <1>18 DEF MarkPosted, TypeOK, IsFindings
  <2> QED BY <2>1, <1>18 DEF MarkPosted, TypeOK
<1>19. CASE FinishPosted(d)
  BY <1>g, <1>h, <1>19 DEF FinishPosted
<1>20. CASE BookkeepingFails(d)
  BY <1>k, <1>20 DEF BookkeepingFails, DeliveryFailed, TypeOK
<1>21. CASE EnqueueHitl(d)
  <2>1. plan[d].reason \in EscalationReason
    BY <1>21 DEF EnqueueHitl, TypeOK, IsPlan
  <2>2. Priority(plan[d].reason) \in Nat
    BY <2>1 DEF Priority, EscalationReason
  <2>3. HitlEntry(d) \in HitlItem
    BY <2>1, <2>2 DEF HitlItem, HitlEntry
  <2>4. hitl' \in [Reviews -> Seq(HitlItem)]
    BY <1>0, <2>3, <1>21 DEF EnqueueHitl, TypeOK
  <2> QED BY <2>4, <1>21 DEF EnqueueHitl, TypeOK
<1>22. CASE FinishEscalated(d)
  BY <1>g, <1>h, <1>22 DEF FinishEscalated
<1> QED BY <1>1, <1>2, <1>3, <1>4, <1>5, <1>6, <1>7, <1>8, <1>9, <1>10, <1>11, <1>12, <1>13, <1>14, <1>15, <1>16, <1>17, <1>18, <1>19, <1>20, <1>21, <1>22 DEF Step

\* Every step keeps every variable well typed.
LEMMA TypeStep == ASSUME TypeOK, [Next]_vars PROVE TypeOK'
<1>1. CASE Push
  BY <1>1, PipelineAssumption DEF Push, TypeOK, Heads, memory, queue, tables
<1>2. CASE UNCHANGED vars
  BY <1>2 DEF vars, memory, queue, github, tables, TypeOK
<1> QED BY <1>1, <1>2, StepTypeOK DEF Next

\* Every variable keeps its type (the columns of the tables, the arq job states,
\* the points _run and _act can be at).
THEOREM TypeCorrect == Spec => []TypeOK
BY TypeStep, InitTypeOK, PTL DEF Spec

-----------------------------------------------------------------------------
(* The invariant *)

\* Where the attempt holds a whole panel of rows.
AfterPanel == {"aggregate", "act", "mark", "finish", "await", "return"}

\* The states finish_review leaves a row in.
Settled == {"posted", "awaiting_human", "suppressed"}

\* What the attempt knows about the rows: it runs the agents that are not ok, it
\* overwrites no ok row, and it aggregates only when every agent has a row.
MemoryInv(d) ==
    /\ at[d] = "idle" <=> job[d] # "running"
    /\ at[d] = "panel" => todo[d] = Agents \ Completed(Current(d))
    /\ at[d] = "save" =>
          \A a \in Agents :
             IF a \in todo[d]
             THEN ~ok(rows[Current(d)][a]) /\ got[d][a] # NoVerdict
             ELSE rows[Current(d)][a] # NoVerdict
    /\ at[d] \in AfterPanel => Whole(rows[Current(d)])

\* What the plan in memory says about the tables and GitHub.
PlanInv(d) ==
    /\ at[d] = "act" /\ plan[d].decision # "escalate"
          => plan[d].decision = Decide(rows[Current(d)]).decision
    /\ at[d] \in {"mark", "finish"} => posts[Current(d)] > 0
    /\ at[d] = "await" =>
          \E i \in DOMAIN hitl[Current(d)] :
             hitl[Current(d)][i].reason = plan[d].reason
    /\ at[d] = "return" => reviews[Current(d)].status \in Settled
    /\ job[d] = "done" => \E h \in Heads : reviews[<<d, h>>].status \in Settled

\* What a row of reviews and GitHub say about each other.
LedgerInv(r) ==
    /\ posts[r] > 0 =>
          /\ AllOk(rows[r])
          /\ Decide(rows[r]).decision = "auto_post"
          /\ kind[r[1]] # "dry_run"
    /\ reviews[r].status = "suppressed" =>
          /\ posts[r] = 0
          /\ \/ kind[r[1]] = "dry_run"
             \/ AllOk(rows[r]) /\ Decide(rows[r]).decision = "suppress"
    /\ reviews[r].status = "posted" => posts[r] > 0 /\ reviews[r].github_review_id
    /\ reviews[r].status = "awaiting_human" =>
          \E i \in DOMAIN hitl[r] : hitl[r][i].reason = reviews[r].reason

\* Attempts, and what they leave behind.
BoundInv(d) ==
    /\ tries[d] <= TryLimit(d)
    /\ job[d] \in {"absent", "queued"} => tries[d] < TryLimit(d)
    /\ \A h \in Heads :
          /\ posts[<<d, h>>] <= tries[d]
          /\ Len(hitl[<<d, h>>]) <= tries[d]
          /\ \/ at[d] \in {"record", "fetch", "open", "resume", "panel", "save",
                          "aggregate"}
             \/ at[d] = "act" /\ plan[d].decision # "escalate"
             => posts[<<d, h>>] < tries[d]
          /\ at[d] \in {"record", "fetch", "open", "resume", "panel", "save",
                       "aggregate", "act", "mark", "finish"}
             => Len(hitl[<<d, h>>]) < tries[d]

\* What concerns one job.
JobInv(d) ==
    /\ MemoryInv(d) /\ PlanInv(d) /\ BoundInv(d)
    /\ \A h \in Heads : LedgerInv(<<d, h>>)

\* The inductive invariant.
IInv == TypeOK /\ \A d \in Deliveries : JobInv(d)

\* Nothing that concerns job e changes.
Same(e) ==
    /\ kind'[e] = kind[e] /\ job'[e] = job[e] /\ tries'[e] = tries[e]
    /\ at'[e] = at[e] /\ sha'[e] = sha[e] /\ todo'[e] = todo[e]
    /\ got'[e] = got[e] /\ plan'[e] = plan[e]
    /\ \A h \in Heads :
          /\ posts'[<<e, h>>] = posts[<<e, h>>]
          /\ reviews'[<<e, h>>] = reviews[<<e, h>>]
          /\ rows'[<<e, h>>] = rows[<<e, h>>]
          /\ findings'[<<e, h>>] = findings[<<e, h>>]
          /\ hitl'[<<e, h>>] = hitl[<<e, h>>]


\* What does not concern a job does not disturb its invariant.
LEMMA SameKeepsJobInv ==
    ASSUME TypeOK, NEW e \in Deliveries, JobInv(e), Same(e)
    PROVE  JobInv(e)'
<1>1. /\ Current(e)' = Current(e) /\ sha[e] \in Heads
      /\ TryLimit(e)' = TryLimit(e) /\ Completed(Current(e))' = Completed(Current(e))
  BY DEF Same, Current, TypeOK, TryLimit, Completed
<1>2. MemoryInv(e)'
  BY <1>1 DEF JobInv, MemoryInv, Same, Current
<1>3. PlanInv(e)'
  BY <1>1 DEF JobInv, PlanInv, Same, Current
<1>4. BoundInv(e)'
  BY <1>1 DEF JobInv, BoundInv, Same
<1>5. ASSUME NEW h \in Heads PROVE LedgerInv(<<e, h>>)'
  BY DEF JobInv, LedgerInv, Same
<1> QED BY <1>2, <1>3, <1>4, <1>5 DEF JobInv

\* A step of one job leaves the others alone.
LEMMA OthersUntouched ==
    ASSUME TypeOK, NEW d \in Deliveries, NEW e \in Deliveries, e # d,
           Submit(d) \/ Step(d) \/ Aggregate(d) \/ Crash(d) \/ Fail(d)
    PROVE  Same(e)
<1> USE DEF memory, queue, github, tables
<1>0. ASSUME NEW h \in Heads
      PROVE  <<e, h>> \in Reviews /\ <<e, h>> # Current(d) /\ Current(d) \in Reviews
  BY DEF Reviews, Current, TypeOK
<1>1. CASE Submit(d) \/ Start(d) \/ RecordDelivery(d) \/ Fetch(d) \/ Resume(d) \/ FanIn(d)
  BY <1>1 DEF Submit, Start, RecordDelivery, Fetch, Resume, FanIn, Same, TypeOK
<1>2. CASE Complete(d) \/ Crash(d) \/ Fail(d)
  BY <1>2 DEF Complete, Crash, Fail, Forget, Same, TypeOK
<1>3. CASE OpenReview(d)
  BY <1>0, <1>3 DEF OpenReview, Same, TypeOK
<1>4. CASE \E a \in Agents : \E v \in Verdicts(a) : AgentReturns(d, a, v)
  BY <1>0, <1>4 DEF AgentReturns, Same, TypeOK
<1>5. CASE \E a \in Agents : SaveVerdict(d, a)
  BY <1>0, <1>5 DEF SaveVerdict, Same, TypeOK
<1>6. CASE Aggregate(d)
  BY <1>0, <1>6 DEF Aggregate, SaveFindings, Same, TypeOK
<1>7. CASE ActDryRun(d) \/ ActSuppress(d) \/ FinishPosted(d) \/ FinishEscalated(d)
  BY <1>0, <1>7 DEF ActDryRun, ActSuppress, FinishPosted, FinishEscalated, Finish, Same, TypeOK
<1>8. CASE PostReview(d) \/ MarkPosted(d) \/ EnqueueHitl(d)
  BY <1>0, <1>8 DEF PostReview, MarkPosted, EnqueueHitl, Same, TypeOK
<1>9. CASE (\E reached \in BOOLEAN : PostReviewFails(d, reached)) \/ BookkeepingFails(d)
  BY <1>0, <1>9 DEF PostReviewFails, BookkeepingFails, DeliveryFailed, Same, TypeOK
<1> QED BY <1>1, <1>2, <1>3, <1>4, <1>5, <1>6, <1>7, <1>8, <1>9 DEF Step

\* A step of a job keeps the job's own invariant.
LEMMA StepJobInv ==
    ASSUME TypeOK, NEW d \in Deliveries, JobInv(d),
           Submit(d) \/ Step(d) \/ Aggregate(d) \/ Crash(d) \/ Fail(d)
    PROVE  JobInv(d)'
<1> USE DEF memory, queue, github, tables
<1>c. Current(d) \in Reviews /\ Current(d) = <<d, sha[d]>>
  BY DEF Reviews, Current, TypeOK
<1>0. PICK r \in Reviews : r = Current(d) /\ r = <<d, sha[d]>>
  BY <1>c
<1>s. sha[d] \in Heads /\ r[1] = d
  BY <1>0 DEF TypeOK
<1>i. MemoryInv(d) /\ PlanInv(d) /\ BoundInv(d) /\ \A h \in Heads : LedgerInv(<<d, h>>)
  BY DEF JobInv
<1>r. \A h \in Heads : <<d, h>> \in Reviews /\ (<<d, h>> = r <=> h = sha[d])
  BY <1>0 DEF Reviews
<1>v. LedgerInv(r)
  BY <1>0, <1>i, <1>s
<1>t. TryLimit(d) \in Nat \ {0} /\ tries[d] \in Nat
  BY PipelineAssumption DEF TryLimit, TypeOK
<1>n. ~ok(NoVerdict)
  BY DEF ok, NoVerdict
<1>l. ASSUME UNCHANGED <<kind, posts, reviews, rows, findings, hitl>>
      PROVE  \A h \in Heads : LedgerInv(<<d, h>>)'
  BY <1>i, <1>l DEF LedgerInv
<1>1. CASE Submit(d)
  <2> USE <1>1 DEF Submit
  <2>1. MemoryInv(d)'
    BY <1>0, <1>s, <1>i DEF MemoryInv, TypeOK, Current
  <2>2. PlanInv(d)'
    BY <1>0, <1>s, <1>i DEF PlanInv, TypeOK, Current
  <2>3. BoundInv(d)'
    BY <1>0, <1>s, <1>i, <1>r, <1>t DEF BoundInv, TypeOK, TryLimit, Current
  <2>4. \A h \in Heads : LedgerInv(<<d, h>>)'
    BY <1>l
  <2> QED BY <2>1, <2>2, <2>3, <2>4 DEF JobInv
<1>2. CASE Start(d)
  <2> USE <1>2 DEF Start
  <2>1. MemoryInv(d)'
    BY <1>0, <1>s, <1>i DEF MemoryInv, TypeOK, Current, AfterPanel
  <2>2. PlanInv(d)'
    BY <1>0, <1>s, <1>i DEF PlanInv, TypeOK, Current
  <2>3. BoundInv(d)'
    BY <1>0, <1>s, <1>i, <1>r, <1>t DEF BoundInv, TypeOK, TryLimit, Current
  <2>4. \A h \in Heads : LedgerInv(<<d, h>>)'
    BY <1>l
  <2> QED BY <2>1, <2>2, <2>3, <2>4 DEF JobInv
<1>3. CASE Complete(d)
  <2> USE <1>3 DEF Complete, Forget
  <2>1. MemoryInv(d)'
    BY <1>0, <1>s, <1>i DEF MemoryInv, TypeOK, Current, AfterPanel
  <2>2. PlanInv(d)'
    BY <1>0, <1>s, <1>i DEF PlanInv, TypeOK, Current
  <2>3. BoundInv(d)'
    BY <1>0, <1>s, <1>i, <1>r, <1>t DEF BoundInv, TypeOK, TryLimit, Current
  <2>4. \A h \in Heads : LedgerInv(<<d, h>>)'
    BY <1>l
  <2> QED BY <2>1, <2>2, <2>3, <2>4 DEF JobInv
<1>4. CASE Crash(d)
  <2> USE <1>4 DEF Crash, Forget
  <2>1. MemoryInv(d)'
    BY <1>0, <1>s, <1>i DEF MemoryInv, TypeOK, Current, AfterPanel
  <2>2. PlanInv(d)'
    BY <1>0, <1>s, <1>i DEF PlanInv, TypeOK, Current
  <2>3. BoundInv(d)'
    BY <1>0, <1>s, <1>i, <1>r, <1>t DEF BoundInv, TypeOK, TryLimit, Current
  <2>4. \A h \in Heads : LedgerInv(<<d, h>>)'
    BY <1>l
  <2> QED BY <2>1, <2>2, <2>3, <2>4 DEF JobInv
<1>5. CASE Fail(d)
  <2> USE <1>5 DEF Fail, Forget
  <2>1. MemoryInv(d)'
    BY <1>0, <1>s, <1>i DEF MemoryInv, TypeOK, Current, AfterPanel
  <2>2. PlanInv(d)'
    BY <1>0, <1>s, <1>i DEF PlanInv, TypeOK, Current
  <2>3. BoundInv(d)'
    BY <1>0, <1>s, <1>i, <1>r, <1>t DEF BoundInv, TypeOK, TryLimit, Current
  <2>4. \A h \in Heads : LedgerInv(<<d, h>>)'
    BY <1>l
  <2> QED BY <2>1, <2>2, <2>3, <2>4 DEF JobInv
<1>6. CASE RecordDelivery(d)
  <2> USE <1>6 DEF RecordDelivery
  <2>1. MemoryInv(d)'
    BY <1>0, <1>s, <1>i DEF MemoryInv, TypeOK, Current, AfterPanel
  <2>2. PlanInv(d)'
    BY <1>0, <1>s, <1>i DEF PlanInv, TypeOK, Current
  <2>3. BoundInv(d)'
    BY <1>0, <1>s, <1>i, <1>r, <1>t DEF BoundInv, TypeOK, TryLimit, Current
  <2>4. \A h \in Heads : LedgerInv(<<d, h>>)'
    BY <1>l
  <2> QED BY <2>1, <2>2, <2>3, <2>4 DEF JobInv
<1>7. CASE Fetch(d)
  <2> USE <1>7 DEF Fetch
  <2>1. MemoryInv(d)'
    BY <1>0, <1>s, <1>i DEF MemoryInv, TypeOK, Current, AfterPanel
  <2>2. PlanInv(d)'
    BY <1>0, <1>s, <1>i DEF PlanInv, TypeOK, Current
  <2>3. BoundInv(d)'
    BY <1>0, <1>s, <1>i, <1>r, <1>t DEF BoundInv, TypeOK, TryLimit, Current
  <2>4. \A h \in Heads : LedgerInv(<<d, h>>)'
    BY <1>l
  <2> QED BY <2>1, <2>2, <2>3, <2>4 DEF JobInv
<1>8. CASE OpenReview(d)
  <2> USE <1>8 DEF OpenReview
  <2>1. MemoryInv(d)'
    BY <1>0, <1>s, <1>i DEF MemoryInv, TypeOK, Current, AfterPanel, Completed
  <2>2. PlanInv(d)'
    BY <1>0, <1>s, <1>i DEF PlanInv, TypeOK, Current, Running, NoReview, MemoryInv
  <2>3. BoundInv(d)'
    BY <1>0, <1>s, <1>i, <1>r, <1>t DEF BoundInv, TypeOK, TryLimit, Current
  <2>4. \A h \in Heads : LedgerInv(<<d, h>>)'
    <3>0. /\ UNCHANGED <<kind, posts, rows, findings, hitl>>
          /\ reviews'[r] = reviews[r] \/ reviews'[r].status = "running"
      BY <1>0 DEF TypeOK, Running, NoReview
    <3>1. LedgerInv(r)'
      BY <1>v, <3>0 DEF LedgerInv
    <3>2. ASSUME NEW h \in Heads, <<d, h>> # r PROVE LedgerInv(<<d, h>>)'
      BY <1>0, <1>i, <1>r, <3>2 DEF LedgerInv, TypeOK
    <3> QED BY <1>r, <1>0, <3>1, <3>2
  <2> QED BY <2>1, <2>2, <2>3, <2>4 DEF JobInv
<1>9. CASE Resume(d)
  <2> USE <1>9 DEF Resume
  <2>1. MemoryInv(d)'
    <3>1. todo'[d] = Agents \ Completed(Current(d))
      BY DEF TypeOK
    <3>2. Completed(Current(d))' = Completed(Current(d)) /\ Current(d)' = Current(d)
      BY DEF Completed, Current
    <3>3. todo'[d] = {} => Whole(rows[Current(d)])
      BY <1>n, <3>1 DEF Completed, Whole
    <3>4. at'[d] = IF todo'[d] = {} THEN "aggregate" ELSE "panel"
      BY DEF TypeOK
    <3> QED BY <1>i, <3>1, <3>2, <3>3, <3>4 DEF MemoryInv, AfterPanel
  <2>2. PlanInv(d)'
    BY <1>0, <1>i DEF PlanInv, TypeOK, Current, MemoryInv
  <2>3. BoundInv(d)'
    BY <1>i, <1>t DEF BoundInv, TypeOK, TryLimit
  <2>4. \A h \in Heads : LedgerInv(<<d, h>>)'
    BY <1>l
  <2> QED BY <2>1, <2>2, <2>3, <2>4 DEF JobInv
<1>10. CASE \E a \in Agents : \E v \in Verdicts(a) : AgentReturns(d, a, v)
  <2> USE <1>10 DEF AgentReturns
  <2>1. MemoryInv(d)'
    BY <1>0, <1>s, <1>i DEF MemoryInv, TypeOK, Current, AfterPanel, Completed, Whole
  <2>2. PlanInv(d)'
    BY <1>0, <1>s, <1>i DEF PlanInv, TypeOK, Current
  <2>3. BoundInv(d)'
    BY <1>0, <1>s, <1>i, <1>r, <1>t DEF BoundInv, TypeOK, TryLimit, Current
  <2>4. \A h \in Heads : LedgerInv(<<d, h>>)'
    BY <1>l
  <2> QED BY <2>1, <2>2, <2>3, <2>4 DEF JobInv
<1>11. CASE FanIn(d)
  <2> USE <1>11 DEF FanIn
  <2>1. MemoryInv(d)'
    BY <1>0, <1>s, <1>i, <1>n DEF MemoryInv, TypeOK, Current, AfterPanel, Completed
  <2>2. PlanInv(d)'
    BY <1>0, <1>s, <1>i, <1>n DEF PlanInv, TypeOK, Current
  <2>3. BoundInv(d)'
    BY <1>0, <1>s, <1>i, <1>r, <1>t, <1>n DEF BoundInv, TypeOK, TryLimit, Current
  <2>4. \A h \in Heads : LedgerInv(<<d, h>>)'
    BY <1>l
  <2> QED BY <2>1, <2>2, <2>3, <2>4 DEF JobInv
<1>12. CASE \E a \in Agents : SaveVerdict(d, a)
  <2>0. PICK a \in Agents : SaveVerdict(d, a)
    BY <1>12
  <2>5. /\ at[d] = "save" /\ a \in todo[d] /\ todo'[d] = todo[d] \ {a}
        /\ ~ok(rows[r][a]) /\ got[d][a] # NoVerdict
        /\ rows'[r] = [rows[r] EXCEPT ![a] = got[d][a]]
        /\ sha' = sha /\ got' = got /\ job' = job
    BY <1>0, <1>i, <2>0 DEF SaveVerdict, MemoryInv, TypeOK
  <2>1. MemoryInv(d)'
    <3>1. \A b \in Agents : b # a => rows'[r][b] = rows[r][b]
      BY <2>5 DEF TypeOK
    <3>2. rows'[r][a] = got[d][a]
      BY <2>5 DEF TypeOK
    <3>3. ASSUME NEW b \in Agents
          PROVE  IF b \in todo'[d] THEN ~ok(rows'[r][b]) /\ got[d][b] # NoVerdict
                                    ELSE rows'[r][b] # NoVerdict
      BY <1>0, <1>i, <2>5, <3>1, <3>2 DEF MemoryInv
    <3>4. todo'[d] = {} => Whole(rows'[r])
      BY <3>3 DEF Whole
    <3>5. at'[d] = IF todo'[d] = {} THEN "aggregate" ELSE "save"
      BY <2>0 DEF SaveVerdict, TypeOK
    <3>6. Current(d)' = r
      BY <1>0, <2>5 DEF Current
    <3> QED BY <1>i, <2>5, <3>3, <3>4, <3>5, <3>6 DEF MemoryInv, AfterPanel
  <2>2. PlanInv(d)'
    BY <1>0, <1>i, <2>0 DEF SaveVerdict, PlanInv, TypeOK, Current, MemoryInv
  <2>3. BoundInv(d)'
    BY <1>0, <1>s, <1>i, <1>r, <1>t, <2>0 DEF SaveVerdict, BoundInv, TypeOK, TryLimit, Current
  <2>4. \A h \in Heads : LedgerInv(<<d, h>>)'
    <3>1. ~AllOk(rows[r])
      BY <2>5 DEF AllOk
    <3>2. /\ posts[r] = 0 /\ UNCHANGED <<posts, kind, reviews, hitl>>
          /\ reviews[r].status = "suppressed" => kind[r[1]] = "dry_run"
      BY <1>v, <2>0, <3>1 DEF SaveVerdict, LedgerInv, TypeOK
    <3>3. LedgerInv(r)'
      BY <1>v, <3>2 DEF LedgerInv
    <3>4. ASSUME NEW h \in Heads, <<d, h>> # r PROVE LedgerInv(<<d, h>>)'
      BY <1>0, <1>i, <1>r, <2>0, <3>4 DEF SaveVerdict, LedgerInv, TypeOK
    <3> QED BY <1>r, <1>0, <3>3, <3>4
  <2> QED BY <2>1, <2>2, <2>3, <2>4 DEF JobInv
<1>13. CASE Aggregate(d)
  <2> USE <1>13 DEF Aggregate, SaveFindings
  <2>0. Decide(rows[Current(d)]).decision = "auto_post" =>
            Aggregated(rows[Current(d)]).findings # <<>>
    BY GatePosts
  <2>1. MemoryInv(d)'
    BY <1>0, <1>s, <1>i, <2>0 DEF MemoryInv, TypeOK, Current, AfterPanel, Whole
  <2>2. PlanInv(d)'
    BY <1>0, <1>s, <1>i, <2>0 DEF PlanInv, TypeOK, Current, MemoryInv
  <2>3. BoundInv(d)'
    BY <1>0, <1>s, <1>i, <1>r, <1>t, <2>0 DEF BoundInv, TypeOK, TryLimit, Current
  <2>4. \A h \in Heads : LedgerInv(<<d, h>>)'
    <3>1. LedgerInv(r)'
      BY <1>0, <1>s, <1>i, <1>v, <2>0 DEF LedgerInv, TypeOK
    <3>2. ASSUME NEW h \in Heads, <<d, h>> # r PROVE LedgerInv(<<d, h>>)'
      BY <1>0, <1>i, <1>r, <3>2 DEF LedgerInv, TypeOK
    <3> QED BY <1>r, <1>0, <3>1, <3>2
  <2> QED BY <2>1, <2>2, <2>3, <2>4 DEF JobInv
<1>14. CASE ActDryRun(d)
  <2> USE <1>14 DEF ActDryRun, Finish
  <2>1. MemoryInv(d)'
    BY <1>0, <1>s, <1>i DEF MemoryInv, TypeOK, Current, AfterPanel
  <2>2. PlanInv(d)'
    BY <1>0, <1>s, <1>i DEF PlanInv, TypeOK, Current, Settled, Finished, MemoryInv
  <2>3. BoundInv(d)'
    BY <1>0, <1>s, <1>i, <1>r, <1>t DEF BoundInv, TypeOK, TryLimit, Current
  <2>4. \A h \in Heads : LedgerInv(<<d, h>>)'
    <3>1. LedgerInv(r)'
      BY <1>0, <1>s, <1>i, <1>v DEF LedgerInv, TypeOK, Finished, Current, PlanInv, Posting
    <3>2. ASSUME NEW h \in Heads, <<d, h>> # r PROVE LedgerInv(<<d, h>>)'
      BY <1>0, <1>i, <1>r, <3>2 DEF LedgerInv, TypeOK
    <3> QED BY <1>r, <1>0, <3>1, <3>2
  <2> QED BY <2>1, <2>2, <2>3, <2>4 DEF JobInv
<1>15. CASE ActSuppress(d)
  <2> USE <1>15 DEF ActSuppress, Finish
  <2>0. AllOk(rows[Current(d)]) /\ Decide(rows[Current(d)]).decision = "suppress"
    BY <1>i, GateNeedsWholePanel DEF MemoryInv, PlanInv, AfterPanel
  <2>1. MemoryInv(d)'
    BY <1>0, <1>s, <1>i DEF MemoryInv, TypeOK, Current, AfterPanel
  <2>2. PlanInv(d)'
    BY <1>0, <1>s, <1>i DEF PlanInv, TypeOK, Current, Settled, Finished, MemoryInv
  <2>3. BoundInv(d)'
    BY <1>0, <1>s, <1>i, <1>r, <1>t DEF BoundInv, TypeOK, TryLimit, Current
  <2>4. \A h \in Heads : LedgerInv(<<d, h>>)'
    <3>1. LedgerInv(r)'
      BY <1>0, <1>s, <1>i, <1>v, <2>0 DEF LedgerInv, TypeOK, Finished, Current
    <3>2. ASSUME NEW h \in Heads, <<d, h>> # r PROVE LedgerInv(<<d, h>>)'
      BY <1>0, <1>i, <1>r, <3>2 DEF LedgerInv, TypeOK
    <3> QED BY <1>r, <1>0, <3>1, <3>2
  <2> QED BY <2>1, <2>2, <2>3, <2>4 DEF JobInv
<1>16. CASE FinishPosted(d)
  <2> USE <1>16 DEF FinishPosted, Finish
  <2>1. MemoryInv(d)'
    BY <1>0, <1>s, <1>i DEF MemoryInv, TypeOK, Current, AfterPanel
  <2>2. PlanInv(d)'
    BY <1>0, <1>s, <1>i DEF PlanInv, TypeOK, Current, Settled, Finished, MemoryInv
  <2>3. BoundInv(d)'
    BY <1>0, <1>s, <1>i, <1>r, <1>t DEF BoundInv, TypeOK, TryLimit, Current
  <2>4. \A h \in Heads : LedgerInv(<<d, h>>)'
    <3>1. LedgerInv(r)'
      BY <1>0, <1>s, <1>i, <1>v DEF LedgerInv, TypeOK, Finished, Current, PlanInv, Posting
    <3>2. ASSUME NEW h \in Heads, <<d, h>> # r PROVE LedgerInv(<<d, h>>)'
      BY <1>0, <1>i, <1>r, <3>2 DEF LedgerInv, TypeOK
    <3> QED BY <1>r, <1>0, <3>1, <3>2
  <2> QED BY <2>1, <2>2, <2>3, <2>4 DEF JobInv
<1>17. CASE FinishEscalated(d)
  <2> USE <1>17 DEF FinishEscalated, Finish
  <2>1. MemoryInv(d)'
    BY <1>0, <1>s, <1>i DEF MemoryInv, TypeOK, Current, AfterPanel
  <2>2. PlanInv(d)'
    BY <1>0, <1>s, <1>i DEF PlanInv, TypeOK, Current, Settled, Finished, MemoryInv
  <2>3. BoundInv(d)'
    BY <1>0, <1>s, <1>i, <1>r, <1>t DEF BoundInv, TypeOK, TryLimit, Current
  <2>4. \A h \in Heads : LedgerInv(<<d, h>>)'
    <3>0. /\ UNCHANGED <<kind, posts, rows, findings, hitl>>
          /\ reviews'[r].status = "awaiting_human"
          /\ reviews'[r].reason = plan[d].reason
          /\ \E i \in DOMAIN hitl[r] : hitl[r][i].reason = plan[d].reason
      BY <1>0, <1>i DEF TypeOK, Finished, PlanInv
    <3>1. LedgerInv(r)'
      BY <1>v, <3>0 DEF LedgerInv
    <3>2. ASSUME NEW h \in Heads, <<d, h>> # r PROVE LedgerInv(<<d, h>>)'
      BY <1>0, <1>i, <1>r, <3>2 DEF LedgerInv, TypeOK
    <3> QED BY <1>r, <1>0, <3>1, <3>2
  <2> QED BY <2>1, <2>2, <2>3, <2>4 DEF JobInv
<1>18. CASE PostReview(d)
  <2> USE <1>18 DEF PostReview, Posting
  <2>0. AllOk(rows[Current(d)]) /\ Decide(rows[Current(d)]).decision = "auto_post"
    BY <1>i, GateNeedsWholePanel DEF MemoryInv, PlanInv, AfterPanel
  <2>1. MemoryInv(d)'
    BY <1>0, <1>s, <1>i DEF MemoryInv, TypeOK, Current, AfterPanel
  <2>2. PlanInv(d)'
    BY <1>0, <1>s, <1>i DEF PlanInv, TypeOK, Current, MemoryInv
  <2>3. BoundInv(d)'
    BY <1>0, <1>s, <1>i, <1>r, <1>t DEF BoundInv, TypeOK, TryLimit, Current
  <2>4. \A h \in Heads : LedgerInv(<<d, h>>)'
    <3>0. /\ UNCHANGED <<kind, reviews, rows, findings, hitl>>
          /\ posts'[r] > 0
          /\ reviews[r].status # "suppressed" /\ kind[r[1]] # "dry_run"
          /\ AllOk(rows[r]) /\ Decide(rows[r]).decision = "auto_post"
      BY <1>0, <1>s, <1>i, <1>v, <2>0 DEF TypeOK, LedgerInv, PlanInv
    <3>1. LedgerInv(r)'
      BY <1>v, <3>0 DEF LedgerInv
    <3>2. ASSUME NEW h \in Heads, <<d, h>> # r PROVE LedgerInv(<<d, h>>)'
      BY <1>0, <1>i, <1>r, <3>2 DEF LedgerInv, TypeOK
    <3> QED BY <1>r, <1>0, <3>1, <3>2
  <2> QED BY <2>1, <2>2, <2>3, <2>4 DEF JobInv
<1>19. CASE \E reached \in BOOLEAN : PostReviewFails(d, reached)
  <2> USE <1>19 DEF PostReviewFails, DeliveryFailed, Posting
  <2>0. AllOk(rows[Current(d)]) /\ Decide(rows[Current(d)]).decision = "auto_post"
    BY <1>i, GateNeedsWholePanel DEF MemoryInv, PlanInv, AfterPanel
  <2>1. MemoryInv(d)'
    BY <1>0, <1>s, <1>i DEF MemoryInv, TypeOK, Current, AfterPanel
  <2>2. PlanInv(d)'
    BY <1>0, <1>s, <1>i DEF PlanInv, TypeOK, Current, MemoryInv
  <2>3. BoundInv(d)'
    BY <1>0, <1>s, <1>i, <1>r, <1>t DEF BoundInv, TypeOK, TryLimit, Current
  <2>4. \A h \in Heads : LedgerInv(<<d, h>>)'
    <3>0. /\ UNCHANGED <<kind, reviews, rows, findings, hitl>>
          /\ posts'[r] > 0 \/ posts'[r] = posts[r]
          /\ reviews[r].status # "suppressed" /\ kind[r[1]] # "dry_run"
          /\ AllOk(rows[r]) /\ Decide(rows[r]).decision = "auto_post"
      BY <1>0, <1>s, <1>i, <1>v, <2>0 DEF TypeOK, LedgerInv, PlanInv
    <3>1. LedgerInv(r)'
      BY <1>v, <3>0 DEF LedgerInv
    <3>2. ASSUME NEW h \in Heads, <<d, h>> # r PROVE LedgerInv(<<d, h>>)'
      BY <1>0, <1>i, <1>r, <3>2 DEF LedgerInv, TypeOK
    <3> QED BY <1>r, <1>0, <3>1, <3>2
  <2> QED BY <2>1, <2>2, <2>3, <2>4 DEF JobInv
<1>20. CASE MarkPosted(d)
  <2> USE <1>20 DEF MarkPosted
  <2>1. MemoryInv(d)'
    BY <1>0, <1>s, <1>i DEF MemoryInv, TypeOK, Current, AfterPanel
  <2>2. PlanInv(d)'
    BY <1>0, <1>s, <1>i DEF PlanInv, TypeOK, Current, MemoryInv
  <2>3. BoundInv(d)'
    BY <1>0, <1>s, <1>i, <1>r, <1>t DEF BoundInv, TypeOK, TryLimit, Current
  <2>4. \A h \in Heads : LedgerInv(<<d, h>>)'
    <3>1. LedgerInv(r)'
      BY <1>0, <1>s, <1>i, <1>v DEF LedgerInv, TypeOK
    <3>2. ASSUME NEW h \in Heads, <<d, h>> # r PROVE LedgerInv(<<d, h>>)'
      BY <1>0, <1>i, <1>r, <3>2 DEF LedgerInv, TypeOK
    <3> QED BY <1>r, <1>0, <3>1, <3>2
  <2> QED BY <2>1, <2>2, <2>3, <2>4 DEF JobInv
<1>21. CASE BookkeepingFails(d)
  <2> USE <1>21 DEF BookkeepingFails, DeliveryFailed
  <2>1. MemoryInv(d)'
    BY <1>0, <1>s, <1>i DEF MemoryInv, TypeOK, Current, AfterPanel
  <2>2. PlanInv(d)'
    BY <1>0, <1>s, <1>i DEF PlanInv, TypeOK, Current, MemoryInv
  <2>3. BoundInv(d)'
    BY <1>0, <1>s, <1>i, <1>r, <1>t DEF BoundInv, TypeOK, TryLimit, Current
  <2>4. \A h \in Heads : LedgerInv(<<d, h>>)'
    BY <1>l
  <2> QED BY <2>1, <2>2, <2>3, <2>4 DEF JobInv
<1>22. CASE EnqueueHitl(d)
  <2> USE <1>22 DEF EnqueueHitl
  <2>5. PICK item : /\ hitl'[r] = Append(hitl[r], item)
                    /\ item = HitlEntry(d)
    BY <1>0 DEF TypeOK
  <2>6. item.reason = plan[d].reason /\ hitl[r] \in Seq(HitlItem)
    BY <2>5 DEF TypeOK, HitlEntry
  <2>0. /\ Len(hitl'[r]) = Len(hitl[r]) + 1 /\ Len(hitl[r]) \in Nat
        /\ \A i \in DOMAIN hitl[r] : i \in DOMAIN hitl'[r] /\ hitl'[r][i] = hitl[r][i]
        /\ Len(hitl[r]) + 1 \in DOMAIN hitl'[r]
        /\ hitl'[r][Len(hitl[r]) + 1].reason = plan[d].reason
    BY <2>5, <2>6, SMTT(60)
  <2>1. MemoryInv(d)'
    BY <1>0, <1>s, <1>i, <2>0 DEF MemoryInv, TypeOK, Current, AfterPanel
  <2>2. PlanInv(d)'
    BY <1>0, <1>s, <1>i, <2>0, ZenonT(60) DEF PlanInv, TypeOK, Current, MemoryInv
  <2>3. BoundInv(d)'
    BY <1>0, <1>s, <1>i, <1>r, <1>t, <2>0 DEF BoundInv, TypeOK, TryLimit, Current
  <2>4. \A h \in Heads : LedgerInv(<<d, h>>)'
    <3>0. UNCHANGED <<kind, posts, reviews, rows, findings>>
      OBVIOUS
    <3>1. LedgerInv(r)'
      BY <1>v, <2>0, <3>0 DEF LedgerInv
    <3>2. ASSUME NEW h \in Heads, <<d, h>> # r PROVE LedgerInv(<<d, h>>)'
      BY <1>0, <1>i, <1>r, <3>2 DEF LedgerInv, TypeOK
    <3> QED BY <1>r, <1>0, <3>1, <3>2
  <2> QED BY <2>1, <2>2, <2>3, <2>4 DEF JobInv
<1> QED BY <1>1, <1>2, <1>3, <1>4, <1>5, <1>6, <1>7, <1>8, <1>9, <1>10, <1>11, <1>12, <1>13, <1>14, <1>15, <1>16, <1>17, <1>18, <1>19, <1>20, <1>21, <1>22 DEF Step

\* The invariant holds of the empty tables.
LEMMA InitIInv == Init => IInv
<1> SUFFICES ASSUME Init, NEW d \in Deliveries PROVE JobInv(d)
  BY InitTypeOK DEF IInv
<1>1. TypeOK
  BY InitTypeOK
<1>2. \A h \in Heads : <<d, h>> \in Reviews
  BY DEF Reviews
<1>3. MemoryInv(d)
  BY DEF Init, MemoryInv, AfterPanel
<1>4. PlanInv(d)
  BY DEF Init, PlanInv
<1>5. BoundInv(d)
  BY <1>2, PipelineAssumption DEF Init, BoundInv, TryLimit
<1>6. ASSUME NEW h \in Heads PROVE LedgerInv(<<d, h>>)
  BY <1>2 DEF Init, LedgerInv, NoReview
<1> QED BY <1>3, <1>4, <1>5, <1>6 DEF JobInv

\* The inductive invariant: at every point of every attempt, the attempt's memory,
\* the tables and GitHub agree as far as the pipeline relies on it.
THEOREM Invariance == Spec => []IInv
<1>1. ASSUME IInv, [Next]_vars PROVE IInv'
  <2>1. TypeOK'
    BY <1>1, TypeStep DEF IInv
  <2>2. ASSUME NEW e \in Deliveries PROVE JobInv(e)'
    <3>1. TypeOK /\ JobInv(e)
      BY <1>1 DEF IInv
    <3>2. CASE Push \/ UNCHANGED vars
      BY <3>1, <3>2, SameKeepsJobInv
      DEF Push, vars, memory, queue, github, tables, Same
    <3>3. ASSUME NEW d \in Deliveries,
                 Submit(d) \/ Step(d) \/ Aggregate(d) \/ Crash(d) \/ Fail(d)
          PROVE  JobInv(e)'
      BY <3>1, <3>3, StepJobInv, OthersUntouched, SameKeepsJobInv
    <3> QED BY <1>1, <3>2, <3>3 DEF Next
  <2> QED BY <2>1, <2>2 DEF IInv
<1> QED BY <1>1, InitIInv, PTL DEF Spec

-----------------------------------------------------------------------------
(* The theorems *)

\* The invariant, for a row rather than for a job.
LEMMA RowInv ==
    ASSUME IInv, NEW r \in Reviews
    PROVE  /\ LedgerInv(r) /\ posts[r] \in Nat
           /\ posts[r] <= tries[r[1]] /\ Len(hitl[r]) <= tries[r[1]]
           /\ tries[r[1]] <= MaxTries
<1>1. PICK d \in Deliveries, h \in Heads : r = <<d, h>>
  BY DEF Reviews
<1>2. JobInv(d) /\ r[1] = d /\ TypeOK
  BY <1>1 DEF IInv
<1>3. TryLimit(d) \in Nat /\ TryLimit(d) <= MaxTries /\ tries[d] \in Nat
  BY <1>2, PipelineAssumption DEF TryLimit, TypeOK
<1>4. LedgerInv(r) /\ BoundInv(d)
  BY <1>1, <1>2 DEF JobInv
<1>5. posts[r] <= tries[d] /\ Len(hitl[r]) <= tries[d] /\ tries[d] <= TryLimit(d)
  BY <1>1, <1>4 DEF BoundInv
<1>6. posts[r] \in Nat /\ MaxTries \in Nat
  BY <1>2, PipelineAssumption DEF TypeOK
<1> QED BY <1>2, <1>3, <1>4, <1>5, <1>6

\* Whatever crashed, failed and was retried: a review on GitHub comes from a
\* panel in which every agent is ok, and the gate posts exactly that panel.
THEOREM OnlyWholePanelsArePosted == Spec => []PostedFromWholePanel
<1>1. IInv => PostedFromWholePanel
  BY RowInv DEF PostedFromWholePanel, LedgerInv, AllOk
<1> QED BY <1>1, Invariance, PTL

\* A critical finding that none of security's stands for, in its own words or under
\* a recommendation.
Covered(raw, f) ==
    \E k \in DOMAIN raw :
        /\ raw[k].severity = "critical" /\ ~is_security(raw[k])
        /\ f.category \in SECURITY_CATEGORIES => raw[k].category \in COLLAPSIBLE_CATEGORIES

\* What the gate lets pass: it has seen no critical security finding, so the one
\* that stands for f in the review is none.
LEMMA PostedFindings ==
    ASSUME NEW panel \in [Agents -> AnyVerdict], EscalateCriticalSecurity,
           Decide(panel).decision = "auto_post",
           NEW i \in DOMAIN RawFindings(LoadVerdicts(panel)),
           CriticalSecurity(RawFindings(LoadVerdicts(panel))[i])
    PROVE  Covered(RawFindings(LoadVerdicts(panel)), RawFindings(LoadVerdicts(panel))[i])
<1> DEFINE vs  == LoadVerdicts(panel)
           raw == RawFindings(vs)
           out == aggregate(vs).findings
           f   == raw[i]
<1>1. raw \in Seq(Fresh) /\ raw \in Seq(FindingType)
  BY RawPanelFacts
<1>2. \A k \in DOMAIN out : ~CriticalSecurity(out[k])
  BY GatePosts DEF Aggregated
<1>3. i \in DOMAIN raw /\ CriticalSecurity(f)
  OBVIOUS
<1> HIDE DEF vs, out
<1>4. \A k \in DOMAIN raw : raw[k] \in FindingType /\ raw[k].agreeing = {} /\ raw[k].categories = {}
  BY <1>1 DEF Fresh
<1>5. /\ out \in Seq(FindingType)
      /\ \A k \in DOMAIN out : \E j \in DOMAIN raw : Tells(out[k], raw[j])
      /\ \A j \in DOMAIN raw : \E k \in DOMAIN out :
           AsBad(out[k], raw[j]) /\ (Names(out[k], raw[j]) \/ Recommends(out[k]))
  BY <1>1, <1>4, ReviewFacts DEF out
<1>6. PICK k \in DOMAIN out : AsBad(out[k], f) /\ (Names(out[k], f) \/ Recommends(out[k]))
  BY <1>3, <1>5
<1>7. PICK j \in DOMAIN raw : Tells(out[k], raw[j])
  BY <1>5
<1>8. out[k] \in FindingType /\ f \in FindingType /\ f.severity = "critical" /\ is_security(f)
  BY <1>3, <1>4, <1>5 DEF CriticalSecurity
<1> DEFINE g == out[k]
<1> HIDE DEF raw
<1>9. g.severity = "critical"
  <2>1. g.severity \in Severity /\ "critical" \in Severity
    BY <1>8, FieldFacts DEF Severity
  <2>2. \A s \in Severity : SeverityIndex(s) <= SeverityIndex("critical")
    <3>1. SEVERITY_ORDER[SeverityIndex("critical")] = "critical" /\ SeverityIndex("critical") \in 1..4
      BY <2>1, SeverityFacts
    <3>2. SeverityIndex("critical") = 4
      BY <3>1 DEF SEVERITY_ORDER
    <3> QED BY <3>2, SeverityFacts
  <2>3. SeverityIndex(g.severity) \in Int /\ SeverityIndex("critical") \in Int
    BY <2>1, SeverityFacts
  <2> QED BY <1>6, <1>8, <2>1, <2>2, <2>3 DEF AsBad
<1>10. ~is_security(g)
  BY <1>2, <1>9 DEF CriticalSecurity
<1>11. /\ raw[j].severity = "critical" /\ raw[j].agent = g.agent
       /\ raw[j].category = g.category /\ raw[j].categories = {}
  BY <1>4, <1>7, <1>9 DEF Tells
<1>12. ~is_security(raw[j])
  BY <1>10, <1>11 DEF is_security
<1>13. f.category \in SECURITY_CATEGORIES => raw[j].category \in COLLAPSIBLE_CATEGORIES
  <2>1. ASSUME f.category \in SECURITY_CATEGORIES PROVE ~Names(g, f)
    BY <1>10, <2>1 DEF Names, is_security
  <2> QED BY <1>6, <1>11, <2>1 DEF Recommends
<1>14. Covered(raw, f)
  BY <1>11, <1>12, <1>13 DEF Covered
<1> QED BY <1>14 DEF raw, vs

\* No attempt ever publishes a review drawn from a critical security finding, but
\* for the two ways in which consolidation hides one from the gate.
THEOREM NothingDisclosed == Spec => []NoDisclosure
<1>1. ASSUME IInv PROVE NoDisclosure
  <2> SUFFICES ASSUME EscalateCriticalSecurity, NEW r \in Reviews, posts[r] > 0,
                      NEW i \in DOMAIN RawFindings(LoadVerdicts(rows[r])),
                      CriticalSecurity(RawFindings(LoadVerdicts(rows[r]))[i])
               PROVE  Covered(RawFindings(LoadVerdicts(rows[r])),
                              RawFindings(LoadVerdicts(rows[r]))[i])
    BY DEF NoDisclosure, Covered
  <2>1. Decide(rows[r]).decision = "auto_post"
    BY <1>1, RowInv DEF LedgerInv
  <2>2. rows[r] \in [Agents -> AnyVerdict]
    BY <1>1 DEF IInv, TypeOK
  <2> QED BY <2>1, <2>2, PostedFindings
<1> QED BY <1>1, Invariance, PTL

\* What the reviews table says about GitHub and about the human queue is true.
THEOREM TablesTellTheTruth == Spec => []StatusIsTrue
<1>1. IInv => StatusIsTrue
  BY RowInv DEF StatusIsTrue, LedgerInv
<1> QED BY <1>1, Invariance, PTL

\* At most one GitHub review and one human item per attempt, at most max_tries
\* attempts.
THEOREM RetriesDuplicateLittle == Spec => []DuplicatesBounded
<1>1. IInv => DuplicatesBounded
  BY RowInv DEF DuplicatesBounded
<1> QED BY <1>1, Invariance, PTL

\* A job arq counts as done left a settled review behind.
THEOREM DoneMeansSettled == Spec => []DoneIsSettled
<1>1. IInv => DoneIsSettled
  BY DEF IInv, JobInv, PlanInv, Settled, DoneIsSettled
<1> QED BY <1>1, Invariance, PTL

\* No step replaces an ok verdict in the table, or runs its agent again.
OkRowsStay ==
    \A r \in Reviews : \A a \in Agents : ok(rows[r][a]) =>
        /\ rows'[r][a] = rows[r][a]
        /\ returned'[r][a] = returned[r][a]

LEMMA StepsKeepOkRows == ASSUME IInv, Next PROVE OkRowsStay
<1> USE DEF memory, queue, github, tables
<1>1. CASE Push
  BY <1>1 DEF Push, OkRowsStay
<1>2. ASSUME NEW d \in Deliveries,
             Submit(d) \/ Step(d) \/ Aggregate(d) \/ Crash(d) \/ Fail(d)
      PROVE  OkRowsStay
  <2>1. TypeOK /\ MemoryInv(d) /\ Current(d) \in Reviews
    BY DEF IInv, JobInv, TypeOK, Current, Reviews
  <2>2. CASE \E a \in Agents : SaveVerdict(d, a)
    BY <2>1, <2>2 DEF SaveVerdict, MemoryInv, TypeOK, OkRowsStay
  <2>3. CASE \E a \in Agents : \E v \in Verdicts(a) : AgentReturns(d, a, v)
    BY <2>1, <2>3 DEF AgentReturns, MemoryInv, TypeOK, Completed, OkRowsStay
  <2>4. CASE UNCHANGED <<rows, returned>>
    BY <2>4 DEF OkRowsStay
  <2>5. \/ \E a \in Agents : SaveVerdict(d, a)
        \/ \E a \in Agents : \E v \in Verdicts(a) : AgentReturns(d, a, v)
        \/ UNCHANGED <<rows, returned>>
    BY <1>2
    DEF Step, Submit, Start, Complete, Crash, Fail, RecordDelivery, Fetch,
        OpenReview, Resume, FanIn, Aggregate, ActDryRun, ActSuppress, Finish,
        PostReview, PostReviewFails, DeliveryFailed, MarkPosted, FinishPosted,
        BookkeepingFails, EnqueueHitl, FinishEscalated
  <2> QED BY <2>2, <2>3, <2>4, <2>5
<1> QED BY <1>1, <1>2 DEF Next

\* An ok verdict in the table is final: no retry replaces it or pays for it again.
THEOREM StoredVerdictsAreFinal == Spec => OkVerdictsFinal
<1>1. IInv /\ [Next]_vars => [OkRowsStay]_vars
  BY StepsKeepOkRows
<1> QED BY <1>1, Invariance, PTL DEF Spec, OkVerdictsFinal, OkRowsStay

-----------------------------------------------------------------------------
(* save_findings *)

\* Stored findings came from an ok row, and ok rows stay: whatever is aggregated
\* later is not empty, so save_findings replaces them.
StoredInv ==
    /\ \A r \in Reviews : findings[r].list # <<>> => Heard(rows[r])
    /\ ActsOnStoredFindings

\* The steps at which the attempt carries out the gate's decision.
Acting == {"act", "mark", "finish", "await", "return"}

\* Saving the findings makes the table say what was aggregated.
LEMMA AggregateStores ==
    ASSUME IInv, StoredInv, NEW d \in Deliveries, Aggregate(d)
    PROVE  /\ findings'[Current(d)].list = Stored(Aggregated(rows[Current(d)]).findings)
           /\ \A r \in Reviews : r # Current(d) => findings'[r] = findings[r]
<1> DEFINE r == Current(d)
           list == Aggregated(rows[r]).findings
<1>1. TypeOK /\ r \in Reviews /\ DOMAIN findings = Reviews
  BY DEF IInv, TypeOK, Current, Reviews
<1>2. rows[r] \in [Agents -> AnyVerdict]
  BY <1>1 DEF TypeOK
<1>3. SaveFindings(r, list)
  BY DEF Aggregate
<1>4. list # <<>> <=> Heard(rows[r])
  BY <1>2, PanelFacts
<1>5. findings[r].list # <<>> => Heard(rows[r])
  BY <1>1 DEF StoredInv
<1> HIDE DEF r, list
<1>6. CASE list = <<>>
  <2>1. Stored(<<>>) = <<>>
    BY DEF Stored
  <2> QED BY <1>3, <1>4, <1>5, <1>6, <2>1 DEF SaveFindings, r, list
<1>7. CASE list # <<>>
  BY <1>1, <1>3, <1>7 DEF SaveFindings, r, list
<1> QED BY <1>6, <1>7

\* What a step of job d does to its rows and findings while it acts.
LEMMA ActingStep ==
    ASSUME IInv, NEW d \in Deliveries,
           Submit(d) \/ Step(d) \/ Crash(d) \/ Fail(d)
    PROVE  /\ \A r \in Reviews : findings'[r].list = findings[r].list
           /\ at'[d] \in Acting =>
                 at[d] \in Acting /\ UNCHANGED rows /\ sha'[d] = sha[d]
<1> USE DEF memory, queue, github, tables, Acting
<1>0. TypeOK /\ Current(d) \in Reviews
  BY DEF IInv, TypeOK, Current, Reviews
<1>1. CASE Submit(d) \/ Start(d) \/ RecordDelivery(d) \/ Fetch(d) \/ Resume(d) \/ FanIn(d) \/ OpenReview(d)
  BY <1>0, <1>1 DEF Submit, Start, RecordDelivery, Fetch, Resume, FanIn, OpenReview, TypeOK, IInv, JobInv, MemoryInv
<1>2. CASE Complete(d) \/ Crash(d) \/ Fail(d)
  BY <1>0, <1>2 DEF Complete, Crash, Fail, Forget, TypeOK
<1>3. CASE \E a \in Agents : \E v \in Verdicts(a) : AgentReturns(d, a, v)
  BY <1>0, <1>3 DEF AgentReturns, TypeOK
<1>4. CASE \E a \in Agents : SaveVerdict(d, a)
  BY <1>0, <1>4 DEF SaveVerdict, TypeOK
<1>5. CASE ActDryRun(d) \/ ActSuppress(d) \/ FinishPosted(d) \/ FinishEscalated(d)
  BY <1>0, <1>5 DEF ActDryRun, ActSuppress, FinishPosted, FinishEscalated, Finish, TypeOK
<1>6. CASE PostReview(d) \/ EnqueueHitl(d)
  BY <1>0, <1>6 DEF PostReview, EnqueueHitl, TypeOK
<1>7. CASE MarkPosted(d)
  <2>1. \A r \in Reviews : findings'[r].list = findings[r].list
    BY <1>0, <1>7 DEF MarkPosted, TypeOK
  <2> QED BY <1>0, <1>7, <2>1 DEF MarkPosted, TypeOK
<1>8. CASE (\E reached \in BOOLEAN : PostReviewFails(d, reached)) \/ BookkeepingFails(d)
  BY <1>0, <1>8 DEF PostReviewFails, BookkeepingFails, DeliveryFailed, TypeOK
<1> QED BY <1>1, <1>2, <1>3, <1>4, <1>5, <1>6, <1>7, <1>8 DEF Step

\* Whatever _act carries out, on whichever attempt, the findings table holds the
\* aggregate of the verdicts table: no findings of an earlier attempt survive.
THEOREM StoredFindingsAreCurrent == Spec => []ActsOnStoredFindings
<1>1. Init => StoredInv
  BY DEF Init, StoredInv, ActsOnStoredFindings, NoFindings
<1>2. ASSUME IInv, StoredInv, [Next]_vars PROVE StoredInv'
  <2> DEFINE Rule(r) == findings[r].list # <<>> => Heard(rows[r])
             True(d) == at[d] \in Acting =>
                          findings[Current(d)].list = Stored(Aggregated(rows[Current(d)]).findings)
  <2>0. TypeOK /\ (\A r \in Reviews : Rule(r)) /\ \A d \in Deliveries : True(d)
    BY <1>2 DEF IInv, StoredInv, ActsOnStoredFindings, Acting
  <2>1. SUFFICES (\A r \in Reviews : Rule(r)') /\ \A d \in Deliveries : True(d)'
    BY DEF StoredInv, ActsOnStoredFindings, Acting
  <2>2. CASE UNCHANGED vars
    BY <2>0, <2>2 DEF vars, memory, tables, Current
  <2>3. CASE Push
    BY <2>0, <2>3 DEF Push, memory, tables, Current
  <2>4. ASSUME NEW d \in Deliveries,
               Submit(d) \/ Step(d) \/ Aggregate(d) \/ Crash(d) \/ Fail(d)
        PROVE  (\A r \in Reviews : Rule(r)') /\ \A e \in Deliveries : True(e)'
    <3>0. Current(d) \in Reviews /\ Next
      BY <2>0, <2>4 DEF TypeOK, Current, Reviews, Next
    <3>1. ASSUME NEW e \in Deliveries, e # d PROVE True(e)'
      <4>1. Same(e) /\ sha[e] \in Heads
        BY <2>0, <2>4, <3>1, OthersUntouched DEF TypeOK
      <4> QED BY <2>0, <4>1 DEF Same, Current
    <3>2. ASSUME NEW r \in Reviews, Heard(rows[r]) PROVE Heard(rows'[r])
      <4>1. OkRowsStay
        BY <1>2, <3>0, StepsKeepOkRows
      <4> QED BY <3>2, <4>1 DEF Heard, OkRowsStay
    <3>3. CASE Aggregate(d)
      <4>1. UNCHANGED <<rows, sha>>
        BY <3>3 DEF Aggregate
      <4>2. /\ findings'[Current(d)].list = Stored(Aggregated(rows[Current(d)]).findings)
            /\ \A r \in Reviews : r # Current(d) => findings'[r] = findings[r]
        BY <1>2, <3>3, AggregateStores
      <4>3. True(d)'
        BY <4>1, <4>2 DEF Current
      <4>4. Heard(rows[Current(d)]) <=> Aggregated(rows[Current(d)]).findings # <<>>
        BY <2>0, <3>0, PanelFacts DEF TypeOK
      <4>5. ASSUME NEW r \in Reviews PROVE Rule(r)'
        <5>0. Stored(<<>>) = <<>>
          BY DEF Stored
        <5>1. CASE r = Current(d)
          BY <4>1, <4>2, <4>4, <5>0, <5>1
        <5>2. CASE r # Current(d)
          BY <2>0, <4>1, <4>2, <5>2
        <5> QED BY <5>1, <5>2
      <4> QED BY <3>1, <4>3, <4>5
    <3>4. CASE Submit(d) \/ Step(d) \/ Crash(d) \/ Fail(d)
      <4>1. /\ \A r \in Reviews : findings'[r].list = findings[r].list
            /\ at'[d] \in Acting =>
                  at[d] \in Acting /\ UNCHANGED rows /\ sha'[d] = sha[d]
        BY <1>2, <3>4, ActingStep
      <4>2. True(d)'
        BY <2>0, <3>0, <4>1 DEF Current
      <4>3. ASSUME NEW r \in Reviews PROVE Rule(r)'
        BY <2>0, <3>2, <4>1
      <4> QED BY <3>1, <4>2, <4>3
    <3> QED BY <2>4, <3>3, <3>4
  <2> QED BY <1>2, <2>2, <2>3, <2>4 DEF Next
<1>3. StoredInv => ActsOnStoredFindings
  BY DEF StoredInv
<1> QED BY <1>1, <1>2, <1>3, Invariance, PTL DEF Spec

=============================================================================
