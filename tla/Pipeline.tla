------------------------------ MODULE Pipeline ------------------------------
(***************************************************************************)
(* One review, end to end (orchestration/pipeline.py), as the arq worker   *)
(* runs it (queue/worker.py) against the database (db/repositories/        *)
(* reviews.py) and GitHub (forge/github.py).                               *)
(*                                                                         *)
(* A job is one webhook delivery, or one `pr-sentinel replay`.  Each await *)
(* that changes the database or GitHub is an action of its own, so a       *)
(* worker can die, and a statement can fail, between any two of them.      *)
(* What the worker holds in memory (at, sha, todo, got, plan) is lost with *)
(* it; what the tables and GitHub hold is not.                             *)
(***************************************************************************)
EXTENDS Aggregator, Gate

CONSTANTS Deliveries,  \* delivery ids of webhooks and replays
          Agents,      \* the panel, ALL_AGENTS
          MaxPushes,   \* bound: how often the head of the pull request moves
          MaxTries,    \* WorkerSettings.max_tries
          Reports      \* the finding lists an agent may come back with

ASSUME PipelineAssumption ==
    /\ Agents \subseteq AgentType
    /\ MaxPushes \in Nat
    /\ MaxTries \in Nat \ {0}
    /\ \A r \in Reports :
          /\ r \in Seq(FindingType)
          /\ \A i \in DOMAIN r : r[i].agreeing = {} /\ r[i].categories = {}

VARIABLES
    kind,      \* kind[d]: how the job reached the pipeline
    job,       \* job[d]: the arq job
    tries,     \* tries[d]: attempts started
    at,        \* at[d]: where the attempt is
    sha,       \* sha[d]: the head the attempt fetched
    todo,      \* todo[d]: agents still to run, then verdicts still to save
    got,       \* got[d][a]: the verdicts the panel holds in memory
    plan,      \* plan[d]: the gate's result
    head,      \* GitHub: the head of the pull request
    posts,     \* GitHub: reviews it holds, per review row
    delivered, \* table deliveries
    reviews,   \* table reviews
    rows,      \* table agent_verdicts
    findings,  \* table findings
    hitl,      \* table hitl_items, per review in the order of insertion
    returned   \* history: ok results an agent produced, and was paid for

memory == <<at, sha, todo, got, plan>>
queue  == <<kind, job, tries>>
github == <<head, posts>>
tables == <<delivered, reviews, rows, findings, hitl>>
vars   == <<queue, memory, github, tables, returned>>

-----------------------------------------------------------------------------

Heads == 0..MaxPushes

\* UNIQUE (pr_id, delivery_id): one review row per commit and delivery.
Reviews == Deliveries \X Heads

NoVerdict == [status |-> "absent", findings |-> <<>>]

\* The findings an agent reports carry its name.
Tagged(report, a) == [i \in DOMAIN report |-> [report[i] EXCEPT !.agent = a]]

\* No agent skips: nothing in the code returns that status.
Verdicts(a) ==
         {[status |-> "ok", findings |-> Tagged(r, a)] : r \in Reports}
    \cup {[status |-> s, findings |-> <<>>] : s \in VerdictStatus \ {"ok", "skipped"}}

NoReview == [status |-> "absent", decision |-> NoReason, reason |-> NoReason,
             github_review_id |-> FALSE]

Running == [NoReview EXCEPT !.status = "running"]

\* The row finish_review leaves.
Finished(status, decision, why, id) ==
    [status |-> status, decision |-> decision, reason |-> why,
     github_review_id |-> id]

NoFindings == [list |-> <<>>, posted |-> FALSE]

NoPlan == [decision |-> "suppress", reason |-> NoReason, postable |-> <<>>]

\* The review row the attempt of job d works on.
Current(d) == <<d, sha[d]>>

\* Mutant: a retry starts from nothing.
CompletedNone(r) == {}

\* completed_agents(): only the agents whose row is ok.
Completed(r) == {a \in Agents : ok(rows[r][a])}

\* Mutant: only the ok rows are loaded.
LoadOkVerdicts(panel) ==
    LET Row(a) == IF a \in Agents /\ ok(panel[a]) THEN <<panel[a]>> ELSE <<>>
    IN Row("correctness") \o Row("docs") \o Row("security") \o Row("tests")

\* load_verdicts(): every row of the review, ORDER BY agent.
LoadVerdicts(panel) ==
    LET Row(a) == IF a \in Agents /\ panel[a] # NoVerdict THEN <<panel[a]>> ELSE <<>>
    IN Row("correctness") \o Row("docs") \o Row("security") \o Row("tests")

\* What _run computes from the rows: the findings and the gate's result.
Aggregated(panel) == aggregate(LoadVerdicts(panel))

Decide(panel) ==
    LET vs  == LoadVerdicts(panel)
        agg == aggregate(vs)
    IN evaluate(agg.findings, vs, agg.confidence,
                \E i \in DOMAIN vs : vs[i].status = "budget_denied")

\* Mutant: one attempt too many.
TryLimitOffByOne(d) == IF kind[d] = "webhook" THEN MaxTries + 1 ELSE 1

\* A replay runs in the operator's process, with no queue to try it again.
TryLimit(d) == IF kind[d] = "webhook" THEN MaxTries ELSE 1

\* The `post` argument: the worker always posts, a replay only with --post.
Posting(d) == kind[d] # "dry_run"

Init ==
    /\ kind \in [Deliveries -> {"webhook", "replay", "dry_run"}]
    /\ job = [d \in Deliveries |-> "absent"]
    /\ tries = [d \in Deliveries |-> 0]
    /\ at = [d \in Deliveries |-> "idle"]
    /\ sha = [d \in Deliveries |-> 0]
    /\ todo = [d \in Deliveries |-> {}]
    /\ got = [d \in Deliveries |-> [a \in Agents |-> NoVerdict]]
    /\ plan = [d \in Deliveries |-> NoPlan]
    /\ head = 0
    /\ posts = [r \in Reviews |-> 0]
    /\ delivered = {}
    /\ reviews = [r \in Reviews |-> NoReview]
    /\ rows = [r \in Reviews |-> [a \in Agents |-> NoVerdict]]
    /\ findings = [r \in Reviews |-> NoFindings]
    /\ hitl = [r \in Reviews |-> <<>>]
    /\ returned = [r \in Reviews |-> [a \in Agents |-> 0]]

-----------------------------------------------------------------------------
(* The queue (arq, external) *)

\* The job is enqueued by ingress, or called by the operator.
Submit(d) ==
    /\ job[d] = "absent"
    /\ job' = [job EXCEPT ![d] = "queued"]
    /\ UNCHANGED <<kind, tries, memory, github, tables, returned>>

\* A worker takes the job and runs run_review.
Start(d) ==
    /\ job[d] = "queued"
    /\ job' = [job EXCEPT ![d] = "running"]
    /\ tries' = [tries EXCEPT ![d] = @ + 1]
    /\ at' = [at EXCEPT ![d] = "record"]
    /\ UNCHANGED <<kind, sha, todo, got, plan, github, tables, returned>>

\* Everything the attempt held in memory is gone.
Forget(d) ==
    /\ at' = [at EXCEPT ![d] = "idle"]
    /\ sha' = [sha EXCEPT ![d] = 0]
    /\ todo' = [todo EXCEPT ![d] = {}]
    /\ got' = [got EXCEPT ![d] = [a \in Agents |-> NoVerdict]]
    /\ plan' = [plan EXCEPT ![d] = NoPlan]

\* run_review returned; arq stores the result and drops the job.
Complete(d) ==
    /\ at[d] = "return"
    /\ job' = [job EXCEPT ![d] = "done"]
    /\ Forget(d)
    /\ UNCHANGED <<kind, tries, github, tables, returned>>

\* The worker dies or is shut down.  arq runs the job again until max_tries
\* attempts were made, and gives it up after the last.
Crash(d) ==
    /\ job[d] = "running"
    /\ job' = [job EXCEPT ![d] = IF tries[d] < TryLimit(d) THEN "queued"
                                                           ELSE "failed"]
    /\ Forget(d)
    /\ UNCHANGED <<kind, tries, github, tables, returned>>

\* An exception leaves run_review, or job_timeout cancels it: arq records the
\* job as failed and does not run it again.
Fail(d) ==
    /\ job[d] = "running" /\ at[d] # "return"
    /\ job' = [job EXCEPT ![d] = "failed"]
    /\ Forget(d)
    /\ UNCHANGED <<kind, tries, github, tables, returned>>

\* The author pushes.
Push ==
    /\ head < MaxPushes
    /\ head' = head + 1
    /\ UNCHANGED <<queue, memory, posts, tables, returned>>

-----------------------------------------------------------------------------
(* review_pull_request and _run *)

RecordDelivery(d) ==
    /\ at[d] = "record"
    /\ delivered' = delivered \cup {d}
    /\ at' = [at EXCEPT ![d] = "fetch"]
    /\ UNCHANGED <<queue, sha, todo, got, plan, github, reviews, rows,
                   findings, hitl, returned>>

\* build_context reads the pull request as it is now, not as it was when the
\* webhook was sent.
Fetch(d) ==
    /\ at[d] = "fetch"
    /\ sha' = [sha EXCEPT ![d] = head]
    /\ at' = [at EXCEPT ![d] = "open"]
    /\ UNCHANGED <<queue, todo, got, plan, github, tables, returned>>

\* upsert_pull_request and open_review: create the row or recover it.
OpenReview(d) ==
    /\ at[d] = "open"
    /\ d \in delivered
    /\ reviews' = [reviews EXCEPT ![Current(d)] = IF @ = NoReview THEN Running ELSE @]
    /\ at' = [at EXCEPT ![d] = "resume"]
    /\ UNCHANGED <<queue, sha, todo, got, plan, github, delivered, rows,
                   findings, hitl, returned>>

\* Retrieval and completed_agents(): what is left of the panel.
Resume(d) ==
    /\ at[d] = "resume"
    /\ todo' = [todo EXCEPT ![d] = Agents \ Completed(Current(d))]
    /\ at' = [at EXCEPT ![d] = IF todo'[d] = {} THEN "aggregate" ELSE "panel"]
    /\ UNCHANGED <<queue, sha, got, plan, github, tables, returned>>

\* One agent of the fan-out comes back.  Agent.run and the engine turn every
\* exception, timeout and budget refusal into a verdict.
AgentReturns(d, a, v) ==
    /\ at[d] = "panel"
    /\ a \in todo[d]
    /\ got[d][a] = NoVerdict
    /\ got' = [got EXCEPT ![d][a] = v]
    /\ returned' = IF ok(v) THEN [returned EXCEPT ![Current(d)][a] = @ + 1]
                            ELSE returned
    /\ UNCHANGED <<queue, at, sha, todo, plan, github, tables>>

\* Mutant: waits for the agents it did not start, too.
FanInWaitsForAll(d) ==
    /\ at[d] = "panel"
    /\ \A a \in Agents : got[d][a] # NoVerdict
    /\ at' = [at EXCEPT ![d] = "save"]
    /\ UNCHANGED <<queue, sha, todo, got, plan, github, tables, returned>>

\* run_panel returns once every agent has.
FanIn(d) ==
    /\ at[d] = "panel"
    /\ \A a \in todo[d] : got[d][a] # NoVerdict
    /\ at' = [at EXCEPT ![d] = "save"]
    /\ UNCHANGED <<queue, sha, todo, got, plan, github, tables, returned>>

\* save_verdict: insert, or overwrite the row of an earlier attempt.
SaveVerdict(d, a) ==
    /\ at[d] = "save"
    /\ a \in todo[d]
    /\ rows' = [rows EXCEPT ![Current(d)][a] = got[d][a]]
    /\ todo' = [todo EXCEPT ![d] = @ \ {a}]
    /\ at' = [at EXCEPT ![d] = IF todo'[d] = {} THEN "aggregate" ELSE "save"]
    /\ UNCHANGED <<queue, sha, got, plan, github, delivered, reviews,
                   findings, hitl, returned>>

\* A finding as the table has it: confidence NUMERIC(4, 3), one category.
StoredFinding(f) == [f EXCEPT !.confidence = 10 * Round(@, 10), !.categories = {}]

Stored(list) == [i \in DOMAIN list |-> StoredFinding(list[i])]

\* Mutant: the findings of an earlier attempt are kept.
SaveFindingsOnce(r, list) ==
    findings' = IF list = <<>> \/ findings[r].list # <<>> THEN findings
                ELSE [findings EXCEPT ![r] = [list |-> Stored(list), posted |-> FALSE]]

\* save_findings: nothing at all when there are none, else replace them.
SaveFindings(r, list) ==
    findings' = IF list = <<>> THEN findings
                ELSE [findings EXCEPT ![r] = [list |-> Stored(list), posted |-> FALSE]]

\* load_verdicts, aggregate, save_findings and the gate.
Aggregate(d) ==
    /\ at[d] = "aggregate"
    /\ SaveFindings(Current(d), Aggregated(rows[Current(d)]).findings)
    /\ plan' = [plan EXCEPT ![d] = Decide(rows[Current(d)])]
    /\ at' = [at EXCEPT ![d] = "act"]
    /\ UNCHANGED <<queue, sha, todo, got, github, delivered, reviews, rows,
                   hitl, returned>>

-----------------------------------------------------------------------------
(* _act *)

Finish(d, review) ==
    /\ reviews' = [reviews EXCEPT ![Current(d)] = review]
    /\ at' = [at EXCEPT ![d] = "return"]
    /\ UNCHANGED <<queue, sha, todo, got, plan, github, delivered, rows,
                   findings, hitl, returned>>

\* A replay without --post records what it would have posted.
ActDryRun(d) ==
    /\ at[d] = "act" /\ plan[d].decision = "auto_post" /\ ~Posting(d)
    /\ Finish(d, Finished("suppressed", "auto_post", NoReason, FALSE))

ActSuppress(d) ==
    /\ at[d] = "act" /\ plan[d].decision = "suppress"
    /\ Finish(d, Finished("suppressed", "suppress", NoReason, FALSE))

\* post_review returned.
PostReview(d) ==
    /\ at[d] = "act" /\ plan[d].decision = "auto_post" /\ Posting(d)
    /\ posts' = [posts EXCEPT ![Current(d)] = @ + 1]
    /\ at' = [at EXCEPT ![d] = "mark"]
    /\ UNCHANGED <<queue, sha, todo, got, plan, head, tables, returned>>

\* Mutant: the exception is swallowed.
DeliveryFailureSwallowed(d) ==
    /\ at' = [at EXCEPT ![d] = "finish"]
    /\ UNCHANGED <<queue, sha, todo, got, plan, tables, head, returned>>

\* The except clause of _act: escalate as a matter of policy.
DeliveryFailed(d) ==
    /\ plan' = [plan EXCEPT ![d] = [decision |-> "escalate", reason |-> "policy",
                                    postable |-> @.postable]]
    /\ at' = [at EXCEPT ![d] = "act"]
    /\ UNCHANGED <<queue, sha, todo, got, tables, head, returned>>

\* post_review raised.  When the answer was lost the review is on GitHub.
PostReviewFails(d, reached) ==
    /\ at[d] = "act" /\ plan[d].decision = "auto_post" /\ Posting(d)
    /\ posts' = IF reached THEN [posts EXCEPT ![Current(d)] = @ + 1] ELSE posts
    /\ DeliveryFailed(d)

MarkPosted(d) ==
    /\ at[d] = "mark"
    /\ findings' = [findings EXCEPT ![Current(d)] = [list |-> @.list, posted |-> TRUE]]
    /\ at' = [at EXCEPT ![d] = "finish"]
    /\ UNCHANGED <<queue, sha, todo, got, plan, github, delivered, reviews,
                   rows, hitl, returned>>

FinishPosted(d) ==
    /\ at[d] = "finish"
    /\ Finish(d, Finished("posted", "auto_post", NoReason, TRUE))

\* mark_posted or finish_review raised, after the review was posted.
BookkeepingFails(d) ==
    /\ at[d] \in {"mark", "finish"}
    /\ DeliveryFailed(d)
    /\ UNCHANGED posts

Priority(why) == CASE why = "critical_security" -> 1
                   [] why = "budget_exceeded"   -> 10
                   [] why = "agent_failure"     -> 20
                   [] why = "policy"            -> 30
                   [] why = "low_confidence"    -> 50

\* What is queued for a human.
HitlEntry(d) == [reason |-> plan[d].reason, priority |-> Priority(plan[d].reason)]

\* Mutant: the review is not finished after the enqueue.
EnqueueHitlOnly(d) ==
    /\ at[d] = "act" /\ plan[d].decision = "escalate"
    /\ hitl' = [hitl EXCEPT ![Current(d)] = Append(@, HitlEntry(d))]
    /\ at' = [at EXCEPT ![d] = "return"]
    /\ UNCHANGED <<queue, sha, todo, got, plan, github, delivered, reviews,
                   rows, findings, returned>>

\* enqueue_hitl: a plain INSERT.
EnqueueHitl(d) ==
    /\ at[d] = "act" /\ plan[d].decision = "escalate"
    /\ hitl' = [hitl EXCEPT ![Current(d)] = Append(@, HitlEntry(d))]
    /\ at' = [at EXCEPT ![d] = "await"]
    /\ UNCHANGED <<queue, sha, todo, got, plan, github, delivered, reviews,
                   rows, findings, returned>>

FinishEscalated(d) ==
    /\ at[d] = "await"
    /\ Finish(d, Finished("awaiting_human", "escalate", plan[d].reason, FALSE))

-----------------------------------------------------------------------------

\* The steps a worker takes by itself, once a job is there.
Step(d) ==
    \/ Start(d) \/ Complete(d)
    \/ RecordDelivery(d) \/ Fetch(d) \/ OpenReview(d) \/ Resume(d)
    \/ \E a \in Agents : \E v \in Verdicts(a) : AgentReturns(d, a, v)
    \/ FanIn(d)
    \/ \E a \in Agents : SaveVerdict(d, a)
    \/ ActDryRun(d) \/ ActSuppress(d)
    \/ PostReview(d) \/ (\E reached \in BOOLEAN : PostReviewFails(d, reached))
    \/ MarkPosted(d) \/ FinishPosted(d) \/ BookkeepingFails(d)
    \/ EnqueueHitl(d) \/ FinishEscalated(d)

Next ==
    \/ \E d \in Deliveries : Submit(d) \/ Step(d) \/ Aggregate(d) \/ Crash(d) \/ Fail(d)
    \/ Push

Spec == Init /\ [][Next]_vars

\* The event loop keeps running a job whose awaits return, and every await in the
\* pipeline has a timeout.  The second conjunct is WF_vars(Aggregate(d)) with the
\* guard of Aggregate written out, which spares TLC computing ENABLED.
FairSpec ==
    /\ Spec
    /\ \A d \in Deliveries :
          /\ WF_vars(Step(d))
          /\ []<>(at[d] # "aggregate") \/ []<><<Aggregate(d)>>_vars

-----------------------------------------------------------------------------
(* Properties *)

JobState == {"absent", "queued", "running", "done", "failed"}

Steps == {"idle", "record", "fetch", "open", "resume", "panel", "save",
          "aggregate", "act", "mark", "finish", "await", "return"}

AnyVerdict == {NoVerdict} \cup UNION {Verdicts(a) : a \in Agents}

ReviewRow ==
    [status : {"absent", "running", "awaiting_human", "posted", "suppressed"},
     decision : Decision \cup {NoReason},
     reason : EscalationReason \cup {NoReason},
     github_review_id : BOOLEAN]

HitlItem == [reason : EscalationReason, priority : Nat]

IsPlan(p) ==
    /\ p = [decision |-> p.decision, reason |-> p.reason, postable |-> p.postable]
    /\ p.decision \in Decision
    /\ p.reason \in EscalationReason \cup {NoReason}
    /\ p.decision = "escalate" => p.reason \in EscalationReason

IsFindings(f) == f = [list |-> f.list, posted |-> f.posted] /\ f.posted \in BOOLEAN

\* The type of every variable.
TypeOK ==
    /\ kind \in [Deliveries -> {"webhook", "replay", "dry_run"}]
    /\ job \in [Deliveries -> JobState]
    /\ tries \in [Deliveries -> Nat]
    /\ at \in [Deliveries -> Steps]
    /\ sha \in [Deliveries -> Heads]
    /\ todo \in [Deliveries -> SUBSET Agents]
    /\ got \in [Deliveries -> [Agents -> AnyVerdict]]
    /\ DOMAIN plan = Deliveries /\ \A d \in Deliveries : IsPlan(plan[d])
    /\ head \in Heads
    /\ posts \in [Reviews -> Nat]
    /\ delivered \subseteq Deliveries
    /\ reviews \in [Reviews -> ReviewRow]
    /\ rows \in [Reviews -> [Agents -> AnyVerdict]]
    /\ DOMAIN findings = Reviews /\ \A r \in Reviews : IsFindings(findings[r])
    /\ hitl \in [Reviews -> Seq(HitlItem)]
    /\ returned \in [Reviews -> [Agents -> Nat]]

\* A review reaches GitHub only from a whole panel: every agent of the row it
\* was posted for has an ok verdict, and the gate says auto_post of exactly
\* those verdicts, whatever crashed and ran again before or after (_run, _act).
PostedFromWholePanel ==
    \A r \in Reviews : posts[r] > 0 =>
        /\ \A a \in Agents : ok(rows[r][a])
        /\ Decide(rows[r]).decision = "auto_post"

\* What escalate_critical_security holds back, in terms of what the specialists
\* said (a comment on a live vulnerability would disclose it).  The gate looks at
\* the consolidated findings, so a critical security finding of the panel is posted
\* after all where another critical finding that is none stands for it: where only
\* the agent's name made it one, a finding it was merged with (_collapse keeps the
\* first of the worst); where its category did, a recommendation that it was folded
\* into, since a merged finding keeps the categories and a fold does not.
NoDisclosure ==
    EscalateCriticalSecurity =>
        \A r \in Reviews : posts[r] > 0 =>
            LET raw == RawFindings(LoadVerdicts(rows[r]))
            IN \A i \in DOMAIN raw : CriticalSecurity(raw[i]) =>
                  \E k \in DOMAIN raw :
                     /\ raw[k].severity = "critical" /\ ~is_security(raw[k])
                     /\ raw[i].category \in SECURITY_CATEGORIES
                           => raw[k].category \in COLLAPSIBLE_CATEGORIES

\* The status of a review row is true, whatever failed on the way to it: posted
\* is on GitHub (FinishPosted is only reached through post_review), awaiting_human
\* has an item in the human queue that gives the reason the row gives
\* (enqueue_hitl runs before finish_review), and suppressed said nothing in this
\* or an earlier attempt.
StatusIsTrue ==
    \A r \in Reviews :
        /\ reviews[r].status = "posted" => posts[r] > 0 /\ reviews[r].github_review_id
        /\ reviews[r].status = "awaiting_human" =>
              \E i \in DOMAIN hitl[r] : hitl[r][i].reason = reviews[r].reason
        /\ reviews[r].status = "suppressed" => posts[r] = 0

\* What _act carries out is what the tables hold: from the gate's decision to
\* the end of the attempt, the stored findings are the aggregate of the stored
\* verdicts, as far as the table's columns go.  save_findings leaves old rows in
\* place when there is nothing to save; this says that never leaves stale ones.
ActsOnStoredFindings ==
    \A d \in Deliveries : at[d] \in {"act", "mark", "finish", "await", "return"} =>
        findings[Current(d)].list = Stored(Aggregated(rows[Current(d)]).findings)

\* How much a retry can duplicate: at most one GitHub review and at most one
\* item in the human queue per attempt, and no attempt beyond max_tries.
DuplicatesBounded ==
    \A r \in Reviews : /\ posts[r] <= tries[r[1]]
                       /\ Len(hitl[r]) <= tries[r[1]]
                       /\ tries[r[1]] <= MaxTries

\* A job arq counts as done left a settled review behind.
DoneIsSettled ==
    \A d \in Deliveries : job[d] = "done" =>
        \E h \in Heads : reviews[<<d, h>>].status
                            \in {"posted", "awaiting_human", "suppressed"}

\* The resume promise at the level of rows: a verdict stored as ok is final, no
\* retry runs the agent again or overwrites its row (completed_agents).
OkVerdictsFinal ==
    [][\A r \in Reviews : \A a \in Agents : ok(rows[r][a]) =>
            /\ rows'[r][a] = rows[r][a]
            /\ returned'[r][a] = returned[r][a]]_vars

\* Every job ends: whatever crashes, arq's attempts run out.
EveryJobEnds ==
    \A d \in Deliveries : job[d] = "queued" ~> job[d] \in {"done", "failed"}

-----------------------------------------------------------------------------
(* What the documentation says, and the code does not do *)

\* worker.py: "Failures land in the HITL queue instead."
FailuresReachHumans ==
    \A d \in Deliveries : job[d] = "failed" /\ kind[d] = "webhook" =>
        \E h \in Heads : hitl[<<d, h>>] # <<>>

=============================================================================
