# A TLA+ verification of pr-sentinel

pr-sentinel reviews pull requests: GitHub sends a webhook, the ingress checks it
and queues a job, a worker runs a panel of four LLM specialists over the diff,
their findings are merged, and a gate decides whether the review is posted, put
before a human or kept quiet. This directory models the parts of it that carry
state or make that decision, checks them with TLC and proves the most important
properties with TLAPS.

Paths below are relative to `src/src/pr_sentinel/` unless they start otherwise.

## Inventory

| Component | State | Operations | What makes it hard | What makes it correct |
|---|---|---|---|---|
| Ingress (`ingress/routes.py`, `ingress/security.py`, `queue/dispatch.py`) | Redis dedupe keys, table `deliveries`, arq job ids | screen, claim, record, enqueue | requests interleave at every await; redeliveries; a crash between two stores; Redis forgets | one job per delivery; nothing unsigned leaves a trace |
| Worker (`queue/worker.py`) | arq jobs and their attempts | start, finish, fail, retry | death at any point | every job ends |
| Pipeline (`orchestration/pipeline.py`, `db/repositories/reviews.py`) | `reviews`, `agent_verdicts`, `findings`, `hitl_items`; reviews on GitHub | open or recover a review, resume, save, aggregate, gate, post, escalate | partial failure, lost answers, retries over half-written rows, a head that moves | posts only from a whole panel; the tables tell the truth |
| Panel (`agents/base.py`, `llm/client.py`, `reliability/`, the engines) | budget guard, attempts, verdicts, `agent_events` | check, call, retry, charge, time out | agents share the guard; reviews share the day; cancellation | one verdict per agent, always; spending beyond the caps only by the calls in flight together |
| Circuit breaker (`reliability/circuit.py`) | state, counters, opening time | call, success, failure | late results of calls that began in another state | legal transitions; recovery |
| Aggregator (`orchestration/aggregator.py`) | none | cluster, collapse, fold, sort, score | order dependence, rewriting in stages | nothing buried, nothing invented |
| Gate (`gate/confidence.py`) | none | evaluate | precedence of the rules | no disclosure, no posting with a hole in the panel |
| Diff and grounding (`forge/diff.py`, `agents/base.py`) | none | parse, number, ground | several places count lines | the numbers agree; a finding is on the diff |
| GitHub client (`forge/github.py`, `reliability/retry.py`) | its breaker | read a pull request, list its files, post, fall back | lost answers to a POST; a push between two requests; page boundaries | at most one review, and it says everything; no file missed |
| Event spine (`events/spine.py`) | a span stack, `agent_events` | span, llm_call, decision, error | one stack for concurrent agents; cancellation; writes that fail | the stack stays balanced; answers that were used are priced |
| Human queue (`dashboard/app.py`, `open_hitl`, `record_feedback`) | `hitl_items`, `feedback`; the page each operator has open | enqueue, load a page, decide, record feedback | stale pages, concurrent operators, two statements without a transaction, a limited page | one decision per item and its feedback; only more urgent items keep one waiting |
| Migrations (`db/migrate.py`, `migrations/`) | the schema, `schema_migrations` | split, look, execute, record | cutting SQL at the right semicolons; death between statements that commit one by one | a recorded file is applied; a half applied one can be run again |
| Retrieval (`retrieval/`, `db/repositories/chunks.py`, `llm/embeddings.py`) | `code_chunks`, `repositories.indexed_sha` | index, look up, search, interleave | index runs overlap each other and the readers; each step fails soft | no line lost; the index is of the commit it says; only the budget crowds a file out |
| Evaluation (`evaluation/`, the `eval` command, `scripts/rescore.py`) | the golden set, saved reports, the run in progress | run cases, refuse an outage, score, save, compare, rescore | outages that look like results; labels that change; findings merged before they are matched; records that lose detail | every label is counted once; no outage is saved; no regression passes |
| Feedback learning (`feedback/`) | none | | cannot run against the schema | not modelled |

They interact like this: the ingress hands a job to arq, the worker calls
`review_pull_request`, which calls an engine's `run_panel`, which runs four
`SpecialistAgent.run` concurrently over one `BudgetGuard` and one breaker per
provider; the pipeline writes what comes back, calls `aggregate` and `evaluate`
and acts on the answer. What it escalates lands in the human queue of the
dashboard. An eval runs the same engines, `aggregate` and `evaluate` over
labelled cases, without the database. Redis, Postgres, arq, GitHub and the provider are
external and modelled by how the code uses them.

## Modules

| Module | Models | State and actions |
|---|---|---|
| `Findings` | `domain/enums.py`, `domain/models.py` | operators only: severities, categories and families, `overlaps`, `is_security`, verdicts |
| `Aggregator` | `orchestration/aggregator.py` | operators: `Place`/`Clusters` (the greedy `_merge`), `collapse`, `NoisyOr`, `fold`, `collapse_repeated`, `SortFindings`, `overall_confidence`, `aggregate` |
| `Gate` | `gate/confidence.py` | operators: `evaluate` and its rules |
| `Pipeline` | `orchestration/pipeline.py`, `queue/worker.py`, `db/repositories/reviews.py` | below |
| `Ingress` | `ingress/`, `queue/dispatch.py` | `slot[s]` is a request being handled; `Receive`, `Claim`, `Record`, `Enqueue`, and the faults `StepFails`, `Die`, `Flush`, `Expire` |
| `CircuitBreaker` | `reliability/circuit.py` | the four fields of the breaker and, per caller, whether it waits; `Begin`, `Succeed`, `RaiseError`, `Cancel`, `Look`, `Tick` |
| `FanOut` | what `WorkflowEngine.run_panel` promises | abstract: each agent answers once, then the panel returns |
| `Panel` | `agents/base.py`, `llm/client.py`, `reliability/retry.py`, `reliability/budget.py` | per agent where it is in `run`; `Load`, `Begin`, `Again`, `Respond`, `RaiseLLMError`, `GiveUp`, `Record`, `TimeOut`, `Return` |
| `Grounding` | `forge/diff.py`, `agents/base.py` | operators: `parse_patch`, `addressable_lines`, `Gutter`, `Rendered`, `_ground` |
| `GitHubClient` | `forge/github.py`, `reliability/retry.py` | per client the request it awaits; `get_pull_request`, `list_files` (a page), `post_review` (answer heard or lost), `Fails` with each exception, `Push` |
| `EventSpine` | `events/spine.py`, `agents/base.py` | the stack and, per actor, the row it is writing; `Enter`, `_write`, `llm_call`, `error`, `Fail`, `Exit`, `CancelJob` |
| `Chunking` | `retrieval/chunking.py` | operators: `_windows`, `_from_boundaries`, `chunk_file` |
| `SemanticIndex` | `retrieval/context.py`, `retrieval/indexer.py`, `db/repositories/chunks.py` | committed rows, an open transaction per index run, a context per reader; `Begin`, `Delete`, `Insert`, `Label`, `Commit`, `Abort`; `_note_index_drift`, `Embed`, `Search`, `Merge`; the operator `render_repository_context`, what the model reads of it |
| `Matching` | `evaluation/matching.py`, labels of `evaluation/fixtures.py` | operators: `near`, `locates`, `covers`, `traps`, `same_concern`, `classify`, `missed` |
| `Scoring` | `evaluation/metrics.py`, `evaluation/report.py`, `scripts/rescore.py` | operators: `score_case`, `CountMatch`/`CountResult` (the loops of `score`), `calibration`, `ece`, `as_dict`, `recorded` (a finding written and read back), `rescored`, `compare` |
| `Evaluation` | `evaluation/runner.py`, the `eval` command of `cli.py`, `scripts/rescore.py` | the golden set, saved files, the eval in progress; `Eval`, `Acquire`, `Finish`, `Raise`, `Outage`, `Scored`, `Conclude`, `Relabel`, `Rescore` |
| `Migrate` | `db/migrate.py`, the `migrate` command | schema, ledger, the runner and its remaining statements; `Start`, `Look`, `Execute`, `Record`, `Die`; `split_statements` as a fold over the characters |
| `HumanQueue` | `dashboard/app.py`, `open_hitl`, `enqueue_hitl`, `record_feedback` | items, feedback, per operator a page and a request; `EnqueueHitl`, `Home`, `Decide`, `RecordFeedback`, `FeedbackRefused`, `Restart` |
| `Operations` | a deployment | `Migrate` and `HumanQueue` over one schema |
| `PipelineMC`, `AggregatorMC`, `GroundingMC`, `SemanticIndexMC`, `ScoringMC`, `EvaluationMC` | | reports, findings, diffs, source trees and labelled cases for TLC |
| `PipelineProofs`, `IngressProofs`, `ClientProofs`, `PanelProofs`, `RecordProofs`, `SemanticIndexProofs`, `FanInProofs`, `ReviewProofs` | | theorems; `FanInProofs` has the lemmas on the fan-in that `PipelineProofs`, `PanelProofs` and `ReviewProofs` extend |

`Pipeline` EXTENDS `Aggregator` and `Gate`: its decisions are computed by them
from the rows in the database. In it, `at[d]` is the place in
`review_pull_request`/`_run`/`_act` at which the attempt of job `d` stands, and
each await that changes the database or GitHub is one action: `RecordDelivery`,
`Fetch`, `OpenReview`, `Resume`, `AgentReturns`, `FanIn`, `SaveVerdict`,
`Aggregate`, then `ActDryRun`, `ActSuppress`, `PostReview`, `MarkPosted`,
`FinishPosted`, `EnqueueHitl`, `FinishEscalated`. `Crash` (the worker dies; arq
runs the job again) and `Fail` (an exception or `job_timeout`; arq does not) are
possible between any two of them; `PostReviewFails` with or without the review
having reached GitHub, and `BookkeepingFails`, are the except clause of `_act`.
A job is a webhook, a `replay --post` or a `replay`. `upsert_repository` and
`upsert_pull_request` are idempotent upserts on the way to `OpenReview`;
retrieval and the budget's load are reads on the way to `Resume`.

A review row is identified by delivery and head commit, because `pr_id` is a row
of `pull_requests`, which has one per commit.

`Panel` refines `FanOut` (`KeepsPromise`); `Pipeline`'s `AgentReturns` and
`FanIn` are the same promise seen from above.

`GitHubClient` opens up what `Pipeline` calls `Fetch` and `PostReview`: there, a
post is one step that is heard, lost or refused; here it is up to two POSTs, and
`PostsOnce` is why one step is enough. `EventSpine` opens up the rows that
`Panel` only adds up. `SemanticIndex` EXTENDS `Chunking`; it feeds the pipeline
through `build_context`, which cannot fail a review, and shares no state with it.

`Evaluation` EXTENDS `Aggregator`, `Gate` and `Scoring`, which EXTENDS
`Matching`: what an eval measures is computed by the same fan-in and gate as what
the pipeline posts. The cases of a run start in order, `Concurrency` at a time,
and finish in any order. `Operations` EXTENDS `HumanQueue`, which EXTENDS
`Migrate`: a page needs the table of the items, feedback its own table, and both
are created by the first migration, one statement at a time.

In `SemanticIndex` a transaction is what Postgres makes of it at READ COMMITTED:
`Begin` takes the DELETE's snapshot, `Delete` waits for whoever is deleting one
of those rows and then takes those that are left, `Insert` waits for whoever
holds one of its keys, `Label` for the row of the repository. The
`code_chunks` of the model are what is committed.

### Abstractions

* Confidences are integers: a finding's in 1/10000, a review's in 1/1000, rounded
  as the code rounds. The findings used by TLC have confidences for which the
  arithmetic is exact, so no property depends on floating point rounding.
* A title is the set of its content words, with one word for the "(and n more)"
  that a fold adds; a line of a diff is its mark; a request body is malformed, no pull request or one; a
  signature is valid or not. Bodies, wording and logging are left out; a piece of
  evidence is a place and its excerpt.
* Rates are exact fractions; what a report saves is rounded half up, where Python
  rounds halves of floating point numbers to even. The comparison with a
  threshold is exact. Costs are in units of 0.0001 USD, so rounding a case's cost
  loses nothing.
* A finding in the table is the finding with its confidence rounded to three
  digits (`NUMERIC(4, 3)`) and without its further categories, which have no column.
* An eval's panel answers with one of a few verdict sequences per case. `--only`
  and `--budget` select cases and settings; `--repeat 0` is left out (it ends in
  an IndexError); printing without `--save` changes nothing.
* A migration file is a sequence of characters in which a letter stands for a
  word. Postgres is external: a statement cut in two inside a literal or a body
  is an error, and so is the creation of a trigger that exists. A checksum that
  has drifted only logs a warning.
* An item of the human queue carries the priority of its reason; items arrive in
  the order of their numbers. A page is decided item by item, each followed by a
  redirect to a new page.
* The prompt's budget is counted in lines instead of bytes; money is counted in
  small integers; the breaker's clock is the time since it opened.
* A torn line's rest, empty or not, is taken as context, which is what the parser
  does unless the rest itself starts with `+`, `-`, `\` or a header. Context lines
  are not torn: the rest is read alike.
* A path of a diff is a sequence of pieces, dots and slashes among them, so that
  stripping and comparing suffixes is by characters as in the code.
* A source file is its number of lines, the lines on which the regular
  expressions see a definition, and its blank lines; a chunk is a range of lines.
  A commit determines its files. Ranking is external: a search returns any rows
  of unchanged files, in any order.
* A row of the event spine is its kind, its actor, its span and its parent.
* `min` over a Python set with two equally near lines may take either;
  `Nearest` has both.

## Runs

No run takes more than a few minutes. Bounds are chosen so that the
named cases happen; each property has been seen to fail for a plausible bug in
the code it is about (the mutants in `PROJECT.json`).

| Run | What it checks | Bounds and why they are enough |
|---|---|---|
| `pipeline` | what is on GitHub came from a whole panel of ok rows and the gate's word (`PostedFromWholePanel`, `NoDisclosure`); the tables tell the truth (`StatusIsTrue`, `ActsOnStoredFindings`, `DoneIsSettled`); how much a retry can duplicate (`DuplicatesBounded`); stored ok verdicts are final (`OkVerdictsFinal`); every job ends (`EveryJobEnds`) | one delivery of any kind (jobs share no row, so a second adds no behaviour), two agents, five kinds of report (nothing, a doubtful remark, a vulnerability, a critical fault of logic, three critical missing tests, which fold), so that a vulnerability is merged under the fault and folded away with the tests; the code's two attempts, one push: a crash, a failure and a push at every point |
| `scoring` | the fan-in: `NothingBuried`, `NothingInvented`, `RepetitionIsNotAgreement`; its output under labels: `ReportAddsUp`, `ConsolidationKeepsRecall`; a saved run scored again: `RescoreFindsNoMore` | every panel of up to five findings out of a pool of ten by three agents; three to fold, two to merge, and some with so many citations that the cut at six of a merge and the cut at twelve of a fold both bite; two cases of three labels each, so that labels share a place, a citation decides, a citation is lost, a trap and a permitted concern fire |
| `ingress` | `EnqueuedOnce`, `ForgeriesLeaveNoTrace` | two deliveries, three requests of which two at a time, two faults |
| `breaker` | `ClosedCountsTheStreak`, `LegalTransitions`, `Recovers` | three callers so that a late result meets a probe and a waiting call; thresholds of two |
| `panel` | `OverspendIsBounded` (agents that run together exceed the caps by at most the calls in flight beside one another), `KeepsPromise`, the refinement of `FanOut` with its liveness | two panels of two agents, two attempts, caps with room for about one review |
| `grounding` | `NumbersAgree` (parser, gutter and GitHub; what can be cited but was not shown is announced as truncated, or is the empty last line of a hunk), `GroundedIsReal` | two files with three pairs of paths, two of which end alike and two with a dotfile; every pair of patches with four lines in all, empty and torn lines too, line numbers up to three; every claim about them; two hunks and the gap between them fit; the prompt's budget of four lines leaves files out |
| `spine` | `StackBalanced`, `AnswersArePriced` | two agents and the panel: enough for a pop of somebody else's span, with a third entry below; every write may fail, every wait be cancelled |
| `github` | `PostsOnce`, `PostedSaysAll`, `ContextComplete`, `ClientsEnd` | two clients, pages of two, at most four files listed, pull requests of 0, 1, 2, 4 and 5 files: empty, short, exactly full and over the limit; two attempts, one push |
| `index` | `IndexNeverVanishes`, `SwapsAlone`, `EveryLineIndexed`, `ContextIsLabelled`, `EveryFileHeard` | two index runs of two commits beside an earlier index, so that one can wait for the other and commit after it; windows of three lines that overlap by one, files of up to six; one reader with two searched files, two slots and room for three lines, so that two blocks of two do not fit |
| `evaluation` | `FilesHoldMeasurements`, `NoSilentRegression` | three commands: two evals of up to two runs with a rescoring, an edit of the labels or another eval between them; three cases, two at a time; panels that hit, flag a clean line, lose one agent (below a tenth of the calls, so scored) or all four (an outage); two files |
| `operations` | `LedgerIsTrue`, `FeedbackIsEarned`, `MigrationsFinish`, `QueueIsServed` | two files with every kind of quoting and comment around a semicolon and a trigger that is dropped and created; two deaths of the runner, so that one strikes the second attempt too; pages of one and two places where items keep arriving, as urgent as the waiting one or more so; both places are of one review; two operators, one restart, a verdict outside the CHECK |

The type invariants of `Pipeline`, `Ingress`, `CircuitBreaker`
(`BreakerTypeOK`) and `GitHubClient`, and `AcceptedIsEnqueued`, `LedgerIsDurable` and
`HalfOpenCountsProbes`, are proved and not repeated in the runs.

`CHECK_DEADLOCK FALSE` throughout: when all jobs have ended, all requests are
answered or the bound is reached, these systems stop.

### Divergences

This run checks a sentence of the repository's comments, and TLC finds a
behaviour of the code that contradicts it. The finding in `PROJECT.json` quotes
the sentence.

| Run | Property | The behaviour TLC finds |
|---|---|---|
| `pipeline_failures` | `FailuresReachHumans` | a job raises, or its worker dies twice: the review stays `running` and nothing is queued for a human |

The models also show these, which are not kept as runs:

* `ingress/routes.py:86`: "Either one saying "already seen" is enough to stop
  here." `Ingress!DuplicateIsTaken` fails within two requests: the handler dies
  after the claim and before the enqueue, and the redelivery is a "duplicate" of
  a job that does not exist.
* `db/repositories/chunks.py:10`: "Swap in a fresh index for one commit,
  atomically." `SemanticIndex!SwapIsAtomic` fails when one run waits for the
  other's DELETE, skips the rows that are gone and does not see those that came:
  both commits' chunks stay, under one label. `SwapsAlone` is what does hold.
* `retrieval/context.py:111`: pure score order is rejected because "one file's
  neighbourhood monopolises the window"; the round-robin decides who is first, and
  `retrieval_context_chars` (`context.py:79`) who is read. Blocks may be 2400
  characters and a heading long and the budget is 24000, so that of twelve searched
  files the last ones may go unread. `EveryFileHeard` says that nothing else
  leaves a file out: not the second block of another file, and not the number of slots.
* `aggregator.py:192`: "Every folded location travels as evidence, so nothing is
  lost". The list is cut at twelve, and of what had been merged into a folded
  finding neither its other categories nor its evidence travel: a label outside
  the testing family may be found by the panel and missing from the review. A
  merge keeps six citations, and of two with the same first line and excerpt the
  first, so that a label which only a citation reached may be missing as well.
  `ConsolidationKeepsRecall` states that there is no other way to lose one.
* `scripts/rescore.py:10`: "the findings have not changed, only the arithmetic
  over them". A citation is saved by its first line only (`metrics.py:219`), so a
  label that the rest of a longer citation reached is missed when the run is
  rescored, and so is a trap: recall can fall and precision can rise.
  `RescoreFindsNoMore` states that no hit is gained, and that citations of one
  line change nothing.
* `scripts/rescore.py:77`: a recorded run is immutable. `eval --save` writes over
  one without a word, and `eval --save X --baseline X` compares a run with
  itself, since the baseline is read after the report is saved: it always passes.
  `NoSilentRegression` speaks of the baseline as the eval leaves it. Of both files
  only the last runs are compared, whatever the others were, and their labels
  need not be the same.
* `evaluation/runner.py:156`: an outage in a later run keeps the runs before it;
  an exception of a case under `--with-retrieval` leaves `gather` and takes them
  along.
* `evaluation/runner.py:188`: with four agents, a run that `OUTAGE_THRESHOLD`
  refuses would be refused by `DEGRADED_THRESHOLD` as well. `rescore.py` applies
  the first alone, and before it drops the cases the set no longer has.
* `evaluation/metrics.py:342` speaks of unlabelled findings in the bins;
  `_scoreable` has removed them.
* `evaluation/matching.py:118`: a trap is compared with the agent and category
  that won the merge, and an agent's hits with those of the findings it won,
  while misses go to the agent the label names.
* `dashboard/app.py:91`: "Every human decision is feedback." The item is updated
  first: when the INSERT is refused (a verdict outside the CHECK) or the process
  dies in between, the item is closed and there is no feedback.
  `FeedbackIsEarned` states that this is the only way. Two items of one review
  may be decided in opposite senses, and the row names the review only
  (`app.py:94`): which of the two decisions it came from cannot be told from the
  table. The model tells by a key that nothing else looks at.
* `metrics.py:99-100` orders by urgency and then age and cuts the page: an item is
  never seen while enough more urgent ones keep arriving. `QueueIsServed` says that
  nothing else passes it by: equally urgent ones, however many, do not.
* `docs/adr/0001-queue-between-ingress-and-review.md:39` says any one of three
  layers is enough. Post, crash before `finish_review`, retry, and the unique row
  does not stop a second post; after a push there are two rows.
  `DuplicatesBounded` is what does hold.
* `domain/models.py:185`: "True when any contributor called this a security
  concern" does not look at `agreeing`. When a security finding in another
  category is merged under a correctness finding of equal rank, `is_security` is
  false and rule 3 of the gate does not see it: the review is posted, and with it
  the vulnerability. `NoDisclosure` looks at what the specialists said and states
  the two ways in which consolidation hides it, this one and that of a fold
  (`aggregator.py:5`, below); both occur in the run.
* `llm/client.py:56` says the worst case is charged up front; `check` reserves
  nothing, so agents that start together can spend more than the review's cap.
* `docs/ARCHITECTURE.md:164` says grounding keeps GitHub from rejecting comments;
  a range whose end lies between two hunks is grounded and anchored there.
  `PostedSaysAll` covers what happens then.
* `forge/github.py:33` calls `RetryableGitHubError` worth another attempt. It is
  a `GitHubError`, and `give_up_on` is tested before `retry_on`, so no request to
  GitHub is ever retried. `PostsOnce` rests on this: its mutant swaps the two.
* `forge/github.py:129`: after a push between two requests the context has the
  `head_sha` of one version and the files of another.
* `docs/ARCHITECTURE.md:228` says spans nest. Agents that run at the same time
  become each other's parents, and an `llm_call` or `error` row is filed under
  whichever span is on top, one that has ended included.
* `docs/ARCHITECTURE.md:232` says every drop is counted. A write that is
  cancelled by a timeout is not: `CancelledError` is no `Exception`. For the same
  reason a cancelled span ends as ok, and one cancelled while it writes its first
  row leaves its entry on the stack.
* `retrieval/context.py:26`: `index_drift` compares once; an index that is swapped
  before the searches, or mixed, is not noticed.
* `pipeline.py:6` says verdicts are persisted as they land; they are saved after
  the whole panel returned (lines 90-95), so a crash in between runs ok agents
  again. `OkVerdictsFinal` is what does hold.
* `migrations/001_core.sql:66` says only agents without a row run again;
  `completed_agents` also runs those whose row is not ok.
* `pipeline.py:181` says only delivery failed; the clause is also reached when
  `mark_posted` or `finish_review` fails, or the answer is lost, after the post.
* `aggregator.py:58`: a finding that touches two clusters joins the first and
  leaves two comments on one family and line.
* `aggregator.py:5`: `_fold` combines the severity of one finding with the
  confidence of another of the same agent. And a security finding that was
  merged under a missing test loses its category in `_fold` (`enums.py:119`).
* `budget.py:4`: two ceilings "checked before every model call". The check is made
  once for a call and its retries, and it reserves nothing: the agents of a panel
  all pass it before any is charged, so a review can exceed its cap, and the day's,
  by one worst case for each call beside another (`OverspendIsBounded`);
  `client.py:57` says it charges the worst case up front, and nothing is charged
  there. Reviews that start together read the same `day_spent`, and one whose read
  fails counts nothing for the day. The cost of a call that is cancelled is never
  charged.
* `diff.py:4`: a file left out of the prompt for size remains addressable; the
  prompt does say that the diff was truncated.
* `diff.py:29`: `splitlines` breaks lines at form feeds and some Unicode
  characters; the numbers after one are off by one.
* `diff.py:4`, again: a hunk is kept as joined text (`diff.py:62`) and split once
  more for the gutter (`diff.py:104`), which loses an empty line at its end. That
  line, which `parse_patch` counts as context (`diff.py:57`), can be cited and was
  not shown, with `truncated` False. In the patch itself the last line is lost the
  same way.
* `agents/base.py:192`: `lstrip("./")` strips characters and not a prefix. A claim on
  a dotfile is looked up without its dot: it is dropped when two paths of the diff end
  with the rest, and moves to the file of that name when there is one.

## Fairness

* `Pipeline!FairSpec`: the worker keeps taking steps of a job it has
  (`WF(Step)`, `WF(Aggregate)`): an event loop runs what is ready, and every
  await in the pipeline has a timeout of its own or arq's `job_timeout`. Nothing
  is assumed about crashes, failures or pushes. The weak fairness of `Aggregate`
  is written out, since TLC would otherwise evaluate the aggregator to find out
  whether it is enabled.
* `Panel!Spec`: each agent keeps taking steps. No fairness is assumed of the
  provider: a call that never answers ends in `TimeOut` (`asyncio.wait_for`).
* `GitHubClient!Spec`: every request ends, since httpx has a timeout; in an answer
  or an exception, whichever. Nothing is assumed about pushes.
* `EventSpine` and `SemanticIndex` state safety only: waiting transactions are
  Postgres's affair.
* `Operations!OperationsSpec`: statements return; the `migrate` command is repeated while
  something is pending; every operator reloads an empty page and decides what is
  on it. The last two are assumptions on the people who run the system. Nothing
  is assumed about deaths, restarts or which verdict is chosen.
* `Evaluation` states safety only.
* `CircuitBreaker!FairBreakerSpec`: time passes, callers keep calling, and calls end in
  a result infinitely often and not always in a cancellation (`SF(Result)`). The
  last is an assumption on the workload and not something the code enforces.

## Proofs

All theorems hold for every value of the constants that satisfies the named
assumptions. Most of these say that a bound is a natural number or a threshold
positive. The others: agents are a set of `AgentType` and a report is a list
(`PipelineAssumption`); the windows of the chunker are longer than their overlap
(`ChunkingAssumption`); a definition is on a line of its file, and the marks for
"nobody" and "nothing" are not the name of an indexer, a commit or an actor
(`IndexAssumption`, `SpineAssumption`); a finding is what the model's fields
allow, and one that was just parsed has nobody who agrees with it, no further
categories and an end that is not before its start (`PoolAssumption`); the cases
of a golden set have outcomes, which are lists of verdicts
(`EvaluationAssumption`); a line is torn or not, and the two paths of a diff differ (`DiffAssumption`); and
`FilesAssumption`, below. TLC evaluates each of them on the instance of a run.

**`PipelineProofs`.** None of the safety properties is inductive alone, since a
retry starts from rows an earlier attempt left. `IInv` is `TypeOK` and for every
job: `MemoryInv` (the rows an attempt has yet to write, and those it has read as
ok, are where its place in `_run` says), `PlanInv` (from the decision to the end
of the attempt, the plan is the gate's answer on the stored rows, or an
escalation by policy), `LedgerInv` (what each review row, GitHub and the human
queue say of each other, and that a posted review's rows are all ok) and `BoundInv` (posts and queue items are
counted by attempts, with one in hand before `_act` acts). The key step is that
once a review was posted its rows are all ok, hence final, hence every later
attempt reaches the same decision on the same findings. Each action is one step
of `StepJobInv`; `OthersUntouched` shows that an action of one job leaves the
others alone. Of the gate the lemmas `GateNeedsWholePanel`, `GateAnswers` and
`GatePosts` are used. Theorems: `TypeCorrect`, `Invariance`,
`OnlyWholePanelsArePosted`, `NothingDisclosed`, `TablesTellTheTruth`,
`RetriesDuplicateLittle`, `DoneMeansSettled`, `StoredVerdictsAreFinal`.

For most of these the aggregator may be any function of the rows. Two need to
know what the fan-in does. `NothingDisclosed` (`NoDisclosure`) goes from what the
specialists said to the gate's word on the consolidated findings: by `ReviewFacts`
each critical finding has one in the review that is as severe, and if the gate
sees no security in that one, the specialist's finding whose severity and category
it has is critical and none of security (`PostedFindings`, `Covered`).
`StoredFindingsAreCurrent` (`ActsOnStoredFindings`) is the other. `save_findings`
does nothing when there is nothing to save, so findings of an earlier attempt
would stay if a later one aggregated to nothing. `StoredInv` says that stored
findings imply an ok row with findings (`Heard`); ok rows are final
(`StepsKeepOkRows`), so a later aggregate is not empty either and replaces them.
That rests on `PanelFacts`: the fan-in is empty exactly when no ok row says
anything, for which `FanInProofs` follows it stage by stage.

**`IngressProofs`.** `IInv` adds to the properties that the handler before an
enqueue owns its delivery: its row is in the ledger, nobody else is there, and
nothing was enqueued yet (`OwnerIsUnique`). It follows that Postgres alone
carries "at most one job"; Redis and arq may forget at any time. Theorems:
`NoSecondJob`, `NoForgery`, `AcceptedIsTrue`, `LedgerKeeps`.

**`PanelProofs`.** `PanelIsAFanOut`: initial states map to initial states and
every step to a step of `FanOut` or a stutter, with the invariant that an agent
is done exactly when it has a verdict. `CapsHold` (`OverspendIsBounded`): a call
that the check lets through beside `c` others leaves room for its own worst case
and owes theirs; its charge is at most that worst case (`WorstCaseAssumption`; the
code estimates it from the length of the prompt), and one that ends without a
charge only gives room back. `CapsInv` adds that no agent has started while the
day's figure can still be read, and that the calls in flight are at most the most
there ever were.

What an agent may cite is in the same module, for patches of any length.
`parse_patch` is a fold over the lines: after each of them (`ParseChain`) the
lines of every hunk so far are the numbers of its text, and the line reached is the
start of the last hunk and as many more as it has lines of the new file
(`WellParsed`). The gutter numbers the text once it has been joined and split, which
is the text or all of it but an empty last line (`RejoinedFacts`), and so one number
less at most (`GutterFacts`). For a patch without torn lines the same numbers come out of
GitHub's count, which looks back from each line to the header before it
(`HeaderFacts`, `CountsAgree`); that needs the patch to begin with a header, which
is the invariant `DiffInv`. `RenderFacts` says that a file with a patch is in the
prompt or the prompt says it is truncated. Theorems: `LineNumbersAgree`
(`NumbersAgree`) and, with `ResolveFacts` (a claim is about a file of the diff,
and about the one it names) and `GroundFacts`, `GroundingIsReal`
(`GroundedIsReal`).

**`ClientProofs`.** For the breaker, the type invariant and the two counting
invariants are inductive together. Theorems: `BreakerTypeCorrect`,
`ClosedCounts`, `HalfOpenCounts`, `Transitions`.

For the GitHub client, `PostsOnce` alone is not inductive: a client could post
again if it still had a request to make. `OnceInv` adds that a client GitHub has
a review of has ended (`SpokenIsOver`). That a lost answer leads there is the
lemma `LostEnds`, and it is the only place where the order of `give_up_on` and
`retry_on` is used. Theorem: `AtMostOneReview`, with type correctness.
`ReturnedIsPosted` (`PostedSaysAll`) is inductive with the types.
`ContextsAreComplete` (`ContextComplete`): `ContextInv` says of a client that is
listing that it holds exactly the pages before the one it asks for, all of them
full; a page that is not full, or the limit, then ends the list at the last file.

**`RecordProofs`.** Of the event spine: agents pop whatever is on top, so the
stack cannot be related to the spans one by one. `SpineInv` counts instead: the depth is the
number of open spans, or more after a cancellation (`DepthOK`), and an agent's
span is open only while the panel's is, so that a pop of an agent never takes the
last entry and the panel's stays at the bottom. Rows on their way are covered as
well as those in the table (`RowsHang`), and the row an agent awaits while it
records is its own (`RecordsItsCall`), so a write that fails adds one to the
missing rows and one to the drops. Theorems: `SpineIsBalanced` (`StackBalanced`),
`NoCallIsLostSilently` (`AnswersArePriced`).

Of the human queue: `FeedbackIsEarned` alone does not say whose request is
under way. The invariant adds that a request names an item that its operator has
decided, in the sense that is recorded, and that items carry numbers other than
0, the mark of no request. That an item is updated only while it is open, and its
place taken only when no request is about it, then
keeps a row of feedback and the item it belongs to in step, for any number of
items, operators and failures, and beside any migration. Theorem:
`FeedbackEarned`.

Of the migrations, `LedgerHolds` (`LedgerIsTrue`): `LedgerInv` says that a file
under way is not in the ledger, that so many of its statements are behind the
runner and the others before it, and that what one of those behind made for good
is there. How a file is cut into statements is not part of the argument but of `FilesAssumption`: cut by `split_statements`,
each file has for each such object a statement that creates it with none after
it that drops it, and no other file drops it. TLC evaluates that on the files of
the run, quoting and comments included; the theorem then holds wherever the
runner dies.

**`SemanticIndexProofs`.** For the index runs, `WriterInv`: the rows a run has
inserted are its own and nobody has seen them yet (`OwnRows`); runs that found
all their keys taken and wrote nothing leave, together, a row that none of them
deletes (`IdlersLeaveARow`); and a run that is alone deletes the whole index and
writes the whole of its commit (`AloneIsWhole`). Theorems: `IndexStays` (`IndexNeverVanishes`),
`SwapsAreWhole` (`SwapsAlone`). For the readers, `ReaderInv`: what the reader was
told is still so unless the index moved, what it has kept is of that commit, and
no place is kept twice. Theorems: `LabelsAreTrue` (`ContextIsLabelled`) and
`NoFileIsCrowdedOut` (`EveryFileHeard`), where `InterleavedFacts` shows by
counting that the first hits of all files fit in as many slots as there are
files and come before all others, and `RenderFacts` that what the model reads is a
prefix, which one block more would take over the budget. `LinesAreIndexed` (`EveryLineIndexed`) is `SwapsAreWhole` with the lemma
`FileCovered`: the window a line belongs to is the last one that begins at or
before it, which overlaps the next, since a step is at most a window.

**`FanInProofs`.** Lemmas only. A fold of the community modules is a function of
sets of positions; `FoldExists` shows that there is one, `FoldChain` reads it as
one value per position, and `StaysFrom` carries a fact along to the last. With
them each stage of the fan-in is described: which findings are in a cluster
(`ClustersFacts`), that a collapsed cluster spans its members and is as bad as
each, and who agrees with it (`CollapseFacts`, with `NoisyOrFacts` on the confidence of several agents),
that a fold cites the places of the others while there is room and rewrites one
title (`FoldFacts`, `RepeatedFacts`), that sorting is a permutation (`PlacesOfOrder`, `SortFacts`).
"As bad" (`AsBad`) is more severe, or as severe and as confident up to the cap on
agreement; it passes on from stage to stage (`AsBadPasses`). `ReviewFacts` puts
the stages together.

**`ReviewProofs`.** For any pool of findings and any number of reports:

* `NothingIsInvented` (`NothingInvented`).
* `NothingIsBuried` (`NothingBuried`): every finding has one in the review that is
  as bad, and that is on its lines, cites them or is a fold with its twelve pieces
  of evidence. `NothingIsLost` is without that exception, for up to seven findings,
  each with so few citations that with one for each other finding there are at
  most twelve. The limit is the code's: `_fold` cuts the evidence there.
* `RescoringIsHonest` (`RescoreFindsNoMore`). A recorded citation is one line,
  the first of the one that was measured; what is near to that line is near to the
  whole (`RecordedLocates`), so a record satisfies no other labels
  (`RecordedLabels`). Where a citation is one line the two are near to the same
  lines, and the record is judged alike (`RecordedCountsTheSame`). The lemmas say it
  of any case, the theorem of the two of the run.

And for any golden sets, outcomes, concurrency and number of commands,
`NoOutageIsSaved` (`FilesHoldMeasurements`). `EvalInv` follows a measurement to
the file: the result of each case says which agents failed, a report is kept only
if at most a tenth of the calls did, and a file holds what the reports hold. The
refusal adds up the failed calls over the results and the property over the saved
cases; the two sums are equal position by position (`LostChain`, `SameLoss`).

Two things that are often out of reach are used here. `LeastNat` (a set of
naturals has a least member, from the well-foundedness of `<`) gives induction
for sets of numbers; the induction theorems that take a predicate cannot be
instantiated. And in modules with theorems, recursion is only through folds.

**Only model-checked:** the liveness properties (`EveryJobEnds`, `Recovers`,
`ClientsEnd`, `MigrationsFinish`, `QueueIsServed`, the fairness part of
`KeepsPromise`), since neither fairness nor ENABLED can be used in a proof, and

* `RepetitionIsNotAgreement`: the products are rounded down at each factor, so
  the bound depends on the order in which a set of agents is folded; it is exact
  for the confidences of the run, and in general only up to that rounding.
* `ReportAddsUp`: nine sums over the same matches, by finding, label, agent and
  bin; each equation would need an induction of its own over sizes of sets.
* `ConsolidationKeepsRecall`: it needs to know which finding of the panel each
  citation of the review comes from, and by which of the cuts the others went;
  `ReviewFacts` keeps places, not citations.
* `NoSilentRegression`: it is about the fractions that `compare` rounds and
  subtracts, and rounding with division is out of the solver's reach. It does not
  say that the last run is a fair one to compare, nor that the labels were the same.

## Not modelled, and why

* The Temporal engine is a skeleton that cannot be imported.
* Embeddings, full text ranking and the texts of queries; walking the checkout;
  conventions, which are read and fail soft. The `index` command records whatever
  commit it is told, by default the word HEAD: the model's commits determine
  their files.
* Feedback learning: `extract_preferences` joins on a column that `reviews` does
  not have, and `build_convention_context` and `decay_old_feedback` are called by
  nothing.
* The text of an eval's report (`render`, `stability`, `unlabelled_union`), the
  scripts that build fixtures and measure retrieval, and how `_retrieve_for`
  indexes a case: `SemanticIndex` is about the index itself. The other pages of
  the dashboard and the commands `doctor`, `trace`, `costs` and `queue` only read.
* Two migration runners at once: nothing in `apply_migrations` excludes them, and
  the second loses the race for the ledger's primary key; the model has one
  runner, which the deployment starts.
* Prompts, prices, JSON schema coercion and rendering are data.
* Replication, connection pools and the settings loader.

## Plan

Done: the core (`Pipeline` over `Aggregator` and `Gate`), `Ingress`,
`CircuitBreaker`, `Panel` over `FanOut`, `Grounding`, `GitHubClient`,
`EventSpine`, `SemanticIndex` over `Chunking`, `Evaluation` over `Scoring` and
`Matching`, `Operations` over `Migrate` and `HumanQueue`. Next, in this order:

1. Proofs: the equations of `ReportAddsUp`, one at a time, along the fold of
   `Counts`; `ConsolidationKeepsRecall`, following citations through the fan-in.
2. `ReviewLedger`, an abstract specification of a review's life (open, decided,
   posted or queued), refined by `Pipeline`; the refinement proved.
3. `System`, composing `Ingress` and `Pipeline` through arq, to state end to end
   what a redelivered webhook can and cannot cause.
