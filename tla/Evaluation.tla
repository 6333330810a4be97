----------------------------- MODULE Evaluation -----------------------------
(***************************************************************************)
(* Evaluating the reviewer (evaluation/runner.py, the eval command of      *)
(* cli.py, scripts/rescore.py): an eval runs the panel over the golden set *)
(* a number of times, a few cases at once, saves its last report and       *)
(* compares it with a baseline; a saved run can be scored again later,     *)
(* under labels that have changed since.                                   *)
(*                                                                         *)
(* What a panel answers for a case is one of Outcomes[id], a sequence of   *)
(* verdicts; the fan-in, the gate, the matcher and the scores are the real *)
(* ones.  Retrieval counts only for how it fails.                          *)
(***************************************************************************)
EXTENDS Aggregator, Gate, Scoring

CONSTANTS Sets,          \* versions of the golden set: sequences of cases
          Outcomes,      \* Outcomes[id]: the panels a case may get
          Paths,         \* files that reports are saved to
          Concurrency,   \* --concurrency
          Retrieval,     \* --with-retrieval
          MaxRepeat,     \* bound: --repeat
          MaxCommands    \* bound: commands and edits of the golden set

\* AgentVerdict: what a run of the evaluation reads of it.
Verdict == [agent : AgentType, status : VerdictStatus, findings : Seq(FindingType),
            cost_usd : Nat]

ASSUME EvaluationAssumption ==
    /\ Concurrency \in Nat \ {0}
    /\ Retrieval \in BOOLEAN
    /\ MaxRepeat \in Nat \ {0}
    /\ MaxCommands \in Nat
    /\ \A set \in Sets :
          /\ set \in Seq({set[i] : i \in DOMAIN set})
          /\ \A i \in DOMAIN set : set[i].id \in DOMAIN Outcomes
    /\ \A id \in DOMAIN Outcomes : Outcomes[id] \subseteq Seq(Verdict)

NoPath == "none"

NoFile == [rescored |-> FALSE, runs |-> <<>>]

VARIABLES golden,   \* the golden set on disk
          files,    \* files[p]: the report saved there, or NoFile
          cmd,      \* the eval in progress
          exit,     \* how the last eval ended
          used      \* commands used

vars == <<golden, files, cmd, exit, used>>

Idle == [phase |-> "idle"]

Init ==
    /\ golden \in Sets
    /\ files = [p \in Paths |-> NoFile]
    /\ cmd = Idle
    /\ exit = "none"
    /\ used = 0

Counted == used < MaxCommands /\ used' = used + 1

-----------------------------------------------------------------------------
(* eval *)

\* The cases of one run: all of them wait for the semaphore, in order.
StartRun(c) == [c EXCEPT !.waiting = [i \in DOMAIN c.cases |-> i],
                         !.busy = {}, !.results = <<>>]

\* eval --repeat --save --baseline: load_cases, first run.
Eval(repeat, save, baseline) ==
    /\ cmd = Idle /\ Counted
    /\ cmd' = StartRun([phase |-> "running", cases |-> golden, repeat |-> repeat,
                        save |-> save, baseline |-> baseline,
                        waiting |-> <<>>, busy |-> {}, results |-> <<>>, reports |-> <<>>])
    /\ exit' = "none"
    /\ UNCHANGED <<golden, files>>

\* async with semaphore: the case that has waited longest goes first.
Acquire ==
    /\ cmd.phase = "running"
    /\ cmd.waiting # <<>> /\ Cardinality(cmd.busy) < Concurrency
    /\ cmd' = [cmd EXCEPT !.waiting = Tail(@), !.busy = @ \cup {Head(cmd.waiting)}]
    /\ UNCHANGED <<golden, files, exit, used>>

\* run_case: panel, fan-in, gate, score.
run_case(case, verdicts) ==
    LET a == aggregate(verdicts)
        g == evaluate(a.findings, verdicts, a.confidence, FALSE)
        failed == {i \in DOMAIN verdicts : ~ok(verdicts[i])}
    IN score_case(case, a.findings,
                  [decision |-> g.decision, confidence |-> a.confidence,
                   cost_usd |-> Sum(LAMBDA v : v.cost_usd, verdicts),
                   failed_agents |-> {verdicts[i].agent : i \in failed}])

\* A case has its panel; gather keeps the order of the cases.
Finish(i, verdicts) ==
    /\ cmd.phase = "running" /\ i \in cmd.busy
    /\ cmd' = [cmd EXCEPT !.busy = @ \ {i},
                          !.results = [j \in DOMAIN @ \cup {i} |->
                             IF j = i THEN run_case(cmd.cases[i], verdicts) ELSE @[j]]]
    /\ UNCHANGED <<golden, files, exit, used>>

\* The index or the database fails under --with-retrieval: gather passes the
\* exception on, and the command ends with everything it had.
Raise(i) ==
    /\ cmd.phase = "running" /\ i \in cmd.busy /\ Retrieval
    /\ cmd' = Idle /\ exit' = "error"
    /\ UNCHANGED <<golden, files, used>>

FailedCalls(results) == Sum(LAMBDA r : Cardinality(r.run.failed_agents), results)

DeadCases(results) ==
    Len(SelectSeq(results, LAMBDA r : Cardinality(r.run.failed_agents) = AgentCount))

\* Mutant: only cases that lost their whole panel count.
RefuseDead(results) == 4 * DeadCases(results) > Len(results)

\* _refuse_if_everything_failed: more than a quarter of the cases without a
\* panel, or more than a tenth of the agent calls lost.
refuse_if_everything_failed(results) ==
    \/ 4 * DeadCases(results) > Len(results)
    \/ 10 * FailedCalls(results) > Len(results) * AgentCount

Gathered == /\ cmd.phase = "running"
            /\ DOMAIN cmd.results = DOMAIN cmd.cases

\* A run that is an outage: nothing is scored or saved if it is the first one,
\* otherwise it is dropped and the runs before it are reported.
Outage ==
    /\ Gathered /\ refuse_if_everything_failed(cmd.results)
    /\ IF cmd.reports = <<>> THEN cmd' = Idle /\ exit' = "error"
                             ELSE cmd' = [cmd EXCEPT !.phase = "reporting"] /\ UNCHANGED exit
    /\ UNCHANGED <<golden, files, used>>

\* A run that measured something is scored; the next one starts.
Scored ==
    /\ Gathered /\ ~refuse_if_everything_failed(cmd.results)
    /\ LET reports == Append(cmd.reports, score(cmd.results))
           next    == [cmd EXCEPT !.reports = reports]
       IN cmd' = IF Len(reports) < cmd.repeat THEN StartRun(next)
                 ELSE [next EXCEPT !.phase = "reporting"]
    /\ UNCHANGED <<golden, files, exit, used>>

\* A saved report: its runs, of which the last is also its summary, and whether
\* it was measured or derived from another one (rescored_from).
Saved(reports, derived) ==
    [rescored |-> derived, runs |-> [i \in DOMAIN reports |-> as_dict(reports[i])]]

\* The report is saved, and then the last run is compared with the baseline,
\* which is read only now.
Conclude ==
    /\ cmd.phase = "reporting"
    /\ files' = IF cmd.save = NoPath THEN files
                ELSE [files EXCEPT ![cmd.save] = Saved(cmd.reports, FALSE)]
    /\ exit' = IF cmd.baseline = NoPath THEN "ok"
               ELSE IF files'[cmd.baseline] = NoFile THEN "error"
               ELSE IF compare(Last(cmd.reports), Last(files'[cmd.baseline].runs))
                 THEN "regression" ELSE "ok"
    /\ cmd' = Idle
    /\ UNCHANGED <<golden, used>>

-----------------------------------------------------------------------------
(* rescore, and the labels it is for *)

\* The golden set is edited.
Relabel(set) ==
    /\ Counted
    /\ set # golden /\ golden' = set
    /\ UNCHANGED <<files, cmd, exit>>

\* rescore source --save target: never over the recorded run, without the runs
\* that were outages, and nothing at all if none is left.
Rescore(source, target) ==
    LET sound == SelectSeq(files[source].runs, LAMBDA run : ~rescore_skips(run))
        ById  == [id \in {golden[i].id : i \in DOMAIN golden} |->
                    golden[CHOOSE i \in DOMAIN golden : golden[i].id = id]]
    IN /\ files[source] # NoFile /\ source # target /\ Counted
       /\ sound # <<>>
       /\ files' = [files EXCEPT ![target] =
                      Saved([i \in DOMAIN sound |-> rescored(sound[i], ById)], TRUE)]
       /\ UNCHANGED <<golden, cmd, exit>>

-----------------------------------------------------------------------------

Busy == IF cmd.phase = "running" THEN cmd.busy ELSE {}

CaseEnds(i) == \/ \E v \in Outcomes[cmd.cases[i].id] : Finish(i, v)
               \/ Raise(i)

Next ==
    \/ \E r \in 1..MaxRepeat, s, b \in Paths \cup {NoPath} : Eval(r, s, b)
    \/ Acquire
    \/ \E i \in Busy : CaseEnds(i)
    \/ Outage
    \/ Scored
    \/ Conclude
    \/ \E set \in Sets : Relabel(set)
    \/ \E p, q \in Paths : Rescore(p, q)

Spec == Init /\ [][Next]_vars

-----------------------------------------------------------------------------
(* Properties *)

\* A report that an eval recorded holds measurements only: in every run of it at
\* most a tenth of the agent calls failed, so no outage, total or partial, passes
\* for a result or replaces one (_refuse_if_everything_failed).
FilesHoldMeasurements ==
    \A p \in Paths : ~files[p].rescored =>
        \A k \in DOMAIN files[p].runs :
              LET cases == files[p].runs[k].per_case
                  lost  == Sum(LAMBDA c : Cardinality(c.run.failed_agents), cases)
              IN 10 * lost <= AgentCount * Len(cases)

\* By how much each of the five figures that compare looks at is worse now than it
\* was, in ten-thousandths, as the two saved runs have them.
Losses(now, was) ==
    {10 * (was.precision_strict - now.precision_strict), 10 * (was.recall - now.recall),
     10 * (was.f1 - now.f1), 10 * (now.ece - was.ece), now.per_case_usd - was.per_case_usd}

\* What the exit code of an eval with a baseline says of two saved runs: its last
\* one that was no outage and the last one of the baseline file as the eval leaves
\* it.  If it passes, no figure is worse by more than 0.02; if it says REGRESSION,
\* one is worse by 0.02 at least; it is an error exactly if there is no baseline.
\* A baseline that the same eval saves to is its own report by then: such an eval
\* always passes, and what the file had before is compared with nothing.
NoSilentRegression ==
    [][(cmd.phase = "reporting" /\ cmd'.phase = "idle" /\ cmd.baseline # NoPath)
          => LET found == files'[cmd.baseline]
                 own   == Last(Saved(cmd.reports, FALSE).runs)
             IN /\ exit' = "error" <=> found = NoFile
                /\ exit' = "ok" => \A loss \in Losses(own, Last(found.runs)) : loss <= 200
                /\ exit' = "regression" =>
                       /\ \E loss \in Losses(own, Last(found.runs)) : loss >= 200
                       /\ cmd.baseline # cmd.save /\ found = files[cmd.baseline]]_vars

=============================================================================
