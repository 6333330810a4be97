------------------------------ MODULE Ingress -------------------------------
(***************************************************************************)
(* Webhook ingress (ingress/routes.py, ingress/security.py) and the Redis  *)
(* side of it (queue/dispatch.py): screening, the layers of idempotency    *)
(* and the enqueue.                                                        *)
(*                                                                         *)
(* Handlers of concurrent requests interleave at every await.  GitHub may  *)
(* send a delivery again at any time; the process may die, Redis and       *)
(* Postgres may fail, and Redis forgets: keys expire, and a flush takes    *)
(* the dedupe keys and the queue with it.                                  *)
(***************************************************************************)
EXTENDS Naturals, FiniteSets

CONSTANTS Deliveries,  \* values of X-GitHub-Delivery
          Slots,       \* requests that can be in progress at once
          MaxSends,    \* bound: requests that arrive
          MaxFaults    \* bound: crashes, failed statements, flushes, expiries

ASSUME IngressAssumption == MaxSends \in Nat /\ MaxFaults \in Nat

VARIABLES
    slot,      \* slot[s]: the handler running in a slot
    genuine,   \* deliveries GitHub really signed and sent for review
    seen,      \* Redis: sentinel:delivery:<id>
    ledger,    \* Postgres: table deliveries
    job,       \* arq: job[d], by _job_id review:<id>
    enqueued,  \* history: jobs arq accepted for a delivery
    answers,   \* answers[d]: what the handlers answered for a delivery
    sends,     \* requests so far
    faults     \* faults so far

vars == <<slot, genuine, seen, ledger, job, enqueued, answers, sends, faults>>

-----------------------------------------------------------------------------
(* Screening: everything the handler decides before its first await on Redis *)

REVIEWABLE_ACTIONS == {"opened", "synchronize", "reopened", "ready_for_review"}

Actions == {"opened", "ready_for_review", "labeled"}

Requests ==
    [delivery : Deliveries \cup {"missing"}, signed : BOOLEAN,
     event : {"ping", "pull_request", "star"},
     body : {"malformed", "not_a_pull_request", "pull_request"},
     action : Actions, draft : BOOLEAN]

\* Mutant: the signature is not checked.
ScreenUnsigned(r) ==
    IF r.delivery # "missing" /\ r.body = "pull_request" THEN "pass" ELSE "400"

\* github_webhook up to the dedupe: the status it answers, or "pass".  A body
\* that is no JSON object is answered before its action is looked at; the rest
\* of the payload (_build_job) only after.
Screen(r) ==
    IF ~r.signed                                 THEN "401"
    ELSE IF r.delivery = "missing"               THEN "400"
    ELSE IF r.event = "ping"                     THEN "200"
    ELSE IF r.event # "pull_request"             THEN "202 ignored"
    ELSE IF r.body = "malformed"                 THEN "400"
    ELSE IF r.action \notin REVIEWABLE_ACTIONS   THEN "202 ignored"
    ELSE IF r.body # "pull_request"              THEN "400"
    ELSE IF r.draft /\ r.action # "ready_for_review"
                                                 THEN "202 ignored"
    ELSE "pass"

-----------------------------------------------------------------------------

Free == [at |-> "free"]

Handling(d, step) == [at |-> step, delivery |-> d]

Answer(s, d, a) ==
    /\ answers' = [answers EXCEPT ![d] = @ \cup {a}]
    /\ slot' = [slot EXCEPT ![s] = Free]

Init ==
    /\ slot = [s \in Slots |-> Free]
    /\ genuine = {}
    /\ seen = {}
    /\ ledger = {}
    /\ job = [d \in Deliveries |-> "absent"]
    /\ enqueued = [d \in Deliveries |-> 0]
    /\ answers = [d \in Deliveries |-> {}]
    /\ sends = 0
    /\ faults = 0

\* A request arrives and is screened; the handler holds the job it built.
Receive(s, r) ==
    /\ slot[s] = Free
    /\ sends < MaxSends
    /\ sends' = sends + 1
    /\ genuine' = IF r.signed THEN genuine \cup ({r.delivery} \cap Deliveries)
                              ELSE genuine
    /\ slot' = [slot EXCEPT ![s] =
                   IF Screen(r) = "pass" THEN Handling(r.delivery, "claim") ELSE Free]
    /\ answers' = IF r.delivery \in Deliveries /\ Screen(r) # "pass"
                  THEN [answers EXCEPT ![r.delivery] = @ \cup {Screen(r)}]
                  ELSE answers
    /\ UNCHANGED <<seen, ledger, job, enqueued, faults>>

\* seen_delivery: SET NX claims the key.
Claim(s) ==
    /\ slot[s].at = "claim"
    /\ LET d == slot[s].delivery
       IN IF d \in seen
          THEN Answer(s, d, "duplicate") /\ UNCHANGED seen
          ELSE /\ seen' = seen \cup {d}
               /\ slot' = [slot EXCEPT ![s] = Handling(d, "record")]
               /\ UNCHANGED answers
    /\ UNCHANGED <<genuine, ledger, job, enqueued, sends, faults>>

\* Mutant: the result of the INSERT is not looked at.
RecordBlindly(s) ==
    /\ slot[s].at = "record"
    /\ ledger' = ledger \cup {slot[s].delivery}
    /\ slot' = [slot EXCEPT ![s] = Handling(slot[s].delivery, "enqueue")]
    /\ UNCHANGED <<genuine, seen, job, enqueued, answers, sends, faults>>

\* record_delivery: ON CONFLICT DO NOTHING tells whether the row was there.
Record(s) ==
    /\ slot[s].at = "record"
    /\ LET d == slot[s].delivery
       IN IF d \in ledger
          THEN Answer(s, d, "duplicate") /\ UNCHANGED ledger
          ELSE /\ ledger' = ledger \cup {d}
               /\ slot' = [slot EXCEPT ![s] = Handling(d, "enqueue")]
               /\ UNCHANGED answers
    /\ UNCHANGED <<genuine, seen, job, enqueued, sends, faults>>

\* enqueue_review: arq drops a job whose id it still knows, and the handler
\* answers "accepted" either way.
Enqueue(s) ==
    /\ slot[s].at = "enqueue"
    /\ LET d == slot[s].delivery
       IN /\ IF job[d] = "absent"
             THEN /\ job' = [job EXCEPT ![d] = "queued"]
                  /\ enqueued' = [enqueued EXCEPT ![d] = @ + 1]
             ELSE UNCHANGED <<job, enqueued>>
          /\ Answer(s, d, "accepted")
    /\ UNCHANGED <<genuine, seen, ledger, sends, faults>>

-----------------------------------------------------------------------------
(* Faults and forgetting *)

Fault == faults < MaxFaults /\ faults' = faults + 1

\* An await raises: FastAPI answers 500.  The statement may have taken effect
\* (the connection was lost after it) or not.
StepFails(s, took) ==
    /\ Fault
    /\ slot[s].at # "free"
    /\ LET d == slot[s].delivery
           step == slot[s].at
       IN /\ seen' = IF took /\ step = "claim" THEN seen \cup {d} ELSE seen
          /\ ledger' = IF took /\ step = "record" THEN ledger \cup {d} ELSE ledger
          /\ IF took /\ step = "enqueue" /\ job[d] = "absent"
             THEN /\ job' = [job EXCEPT ![d] = "queued"]
                  /\ enqueued' = [enqueued EXCEPT ![d] = @ + 1]
             ELSE UNCHANGED <<job, enqueued>>
          /\ Answer(s, d, "500")
    /\ UNCHANGED <<genuine, sends>>

\* The ingress process dies with every request it was handling.
Die ==
    /\ Fault
    /\ \E s \in Slots : slot[s] # Free
    /\ slot' = [s \in Slots |-> Free]
    /\ UNCHANGED <<genuine, seen, ledger, job, enqueued, answers, sends>>

\* Redis loses its data, the queue included.
Flush ==
    /\ Fault
    /\ seen' = {}
    /\ job' = [d \in Deliveries |-> "absent"]
    /\ UNCHANGED <<slot, genuine, ledger, enqueued, answers, sends>>

\* DEDUPE_TTL_SECONDS pass for one key.
Expire(d) ==
    /\ Fault
    /\ d \in seen
    /\ seen' = seen \ {d}
    /\ UNCHANGED <<slot, genuine, ledger, job, enqueued, answers, sends>>

\* A worker finishes the job; arq keeps its result, and the id, for an hour.
Finish(d) ==
    /\ job[d] = "queued"
    /\ job' = [job EXCEPT ![d] = "kept"]
    /\ UNCHANGED <<slot, genuine, seen, ledger, enqueued, answers, sends, faults>>

ForgetResult(d) ==
    /\ job[d] = "kept"
    /\ job' = [job EXCEPT ![d] = "absent"]
    /\ UNCHANGED <<slot, genuine, seen, ledger, enqueued, answers, sends, faults>>

Handle(s) == Claim(s) \/ Record(s) \/ Enqueue(s)

Next ==
    \/ \E s \in Slots : \/ \E r \in Requests : Receive(s, r)
                        \/ Handle(s)
                        \/ \E took \in BOOLEAN : StepFails(s, took)
    \/ \E d \in Deliveries : Expire(d) \/ Finish(d) \/ ForgetResult(d)
    \/ Die \/ Flush

Spec == Init /\ [][Next]_vars

-----------------------------------------------------------------------------
(* Properties *)

Statuses == {"401", "400", "200", "202 ignored", "500", "accepted", "duplicate"}

\* The type of every variable.
TypeOK ==
    /\ slot \in [Slots -> {Free} \cup
                          [at : {"claim", "record", "enqueue"}, delivery : Deliveries]]
    /\ genuine \subseteq Deliveries
    /\ seen \subseteq Deliveries
    /\ ledger \subseteq Deliveries
    /\ job \in [Deliveries -> {"absent", "queued", "kept"}]
    /\ enqueued \in [Deliveries -> Nat]
    /\ answers \in [Deliveries -> SUBSET Statuses]
    /\ sends \in Nat
    /\ faults \in Nat

\* INVARIANT-2: however often a delivery is sent again, however requests race
\* and whatever Redis forgets, at most one job is ever enqueued for it.
EnqueuedOnce == \A d \in Deliveries : enqueued[d] <= 1

\* INVARIANT-1: a delivery nobody signed leaves no trace, neither in Redis nor
\* in Postgres nor in the queue.
ForgeriesLeaveNoTrace ==
    /\ seen \cup ledger \subseteq genuine
    /\ \A d \in Deliveries : enqueued[d] > 0 => d \in genuine

\* "accepted" is true: whoever was told so has a job in arq, now or earlier.
AcceptedIsEnqueued ==
    \A d \in Deliveries : "accepted" \in answers[d] => enqueued[d] = 1

\* The ledger survives Redis: once a job was enqueued its delivery is recorded
\* for good, so a flush or an expired key cannot let it in again.
LedgerIsDurable ==
    [][/\ ledger \subseteq ledger'
       /\ \A d \in Deliveries : enqueued'[d] > 0 => d \in ledger']_vars

\* What the documentation says, and the code does not do; no run checks it, the
\* README says how it fails.
\* routes.py: "Either one saying "already seen" is enough to stop here": a
\* request answered "duplicate" repeats one that was enqueued or still is on
\* its way to be.
DuplicateIsTaken ==
    \A d \in Deliveries : "duplicate" \in answers[d] =>
        \/ enqueued[d] > 0
        \/ \E s \in Slots : slot[s] \in {Handling(d, "record"), Handling(d, "enqueue")}

=============================================================================
