---------------------------- MODULE IngressProofs ----------------------------
(***************************************************************************)
(* At most one job per delivery, for any number of deliveries, concurrent  *)
(* requests and faults.  The heart of the argument is the ledger: the row  *)
(* is inserted once, so at most one handler ever stands before the enqueue *)
(* of a delivery, and it stands there before anything was enqueued.        *)
(***************************************************************************)
EXTENDS Ingress, TLAPS

\* A handler before the enqueue owns the delivery: its row is in the ledger,
\* no other handler is there, and no job was enqueued yet.
OwnerIsUnique ==
    /\ \A s \in Slots : slot[s].at = "enqueue" =>
          /\ slot[s].delivery \in ledger
          /\ enqueued[slot[s].delivery] = 0
    /\ \A s, t \in Slots :
          /\ slot[s].at = "enqueue" /\ slot[t].at = "enqueue"
          /\ slot[s].delivery = slot[t].delivery
          => s = t

\* Jobs come from the ledger, and arq knows only jobs that were enqueued.
JobsAreRecorded ==
    \A d \in Deliveries : /\ enqueued[d] > 0 => d \in ledger
                          /\ job[d] # "absent" => enqueued[d] > 0

\* Only signed deliveries get as far as a handler's first await.
HandlersAreGenuine ==
    \A s \in Slots : slot[s].at # "free" => slot[s].delivery \in genuine

IInv ==
    /\ TypeOK
    /\ OwnerIsUnique
    /\ JobsAreRecorded
    /\ HandlersAreGenuine
    /\ EnqueuedOnce
    /\ ForgeriesLeaveNoTrace
    /\ AcceptedIsEnqueued

\* Nothing is in progress and nothing is stored at the start.
LEMMA InitIInv == Init => IInv
BY IngressAssumption
   DEF Init, IInv, TypeOK, OwnerIsUnique, JobsAreRecorded, HandlersAreGenuine,
       EnqueuedOnce, ForgeriesLeaveNoTrace, AcceptedIsEnqueued, Free

\* A handler past the screening holds a delivery.
LEMMA HandlerHasDelivery ==
    ASSUME TypeOK, NEW s \in Slots, slot[s].at # "free"
    PROVE  slot[s].delivery \in Deliveries
BY DEF TypeOK, Free

\* Screening passes only signed requests that carry a delivery id.
LEMMA ScreenPasses ==
    ASSUME NEW r \in Requests, Screen(r) = "pass"
    PROVE  r.signed /\ r.delivery \in Deliveries
BY DEF Screen, Requests

\* A handler that ends without enqueueing takes nothing away: a refused, failed
\* or duplicate request keeps the inductive invariant.
LEMMA ReleaseKeepsIInv ==
    ASSUME IInv, NEW s \in Slots,
           slot' = [slot EXCEPT ![s] = Free],
           answers' \in [Deliveries -> SUBSET Statuses],
           \A d \in Deliveries : "accepted" \in answers'[d] => "accepted" \in answers[d],
           genuine \subseteq genuine', genuine' \subseteq Deliveries,
           ledger \subseteq ledger', seen' \cup ledger' \subseteq genuine',
           job' = job, enqueued' = enqueued, sends' \in Nat, faults' \in Nat
    PROVE  IInv'
<1> USE DEF IInv
<1>1. TypeOK'
  BY DEF TypeOK, ForgeriesLeaveNoTrace
<1>2. OwnerIsUnique'
  BY DEF TypeOK, OwnerIsUnique, Free
<1>3. JobsAreRecorded' /\ EnqueuedOnce' /\ ForgeriesLeaveNoTrace' /\ AcceptedIsEnqueued'
  BY DEF JobsAreRecorded, EnqueuedOnce, ForgeriesLeaveNoTrace, AcceptedIsEnqueued
<1>4. HandlersAreGenuine'
  BY DEF TypeOK, HandlersAreGenuine, Free
<1> QED BY <1>1, <1>2, <1>3, <1>4

\* Enqueueing, answered or not, uses up the owner's right to it.
LEMMA EnqueueKeepsIInv ==
    ASSUME IInv, NEW s \in Slots, slot[s].at = "enqueue",
           NEW a \in Statuses,
           job' = [job EXCEPT ![slot[s].delivery] = "queued"],
           enqueued' = [enqueued EXCEPT ![slot[s].delivery] = @ + 1],
           Answer(s, slot[s].delivery, a),
           UNCHANGED <<genuine, seen, ledger, sends>>, faults' \in Nat
    PROVE  IInv'
<1> USE DEF IInv
<1> DEFINE d == slot[s].delivery
<1>0. d \in Deliveries /\ d \in ledger /\ enqueued[d] = 0 /\ d \in genuine
  BY HandlerHasDelivery DEF OwnerIsUnique, HandlersAreGenuine
<1>1. /\ slot' = [slot EXCEPT ![s] = Free]
      /\ answers' = [answers EXCEPT ![d] = @ \cup {a}]
      /\ enqueued' = [enqueued EXCEPT ![d] = 1]
  BY <1>0 DEF Answer, TypeOK
<1> HIDE DEF d
<1>2. TypeOK'
  BY <1>0, <1>1 DEF TypeOK, d
<1>3. OwnerIsUnique'
  <2>1. \A t \in Slots : slot'[t].at = "enqueue" => t # s /\ slot'[t] = slot[t]
    BY <1>1 DEF TypeOK, Free
  <2>2. \A t \in Slots : slot'[t].at = "enqueue" => slot[t].delivery # d
    BY <2>1 DEF OwnerIsUnique, d
  <2>3. \A t \in Slots : slot[t].at = "enqueue" => slot[t].delivery \in Deliveries
    BY HandlerHasDelivery
  <2> QED BY <1>1, <2>1, <2>2, <2>3 DEF OwnerIsUnique, TypeOK
<1>4. JobsAreRecorded' /\ EnqueuedOnce' /\ ForgeriesLeaveNoTrace' /\ AcceptedIsEnqueued'
  BY <1>0, <1>1 DEF TypeOK, JobsAreRecorded, EnqueuedOnce, ForgeriesLeaveNoTrace,
                    AcceptedIsEnqueued, d
<1>5. HandlersAreGenuine'
  BY <1>1 DEF TypeOK, HandlersAreGenuine, Free
<1> QED BY <1>2, <1>3, <1>4, <1>5

\* Every await of a handler, every fault and everything Redis forgets keeps the
\* inductive invariant.
LEMMA StepIInv == IInv /\ [Next]_vars => IInv'
<1> SUFFICES ASSUME IInv, [Next]_vars PROVE IInv'
  OBVIOUS
<1>0. TypeOK /\ OwnerIsUnique /\ JobsAreRecorded /\ HandlersAreGenuine
      /\ EnqueuedOnce /\ ForgeriesLeaveNoTrace /\ AcceptedIsEnqueued
  BY DEF IInv
<1>1. ASSUME NEW s \in Slots, NEW r \in Requests, Receive(s, r) PROVE IInv'
  <2>1. CASE Screen(r) = "pass"
    <3>1. r.signed /\ r.delivery \in Deliveries
      BY <2>1, ScreenPasses
    <3> QED BY <1>0, <1>1, <2>1, <3>1
          DEF IInv, Receive, TypeOK, OwnerIsUnique, JobsAreRecorded, HandlersAreGenuine,
              EnqueuedOnce, ForgeriesLeaveNoTrace, AcceptedIsEnqueued, Free, Handling
  <2>2. CASE Screen(r) # "pass"
    <3>1. Screen(r) \in Statuses \ {"accepted", "duplicate"}
      BY <2>2 DEF Screen, Statuses
    <3>2. /\ slot' = [slot EXCEPT ![s] = Free]
          /\ genuine \subseteq genuine' /\ genuine' \subseteq Deliveries
          /\ UNCHANGED <<seen, ledger, job, enqueued, faults>>
          /\ sends' \in Nat
      BY <1>0, <1>1, <2>2 DEF Receive, TypeOK
    <3>3. /\ answers' \in [Deliveries -> SUBSET Statuses]
          /\ \A d \in Deliveries : "accepted" \in answers'[d] => "accepted" \in answers[d]
      BY <1>0, <1>1, <2>2, <3>1 DEF Receive, TypeOK
    <3> QED BY <1>0, <3>2, <3>3, ReleaseKeepsIInv DEF TypeOK, ForgeriesLeaveNoTrace
  <2> QED BY <2>1, <2>2
<1>2. ASSUME NEW s \in Slots, Claim(s) PROVE IInv'
  <2>1. slot[s].delivery \in Deliveries /\ slot[s].delivery \in genuine
    BY <1>0, <1>2, HandlerHasDelivery DEF Claim, HandlersAreGenuine
  <2>2. CASE slot[s].delivery \in seen
    <3>0. Answer(s, slot[s].delivery, "duplicate")
      BY <1>2, <2>2 DEF Claim
    <3>1. /\ answers' \in [Deliveries -> SUBSET Statuses]
          /\ \A d \in Deliveries : "accepted" \in answers'[d] => "accepted" \in answers[d]
      BY <1>0, <2>1, <3>0 DEF Answer, TypeOK, Statuses
    <3> QED BY <1>0, <1>2, <2>2, <3>0, <3>1, ReleaseKeepsIInv
          DEF Claim, Answer, TypeOK, ForgeriesLeaveNoTrace
  <2>3. CASE slot[s].delivery \notin seen
    BY <1>0, <1>2, <2>1, <2>3
       DEF IInv, Claim, TypeOK, OwnerIsUnique, JobsAreRecorded, HandlersAreGenuine,
           EnqueuedOnce, ForgeriesLeaveNoTrace, AcceptedIsEnqueued, Free, Handling
  <2> QED BY <2>2, <2>3
<1>3. ASSUME NEW s \in Slots, Record(s) PROVE IInv'
  <2>1. slot[s].delivery \in Deliveries /\ slot[s].delivery \in genuine
    BY <1>0, <1>3, HandlerHasDelivery DEF Record, HandlersAreGenuine
  <2>2. CASE slot[s].delivery \in ledger
    <3>0. Answer(s, slot[s].delivery, "duplicate")
      BY <1>3, <2>2 DEF Record
    <3>1. /\ answers' \in [Deliveries -> SUBSET Statuses]
          /\ \A d \in Deliveries : "accepted" \in answers'[d] => "accepted" \in answers[d]
      BY <1>0, <2>1, <3>0 DEF Answer, TypeOK, Statuses
    <3> QED BY <1>0, <1>3, <2>2, <3>0, <3>1, ReleaseKeepsIInv
          DEF Record, Answer, TypeOK, ForgeriesLeaveNoTrace
  <2>3. CASE slot[s].delivery \notin ledger
    <3>1. enqueued[slot[s].delivery] = 0
      BY <1>0, <2>1, <2>3 DEF JobsAreRecorded, TypeOK
    <3> QED BY <1>0, <1>3, <2>1, <2>3, <3>1
          DEF IInv, Record, TypeOK, OwnerIsUnique, JobsAreRecorded, HandlersAreGenuine,
              EnqueuedOnce, ForgeriesLeaveNoTrace, AcceptedIsEnqueued, Free, Handling
  <2> QED BY <2>2, <2>3
<1>4. ASSUME NEW s \in Slots, Enqueue(s) PROVE IInv'
  <2>1. slot[s].delivery \in Deliveries
    BY <1>0, <1>4, HandlerHasDelivery DEF Enqueue
  <2>2. job[slot[s].delivery] = "absent"
    BY <1>0, <1>4, <2>1 DEF Enqueue, OwnerIsUnique, JobsAreRecorded
  <2> QED BY <1>0, <1>4, <2>2, EnqueueKeepsIInv DEF Enqueue, Statuses, TypeOK
<1>5. ASSUME NEW s \in Slots, NEW took \in BOOLEAN, StepFails(s, took) PROVE IInv'
  <2>1. slot[s].delivery \in Deliveries /\ slot[s].delivery \in genuine
    BY <1>0, <1>5, HandlerHasDelivery DEF StepFails, HandlersAreGenuine
  <2>2. faults' \in Nat /\ Answer(s, slot[s].delivery, "500") /\ UNCHANGED <<genuine, sends>>
    BY <1>0, <1>5 DEF StepFails, Fault, TypeOK
  <2>3. CASE took /\ slot[s].at = "enqueue" /\ job[slot[s].delivery] = "absent"
    BY <1>0, <1>5, <2>2, <2>3, EnqueueKeepsIInv DEF StepFails, Statuses
  <2>4. CASE ~(took /\ slot[s].at = "enqueue" /\ job[slot[s].delivery] = "absent")
    <3>1. /\ answers' \in [Deliveries -> SUBSET Statuses]
          /\ \A d \in Deliveries : "accepted" \in answers'[d] => "accepted" \in answers[d]
          /\ slot' = [slot EXCEPT ![s] = Free]
      BY <1>0, <2>1, <2>2 DEF Answer, TypeOK, Statuses
    <3>2. job' = job /\ enqueued' = enqueued
      BY <1>5, <2>4 DEF StepFails
    <3>3. ledger \subseteq ledger' /\ seen' \cup ledger' \subseteq genuine
      BY <1>0, <1>5, <2>1 DEF StepFails, ForgeriesLeaveNoTrace
    <3> QED BY <1>0, <2>2, <3>1, <3>2, <3>3, ReleaseKeepsIInv DEF TypeOK
  <2> QED BY <2>3, <2>4
<1>6. ASSUME NEW d \in Deliveries, Expire(d) \/ Finish(d) \/ ForgetResult(d) PROVE IInv'
  BY <1>0, <1>6 DEF IInv, Expire, Fault, Finish, ForgetResult, TypeOK, OwnerIsUnique,
       JobsAreRecorded, HandlersAreGenuine, EnqueuedOnce, ForgeriesLeaveNoTrace,
       AcceptedIsEnqueued
<1>7. CASE Die
  BY <1>0, <1>7 DEF IInv, Die, Fault, TypeOK, OwnerIsUnique, JobsAreRecorded,
       HandlersAreGenuine, EnqueuedOnce, ForgeriesLeaveNoTrace, AcceptedIsEnqueued, Free
<1>8. CASE Flush
  BY <1>0, <1>8 DEF IInv, Flush, Fault, TypeOK, OwnerIsUnique, JobsAreRecorded,
       HandlersAreGenuine, EnqueuedOnce, ForgeriesLeaveNoTrace, AcceptedIsEnqueued
<1>9. CASE UNCHANGED vars
  BY <1>0, <1>9 DEF IInv, vars, TypeOK, OwnerIsUnique, JobsAreRecorded,
       HandlersAreGenuine, EnqueuedOnce, ForgeriesLeaveNoTrace, AcceptedIsEnqueued
<1> QED BY <1>1, <1>2, <1>3, <1>4, <1>5, <1>6, <1>7, <1>8, <1>9 DEF Next, Handle

\* The inductive invariant holds throughout.
THEOREM Invariance == Spec => []IInv
BY InitIInv, StepIInv, PTL DEF Spec

\* INVARIANT-2 at the door: whatever GitHub sends again and whatever fails, no
\* delivery is enqueued twice.
THEOREM NoSecondJob == Spec => []EnqueuedOnce
<1>1. IInv => EnqueuedOnce
  BY DEF IInv
<1> QED BY Invariance, <1>1, PTL

\* INVARIANT-1: an unsigned request leaves no trace in any store.
THEOREM NoForgery == Spec => []ForgeriesLeaveNoTrace
<1>1. IInv => ForgeriesLeaveNoTrace
  BY DEF IInv
<1> QED BY Invariance, <1>1, PTL

\* A sender told "accepted" has a job in the queue.
THEOREM AcceptedIsTrue == Spec => []AcceptedIsEnqueued
<1>1. IInv => AcceptedIsEnqueued
  BY DEF IInv
<1> QED BY Invariance, <1>1, PTL

\* A delivery that was enqueued stays in the ledger, whatever Redis forgets.
THEOREM LedgerKeeps == Spec => LedgerIsDurable
<1> DEFINE Durable == /\ ledger \subseteq ledger'
                      /\ \A d \in Deliveries : enqueued'[d] > 0 => d \in ledger'
<1>1. ASSUME IInv, [Next]_vars PROVE Durable
  <2>1. JobsAreRecorded'
    BY <1>1, StepIInv DEF IInv
  <2>2. ledger \subseteq ledger'
    BY <1>1
    DEF Next, Receive, Handle, Claim, Record, Enqueue, StepFails, Expire, Finish,
        ForgetResult, Die, Flush, vars
  <2> QED BY <2>1, <2>2 DEF JobsAreRecorded
<1>2. IInv /\ [Next]_vars => [Durable]_vars
  BY <1>1
<1> QED BY <1>2, Invariance, PTL DEF Spec, LedgerIsDurable

=============================================================================
