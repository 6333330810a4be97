----------------------------- MODULE HumanQueue -----------------------------
(***************************************************************************)
(* The human queue (dashboard/app.py, open_hitl of repositories/metrics.py *)
(* and record_feedback of repositories/reviews.py): operators load a page  *)
(* of open items and decide what they see on it.  A decision is an UPDATE  *)
(* of the item and then an INSERT of feedback, two statements of their own *)
(* with other requests, failures and a restart in between.  Items keep     *)
(* arriving: an element of Items is a place that the next item may take    *)
(* when nothing is under way any more about the last one.                  *)
(***************************************************************************)
EXTENDS Migrate

CONSTANTS Items,      \* places for rows of hitl_items
          Priorities, \* Priorities[i]: those an item in place i may have
          ReviewOf,   \* ReviewOf[i]: the review that the item in i is about
          Operators,  \* people with the dashboard open
          Limit,      \* open_hitl(limit)
          Failures    \* bound: statements that fail and restarts

VARIABLES items,      \* items[i]: state, priority, decided_by and the verdict that decided it
          arrivals,   \* the open items in the order of created_at
          feedback,   \* rows of feedback: review, actor and verdict, and a key of their own
          page,       \* page[o]: the items an operator sees
          request,    \* request[o]: the decision whose feedback is not yet recorded
          lost,       \* items whose feedback failed after the decision
          failures

\* What the form may carry: the two buttons, and a value that they do not send.
Verdicts == {"accepted", "disputed", "other"}

\* feedback.verdict: CHECK (verdict IN (...))
FeedbackVerdict == {"accepted", "disputed", "duplicate", "wont_fix"}

NoRequest == [item |-> 0, verdict |-> "none"]

QueueInit ==
    /\ items = [i \in Items |-> [state |-> "none", priority |-> 0,
                                 decided_by |-> "none", verdict |-> "none"]]
    /\ arrivals = <<>>
    /\ feedback = {}
    /\ page = [o \in Operators |-> <<>>]
    /\ request = [o \in Operators |-> NoRequest]
    /\ lost = {}
    /\ failures = 0

\* Nobody sees the item in i any more, and no request about it is under way.
Settled(i) == \A o \in Operators : i \notin Range(page[o]) /\ request[o].item # i

\* enqueue_hitl, by the pipeline.  The item is a new one: what happened to the
\* one that had its place before is no longer followed.
EnqueueHitl(i, p) ==
    /\ "H" \in schema
    /\ items[i].state # "open" /\ Settled(i)
    /\ items' = [items EXCEPT ![i] = [state |-> "open", priority |-> p,
                                      decided_by |-> "none", verdict |-> "none"]]
    /\ arrivals' = Append(arrivals, i)
    /\ feedback' = {r \in feedback : r.id # i}
    /\ lost' = lost \ {i}
    /\ UNCHANGED <<page, request, failures>>

\* The first of them in the order of Before.
FirstPage(Before(_, _)) ==
    SubSeq(SetToSortSeq(Range(arrivals), Before), 1, Min({Limit, Len(arrivals)}))

Older(i, j) == \E m, n \in DOMAIN arrivals : m < n /\ arrivals[m] = i /\ arrivals[n] = j

\* Mutant: of the equally urgent ones the latest first.
OpenHitlLatestFirst ==
    FirstPage(LAMBDA i, j : \/ items[i].priority < items[j].priority
                            \/ items[i].priority = items[j].priority /\ Older(j, i))

\* WHERE state = 'open' ORDER BY priority, created_at LIMIT
open_hitl ==
    FirstPage(LAMBDA i, j : \/ items[i].priority < items[j].priority
                            \/ items[i].priority = items[j].priority /\ Older(i, j))

\* GET /
Home(o) ==
    /\ "H" \in schema /\ request[o] = NoRequest
    /\ page' = [page EXCEPT ![o] = open_hitl]
    /\ UNCHANGED <<items, arrivals, feedback, request, lost, failures>>

\* POST /hitl/{item_id}/decide on a page that may be stale, up to the UPDATE of
\* an item for which open holds.
DecideIf(open, o, i, verdict) ==
    /\ request[o] = NoRequest /\ i \in Range(page[o])
    /\ IF open
       THEN /\ items' = [items EXCEPT ![i] =
                           [state |-> IF verdict = "accepted" THEN "approved" ELSE "rejected",
                            priority |-> @.priority, decided_by |-> o, verdict |-> verdict]]
            /\ arrivals' = Remove(arrivals, i)
            /\ request' = [request EXCEPT ![o] = [item |-> i, verdict |-> verdict]]
       ELSE UNCHANGED <<items, arrivals, request>>
    /\ page' = [page EXCEPT ![o] = <<>>]
    /\ UNCHANGED <<feedback, lost, failures>>

\* Mutant: the state of the item is not looked at.
DecideAnyway(o, i, verdict) == DecideIf(TRUE, o, i, verdict)

\* UPDATE ... WHERE state = 'open' RETURNING: somebody may have been faster.
Decide(o, i, verdict) == DecideIf(items[i].state = "open", o, i, verdict)

\* record_feedback, and the redirect to the page.  The row names the review and
\* not the item; its id, which nothing else in the code refers to, is where the
\* model keeps the decision that wrote it.
RecordFeedback(o) ==
    /\ request[o] # NoRequest
    /\ "F" \in schema /\ request[o].verdict \in FeedbackVerdict
    /\ feedback' = feedback \cup {[id |-> request[o].item, review |-> ReviewOf[request[o].item],
                                   actor |-> o, verdict |-> request[o].verdict]}
    /\ request' = [request EXCEPT ![o] = NoRequest]
    /\ UNCHANGED <<items, arrivals, page, lost, failures>>

\* The INSERT is refused: there is no such table yet, or no such verdict.
FeedbackRefused(o) ==
    /\ request[o] # NoRequest
    /\ "F" \notin schema \/ request[o].verdict \notin FeedbackVerdict
    /\ lost' = lost \cup {request[o].item}
    /\ request' = [request EXCEPT ![o] = NoRequest]
    /\ UNCHANGED <<items, arrivals, feedback, page, failures>>

\* The dashboard dies or loses the database: requests under way are gone.
Restart ==
    /\ failures < Failures /\ failures' = failures + 1
    /\ lost' = lost \cup ({request[o].item : o \in Operators} \ {0})
    /\ request' = [o \in Operators |-> NoRequest]
    /\ page' = [o \in Operators |-> <<>>]
    /\ UNCHANGED <<items, arrivals, feedback>>

Respond(o) == RecordFeedback(o) \/ FeedbackRefused(o)

\* An operator looks at the queue when there is nothing left on the page, and
\* decides what is on it.
Work(o) == \/ page[o] = <<>> /\ Home(o)
           \/ \E i \in Items, v \in Verdicts : Decide(o, i, v)

QueueStep ==
    \/ \E i \in Items : \E p \in Priorities[i] : EnqueueHitl(i, p)
    \/ \E o \in Operators :
          \/ Home(o) \/ Respond(o)
          \/ \E i \in Items, v \in Verdicts : Decide(o, i, v)
    \/ Restart

=============================================================================
