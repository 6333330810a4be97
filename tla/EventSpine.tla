------------------------------ MODULE EventSpine ------------------------------
(***************************************************************************)
(* The event spine (events/spine.py) under a panel: one EventSpine, and    *)
(* with it one stack of open spans, shared by agents that run concurrently *)
(* (SpecialistAgent.run inside run_panel's span).                          *)
(*                                                                         *)
(* A row is put together before the await that writes it, so other agents  *)
(* push and pop between the two.  A span is named after whoever opened it: *)
(* the panel or an agent, each of which opens one.  Names, models, tokens  *)
(* and durations of a row are left out.                                    *)
(***************************************************************************)
EXTENDS Naturals, Sequences, FiniteSets

CONSTANTS Agents,  \* the agents of the panel
          Panel    \* run_panel itself

NoSpan == "none"

Actors == Agents \cup {Panel}

\* The span of an actor is a fresh uuid, never None.
ASSUME SpineAssumption ==
    IsFiniteSet(Agents) /\ Panel \notin Agents /\ NoSpan \notin Actors

VARIABLES
    stack,      \* _stack
    dropped,    \* dropped
    events,     \* table agent_events: the rows of this panel
    at,         \* at[a]: where the actor is
    parent,     \* parent[a]: the local variable of span()
    status,     \* status[a]: Span.status
    pending,    \* pending[a]: the row the actor awaits to be written
    cancelled,  \* arq has cancelled the job
    priced      \* history: the agents whose call_llm returned

spine  == <<stack, dropped, events>>
actors == <<at, parent, status, pending>>
vars   == <<spine, actors, cancelled, priced>>

\* Where an actor awaits a write, and where that leads it.
Then == [starting |-> "open", recording |-> "closing", reporting |-> "closing", ending |-> "done"]

Writing == DOMAIN Then

\* Where an actor has pushed its span and not yet popped.
Inside == {"starting", "open", "recording", "reporting", "closing"}

Row(kind, a, span, up) == [kind |-> kind, actor |-> a, span |-> span, parent |-> up]

NoRow == Row("none", Panel, NoSpan, NoSpan)

Rows == [kind : {"none", "span_start", "span_end", "llm_call", "error"},
         actor : Actors, span : Actors \cup {NoSpan}, parent : Actors \cup {NoSpan}]

Init ==
    /\ stack = <<>> /\ dropped = 0 /\ events = {}
    /\ at = [a \in Actors |-> "new"]
    /\ parent = [a \in Actors |-> NoSpan]
    /\ status = [a \in Actors |-> "ok"]
    /\ pending = [a \in Actors |-> NoRow]
    /\ cancelled = FALSE
    /\ priced = {}

-----------------------------------------------------------------------------

\* self._stack[-1] if self._stack else None
Top == IF stack = <<>> THEN NoSpan ELSE stack[Len(stack)]

\* _write up to its await: the row is on its way.
Send(a, where, row) ==
    /\ at' = [at EXCEPT ![a] = where]
    /\ pending' = [pending EXCEPT ![a] = row]
    /\ UNCHANGED <<dropped, events, cancelled, priced>>

\* span() up to its first await.  The agents start inside the panel's span.
Enter(a) ==
    /\ at[a] = "new"
    /\ a \in Agents => at[Panel] = "open" /\ ~cancelled
    /\ parent' = [parent EXCEPT ![a] = Top]
    /\ stack' = Append(stack, a)
    /\ Send(a, "starting", Row("span_start", a, a, Top))
    /\ UNCHANGED status

\* Mutant: a failed write is swallowed without being counted.
_writeUncounted(a, written) ==
    /\ at[a] \in Writing
    /\ events' = IF written THEN events \cup {pending[a]} ELSE events
    /\ at' = [at EXCEPT ![a] = Then[at[a]]]
    /\ pending' = [pending EXCEPT ![a] = NoRow]
    /\ priced' = IF at[a] = "recording" THEN priced \cup {a} ELSE priced
    /\ UNCHANGED <<stack, dropped, parent, status, cancelled>>

\* The INSERT of _write ends, well or with an exception that is counted.
_write(a, written) ==
    /\ at[a] \in Writing
    /\ events' = IF written THEN events \cup {pending[a]} ELSE events
    /\ dropped' = IF written THEN dropped ELSE dropped + 1
    /\ at' = [at EXCEPT ![a] = Then[at[a]]]
    /\ pending' = [pending EXCEPT ![a] = NoRow]
    /\ priced' = IF at[a] = "recording" THEN priced \cup {a} ELSE priced
    /\ UNCHANGED <<stack, parent, status, cancelled>>

\* The model answered, and call_llm records the call.
llm_call(a) ==
    /\ a \in Agents /\ at[a] = "open"
    /\ Send(a, "recording", Row("llm_call", a, Top, NoSpan))
    /\ UNCHANGED <<stack, parent, status>>

\* An exception that no handler of run() names: spine.error and a failed verdict.
error(a) ==
    /\ a \in Agents /\ at[a] = "open"
    /\ status' = [status EXCEPT ![a] = "error"]
    /\ Send(a, "reporting", Row("error", a, Top, NoSpan))
    /\ UNCHANGED <<stack, parent>>

\* No budget, a refusal, or a timeout: no row of its own.  A timeout may cancel
\* the write of an llm_call, whose row arrives or not, and no exception is seen.
Fail(a, arrives) ==
    /\ a \in Agents /\ at[a] \in {"open", "recording"}
    /\ arrives => at[a] = "recording"
    /\ events' = IF arrives THEN events \cup {pending[a]} ELSE events
    /\ status' = [status EXCEPT ![a] = "error"]
    /\ at' = [at EXCEPT ![a] = "closing"]
    /\ pending' = [pending EXCEPT ![a] = NoRow]
    /\ UNCHANGED <<stack, dropped, parent, cancelled, priced>>

\* The job is cancelled, and every agent with it, wherever it waits.  An agent
\* that has not begun never does; one that awaits its start row, which comes
\* before the try block, leaves without a pop; one inside its span goes to the
\* finally clause with the status it has, since CancelledError is no Exception.
CancelJob(arrive) ==
    /\ at[Panel] = "open" /\ ~cancelled
    /\ arrive \subseteq {a \in Agents : at[a] \in Writing}
    /\ cancelled' = TRUE
    /\ events' = events \cup {pending[a] : a \in arrive}
    /\ at' = [a \in Actors |->
                IF a = Panel THEN at[a]
                ELSE IF at[a] \in {"new", "starting", "ending"} THEN "done"
                ELSE IF at[a] \in Inside THEN "closing" ELSE at[a]]
    /\ pending' = [a \in Actors |-> NoRow]
    /\ UNCHANGED <<stack, dropped, parent, status, priced>>

\* The body of the span has ended; the panel's, when its agents have.
Ended(a) ==
    IF a = Panel THEN at[a] = "open" /\ \A b \in Agents : at[b] = "done"
    ELSE at[a] = "closing"

\* Mutant: the span is popped only when its body did not raise.
ExitNoFinally(a) ==
    /\ Ended(a)
    /\ stack' = IF status[a] = "ok" THEN SubSeq(stack, 1, Len(stack) - 1) ELSE stack
    /\ Send(a, "ending", Row("span_end", a, a, parent[a]))
    /\ UNCHANGED <<parent, status>>

\* The finally clause of span(): pop whatever is on top, and send the end row.
Exit(a) ==
    /\ Ended(a)
    /\ stack' = SubSeq(stack, 1, Len(stack) - 1)
    /\ Send(a, "ending", Row("span_end", a, a, parent[a]))
    /\ UNCHANGED <<parent, status>>

Next ==
    \/ \E a \in Actors : Enter(a) \/ Exit(a) \/ \E written \in BOOLEAN : _write(a, written)
    \/ \E a \in Agents : llm_call(a) \/ error(a) \/ \E arrives \in BOOLEAN : Fail(a, arrives)
    \/ \E arrive \in SUBSET Agents : CancelJob(arrive)

Spec == Init /\ [][Next]_vars

-----------------------------------------------------------------------------
(* Properties *)

\* The type of every variable.
TypeOK ==
    /\ stack \in Seq(Actors) /\ dropped \in Nat
    /\ at \in [Actors -> Inside \cup {"new", "ending", "done"}]
    /\ parent \in [Actors -> Actors \cup {NoSpan}]
    /\ status \in [Actors -> {"ok", "error"}]
    /\ pending \in [Actors -> Rows]
    /\ events \subseteq Rows
    /\ cancelled \in BOOLEAN
    /\ priced \subseteq Agents

\* The stack is as deep as there are spans open, although agents pop each
\* other's: no pop meets an empty list, and a panel that was not cancelled leaves
\* nothing behind for the spans of _run that follow it.  The panel's own span stays
\* at the bottom while it is open, so that whatever order agents come and go in,
\* no row of an agent is left without a span that trace() can hang it under.
StackBalanced ==
    /\ ~cancelled => Len(stack) = Cardinality({a \in Actors : at[a] \in Inside})
    /\ cancelled  => Len(stack) >= Cardinality({a \in Actors : at[a] \in Inside})
    /\ at[Panel] \in Inside => stack # <<>> /\ stack[1] = Panel
    /\ \A r \in events : r.actor # Panel =>
          /\ r.span # NoSpan
          /\ r.kind \in {"span_start", "span_end"} => r.parent # NoSpan

\* A call whose answer was used is priced or missed: its llm_call row is in the
\* table, which the cost rollups and the daily cap are computed from, or a drop
\* was counted for it.
AnswersArePriced ==
    Cardinality({a \in priced : ~\E r \in events : r.kind = "llm_call" /\ r.actor = a}) <= dropped

=============================================================================
