---------------------------- MODULE RecordProofs ----------------------------
(***************************************************************************)
(* What a deployment records, and that it is true.                         *)
(*                                                                         *)
(* The event spine, one stack of spans under any number of concurrent      *)
(* agents: it stays balanced, the panel's span stays at its bottom, and    *)
(* every answer that was used is priced or counted as dropped.             *)
(*                                                                         *)
(* Feedback is earned, for any number of items, operators and restarts;    *)
(* and the ledger is true, for any files and wherever the runner dies.     *)
(***************************************************************************)
EXTENDS EventSpine, Operations, SequenceTheorems, FiniteSetTheorems, TLAPS

-----------------------------------------------------------------------------
(* The event spine *)

Kinds  == {"none", "span_start", "span_end", "llm_call", "error"}
Places == Inside \cup {"new", "ending", "done"}
Spans  == Actors \cup {NoSpan}

\* The spans that are open.
Open == {a \in Actors : at[a] \in Inside}

\* The depth of the stack.
DepthOK ==
    /\ Cardinality(Open) <= Len(stack)
    /\ ~cancelled => Len(stack) = Cardinality(Open)

\* Agents come and go between the panel's entry and its exit only, and the panel's
\* span is the first on the stack meanwhile.
PanelOutlasts ==
    /\ at[Panel] = "new" => stack = <<>>
    /\ at[Panel] \in Inside => stack # <<>> /\ stack[1] = Panel
    /\ \A a \in Agents : at[a] \notin {"new", "done"} => at[Panel] = "open"

\* A row trace() can hang up somewhere.
Hangs(r) ==
    r.actor # Panel => /\ r.span # NoSpan
                       /\ r.kind \in {"span_start", "span_end"} => r.parent # NoSpan

\* The rows in the table and on their way, and the parents kept for the end rows.
RowsHang ==
    /\ \A r \in events : Hangs(r)
    /\ \A a \in Actors : Hangs(pending[a])
    /\ \A a \in Agents : at[a] \in Inside => parent[a] # NoSpan

\* The agents whose answer was used and whose row is missing.
Unpriced == {a \in priced : ~\E r \in events : r.kind = "llm_call" /\ r.actor = a}

\* Who records is an agent, and the row it awaits is its llm_call row.
RecordsItsCall ==
    \A a \in Actors : at[a] = "recording" =>
        a \in Agents /\ pending[a].kind = "llm_call" /\ pending[a].actor = a

SpineInv ==
    /\ TypeOK /\ DepthOK /\ PanelOutlasts /\ RowsHang
    /\ RecordsItsCall /\ Cardinality(Unpriced) <= dropped

-----------------------------------------------------------------------------
(* Counting and stacking *)

LEMMA ActorsFinite == IsFiniteSet(Actors) /\ Panel \in Actors /\ Agents \subseteq Actors
BY SpineAssumption, FS_AddElement DEF Actors

LEMMA OpenFinite ==
    IsFiniteSet(Open) /\ Cardinality(Open) \in Nat
BY ActorsFinite, FS_Subset, FS_CardinalityType DEF Open

\* What append does to a stack.
LEMMA Push ==
    ASSUME NEW s \in Seq(Actors), NEW a \in Actors
    PROVE  /\ Append(s, a) \in Seq(Actors) /\ Append(s, a) # <<>>
           /\ Len(Append(s, a)) = Len(s) + 1
           /\ s # <<>> => Append(s, a)[1] = s[1]
           /\ s = <<>> => Append(s, a)[1] = a
OBVIOUS

\* What pop does to one that is not empty.
LEMMA Pop ==
    ASSUME NEW s \in Seq(Actors), Len(s) >= 1
    PROVE  /\ SubSeq(s, 1, Len(s) - 1) \in Seq(Actors)
           /\ Len(SubSeq(s, 1, Len(s) - 1)) = Len(s) - 1
           /\ Len(s) >= 2 => SubSeq(s, 1, Len(s) - 1) # <<>> /\ SubSeq(s, 1, Len(s) - 1)[1] = s[1]
<1> DEFINE n == Len(s) - 1
           t == SubSeq(s, 1, n)
<1>1. n \in Nat /\ Len(s) \in Nat
  OBVIOUS
<1>2. \A i \in 1..n : s[i] \in Actors
  BY <1>1
<1> HIDE DEF n
<1>3. t \in Seq(Actors) /\ Len(t) = n /\ (n >= 1 => t[1] = s[1])
  BY <1>1, <1>2, SubSeqProperties
<1>4. n >= 1 => t # <<>>
  BY <1>3
<1> QED BY <1>1, <1>3, <1>4 DEF n

\* self._stack[-1] is a span if there is one.
LEMMA TopIsASpan ==
    ASSUME stack \in Seq(Actors)
    PROVE  Top \in Spans /\ (stack # <<>> => Top # NoSpan)
<1>1. CASE stack = <<>>
  BY <1>1 DEF Top, Spans
<1>2. CASE stack # <<>>
  <2>1. stack[Len(stack)] \in Actors
    BY <1>2
  <2> QED BY <1>2, <2>1, SpineAssumption DEF Top, Spans
<1> QED BY <1>1, <1>2

LEMMA RowTyped ==
    ASSUME NEW kind \in Kinds, NEW a \in Actors, NEW span \in Spans, NEW up \in Spans
    PROVE  /\ Row(kind, a, span, up) \in Rows /\ NoRow \in Rows /\ Hangs(NoRow)
           /\ Hangs(Row(kind, a, span, up)) <=>
                (a # Panel => /\ span # NoSpan
                              /\ kind \in {"span_start", "span_end"} => up # NoSpan)
           /\ Row(kind, a, span, up).kind = kind /\ Row(kind, a, span, up).actor = a
BY ActorsFinite DEF Kinds, Spans, Row, Rows, NoRow, Hangs

\* More rows and the same answers: nothing becomes unpriced.
LEMMA UnpricedShrinks ==
    ASSUME SpineInv, priced' = priced, events \subseteq events', dropped' = dropped
    PROVE  Cardinality(Unpriced') <= dropped'
<1>1. Unpriced' \subseteq Unpriced
  BY DEF Unpriced
<1>2. IsFiniteSet(Unpriced)
  BY ActorsFinite, FS_Subset DEF Unpriced, SpineInv, TypeOK
<1> QED BY <1>1, <1>2, FS_Subset, FS_CardinalityType DEF SpineInv, TypeOK

\* A step by which one actor moves within its span, or outside it, and nobody
\* pushes or pops.
LEMMA Stays ==
    ASSUME SpineInv, NEW a \in Actors, NEW where \in Places,
           at' = [at EXCEPT ![a] = where], at[a] \notin {"new", "done"}, where # "new",
           at[a] \in Inside <=> where \in Inside,
           a = Panel /\ at[Panel] = "open" => where = "open",
           UNCHANGED <<stack, cancelled>>
    PROVE  DepthOK' /\ PanelOutlasts'
<1>1. \A b \in Actors : at'[b] = IF b = a THEN where ELSE at[b]
  BY DEF SpineInv, TypeOK, Places
<1>2. Open' = Open
  BY <1>1 DEF Open
<1>3. DepthOK'
  BY <1>2 DEF SpineInv, DepthOK
<1>4. PanelOutlasts'
  BY <1>1, ActorsFinite DEF SpineInv, PanelOutlasts, Inside
<1> QED BY <1>3, <1>4

LEMMA SpineInit == Init => SpineInv
<1> SUFFICES ASSUME Init PROVE SpineInv
  OBVIOUS
<1>0. NoRow \in Rows
  BY ActorsFinite DEF NoRow, Row, Rows
<1>1. TypeOK
  <2>1. stack \in Seq(Actors) /\ dropped \in Nat
    BY DEF Init
  <2>2. /\ at \in [Actors -> Inside \cup {"new", "ending", "done"}]
        /\ parent \in [Actors -> Actors \cup {NoSpan}]
        /\ status \in [Actors -> {"ok", "error"}]
    BY DEF Init
  <2>3. pending \in [Actors -> Rows]
    BY <1>0 DEF Init
  <2>4. events \subseteq Rows /\ cancelled \in BOOLEAN /\ priced \subseteq Agents
    BY DEF Init
  <2> QED BY <2>1, <2>2, <2>3, <2>4 DEF TypeOK
<1>2. Open = {} /\ Unpriced = {}
  BY DEF Init, Open, Unpriced, Inside
<1>3. DepthOK /\ Cardinality(Unpriced) <= dropped
  BY <1>2, FS_EmptySet DEF Init, DepthOK
<1>4. PanelOutlasts /\ RecordsItsCall
  BY ActorsFinite DEF Init, PanelOutlasts, RecordsItsCall, Inside
<1>5. RowsHang
  <2>1. Hangs(NoRow)
    BY DEF NoRow, Hangs, Row
  <2> QED BY <2>1, ActorsFinite DEF Init, RowsHang, Inside
<1> QED BY <1>1, <1>3, <1>4, <1>5 DEF SpineInv

-----------------------------------------------------------------------------
(* The steps *)

\* What sending a row does to the rows and the answers.
LEMMA SendKeeps ==
    ASSUME SpineInv, NEW a \in Actors, NEW where \in Places, NEW kind \in Kinds,
           NEW span \in Spans, NEW up \in Spans,
           Send(a, where, Row(kind, a, span, up)),
           a # Panel => /\ span # NoSpan
                        /\ kind \in {"span_start", "span_end"} => up # NoSpan,
           where = "recording" => kind = "llm_call" /\ a \in Agents
    PROVE  /\ at' \in [Actors -> Places] /\ pending' \in [Actors -> Rows]
           /\ events' \subseteq Rows /\ dropped' \in Nat /\ priced' \subseteq Agents
           /\ cancelled' = cancelled /\ cancelled' \in BOOLEAN
           /\ at' = [at EXCEPT ![a] = where]
           /\ \A b \in Actors : at'[b] = IF b = a THEN where ELSE at[b]
           /\ \A r \in events' : Hangs(r)
           /\ \A b \in Actors : Hangs(pending'[b])
           /\ RecordsItsCall' /\ Cardinality(Unpriced') <= dropped'
<1> DEFINE row == Row(kind, a, span, up)
<1>1. row \in Rows /\ Hangs(row) /\ row.kind = kind /\ row.actor = a
  BY RowTyped
<1> HIDE DEF row
<1>2. /\ at' = [at EXCEPT ![a] = where] /\ pending' = [pending EXCEPT ![a] = row]
      /\ UNCHANGED <<dropped, events, cancelled, priced>>
  BY DEF Send, row
<1>3. /\ at \in [Actors -> Places] /\ pending \in [Actors -> Rows]
      /\ events \subseteq Rows /\ dropped \in Nat /\ priced \subseteq Agents
      /\ cancelled \in BOOLEAN
  BY DEF SpineInv, TypeOK, Places
<1>4. /\ \A b \in Actors : at'[b] = IF b = a THEN where ELSE at[b]
      /\ pending'[a] = row /\ \A b \in Actors : b # a => pending'[b] = pending[b]
  BY <1>2, <1>3
<1>5. at' \in [Actors -> Places] /\ pending' \in [Actors -> Rows]
  BY <1>1, <1>2, <1>3
<1>6. RecordsItsCall'
  BY <1>1, <1>4 DEF SpineInv, RecordsItsCall
<1>7. \A r \in events' : Hangs(r)
  BY <1>2 DEF SpineInv, RowsHang
<1>8. \A b \in Actors : Hangs(pending'[b])
  BY <1>1, <1>4 DEF SpineInv, RowsHang
<1>9. Cardinality(Unpriced') <= dropped'
  BY <1>2, UnpricedShrinks
<1> QED BY <1>2, <1>3, <1>4, <1>5, <1>6, <1>7, <1>8, <1>9

\* span() enters: one span more is open and one more is on the stack.
LEMMA EnterKeeps ==
    ASSUME SpineInv, NEW a \in Actors, Enter(a)
    PROVE  SpineInv'
<1>0. /\ stack \in Seq(Actors) /\ at \in [Actors -> Places] /\ parent \in [Actors -> Spans]
      /\ "starting" \in Places /\ "starting" \in Inside
  BY DEF SpineInv, TypeOK, Places, Spans, Inside
<1>1. Top \in Spans /\ a \in Spans /\ a # NoSpan /\ (a # Panel => Top # NoSpan)
  <2>1. a # Panel => at[Panel] = "open"
    BY DEF Enter, Actors
  <2>2. a # Panel => stack # <<>>
    BY <2>1 DEF SpineInv, PanelOutlasts, Inside
  <2> QED BY <1>0, <2>2, TopIsASpan, SpineAssumption DEF Spans
<1>2. Send(a, "starting", Row("span_start", a, a, Top)) /\ "span_start" \in Kinds
  BY DEF Enter, Kinds
<1>3. /\ at' \in [Actors -> Places] /\ pending' \in [Actors -> Rows]
      /\ events' \subseteq Rows /\ dropped' \in Nat /\ priced' \subseteq Agents
      /\ cancelled' = cancelled /\ cancelled' \in BOOLEAN
      /\ \A b \in Actors : at'[b] = IF b = a THEN "starting" ELSE at[b]
      /\ \A r \in events' : Hangs(r)
      /\ \A b \in Actors : Hangs(pending'[b])
      /\ RecordsItsCall' /\ Cardinality(Unpriced') <= dropped'
  BY <1>0, <1>1, <1>2, SendKeeps
<1>4. stack' = Append(stack, a) /\ parent' = [parent EXCEPT ![a] = Top] /\ status' = status
      /\ at[a] = "new"
  BY DEF Enter
<1>5. /\ stack' \in Seq(Actors) /\ Len(stack') = Len(stack) + 1 /\ stack' # <<>>
      /\ stack # <<>> => stack'[1] = stack[1]
      /\ stack = <<>> => stack'[1] = a
  BY <1>0, <1>4, Push
<1>6. TypeOK'
  <2>1. parent' \in [Actors -> Spans]
    BY <1>0, <1>1, <1>4
  <2>2. status' \in [Actors -> {"ok", "error"}]
    BY <1>4 DEF SpineInv, TypeOK
  <2> QED BY <1>3, <1>5, <2>1, <2>2 DEF TypeOK, Places, Spans
<1>7. DepthOK'
  <2>1. Open' = Open \cup {a} /\ a \notin Open
    BY <1>0, <1>3, <1>4 DEF Open, Inside
  <2>2. Cardinality(Open') = Cardinality(Open) + 1 /\ Cardinality(Open) \in Nat
    BY <2>1, OpenFinite, FS_AddElement
  <2>3. Len(stack) \in Nat
    BY <1>0
  <2> QED BY <1>3, <1>5, <2>2, <2>3 DEF SpineInv, DepthOK
<1>8. PanelOutlasts'
  <2>1. CASE a = Panel
    <3>1. stack = <<>> /\ stack'[1] = Panel
      BY <1>4, <1>5, <2>1 DEF SpineInv, PanelOutlasts
    <3>2. \A b \in Agents : b \in Actors /\ b # a
      BY <2>1, ActorsFinite, SpineAssumption
    <3>3. \A b \in Agents : at[b] \in {"new", "done"}
      BY <1>4, <2>1 DEF SpineInv, PanelOutlasts
    <3> QED BY <1>3, <1>5, <2>1, <3>1, <3>2, <3>3, ActorsFinite DEF PanelOutlasts
  <2>2. CASE a # Panel
    <3>1. at[Panel] = "open" /\ at'[Panel] = "open"
      BY <1>3, <2>2, ActorsFinite DEF Enter, Actors
    <3>2. stack # <<>> /\ stack[1] = Panel
      BY <3>1 DEF SpineInv, PanelOutlasts, Inside
    <3> QED BY <1>5, <3>1, <3>2 DEF PanelOutlasts
  <2> QED BY <2>1, <2>2
<1>9. RowsHang'
  <2>1. \A b \in Actors : parent'[b] = IF b = a THEN Top ELSE parent[b]
    BY <1>0, <1>4
  <2>2. \A b \in Agents : b \in Actors /\ b # Panel
    BY ActorsFinite, SpineAssumption
  <2>3. \A b \in Agents : at'[b] \in Inside => parent'[b] # NoSpan
    BY <1>1, <1>3, <2>1, <2>2 DEF SpineInv, RowsHang
  <2> QED BY <1>3, <2>3 DEF RowsHang
<1> QED BY <1>3, <1>6, <1>7, <1>8, <1>9 DEF SpineInv

\* llm_call and error: an agent inside its span sends a row and stays inside.
LEMMA SendInside ==
    ASSUME SpineInv, NEW a \in Agents, at[a] = "open",
           NEW where \in {"recording", "reporting"}, NEW kind \in {"llm_call", "error"},
           where = "recording" => kind = "llm_call",
           Send(a, where, Row(kind, a, Top, NoSpan)), UNCHANGED <<stack, parent>>,
           status' \in [Actors -> {"ok", "error"}]
    PROVE  SpineInv'
<1>0. /\ stack \in Seq(Actors) /\ parent \in [Actors -> Spans] /\ a \in Actors /\ a # Panel
      /\ where \in Places /\ where \in Inside /\ kind \in Kinds /\ NoSpan \in Spans
  BY ActorsFinite, SpineAssumption DEF SpineInv, TypeOK, Places, Spans, Inside, Kinds
<1>1. Top \in Spans /\ Top # NoSpan
  <2>1. stack # <<>>
    BY DEF SpineInv, PanelOutlasts, Inside
  <2> QED BY <1>0, <2>1, TopIsASpan
<1>2. /\ at' \in [Actors -> Places] /\ pending' \in [Actors -> Rows]
      /\ events' \subseteq Rows /\ dropped' \in Nat /\ priced' \subseteq Agents
      /\ cancelled' = cancelled /\ cancelled' \in BOOLEAN
      /\ at' = [at EXCEPT ![a] = where]
      /\ \A b \in Actors : at'[b] = IF b = a THEN where ELSE at[b]
      /\ \A r \in events' : Hangs(r)
      /\ \A b \in Actors : Hangs(pending'[b])
      /\ RecordsItsCall' /\ Cardinality(Unpriced') <= dropped'
  BY <1>0, <1>1, SendKeeps
<1>3. TypeOK'
  BY <1>0, <1>2 DEF TypeOK, Places, Spans
<1>4. DepthOK' /\ PanelOutlasts'
  <2>1. at[a] \in Inside /\ at[a] \notin {"new", "done"} /\ where # "new"
    BY DEF Inside
  <2> QED BY <1>0, <1>2, <2>1, Stays
<1>5. RowsHang'
  BY <1>2, ActorsFinite DEF SpineInv, RowsHang, Inside
<1> QED BY <1>2, <1>3, <1>4, <1>5 DEF SpineInv

\* A write that ends: the actor goes on, and a lost row is counted.
LEMMA WriteKeeps ==
    ASSUME SpineInv, NEW a \in Actors, NEW written \in BOOLEAN, _write(a, written)
    PROVE  SpineInv'
<1> DEFINE where == Then[at[a]]
<1>0. /\ stack \in Seq(Actors) /\ parent \in [Actors -> Spans] /\ at \in [Actors -> Places]
      /\ pending \in [Actors -> Rows] /\ events \subseteq Rows /\ dropped \in Nat
      /\ status \in [Actors -> {"ok", "error"}] /\ priced \subseteq Agents /\ cancelled \in BOOLEAN
  BY DEF SpineInv, TypeOK, Places, Spans
<1>1. /\ at[a] \in {"starting", "recording", "reporting", "ending"}
      /\ at[a] \in Inside <=> where \in Inside
      /\ where \in Places /\ where \notin {"new", "recording"}
  BY DEF _write, Writing, Then, Inside, Places
<1>2. /\ at' = [at EXCEPT ![a] = where] /\ pending' = [pending EXCEPT ![a] = NoRow]
      /\ UNCHANGED <<stack, parent, status, cancelled>>
  BY DEF _write
<1> HIDE DEF where
<1>3. /\ \A b \in Actors : at'[b] = IF b = a THEN where ELSE at[b]
      /\ pending'[a] = NoRow /\ \A b \in Actors : b # a => pending'[b] = pending[b]
  BY <1>0, <1>2
<1>4. NoRow \in Rows /\ Hangs(NoRow)
  BY ActorsFinite DEF NoRow, Row, Rows, Hangs
<1>5. DepthOK' /\ PanelOutlasts'
  BY <1>1, <1>2, Stays
<1>6. events' \subseteq Rows /\ events \subseteq events' /\ \A r \in events' : Hangs(r)
  <2>1. pending[a] \in Rows /\ Hangs(pending[a])
    BY <1>0 DEF SpineInv, RowsHang
  <2>2. events' \in {events, events \cup {pending[a]}}
    BY DEF _write
  <2> QED BY <1>0, <2>1, <2>2 DEF SpineInv, RowsHang
<1>7. at[a] = "recording" => a \in Agents
  BY DEF SpineInv, RecordsItsCall
<1>8. TypeOK'
  <2>1. priced' \subseteq Agents
    BY <1>0, <1>7 DEF _write
  <2>2. dropped' \in Nat
    BY <1>0 DEF _write
  <2>3. at' \in [Actors -> Places] /\ pending' \in [Actors -> Rows]
    BY <1>0, <1>1, <1>2, <1>4
  <2> QED BY <1>0, <1>2, <1>6, <2>1, <2>2, <2>3 DEF TypeOK, Places, Spans
<1>9. RowsHang'
  <2>1. \A b \in Agents : at'[b] \in Inside => parent'[b] # NoSpan
    BY <1>1, <1>2, <1>3, ActorsFinite DEF SpineInv, RowsHang
  <2>2. \A b \in Actors : Hangs(pending'[b])
    BY <1>3, <1>4 DEF SpineInv, RowsHang
  <2> QED BY <1>6, <2>1, <2>2 DEF RowsHang
<1>10. RecordsItsCall'
  BY <1>1, <1>3 DEF SpineInv, RecordsItsCall
<1>11. Cardinality(Unpriced') <= dropped'
  <2>0. IsFiniteSet(Unpriced) /\ Cardinality(Unpriced) \in Nat /\ Cardinality(Unpriced) <= dropped
    BY <1>0, ActorsFinite, FS_Subset, FS_CardinalityType DEF Unpriced, SpineInv
  <2>1. CASE written
    <3>1. events' = events \cup {pending[a]} /\ dropped' = dropped
      BY <2>1 DEF _write
    <3>2. priced' \subseteq priced \cup {a} /\ (priced' # priced => at[a] = "recording")
      BY DEF _write
    <3>3. at[a] = "recording" => pending[a].kind = "llm_call" /\ pending[a].actor = a
      BY DEF SpineInv, RecordsItsCall
    <3>4. Unpriced' \subseteq Unpriced
      <4> SUFFICES ASSUME NEW b \in priced', ~\E r \in events' : r.kind = "llm_call" /\ r.actor = b
                   PROVE  b \in Unpriced
        BY DEF Unpriced
      <4>1. b = a => at[a] # "recording"
        BY <3>1, <3>3
      <4>2. b \in priced
        BY <3>2, <4>1
      <4> QED BY <3>1, <4>2 DEF Unpriced
    <3>5. Cardinality(Unpriced') <= Cardinality(Unpriced) /\ Cardinality(Unpriced') \in Nat
      BY <2>0, <3>4, FS_Subset, FS_CardinalityType
    <3> QED BY <1>0, <2>0, <3>1, <3>5
  <2>2. CASE ~written
    <3>1. events' = events /\ dropped' = dropped + 1 /\ priced' \subseteq priced \cup {a}
      BY <2>2 DEF _write
    <3>2. Unpriced' \subseteq Unpriced \cup {a}
      BY <3>1 DEF Unpriced
    <3>3. IsFiniteSet(Unpriced \cup {a}) /\ Cardinality(Unpriced \cup {a}) <= Cardinality(Unpriced) + 1
          /\ Cardinality(Unpriced \cup {a}) \in Nat
      <4>1. /\ IsFiniteSet(Unpriced \cup {a})
            /\ Cardinality(Unpriced \cup {a}) \in {Cardinality(Unpriced), Cardinality(Unpriced) + 1}
        BY <2>0, FS_AddElement
      <4> QED BY <2>0, <4>1
    <3>4. Cardinality(Unpriced') <= Cardinality(Unpriced \cup {a}) /\ Cardinality(Unpriced') \in Nat
      BY <3>2, <3>3, FS_Subset, FS_CardinalityType
    <3> QED BY <1>0, <2>0, <3>1, <3>3, <3>4
  <2> QED BY <2>1, <2>2
<1> QED BY <1>5, <1>8, <1>9, <1>10, <1>11 DEF SpineInv

\* A failing call, or a timeout while the row of a call is written.
LEMMA FailKeeps ==
    ASSUME SpineInv, NEW a \in Agents, NEW arrives \in BOOLEAN, Fail(a, arrives)
    PROVE  SpineInv'
<1>0. /\ stack \in Seq(Actors) /\ parent \in [Actors -> Spans] /\ at \in [Actors -> Places]
      /\ pending \in [Actors -> Rows] /\ events \subseteq Rows /\ dropped \in Nat
      /\ status \in [Actors -> {"ok", "error"}] /\ priced \subseteq Agents /\ cancelled \in BOOLEAN
      /\ a \in Actors /\ a # Panel /\ "closing" \in Places
  BY ActorsFinite, SpineAssumption DEF SpineInv, TypeOK, Places, Spans, Inside
<1>1. /\ at' = [at EXCEPT ![a] = "closing"] /\ pending' = [pending EXCEPT ![a] = NoRow]
      /\ status' = [status EXCEPT ![a] = "error"] /\ at[a] \in {"open", "recording"}
      /\ UNCHANGED <<stack, dropped, parent, cancelled, priced>>
  BY DEF Fail
<1>2. /\ \A b \in Actors : at'[b] = IF b = a THEN "closing" ELSE at[b]
      /\ pending'[a] = NoRow /\ \A b \in Actors : b # a => pending'[b] = pending[b]
  BY <1>0, <1>1
<1>3. NoRow \in Rows /\ Hangs(NoRow)
  BY ActorsFinite DEF NoRow, Row, Rows, Hangs
<1>4. DepthOK' /\ PanelOutlasts'
  <2>1. at[a] \in Inside /\ "closing" \in Inside /\ at[a] \notin {"new", "done"}
    BY <1>1 DEF Inside
  <2> QED BY <1>0, <1>1, <2>1, Stays
<1>5. events' \subseteq Rows /\ events \subseteq events' /\ \A r \in events' : Hangs(r)
  <2>1. pending[a] \in Rows /\ Hangs(pending[a])
    BY <1>0 DEF SpineInv, RowsHang
  <2>2. events' \in {events, events \cup {pending[a]}}
    BY DEF Fail
  <2> QED BY <1>0, <2>1, <2>2 DEF SpineInv, RowsHang
<1>6. TypeOK'
  <2>1. at' \in [Actors -> Places] /\ pending' \in [Actors -> Rows]
    BY <1>0, <1>1, <1>3
  <2>2. status' \in [Actors -> {"ok", "error"}]
    BY <1>0, <1>1
  <2> QED BY <1>0, <1>1, <1>5, <2>1, <2>2 DEF TypeOK, Places, Spans
<1>7. RowsHang'
  <2>1. \A b \in Agents : at'[b] \in Inside => parent'[b] # NoSpan
    BY <1>1, <1>2, ActorsFinite DEF SpineInv, RowsHang, Inside
  <2>2. \A b \in Actors : Hangs(pending'[b])
    BY <1>2, <1>3 DEF SpineInv, RowsHang
  <2> QED BY <1>5, <2>1, <2>2 DEF RowsHang
<1>8. RecordsItsCall'
  BY <1>2 DEF SpineInv, RecordsItsCall
<1>9. Cardinality(Unpriced') <= dropped'
  BY <1>1, <1>5, UnpricedShrinks
<1> QED BY <1>4, <1>6, <1>7, <1>8, <1>9 DEF SpineInv

\* The finally clause of span(): one span less is open and one less is on the
\* stack.  An agent that pops leaves the panel's span where it is, since there are
\* two spans open at least.
LEMMA ExitKeeps ==
    ASSUME SpineInv, NEW a \in Actors, Exit(a)
    PROVE  SpineInv'
<1>0. /\ stack \in Seq(Actors) /\ at \in [Actors -> Places] /\ parent \in [Actors -> Spans]
      /\ "ending" \in Places /\ "ending" \notin Inside /\ Len(stack) \in Nat
      /\ Panel \in Actors /\ a # NoSpan /\ a \in Spans /\ parent[a] \in Spans
  BY ActorsFinite, SpineAssumption DEF SpineInv, TypeOK, Places, Spans, Inside
<1>1. at[a] \in Inside /\ (a # Panel => a \in Agents /\ at[Panel] = "open" /\ parent[a] # NoSpan)
  BY DEF Exit, Ended, Inside, Actors, SpineInv, PanelOutlasts, RowsHang
<1>2. Send(a, "ending", Row("span_end", a, a, parent[a])) /\ "span_end" \in Kinds
  BY DEF Exit, Kinds
<1>3. /\ at' \in [Actors -> Places] /\ pending' \in [Actors -> Rows]
      /\ events' \subseteq Rows /\ dropped' \in Nat /\ priced' \subseteq Agents
      /\ cancelled' = cancelled /\ cancelled' \in BOOLEAN
      /\ \A b \in Actors : at'[b] = IF b = a THEN "ending" ELSE at[b]
      /\ \A r \in events' : Hangs(r)
      /\ \A b \in Actors : Hangs(pending'[b])
      /\ RecordsItsCall' /\ Cardinality(Unpriced') <= dropped'
  BY <1>0, <1>1, <1>2, SendKeeps
<1>4. stack' = SubSeq(stack, 1, Len(stack) - 1) /\ UNCHANGED <<parent, status>>
  BY DEF Exit
<1>5. /\ Open' = Open \ {a} /\ a \in Open
      /\ IsFiniteSet(Open') /\ Cardinality(Open) \in Nat /\ Cardinality(Open') \in Nat
      /\ Cardinality(Open) = Cardinality(Open') + 1
      /\ a # Panel => Cardinality(Open') >= 1
  <2>1. Open' = Open \ {a} /\ a \in Open
    BY <1>0, <1>1, <1>3 DEF Open
  <2>2. /\ IsFiniteSet(Open') /\ Cardinality(Open') = Cardinality(Open) - 1
        /\ Cardinality(Open) \in Nat /\ Cardinality(Open') \in Nat
    BY <2>1, OpenFinite, FS_RemoveElement, FS_CardinalityType
  <2>3. a # Panel => Panel \in Open'
    BY <1>0, <1>1, <2>1 DEF Open, Inside
  <2>4. a # Panel => Cardinality(Open') # 0
    BY <2>2, <2>3, FS_EmptySet
  <2> QED BY <2>1, <2>2, <2>4
<1>6. Len(stack) >= 1 /\ (a # Panel => Len(stack) >= 2)
  BY <1>0, <1>5 DEF SpineInv, DepthOK
<1>7. /\ stack' \in Seq(Actors) /\ Len(stack') = Len(stack) - 1
      /\ a # Panel => stack' # <<>> /\ stack'[1] = stack[1]
  BY <1>0, <1>4, <1>6, Pop
<1>8. TypeOK'
  <2>1. parent' \in [Actors -> Spans] /\ status' \in [Actors -> {"ok", "error"}]
    BY <1>0, <1>4 DEF SpineInv, TypeOK
  <2> QED BY <1>3, <1>7, <2>1 DEF TypeOK, Places, Spans
<1>9. DepthOK'
  BY <1>0, <1>3, <1>5, <1>7 DEF SpineInv, DepthOK
<1>10. PanelOutlasts'
  <2>1. CASE a = Panel
    <3>1. \A b \in Agents : at[b] = "done" /\ at'[b] = "done"
      BY <1>3, <2>1, ActorsFinite, SpineAssumption DEF Exit, Ended
    <3> QED BY <1>0, <1>3, <2>1, <3>1 DEF PanelOutlasts
  <2>2. CASE a # Panel
    <3>1. at'[Panel] = "open" /\ stack[1] = Panel
      BY <1>0, <1>1, <1>3, <2>2 DEF SpineInv, PanelOutlasts, Inside
    <3> QED BY <1>7, <2>2, <3>1 DEF PanelOutlasts
  <2> QED BY <2>1, <2>2
<1>11. RowsHang'
  <2>1. \A b \in Agents : at'[b] \in Inside => parent'[b] # NoSpan
    BY <1>0, <1>3, <1>4, ActorsFinite DEF SpineInv, RowsHang
  <2> QED BY <1>3, <2>1 DEF RowsHang
<1> QED BY <1>3, <1>8, <1>9, <1>10, <1>11 DEF SpineInv

\* Cancellation: agents leave, some without a pop, so the stack may now be deeper
\* than the spans that are open, never less deep.
LEMMA CancelKeeps ==
    ASSUME SpineInv, NEW arrive \in SUBSET Agents, CancelJob(arrive)
    PROVE  SpineInv'
<1>0. /\ stack \in Seq(Actors) /\ parent \in [Actors -> Spans] /\ at \in [Actors -> Places]
      /\ pending \in [Actors -> Rows] /\ events \subseteq Rows /\ dropped \in Nat
      /\ status \in [Actors -> {"ok", "error"}] /\ priced \subseteq Agents
      /\ Panel \in Actors /\ Agents \subseteq Actors /\ Panel \notin Agents
  BY ActorsFinite, SpineAssumption DEF SpineInv, TypeOK, Places, Spans
<1>1. /\ at[Panel] = "open" /\ cancelled' = TRUE
      /\ events' = events \cup {pending[a] : a \in arrive}
      /\ pending' = [a \in Actors |-> NoRow]
      /\ UNCHANGED <<stack, dropped, parent, status, priced>>
  BY DEF CancelJob
<1>2. \A b \in Actors :
        at'[b] = IF b = Panel THEN at[b]
                 ELSE IF at[b] \in {"new", "starting", "ending"} THEN "done"
                 ELSE IF at[b] \in Inside THEN "closing" ELSE at[b]
  BY DEF CancelJob
<1>3. at' \in [Actors -> Places]
  <2>1. \A b \in Actors : at'[b] \in Places
    BY <1>0, <1>2 DEF Places, Inside
  <2>2. at' = [b \in Actors |-> at'[b]]
    BY DEF CancelJob
  <2> QED BY <2>1, <2>2
<1>4. /\ \A b \in Actors : at'[b] \in Inside => at[b] \in Inside
      /\ \A b \in Agents : at'[b] \in {"closing", "done"}
      /\ at'[Panel] = "open"
  BY <1>0, <1>1, <1>2 DEF Places, Inside
<1>5. NoRow \in Rows /\ Hangs(NoRow)
  BY ActorsFinite DEF NoRow, Row, Rows, Hangs
<1>6. events' \subseteq Rows /\ events \subseteq events' /\ \A r \in events' : Hangs(r)
  <2>1. \A b \in arrive : pending[b] \in Rows /\ Hangs(pending[b])
    BY <1>0 DEF SpineInv, RowsHang
  <2> QED BY <1>0, <1>1, <2>1 DEF SpineInv, RowsHang
<1>7. TypeOK'
  <2>1. pending' \in [Actors -> Rows]
    BY <1>1, <1>5
  <2>2. cancelled' \in BOOLEAN
    BY <1>1
  <2> QED BY <1>0, <1>1, <1>3, <1>6, <2>1, <2>2 DEF TypeOK, Places, Spans
<1>8. DepthOK'
  <2>1. Open' \subseteq Open
    BY <1>4 DEF Open
  <2>2. Cardinality(Open') <= Cardinality(Open) /\ Cardinality(Open') \in Nat
        /\ Cardinality(Open) \in Nat
    BY <2>1, OpenFinite, FS_Subset, FS_CardinalityType
  <2>3. Len(stack) \in Nat /\ Len(stack') = Len(stack)
    BY <1>0, <1>1
  <2> QED BY <1>1, <2>2, <2>3 DEF SpineInv, DepthOK
<1>9. PanelOutlasts'
  BY <1>1, <1>4 DEF SpineInv, PanelOutlasts, Inside
<1>10. RowsHang'
  <2>1. \A b \in Actors : Hangs(pending'[b])
    BY <1>1, <1>5
  <2> QED BY <1>0, <1>1, <1>4, <1>6, <2>1 DEF SpineInv, RowsHang
<1>11. RecordsItsCall'
  BY <1>4 DEF RecordsItsCall, Actors
<1>12. Cardinality(Unpriced') <= dropped'
  BY <1>1, <1>6, UnpricedShrinks
<1> QED BY <1>7, <1>8, <1>9, <1>10, <1>11, <1>12 DEF SpineInv

LEMMA SpineNext == SpineInv /\ [Next]_vars => SpineInv'
<1> SUFFICES ASSUME SpineInv, [Next]_vars PROVE SpineInv'
  OBVIOUS
<1>1. ASSUME NEW a \in Agents, llm_call(a) PROVE SpineInv'
  <2>1. status' \in [Actors -> {"ok", "error"}]
    BY <1>1 DEF llm_call, SpineInv, TypeOK
  <2> QED BY <1>1, <2>1, SendInside DEF llm_call
<1>2. ASSUME NEW a \in Agents, error(a) PROVE SpineInv'
  <2>1. status' \in [Actors -> {"ok", "error"}]
    BY <1>2 DEF error, SpineInv, TypeOK
  <2> QED BY <1>2, <2>1, SendInside DEF error
<1>3. CASE UNCHANGED vars
  BY <1>3 DEF vars, spine, actors, SpineInv, TypeOK, DepthOK, Open, PanelOutlasts, RowsHang,
              RecordsItsCall, Unpriced
<1> QED
  BY <1>1, <1>2, <1>3, EnterKeeps, ExitKeeps, WriteKeeps, FailKeeps, CancelKeeps DEF Next

\* The shared stack is balanced for any number of agents, in whatever order they
\* enter and leave their spans: nobody pops an empty list, the panel's span stays
\* at the bottom until the panel leaves it, and every row of an agent hangs under
\* a span.
THEOREM SpineIsBalanced == Spec => []StackBalanced
<1>1. SpineInv => StackBalanced
  BY DEF SpineInv, StackBalanced, DepthOK, Open, PanelOutlasts, RowsHang, Hangs
<1> QED BY <1>1, SpineInit, SpineNext, PTL DEF Spec

\* As many answers as are used and not priced, at most, as drops were counted:
\* the cost rollups never miss a call silently.
THEOREM NoCallIsLostSilently == Spec => []AnswersArePriced
<1>1. SpineInv => AnswersArePriced
  BY DEF SpineInv, AnswersArePriced, Unpriced
<1> QED BY <1>1, SpineInit, SpineNext, PTL DEF Spec

-----------------------------------------------------------------------------
(* Feedback *)

Decided == {"approved", "rejected"}

\* The types that the argument needs.
QueueTypeOK ==
    /\ items \in [Items -> [state : {"none", "open"} \cup Decided, priority : Nat,
                            decided_by : Operators \cup {"none"},
                            verdict : Verdicts \cup {"none"}]]
    /\ request \in [Operators -> [item : Items \cup {0},
                                  verdict : Verdicts \cup {"none"}]]
    /\ feedback \subseteq [id : Items, review : {ReviewOf[i] : i \in Items},
                           actor : Operators, verdict : Verdicts]

\* A decision under way is that of its item, and was taken.
RequestIsDecision ==
    \A o \in Operators : request[o] # NoRequest =>
        /\ request[o].item \in Items
        /\ request[o].verdict \in Verdicts
        /\ items[request[o].item].state \in Decided
        /\ items[request[o].item].decided_by = o
        /\ items[request[o].item].verdict = request[o].verdict

\* A row of feedback is about an item that was decided.
FeedbackIsDecided == \A r \in feedback : items[r.id].state \in Decided

\* FeedbackIsEarned is not inductive by itself: the row that RecordFeedback adds
\* is the decision of the item only because the request is, and a row stays true
\* only because Decide touches no item that was decided.
QueueInv == /\ QueueTypeOK
            /\ RequestIsDecision
            /\ FeedbackIsDecided
            /\ FeedbackIsEarned

\* The initial state satisfies the invariant.
LEMMA QueueInvInit == OperationsInit => QueueInv
BY OperationsAssumption
   DEF OperationsInit, QueueInit, QueueInv, QueueTypeOK, RequestIsDecision, FeedbackIsDecided,
       FeedbackIsEarned, NoRequest, Verdicts, Decided

\* Every step of the queue preserves it: the handlers of the dashboard one by one.
LEMMA QueueInvStep == QueueInv /\ QueueStep => QueueInv'
<1> SUFFICES ASSUME QueueInv, QueueStep PROVE QueueInv'
  OBVIOUS
<1> USE DEF QueueInv, QueueTypeOK, RequestIsDecision, FeedbackIsDecided, FeedbackIsEarned,
            NoRequest, Verdicts, Decided
<1>1. ASSUME NEW i \in Items, NEW p \in Priorities[i], EnqueueHitl(i, p) PROVE QueueInv'
  <2>1. /\ items' = [items EXCEPT ![i] = [state |-> "open", priority |-> p,
                                          decided_by |-> "none", verdict |-> "none"]]
        /\ feedback' = {r \in feedback : r.id # i}
        /\ lost' = lost \ {i}
        /\ UNCHANGED request
        /\ \A o \in Operators : request[o].item # i
    BY <1>1 DEF EnqueueHitl, Settled
  <2>2. p \in Nat
    BY OperationsAssumption
  <2>3. /\ QueueTypeOK'
        /\ \A j \in Items : j # i => items'[j] = items[j]
        /\ items'[i].state = "open"
    BY <2>1, <2>2
  <2>4. RequestIsDecision' /\ FeedbackIsDecided'
    BY <2>1, <2>3
  <2>5. FeedbackIsEarned'
    BY <2>1, <2>3
  <2> QED BY <2>3, <2>4, <2>5
<1>2. ASSUME NEW o \in Operators, Home(o) PROVE QueueInv'
  BY <1>2 DEF Home
<1>3. ASSUME NEW o \in Operators, NEW i \in Items, NEW v \in Verdicts,
             Decide(o, i, v)
      PROVE QueueInv'
  <2>1. CASE items[i].state = "open"
    <3>1. /\ items' = [items EXCEPT ![i] =
                         [state |-> IF v = "accepted" THEN "approved" ELSE "rejected",
                          priority |-> items[i].priority, decided_by |-> o, verdict |-> v]]
          /\ request' = [request EXCEPT ![o] = [item |-> i, verdict |-> v]]
          /\ request[o] = NoRequest
          /\ UNCHANGED <<feedback, lost>>
      BY <1>3, <2>1 DEF Decide, DecideIf
    <3>2. QueueTypeOK'
      BY <3>1
    <3>6. /\ items'[i].state \in Decided /\ items'[i].decided_by = o /\ items'[i].verdict = v
          /\ \A j \in Items : j # i => items'[j] = items[j]
          /\ request'[o] = [item |-> i, verdict |-> v]
          /\ \A p \in Operators : p # o => request'[p] = request[p]
          /\ feedback' = feedback /\ lost' = lost /\ 0 \notin Items
      BY <3>1, OperationsAssumption
    <3>7. items[i].state \notin Decided
      BY <2>1
    <3>3. RequestIsDecision'
      BY <3>6, <3>7
    <3>4. FeedbackIsDecided'
      BY <3>6
    <3>5. FeedbackIsEarned'
      <4>1. \A r \in feedback' : r.id # i /\ r.id \in Items
        BY <3>6, <3>7
      <4>2. ASSUME NEW j \in Items, items'[j].state \in Decided, j \notin lost'
            PROVE  \/ \E p \in Operators : request'[p].item = j
                   \/ \E r \in feedback' : r.id = j
        <5>1. CASE j = i
          BY <3>6, <5>1
        <5>2. CASE j # i
          <6>1. \A p \in Operators : request[p].item = j => p # o
            BY <3>1, <5>2, OperationsAssumption
          <6> QED BY <3>6, <4>2, <5>2, <6>1
        <5> QED BY <5>1, <5>2
      <4> QED BY <3>6, <4>1, <4>2
    <3> QED BY <3>2, <3>3, <3>4, <3>5
  <2>2. CASE items[i].state # "open"
    BY <1>3, <2>2 DEF Decide, DecideIf
  <2> QED BY <2>1, <2>2
<1>4. ASSUME NEW o \in Operators, RecordFeedback(o) PROVE QueueInv'
  <2> DEFINE row == [id |-> request[o].item, review |-> ReviewOf[request[o].item],
                     actor |-> o, verdict |-> request[o].verdict]
  <2>1. /\ request[o] # NoRequest
        /\ feedback' = feedback \cup {row}
        /\ request' = [request EXCEPT ![o] = NoRequest]
        /\ UNCHANGED <<items, lost>>
    BY <1>4 DEF RecordFeedback
  <2>2. /\ row \in [id : Items, review : {ReviewOf[i] : i \in Items},
                     actor : Operators, verdict : Verdicts]
        /\ row.id = request[o].item /\ row.review = ReviewOf[row.id]
        /\ row.actor = o /\ row.verdict = request[o].verdict
        /\ items[row.id].state \in Decided
        /\ items[row.id].decided_by = row.actor
        /\ items[row.id].verdict = row.verdict
    BY <2>1
  <2> HIDE DEF row
  <2>3. QueueTypeOK'
    BY <2>1, <2>2
  <2>4. RequestIsDecision'
    BY <2>1
  <2>5. FeedbackIsDecided'
    BY <2>1, <2>2
  <2>6. FeedbackIsEarned'
    <3>1. ASSUME NEW i \in Items, items[i].state \in Decided, i \notin lost,
                 \A r \in feedback' : r.id # i
          PROVE \E p \in Operators : request'[p].item = i
      BY <2>1, <2>2, <3>1
    <3> QED BY <2>1, <2>2, <3>1
  <2> QED BY <2>3, <2>4, <2>5, <2>6
<1>5. ASSUME NEW o \in Operators, FeedbackRefused(o) PROVE QueueInv'
  BY <1>5, OperationsAssumption DEF FeedbackRefused
<1>6. ASSUME Restart PROVE QueueInv'
  BY <1>6, OperationsAssumption DEF Restart
<1> HIDE DEF QueueInv
<1> QED
  BY <1>1, <1>2, <1>3, <1>4, <1>5, <1>6 DEF QueueStep, Respond

\* Whatever the migrations do, a row of feedback is the one decision of its item,
\* and a decision without one was cut off between the statements of decide().
THEOREM FeedbackEarned == OperationsSpec => []FeedbackIsEarned
<1>1. QueueInv /\ [OperationsNext]_ovars => QueueInv'
  <2> SUFFICES ASSUME QueueInv, [OperationsNext]_ovars PROVE QueueInv'
    OBVIOUS
  <2>1. CASE UNCHANGED qvars
    BY <2>1 DEF qvars, QueueInv, QueueTypeOK, RequestIsDecision, FeedbackIsDecided,
                FeedbackIsEarned
  <2>2. CASE QueueStep
    BY <2>2, QueueInvStep
  <2> QED BY <2>1, <2>2 DEF OperationsNext, ovars
<1>2. QueueInv => FeedbackIsEarned
  BY DEF QueueInv
<1> QED BY <1>1, <1>2, QueueInvInit, PTL DEF OperationsSpec

-----------------------------------------------------------------------------
(* The ledger *)

MigrateTypeOK ==
    /\ ledger \subseteq DOMAIN Files
    /\ runner \in [file : DOMAIN Files \cup {0}, todo : Seq(Seq(STRING)), open : BOOLEAN]

\* The runner has n statements of its file behind it: the others are what it has
\* to do, and what one of the n made for good is there.
Behind(n) ==
    LET S == Statements[runner.file]
    IN /\ Len(runner.todo) = Len(S) - n
       /\ \A i \in 1..Len(runner.todo) : runner.todo[i] = S[n + i]
       /\ \A c \in Creates[runner.file] : \A k \in 1..n :
              MakesForGood(runner.file, k, c) => c \in schema

\* A file that is open is not recorded, so its DROP takes nothing from the ledger.
OpenIsUnrecorded ==
    runner.open => /\ runner.file \in DOMAIN Files \ ledger
                   /\ \E n \in 0..Len(Statements[runner.file]) : Behind(n)

\* LedgerIsTrue is not inductive by itself: Record enters a file because every
\* statement of it ran since the last Look, by whatever path the runner got there.
LedgerInv == MigrateTypeOK /\ OpenIsUnrecorded /\ LedgerIsTrue

\* The initial state satisfies the invariant.
LEMMA LedgerInvInit == OperationsInit => LedgerInv
BY DEF OperationsInit, MigrateInit, NoRunner, LedgerInv, MigrateTypeOK, OpenIsUnrecorded, LedgerIsTrue

\* What Head and Tail return.
LEMMA TailFacts ==
    ASSUME NEW T, NEW s \in Seq(T), s # <<>>
    PROVE  /\ Tail(s) \in Seq(T) /\ Len(s) \in Nat \ {0}
           /\ Head(s) = s[1] /\ Len(Tail(s)) = Len(s) - 1
           /\ \A i \in 1..Len(Tail(s)) : Tail(s)[i] = s[i + 1]
OBVIOUS

\* The runner that is at no file, and the one that goes on to the next file.
LEMMA AdvanceIsClosed ==
    ASSUME MigrateTypeOK, runner.file # 0
    PROVE  /\ Advance \in [file : DOMAIN Files \cup {0}, todo : Seq(Seq(STRING)), open : BOOLEAN]
           /\ ~Advance.open
<1>1. runner.file \in 1..Len(Files) /\ Len(Files) \in Nat
  BY FilesAssumption DEF MigrateTypeOK
<1>2. <<>> \in Seq(Seq(STRING)) /\ DOMAIN Files = 1..Len(Files)
  BY FilesAssumption
<1>3. runner.file # Len(Files) => runner.file + 1 \in DOMAIN Files
  BY <1>1, <1>2
<1> QED BY <1>2, <1>3 DEF Advance, NoRunner

\* Every step of the runner preserves it.
LEMMA LedgerInvStep == LedgerInv /\ (MigrateStep \/ Die) => LedgerInv'
<1> SUFFICES ASSUME LedgerInv, MigrateStep \/ Die PROVE LedgerInv'
  OBVIOUS
<1> USE DEF LedgerInv
<1>1. CASE Start
  <2>1. 1 \in DOMAIN Files \/ Files = <<>>
    BY FilesAssumption
  <2>2. Files # <<>>
    <3>1. ledger # DOMAIN Files /\ ledger \subseteq DOMAIN Files
      BY <1>1 DEF Start, MigrateTypeOK
    <3>2. DOMAIN <<>> = {}
      OBVIOUS
    <3> QED BY <3>1, <3>2
  <2> QED
    BY <1>1, <2>1, <2>2 DEF Start, NoRunner, MigrateTypeOK, OpenIsUnrecorded, LedgerIsTrue
<1>2. CASE Look
  <2>1. CASE runner.file \in ledger
    BY <1>2, <2>1, AdvanceIsClosed DEF Look, MigrateTypeOK, OpenIsUnrecorded, LedgerIsTrue
  <2>2. CASE runner.file \notin ledger
    <3>1. /\ runner' = [runner EXCEPT !.open = TRUE, !.todo = Statements[runner.file]]
          /\ runner.file \in DOMAIN Files
          /\ UNCHANGED <<schema, ledger>>
      BY <1>2, <2>2 DEF Look, MigrateTypeOK
    <3>2. Statements[runner.file] \in Seq(Seq(STRING))
      BY <3>1, FilesAssumption
    <3>3. MigrateTypeOK' /\ LedgerIsTrue'
      BY <3>1, <3>2 DEF MigrateTypeOK, LedgerIsTrue
    <3>4. runner'.todo = Statements[runner.file] /\ runner'.file = runner.file
      BY <3>1 DEF MigrateTypeOK
    <3>5. Behind(0)'
      BY <3>2, <3>4 DEF Behind
    <3>6. 0 \in 0..Len(Statements[runner'.file])
      BY <3>2, <3>4
    <3>7. OpenIsUnrecorded'
      BY <3>1, <3>4, <3>5, <3>6, <2>2 DEF OpenIsUnrecorded
    <3> QED BY <3>3, <3>7
  <2> QED BY <2>1, <2>2
<1>3. CASE Execute
  <2> DEFINE f == runner.file
             S == Statements[f]
             stmt == Head(runner.todo)
  <2>1. CASE Fails(stmt)
    <3>1. runner' = NoRunner /\ UNCHANGED <<schema, ledger>>
      BY <1>3, <2>1 DEF Execute
    <3> QED BY <3>1 DEF NoRunner, MigrateTypeOK, OpenIsUnrecorded, LedgerIsTrue
  <2>2. CASE ~Fails(stmt)
    <3>1. /\ runner.open /\ runner.todo # <<>>
          /\ runner' = [runner EXCEPT !.todo = Tail(@)]
          /\ schema' = (schema \ Drops(stmt)) \cup Makes(stmt)
          /\ UNCHANGED ledger
      BY <1>3, <2>2 DEF Execute, Effect
    <3> HIDE DEF f, S, stmt
    <3>2. f \in DOMAIN Files \ ledger /\ S \in Seq(Seq(STRING)) /\ runner.todo \in Seq(Seq(STRING))
      BY <3>1, FilesAssumption DEF OpenIsUnrecorded, MigrateTypeOK, f, S
    <3>3. PICK n \in 0..Len(S) : Behind(n)
      BY <3>1 DEF OpenIsUnrecorded, f, S
    <3>4. /\ Len(runner.todo) = Len(S) - n
          /\ \A i \in 1..Len(runner.todo) : runner.todo[i] = S[n + i]
          /\ \A c \in Creates[f] : \A k \in 1..n : MakesForGood(f, k, c) => c \in schema
      BY <3>3 DEF Behind, f, S
    <3>0. /\ Tail(runner.todo) \in Seq(Seq(STRING)) /\ Len(runner.todo) \in Nat \ {0}
          /\ stmt = runner.todo[1] /\ Len(Tail(runner.todo)) = Len(runner.todo) - 1
          /\ \A i \in 1..Len(Tail(runner.todo)) : Tail(runner.todo)[i] = runner.todo[i + 1]
      <4> HIDE DEF LedgerInv
      <4> QED BY <3>1, <3>2, TailFacts DEF stmt
    <3>5. n + 1 \in 1..Len(S) /\ stmt = S[n + 1] /\ Len(S) \in Nat
      BY <3>0, <3>2, <3>3, <3>4
    <3>6. /\ runner' \in [file : DOMAIN Files \cup {0}, todo : Seq(Seq(STRING)), open : BOOLEAN]
          /\ runner'.file = f /\ runner'.open /\ runner'.todo = Tail(runner.todo)
      BY <3>0, <3>1, <3>2 DEF MigrateTypeOK, f
    <3>7. MigrateTypeOK'
      BY <3>1, <3>6 DEF MigrateTypeOK
    <3>8. LedgerIsTrue'
      <4> SUFFICES ASSUME NEW g \in ledger, NEW c \in Creates[g] PROVE c \in schema'
        BY <3>1 DEF LedgerIsTrue
      <4>1. g \in DOMAIN Files /\ f # g /\ c \in schema
        BY <3>2 DEF MigrateTypeOK, LedgerIsTrue
      <4>2. c \notin Drops(stmt)
        <5>1. f \in DOMAIN Files \ {g} /\ n + 1 \in DOMAIN Statements[f]
          BY <4>1, <3>2, <3>5 DEF S
        <5>2. c \notin Drops(Statements[f][n + 1])
          BY <4>1, <5>1, FilesAssumption
        <5> QED BY <5>2, <3>5 DEF S
      <4> QED BY <4>1, <4>2, <3>1
    <3>9. ASSUME NEW c \in Creates[f], NEW k \in 1..(n + 1), MakesForGood(f, k, c)
          PROVE  c \in schema'
      <4>1. CASE k = n + 1
        BY <3>1, <3>5, <3>9, <4>1 DEF MakesForGood, S
      <4>2. CASE k \in 1..n
        <5>1. c \in schema
          BY <3>4, <3>9, <4>2
        <5>2. n + 1 \in (k + 1)..Len(S)
          BY <4>2, <3>5, <3>3
        <5>3. c \notin Drops(stmt)
          BY <5>2, <3>5, <3>9 DEF MakesForGood, S
        <5> QED BY <5>1, <5>3, <3>1
      <4> QED BY <4>1, <4>2
    <3>10. /\ Len(runner'.todo) = Len(S) - (n + 1)
           /\ \A i \in 1..Len(runner'.todo) : runner'.todo[i] = S[(n + 1) + i]
      <4>1. Len(Tail(runner.todo)) = Len(S) - (n + 1)
        BY <3>0, <3>3, <3>4, <3>5
      <4>2. ASSUME NEW i \in 1..Len(Tail(runner.todo))
            PROVE  Tail(runner.todo)[i] = S[(n + 1) + i]
        <5>1. i + 1 \in 1..Len(runner.todo) /\ n + (i + 1) = (n + 1) + i
          BY <3>0, <3>3
        <5>2. Tail(runner.todo)[i] = runner.todo[i + 1]
          BY <3>0
        <5>3. runner.todo[i + 1] = S[n + (i + 1)]
          BY <5>1, <3>4
        <5> QED BY <5>1, <5>2, <5>3
      <4> QED BY <4>1, <4>2, <3>6
    <3>11. Behind(n + 1)'
      BY <3>6, <3>9, <3>10 DEF Behind, S
    <3>12. OpenIsUnrecorded'
      BY <3>1, <3>2, <3>5, <3>6, <3>11 DEF OpenIsUnrecorded, S
    <3> QED BY <3>7, <3>8, <3>12
  <2> QED BY <2>1, <2>2
<1>4. CASE Record
  <2>1. /\ runner.open /\ runner.todo = <<>>
        /\ ledger' = ledger \cup {runner.file} /\ runner' = Advance /\ UNCHANGED schema
    BY <1>4 DEF Record
  <2>2. runner.file \in DOMAIN Files /\ runner.file # 0
    BY <2>1, FilesAssumption DEF OpenIsUnrecorded
  <2>3. PICK n \in 0..Len(Statements[runner.file]) : Behind(n)
    BY <2>1 DEF OpenIsUnrecorded
  <2>4. Statements[runner.file] \in Seq(Seq(STRING))
    BY <2>2, FilesAssumption
  <2>5. n = Len(Statements[runner.file])
    BY <2>1, <2>3, <2>4 DEF Behind
  <2>6. Creates[runner.file] \subseteq schema
    <3> SUFFICES ASSUME NEW c \in Creates[runner.file] PROVE c \in schema
      OBVIOUS
    <3>1. PICK k \in DOMAIN Statements[runner.file] : MakesForGood(runner.file, k, c)
      BY <2>2, FilesAssumption
    <3>2. k \in 1..n
      BY <2>4, <2>5, <3>1
    <3> QED BY <3>1, <3>2, <2>3 DEF Behind
  <2>7. LedgerIsTrue'
    BY <2>1, <2>6 DEF LedgerIsTrue
  <2>8. MigrateTypeOK' /\ ~runner'.open
    BY <2>1, <2>2, AdvanceIsClosed DEF MigrateTypeOK
  <2> QED BY <2>7, <2>8 DEF OpenIsUnrecorded
<1>5. CASE Die
  BY <1>5 DEF Die, NoRunner, MigrateTypeOK, OpenIsUnrecorded, LedgerIsTrue
<1> QED BY <1>1, <1>2, <1>3, <1>4, <1>5 DEF MigrateStep

\* However often the runner dies and wherever, what a recorded file is there to
\* create exists, whatever the files are and in whatever order they come.
THEOREM LedgerHolds == OperationsSpec => []LedgerIsTrue
<1>1. LedgerInv /\ [OperationsNext]_ovars => LedgerInv'
  <2> SUFFICES ASSUME LedgerInv, [OperationsNext]_ovars PROVE LedgerInv'
    OBVIOUS
  <2>1. CASE UNCHANGED mvars
    BY <2>1 DEF mvars, LedgerInv, MigrateTypeOK, OpenIsUnrecorded, Behind, LedgerIsTrue
  <2>2. CASE MigrateStep \/ Die
    BY <2>2, LedgerInvStep
  <2> QED BY <2>1, <2>2 DEF OperationsNext, ovars
<1>2. LedgerInv => LedgerIsTrue
  BY DEF LedgerInv
<1> QED BY <1>1, <1>2, LedgerInvInit, PTL DEF OperationsSpec

=============================================================================
