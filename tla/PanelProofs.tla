----------------------------- MODULE PanelProofs -----------------------------
(***************************************************************************)
(* The panel implements FanOut, for any number of panels, agents and       *)
(* attempts and any costs and caps: the safety part of KeepsPromise.  That *)
(* every agent does answer is checked by TLC only.  And by how much agents *)
(* that run together may spend beyond the budget's caps.                   *)
(*                                                                         *)
(* Then what an agent may cite, for diffs of any length: the parser, the   *)
(* prompt's gutter and GitHub number lines alike, and the grounding filter *)
(* puts a claim on a line of the diff or drops it.  The loops of diff.py   *)
(* are folds, followed line by line with FoldChain.                        *)
(***************************************************************************)
EXTENDS Panel, GroundingMC, FanInProofs, SequenceTheorems

\* An agent is done exactly when it has a verdict.
DoneIsAnswered ==
    /\ panel \in [Panels -> {"new", "running", "done"}]
    /\ at \in [Panels -> [Agents -> {"ready", "calling", "backoff", "recording", "done"}]]
    /\ verdict \in [Panels -> [Agents -> VerdictStatus \cup {"none"}]]
    /\ \A p \in Panels : \A a \in Agents :
          verdict[p][a] = "none" <=> at[p][a] # "done"

\* Answering is an answer of FanOut and keeps the invariant.
LEMMA AnsweredIsAnswer ==
    ASSUME DoneIsAnswered, NEW p \in Panels, NEW a \in Agents, NEW s \in VerdictStatus,
           at[p][a] # "done", Answered(p, a, s), UNCHANGED panel
    PROVE  DoneIsAnswered' /\ Promise!Answer(p, a)
<1>1. verdict[p][a] = "none" /\ s # "none"
  BY DEF DoneIsAnswered, VerdictStatus
<1>2. Promise!Answer(p, a)
  BY <1>1 DEF Answered, Promise!Answer, Promise!VerdictStatus, VerdictStatus
<1>3. DoneIsAnswered'
  BY <1>1 DEF Answered, DoneIsAnswered
<1> QED BY <1>2, <1>3

\* Moving an agent that is not done leaves FanOut where it is.
LEMMA MovingStutters ==
    ASSUME DoneIsAnswered, NEW p \in Panels, NEW a \in Agents,
           NEW s \in {"calling", "backoff", "recording"}, at[p][a] # "done",
           at' = [at EXCEPT ![p][a] = s], UNCHANGED <<panel, verdict>>
    PROVE  DoneIsAnswered' /\ UNCHANGED Promise!vars
<1>1. DoneIsAnswered'
  BY DEF DoneIsAnswered
<1> QED BY <1>1 DEF Promise!vars

\* Every step of the panel is a step of FanOut or none.
LEMMA StepRefines ==
    ASSUME DoneIsAnswered, [Next]_vars
    PROVE  DoneIsAnswered' /\ [Promise!Next]_(Promise!vars)
<1> USE DEF agents
<1>0. "failed" \in VerdictStatus /\ "ok" \in VerdictStatus
      /\ "timeout" \in VerdictStatus /\ "budget_denied" \in VerdictStatus
  BY DEF VerdictStatus
<1>1. ASSUME NEW p \in Panels, NEW read \in BOOLEAN, Load(p, read)
      PROVE  DoneIsAnswered' /\ UNCHANGED Promise!vars
  BY <1>1 DEF Load, DoneIsAnswered, Promise!vars
<1>2. ASSUME NEW p \in Panels, Return(p)
      PROVE  DoneIsAnswered' /\ Promise!Return(p)
  BY <1>2 DEF Return, DoneIsAnswered, Promise!Return
<1>3. ASSUME NEW p \in Panels, NEW a \in Agents, NEW open \in BOOLEAN,
             Call(p, a, open), UNCHANGED panel, at[p][a] # "done"
      PROVE  DoneIsAnswered' /\ (Promise!Answer(p, a) \/ UNCHANGED Promise!vars)
  BY <1>0, <1>3, AnsweredIsAnswer, MovingStutters DEF Call
<1>4. ASSUME NEW p \in Panels, NEW a \in Agents, Step(p, a)
      PROVE  DoneIsAnswered' /\ (Promise!Answer(p, a) \/ UNCHANGED Promise!vars)
  <2>1. ASSUME NEW open \in BOOLEAN, Begin(p, a, open)
        PROVE  DoneIsAnswered' /\ (Promise!Answer(p, a) \/ UNCHANGED Promise!vars)
    BY <1>0, <1>3, <2>1, AnsweredIsAnswer DEF Begin
  <2>2. ASSUME NEW open \in BOOLEAN, Again(p, a, open)
        PROVE  DoneIsAnswered' /\ (Promise!Answer(p, a) \/ UNCHANGED Promise!vars)
    BY <1>3, <2>2 DEF Again
  <2>3. ASSUME NEW cost \in Costs, Respond(p, a, cost)
        PROVE  DoneIsAnswered' /\ (Promise!Answer(p, a) \/ UNCHANGED Promise!vars)
    BY <2>3, MovingStutters DEF Respond
  <2>4. CASE RaiseLLMError(p, a)
    BY <1>0, <2>4, AnsweredIsAnswer, MovingStutters DEF RaiseLLMError
  <2>5. CASE GiveUp(p, a)
    BY <1>0, <2>5, AnsweredIsAnswer DEF GiveUp
  <2>6. ASSUME NEW written \in BOOLEAN, NEW parsed \in BOOLEAN, Record(p, a, written, parsed)
        PROVE  DoneIsAnswered' /\ (Promise!Answer(p, a) \/ UNCHANGED Promise!vars)
    BY <1>0, <2>6, AnsweredIsAnswer DEF Record
  <2>7. CASE TimeOut(p, a)
    BY <1>0, <2>7, AnsweredIsAnswer DEF TimeOut
  <2> QED BY <1>4, <2>1, <2>2, <2>3, <2>4, <2>5, <2>6, <2>7 DEF Step
<1>5. CASE UNCHANGED vars
  BY <1>5 DEF vars, DoneIsAnswered, Promise!vars
<1> QED BY <1>1, <1>2, <1>4, <1>5 DEF Next, Promise!Next

\* Safety of KeepsPromise: whatever the provider, the breaker, the budget and
\* the timeouts do, each agent answers at most once, its answer is final, and a
\* panel that returned has all its answers.
THEOREM PanelIsAFanOut == Spec => Promise!Init /\ [][Promise!Next]_(Promise!vars)
<1>1. Init => DoneIsAnswered /\ Promise!Init
  BY DEF Init, DoneIsAnswered, Promise!Init
<1>2. DoneIsAnswered /\ [Next]_vars => DoneIsAnswered' /\ [Promise!Next]_(Promise!vars)
  BY StepRefines
<1> QED BY <1>1, <1>2, PTL DEF Spec

-----------------------------------------------------------------------------
(* The caps *)

\* What the caps allow a panel with this guard, these calls in flight and at most so
\* many ever together.
WithinReach(g, calls, most) ==
    most > 0 =>
        /\ g.review_spent + Estimate * calls <= ReviewCap + Estimate * (most - 1)
        /\ g.day_spent + g.review_spent + Estimate * calls <= DailyCap + Estimate * (most - 1)

GuardType == [day_spent : Nat, review_spent : Nat]

\* What is charged and the calls in flight, in every state.  The day's figure is
\* read while the panel is new, when no agent has started.
CapsInv ==
    /\ TypeOK
    /\ \A p \in Panels :
          /\ panel[p] = "new" => together[p] = 0 /\ \A a \in Agents : at[p][a] = "ready"
          /\ Cardinality(in_flight(at[p])) <= together[p]
          /\ WithinReach(guard[p], Cardinality(in_flight(at[p])), together[p])
          /\ \A a \in Agents : /\ at[p][a] = "ready" => tries[p][a] = 0
                               /\ at[p][a] = "backoff" => tries[p][a] < Attempts

\* One worst case more, and no less for more calls.
LEMMA WorstCases ==
    ASSUME NEW m \in Nat, NEW n \in Nat, m <= n
    PROVE  /\ Estimate * m \in Nat /\ Estimate * m <= Estimate * n
           /\ Estimate * (m + 1) = Estimate * m + Estimate
<1>1. Estimate \in Nat
  BY PanelAssumption
<1>2. PICK d \in Nat : n = m + d
  <2>1. n - m \in Nat /\ n = m + (n - m)
    OBVIOUS
  <2> QED BY <2>1
<1>3. Estimate * n = Estimate * m + Estimate * d /\ Estimate * d \in Nat
  BY <1>1, <1>2
<1> QED BY <1>1, <1>3

\* A call that ends without a charge.
LEMMA EndingIsWithinReach ==
    ASSUME NEW g \in GuardType, NEW c \in Nat, NEW d \in Nat, NEW m \in Nat,
           WithinReach(g, c, m), d <= c
    PROVE  WithinReach(g, d, m)
<1> SUFFICES ASSUME m > 0
             PROVE  /\ g.review_spent + Estimate * d <= ReviewCap + Estimate * (m - 1)
                    /\ g.day_spent + g.review_spent + Estimate * d <= DailyCap + Estimate * (m - 1)
  BY DEF WithinReach
<1> DEFINE over == Estimate * (m - 1)
<1>1. /\ g.review_spent + Estimate * c <= ReviewCap + over
      /\ g.day_spent + g.review_spent + Estimate * c <= DailyCap + over
  BY DEF WithinReach
<1>2. over \in Nat /\ Estimate * c \in Nat /\ Estimate * d \in Nat /\ Estimate * d <= Estimate * c
  BY WorstCases
<1>3. g.review_spent \in Nat /\ g.day_spent \in Nat /\ ReviewCap \in Nat /\ DailyCap \in Nat
  BY PanelAssumption DEF GuardType
<1> HIDE DEF over
<1>4. g.review_spent + Estimate * d <= ReviewCap + over
      /\ g.day_spent + g.review_spent + Estimate * d <= DailyCap + over
  BY <1>1, <1>2, <1>3
<1> QED BY <1>4 DEF over

\* A call that ends with a charge: at most the worst case that it stood for.
LEMMA ChargingIsWithinReach ==
    ASSUME NEW g \in GuardType, NEW h \in GuardType, NEW c \in Nat, NEW m \in Nat,
           NEW cost \in Costs, WithinReach(g, c + 1, m),
           h.day_spent = g.day_spent, h.review_spent = g.review_spent + cost
    PROVE  WithinReach(h, c, m)
<1> SUFFICES ASSUME m > 0
             PROVE  /\ h.review_spent + Estimate * c <= ReviewCap + Estimate * (m - 1)
                    /\ h.day_spent + h.review_spent + Estimate * c <= DailyCap + Estimate * (m - 1)
  BY DEF WithinReach
<1> DEFINE over == Estimate * (m - 1)
<1>1. /\ g.review_spent + Estimate * (c + 1) <= ReviewCap + over
      /\ g.day_spent + g.review_spent + Estimate * (c + 1) <= DailyCap + over
  BY DEF WithinReach
<1>2. over \in Nat /\ Estimate * c \in Nat /\ Estimate * (c + 1) = Estimate * c + Estimate
  BY WorstCases
<1>3. g.review_spent \in Nat /\ g.day_spent \in Nat /\ cost \in Nat /\ cost <= Estimate
      /\ ReviewCap \in Nat /\ DailyCap \in Nat /\ Estimate \in Nat
  BY PanelAssumption, WorstCaseAssumption DEF GuardType
<1> HIDE DEF over
<1>4. h.review_spent + Estimate * c <= ReviewCap + over
      /\ h.day_spent + h.review_spent + Estimate * c <= DailyCap + over
  BY <1>1, <1>2, <1>3
<1> QED BY <1>4 DEF over

\* A call that the check lets through beside c others.
LEMMA AdmittingIsWithinReach ==
    ASSUME NEW g \in GuardType, NEW c \in Nat, NEW m \in Nat, Check(g), c + 1 <= m
    PROVE  WithinReach(g, c + 1, m)
<1> DEFINE over == Estimate * (m - 1)
<1>1. over \in Nat /\ Estimate * c <= over /\ Estimate * c \in Nat
      /\ Estimate * (c + 1) = Estimate * c + Estimate
  <2>1. m - 1 \in Nat /\ c <= m - 1
    OBVIOUS
  <2> QED BY <2>1, WorstCases
<1>2. g.review_spent \in Nat /\ g.day_spent \in Nat /\ ReviewCap \in Nat /\ DailyCap \in Nat
      /\ Estimate \in Nat
  BY PanelAssumption DEF GuardType
<1> HIDE DEF over
<1>3. /\ g.review_spent + Estimate * (c + 1) <= ReviewCap + over
      /\ g.day_spent + g.review_spent + Estimate * (c + 1) <= DailyCap + over
  BY <1>1, <1>2 DEF Check
<1> QED BY <1>3 DEF WithinReach, over

LEMMA CapsInitially == Init => CapsInv
<1> SUFFICES ASSUME Init PROVE CapsInv
  OBVIOUS
<1>1. TypeOK
  BY PanelAssumption DEF Init, TypeOK
<1>2. ASSUME NEW p \in Panels
      PROVE  in_flight(at[p]) = {} /\ together[p] = 0
  BY <1>2 DEF Init, in_flight
<1>3. Cardinality({}) = 0
  BY FS_EmptySet
<1>4. \A p \in Panels : Cardinality(in_flight(at[p])) = 0 /\ together[p] = 0
  BY <1>2, <1>3
<1>5. \A p \in Panels : \A a \in Agents : at[p][a] = "ready" /\ tries[p][a] = 0
  BY DEF Init
<1> QED BY <1>1, <1>4, <1>5 DEF CapsInv, WithinReach

\* The calls in flight are finitely many.
LEMMA FlightCount ==
    ASSUME NEW p \in Panels, NEW a \in Agents
    PROVE  /\ Cardinality(in_flight(at[p])) \in Nat
           /\ Cardinality(in_flight(at[p]) \cup {a}) \in Nat
           /\ Cardinality(in_flight(at[p]) \ {a}) \in Nat
           /\ Cardinality(in_flight(at[p]) \ {a}) <= Cardinality(in_flight(at[p]))
           /\ a \notin in_flight(at[p]) =>
                 Cardinality(in_flight(at[p]) \cup {a}) = Cardinality(in_flight(at[p])) + 1
           /\ a \in in_flight(at[p]) =>
                 Cardinality(in_flight(at[p]) \ {a}) = Cardinality(in_flight(at[p])) - 1
<1> DEFINE F == in_flight(at[p])
<1>1. IsFiniteSet(F)
  <2>1. IsFiniteSet(Agents) /\ F \subseteq Agents
    BY PanelAssumption DEF in_flight
  <2> QED BY <2>1, FS_Subset
<1> HIDE DEF F
<1>2. Cardinality(F) \in Nat
  BY <1>1, FS_CardinalityType
<1>3. /\ a \notin F => Cardinality(F \cup {a}) = Cardinality(F) + 1
      /\ a \in F => F \cup {a} = F
      /\ a \notin F => F \ {a} = F
  BY <1>1, FS_AddElement
<1>4. a \in F => IsFiniteSet(F \ {a}) /\ Cardinality(F \ {a}) = Cardinality(F) - 1
  BY <1>1, FS_RemoveElement
<1>5. a \in F => Cardinality(F \ {a}) \in Nat
  BY <1>4, FS_CardinalityType
<1>6. /\ Cardinality(F) \in Nat /\ Cardinality(F \cup {a}) \in Nat /\ Cardinality(F \ {a}) \in Nat
      /\ Cardinality(F \ {a}) <= Cardinality(F)
      /\ a \notin F => Cardinality(F \cup {a}) = Cardinality(F) + 1
      /\ a \in F => Cardinality(F \ {a}) = Cardinality(F) - 1
  BY <1>2, <1>3, <1>4, <1>5
<1> QED BY <1>6 DEF F

\* They follow where an agent moves.
LEMMA FlightMove ==
    ASSUME TypeOK, NEW p \in Panels, NEW a \in Agents,
           NEW s \in {"calling", "backoff", "recording", "done"},
           at' = [at EXCEPT ![p][a] = s]
    PROVE  /\ \A q \in Panels \ {p} : in_flight(at'[q]) = in_flight(at[q]) /\ at'[q] = at[q]
           /\ \A b \in Agents : at'[p][b] = IF b = a THEN s ELSE at[p][b]
           /\ in_flight(at'[p]) = IF s \in {"calling", "backoff"} THEN in_flight(at[p]) \cup {a}
                                 ELSE in_flight(at[p]) \ {a}
           /\ at' \in [Panels -> [Agents -> {"ready", "calling", "backoff", "recording", "done"}]]
<1>1. at \in [Panels -> [Agents -> {"ready", "calling", "backoff", "recording", "done"}]]
  BY DEF TypeOK
<1>2. /\ \A q \in Panels \ {p} : at'[q] = at[q]
      /\ \A b \in Agents : at'[p][b] = IF b = a THEN s ELSE at[p][b]
      /\ at' \in [Panels -> [Agents -> {"ready", "calling", "backoff", "recording", "done"}]]
  BY <1>1
<1>3. \A q \in Panels \ {p} : in_flight(at'[q]) = in_flight(at[q])
  BY <1>2 DEF in_flight
<1>4. in_flight(at'[p]) = IF s \in {"calling", "backoff"} THEN in_flight(at[p]) \cup {a}
                      ELSE in_flight(at[p]) \ {a}
  BY <1>2 DEF in_flight
<1> QED BY <1>2, <1>3, <1>4

\* An agent that has started answers, without a charge.
LEMMA AnswerKeepsCaps ==
    ASSUME CapsInv, NEW p \in Panels, NEW a \in Agents, NEW s \in VerdictStatus,
           panel[p] # "new", Answered(p, a, s), UNCHANGED <<panel, guard, together>>,
           events' \in Nat
    PROVE  CapsInv'
<1>1. TypeOK
  BY DEF CapsInv
<1>2. TypeOK'
  <2>1. tries' \in [Panels -> [Agents -> 0..Attempts]]
    BY <1>1, PanelAssumption DEF TypeOK, Answered
  <2>2. owed' \in [Panels -> [Agents -> Costs \cup {0}]]
    BY <1>1 DEF TypeOK, Answered
  <2>3. at' \in [Panels -> [Agents -> {"ready", "calling", "backoff", "recording", "done"}]]
    BY <1>1 DEF TypeOK, Answered
  <2>4. verdict' \in [Panels -> [Agents -> VerdictStatus \cup {"none"}]]
    BY <1>1 DEF TypeOK, Answered
  <2> QED BY <1>1, <2>1, <2>2, <2>3, <2>4 DEF TypeOK
<1>3. /\ \A q \in Panels \ {p} : in_flight(at'[q]) = in_flight(at[q]) /\ at'[q] = at[q]
      /\ \A b \in Agents : at'[p][b] = IF b = a THEN "done" ELSE at[p][b]
      /\ Cardinality(in_flight(at[p])) \in Nat /\ Cardinality(in_flight(at'[p])) \in Nat
      /\ Cardinality(in_flight(at'[p])) <= Cardinality(in_flight(at[p]))
  <2>1. at' = [at EXCEPT ![p][a] = "done"]
    BY DEF Answered
  <2>2. /\ \A q \in Panels \ {p} : in_flight(at'[q]) = in_flight(at[q]) /\ at'[q] = at[q]
        /\ \A b \in Agents : at'[p][b] = IF b = a THEN "done" ELSE at[p][b]
        /\ in_flight(at'[p]) = in_flight(at[p]) \ {a}
    BY <1>1, <2>1, FlightMove
  <2> QED BY <2>2, FlightCount
<1>4. guard[p] \in GuardType /\ together[p] \in Nat
  BY <1>1 DEF TypeOK, GuardType
<1>5. WithinReach(guard[p], Cardinality(in_flight(at'[p])), together[p])
  BY <1>3, <1>4, EndingIsWithinReach DEF CapsInv
<1>6. Cardinality(in_flight(at'[p])) <= together[p]
  BY <1>3, <1>4 DEF CapsInv
<1>7. \A q \in Panels : \A b \in Agents :
         tries'[q][b] = IF q = p /\ b = a THEN 0 ELSE tries[q][b]
  BY <1>1 DEF TypeOK, Answered
<1> QED BY <1>2, <1>3, <1>5, <1>6, <1>7 DEF CapsInv

\* The call that a check, or an earlier attempt, let through.
LEMMA CallKeepsCaps ==
    ASSUME CapsInv, NEW p \in Panels, NEW a \in Agents, NEW open \in BOOLEAN,
           panel[p] # "new", tries[p][a] < Attempts,
           at[p][a] = "backoff" \/ (at[p][a] = "ready" /\ Check(guard[p])),
           Call(p, a, open), UNCHANGED <<panel, guard, events>>
    PROVE  CapsInv'
<1>0. TypeOK /\ events' \in Nat
  BY DEF CapsInv, TypeOK
<1>1. CASE open
  BY <1>0, <1>1, AnswerKeepsCaps DEF Call, VerdictStatus
<1>2. CASE ~open
  <2> DEFINE c == Cardinality(in_flight(at[p]))
             calls == Cardinality(in_flight(at[p]) \cup {a})
             most == IF calls > together[p] THEN calls ELSE together[p]
  <2>1. /\ at' = [at EXCEPT ![p][a] = "calling"]
        /\ tries' = [tries EXCEPT ![p] = [tries[p] EXCEPT ![a] = tries[p][a] + 1]]
        /\ together' = [together EXCEPT ![p] = most]
        /\ verdict' = verdict /\ owed' = owed
    BY <1>2 DEF Call
  <2>2. c \in Nat /\ calls \in Nat /\ together[p] \in Nat /\ most \in Nat /\ calls <= most
        /\ together[p] <= most /\ guard[p] \in GuardType
    <3>1. c \in Nat /\ calls \in Nat
      BY FlightCount
    <3>2. together[p] \in Nat /\ guard[p] \in GuardType
      BY <1>0 DEF TypeOK, GuardType
    <3> QED BY <3>1, <3>2
  <2>3. /\ \A q \in Panels \ {p} : in_flight(at'[q]) = in_flight(at[q]) /\ at'[q] = at[q]
        /\ \A b \in Agents : at'[p][b] = IF b = a THEN "calling" ELSE at[p][b]
        /\ in_flight(at'[p]) = in_flight(at[p]) \cup {a}
    BY <1>0, <2>1, FlightMove
  <2>4. WithinReach(guard[p], calls, most)
    <3>1. CASE at[p][a] = "backoff"
      <4>1. in_flight(at[p]) \cup {a} = in_flight(at[p])
        BY <3>1 DEF in_flight
      <4>2. calls <= together[p] /\ WithinReach(guard[p], calls, together[p])
        BY <4>1 DEF CapsInv
      <4>3. most = together[p]
        BY <2>2, <4>2
      <4> QED BY <4>2, <4>3
    <3>2. CASE at[p][a] = "ready" /\ Check(guard[p])
      <4>1. a \notin in_flight(at[p])
        BY <3>2 DEF in_flight
      <4>2. calls = c + 1
        BY <4>1, FlightCount
      <4> HIDE DEF calls, most, c
      <4> QED BY <2>2, <3>2, <4>2, AdmittingIsWithinReach
    <3> QED BY <3>1, <3>2
  <2> HIDE DEF calls, most, c
  <2>5. Cardinality(in_flight(at'[p])) = calls
    BY <2>3 DEF calls
  <2>6. together'[p] = most /\ \A q \in Panels \ {p} : together'[q] = together[q]
    BY <1>0, <2>1 DEF TypeOK
  <2>7. TypeOK'
    <3>1. tries \in [Panels -> [Agents -> 0..Attempts]] /\ tries[p][a] + 1 \in 0..Attempts
      BY <1>0, PanelAssumption DEF TypeOK
    <3>2. [tries[p] EXCEPT ![a] = tries[p][a] + 1] \in [Agents -> 0..Attempts]
      BY <3>1
    <3>3. tries' \in [Panels -> [Agents -> 0..Attempts]]
      BY <2>1, <3>1, <3>2
    <3>4. at' \in [Panels -> [Agents -> {"ready", "calling", "backoff", "recording", "done"}]]
      BY <1>0, <2>1 DEF TypeOK
    <3>5. together' \in [Panels -> Nat]
      BY <1>0, <2>1, <2>2 DEF TypeOK
    <3> QED BY <1>0, <2>1, <3>3, <3>4, <3>5 DEF TypeOK
  <2>8. \A q \in Panels : \A b \in Agents :
           q # p \/ b # a => tries'[q][b] = tries[q][b]
    BY <1>0, <2>1 DEF TypeOK
  <2>9. ASSUME NEW q \in Panels, q # p
        PROVE  /\ panel'[q] = "new" => together'[q] = 0 /\ \A b \in Agents : at'[q][b] = "ready"
               /\ Cardinality(in_flight(at'[q])) <= together'[q]
               /\ WithinReach(guard'[q], Cardinality(in_flight(at'[q])), together'[q])
               /\ \A b \in Agents : /\ at'[q][b] = "ready" => tries'[q][b] = 0
                                    /\ at'[q][b] = "backoff" => tries'[q][b] < Attempts
    <3>1. /\ together'[q] = together[q] /\ at'[q] = at[q] /\ panel' = panel /\ guard' = guard
          /\ in_flight(at'[q]) = in_flight(at[q]) /\ \A b \in Agents : tries'[q][b] = tries[q][b]
      BY <2>3, <2>6, <2>8, <2>9
    <3> QED BY <2>9, <3>1 DEF CapsInv
  <2>10. /\ panel'[p] # "new"
         /\ Cardinality(in_flight(at'[p])) <= together'[p]
         /\ WithinReach(guard'[p], Cardinality(in_flight(at'[p])), together'[p])
    BY <2>2, <2>4, <2>5, <2>6
  <2>11. \A b \in Agents : /\ at'[p][b] = "ready" => tries'[p][b] = 0
                           /\ at'[p][b] = "backoff" => tries'[p][b] < Attempts
    BY <2>3, <2>8 DEF CapsInv
  <2> QED BY <2>7, <2>9, <2>10, <2>11 DEF CapsInv
<1> QED BY <1>1, <1>2

\* No step undoes it: only Load moves the day's figure, only a call that was in
\* flight is charged, and only the check lets one more take off.
LEMMA CapsStep == CapsInv /\ [Next]_vars => CapsInv'
<1> SUFFICES ASSUME CapsInv, [Next]_vars
             PROVE  CapsInv'
  OBVIOUS
<1> USE DEF agents
<1>0. /\ "failed" \in VerdictStatus /\ "ok" \in VerdictStatus /\ "timeout" \in VerdictStatus
      /\ "budget_denied" \in VerdictStatus
  BY DEF VerdictStatus
<1>1. TypeOK /\ events \in Nat
  BY DEF CapsInv, TypeOK
<1>2. ASSUME NEW p \in Panels, NEW read \in BOOLEAN, Load(p, read)
      PROVE  CapsInv'
  <2>1. PICK day \in Nat : guard' = [guard EXCEPT ![p] = [guard[p] EXCEPT !.day_spent = day]]
    BY <1>1, <1>2 DEF Load, spend_today_usd
  <2>2. [guard[p] EXCEPT !.day_spent = day] \in [day_spent : Nat, review_spent : Nat]
    <3>1. guard[p] \in [day_spent : Nat, review_spent : Nat]
      BY <1>1 DEF TypeOK
    <3> QED BY <3>1
  <2>3. guard' \in [Panels -> [day_spent : Nat, review_spent : Nat]]
    BY <1>1, <2>1, <2>2 DEF TypeOK
  <2>4. TypeOK'
    BY <1>1, <1>2, <2>3 DEF Load, TypeOK
  <2>5. together[p] = 0 /\ panel'[p] = "running"
    BY <1>1, <1>2 DEF Load, CapsInv, TypeOK
  <2>6. ASSUME NEW q \in Panels, q # p
        PROVE  guard'[q] = guard[q] /\ panel'[q] = panel[q]
    BY <1>1, <1>2, <2>6 DEF Load, TypeOK
  <2>7. \A q \in Panels : in_flight(at'[q]) = in_flight(at[q])
    BY <1>2 DEF Load, in_flight
  <2> QED BY <1>2, <2>4, <2>5, <2>6, <2>7 DEF Load, CapsInv, WithinReach
<1>3. ASSUME NEW p \in Panels, Return(p)
      PROVE  CapsInv'
  <2>1. \A q \in Panels : in_flight(at'[q]) = in_flight(at[q])
    BY <1>3 DEF Return, in_flight
  <2>2. TypeOK'
    BY <1>1, <1>3 DEF Return, TypeOK
  <2>3. \A q \in Panels : panel'[q] = "new" => panel[q] = "new"
    BY <1>1, <1>3 DEF Return, TypeOK
  <2> QED BY <1>3, <2>1, <2>2, <2>3 DEF Return, CapsInv
<1>4. ASSUME NEW p \in Panels, NEW a \in Agents, NEW open \in BOOLEAN, Begin(p, a, open)
      PROVE  CapsInv'
  <2>1. panel[p] # "new" /\ tries[p][a] < Attempts /\ at[p][a] = "ready"
    BY <1>4, PanelAssumption DEF Begin, CapsInv
  <2> QED BY <1>0, <1>1, <1>4, <2>1, CallKeepsCaps, AnswerKeepsCaps DEF Begin
<1>5. ASSUME NEW p \in Panels, NEW a \in Agents, NEW open \in BOOLEAN, Again(p, a, open)
      PROVE  CapsInv'
  <2>1. panel[p] # "new" /\ tries[p][a] < Attempts /\ at[p][a] = "backoff"
    BY <1>5 DEF Again, CapsInv
  <2> QED BY <1>5, <2>1, CallKeepsCaps DEF Again
<1>6. ASSUME NEW p \in Panels, NEW a \in Agents, NEW cost \in Costs, Respond(p, a, cost)
      PROVE  CapsInv'
  <2> DEFINE g == [day_spent |-> guard[p].day_spent, review_spent |-> guard[p].review_spent + cost]
             c == Cardinality(in_flight(at[p]))
  <2>1. guard[p] \in GuardType /\ cost \in Nat /\ together[p] \in Nat
    BY <1>1, PanelAssumption DEF TypeOK, GuardType
  <2>2. guard' = [guard EXCEPT ![p] = g] /\ g \in GuardType
    <3>1. guard' = [guard EXCEPT ![p] = [guard[p] EXCEPT !.review_spent = guard[p].review_spent + cost]]
      BY <1>6 DEF Respond
    <3>2. [guard[p] EXCEPT !.review_spent = guard[p].review_spent + cost] = g
      BY <2>1 DEF GuardType
    <3>3. guard' = [guard EXCEPT ![p] = g]
      BY <3>1, <3>2
    <3>4. g \in GuardType
      <4>1. guard[p].day_spent \in Nat /\ guard[p].review_spent + cost \in Nat
        BY <2>1 DEF GuardType
      <4> QED BY <4>1 DEF GuardType
    <3> HIDE DEF g
    <3> QED BY <3>3, <3>4
  <2>3. a \in in_flight(at[p]) /\ panel[p] # "new"
    BY <1>6 DEF Respond, in_flight, CapsInv
  <2>4. /\ \A q \in Panels \ {p} : in_flight(at'[q]) = in_flight(at[q]) /\ at'[q] = at[q]
        /\ \A b \in Agents : at'[p][b] = IF b = a THEN "recording" ELSE at[p][b]
        /\ c \in Nat /\ c - 1 \in Nat /\ Cardinality(in_flight(at'[p])) = c - 1
    <3>1. at' = [at EXCEPT ![p][a] = "recording"]
      BY <1>6 DEF Respond
    <3>2. in_flight(at'[p]) = in_flight(at[p]) \ {a}
          /\ (\A q \in Panels \ {p} : in_flight(at'[q]) = in_flight(at[q]) /\ at'[q] = at[q])
          /\ \A b \in Agents : at'[p][b] = IF b = a THEN "recording" ELSE at[p][b]
      BY <1>1, <3>1, FlightMove
    <3>3. c \in Nat /\ Cardinality(in_flight(at[p]) \ {a}) = c - 1
          /\ Cardinality(in_flight(at[p]) \ {a}) \in Nat
      BY <2>3, FlightCount
    <3> QED BY <3>2, <3>3
  <2>5. WithinReach(g, c - 1, together[p]) /\ c - 1 <= together[p]
    <3>1. WithinReach(guard[p], c, together[p]) /\ c <= together[p]
      BY DEF CapsInv
    <3>2. g.day_spent = guard[p].day_spent /\ g.review_spent = guard[p].review_spent + cost
      OBVIOUS
    <3>3. (c - 1) + 1 = c
      BY <2>4
    <3> HIDE DEF g, c
    <3>4. WithinReach(guard[p], (c - 1) + 1, together[p])
      BY <3>1, <3>3
    <3>5. WithinReach(g, c - 1, together[p])
      BY <2>1, <2>2, <2>4, <3>2, <3>4, ChargingIsWithinReach
    <3> QED BY <2>1, <2>4, <3>1, <3>5
  <2> HIDE DEF g, c
  <2>6. TypeOK'
    <3>1. owed' \in [Panels -> [Agents -> Costs \cup {0}]]
      BY <1>1, <1>6 DEF Respond, TypeOK
    <3>2. at' \in [Panels -> [Agents -> {"ready", "calling", "backoff", "recording", "done"}]]
      BY <1>1, <1>6 DEF Respond, TypeOK
    <3>3. guard' \in [Panels -> [day_spent : Nat, review_spent : Nat]]
      BY <1>1, <2>2 DEF TypeOK, GuardType
    <3> QED BY <1>1, <1>6, <3>1, <3>2, <3>3 DEF Respond, TypeOK
  <2>7. guard'[p] = g /\ \A q \in Panels \ {p} : guard'[q] = guard[q]
    BY <1>1, <2>2 DEF TypeOK
  <2> QED BY <1>6, <2>3, <2>4, <2>5, <2>6, <2>7 DEF Respond, CapsInv
<1>7. ASSUME NEW p \in Panels, NEW a \in Agents, RaiseLLMError(p, a)
      PROVE  CapsInv'
  <2>0. panel[p] # "new" /\ a \in in_flight(at[p])
    BY <1>7 DEF RaiseLLMError, CapsInv, in_flight
  <2>1. CASE tries[p][a] < Attempts
    <3>1. at' = [at EXCEPT ![p][a] = "backoff"]
          /\ UNCHANGED <<panel, guard, tries, owed, events, verdict, together>>
      BY <1>7, <2>1 DEF RaiseLLMError
    <3>2. TypeOK'
      BY <1>1, <3>1 DEF TypeOK
    <3>3. /\ \A q \in Panels : in_flight(at'[q]) = in_flight(at[q])
          /\ \A q \in Panels \ {p} : at'[q] = at[q]
          /\ \A b \in Agents : at'[p][b] = IF b = a THEN "backoff" ELSE at[p][b]
      <4>1. in_flight(at[p]) \cup {a} = in_flight(at[p])
        BY <2>0
      <4>2. /\ \A q \in Panels \ {p} : in_flight(at'[q]) = in_flight(at[q]) /\ at'[q] = at[q]
            /\ \A b \in Agents : at'[p][b] = IF b = a THEN "backoff" ELSE at[p][b]
            /\ in_flight(at'[p]) = in_flight(at[p]) \cup {a}
        BY <1>1, <3>1, FlightMove
      <4> QED BY <4>1, <4>2
    <3> QED BY <2>0, <2>1, <3>1, <3>2, <3>3 DEF CapsInv
  <2>2. CASE ~(tries[p][a] < Attempts)
    BY <1>0, <1>1, <1>7, <2>0, <2>2, AnswerKeepsCaps DEF RaiseLLMError
  <2> QED BY <2>1, <2>2
<1>8. ASSUME NEW p \in Panels, NEW a \in Agents, GiveUp(p, a) \/ TimeOut(p, a)
      PROVE  CapsInv'
  <2>1. panel[p] # "new"
    BY <1>8 DEF GiveUp, TimeOut, CapsInv
  <2> QED BY <1>0, <1>1, <1>8, <2>1, AnswerKeepsCaps DEF GiveUp, TimeOut
<1>9. ASSUME NEW p \in Panels, NEW a \in Agents, NEW written \in BOOLEAN, NEW parsed \in BOOLEAN,
             Record(p, a, written, parsed)
      PROVE  CapsInv'
  <2>1. owed[p][a] \in Nat
    <3>1. owed[p][a] \in Costs \cup {0}
      BY <1>1 DEF TypeOK
    <3>2. Costs \cup {0} \subseteq Nat
      BY PanelAssumption
    <3> QED BY <3>1, <3>2
  <2>2. events' \in Nat
    BY <1>1, <1>9, <2>1 DEF Record
  <2>3. panel[p] # "new"
    BY <1>9 DEF Record, CapsInv
  <2> QED BY <1>0, <1>9, <2>2, <2>3, AnswerKeepsCaps DEF Record
<1>10. CASE UNCHANGED vars
  BY <1>10 DEF vars, CapsInv, TypeOK, in_flight
<1> QED
  BY <1>2, <1>3, <1>4, <1>5, <1>6, <1>7, <1>8, <1>9, <1>10 DEF Next, Step

\* Whatever the agents of a panel do between a check and its charge, and whatever
\* other reviews record meanwhile: what a review has charged, with the worst case of
\* its calls in flight, exceeds a cap by at most one worst case for each call that
\* was ever in flight beside another, and no agent makes more than
\* RetryPolicy.attempts calls.
THEOREM CapsHold == Spec => [](TypeOK /\ OverspendIsBounded)
<1>1. CapsInv => TypeOK /\ OverspendIsBounded
  <2> SUFFICES ASSUME CapsInv, NEW p \in Panels, together[p] > 0
               PROVE  LET spent == guard[p].review_spent + Estimate * Cardinality(in_flight(at[p]))
                          over == Estimate * (together[p] - 1)
                      IN /\ spent <= ReviewCap + over
                         /\ guard[p].day_spent + spent <= DailyCap + over
    BY DEF CapsInv, OverspendIsBounded
  <2> DEFINE worst == Estimate * Cardinality(in_flight(at[p]))
  <2>1. /\ guard[p].review_spent + worst <= ReviewCap + Estimate * (together[p] - 1)
        /\ guard[p].day_spent + guard[p].review_spent + worst
              <= DailyCap + Estimate * (together[p] - 1)
    BY DEF CapsInv, WithinReach
  <2>2. guard[p].day_spent \in Nat /\ guard[p].review_spent \in Nat /\ worst \in Nat
    <3>1. guard[p].day_spent \in Nat /\ guard[p].review_spent \in Nat
      BY DEF CapsInv, TypeOK
    <3>2. IsFiniteSet(in_flight(at[p]))
      <4>1. in_flight(at[p]) \subseteq Agents /\ IsFiniteSet(Agents)
        BY PanelAssumption DEF in_flight
      <4> QED BY <4>1, FS_Subset
    <3> QED BY <3>1, <3>2, FS_CardinalityType, WorstCases
  <2> HIDE DEF worst
  <2>3. guard[p].day_spent + (guard[p].review_spent + worst)
           = guard[p].day_spent + guard[p].review_spent + worst
    BY <2>2
  <2> QED BY <2>1, <2>3 DEF worst
<1> QED BY <1>1, CapsInitially, CapsStep, PTL DEF Spec

-----------------------------------------------------------------------------
(* Line numbers *)

\* The lines of a patch, one or two for each that git wrote.
LEMMA SplitChain ==
    ASSUME NEW patch \in Seq(PatchLine)
    PROVE  \E c \in [0..Len(patch) -> Seq(PatchLine)] :
              /\ c[0] = <<>> /\ c[Len(patch)] = BrokenUp(patch)
              /\ \A k \in 1..Len(patch) :
                    c[k] = IF patch[k].torn = "no" THEN Append(c[k - 1], patch[k])
                           ELSE Append(Append(c[k - 1], patch[k]), Rest(patch[k]))
<1> DEFINE all == patch
           n == Len(all)
           A == Seq(PatchLine)
           Add(ls, l) == IF l.torn = "no" THEN Append(ls, l)
                         ELSE Append(Append(ls, l), Rest(l))
           F == [i \in 1..n |-> [ls \in A |-> Add(ls, all[i])]]
<1>1. all \in Seq(PatchLine) /\ n \in Nat /\ DOMAIN all = 1..n
  OBVIOUS
<1>2. ASSUME NEW i \in 1..n, NEW ls \in A PROVE Add(ls, all[i]) \in A
  <2>1. Rest(all[i]) \in PatchLine
    BY DEF Rest, Line, PatchLine
  <2>2. all[i] \in PatchLine
    BY <1>1
  <2>3. Append(ls, all[i]) \in A
    BY <2>2, AppendFacts
  <2>4. Append(Append(ls, all[i]), Rest(all[i])) \in A
    BY <2>1, <2>3, AppendFacts
  <2> QED BY <2>3, <2>4
<1>0. <<>> \in A
  OBVIOUS
<1> HIDE DEF n, A, all
<1>3. F \in [1..n -> [A -> A]]
  BY <1>2
<1>4. PICK g \in [SUBSET (1..n) -> A] : Recursion(g, n, <<>>, F)
  <2> HIDE DEF F
  <2> QED BY <1>0, <1>1, <1>3, FoldExists, Zenon
<1>5. ASSUME NEW q \in SUBSET (1..n)
      PROVE  g[q] = IF q = {} THEN <<>> ELSE Add(g[q \ {Max(q)}], all[Max(q)])
  <2>1. CASE q # {}
    <3>1. Max(q) \in 1..n
      BY <1>1, <2>1, MaxFacts
    <3>2. g[q \ {Max(q)}] \in A
      OBVIOUS
    <3> QED BY <1>4, <2>1, <3>1, <3>2 DEF Recursion
  <2> QED BY <1>4, <2>1 DEF Recursion
<1>6. PICK h : /\ h = [q \in SUBSET (1..n) |->
                         IF q = {} THEN <<>> ELSE Add(h[q \ {Max(q)}], all[Max(q)])]
               /\ BrokenUp(all) = h[1..n]
  <2>1. DOMAIN all = 1..n
    BY <1>1
  <2>2. g = [q \in SUBSET (1..n) |->
               IF q = {} THEN <<>> ELSE Add(g[q \ {Max(q)}], all[Max(q)])]
    <3> HIDE DEF F
    <3> QED BY <1>5
  <2>3. BrokenUp(all) = FoldLeft(Add, <<>>, all)
    BY Zenon DEF BrokenUp
  <2> HIDE DEF Add
  <2> QED BY <2>1, <2>2, <2>3, Zenon DEF FoldLeft, MapThenFoldSet
<1>7. ASSUME NEW q \in SUBSET (1..n), q # {}, h[q \ {Max(q)}] \in A
      PROVE  h[q] = F[Max(q)][h[q \ {Max(q)}]]
  <2>1. Max(q) \in 1..n
    BY <1>1, <1>7, MaxFacts
  <2>2. h[q] = Add(h[q \ {Max(q)}], all[Max(q)])
    BY <1>6, <1>7
  <2> QED BY <1>7, <2>1, <2>2
<1>8. PICK c : Chain(c, n, A, <<>>, F, h[1..n])
  <2> HIDE DEF F
  <2>1. Unfolds(h, n, A, <<>>, F)
    BY <1>6, <1>7 DEF Unfolds
  <2> QED BY <1>0, <1>1, <1>3, <2>1, FoldChain, Zenon
<1>9. ASSUME NEW k \in 1..n PROVE c[k] = Add(c[k - 1], all[k])
  <2>1. k - 1 \in 0..n
    BY <1>1
  <2> QED BY <1>8, <2>1 DEF Chain
<1>10. c \in [0..n -> A] /\ c[0] = <<>> /\ c[n] = BrokenUp(all)
  <2> HIDE DEF F
  <2> QED BY <1>6, <1>8 DEF Chain
<1> HIDE DEF F
<1> QED BY <1>9, <1>10 DEF n, A, all

\* Without torn lines they are the lines of the patch.
LEMMA BrokenUpFacts ==
    ASSUME NEW patch \in Seq(PatchLine)
    PROVE  /\ BrokenUp(patch) \in Seq(PatchLine)
           /\ patch = <<>> => BrokenUp(patch) = <<>>
           /\ (\A i \in DOMAIN patch : patch[i].torn = "no") => BrokenUp(patch) = patch
<1>1. PICK c \in [0..Len(patch) -> Seq(PatchLine)] :
              /\ c[0] = <<>> /\ c[Len(patch)] = BrokenUp(patch)
              /\ \A k \in 1..Len(patch) :
                    c[k] = IF patch[k].torn = "no" THEN Append(c[k - 1], patch[k])
                           ELSE Append(Append(c[k - 1], patch[k]), Rest(patch[k]))
  BY SplitChain
<1>2. Len(patch) \in Nat /\ DOMAIN patch = 1..Len(patch)
  OBVIOUS
<1>0. ASSUME NEW k \in 0..Len(patch) PROVE c[k] \in Seq(PatchLine)
  OBVIOUS
<1>3. BrokenUp(patch) \in Seq(PatchLine)
  <2>1. Len(patch) \in 0..Len(patch)
    BY <1>2
  <2> QED BY <1>0, <1>1, <2>1
<1>4. ASSUME \A i \in DOMAIN patch : patch[i].torn = "no" PROVE BrokenUp(patch) = patch
  <2> DEFINE n == Len(patch)
             S == {k \in 0..n : Len(c[k]) = k /\ \A j \in 1..k : c[k][j] = patch[j]}
  <2>1. 0 \in S
    <3>1. Len(<<>>) = 0 /\ 0 \in 0..n /\ 1..0 = {}
      BY <1>2
    <3>2. c[0] = <<>>
      BY <1>1
    <3> QED BY <3>1, <3>2
  <2>2. ASSUME NEW k \in 0..(n - 1), k \in S PROVE k + 1 \in S
    <3>1. k + 1 \in 1..n /\ (k + 1) - 1 = k /\ k + 1 \in 0..n /\ k \in 0..n /\ k \in Nat
      BY <1>2
    <3>2. c[k + 1] = Append(c[k], patch[k + 1])
      BY <1>1, <1>2, <1>4, <3>1
    <3>3. c[k] \in Seq(PatchLine) /\ patch[k + 1] \in PatchLine
      BY <1>0, <1>2, <3>1
    <3>4. Len(c[k]) = k /\ \A j \in 1..k : c[k][j] = patch[j]
      BY <2>2
    <3>5. Len(c[k + 1]) = k + 1 /\ c[k + 1][k + 1] = patch[k + 1]
      BY <3>2, <3>3, <3>4, AppendFacts
    <3>6. ASSUME NEW j \in 1..(k + 1) PROVE c[k + 1][j] = patch[j]
      <4>1. CASE j = k + 1
        BY <3>5, <4>1
      <4>2. CASE j \in 1..k
        <5>1. j \in DOMAIN c[k]
          BY <3>3, <3>4, <4>2
        <5>2. c[k + 1][j] = c[k][j]
          BY <3>2, <3>3, <5>1, AppendFacts
        <5> QED BY <3>4, <4>2, <5>2
      <4> QED BY <3>1, <4>1, <4>2
    <3> QED BY <3>1, <3>5, <3>6
  <2>3. n \in S
    <3>1. \A k \in 0..n : k \in S
      <4> HIDE DEF S
      <4>1. \A k \in 0..(n - 1) : k \in S => k + 1 \in S
        BY <2>2
      <4> QED BY <1>2, <2>1, <4>1, UpTo
    <3> QED BY <1>2, <3>1
  <2>4. Len(BrokenUp(patch)) = n /\ \A j \in 1..n : BrokenUp(patch)[j] = patch[j]
    BY <1>1, <2>3
  <2> HIDE DEF S, n
  <2> QED BY <1>2, <1>3, <2>4 DEF n
<1>5. patch = <<>> => BrokenUp(patch) = <<>>
  BY <1>1
<1> QED BY <1>3, <1>4, <1>5

\* What is joined and split again is the same, but for an empty line at its end.
LEMMA RejoinedFacts ==
    ASSUME NEW ls \in Seq(PatchLine)
    PROVE  /\ rejoined(ls) \in Seq(PatchLine)
           /\ ~EndsEmpty(ls) => rejoined(ls) = ls
           /\ EndsEmpty(ls) => \E l \in PatchLine :
                 l.mark = "blank" /\ ls = Append(rejoined(ls), l)
<1> DEFINE n == Len(ls)
<1>1. n \in Nat /\ DOMAIN ls = 1..n
  OBVIOUS
<1>2. ASSUME EndsEmpty(ls)
      PROVE  /\ rejoined(ls) \in Seq(PatchLine)
             /\ \E l \in PatchLine : l.mark = "blank" /\ ls = Append(rejoined(ls), l)
  <2>1. ls # <<>> /\ ls[n].mark = "blank" /\ n \in 1..n
    BY <1>1, <1>2 DEF EndsEmpty, Last
  <2>2. rejoined(ls) = Front(ls)
    BY <1>2 DEF rejoined, EndsEmpty
  <2>3. Front(ls) \in Seq(PatchLine) /\ Append(Front(ls), ls[n]) = ls
    <3>1. Front(ls) \in Seq(PatchLine) /\ Append(Front(ls), Last(ls)) = ls
      <4>1. Front(ls) = [i \in 1..(n - 1) |-> ls[i]] /\ n - 1 \in Nat
        BY <1>1, <2>1 DEF Front
      <4>2. Front(ls) \in Seq(PatchLine) /\ Len(Front(ls)) = n - 1
        BY <1>1, <4>1
      <4>3. Last(ls) = ls[n] /\ ls[n] \in PatchLine
        BY <1>1, <2>1 DEF Last
      <4> DEFINE f == Front(ls)
                 e == Append(f, Last(ls))
      <4>4. \A i \in 1..(n - 1) : f[i] = ls[i]
        BY <4>1
      <4> HIDE DEF f
      <4>5. e \in Seq(PatchLine) /\ Len(e) = n /\ e[n] = ls[n] /\ \A i \in 1..(n - 1) : e[i] = ls[i]
        <5>1. f \in Seq(PatchLine) /\ Len(f) = n - 1 /\ (n - 1) + 1 = n
          BY <1>1, <4>2 DEF f
        <5>2. Last(ls) \in PatchLine /\ Last(ls) = ls[n]
          BY <4>3
        <5> HIDE DEF n
        <5> QED BY <1>1, <4>4, <5>1, <5>2, AppendFacts
      <4>6. \A i \in 1..n : e[i] = ls[i]
        BY <1>1, <4>5
      <4> HIDE DEF e
      <4>7. e = ls
        BY <1>1, <4>5, <4>6
      <4> QED BY <4>2, <4>7 DEF e, f
    <3> QED BY <3>1 DEF Last
  <2>4. ls[n] \in PatchLine
    BY <1>1, <2>1
  <2> QED BY <2>1, <2>2, <2>3, <2>4
<1>3. ~EndsEmpty(ls) => rejoined(ls) = ls
  BY DEF rejoined, EndsEmpty
<1> QED BY <1>2, <1>3

\* The lines the parser reads.
LEMMA SplitFacts ==
    ASSUME NEW patch \in Seq(PatchLine)
    PROVE  /\ splitlines(patch) \in Seq(PatchLine)
           /\ patch = <<>> => splitlines(patch) = <<>>
           /\ (\A i \in DOMAIN patch : patch[i].torn = "no") /\ ~EndsEmpty(patch) =>
                 splitlines(patch) = patch
<1>1. BrokenUp(patch) \in Seq(PatchLine) /\ rejoined(BrokenUp(patch)) \in Seq(PatchLine)
  BY BrokenUpFacts, RejoinedFacts
<1>2. ASSUME patch = <<>> PROVE splitlines(patch) = <<>>
  <2>1. ~EndsEmpty(<<>>) /\ BrokenUp(patch) = <<>>
    BY <1>2, BrokenUpFacts DEF EndsEmpty
  <2> QED BY <1>1, <2>1, RejoinedFacts DEF splitlines
<1>3. ASSUME \A i \in DOMAIN patch : patch[i].torn = "no", ~EndsEmpty(patch)
      PROVE  splitlines(patch) = patch
  <2>1. BrokenUp(patch) = patch
    BY <1>3, BrokenUpFacts
  <2> QED BY <1>3, <2>1, RejoinedFacts DEF splitlines
<1> QED BY <1>1, <1>2, <1>3 DEF splitlines

\* Hunks as parse_patch makes them.
HunkType == [new_start : Nat, lines : SUBSET Nat, text : Seq(PatchLine)]

ParseType == [hunks : Seq(HunkType), new_line : Int]

\* The lines of new file among the first i of a hunk's.
Counted(text, i) == Cardinality({j \in 1..i : InNewFile(text[j])})

\* All lines of some hunks.
LinesOf(hunks) == UNION {hunks[i].lines : i \in DOMAIN hunks}

\* One more line of a hunk counts if it is in the new file.
LEMMA CountedFacts ==
    ASSUME NEW text \in Seq(PatchLine), NEW l \in PatchLine
    PROVE  /\ \A i \in 0..Len(text) :
                 Counted(text, i) \in Nat /\ Counted(Append(text, l), i) = Counted(text, i)
           /\ Counted(Append(text, l), Len(text) + 1)
                = IF InNewFile(l) THEN Counted(text, Len(text)) + 1 ELSE Counted(text, Len(text))
<1> DEFINE more == Append(text, l)
           n == Len(text)
           At(t, i) == {j \in 1..i : InNewFile(t[j])}
<1>1. n \in Nat /\ more[n + 1] = l /\ \A j \in 1..n : more[j] = text[j]
  BY AppendFacts
<1>2. ASSUME NEW t, NEW i \in Nat PROVE IsFiniteSet(At(t, i)) /\ Cardinality(At(t, i)) \in Nat
  <2>1. IsFiniteSet(1..i)
    BY FS_Interval
  <2>2. At(t, i) \in SUBSET (1..i)
    OBVIOUS
  <2>3. IsFiniteSet(At(t, i))
    <3> HIDE DEF At
    <3> QED BY <2>1, <2>2, FS_Subset
  <2> HIDE DEF At
  <2> QED BY <2>3, FS_CardinalityType
<1> HIDE DEF more, n
<1>3. ASSUME NEW i \in 0..n
      PROVE  Counted(text, i) \in Nat /\ Counted(more, i) = Counted(text, i)
  <2>1. i \in Nat /\ 1..i \subseteq 1..n
    BY <1>1
  <2>2. At(more, i) = At(text, i)
    BY <1>1, <2>1
  <2> QED BY <1>2, <2>1, <2>2 DEF Counted
<1>4. ASSUME InNewFile(l) PROVE Counted(more, n + 1) = Counted(text, n) + 1
  <2>1. At(more, n + 1) = At(text, n) \cup {n + 1} /\ n + 1 \notin At(text, n)
    BY <1>1, <1>4
  <2>2. Cardinality(At(text, n) \cup {n + 1}) = Cardinality(At(text, n)) + 1
    <3>1. IsFiniteSet(At(text, n))
      BY <1>1, <1>2
    <3> HIDE DEF At
    <3> QED BY <2>1, <3>1, FS_AddElement
  <2> QED BY <2>1, <2>2 DEF Counted
<1>5. ASSUME ~InNewFile(l) PROVE Counted(more, n + 1) = Counted(text, n)
  <2>1. At(more, n + 1) = At(text, n)
    BY <1>1, <1>5
  <2> QED BY <2>1 DEF Counted
<1> QED BY <1>3, <1>4, <1>5 DEF more, n

\* The count does not fall from one line to a later one.
LEMMA CountedGrows ==
    ASSUME NEW text \in Seq(PatchLine), NEW n \in Nat, NEW i \in 1..n
    PROVE  Counted(text, i) \in Nat /\ Counted(text, n) \in Nat /\ Counted(text, i) <= Counted(text, n)
<1> DEFINE At(k) == {j \in 1..k : InNewFile(text[j])}
<1>1. IsFiniteSet(At(n))
  <2>1. IsFiniteSet(1..n)
    BY FS_Interval
  <2>2. At(n) \subseteq 1..n
    OBVIOUS
  <2> HIDE DEF At
  <2> QED BY <2>1, <2>2, FS_Subset
<1>2. At(i) \subseteq At(n)
  OBVIOUS
<1>3. IsFiniteSet(At(i)) /\ Cardinality(At(i)) <= Cardinality(At(n))
  <2> HIDE DEF At
  <2> QED BY <1>1, <1>2, FS_Subset
<1>4. Cardinality(At(i)) \in Nat /\ Cardinality(At(n)) \in Nat
  <2> HIDE DEF At
  <2> QED BY <1>1, <1>3, FS_CardinalityType
<1> QED BY <1>3, <1>4 DEF Counted

\* The numbers of a hunk's text.
NumbersOf(h) == Numbers(h.new_start, h.text)

\* They grow by the next number with each line of the new file.
LEMMA NumbersFacts ==
    ASSUME NEW h \in HunkType, NEW l \in PatchLine, NEW k \in HunkType,
           k.new_start = h.new_start, k.text = Append(h.text, l)
    PROVE  NumbersOf(k) = IF InNewFile(l)
                          THEN NumbersOf(h) \cup {h.new_start + Counted(h.text, Len(h.text))}
                          ELSE NumbersOf(h)
<1> DEFINE n == Len(h.text)
           Number(x, i) == x.new_start - 1 + Counted(x.text, i)
           In(x) == {j \in DOMAIN x.text : InNewFile(x.text[j])}
<1>1. h.text \in Seq(PatchLine) /\ h.new_start \in Nat
  BY DEF HunkType
<1>2. /\ n \in Nat /\ DOMAIN h.text = 1..n /\ DOMAIN k.text = 1..(n + 1)
      /\ k.text[n + 1] = l /\ \A j \in 1..n : k.text[j] = h.text[j]
  BY <1>1
<1>3. ASSUME NEW x PROVE NumbersOf(x) = {Number(x, i) : i \in In(x)}
  BY DEF NumbersOf, Numbers, Counted
<1>4. ASSUME NEW i \in 1..n PROVE Number(k, i) = Number(h, i)
  BY <1>1, <1>2, CountedFacts
<1>5. In(k) = IF InNewFile(l) THEN In(h) \cup {n + 1} ELSE In(h)
  BY <1>2
<1>6. In(h) \subseteq 1..n
  BY <1>2
<1>7. InNewFile(l) => Number(k, n + 1) = h.new_start + Counted(h.text, n)
  <2>1. Counted(h.text, n) \in Nat
    BY <1>1, <1>2, CountedFacts
  <2>2. InNewFile(l) => Counted(k.text, n + 1) = Counted(h.text, n) + 1
    BY <1>1, CountedFacts
  <2> QED BY <1>1, <2>1, <2>2
<1> HIDE DEF n, Number, In
<1>8. \A i \in In(h) : Number(k, i) = Number(h, i)
  BY <1>4, <1>6
<1>9. CASE InNewFile(l)
  <2>1. In(k) = In(h) \cup {n + 1}
    BY <1>5, <1>9
  <2>2. NumbersOf(k) = {Number(h, i) : i \in In(h)} \cup {Number(k, n + 1)}
    BY <1>3, <1>8, <2>1
  <2> QED BY <1>3, <1>7, <1>9, <2>2 DEF n
<1>10. CASE ~InNewFile(l)
  <2>1. In(k) = In(h)
    BY <1>5, <1>10
  <2> QED BY <1>3, <1>8, <1>10, <2>1
<1> QED BY <1>9, <1>10

\* What the loop of parse_patch keeps: the lines of a hunk are the numbers
\* of its text, new_line is the last of the hunk that is open, and there is a greatest
\* line.
WellParsed(p) ==
    /\ \A i \in DOMAIN p.hunks : p.hunks[i].lines = NumbersOf(p.hunks[i])
    /\ p.hunks # <<>> =>
          LET h == p.hunks[Len(p.hunks)]
          IN p.new_line = h.new_start - 1 + Counted(h.text, Len(h.text))
    /\ \E m \in Nat : LinesOf(p.hunks) \subseteq 0..m

Parses == {p \in ParseType : WellParsed(p)}

\* A hunk that has just begun.
Empty(start) == [new_start |-> start, lines |-> {}, text |-> <<>>]

\* A header opens a hunk without lines.
LEMMA ScanHeader ==
    ASSUME NEW p \in Parses, NEW l \in PatchLine, l.mark = "@@"
    PROVE  /\ ScanLine(p, l) \in Parses /\ ScanLine(p, l).hunks # <<>>
           /\ ScanLine(p, l).new_line = l.start - 1
           /\ LinesOf(ScanLine(p, l).hunks) = LinesOf(p.hunks)
<1> DEFINE H == Empty(l.start)
           hs == Append(p.hunks, H)
           r == [hunks |-> hs, new_line |-> l.start - 1]
           n == Len(p.hunks)
<1>1. ScanLine(p, l) = r
  BY DEF ScanLine, Empty
<1>2. p.hunks \in Seq(HunkType) /\ l.start \in Nat /\ n \in Nat
  <2>1. p.hunks \in Seq(HunkType)
    BY DEF Parses, ParseType
  <2>2. l.start \in Nat
    BY DEF PatchLine
  <2> QED BY <2>1, <2>2
<1>3. H \in HunkType /\ H.new_start = l.start /\ H.lines = {} /\ H.text = <<>>
  <2>1. <<>> \in Seq(PatchLine)
    OBVIOUS
  <2> QED BY <1>2, <2>1 DEF Empty, HunkType
<1> HIDE DEF H
<1>4. /\ hs \in Seq(HunkType) /\ hs # <<>> /\ Len(hs) = n + 1 /\ hs[n + 1] = H
      /\ DOMAIN hs = 1..(n + 1) /\ DOMAIN p.hunks = 1..n /\ \A i \in 1..n : hs[i] = p.hunks[i]
  BY <1>2, <1>3, AppendFacts
<1> HIDE DEF hs, n
<1>5. r \in ParseType /\ r.hunks = hs /\ r.new_line = l.start - 1
  BY <1>2, <1>4 DEF ParseType
<1>6. NumbersOf(H) = {} /\ Counted(H.text, Len(H.text)) = 0
  <2>1. NumbersOf(H) = {}
    BY <1>3 DEF NumbersOf, Numbers
  <2>2. Len(H.text) = 0 /\ {j \in 1..0 : InNewFile(H.text[j])} = {}
    BY <1>3
  <2>3. Counted(H.text, Len(H.text)) = 0
    BY <2>2, FS_EmptySet DEF Counted
  <2> QED BY <2>1, <2>3
<1>7. LinesOf(hs) = LinesOf(p.hunks)
  <2>1. ASSUME NEW y PROVE y \in LinesOf(hs) <=> \E i \in 1..(n + 1) : y \in hs[i].lines
    BY <1>4 DEF LinesOf
  <2>2. ASSUME NEW y PROVE y \in LinesOf(p.hunks) <=> \E i \in 1..n : y \in p.hunks[i].lines
    BY <1>4 DEF LinesOf
  <2>3. 1..(n + 1) = 1..n \cup {n + 1}
    BY <1>2
  <2>4. ASSUME NEW y PROVE y \in LinesOf(hs) <=> y \in LinesOf(p.hunks)
    BY <1>3, <1>4, <2>1, <2>2, <2>3
  <2> QED BY <2>4
<1>8. WellParsed(r)
  <2>1. \A i \in DOMAIN p.hunks : p.hunks[i].lines = NumbersOf(p.hunks[i])
    BY DEF Parses, WellParsed
  <2>2. ASSUME NEW i \in DOMAIN hs PROVE hs[i].lines = NumbersOf(hs[i])
    <3>1. CASE i = n + 1
      BY <1>3, <1>4, <1>6, <3>1
    <3>2. CASE i \in 1..n
      BY <1>4, <2>1, <3>2
    <3> QED BY <1>2, <1>4, <3>1, <3>2
  <2>3. l.start - 1 = H.new_start - 1 + Counted(H.text, Len(H.text))
    BY <1>2, <1>3, <1>6
  <2>4. \E m \in Nat : LinesOf(hs) \subseteq 0..m
    BY <1>7 DEF Parses, WellParsed
  <2> QED BY <1>4, <1>5, <2>2, <2>3, <2>4 DEF WellParsed
<1> QED BY <1>1, <1>4, <1>5, <1>7, <1>8 DEF Parses

\* Before the first header nothing counts.
LEMMA ScanNothing ==
    ASSUME NEW p \in Parses, NEW l \in PatchLine, l.mark # "@@", p.hunks = <<>>
    PROVE  ScanLine(p, l) = p
BY DEF ScanLine

\* Any other line belongs to the hunk that is open, and has the next number if it
\* is in the new file.
LEMMA ScanOther ==
    ASSUME NEW p \in Parses, NEW l \in PatchLine, l.mark # "@@", p.hunks # <<>>
    PROVE  /\ ScanLine(p, l) \in Parses /\ ScanLine(p, l).hunks # <<>>
           /\ ScanLine(p, l).new_line = IF InNewFile(l) THEN p.new_line + 1 ELSE p.new_line
           /\ LinesOf(ScanLine(p, l).hunks)
                = IF InNewFile(l) THEN LinesOf(p.hunks) \cup {p.new_line + 1}
                  ELSE LinesOf(p.hunks)
<1> DEFINE n == Len(p.hunks)
           h == p.hunks[n]
           x == IF InNewFile(l) THEN p.new_line + 1 ELSE p.new_line
           k == [new_start |-> h.new_start,
                 lines |-> IF InNewFile(l) THEN h.lines \cup {x} ELSE h.lines,
                 text |-> Append(h.text, l)]
           hs == [i \in 1..n |-> IF i = n THEN k ELSE p.hunks[i]]
           r == [hunks |-> hs, new_line |-> x]
<1>1. /\ p.hunks \in Seq(HunkType) /\ n \in Nat /\ n \in 1..n /\ DOMAIN p.hunks = 1..n
      /\ h \in HunkType /\ p.new_line \in Int
  <2>1. p.hunks \in Seq(HunkType) /\ p.new_line \in Int
    BY DEF Parses, ParseType
  <2>2. n \in Nat /\ n # 0 /\ DOMAIN p.hunks = 1..n
    BY <2>1
  <2>3. n \in 1..n
    BY <2>2
  <2> QED BY <2>1, <2>2, <2>3
<1>2. h.text \in Seq(PatchLine) /\ h.new_start \in Nat /\ h.lines \in SUBSET Nat
  BY <1>1 DEF HunkType
<1>3. ScanLine(p, l) = r
  <2>1. ScanLine(p, l) = [hunks |-> [p.hunks EXCEPT ![n] = k], new_line |-> x]
    BY DEF ScanLine
  <2> HIDE DEF k, x
  <2>2. [p.hunks EXCEPT ![n] = k] = hs
    BY <1>1
  <2> QED BY <2>1, <2>2
<1>4. p.new_line = h.new_start - 1 + Counted(h.text, Len(h.text)) /\ h.lines = NumbersOf(h)
  BY <1>1 DEF Parses, WellParsed
<1>5. Len(h.text) \in Nat /\ Counted(h.text, Len(h.text)) \in Nat
  BY <1>2, CountedFacts
<1>6. x \in Int /\ (InNewFile(l) => x = h.new_start + Counted(h.text, Len(h.text)) /\ x \in Nat)
  <2> DEFINE from == h.new_start
             m == Counted(h.text, Len(h.text))
             y == p.new_line
  <2>1. from \in Nat /\ m \in Nat /\ y \in Int /\ y = from - 1 + m
    BY <1>1, <1>2, <1>4, <1>5
  <2>2. x = IF InNewFile(l) THEN y + 1 ELSE y
    OBVIOUS
  <2> HIDE DEF from, m, y, x
  <2>3. x \in Int /\ (InNewFile(l) => x = from + m /\ x \in Nat)
    BY <2>1, <2>2
  <2> QED BY <2>3 DEF from, m
<1>7. k \in HunkType /\ k.new_start = h.new_start /\ k.text = Append(h.text, l)
  <2>1. Append(h.text, l) \in Seq(PatchLine)
    BY <1>2, AppendFacts
  <2> HIDE DEF h, x
  <2> QED BY <1>2, <1>6, <2>1 DEF HunkType
<1>8. k.lines = NumbersOf(k)
  <2>1. k.lines = IF InNewFile(l) THEN h.lines \cup {x} ELSE h.lines
    OBVIOUS
  <2> HIDE DEF k, h, x
  <2> QED BY <1>1, <1>4, <1>6, <1>7, <2>1, NumbersFacts
<1>9. k.lines = IF InNewFile(l) THEN h.lines \cup {x} ELSE h.lines
  OBVIOUS
<1>10. x = k.new_start - 1 + Counted(k.text, Len(k.text))
  <2>1. Len(k.text) = Len(h.text) + 1
    BY <1>2, <1>7, AppendFacts
  <2>2. Counted(k.text, Len(h.text) + 1)
          = IF InNewFile(l) THEN Counted(h.text, Len(h.text)) + 1 ELSE Counted(h.text, Len(h.text))
    BY <1>2, <1>7, CountedFacts
  <2>3. ~InNewFile(l) => x = p.new_line
    OBVIOUS
  <2> HIDE DEF k, h, x
  <2> QED BY <1>2, <1>4, <1>5, <1>6, <1>7, <2>1, <2>2, <2>3
<1> HIDE DEF k
<1>11. /\ hs \in Seq(HunkType) /\ Len(hs) = n /\ hs[n] = k /\ DOMAIN hs = 1..n /\ hs # <<>>
       /\ \A i \in 1..n : i # n => hs[i] = p.hunks[i]
  <2>1. hs \in [1..n -> HunkType]
    BY <1>1, <1>7
  <2>2. hs \in Seq(HunkType) /\ DOMAIN hs = 1..n
    BY <1>1, <2>1
  <2>3. Len(hs) = n
    BY <1>1, <2>2
  <2>4. hs # <<>>
    BY <1>1, <2>2
  <2> QED BY <1>1, <2>2, <2>3, <2>4
<1> HIDE DEF hs
<1>12. r \in ParseType /\ r.hunks = hs /\ r.new_line = x
  BY <1>6, <1>11 DEF ParseType
<1>13. LinesOf(hs) = IF InNewFile(l) THEN LinesOf(p.hunks) \cup {x} ELSE LinesOf(p.hunks)
  <2> HIDE DEF h, n, x
  <2>0. n \in 1..n /\ h = p.hunks[n]
    BY <1>1 DEF h
  <2>1. ASSUME NEW y PROVE y \in LinesOf(hs) <=> \E i \in 1..n : y \in hs[i].lines
    BY <1>11 DEF LinesOf
  <2>2. ASSUME NEW y PROVE y \in LinesOf(p.hunks) <=> \E i \in 1..n : y \in p.hunks[i].lines
    BY <1>1 DEF LinesOf
  <2>3. CASE InNewFile(l)
    <3>1. k.lines = h.lines \cup {x}
      BY <1>9, <2>3
    <3>2. ASSUME NEW y PROVE y \in LinesOf(hs) <=> y \in LinesOf(p.hunks) \cup {x}
      BY <1>11, <2>0, <2>1, <2>2, <3>1
    <3> QED BY <2>3, <3>2
  <2>4. CASE ~InNewFile(l)
    <3>1. k.lines = h.lines
      BY <1>9, <2>4
    <3>2. ASSUME NEW y PROVE y \in LinesOf(hs) <=> y \in LinesOf(p.hunks)
      BY <1>11, <2>0, <2>1, <2>2, <3>1
    <3> QED BY <2>4, <3>2
  <2> QED BY <2>3, <2>4
<1>14. \E m \in Nat : LinesOf(hs) \subseteq 0..m
  <2>1. PICK m \in Nat : LinesOf(p.hunks) \subseteq 0..m
    BY DEF Parses, WellParsed
  <2>2. CASE InNewFile(l)
    <3>1. x \in Nat /\ LinesOf(hs) = LinesOf(p.hunks) \cup {x}
      BY <1>6, <1>13, <2>2
    <3> HIDE DEF x
    <3>2. m + x \in Nat /\ LinesOf(hs) \subseteq 0..(m + x)
      BY <2>1, <3>1
    <3> QED BY <3>2
  <2>3. CASE ~InNewFile(l)
    BY <1>13, <2>1, <2>3
  <2> QED BY <2>2, <2>3
<1>15. WellParsed(r)
  <2>1. ASSUME NEW i \in DOMAIN hs PROVE hs[i].lines = NumbersOf(hs[i])
    <3>1. CASE i = n
      BY <1>8, <1>11, <3>1
    <3>2. CASE i # n
      BY <1>1, <1>11, <3>2 DEF Parses, WellParsed
    <3> QED BY <3>1, <3>2
  <2> HIDE DEF x, n
  <2> QED BY <1>10, <1>11, <1>12, <1>14, <2>1 DEF WellParsed
<1>16. r \in Parses
  BY <1>12, <1>15 DEF Parses
<1>17. ScanLine(p, l) \in Parses /\ ScanLine(p, l).hunks = hs /\ ScanLine(p, l).new_line = x
  BY <1>3, <1>12, <1>16
<1> HIDE DEF r
<1> QED BY <1>11, <1>13, <1>17

\* The hunks of a patch, line by line.
LEMMA ParseChain ==
    ASSUME NEW patch \in Seq(PatchLine)
    PROVE  LET ls == splitlines(patch) IN
           \E c \in [0..Len(ls) -> Parses] :
              /\ c[0] = [hunks |-> <<>>, new_line |-> 0]
              /\ c[Len(ls)].hunks = parse_patch(patch)
              /\ \A k \in 1..Len(ls) : c[k] = ScanLine(c[k - 1], ls[k])
<1> DEFINE all == splitlines(patch)
           n == Len(all)
           A == Parses
           base == [hunks |-> <<>>, new_line |-> 0]
           Add(p, l) == ScanLine(p, l)
           F == [i \in 1..n |-> [p \in A |-> Add(p, all[i])]]
           result == FoldLeft(ScanLine, base, all)
<1>1. all \in Seq(PatchLine) /\ n \in Nat /\ DOMAIN all = 1..n
  BY SplitFacts
<1>2. ASSUME NEW i \in 1..n, NEW p \in A PROVE Add(p, all[i]) \in A
  <2>1. all[i] \in PatchLine
    BY <1>1
  <2> QED BY <2>1, ScanHeader, ScanNothing, ScanOther
<1>0. base \in A
  <2>1. base \in ParseType /\ base.hunks = <<>>
    <3>1. <<>> \in Seq(HunkType)
      OBVIOUS
    <3> QED BY <3>1 DEF ParseType
  <2>2. DOMAIN <<>> = {} /\ LinesOf(<<>>) = {}
    BY DEF LinesOf
  <2>3. WellParsed(base)
    BY <2>1, <2>2 DEF WellParsed
  <2> QED BY <2>1, <2>3 DEF Parses
<1> HIDE DEF base
<1> HIDE DEF n, A, all
<1>3. F \in [1..n -> [A -> A]]
  BY <1>2
<1>4. PICK g \in [SUBSET (1..n) -> A] : Recursion(g, n, base, F)
  <2> HIDE DEF F
  <2> QED BY <1>0, <1>1, <1>3, FoldExists, Zenon
<1>5. ASSUME NEW q \in SUBSET (1..n)
      PROVE  g[q] = IF q = {} THEN base ELSE Add(g[q \ {Max(q)}], all[Max(q)])
  <2>1. CASE q # {}
    <3>1. Max(q) \in 1..n
      BY <1>1, <2>1, MaxFacts
    <3>2. g[q \ {Max(q)}] \in A
      OBVIOUS
    <3> QED BY <1>4, <2>1, <3>1, <3>2 DEF Recursion
  <2> QED BY <1>4, <2>1 DEF Recursion
<1>6. PICK h : /\ h = [q \in SUBSET (1..n) |->
                         IF q = {} THEN base ELSE Add(h[q \ {Max(q)}], all[Max(q)])]
               /\ result = h[1..n]
  <2>1. DOMAIN all = 1..n
    BY <1>1
  <2>2. g = [q \in SUBSET (1..n) |->
               IF q = {} THEN base ELSE Add(g[q \ {Max(q)}], all[Max(q)])]
    <3> HIDE DEF F
    <3> QED BY <1>5
  <2>3. result = FoldLeft(Add, base, all)
    BY Zenon DEF result, FoldLeft, MapThenFoldSet
  <2> HIDE DEF Add
  <2> QED BY <2>1, <2>2, <2>3, Zenon DEF FoldLeft, MapThenFoldSet
<1>7. ASSUME NEW q \in SUBSET (1..n), q # {}, h[q \ {Max(q)}] \in A
      PROVE  h[q] = F[Max(q)][h[q \ {Max(q)}]]
  <2>1. Max(q) \in 1..n
    BY <1>1, <1>7, MaxFacts
  <2>2. h[q] = Add(h[q \ {Max(q)}], all[Max(q)])
    BY <1>6, <1>7
  <2> QED BY <1>7, <2>1, <2>2
<1>8. PICK c : Chain(c, n, A, base, F, h[1..n])
  <2> HIDE DEF F
  <2>1. Unfolds(h, n, A, base, F)
    BY <1>6, <1>7 DEF Unfolds
  <2> QED BY <1>0, <1>1, <1>3, <2>1, FoldChain, Zenon
<1>9. ASSUME NEW k \in 1..n PROVE c[k] = Add(c[k - 1], all[k])
  <2>1. k - 1 \in 0..n
    BY <1>1
  <2> QED BY <1>8, <2>1 DEF Chain
<1>10. c \in [0..n -> A] /\ c[0] = base /\ c[n] = result
  <2> HIDE DEF F
  <2> QED BY <1>6, <1>8 DEF Chain
<1> HIDE DEF F
<1>11. parse_patch(patch) = result.hunks
  BY DEF parse_patch, result, base, all
<1> QED BY <1>9, <1>10, <1>11 DEF n, A, all, base

\* What is addressable is what the numbers of the hunks say, and there is a last line of it.
LEMMA AddressableFacts ==
    ASSUME NEW file, file.patch \in Seq(PatchLine)
    PROVE  /\ addressable_lines(file) = LinesOf(parse_patch(file.patch))
           /\ parse_patch(file.patch) \in Seq(HunkType)
           /\ \A h \in DOMAIN parse_patch(file.patch) :
                 parse_patch(file.patch)[h].lines = NumbersOf(parse_patch(file.patch)[h])
           /\ \E m \in Nat : addressable_lines(file) \subseteq 0..m
           /\ file.patch = <<>> => addressable_lines(file) = {}
<1> DEFINE ls == splitlines(file.patch)
<1>1. PICK c \in [0..Len(ls) -> Parses] :
              /\ c[0] = [hunks |-> <<>>, new_line |-> 0]
              /\ c[Len(ls)].hunks = parse_patch(file.patch)
              /\ \A k \in 1..Len(ls) : c[k] = ScanLine(c[k - 1], ls[k])
  BY ParseChain
<1>2. ls \in Seq(PatchLine) /\ (file.patch = <<>> => ls = <<>>)
  BY SplitFacts
<1> HIDE DEF ls
<1>3. Len(ls) \in 0..Len(ls)
  BY <1>2
<1>4. c[Len(ls)] \in Parses
  BY <1>3
<1>5. addressable_lines(file) = LinesOf(parse_patch(file.patch))
  BY DEF addressable_lines, LinesOf
<1>6. ASSUME file.patch = <<>> PROVE addressable_lines(file) = {}
  <2>1. Len(ls) = 0
    BY <1>2, <1>6
  <2>2. parse_patch(file.patch) = <<>>
    BY <1>1, <2>1
  <2>3. LinesOf(<<>>) = {}
    BY DEF LinesOf
  <2> QED BY <1>5, <2>2, <2>3
<1> QED BY <1>1, <1>4, <1>5, <1>6 DEF Parses, ParseType, WellParsed

-----------------------------------------------------------------------------
(* GitHub's count *)

\* The last header up to line i, and the number of the new file's lines from
\* there to line k.
HeaderOf(patch, i) == Max({h \in 1..i : patch[h].mark = "@@"})

InHunk(patch, from, to) == Cardinality({j \in from..to : InNewFile(patch[j])})

\* The numbers of the lines up to k.
TrueUpTo(patch, k) ==
    {patch[HeaderOf(patch, i)].start + InHunk(patch, HeaderOf(patch, i), i - 1) :
        i \in {j \in 1..k : InNewFile(patch[j])}}

\* Where the last header is, after one more line.
LEMMA HeaderFacts ==
    ASSUME NEW patch \in Seq(PatchLine), NEW k \in 1..Len(patch), patch[1].mark = "@@"
    PROVE  /\ HeaderOf(patch, k) \in 1..k /\ patch[HeaderOf(patch, k)].mark = "@@"
           /\ patch[k].mark = "@@" => HeaderOf(patch, k) = k
           /\ patch[k].mark # "@@" /\ k # 1 => HeaderOf(patch, k) = HeaderOf(patch, k - 1)
<1> DEFINE H(i) == {h \in 1..i : patch[h].mark = "@@"}
<1>1. k \in Nat /\ k >= 1
  OBVIOUS
<1>2. ASSUME NEW i \in 1..k PROVE Max(H(i)) \in H(i) /\ \A y \in H(i) : y <= Max(H(i))
  <2>1. H(i) \in SUBSET (1..i) /\ 1 \in H(i) /\ i \in Nat
    BY <1>1
  <2> HIDE DEF H
  <2> QED BY <2>1, MaxFacts
<1>3. k \in 1..k
  BY <1>1
<1>4. Max(H(k)) \in H(k) /\ \A y \in H(k) : y <= Max(H(k))
  BY <1>2, <1>3
<1>5. ASSUME patch[k].mark = "@@" PROVE Max(H(k)) = k
  <2>1. k \in H(k)
    BY <1>3, <1>5
  <2>2. Max(H(k)) \in 1..k /\ k <= Max(H(k))
    BY <1>4, <2>1
  <2> QED BY <1>1, <2>2
<1>6. ASSUME patch[k].mark # "@@", k # 1 PROVE H(k) = H(k - 1)
  BY <1>1, <1>6
<1> QED BY <1>4, <1>5, <1>6 DEF HeaderOf

\* One more line of a hunk counts if it is in the new file.
LEMMA InHunkFacts ==
    ASSUME NEW patch \in Seq(PatchLine), NEW k \in 1..Len(patch), NEW h \in 1..k
    PROVE  /\ InHunk(patch, h, k) \in Nat /\ InHunk(patch, h, k - 1) \in Nat
           /\ InHunk(patch, h, k)
                = IF InNewFile(patch[k]) THEN InHunk(patch, h, k - 1) + 1
                  ELSE InHunk(patch, h, k - 1)
<1> DEFINE In(i) == {j \in h..i : InNewFile(patch[j])}
<1>1. k \in Int /\ h \in Int /\ h <= k
  OBVIOUS
<1>2. ASSUME NEW i \in Int PROVE IsFiniteSet(In(i)) /\ Cardinality(In(i)) \in Nat
  <2>1. IsFiniteSet(h..i)
    BY <1>1, FS_Interval
  <2>2. In(i) \in SUBSET (h..i)
    OBVIOUS
  <2>3. IsFiniteSet(In(i))
    <3> HIDE DEF In
    <3> QED BY <2>1, <2>2, FS_Subset
  <2> HIDE DEF In
  <2> QED BY <2>3, FS_CardinalityType
<1>3. ASSUME InNewFile(patch[k]) PROVE InHunk(patch, h, k) = InHunk(patch, h, k - 1) + 1
  <2>1. In(k) = In(k - 1) \cup {k} /\ k \notin In(k - 1)
    BY <1>1, <1>3
  <2>2. Cardinality(In(k - 1) \cup {k}) = Cardinality(In(k - 1)) + 1
    <3>1. IsFiniteSet(In(k - 1))
      BY <1>1, <1>2
    <3> HIDE DEF In
    <3> QED BY <2>1, <3>1, FS_AddElement
  <2> QED BY <2>1, <2>2 DEF InHunk
<1>4. ASSUME ~InNewFile(patch[k]) PROVE InHunk(patch, h, k) = InHunk(patch, h, k - 1)
  <2>1. In(k) = In(k - 1)
    BY <1>1, <1>4
  <2> QED BY <2>1 DEF InHunk
<1>5. InHunk(patch, h, k) \in Nat /\ InHunk(patch, h, k - 1) \in Nat
  <2>1. k - 1 \in Int
    BY <1>1
  <2>2. Cardinality(In(k)) \in Nat /\ Cardinality(In(k - 1)) \in Nat
    <3> HIDE DEF In
    <3> QED BY <1>1, <1>2, <2>1
  <2> QED BY <2>2 DEF InHunk
<1> QED BY <1>3, <1>4, <1>5

\* The parser counts as GitHub does, on every patch without torn lines and that does
\* not end in an empty one.
LEMMA CountsAgree ==
    ASSUME NEW patch \in Seq(PatchLine), patch # <<>> => patch[1].mark = "@@",
           \A j \in DOMAIN patch : patch[j].torn = "no", ~EndsEmpty(patch)
    PROVE  LinesOf(parse_patch(patch)) = TrueLines(patch)
<1> DEFINE n == Len(patch)
<1>1. n \in Nat /\ DOMAIN patch = 1..n /\ splitlines(patch) = patch
  BY SplitFacts
<1>2. PICK c \in [0..n -> Parses] :
              /\ c[0] = [hunks |-> <<>>, new_line |-> 0]
              /\ c[n].hunks = parse_patch(patch)
              /\ \A k \in 1..n : c[k] = ScanLine(c[k - 1], patch[k])
  BY <1>1, ParseChain
<1>3. TrueLines(patch) = TrueUpTo(patch, n)
  BY <1>1 DEF TrueLines, TrueUpTo, HeaderOf, InHunk
<1> HIDE DEF n
<1> DEFINE S == {k \in 0..n :
                   /\ LinesOf(c[k].hunks) = TrueUpTo(patch, k)
                   /\ k # 0 => /\ c[k].hunks # <<>>
                               /\ c[k].new_line = patch[HeaderOf(patch, k)].start - 1
                                                  + InHunk(patch, HeaderOf(patch, k), k)}
<1>4. 0 \in S
  <2>1. LinesOf(<<>>) = {} /\ c[0].hunks = <<>>
    BY <1>2 DEF LinesOf
  <2>2. TrueUpTo(patch, 0) = {}
    BY DEF TrueUpTo
  <2>3. 0 \in 0..n
    BY <1>1
  <2> QED BY <2>1, <2>2, <2>3
<1>5. ASSUME NEW i \in 0..(n - 1), i \in S PROVE i + 1 \in S
  <2> DEFINE k == i + 1
             h == HeaderOf(patch, k)
             l == patch[k]
             p == c[i]
  <2>1. k \in 1..n /\ k - 1 = i /\ i \in 0..n /\ k \in 0..n /\ i \in Nat
    BY <1>1
  <2>2. c[k] = ScanLine(p, l) /\ p \in Parses /\ l \in PatchLine
    BY <1>1, <1>2, <2>1
  <2>3. patch[1].mark = "@@"
    BY <1>1, <2>1
  <2>4. h \in 1..k /\ patch[h].mark = "@@" /\ (l.mark = "@@" => h = k)
        /\ (l.mark # "@@" /\ k # 1 => h = HeaderOf(patch, i))
    BY <1>1, <2>1, <2>3, HeaderFacts DEF n
  <2>5. /\ InHunk(patch, h, k) \in Nat /\ InHunk(patch, h, i) \in Nat
        /\ InHunk(patch, h, k) = IF InNewFile(l) THEN InHunk(patch, h, i) + 1
                                 ELSE InHunk(patch, h, i)
    BY <1>1, <2>1, <2>4, InHunkFacts DEF n
  <2>6. TrueUpTo(patch, k) = IF InNewFile(l)
                             THEN TrueUpTo(patch, i) \cup {patch[h].start + InHunk(patch, h, i)}
                             ELSE TrueUpTo(patch, i)
    <3> DEFINE N(j) == patch[HeaderOf(patch, j)].start + InHunk(patch, HeaderOf(patch, j), j - 1)
               In(m) == {j \in 1..m : InNewFile(patch[j])}
    <3>1. In(k) = IF InNewFile(l) THEN In(i) \cup {k} ELSE In(i)
      BY <2>1
    <3>2. \A m : TrueUpTo(patch, m) = {N(j) : j \in In(m)}
      BY DEF TrueUpTo
    <3>3. N(k) = patch[h].start + InHunk(patch, h, i)
      BY <2>1
    <3> HIDE DEF N, In, h, k, l
    <3>4. CASE InNewFile(l)
      <4>1. {N(j) : j \in In(i) \cup {k}} = {N(j) : j \in In(i)} \cup {N(k)}
        OBVIOUS
      <4>2. TrueUpTo(patch, k) = {N(j) : j \in In(i)} \cup {N(k)}
        BY <3>1, <3>2, <3>4, <4>1
      <4> QED BY <3>2, <3>3, <3>4, <4>2
    <3>5. CASE ~InNewFile(l)
      BY <3>1, <3>2, <3>5
    <3> QED BY <3>4, <3>5
  <2>7. /\ LinesOf(p.hunks) = TrueUpTo(patch, i)
        /\ i # 0 => /\ p.hunks # <<>>
                    /\ p.new_line = patch[HeaderOf(patch, i)].start - 1
                                    + InHunk(patch, HeaderOf(patch, i), i)
    BY <1>5
  <2>8. patch[h].start \in Nat
    <3>1. patch[h] \in PatchLine
      BY <1>1, <2>1, <2>4
    <3> QED BY <3>1 DEF PatchLine
  <2> HIDE DEF h, l, p, S
  <2>9. CASE l.mark = "@@"
    <3>1. ~InNewFile(l)
      BY <2>9 DEF InNewFile
    <3>2. /\ c[k].hunks # <<>> /\ c[k].new_line = l.start - 1
          /\ LinesOf(c[k].hunks) = LinesOf(p.hunks)
      BY <2>2, <2>9, ScanHeader
    <3>3. h = k /\ patch[h].start = l.start
      BY <2>4, <2>9 DEF l
    <3>4. InHunk(patch, h, k) = 0
      <4>1. {j \in k..k : InNewFile(patch[j])} = {}
        BY <2>1, <3>1 DEF l
      <4> QED BY <3>3, <4>1, FS_EmptySet DEF InHunk
    <3>5. LinesOf(c[k].hunks) = TrueUpTo(patch, k)
      BY <2>6, <2>7, <3>1, <3>2
    <3>6. c[k].new_line = patch[h].start - 1 + InHunk(patch, h, k)
      BY <2>8, <3>2, <3>3, <3>4
    <3> QED BY <2>1, <3>2, <3>5, <3>6 DEF S, h
  <2>10. CASE l.mark # "@@"
    <3>1. k # 1
      BY <2>3, <2>10 DEF l
    <3>2. i # 0 /\ h = HeaderOf(patch, i)
      BY <2>1, <2>4, <2>10, <3>1
    <3>3. p.hunks # <<>> /\ p.new_line = patch[h].start - 1 + InHunk(patch, h, i)
      BY <2>7, <3>2
    <3>4. /\ c[k].hunks # <<>>
          /\ c[k].new_line = IF InNewFile(l) THEN p.new_line + 1 ELSE p.new_line
          /\ LinesOf(c[k].hunks)
               = IF InNewFile(l) THEN LinesOf(p.hunks) \cup {p.new_line + 1} ELSE LinesOf(p.hunks)
      BY <2>2, <2>10, <3>3, ScanOther
    <3>5. c[k].new_line = patch[h].start - 1 + InHunk(patch, h, k)
      <4> DEFINE from == patch[h].start
                 a == InHunk(patch, h, i)
                 b == InHunk(patch, h, k)
                 x == c[k].new_line
                 y == p.new_line
      <4>1. /\ from \in Nat /\ a \in Nat /\ b \in Nat /\ y = from - 1 + a
            /\ x = IF InNewFile(l) THEN y + 1 ELSE y
            /\ b = IF InNewFile(l) THEN a + 1 ELSE a
        BY <2>5, <2>8, <3>3, <3>4
      <4> HIDE DEF from, a, b, x, y
      <4>2. x = from - 1 + b
        BY <4>1
      <4> QED BY <4>2 DEF from, b, x
    <3>6. p.new_line + 1 = patch[h].start + InHunk(patch, h, i)
      BY <2>5, <2>8, <3>3
    <3>7. LinesOf(c[k].hunks) = TrueUpTo(patch, k)
      BY <2>6, <2>7, <3>4, <3>6
    <3> QED BY <2>1, <3>4, <3>5, <3>7 DEF S, h
  <2> QED BY <2>9, <2>10
<1>6. n \in S
  <2> HIDE DEF S
  <2>1. \A i \in 0..(n - 1) : i \in S => i + 1 \in S
    BY <1>5
  <2>2. \A k \in 0..n : k \in S
    BY <1>1, <1>4, <2>1, UpTo
  <2>3. n \in 0..n
    BY <1>1
  <2> QED BY <2>2, <2>3
<1> QED BY <1>2, <1>3, <1>6

-----------------------------------------------------------------------------
(* The prompt *)

FileType == [path : {p[1] : p \in Paths} \cup {p[2] : p \in Paths}, patch : Seq(PatchLine)]

\* A file's block of the prompt has a length.
LEMMA BlockFacts ==
    ASSUME NEW file \in FileType
    PROVE  BlockLength(file) \in Nat
<1> DEFINE all == parse_patch(file.patch)
           n == Len(all)
           A == Nat
           Printed(text) == {j \in DOMAIN text : text[j].mark # "\\"}
           Add(m, h) == m + 1 + Cardinality(Printed(rejoined(h.text)))
           F == [i \in 1..n |-> [m \in A |-> Add(m, all[i])]]
           result == BlockLength(file)
<1>1. all \in Seq(HunkType) /\ n \in Nat /\ DOMAIN all = 1..n
  <2>1. file.patch \in Seq(PatchLine)
    BY DEF FileType
  <2> QED BY <2>1, AddressableFacts
<1>2. ASSUME NEW i \in 1..n, NEW m \in A PROVE Add(m, all[i]) \in A
  <2> DEFINE t == rejoined(all[i].text)
             D == Printed(t)
  <2>1. t \in Seq(PatchLine)
    <3>1. all[i] \in HunkType
      BY <1>1
    <3> HIDE DEF all
    <3>2. all[i].text \in Seq(PatchLine)
      BY <3>1 DEF HunkType
    <3> QED BY <3>2, RejoinedFacts
  <2>2. DOMAIN t = 1..Len(t) /\ Len(t) \in Nat
    BY <2>1
  <2>3. IsFiniteSet(DOMAIN t)
    <3> HIDE DEF t
    <3> QED BY <2>2, FS_Interval
  <2>4. D \in SUBSET DOMAIN t
    OBVIOUS
  <2>5. Cardinality(D) \in Nat
    <3> HIDE DEF D
    <3> QED BY <2>3, <2>4, FS_Subset, FS_CardinalityType
  <2> QED BY <2>5
<1>0. 1 \in A
  OBVIOUS
<1> HIDE DEF n, A, all
<1>3. F \in [1..n -> [A -> A]]
  BY <1>2
<1>4. PICK g \in [SUBSET (1..n) -> A] : Recursion(g, n, 1, F)
  <2> HIDE DEF F
  <2> QED BY <1>0, <1>1, <1>3, FoldExists, Zenon
<1>5. ASSUME NEW q \in SUBSET (1..n)
      PROVE  g[q] = IF q = {} THEN 1 ELSE Add(g[q \ {Max(q)}], all[Max(q)])
  <2>1. CASE q # {}
    <3>1. Max(q) \in 1..n
      BY <1>1, <2>1, MaxFacts
    <3>2. g[q \ {Max(q)}] \in A
      OBVIOUS
    <3> QED BY <1>4, <2>1, <3>1, <3>2 DEF Recursion
  <2> QED BY <1>4, <2>1 DEF Recursion
<1>6. PICK h : /\ h = [q \in SUBSET (1..n) |->
                         IF q = {} THEN 1 ELSE Add(h[q \ {Max(q)}], all[Max(q)])]
               /\ result = h[1..n]
  <2>1. DOMAIN all = 1..n
    BY <1>1
  <2>2. g = [q \in SUBSET (1..n) |->
               IF q = {} THEN 1 ELSE Add(g[q \ {Max(q)}], all[Max(q)])]
    <3> HIDE DEF F
    <3> QED BY <1>5
  <2>3. result = FoldLeft(Add, 1, all)
    BY Zenon DEF result, BlockLength, all
  <2> HIDE DEF Add
  <2> QED BY <2>1, <2>2, <2>3, Zenon DEF FoldLeft, MapThenFoldSet
<1>7. ASSUME NEW q \in SUBSET (1..n), q # {}, h[q \ {Max(q)}] \in A
      PROVE  h[q] = F[Max(q)][h[q \ {Max(q)}]]
  <2>1. Max(q) \in 1..n
    BY <1>1, <1>7, MaxFacts
  <2>2. h[q] = Add(h[q \ {Max(q)}], all[Max(q)])
    BY <1>6, <1>7
  <2> QED BY <1>7, <2>1, <2>2
<1>8. PICK c : Chain(c, n, A, 1, F, h[1..n])
  <2> HIDE DEF F
  <2>1. Unfolds(h, n, A, 1, F)
    BY <1>6, <1>7 DEF Unfolds
  <2> QED BY <1>0, <1>1, <1>3, <2>1, FoldChain, Zenon
<1>9. ASSUME NEW k \in 1..n PROVE c[k] = Add(c[k - 1], all[k])
  <2>1. k - 1 \in 0..n
    BY <1>1
  <2> QED BY <1>8, <2>1 DEF Chain
<1>10. c \in [0..n -> A] /\ c[0] = 1 /\ c[n] = result
  <2> HIDE DEF F
  <2> QED BY <1>6, <1>8 DEF Chain
<1> HIDE DEF F
<1>11. result \in A
  BY <1>1, <1>10
<1> QED BY <1>11 DEF A

RenderType == [used : Nat, files : SUBSET Nat, truncated : BOOLEAN]

\* The prompt, file by file.
LEMMA RenderChain ==
    ASSUME NEW fs \in Seq(FileType)
    PROVE  \E c \in [0..Len(fs) -> RenderType] :
              /\ c[Len(fs)] = render_for_prompt(fs)
              /\ \A k \in 1..Len(fs) :
                    c[k] = IF fs[k].patch = <<>> THEN c[k - 1]
                           ELSE IF c[k - 1].used + BlockLength(fs[k]) > MaxBytes
                           THEN [c[k - 1] EXCEPT !.truncated = TRUE]
                           ELSE [used      |-> c[k - 1].used + BlockLength(fs[k]),
                                 files     |-> c[k - 1].files \cup {k},
                                 truncated |-> c[k - 1].truncated]
<1> DEFINE all == [i \in DOMAIN fs |-> i]
           n == Len(all)
           A == RenderType
           base == [used |-> 0, files |-> {}, truncated |-> FALSE]
           Add(r, i) == IF fs[i].patch = <<>> THEN r
                        ELSE IF r.used + BlockLength(fs[i]) > MaxBytes
                        THEN [r EXCEPT !.truncated = TRUE]
                        ELSE [used |-> r.used + BlockLength(fs[i]), files |-> r.files \cup {i},
                              truncated |-> r.truncated]
           F == [i \in 1..n |-> [r \in A |-> Add(r, all[i])]]
           result == render_for_prompt(fs)
<1>1. n \in Nat /\ n = Len(fs) /\ DOMAIN all = 1..n /\ \A i \in 1..n : all[i] = i /\ i \in DOMAIN fs
  OBVIOUS
<1>2. ASSUME NEW i \in 1..n, NEW r \in A PROVE Add(r, all[i]) \in A
  <2>1. all[i] = i /\ i \in Nat /\ BlockLength(fs[i]) \in Nat
    BY <1>1, BlockFacts
  <2>2. [r EXCEPT !.truncated = TRUE] \in A
    BY DEF RenderType
  <2>3. [used |-> r.used + BlockLength(fs[i]), files |-> r.files \cup {i},
         truncated |-> r.truncated] \in A
    <3>1. r.used \in Nat /\ r.files \in SUBSET Nat /\ r.truncated \in BOOLEAN
      BY DEF RenderType
    <3>2. r.used + BlockLength(fs[i]) \in Nat
      BY <2>1, <3>1
    <3>3. r.files \cup {i} \in SUBSET Nat
      BY <2>1, <3>1
    <3> QED BY <3>1, <3>2, <3>3 DEF RenderType
  <2> QED BY <2>1, <2>2, <2>3
<1>0. base \in A
  BY DEF RenderType
<1> HIDE DEF base
<1> HIDE DEF n, A, all
<1>3. F \in [1..n -> [A -> A]]
  BY <1>2
<1>4. PICK g \in [SUBSET (1..n) -> A] : Recursion(g, n, base, F)
  <2> HIDE DEF F
  <2> QED BY <1>0, <1>1, <1>3, FoldExists, Zenon
<1>5. ASSUME NEW q \in SUBSET (1..n)
      PROVE  g[q] = IF q = {} THEN base ELSE Add(g[q \ {Max(q)}], all[Max(q)])
  <2>1. CASE q # {}
    <3>1. Max(q) \in 1..n
      BY <1>1, <2>1, MaxFacts
    <3>2. g[q \ {Max(q)}] \in A
      OBVIOUS
    <3> QED BY <1>4, <2>1, <3>1, <3>2 DEF Recursion
  <2> QED BY <1>4, <2>1 DEF Recursion
<1>6. PICK h : /\ h = [q \in SUBSET (1..n) |->
                         IF q = {} THEN base ELSE Add(h[q \ {Max(q)}], all[Max(q)])]
               /\ result = h[1..n]
  <2>1. DOMAIN all = 1..n
    BY <1>1
  <2>2. g = [q \in SUBSET (1..n) |->
               IF q = {} THEN base ELSE Add(g[q \ {Max(q)}], all[Max(q)])]
    <3> HIDE DEF F
    <3> QED BY <1>5
  <2>3. result = FoldLeft(Add, base, all)
    BY Zenon DEF result, base, all, render_for_prompt, FoldLeftDomain
  <2> HIDE DEF Add
  <2> QED BY <2>1, <2>2, <2>3, Zenon DEF FoldLeft, MapThenFoldSet
<1>7. ASSUME NEW q \in SUBSET (1..n), q # {}, h[q \ {Max(q)}] \in A
      PROVE  h[q] = F[Max(q)][h[q \ {Max(q)}]]
  <2>1. Max(q) \in 1..n
    BY <1>1, <1>7, MaxFacts
  <2>2. h[q] = Add(h[q \ {Max(q)}], all[Max(q)])
    BY <1>6, <1>7
  <2> QED BY <1>7, <2>1, <2>2
<1>8. PICK c : Chain(c, n, A, base, F, h[1..n])
  <2> HIDE DEF F
  <2>1. Unfolds(h, n, A, base, F)
    BY <1>6, <1>7 DEF Unfolds
  <2> QED BY <1>0, <1>1, <1>3, <2>1, FoldChain, Zenon
<1>9. ASSUME NEW k \in 1..n PROVE c[k] = Add(c[k - 1], all[k])
  <2>1. k - 1 \in 0..n
    BY <1>1
  <2> QED BY <1>8, <2>1 DEF Chain
<1>10. c \in [0..n -> A] /\ c[0] = base /\ c[n] = result
  <2> HIDE DEF F
  <2> QED BY <1>6, <1>8 DEF Chain
<1> HIDE DEF F
<1>11. ASSUME NEW k \in 1..n PROVE c[k] = Add(c[k - 1], k)
  BY <1>1, <1>9
<1> QED BY <1>1, <1>10, <1>11 DEF A

\* A file with a patch is in the prompt, or the prompt says that it is truncated.
LEMMA RenderFacts ==
    ASSUME NEW fs \in Seq(FileType), NEW i \in DOMAIN fs, fs[i].patch # <<>>
    PROVE  i \in Rendered(fs) \/ render_for_prompt(fs).truncated
<1>1. PICK c \in [0..Len(fs) -> RenderType] :
              /\ c[Len(fs)] = render_for_prompt(fs)
              /\ \A k \in 1..Len(fs) :
                    c[k] = IF fs[k].patch = <<>> THEN c[k - 1]
                           ELSE IF c[k - 1].used + BlockLength(fs[k]) > MaxBytes
                           THEN [c[k - 1] EXCEPT !.truncated = TRUE]
                           ELSE [used      |-> c[k - 1].used + BlockLength(fs[k]),
                                 files     |-> c[k - 1].files \cup {k},
                                 truncated |-> c[k - 1].truncated]
  BY RenderChain
<1> DEFINE B == {r \in RenderType : i \in r.files \/ r.truncated}
           n == Len(fs)
<1>2. n \in Nat /\ i \in 1..n
  OBVIOUS
<1>3. ASSUME NEW k \in 1..n PROVE c[k - 1] \in RenderType /\ c[k] \in RenderType
  <2>1. k - 1 \in 0..n /\ k \in 0..n
    BY <1>2
  <2> QED BY <2>1
<1>4. c[i] \in B
  <2> DEFINE r == c[i - 1]
  <2>1. r \in RenderType /\ c[i] \in RenderType
    BY <1>2, <1>3
  <2>2. \/ c[i] = [r EXCEPT !.truncated = TRUE]
        \/ c[i] = [used |-> r.used + BlockLength(fs[i]), files |-> r.files \cup {i},
                   truncated |-> r.truncated]
    BY <1>1, <1>2
  <2> HIDE DEF r
  <2>3. c[i].truncated \/ i \in c[i].files
    BY <2>1, <2>2 DEF RenderType
  <2> QED BY <2>1, <2>3
<1>5. ASSUME NEW k \in 1..n, c[k - 1] \in B PROVE c[k] \in B
  <2> DEFINE r == c[k - 1]
  <2>1. r \in RenderType /\ c[k] \in RenderType /\ (i \in r.files \/ r.truncated)
    BY <1>3, <1>5
  <2>2. \/ c[k] = r
        \/ c[k] = [r EXCEPT !.truncated = TRUE]
        \/ c[k] = [used |-> r.used + BlockLength(fs[k]), files |-> r.files \cup {k},
                   truncated |-> r.truncated]
    BY <1>1
  <2> HIDE DEF r
  <2>3. c[k].truncated \/ i \in c[k].files
    BY <2>1, <2>2 DEF RenderType
  <2> QED BY <2>1, <2>3
<1>6. c[n] \in B
  <2> HIDE DEF B
  <2>1. i \in 0..n
    BY <1>2
  <2> QED BY <1>2, <1>4, <1>5, <2>1, StaysFrom
<1> QED BY <1>1, <1>6 DEF Rendered

-----------------------------------------------------------------------------
(* The diffs of GroundingMC *)

\* Two files of different paths, whose patches begin with a header.
DiffInv ==
    /\ files \in Seq(FileType) /\ Len(files) = 2
    /\ files[1].path # files[2].path
    /\ \A i \in 1..2 : files[i].patch # <<>> => files[i].patch[1].mark = "@@"

\* At first no file has a patch.
LEMMA InitDiffInv == DiffInit => DiffInv
<1> SUFFICES ASSUME DiffInit PROVE DiffInv
  OBVIOUS
<1>0. PICK p \in Paths :
          files = <<[path |-> p[1], patch |-> <<>>], [path |-> p[2], patch |-> <<>>]>>
  BY DEF DiffInit
<1> DEFINE a == [path |-> p[1], patch |-> <<>>]
           b == [path |-> p[2], patch |-> <<>>]
<1>1. a \in FileType /\ b \in FileType
  <2>1. <<>> \in Seq(PatchLine)
    OBVIOUS
  <2> QED BY <2>1 DEF FileType
<1>2. a.path # b.path /\ a.patch = <<>> /\ b.patch = <<>>
  BY DiffAssumption
<1>3. files = <<a, b>>
  BY <1>0
<1> HIDE DEF a, b
<1>4. files \in Seq(FileType) /\ Len(files) = 2 /\ files[1] = a /\ files[2] = b
  BY <1>1, <1>3
<1> QED BY <1>2, <1>4 DEF DiffInv

\* A line is written to the end of one patch, and only a header to an empty one.
LEMMA StepDiffInv == DiffInv /\ [DiffNext]_files => DiffInv'
<1> SUFFICES ASSUME DiffInv, [DiffNext]_files PROVE DiffInv'
  OBVIOUS
<1>1. CASE UNCHANGED files
  BY <1>1 DEF DiffInv
<1>2. ASSUME NEW i \in 1..2, NEW l \in Lines, Write(i, l) PROVE DiffInv'
  <2>1. l \in PatchLine
    <3>1. ASSUME NEW m \in 1..MaxLine PROVE Header(m) \in PatchLine
      BY DiffAssumption DEF Header, PatchLine
    <3>2. ASSUME NEW k \in [mark : {"+", "-", " ", "\\", "blank"}, start : {0},
                            torn : {"no", "text", "end"}]
          PROVE  k \in PatchLine
      <4>1. k = [mark |-> k.mark, start |-> k.start, torn |-> k.torn]
            /\ k.mark \in {"+", "-", " ", "\\", "blank"} /\ k.start = 0 /\ k.torn \in {"no", "text", "end"}
        OBVIOUS
      <4>0. 0 \in Nat
        OBVIOUS
      <4>2. k.mark \in {"@@", "+", "-", " ", "\\", "blank"} /\ k.start \in Nat
        BY <4>0, <4>1, Zenon
      <4>3. [mark |-> k.mark, start |-> k.start, torn |-> k.torn] \in PatchLine
        BY <4>1, <4>2, Zenon DEF PatchLine
      <4> QED BY <4>1, <4>3, Zenon
    <3>3. [mark : {"+", "-"}, start : {0}, torn : Torn]
             \subseteq [mark : {"+", "-", " ", "\\", "blank"}, start : {0}, torn : {"no", "text", "end"}]
      BY DiffAssumption
    <3> QED BY <3>1, <3>2, <3>3 DEF Lines
  <2>2. files \in Seq(FileType) /\ Len(files) = 2 /\ DOMAIN files = 1..2
    BY DEF DiffInv
  <2> DEFINE f == files[i]
             g == [path |-> f.path, patch |-> Append(f.patch, l)]
  <2>3. f \in FileType /\ f.patch \in Seq(PatchLine)
        /\ f.path \in {p[1] : p \in Paths} \cup {p[2] : p \in Paths}
    <3>1. f \in FileType
      BY <2>2, ElementOfSeq
    <3> HIDE DEF f
    <3> QED BY <3>1 DEF FileType
  <2>4. g \in FileType /\ g.path = f.path /\ g.patch = Append(f.patch, l)
    <3>1. Append(f.patch, l) \in Seq(PatchLine)
      BY <2>1, <2>3, AppendFacts
    <3> QED BY <2>3, <3>1 DEF FileType
  <2>5. files' = [files EXCEPT ![i] = g]
    <3>1. files' = [files EXCEPT ![i] = [f EXCEPT !.patch = Append(f.patch, l)]]
      BY <1>2 DEF Write
    <3>2. [f EXCEPT !.patch = Append(f.patch, l)] = g
      <4>1. ASSUME NEW r \in FileType, NEW x
            PROVE  [r EXCEPT !.patch = x] = [path |-> r.path, patch |-> x]
        BY DEF FileType
      <4> HIDE DEF f
      <4> QED BY <2>3, <4>1
    <3> QED BY <3>1, <3>2
  <2> HIDE DEF f, g
  <2>6. files' \in Seq(FileType) /\ Len(files') = 2 /\ files'[i] = g
        /\ \A j \in 1..2 : j # i => files'[j] = files[j]
    <3> HIDE DEF FileType
    <3>1. files' \in Seq(FileType) /\ Len(files') = Len(files)
      <4>1. i \in 1..Len(files) /\ g \in FileType /\ files \in Seq(FileType)
        BY <2>2, <2>4
      <4> DEFINE e == [files EXCEPT ![i] = g]
      <4>2. e \in Seq(FileType) /\ Len(e) = Len(files)
        BY <4>1, ExceptSeq
      <4> HIDE DEF e
      <4>3. files' = e
        BY <2>5 DEF e
      <4> QED BY <4>2, <4>3
    <3> QED BY <2>2, <2>5, <3>1
  <2>7. files'[1].path # files'[2].path
    BY <2>4, <2>6 DEF DiffInv, f
  <2>8. g.patch[1].mark = "@@"
    <3>1. CASE f.patch = <<>>
      <4>1. l.mark = "@@"
        BY <1>2, <3>1 DEF Write, f
      <4>2. Append(<<>>, l)[1] = l
        OBVIOUS
      <4> QED BY <2>4, <3>1, <4>1, <4>2
    <3>2. CASE f.patch # <<>>
      <4>1. f.patch[1].mark = "@@" /\ 1 \in DOMAIN f.patch
        BY <2>3, <3>2 DEF DiffInv, f
      <4>2. Append(f.patch, l)[1] = f.patch[1]
        BY <2>1, <2>3, <4>1, AppendFacts
      <4> QED BY <2>4, <4>1, <4>2
    <3> QED BY <3>1, <3>2
  <2>9. \A j \in 1..2 : files'[j].patch # <<>> => files'[j].patch[1].mark = "@@"
    BY <2>6, <2>8 DEF DiffInv
  <2> QED BY <2>6, <2>7, <2>9 DEF DiffInv
<1> QED BY <1>1, <1>2 DEF DiffNext

\* Every diff git writes is of this form.
LEMMA DiffInvariance == DiffSpec => []DiffInv
BY InitDiffInv, StepDiffInv, PTL DEF DiffSpec

\* The gutter of a hunk has its numbers, or all of them but the last.
LEMMA GutterFacts ==
    ASSUME NEW h \in HunkType
    PROVE  /\ Gutter(h) \subseteq NumbersOf(h)
           /\ \A n \in NumbersOf(h) \ Gutter(h) :
                 EndsEmpty(h.text) /\ \A m \in NumbersOf(h) : m <= n
<1>1. h.text \in Seq(PatchLine) /\ h.new_start \in Nat
  BY DEF HunkType
<1>2. ASSUME ~EndsEmpty(h.text) PROVE Gutter(h) = NumbersOf(h)
  BY <1>1, <1>2, RejoinedFacts DEF Gutter, NumbersOf
<1>3. ASSUME EndsEmpty(h.text)
      PROVE  /\ Gutter(h) \subseteq NumbersOf(h)
             /\ \A n \in NumbersOf(h) \ Gutter(h) : \A m \in NumbersOf(h) : m <= n
  <2> DEFINE t == rejoined(h.text)
             g == [new_start |-> h.new_start, lines |-> {}, text |-> t]
             k == [new_start |-> h.new_start, lines |-> {}, text |-> h.text]
             last == h.new_start + Counted(t, Len(t))
  <2>1. PICK l \in PatchLine : l.mark = "blank" /\ h.text = Append(t, l)
    BY <1>1, <1>3, RejoinedFacts
  <2>2. t \in Seq(PatchLine)
    BY <1>1, RejoinedFacts
  <2>3. NumbersOf(g) = Gutter(h) /\ NumbersOf(k) = NumbersOf(h)
    BY DEF NumbersOf, Gutter
  <2> HIDE DEF t
  <2>4. NumbersOf(h) = Gutter(h) \cup {last}
    <3>1. g \in HunkType /\ k \in HunkType
      BY <1>1, <2>2 DEF HunkType
    <3>2. InNewFile(l)
      BY <2>1 DEF InNewFile
    <3>3. g.new_start = h.new_start /\ g.text = t /\ k.new_start = h.new_start /\ k.text = h.text
      OBVIOUS
    <3> HIDE DEF g, k
    <3>4. NumbersOf(k) = NumbersOf(g) \cup {g.new_start + Counted(g.text, Len(g.text))}
      BY <2>1, <3>1, <3>2, <3>3, NumbersFacts
    <3> QED BY <2>3, <3>3, <3>4
  <2>5. ASSUME NEW m \in Gutter(h) PROVE m <= last
    <3>1. PICK i \in DOMAIN t : m = h.new_start - 1 + Counted(t, i)
      BY DEF Gutter, Numbers, Counted, t
    <3>2. Len(t) \in Nat /\ i \in 1..Len(t)
      BY <2>2
    <3>3. Counted(t, i) \in Nat /\ Counted(t, Len(t)) \in Nat /\ Counted(t, i) <= Counted(t, Len(t))
      BY <2>2, <3>2, CountedGrows
    <3> QED BY <1>1, <3>1, <3>3
  <2>6. last \in Nat
    <3>1. Len(t) \in Nat /\ Len(t) \in 0..Len(t)
      BY <2>2
    <3>2. Counted(t, Len(t)) \in Nat
      BY <2>1, <2>2, <3>1, CountedFacts
    <3> QED BY <1>1, <3>2
  <2> HIDE DEF last
  <2> QED BY <2>4, <2>5, <2>6
<1> QED BY <1>2, <1>3

\* The parser, the gutter and GitHub count alike in patches of any length: a number
\* the model is shown is a line a finding may cite; one that it is not shown is the
\* last of a hunk that ends in an empty line, or in a file that the prompt says it
\* left out.
THEOREM LineNumbersAgree == DiffSpec => []NumbersAgree
<1>1. ASSUME DiffInv PROVE NumbersAgree
  <2> SUFFICES ASSUME NEW i \in 1..2
               PROVE  LET patch == files[i].patch
                          hunks == parse_patch(patch)
                      IN /\ (\A j \in DOMAIN patch : patch[j].torn = "no") /\ ~EndsEmpty(patch) =>
                               addressable_lines(files[i]) = TrueLines(patch)
                         /\ Shown(files, i) \subseteq addressable_lines(files[i])
                         /\ i \in Rendered(files) =>
                               \A n \in addressable_lines(files[i]) \ Shown(files, i) :
                                   \E h \in DOMAIN hunks :
                                       /\ EndsEmpty(hunks[h].text) /\ n \in hunks[h].lines
                                       /\ \A m \in hunks[h].lines : m <= n
                         /\ i \notin Rendered(files) /\ addressable_lines(files[i]) # {} =>
                               render_for_prompt(files).truncated
    BY DEF NumbersAgree
  <2> DEFINE patch == files[i].patch
             hs == parse_patch(patch)
             ls == addressable_lines(files[i])
  <2>1. /\ files \in Seq(FileType) /\ i \in DOMAIN files /\ patch \in Seq(PatchLine)
        /\ patch # <<>> => patch[1].mark = "@@"
    <3>1. files \in Seq(FileType) /\ i \in DOMAIN files
      BY <1>1 DEF DiffInv
    <3>2. files[i] \in FileType
      BY <3>1
    <3> QED BY <1>1, <3>1, <3>2 DEF FileType, DiffInv
  <2>2. /\ ls = LinesOf(hs) /\ hs \in Seq(HunkType)
        /\ \A h \in DOMAIN hs : hs[h].lines = NumbersOf(hs[h])
        /\ patch = <<>> => ls = {}
    BY <2>1, AddressableFacts
  <2>3. ASSUME \A j \in DOMAIN patch : patch[j].torn = "no", ~EndsEmpty(patch)
        PROVE  ls = TrueLines(patch)
    BY <2>1, <2>2, <2>3, CountsAgree
  <2>4. ASSUME NEW h \in DOMAIN hs
        PROVE  /\ Gutter(hs[h]) \subseteq hs[h].lines
               /\ \A n \in hs[h].lines \ Gutter(hs[h]) :
                     EndsEmpty(hs[h].text) /\ \A m \in hs[h].lines : m <= n
    <3>1. hs[h] \in HunkType /\ hs[h].lines = NumbersOf(hs[h])
      <4> HIDE DEF hs
      <4> QED BY <2>2
    <3> HIDE DEF hs
    <3> QED BY <3>1, GutterFacts
  <2>5. Shown(files, i) = IF i \in Rendered(files) THEN UNION {Gutter(hs[h]) : h \in DOMAIN hs}
                          ELSE {}
    BY DEF Shown
  <2>6. i \notin Rendered(files) /\ ls # {} => render_for_prompt(files).truncated
    BY <2>1, <2>2, RenderFacts
  <2> HIDE DEF hs, ls
  <2>7. Shown(files, i) \subseteq ls
    BY <2>2, <2>4, <2>5 DEF LinesOf
  <2>8. ASSUME i \in Rendered(files), NEW n \in ls \ Shown(files, i)
        PROVE  \E h \in DOMAIN hs : /\ EndsEmpty(hs[h].text) /\ n \in hs[h].lines
                                    /\ \A m \in hs[h].lines : m <= n
    <3>1. PICK h \in DOMAIN hs : n \in hs[h].lines
      BY <2>2, <2>8 DEF LinesOf
    <3>2. n \notin Gutter(hs[h])
      BY <2>5, <2>8
    <3> QED BY <2>4, <3>1, <3>2
  <2> QED BY <2>3, <2>6, <2>7, <2>8 DEF hs, ls
<1> QED BY <1>1, DiffInvariance, PTL

-----------------------------------------------------------------------------
(* The grounding filter *)

\* The last line of some lines.
LEMMA LastLine ==
    ASSUME NEW m \in Nat, NEW s \in SUBSET (0..m), s # {}
    PROVE  Max(s) \in s /\ \A y \in s : y <= Max(s)
<1> DEFINE D == {d \in 0..m : m - d \in s}
<1>1. D \in SUBSET Nat /\ D # {}
  <2>1. PICK x \in s : TRUE
    OBVIOUS
  <2>2. m - x \in 0..m /\ m - (m - x) = x
    BY <2>1
  <2>3. m - x \in D
    BY <2>1, <2>2
  <2>4. D \subseteq Nat
    OBVIOUS
  <2> QED BY <2>3, <2>4
<1>2. PICK d \in D : \A e \in D : d <= e
  BY <1>1, LeastNat
<1>3. ASSUME NEW y \in s PROVE m - d >= y
  <2>1. y \in 0..m /\ m - y \in 0..m /\ m - (m - y) = y
    OBVIOUS
  <2>2. m - y \in D
    BY <2>1
  <2>3. d <= m - y
    BY <1>2, <2>2
  <2> QED BY <2>1, <2>3
<1>4. \E x \in s : \A y \in s : x >= y
  <2>1. m - d \in s
    OBVIOUS
  <2> QED BY <1>3, <2>1
<1>5. Max(s) \in s /\ \A y \in s : Max(s) >= y
  BY <1>4 DEF Max
<1> QED BY <1>5

\* The greater of two.
LEMMA MaxOfTwo ==
    ASSUME NEW x \in Int, NEW y \in Int
    PROVE  Max({x, y}) \in {x, y} /\ x <= Max({x, y}) /\ y <= Max({x, y})
<1>1. \E m \in {x, y} : \A z \in {x, y} : m >= z
  <2>1. CASE x >= y
    BY <2>1
  <2>2. CASE ~(x >= y)
    BY <2>2
  <2> QED BY <2>1, <2>2
<1>2. Max({x, y}) \in {x, y} /\ \A z \in {x, y} : Max({x, y}) >= z
  BY <1>1 DEF Max
<1> QED BY <1>2

\* A claim is about a file of the diff, and about the one it names.
LEMMA ResolveFacts ==
    ASSUME NEW fs \in Seq(FileType), Len(fs) = 2, fs[1].path # fs[2].path, NEW path
    PROVE  /\ Resolve(fs, path) \subseteq 1..2
           /\ \A i \in 1..2 : fs[i].path = lstrip(path) => Resolve(fs, path) = {i}
<1> DEFINE name == lstrip(path)
           exact == {i \in DOMAIN fs : fs[i].path = name}
           near  == {i \in DOMAIN fs : \/ IsSuffix(name, fs[i].path)
                                       \/ IsSuffix(fs[i].path, name)}
<1>1. DOMAIN fs = 1..2
  OBVIOUS
<1> HIDE DEF name
<1>2. ASSUME NEW i \in 1..2, fs[i].path = name PROVE exact = {i} /\ Min(exact) = i
  <2>1. exact = {i}
    BY <1>1, <1>2
  <2>2. \A j \in {i} : i <= j
    OBVIOUS
  <2>3. Min({i}) = i
    BY <2>2 DEF Min
  <2> QED BY <2>1, <2>3
<1>3. exact # {} => \E i \in 1..2 : fs[i].path = name
  BY <1>1
<1>4. near \subseteq 1..2
  BY <1>1
<1>5. Resolve(fs, path) =
        IF exact # {} THEN {Min(exact)} ELSE IF Cardinality(near) = 1 THEN near ELSE {}
  BY Zenon DEF Resolve, name
<1>6. ASSUME NEW i \in 1..2, fs[i].path = name PROVE Resolve(fs, path) = {i}
  <2>1. exact = {i} /\ Min(exact) = i
    BY <1>2, <1>6
  <2> HIDE DEF exact, near
  <2> QED BY <1>5, <2>1
<1>7. Resolve(fs, path) \subseteq 1..2
  <2>1. CASE exact # {}
    BY <1>3, <1>6, <2>1
  <2>2. CASE exact = {}
    <3> HIDE DEF exact, near
    <3> QED BY <1>4, <1>5, <2>2
  <2> QED BY <2>1, <2>2
<1> QED BY <1>6, <1>7 DEF name

\* Where a claim may be put: line n of file i, and an end in the diff.
Placed(raw, fs, i, n) ==
    [file |-> i, line_start |-> n,
     line_end |-> Max({n, Min({raw.line_end, Max(addressable_lines(fs[i]))})})]

\* The lines of file i that a claim may be put on.
Near(raw, fs, i) == Reach(raw.line_start, addressable_lines(fs[i]))

\* The findings of a claim are the places for it in the files it may be about.
LEMMA GroundFacts ==
    ASSUME NEW raw, NEW fs
    PROVE  /\ \A f \in _ground(raw, fs) :
                 raw.complete /\ \E i \in Resolve(fs, raw.path) :
                     \E n \in Near(raw, fs, i) : f = Placed(raw, fs, i, n)
           /\ raw.complete => _ground(raw, fs) =
                 UNION {{Placed(raw, fs, i, n) : n \in Near(raw, fs, i)} :
                        i \in Resolve(fs, raw.path)}
<1> DEFINE all == UNION {{Placed(raw, fs, i, n) : n \in Near(raw, fs, i)} :
                         i \in Resolve(fs, raw.path)}
<1>1. _ground(raw, fs) = IF raw.complete THEN all ELSE {}
  BY Zenon DEF _ground, Placed, Near
<1>2. ASSUME NEW f \in all
      PROVE  \E i \in Resolve(fs, raw.path) : \E n \in Near(raw, fs, i) : f = Placed(raw, fs, i, n)
  BY <1>2
<1> HIDE DEF all
<1>3. ASSUME NEW f \in _ground(raw, fs) PROVE raw.complete /\ f \in all
  BY <1>1, <1>3
<1>4. raw.complete => _ground(raw, fs) = all
  BY <1>1
<1> QED BY <1>2, <1>3, <1>4 DEF all

\* A finding is on a line of the diff within the window of what the model said,
\* its range is not empty and ends in the diff; and a complete claim on a line of
\* the diff becomes one finding, on that line, when it names the file by a path that
\* lstrip("./") leaves as it is in the diff, which it does no dotfile's: for diffs of
\* any length and every window.
THEOREM GroundingIsReal == DiffSpec => []GroundedIsReal
<1>1. ASSUME DiffInv PROVE GroundedIsReal
  <2> SUFFICES ASSUME NEW c \in Claims
               PROVE  /\ \A f \in _ground(c, files) :
                            /\ f.line_start \in addressable_lines(files[f.file])
                            /\ Abs(f.line_start - c.line_start) <= SNAP_WINDOW
                            /\ f.line_start <= f.line_end
                            /\ f.line_end <= Max(addressable_lines(files[f.file]))
                      /\ \A i \in 1..2 :
                            /\ c.complete /\ lstrip(c.path) = files[i].path
                            /\ c.line_start \in addressable_lines(files[i])
                            => \E f \in _ground(c, files) :
                                  /\ f.file = i /\ f.line_start = c.line_start
                                  /\ _ground(c, files) = {f}
    BY DEF GroundedIsReal
  <2>1. c.line_start \in Nat /\ c.line_end \in Nat
    <3>1. 0..(MaxLine + 1) \subseteq Nat
      BY DiffAssumption
    <3>2. c.line_start \in 0..(MaxLine + 1) /\ c.line_end \in 0..(MaxLine + 1)
      BY DEF Claims
    <3> QED BY <3>1, <3>2
  <2>2. files \in Seq(FileType) /\ Len(files) = 2 /\ files[1].path # files[2].path
    BY <1>1 DEF DiffInv
  <2>3. /\ Resolve(files, c.path) \subseteq 1..2
        /\ \A i \in 1..2 : files[i].path = lstrip(c.path) => Resolve(files, c.path) = {i}
    BY <2>2, ResolveFacts
  <2>4. ASSUME NEW i \in 1..2
        PROVE  \E m \in Nat : addressable_lines(files[i]) \subseteq 0..m
    <3>1. files[i] \in FileType
      BY <2>2, ElementOfSeq
    <3>2. files[i].patch \in Seq(PatchLine)
      BY <3>1 DEF FileType
    <3> QED BY <3>2, AddressableFacts
  <2>5. ASSUME NEW i \in 1..2, NEW n \in Near(c, files, i)
        PROVE  LET f == Placed(c, files, i, n)
               IN /\ f.file = i /\ f.line_start = n /\ n \in addressable_lines(files[i])
                  /\ Abs(n - c.line_start) <= SNAP_WINDOW
                  /\ n <= f.line_end
                  /\ f.line_end <= Max(addressable_lines(files[i]))
    <3> DEFINE ls == addressable_lines(files[i])
               last == Max(ls)
               least == Min({c.line_end, last})
               end == Max({n, least})
    <3>1. n \in ls /\ Abs(n - c.line_start) <= SNAP_WINDOW
      BY <2>5 DEF Near, Reach, Nearest
    <3>2. PICK m \in Nat : ls \subseteq 0..m
      BY <2>4
    <3> HIDE DEF ls
    <3>3. last \in ls /\ n <= last
      BY <3>1, <3>2, LastLine
    <3>4. n \in Nat /\ last \in Nat
      <4> HIDE DEF last
      <4>1. ls \subseteq Nat
        BY <3>2
      <4> QED BY <3>1, <3>3, <4>1
    <3> HIDE DEF last
    <3>5. least \in Int /\ least <= last
      <4>1. c.line_end \in Int /\ last \in Int
        BY <2>1, <3>4
      <4>2. least \in {c.line_end, last} /\ least <= last
        BY <4>1, MinOfTwo
      <4> HIDE DEF least
      <4> QED BY <4>1, <4>2
    <3> HIDE DEF least
    <3>6. end \in {n, least} /\ n <= end
      BY <3>4, <3>5, MaxOfTwo
    <3> HIDE DEF end
    <3>7. n <= end /\ end <= last
      BY <3>3, <3>4, <3>5, <3>6
    <3>8. Placed(c, files, i, n) = [file |-> i, line_start |-> n, line_end |-> end]
      BY Zenon DEF Placed, end, least, last, ls
    <3> QED BY <3>1, <3>7, <3>8 DEF ls, last
  <2>6. ASSUME NEW f \in _ground(c, files)
        PROVE  /\ f.line_start \in addressable_lines(files[f.file])
               /\ Abs(f.line_start - c.line_start) <= SNAP_WINDOW
               /\ f.line_start <= f.line_end
               /\ f.line_end <= Max(addressable_lines(files[f.file]))
    <3>0. PICK i \in Resolve(files, c.path) :
                 \E n \in Near(c, files, i) : f = Placed(c, files, i, n)
      BY <2>6, GroundFacts
    <3>1. PICK n \in Near(c, files, i) : f = Placed(c, files, i, n)
      BY <3>0
    <3>2. i \in 1..2
      BY <2>3
    <3> QED BY <2>5, <3>1, <3>2
  <2>7. ASSUME NEW i \in 1..2, c.complete, lstrip(c.path) = files[i].path,
               c.line_start \in addressable_lines(files[i])
        PROVE  \E f \in _ground(c, files) :
                  /\ f.file = i /\ f.line_start = c.line_start
                  /\ _ground(c, files) = {f}
    <3> DEFINE n == c.line_start
               ls == addressable_lines(files[i])
               f == Placed(c, files, i, n)
    <3>1. PICK m \in Nat : ls \subseteq 0..m
      BY <2>4
    <3>2. ASSUME NEW k \in ls PROVE /\ Abs(k - n) \in Nat /\ Abs(n - n) = 0
                                    /\ (Abs(k - n) <= 0 => k = n)
      <4>1. k \in Int /\ n \in Int
        BY <2>1, <3>1
      <4> HIDE DEF n
      <4> QED BY <4>1 DEF Abs
    <3>3. Nearest(n, ls) = {n}
      <4> HIDE DEF ls, n
      <4>1. n \in ls
        BY <2>7 DEF ls, n
      <4> QED BY <3>2, <4>1 DEF Nearest
    <3>4. Near(c, files, i) = {n}
      <4>1. Abs(n - n) <= SNAP_WINDOW
        BY <2>7, <3>2, GroundingAssumption
      <4>2. Near(c, files, i) = {m1 \in Nearest(n, ls) : Abs(m1 - n) <= SNAP_WINDOW}
        BY Zenon DEF Near, Reach
      <4> HIDE DEF n, ls
      <4> QED BY <3>3, <4>1, <4>2
    <3>5. Resolve(files, c.path) = {i}
      BY <2>3, <2>7
    <3>6. _ground(c, files) = {f}
      <4>1. _ground(c, files) = UNION {{Placed(c, files, j, k) : k \in Near(c, files, j)} :
                                       j \in Resolve(files, c.path)}
        BY <2>7, GroundFacts
      <4> HIDE DEF n
      <4> QED BY <3>4, <3>5, <4>1
    <3>7. f.file = i /\ f.line_start = n
      BY DEF Placed
    <3> QED BY <3>6, <3>7
  <2> QED BY <2>6, <2>7
<1> QED BY <1>1, DiffInvariance, PTL

=============================================================================
