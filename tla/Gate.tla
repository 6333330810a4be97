-------------------------------- MODULE Gate --------------------------------
(***************************************************************************)
(* The confidence gate (gate/confidence.py): post, escalate or stay quiet. *)
(***************************************************************************)
EXTENDS Findings

CONSTANTS AutoPostConfidence,       \* settings.auto_post_confidence, in 1/1000
          FindingPostConfidence,    \* settings.finding_post_confidence, in 1/10000
          PostMinSeverity,          \* settings.post_min_severity
          EscalateCriticalSecurity  \* settings.escalate_critical_security

ASSUME GateAssumption ==
    /\ AutoPostConfidence \in 0..1000
    /\ FindingPostConfidence \in 0..10000
    /\ FindingPostConfidence <= 10 * AutoPostConfidence
    /\ PostMinSeverity \in Severity
    /\ EscalateCriticalSecurity \in BOOLEAN

NoReason == "none"

EscalationReason == {"low_confidence", "critical_security", "agent_failure",
                     "budget_exceeded", "policy"}

Decision == {"auto_post", "escalate", "suppress"}

\* Both bars: is it real, and does it matter.
ClearsTheBars(f) ==
    /\ f.confidence >= FindingPostConfidence
    /\ SeverityIndex(f.severity) >= SeverityIndex(PostMinSeverity)

CriticalSecurity(f) == f.severity = "critical" /\ is_security(f)

\* Mutant: trusts the name of the agent that kept the finding.
HoldsCriticalByAgent(findings) ==
    \E i \in DOMAIN findings :
        findings[i].severity = "critical" /\ findings[i].agent = "security"

\* Rule 3: a critical security finding, whoever reported it.
HoldsCritical(findings) ==
    /\ EscalateCriticalSecurity
    /\ \E i \in DOMAIN findings : CriticalSecurity(findings[i])

Escalate(why) == [decision |-> "escalate", reason |-> why, postable |-> <<>>]

\* evaluate(): the rules in their order of precedence.
evaluate(findings, verdicts, confidence, budget_exhausted) ==
    IF budget_exhausted
      THEN Escalate("budget_exceeded")
    ELSE IF \E i \in DOMAIN verdicts : ~ok(verdicts[i])
      THEN Escalate("agent_failure")
    ELSE IF HoldsCritical(findings)
      THEN Escalate("critical_security")
    ELSE IF \A i \in DOMAIN findings : ~ClearsTheBars(findings[i])
      THEN [decision |-> "suppress", reason |-> NoReason, postable |-> <<>>]
    ELSE IF confidence < AutoPostConfidence
      THEN Escalate("low_confidence")
    ELSE [decision |-> "auto_post", reason |-> NoReason,
          postable |-> SelectSeq(findings, ClearsTheBars)]

=============================================================================
