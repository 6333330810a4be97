------------------------------ MODULE Findings ------------------------------
(***************************************************************************)
(* The vocabulary of a review: severities, categories, findings and agent  *)
(* verdicts (domain/enums.py, domain/models.py).                           *)
(*                                                                         *)
(* Confidences are fixed point numbers: a finding's in units of 1/10000    *)
(* (so that a noisy-OR of four agents whose confidences are multiples of   *)
(* 0.1 is exact), a review's in units of 1/1000 as the code rounds it.     *)
(***************************************************************************)
EXTENDS Integers, Sequences, FiniteSets

AgentType == {"security", "correctness", "tests", "docs"}

SEVERITY_ORDER == <<"info", "minor", "major", "critical">>

Severity == {"info", "minor", "major", "critical"}

\* SEVERITY_ORDER.index(severity)
SeverityIndex(s) == CHOOSE i \in 1..4 : SEVERITY_ORDER[i] = s

\* Severity.weight, in hundredths.
Weight(s) == CASE s = "critical" -> 100
               [] s = "major"    -> 70
               [] s = "minor"    -> 40
               [] s = "info"     -> 15

SECURITY_CATEGORIES ==
    {"injection", "authz", "secrets", "crypto", "input_validation"}

CATEGORY_FAMILY ==
    [security    |-> SECURITY_CATEGORIES,
     correctness |-> {"logic", "concurrency", "error_handling",
                      "resource_leak", "api_contract"},
     testing     |-> {"test_coverage", "test_quality"},
     docs        |-> {"documentation", "readability", "convention"},
     other       |-> {"other"}]

Category == UNION {CATEGORY_FAMILY[f] : f \in DOMAIN CATEGORY_FAMILY}

family_of(c) == CHOOSE f \in DOMAIN CATEGORY_FAMILY : c \in CATEGORY_FAMILY[f]

COLLAPSIBLE_CATEGORIES == {"test_coverage"}

VerdictStatus == {"ok", "failed", "timeout", "budget_denied", "skipped"}

-----------------------------------------------------------------------------

\* A word of a title; "more" is the one that a fold adds.
Word == STRING \cup {"more"}

\* Evidence: a place, 0 standing for no line, and its excerpt, a set of words.
EvidenceType ==
    [file_path : Int, line_start : Int, line_end : Int, excerpt : SUBSET Word]

\* A finding's confidence, from 0 to 1 (the field's bounds).
One == 10000

Confidence == 0..One

\* Finding: the fields that some decision depends on.
FindingType ==
    [agent : AgentType, category : Category, severity : Severity, file_path : Int,
     line_start : Int, line_end : Int, title : SUBSET Word, confidence : Confidence,
     agreeing : SUBSET AgentType, categories : SUBSET Category,
     evidence : Seq(EvidenceType)]

\* Finding.overlaps
overlaps(f, g) == /\ f.file_path = g.file_path
                  /\ f.line_start <= g.line_end
                  /\ g.line_start <= f.line_end

\* Finding.is_security
is_security(f) == \/ f.agent = "security"
                  \/ f.category \in SECURITY_CATEGORIES
                  \/ f.categories \cap SECURITY_CATEGORIES # {}

\* AgentVerdict.ok
ok(v) == v.status = "ok"

=============================================================================
