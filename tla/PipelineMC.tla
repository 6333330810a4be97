----------------------------- MODULE PipelineMC -----------------------------
(* Pipeline for TLC: two agents, a head that moves, five kinds of report. *)
EXTENDS Pipeline

Base == [agent |-> "docs", category |-> "logic", severity |-> "minor",
         file_path |-> 1, line_start |-> 1, line_end |-> 1, title |-> {"w"},
         confidence |-> 9000, agreeing |-> {}, categories |-> {},
         evidence |-> <<>>]

Critical(category, line) ==
    [Base EXCEPT !.severity = "critical", !.category = category, !.confidence = 9900,
                 !.line_start = line, !.line_end = line]

\* Nothing, something unlikely; a vulnerability; a critical defect that
\* is one of security only if the security specialist says so; critical missing
\* tests, of which a fold keeps the first.
MCReports ==
    {<<>>,
     <<[Base EXCEPT !.confidence = 6500]>>,
     <<Critical("authz", 1)>>,
     <<Critical("logic", 1)>>,
     <<Critical("test_coverage", 20), Critical("test_coverage", 40),
       Critical("test_coverage", 1)>>}

\* One report that posts and one that does not, where the question is about
\* crashes rather than about what was found.
FewReports == {<<>>, <<Base>>}

=============================================================================
