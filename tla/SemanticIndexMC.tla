--------------------------- MODULE SemanticIndexMC ---------------------------
(***************************************************************************)
(* A repository of three files, two of which the pull request changes.     *)
(***************************************************************************)
EXTENDS SemanticIndex

File(lines, defs, blank) == [lines |-> lines, defs |-> defs, blank |-> blank]

\* With windows of three lines that overlap by one, and headers of two lines or
\* more kept: a window that is blank, a header that is dropped and neighbouring
\* definitions, a header that is kept and a definition that takes two windows.
Others == {File(5, {}, {3, 4, 5}), File(5, {2, 5}, {}), File(6, {3}, {1})}

MCTrees == {[p1 |-> File(1, {1}, {}), p2 |-> File(0, {}, {}), q |-> other] : other \in Others}

MCQueried == <<"p1", "p2">>

\* Index runs are alike.
Runs == Permutations(Indexers)

=============================================================================
