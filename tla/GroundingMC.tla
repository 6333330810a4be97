---------------------------- MODULE GroundingMC ----------------------------
(***************************************************************************)
(* Grounding on every small diff: git writes the patches of two files line *)
(* by line, and every claim a model could make about them is tried.        *)
(***************************************************************************)
EXTENDS Grounding

CONSTANTS Paths,     \* pairs of paths a diff may have
          Named,     \* the paths the model may name
          MaxLines,  \* bound: lines of both patches
          MaxLine,   \* bound: line numbers of the new files
          Torn       \* how lines may be torn

ASSUME DiffAssumption == /\ MaxLines \in Nat /\ MaxLine \in Nat
                         /\ Torn \subseteq {"no", "text", "end"}
                         /\ \A p \in Paths : p[1] # p[2]

\* Paths that end alike, by characters and by segments, and dotfiles, in a directory
\* and beside a file of that name without the dot.
MCPaths == {<< <<"src", "/", "a">>, <<"b", "a">> >>,
            << <<".", "a">>, <<"web", "/", ".", "a">> >>,
            << <<"a">>, <<".", "a">> >>}

\* As they are, with a prefix that strips, shortened, lengthened, empty and wrong.
MCNamed == UNION {{p[1], p[2]} : p \in MCPaths} \cup
           {<<".", "/", "a">>, <<"repo", "/", "src", "/", "a">>, <<>>, <<"c">>}

VARIABLE files

DiffInit ==
    \E p \in Paths : files = <<[path |-> p[1], patch |-> <<>>], [path |-> p[2], patch |-> <<>>]>>

\* The first new file line that is left for a hunk of the patch.
NextLine(patch) == Max({0} \cup TrueLines(patch)) + 1

\* A hunk starts beyond the one before it; nothing comes before the first.
Write(i, l) ==
    /\ Len(files[1].patch) + Len(files[2].patch) < MaxLines
    /\ IF l.mark = "@@" THEN l.start >= NextLine(files[i].patch)
       ELSE files[i].patch # <<>> /\ NextLine(files[i].patch) <= MaxLine
    /\ files' = [files EXCEPT ![i].patch = Append(@, l)]

Lines ==
    {Header(n) : n \in 1..MaxLine} \cup
    [mark : {"+", "-", " ", "\\", "blank"}, start : {0}, torn : {"no"}] \cup
    [mark : {"+", "-"}, start : {0}, torn : Torn]

DiffNext == \E i \in 1..2 : \E l \in Lines : Write(i, l)

DiffSpec == DiffInit /\ [][DiffNext]_files

Claims ==
    [path : Named, line_start : 0..(MaxLine + 1), line_end : 0..(MaxLine + 1),
     complete : BOOLEAN]

-----------------------------------------------------------------------------
(* Properties *)

\* A text or a patch that ends in an empty line.
EndsEmpty(lines) == lines # <<>> /\ Last(lines).mark = "blank"

\* The three counts of a diff's lines agree.  What parse_patch calls addressable is
\* what GitHub counts, in a patch none of whose lines is torn and that does not end
\* in an empty line.  What render_for_prompt puts in the gutter for the model to cite
\* is addressable; and of a file in the prompt nothing addressable is missing but the
\* last line of a hunk that ends in an empty one.  A file that is not in the prompt
\* is admitted to (truncated).
NumbersAgree ==
    \A i \in 1..2 :
        LET patch == files[i].patch
            hunks == parse_patch(patch)
        IN /\ (\A j \in DOMAIN patch : patch[j].torn = "no") /\ ~EndsEmpty(patch) =>
                 addressable_lines(files[i]) = TrueLines(patch)
           /\ Shown(files, i) \subseteq addressable_lines(files[i])
           /\ i \in Rendered(files) =>
                 \A n \in addressable_lines(files[i]) \ Shown(files, i) :
                     \E h \in DOMAIN hunks :
                         /\ EndsEmpty(hunks[h].text) /\ n \in hunks[h].lines
                         /\ \A m \in hunks[h].lines : m <= n
           /\ i \notin Rendered(files) /\ addressable_lines(files[i]) # {} =>
                 render_for_prompt(files).truncated

\* The grounding filter moves a claim to a line of the diff within the window or
\* not at all, and never to a range that is empty or ends beyond the diff; and it
\* neither drops nor moves a complete claim on a line of the diff, given the path of
\* the file with or without a leading "./".  Not so a claim on a dotfile, whose dot
\* is stripped with it.
GroundedIsReal ==
    \A c \in Claims :
        /\ \A f \in _ground(c, files) :
              /\ f.line_start \in addressable_lines(files[f.file])
              /\ Abs(f.line_start - c.line_start) <= SNAP_WINDOW
              /\ f.line_start <= f.line_end
              /\ f.line_end <= Max(addressable_lines(files[f.file]))
        /\ \A i \in 1..2 :
              /\ c.complete /\ lstrip(c.path) = files[i].path
              /\ c.line_start \in addressable_lines(files[i])
              => \E f \in _ground(c, files) : /\ f.file = i /\ f.line_start = c.line_start
                                              /\ _ground(c, files) = {f}

=============================================================================
