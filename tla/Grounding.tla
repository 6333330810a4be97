------------------------------ MODULE Grounding ------------------------------
(***************************************************************************)
(* Line numbers, from the diff to a finding: parse_patch and               *)
(* render_for_prompt (forge/diff.py) and the grounding filter              *)
(* (agents/base.py).                                                       *)
(*                                                                         *)
(* A line of a patch is its mark, "blank" for an empty line; a header line *)
(* has the new file line its hunk starts at.  A line is torn when its text *)
(* contains a character that str.splitlines takes for a line end and git   *)
(* does not, a form feed for one, with text behind it or at its end.  A    *)
(* path is the sequence of its pieces: "." and "/" are pieces of their     *)
(* own, and a segment has as many as the suffixes that matter.  The budget *)
(* of the prompt counts lines where the code counts bytes.                 *)
(***************************************************************************)
EXTENDS Integers, SequencesExt

CONSTANTS SNAP_WINDOW,
          MaxBytes  \* settings.max_diff_bytes, in lines

ASSUME GroundingAssumption == SNAP_WINDOW \in Nat /\ MaxBytes \in Nat

PatchLine == [mark : {"@@", "+", "-", " ", "\\", "blank"}, start : Nat,
              torn : {"no", "text", "end"}]

Header(start)    == [mark |-> "@@", start |-> start, torn |-> "no"]
Line(mark, torn) == [mark |-> mark, start |-> 0, torn |-> torn]

\* Lines of the new file: added ones and context, which an empty line is.
InNewFile(l) == l.mark \in {"+", " ", "blank"}

-----------------------------------------------------------------------------
(* forge/diff.py *)

\* The rest of a torn line begins with neither mark, and so reads as context.
Rest(l) == Line(IF l.torn = "end" THEN "blank" ELSE " ", "no")

\* "\n".join and then splitlines: an empty line at the end is lost.
rejoined(lines) ==
    IF lines # <<>> /\ Last(lines).mark = "blank" THEN Front(lines) ELSE lines

BrokenUp(patch) ==
    FoldLeft(LAMBDA ls, l :
               IF l.torn = "no" THEN Append(ls, l) ELSE Append(Append(ls, l), Rest(l)),
             <<>>, patch)

\* The lines git wrote are joined in the patch it sends.
splitlines(patch) == rejoined(BrokenUp(patch))

\* The loop of parse_patch: p.hunks, with the last one open, and p.new_line.
\* Lines before the first header are skipped.
ScanLine(p, l) ==
    IF l.mark = "@@"
    THEN [hunks    |-> Append(p.hunks, [new_start |-> l.start, lines |-> {}, text |-> <<>>]),
          new_line |-> l.start - 1]
    ELSE IF p.hunks = <<>> THEN p
    ELSE LET n    == IF InNewFile(l) THEN p.new_line + 1 ELSE p.new_line
             hunk == p.hunks[Len(p.hunks)]
         IN [hunks    |-> [p.hunks EXCEPT ![Len(p.hunks)] =
                [new_start |-> hunk.new_start,
                 lines     |-> IF InNewFile(l) THEN hunk.lines \cup {n} ELSE hunk.lines,
                 text      |-> Append(hunk.text, l)]],
             new_line |-> n]

\* Mutant: "\ No newline at end of file" counts as a line.
ParsePatchCountsNote(patch) ==
    LET Read(l) == IF l.mark = "\\" THEN Line(" ", "no") ELSE l
        lines   == splitlines(patch)
    IN FoldLeft(ScanLine, [hunks |-> <<>>, new_line |-> 0],
                [i \in DOMAIN lines |-> Read(lines[i])]).hunks

parse_patch(patch) ==
    FoldLeft(ScanLine, [hunks |-> <<>>, new_line |-> 0], splitlines(patch)).hunks

\* DiffFile.addressable_lines
addressable_lines(file) ==
    LET hunks == parse_patch(file.patch) IN UNION {hunks[i].lines : i \in DOMAIN hunks}

\* Line numbers counted over the text of a hunk.
Numbers(start, text) ==
    LET Number(i) == start - 1 + Cardinality({j \in 1..i : InNewFile(text[j])})
    IN {Number(i) : i \in {j \in DOMAIN text : InNewFile(text[j])}}

\* Those that render_for_prompt puts in the gutter: parse_patch keeps a hunk's lines
\* joined, and they are split once more.
Gutter(hunk) == Numbers(hunk.new_start, rejoined(hunk.text))

\* A file's block of the prompt: its header, and its hunks with theirs.
BlockLength(file) ==
    LET hunks == parse_patch(file.patch)
        Printed(text) == {j \in DOMAIN text : text[j].mark # "\\"}
    IN FoldLeft(LAMBDA n, h : n + 1 + Cardinality(Printed(rejoined(h.text))), 1, hunks)

\* render_for_prompt: the files that made it into the prompt, and whether it was
\* truncated.  A file that does not fit is left out, and a smaller one after it
\* may still fit.  A file without a patch has no lines to show.
render_for_prompt(files) ==
    FoldLeftDomain(LAMBDA r, i :
        IF files[i].patch = <<>> THEN r
        ELSE IF r.used + BlockLength(files[i]) > MaxBytes THEN [r EXCEPT !.truncated = TRUE]
        ELSE [used |-> r.used + BlockLength(files[i]), files |-> r.files \cup {i},
              truncated |-> r.truncated],
        [used |-> 0, files |-> {}, truncated |-> FALSE], files)

Rendered(files) == render_for_prompt(files).files

Shown(files, i) ==
    LET hunks == parse_patch(files[i].patch)
    IN IF i \in Rendered(files) THEN UNION {Gutter(hunks[h]) : h \in DOMAIN hunks} ELSE {}

-----------------------------------------------------------------------------
(* agents/base.py *)

Abs(n) == IF n < 0 THEN -n ELSE n

\* str.lstrip("./"): every leading dot and slash, that of a dotfile too.
lstrip(path) ==
    LET kept == {i \in DOMAIN path : path[i] \notin {".", "/"}}
    IN IF kept = {} THEN <<>> ELSE SubSeq(path, Min(kept), Len(path))

\* The file a claim is about: the first with the path it names, once that is
\* stripped, or the only one that ends with it or that it ends with.
Resolve(files, claimed) ==
    LET path  == lstrip(claimed)
        exact == {i \in DOMAIN files : files[i].path = path}
        near  == {i \in DOMAIN files : \/ IsSuffix(path, files[i].path)
                                       \/ IsSuffix(files[i].path, path)}
    IN IF exact # {} THEN {Min(exact)} ELSE IF Cardinality(near) = 1 THEN near ELSE {}

\* min over a set: of two lines that are equally near, Python takes either.
Nearest(n, lines) == {m \in lines : \A k \in lines : Abs(m - n) <= Abs(k - n)}

\* The lines of the diff a claim on line n may be put on.
Reach(n, lines) == {m \in Nearest(n, lines) : Abs(m - n) <= SNAP_WINDOW}

\* Mutant: the end is only bounded from above.
GroundKeepsEnd(raw, files) ==
    LET Places(i) ==
            LET lines == addressable_lines(files[i])
            IN {[file |-> i, line_start |-> n, line_end |-> Min({raw.line_end, Max(lines)})] :
                n \in Reach(raw.line_start, lines)}
    IN UNION {Places(i) : i \in Resolve(files, raw.path)}

\* _ground: the findings a claim may become, none when it is dropped.
_ground(raw, files) ==
    LET Places(i) ==
            LET lines == addressable_lines(files[i])
            IN {[file |-> i, line_start |-> n,
                 line_end |-> Max({n, Min({raw.line_end, Max(lines)})})] :
                n \in Reach(raw.line_start, lines)}
    IN IF raw.complete THEN UNION {Places(i) : i \in Resolve(files, raw.path)} ELSE {}

-----------------------------------------------------------------------------
(* GitHub *)

\* What the numbers should be: a line's place in the new file, counted from the
\* header before it over the lines git wrote.
TrueLines(patch) ==
    LET header(i) == Max({h \in 1..i : patch[h].mark = "@@"})
        before(i) == {j \in header(i)..(i - 1) : InNewFile(patch[j])}
    IN {patch[header(i)].start + Cardinality(before(i)) :
            i \in {j \in DOMAIN patch : InNewFile(patch[j])}}

=============================================================================
