------------------------------- MODULE Chunking -------------------------------
(***************************************************************************)
(* How a source file becomes chunks (retrieval/chunking.py): at definition *)
(* boundaries where there are any, in overlapping windows otherwise.       *)
(*                                                                         *)
(* A file is the number of its lines, the lines on which the language's    *)
(* regular expression finds a definition, and the blank ones.  A chunk is  *)
(* its range of lines; text, symbol and language travel with it.           *)
(***************************************************************************)
EXTENDS Integers, FiniteSetsExt

CONSTANTS MAX_CHUNK_LINES, MIN_CHUNK_LINES, WINDOW_OVERLAP

ASSUME ChunkingAssumption ==
    /\ MAX_CHUNK_LINES \in Nat \ {0} /\ MIN_CHUNK_LINES \in Nat
    /\ WINDOW_OVERLAP \in 0..(MAX_CHUNK_LINES - 1)

Chunk(from, to) == [start_line |-> from, end_line |-> to]

step == MAX_CHUNK_LINES - WINDOW_OVERLAP

\* Mutant: the windows do not meet.
_windowsApart(from, to) ==
    {Chunk(c, Min({c + MAX_CHUNK_LINES - 1, to})) :
        c \in {c \in from..to : (c - from) % (MAX_CHUNK_LINES + WINDOW_OVERLAP) = 0}}

\* The cursor after n steps; a window starts there until one reaches the end.
cursor(from, n) == from + n * step

_windows(from, to) ==
    {Chunk(c, Min({c + MAX_CHUNK_LINES - 1, to})) :
        c \in {c \in {cursor(from, n) : n \in 0..(to - from)} :
                 c <= to /\ (c > from => c - step + MAX_CHUNK_LINES - 1 < to)}}

\* The header, if it is long enough, and each definition up to the next one.
_from_boundaries(file) ==
    LET first == Min(file.defs) IN
    (IF first > MIN_CHUNK_LINES THEN {Chunk(1, first - 1)} ELSE {})
    \cup {Chunk(d, Min({file.lines} \cup {e - 1 : e \in {e \in file.defs : e > d}})) :
             d \in file.defs}

\* Chunks that are too long are windowed, and blank ones left out.
chunk_file(file) ==
    LET chunks == IF file.defs # {} THEN _from_boundaries(file) ELSE _windows(1, file.lines)
        parts(c) == IF c.end_line - c.start_line + 1 <= MAX_CHUNK_LINES THEN {c}
                    ELSE _windows(c.start_line, c.end_line)
    IN {c \in UNION {parts(c) : c \in chunks} :
           \E n \in c.start_line..c.end_line : n \notin file.blank}

=============================================================================
