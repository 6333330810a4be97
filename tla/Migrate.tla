------------------------------- MODULE Migrate -------------------------------
(***************************************************************************)
(* The migration runner (db/migrate.py): SQL files are cut into statements *)
(* that run one by one, each committed by itself, and a file is entered in *)
(* the ledger when all of its statements ran.  The runner may die anywhere *)
(* and is started again.                                                   *)
(*                                                                         *)
(* A file is a sequence of characters.  The letters stand for words: H and *)
(* F for CREATE TABLE IF NOT EXISTS (hitl_items, feedback), D for DROP     *)
(* TRIGGER IF EXISTS and T for CREATE TRIGGER; other letters for anything  *)
(* else.  Checksums only lead to a warning and are left out.               *)
(***************************************************************************)
EXTENDS Integers, FiniteSets, SequencesExt

CONSTANTS Files,    \* the files of migrations/, in the order of their names
          Creates,  \* Creates[f]: the objects that file f is there to create
          Deaths    \* bound: times that a runner dies

ASSUME MigrateAssumption ==
    /\ DOMAIN Creates = DOMAIN Files
    /\ Deaths \in Nat

VARIABLES schema,   \* the objects the database has
          ledger,   \* schema_migrations: the files recorded as applied
          runner,   \* where the runner is, if one is running
          deaths

mvars == <<schema, ledger, runner, deaths>>

-----------------------------------------------------------------------------
(* Splitting *)

Newline == "n"
Blank   == {Newline, "_"}
Word    == {"a", "b"}   \* what a dollar tag is made of

\* sql.startswith(s, i)
StartsWith(sql, s, i) ==
    i + Len(s) - 1 <= Len(sql) /\ SubSeq(sql, i, i + Len(s) - 1) = s

\* The dollar tag at i ($$ or $word$), or <<>>.
DollarTag(sql, i) ==
    LET ends == {j \in (i + 1)..Len(sql) :
                    /\ sql[i] = "$" /\ sql[j] = "$"
                    /\ \A k \in (i + 1)..(j - 1) : sql[k] \in Word}
    IN IF ends = {} THEN <<>> ELSE SubSeq(sql, i, Min(ends))

\* Mutant: the body of a function is not recognised.
NextModeNoDollar(sql, i, mode, tag) ==
    IF mode = "top" /\ sql[i] = "'" THEN [mode |-> "single", len |-> 1, tag |-> <<>>]
    ELSE IF mode = "single" /\ sql[i] = "'" THEN [mode |-> "top", len |-> 1, tag |-> <<>>]
    ELSE [mode |-> mode, len |-> 1, tag |-> <<>>]

\* What the scanner is in after the token at i, and how long that token is.
NextMode(sql, i, mode, tag) ==
    LET At(s)      == StartsWith(sql, s, i)
        To(m, len) == [mode |-> m, len |-> len, tag |-> tag]
        opened     == DollarTag(sql, i)
    IN CASE mode = "line"   -> To(IF At(<<Newline>>) THEN "top" ELSE mode, 1)
         [] mode = "block"  -> IF At(<<"*", "/">>) THEN To("top", 2) ELSE To(mode, 1)
         [] mode = "dollar" -> IF At(tag) THEN To("top", Len(tag)) ELSE To(mode, 1)
         [] mode = "single" -> To(IF At(<<"'">>) THEN "top" ELSE mode, 1)
         [] mode = "double" -> To(IF At(<<"\"">>) THEN "top" ELSE mode, 1)
         [] mode = "top"    ->
              IF At(<<"-", "-">>) THEN To("line", 2)
              ELSE IF At(<<"/", "*">>) THEN To("block", 2)
              ELSE IF At(<<"'">>) THEN To("single", 1)
              ELSE IF At(<<"\"">>) THEN To("double", 1)
              ELSE IF opened # <<>>
                THEN [mode |-> "dollar", len |-> Len(opened), tag |-> opened]
              ELSE To(mode, 1)

\* strip()
Strip(s) ==
    LET solid == {i \in DOMAIN s : s[i] \notin Blank}
    IN IF solid = {} THEN <<>> ELSE SubSeq(s, Min(solid), Max(solid))

\* Every line is blank or starts with a line comment.
is_only_comments(stmt) ==
    \A i \in DOMAIN stmt :
        (/\ stmt[i] \notin Blank
         /\ \A j \in 1..(i - 1) :
              stmt[j] \in Blank \/ \E k \in j..i : stmt[k] = Newline)
        => StartsWith(stmt, <<"-", "-">>, i)

\* One character: inside a token, a top level semicolon, or the start of a token.
Scan(sql, acc, i) ==
    LET token == NextMode(sql, i, acc.mode, acc.tag)
    IN IF acc.skip > 0
         THEN [acc EXCEPT !.buf = Append(@, sql[i]), !.skip = @ - 1]
       ELSE IF acc.mode = "top" /\ sql[i] = ";"
         THEN [acc EXCEPT !.out = IF Strip(acc.buf) = <<>> THEN @
                                  ELSE Append(@, Strip(acc.buf)),
                          !.buf = <<>>]
       ELSE [acc EXCEPT !.buf = Append(@, sql[i]), !.skip = token.len - 1,
                        !.mode = token.mode, !.tag = token.tag]

split_statements(sql) ==
    LET start == [out |-> <<>>, buf |-> <<>>, mode |-> "top", tag |-> <<>>, skip |-> 0]
        end   == FoldLeftDomain(LAMBDA acc, i : Scan(sql, acc, i), start, sql)
        all   == IF Strip(end.buf) = <<>> THEN end.out ELSE Append(end.out, Strip(end.buf))
    IN SelectSeq(all, LAMBDA s : ~is_only_comments(s))

Statements == [f \in DOMAIN Files |-> split_statements(Files[f])]

-----------------------------------------------------------------------------
(* What Postgres makes of a statement *)

Has(stmt, ch) == \E i \in DOMAIN stmt : stmt[i] = ch

Count(stmt, ch) == Cardinality({i \in DOMAIN stmt : stmt[i] = ch})

\* A statement cut in two is a syntax error, and so is a trigger that exists.
Fails(stmt) ==
    \/ Count(stmt, "'") % 2 = 1 \/ Count(stmt, "\"") % 2 = 1 \/ Count(stmt, "$") % 4 # 0
    \/ Has(stmt, "T") /\ "T" \in schema

Drops(stmt) == IF Has(stmt, "D") THEN {"T"} ELSE {}

Makes(stmt) == {c \in {"H", "F", "T"} : Has(stmt, c)}

Effect(stmt) == (schema \ Drops(stmt)) \cup Makes(stmt)

\* The k-th statement of file f makes c for good: no later one of the file drops it.
MakesForGood(f, k, c) ==
    /\ c \in Makes(Statements[f][k])
    /\ \A l \in (k + 1)..Len(Statements[f]) : c \notin Drops(Statements[f][l])

\* The files of migrations/: each one holds, as the runner cuts it, a statement
\* that makes what the file is there to create, and no other file drops it.
ASSUME FilesAssumption ==
    /\ Files \in Seq(Seq(STRING))
    /\ \A f \in DOMAIN Files :
          /\ Statements[f] \in Seq(Seq(STRING))
          /\ \A c \in Creates[f] :
                /\ \E k \in DOMAIN Statements[f] : MakesForGood(f, k, c)
                /\ \A g \in DOMAIN Files \ {f} : \A l \in DOMAIN Statements[g] :
                      c \notin Drops(Statements[g][l])

-----------------------------------------------------------------------------
(* apply_migrations *)

NoRunner == [file |-> 0, todo |-> <<>>, open |-> FALSE]

MigrateInit ==
    /\ schema = {}
    /\ ledger = {}
    /\ runner = NoRunner
    /\ deaths = 0

\* The migrate command starts with the first file.
Start ==
    /\ runner = NoRunner /\ ledger # DOMAIN Files
    /\ runner' = [NoRunner EXCEPT !.file = 1]
    /\ UNCHANGED <<schema, ledger, deaths>>

Advance == IF runner.file = Len(Files) THEN NoRunner
           ELSE [NoRunner EXCEPT !.file = runner.file + 1]

\* Mutant: the file is recorded first.
LookRecords ==
    /\ runner.file # 0 /\ ~runner.open
    /\ runner' = IF runner.file \in ledger THEN Advance
                 ELSE [runner EXCEPT !.open = TRUE,
                                     !.todo = Statements[runner.file]]
    /\ ledger' = ledger \cup {runner.file}
    /\ UNCHANGED <<schema, deaths>>

\* Is the file in the ledger?  Then it is skipped.
Look ==
    /\ runner.file # 0 /\ ~runner.open
    /\ runner' = IF runner.file \in ledger THEN Advance
                 ELSE [runner EXCEPT !.open = TRUE,
                                     !.todo = Statements[runner.file]]
    /\ UNCHANGED <<schema, ledger, deaths>>

\* conn.execute(stmt); a failure ends the command.
Execute ==
    /\ runner.open /\ runner.todo # <<>>
    /\ LET stmt == Head(runner.todo)
       IN IF Fails(stmt) THEN runner' = NoRunner /\ UNCHANGED schema
          ELSE /\ runner' = [runner EXCEPT !.todo = Tail(@)]
               /\ schema' = Effect(stmt)
    /\ UNCHANGED <<ledger, deaths>>

\* The file is entered in the ledger, and the next one looked at.
Record ==
    /\ runner.open /\ runner.todo = <<>>
    /\ ledger' = ledger \cup {runner.file}
    /\ runner' = Advance
    /\ UNCHANGED <<schema, deaths>>

\* The process or its connection dies between two statements.
Die ==
    /\ runner # NoRunner /\ deaths < Deaths
    /\ runner' = NoRunner
    /\ deaths' = deaths + 1
    /\ UNCHANGED <<schema, ledger>>

MigrateStep == Start \/ Look \/ Execute \/ Record

=============================================================================
