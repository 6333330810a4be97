---------------------------- MODULE SemanticIndex ----------------------------
(***************************************************************************)
(* The semantic index of a repository: operators rebuild it from checkouts *)
(* (index_repository, replace_repo_chunks) while reviews read it for       *)
(* context (build_context, hybrid_search).                                 *)
(*                                                                         *)
(* Postgres runs at READ COMMITTED, its default: each statement sees what  *)
(* was committed when it began.  A DELETE waits for a transaction that has *)
(* deleted one of its rows and then skips what is gone, without looking    *)
(* for rows that came meanwhile; an INSERT waits for a transaction that    *)
(* holds its unique key, and does nothing if the key is then taken; an     *)
(* UPDATE waits for the row.  Ranking by embedding and full text is        *)
(* external: a search returns some rows in some order.                     *)
(***************************************************************************)
EXTENDS Chunking, SequencesExt

CONSTANTS Indexers,  \* invocations of the index command
          Commits,   \* what the checkouts are of
          Trees,     \* what a commit may hold: functions from paths to files
          Readers,   \* reviews that read the index
          Changed,   \* the paths the pull request changes
          Queried,   \* those of them that are searched for, in order: at most 12
          top_k,     \* retrieval_top_k
          max_chars, \* of the content of a chunk, and ...
          retrieval_context_chars  \* ... of the context, a line counted as one

None == "none"

\* A definition is on one of the lines of its file.
ASSUME IndexAssumption ==
    /\ Queried \in Seq(Changed) /\ IsInjective(Queried)
    /\ top_k \in Nat /\ max_chars \in Nat /\ retrieval_context_chars \in Nat
    /\ None \notin Indexers /\ None \notin Commits
    /\ \A t \in Trees : \A p \in DOMAIN t :
          t[p].lines \in Nat /\ t[p].defs \subseteq 1..t[p].lines

VARIABLES
    tree,         \* tree[c]: the files of the commit
    code_chunks,  \* table code_chunks, as committed
    indexed_sha,  \* repositories.indexed_sha, as committed
    tx,           \* tx[i]: the transaction of the indexer
    ctx,          \* ctx[r]: the ReviewContext, and build_context's local variables
    overlapped    \* history: two transactions were open at the same time

tables == <<tree, code_chunks, indexed_sha>>
vars   == <<tables, tx, ctx, overlapped>>

\* What an indexer writes for a checkout: a row for every chunk of every file.
RowsOf(files, i, c) ==
    UNION {{[by |-> i, commit |-> c, path |-> p, chunk |-> k] : k \in chunk_file(files[p])} :
              p \in DOMAIN files}

Rows(i, c) == RowsOf(tree[c], i, c)

\* UNIQUE (repo_id, commit_sha, file_path, start_line, content_hash)
Key(row) == <<row.commit, row.path, row.chunk>>

Keys(rows) == {Key(row) : row \in rows}

Transaction(where, c, rows) ==
    [at |-> where, commit |-> c, snapshot |-> rows, deleted |-> {}, inserted |-> {}]

\* The repository may have been indexed before.
Init ==
    /\ tree \in [Commits -> Trees]
    /\ indexed_sha \in Commits \cup {None}
    /\ code_chunks = IF indexed_sha = None THEN {} ELSE Rows(None, indexed_sha)
    /\ tx = [i \in Indexers |-> Transaction("idle", None, {})]
    /\ ctx \in [Readers -> [at : {"lookup"}, base_sha : Commits \cup {None}, index_drift : {None},
                            indexed_sha : {None}, hits : {<<>>}, chunks : {<<>>},
                            known : {FALSE}, moved : {FALSE}]]
    /\ overlapped = FALSE

-----------------------------------------------------------------------------
(* replace_repo_chunks *)

Open(i) == tx[i].at \in {"deleting", "inserting", "labelling", "labelled"}

\* The transaction and its DELETE begin; the chunks are embedded already.
Begin(i, c) ==
    /\ tx[i].at = "idle"
    /\ tx' = [tx EXCEPT ![i] = Transaction("deleting", c, code_chunks)]
    /\ overlapped' = (overlapped \/ \E j \in Indexers : Open(j))
    /\ UNCHANGED <<tables, ctx>>

\* Mutant: the DELETE is committed on its own.
DeleteCommits(i) ==
    /\ tx[i].at = "deleting"
    /\ \A j \in Indexers \ {i} : Open(j) => tx[j].deleted \cap tx[i].snapshot = {}
    /\ tx' = [tx EXCEPT ![i].at = "inserting"]
    /\ code_chunks' = code_chunks \ tx[i].snapshot
    /\ UNCHANGED <<tree, indexed_sha, ctx, overlapped>>

\* Mutant: the rows of another commit are left.
DeleteOwnCommit(i) ==
    /\ tx[i].at = "deleting"
    /\ tx' = [tx EXCEPT ![i].at = "inserting",
                        ![i].deleted = {row \in code_chunks : row.commit = tx[i].commit}]
    /\ UNCHANGED <<tables, ctx, overlapped>>

\* DELETE FROM code_chunks WHERE repo_id = $1
Delete(i) ==
    /\ tx[i].at = "deleting"
    /\ \A j \in Indexers \ {i} : Open(j) => tx[j].deleted \cap tx[i].snapshot = {}
    /\ tx' = [tx EXCEPT ![i].at = "inserting", ![i].deleted = tx[i].snapshot \cap code_chunks]
    /\ UNCHANGED <<tables, ctx, overlapped>>

\* INSERT INTO code_chunks ... ON CONFLICT DO NOTHING
Insert(i) ==
    LET rows == Rows(i, tx[i].commit) IN
    /\ tx[i].at = "inserting"
    /\ \A j \in Indexers \ {i} :
          Open(j) => Keys(tx[j].inserted \cup tx[j].deleted) \cap Keys(rows) = {}
    /\ tx' = [tx EXCEPT ![i].at = "labelling",
                        ![i].inserted = {row \in rows : Key(row) \notin Keys(code_chunks \ tx[i].deleted)}]
    /\ UNCHANGED <<tables, ctx, overlapped>>

\* UPDATE repositories SET indexed_sha = $2
Label(i) ==
    /\ tx[i].at = "labelling"
    /\ \A j \in Indexers : tx[j].at # "labelled"
    /\ tx' = [tx EXCEPT ![i].at = "labelled"]
    /\ UNCHANGED <<tables, ctx, overlapped>>

\* COMMIT
Commit(i) ==
    /\ tx[i].at = "labelled"
    /\ code_chunks' = (code_chunks \ tx[i].deleted) \cup tx[i].inserted
    /\ indexed_sha' = tx[i].commit
    /\ tx' = [tx EXCEPT ![i] = Transaction("done", None, {})]
    /\ ctx' = [r \in Readers |-> [ctx[r] EXCEPT !.moved = @ \/ ctx[r].at \in {"embed", "search"}]]
    /\ UNCHANGED <<tree, overlapped>>

\* A statement fails, for a vector of the wrong width for one, or the process
\* dies: Postgres rolls back.
Abort(i) ==
    /\ Open(i)
    /\ tx' = [tx EXCEPT ![i] = Transaction("done", None, {})]
    /\ UNCHANGED <<tables, ctx, overlapped>>

-----------------------------------------------------------------------------
(* build_context *)

\* Mutant: an index of some commit is good enough.
index_driftTrusting(sha, base) == IF base # None /\ sha = None THEN "unindexed" ELSE None

index_drift(sha, base) ==
    IF base = None THEN None
    ELSE IF sha = None THEN "unindexed"
    ELSE IF sha # base THEN "stale" ELSE None

\* _note_index_drift; a failed read is noted in the event spine only.
_note_index_drift(r, read) ==
    /\ ctx[r].at = "lookup"
    /\ ctx' = IF read THEN [ctx EXCEPT ![r].at = "embed", ![r].known = TRUE,
                              ![r].indexed_sha = indexed_sha,
                              ![r].index_drift = index_drift(indexed_sha, ctx[r].base_sha)]
              ELSE [ctx EXCEPT ![r].at = "embed"]
    /\ UNCHANGED <<tables, tx, overlapped>>

\* The queries are embedded; without vectors there is no context.
Embed(r, embedded) ==
    /\ ctx[r].at = "embed"
    /\ ctx' = [ctx EXCEPT ![r].at = IF embedded /\ Queried # <<>> THEN "search" ELSE "done"]
    /\ UNCHANGED <<tables, tx, overlapped>>

\* What a search may return, a failed one included: at most top_k rows of files
\* that the pull request does not change.
hybrid_search ==
    {hits \in BoundedSeq({row \in code_chunks : row.path \notin Changed}, top_k) : IsInjective(hits)}

Place(row) == <<row.path, row.chunk.start_line>>

\* The places of the hits kept so far.
seen(r) == {Place(row) : row \in UNION {Range(ctx[r].hits[f]) : f \in DOMAIN ctx[r].hits}}

\* The one way to list a set of numbers in order.
InOrder(S) ==
    {order \in [1..Cardinality(S) -> S] : \A a, b \in DOMAIN order : a < b => order[a] < order[b]}

\* The search for the next file; a hit at a place already seen is not kept.
Search(r) ==
    /\ ctx[r].at = "search" /\ Len(ctx[r].hits) < Len(Queried)
    /\ \E hits \in hybrid_search :
          LET fresh == {k \in DOMAIN hits : /\ Place(hits[k]) \notin seen(r)
                                            /\ \A m \in 1..(k - 1) : Place(hits[m]) # Place(hits[k])}
          IN \E order \in InOrder(fresh) :
                ctx' = [ctx EXCEPT ![r].hits = Append(@, [n \in DOMAIN order |-> hits[order[n]]])]
    /\ UNCHANGED <<tables, tx, overlapped>>

\* Mutant: the files take turns, one after the other.
InterleavedByFile(hits) == {FlattenSeq(hits)}

\* Every file's best hit, then every file's second, and so on; within a round by
\* score, that is in any order.
Interleaved(hits) ==
    LET ranked == UNION {{<<f, k>> : k \in DOMAIN hits[f]} : f \in DOMAIN hits}
        orders == {o \in SetToSeqs(ranked) : \A a, b \in DOMAIN o : a < b => o[a][2] <= o[b][2]}
    IN {[n \in DOMAIN o |-> hits[o[n][1]][o[n][2]]] : o \in orders}

Merge(r) ==
    /\ ctx[r].at = "search" /\ Len(ctx[r].hits) = Len(Queried)
    /\ \E merged \in Interleaved(ctx[r].hits) :
          ctx' = [ctx EXCEPT ![r].at = "done",
                             ![r].chunks = SubSeq(merged, 1, Min({top_k, Len(merged)}))]
    /\ UNCHANGED <<tables, tx, overlapped>>

-----------------------------------------------------------------------------
(* What the model reads of it: ReviewContext.render_repository_context *)

\* CodeChunk.render cuts the content of a long chunk; its heading is left out.
block_length(row) == Min({row.chunk.end_line - row.chunk.start_line + 1, max_chars})

Length(rows) == FoldLeft(LAMBDA used, row : used + block_length(row), 0, rows)

fits(rows) == Length(rows) <= retrieval_context_chars

\* The blocks one after the other, up to the first that does not fit.
render_repository_context(chunks) ==
    SubSeq(chunks, 1, Max({0} \cup {n \in DOMAIN chunks : fits(SubSeq(chunks, 1, n))}))

-----------------------------------------------------------------------------
Next ==
    \/ \E i \in Indexers : \/ \E c \in Commits : Begin(i, c)
                           \/ Delete(i) \/ Insert(i) \/ Label(i) \/ Commit(i) \/ Abort(i)
    \/ \E r \in Readers : \/ \E read \in BOOLEAN : _note_index_drift(r, read)
                          \/ \E embedded \in BOOLEAN : Embed(r, embedded)
                          \/ Search(r) \/ Merge(r)

Spec == Init /\ [][Next]_vars

-----------------------------------------------------------------------------
(* Properties *)

\* A reader never finds the index gone: once a commit is indexed there are rows,
\* however index runs overlap, fail and skip rows of each other.
IndexNeverVanishes ==
    indexed_sha # None /\ (\A c \in Commits : Rows(None, c) # {}) => code_chunks # {}

\* As long as index runs did not overlap, the index is exactly that of the commit
\* it is labelled with, whatever failed on the way.
SwapsAlone ==
    ~overlapped =>
        Keys(code_chunks) = IF indexed_sha = None THEN {} ELSE Keys(Rows(None, indexed_sha))

\* Every line of a file can be retrieved, in a chunk of bounded length: no line
\* falls between two windows or two definitions.  Left out are blank lines, and a
\* header too short to be a chunk of its own.
EveryLineIndexed ==
    ~overlapped /\ indexed_sha # None =>
        \A p \in DOMAIN tree[indexed_sha] :
            LET file == tree[indexed_sha][p]
                from == IF file.defs = {} \/ Min(file.defs) > MIN_CHUNK_LINES THEN 1
                        ELSE Min(file.defs)
            IN \A n \in (from..file.lines) \ file.blank :
                  \E row \in code_chunks :
                      /\ row.path = p
                      /\ n \in row.chunk.start_line..row.chunk.end_line
                      /\ row.chunk.end_line - row.chunk.start_line < MAX_CHUNK_LINES

\* What the agents are told of the index is true of the code they are shown: if
\* the index did not change under the reader and index runs did not overlap, the
\* context is of the commit that was looked up, and without a warning it is of
\* the base of the pull request.
ContextIsLabelled ==
    \A r \in Readers : ctx[r].at = "done" /\ ctx[r].known /\ ~ctx[r].moved /\ ~overlapped =>
        \A row \in Range(ctx[r].chunks) :
            /\ row.commit = ctx[r].indexed_sha
            /\ ctx[r].base_sha # None /\ ctx[r].index_drift = None => row.commit = ctx[r].base_sha

\* No place is retrieved twice, and only the budget of the prompt crowds a file
\* out, and only by the best blocks of others: a file that a search found
\* something new for and of which the model reads nothing has lost its place to
\* blocks each of which is the best one of its file, and which together with the
\* first one that is left out exceed the budget.
EveryFileHeard ==
    \A r \in Readers : ctx[r].at = "done" =>
        LET chunks == ctx[r].chunks
            hits   == ctx[r].hits
            shown  == render_repository_context(chunks)
        IN /\ \A n, m \in DOMAIN chunks : n # m => Place(chunks[n]) # Place(chunks[m])
           /\ top_k >= Len(Queried) =>
                 \A f \in DOMAIN hits : hits[f] # <<>> /\ Range(hits[f]) \cap Range(shown) = {} =>
                    \E n \in DOMAIN chunks :
                       /\ n = Len(shown) + 1
                       /\ ~fits(SubSeq(chunks, 1, n))
                       /\ \A m \in 1..n : \E g \in DOMAIN hits :
                             hits[g] # <<>> /\ chunks[m] = hits[g][1]

-----------------------------------------------------------------------------
(* What the documentation says, and the code does not do.  No run checks it: *)
(* SwapsAlone is what holds, and the README says how this fails.             *)

\* replace_repo_chunks: "Swap in a fresh index for one commit, atomically."
SwapIsAtomic == \A row \in code_chunks : row.commit = indexed_sha

=============================================================================
