------------------------- MODULE SemanticIndexProofs -------------------------
(***************************************************************************)
(* The index is swapped, read and cut into chunks as it should be, for any *)
(* number of index runs, reviews, commits and files.                       *)
(***************************************************************************)
EXTENDS SemanticIndex, FiniteSetTheorems, WellFoundedInduction, TLAPS

-----------------------------------------------------------------------------
(* The index runs *)

Chunks == UNION {UNION {chunk_file(t[p]) : p \in DOMAIN t} : t \in Trees}
Paths  == UNION {DOMAIN t : t \in Trees}
Row    == [by : Indexers \cup {None}, commit : Commits, path : Paths, chunk : Chunks]

AtOpen  == {"deleting", "inserting", "labelling", "labelled"}
AtAfter == {"labelling", "labelled"}

TxType == [at : {"idle", "done"} \cup AtOpen, commit : Commits \cup {None},
           snapshot : SUBSET Row, deleted : SUBSET Row, inserted : SUBSET Row]

WriterTypeOK ==
    /\ tree \in [Commits -> Trees]
    /\ code_chunks \subseteq Row
    /\ indexed_sha \in Commits \cup {None}
    /\ tx \in [Indexers -> TxType]
    /\ \A i \in Indexers : tx[i].at \in AtOpen => tx[i].commit \in Commits
    /\ overlapped \in BOOLEAN

\* What an index run writes is its own, and nobody has seen it before it is done.
OwnRows ==
    \A i \in Indexers :
        /\ \A row \in tx[i].inserted : row.by = i
        /\ tx[i].at # "done" =>
              /\ \A row \in code_chunks : row.by # i
              /\ \A j \in Indexers : \A row \in tx[j].snapshot \cup tx[j].deleted : row.by # i

\* The index runs that found every row of theirs taken, and wrote none.
Idlers == {i \in Indexers : tx[i].at \in AtAfter /\ tx[i].inserted = {}}

\* No commit is without a chunk.
NoneEmpty == \A c \in Commits : Rows(None, c) # {}

\* Together they leave a row, although each may delete what another relies on.
IdlersLeaveARow ==
    NoneEmpty /\ Idlers # {} =>
        \E row \in code_chunks : \A i \in Idlers : row \notin tx[i].deleted

\* An index run that is alone deletes the whole index, and writes the whole of its
\* commit.
AloneIsWhole ==
    ~overlapped =>
        \A i \in Indexers : tx[i].at \in AtOpen =>
            /\ \A j \in Indexers : tx[j].at \in AtOpen => j = i
            /\ tx[i].at = "deleting" => tx[i].snapshot = code_chunks
            /\ tx[i].at # "deleting" => tx[i].deleted = code_chunks
            /\ tx[i].at \in AtAfter => tx[i].inserted = Rows(i, tx[i].commit)

WriterInv ==
    /\ WriterTypeOK
    /\ OwnRows
    /\ IdlersLeaveARow
    /\ AloneIsWhole
    /\ IndexNeverVanishes
    /\ SwapsAlone

\* Whoever writes them, the rows of a commit have the same keys.
LEMMA RowsFacts ==
    ASSUME WriterTypeOK, NEW c \in Commits, NEW i \in Indexers \cup {None}
    PROVE  /\ Rows(i, c) \subseteq Row
           /\ \A row \in Rows(i, c) : row.by = i /\ row.commit = c
           /\ Keys(Rows(i, c)) = Keys(Rows(None, c))
           /\ Rows(None, c) # {} => Rows(i, c) # {}
<1>1. tree[c] \in Trees
  BY DEF WriterTypeOK
<1>2. ASSUME NEW w, NEW row \in Rows(w, c)
      PROVE  \E p \in DOMAIN tree[c] : \E k \in chunk_file(tree[c][p]) :
                row = [by |-> w, commit |-> c, path |-> p, chunk |-> k]
  BY <1>2 DEF Rows, RowsOf
<1>3. ASSUME NEW w, NEW p \in DOMAIN tree[c], NEW k \in chunk_file(tree[c][p])
      PROVE  [by |-> w, commit |-> c, path |-> p, chunk |-> k] \in Rows(w, c)
  <2> DEFINE ofPath == {[by |-> w, commit |-> c, path |-> p, chunk |-> m] : m \in chunk_file(tree[c][p])}
  <2>1. [by |-> w, commit |-> c, path |-> p, chunk |-> k] \in ofPath
    OBVIOUS
  <2>2. ofPath \subseteq Rows(w, c)
    BY Zenon DEF Rows, RowsOf
  <2> QED BY <2>1, <2>2
<1>4. Rows(i, c) \subseteq Row /\ \A row \in Rows(i, c) : row.by = i /\ row.commit = c
  <2> SUFFICES ASSUME NEW row \in Rows(i, c) PROVE row \in Row /\ row.by = i /\ row.commit = c
    OBVIOUS
  <2>1. PICK p, k : /\ p \in DOMAIN tree[c] /\ k \in chunk_file(tree[c][p])
                    /\ row = [by |-> i, commit |-> c, path |-> p, chunk |-> k]
    BY <1>2
  <2>2. p \in Paths /\ k \in Chunks
    BY <1>1, <2>1 DEF Paths, Chunks
  <2> QED BY <2>1, <2>2 DEF Row
<1>5. ASSUME NEW v, NEW w PROVE Keys(Rows(v, c)) \subseteq Keys(Rows(w, c))
  <2> SUFFICES ASSUME NEW row \in Rows(v, c) PROVE Key(row) \in Keys(Rows(w, c))
    BY DEF Keys
  <2>1. PICK p, k : /\ p \in DOMAIN tree[c] /\ k \in chunk_file(tree[c][p])
                    /\ row = [by |-> v, commit |-> c, path |-> p, chunk |-> k]
    BY <1>2
  <2> DEFINE twin == [by |-> w, commit |-> c, path |-> p, chunk |-> k]
  <2>2. twin \in Rows(w, c) /\ Key(twin) = Key(row)
    BY <1>3, <2>1 DEF Key
  <2> QED BY <2>2 DEF Keys
<1>6. Rows(None, c) # {} => Rows(i, c) # {}
  BY <1>2, <1>3
<1>7. Keys(Rows(i, c)) = Keys(Rows(None, c))
  <2>1. Keys(Rows(i, c)) \subseteq Keys(Rows(None, c))
    BY <1>5
  <2>2. Keys(Rows(None, c)) \subseteq Keys(Rows(i, c))
    BY <1>5
  <2> QED BY <2>1, <2>2
<1> QED BY <1>4, <1>6, <1>7

\* The initial state satisfies the invariant.
LEMMA WriterInvInit == Init => WriterInv
<1> SUFFICES ASSUME Init PROVE WriterInv
  OBVIOUS
<1>1. /\ tree \in [Commits -> Trees]
      /\ indexed_sha \in Commits \cup {None}
      /\ code_chunks = IF indexed_sha = None THEN {} ELSE Rows(None, indexed_sha)
      /\ \A i \in Indexers : tx[i] = [at |-> "idle", commit |-> None, snapshot |-> {},
                                      deleted |-> {}, inserted |-> {}]
      /\ DOMAIN tx = Indexers /\ tx = [i \in Indexers |-> tx[i]]
      /\ overlapped = FALSE
  BY DEF Init, Transaction
<1>2. WriterTypeOK
  <2>1. code_chunks \subseteq Row
    <3>1. ASSUME NEW c \in Commits PROVE Rows(None, c) \subseteq Row
      <4> SUFFICES ASSUME NEW row \in Rows(None, c) PROVE row \in Row
        OBVIOUS
      <4>1. PICK p, k : /\ p \in DOMAIN tree[c] /\ k \in chunk_file(tree[c][p])
                        /\ row = [by |-> None, commit |-> c, path |-> p, chunk |-> k]
        BY DEF Rows, RowsOf
      <4>2. tree[c] \in Trees
        BY <1>1
      <4>3. p \in Paths /\ k \in Chunks
        BY <4>1, <4>2 DEF Paths, Chunks
      <4> QED BY <4>1, <4>3 DEF Row
    <3> QED BY <3>1, <1>1
  <2>2. \A i \in Indexers : tx[i] \in TxType
    BY <1>1 DEF TxType, AtOpen
  <2>3. tx \in [Indexers -> TxType]
    BY <1>1, <2>2, Zenon
  <2>4. \A i \in Indexers : tx[i].at \notin AtOpen
    BY <1>1 DEF AtOpen
  <2> QED BY <1>1, <2>1, <2>3, <2>4 DEF WriterTypeOK
<1>3. OwnRows
  <2>1. \A row \in code_chunks : row.by = None
    BY <1>1, <1>2, RowsFacts
  <2> QED BY <1>1, <2>1, IndexAssumption DEF OwnRows
<1>4. IdlersLeaveARow /\ AloneIsWhole
  BY <1>1 DEF IdlersLeaveARow, Idlers, AloneIsWhole, AtAfter, AtOpen
<1>5. IndexNeverVanishes /\ SwapsAlone
  BY <1>1 DEF IndexNeverVanishes, SwapsAlone, Keys
<1> QED BY <1>2, <1>3, <1>4, <1>5 DEF WriterInv

\* Every step of an index run preserves it, and so does every step that leaves the
\* index and the runs alone.
LEMMA WriterInvStep ==
    ASSUME WriterInv, NEW i \in Indexers,
           \/ \E c \in Commits : Begin(i, c)
           \/ Delete(i) \/ Insert(i) \/ Label(i) \/ Commit(i) \/ Abort(i)
    PROVE  WriterInv'
<1>1. ASSUME NEW c \in Commits, Begin(i, c) PROVE WriterInv'
  <2>1. /\ tx[i].at = "idle"
        /\ tx' = [tx EXCEPT ![i] = [at |-> "deleting", commit |-> c, snapshot |-> code_chunks,
                                    deleted |-> {}, inserted |-> {}]]
        /\ overlapped' = (overlapped \/ \E j \in Indexers : tx[j].at \in AtOpen)
        /\ UNCHANGED <<tree, code_chunks, indexed_sha>>
    BY <1>1 DEF Begin, Transaction, Open, AtOpen, tables
  <2>2. WriterTypeOK'
    BY <2>1 DEF WriterInv, WriterTypeOK, TxType, AtOpen
  <2>3. OwnRows'
    BY <2>1 DEF WriterInv, WriterTypeOK, OwnRows
  <2>4. Idlers' = Idlers /\ \A j \in Idlers : tx'[j] = tx[j]
    BY <2>1 DEF WriterInv, WriterTypeOK, Idlers, AtAfter
  <2>5. IdlersLeaveARow'
    BY <2>1, <2>4 DEF WriterInv, IdlersLeaveARow, NoneEmpty, Rows
  <2>6. AloneIsWhole'
    BY <2>1 DEF WriterInv, WriterTypeOK, AloneIsWhole, AtOpen, AtAfter, Rows
  <2>7. IndexNeverVanishes' /\ SwapsAlone'
    BY <2>1 DEF WriterInv, IndexNeverVanishes, SwapsAlone, Rows
  <2> QED BY <2>2, <2>3, <2>5, <2>6, <2>7 DEF WriterInv
<1>2. CASE Delete(i)
  <2>1. /\ tx[i].at = "deleting"
        /\ tx' = [tx EXCEPT ![i].at = "inserting", ![i].deleted = tx[i].snapshot \cap code_chunks]
        /\ UNCHANGED <<tree, code_chunks, indexed_sha, overlapped>>
    BY <1>2 DEF Delete, tables
  <2>2. WriterTypeOK'
    <3>1. tx \in [Indexers -> TxType] /\ tx[i] \in TxType /\ tx[i].at \in AtOpen
      BY <2>1 DEF WriterInv, WriterTypeOK, AtOpen
    <3>2. tx' = [tx EXCEPT ![i] = [tx[i] EXCEPT !.at = "inserting",
                                               !.deleted = tx[i].snapshot \cap code_chunks]]
      BY <2>1, <3>1 DEF TxType
    <3>3. [tx[i] EXCEPT !.at = "inserting",
                        !.deleted = tx[i].snapshot \cap code_chunks] \in TxType
      BY <3>1 DEF TxType, AtOpen
    <3>4. tx' \in [Indexers -> TxType]
      BY <3>1, <3>2, <3>3
    <3>5. tx'[i].commit = tx[i].commit /\ \A j \in Indexers \ {i} : tx'[j] = tx[j]
      BY <3>1, <3>2 DEF TxType
    <3> QED BY <2>1, <3>1, <3>4, <3>5 DEF WriterInv, WriterTypeOK
  <2>3. OwnRows'
    BY <2>1 DEF WriterInv, WriterTypeOK, TxType, OwnRows
  <2>4. Idlers' = Idlers /\ \A j \in Idlers : tx'[j] = tx[j]
    BY <2>1 DEF WriterInv, WriterTypeOK, TxType, Idlers, AtAfter
  <2>5. IdlersLeaveARow'
    BY <2>1, <2>4 DEF WriterInv, IdlersLeaveARow, NoneEmpty, Rows
  <2>6. AloneIsWhole'
    BY <2>1 DEF WriterInv, WriterTypeOK, TxType, AloneIsWhole, AtOpen, AtAfter, Rows
  <2>7. IndexNeverVanishes' /\ SwapsAlone'
    BY <2>1 DEF WriterInv, IndexNeverVanishes, SwapsAlone, Rows
  <2> QED BY <2>2, <2>3, <2>5, <2>6, <2>7 DEF WriterInv
<1>3. CASE Insert(i)
  <2> DEFINE rows == Rows(i, tx[i].commit)
             new  == {row \in rows : Key(row) \notin Keys(code_chunks \ tx[i].deleted)}
  <2>1. /\ tx[i].at = "inserting"
        /\ \A j \in Indexers \ {i} : tx[j].at \in AtOpen =>
              Keys(tx[j].inserted \cup tx[j].deleted) \cap Keys(rows) = {}
        /\ tx' = [tx EXCEPT ![i].at = "labelling", ![i].inserted = new]
        /\ UNCHANGED <<tree, code_chunks, indexed_sha, overlapped>>
    BY <1>3 DEF Insert, Open, AtOpen, tables
  <2>2. /\ tx[i].commit \in Commits /\ rows \subseteq Row
        /\ \A row \in rows : row.by = i
        /\ NoneEmpty => rows # {}
    BY <2>1, RowsFacts DEF WriterInv, WriterTypeOK, AtOpen, NoneEmpty
  <2>3. new \subseteq rows
    OBVIOUS
  <2>4. new = {} => \A row \in rows : \E old \in code_chunks \ tx[i].deleted : Key(old) = Key(row)
    BY DEF Keys
  <2>5. code_chunks \ tx[i].deleted = {} => new = rows
    BY DEF Keys
  <2> HIDE DEF rows, new
  <2>6. /\ tx'[i] = [tx[i] EXCEPT !.at = "labelling", !.inserted = new]
        /\ tx'[i].at = "labelling" /\ tx'[i].inserted = new /\ tx'[i].commit = tx[i].commit
        /\ tx'[i].deleted = tx[i].deleted /\ tx'[i].snapshot = tx[i].snapshot
        /\ \A j \in Indexers \ {i} : tx'[j] = tx[j]
    <3>1. tx \in [Indexers -> TxType]
      BY DEF WriterInv, WriterTypeOK
    <3>2. tx' = [tx EXCEPT ![i] = [tx[i] EXCEPT !.at = "labelling", !.inserted = new]]
      BY <2>1, <3>1 DEF TxType
    <3>3. tx'[i] = [tx[i] EXCEPT !.at = "labelling", !.inserted = new]
      BY <3>1, <3>2
    <3> QED BY <3>1, <3>2, <3>3 DEF TxType
  <2>7. WriterTypeOK'
    <3>1. new \in SUBSET Row
      BY <2>2, <2>3
    <3>0. tx[i] \in TxType /\ tx \in [Indexers -> TxType]
      BY DEF WriterInv, WriterTypeOK
    <3>3. [tx[i] EXCEPT !.at = "labelling", !.inserted = new] \in TxType
      BY <3>0, <3>1 DEF TxType, AtOpen
    <3>4. \A j \in Indexers : tx'[j] \in TxType
      BY <2>6, <3>0, <3>3
    <3>2. tx' \in [Indexers -> TxType]
      BY <2>1, <3>0, <3>4
    <3> QED BY <2>1, <2>2, <2>6, <3>2 DEF WriterInv, WriterTypeOK
  <2>8. OwnRows'
    <3> SUFFICES ASSUME NEW j \in Indexers
                 PROVE  /\ \A row \in tx'[j].inserted : row.by = j
                        /\ tx'[j].at # "done" =>
                             /\ \A row \in code_chunks : row.by # j
                             /\ \A k \in Indexers :
                                   \A row \in tx'[k].snapshot \cup tx'[k].deleted : row.by # j
      BY <2>1 DEF OwnRows
    <3>1. \A row \in tx'[j].inserted : row.by = j
      BY <2>2, <2>3, <2>6 DEF WriterInv, OwnRows
    <3>2. tx'[j].at # "done" => tx[j].at # "done"
      BY <2>1, <2>6
    <3>3. \A k \in Indexers : tx'[k].snapshot = tx[k].snapshot /\ tx'[k].deleted = tx[k].deleted
      BY <2>6
    <3> QED BY <3>1, <3>2, <3>3 DEF WriterInv, OwnRows
  <2>9. IdlersLeaveARow'
    <3>1. CASE new # {}
      <4>1. Idlers' = Idlers /\ i \notin Idlers
        <5>1. i \notin Idlers
          BY <2>1 DEF Idlers, AtAfter
        <5>2. tx'[i].inserted # {}
          BY <2>6, <3>1
        <5>3. ASSUME NEW j \in Indexers PROVE j \in Idlers' <=> j \in Idlers
          BY <2>6, <5>1, <5>2 DEF Idlers
        <5> QED BY <5>1, <5>3 DEF Idlers
      <4>2. \A j \in Idlers : tx'[j] = tx[j]
        BY <2>6, <4>1 DEF Idlers
      <4> QED BY <2>1, <4>1, <4>2 DEF WriterInv, IdlersLeaveARow, NoneEmpty, Rows
    <3>2. CASE new = {}
      <4> SUFFICES ASSUME NoneEmpty
                   PROVE  \E row \in code_chunks : \A j \in Idlers' : row \notin tx'[j].deleted
        BY <2>1 DEF IdlersLeaveARow, NoneEmpty, Rows
      <4>1. PICK row \in rows : TRUE
        BY <2>2
      <4>2. PICK old \in code_chunks \ tx[i].deleted : Key(old) = Key(row)
        BY <2>4, <3>2
      <4>3. ASSUME NEW j \in Indexers \ {i}, tx[j].at \in AtOpen PROVE old \notin tx[j].deleted
        BY <2>1, <4>1, <4>2, <4>3 DEF Keys
      <4>4. \A j \in Idlers' : old \notin tx'[j].deleted
        BY <2>6, <4>2, <4>3 DEF Idlers, AtAfter, AtOpen
      <4> QED BY <4>4
    <3> QED BY <3>1, <3>2
  <2>10. AloneIsWhole'
    <3> SUFFICES ASSUME ~overlapped, NEW j \in Indexers, tx'[j].at \in AtOpen
                 PROVE  /\ \A k \in Indexers : tx'[k].at \in AtOpen => k = j
                        /\ tx'[j].at = "deleting" => tx'[j].snapshot = code_chunks
                        /\ tx'[j].at # "deleting" => tx'[j].deleted = code_chunks
                        /\ tx'[j].at \in AtAfter => tx'[j].inserted = Rows(j, tx'[j].commit)
      BY <2>1 DEF AloneIsWhole, Rows
    <3>1. \A k \in Indexers : tx[k].at \in AtOpen => k = i
      BY <2>1 DEF WriterInv, AloneIsWhole, AtOpen
    <3>2. j = i
      BY <3>1, <2>6
    <3>3. tx[i].deleted = code_chunks
      BY <2>1 DEF WriterInv, AloneIsWhole, AtOpen
    <3>4. new = Rows(i, tx[i].commit)
      BY <3>3, <2>5 DEF rows
    <3> QED BY <3>1, <3>2, <3>3, <3>4, <2>6
  <2>11. IndexNeverVanishes' /\ SwapsAlone'
    BY <2>1 DEF WriterInv, IndexNeverVanishes, SwapsAlone, Rows
  <2> QED BY <2>7, <2>8, <2>9, <2>10, <2>11 DEF WriterInv
<1>4. CASE Label(i)
  <2>1. /\ tx[i].at = "labelling"
        /\ tx' = [tx EXCEPT ![i].at = "labelled"]
        /\ UNCHANGED <<tree, code_chunks, indexed_sha, overlapped>>
    BY <1>4 DEF Label, tables
  <2>2. WriterTypeOK'
    BY <2>1 DEF WriterInv, WriterTypeOK, TxType, AtOpen
  <2>3. OwnRows'
    BY <2>1 DEF WriterInv, WriterTypeOK, TxType, OwnRows
  <2>4. Idlers' = Idlers /\ \A j \in Idlers : tx'[j].deleted = tx[j].deleted
    BY <2>1 DEF WriterInv, WriterTypeOK, TxType, Idlers, AtAfter
  <2>5. IdlersLeaveARow'
    BY <2>1, <2>4 DEF WriterInv, IdlersLeaveARow, NoneEmpty, Rows
  <2>6. AloneIsWhole'
    BY <2>1 DEF WriterInv, WriterTypeOK, TxType, AloneIsWhole, AtOpen, AtAfter, Rows
  <2>7. IndexNeverVanishes' /\ SwapsAlone'
    BY <2>1 DEF WriterInv, IndexNeverVanishes, SwapsAlone, Rows
  <2> QED BY <2>2, <2>3, <2>5, <2>6, <2>7 DEF WriterInv
<1>5. CASE Commit(i)
  <2>1. /\ tx[i].at = "labelled"
        /\ code_chunks' = (code_chunks \ tx[i].deleted) \cup tx[i].inserted
        /\ indexed_sha' = tx[i].commit
        /\ tx' = [tx EXCEPT ![i] = [at |-> "done", commit |-> None, snapshot |-> {},
                                    deleted |-> {}, inserted |-> {}]]
        /\ UNCHANGED <<tree, overlapped>>
    BY <1>5 DEF Commit, Transaction
  <2>2. /\ WriterTypeOK /\ tx[i].commit \in Commits /\ tx[i].commit # None
        /\ \A j \in Indexers \ {i} : tx'[j] = tx[j]
        /\ tx'[i].at = "done" /\ tx'[i].snapshot = {} /\ tx'[i].deleted = {} /\ tx'[i].inserted = {}
    BY <2>1, IndexAssumption DEF WriterInv, WriterTypeOK, AtOpen
  <2>3. WriterTypeOK'
    BY <2>1 DEF WriterInv, WriterTypeOK, TxType, AtOpen
  <2>4. OwnRows'
    BY <2>1, <2>2 DEF WriterInv, OwnRows
  <2>5. ASSUME NoneEmpty
        PROVE  /\ code_chunks' # {}
               /\ \E row \in code_chunks' : \A j \in Idlers' : row \notin tx'[j].deleted
    <3>1. Idlers' = Idlers \ {i}
      BY <2>2 DEF Idlers, AtAfter
    <3>2. CASE tx[i].inserted = {}
      <4>1. i \in Idlers
        BY <2>1, <3>2 DEF Idlers, AtAfter
      <4>2. PICK row \in code_chunks : \A j \in Idlers : row \notin tx[j].deleted
        BY <2>5, <4>1 DEF WriterInv, IdlersLeaveARow
      <4>3. row \in code_chunks'
        BY <2>1, <4>1, <4>2
      <4>4. \A j \in Idlers' : row \notin tx'[j].deleted
        BY <2>2, <3>1, <4>2 DEF Idlers
      <4> QED BY <4>3, <4>4
    <3>3. CASE tx[i].inserted # {}
      <4>1. PICK row \in tx[i].inserted : TRUE
        BY <3>3
      <4>2. row \in code_chunks' /\ row.by = i
        BY <2>1, <4>1 DEF WriterInv, OwnRows
      <4>3. \A j \in Indexers : row \notin tx[j].deleted
        BY <2>1, <4>2 DEF WriterInv, OwnRows
      <4>4. \A j \in Idlers' : row \notin tx'[j].deleted
        BY <2>2, <3>1, <4>3 DEF Idlers
      <4> QED BY <4>2, <4>4
    <3> QED BY <3>2, <3>3
  <2>6. IdlersLeaveARow'
    BY <2>1, <2>5 DEF IdlersLeaveARow, NoneEmpty, Rows
  <2>7. ASSUME ~overlapped
        PROVE  /\ \A j \in Indexers : tx'[j].at \notin AtOpen
               /\ code_chunks' = Rows(i, tx[i].commit)
    BY <2>1, <2>2, <2>7 DEF WriterInv, AloneIsWhole, AtOpen, AtAfter
  <2>8. AloneIsWhole'
    BY <2>1, <2>7 DEF AloneIsWhole
  <2>9. IndexNeverVanishes'
    BY <2>1, <2>5 DEF IndexNeverVanishes, NoneEmpty, Rows
  <2>10. SwapsAlone'
    <3>1. Keys(Rows(i, tx[i].commit)) = Keys(Rows(None, tx[i].commit))
      BY <2>2, RowsFacts
    <3> QED BY <2>1, <2>2, <2>7, <3>1 DEF SwapsAlone, Rows
  <2> QED BY <2>3, <2>4, <2>6, <2>8, <2>9, <2>10 DEF WriterInv
<1>6. CASE Abort(i)
  <2>1. /\ tx' = [tx EXCEPT ![i] = [at |-> "done", commit |-> None, snapshot |-> {},
                                    deleted |-> {}, inserted |-> {}]]
        /\ UNCHANGED <<tree, code_chunks, indexed_sha, overlapped>>
    BY <1>6 DEF Abort, Transaction, tables
  <2>2. WriterTypeOK'
    BY <2>1 DEF WriterInv, WriterTypeOK, TxType, AtOpen
  <2>3. OwnRows'
    BY <2>1 DEF WriterInv, WriterTypeOK, OwnRows
  <2>4. Idlers' \subseteq Idlers /\ \A j \in Idlers' : tx'[j] = tx[j]
    BY <2>1 DEF WriterInv, WriterTypeOK, Idlers, AtAfter
  <2>5. IdlersLeaveARow'
    BY <2>1, <2>4 DEF WriterInv, IdlersLeaveARow, NoneEmpty, Rows
  <2>6. AloneIsWhole'
    BY <2>1 DEF WriterInv, WriterTypeOK, AloneIsWhole, AtOpen, AtAfter, Rows
  <2>7. IndexNeverVanishes' /\ SwapsAlone'
    BY <2>1 DEF WriterInv, IndexNeverVanishes, SwapsAlone, Rows
  <2> QED BY <2>2, <2>3, <2>5, <2>6, <2>7 DEF WriterInv
<1> QED BY <1>1, <1>2, <1>3, <1>4, <1>5, <1>6

\* No step of the system breaks the invariant of the index runs.
LEMMA WriterInvNext == WriterInv /\ [Next]_vars => WriterInv'
<1> SUFFICES ASSUME WriterInv, [Next]_vars PROVE WriterInv'
  OBVIOUS
<1>1. CASE UNCHANGED <<tree, code_chunks, indexed_sha, tx, overlapped>>
  BY <1>1 DEF WriterInv, WriterTypeOK, OwnRows, IdlersLeaveARow, Idlers, NoneEmpty, AloneIsWhole,
              IndexNeverVanishes, SwapsAlone, Rows
<1>2. ASSUME NEW r \in Readers,
             \/ \E read \in BOOLEAN : _note_index_drift(r, read)
             \/ \E embedded \in BOOLEAN : Embed(r, embedded)
             \/ Search(r) \/ Merge(r)
      PROVE  UNCHANGED <<tree, code_chunks, indexed_sha, tx, overlapped>>
  BY <1>2 DEF _note_index_drift, Embed, Search, Merge, tables
<1>3. CASE UNCHANGED vars
  BY <1>1, <1>3 DEF vars, tables
<1> QED BY <1>1, <1>2, <1>3, WriterInvStep DEF Next

\* A reader never finds the index of a repository gone, however many index runs
\* overlap, fail, and skip rows because of each other (replace_repo_chunks).
THEOREM IndexStays == Spec => []IndexNeverVanishes
<1>1. WriterInv => IndexNeverVanishes
  BY DEF WriterInv
<1> QED BY <1>1, WriterInvInit, WriterInvNext, PTL DEF Spec

\* Index runs that do not overlap leave exactly the index of the commit that the
\* repository is labelled with, whichever of them fail.
THEOREM SwapsAreWhole == Spec => []SwapsAlone
<1>1. WriterInv => SwapsAlone
  BY DEF WriterInv
<1> QED BY <1>1, WriterInvInit, WriterInvNext, PTL DEF Spec

-----------------------------------------------------------------------------
(* Numbers *)

\* Every set of numbers has a least one.
LEMMA LeastNat == \A S \in SUBSET Nat : S # {} => \E x \in S : \A y \in S : x <= y
<1> SUFFICES ASSUME NEW S \in SUBSET Nat, S # {} PROVE \E x \in S : \A y \in S : x <= y
  OBVIOUS
<1>1. PICK x \in S : \A y \in S : ~(<<y, x>> \in OpToRel(<, Nat))
  BY NatLessThanWellFounded, WFMin
<1>2. ASSUME NEW y \in S PROVE x <= y
  <2>1. ~(<<y, x>> \in {ss \in Nat \X Nat : ss[1] < ss[2]})
    BY <1>1 DEF OpToRel
  <2> QED BY <2>1
<1> QED BY <1>2

\* Min is that one.
LEMMA MinFacts ==
    ASSUME NEW S \in SUBSET Nat, S # {}
    PROVE  Min(S) \in S /\ \A y \in S : Min(S) <= y
<1>1. \E x \in S : \A y \in S : x <= y
  BY LeastNat
<1> QED BY <1>1 DEF Min

\* A set of numbers that is bounded has a greatest one.
LEMMA GreatestNat ==
    ASSUME NEW S \in SUBSET Nat, S # {}, NEW b \in Nat, \A x \in S : x <= b
    PROVE  \E x \in S : \A y \in S : y <= x
<1> DEFINE D == {d \in Nat : d <= b /\ b - d \in S}
<1>1. D \in SUBSET Nat /\ D # {}
  <2>1. PICK x \in S : TRUE
    OBVIOUS
  <2>2. b - x \in Nat /\ b - x <= b /\ b - (b - x) = x
    BY <2>1
  <2>3. b - x \in D
    BY <2>1, <2>2
  <2> QED BY <2>3
<1>2. PICK d \in D : \A e \in D : d <= e
  BY <1>1, LeastNat
<1>3. ASSUME NEW y \in S PROVE y <= b - d
  <2>1. b - y \in Nat /\ b - y <= b /\ b - (b - y) = y
    OBVIOUS
  <2>2. b - y \in D
    BY <2>1
  <2>3. d \in Nat /\ d <= b - y
    BY <1>2, <2>2
  <2> QED BY <2>1, <2>3
<1> QED BY <1>2, <1>3

-----------------------------------------------------------------------------
(* Interleaving *)

\* Where the hits of a round-robin come from: each from a rank of its own, and
\* every file's best is among the first, one per file, after bests only.
ComesFrom(hits, merged, N, o) ==
    /\ merged = [n \in 1..N |-> hits[o[n][1]][o[n][2]]]
    /\ \A n \in 1..N : o[n][1] \in DOMAIN hits /\ o[n][2] \in DOMAIN hits[o[n][1]]
    /\ \A n, m \in 1..N : o[n] = o[m] => n = m
    /\ \A f \in DOMAIN hits : hits[f] # <<>> =>
          \E p \in 1..N : p <= Len(hits) /\ o[p] = <<f, 1>> /\ \A a \in 1..p : o[a][2] = 1

\* Such an origin exists.
LEMMA InterleavedFacts ==
    ASSUME NEW R, NEW hits \in Seq(Seq(R)), NEW merged \in Interleaved(hits),
           \A f \in DOMAIN hits : Len(hits[f]) <= top_k
    PROVE  \E N \in Nat : \E o \in [1..N -> Nat \X Nat] : ComesFrom(hits, merged, N, o)
<1> DEFINE ranked == UNION {{<<f, k>> : k \in DOMAIN hits[f]} : f \in DOMAIN hits}
           N == Cardinality(ranked)
           L == Len(hits)
<1>1. L \in Nat /\ DOMAIN hits = 1..L
      /\ \A f \in DOMAIN hits : Len(hits[f]) \in Nat /\ DOMAIN hits[f] = 1..Len(hits[f])
  OBVIOUS
<1>2. \A x \in ranked : /\ x = <<x[1], x[2]>> /\ x[1] \in DOMAIN hits
                        /\ x[2] \in DOMAIN hits[x[1]] /\ x \in (1..L) \X (1..top_k)
  BY <1>1, IndexAssumption
<1>3. \A f \in DOMAIN hits : hits[f] # <<>> => <<f, 1>> \in ranked
  <2> SUFFICES ASSUME NEW f \in DOMAIN hits, hits[f] # <<>> PROVE <<f, 1>> \in ranked
    OBVIOUS
  <2>1. 1 \in DOMAIN hits[f]
    OBVIOUS
  <2> QED BY <2>1
<1>4. IsFiniteSet(ranked) /\ N \in Nat
  <2>1. IsFiniteSet(1..L) /\ IsFiniteSet(1..top_k)
    BY <1>1, FS_Interval, IndexAssumption
  <2>2. IsFiniteSet((1..L) \X (1..top_k))
    BY <2>1, FS_Product
  <2>3. ranked \in SUBSET ((1..L) \X (1..top_k))
    BY <1>2
  <2>4. IsFiniteSet(ranked)
    BY <2>2, <2>3, FS_Subset
  <2> QED BY <2>4, FS_CardinalityType
<1>5. PICK o \in [1..N -> ranked] :
        /\ \A n, m \in 1..N : n # m => o[n] # o[m]
        /\ \A a, b \in 1..N : a < b => o[a][2] <= o[b][2]
        /\ merged = [n \in 1..N |-> hits[o[n][1]][o[n][2]]]
  BY DEF Interleaved, SetToSeqs
<1> HIDE DEF ranked, N
<1>6. Cardinality(1..N) = N /\ IsFiniteSet(1..N)
  BY <1>4, FS_Interval
<1>7. \A x \in ranked : \E p \in 1..N : o[p] = x
  <2>1. o \in Injection(1..N, ranked)
    BY <1>5 DEF Injection, IsInjective
  <2>2. o \in Surjection(1..N, ranked)
    BY <2>1, <1>4, <1>6, FS_Injection DEF N
  <2> QED BY <2>2 DEF Surjection
<1>8. ASSUME NEW f \in DOMAIN hits, hits[f] # <<>>
      PROVE  \E p \in 1..N : p <= L /\ o[p] = <<f, 1>> /\ \A a \in 1..p : o[a][2] = 1
  <2>1. PICK p \in 1..N : o[p] = <<f, 1>>
    BY <1>3, <1>7, <1>8
  <2>2. ASSUME NEW a \in 1..p PROVE o[a][2] = 1 /\ o[a][1] \in 1..L /\ o[a] = <<o[a][1], 1>>
    <3>1. a \in 1..N /\ (a < p \/ a = p)
      BY <1>4
    <3>2. o[a] \in ranked
      BY <3>1
    <3>3. o[a][2] <= 1
      BY <3>1, <2>1, <1>5
    <3>4. o[a][2] \in 1..top_k /\ o[a][1] \in 1..L /\ o[a] = <<o[a][1], o[a][2]>>
      BY <3>2, <1>2
    <3> QED BY <3>3, <3>4, IndexAssumption
  <2> DEFINE g == [a \in 1..p |-> o[a][1]]
  <2>3. g \in Injection(1..p, 1..L)
    <3>1. g \in [1..p -> 1..L]
      BY <2>2
    <3>2. ASSUME NEW a \in 1..p, NEW b \in 1..p, g[a] = g[b] PROVE a = b
      <4>1. o[a] = o[b]
        BY <2>2, <3>2
      <4>2. a \in 1..N /\ b \in 1..N
        BY <1>4
      <4> QED BY <4>1, <4>2, <1>5
    <3> QED BY <3>1, <3>2 DEF Injection, IsInjective
  <2>4. Cardinality(1..p) <= Cardinality(1..L)
    BY <2>3, <1>1, FS_Interval, FS_Injection
  <2>5. Cardinality(1..p) = p /\ Cardinality(1..L) = IF 1 > L THEN 0 ELSE L
    BY <1>1, FS_Interval
  <2>6. p \in Nat /\ L \in Nat /\ p >= 1
    BY <1>1, <1>4
  <2> HIDE DEF L, g
  <2>7. p <= L
    BY <2>4, <2>5, <2>6
  <2> QED BY <2>1, <2>2, <2>7
<1>9. \A n \in 1..N : /\ o[n] \in Nat \X Nat /\ o[n][1] \in DOMAIN hits
                      /\ o[n][2] \in DOMAIN hits[o[n][1]]
  BY <1>1, <1>2, IndexAssumption
<1>10. o \in [1..N -> Nat \X Nat] /\ ComesFrom(hits, merged, N, o)
  BY <1>5, <1>8, <1>9 DEF ComesFrom
<1> QED BY <1>4, <1>10

-----------------------------------------------------------------------------
(* The reviews *)

CtxType == [at : {"lookup", "embed", "search", "done"}, base_sha : Commits \cup {None},
            index_drift : {None, "unindexed", "stale"}, indexed_sha : Commits \cup {None},
            hits : Seq(Seq(Row)), chunks : Seq(Row), known : BOOLEAN, moved : BOOLEAN]

\* What has been found and shown so far, by where the review is.
Progress(x) ==
    /\ x.at \in {"lookup", "embed"} => x.hits = <<>>
    /\ x.at # "done" => x.chunks = <<>>
    /\ x.at = "lookup" => ~x.known

\* What the review was told of the index: still so if the index did not move.
Told(x) ==
    /\ x.known => x.index_drift = index_drift(x.indexed_sha, x.base_sha)
    /\ x.known /\ ~x.moved /\ x.at \in {"embed", "search"} => x.indexed_sha = indexed_sha

\* All that was found and is shown is of the commit that was looked up.
OfThatCommit(x) ==
    x.known /\ ~x.moved /\ ~overlapped =>
        /\ \A f \in DOMAIN x.hits : \A k \in DOMAIN x.hits[f] : x.hits[f][k].commit = x.indexed_sha
        /\ \A n \in DOMAIN x.chunks : x.chunks[n].commit = x.indexed_sha

\* The hits are bounded, and at most one of them is kept at a place.
HitsOK(x) ==
    /\ Len(x.hits) <= Len(Queried)
    /\ \A f \in DOMAIN x.hits : Len(x.hits[f]) <= top_k
    /\ \A f, g \in DOMAIN x.hits : \A k \in DOMAIN x.hits[f] : \A m \in DOMAIN x.hits[g] :
          Place(x.hits[f][k]) = Place(x.hits[g][m]) => f = g /\ k = m

\* What EveryFileHeard says of one review.
Heard(x) ==
    x.at = "done" =>
        /\ \A n, m \in DOMAIN x.chunks : n # m => Place(x.chunks[n]) # Place(x.chunks[m])
        /\ top_k >= Len(Queried) =>
              \A f \in DOMAIN x.hits :
                 /\ x.hits[f] # <<>>
                 /\ Range(x.hits[f]) \cap Range(render_repository_context(x.chunks)) = {}
                 => \E n \in DOMAIN x.chunks :
                       /\ n = Len(render_repository_context(x.chunks)) + 1
                       /\ ~fits(SubSeq(x.chunks, 1, n))
                       /\ \A m \in 1..n : \E g \in DOMAIN x.hits :
                             x.hits[g] # <<>> /\ x.chunks[m] = x.hits[g][1]

ReviewOK(x) == Progress(x) /\ Told(x) /\ OfThatCommit(x) /\ HitsOK(x) /\ Heard(x)

ReaderInv == ctx \in [Readers -> CtxType] /\ \A r \in Readers : ReviewOK(ctx[r])

\* The initial state satisfies the invariant.
LEMMA ReaderInvInit == Init => ReaderInv
<1> SUFFICES ASSUME Init PROVE ReaderInv
  OBVIOUS
<1>1. ctx \in [Readers -> [at : {"lookup"}, base_sha : Commits \cup {None}, index_drift : {None},
                           indexed_sha : {None}, hits : {<<>>}, chunks : {<<>>},
                           known : {FALSE}, moved : {FALSE}]]
  BY DEF Init
<1>2. <<>> \in Seq(Seq(Row)) /\ <<>> \in Seq(Row) /\ Len(Queried) \in Nat
  BY IndexAssumption
<1>3. ASSUME NEW r \in Readers PROVE ctx[r] \in CtxType /\ ReviewOK(ctx[r])
  <2>1. /\ ctx[r] \in CtxType /\ ctx[r].at = "lookup" /\ ctx[r].hits = <<>> /\ ctx[r].chunks = <<>>
        /\ ctx[r].known = FALSE
    BY <1>1, <1>2 DEF CtxType
  <2> QED
    BY <1>2, <2>1 DEF ReviewOK, Progress, Told, OfThatCommit, HitsOK, Heard
<1> QED BY <1>1, <1>3 DEF ReaderInv

\* What a search adds: hits of the index at places nobody has seen.
LEMMA KeptFacts ==
    ASSUME NEW r \in Readers, NEW hits \in hybrid_search,
           NEW order \in InOrder({k \in DOMAIN hits :
                                     /\ Place(hits[k]) \notin seen(r)
                                     /\ \A m \in 1..(k - 1) : Place(hits[m]) # Place(hits[k])}),
           NEW kept, kept = [n \in DOMAIN order |-> hits[order[n]]]
    PROVE  /\ kept \in Seq(code_chunks) /\ Len(kept) <= top_k
           /\ \A n \in DOMAIN kept : Place(kept[n]) \notin seen(r)
           /\ \A n, m \in DOMAIN kept : Place(kept[n]) = Place(kept[m]) => n = m
<1> DEFINE fresh == {k \in DOMAIN hits :
                       /\ Place(hits[k]) \notin seen(r)
                       /\ \A m \in 1..(k - 1) : Place(hits[m]) # Place(hits[k])}
           M == Cardinality(fresh)
<1>1. PICK len \in 0..top_k : hits \in [1..len -> {row \in code_chunks : row.path \notin Changed}]
  BY DEF hybrid_search, BoundedSeq, SeqOf
<1>2. IsFiniteSet(1..len) /\ Cardinality(1..len) = len /\ fresh \in SUBSET (1..len)
  <2>1. len \in Nat
    BY IndexAssumption
  <2>2. /\ IsFiniteSet(1..len)
        /\ Cardinality(1..len) = IF 1 > len THEN 0 ELSE len - 1 + 1
    BY <2>1, FS_Interval
  <2>3. (IF 1 > len THEN 0 ELSE len - 1 + 1) = len
    BY <2>1
  <2>4. fresh \subseteq DOMAIN hits
    OBVIOUS
  <2>5. DOMAIN hits = 1..len
    BY <1>1
  <2> QED BY <2>2, <2>3, <2>4, <2>5
<1>3. M \in Nat /\ M <= len
  BY <1>2, FS_Subset, FS_CardinalityType
<1>4. /\ order \in [1..M -> fresh]
      /\ \A a, b \in 1..M : a < b => order[a] < order[b]
  BY DEF InOrder
<1>5. \A k \in fresh : /\ k \in 1..len /\ hits[k] \in code_chunks /\ Place(hits[k]) \notin seen(r)
                       /\ \A m \in 1..(k - 1) : Place(hits[m]) # Place(hits[k])
  BY <1>1
<1> HIDE DEF fresh, M
<1>6. kept \in [1..M -> code_chunks] /\ \A n \in 1..M : kept[n] = hits[order[n]]
  BY <1>4, <1>5
<1>7. kept \in Seq(code_chunks) /\ Len(kept) = M /\ DOMAIN kept = 1..M
  BY <1>3, <1>6
<1>8. ASSUME NEW n \in 1..M, NEW m \in 1..M, n < m PROVE Place(kept[n]) # Place(kept[m])
  <2>1. order[n] < order[m] /\ order[n] \in fresh /\ order[m] \in fresh
    BY <1>4, <1>8
  <2>2. order[n] \in 1..(order[m] - 1)
    BY <2>1, <1>5, <1>1
  <2> QED BY <2>1, <2>2, <1>5, <1>6
<1>9. \A n, m \in 1..M : Place(kept[n]) = Place(kept[m]) => n = m
  <2> SUFFICES ASSUME NEW n \in 1..M, NEW m \in 1..M, n # m PROVE Place(kept[n]) # Place(kept[m])
    OBVIOUS
  <2>1. n < m \/ m < n
    BY <1>3
  <2> QED BY <2>1, <1>8
<1>10. \A n \in 1..M : Place(kept[n]) \notin seen(r)
  BY <1>4, <1>5, <1>6
<1> QED BY <1>1, <1>3, <1>7, <1>9, <1>10, IndexAssumption

\* The index of a run that was alone is of one commit.
LEMMA AloneIsOneCommit ==
    ASSUME WriterInv, ~overlapped, NEW row \in code_chunks
    PROVE  row.commit = indexed_sha
<1>1. Key(row) \in Keys(code_chunks)
  BY DEF Keys
<1>2. indexed_sha # None /\ Key(row) \in Keys(Rows(None, indexed_sha))
  BY <1>1 DEF WriterInv, SwapsAlone
<1>3. PICK twin \in Rows(None, indexed_sha) : Key(row) = Key(twin)
  BY <1>2 DEF Keys
<1>4. twin.commit = indexed_sha
  BY <1>2, <1>3, RowsFacts DEF WriterInv, WriterTypeOK
<1> QED BY <1>3, <1>4 DEF Key

\* A step of one review leaves the others alone.
LEMMA OneReview ==
    ASSUME ReaderInv, NEW r \in Readers, NEW x \in CtxType,
           ctx' = [ctx EXCEPT ![r] = x], UNCHANGED <<indexed_sha, overlapped>>, ReviewOK(x)
    PROVE  ReaderInv'
<1>1. \A q \in Readers : ctx'[q] = IF q = r THEN x ELSE ctx[q]
  BY DEF ReaderInv
<1>2. ctx' \in [Readers -> CtxType]
  BY DEF ReaderInv
<1>3. ASSUME NEW q \in Readers PROVE ReviewOK(ctx[q])'
  <2>1. ReviewOK(ctx'[q])
    BY <1>1 DEF ReaderInv
  <2> QED BY <2>1 DEF ReviewOK, Progress, Told, OfThatCommit, HitsOK, Heard
<1> QED BY <1>2, <1>3 DEF ReaderInv

\* Looking up what is indexed.
LEMMA NoteStep ==
    ASSUME ReaderInv, WriterInv, NEW r \in Readers, NEW read \in BOOLEAN,
           _note_index_drift(r, read)
    PROVE  ReaderInv'
<1> DEFINE x == ctx[r]
           y == IF read
                THEN [x EXCEPT !.at = "embed", !.known = TRUE, !.indexed_sha = indexed_sha,
                               !.index_drift = index_drift(indexed_sha, x.base_sha)]
                ELSE [x EXCEPT !.at = "embed"]
<1>1. x \in CtxType /\ ReviewOK(x) /\ ctx \in [Readers -> CtxType]
  BY DEF ReaderInv
<1>2. /\ x.at = "lookup" /\ ctx' = [ctx EXCEPT ![r] = y] /\ UNCHANGED <<indexed_sha, overlapped>>
  BY <1>1 DEF _note_index_drift, CtxType, tables
<1>3. x.hits = <<>> /\ x.chunks = <<>>
  BY <1>1, <1>2 DEF ReviewOK, Progress
<1>4. indexed_sha \in Commits \cup {None}
  BY DEF WriterInv, WriterTypeOK
<1>5. y \in CtxType
  BY <1>1, <1>4 DEF CtxType, index_drift
<1>6. /\ y.at = "embed" /\ y.hits = <<>> /\ y.chunks = <<>> /\ y.moved = x.moved
      /\ read => /\ y.known /\ y.indexed_sha = indexed_sha
                 /\ y.index_drift = index_drift(indexed_sha, x.base_sha) /\ y.base_sha = x.base_sha
      /\ ~read => /\ y.known = x.known /\ y.indexed_sha = x.indexed_sha
                  /\ y.index_drift = x.index_drift /\ y.base_sha = x.base_sha
  BY <1>1, <1>3 DEF CtxType
<1>7. ~x.known
  BY <1>1, <1>2 DEF ReviewOK, Progress
<1> HIDE DEF y
<1>8. ReviewOK(y)
  BY <1>1, <1>6, <1>7, IndexAssumption
     DEF ReviewOK, Progress, Told, OfThatCommit, HitsOK, Heard
<1> QED BY <1>2, <1>5, <1>8, OneReview

\* Embedding the queries.
LEMMA EmbedStep ==
    ASSUME ReaderInv, NEW r \in Readers, NEW embedded \in BOOLEAN, Embed(r, embedded)
    PROVE  ReaderInv'
<1> DEFINE x == ctx[r]
           y == [x EXCEPT !.at = IF embedded /\ Queried # <<>> THEN "search" ELSE "done"]
<1>1. x \in CtxType /\ ReviewOK(x) /\ ctx \in [Readers -> CtxType]
  BY DEF ReaderInv
<1>2. /\ x.at = "embed" /\ ctx' = [ctx EXCEPT ![r] = y] /\ UNCHANGED <<indexed_sha, overlapped>>
  BY <1>1 DEF Embed, CtxType, tables
<1>3. x.hits = <<>> /\ x.chunks = <<>>
  BY <1>1, <1>2 DEF ReviewOK, Progress
<1>4. y \in CtxType
  BY <1>1 DEF CtxType
<1>5. /\ y.at \in {"search", "done"} /\ y.hits = <<>> /\ y.chunks = <<>> /\ y.moved = x.moved
      /\ y.known = x.known /\ y.indexed_sha = x.indexed_sha
      /\ y.index_drift = x.index_drift /\ y.base_sha = x.base_sha
  BY <1>1, <1>3 DEF CtxType
<1> HIDE DEF y
<1>6. ReviewOK(y)
  BY <1>1, <1>2, <1>5 DEF ReviewOK, Progress, Told, OfThatCommit, HitsOK, Heard
<1> QED BY <1>2, <1>4, <1>6, OneReview

\* The search for the next file.
LEMMA SearchStep ==
    ASSUME ReaderInv, WriterInv, NEW r \in Readers, Search(r)
    PROVE  ReaderInv'
<1> DEFINE x == ctx[r]
           h == x.hits
<1>1. x \in CtxType /\ ReviewOK(x) /\ ctx \in [Readers -> CtxType]
  BY DEF ReaderInv
<1>2. x.at = "search" /\ Len(h) < Len(Queried) /\ UNCHANGED <<indexed_sha, overlapped>>
  BY DEF Search, tables
<1>3. PICK found \in hybrid_search :
        \E order \in InOrder({k \in DOMAIN found :
                                 /\ Place(found[k]) \notin seen(r)
                                 /\ \A m \in 1..(k - 1) : Place(found[m]) # Place(found[k])}) :
            ctx' = [ctx EXCEPT ![r].hits = Append(@, [n \in DOMAIN order |-> found[order[n]]])]
  BY DEF Search
<1>4. PICK order \in InOrder({k \in DOMAIN found :
                                 /\ Place(found[k]) \notin seen(r)
                                 /\ \A m \in 1..(k - 1) : Place(found[m]) # Place(found[k])}) :
            ctx' = [ctx EXCEPT ![r].hits = Append(@, [n \in DOMAIN order |-> found[order[n]]])]
  BY <1>3
<1> DEFINE kept == [n \in DOMAIN order |-> found[order[n]]]
<1>5. /\ kept \in Seq(code_chunks) /\ Len(kept) <= top_k
      /\ \A n \in DOMAIN kept : Place(kept[n]) \notin seen(r)
      /\ \A n, m \in DOMAIN kept : Place(kept[n]) = Place(kept[m]) => n = m
  BY KeptFacts
<1> HIDE DEF kept
<1>6. code_chunks \subseteq Row
  BY DEF WriterInv, WriterTypeOK
<1>7. kept \in Seq(Row) /\ \A n \in DOMAIN kept : kept[n] \in code_chunks
  BY <1>5, <1>6
<1>8. h \in Seq(Seq(Row)) /\ Len(h) \in Nat /\ DOMAIN h = 1..Len(h)
  BY <1>1 DEF CtxType
<1> DEFINE T == Seq(Row)
           l == Append(h, kept)
           y == [x EXCEPT !.hits = l]
<1>9. /\ l \in Seq(Seq(Row)) /\ Len(l) = Len(h) + 1 /\ DOMAIN l = 1..(Len(h) + 1)
      /\ l[Len(h) + 1] = kept /\ \A f \in DOMAIN h : l[f] = h[f]
  <2>1. h \in Seq(T) /\ kept \in T
    BY <1>7, <1>8
  <2> HIDE DEF h, T
  <2>2. /\ l \in Seq(T) /\ Len(l) = Len(h) + 1 /\ DOMAIN l = 1..(Len(h) + 1)
        /\ l[Len(h) + 1] = kept /\ \A f \in 1..Len(h) : l[f] = h[f]
    BY <2>1
  <2>3. DOMAIN h = 1..Len(h)
    BY <2>1
  <2> QED BY <2>2, <2>3 DEF T
<1>10. ctx' = [ctx EXCEPT ![r] = y]
  BY <1>1, <1>4 DEF kept, CtxType
<1> HIDE DEF l
<1>11. /\ y \in CtxType
       /\ y.at = "search" /\ y.hits = l /\ y.chunks = x.chunks /\ y.moved = x.moved
       /\ y.known = x.known /\ y.indexed_sha = x.indexed_sha
       /\ y.index_drift = x.index_drift /\ y.base_sha = x.base_sha
  BY <1>1, <1>2, <1>9 DEF CtxType
<1> HIDE DEF y
<1>12. \A f \in DOMAIN l : (f \in DOMAIN h /\ l[f] = h[f]) \/ (f = Len(h) + 1 /\ l[f] = kept)
  <2> SUFFICES ASSUME NEW f \in DOMAIN l
               PROVE  (f \in DOMAIN h /\ l[f] = h[f]) \/ (f = Len(h) + 1 /\ l[f] = kept)
    OBVIOUS
  <2> HIDE DEF h
  <2>1. f \in DOMAIN h \/ f = Len(h) + 1
    BY <1>8, <1>9
  <2>2. CASE f \in DOMAIN h
    BY <2>2, <1>9
  <2>3. CASE f = Len(h) + 1
    <3>1. l[f] = l[Len(h) + 1]
      BY <2>3
    <3> QED BY <2>3, <3>1, <1>9
  <2> QED BY <2>1, <2>2, <2>3
<1>13. \A f \in DOMAIN h : \A k \in DOMAIN h[f] : Place(h[f][k]) \in seen(r)
  BY DEF seen, Range
<1>14. Progress(y) /\ Told(y) /\ Heard(y)
  BY <1>1, <1>2, <1>11 DEF ReviewOK, Progress, Told, Heard
<1>15. OfThatCommit(y)
  <2> SUFFICES ASSUME x.known, ~x.moved, ~overlapped
               PROVE  /\ \A f \in DOMAIN l : \A k \in DOMAIN l[f] : l[f][k].commit = x.indexed_sha
                      /\ \A n \in DOMAIN x.chunks : x.chunks[n].commit = x.indexed_sha
    BY <1>11 DEF OfThatCommit
  <2>1. x.indexed_sha = indexed_sha
    BY <1>1, <1>2 DEF ReviewOK, Told
  <2>2. \A n \in DOMAIN kept : kept[n].commit = x.indexed_sha
    BY <1>7, <2>1, AloneIsOneCommit
  <2>3. /\ \A f \in DOMAIN h : \A k \in DOMAIN h[f] : h[f][k].commit = x.indexed_sha
        /\ \A n \in DOMAIN x.chunks : x.chunks[n].commit = x.indexed_sha
    BY <1>1 DEF ReviewOK, OfThatCommit
  <2> QED BY <2>2, <2>3, <1>12
<1>16. HitsOK(y)
  <2>1. Len(l) <= Len(Queried)
    BY <1>2, <1>8, <1>9, IndexAssumption
  <2>2. \A f \in DOMAIN l : Len(l[f]) <= top_k
    BY <1>1, <1>5, <1>12 DEF ReviewOK, HitsOK
  <2>3. ASSUME NEW f \in DOMAIN l, NEW g \in DOMAIN l, NEW k \in DOMAIN l[f], NEW m \in DOMAIN l[g],
               Place(l[f][k]) = Place(l[g][m])
        PROVE  f = g /\ k = m
    <3>1. CASE f \in DOMAIN h /\ l[f] = h[f] /\ g \in DOMAIN h /\ l[g] = h[g]
      BY <1>1, <2>3, <3>1 DEF ReviewOK, HitsOK
    <3>2. CASE f \in DOMAIN h /\ l[f] = h[f] /\ g = Len(h) + 1 /\ l[g] = kept
      BY <1>5, <1>13, <2>3, <3>2
    <3>3. CASE f = Len(h) + 1 /\ l[f] = kept /\ g \in DOMAIN h /\ l[g] = h[g]
      BY <1>5, <1>13, <2>3, <3>3
    <3>4. CASE f = Len(h) + 1 /\ l[f] = kept /\ g = Len(h) + 1 /\ l[g] = kept
      BY <1>5, <2>3, <3>4
    <3> QED BY <1>12, <3>1, <3>2, <3>3, <3>4
  <2> QED BY <1>11, <2>1, <2>2, <2>3 DEF HitsOK
<1> QED BY <1>2, <1>10, <1>11, <1>14, <1>15, <1>16, OneReview DEF ReviewOK

\* The smaller of two numbers.
LEMMA MinOfTwo ==
    ASSUME NEW a \in Int, NEW b \in Int
    PROVE  Min({a, b}) = IF a <= b THEN a ELSE b
<1> DEFINE m == IF a <= b THEN a ELSE b
<1>1. m \in {a, b} /\ \A y \in {a, b} : m <= y
  OBVIOUS
<1>2. \A z \in {a, b} : (\A y \in {a, b} : z <= y) => z = m
  OBVIOUS
<1> QED BY <1>1, <1>2 DEF Min

\* What is rendered is a prefix, and with one block more it would not fit.
LEMMA RenderFacts ==
    ASSUME NEW R, NEW chunks \in Seq(R)
    PROVE  \E m \in 0..Len(chunks) :
              /\ render_repository_context(chunks) = SubSeq(chunks, 1, m)
              /\ Len(SubSeq(chunks, 1, m)) = m
              /\ \A n \in 1..m : SubSeq(chunks, 1, m)[n] = chunks[n]
              /\ m + 1 \in DOMAIN chunks => ~fits(SubSeq(chunks, 1, m + 1))
<1> DEFINE S == {0} \cup {n \in DOMAIN chunks : fits(SubSeq(chunks, 1, n))}
           m == Max(S)
<1>1. Len(chunks) \in Nat /\ DOMAIN chunks = 1..Len(chunks)
  OBVIOUS
<1>2. m \in S /\ \A y \in S : m >= y
  <2>1. S \in SUBSET Nat /\ S # {} /\ \A y \in S : y <= Len(chunks)
    BY <1>1
  <2> HIDE DEF S
  <2>2. \E z \in S : \A y \in S : y <= z
    BY <1>1, <2>1, GreatestNat
  <2>3. \E z \in S : \A y \in S : z >= y
    BY <2>1, <2>2
  <2> QED BY <2>3 DEF Max
<1>3. m \in 0..Len(chunks)
  BY <1>1, <1>2
<1>4. render_repository_context(chunks) = SubSeq(chunks, 1, m)
  BY DEF render_repository_context
<1> HIDE DEF m
<1>5. m + 1 \in DOMAIN chunks => ~fits(SubSeq(chunks, 1, m + 1))
  <2>1. m + 1 \in S => m >= m + 1
    BY <1>2
  <2>2. m + 1 \notin S
    BY <1>3, <2>1
  <2> QED BY <2>2
<1>6. Len(SubSeq(chunks, 1, m)) = m /\ \A n \in 1..m : SubSeq(chunks, 1, m)[n] = chunks[n]
  BY <1>1, <1>3
<1> QED BY <1>3, <1>4, <1>5, <1>6

\* The hits are interleaved and cut off.
LEMMA MergeStep ==
    ASSUME ReaderInv, NEW r \in Readers, Merge(r)
    PROVE  ReaderInv'
<1> DEFINE x == ctx[r]
           h == x.hits
<1>1. x \in CtxType /\ ReviewOK(x) /\ ctx \in [Readers -> CtxType]
  BY DEF ReaderInv
<1>2. x.at = "search" /\ Len(h) = Len(Queried) /\ UNCHANGED <<indexed_sha, overlapped>>
  BY DEF Merge, tables
<1>3. PICK merged \in Interleaved(h) :
        ctx' = [ctx EXCEPT ![r].at = "done",
                           ![r].chunks = SubSeq(merged, 1, Min({top_k, Len(merged)}))]
  BY DEF Merge
<1>4. h \in Seq(Seq(Row)) /\ HitsOK(x)
  BY <1>1 DEF CtxType, ReviewOK
<1>5. PICK N \in Nat : \E o \in [1..N -> Nat \X Nat] : ComesFrom(h, merged, N, o)
  <2>1. \A f \in DOMAIN h : Len(h[f]) <= top_k
    BY <1>4 DEF HitsOK
  <2> HIDE DEF h
  <2> QED BY <1>4, <2>1, InterleavedFacts
<1>0. PICK o \in [1..N -> Nat \X Nat] : ComesFrom(h, merged, N, o)
  BY <1>5
<1>6. /\ merged = [n \in 1..N |-> h[o[n][1]][o[n][2]]]
      /\ \A n \in 1..N : o[n][1] \in DOMAIN h /\ o[n][2] \in DOMAIN h[o[n][1]]
      /\ \A n, m \in 1..N : o[n] = o[m] => n = m
      /\ \A f \in DOMAIN h : h[f] # <<>> =>
            \E p \in 1..N : p <= Len(h) /\ o[p] = <<f, 1>> /\ \A a \in 1..p : o[a][2] = 1
  BY <1>0 DEF ComesFrom
<1> DEFINE K == Min({top_k, N})
           c == SubSeq(merged, 1, K)
           y == [x EXCEPT !.at = "done", !.chunks = c]
<1>7. K \in 0..N /\ K <= top_k /\ (K = top_k \/ K = N)
  BY IndexAssumption, MinOfTwo
<1>8. merged \in Seq(Row) /\ Len(merged) = N
  <2>1. \A n \in 1..N : h[o[n][1]][o[n][2]] \in Row
    <3> HIDE DEF h
    <3>1. ASSUME NEW f \in DOMAIN h PROVE h[f] \in Seq(Row)
      BY <1>4
    <3>2. ASSUME NEW f \in DOMAIN h, NEW k \in DOMAIN h[f] PROVE h[f][k] \in Row
      BY <3>1
    <3> QED BY <1>6, <3>2
  <2> HIDE DEF h
  <2> QED BY <1>6, <2>1
<1> HIDE DEF K
<1>9. c \in Seq(Row) /\ DOMAIN c = 1..K /\ \A n \in 1..K : c[n] = h[o[n][1]][o[n][2]]
  <2>1. c \in Seq(Row) /\ DOMAIN c = 1..K /\ \A n \in 1..K : c[n] = merged[n]
    BY <1>7, <1>8
  <2>2. \A n \in 1..K : n \in 1..N
    BY <1>7
  <2> HIDE DEF h, c
  <2> QED BY <2>1, <2>2, <1>6
<1>10. ctx' = [ctx EXCEPT ![r] = y]
  BY <1>1, <1>3, <1>8 DEF CtxType, K
<1> HIDE DEF c
<1>11. /\ y \in CtxType
       /\ y.at = "done" /\ y.hits = h /\ y.chunks = c /\ y.moved = x.moved
       /\ y.known = x.known /\ y.indexed_sha = x.indexed_sha
       /\ y.index_drift = x.index_drift /\ y.base_sha = x.base_sha
  BY <1>1, <1>9 DEF CtxType
<1> HIDE DEF y
<1>12. Progress(y) /\ Told(y) /\ HitsOK(y)
  <2>1. Progress(y)
    BY <1>1, <1>2, <1>11 DEF ReviewOK, Progress
  <2>2. Told(y)
    BY <1>1, <1>2, <1>11 DEF ReviewOK, Told
  <2>3. HitsOK(y)
    BY <1>1, <1>2, <1>4, <1>11 DEF ReviewOK, HitsOK
  <2> QED BY <2>1, <2>2, <2>3
<1>13. \A n \in 1..K : o[n][1] \in DOMAIN h /\ o[n][2] \in DOMAIN h[o[n][1]]
  <2>1. 1..K \subseteq 1..N
    BY <1>7
  <2> HIDE DEF h
  <2> QED BY <1>6, <2>1
<1>14. OfThatCommit(y)
  BY <1>1, <1>9, <1>11, <1>13 DEF ReviewOK, OfThatCommit
<1>15. Heard(y)
  <2>1. ASSUME NEW n \in 1..K, NEW m \in 1..K, n # m PROVE Place(c[n]) # Place(c[m])
    <3>1. o[n] # o[m] /\ o[n] \in Nat \X Nat /\ o[m] \in Nat \X Nat
      <4>1. n \in 1..N /\ m \in 1..N
        BY <1>7
      <4> HIDE DEF h
      <4> QED BY <1>6, <2>1, <4>1
    <3>2. o[n] = <<o[n][1], o[n][2]>> /\ o[m] = <<o[m][1], o[m][2]>>
      BY <3>1
    <3>3. ~(o[n][1] = o[m][1] /\ o[n][2] = o[m][2])
      BY <3>1, <3>2
    <3>4. \A f, g \in DOMAIN h : \A k \in DOMAIN h[f] : \A l \in DOMAIN h[g] :
            Place(h[f][k]) = Place(h[g][l]) => f = g /\ k = l
      BY <1>4 DEF HitsOK
    <3> HIDE DEF h
    <3>5. /\ o[n][1] \in DOMAIN h /\ o[n][2] \in DOMAIN h[o[n][1]] /\ c[n] = h[o[n][1]][o[n][2]]
          /\ o[m][1] \in DOMAIN h /\ o[m][2] \in DOMAIN h[o[m][1]] /\ c[m] = h[o[m][1]][o[m][2]]
      BY <2>1, <1>9, <1>13
    <3> QED BY <3>3, <3>4, <3>5
  <2>2. ASSUME top_k >= Len(Queried), NEW f \in DOMAIN h, h[f] # <<>>,
               Range(h[f]) \cap Range(render_repository_context(c)) = {}
        PROVE  \E n \in DOMAIN c :
                  /\ n = Len(render_repository_context(c)) + 1
                  /\ ~fits(SubSeq(c, 1, n))
                  /\ \A m \in 1..n : \E g \in DOMAIN h : h[g] # <<>> /\ c[m] = h[g][1]
    <3>1. PICK p \in 1..N : p <= Len(h) /\ o[p] = <<f, 1>> /\ \A a \in 1..p : o[a][2] = 1
      BY <1>6, <2>2
    <3>2. p \in 1..K
      <4>1. Len(Queried) \in Nat /\ Len(h) = Len(Queried)
        BY <1>2, IndexAssumption
      <4> HIDE DEF h
      <4>2. p \in Nat /\ p >= 1 /\ p <= N /\ p <= top_k
        BY <4>1, <3>1, <2>2, IndexAssumption
      <4> QED BY <4>2, <1>7, IndexAssumption
    <3>3. c[p] = h[f][1] /\ 1 \in DOMAIN h[f]
      <4> HIDE DEF h
      <4>1. c[p] = h[o[p][1]][o[p][2]] /\ o[p][2] \in DOMAIN h[o[p][1]]
        BY <3>2, <1>9, <1>13
      <4>2. o[p][1] = f /\ o[p][2] = 1
        BY <3>1
      <4> QED BY <4>1, <4>2
    <3>4. PICK q \in 0..Len(c) :
              /\ render_repository_context(c) = SubSeq(c, 1, q)
              /\ Len(SubSeq(c, 1, q)) = q
              /\ \A n \in 1..q : SubSeq(c, 1, q)[n] = c[n]
              /\ q + 1 \in DOMAIN c => ~fits(SubSeq(c, 1, q + 1))
      BY <1>9, RenderFacts
    <3> DEFINE shown == SubSeq(c, 1, q)
    <3>5. Len(c) = K /\ K \in Nat
      BY <1>7, <1>9
    <3>6. q < p
      <4> SUFFICES ASSUME p <= q PROVE FALSE
        BY <3>2, <3>4, <3>5
      <4>1. p \in DOMAIN shown /\ shown[p] = c[p]
        BY <1>9, <3>2, <3>4, <3>5
      <4> HIDE DEF h, shown
      <4>2. shown[p] \in Range(shown) /\ h[f][1] \in Range(h[f])
        BY <3>3, <4>1 DEF Range
      <4>3. Range(h[f]) \cap Range(shown) = {}
        BY <2>2, <3>4 DEF shown
      <4> QED BY <3>3, <4>1, <4>2, <4>3
    <3>7. q + 1 \in DOMAIN c /\ q + 1 \in 1..p
      BY <1>9, <3>2, <3>4, <3>5, <3>6
    <3>8. ASSUME NEW m \in 1..(q + 1)
          PROVE  \E g \in DOMAIN h : h[g] # <<>> /\ c[m] = h[g][1]
      <4>1. m \in 1..p /\ m \in 1..K
        BY <3>2, <3>5, <3>7
      <4>2. o[m][2] = 1 /\ o[m][1] \in DOMAIN h /\ o[m][2] \in DOMAIN h[o[m][1]]
            /\ c[m] = h[o[m][1]][o[m][2]]
        BY <3>1, <4>1, <1>9, <1>13
      <4>3. h[o[m][1]] # <<>>
        <5>1. DOMAIN <<>> = {}
          OBVIOUS
        <5> HIDE DEF h
        <5> QED BY <4>2, <5>1
      <4> HIDE DEF h
      <4> QED BY <4>2, <4>3
    <3> HIDE DEF h
    <3> QED BY <3>4, <3>7, <3>8
  <2> QED BY <1>9, <1>11, <2>1, <2>2 DEF Heard
<1> QED BY <1>2, <1>10, <1>11, <1>12, <1>14, <1>15, OneReview DEF ReviewOK

\* A new index is committed: the reviews under way know that it moved.
LEMMA CommitStep ==
    ASSUME ReaderInv, NEW i \in Indexers, Commit(i)
    PROVE  ReaderInv'
<1>1. /\ ctx' = [r \in Readers |-> [ctx[r] EXCEPT !.moved = @ \/ ctx[r].at \in {"embed", "search"}]]
      /\ UNCHANGED overlapped
  BY DEF Commit
<1>2. ASSUME NEW r \in Readers PROVE ctx'[r] \in CtxType /\ ReviewOK(ctx[r])'
  <2> DEFINE x == ctx[r]
             y == [x EXCEPT !.moved = @ \/ x.at \in {"embed", "search"}]
  <2>1. x \in CtxType /\ ReviewOK(x) /\ ctx'[r] = y
    BY <1>1 DEF ReaderInv
  <2>2. y \in CtxType /\ y = [x EXCEPT !.moved = x.moved \/ x.at \in {"embed", "search"}]
    BY <2>1 DEF CtxType
  <2>3. /\ y.at = x.at /\ y.hits = x.hits /\ y.chunks = x.chunks /\ y.known = x.known
        /\ y.indexed_sha = x.indexed_sha /\ y.index_drift = x.index_drift /\ y.base_sha = x.base_sha
        /\ x.moved => y.moved
        /\ x.at \in {"embed", "search"} => y.moved
    BY <2>1, <2>2 DEF CtxType
  <2> HIDE DEF x, y
  <2>4. Progress(y) /\ HitsOK(y) /\ Heard(y) /\ OfThatCommit(y)
    <3>1. Progress(y)
      BY <2>1, <2>3 DEF ReviewOK, Progress
    <3>2. HitsOK(y)
      BY <2>1, <2>3 DEF ReviewOK, HitsOK
    <3>3. Heard(y)
      BY <2>1, <2>3 DEF ReviewOK, Heard
    <3>4. OfThatCommit(y)
      BY <2>1, <2>3 DEF ReviewOK, OfThatCommit
    <3> QED BY <3>1, <3>2, <3>3, <3>4
  <2>5. /\ y.known => y.index_drift = index_drift(y.indexed_sha, y.base_sha)
        /\ ~(~y.moved /\ y.at \in {"embed", "search"})
    BY <2>1, <2>3 DEF ReviewOK, Told
  <2>6. ReviewOK(ctx[r])'
    <3>1. Progress(ctx[r])' /\ HitsOK(ctx[r])' /\ Heard(ctx[r])'
      BY <2>1, <2>4 DEF Progress, HitsOK, Heard
    <3>2. OfThatCommit(ctx[r])'
      BY <1>1, <2>1, <2>4 DEF OfThatCommit
    <3>3. Told(ctx[r])'
      BY <2>1, <2>5 DEF Told
    <3> QED BY <3>1, <3>2, <3>3 DEF ReviewOK
  <2> QED BY <2>1, <2>2, <2>6
<1>3. ctx' \in [Readers -> CtxType]
  BY <1>1, <1>2
<1> QED BY <1>2, <1>3 DEF ReaderInv

\* No step of the system breaks the invariant of the reviews.
LEMMA ReaderInvNext == ReaderInv /\ WriterInv /\ [Next]_vars => ReaderInv'
<1> SUFFICES ASSUME ReaderInv, WriterInv, [Next]_vars PROVE ReaderInv'
  OBVIOUS
<1>1. CASE UNCHANGED <<ctx, indexed_sha>> /\ (overlapped => overlapped')
  BY <1>1 DEF ReaderInv, ReviewOK, Progress, HitsOK, Heard, OfThatCommit, Told
<1>2. ASSUME NEW i \in Indexers,
             (\E c \in Commits : Begin(i, c)) \/ Delete(i) \/ Insert(i) \/ Label(i) \/ Abort(i)
      PROVE  UNCHANGED <<ctx, indexed_sha>> /\ (overlapped => overlapped')
  <2>1. ASSUME NEW c \in Commits, Begin(i, c) PROVE UNCHANGED <<ctx, indexed_sha>> /\ (overlapped => overlapped')
    BY <2>1 DEF Begin, tables
  <2>2. CASE Delete(i) \/ Insert(i) \/ Label(i) \/ Abort(i)
    BY <2>2 DEF Delete, Insert, Label, Abort, tables
  <2> QED BY <1>2, <2>1, <2>2
<1>3. CASE UNCHANGED vars
  BY <1>1, <1>3 DEF vars, tables
<1> QED
  BY <1>1, <1>2, <1>3, CommitStep, NoteStep, EmbedStep, SearchStep, MergeStep DEF Next

\* The invariant of the whole system.
LEMMA IndexInvariance == Spec => [](WriterInv /\ ReaderInv)
<1> QED BY WriterInvInit, WriterInvNext, ReaderInvInit, ReaderInvNext, PTL DEF Spec

\* If the index did not move under the review and index runs did not overlap, the
\* context is of the commit that was looked up, and without a warning it is of the
\* base of the pull request (build_context, _note_index_drift).
THEOREM LabelsAreTrue == Spec => []ContextIsLabelled
<1>1. WriterInv /\ ReaderInv => ContextIsLabelled
  <2> SUFFICES ASSUME ReaderInv, NEW r \in Readers,
                      ctx[r].at = "done", ctx[r].known, ~ctx[r].moved, ~overlapped,
                      NEW row \in Range(ctx[r].chunks)
               PROVE  /\ row.commit = ctx[r].indexed_sha
                      /\ ctx[r].base_sha # None /\ ctx[r].index_drift = None =>
                            row.commit = ctx[r].base_sha
    BY DEF ContextIsLabelled
  <2>1. row.commit = ctx[r].indexed_sha
    BY DEF ReaderInv, ReviewOK, OfThatCommit, Range
  <2>2. ctx[r].index_drift = index_drift(ctx[r].indexed_sha, ctx[r].base_sha)
    BY DEF ReaderInv, ReviewOK, Told
  <2> QED BY <2>1, <2>2 DEF index_drift, None
<1> QED BY <1>1, IndexInvariance, PTL

\* No place is retrieved twice, and a file of which the model reads nothing lost its
\* place to the best blocks of other files, which alone exceed the budget of the
\* prompt, whatever the searches return and however long the blocks are
\* (build_context, render_repository_context).
THEOREM NoFileIsCrowdedOut == Spec => []EveryFileHeard
<1>1. ReaderInv => EveryFileHeard
  BY DEF ReaderInv, ReviewOK, Heard, EveryFileHeard
<1> QED BY <1>1, IndexInvariance, PTL

-----------------------------------------------------------------------------
(* Chunks *)

\* The cursor of _windows moves on by a step, which is at least one line.
LEMMA CursorFacts ==
    ASSUME NEW from \in Nat, NEW m \in Nat
    PROVE  /\ step \in 1..MAX_CHUNK_LINES
           /\ cursor(from, m) \in Nat /\ cursor(from, m) >= from + m
           /\ cursor(from, m + 1) = cursor(from, m) + step
           /\ cursor(from, 0) = from
<1>1. step \in 1..MAX_CHUNK_LINES
  BY ChunkingAssumption DEF step
<1>2. m * step \in Nat /\ m * step >= m /\ (m + 1) * step = m * step + step /\ 0 * step = 0
  <2>1. ASSUME NEW a \in Nat, NEW t \in Nat, t >= 1
        PROVE  a * t \in Nat /\ a * t >= a /\ (a + 1) * t = a * t + t /\ 0 * t = 0
    BY <2>1, SMTT(30)
  <2> QED BY <1>1, <2>1, ChunkingAssumption
<1> QED BY <1>1, <1>2 DEF cursor

\* The windows of a range of lines cover it, and none is too long.
LEMMA WindowsCover ==
    ASSUME NEW from \in Nat, NEW to \in Nat, NEW n \in from..to
    PROVE  \E w \in _windows(from, to) : /\ n \in w.start_line..w.end_line
                                         /\ w.end_line - w.start_line < MAX_CHUNK_LINES
<1> DEFINE Starts(c) == c <= to /\ (c > from => c - step + MAX_CHUNK_LINES - 1 < to)
           V == {m \in 0..(to - from) : Starts(cursor(from, m)) /\ cursor(from, m) <= n}
<1>1. /\ step \in 1..MAX_CHUNK_LINES
      /\ \A m \in Nat : /\ cursor(from, m) \in Nat /\ cursor(from, m) >= from + m
                        /\ cursor(from, m + 1) = cursor(from, m) + step
      /\ cursor(from, 0) = from
  BY CursorFacts
<1>2. MAX_CHUNK_LINES \in Nat \ {0} /\ step \in Nat
  BY <1>1, ChunkingAssumption
<1>3. 0 \in V
  BY <1>1, <1>2
<1>4. PICK m \in V : \A l \in V : l <= m
  <2>1. V \in SUBSET Nat /\ to - from \in Nat /\ \A l \in V : l <= to - from
    OBVIOUS
  <2> HIDE DEF V
  <2> QED BY <2>1, <1>3, GreatestNat
<1> DEFINE c == cursor(from, m)
           e == Min({c + MAX_CHUNK_LINES - 1, to})
<1>5. m \in Nat /\ c \in Nat /\ c <= n /\ Starts(c) /\ m \in 0..(to - from)
  BY <1>1, <1>4
<1>6. n <= c + MAX_CHUNK_LINES - 1
  <2> SUFFICES ASSUME n > c + MAX_CHUNK_LINES - 1 PROVE FALSE
    BY <1>2, <1>5
  <2>1. cursor(from, m + 1) = c + step /\ cursor(from, m + 1) >= from + (m + 1)
    BY <1>1, <1>5
  <2> HIDE DEF c
  <2>2. c + step <= n /\ (c + step) - step + MAX_CHUNK_LINES - 1 < to
    BY <1>1, <1>2, <1>5
  <2>3. m + 1 \in 0..(to - from)
    BY <2>1, <2>2, <1>2, <1>5
  <2>4. Starts(cursor(from, m + 1)) /\ cursor(from, m + 1) <= n
    BY <2>1, <2>2, <1>2, <1>5
  <2>5. m + 1 \in V
    BY <2>3, <2>4
  <2> HIDE DEF V
  <2> QED BY <2>5, <1>4, <1>5
<1>7. e = IF c + MAX_CHUNK_LINES - 1 <= to THEN c + MAX_CHUNK_LINES - 1 ELSE to
  BY <1>2, <1>5, MinOfTwo
<1>8. Chunk(c, e) \in _windows(from, to)
  BY <1>5 DEF _windows
<1>9. Chunk(c, e).start_line = c /\ Chunk(c, e).end_line = e
  BY DEF Chunk
<1> HIDE DEF c, e
<1>10. n \in c..e /\ e - c < MAX_CHUNK_LINES
  BY <1>2, <1>5, <1>6, <1>7
<1> QED BY <1>8, <1>9, <1>10

\* A line that is not blank, in a chunk before it is cut: it is in one of the parts.
LEMMA PartsCover ==
    ASSUME NEW from \in Nat, NEW to \in Nat, NEW n \in from..to
    PROVE  \E w \in (IF Chunk(from, to).end_line - Chunk(from, to).start_line + 1 <= MAX_CHUNK_LINES
                     THEN {Chunk(from, to)}
                     ELSE _windows(Chunk(from, to).start_line, Chunk(from, to).end_line)) :
              /\ n \in w.start_line..w.end_line
              /\ w.end_line - w.start_line < MAX_CHUNK_LINES
<1>1. Chunk(from, to).start_line = from /\ Chunk(from, to).end_line = to
  BY DEF Chunk
<1>2. MAX_CHUNK_LINES \in Nat
  BY ChunkingAssumption
<1>3. CASE to - from + 1 <= MAX_CHUNK_LINES
  BY <1>1, <1>2, <1>3
<1>4. CASE ~(to - from + 1 <= MAX_CHUNK_LINES)
  BY <1>1, <1>4, WindowsCover
<1> QED BY <1>3, <1>4

\* Every line of a file that is not blank is in a chunk that is not too long, but
\* for a header that is too short.
LEMMA FileCovered ==
    ASSUME NEW file, file.lines \in Nat, file.defs \subseteq 1..file.lines,
           NEW n \in (IF file.defs = {} \/ Min(file.defs) > MIN_CHUNK_LINES THEN 1
                      ELSE Min(file.defs))..file.lines,
           n \notin file.blank
    PROVE  \E k \in chunk_file(file) : /\ n \in k.start_line..k.end_line
                                       /\ k.end_line - k.start_line < MAX_CHUNK_LINES
<1> DEFINE all == IF file.defs # {} THEN _from_boundaries(file) ELSE _windows(1, file.lines)
           parts(c) == IF c.end_line - c.start_line + 1 <= MAX_CHUNK_LINES THEN {c}
                       ELSE _windows(c.start_line, c.end_line)
<1>1. ASSUME NEW c \in all, NEW w \in parts(c), n \in w.start_line..w.end_line
      PROVE  w \in chunk_file(file)
  <2>1. chunk_file(file) = {x \in UNION {parts(y) : y \in all} :
                              \E l \in x.start_line..x.end_line : l \notin file.blank}
    BY DEF chunk_file
  <2> HIDE DEF all, parts
  <2>2. w \in UNION {parts(y) : y \in all}
    OBVIOUS
  <2> QED BY <1>1, <2>1, <2>2
<1>2. ASSUME NEW from \in Nat, NEW to \in Nat, Chunk(from, to) \in all, n \in from..to
      PROVE  \E k \in chunk_file(file) : /\ n \in k.start_line..k.end_line
                                         /\ k.end_line - k.start_line < MAX_CHUNK_LINES
  <2>1. PICK w \in parts(Chunk(from, to)) : /\ n \in w.start_line..w.end_line
                                            /\ w.end_line - w.start_line < MAX_CHUNK_LINES
    BY <1>2, PartsCover
  <2> HIDE DEF all, parts
  <2>2. w \in chunk_file(file)
    BY <1>1, <1>2, <2>1
  <2> QED BY <2>1, <2>2
<1>3. CASE file.defs = {}
  <2>1. n \in 1..file.lines
    BY <1>3
  <2>2. PICK w \in _windows(1, file.lines) : /\ n \in w.start_line..w.end_line
                                             /\ w.end_line - w.start_line < MAX_CHUNK_LINES
    BY <2>1, WindowsCover
  <2>3. w \in parts(w)
    <3>1. w.end_line - w.start_line + 1 <= MAX_CHUNK_LINES
      <4>1. PICK c \in Nat : w = Chunk(c, Min({c + MAX_CHUNK_LINES - 1, file.lines}))
        <5>1. ASSUME NEW m \in 0..(file.lines - 1) PROVE cursor(1, m) \in Nat
          <6>1. m \in Nat /\ 1 \in Nat
            OBVIOUS
          <6> QED BY <6>1, CursorFacts
        <5> QED BY <2>2, <5>1 DEF _windows
      <4>2. w.start_line \in Int /\ w.end_line \in Int
        BY <4>1, MinOfTwo, ChunkingAssumption DEF Chunk
      <4> QED BY <4>2, <2>2, ChunkingAssumption
    <3> QED BY <3>1
  <2>4. w \in all
    BY <2>2, <1>3
  <2> HIDE DEF all, parts
  <2> QED BY <2>2, <2>3, <2>4, <1>1
<1>4. CASE file.defs # {}
  <2> DEFINE first == Min(file.defs)
  <2>1. first \in file.defs /\ \A d \in file.defs : first <= d
    BY <1>4, MinFacts
  <2>2. first \in Nat /\ first >= 1 /\ all = _from_boundaries(file)
        /\ n \in (IF first > MIN_CHUNK_LINES THEN 1 ELSE first)..file.lines
    BY <2>1, <1>4
  <2> HIDE DEF first
  <2>3. n \in Nat /\ n <= file.lines /\ n >= 1
    BY <2>2, ChunkingAssumption
  <2>4. CASE n < first
    <3>1. first > MIN_CHUNK_LINES /\ first - 1 \in Nat /\ n \in 1..(first - 1)
      BY <2>2, <2>3, <2>4, ChunkingAssumption
    <3>2. Chunk(1, first - 1) \in all
      BY <2>2, <3>1 DEF _from_boundaries, first
    <3> HIDE DEF all
    <3> QED BY <1>2, <3>1, <3>2
  <2>5. CASE n >= first
    <3> DEFINE below == {d \in file.defs : d <= n}
    <3>1. PICK d \in below : \A x \in below : x <= d
      <4>1. below \in SUBSET Nat /\ first \in below /\ \A x \in below : x <= n
        BY <2>1, <2>2, <2>5
      <4> HIDE DEF below
      <4> QED BY <4>1, <2>3, GreatestNat
    <3>2. d \in file.defs /\ d \in Nat /\ d <= n /\ \A x \in file.defs : x <= n => x <= d
      BY <3>1
    <3> DEFINE ends == {file.lines} \cup {e - 1 : e \in {e \in file.defs : e > d}}
               to == Min(ends)
    <3>3. ends \in SUBSET Nat /\ ends # {} /\ \A x \in ends : n <= x
      <4>1. ASSUME NEW e \in file.defs, e > d PROVE e - 1 \in Nat /\ n <= e - 1
        <5>1. e \in Nat /\ e >= 1 /\ ~(e <= d)
          BY <3>2, <4>1
        <5>2. ~(e <= n)
          BY <3>2, <5>1
        <5> QED BY <5>1, <5>2, <2>3
      <4> QED BY <4>1, <2>3
    <3>4. to \in ends
      <4> HIDE DEF ends
      <4> QED BY <3>3, MinFacts
    <3>5. to \in Nat /\ n \in d..to
      <4> HIDE DEF ends, to
      <4> QED BY <3>2, <3>3, <3>4, <2>3
    <3>6. Chunk(d, to) \in all
      <4>1. Chunk(d, to) \in {Chunk(c, Min({file.lines} \cup {e - 1 : e \in {e \in file.defs : e > c}})) :
                                 c \in file.defs}
        BY <3>2
      <4> QED BY <4>1, <2>2 DEF _from_boundaries
    <3> HIDE DEF all, to
    <3> QED BY <1>2, <3>2, <3>5, <3>6
  <2> QED BY <2>2, <2>3, <2>4, <2>5
<1> QED BY <1>3, <1>4

\* Every line of every file of the commit that is indexed can be retrieved, unless
\* it is blank or belongs to a header too short to be a chunk (chunk_file,
\* _from_boundaries, _windows).
THEOREM LinesAreIndexed == Spec => []EveryLineIndexed
<1>1. WriterInv => EveryLineIndexed
  <2> DEFINE file(p) == tree[indexed_sha][p]
             from(p) == IF file(p).defs = {} \/ Min(file(p).defs) > MIN_CHUNK_LINES THEN 1
                        ELSE Min(file(p).defs)
  <2> SUFFICES ASSUME WriterInv, ~overlapped, indexed_sha # None,
                      NEW p \in DOMAIN tree[indexed_sha],
                      NEW n \in (from(p)..file(p).lines) \ file(p).blank
               PROVE  \E row \in code_chunks :
                         /\ row.path = p
                         /\ n \in row.chunk.start_line..row.chunk.end_line
                         /\ row.chunk.end_line - row.chunk.start_line < MAX_CHUNK_LINES
    BY DEF EveryLineIndexed
  <2>1. tree[indexed_sha] \in Trees
    BY DEF WriterInv, WriterTypeOK
  <2>2. file(p).lines \in Nat /\ file(p).defs \subseteq 1..file(p).lines
    BY <2>1, IndexAssumption
  <2>3. PICK k \in chunk_file(file(p)) : /\ n \in k.start_line..k.end_line
                                         /\ k.end_line - k.start_line < MAX_CHUNK_LINES
    BY <2>2, FileCovered
  <2> DEFINE wanted == [by |-> None, commit |-> indexed_sha, path |-> p, chunk |-> k]
  <2>4. wanted \in Rows(None, indexed_sha)
    <3> DEFINE ofPath == {[by |-> None, commit |-> indexed_sha, path |-> p, chunk |-> m] :
                            m \in chunk_file(file(p))}
    <3>1. wanted \in ofPath
      OBVIOUS
    <3>2. ofPath \subseteq Rows(None, indexed_sha)
      BY ZenonT(60) DEF Rows, RowsOf
    <3> QED BY <3>1, <3>2
  <2>5. Key(wanted) \in Keys(code_chunks)
    BY <2>4 DEF WriterInv, SwapsAlone, Keys
  <2>6. PICK row \in code_chunks : Key(row) = Key(wanted)
    BY <2>5 DEF Keys
  <2>7. row.path = p /\ row.chunk = k
    BY <2>6 DEF Key
  <2> QED BY <2>3, <2>7
<1> QED BY <1>1, IndexInvariance, PTL

=============================================================================
