----------------------------- MODULE StoreProofs ----------------------------
(***************************************************************************)
(* The database file, for any number of processes, releases and tables:    *)
(* its schema (Migrate, which implements SchemaHistory) and the pruning of *)
(* its history (Prune).                                                    *)
(***************************************************************************)
EXTENDS Migrate, Prune, SequenceTheorems, FiniteSetTheorems, WellFoundedInduction,
        TLAPS

-----------------------------------------------------------------------------
(* The log of migrations is what was executed, an open store keeps its     *)
(* schema, and Migrate implements SchemaHistory.                           *)

File == [rows : Seq(Checksum), schema : Seq(Checksum)]

TxType == [phase : {"closed", "begun", "apply", "open"}, items : Seq(Checksum),
           base : File, local : File, wrote : BOOLEAN, at : Nat]

\* A transaction works on a snapshot of the file, the latest if it has written.
Snapshot(t, d) ==
    /\ t.wrote => t.base = d
    /\ Begins(t.base.rows, d.rows)
    /\ t.base.schema = t.base.rows /\ t.local.schema = t.local.rows
    /\ ~t.wrote => t.local = t.base
    /\ t.items \in Release

\* The rows of the transaction are those of its snapshot and then the items
\* before the one the loop is at.
Progress(t) ==
    /\ Begins(t.base.rows, t.items) /\ Begins(t.local.rows, t.items)
    /\ t.at \in 1 .. Len(t.items) + 1
    /\ Len(t.local.rows) = IF t.at > Len(t.base.rows) THEN t.at - 1 ELSE Len(t.base.rows)

\* What holds of a process in each phase, over the file d.
Sound(t, d) ==
    \/ t.phase = "closed" /\ ~t.wrote
    \/ t.phase = "begun" /\ Snapshot(t, d) /\ t.local = t.base /\ t.at = 1
    \/ t.phase = "apply" /\ Snapshot(t, d) /\ Progress(t)
    \/ t.phase = "open" /\ ~t.wrote /\ t.items \in Release /\ Begins(t.items, d.rows)

\* The inductive invariant.
MigrateInv ==
    /\ db \in File /\ db.schema = db.rows
    /\ tx \in [Process -> TxType]
    /\ \A p \in Process : Sound(tx[p], db)
    /\ \A p, q \in Process : tx[p].wrote /\ tx[q].wrote => p = q

-----------------------------------------------------------------------------

LEMMA SameBegins ==
    ASSUME NEW s, NEW t PROVE History!Begins(s, t) <=> Begins(s, t)
BY Zenon DEF History!Begins, Begins

LEMMA BeginsEqual ==
    ASSUME NEW S, NEW s \in Seq(S), NEW t \in Seq(S), Begins(s, t), Len(s) = Len(t)
    PROVE  s = t
BY SeqEqual, Zenon DEF Begins

LEMMA BeginsTransitive ==
    ASSUME NEW S, NEW s \in Seq(S), NEW t \in Seq(S), NEW u \in Seq(S),
           Begins(s, t), Begins(t, u)
    PROVE  Begins(s, u)
BY DEF Begins

\* Over a file that has grown, a process that has not written is still sound.
LEMMA SoundOverMore ==
    ASSUME NEW t \in TxType, NEW d \in File, NEW e \in File,
           Sound(t, d), ~t.wrote, Begins(d.rows, e.rows)
    PROVE  Sound(t, e)
<1>1. /\ t.base.rows \in Seq(Checksum) /\ t.items \in Seq(Checksum)
      /\ d.rows \in Seq(Checksum) /\ e.rows \in Seq(Checksum)
  BY Zenon DEF TxType, File
<1>2. Begins(t.base.rows, d.rows) => Begins(t.base.rows, e.rows)
  BY <1>1, BeginsTransitive, Zenon
<1>3. Begins(t.items, d.rows) => Begins(t.items, e.rows)
  BY <1>1, BeginsTransitive, Zenon
<1>4. Snapshot(t, d) => Snapshot(t, e)
  BY <1>2, Zenon DEF Snapshot
<1>5. QED
  BY <1>3, <1>4, Zenon DEF Sound

\* A step of p that leaves the file alone.
LEMMA StepOfOne ==
    ASSUME MigrateInv, NEW p \in Process, NEW t \in TxType,
           tx' = [tx EXCEPT ![p] = t], db' = db, Sound(t, db),
           t.wrote => \A q \in Process \ {p} : ~tx[q].wrote
    PROVE  MigrateInv'
<1>1. tx' \in [Process -> TxType]
  BY Zenon DEF MigrateInv
<1>2. \A q \in Process : tx'[q] = IF q = p THEN t ELSE tx[q]
  BY Zenon DEF MigrateInv
<1>3. \A q \in Process : Sound(tx'[q], db)
  BY <1>2, Zenon DEF MigrateInv
<1>4. \A q, r \in Process : tx'[q].wrote /\ tx'[r].wrote => q = r
  BY <1>2, Zenon DEF MigrateInv
<1>5. QED
  BY <1>1, <1>3, <1>4, Zenon DEF MigrateInv

-----------------------------------------------------------------------------
(* Each step keeps the invariant.                                          *)

LEMMA ClosedType == Empty \in File /\ Closed \in TxType /\ Closed.phase = "closed"
                    /\ Closed.wrote = FALSE
BY DEF Empty, Closed, File, TxType

LEMMA InitInv == MigrateInit => MigrateInv
BY ClosedType DEF MigrateInit, MigrateInv, Sound, Empty

LEMMA RolledInv ==
    ASSUME MigrateInv, NEW p \in Process, Rolled(p)
    PROVE  MigrateInv'
<1>1. Sound(Closed, db)
  BY ClosedType, Zenon DEF Sound
<1>2. QED
  BY <1>1, ClosedType, StepOfOne, Zenon DEF Rolled

\* CREATE TABLE IF NOT EXISTS makes the first transaction the writer at once.
LEMMA BeginInv ==
    ASSUME MigrateInv, NEW p \in Process, Begin(p)
    PROVE  MigrateInv'
<1> DEFINE w == db = Empty
           t(list) == [Closed EXCEPT !.phase = "begun", !.items = list,
                                      !.base = db, !.local = db, !.wrote = w]
<1>1. PICK list \in Release : tx' = [tx EXCEPT ![p] = t(list)]
  BY Zenon DEF Begin
<1>2. w \in BOOLEAN
  BY Zenon
<1> HIDE DEF w
<1>3. /\ t(list) \in TxType /\ t(list).phase = "begun" /\ t(list).items = list
      /\ t(list).base = db /\ t(list).local = db /\ t(list).wrote = w /\ t(list).at = 1
  BY <1>2, ClosedType, ReleaseAssumption, Zenon DEF TxType, MigrateInv, Closed
<1> HIDE DEF t
<1>4. Begins(db.rows, db.rows)
  BY DEF Begins, MigrateInv, File
<1>5. Snapshot(t(list), db) /\ Sound(t(list), db)
  BY <1>3, <1>4, Zenon DEF Snapshot, Sound, MigrateInv
<1>6. w => \A q \in Process : ~tx[q].wrote
  BY Zenon DEF Begin, w
<1>7. db' = db
  BY Zenon DEF Begin
<1>8. QED
  BY <1>1, <1>3, <1>5, <1>6, <1>7, StepOfOne, Zenon

\* The recorded rows agree with the items: they are the first of them.
LEMMA AgreesBegins ==
    ASSUME NEW list \in Seq(Checksum), NEW rows \in Seq(Checksum), Agrees(list, rows)
    PROVE  Begins(rows, list)
<1>1. \A v \in 1 .. Len(rows) : v \in 1 .. Len(list) /\ list[v] = rows[v]
  BY DEF Agrees
<1>2. Len(rows) \in Nat /\ Len(list) \in Nat
  OBVIOUS
<1>3. Len(rows) > 0 => Len(rows) \in 1 .. Len(list)
  BY <1>1, <1>2
<1>4. QED
  BY <1>1, <1>2, <1>3 DEF Begins

LEMMA VerifyInv ==
    ASSUME MigrateInv, NEW p \in Process, Verify(p)
    PROVE  MigrateInv'
<1> DEFINE t == [tx[p] EXCEPT !.phase = "apply"]
<1>1. tx[p] \in TxType /\ tx[p].phase = "begun" /\ Sound(tx[p], db)
  BY Zenon DEF MigrateInv, Verify
<1>2. /\ t \in TxType /\ t.phase = "apply" /\ t.items = tx[p].items /\ t.base = tx[p].base
      /\ t.local = tx[p].local /\ t.wrote = tx[p].wrote /\ t.at = tx[p].at
  BY <1>1, Zenon DEF TxType
<1>3. Snapshot(tx[p], db) /\ tx[p].local = tx[p].base /\ tx[p].at = 1
  BY <1>1, Zenon DEF Sound
<1>4. t.items \in Seq(Checksum) /\ t.base.rows \in Seq(Checksum)
  BY <1>1, <1>2, Zenon DEF TxType, File
<1>5. Begins(t.base.rows, t.items)
  BY <1>2, <1>4, AgreesBegins, Zenon DEF Verify
<1>6. tx' = [tx EXCEPT ![p] = t] /\ db' = db
  BY Zenon DEF Verify, MigrateInv
<1> HIDE DEF t
<1>7. Snapshot(t, db)
  BY <1>2, <1>3, Zenon DEF Snapshot
<1>8. Progress(t)
  BY <1>2, <1>3, <1>4, <1>5 DEF Progress
<1>9. t.wrote => \A q \in Process \ {p} : ~tx[q].wrote
  BY <1>2, Zenon DEF MigrateInv
<1>10. QED
  BY <1>2, <1>6, <1>7, <1>8, <1>9, StepOfOne, Zenon DEF Sound

\* An item that the snapshot already has is passed over.
LEMMA SkipInv ==
    ASSUME MigrateInv, NEW p \in Process, Skip(p)
    PROVE  MigrateInv'
<1> DEFINE t == [tx[p] EXCEPT !.at = @ + 1]
<1>1. /\ tx[p] \in TxType /\ tx[p].phase = "apply" /\ Snapshot(tx[p], db) /\ Progress(tx[p])
  BY Zenon DEF MigrateInv, Skip, AtItem, Sound
<1>2. /\ t \in TxType /\ t.phase = "apply" /\ t.items = tx[p].items /\ t.base = tx[p].base
      /\ t.local = tx[p].local /\ t.wrote = tx[p].wrote /\ t.at = tx[p].at + 1
  BY <1>1 DEF TxType
<1>3. tx[p].at \in 1 .. Len(tx[p].base.rows) /\ tx[p].at <= Len(tx[p].items)
  BY <1>1 DEF Skip, AtItem, Exists, TxType, File
<1>4. Len(tx[p].items) \in Nat /\ Len(tx[p].base.rows) \in Nat
  BY <1>1 DEF TxType, File
<1>5. tx' = [tx EXCEPT ![p] = t] /\ db' = db
  BY Zenon DEF Skip, MigrateInv
<1> HIDE DEF t
<1>6. Snapshot(t, db)
  BY <1>1, <1>2, Zenon DEF Snapshot
<1>7. Progress(t)
  <2>1. Begins(t.base.rows, t.items) /\ Begins(t.local.rows, t.items)
    BY <1>1, <1>2, Zenon DEF Progress
  <2>2. Len(tx[p].local.rows) = Len(tx[p].base.rows)
    BY <1>1, <1>3, <1>4 DEF Progress
  <2>3. t.at \in 1 .. Len(t.items) + 1
    BY <1>2, <1>3, <1>4
  <2>4. Len(t.local.rows) = IF t.at > Len(t.base.rows) THEN t.at - 1 ELSE Len(t.base.rows)
    BY <1>2, <1>3, <1>4, <2>2
  <2>5. QED
    BY <2>1, <2>3, <2>4, Zenon DEF Progress
<1>8. t.wrote => \A q \in Process \ {p} : ~tx[q].wrote
  BY <1>2, Zenon DEF MigrateInv
<1>9. QED
  BY <1>2, <1>5, <1>6, <1>7, <1>8, StepOfOne, Zenon DEF Sound

LEMMA AppendBegins ==
    ASSUME NEW list \in Seq(Checksum), NEW rows \in Seq(Checksum), NEW n \in 1 .. Len(list),
           Begins(rows, list), Len(rows) = n - 1
    PROVE  /\ Append(rows, list[n]) \in Seq(Checksum) /\ Len(Append(rows, list[n])) = n
           /\ Begins(Append(rows, list[n]), list)
<1>1. list[n] \in Checksum
  OBVIOUS
<1>2. Append(rows, list[n]) \in Seq(Checksum) /\ Len(Append(rows, list[n])) = n
  BY <1>1
<1>3. \A i \in 1 .. n : Append(rows, list[n])[i] = IF i = n THEN list[n] ELSE rows[i]
  BY <1>1
<1>4. QED
  BY <1>2, <1>3 DEF Begins

\* The item's SQL and its row go into the transaction together.
LEMMA ApplyInv ==
    ASSUME MigrateInv, NEW p \in Process, Apply(p)
    PROVE  MigrateInv'
<1> DEFINE t == [tx[p] EXCEPT !.local = Executed(p), !.wrote = TRUE, !.at = @ + 1]
           sql == tx[p].items[tx[p].at]
           rows == tx[p].local.rows
<1>1. /\ tx[p] \in TxType /\ tx[p].phase = "apply" /\ Snapshot(tx[p], db) /\ Progress(tx[p])
  BY Zenon DEF MigrateInv, Apply, AtItem, Sound
<1>2. tx[p].items \in Seq(Checksum) /\ rows \in Seq(Checksum) /\ tx[p].base.rows \in Seq(Checksum)
      /\ tx[p].at \in Nat
  BY <1>1, Zenon DEF TxType, File
<1>3. /\ tx[p].at \in 1 .. Len(tx[p].items) /\ tx[p].at > Len(tx[p].base.rows)
      /\ Len(rows) = tx[p].at - 1
  BY <1>1, <1>2 DEF Apply, AtItem, Exists, Progress
<1>4. /\ Append(rows, sql) \in Seq(Checksum) /\ Len(Append(rows, sql)) = tx[p].at
      /\ Begins(Append(rows, sql), tx[p].items)
  BY <1>1, <1>2, <1>3, AppendBegins, ZenonT(60) DEF Progress
<1>5. /\ Executed(p).rows = Append(rows, sql) /\ Executed(p).schema = Append(rows, sql)
      /\ Executed(p) \in File
  BY <1>1, <1>4, <1>2, SMTT(60) DEF Executed, Snapshot, File
<1>6. /\ t \in TxType /\ t.phase = "apply" /\ t.items = tx[p].items /\ t.base = tx[p].base
      /\ t.local = Executed(p) /\ t.wrote /\ t.at = tx[p].at + 1
  <2> DEFINE w == TRUE
             n == tx[p].at + 1
  <2>1. w \in BOOLEAN /\ n \in Nat
    BY <1>2
  <2>2. t = [tx[p] EXCEPT !.local = Executed(p), !.wrote = w, !.at = n]
    BY Zenon
  <2>3. w
    BY Zenon
  <2> HIDE DEF w, n, t
  <2>4. /\ t \in TxType /\ t.phase = tx[p].phase /\ t.items = tx[p].items
        /\ t.base = tx[p].base /\ t.local = Executed(p) /\ t.wrote = w /\ t.at = n
    <3>1. tx[p] \in TxType /\ Executed(p) \in File
      BY <1>1, <1>5, Zenon
    <3>2. /\ t.phase = tx[p].phase /\ t.items = tx[p].items /\ t.base = tx[p].base
          /\ t.local = Executed(p) /\ t.wrote = w /\ t.at = n
      BY <3>1, <2>1, <2>2, Zenon DEF TxType
    <3>3. t \in TxType
      BY <3>1, <2>1, <2>2, Zenon DEF TxType
    <3>4. QED
      BY <3>2, <3>3, Zenon
  <2>5. QED
    BY <1>1, <2>3, <2>4, Zenon DEF n
<1>8. tx[p].base = db /\ \A q \in Process \ {p} : ~tx[q].wrote
  BY <1>1, Zenon DEF Apply, MayWrite, Snapshot, MigrateInv
<1>9. tx' = [tx EXCEPT ![p] = t] /\ db' = db
  BY Zenon DEF Apply, MigrateInv
<1> HIDE DEF t
<1>10. Snapshot(t, db)
  BY <1>1, <1>5, <1>6, <1>8, Zenon DEF Snapshot
<1>11. Progress(t)
  <2>1. Begins(t.base.rows, t.items) /\ Begins(t.local.rows, t.items)
    BY <1>1, <1>4, <1>5, <1>6, Zenon DEF Progress
  <2>2. t.at \in 1 .. Len(t.items) + 1 /\ t.at > Len(t.base.rows)
    <3>1. Len(tx[p].items) \in Nat /\ Len(tx[p].base.rows) \in Nat
      BY <1>2
    <3>2. QED
      BY <1>2, <1>3, <1>6, <3>1, SMTT(60)
  <2>3. Len(t.local.rows) = t.at - 1
    BY <1>2, <1>4, <1>5, <1>6
  <2>4. QED
    BY <2>1, <2>2, <2>3, Zenon DEF Progress
<1>12. QED
  BY <1>6, <1>8, <1>9, <1>10, <1>11, StepOfOne, Zenon DEF Sound

\* At the commit the transaction holds the whole release; the file either has
\* it already or becomes it.
LEMMA CommitIsWhole ==
    ASSUME MigrateInv, NEW p \in Process, Commit(p)
    PROVE  /\ tx[p].phase = "apply" /\ tx[p].items \in Release
           /\ \/ ~tx[p].wrote /\ db' = db /\ Begins(tx[p].items, db.rows)
                 /\ tx[p].base.rows = tx[p].items
              \/ /\ tx[p].wrote /\ db' \in File /\ db'.rows = tx[p].items
                 /\ db'.schema = db'.rows /\ Begins(db.rows, tx[p].items)
<1>1. /\ tx[p] \in TxType /\ tx[p].phase = "apply" /\ Snapshot(tx[p], db) /\ Progress(tx[p])
  BY Zenon DEF MigrateInv, Commit, Sound
<1>2. tx[p].items \in Seq(Checksum) /\ tx[p].local \in File
      /\ tx[p].local.rows \in Seq(Checksum) /\ tx[p].base.rows \in Seq(Checksum)
  BY <1>1, Zenon DEF TxType, File
<1>3. Len(tx[p].local.rows) = Len(tx[p].items)
  <2>1. Len(tx[p].items) \in Nat /\ Len(tx[p].base.rows) \in Nat
    BY <1>2
  <2>2. tx[p].at > Len(tx[p].items) /\ tx[p].at \in 1 .. Len(tx[p].items) + 1
    BY <1>1, Zenon DEF Commit, Progress
  <2>3. Len(tx[p].base.rows) <= Len(tx[p].items)
    BY <1>1, Zenon DEF Progress, Begins
  <2>4. QED
    BY <1>1, <2>1, <2>2, <2>3 DEF Progress
<1>4. tx[p].local.rows = tx[p].items
  BY <1>1, <1>2, <1>3, BeginsEqual, Zenon DEF Progress
<1>5. CASE tx[p].wrote
  BY <1>1, <1>2, <1>4, <1>5, Zenon DEF Commit, Snapshot, Progress
<1>6. CASE ~tx[p].wrote
  BY <1>1, <1>4, <1>6, Zenon DEF Commit, Snapshot
<1>7. QED
  BY <1>1, <1>5, <1>6, Zenon DEF Snapshot

LEMMA OpenedType ==
    ASSUME NEW r \in Release
    PROVE  LET t == [Closed EXCEPT !.phase = "open", !.items = r]
           IN  t \in TxType /\ t.phase = "open" /\ t.items = r /\ ~t.wrote
BY ClosedType, ReleaseAssumption, Zenon DEF TxType, Closed

LEMMA CommitInv ==
    ASSUME MigrateInv, NEW p \in Process, Commit(p)
    PROVE  MigrateInv'
<1> DEFINE t == [Closed EXCEPT !.phase = "open", !.items = tx[p].items]
<1>1. t \in TxType /\ t.phase = "open" /\ t.items = tx[p].items /\ ~t.wrote
  BY CommitIsWhole, OpenedType, Zenon
<1>2. tx' = [tx EXCEPT ![p] = t]
  BY Zenon DEF Commit
<1> HIDE DEF t
<1>3. CASE ~tx[p].wrote
  <2>1. Sound(t, db) /\ db' = db
    BY <1>1, <1>3, CommitIsWhole, Zenon DEF Sound
  <2>2. QED
    BY <1>1, <1>2, <2>1, StepOfOne, Zenon
<1>4. CASE tx[p].wrote
  <2>1. /\ db' \in File /\ db'.rows = tx[p].items /\ db'.schema = db'.rows
        /\ Begins(db.rows, db'.rows) /\ tx[p].items \in Release
    BY <1>4, CommitIsWhole, Zenon
  <2>2. Begins(db'.rows, db'.rows)
    BY <2>1 DEF Begins, File
  <2>3. Sound(t, db')
    BY <1>1, <2>1, <2>2, Zenon DEF Sound
  <2>4. \A q \in Process \ {p} : tx[q] \in TxType /\ Sound(tx[q], db) /\ ~tx[q].wrote
    BY <1>4, Zenon DEF MigrateInv
  <2>5. \A q \in Process \ {p} : Sound(tx[q], db')
    BY <2>1, <2>4, SoundOverMore, Zenon DEF MigrateInv
  <2>6. \A q \in Process : tx'[q] = IF q = p THEN t ELSE tx[q]
    BY <1>2, Zenon DEF MigrateInv
  <2>7. tx' \in [Process -> TxType]
    BY <1>1, <1>2, Zenon DEF MigrateInv
  <2>8. \A q \in Process : Sound(tx'[q], db') /\ ~tx'[q].wrote
    BY <1>1, <2>3, <2>4, <2>5, <2>6, Zenon
  <2>9. QED
    BY <2>1, <2>7, <2>8, Zenon DEF MigrateInv
<1>5. QED
  BY <1>3, <1>4, Zenon

LEMMA OpenReadOnlyInv ==
    ASSUME MigrateInv, NEW p \in Process, OpenReadOnly(p)
    PROVE  MigrateInv'
<1>1. PICK r \in Release :
          /\ db.rows = r
          /\ tx' = [tx EXCEPT ![p] = [Closed EXCEPT !.phase = "open", !.items = r]]
  BY Zenon DEF OpenReadOnly, verifyReadOnlyMigrations
<1> DEFINE t == [Closed EXCEPT !.phase = "open", !.items = r]
<1>2. t \in TxType /\ t.phase = "open" /\ t.items = r /\ ~t.wrote
  BY OpenedType, Zenon
<1>3. tx' = [tx EXCEPT ![p] = t] /\ db' = db
  BY <1>1, Zenon DEF OpenReadOnly
<1> HIDE DEF t
<1>4. Begins(db.rows, db.rows)
  BY DEF Begins, MigrateInv, File
<1>5. Sound(t, db)
  BY <1>1, <1>2, <1>4, Zenon DEF Sound
<1>6. QED
  BY <1>2, <1>3, <1>5, StepOfOne, Zenon

LEMMA NextInv == MigrateInv /\ [MigrateNext]_mvars => MigrateInv'
<1> SUFFICES ASSUME MigrateInv, [MigrateNext]_mvars PROVE MigrateInv'
  BY Zenon
<1>1. CASE UNCHANGED mvars
  BY <1>1, Zenon DEF mvars, MigrateInv
<1>2. ASSUME NEW p \in Process, Begin(p) PROVE MigrateInv'
  BY <1>2, BeginInv, Zenon
<1>3. ASSUME NEW p \in Process, Verify(p) PROVE MigrateInv'
  BY <1>3, VerifyInv, Zenon
<1>4. ASSUME NEW p \in Process, Refuse(p) \/ Rollback(p) \/ Close(p) PROVE MigrateInv'
  BY <1>4, RolledInv, Zenon DEF Refuse, Rollback, Close
<1>5. ASSUME NEW p \in Process, Skip(p) PROVE MigrateInv'
  BY <1>5, SkipInv, Zenon
<1>6. ASSUME NEW p \in Process, Apply(p) PROVE MigrateInv'
  BY <1>6, ApplyInv, Zenon
<1>7. ASSUME NEW p \in Process, Commit(p) PROVE MigrateInv'
  BY <1>7, CommitInv, Zenon
<1>8. ASSUME NEW p \in Process, OpenReadOnly(p) PROVE MigrateInv'
  BY <1>8, OpenReadOnlyInv, Zenon
<1>9. QED
  BY <1>1, <1>2, <1>3, <1>4, <1>5, <1>6, <1>7, <1>8, Zenon DEF MigrateNext

LEMMA MigrateInvariant == MigrateSpec => []MigrateInv
BY InitInv, NextInv, PTL DEF MigrateSpec

-----------------------------------------------------------------------------

\* What schema_migrations records is what was executed, for any processes and
\* releases: SQL and row enter the file in one commit (Migrate, Apply, Commit).
THEOREM RecordedThm == MigrateSpec => []RecordedIsExecuted
BY MigrateInvariant, PTL DEF MigrateInv, RecordedIsExecuted

\* No upgrade by another process takes away what an open store relies on.
THEOREM OpenStoreThm == MigrateSpec => []OpenStoreKeepsSchema
<1>1. ASSUME MigrateInv, NEW p \in Process, tx[p].phase = "open"
      PROVE  Begins(tx[p].items, db.schema)
  BY <1>1, Zenon DEF MigrateInv, Sound
<1>2. MigrateInv => OpenStoreKeepsSchema
  BY <1>1, Zenon DEF OpenStoreKeepsSchema
<1>3. QED
  BY <1>2, MigrateInvariant, PTL

\* A store is handed out over its own release's schema; only a transaction that
\* another process overtook commits over a later one.
THEOREM OpensItsOwnThm == MigrateSpec => OpensItsOwn
<1> DEFINE A == \A p \in Process : tx'[p].phase = "open" /\ tx[p].phase # "open" =>
                  \/ db'.rows = tx'[p].items
                  \/ tx[p].phase = "apply" /\ tx[p].base # db
<1>1. ASSUME MigrateInv, MigrateNext PROVE A
  <2> SUFFICES ASSUME NEW p \in Process, tx'[p].phase = "open", tx[p].phase # "open"
               PROVE  \/ db'.rows = tx'[p].items
                      \/ tx[p].phase = "apply" /\ tx[p].base # db
    BY Zenon
  <2>1. PICK q \in Process : \/ Begin(q) \/ Verify(q) \/ Refuse(q) \/ Skip(q) \/ Apply(q)
                             \/ Commit(q) \/ Rollback(q) \/ OpenReadOnly(q) \/ Close(q)
    BY <1>1, Zenon DEF MigrateNext
  <2>2. tx \in [Process -> TxType] /\ tx[p] \in TxType /\ tx[q] \in TxType
    BY <1>1, Zenon DEF MigrateInv
  <2>3. CASE Commit(q)
    <3>1. p = q
      BY <2>2, <2>3, Zenon DEF Commit
    <3>2. tx'[p].items = tx[p].items
      BY <2>2, <2>3, <3>1, Zenon DEF Commit, Closed
    <3>3. QED
      BY <1>1, <2>3, <3>1, <3>2, CommitIsWhole, Zenon
  <2>4. CASE OpenReadOnly(q)
    <3>1. p = q
      BY <2>2, <2>4, Zenon DEF OpenReadOnly
    <3>2. PICK r \in Release : db.rows = r
            /\ tx' = [tx EXCEPT ![q] = [Closed EXCEPT !.phase = "open", !.items = r]]
      BY <2>4, Zenon DEF OpenReadOnly, verifyReadOnlyMigrations
    <3>3. tx'[p].items = r /\ db' = db
      BY <2>2, <2>4, <3>1, <3>2, Zenon DEF OpenReadOnly, Closed
    <3>4. QED
      BY <3>2, <3>3, Zenon
  <2>5. CASE Refuse(q) \/ Rollback(q) \/ Close(q)
    BY <2>2, <2>5, ClosedType, Zenon DEF Refuse, Rollback, Close, Rolled
  <2>6. CASE Begin(q)
    <3>1. p # q => tx'[p] = tx[p]
      BY <2>2, <2>6, Zenon DEF Begin
    <3>2. p = q => tx'[p].phase = "begun"
      BY <2>2, <2>6, ZenonT(60) DEF Begin, Closed
    <3>3. QED
      BY <3>1, <3>2, Zenon
  <2>7. CASE Verify(q) \/ Skip(q) \/ Apply(q)
    <3>1. p # q => tx'[p] = tx[p]
      BY <2>2, <2>7, Zenon DEF Verify, Skip, Apply
    <3>2. p = q => tx'[p].phase = "apply"
      BY <2>2, <2>7 DEF Verify, Skip, Apply, AtItem, TxType
    <3>3. QED
      BY <3>1, <3>2, Zenon
  <2>8. QED
    BY <2>1, <2>3, <2>4, <2>5, <2>6, <2>7, Zenon
<1>2. MigrateInv /\ [MigrateNext]_mvars => [A]_mvars
  BY <1>1, Zenon
<1>3. QED
  BY <1>2, MigrateInvariant, PTL DEF MigrateSpec, OpensItsOwn

-----------------------------------------------------------------------------
(* Migrate implements SchemaHistory.                                       *)

\* A step that opens no store and closes none is a stutter.
LEMMA NothingOpened ==
    ASSUME MigrateInv, NEW p \in Process, NEW t, tx' = [tx EXCEPT ![p] = t],
           tx[p].phase # "open", t.phase # "open"
    PROVE  Opened' = Opened
BY Zenon DEF MigrateInv, Opened

\* The step that opens a store changes that process's part alone.
LEMMA StoreOpened ==
    ASSUME MigrateInv, NEW p \in Process, NEW t, tx' = [tx EXCEPT ![p] = t],
           tx[p].phase # "open", t.phase = "open"
    PROVE  Opened[p] = <<>> /\ Opened' = [Opened EXCEPT ![p] = t.items]
BY Zenon DEF MigrateInv, Opened

LEMMA StoreClosed ==
    ASSUME MigrateInv, NEW p \in Process, Close(p)
    PROVE  Opened[p] # <<>> /\ Opened' = [Opened EXCEPT ![p] = <<>>]
<1>1. tx[p].phase = "open" /\ tx[p].items \in Release
  BY Zenon DEF MigrateInv, Sound, Close
<1>2. tx' = [tx EXCEPT ![p] = Closed]
  BY Zenon DEF Close, Rolled
<1>3. QED
  BY <1>1, <1>2, ReleaseAssumption, ClosedType, Zenon DEF MigrateInv, Opened

LEMMA NoStoreStep ==
    ASSUME MigrateInv, NEW p \in Process,
           Begin(p) \/ Verify(p) \/ Refuse(p) \/ Skip(p) \/ Apply(p) \/ Rollback(p)
    PROVE  db' = db /\ Opened' = Opened
<1>1. tx \in [Process -> TxType] /\ tx[p] \in TxType
  BY SMTT(30) DEF MigrateInv
<1>2. CASE Begin(p)
  <2>1. PICK list \in Release : tx' = [tx EXCEPT ![p] = [Closed EXCEPT
             !.phase = "begun", !.items = list, !.base = db, !.local = db,
             !.wrote = db = Empty]]
    BY <1>2, Zenon DEF Begin
  <2>2. [Closed EXCEPT !.phase = "begun", !.items = list, !.base = db, !.local = db,
             !.wrote = db = Empty].phase = "begun"
    BY Zenon DEF Closed
  <2>3. QED
    BY <1>2, <2>1, <2>2, NothingOpened, Zenon DEF Begin
<1>3. CASE Verify(p)
  BY <1>1, <1>3, Zenon DEF Verify, Opened, TxType
<1>4. CASE Skip(p)
  BY <1>1, <1>4, Zenon DEF Skip, AtItem, Opened, TxType
<1>5. CASE Apply(p)
  BY <1>1, <1>5, Zenon DEF Apply, AtItem, Opened, TxType
<1>6. CASE Refuse(p) \/ Rollback(p)
  BY <1>6, ClosedType, NothingOpened, Zenon DEF Refuse, Rollback, Rolled
<1>7. QED
  BY <1>2, <1>3, <1>4, <1>5, <1>6, Zenon

LEMMA GetStoreStep ==
    ASSUME MigrateInv, NEW p \in Process, Commit(p) \/ OpenReadOnly(p)
    PROVE  History!GetStore(p)
<1>1. CASE Commit(p)
  <2> DEFINE r == tx[p].items
             t == [Closed EXCEPT !.phase = "open", !.items = r]
  <2>1. r \in Release /\ tx[p].phase = "apply"
    BY <1>1, CommitIsWhole, Zenon
  <2>2. t.phase = "open" /\ t.items = r
    BY <2>1, OpenedType, Zenon
  <2>3. tx' = [tx EXCEPT ![p] = t]
    BY <1>1, Zenon DEF Commit
  <2> HIDE DEF t
  <2>4. Opened[p] = <<>> /\ Opened' = [Opened EXCEPT ![p] = r]
    <3>1. tx[p].phase # "open" /\ t.phase = "open"
      BY <2>1, <2>2, Zenon
    <3>2. Opened[p] = <<>> /\ Opened' = [Opened EXCEPT ![p] = t.items]
      BY <2>3, <3>1, StoreOpened, Zenon
    <3>3. QED
      BY <2>2, <3>2, Zenon
  <2>5. r \in Seq(Checksum) /\ db.rows \in Seq(Checksum)
    BY <2>1, ReleaseAssumption, Zenon DEF MigrateInv, File
  <2>6. /\ Begins(r, db.rows) <=> History!Begins(r, db.rows)
        /\ Begins(db.rows, r) <=> History!Begins(db.rows, r)
    BY SameBegins, Zenon
  <2>7. Begins(r, db.rows) /\ Begins(db.rows, r) => r = db.rows
    BY <2>5, BeginsEqual DEF Begins
  <2>8. /\ Begins(r, db.rows) \/ Begins(db.rows, r)
        /\ db'.rows = IF Begins(r, db.rows) THEN db.rows ELSE r
    BY <1>1, <2>7, CommitIsWhole, Zenon
  <2>9. QED
    BY <2>1, <2>4, <2>6, <2>8, Zenon DEF History!GetStore
<1>2. CASE OpenReadOnly(p)
  <2>1. PICK r \in Release :
            /\ db.rows = r
            /\ tx' = [tx EXCEPT ![p] = [Closed EXCEPT !.phase = "open", !.items = r]]
    BY <1>2, Zenon DEF OpenReadOnly, verifyReadOnlyMigrations
  <2> DEFINE t == [Closed EXCEPT !.phase = "open", !.items = r]
  <2>2. t.phase = "open" /\ t.items = r
    BY OpenedType, Zenon
  <2>3. tx' = [tx EXCEPT ![p] = t] /\ tx[p].phase # "open" /\ db' = db
    BY <1>2, <2>1, Zenon DEF OpenReadOnly
  <2> HIDE DEF t
  <2>4. Opened[p] = <<>> /\ Opened' = [Opened EXCEPT ![p] = r]
    BY <2>2, <2>3, StoreOpened, Zenon
  <2>5. r \in Seq(Checksum) /\ Begins(r, db.rows)
    BY <2>1, ReleaseAssumption DEF Begins
  <2>6. History!Begins(r, db.rows)
    BY <2>5, SameBegins, Zenon
  <2>7. QED
    BY <2>3, <2>4, <2>6, Zenon DEF History!GetStore
<1>3. QED
  BY <1>1, <1>2, Zenon

\* For any processes and releases, Migrate implements SchemaHistory: the file
\* moves from whole release to whole release, each extending the last, in the
\* step that gives a process its store.
THEOREM ImplementsHistoryThm == MigrateSpec => ImplementsHistory
<1>1. MigrateInit => History!HistoryInit
  BY ClosedType DEF MigrateInit, Empty, Opened, History!HistoryInit
<1>2. MigrateInv /\ [MigrateNext]_mvars => [History!HistoryNext]_<<db.rows, Opened>>
  <2> SUFFICES ASSUME MigrateInv, MigrateNext, ~UNCHANGED <<db.rows, Opened>>
               PROVE  History!HistoryNext
    BY Zenon DEF mvars, Opened
  <2>1. PICK p \in Process : \/ Begin(p) \/ Verify(p) \/ Refuse(p) \/ Skip(p) \/ Apply(p)
                             \/ Commit(p) \/ Rollback(p) \/ OpenReadOnly(p) \/ Close(p)
    BY Zenon DEF MigrateNext
  <2>2. CASE Commit(p) \/ OpenReadOnly(p)
    BY <2>2, GetStoreStep, Zenon DEF History!HistoryNext
  <2>3. CASE Close(p)
    <3>1. db'.rows = db.rows
      BY <2>3, Zenon DEF Close, Rolled
    <3>2. QED
      BY <2>3, <3>1, StoreClosed, Zenon DEF History!HistoryNext, History!GiveBack
  <2>4. QED
    BY <2>1, <2>2, <2>3, NoStoreStep, Zenon
<1>3. QED
  BY <1>1, <1>2, MigrateInvariant, PTL
     DEF MigrateSpec, ImplementsHistory, History!HistorySpec

-----------------------------------------------------------------------------
(* Pruning: whatever rows there are and however often they are pruned, no  *)
(* reference dangles, the plan announces what is deleted, what is in use   *)
(* stays and the history is bounded.                                       *)

\* The primary keys that the proofs rest on: a Run's id and a token.
Keys ==
    /\ \A r, s \in runs : r.id = s.id => r = s
    /\ \A o, p \in ops : o.token = p.token => o = p

\* The inductive invariant.
PruneInv == PruneTypeOK /\ Keys /\ References

-----------------------------------------------------------------------------

\* Empty tables.
LEMMA PruneInitInv == PruneInit => PruneInv
BY Zenon DEF PruneInit, PruneInv, PruneTypeOK, Keys, References

\* A step that leaves operations, items, decisions, alerts and objects alone.
LEMMA UnrelatedKeeps ==
    ASSUME PruneInv, UNCHANGED <<ops, items, decisions, alerts, objects>>,
           runs' \subseteq [id: 1..MaxRuns, status: Terminal \cup {"running"}, old: BOOLEAN],
           \A r, s \in runs' : r.id = s.id => r = s,
           entries' \subseteq [id: Entry, active: BOOLEAN, old: BOOLEAN]
    PROVE  PruneInv'
BY Zenon DEF PruneInv, PruneTypeOK, Keys, References

\* Deleting rows: items go with their operation, and what is left refers to
\* nothing that was deleted (PruneHistory).
LEMMA PruneHistoryInv == ASSUME PruneInv, PruneHistory PROVE PruneInv'
<1>1. /\ runs' \subseteq runs /\ ops' \subseteq ops /\ items' \subseteq items
      /\ decisions' \subseteq decisions /\ alerts' \subseteq alerts
      /\ objects' \subseteq objects /\ entries' \subseteq entries
  BY Zenon DEF PruneHistory
<1>2. PruneTypeOK'
  BY <1>1, Zenon DEF PruneInv, PruneTypeOK
<1>3. Keys'
  BY <1>1, Zenon DEF PruneInv, Keys
<1>4. ASSUME NEW i \in items'
      PROVE  /\ \E o \in ops' : o.token = i.token
             /\ \E e \in objects' : e.id = i.object
             /\ i.replaces # None => \E d \in decisions' : d.id = i.replaces
  BY <1>1, <1>4, Zenon DEF PruneHistory, PruneInv, References, DeletedObjects, DeletedDecisions
<1>5. ASSUME NEW d \in decisions'
      PROVE  /\ \E e \in objects' : e.id = d.object
             /\ \E a \in alerts' : a.id = d.alert
  BY <1>1, <1>5, Zenon DEF PruneHistory, PruneInv, References, DeletedObjects, DeletedAlerts
<1>6. QED
  BY <1>2, <1>3, <1>4, <1>5, Zenon DEF PruneInv, References

\* A plan is applied with its Run, its decisions and its operations.
LEMMA ApplyEnforcementPlanInv == ASSUME PruneInv, ApplyEnforcementPlan PROVE PruneInv'
<1>1. PICK plan \in SUBSET Object, wanted \in SUBSET Object :
        objects' = {[id |-> e, desired |-> e \in wanted, old |-> FALSE] :
                        e \in plan \cup {o.id : o \in objects}}
  BY Zenon DEF ApplyEnforcementPlan
<1>2. UNCHANGED <<runs, ops, items, decisions, alerts, entries>>
  BY Zenon DEF ApplyEnforcementPlan
<1> DEFINE row(e) == [id |-> e, desired |-> e \in wanted, old |-> FALSE]
           ids == plan \cup {o.id : o \in objects}
<1>3. ASSUME NEW e \in Object
      PROVE  row(e) \in [id: Object, desired: BOOLEAN, old: BOOLEAN] /\ row(e).id = e
  <2>1. (e \in wanted) \in BOOLEAN /\ FALSE \in BOOLEAN
    OBVIOUS
  <2>2. QED
    BY <2>1, Zenon
<1>4. ids \subseteq Object /\ \A o \in objects : o.id \in ids
  BY Zenon DEF PruneInv, PruneTypeOK
<1>5. objects' = {row(e) : e \in ids}
  BY <1>1, Zenon
<1> HIDE DEF row, ids
<1>6. objects' \subseteq [id: Object, desired: BOOLEAN, old: BOOLEAN]
  BY <1>3, <1>4, <1>5
<1>7. \A o \in objects : \E e \in objects' : e.id = o.id
  BY <1>3, <1>4, <1>5, Zenon
<1>8. QED
  BY <1>2, <1>6, <1>7 DEF PruneInv, PruneTypeOK, Keys, References

\* An operation is begun.
LEMMA BeginOperationInv == ASSUME PruneInv, BeginOperation PROVE PruneInv'
<1>1. UNCHANGED <<runs, decisions, alerts, objects, entries>>
  BY Zenon DEF BeginOperation
<1>2. PICK t \in FreeTokens,
          batch \in (SUBSET {e.id : e \in {e \in objects : e.desired}}) \ {{}} :
            /\ ops' = ops \cup {[token |-> t, status |-> "pending", old |-> FALSE]}
            /\ items' = items \cup
                {[token |-> t, object |-> e,
                  replaces |-> IF ActiveDecision(e) = {} THEN None
                               ELSE CHOOSE d \in ActiveDecision(e) : TRUE] :
                 e \in batch}
  BY Zenon DEF BeginOperation
<1> DEFINE new(e) == IF ActiveDecision(e) = {} THEN None
                     ELSE CHOOSE d \in ActiveDecision(e) : TRUE
<1>3. ASSUME NEW e \in batch
      PROVE  /\ e \in Object /\ \E o \in objects : o.id = e
             /\ new(e) \in Decision \cup {None}
             /\ new(e) # None => \E d \in decisions : d.id = new(e)
  <2>1. e \in Object /\ \E o \in objects : o.id = e
    BY <1>2 DEF PruneInv, PruneTypeOK
  <2>2. CASE ActiveDecision(e) = {}
    BY <2>1, <2>2, Zenon
  <2>3. CASE ActiveDecision(e) # {}
    <3>1. new(e) \in ActiveDecision(e)
      BY <2>3, Zenon
    <3>2. QED
      BY <2>1, <3>1 DEF ActiveDecision, PruneInv, PruneTypeOK
  <2>4. QED
    BY <2>2, <2>3, Zenon
<1> DEFINE op == [token |-> t, status |-> "pending", old |-> FALSE]
           item(e) == [token |-> t, object |-> e, replaces |-> new(e)]
<1>4. op \in [token: Op, status: Open \cup {"completed", "failed"}, old: BOOLEAN]
      /\ op.token = t /\ \A o \in ops : o.token # t
  BY <1>2, Zenon DEF FreeTokens, Open
<1>5. \A e \in batch : item(e) \in [token: Op, object: Object, replaces: Decision \cup {None}]
                       /\ item(e).token = t /\ item(e).object = e /\ item(e).replaces = new(e)
  BY <1>2, <1>3, Zenon DEF FreeTokens
<1>6. ops' = ops \cup {op} /\ items' = items \cup {item(e) : e \in batch}
  BY <1>2, Zenon
<1> HIDE DEF op, item, new
<1>7. PruneTypeOK'
  BY <1>1, <1>4, <1>5, <1>6 DEF PruneInv, PruneTypeOK
<1>8. Keys'
  BY <1>1, <1>4, <1>6, Zenon DEF PruneInv, Keys
<1>9. References'
  BY <1>1, <1>3, <1>4, <1>5, <1>6 DEF PruneInv, References
<1>10. QED
  BY <1>7, <1>8, <1>9, Zenon DEF PruneInv

\* A step that gives one operation another status and touches nothing else.
LEMMA StatusKeeps ==
    ASSUME PruneInv, NEW o \in ops, NEW s \in Open \cup {"completed", "failed"},
           ops' = (ops \ {o}) \cup {WithStatus(o, s)},
           UNCHANGED <<runs, items, decisions, alerts, objects, entries>>
    PROVE  PruneInv'
<1> DEFINE new == WithStatus(o, s)
<1>1. /\ new \in [token: Op, status: Open \cup {"completed", "failed"}, old: BOOLEAN]
      /\ new.token = o.token
  BY Zenon DEF WithStatus, PruneInv, PruneTypeOK
<1> HIDE DEF new
<1>2. ops' = (ops \ {o}) \cup {new}
  BY Zenon DEF new
<1>3. PruneTypeOK' /\ Keys'
  BY <1>1, <1>2, Zenon DEF PruneInv, PruneTypeOK, Keys
<1>4. \A p \in ops : \E q \in ops' : q.token = p.token
  BY <1>1, <1>2, Zenon
<1>5. QED
  BY <1>3, <1>4 DEF PruneInv, References

\* A step that rewrites decisions but keeps the ids, and adds decisions of
\* known objects and alerts.
LEMMA DecisionsKeep ==
    ASSUME PruneInv, UNCHANGED <<runs, items, objects, entries>>,
           decisions' \subseteq [id: Decision, object: Object, alert: Alert,
                                 status: {"active", "expiring", "expired"},
                                 seen: BOOLEAN, over: BOOLEAN],
           alerts' \subseteq [id: Alert, old: BOOLEAN],
           ops' \subseteq [token: Op, status: Open \cup {"completed", "failed"},
                           old: BOOLEAN],
           \A o, p \in ops' : o.token = p.token => o = p,
           \A p \in ops : \E q \in ops' : q.token = p.token,
           \A d \in decisions : \E c \in decisions' : c.id = d.id,
           \A d \in decisions' : /\ \E e \in objects : e.id = d.object
                                 /\ \E a \in alerts' : a.id = d.alert
    PROVE  PruneInv'
<1>1. PruneTypeOK' /\ Keys'
  BY Zenon DEF PruneInv, PruneTypeOK, Keys
<1>2. References'
  BY DEF PruneInv, References
<1>3. QED
  BY <1>1, <1>2, Zenon DEF PruneInv

\* A verified operation is recorded, with the decision it made.
LEMMA RecordVerifiedInv == ASSUME PruneInv, RecordVerifiedOperation PROVE PruneInv'
<1>1. PICK o \in ops, a \in Free(Alert, alerts) :
        LET mine == {i \in items : i.token = o.token}
            replaced == {i.replaces : i \in mine}
            fresh == Free(Decision, decisions)
        IN  /\ \E new \in [mine -> fresh] :
                decisions' =
                    {IF d.id \in replaced THEN [d EXCEPT !.status = "expiring"]
                     ELSE d : d \in decisions} \cup
                    {[id |-> new[i], object |-> i.object, alert |-> a,
                      status |-> "active", seen |-> FALSE, over |-> FALSE] :
                     i \in mine}
            /\ alerts' = alerts \cup {[id |-> a, old |-> FALSE]}
            /\ ops' = (ops \ {o}) \cup {WithStatus(o, "verified")}
  BY Zenon DEF RecordVerifiedOperation
<1> DEFINE mine == {i \in items : i.token = o.token}
           replaced == {i.replaces : i \in mine}
<1>2. PICK new \in [mine -> Free(Decision, decisions)] :
        decisions' = {IF d.id \in replaced THEN [d EXCEPT !.status = "expiring"]
                      ELSE d : d \in decisions} \cup
                     {[id |-> new[i], object |-> i.object, alert |-> a,
                       status |-> "active", seen |-> FALSE, over |-> FALSE] : i \in mine}
  BY <1>1, Zenon
<1> DEFINE Type == [id: Decision, object: Object, alert: Alert,
                    status: {"active", "expiring", "expired"}, seen: BOOLEAN, over: BOOLEAN]
           kept(d) == IF d.id \in replaced THEN [d EXCEPT !.status = "expiring"] ELSE d
           made(i) == [id |-> new[i], object |-> i.object, alert |-> a,
                       status |-> "active", seen |-> FALSE, over |-> FALSE]
<1>3. ASSUME NEW d \in decisions
      PROVE  /\ kept(d) \in Type /\ kept(d).id = d.id
             /\ kept(d).object = d.object /\ kept(d).alert = d.alert
  <2>1. d \in Type
    BY Zenon DEF PruneInv, PruneTypeOK
  <2>2. QED
    BY <2>1, Zenon
<1>4. ASSUME NEW i \in mine
      PROVE  made(i) \in Type /\ made(i).object = i.object /\ made(i).alert = a
  <2>1. new[i] \in Decision /\ i.object \in Object /\ a \in Alert
    BY <1>1, <1>2, Zenon DEF Free, PruneInv, PruneTypeOK
  <2>2. FALSE \in BOOLEAN /\ "active" \in {"active", "expiring", "expired"}
    BY Zenon
  <2>3. QED
    BY <2>1, <2>2, Zenon
<1>5. decisions' = {kept(d) : d \in decisions} \cup {made(i) : i \in mine}
  BY <1>2, Zenon
<1> DEFINE alert == [id |-> a, old |-> FALSE]
           op == WithStatus(o, "verified")
<1>6. alert \in [id: Alert, old: BOOLEAN] /\ alert.id = a
  BY <1>1, Zenon DEF Free
<1>7. /\ op \in [token: Op, status: Open \cup {"completed", "failed"}, old: BOOLEAN]
      /\ op.token = o.token
  BY Zenon DEF WithStatus, PruneInv, PruneTypeOK, Open
<1>8. ops' = (ops \ {o}) \cup {op} /\ alerts' = alerts \cup {alert}
  BY <1>1, Zenon
<1> HIDE DEF kept, made, alert, op
<1>9. /\ decisions' \subseteq Type /\ \A d \in decisions : \E c \in decisions' : c.id = d.id
  BY <1>3, <1>4, <1>5
<1>10. /\ alerts' \subseteq [id: Alert, old: BOOLEAN]
       /\ ops' \subseteq [token: Op, status: Open \cup {"completed", "failed"}, old: BOOLEAN]
       /\ \A q, p \in ops' : q.token = p.token => q = p
       /\ \A p \in ops : \E q \in ops' : q.token = p.token
  BY <1>6, <1>7, <1>8 DEF PruneInv, PruneTypeOK, Keys
<1>11. ASSUME NEW d \in decisions'
       PROVE  (\E e \in objects : e.id = d.object) /\ (\E b \in alerts' : b.id = d.alert)
  <2>1. CASE \E c \in decisions : d = kept(c)
    BY <1>3, <1>8, <2>1 DEF PruneInv, References
  <2>2. CASE \E i \in mine : d = made(i)
    BY <1>4, <1>6, <1>8, <2>2 DEF PruneInv, References
  <2>3. QED
    BY <1>5, <2>1, <2>2, Zenon
<1>12. UNCHANGED <<runs, items, objects, entries>>
  BY Zenon DEF RecordVerifiedOperation
<1>13. QED
  BY <1>9, <1>10, <1>11, <1>12, DecisionsKeep, Zenon

\* A decision of the ledger is marked expired.
LEMMA MarkExpiredInv == ASSUME PruneInv, MarkDecisionExpired PROVE PruneInv'
<1>1. PICK d \in decisions : decisions' = (decisions \ {d}) \cup
                                {[d EXCEPT !.status = "expired", !.seen = FALSE]}
  BY Zenon DEF MarkDecisionExpired
<1>2. UNCHANGED <<runs, ops, items, alerts, objects, entries>>
  BY Zenon DEF MarkDecisionExpired
<1> DEFINE Type == [id: Decision, object: Object, alert: Alert,
                    status: {"active", "expiring", "expired"}, seen: BOOLEAN, over: BOOLEAN]
           new == [d EXCEPT !.status = "expired", !.seen = FALSE]
<1>3. d \in Type
  BY Zenon DEF PruneInv, PruneTypeOK
<1>4. new \in Type /\ new.id = d.id /\ new.object = d.object /\ new.alert = d.alert
  BY <1>3, Zenon
<1>5. decisions' = (decisions \ {d}) \cup {new}
  BY <1>1, Zenon
<1> HIDE DEF new
<1>6. decisions' \subseteq Type /\ \A c \in decisions : \E b \in decisions' : b.id = c.id
  BY <1>4, <1>5, Zenon DEF PruneInv, PruneTypeOK
<1>7. \A c \in decisions' : /\ \E e \in objects : e.id = c.object
                            /\ \E a \in alerts' : a.id = c.alert
  BY <1>2, <1>4, <1>5, Zenon DEF PruneInv, References
<1>8. QED
  BY <1>2, <1>6, <1>7, DecisionsKeep, Zenon DEF PruneInv, PruneTypeOK, Keys

\* Time passes.
LEMMA AgeInv == ASSUME PruneInv, Age PROVE PruneInv'
<1>1. UNCHANGED items
  BY Zenon DEF Age
<1> DEFINE run(r) == [r EXCEPT !.old = r.status \in Terminal]
           op(o) == [o EXCEPT !.old = o.status \notin Open]
           aged(row) == [row EXCEPT !.old = TRUE]
<1>2. /\ runs' = {run(r) : r \in runs} /\ ops' = {op(o) : o \in ops}
      /\ alerts' = {aged(a) : a \in alerts}
      /\ objects' = {aged(e) : e \in objects}
      /\ entries' = {[e EXCEPT !.old = TRUE] : e \in entries}
  BY Zenon DEF Age
<1>3. PICK past \in BOOLEAN :
        decisions' = {[d EXCEPT !.seen = TRUE, !.over = d.over \/ past] : d \in decisions}
  BY Zenon DEF Age
<1> DEFINE decision(d) == [d EXCEPT !.seen = TRUE, !.over = d.over \/ past]
<1>4. ASSUME NEW r \in runs
      PROVE  /\ run(r) \in [id: 1..MaxRuns, status: Terminal \cup {"running"}, old: BOOLEAN]
             /\ run(r).id = r.id
  <2>1. r \in [id: 1..MaxRuns, status: Terminal \cup {"running"}, old: BOOLEAN]
    BY Zenon DEF PruneInv, PruneTypeOK
  <2>2. (r.status \in Terminal) \in BOOLEAN
    OBVIOUS
  <2>3. QED
    BY <2>1, <2>2, Zenon
<1>5. ASSUME NEW o \in ops
      PROVE  /\ op(o) \in [token: Op, status: Open \cup {"completed", "failed"}, old: BOOLEAN]
             /\ op(o).token = o.token
  <2>1. o \in [token: Op, status: Open \cup {"completed", "failed"}, old: BOOLEAN]
    BY Zenon DEF PruneInv, PruneTypeOK
  <2>2. (o.status \notin Open) \in BOOLEAN
    BY Zenon
  <2>3. QED
    BY <2>1, <2>2, Zenon
<1> DEFINE Type == [id: Decision, object: Object, alert: Alert,
                    status: {"active", "expiring", "expired"}, seen: BOOLEAN, over: BOOLEAN]
<1>6. ASSUME NEW d \in decisions
      PROVE  /\ decision(d) \in Type /\ decision(d).id = d.id
             /\ decision(d).object = d.object /\ decision(d).alert = d.alert
  <2>1. d \in Type
    BY Zenon DEF PruneInv, PruneTypeOK
  <2>2. (d.over \/ past) \in BOOLEAN
    BY Zenon
  <2>3. QED
    BY <2>1, <2>2, Zenon
<1>7. decisions' = {decision(d) : d \in decisions}
  BY <1>3, Zenon
<1>8. \A a \in alerts : aged(a) \in [id: Alert, old: BOOLEAN] /\ aged(a).id = a.id
  BY Zenon DEF PruneInv, PruneTypeOK
<1>9. \A e \in objects : /\ aged(e) \in [id: Object, desired: BOOLEAN, old: BOOLEAN]
                         /\ aged(e).id = e.id
  BY Zenon DEF PruneInv, PruneTypeOK
<1>10. entries' \subseteq [id: Entry, active: BOOLEAN, old: BOOLEAN]
  BY <1>2, ZenonT(60) DEF PruneInv, PruneTypeOK
<1> HIDE DEF run, op, decision, aged
<1>11. /\ alerts' \subseteq [id: Alert, old: BOOLEAN]
      /\ \A a \in alerts : \E b \in alerts' : b.id = a.id
  BY <1>2, <1>8, Zenon
<1>12. /\ objects' \subseteq [id: Object, desired: BOOLEAN, old: BOOLEAN]
      /\ \A e \in objects : \E f \in objects' : f.id = e.id
  BY <1>2, <1>9, Zenon
<1>13. /\ decisions' \subseteq Type
       /\ \A d \in decisions : \E c \in decisions' : c.id = d.id
       /\ \A c \in decisions' : \E d \in decisions : c.object = d.object /\ c.alert = d.alert
  BY <1>6, <1>7
<1>14. PruneTypeOK'
  BY <1>1, <1>2, <1>4, <1>5, <1>11, <1>12, <1>10, <1>13 DEF PruneInv, PruneTypeOK
<1>15. Keys'
  BY <1>2, <1>4, <1>5 DEF PruneInv, Keys
<1>16. \A o \in ops : \E p \in ops' : p.token = o.token
  BY <1>2, <1>5, Zenon
<1>17. References'
  BY <1>1, <1>11, <1>12, <1>13, <1>16 DEF PruneInv, References
<1>18. QED
  BY <1>14, <1>15, <1>17, Zenon DEF PruneInv

\* A snapshot entry appears.
LEMMA SnapshotEntryInv == ASSUME PruneInv, SnapshotEntry PROVE PruneInv'
<1>1. PICK e \in Entry, active \in BOOLEAN :
        entries' = {row \in entries : row.id # e} \cup
            {[id |-> e, active |-> active,
              old |-> ~active /\ \E row \in entries : row.id = e /\ row.old]}
  BY Zenon DEF SnapshotEntry
<1> DEFINE wasOld == ~active /\ \E row \in entries : row.id = e /\ row.old
<1>2. wasOld \in BOOLEAN
  BY Zenon
<1> HIDE DEF wasOld
<1>3. [id |-> e, active |-> active, old |-> wasOld] \in
        [id: Entry, active: BOOLEAN, old: BOOLEAN]
  BY <1>2, Zenon
<1>4. entries' \subseteq [id: Entry, active: BOOLEAN, old: BOOLEAN]
  BY <1>1, <1>3, Zenon DEF PruneInv, PruneTypeOK, wasOld
<1>5. QED
  BY <1>4, UnrelatedKeeps, Zenon DEF SnapshotEntry, PruneInv, PruneTypeOK, Keys

\* A Run begins.
LEMMA BeginSyncRunInv == ASSUME PruneInv, BeginSyncRun PROVE PruneInv'
<1>1. PICK id \in 1..MaxRuns :
        /\ \A r \in runs : r.id < id
        /\ runs' = runs \cup {[id |-> id, status |-> "running", old |-> FALSE]}
  BY Zenon DEF BeginSyncRun
<1> DEFINE new == [id |-> id, status |-> "running", old |-> FALSE]
<1>2. /\ new \in [id: 1..MaxRuns, status: Terminal \cup {"running"}, old: BOOLEAN]
      /\ new.id = id
  BY Zenon
<1>3. runs' = runs \cup {new}
  BY <1>1, Zenon
<1> HIDE DEF new
<1>4. \A r \in runs : r.id # id
  BY <1>1, PruneAssumption DEF PruneInv, PruneTypeOK
<1>5. runs' \subseteq [id: 1..MaxRuns, status: Terminal \cup {"running"}, old: BOOLEAN]
  BY <1>2, <1>3, Zenon DEF PruneInv, PruneTypeOK
<1>6. \A r, s \in runs' : r.id = s.id => r = s
  BY <1>2, <1>3, <1>4, Zenon DEF PruneInv, Keys
<1>7. QED
  BY <1>5, <1>6, UnrelatedKeeps, Zenon DEF BeginSyncRun, PruneInv, PruneTypeOK

\* A Run ends.
LEMMA EndSyncRunInv == ASSUME PruneInv, EndSyncRun PROVE PruneInv'
<1>1. PICK r \in runs, status \in Terminal :
        runs' = (runs \ {r}) \cup {[r EXCEPT !.status = status]}
  BY Zenon DEF EndSyncRun
<1> DEFINE new == [r EXCEPT !.status = status]
<1>2. /\ new \in [id: 1..MaxRuns, status: Terminal \cup {"running"}, old: BOOLEAN]
      /\ new.id = r.id
  BY Zenon DEF PruneInv, PruneTypeOK
<1>3. runs' = (runs \ {r}) \cup {new}
  BY <1>1, Zenon
<1> HIDE DEF new
<1>4. runs' \subseteq [id: 1..MaxRuns, status: Terminal \cup {"running"}, old: BOOLEAN]
  BY <1>2, <1>3, Zenon DEF PruneInv, PruneTypeOK
<1>5. \A s, u \in runs' : s.id = u.id => s = u
  BY <1>2, <1>3 DEF PruneInv, Keys
<1>6. QED
  BY <1>4, <1>5, UnrelatedKeeps, Zenon DEF EndSyncRun, PruneInv, PruneTypeOK

\* Every step keeps the keys and the references.
LEMMA PruneNextInv == PruneInv /\ [PruneNext]_tables => PruneInv'
<1> SUFFICES ASSUME PruneInv, [PruneNext]_tables PROVE PruneInv'
  BY Zenon
<1>1. CASE Bootstrap \/ PruneCLI
  BY <1>1, PruneHistoryInv, Zenon DEF Bootstrap, PruneCLI
<1>2. CASE CompleteOperation
  BY <1>2, StatusKeeps, Zenon DEF CompleteOperation
<1>3. CASE SetOperationStatus
  BY <1>3, StatusKeeps, Zenon DEF SetOperationStatus, Open
<1>4. CASE UNCHANGED tables
  BY <1>4, Zenon DEF tables, PruneInv, PruneTypeOK, Keys, References
<1>5. QED
  BY <1>1, <1>2, <1>3, <1>4, ApplyEnforcementPlanInv, BeginOperationInv,
     RecordVerifiedInv, MarkExpiredInv, SnapshotEntryInv, BeginSyncRunInv,
     EndSyncRunInv, AgeInv, Zenon DEF PruneNext

\* The keys and the references always hold.
LEMMA PruneInvariant == PruneSpec => []PruneInv
BY PruneInitInv, PruneNextInv, PTL DEF PruneSpec

-----------------------------------------------------------------------------

\* Foreign keys hold for any rows, any sequence of the reconciler's and the
\* jobs' transactions and pruning at any moment: the DELETEs of PruneHistory
\* never meet ON DELETE RESTRICT.
THEOREM ReferencesThm == PruneSpec => []References
BY PruneInvariant, PTL DEF PruneInv

\* The items that ON DELETE CASCADE leaves are those the plan expects to remain.
LEMMA CascadeAsPlanned == ASSUME PruneInv, PruneHistory PROVE items' = RemainingItems
<1>1. ASSUME NEW i \in items PROVE i \in items' <=> i \in RemainingItems
  <2>1. PICK o \in ops : o.token = i.token
    BY Zenon DEF PruneInv, References
  <2>2. \A p \in ops : p.token = i.token => p = o
    BY <2>1, Zenon DEF PruneInv, Keys
  <2>3. i \in items' <=> o \notin OldOps
    BY <2>1, <2>2, Zenon DEF PruneHistory
  <2>4. i \in RemainingItems <=> o \notin OldOps
    BY <2>1, <2>2, Zenon DEF RemainingItems, OldOps
  <2>5. QED
    BY <2>3, <2>4, Zenon
<1>2. QED
  BY <1>1, Zenon DEF PruneHistory, RemainingItems

\* What PruneHistory takes, as sets of the state before.
LEMMA Taken ==
    ASSUME PruneInv, PruneHistory
    PROVE  /\ items' = RemainingItems
           /\ decisions' = decisions \ PlanDecisions
           /\ alerts' = alerts \ PlanAlerts
           /\ objects' = objects \ PlanObjects
<1>1. items' = RemainingItems
  BY CascadeAsPlanned, Zenon
<1>2. DeletedDecisions(items') = PlanDecisions
  BY <1>1, Zenon DEF DeletedDecisions, PlanDecisions
<1>3. decisions' = decisions \ PlanDecisions
  BY <1>2, Zenon DEF PruneHistory
<1>4. alerts' = alerts \ PlanAlerts
  BY <1>3, Zenon DEF PruneHistory, DeletedAlerts, PlanAlerts
<1>5. objects' = objects \ PlanObjects
  BY <1>1, <1>3, Zenon DEF PruneHistory, DeletedObjects, PlanObjects
<1>6. QED
  BY <1>1, <1>3, <1>4, <1>5, Zenon

\* PlanPruneHistory and PruneHistory agree for any tables: one computes all sets
\* from one state, the other deletes statement by statement with cascades.
THEOREM PlanAgreesThm == PruneSpec => PlanAgrees
<1>1. PruneInv => [PruneHistory => /\ decisions \ decisions' = PlanDecisions
                                   /\ alerts \ alerts' = PlanAlerts
                                   /\ objects \ objects' = PlanObjects]_tables
  BY Taken, Zenon DEF PlanDecisions, PlanAlerts, PlanObjects
<1>2. QED
  BY <1>1, PruneInvariant, PTL DEF PlanAgrees

\* PruneHistory takes nothing that is current, for any tables.
THEOREM PreservesCurrentThm == PruneSpec => PreservesCurrent
<1> DEFINE Preserved ==
        /\ \A o \in ops : o.status \in Open => o \in ops'
        /\ \A i \in items, o \in ops :
              o.token = i.token /\ o.status \in Open =>
                /\ i \in items'
                /\ \A d \in decisions : d.id = i.replaces => d \in decisions'
                /\ \A e \in objects : e.id = i.object => e \in objects'
        /\ \A d \in decisions : d.status # "expired" =>
              /\ d \in decisions'
              /\ \A e \in objects : e.id = d.object => e \in objects'
        /\ \A e \in objects : e.desired => e \in objects'
<1>1. ASSUME PruneInv, PruneHistory PROVE Preserved
  <2>1. /\ items' = RemainingItems /\ decisions' = decisions \ PlanDecisions
        /\ objects' = objects \ PlanObjects
    BY <1>1, Taken, Zenon
  <2>2. \A o \in ops : o.status \in Open => o \in ops'
    BY <1>1, Zenon DEF PruneHistory, OldOps, Open
  <2>3. ASSUME NEW i \in items, NEW o \in ops, o.token = i.token, o.status \in Open
        PROVE  /\ i \in items'
               /\ \A d \in decisions : d.id = i.replaces => d \in decisions'
               /\ \A e \in objects : e.id = i.object => e \in objects'
    <3>1. i \in items'
      BY <1>1, <2>2, <2>3, Zenon DEF PruneHistory
    <3>2. QED
      BY <2>1, <3>1, Zenon DEF PlanDecisions, PlanObjects
  <2>4. ASSUME NEW d \in decisions, d.status # "expired"
        PROVE  /\ d \in decisions'
               /\ \A e \in objects : e.id = d.object => e \in objects'
    BY <2>1, <2>4, Zenon DEF PlanDecisions, PlanObjects
  <2>5. \A e \in objects : e.desired => e \in objects'
    BY <2>1, Zenon DEF PlanObjects
  <2>6. QED
    BY <2>2, <2>3, <2>4, <2>5, Zenon
<1>2. PruneInv => [PruneHistory => Preserved]_tables
  BY <1>1, Zenon
<1>3. QED
  BY <1>2, PruneInvariant, PTL DEF PreservesCurrent

-----------------------------------------------------------------------------

\* A nonempty set of rows with natural ids has one with the least id.
LEMMA Oldest ==
    ASSUME NEW S, S # {}, \A r \in S : r.id \in Nat
    PROVE  \E r \in S : \A s \in S : r.id <= s.id
<1> DEFINE ids == {r.id : r \in S}
<1>1. IsWellFoundedOn(OpToRel(<, Nat), Nat)
  BY NatLessThanWellFounded, Zenon
<1>2. ids \subseteq Nat /\ ids # {}
  BY Zenon
<1>3. PICK n \in ids : \A m \in ids : ~(<<m, n>> \in OpToRel(<, Nat))
  BY <1>1, <1>2, WFMin, Zenon
<1>4. \A m \in ids : ~(m < n)
  BY <1>2, <1>3, Zenon DEF OpToRel
<1>5. PICK r \in S : r.id = n
  BY Zenon
<1>6. \A s \in S : s.id \in ids
  BY Zenon
<1> HIDE DEF ids
<1>7. QED
  BY <1>2, <1>4, <1>5, <1>6

\* ORDER BY id DESC LIMIT n: of finitely many rows with different ids those with
\* fewer than n newer ones are at most n.
LEMMA LimitBounds ==
    ASSUME NEW T, IsFiniteSet(T), NEW n \in Nat \ {0}, \A r \in T : r.id \in Nat,
           \A r, s \in T : r.id = s.id => r = s
    PROVE  Cardinality({r \in T : Cardinality({s \in T : s.id > r.id}) < n}) <= n
<1> DEFINE newer(r) == {s \in T : s.id > r.id}
           kept == {r \in T : Cardinality(newer(r)) < n}
<1>1. CASE kept = {}
  <2>1. Cardinality(kept) = 0
    BY <1>1, FS_EmptySet, Zenon
  <2> HIDE DEF kept
  <2>2. Cardinality(kept) <= n
    BY <2>1
  <2>3. QED
    BY <2>2, Zenon DEF kept
<1>2. CASE kept # {}
  <2>1. PICK r \in kept : \A s \in kept : r.id <= s.id
    BY <1>2, Oldest, Zenon
  <2>2. IsFiniteSet(kept) /\ IsFiniteSet(newer(r))
    BY FS_Subset, Zenon
  <2>3. kept \ {r} \in SUBSET newer(r)
    BY <2>1
  <2>4. /\ Cardinality(kept \ {r}) = Cardinality(kept) - 1
        /\ IsFiniteSet(kept \ {r})
    BY <2>1, <2>2, FS_RemoveElement, Zenon
  <2>5. Cardinality(kept \ {r}) <= Cardinality(newer(r))
    BY <2>2, <2>3, FS_Subset, Zenon
  <2>6. Cardinality(newer(r)) < n
    BY <2>1, Zenon
  <2>7. Cardinality(kept) \in Nat /\ Cardinality(newer(r)) \in Nat
    BY <2>2, FS_CardinalityType, Zenon
  <2> HIDE DEF kept, newer
  <2>8. Cardinality(kept) <= n
    BY <2>4, <2>5, <2>6, <2>7
  <2>9. QED
    BY <2>8, Zenon DEF kept, newer
<1>3. QED
  BY <1>1, <1>2, Zenon

\* Ids are numbered up to MaxRuns, so there are finitely many Runs.
LEMMA RunsFinite == ASSUME PruneInv PROVE IsFiniteSet(TerminalRuns)
<1> DEFINE id == [r \in TerminalRuns |-> r.id]
<1>1. id \in Injection(TerminalRuns, 1..MaxRuns)
  BY Zenon DEF PruneInv, PruneTypeOK, Keys, TerminalRuns, Injection, IsInjective
<1>2. IsFiniteSet(1..MaxRuns)
  BY PruneAssumption, FS_Interval
<1>3. QED
  BY <1>1, <1>2, FS_Injection, Zenon

\* Whatever the tables hold, PruneHistory leaves at most MaxHistoryEntries
\* finished Runs, none old, takes no young one that belongs to the newest, and
\* leaves running Runs and active entries alone.
THEOREM HistoryBoundedThm == PruneSpec => HistoryBounded
<1> DEFINE after == {r \in runs' : r.status \in Terminal}
           Bounded ==
            /\ Cardinality(after) <= MaxHistoryEntries
            /\ \A r \in after : ~r.old
            /\ \A r \in TerminalRuns \ after :
                  r.old \/ Cardinality({s \in TerminalRuns : s.id > r.id})
                                >= MaxHistoryEntries
            /\ \A r \in runs : r.status = "running" => r \in runs'
            /\ \A e \in entries : e.active => e \in entries'
<1>1. ASSUME PruneInv, PruneHistory PROVE Bounded
  <2>1. runs' = runs \ OldRuns /\ entries' = entries \ OldEntries
    BY <1>1, Zenon DEF PruneHistory
  <2>2. after = {r \in KeptRuns : ~r.old}
    BY <2>1, Zenon DEF OldRuns, TerminalRuns, KeptRuns
  <2>3. IsFiniteSet(TerminalRuns) /\ KeptRuns \in SUBSET TerminalRuns
    BY <1>1, RunsFinite, Zenon DEF KeptRuns
  <2>4. IsFiniteSet(KeptRuns) /\ Cardinality(KeptRuns) <= MaxHistoryEntries
    <3>1. \A r \in TerminalRuns : r.id \in Nat
      BY <1>1, PruneAssumption DEF PruneInv, PruneTypeOK, TerminalRuns
    <3>2. \A r, s \in TerminalRuns : r.id = s.id => r = s
      BY <1>1, Zenon DEF PruneInv, Keys, TerminalRuns
    <3>3. QED
      BY <2>3, <3>1, <3>2, LimitBounds, FS_Subset, PruneAssumption, Zenon DEF KeptRuns
  <2>5. Cardinality(after) <= MaxHistoryEntries
    <3>1. after \in SUBSET KeptRuns
      BY <2>2, Zenon
    <3>2. Cardinality(after) <= Cardinality(KeptRuns) /\ IsFiniteSet(after)
      BY <2>4, <3>1, FS_Subset, Zenon
    <3>3. Cardinality(after) \in Nat /\ Cardinality(KeptRuns) \in Nat
      BY <2>4, <3>2, FS_CardinalityType, Zenon
    <3>4. QED
      BY <2>4, <3>2, <3>3, PruneAssumption
  <2>6. ASSUME NEW r \in TerminalRuns \ after
        PROVE  r.old \/ Cardinality({s \in TerminalRuns : s.id > r.id}) >= MaxHistoryEntries
    <3> DEFINE newer == {s \in TerminalRuns : s.id > r.id}
    <3>1. r.old \/ ~(Cardinality(newer) < MaxHistoryEntries)
      BY <2>2, <2>6, Zenon DEF KeptRuns
    <3>2. Cardinality(newer) \in Nat
      BY <2>3, FS_Subset, FS_CardinalityType, Zenon
    <3>3. QED
      BY <3>1, <3>2, PruneAssumption
  <2>7. \A r \in runs : r.status = "running" => r \in runs'
    BY <2>1, Zenon DEF OldRuns, TerminalRuns, Terminal
  <2>8. \A e \in entries : e.active => e \in entries'
    BY <2>1, Zenon DEF OldEntries
  <2>9. QED
    BY <2>2, <2>5, <2>6, <2>7, <2>8, Zenon
<1>2. PruneInv => [PruneHistory => Bounded]_tables
  BY <1>1, Zenon
<1>3. QED
  BY <1>2, PruneInvariant, PTL DEF HistoryBounded
=============================================================================
