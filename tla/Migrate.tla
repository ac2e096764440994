------------------------------ MODULE Migrate -------------------------------
(***************************************************************************)
(* internal/state: opening the database.  Open migrates it in one SQLite   *)
(* transaction, OpenReadOnly only verifies it.  The daemon and the CLI,    *)
(* possibly of different releases, open the same file.  A release is the   *)
(* sequence of its migrations' checksums; a checksum stands for the SQL    *)
(* it is the checksum of, so the schema is the sequence of SQL executed.   *)
(***************************************************************************)
EXTENDS Integers, Sequences

CONSTANTS Process, Checksum, Release

\* validateMigrations: versions count from one, and there is at least one.
ASSUME ReleaseAssumption == Release \subseteq Seq(Checksum) \ {<<>>}

VARIABLES
    db,     \* the committed file: rows of schema_migrations, schema
    tx      \* of each process: what it does, its items and its transaction
mvars == <<db, tx>>

\* s is a prefix of t.
Begins(s, t) == Len(s) <= Len(t) /\ \A i \in 1 .. Len(s) : s[i] = t[i]

Empty == [rows |-> <<>>, schema |-> <<>>]
Closed == [phase |-> "closed", items |-> <<>>, base |-> Empty, local |-> Empty,
           wrote |-> FALSE, at |-> 1]

MigrateInit == db = Empty /\ tx = [p \in Process |-> Closed]

-----------------------------------------------------------------------------
(* SQLite: a transaction reads the snapshot of its first statement; it     *)
(* becomes the one writer only if that snapshot is still the latest.       *)

MayWrite(p) ==
    \/ tx[p].wrote
    \/ tx[p].base = db /\ \A q \in Process \ {p} : ~tx[q].wrote

-----------------------------------------------------------------------------
(* Migrate.                                                                *)

\* BeginTx and CREATE TABLE IF NOT EXISTS: a write if there is no table yet.
Begin(p) ==
    /\ tx[p].phase = "closed"
    /\ db = Empty => \A q \in Process : ~tx[q].wrote
    /\ \E items \in Release :
        tx' = [tx EXCEPT ![p] = [Closed EXCEPT
                  !.phase = "begun", !.items = items, !.base = db, !.local = db,
                  !.wrote = db = Empty]]
    /\ UNCHANGED db

\* Faulty: a version the release does not have is let through.
AgreesOlder(items, rows) ==
    \A v \in DOMAIN rows : v \in DOMAIN items => items[v] = rows[v]

\* Every row is a version of this release with its checksum.
Agrees(items, rows) ==
    \A v \in DOMAIN rows : v \in DOMAIN items /\ items[v] = rows[v]

Rolled(p) == tx' = [tx EXCEPT ![p] = Closed] /\ UNCHANGED db

Verify(p) ==
    /\ tx[p].phase = "begun"
    /\ Agrees(tx[p].items, tx[p].base.rows)
    /\ tx' = [tx EXCEPT ![p].phase = "apply"]
    /\ UNCHANGED db

Refuse(p) ==
    /\ tx[p].phase = "begun"
    /\ ~Agrees(tx[p].items, tx[p].base.rows)
    /\ Rolled(p)

AtItem(p) == tx[p].phase = "apply" /\ tx[p].at <= Len(tx[p].items)

Exists(p) == tx[p].at \in DOMAIN tx[p].base.rows

Skip(p) ==
    /\ AtItem(p) /\ Exists(p)
    /\ tx' = [tx EXCEPT ![p].at = @ + 1]
    /\ UNCHANGED db

Executed(p) ==
    LET sql == tx[p].items[tx[p].at]
    IN  [rows   |-> Append(tx[p].local.rows, sql),
         schema |-> Append(tx[p].local.schema, sql)]

\* Faulty: the statement runs outside the transaction.
ApplyDirectly(p) ==
    /\ AtItem(p) /\ ~Exists(p) /\ MayWrite(p)
    /\ tx' = [tx EXCEPT ![p].local = Executed(p), ![p].wrote = TRUE,
                        ![p].at = @ + 1]
    /\ db' = [db EXCEPT !.schema = Executed(p).schema]

\* Faulty: each migration is committed on its own.
ApplyAndCommit(p) ==
    /\ AtItem(p) /\ ~Exists(p) /\ MayWrite(p)
    /\ tx' = [tx EXCEPT ![p].local = Executed(p), ![p].wrote = TRUE,
                        ![p].at = @ + 1]
    /\ db' = Executed(p)

Apply(p) ==
    /\ AtItem(p) /\ ~Exists(p) /\ MayWrite(p)
    /\ tx' = [tx EXCEPT ![p].local = Executed(p), ![p].wrote = TRUE,
                        ![p].at = @ + 1]
    /\ UNCHANGED db

Commit(p) ==
    /\ tx[p].phase = "apply" /\ tx[p].at > Len(tx[p].items)
    /\ db' = IF tx[p].wrote THEN tx[p].local ELSE db
    /\ tx' = [tx EXCEPT ![p] = [Closed EXCEPT !.phase = "open", !.items = tx[p].items]]

\* A failed statement, a busy or outdated snapshot, or the end of the process.
Rollback(p) == tx[p].phase \in {"begun", "apply"} /\ Rolled(p)

-----------------------------------------------------------------------------
(* OpenReadOnly and Close.                                                 *)

\* Faulty: rows missing at the end are not noticed.
verifyReadOnlyMigrationsShort(items, rows) == Begins(rows, items)

verifyReadOnlyMigrations(items, rows) == rows = items

OpenReadOnly(p) ==
    /\ tx[p].phase = "closed"
    /\ \E items \in Release :
        /\ verifyReadOnlyMigrations(items, db.rows)
        /\ tx' = [tx EXCEPT ![p] = [Closed EXCEPT !.phase = "open", !.items = items]]
    /\ UNCHANGED db

Close(p) == tx[p].phase = "open" /\ Rolled(p)

MigrateNext ==
    \E p \in Process :
        \/ Begin(p) \/ Verify(p) \/ Refuse(p) \/ Skip(p) \/ Apply(p)
        \/ Commit(p) \/ Rollback(p) \/ OpenReadOnly(p) \/ Close(p)

MigrateSpec == MigrateInit /\ [][MigrateNext]_mvars

-----------------------------------------------------------------------------
(* Properties.                                                             *)

\* What schema_migrations records is exactly what was executed, each migration
\* once and in order, whatever fails in between and whoever migrates as well.
RecordedIsExecuted == db.schema = db.rows

Opened == [p \in Process |-> IF tx[p].phase = "open" THEN tx[p].items ELSE <<>>]

History == INSTANCE SchemaHistory WITH history <- db.rows, opened <- Opened

\* Migrate implements SchemaHistory: nobody ever sees part of a release's
\* migrations (a failure undoes the batch), no migration is undone or replaced,
\* and the file changes only in the step that gives a process its store.
ImplementsHistory == History!HistorySpec

\* A store is handed out only over the schema of the caller's own release, unless
\* another process upgraded the file while Open was in its transaction: Migrate
\* then commits what it read before.
OpensItsOwn ==
    [][\A p \in Process : tx'[p].phase = "open" /\ tx[p].phase # "open" =>
          \/ db'.rows = tx'[p].items
          \/ tx[p].phase = "apply" /\ tx[p].base # db]_mvars

\* An upgrade by another process only adds to what an open store relies on.
OpenStoreKeepsSchema ==
    \A p \in Process : tx[p].phase = "open" => Begins(tx[p].items, db.schema)
=============================================================================
