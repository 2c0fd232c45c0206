--------------------------- MODULE SchemaMigration ---------------------------
(***************************************************************************)
(* initialize_database: the tables of a new hub, or the migration of those *)
(* an older hub left, statement by statement, with a crash between any two *)
(* of them and another start after it.                                     *)
(*                                                                         *)
(* sqlite3's legacy mode decides what a crash undoes: a statement that     *)
(* changes the schema commits by itself unless a transaction is open, and  *)
(* only one that changes rows opens one. The rebuild opens its own.        *)
(***************************************************************************)
EXTENDS Naturals, Sequences, SequencesExt, FiniteSets

CONSTANTS
    Versions,   \* versions of the database found at the first start; 0: none
    Top,        \* the highest event id that still has a row
    Mark        \* the highest event id ever given

ASSUME MigrationAssumption ==
    /\ Versions \subseteq 0..12
    /\ Top \in Nat /\ Mark \in Nat /\ Top <= Mark

SchemaVersion == 12
Tables == <<"agent", "task", "event", "decision">>

VARIABLES
    disk,    \* the database a crash leaves
    mem,     \* the database the connection sees
    txn,     \* a transaction is open
    added,   \* columns this start has added
    high,    \* the sequence mark the rebuild has read
    migAt    \* the next statement, an index of Plan; 0: none

migrationVars == <<disk, mem, txn, added, high, migAt>>

(* The columns the steps add, fill or drop.                                 *)
Columns == {"harness", "last_heartbeat", "lease_duration_s", "state", "later",
            "runtime", "consumed"}

(* Columns that older versions lack ("later" stands for all that came with  *)
(* no value to carry: the decision key, the head, the source event, the     *)
(* declared model, the peer addresses), and two that newer ones dropped.    *)
ColumnsOf(v) ==
    {c \in {"harness", "last_heartbeat", "lease_duration_s", "state", "later"} :
        v >= CASE c = "harness" -> 3
               [] c \in {"last_heartbeat", "lease_duration_s"} -> 5
               [] c = "state" -> 6
               [] c = "later" -> 12}
    \cup (IF v = 2 THEN {"runtime"} ELSE {})
    \cup (IF v < 6 THEN {"consumed"} ELSE {})

Holder(c) == CASE c = "lease_duration_s" -> {"task"} [] c = "state" -> {"event"}
               [] c = "later" -> {"agent", "task", "decision"} [] OTHER -> {"agent"}

(* A database of version v as its hub left it; a column it has needs no     *)
(* value carried. schema: how many of a new database's tables are made.     *)
Database(v) ==
    [version |-> v,
     schema |-> IF v = 0 THEN 0 ELSE Len(Tables),
     cols |-> IF v = 0 THEN ColumnsOf(12) ELSE ColumnsOf(v),
     carried |-> (IF v = 0 THEN ColumnsOf(12) ELSE ColumnsOf(v))
                 \cup (IF v = 1 THEN {"harness"} ELSE {}),
     drifted |-> IF v \in 1..7 THEN Range(Tables) ELSE {},
     rows |-> [t \in Range(Tables) |-> "home"],
     mark |-> IF v = 0 THEN 0 ELSE Mark]

MigrationInit ==
    /\ \E v \in Versions : disk = Database(v) /\ mem = Database(v)
    /\ txn = FALSE
    /\ added = {}
    /\ high = 0
    /\ migAt = 0

----------------------------------------------------------------------------
(* The statements *)

S(do, of) == [do |-> do, of |-> of]

(* The order of initialize_database: the steps that alter, then each table  *)
(* made anew in its declared shape, then the stamp.                         *)
Plan ==
    <<S("version", "all"),
      S("add", "harness"), S("carry", "harness"), S("drop", "runtime"),
      S("add", "last_heartbeat"), S("carry", "last_heartbeat"),
      S("add", "lease_duration_s"), S("carry", "lease_duration_s"),
      S("add", "state"), S("carry", "state"), S("drop", "consumed"),
      S("add", "later"), S("commit", "all"),
      S("begin", "all"),
      S("rename", "agent"), S("create", "agent"), S("copy", "agent"), S("remove", "agent"),
      S("rename", "task"), S("create", "task"), S("copy", "task"), S("remove", "task"),
      S("rename", "event"), S("create", "event"), S("copy", "event"), S("remove", "event"),
      S("rename", "decision"), S("create", "decision"), S("copy", "decision"),
      S("remove", "decision"),
      S("commit", "all"), S("stamp", "all")>>

Forward(n) == migAt' = migAt + n

Doing(do, of) == migAt \in DOMAIN Plan /\ Plan[migAt] = S(do, of)

(* A statement on the schema, and one on rows.                              *)
Schema(d) ==
    /\ mem' = d
    /\ disk' = IF txn THEN disk ELSE d
    /\ UNCHANGED txn

Rows(d) ==
    /\ mem' = d
    /\ txn' = TRUE
    /\ UNCHANGED disk

(* The database is current, newer than this hub, new, or to be migrated.    *)
ReadVersion ==
    /\ Doing("version", "all")
    /\ mem.version <= SchemaVersion
    /\ IF mem.version = SchemaVersion THEN migAt' = Len(Plan) + 1
       ELSE IF mem.version = 0 THEN migAt' = Len(Plan) ELSE Forward(1)
    /\ UNCHANGED <<disk, mem, txn, added, high>>

(* executescript commits every statement of SCHEMA by itself; a table that  *)
(* is there is passed over.                                                 *)
CreateSchema ==
    /\ Doing("stamp", "all")
    /\ mem.schema < Len(Tables)
    /\ Schema([mem EXCEPT !.schema = @ + 1])
    /\ UNCHANGED <<added, high, migAt>>

(* ALTER TABLE ADD COLUMN when the column is not there; the table no longer *)
(* has the shape SCHEMA declares.                                           *)
AddColumn(c) ==
    /\ Doing("add", c)
    /\ IF c \in mem.cols
       THEN UNCHANGED <<disk, mem, txn, added>>
       ELSE /\ Schema([mem EXCEPT !.cols = @ \cup {c}, !.drifted = @ \cup Holder(c)])
            /\ added' = added \cup {c}
    /\ Forward(1)
    /\ UNCHANGED high

(* The UPDATE that fills a new column: runtime and consumed are still there *)
(* to tell that it is due, the others are filled only by the start that     *)
(* added them.                                                              *)
CarryDue(c) ==
    CASE c = "harness" -> "runtime" \in mem.cols
      [] c = "state" -> "consumed" \in mem.cols
      [] OTHER -> c \in added

CarryValues(c) ==
    /\ Doing("carry", c)
    /\ IF CarryDue(c)
       THEN Rows([mem EXCEPT !.carried = @ \cup {c}])
       ELSE UNCHANGED <<disk, mem, txn>>
    /\ Forward(1)
    /\ UNCHANGED <<added, high>>

DropColumn(c) ==
    /\ Doing("drop", c)
    /\ IF c \in mem.cols
       THEN Schema([mem EXCEPT !.cols = @ \ {c}])
       ELSE UNCHANGED <<disk, mem, txn>>
    /\ Forward(1)
    /\ UNCHANGED <<added, high>>

Commit ==
    /\ Doing("commit", "all")
    /\ disk' = mem
    /\ txn' = FALSE
    /\ Forward(1)
    /\ UNCHANGED <<mem, added, high>>

(* Fault: the transaction of the rebuild is left to sqlite3's legacy mode.  *)
BeginRebuild_Legacy ==
    /\ Doing("begin", "all")
    /\ Forward(1)
    /\ UNCHANGED <<disk, mem, txn, added, high>>

(* isolation_level None, BEGIN IMMEDIATE.                                   *)
BeginRebuild ==
    /\ Doing("begin", "all")
    /\ txn' = TRUE
    /\ Forward(1)
    /\ UNCHANGED <<disk, mem, added, high>>

(* A table in its declared shape, or not there at all, is passed over.      *)
RenameTable(t) ==
    /\ Doing("rename", t)
    /\ IF t \notin mem.drifted \/ mem.rows[t] = "aside"
       THEN Forward(4) /\ UNCHANGED <<disk, mem, txn, high>>
       ELSE /\ Schema([mem EXCEPT !.rows[t] = "aside"])
            /\ high' = mem.mark
            /\ Forward(1)
    /\ UNCHANGED added

CreateTable(t) ==
    /\ Doing("create", t)
    /\ Schema([mem EXCEPT !.drifted = @ \ {t}])
    /\ Forward(1)
    /\ UNCHANGED <<added, high>>

(* The new table's mark is that of the rows copied into it.                 *)
CopyRows(t) ==
    /\ Doing("copy", t)
    /\ Rows([mem EXCEPT !.rows[t] = "home", !.mark = IF t = "event" THEN Top ELSE @])
    /\ Forward(1)
    /\ UNCHANGED <<added, high>>

(* Fault: the sequence mark is not restored.                                *)
RemoveOld_MarkLost(t) ==
    /\ Doing("remove", t)
    /\ Forward(1)
    /\ UNCHANGED <<disk, mem, txn, added, high>>

(* The old table goes, and the mark it had is given to the new one.         *)
RemoveOld(t) ==
    /\ Doing("remove", t)
    /\ Rows([mem EXCEPT !.mark = IF t = "event" /\ @ < high THEN high ELSE @])
    /\ Forward(1)
    /\ UNCHANGED <<added, high>>

(* A PRAGMA outside a transaction commits by itself.                        *)
Stamp ==
    /\ Doing("stamp", "all")
    /\ mem.schema = Len(Tables)
    /\ Schema([mem EXCEPT !.version = SchemaVersion])
    /\ Forward(1)
    /\ UNCHANGED <<added, high>>

MigrationNext ==
    \/ ReadVersion \/ CreateSchema \/ Commit \/ BeginRebuild \/ Stamp
    \/ \E c \in Columns :
          AddColumn(c) \/ CarryValues(c) \/ DropColumn(c)
    \/ \E t \in Range(Tables) :
          RenameTable(t) \/ CreateTable(t) \/ CopyRows(t) \/ RemoveOld(t)

(* initialize_database has returned.                                        *)
DatabaseReady == migAt = Len(Plan) + 1

----------------------------------------------------------------------------
(* Properties *)

(* Every variable holds a value of its type.                                *)
MigrationTypeOK ==
    /\ disk.version \in 0..SchemaVersion /\ mem.version \in 0..SchemaVersion
    /\ disk.drifted \subseteq Range(Tables) /\ mem.drifted \subseteq Range(Tables)
    /\ disk.mark \in Nat /\ mem.mark \in Nat
    /\ txn \in BOOLEAN
    /\ high \in Nat
    /\ migAt \in 0..Len(Plan) + 1

(* A database that claims to be current is: wherever earlier starts died,   *)
(* it has every table in its declared shape with all its rows under its own *)
(* name, neither of the columns that were dropped, the harness a recorded   *)
(* runtime named and the events a consumed flag marked ("a failed rebuild   *)
(* leaves a database that the next run migrates again rather than one that  *)
(* claims to be current", database.py, initialize_database).                *)
CurrentIsWhole ==
    disk.version = SchemaVersion =>
        /\ disk.schema = Len(Tables)
        /\ disk.cols = ColumnsOf(SchemaVersion)
        /\ disk.drifted = {}
        /\ \A t \in Range(Tables) : disk.rows[t] = "home"
        /\ {"harness", "state"} \subseteq disk.carried

(* "Each step inspects the table rather than trusting the version number,   *)
(* so it is safe to re-run" (database.py, initialize_database): a start     *)
(* after one that died ends where one start would have.                     *)
RerunCarriesValues ==
    disk.version = SchemaVersion => {"last_heartbeat", "lease_duration_s"} \subseteq disk.carried

=============================================================================
