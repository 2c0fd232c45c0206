-------------------------- MODULE Supervision_proofs --------------------------
(***************************************************************************)
(* Theorems about SchemaMigration, HubProcess and Supervision for every    *)
(* set of versions found, any event ids, any number of events and any      *)
(* workers: wherever starts of the hub die, and whoever supervises them.   *)
(***************************************************************************)
EXTENDS Supervision, TLAPS

-------------------------------------------------------------------------------
(* The database *)

TableNames == {"agent", "task", "event", "decision"}

Current == {"harness", "last_heartbeat", "lease_duration_s", "state", "later"}

DatabaseType ==
    [version : 0..SchemaVersion, schema : 0..4, cols : SUBSET Columns,
     carried : SUBSET Columns, drifted : SUBSET TableNames,
     rows : [TableNames -> {"home", "aside"}], mark : Nat]

DatabaseTypeOK ==
    /\ disk \in DatabaseType /\ mem \in DatabaseType
    /\ txn \in BOOLEAN
    /\ added \subseteq Columns
    /\ high \in Nat
    /\ migAt \in 0..33

(* A database that is all there, whatever version it is said to have.       *)
Whole(d) ==
    /\ d.cols = Current
    /\ d.drifted = {}
    /\ {"harness", "state"} \subseteq d.carried

(* What every database satisfies, in a start and after its death: the old   *)
(* column goes only after its values went to the new one, a new database    *)
(* is made whole but for its tables, an old one has all of them, and a      *)
(* current one all.                                                         *)
Sound(d) ==
    /\ "harness" \in d.carried \/ "runtime" \in d.cols
    /\ "state" \in d.carried \/ "consumed" \in d.cols
    /\ d.version = 0 => Whole(d)
    /\ d.version # 0 => d.schema = 4
    /\ d.version = SchemaVersion => Whole(d)

DatabasesAreSound ==
    /\ Sound(disk) /\ Sound(mem)
    /\ disk.version = mem.version
    /\ disk.rows = [t \in TableNames |-> "home"]

(* What a crash would undo is only what an open transaction has done, and   *)
(* the tables are rebuilt in one.                                           *)
OnlyOpenIsUndone ==
    /\ ~txn => disk = mem
    /\ migAt \in 15..31 => txn
    /\ migAt \in {0, 1, 14, 32, 33} => ~txn

(* The statements from 2 to 31 migrate, and statement n is behind.          *)
Migrating == migAt \in 2..31
Behind(n) == Migrating /\ migAt > n

AlterationsAreMade ==
    /\ Migrating => mem.version \in 1..SchemaVersion - 1
    /\ Behind(2) => "harness" \in mem.cols
    /\ Behind(3) => "harness" \in mem.carried
    /\ Behind(4) => "runtime" \notin mem.cols
    /\ Behind(5) => "last_heartbeat" \in mem.cols
    /\ Behind(7) => "lease_duration_s" \in mem.cols
    /\ Behind(9) => "state" \in mem.cols
    /\ Behind(10) => "state" \in mem.carried
    /\ Behind(11) => "consumed" \notin mem.cols
    /\ Behind(12) => "later" \in mem.cols
    /\ migAt = 32 => Whole(mem)
    /\ migAt = 33 => mem.version = SchemaVersion

(* The statement that renames a table; the next three remake it.            *)
RenameAt(t) == CASE t = "agent" -> 15 [] t = "task" -> 19
                 [] t = "event" -> 23 [] t = "decision" -> 27

(* Only the table in hand is under another name, and one that was remade    *)
(* has its declared shape.                                                  *)
TablesAreRemade ==
    \A t \in TableNames :
        /\ mem.rows[t] = IF migAt \in {RenameAt(t) + 1, RenameAt(t) + 2}
                         THEN "aside" ELSE "home"
        /\ Behind(RenameAt(t) + 1) => t \notin mem.drifted

(* The next event id is new, but for the event table's rebuild between the  *)
(* copy of its rows and the removal of the old table, which no crash shows. *)
MarkIsKept ==
    /\ disk.mark = given
    /\ mem.mark = IF migAt = 26 THEN Top ELSE given
    /\ migAt \in 24..26 => high = given
    /\ disk.version \in 1..SchemaVersion - 1 => Top <= given

DatabaseInv ==
    /\ DatabaseTypeOK
    /\ DatabasesAreSound
    /\ OnlyOpenIsUndone
    /\ AlterationsAreMade
    /\ TablesAreRemade
    /\ MarkIsKept

-------------------------------------------------------------------------------
(* The process *)

ProcessTypeOK ==
    /\ proc \in {"down", "starting", "loading", "writing", "binding", "running"}
    /\ injected \in BOOLEAN
    /\ tokenFile \in {"absent", "empty", "written"}
    /\ sweeper \in BOOLEAN
    /\ http \in {"off", "on", "stopping", "stopped"}
    /\ mcp \in {"off", "on", "ended", "cancelled"}
    /\ session \in {"none", "open", "closed"}
    /\ initialized \in BOOLEAN
    /\ held \in BOOLEAN
    /\ given \in 0..(Mark + MaxEvents)

(* How far a process is in its start says what is ready, and what it has    *)
(* begun to do.                                                             *)
StartIsInOrder ==
    /\ proc \in {"down", "starting"} => migAt = 0
    /\ proc = "loading" => migAt # 0
    /\ proc \in {"writing", "binding", "running"} => migAt = 33
    /\ proc \in {"binding", "running"} => injected \/ tokenFile = "written"
    /\ sweeper => proc \in {"binding", "running"}
    /\ http # "off" => proc = "running"
    /\ mcp # "off" => http # "off"
    /\ proc = "down" <=> session = "none"

IInv ==
    /\ DatabaseInv
    /\ ProcessTypeOK
    /\ StartIsInOrder

-------------------------------------------------------------------------------
(* The plan, step by step *)

(* There are four tables, and 32 statements.                                *)
LEMMA PlanShape ==
  /\ Len(Tables) = 4 /\ Range(Tables) = TableNames
  /\ Len(Plan) = 32 /\ DOMAIN Plan = 1..32
<1>1. Len(Tables) = 4 /\ DOMAIN Tables = 1..4
  BY DEF Tables
<1>2. Range(Tables) = TableNames
  BY <1>1 DEF Tables, Range, TableNames
<1>3. Len(Plan) = 32 /\ DOMAIN Plan = 1..32
  BY DEF Plan
<1> QED
  BY <1>1, <1>2, <1>3

(* Where the rebuild of each table begins.                                  *)
LEMMA RenameSteps ==
  /\ RenameAt("agent") = 15 /\ RenameAt("task") = 19
  /\ RenameAt("event") = 23 /\ RenameAt("decision") = 27
  /\ \A t \in TableNames : RenameAt(t) \in {15, 19, 23, 27}
BY DEF RenameAt, TableNames

(* The place of every statement, as initialize_database orders them.        *)
OneOffSteps ==
    /\ Doing("version", "all") <=> migAt = 1
    /\ Doing("commit", "all") <=> migAt \in {13, 31}
    /\ Doing("begin", "all") <=> migAt = 14
    /\ Doing("stamp", "all") <=> migAt = 32

ColumnSteps ==
    \A c \in Columns :
        /\ Doing("add", c) <=>
              \/ c = "harness" /\ migAt = 2
              \/ c = "last_heartbeat" /\ migAt = 5
              \/ c = "lease_duration_s" /\ migAt = 7
              \/ c = "state" /\ migAt = 9
              \/ c = "later" /\ migAt = 12
        /\ Doing("carry", c) <=>
              \/ c = "harness" /\ migAt = 3
              \/ c = "last_heartbeat" /\ migAt = 6
              \/ c = "lease_duration_s" /\ migAt = 8
              \/ c = "state" /\ migAt = 10
        /\ Doing("drop", c) <=>
              \/ c = "runtime" /\ migAt = 4
              \/ c = "consumed" /\ migAt = 11

TableSteps ==
    \A t \in TableNames :
        /\ Doing("rename", t) <=> migAt = RenameAt(t)
        /\ Doing("create", t) <=> migAt = RenameAt(t) + 1
        /\ Doing("copy", t) <=> migAt = RenameAt(t) + 2
        /\ Doing("remove", t) <=> migAt = RenameAt(t) + 3

(* Each statement is at its place in the plan, and at no other.             *)
LEMMA PlanSteps == migAt \in 0..33 => OneOffSteps /\ ColumnSteps /\ TableSteps
<1> SUFFICES ASSUME migAt \in 0..33 PROVE OneOffSteps /\ ColumnSteps /\ TableSteps
  OBVIOUS
<1>1. /\ Plan[1] = S("version", "all") /\ Plan[2] = S("add", "harness")
      /\ Plan[3] = S("carry", "harness") /\ Plan[4] = S("drop", "runtime")
      /\ Plan[5] = S("add", "last_heartbeat") /\ Plan[6] = S("carry", "last_heartbeat")
      /\ Plan[7] = S("add", "lease_duration_s") /\ Plan[8] = S("carry", "lease_duration_s")
      /\ Plan[9] = S("add", "state") /\ Plan[10] = S("carry", "state")
      /\ Plan[11] = S("drop", "consumed") /\ Plan[12] = S("add", "later")
      /\ Plan[13] = S("commit", "all") /\ Plan[14] = S("begin", "all")
  BY DEF Plan
<1>2. /\ Plan[15] = S("rename", "agent") /\ Plan[16] = S("create", "agent")
      /\ Plan[17] = S("copy", "agent") /\ Plan[18] = S("remove", "agent")
      /\ Plan[19] = S("rename", "task") /\ Plan[20] = S("create", "task")
      /\ Plan[21] = S("copy", "task") /\ Plan[22] = S("remove", "task")
      /\ Plan[23] = S("rename", "event") /\ Plan[24] = S("create", "event")
      /\ Plan[25] = S("copy", "event") /\ Plan[26] = S("remove", "event")
      /\ Plan[27] = S("rename", "decision") /\ Plan[28] = S("create", "decision")
      /\ Plan[29] = S("copy", "decision") /\ Plan[30] = S("remove", "decision")
      /\ Plan[31] = S("commit", "all") /\ Plan[32] = S("stamp", "all")
  BY DEF Plan
<1>3. \A do, of, eo, fo : S(do, of) = S(eo, fo) <=> do = eo /\ of = fo
  BY DEF S
<1>4. \A do, of : Doing(do, of) <=> migAt \in 1..32 /\ Plan[migAt] = S(do, of)
  BY PlanShape DEF Doing
<1>5. migAt \in 1..32 =>
        migAt \in {1, 2, 3, 4, 5, 6, 7, 8, 9, 10, 11, 12, 13, 14, 15, 16,
                     17, 18, 19, 20, 21, 22, 23, 24, 25, 26, 27, 28, 29, 30, 31, 32}
  OBVIOUS
<1>6. OneOffSteps
  BY <1>1, <1>2, <1>3, <1>4, <1>5 DEF OneOffSteps
<1>7. ColumnSteps
  BY <1>1, <1>2, <1>3, <1>4, <1>5 DEF ColumnSteps, Columns
<1>8. TableSteps
  BY <1>1, <1>2, <1>3, <1>4, <1>5, RenameSteps DEF TableSteps, TableNames
<1> QED
  BY <1>6, <1>7, <1>8

-------------------------------------------------------------------------------
(* The database, statement by statement *)

(* A version's columns are columns, and version 12 has the current ones.    *)
LEMMA ColumnFacts ==
  /\ \A v \in 0..12 : ColumnsOf(v) \subseteq Columns
  /\ ColumnsOf(12) = Current
  /\ \A v \in 3..12 : "harness" \in ColumnsOf(v)
  /\ \A v \in 6..12 : "state" \in ColumnsOf(v)
  /\ \A v \in 1..5 : "consumed" \in ColumnsOf(v)
  /\ "runtime" \in ColumnsOf(2)
  /\ \A c \in Columns : Holder(c) \subseteq TableNames
<1>1. \A v \in 0..12 : ColumnsOf(v) \subseteq Columns
  BY DEF ColumnsOf, Columns
<1>2. ColumnsOf(12) = Current
  BY DEF ColumnsOf, Current
<1>3. \A v \in 3..12 : "harness" \in ColumnsOf(v)
  BY DEF ColumnsOf
<1>4. \A v \in 6..12 : "state" \in ColumnsOf(v)
  BY DEF ColumnsOf
<1>5. \A v \in 1..5 : "consumed" \in ColumnsOf(v)
  BY DEF ColumnsOf
<1>6. "runtime" \in ColumnsOf(2)
  BY DEF ColumnsOf
<1>7. \A c \in Columns : Holder(c) \subseteq TableNames
  BY DEF Holder, Columns, TableNames
<1> QED
  BY <1>1, <1>2, <1>3, <1>4, <1>5, <1>6, <1>7

(* A database of any version, as its hub left it, is sound.                 *)
LEMMA DatabaseFacts ==
  ASSUME NEW v \in 0..12
  PROVE  /\ Database(v) \in DatabaseType
         /\ Sound(Database(v))
         /\ Database(v).version = v
         /\ Database(v).rows = [t \in TableNames |-> "home"]
         /\ Database(v).mark = IF v = 0 THEN 0 ELSE Mark
<1> DEFINE d == Database(v)
<1>1. /\ d.version = v
      /\ d.schema = IF v = 0 THEN 0 ELSE 4
      /\ d.cols = IF v = 0 THEN Current ELSE ColumnsOf(v)
      /\ d.carried = (IF v = 0 THEN Current ELSE ColumnsOf(v))
                      \cup (IF v = 1 THEN {"harness"} ELSE {})
      /\ d.drifted = IF v \in 1..7 THEN TableNames ELSE {}
      /\ d.rows = [t \in TableNames |-> "home"]
      /\ d.mark = IF v = 0 THEN 0 ELSE Mark
  BY PlanShape, ColumnFacts DEF Database
<1>2. d = [version |-> d.version, schema |-> d.schema, cols |-> d.cols,
           carried |-> d.carried, drifted |-> d.drifted, rows |-> d.rows,
           mark |-> d.mark]
  BY DEF Database
<1> HIDE DEF d
<1>3. d \in DatabaseType
  <2>1. d.cols \subseteq Columns /\ d.carried \subseteq Columns
    BY <1>1, ColumnFacts DEF Current, Columns
  <2>2. d.version \in 0..SchemaVersion /\ d.schema \in 0..4 /\ d.mark \in Nat
    BY <1>1, MigrationAssumption DEF SchemaVersion
  <2>3. d.drifted \subseteq TableNames /\ d.rows \in [TableNames -> {"home", "aside"}]
    BY <1>1
  <2> QED
    BY <1>2, <2>1, <2>2, <2>3 DEF DatabaseType
<1>4. Sound(d)
  <2>1. "harness" \in d.carried \/ "runtime" \in d.cols
    BY <1>1, ColumnFacts DEF Current
  <2>2. "state" \in d.carried \/ "consumed" \in d.cols
    BY <1>1, ColumnFacts DEF Current
  <2>3. d.version = 0 \/ d.version = SchemaVersion => Whole(d)
    BY <1>1, ColumnFacts DEF Whole, Current, SchemaVersion
  <2> QED
    BY <1>1, <2>1, <2>2, <2>3 DEF Sound
<1> QED
  BY <1>1, <1>3, <1>4 DEF d

(* The version decides whether the plan is followed, and how far.           *)
LEMMA ReadVersionKeeps ==
  ASSUME DatabaseInv, ReadVersion, UNCHANGED given
  PROVE  DatabaseInv'
<1>1. migAt = 1 /\ UNCHANGED <<disk, mem, txn, added, high, given>>
  BY PlanSteps DEF ReadVersion, DatabaseInv, DatabaseTypeOK, OneOffSteps
<1>2. \/ migAt' = 33 /\ mem.version = SchemaVersion
      \/ migAt' = 32 /\ mem.version = 0
      \/ migAt' = 2 /\ mem.version \in 1..SchemaVersion - 1
  BY <1>1, PlanShape
     DEF ReadVersion, Forward, DatabaseInv, DatabaseTypeOK, DatabaseType, SchemaVersion
<1>3. DatabaseTypeOK' /\ DatabasesAreSound' /\ OnlyOpenIsUndone'
  BY <1>1, <1>2
     DEF DatabaseInv, DatabaseTypeOK, DatabasesAreSound, Sound, Whole, OnlyOpenIsUndone
<1>4. AlterationsAreMade'
  BY <1>1, <1>2
     DEF DatabaseInv, AlterationsAreMade, DatabasesAreSound, Sound, Whole, Behind, Migrating
<1>5. TablesAreRemade'
  BY <1>1, <1>2, RenameSteps DEF DatabaseInv, TablesAreRemade, Behind, Migrating
<1>6. MarkIsKept'
  BY <1>1, <1>2 DEF DatabaseInv, MarkIsKept
<1> QED
  BY <1>3, <1>4, <1>5, <1>6 DEF DatabaseInv

(* A statement on the schema before the rebuild: what it changes but for    *)
(* columns and drift stays.                                                 *)
LEMMA AddColumnKeeps ==
  ASSUME DatabaseInv, NEW c \in Columns, AddColumn(c), UNCHANGED given
  PROVE  DatabaseInv'
<1>1. /\ migAt \in {2, 5, 7, 9, 12} /\ migAt' = migAt + 1
      /\ migAt = 2 => c = "harness"
      /\ migAt = 5 => c = "last_heartbeat"
      /\ migAt = 7 => c = "lease_duration_s"
      /\ migAt = 9 => c = "state"
      /\ migAt = 12 => c = "later"
  BY PlanSteps DEF AddColumn, Forward, DatabaseInv, DatabaseTypeOK, ColumnSteps
<1>2. /\ mem' \in DatabaseType
      /\ mem'.cols = mem.cols \cup {c}
      /\ mem'.version = mem.version /\ mem'.schema = mem.schema
      /\ mem'.carried = mem.carried /\ mem'.rows = mem.rows /\ mem'.mark = mem.mark
  <2>1. CASE c \in mem.cols
    BY <2>1 DEF AddColumn, DatabaseInv, DatabaseTypeOK, DatabaseType
  <2>2. CASE c \notin mem.cols
    <3>1. mem' = [mem EXCEPT !.cols = mem.cols \cup {c},
                             !.drifted = mem.drifted \cup Holder(c)]
      BY <2>2 DEF AddColumn, Schema
    <3>2. Holder(c) \subseteq TableNames /\ mem \in DatabaseType
      BY ColumnFacts DEF DatabaseInv, DatabaseTypeOK
    <3> QED
      BY <3>1, <3>2 DEF DatabaseType
  <2> QED
    BY <2>1, <2>2
<1>3. /\ disk' = IF txn THEN disk ELSE mem'
      /\ added' \subseteq Columns
      /\ UNCHANGED <<txn, high, given>>
  BY DEF AddColumn, Schema, DatabaseInv, DatabaseTypeOK, OnlyOpenIsUndone
<1>4. DatabaseTypeOK'
  BY <1>1, <1>2, <1>3 DEF DatabaseInv, DatabaseTypeOK
<1>5. Sound(mem')
  BY <1>1, <1>2
     DEF DatabaseInv, DatabasesAreSound, Sound, AlterationsAreMade, Migrating, SchemaVersion
<1>6. DatabasesAreSound'
  BY <1>1, <1>2, <1>3, <1>5, RenameSteps
     DEF DatabaseInv, DatabasesAreSound, Sound, Whole, OnlyOpenIsUndone
<1>7. OnlyOpenIsUndone'
  BY <1>1, <1>3 DEF DatabaseInv, OnlyOpenIsUndone
<1>8. AlterationsAreMade'
  BY <1>1, <1>2 DEF DatabaseInv, AlterationsAreMade, Behind, Migrating
<1>9. TablesAreRemade'
  BY <1>1, <1>2, RenameSteps DEF DatabaseInv, TablesAreRemade, Behind, Migrating
<1>10. MarkIsKept'
  BY <1>1, <1>2, <1>3 DEF DatabaseInv, MarkIsKept, DatabasesAreSound
<1> QED
  BY <1>4, <1>6, <1>7, <1>8, <1>9, <1>10 DEF DatabaseInv

(* A value is carried while the column it comes from is there.              *)
LEMMA CarryValuesKeeps ==
  ASSUME DatabaseInv, NEW c \in Columns, CarryValues(c), UNCHANGED given
  PROVE  DatabaseInv'
<1>1. /\ migAt \in {3, 6, 8, 10} /\ migAt' = migAt + 1
      /\ migAt = 3 => c = "harness"
      /\ migAt = 6 => c = "last_heartbeat"
      /\ migAt = 8 => c = "lease_duration_s"
      /\ migAt = 10 => c = "state"
  BY PlanSteps DEF CarryValues, Forward, DatabaseInv, DatabaseTypeOK, ColumnSteps
<1>2. /\ mem' \in DatabaseType
      /\ mem'.carried = IF CarryDue(c) THEN mem.carried \cup {c} ELSE mem.carried
      /\ mem'.cols = mem.cols /\ mem'.drifted = mem.drifted
      /\ mem'.version = mem.version /\ mem'.schema = mem.schema
      /\ mem'.rows = mem.rows /\ mem'.mark = mem.mark
  <2>1. CASE ~CarryDue(c)
    BY <2>1 DEF CarryValues, DatabaseInv, DatabaseTypeOK
  <2>2. CASE CarryDue(c)
    <3>1. mem' = [mem EXCEPT !.carried = mem.carried \cup {c}]
      BY <2>2 DEF CarryValues, Rows
    <3> QED
      BY <2>2, <3>1 DEF DatabaseInv, DatabaseTypeOK, DatabaseType
  <2> QED
    BY <2>1, <2>2
<1>3. /\ UNCHANGED <<disk, added, high, given>>
      /\ txn' \in BOOLEAN
      /\ txn' = FALSE => mem' = mem /\ txn = FALSE
  BY DEF CarryValues, Rows, DatabaseInv, DatabaseTypeOK
<1>4. DatabaseTypeOK'
  BY <1>1, <1>2, <1>3 DEF DatabaseInv, DatabaseTypeOK
<1>5. DatabasesAreSound'
  BY <1>1, <1>2, <1>3
     DEF DatabaseInv, DatabasesAreSound, Sound, Whole, AlterationsAreMade, Migrating
<1>6. OnlyOpenIsUndone'
  BY <1>1, <1>3 DEF DatabaseInv, DatabaseTypeOK, OnlyOpenIsUndone
<1>7. AlterationsAreMade'
  <2>1. migAt = 3 => "harness" \in mem'.carried
    BY <1>1, <1>2 DEF CarryDue, DatabaseInv, DatabasesAreSound, Sound
  <2>2. migAt = 10 => "state" \in mem'.carried
    BY <1>1, <1>2 DEF CarryDue, DatabaseInv, DatabasesAreSound, Sound
  <2> QED
    BY <1>1, <1>2, <2>1, <2>2 DEF DatabaseInv, AlterationsAreMade, Behind, Migrating
<1>8. TablesAreRemade'
  BY <1>1, <1>2, RenameSteps DEF DatabaseInv, TablesAreRemade, Behind, Migrating
<1>9. MarkIsKept'
  BY <1>1, <1>2, <1>3 DEF DatabaseInv, MarkIsKept
<1> QED
  BY <1>4, <1>5, <1>6, <1>7, <1>8, <1>9 DEF DatabaseInv

(* A column goes once its values are carried.                               *)
LEMMA DropColumnKeeps ==
  ASSUME DatabaseInv, NEW c \in Columns, DropColumn(c), UNCHANGED given
  PROVE  DatabaseInv'
<1>1. /\ migAt \in {4, 11} /\ migAt' = migAt + 1
      /\ migAt = 4 => c = "runtime"
      /\ migAt = 11 => c = "consumed"
  BY PlanSteps DEF DropColumn, Forward, DatabaseInv, DatabaseTypeOK, ColumnSteps
<1>2. /\ mem' \in DatabaseType
      /\ mem'.cols = mem.cols \ {c}
      /\ mem'.version = mem.version /\ mem'.schema = mem.schema
      /\ mem'.drifted = mem.drifted
      /\ mem'.carried = mem.carried /\ mem'.rows = mem.rows /\ mem'.mark = mem.mark
  <2>1. CASE c \notin mem.cols
    BY <2>1 DEF DropColumn, DatabaseInv, DatabaseTypeOK, DatabaseType
  <2>2. CASE c \in mem.cols
    <3>1. mem' = [mem EXCEPT !.cols = mem.cols \ {c}]
      BY <2>2 DEF DropColumn, Schema
    <3> QED
      BY <3>1 DEF DatabaseInv, DatabaseTypeOK, DatabaseType
  <2> QED
    BY <2>1, <2>2
<1>3. /\ disk' = IF txn THEN disk ELSE mem'
      /\ UNCHANGED <<txn, added, high, given>>
  BY DEF DropColumn, Schema, DatabaseInv, OnlyOpenIsUndone
<1>4. DatabaseTypeOK'
  BY <1>1, <1>2, <1>3 DEF DatabaseInv, DatabaseTypeOK
<1>5. Sound(mem')
  BY <1>1, <1>2
     DEF DatabaseInv, DatabasesAreSound, Sound, AlterationsAreMade, Behind, Migrating,
         SchemaVersion
<1>6. DatabasesAreSound'
  BY <1>1, <1>2, <1>3, <1>5
     DEF DatabaseInv, DatabasesAreSound, OnlyOpenIsUndone
<1>7. OnlyOpenIsUndone'
  BY <1>1, <1>3 DEF DatabaseInv, OnlyOpenIsUndone
<1>8. AlterationsAreMade'
  BY <1>1, <1>2 DEF DatabaseInv, AlterationsAreMade, Behind, Migrating
<1>9. TablesAreRemade'
  BY <1>1, <1>2, RenameSteps DEF DatabaseInv, TablesAreRemade, Behind, Migrating
<1>10. MarkIsKept'
  BY <1>1, <1>2, <1>3 DEF DatabaseInv, MarkIsKept, DatabasesAreSound
<1> QED
  BY <1>4, <1>6, <1>7, <1>8, <1>9, <1>10 DEF DatabaseInv

(* Between transactions every table is under its own name.                  *)
LEMMA RowsAtHome ==
  ASSUME DatabaseInv, migAt \in 0..14 \cup 31..33
  PROVE  mem.rows = [t \in TableNames |-> "home"]
<1>1. \A t \in TableNames : mem.rows[t] = "home"
  BY RenameSteps DEF DatabaseInv, DatabaseTypeOK, TablesAreRemade
<1>2. mem.rows \in [TableNames -> {"home", "aside"}]
  BY DEF DatabaseInv, DatabaseTypeOK, DatabaseType
<1> QED
  BY <1>1, <1>2

(* At the end of the rebuild nothing is left to do but the stamp.           *)
LEMMA WholeAtTheEnd ==
  ASSUME DatabaseInv, migAt = 31
  PROVE  Whole(mem)
<1>1. mem.cols \subseteq Columns /\ mem.drifted \subseteq TableNames
  BY DEF DatabaseInv, DatabaseTypeOK, DatabaseType
<1>2. /\ Current \subseteq mem.cols
      /\ "runtime" \notin mem.cols /\ "consumed" \notin mem.cols
      /\ {"harness", "state"} \subseteq mem.carried
  BY DEF DatabaseInv, AlterationsAreMade, Behind, Migrating, Current
<1>3. mem.cols = Current
  BY <1>1, <1>2 DEF Columns, Current
<1>4. mem.drifted = {}
  BY <1>1, RenameSteps DEF DatabaseInv, TablesAreRemade, Behind, Migrating
<1> QED
  BY <1>2, <1>3, <1>4 DEF Whole

(* What was altered, and then what was rebuilt, becomes what a crash leaves.*)
LEMMA CommitKeeps ==
  ASSUME DatabaseInv, Commit, UNCHANGED given
  PROVE  DatabaseInv'
<1>1. /\ migAt \in {13, 31} /\ migAt' = migAt + 1
      /\ disk' = mem /\ txn' = FALSE
      /\ UNCHANGED <<mem, added, high, given>>
  BY PlanSteps DEF Commit, Forward, DatabaseInv, DatabaseTypeOK, OneOffSteps
<1>2. DatabaseTypeOK'
  <2>1. disk' \in DatabaseType /\ mem' \in DatabaseType
    BY <1>1 DEF DatabaseInv, DatabaseTypeOK
  <2>2. migAt' \in 0..33
    BY <1>1
  <2> QED
    BY <1>1, <2>1, <2>2 DEF DatabaseInv, DatabaseTypeOK
<1>3. DatabasesAreSound'
  BY <1>1, RowsAtHome DEF DatabaseInv, DatabasesAreSound
<1>4. OnlyOpenIsUndone'
  BY <1>1 DEF DatabaseInv, OnlyOpenIsUndone
<1>5. AlterationsAreMade'
  BY <1>1, WholeAtTheEnd DEF DatabaseInv, AlterationsAreMade, Behind, Migrating
<1>6. TablesAreRemade'
  BY <1>1, RenameSteps DEF DatabaseInv, TablesAreRemade, Behind, Migrating
<1>7. MarkIsKept'
  BY <1>1 DEF DatabaseInv, MarkIsKept, DatabasesAreSound
<1> QED
  BY <1>2, <1>3, <1>4, <1>5, <1>6, <1>7 DEF DatabaseInv

(* From here on a crash undoes the rebuild as a whole.                      *)
LEMMA BeginRebuildKeeps ==
  ASSUME DatabaseInv, BeginRebuild, UNCHANGED given
  PROVE  DatabaseInv'
<1>1. /\ migAt = 14 /\ migAt' = 15 /\ txn' = TRUE
      /\ UNCHANGED <<disk, mem, added, high, given>>
  BY PlanSteps DEF BeginRebuild, Forward, DatabaseInv, DatabaseTypeOK, OneOffSteps
<1>2. DatabaseTypeOK' /\ DatabasesAreSound' /\ OnlyOpenIsUndone'
  BY <1>1 DEF DatabaseInv, DatabaseTypeOK, DatabasesAreSound, OnlyOpenIsUndone
<1>3. AlterationsAreMade'
  BY <1>1 DEF DatabaseInv, AlterationsAreMade, Behind, Migrating
<1>4. TablesAreRemade'
  BY <1>1, RenameSteps DEF DatabaseInv, TablesAreRemade, Behind, Migrating
<1>5. MarkIsKept'
  BY <1>1 DEF DatabaseInv, MarkIsKept
<1> QED
  BY <1>2, <1>3, <1>4, <1>5 DEF DatabaseInv

(* A new database gets one more table.                                      *)
LEMMA CreateSchemaKeeps ==
  ASSUME DatabaseInv, CreateSchema, UNCHANGED given
  PROVE  DatabaseInv'
<1>1. /\ migAt = 32 /\ mem.schema < 4
      /\ UNCHANGED <<migAt, added, high, txn, given>>
  BY PlanSteps, PlanShape
     DEF CreateSchema, Schema, DatabaseInv, DatabaseTypeOK, OneOffSteps
<1>2. txn = FALSE
  BY <1>1 DEF DatabaseInv, DatabaseTypeOK, OnlyOpenIsUndone
<1>3. disk' = mem' /\ mem' = [mem EXCEPT !.schema = mem.schema + 1]
  BY <1>2 DEF CreateSchema, Schema
<1>4. /\ mem' \in DatabaseType
      /\ mem'.version = mem.version /\ mem'.cols = mem.cols
      /\ mem'.carried = mem.carried /\ mem'.drifted = mem.drifted
      /\ mem'.rows = mem.rows /\ mem'.mark = mem.mark
  BY <1>1, <1>3 DEF DatabaseInv, DatabaseTypeOK, DatabaseType
<1>5. DatabaseTypeOK'
  BY <1>1, <1>3, <1>4 DEF DatabaseInv, DatabaseTypeOK
<1>6. mem.version = 0 /\ Sound(mem')
  BY <1>1, <1>4 DEF DatabaseInv, DatabasesAreSound, Sound, Whole, SchemaVersion
<1>7. DatabasesAreSound'
  BY <1>1, <1>3, <1>4, <1>6, RowsAtHome DEF DatabasesAreSound
<1>8. OnlyOpenIsUndone' /\ AlterationsAreMade'
  BY <1>1, <1>2, <1>3, <1>4
     DEF DatabaseInv, OnlyOpenIsUndone, AlterationsAreMade, Behind, Migrating, Whole
<1>9. TablesAreRemade'
  BY <1>1, <1>4, RenameSteps DEF DatabaseInv, TablesAreRemade, Behind, Migrating
<1>10. MarkIsKept'
  BY <1>1, <1>3, <1>4, <1>6 DEF DatabaseInv, MarkIsKept, DatabasesAreSound, SchemaVersion
<1> QED
  BY <1>5, <1>7, <1>8, <1>9, <1>10 DEF DatabaseInv

(* The stamp is the last, on a database that is whole.                      *)
LEMMA StampKeeps ==
  ASSUME DatabaseInv, Stamp, UNCHANGED given
  PROVE  DatabaseInv'
<1>1. /\ migAt = 32 /\ migAt' = 33 /\ mem.schema = 4
      /\ UNCHANGED <<added, high, txn, given>>
  BY PlanSteps, PlanShape
     DEF Stamp, Schema, Forward, DatabaseInv, DatabaseTypeOK, OneOffSteps
<1>2. txn = FALSE
  BY <1>1 DEF DatabaseInv, DatabaseTypeOK, OnlyOpenIsUndone
<1>3. disk' = mem' /\ mem' = [mem EXCEPT !.version = SchemaVersion]
  BY <1>2 DEF Stamp, Schema
<1>4. /\ mem' \in DatabaseType
      /\ mem'.version = SchemaVersion /\ mem'.schema = 4 /\ mem'.cols = mem.cols
      /\ mem'.carried = mem.carried /\ mem'.drifted = mem.drifted
      /\ mem'.rows = mem.rows /\ mem'.mark = mem.mark
  BY <1>1, <1>3 DEF DatabaseInv, DatabaseTypeOK, DatabaseType, SchemaVersion
<1>5. DatabaseTypeOK'
  BY <1>1, <1>3, <1>4 DEF DatabaseInv, DatabaseTypeOK
<1>6. Whole(mem') /\ Sound(mem')
  BY <1>1, <1>4
     DEF DatabaseInv, AlterationsAreMade, DatabasesAreSound, Sound, Whole, SchemaVersion
<1>7. DatabasesAreSound'
  BY <1>1, <1>3, <1>4, <1>6, RowsAtHome DEF DatabasesAreSound
<1>8. OnlyOpenIsUndone' /\ AlterationsAreMade'
  BY <1>1, <1>2, <1>3, <1>4
     DEF DatabaseInv, OnlyOpenIsUndone, AlterationsAreMade, Behind, Migrating
<1>9. TablesAreRemade'
  BY <1>1, <1>4, RenameSteps DEF DatabaseInv, TablesAreRemade, Behind, Migrating
<1>10. MarkIsKept'
  BY <1>1, <1>3, <1>4 DEF DatabaseInv, MarkIsKept, SchemaVersion
<1> QED
  BY <1>5, <1>7, <1>8, <1>9, <1>10 DEF DatabaseInv

(* The tables are remade one after the other.                               *)
LEMMA RenameOrder ==
  ASSUME NEW t \in TableNames, NEW u \in TableNames
  PROVE  u = t \/ RenameAt(u) + 4 <= RenameAt(t) \/ RenameAt(t) + 4 <= RenameAt(u)
BY RenameSteps DEF TableNames

(* Within the rebuild a statement leaves what a crash would find, and what  *)
(* the alterations have made, as it was.                                    *)
LEMMA RebuildKeeps ==
  ASSUME DatabaseInv, migAt \in 15..30, migAt' \in 16..31, migAt' > migAt,
         mem' \in DatabaseType,
         mem'.cols = mem.cols, mem'.carried = mem.carried,
         mem'.version = mem.version, mem'.schema = mem.schema,
         txn' = TRUE, high' \in Nat,
         UNCHANGED <<disk, added, given>>
  PROVE  /\ DatabaseTypeOK' /\ DatabasesAreSound'
         /\ OnlyOpenIsUndone' /\ AlterationsAreMade'
<1>1. DatabaseTypeOK'
  <2>1. disk' \in DatabaseType /\ added' \subseteq Columns
    BY DEF DatabaseInv, DatabaseTypeOK
  <2>2. migAt' \in 0..33
    OBVIOUS
  <2> QED
    BY <2>1, <2>2 DEF DatabaseTypeOK
<1>2. DatabasesAreSound'
  BY DEF DatabaseInv, DatabasesAreSound, Sound, AlterationsAreMade, Migrating, SchemaVersion
<1>3. OnlyOpenIsUndone'
  BY DEF OnlyOpenIsUndone
<1>4. AlterationsAreMade'
  BY DEF DatabaseInv, AlterationsAreMade, Behind, Migrating
<1> QED
  BY <1>1, <1>2, <1>3, <1>4

(* A table that has drifted is set aside, and the mark is noted.            *)
LEMMA RenameTableKeeps ==
  ASSUME DatabaseInv, NEW t \in TableNames, RenameTable(t), UNCHANGED given
  PROVE  DatabaseInv'
<1>1. migAt = RenameAt(t) /\ migAt \in {15, 19, 23, 27} /\ txn = TRUE
  BY PlanSteps, RenameSteps
     DEF RenameTable, DatabaseInv, DatabaseTypeOK, TableSteps, OnlyOpenIsUndone
<1>2. /\ mem.rows[t] = "home" /\ mem.mark = given /\ mem.mark \in Nat
      /\ mem \in DatabaseType /\ high \in Nat
  BY <1>1 DEF DatabaseInv, DatabaseTypeOK, DatabaseType, TablesAreRemade, MarkIsKept
<1>3. CASE t \notin mem.drifted
  <2>1. migAt' = migAt + 4 /\ UNCHANGED <<disk, mem, txn, added, high, given>>
    BY <1>3 DEF RenameTable, Forward
  <2>2. DatabaseTypeOK' /\ DatabasesAreSound' /\ OnlyOpenIsUndone' /\ AlterationsAreMade'
    BY <1>1, <1>2, <2>1, RebuildKeeps
  <2>3. TablesAreRemade'
    <3> SUFFICES ASSUME NEW u \in TableNames
                 PROVE  /\ mem.rows[u] = IF migAt' \in {RenameAt(u) + 1, RenameAt(u) + 2}
                                         THEN "aside" ELSE "home"
                        /\ Behind(RenameAt(u) + 1)' => u \notin mem.drifted
      BY <2>1 DEF TablesAreRemade
    <3>1. u = t \/ RenameAt(u) + 4 <= RenameAt(t) \/ RenameAt(t) + 4 <= RenameAt(u)
      BY RenameOrder
    <3> QED
      BY <1>1, <1>2, <1>3, <2>1, <3>1, RenameSteps
         DEF DatabaseInv, TablesAreRemade, Behind, Migrating
  <2>4. MarkIsKept'
    BY <1>1, <1>2, <2>1 DEF DatabaseInv, MarkIsKept
  <2> QED
    BY <2>2, <2>3, <2>4 DEF DatabaseInv
<1>4. CASE t \in mem.drifted
  <2>1. /\ migAt' = migAt + 1 /\ high' = given
        /\ mem' = [mem EXCEPT !.rows[t] = "aside"]
        /\ UNCHANGED <<disk, txn, added, given>>
    BY <1>1, <1>2, <1>4 DEF RenameTable, Forward, Schema
  <2>2. /\ mem' \in DatabaseType
        /\ mem'.rows = [mem.rows EXCEPT ![t] = "aside"]
        /\ mem'.drifted = mem.drifted /\ mem'.mark = mem.mark
        /\ mem'.cols = mem.cols /\ mem'.carried = mem.carried
        /\ mem'.version = mem.version /\ mem'.schema = mem.schema
    BY <1>2, <2>1 DEF DatabaseType
  <2>3. DatabaseTypeOK' /\ DatabasesAreSound' /\ OnlyOpenIsUndone' /\ AlterationsAreMade'
    BY <1>1, <1>2, <2>1, <2>2, RebuildKeeps
  <2>4. TablesAreRemade'
    <3> SUFFICES ASSUME NEW u \in TableNames
                 PROVE  /\ mem'.rows[u] = IF migAt' \in {RenameAt(u) + 1, RenameAt(u) + 2}
                                          THEN "aside" ELSE "home"
                        /\ Behind(RenameAt(u) + 1)' => u \notin mem.drifted
      BY <2>2 DEF TablesAreRemade
    <3>1. u = t \/ RenameAt(u) + 4 <= RenameAt(t) \/ RenameAt(t) + 4 <= RenameAt(u)
      BY RenameOrder
    <3>2. mem.rows \in [TableNames -> {"home", "aside"}]
      BY <1>2 DEF DatabaseType
    <3> QED
      BY <1>1, <2>1, <2>2, <3>1, <3>2, RenameSteps
         DEF DatabaseInv, TablesAreRemade, Behind, Migrating
  <2>5. MarkIsKept'
    BY <1>1, <1>2, <2>1, <2>2 DEF DatabaseInv, MarkIsKept
  <2> QED
    BY <2>3, <2>4, <2>5 DEF DatabaseInv
<1> QED
  BY <1>3, <1>4

(* The table is there again, in its declared shape.                         *)
LEMMA CreateTableKeeps ==
  ASSUME DatabaseInv, NEW t \in TableNames, CreateTable(t), UNCHANGED given
  PROVE  DatabaseInv'
<1>1. /\ migAt = RenameAt(t) + 1 /\ migAt' = migAt + 1 /\ migAt \in {16, 20, 24, 28}
      /\ txn = TRUE
  BY PlanSteps, RenameSteps
     DEF CreateTable, Forward, DatabaseInv, DatabaseTypeOK, TableSteps, OnlyOpenIsUndone
<1>2. /\ mem' = [mem EXCEPT !.drifted = mem.drifted \ {t}]
      /\ UNCHANGED <<disk, txn, added, high, given>>
  BY <1>1 DEF CreateTable, Schema
<1>3. /\ mem' \in DatabaseType /\ high \in Nat
      /\ mem'.rows = mem.rows /\ mem'.drifted = mem.drifted \ {t} /\ mem'.mark = mem.mark
      /\ mem'.cols = mem.cols /\ mem'.carried = mem.carried
      /\ mem'.version = mem.version /\ mem'.schema = mem.schema
  BY <1>2 DEF DatabaseInv, DatabaseTypeOK, DatabaseType
<1>4. DatabaseTypeOK' /\ DatabasesAreSound' /\ OnlyOpenIsUndone' /\ AlterationsAreMade'
  BY <1>1, <1>2, <1>3, RebuildKeeps
<1>5. TablesAreRemade'
  <2> SUFFICES ASSUME NEW u \in TableNames
               PROVE  /\ mem.rows[u] = IF migAt' \in {RenameAt(u) + 1, RenameAt(u) + 2}
                                       THEN "aside" ELSE "home"
                      /\ Behind(RenameAt(u) + 1)' => u \notin mem'.drifted
    BY <1>3 DEF TablesAreRemade
  <2>1. u = t \/ RenameAt(u) + 4 <= RenameAt(t) \/ RenameAt(t) + 4 <= RenameAt(u)
    BY RenameOrder
  <2> QED
    BY <1>1, <1>3, <2>1, RenameSteps DEF DatabaseInv, TablesAreRemade, Behind, Migrating
<1>6. MarkIsKept'
  BY <1>1, <1>2, <1>3 DEF DatabaseInv, MarkIsKept
<1> QED
  BY <1>4, <1>5, <1>6 DEF DatabaseInv

(* The rows are under the table's own name again, and the event table's     *)
(* mark is for one statement that of its rows.                              *)
LEMMA CopyRowsKeeps ==
  ASSUME DatabaseInv, NEW t \in TableNames, CopyRows(t), UNCHANGED given
  PROVE  DatabaseInv'
<1>1. /\ migAt = RenameAt(t) + 2 /\ migAt' = migAt + 1 /\ migAt \in {17, 21, 25, 29}
      /\ migAt = 25 <=> t = "event"
  BY PlanSteps, RenameSteps
     DEF CopyRows, Forward, DatabaseInv, DatabaseTypeOK, TableSteps, TableNames
<1>2. /\ mem' = [mem EXCEPT !.rows[t] = "home",
                            !.mark = IF t = "event" THEN Top ELSE mem.mark]
      /\ txn' = TRUE
      /\ UNCHANGED <<disk, added, high, given>>
  BY DEF CopyRows, Rows
<1>3. /\ mem' \in DatabaseType /\ high \in Nat
      /\ mem'.rows = [mem.rows EXCEPT ![t] = "home"] /\ mem'.drifted = mem.drifted
      /\ mem'.mark = IF t = "event" THEN Top ELSE mem.mark
      /\ mem'.cols = mem.cols /\ mem'.carried = mem.carried
      /\ mem'.version = mem.version /\ mem'.schema = mem.schema
  BY <1>2, MigrationAssumption DEF DatabaseInv, DatabaseTypeOK, DatabaseType
<1>4. DatabaseTypeOK' /\ DatabasesAreSound' /\ OnlyOpenIsUndone' /\ AlterationsAreMade'
  BY <1>1, <1>2, <1>3, RebuildKeeps
<1>5. TablesAreRemade'
  <2> SUFFICES ASSUME NEW u \in TableNames
               PROVE  /\ mem'.rows[u] = IF migAt' \in {RenameAt(u) + 1, RenameAt(u) + 2}
                                        THEN "aside" ELSE "home"
                      /\ Behind(RenameAt(u) + 1)' => u \notin mem.drifted
    BY <1>3 DEF TablesAreRemade
  <2>1. u = t \/ RenameAt(u) + 4 <= RenameAt(t) \/ RenameAt(t) + 4 <= RenameAt(u)
    BY RenameOrder
  <2>2. mem.rows \in [TableNames -> {"home", "aside"}]
    BY DEF DatabaseInv, DatabaseTypeOK, DatabaseType
  <2> QED
    BY <1>1, <1>3, <2>1, <2>2, RenameSteps
       DEF DatabaseInv, TablesAreRemade, Behind, Migrating
<1>6. MarkIsKept'
  BY <1>1, <1>2, <1>3 DEF DatabaseInv, MarkIsKept
<1> QED
  BY <1>4, <1>5, <1>6 DEF DatabaseInv

(* The mark noted before the copy is given back.                            *)
LEMMA RemoveOldKeeps ==
  ASSUME DatabaseInv, NEW t \in TableNames, RemoveOld(t), UNCHANGED given,
         given \in Nat
  PROVE  DatabaseInv'
<1>1. /\ migAt = RenameAt(t) + 3 /\ migAt' = migAt + 1 /\ migAt \in {18, 22, 26, 30}
      /\ migAt = 26 <=> t = "event"
  BY PlanSteps, RenameSteps
     DEF RemoveOld, Forward, DatabaseInv, DatabaseTypeOK, TableSteps, TableNames
<1>2. /\ mem' = [mem EXCEPT !.mark = IF t = "event" /\ mem.mark < high
                                     THEN high ELSE mem.mark]
      /\ txn' = TRUE
      /\ UNCHANGED <<disk, added, high, given>>
  BY DEF RemoveOld, Rows
<1>3. /\ mem' \in DatabaseType /\ high \in Nat
      /\ mem'.rows = mem.rows /\ mem'.drifted = mem.drifted
      /\ mem'.mark = IF t = "event" /\ mem.mark < high THEN high ELSE mem.mark
      /\ mem'.cols = mem.cols /\ mem'.carried = mem.carried
      /\ mem'.version = mem.version /\ mem'.schema = mem.schema
  BY <1>2 DEF DatabaseInv, DatabaseTypeOK, DatabaseType
<1>4. DatabaseTypeOK' /\ DatabasesAreSound' /\ OnlyOpenIsUndone' /\ AlterationsAreMade'
  BY <1>1, <1>2, <1>3, RebuildKeeps
<1>5. TablesAreRemade'
  <2> SUFFICES ASSUME NEW u \in TableNames
               PROVE  /\ mem.rows[u] = IF migAt' \in {RenameAt(u) + 1, RenameAt(u) + 2}
                                       THEN "aside" ELSE "home"
                      /\ Behind(RenameAt(u) + 1)' => u \notin mem.drifted
    BY <1>3 DEF TablesAreRemade
  <2>1. u = t \/ RenameAt(u) + 4 <= RenameAt(t) \/ RenameAt(t) + 4 <= RenameAt(u)
    BY RenameOrder
  <2> QED
    BY <1>1, <1>3, <2>1, RenameSteps DEF DatabaseInv, TablesAreRemade, Behind, Migrating
<1>6. MarkIsKept'
  <2>1. mem'.mark = given
    <3>1. migAt = 26 => mem.mark = Top /\ high = given
      BY DEF DatabaseInv, MarkIsKept
    <3>2. migAt = 26 => Top <= given
      BY DEF DatabaseInv, MarkIsKept, AlterationsAreMade, Migrating, DatabasesAreSound
    <3>3. migAt # 26 => mem.mark = given
      BY DEF DatabaseInv, MarkIsKept
    <3> QED
      BY <1>1, <1>3, <3>1, <3>2, <3>3, MigrationAssumption
  <2> QED
    BY <1>1, <1>2, <2>1 DEF DatabaseInv, MarkIsKept
<1> QED
  BY <1>4, <1>5, <1>6 DEF DatabaseInv

(* Every statement of initialize_database.                                  *)
LEMMA MigrateKeeps ==
  ASSUME DatabaseInv, MigrationNext, UNCHANGED given, given \in Nat
  PROVE  DatabaseInv'
<1>1. CASE ReadVersion
  BY <1>1, ReadVersionKeeps
<1>2. CASE CreateSchema
  BY <1>2, CreateSchemaKeeps
<1>3. CASE Commit
  BY <1>3, CommitKeeps
<1>4. CASE BeginRebuild
  BY <1>4, BeginRebuildKeeps
<1>5. CASE Stamp
  BY <1>5, StampKeeps
<1>6. ASSUME NEW c \in Columns, AddColumn(c) \/ CarryValues(c) \/ DropColumn(c)
      PROVE  DatabaseInv'
  BY <1>6, AddColumnKeeps, CarryValuesKeeps, DropColumnKeeps
<1>7. ASSUME NEW t \in TableNames,
             RenameTable(t) \/ CreateTable(t) \/ CopyRows(t) \/ RemoveOld(t)
      PROVE  DatabaseInv'
  BY <1>7, RenameTableKeeps, CreateTableKeeps, CopyRowsKeeps, RemoveOldKeeps
<1> QED
  BY <1>1, <1>2, <1>3, <1>4, <1>5, <1>6, <1>7, PlanShape DEF MigrationNext

-------------------------------------------------------------------------------
(* The process, action by action *)

(* A first start finds a database of some version, and no token.            *)
LEMMA InitInv == Init => IInv
<1> SUFFICES ASSUME Init PROVE IInv
  OBVIOUS
<1>1. PICK v \in Versions : disk = Database(v) /\ mem = Database(v)
  BY DEF Init, MigrationInit
<1>2. v \in 0..12
  BY MigrationAssumption
<1>3. /\ disk \in DatabaseType /\ Sound(disk)
      /\ disk.version = v /\ disk.rows = [t \in TableNames |-> "home"]
      /\ disk.mark = IF v = 0 THEN 0 ELSE Mark
  BY <1>1, <1>2, DatabaseFacts
<1>4. mem = disk /\ txn = FALSE /\ added = {} /\ high = 0 /\ migAt = 0 /\ given = disk.mark
  BY <1>1 DEF Init, MigrationInit
<1>5. DatabaseTypeOK /\ DatabasesAreSound /\ OnlyOpenIsUndone
  <2>1. disk \in DatabaseType /\ mem \in DatabaseType
    BY <1>3, <1>4
  <2>2. txn \in BOOLEAN
    BY <1>4
  <2>3. DatabasesAreSound /\ OnlyOpenIsUndone
    BY <1>3, <1>4 DEF DatabasesAreSound, OnlyOpenIsUndone
  <2> QED
    BY <1>4, <2>1, <2>2, <2>3 DEF DatabaseTypeOK
<1>6. AlterationsAreMade
  BY <1>4 DEF AlterationsAreMade, Behind, Migrating
<1>7. TablesAreRemade
  BY <1>3, <1>4, RenameSteps DEF TablesAreRemade, Behind, Migrating
<1>8. MarkIsKept
  BY <1>2, <1>3, <1>4, MigrationAssumption DEF MarkIsKept
<1>9. ProcessTypeOK
  <2>1. given \in 0..(Mark + MaxEvents)
    BY <1>3, <1>4, MigrationAssumption, HubAssumption
  <2> QED
    BY <2>1 DEF Init, ProcessTypeOK
<1>10. StartIsInOrder
  BY <1>4 DEF Init, StartIsInOrder
<1> QED
  BY <1>5, <1>6, <1>7, <1>8, <1>9, <1>10 DEF IInv, DatabaseInv

(* What leaves the database and its connection alone keeps their invariant. *)
LEMMA DatabaseStays ==
  ASSUME DatabaseInv, UNCHANGED <<migrationVars, given>>
  PROVE  DatabaseInv'
<1>1. UNCHANGED <<disk, mem, txn, added, high, migAt, given>>
  BY DEF migrationVars
<1>2. DatabaseTypeOK' /\ DatabasesAreSound' /\ OnlyOpenIsUndone'
  BY <1>1 DEF DatabaseInv, DatabaseTypeOK, DatabasesAreSound, OnlyOpenIsUndone
<1>3. AlterationsAreMade'
  BY <1>1 DEF DatabaseInv, AlterationsAreMade, Behind, Migrating
<1>4. TablesAreRemade' /\ MarkIsKept'
  BY <1>1 DEF DatabaseInv, TablesAreRemade, Behind, Migrating, MarkIsKept
<1> QED
  BY <1>2, <1>3, <1>4 DEF DatabaseInv

(* However a process ends, the next finds a database that is sound, every   *)
(* table under its own name and the mark of the last event id given.        *)
LEMMA EndsKeeps ==
  ASSUME IInv, Ends
  PROVE  IInv'
<1>1. /\ mem' = disk /\ txn' = FALSE /\ added' = {} /\ high' = 0 /\ migAt' = 0
      /\ disk' = disk /\ given' = given /\ tokenFile' = tokenFile
  BY DEF Ends, tokenVars
<1>2. DatabaseTypeOK'
  <2>1. disk' \in DatabaseType /\ mem' \in DatabaseType
    BY <1>1 DEF IInv, DatabaseInv, DatabaseTypeOK
  <2>2. txn' \in BOOLEAN
    BY <1>1
  <2> QED
    BY <1>1, <2>1, <2>2 DEF DatabaseTypeOK
<1>3. DatabasesAreSound' /\ OnlyOpenIsUndone'
  BY <1>1 DEF IInv, DatabaseInv, DatabasesAreSound, OnlyOpenIsUndone
<1>4. AlterationsAreMade'
  BY <1>1 DEF AlterationsAreMade, Behind, Migrating
<1>5. TablesAreRemade'
  BY <1>1, RenameSteps
     DEF IInv, DatabaseInv, DatabasesAreSound, TablesAreRemade, Behind, Migrating
<1>6. MarkIsKept'
  BY <1>1 DEF IInv, DatabaseInv, MarkIsKept
<1>7. ProcessTypeOK'
  BY DEF IInv, ProcessTypeOK, Ends, tokenVars
<1>8. StartIsInOrder'
  BY DEF StartIsInOrder, Ends
<1> QED
  BY <1>2, <1>3, <1>4, <1>5, <1>6, <1>7, <1>8 DEF IInv, DatabaseInv

(* The first statement is the next.                                         *)
LEMMA FirstStatementKeeps ==
  ASSUME DatabaseInv, migAt = 0, migAt' = 1,
         UNCHANGED <<disk, mem, txn, added, high, given>>
  PROVE  DatabaseInv'
<1>1. DatabaseTypeOK'
  BY DEF DatabaseInv, DatabaseTypeOK
<1>2. DatabasesAreSound' /\ OnlyOpenIsUndone'
  BY DEF DatabaseInv, DatabasesAreSound, OnlyOpenIsUndone
<1>3. AlterationsAreMade'
  BY DEF AlterationsAreMade, Behind, Migrating
<1>4. TablesAreRemade' /\ MarkIsKept'
  BY RenameSteps DEF DatabaseInv, TablesAreRemade, Behind, Migrating, MarkIsKept
<1> QED
  BY <1>1, <1>2, <1>3, <1>4 DEF DatabaseInv

(* The database is ready when the last statement is behind.                 *)
LEMMA ReadyIsStamped == DatabaseReady <=> migAt = 33
BY PlanShape DEF DatabaseReady

(* The id after the mark is the one after the last given.                   *)
LEMMA AppendEventKeeps ==
  ASSUME IInv, AppendEvent
  PROVE  IInv' /\ disk'.mark = given + 1 /\ given' = given + 1
<1>1. migAt = 33 /\ txn = FALSE /\ disk.version = 12 /\ disk = mem
  BY DEF IInv, StartIsInOrder, DatabaseInv, DatabaseTypeOK, OnlyOpenIsUndone, AlterationsAreMade,
         DatabasesAreSound, SchemaVersion, AppendEvent
<1>2. disk.mark = given /\ given \in Nat /\ given' = given + 1
  <2>1. disk.mark = given /\ given \in Nat
    BY MigrationAssumption, HubAssumption DEF IInv, DatabaseInv, MarkIsKept, ProcessTypeOK
  <2> QED
    BY <2>1 DEF AppendEvent
<1>3. /\ disk' = [disk EXCEPT !.mark = given + 1] /\ mem' = disk'
      /\ UNCHANGED <<txn, added, high, migAt>>
  BY <1>2 DEF AppendEvent
<1>4. /\ disk' \in DatabaseType
      /\ disk'.version = disk.version /\ disk'.schema = disk.schema
      /\ disk'.cols = disk.cols /\ disk'.carried = disk.carried
      /\ disk'.drifted = disk.drifted /\ disk'.rows = disk.rows
      /\ disk'.mark = given + 1
  BY <1>2, <1>3 DEF IInv, DatabaseInv, DatabaseTypeOK, DatabaseType
<1>5. DatabaseTypeOK'
  BY <1>3, <1>4 DEF IInv, DatabaseInv, DatabaseTypeOK
<1>6. DatabasesAreSound'
  BY <1>3, <1>4 DEF IInv, DatabaseInv, DatabasesAreSound, Sound, Whole
<1>7. OnlyOpenIsUndone' /\ AlterationsAreMade'
  BY <1>1, <1>3, <1>4
     DEF OnlyOpenIsUndone, AlterationsAreMade, Behind, Migrating, SchemaVersion
<1>8. TablesAreRemade'
  BY <1>1, <1>3, <1>4, RenameSteps
     DEF IInv, DatabaseInv, TablesAreRemade, Behind, Migrating
<1>9. MarkIsKept'
  BY <1>1, <1>2, <1>3, <1>4 DEF MarkIsKept, SchemaVersion
<1>10. ProcessTypeOK'
  BY <1>2, MigrationAssumption, HubAssumption
     DEF IInv, ProcessTypeOK, AppendEvent, tokenVars, transports
<1>11. StartIsInOrder'
  BY <1>3 DEF IInv, StartIsInOrder, AppendEvent, tokenVars, transports
<1> QED
  BY <1>2, <1>4, <1>5, <1>6, <1>7, <1>8, <1>9, <1>10, <1>11 DEF IInv, DatabaseInv

(* The steps of a start.                                                    *)
LEMMA StartKeeps ==
  ASSUME IInv, StartStep \/ MigrationFails \/ Launch
  PROVE  IInv'
<1>1. CASE Launch
  <2>1. DatabaseInv'
    BY <1>1, DatabaseStays DEF IInv, Launch
  <2>2. ProcessTypeOK'
    BY <1>1 DEF IInv, ProcessTypeOK, Launch, tokenVars, transports
  <2>3. StartIsInOrder'
    BY <1>1 DEF IInv, StartIsInOrder, Launch, tokenVars, transports, migrationVars
  <2> QED
    BY <2>1, <2>2, <2>3 DEF IInv
<1>2. CASE ReadSettings /\ ~Ends
  <2>1. /\ proc = "starting" /\ proc' = "loading" /\ migAt = 0 /\ migAt' = 1
        /\ UNCHANGED <<disk, mem, txn, added, high, tokenVars, transports, session, given>>
    BY <1>2 DEF ReadSettings, IInv, StartIsInOrder
  <2>2. DatabaseInv'
    BY <2>1, FirstStatementKeeps DEF IInv
  <2>3. ProcessTypeOK'
    BY <2>1 DEF IInv, ProcessTypeOK, tokenVars, transports
  <2>4. StartIsInOrder'
    BY <2>1 DEF IInv, StartIsInOrder, tokenVars, transports
  <2> QED
    BY <2>2, <2>3, <2>4 DEF IInv
<1>3. CASE Migrate
  <2>1. UNCHANGED <<proc, injected, tokenFile, sweeper, http, mcp, session, initialized,
                    held, given>>
    BY <1>3 DEF Migrate, hubVars, tokenVars
  <2>2. DatabaseInv'
    BY <1>3, <2>1, MigrateKeeps, MigrationAssumption, HubAssumption
       DEF Migrate, IInv, ProcessTypeOK
  <2>3. ProcessTypeOK'
    BY <2>1 DEF IInv, ProcessTypeOK
  <2>4. proc = "loading" /\ migAt \in 1..33
    BY <1>3 DEF Migrate, IInv, DatabaseInv, DatabaseTypeOK, StartIsInOrder
  <2>5. migAt' # 0
    <3>1. ReadVersion \/ CreateSchema => migAt' # 0
      BY <2>4, PlanShape DEF ReadVersion, CreateSchema, Forward
    <3>2. Commit \/ BeginRebuild \/ Stamp => migAt' # 0
      <4>1. Commit \/ BeginRebuild \/ Stamp => Forward(1)
        BY DEF Commit, BeginRebuild, Stamp
      <4> QED
        BY <2>4, <4>1 DEF Forward
    <3>3. \A c : AddColumn(c) \/ CarryValues(c) \/ DropColumn(c) => migAt' # 0
      BY <2>4 DEF AddColumn, CarryValues, DropColumn, Forward
    <3>4. \A t : RenameTable(t) \/ CreateTable(t) \/ CopyRows(t) \/ RemoveOld(t)
                   => migAt' # 0
      BY <2>4 DEF RenameTable, CreateTable, CopyRows, RemoveOld, Forward
    <3> QED
      BY <1>3, <3>1, <3>2, <3>3, <3>4 DEF Migrate, MigrationNext
  <2>6. StartIsInOrder'
    BY <2>1, <2>4, <2>5 DEF IInv, StartIsInOrder
  <2> QED
    BY <2>2, <2>3, <2>6 DEF IInv
<1>4. CASE CreateToken \/ WriteToken
  <2>1. DatabaseInv'
    BY <1>4, DatabaseStays DEF IInv, CreateToken, WriteToken
  <2>2. ProcessTypeOK'
    BY <1>4 DEF IInv, ProcessTypeOK, CreateToken, WriteToken, transports
  <2>3. StartIsInOrder'
    BY <1>4, ReadyIsStamped
       DEF IInv, StartIsInOrder, CreateToken, WriteToken, transports, migrationVars
  <2> QED
    BY <2>1, <2>2, <2>3 DEF IInv
<1>5. CASE (TakeToken \/ ReadToken) /\ ~Ends
  <2>1. /\ proc = "loading" /\ proc' = "binding" /\ sweeper' = TRUE /\ migAt = 33
        /\ injected \/ tokenFile = "written"
        /\ UNCHANGED <<migrationVars, tokenVars, http, mcp, initialized, held, session, given>>
    BY <1>5, ReadyIsStamped DEF TakeToken, ReadToken, IInv, ProcessTypeOK
  <2>2. DatabaseInv'
    BY <2>1, DatabaseStays DEF IInv
  <2>3. ProcessTypeOK'
    BY <2>1 DEF IInv, ProcessTypeOK, tokenVars
  <2>4. StartIsInOrder'
    BY <2>1 DEF IInv, StartIsInOrder, tokenVars, migrationVars
  <2> QED
    BY <2>2, <2>3, <2>4 DEF IInv
<1>6. CASE Bind /\ ~Ends
  <2>1. DatabaseInv'
    BY <1>6, DatabaseStays DEF IInv, Bind
  <2>2. ProcessTypeOK'
    BY <1>6 DEF IInv, ProcessTypeOK, Bind, tokenVars
  <2>3. StartIsInOrder'
    BY <1>6 DEF IInv, StartIsInOrder, Bind, tokenVars, migrationVars
  <2> QED
    BY <2>1, <2>2, <2>3 DEF IInv
<1>7. CASE StartMcp
  <2>1. DatabaseInv'
    BY <1>7, DatabaseStays DEF IInv, StartMcp
  <2>2. ProcessTypeOK'
    BY <1>7 DEF IInv, ProcessTypeOK, StartMcp, tokenVars
  <2>3. StartIsInOrder'
    BY <1>7 DEF IInv, StartIsInOrder, StartMcp, tokenVars, migrationVars
  <2> QED
    BY <2>1, <2>2, <2>3 DEF IInv
<1>8. CASE Ends
  BY <1>8, EndsKeeps
<1> QED
  BY <1>1, <1>2, <1>3, <1>4, <1>5, <1>6, <1>7, <1>8 DEF StartStep, MigrationFails

(* The steps of service and of shutdown, but for an event.                  *)
LEMMA ServiceKeeps ==
  ASSUME IInv,
         \/ Initialize \/ CallTool \/ CallReturns \/ CloseSession
         \/ StopSignal \/ StopStep \/ Kill
  PROVE  IInv'
<1>1. CASE Initialize \/ CallTool \/ CallReturns
  <2>1. DatabaseInv'
    BY <1>1, DatabaseStays DEF IInv, Initialize, CallTool, CallReturns
  <2>2. ProcessTypeOK'
    BY <1>1 DEF IInv, ProcessTypeOK, Initialize, CallTool, CallReturns, tokenVars
  <2>3. StartIsInOrder'
    BY <1>1
       DEF IInv, StartIsInOrder, Initialize, CallTool, CallReturns, tokenVars, migrationVars
  <2> QED
    BY <2>1, <2>2, <2>3 DEF IInv
<1>2. CASE CloseSession
  <2>1. DatabaseInv'
    BY <1>2, DatabaseStays DEF IInv, CloseSession
  <2>2. ProcessTypeOK'
    BY <1>2 DEF IInv, ProcessTypeOK, CloseSession, tokenVars, transports
  <2>3. StartIsInOrder'
    BY <1>2 DEF IInv, StartIsInOrder, CloseSession, tokenVars, transports, migrationVars
  <2> QED
    BY <2>1, <2>2, <2>3 DEF IInv
<1>3. CASE StopSignal \/ StopHttp
  <2>1. DatabaseInv'
    BY <1>3, DatabaseStays DEF IInv, StopSignal, StopHttp
  <2>2. ProcessTypeOK'
    BY <1>3 DEF IInv, ProcessTypeOK, StopSignal, StopHttp, tokenVars
  <2>3. StartIsInOrder'
    BY <1>3 DEF IInv, StartIsInOrder, StopSignal, StopHttp, tokenVars, migrationVars
  <2> QED
    BY <2>1, <2>2, <2>3 DEF IInv
<1>4. CASE McpEnds \/ CancelMcp
  <2>1. DatabaseInv'
    BY <1>4, DatabaseStays DEF IInv, McpEnds, CancelMcp
  <2>2. ProcessTypeOK'
    BY <1>4 DEF IInv, ProcessTypeOK, McpEnds, CancelMcp, tokenVars
  <2>3. StartIsInOrder'
    BY <1>4 DEF IInv, StartIsInOrder, McpEnds, CancelMcp, tokenVars, migrationVars
  <2> QED
    BY <2>1, <2>2, <2>3 DEF IInv
<1>5. CASE Kill \/ Exit
  BY <1>5, EndsKeeps DEF Kill, Exit
<1> QED
  BY <1>1, <1>2, <1>3, <1>4, <1>5 DEF StopStep

(* Every step of the process keeps the invariant.                           *)
LEMMA NextKeeps ==
  ASSUME IInv, [Next]_vars
  PROVE  IInv'
<1>1. CASE UNCHANGED vars
  <2>1. DatabaseInv'
    BY <1>1, DatabaseStays DEF IInv, vars, hubVars
  <2>2. ProcessTypeOK'
    BY <1>1 DEF IInv, ProcessTypeOK, vars, hubVars, tokenVars
  <2>3. StartIsInOrder'
    BY <1>1 DEF IInv, StartIsInOrder, vars, hubVars, tokenVars, migrationVars
  <2> QED
    BY <2>1, <2>2, <2>3 DEF IInv
<1>2. CASE AppendEvent
  BY <1>2, AppendEventKeeps
<1> QED
  BY <1>1, <1>2, StartKeeps, ServiceKeeps DEF Next, HubStep

-------------------------------------------------------------------------------
(* What holds of every hub, whoever starts and ends it *)

(* The database, the connection and the process satisfy the invariant.      *)
THEOREM HubInductiveInvariant == Spec => []IInv
<1>1. Init => IInv
  BY InitInv
<1>2. IInv /\ [Next]_vars => IInv'
  BY NextKeeps
<1> QED
  BY <1>1, <1>2, PTL DEF Spec

(* Every variable holds a value of its type.                                *)
THEOREM HubTypeCorrect == Spec => []TypeOK
<1>1. IInv => TypeOK
  <2> SUFFICES ASSUME IInv PROVE TypeOK
    OBVIOUS
  <2>1. /\ disk.version \in 0..SchemaVersion /\ mem.version \in 0..SchemaVersion
        /\ disk.drifted \subseteq TableNames /\ mem.drifted \subseteq TableNames
        /\ disk.mark \in Nat /\ mem.mark \in Nat
    BY DEF IInv, DatabaseInv, DatabaseTypeOK, DatabaseType
  <2>2. txn \in BOOLEAN /\ high \in Nat /\ migAt \in 0..33
    BY DEF IInv, DatabaseInv, DatabaseTypeOK
  <2>3. MigrationTypeOK
    BY <2>1, <2>2, PlanShape DEF MigrationTypeOK
  <2> QED
    BY <2>3 DEF TypeOK, IInv, ProcessTypeOK
<1> QED
  BY <1>1, HubInductiveInvariant, PTL

(* A database that claims to be current is whole, wherever in the plan      *)
(* earlier starts died: the version is stamped after the rebuild was        *)
(* committed as one transaction (database.py, initialize_database).         *)
THEOREM WholeWhenCurrent == Spec => []CurrentIsWhole
<1>1. IInv => CurrentIsWhole
  <2> SUFFICES ASSUME IInv, disk.version = SchemaVersion
               PROVE  /\ disk.schema = 4 /\ disk.cols = ColumnsOf(12)
                      /\ disk.drifted = {}
                      /\ \A t \in TableNames : disk.rows[t] = "home"
                      /\ {"harness", "state"} \subseteq disk.carried
    BY PlanShape DEF CurrentIsWhole, SchemaVersion
  <2>1. Sound(disk) /\ disk.rows = [t \in TableNames |-> "home"]
    BY DEF IInv, DatabaseInv, DatabasesAreSound
  <2>2. Whole(disk) /\ disk.schema = 4
    BY <2>1 DEF Sound, SchemaVersion
  <2> QED
    BY <2>1, <2>2, ColumnFacts DEF Whole
<1> QED
  BY <1>1, HubInductiveInvariant, PTL

(* Workers are answered only from a current database, with a known token    *)
(* and event ids never given before: the lifespan makes them ready before   *)
(* the port is bound (app.py, the lifespan; main.py, run_hub).              *)
THEOREM ReadyBeforeService == Spec => []ServesReadyState
<1>1. IInv => ServesReadyState
  BY DEF IInv, StartIsInOrder, ServesReadyState, DatabaseInv, AlterationsAreMade,
         DatabasesAreSound, MarkIsKept
<1> QED
  BY <1>1, HubInductiveInvariant, PTL

(* What a crash may find, between any two statements of any start: every    *)
(* table under its own name, a value in its old column or carried to its    *)
(* new one, and the mark of the last event id given.                        *)
NothingIsLost ==
    /\ \A t \in Range(Tables) : disk.rows[t] = "home"
    /\ "harness" \in disk.carried \/ "runtime" \in disk.cols
    /\ "state" \in disk.carried \/ "consumed" \in disk.cols
    /\ disk.mark = given

(* No crash of a start, at any statement, loses rows, a harness, a consumed *)
(* flag or an event id (database.py, the rebuild and its transaction).      *)
THEOREM CrashLosesNothing == Spec => []NothingIsLost
<1>1. IInv => NothingIsLost
  <2> SUFFICES ASSUME IInv PROVE NothingIsLost
    OBVIOUS
  <2>1. Sound(disk) /\ disk.rows = [t \in TableNames |-> "home"] /\ disk.mark = given
    BY DEF IInv, DatabaseInv, DatabasesAreSound, MarkIsKept
  <2> QED
    BY <2>1, PlanShape DEF NothingIsLost, Sound
<1> QED
  BY <1>1, HubInductiveInvariant, PTL

(* The sweeper's loop, which writes to the database by itself, runs only    *)
(* once the plan has been followed to its end.                              *)
SweepsReadyState == sweeper => DatabaseReady /\ disk.version = SchemaVersion

(* The sweeper never meets a database that is being migrated, though it is  *)
(* started by the same lifespan (app.py, the lifespan).                     *)
THEOREM ReadyBeforeSweep == Spec => []SweepsReadyState
<1>1. IInv => SweepsReadyState
  BY ReadyIsStamped
     DEF IInv, StartIsInOrder, SweepsReadyState, DatabaseInv, AlterationsAreMade,
         DatabasesAreSound
<1> QED
  BY <1>1, HubInductiveInvariant, PTL

(* A step that moves the mark of the database gives the next id.            *)
GivesNextId == disk'.mark # disk.mark => disk'.mark = given + 1 /\ given' = given + 1

(* Migrations and crashes never move the mark that event ids are given      *)
(* from: only an event does, to an id never given before (AUTOINCREMENT;    *)
(* the sequence restored by the rebuild, database.py).                      *)
THEOREM EventIdsAreNew == Spec => [][GivesNextId]_vars
<1>1. IInv /\ [Next]_vars => [GivesNextId]_vars
  <2> SUFFICES ASSUME IInv, [Next]_vars PROVE GivesNextId
    OBVIOUS
  <2>1. CASE AppendEvent
    BY <2>1, AppendEventKeeps DEF GivesNextId
  <2>2. CASE UNCHANGED given
    <3>1. disk.mark = given /\ disk'.mark = given'
      BY NextKeeps DEF IInv, DatabaseInv, MarkIsKept
    <3> QED
      BY <2>2, <3>1 DEF GivesNextId
  <2>3. ~AppendEvent => UNCHANGED given
    BY DEF Next, HubStep, StartStep, StopStep, Launch, CloseSession, ReadSettings, Migrate,
           MigrationFails, CreateToken, WriteToken, TakeToken, ReadToken, Bind, StartMcp,
           Initialize, CallTool, CallReturns, StopSignal, McpEnds, StopHttp, CancelMcp, Exit,
           Kill, Ends, vars, hubVars
  <2> QED
    BY <2>1, <2>2, <2>3
<1> QED
  BY <1>1, HubInductiveInvariant, PTL DEF Spec

(* Only the stamp, on a database that is whole, changes the version.        *)
VersionIsEarned ==
    disk'.version # disk.version => disk'.version = SchemaVersion /\ Whole(disk')

(* A step changes the version only to the current one.                      *)
LEMMA VersionStep ==
  ASSUME IInv, [Next]_vars
  PROVE  VersionIsEarned
<1>1. IInv'
  BY NextKeeps
<1>2. /\ disk \in DatabaseType /\ mem \in DatabaseType
      /\ disk.version = mem.version /\ disk'.version = mem'.version
      /\ Sound(disk')
  BY <1>1 DEF IInv, DatabaseInv, DatabaseTypeOK, DatabasesAreSound
<1>3. SUFFICES disk'.version = disk.version \/ disk'.version = SchemaVersion
  BY <1>2 DEF VersionIsEarned, Sound
<1>4. CASE Migrate
  <2>1. ReadVersion \/ Commit \/ BeginRebuild => mem'.version = mem.version
    BY DEF ReadVersion, Commit, BeginRebuild
  <2>2. CreateSchema => mem'.version = mem.version
    BY <1>2 DEF CreateSchema, Schema, DatabaseType
  <2>3. Stamp => mem'.version = SchemaVersion
    BY <1>2 DEF Stamp, Schema, DatabaseType
  <2>4. \A c : AddColumn(c) \/ CarryValues(c) \/ DropColumn(c) => mem'.version = mem.version
    BY <1>2 DEF AddColumn, CarryValues, DropColumn, Schema, Rows, DatabaseType
  <2>5. \A t : RenameTable(t) \/ CreateTable(t) \/ CopyRows(t) \/ RemoveOld(t)
                 => mem'.version = mem.version
    BY <1>2 DEF RenameTable, CreateTable, CopyRows, RemoveOld, Schema, Rows, DatabaseType
  <2> QED
    BY <1>2, <1>4, <2>1, <2>2, <2>3, <2>4, <2>5 DEF Migrate, MigrationNext
<1>5. CASE AppendEvent
  <2>1. disk' = [disk EXCEPT !.mark = disk.mark + 1]
    BY <1>5 DEF AppendEvent
  <2> QED
    BY <1>2, <2>1 DEF DatabaseType
<1>6. ~Migrate /\ ~AppendEvent => UNCHANGED disk
  BY DEF Next, HubStep, StartStep, StopStep, Launch, CloseSession, ReadSettings,
         MigrationFails, CreateToken, WriteToken, TakeToken, ReadToken, Bind, StartMcp,
         Initialize, CallTool, CallReturns, StopSignal, McpEnds, StopHttp, CancelMcp, Exit,
         Kill, Ends, vars, migrationVars
<1> QED
  BY <1>4, <1>5, <1>6

(* No step of any hub sets a version back, and none sets the current one    *)
(* before what it stands for is done (database.py, PRAGMA user_version).    *)
THEOREM StampedWhenWhole == Spec => [][VersionIsEarned]_vars
<1>1. IInv /\ [Next]_vars => [VersionIsEarned]_vars
  BY VersionStep
<1> QED
  BY <1>1, HubInductiveInvariant, PTL DEF Spec

-------------------------------------------------------------------------------
(* The hub under its supervisors *)

(* A step of a supervisor leaves the hub alone, launches it, or closes its  *)
(* session; the hub's own steps are those it takes without one.             *)
LEMMA SupervisedStep ==
  ASSUME [SupervisionNext]_allVars
  PROVE  [Next]_vars
<1>1. CASE HubAlone
  BY <1>1 DEF HubAlone, Next
<1>2. CASE OpenThread
  BY <1>2 DEF OpenThread, Next
<1>3. CASE StopRuntime \/ RuntimeAlone \/ RuntimeDies
  BY <1>3 DEF StopRuntime, RuntimeAlone, RuntimeDies, RuntimeEnds, Next
<1>4. CASE StartAlice \/ OpenThreadFails \/ EndTurn \/ AfterTurn \/ ReleaseObserved
           \/ DeadlinePasses \/ InitializeWorkflow \/ SupervisorDies
  BY <1>4 DEF StartAlice, OpenThreadFails, EndTurn, AfterTurn, ReleaseObserved, DeadlinePasses,
              InitializeWorkflow, SupervisorDies
<1>5. ASSUME NEW status, SetWorkflowStatus(status) PROVE UNCHANGED vars
  BY <1>5 DEF SetWorkflowStatus
<1>6. ASSUME NEW w, ReleaseAgent(w) \/ StartWorker(w) \/ CheckIn(w) \/ HearRelease(w)
                    \/ StopWorker(w)
      PROVE  UNCHANGED vars
  BY <1>6 DEF ReleaseAgent, StartWorker, CheckIn, HearRelease, StopWorker
<1>7. CASE UNCHANGED allVars
  BY <1>7 DEF allVars
<1> QED
  BY <1>1, <1>2, <1>3, <1>4, <1>5, <1>6, <1>7 DEF SupervisionNext, SupervisorStep

(* Supervision implements the hub process: whatever holds of a hub that is  *)
(* started and killed at any moment holds of the one a run has              *)
(* (step6_launch.py).                                                       *)
THEOREM SupervisedHubIsAHub == SupervisionSpec => Spec
<1>1. SupervisionInit => Init
  BY DEF SupervisionInit
<1>2. [SupervisionNext]_allVars => [Next]_vars
  BY SupervisedStep
<1> QED
  BY <1>1, <1>2, PTL DEF SupervisionSpec, Spec

(* The hub of a run is never served, and its database never claims to be    *)
(* current, before it is ready, however its supervisors and its runtime     *)
(* come and go.                                                             *)
THEOREM SupervisedHubIsReady == SupervisionSpec => [](CurrentIsWhole /\ ServesReadyState)
BY SupervisedHubIsAHub, WholeWhenCurrent, ReadyBeforeService, PTL

SupervisorTypeOK ==
    /\ runtime \in BOOLEAN
    /\ alice \in {"off", "serving", "turn", "ended", "releasing", "closing"}
    /\ workflow \in {"none", "active", "done", "halted"}
    /\ agent \in [Workers -> {"absent", "live", "released"}]
    /\ worker \in [Workers -> {"off", "turn"}]
    /\ told \in [Workers -> {"no", "before", "now"}]

(* The pipes of a session are a live runtime's, and no hub is there when    *)
(* one is about to be launched.                                             *)
HubIsOfRuntime ==
    /\ session = "open" => runtime
    /\ alice = "serving" => session = "none"

(* Alice's supervisor waits for releases only when the workflow is done,    *)
(* and a release in a worker's telemetry is one that the hub recorded.      *)
ReleasesAreReal ==
    /\ alice = "releasing" => workflow = "done"
    /\ \A w \in Workers :
          /\ told[w] # "no" => agent[w] = "released"
          /\ told[w] = "now" => worker[w] = "turn"

(* What the run has recorded is in a current database, and so it is when    *)
(* the supervisor reads the status without the hub.                         *)
RecordsAreCurrent ==
    /\ workflow # "none" => disk.version = SchemaVersion
    /\ \A w \in Workers : agent[w] # "absent" => disk.version = SchemaVersion

SupervisionInv ==
    /\ SupervisorTypeOK
    /\ HubIsOfRuntime
    /\ ReleasesAreReal
    /\ RecordsAreCurrent

(* The hub is served from a current database, which stays current.          *)
LEMMA CurrentStays ==
  ASSUME IInv, [Next]_vars
  PROVE  /\ http # "off" => disk.version = SchemaVersion
         /\ mcp # "off" => disk.version = SchemaVersion
         /\ disk.version = SchemaVersion => disk'.version = SchemaVersion
<1>1. http # "off" => disk.version = SchemaVersion
  BY DEF IInv, StartIsInOrder, DatabaseInv, AlterationsAreMade, DatabasesAreSound
<1>2. mcp # "off" => http # "off"
  BY DEF IInv, StartIsInOrder
<1>3. disk.version = SchemaVersion => disk'.version = SchemaVersion
  BY VersionStep DEF VersionIsEarned
<1> QED
  BY <1>1, <1>2, <1>3

(* The hub's own steps leave its session or end it.                         *)
LEMMA SessionOnlyEnds ==
  ASSUME HubStep
  PROVE  session' \in {session, "none"}
BY DEF HubStep, StartStep, StopStep, ReadSettings, Migrate,
       MigrationFails, CreateToken, WriteToken, TakeToken, ReadToken, Bind, StartMcp,
       Initialize, CallTool, CallReturns, AppendEvent, StopSignal, McpEnds, StopHttp,
       CancelMcp, Exit, Kill, Ends, hubVars

(* A step of Alice's supervisor or her runtime.                             *)
LEMMA AliceKeeps ==
  ASSUME IInv, SupervisionInv, disk.version = SchemaVersion => disk'.version = SchemaVersion,
         \/ StartAlice \/ SupervisorStep \/ SupervisorDies \/ RuntimeDies
  PROVE  SupervisionInv'
<1>1. UNCHANGED <<workflow, agent, worker, told>>
  BY DEF StartAlice, SupervisorStep, SupervisorDies, RuntimeDies, OpenThread, OpenThreadFails,
         EndTurn, AfterTurn, ReleaseObserved, DeadlinePasses, StopRuntime, RuntimeAlone,
         workerVars
<1>2. RecordsAreCurrent'
  BY <1>1 DEF SupervisionInv, RecordsAreCurrent
<1>3. CASE StartAlice
  <2>1. session = "none" /\ session' = session /\ runtime' = TRUE /\ alice' = "serving"
    BY <1>3 DEF StartAlice, IInv, StartIsInOrder, vars, hubVars
  <2> QED
    BY <1>1, <1>2, <2>1
       DEF SupervisionInv, SupervisorTypeOK, HubIsOfRuntime, ReleasesAreReal
<1>4. CASE OpenThread
  <2>1. runtime = TRUE /\ runtime' = TRUE /\ alice' = "turn"
    BY <1>4 DEF OpenThread, SupervisionInv, SupervisorTypeOK
  <2> QED
    BY <1>1, <1>2, <2>1
       DEF SupervisionInv, SupervisorTypeOK, HubIsOfRuntime, ReleasesAreReal
<1>5. CASE AfterTurn
  <2>1. /\ session' = session /\ runtime' = runtime
        /\ alice' \in {"closing", "releasing", "turn"}
        /\ alice' = "releasing" => workflow = "done"
    BY <1>5 DEF AfterTurn, vars, hubVars
  <2> QED
    BY <1>1, <1>2, <2>1
       DEF SupervisionInv, SupervisorTypeOK, HubIsOfRuntime, ReleasesAreReal
<1>6. CASE \/ OpenThreadFails \/ EndTurn \/ ReleaseObserved \/ DeadlinePasses
           \/ SupervisorDies
  <2>1. session' = session /\ runtime' = runtime /\ alice' \in {"closing", "ended", "off"}
    BY <1>6
       DEF OpenThreadFails, EndTurn, ReleaseObserved, DeadlinePasses, SupervisorDies, vars,
           hubVars
  <2> QED
    BY <1>1, <1>2, <2>1
       DEF SupervisionInv, SupervisorTypeOK, HubIsOfRuntime, ReleasesAreReal
<1>7. CASE StopRuntime \/ RuntimeAlone \/ RuntimeDies
  <2>1. runtime' = FALSE /\ alice' \in {alice, "off"}
    BY <1>7 DEF StopRuntime, RuntimeAlone, RuntimeDies, RuntimeEnds
  <2>2. session' # "open" /\ (session = "none" => session' = "none")
    BY <1>7 DEF StopRuntime, RuntimeAlone, RuntimeDies, RuntimeEnds, CloseSession, vars, hubVars
  <2> QED
    BY <1>1, <1>2, <2>1, <2>2
       DEF SupervisionInv, SupervisorTypeOK, HubIsOfRuntime, ReleasesAreReal
<1> QED
  BY <1>3, <1>4, <1>5, <1>6, <1>7 DEF SupervisorStep

(* A call of Alice's, or a step of a worker.                                *)
LEMMA RunKeeps ==
  ASSUME IInv, SupervisionInv,
         http # "off" => disk.version = SchemaVersion,
         mcp # "off" => disk.version = SchemaVersion,
         \/ InitializeWorkflow
         \/ \E status \in {"active", "halted", "done"} : SetWorkflowStatus(status)
         \/ \E w \in Workers :
                \/ ReleaseAgent(w) \/ StartWorker(w) \/ CheckIn(w) \/ HearRelease(w)
                \/ StopWorker(w)
  PROVE  SupervisionInv'
<1>1. UNCHANGED <<disk, session, runtime, alice>>
  BY DEF InitializeWorkflow, SetWorkflowStatus, ReleaseAgent, StartWorker, CheckIn, HearRelease,
         StopWorker, vars, hubVars, migrationVars, aliceVars
<1>2. CASE InitializeWorkflow
  <2>1. /\ alice # "releasing" /\ disk.version = SchemaVersion /\ workflow' = "active"
        /\ UNCHANGED <<agent, worker, told>>
    BY <1>2 DEF InitializeWorkflow, HasTools, workerVars
  <2> QED
    BY <1>1, <2>1
       DEF SupervisionInv, SupervisorTypeOK, HubIsOfRuntime, ReleasesAreReal, RecordsAreCurrent
<1>3. ASSUME NEW status \in {"active", "halted", "done"}, SetWorkflowStatus(status)
      PROVE  SupervisionInv'
  <2>1. /\ alice # "releasing" /\ disk.version = SchemaVersion /\ workflow' = status
        /\ UNCHANGED <<agent, worker, told>>
    BY <1>3 DEF SetWorkflowStatus, HasTools, workerVars
  <2> QED
    BY <1>1, <2>1
       DEF SupervisionInv, SupervisorTypeOK, HubIsOfRuntime, ReleasesAreReal, RecordsAreCurrent
<1>4. ASSUME NEW w \in Workers, ReleaseAgent(w) \/ CheckIn(w)
      PROVE  SupervisionInv'
  <2>1. disk.version = SchemaVersion /\ UNCHANGED <<workflow, worker, told>>
    BY <1>4 DEF ReleaseAgent, CheckIn, HasTools, workerVars
  <2>2. /\ agent' \in [Workers -> {"absent", "live", "released"}]
        /\ \A u \in Workers : agent[u] = "released" => agent'[u] = "released"
    BY <1>4 DEF ReleaseAgent, CheckIn, SupervisionInv, SupervisorTypeOK
  <2> QED
    BY <1>1, <2>1, <2>2
       DEF SupervisionInv, SupervisorTypeOK, HubIsOfRuntime, ReleasesAreReal, RecordsAreCurrent
<1>5. ASSUME NEW w \in Workers, StartWorker(w)
      PROVE  SupervisionInv'
  <2>1. UNCHANGED <<workflow, agent, told>> /\ worker' = [worker EXCEPT ![w] = "turn"]
    BY <1>5 DEF StartWorker
  <2> QED
    BY <1>1, <2>1
       DEF SupervisionInv, SupervisorTypeOK, HubIsOfRuntime, ReleasesAreReal, RecordsAreCurrent
<1>6. ASSUME NEW w \in Workers, HearRelease(w)
      PROVE  SupervisionInv'
  <2>1. /\ UNCHANGED <<workflow, agent, worker>> /\ told' = [told EXCEPT ![w] = "now"]
        /\ agent[w] = "released" /\ worker[w] = "turn"
    BY <1>6 DEF HearRelease
  <2> QED
    BY <1>1, <2>1
       DEF SupervisionInv, SupervisorTypeOK, HubIsOfRuntime, ReleasesAreReal, RecordsAreCurrent
<1>7. ASSUME NEW w \in Workers, StopWorker(w)
      PROVE  SupervisionInv'
  <2>1. /\ UNCHANGED <<workflow, agent>>
        /\ worker' = [worker EXCEPT ![w] = "off"]
        /\ told' = [told EXCEPT ![w] = IF told[w] = "now" THEN "before" ELSE told[w]]
    BY <1>7 DEF StopWorker
  <2> QED
    BY <1>1, <2>1
       DEF SupervisionInv, SupervisorTypeOK, HubIsOfRuntime, ReleasesAreReal, RecordsAreCurrent
<1> QED
  BY <1>2, <1>3, <1>4, <1>5, <1>6, <1>7

(* Whoever dies and is launched again, Alice's supervisor included: a hub   *)
(* with a session has a live runtime, a launch finds no hub, releases are   *)
(* waited for only once the workflow is done and heard only as recorded,    *)
(* and what the run has recorded never waits for a migration                *)
(* (step6_launch.py, the supervisors' loops and wait_for_worker_release).   *)
THEOREM SupervisionInOrder == SupervisionSpec => []SupervisionInv
<1>1. SupervisionInit => SupervisionInv
  BY DEF SupervisionInit, Init, SupervisionInv, SupervisorTypeOK, HubIsOfRuntime,
         ReleasesAreReal, RecordsAreCurrent
<1>2. IInv /\ SupervisionInv /\ [SupervisionNext]_allVars => SupervisionInv'
  <2> SUFFICES ASSUME IInv, SupervisionInv, [SupervisionNext]_allVars
               PROVE  SupervisionInv'
    OBVIOUS
  <2>1. /\ http # "off" => disk.version = SchemaVersion
        /\ mcp # "off" => disk.version = SchemaVersion
        /\ disk.version = SchemaVersion => disk'.version = SchemaVersion
    BY SupervisedStep, CurrentStays
  <2>2. CASE HubAlone
    <3>1. session' \in {session, "none"} /\ UNCHANGED <<runtime, alice, workflow, agent, worker, told>>
      BY <2>2, SessionOnlyEnds DEF HubAlone, supervisors, aliceVars, workerVars
    <3> QED
      BY <2>1, <3>1
         DEF SupervisionInv, SupervisorTypeOK, HubIsOfRuntime, ReleasesAreReal,
             RecordsAreCurrent
  <2>3. CASE UNCHANGED allVars
    <3>1. UNCHANGED <<disk, session, runtime, alice, workflow, agent, worker, told>>
      BY <2>3 DEF allVars, vars, hubVars, migrationVars, supervisors, aliceVars, workerVars
    <3> QED
      BY <3>1
         DEF SupervisionInv, SupervisorTypeOK, HubIsOfRuntime, ReleasesAreReal,
             RecordsAreCurrent
  <2> QED
    BY <2>1, <2>2, <2>3, AliceKeeps, RunKeeps DEF SupervisionNext
<1>3. SupervisionSpec => []IInv
  BY SupervisedHubIsAHub, HubInductiveInvariant, PTL
<1> QED
  BY <1>1, <1>2, <1>3, PTL DEF SupervisionSpec

===============================================================================
