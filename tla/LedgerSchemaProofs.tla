------------------------- MODULE LedgerSchemaProofs -------------------------
(***************************************************************************)
(* Theorems about LedgerSchema, for any number of commands: on any file if *)
(* commands open an older one in turn, and without that assumption on any  *)
(* file that has no older table.                                           *)
(***************************************************************************)
EXTENDS LedgerSchema, TLAPS

LEMMA ViewIsDatabase ==
  ASSUME SchemaTypeOK, NEW p
  PROVE  View(p) \in Database
BY DEF SchemaTypeOK, View

LEMMA ShapeInDatabase ==
  ASSUME NEW d \in Database, NEW o \in Object, NEW s \in Shape
  PROVE  WithShape(d, o, s) \in Database
BY DEF WithShape, Database

LEMMA DroppedIsDatabase ==
  ASSUME NEW d \in Database
  PROVE  DropMessages(d) \in Database /\ DropIncidents(d) \in Database
<1>1. /\ {"alert_messages", "alert_incidents", "idx_open_incident"} \subseteq Object
      /\ "absent" \in Shape
  BY DEF Object, Shape
<1>2. WithShape(d, "alert_messages", "absent") \in Database
  BY <1>1, ShapeInDatabase
<1>3. WithShape(WithShape(d, "alert_incidents", "absent"), "idx_open_incident", "absent")
        \in Database
  BY <1>1, ShapeInDatabase
<1>4. NoMessages \in [Alert -> Alert \cup {NoTask, NoRow}]
  BY DEF NoMessages
<1> QED
  BY <1>2, <1>3, <1>4 DEF DropMessages, DropIncidents, Database

LEMMA ClearedIsDatabase ==
  ASSUME NEW d \in Database
  PROVE  ClearTasks(d) \in Database
<1>1. [a \in Alert |-> IF d.task[a] = NoRow THEN NoRow ELSE NoTask]
        \in [Alert -> Alert \cup {NoTask, NoRow}]
  OBVIOUS
<1> QED
  BY <1>1 DEF ClearTasks, Database

-----------------------------------------------------------------------------
(* The statements *)

(* What every statement of a process keeps, wherever it goes next. *)
DataOK ==
  /\ db \in Database /\ draft \in Database
  /\ writer \in Process \cup {Nobody}
  /\ crashes \in 0..MaxCrashes
  /\ writer = Nobody => draft = db

LEMMA WriteTypes ==
  ASSUME SchemaTypeOK, NEW p \in Process, NEW d \in Database, Write(p, d)
  PROVE  DataOK'
BY NamesAssumption DEF SchemaTypeOK, Write, DataOK

LEMMA BeginWriteTypes ==
  ASSUME SchemaTypeOK, NEW p \in Process, NEW d \in Database, BeginWrite(p, d)
  PROVE  DataOK'
BY NamesAssumption DEF SchemaTypeOK, BeginWrite, DataOK

LEMMA StopTypes ==
  ASSUME SchemaTypeOK, NEW p \in Process, Stop(p), crashes' \in 0..MaxCrashes
  PROVE  DataOK' /\ pc' \in [Process -> PC]
BY DEF SchemaTypeOK, Stop, Goto, DataOK, PC

LEMMA GotoTypes ==
  ASSUME SchemaTypeOK, NEW p \in Process, NEW next \in PC, Goto(p, next)
  PROVE  pc' \in [Process -> PC]
BY DEF SchemaTypeOK, Goto

LEMMA SameTypes ==
  ASSUME SchemaTypeOK, UNCHANGED <<db, writer, draft, crashes>>
  PROVE  DataOK'
BY DEF SchemaTypeOK, DataOK

LEMMA CreateTypes ==
  ASSUME SchemaTypeOK, NEW p \in Process, NEW o \in Object, NEW next \in PC,
         Create(p, o, next) \/ Ensure(p, o, next)
  PROVE  DataOK' /\ pc' \in [Process -> PC]
<1>1. WithShape(View(p), o, "current") \in Database
  BY ViewIsDatabase, ShapeInDatabase DEF Shape
<1>2. CASE Write(p, WithShape(View(p), o, "current")) /\ Goto(p, next)
  BY <1>1, <1>2, WriteTypes, GotoTypes
<1>3. CASE UNCHANGED <<db, writer, draft, crashes>> /\ Goto(p, next)
  BY <1>3, SameTypes, GotoTypes
<1>4. CASE Stop(p) /\ UNCHANGED crashes
  BY <1>4, StopTypes DEF SchemaTypeOK
<1> QED
  BY <1>2, <1>3, <1>4 DEF Create, Ensure

LEMMA DropTypes ==
  ASSUME SchemaTypeOK, NEW p \in Process, NEW o, NEW d \in Database, NEW next \in PC,
         Drop(p, o, d, next)
  PROVE  DataOK' /\ pc' \in [Process -> PC]
<1>1. CASE Write(p, d) /\ Goto(p, next)
  BY <1>1, WriteTypes, GotoTypes
<1>2. CASE Stop(p) /\ UNCHANGED crashes
  BY <1>2, StopTypes DEF SchemaTypeOK
<1> QED
  BY <1>1, <1>2 DEF Drop

-----------------------------------------------------------------------------
(* Types *)

LEMMA InitTypes == Init => SchemaTypeOK
<1>1. ASSUME NEW s \in Start PROVE StartDatabase(s) \in Database
  <2>1. s[1] \in Shape /\ s[2] \in Shape
    BY StartAssumption
  <2> DEFINE shape == [o \in Object |-> CASE o = "alert_messages" -> s[1]
                                 [] o = "alert_incidents" -> s[2]
                                 [] o = "idx_open_incident" /\ s[2] = "current" -> "current"
                                 [] OTHER -> "absent"]
             task == [a \in Alert |->
               CASE a \in OldAlert /\ s[1] # "absent" /\ s[2] # "absent" -> a
                 [] a \in OldAlert /\ s = <<"legacy", "absent">> -> NoTask
                 [] OTHER -> NoRow]
             incidents == IF s[2] = "absent" THEN {} ELSE OldAlert
  <2>2. shape \in [Object -> Shape]
    BY <2>1 DEF Shape
  <2>3. task \in [Alert -> Alert \cup {NoTask, NoRow}]
    OBVIOUS
  <2>4. incidents \in SUBSET Alert
    BY AlertAssumption
  <2>5. StartDatabase(s) = [shape |-> shape, task |-> task, incidents |-> incidents]
    BY DEF StartDatabase
  <2> QED
    BY <2>2, <2>3, <2>4, <2>5 DEF Database
<1> QED
  BY <1>1, MaxCrashesAssumption DEF Init, SchemaTypeOK, PC

LEMMA StepTypes ==
  ASSUME SchemaTypeOK, [Next]_vars
  PROVE  SchemaTypeOK'
<1>1. SUFFICES DataOK' /\ pc' \in [Process -> PC]
  BY DEF DataOK, SchemaTypeOK
<1>2. ASSUME NEW p \in Process, Begin(p) \/ ReadColumns(p) \/ ReadIndexes(p) \/ ReadIncidents(p)
      PROVE  DataOK' /\ pc' \in [Process -> PC]
  <2>1. \E next \in PC : Goto(p, next)
    BY <1>2 DEF Begin, ReadColumns, ReadIndexes, ReadIncidents, PC
  <2>2. UNCHANGED <<db, writer, draft, crashes>>
    BY <1>2 DEF Begin, ReadColumns, ReadIndexes, ReadIncidents
  <2> QED
    BY <2>1, <2>2, GotoTypes, SameTypes
<1>3. ASSUME NEW p \in Process, DropOldMessages(p) \/ DropOldIncidents(p)
      PROVE  DataOK' /\ pc' \in [Process -> PC]
  BY <1>3, ViewIsDatabase, DroppedIsDatabase, DropTypes
  DEF DropOldMessages, DropOldIncidents, PC
<1>4. ASSUME NEW p \in Process, CreateMessages(p) \/ CreateIncidents(p)
      PROVE  DataOK' /\ pc' \in [Process -> PC]
  BY <1>4, CreateTypes DEF CreateMessages, CreateIncidents, PC, Object, Plain
<1>5. ASSUME NEW p \in Process, DefaultScope(p) \/ ForgetIncidents(p)
      PROVE  DataOK' /\ pc' \in [Process -> PC]
  <2>1. View(p) \in Database /\ ClearTasks(View(p)) \in Database
    BY ViewIsDatabase, ClearedIsDatabase
  <2>2. CASE Stop(p) /\ UNCHANGED crashes
    BY <2>2, StopTypes DEF SchemaTypeOK
  <2>3. CASE \E d \in Database, next \in {"alert_sources", "alert_side_effects"} :
               BeginWrite(p, d) /\ Goto(p, next)
    BY <2>3, BeginWriteTypes, GotoTypes DEF PC, Plain
  <2> QED
    BY <1>5, <2>1, <2>2, <2>3 DEF DefaultScope, ForgetIncidents
<1>6. ASSUME NEW p \in Process, EnsurePlain(p)
      PROVE  DataOK' /\ pc' \in [Process -> PC]
  <2>1. pc[p] \in Object /\ After(pc[p]) \in PC
    BY <1>6 DEF EnsurePlain, Plain, Object, After, PC
  <2> QED
    BY <1>6, <2>1, CreateTypes DEF EnsurePlain
<1>7. ASSUME NEW p \in Process, EnsureIndex(p)
      PROVE  DataOK' /\ pc' \in [Process -> PC]
  <2>1. CASE Stop(p) /\ UNCHANGED crashes
    BY <2>1, StopTypes DEF SchemaTypeOK
  <2>2. CASE \E next \in {"alert_side_effects", "clear_tasks"} :
               Ensure(p, "idx_open_incident", next)
    BY <2>2, CreateTypes DEF PC, Plain, Object
  <2> QED
    BY <1>7, <2>1, <2>2 DEF EnsureIndex
<1>8. ASSUME NEW p \in Process, Commit(p)
      PROVE  DataOK' /\ pc' \in [Process -> PC]
  <2>1. DataOK'
    BY <1>8 DEF Commit, SchemaTypeOK, DataOK
  <2> QED
    BY <1>8, <2>1, GotoTypes DEF Commit, PC
<1>9. ASSUME NEW p \in Process, Crash(p)
      PROVE  DataOK' /\ pc' \in [Process -> PC]
  <2>1. crashes' \in 0..MaxCrashes
    BY <1>9, MaxCrashesAssumption DEF Crash, SchemaTypeOK
  <2> QED
    BY <1>9, <2>1, StopTypes DEF Crash
<1>10. ASSUME NEW p \in Process, Work(p)
       PROVE  DataOK' /\ pc' \in [Process -> PC]
  <2>1. CASE Exit(p)
    BY <2>1, GotoTypes, SameTypes DEF Exit, PC
  <2>2. ASSUME NEW a \in Alert, IngestMessage(p, a)
        PROVE  DataOK' /\ pc' \in [Process -> PC]
    <3>1. PICK i \in Alert \cup {NoTask} : Write(p, [db EXCEPT !.task[a] = i])
      BY <2>2 DEF IngestMessage, SchemaTypeOK, Database
    <3>2. [db EXCEPT !.task[a] = i] \in Database
      BY DEF SchemaTypeOK, Database
    <3> QED
      BY <2>2, <3>1, <3>2, WriteTypes DEF IngestMessage, SchemaTypeOK
  <2>3. ASSUME NEW a \in Alert, OpenIncident(p, a)
        PROVE  DataOK' /\ pc' \in [Process -> PC]
    <3> DEFINE d == [db EXCEPT !.incidents = @ \cup {a},
                       !.task = [x \in Alert |-> IF @[x] = NoTask THEN a ELSE @[x]]]
    <3>1. d \in Database
      BY DEF SchemaTypeOK, Database
    <3> QED
      BY <2>3, <3>1, WriteTypes DEF OpenIncident, SchemaTypeOK
  <2> QED
    BY <1>10, <2>1, <2>2, <2>3 DEF Work
<1>11. CASE UNCHANGED vars
  BY <1>11, SameTypes DEF vars, SchemaTypeOK
<1> QED
  BY <1>2, <1>3, <1>4, <1>5, <1>6, <1>7, <1>8, <1>9, <1>10, <1>11 DEF Next, Step

(* Whatever is interrupted, the file and the transaction on it keep their *)
(* form, and without a transaction there is nothing uncommitted.          *)
THEOREM SchemaTypes == Spec => []SchemaTypeOK
BY InitTypes, StepTypes, PTL DEF Spec

-----------------------------------------------------------------------------
(* What a process knows of the file, from where it is in _init_db. *)

Before == {"down", "columns", "drop_messages", "create_messages"}

UpToScope == {"indexes", "default_scope"}

(* The objects that are there in their current shape. *)
Made(at) ==
  {o \in Object :
     /\ at \notin Before
     /\ \/ o = "alert_messages"
        \/ o = "alert_sources" /\ at \notin UpToScope \cup {"alert_sources"}
        \/ o = "alert_events" /\ at \notin UpToScope \cup {"alert_sources", "alert_events"}
        \/ /\ o = "alert_transitions"
           /\ at \notin UpToScope \cup {"alert_sources", "alert_events", "alert_transitions"}
        \/ /\ o = "alert_incidents"
           /\ at \in {"index", "reindex", "clear_tasks", "alert_side_effects",
                      "alert_event_incidents", "commit", "open"}
        \/ /\ o = "idx_open_incident"
           /\ at \in {"clear_tasks", "alert_side_effects", "alert_event_incidents", "commit",
                      "open"}
        \/ /\ o = "alert_side_effects"
           /\ at \in {"alert_event_incidents", "commit", "open"}
        \/ o = "alert_event_incidents" /\ at \in {"commit", "open"}}

(* A transaction is begun by the first UPDATE and ends at the commit. *)
Transaction == PC \ (Before \cup UpToScope \cup {"open"})

(* Only the two tables have an older shape; the index goes with its table. *)
Sound(d) ==
  /\ \A o \in Object : d.shape[o] = "legacy" => o \in {"alert_messages", "alert_incidents"}
  /\ d.shape["idx_open_incident"] = "current" => d.shape["alert_incidents"] = "current"

(* The incidents that messages name are there. *)
Named(d) ==
  d.shape["alert_incidents"] # "legacy" =>
    \A a \in Alert : d.task[a] \in d.incidents \cup {NoTask, NoRow}

(* From the file d to the file e: nothing that is current changes its shape, and *)
(* nothing becomes outdated.                                                     *)
Improves(d, e) ==
  \A o \in Object :
    /\ d.shape[o] = "current" => e.shape[o] = "current"
    /\ e.shape[o] = "legacy" => d.shape[o] = "legacy"

(* What current tables have is kept; of the messages whatever their shape is. *)
KeepsMessages(d, e) == \A a \in Alert : d.task[a] # NoRow => e.task[a] # NoRow

KeepsIncidents(d, e) ==
  d.shape["alert_incidents"] = "current" => d.incidents \subseteq e.incidents

Drafted == Improves(db, draft) /\ KeepsMessages(db, draft) /\ KeepsIncidents(db, draft)

(* Where a process may be that has made the messages anew. *)
Fresh == {"create_messages", "alert_sources", "alert_events", "alert_transitions",
          "incidents", "drop_incidents"}

Rebuilding == {"recreate_incidents", "reindex", "clear_tasks"}

NoMessage(d) == \A a \in Alert : d.task[a] = NoRow

Empty(d) == d.shape["alert_messages"] = "absent" => NoMessage(d)

Known(p) ==
  /\ writer = p => pc[p] \in Transaction /\ Drafted
  /\ \A o \in Made(pc[p]) : View(p).shape[o] = "current"
  /\ pc[p] = "drop_messages" => db.shape["alert_messages"] = "legacy"
  /\ pc[p] = "drop_incidents" => View(p).shape["alert_incidents"] = "legacy"
  /\ pc[p] \in Fresh /\ writer # p /\ db.shape["alert_incidents"] = "legacy" =>
       NoMessage(db)
  /\ writer = p /\ pc[p] \notin Rebuilding => Named(draft)

SchemaInv ==
  /\ SchemaTypeOK
  /\ Sound(db) /\ Sound(draft) /\ Named(db)
  /\ Empty(db)
  /\ TakeTurns
  /\ \A p \in Process : Known(p)

(* What RecordsKept says of a step. *)
Kept ==
  /\ db.shape["alert_messages"] = "current" => KeepsMessages(db, db')
  /\ db.shape["alert_incidents"] = "current" => db.incidents \subseteq db'.incidents

-----------------------------------------------------------------------------
(* Files *)

LEMMA ShapeChanged ==
  ASSUME NEW d \in Database, NEW o \in Object, NEW s \in Shape
  PROVE  /\ WithShape(d, o, s).task = d.task
         /\ WithShape(d, o, s).incidents = d.incidents
         /\ \A x \in Object : WithShape(d, o, s).shape[x] = IF x = o THEN s ELSE d.shape[x]
BY DEF WithShape, Database

LEMMA Dropped ==
  ASSUME NEW d \in Database
  PROVE  /\ DropMessages(d).task = NoMessages
         /\ DropMessages(d).incidents = d.incidents
         /\ \A x \in Object : DropMessages(d).shape[x] =
              IF x = "alert_messages" THEN "absent" ELSE d.shape[x]
         /\ DropIncidents(d).task = d.task
         /\ DropIncidents(d).incidents = {}
         /\ \A x \in Object : DropIncidents(d).shape[x] =
              IF x \in {"alert_incidents", "idx_open_incident"} THEN "absent" ELSE d.shape[x]
<1>1. {"alert_messages", "alert_incidents", "idx_open_incident"} \subseteq Object
  BY DEF Object
<1>2. "absent" \in Shape
  BY DEF Shape
<1>3. /\ WithShape(d, "alert_messages", "absent") \in Database
      /\ WithShape(d, "alert_incidents", "absent") \in Database
      /\ WithShape(WithShape(d, "alert_incidents", "absent"), "idx_open_incident", "absent")
           \in Database
  BY <1>1, <1>2, ShapeInDatabase
<1>4. /\ DropMessages(d).task = NoMessages
      /\ DropMessages(d).incidents = WithShape(d, "alert_messages", "absent").incidents
      /\ DropMessages(d).shape = WithShape(d, "alert_messages", "absent").shape
  BY <1>3 DEF DropMessages, Database
<1>5. /\ DropIncidents(d).incidents = {}
      /\ DropIncidents(d).task =
           WithShape(WithShape(d, "alert_incidents", "absent"), "idx_open_incident", "absent").task
      /\ DropIncidents(d).shape =
           WithShape(WithShape(d, "alert_incidents", "absent"), "idx_open_incident", "absent").shape
  BY <1>3 DEF DropIncidents, Database
<1>6. /\ DropMessages(d).incidents = d.incidents
      /\ \A x \in Object : DropMessages(d).shape[x] =
           IF x = "alert_messages" THEN "absent" ELSE d.shape[x]
  BY <1>1, <1>2, <1>4, ShapeChanged
<1>7. /\ DropIncidents(d).task = d.task
      /\ \A x \in Object : DropIncidents(d).shape[x] =
           IF x \in {"alert_incidents", "idx_open_incident"} THEN "absent" ELSE d.shape[x]
  BY <1>1, <1>2, <1>3, <1>5, ShapeChanged
<1> QED
  BY <1>4, <1>5, <1>6, <1>7

LEMMA Cleared ==
  ASSUME NEW d \in Database
  PROVE  /\ ClearTasks(d).shape = d.shape /\ ClearTasks(d).incidents = d.incidents
         /\ \A a \in Alert :
              ClearTasks(d).task[a] = IF d.task[a] = NoRow THEN NoRow ELSE NoTask
BY DEF ClearTasks, Database

LEMMA KeepsAll ==
  ASSUME NEW d
  PROVE  Improves(d, d) /\ KeepsMessages(d, d) /\ KeepsIncidents(d, d)
BY DEF Improves, KeepsMessages, KeepsIncidents

-----------------------------------------------------------------------------
(* A statement of a process, in a transaction or not *)

Writes(p, d) ==
  \/ Write(p, d) \/ BeginWrite(p, d)
  \/ d = View(p) /\ UNCHANGED <<db, writer, draft>>

LEMMA WhereWritten ==
  ASSUME SchemaTypeOK, NEW p \in Process, NEW d, Writes(p, d)
  PROVE  /\ writer' = p => /\ db' = db /\ draft' = d
                           /\ \/ writer = p /\ View(p) = draft
                              \/ writer = Nobody /\ View(p) = db
         /\ writer' # p => /\ writer' = writer /\ View(p) = db /\ db' = d
                           /\ \/ draft' = d
                              \/ draft' = draft /\ db' = db
         /\ \A q \in Process \ {p} : writer = q => UNCHANGED <<db, writer, draft>>
         /\ View(p)' = d
<1>1. p # Nobody /\ (writer = Nobody => draft = db)
  BY NamesAssumption DEF SchemaTypeOK
<1>2. CASE Write(p, d)
  <2>1. CASE writer = p
    BY <1>1, <1>2, <2>1 DEF Write, View
  <2>2. CASE writer # p
    BY <1>1, <1>2, <2>2, NamesAssumption DEF Write, View
  <2> QED
    BY <2>1, <2>2
<1>3. CASE BeginWrite(p, d)
  BY <1>1, <1>3, NamesAssumption DEF BeginWrite, View
<1>4. CASE d = View(p) /\ UNCHANGED <<db, writer, draft>>
  <2>1. View(p)' = View(p)
    BY <1>4 DEF View
  <2>2. writer = p => View(p) = draft
    BY DEF View
  <2>3. writer # p => View(p) = db
    BY DEF View
  <2> QED
    BY <1>1, <1>4, <2>1, <2>2, <2>3
<1> QED
  BY <1>2, <1>3, <1>4 DEF Writes

(* What others know stays true, as long as nothing current is lost, nothing that *)
(* others depend on in an outdated file is touched, and a transaction is left    *)
(* alone.                                                                        *)
LEMMA OthersKnow ==
  ASSUME SchemaInv, NEW p \in Process, NEW q \in Process, q # p,
         pc'[q] = pc[q],
         writer = q => UNCHANGED <<db, writer, draft>>,
         writer' = q => writer = q,
         Improves(db, db'),
         pc[p] = "down" => db' = db
  PROVE  Known(q)'
<1>1. Known(q) /\ (Older => pc[p] = "down" \/ pc[q] = "down")
  BY DEF SchemaInv, TakeTurns
<1>2. Older /\ pc[q] # "down" => db' = db
  BY <1>1
<1>3. {"alert_messages", "alert_incidents"} \subseteq Object
  BY DEF Object
<1>4. CASE writer = q
  BY <1>1, <1>4 DEF Known, View, Drafted, Improves, KeepsMessages, KeepsIncidents, Named, NoMessage
<1>5. CASE writer # q
  <2>1. writer' # q /\ View(q) = db /\ View(q)' = db'
    BY <1>5 DEF View
  <2>2. \A o \in Made(pc[q])' : View(q)'.shape[o] = "current"
    BY <1>1, <2>1 DEF Known, Improves, Made
  <2>3. pc[q] = "drop_messages" => db'.shape["alert_messages"] = "legacy"
    BY <1>1, <1>2, <1>3 DEF Known, Older
  <2>4. pc[q] = "drop_incidents" => View(q)'.shape["alert_incidents"] = "legacy"
    BY <1>1, <1>2, <1>3, <2>1 DEF Known, Older
  <2>5. pc[q] \in Fresh /\ db'.shape["alert_incidents"] = "legacy" => NoMessage(db)'
    <3>1. db'.shape["alert_incidents"] = "legacy" => Older
      BY <1>3 DEF Improves, Older
    <3>2. pc[q] \in Fresh => pc[q] # "down"
      BY DEF Fresh
    <3> QED
      BY <1>1, <1>2, <1>5, <3>1, <3>2 DEF Known, NoMessage
  <2> QED
    BY <2>1, <2>2, <2>3, <2>4, <2>5 DEF Known
<1> QED
  BY <1>4, <1>5

(* A statement of p that makes the file d out of what p sees, and what has to *)
(* hold of d for all that is known to stay true.                              *)
LEMMA Statement ==
  ASSUME SchemaInv, SchemaTypeOK', TakeTurns',
         NEW p \in Process, NEW d \in Database, NEW next \in PC,
         Goto(p, next), Writes(p, d),
         pc[p] = "down" => db' = db,
         Improves(View(p), d), Sound(d), KeepsIncidents(View(p), d),
         View(p).shape["alert_messages"] = "current" => KeepsMessages(View(p), d),
         writer' # p => Named(d) /\ Empty(d),
         writer' = p => /\ next \in Transaction
                        /\ KeepsMessages(View(p), d)
                        /\ next \notin Rebuilding => Named(d),
         \A o \in Made(next) : d.shape[o] = "current",
         next = "drop_messages" => writer' # p /\ d.shape["alert_messages"] = "legacy",
         next = "drop_incidents" => d.shape["alert_incidents"] = "legacy",
         next \in Fresh /\ writer' # p /\ d.shape["alert_incidents"] = "legacy" => NoMessage(d)
  PROVE  SchemaInv' /\ Kept
<1>1. /\ writer' = p => /\ db' = db /\ draft' = d
                        /\ \/ writer = p /\ View(p) = draft
                           \/ writer = Nobody /\ View(p) = db
      /\ writer' # p => /\ writer' = writer /\ View(p) = db /\ db' = d
                        /\ \/ draft' = d
                           \/ draft' = draft /\ db' = db
      /\ \A q \in Process \ {p} : writer = q => UNCHANGED <<db, writer, draft>>
      /\ View(p)' = d
  BY WhereWritten DEF SchemaInv
<1>2. Improves(db, db')
  BY <1>1, KeepsAll
<1>3. \A q \in Process : pc'[q] = IF q = p THEN next ELSE pc[q]
  BY DEF SchemaInv, SchemaTypeOK, Goto
<1>4. ASSUME NEW q \in Process \ {p} PROVE Known(q)'
  BY <1>1, <1>2, <1>3, OthersKnow
<1>5. writer' = p => Drafted'
  <2>1. SUFFICES ASSUME writer' = p
                 PROVE  Improves(db, d) /\ KeepsMessages(db, d) /\ KeepsIncidents(db, d)
    BY <1>1 DEF Drafted, Improves, KeepsMessages, KeepsIncidents
  <2>2. CASE writer = Nobody /\ View(p) = db
    BY <2>1, <2>2
  <2>3. CASE writer = p /\ View(p) = draft
    <3>1. Drafted
      BY <2>3 DEF SchemaInv, Known
    <3>2. "alert_incidents" \in Object
      BY DEF Object
    <3> QED
      BY <2>1, <2>3, <3>1, <3>2 DEF Drafted, Improves, KeepsMessages, KeepsIncidents
  <2> QED
    BY <1>1, <2>1, <2>2, <2>3
<1>6. Known(p)'
  <2>1. writer' = p => draft' = d
    BY <1>1
  <2>2. writer' # p => db' = d
    BY <1>1
  <2>3. pc'[p] = next
    BY <1>3
  <2>4. /\ (writer = p => pc[p] \in Transaction)'
        /\ (\A o \in Made(pc[p]) : View(p).shape[o] = "current")'
        /\ (pc[p] = "drop_messages" => db.shape["alert_messages"] = "legacy")'
        /\ (pc[p] = "drop_incidents" => View(p).shape["alert_incidents"] = "legacy")'
    BY <1>1, <2>2, <2>3
  <2>5. (pc[p] \in Fresh /\ writer # p /\ db.shape["alert_incidents"] = "legacy" =>
           NoMessage(db))'
    BY <2>2, <2>3 DEF NoMessage
  <2>6. (writer = p /\ pc[p] \notin Rebuilding => Named(draft))'
    BY <2>1, <2>3 DEF Named
  <2> QED
    BY <1>5, <2>4, <2>5, <2>6 DEF Known
<1>7. (Sound(db) /\ Sound(draft) /\ Named(db) /\ Empty(db))'
  <2>1. Sound(db) /\ Sound(draft) /\ Named(db) /\ Empty(db)
    BY DEF SchemaInv
  <2>2. CASE writer' = p
    BY <1>1, <2>1, <2>2 DEF Sound, Named, Empty, NoMessage
  <2>3. CASE writer' # p
    BY <1>1, <2>1, <2>3 DEF Sound, Named, Empty, NoMessage
  <2> QED
    BY <2>2, <2>3
<1>8. Kept
  <2>1. CASE writer' = p
    BY <1>1, <2>1 DEF Kept, KeepsMessages
  <2>2. CASE writer' # p
    BY <1>1, <2>2 DEF Kept, KeepsMessages, KeepsIncidents
  <2> QED
    BY <2>1, <2>2
<1>9. (\A q \in Process : Known(q))'
  BY <1>4, <1>6
<1> QED
  BY <1>7, <1>8, <1>9 DEF SchemaInv

LEMMA StopKnown ==
  ASSUME SchemaInv, SchemaTypeOK', TakeTurns', NEW p \in Process, pc[p] # "down", Stop(p)
  PROVE  SchemaInv' /\ Kept
<1>1. /\ db' = db /\ p # Nobody
      /\ IF writer = p THEN draft' = db /\ writer' = Nobody ELSE UNCHANGED <<draft, writer>>
  BY NamesAssumption DEF Stop
<1>2. \A q \in Process : pc'[q] = IF q = p THEN "down" ELSE pc[q]
  BY DEF SchemaInv, SchemaTypeOK, Stop, Goto
<1>3. Improves(db, db')
  BY <1>1, KeepsAll
<1>4. ASSUME NEW q \in Process \ {p} PROVE Known(q)'
  BY <1>1, <1>2, <1>3, NamesAssumption, OthersKnow
<1>5. Known(p)'
  BY <1>1, <1>2 DEF Known, Made, Before, Fresh
<1>6. (Sound(db) /\ Sound(draft) /\ Named(db) /\ Empty(db))'
  BY <1>1 DEF SchemaInv, Sound, Named, Empty, NoMessage
<1>7. Kept
  BY <1>1 DEF Kept, KeepsMessages
<1>8. (\A q \in Process : Known(q))'
  BY <1>4, <1>5
<1> QED
  BY <1>6, <1>7, <1>8 DEF SchemaInv

LEMMA CommitKnown ==
  ASSUME SchemaInv, SchemaTypeOK', TakeTurns', NEW p \in Process, Commit(p)
  PROVE  SchemaInv' /\ Kept
<1>1. /\ pc[p] = "commit" /\ p # Nobody /\ draft' = draft
      /\ IF writer = p THEN db' = draft /\ writer' = Nobody ELSE UNCHANGED <<db, writer>>
  BY NamesAssumption DEF Commit
<1>2. \A q \in Process : pc'[q] = IF q = p THEN "open" ELSE pc[q]
  BY DEF SchemaInv, SchemaTypeOK, Commit, Goto
<1>3. Known(p)
  BY DEF SchemaInv
<1>4. writer = p => Drafted /\ Named(draft)
  BY <1>1, <1>3 DEF Known, Rebuilding
<1>5. Improves(db, db')
  BY <1>1, <1>4, KeepsAll DEF Drafted
<1>6. ASSUME NEW q \in Process \ {p} PROVE Known(q)'
  BY <1>1, <1>2, <1>5, NamesAssumption, OthersKnow
<1>7. Known(p)'
  <2>1. Made("open") = Made("commit")
    BY DEF Made, Before, UpToScope
  <2>2. View(p)' = View(p)
    BY <1>1 DEF View
  <2> QED
    BY <1>1, <1>2, <1>3, <2>1, <2>2 DEF Known, Fresh
<1>8. (Sound(db) /\ Sound(draft) /\ Named(db) /\ Empty(db))'
  <2>1. writer = p => Empty(draft)
    <3>1. "alert_messages" \in Made("commit")
      BY DEF Made, Object, Before
    <3> QED
      BY <1>1, <1>3, <3>1 DEF Known, View, Empty
  <2> QED
    BY <1>1, <1>4, <2>1 DEF SchemaInv, Sound, Named, Empty, NoMessage
<1>9. Kept
  BY <1>1, <1>4 DEF Kept, Drafted, KeepsMessages, KeepsIncidents
<1>10. (\A q \in Process : Known(q))'
  BY <1>6, <1>7
<1> QED
  BY <1>8, <1>9, <1>10 DEF SchemaInv

-----------------------------------------------------------------------------
(* The statements of _init_db, one by one *)

(* What p knows where it is. *)
LEMMA Seen ==
  ASSUME SchemaInv, NEW p \in Process
  PROVE  /\ View(p) \in Database /\ Sound(View(p)) /\ Known(p)
         /\ writer # p => View(p) = db /\ Named(View(p)) /\ Empty(View(p))
         /\ writer = p => View(p) = draft
         /\ pc[p] \notin Transaction => writer # p
         /\ writer = p /\ pc[p] \notin Rebuilding => Named(View(p))
         /\ pc[p] \in PC
BY ViewIsDatabase DEF SchemaInv, SchemaTypeOK, Known, View, Named, Empty, NoMessage

(* Reading changes nothing. *)
LEMMA Reads ==
  ASSUME SchemaInv, SchemaTypeOK', TakeTurns', NEW p \in Process, NEW next \in PC,
         Goto(p, next), UNCHANGED <<db, writer, draft>>,
         writer = p => next \in Transaction /\ pc[p] \notin Rebuilding,
         \A o \in Made(next) : View(p).shape[o] = "current",
         next = "drop_messages" => writer # p /\ View(p).shape["alert_messages"] = "legacy",
         next = "drop_incidents" => View(p).shape["alert_incidents"] = "legacy",
         next \in Fresh /\ writer # p => pc[p] \in Fresh \/ NoMessage(View(p))
  PROVE  SchemaInv' /\ Kept
<1> DEFINE d == View(p)
<1>1. /\ d \in Database /\ Sound(d) /\ Known(p)
      /\ writer # p => View(p) = db /\ Named(d) /\ Empty(d)
      /\ writer = p => Named(d)
  BY Seen
<1>2. Improves(d, d) /\ KeepsMessages(d, d) /\ KeepsIncidents(d, d)
  BY KeepsAll
<1>3. Writes(p, d) /\ writer' = writer /\ db' = db
  BY DEF Writes
<1>4. next \in Fresh /\ writer # p /\ d.shape["alert_incidents"] = "legacy" => NoMessage(d)
  BY <1>1 DEF Known
<1> HIDE DEF d
<1> QED
  BY <1>1, <1>2, <1>3, <1>4, Statement DEF d

LEMMA BeginKnown ==
  ASSUME SchemaInv, SchemaTypeOK', TakeTurns', NEW p \in Process, Begin(p)
  PROVE  SchemaInv' /\ Kept
<1>1. pc[p] = "down" /\ Goto(p, "columns") /\ UNCHANGED <<db, writer, draft>>
  BY DEF Begin
<1>2. writer # p
  BY <1>1, Seen DEF Transaction, Before
<1>3. Made("columns") = {} /\ "columns" \in PC /\ "columns" \notin Fresh
  BY DEF Made, Before, PC, Fresh
<1> QED
  BY <1>1, <1>2, <1>3, Reads

LEMMA ReadColumnsKnown ==
  ASSUME SchemaInv, SchemaTypeOK', TakeTurns', NEW p \in Process, ReadColumns(p)
  PROVE  SchemaInv' /\ Kept
<1>1. /\ pc[p] = "columns" /\ UNCHANGED <<db, writer, draft>>
      /\ Goto(p, CASE View(p).shape["alert_messages"] = "absent" -> "create_messages"
                   [] View(p).shape["alert_messages"] = "legacy" -> "drop_messages"
                   [] OTHER -> "indexes")
  BY DEF ReadColumns
<1>2. writer # p /\ Empty(View(p)) /\ View(p) \in Database
  BY <1>1, Seen DEF Transaction, Before
<1>3. CASE View(p).shape["alert_messages"] = "absent"
  <2>1. Goto(p, "create_messages") /\ NoMessage(View(p))
    BY <1>1, <1>2, <1>3 DEF Empty
  <2>2. Made("create_messages") = {} /\ "create_messages" \in PC
    BY DEF Made, Before, PC
  <2> QED
    BY <1>1, <1>2, <2>1, <2>2, Reads
<1>4. CASE View(p).shape["alert_messages"] = "legacy"
  <2>1. Goto(p, "drop_messages")
    BY <1>1, <1>4
  <2>2. Made("drop_messages") = {} /\ "drop_messages" \in PC \ Fresh
    BY DEF Made, Before, PC, Fresh
  <2> QED
    BY <1>1, <1>2, <1>4, <2>1, <2>2, Reads
<1>5. CASE View(p).shape["alert_messages"] \notin {"absent", "legacy"}
  <2>1. Goto(p, "indexes")
    BY <1>1, <1>5
  <2>2. View(p).shape["alert_messages"] = "current"
    BY <1>2, <1>5 DEF Database, Object, Shape
  <2>3. Made("indexes") \subseteq {"alert_messages"} /\ "indexes" \in PC \ Fresh
    BY DEF Made, UpToScope, PC, Fresh
  <2> QED
    BY <1>1, <1>2, <2>1, <2>2, <2>3, Reads
<1> QED
  BY <1>3, <1>4, <1>5

LEMMA ReadIndexesKnown ==
  ASSUME SchemaInv, SchemaTypeOK', TakeTurns', NEW p \in Process, ReadIndexes(p)
  PROVE  SchemaInv' /\ Kept
<1>1. pc[p] = "indexes" /\ UNCHANGED <<db, writer, draft>>
  BY DEF ReadIndexes
<1>2. writer # p /\ Known(p)
  BY <1>1, Seen DEF Transaction, UpToScope
<1>3. "alert_messages" \in Made("indexes")
  BY DEF Made, Object, Before
<1>4. View(p).shape["alert_messages"] = "current"
  BY <1>1, <1>2, <1>3 DEF Known
<1>5. Goto(p, "default_scope")
  BY <1>4 DEF ReadIndexes
<1>6. Made("default_scope") \subseteq {"alert_messages"} /\ "default_scope" \in PC \ Fresh
  BY DEF Made, UpToScope, PC, Fresh
<1> QED
  BY <1>1, <1>2, <1>4, <1>5, <1>6, Reads

LEMMA DropOldMessagesKnown ==
  ASSUME SchemaInv, SchemaTypeOK', TakeTurns', NEW p \in Process, DropOldMessages(p)
  PROVE  SchemaInv' /\ Kept
<1> DEFINE d == DropMessages(View(p))
<1>1. pc[p] = "drop_messages"
  BY DEF DropOldMessages
<1>2. /\ writer # p /\ View(p) = db /\ db \in Database /\ Sound(db)
      /\ db.shape["alert_messages"] = "legacy"
  BY <1>1, Seen DEF Transaction, Before, Known
<1>3. CASE Stop(p)
  BY <1>1, <1>3, StopKnown
<1>4. CASE Write(p, d) /\ Goto(p, "create_messages")
  <2>1. d \in Database
    BY <1>2, DroppedIsDatabase
  <2>2. /\ d.task = NoMessages /\ d.incidents = db.incidents
        /\ \A x \in Object : d.shape[x] = IF x = "alert_messages" THEN "absent" ELSE db.shape[x]
    BY <1>2, Dropped
  <2> HIDE DEF d
  <2>3. {"alert_incidents", "alert_messages", "idx_open_incident"} \subseteq Object
    BY DEF Object
  <2>4. NoMessage(d) /\ Named(d) /\ Empty(d)
    BY <2>2 DEF NoMessage, Named, Empty, NoMessages
  <2>5. Sound(d) /\ Improves(db, d) /\ KeepsIncidents(db, d)
    BY <1>2, <2>2, <2>3 DEF Sound, Improves, KeepsIncidents
  <2>6. writer' # p
    BY <1>2, <1>4 DEF Write
  <2>7. Made("create_messages") = {} /\ "create_messages" \in PC
    BY DEF Made, Before, PC
  <2> QED
    BY <1>1, <1>2, <1>4, <2>1, <2>4, <2>5, <2>6, <2>7, Statement DEF Writes
<1> QED
  BY <1>3, <1>4 DEF DropOldMessages, Drop

(* What a CREATE makes of what p sees. *)
LEMMA Created ==
  ASSUME SchemaInv, NEW p \in Process, NEW o \in Object, View(p).shape[o] = "absent",
         NEW d, d = WithShape(View(p), o, "current"),
         o = "idx_open_incident" => View(p).shape["alert_incidents"] = "current"
  PROVE  /\ d \in Database /\ Sound(d)
         /\ Improves(View(p), d) /\ KeepsMessages(View(p), d) /\ KeepsIncidents(View(p), d)
         /\ d.shape[o] = "current"
         /\ \A x \in Object : x # o => d.shape[x] = View(p).shape[x]
         /\ Named(View(p)) => Named(d)
         /\ Empty(View(p)) => Empty(d)
         /\ NoMessage(View(p)) <=> NoMessage(d)
<1>1. View(p) \in Database /\ Sound(View(p))
  BY Seen
<1>2. d \in Database
  BY <1>1, ShapeInDatabase DEF Shape
<1>3. /\ d.task = View(p).task /\ d.incidents = View(p).incidents
      /\ \A x \in Object : d.shape[x] = IF x = o THEN "current" ELSE View(p).shape[x]
  BY <1>1, ShapeChanged DEF Shape
<1>4. {"alert_incidents", "alert_messages", "idx_open_incident"} \subseteq Object
  BY DEF Object
<1>5. Sound(d)
  BY <1>1, <1>3, <1>4 DEF Sound
<1>6. Improves(View(p), d) /\ KeepsMessages(View(p), d) /\ KeepsIncidents(View(p), d)
  BY <1>3 DEF Improves, KeepsMessages, KeepsIncidents
<1>7. Named(View(p)) => Named(d)
  BY <1>3, <1>4 DEF Named
<1>8. (Empty(View(p)) => Empty(d)) /\ (NoMessage(View(p)) <=> NoMessage(d))
  BY <1>3, <1>4 DEF Empty, NoMessage
<1> QED
  BY <1>2, <1>3, <1>5, <1>6, <1>7, <1>8

(* A CREATE, whether or not the table is there, that brings p from where it is *)
(* to where it knows of one object more.                                       *)
LEMMA CreatedKnown ==
  ASSUME SchemaInv, SchemaTypeOK', TakeTurns', NEW p \in Process, NEW o \in Object, NEW next \in PC,
         \/ Create(p, o, next)
         \/ Ensure(p, o, next) /\ o \notin {"alert_messages", "alert_incidents"},
         pc[p] # "down",
         o = "idx_open_incident" => View(p).shape["alert_incidents"] = "current",
         Made(next) \subseteq Made(pc[p]) \cup {o},
         writer = p => next \in Transaction,
         pc[p] \in Rebuilding => next \in Rebuilding,
         next \notin {"drop_messages", "drop_incidents"},
         next \in Fresh => pc[p] \in Fresh
  PROVE  SchemaInv' /\ Kept
<1>1. /\ View(p) \in Database /\ Sound(View(p)) /\ Known(p)
      /\ writer # p => View(p) = db /\ Named(View(p)) /\ Empty(View(p))
      /\ writer = p /\ pc[p] \notin Rebuilding => Named(View(p))
  BY Seen
<1>2. CASE Stop(p)
  BY <1>2, StopKnown
<1>3. CASE /\ View(p).shape[o] = "absent" /\ Goto(p, next)
           /\ Write(p, WithShape(View(p), o, "current"))
  <2> DEFINE d == WithShape(View(p), o, "current")
  <2>1. /\ d \in Database /\ Sound(d)
        /\ Improves(View(p), d) /\ KeepsMessages(View(p), d) /\ KeepsIncidents(View(p), d)
        /\ d.shape[o] = "current"
        /\ \A x \in Object : x # o => d.shape[x] = View(p).shape[x]
        /\ Named(View(p)) => Named(d)
        /\ Empty(View(p)) => Empty(d)
        /\ NoMessage(View(p)) <=> NoMessage(d)
    BY <1>3, Created
  <2> HIDE DEF d
  <2>2. writer' = writer /\ Writes(p, d)
    BY <1>3 DEF Write, Writes, d
  <2>3. \A x \in Made(next) : d.shape[x] = "current"
    BY <1>1, <2>1 DEF Known, Made, Improves
  <2>4. next \in Fresh /\ writer' # p /\ d.shape["alert_incidents"] = "legacy" => NoMessage(d)
    <3>1. "alert_incidents" \in Object
      BY DEF Object
    <3> QED
      BY <1>1, <2>1, <2>2, <3>1 DEF Known, Improves
  <2> QED
    BY <1>1, <1>3, <2>1, <2>2, <2>3, <2>4, Statement
<1>4. CASE /\ View(p).shape[o] # "absent" /\ Goto(p, next)
           /\ UNCHANGED <<db, writer, draft>>
           /\ o \notin {"alert_messages", "alert_incidents"}
  <2> DEFINE d == View(p)
  <2>1. d.shape[o] = "current"
    BY <1>1, <1>4 DEF Sound, Database, Shape
  <2>2. Improves(d, d) /\ KeepsMessages(d, d) /\ KeepsIncidents(d, d)
    BY KeepsAll
  <2>3. Writes(p, d) /\ writer' = writer
    BY <1>4 DEF Writes
  <2>4. \A x \in Made(next) : d.shape[x] = "current"
    BY <1>1, <2>1 DEF Known
  <2>5. next \in Fresh /\ writer' # p /\ d.shape["alert_incidents"] = "legacy" => NoMessage(d)
    BY <1>1, <2>3 DEF Known
  <2> HIDE DEF d
  <2> QED
    BY <1>1, <1>4, <2>2, <2>3, <2>4, <2>5, Statement DEF d
<1> QED
  BY <1>2, <1>3, <1>4 DEF Create, Ensure

LEMMA CreateMessagesKnown ==
  ASSUME SchemaInv, SchemaTypeOK', TakeTurns', NEW p \in Process, CreateMessages(p)
  PROVE  SchemaInv' /\ Kept
<1>1. pc[p] = "create_messages" /\ Create(p, "alert_messages", "alert_sources")
  BY DEF CreateMessages
<1>2. writer # p
  BY <1>1, Seen DEF Transaction, Before
<1>3. Made("alert_sources") \subseteq {"alert_messages"}
  BY DEF Made, UpToScope
<1>4. /\ "alert_messages" \in Object /\ "alert_sources" \in PC /\ "create_messages" \in Fresh
      /\ "create_messages" \notin Rebuilding
  BY DEF Object, PC, Plain, Fresh, Rebuilding
<1> QED
  BY <1>1, <1>2, <1>3, <1>4, CreatedKnown

LEMMA DefaultScopeKnown ==
  ASSUME SchemaInv, SchemaTypeOK', TakeTurns', NEW p \in Process, DefaultScope(p)
  PROVE  SchemaInv' /\ Kept
<1>1. pc[p] = "default_scope"
  BY DEF DefaultScope
<1>2. /\ writer # p /\ View(p) \in Database /\ Sound(View(p)) /\ Known(p)
      /\ Named(View(p)) /\ Empty(View(p))
  BY <1>1, Seen DEF Transaction, UpToScope
<1>3. CASE Stop(p)
  BY <1>1, <1>3, StopKnown
<1>4. CASE BeginWrite(p, View(p)) /\ Goto(p, "alert_sources")
  <2> DEFINE d == View(p)
  <2>1. Improves(d, d) /\ KeepsMessages(d, d) /\ KeepsIncidents(d, d)
    BY KeepsAll
  <2>2. writer' = p /\ Writes(p, d)
    BY <1>4 DEF Writes, BeginWrite
  <2>3. /\ "alert_sources" \in Transaction /\ "alert_sources" \in PC
        /\ Made("alert_sources") \subseteq Made("default_scope")
    BY DEF Transaction, PC, Plain, Before, UpToScope, Made
  <2>4. \A x \in Made("alert_sources") : d.shape[x] = "current"
    BY <1>1, <1>2, <2>3 DEF Known
  <2> HIDE DEF d
  <2> QED
    BY <1>1, <1>2, <1>4, <2>1, <2>2, <2>3, <2>4, Statement DEF d
<1> QED
  BY <1>3, <1>4 DEF DefaultScope

LEMMA EnsurePlainKnown ==
  ASSUME SchemaInv, SchemaTypeOK', TakeTurns', NEW p \in Process, EnsurePlain(p)
  PROVE  SchemaInv' /\ Kept
<1>1. pc[p] \in Plain /\ Ensure(p, pc[p], After(pc[p]))
  BY DEF EnsurePlain
<1>2. /\ pc[p] \in Object /\ pc[p] # "down" /\ pc[p] \notin Rebuilding
      /\ pc[p] \notin {"alert_messages", "alert_incidents", "idx_open_incident"}
  BY <1>1 DEF Plain, Object, Rebuilding
<1>3. /\ After(pc[p]) \in PC /\ After(pc[p]) \in Transaction
      /\ After(pc[p]) \notin {"drop_messages", "drop_incidents"}
      /\ After(pc[p]) \in Fresh => pc[p] \in Fresh
  BY <1>1 DEF After, Plain, PC, Transaction, Before, UpToScope, Fresh
<1>4. Made(After(pc[p])) \subseteq Made(pc[p]) \cup {pc[p]}
  <2>1. CASE pc[p] = "alert_sources"
    BY <2>1 DEF After, Made, Before, UpToScope
  <2>2. CASE pc[p] = "alert_events"
    BY <2>2 DEF After, Made, Before, UpToScope
  <2>3. CASE pc[p] = "alert_transitions"
    BY <2>3 DEF After, Made, Before, UpToScope
  <2>4. CASE pc[p] = "alert_side_effects"
    BY <2>4 DEF After, Made, Before, UpToScope
  <2>5. CASE pc[p] = "alert_event_incidents"
    BY <2>5 DEF After, Made, Before, UpToScope
  <2> QED
    BY <1>1, <2>1, <2>2, <2>3, <2>4, <2>5 DEF Plain
<1> QED
  BY <1>1, <1>2, <1>3, <1>4, CreatedKnown

LEMMA ReadIncidentsKnown ==
  ASSUME SchemaInv, SchemaTypeOK', TakeTurns', NEW p \in Process, ReadIncidents(p)
  PROVE  SchemaInv' /\ Kept
<1>1. /\ pc[p] = "incidents" /\ UNCHANGED <<db, writer, draft>>
      /\ Goto(p, CASE View(p).shape["alert_incidents"] = "absent" -> "create_incidents"
                   [] View(p).shape["alert_incidents"] = "legacy" -> "drop_incidents"
                   [] OTHER -> "index")
  BY DEF ReadIncidents
<1>2. Known(p) /\ View(p) \in Database /\ pc[p] \in Fresh /\ pc[p] \notin Rebuilding
  BY <1>1, Seen DEF Fresh, Rebuilding
<1>3. \A o \in Made("incidents") : View(p).shape[o] = "current"
  BY <1>1, <1>2 DEF Known
<1>4. CASE View(p).shape["alert_incidents"] = "absent"
  <2>1. Goto(p, "create_incidents")
    BY <1>1, <1>4
  <2>2. /\ Made("create_incidents") \subseteq Made("incidents")
        /\ "create_incidents" \in PC /\ "create_incidents" \in Transaction
    BY DEF Made, Before, UpToScope, PC, Transaction
  <2> QED
    BY <1>1, <1>2, <1>3, <2>1, <2>2, Reads
<1>5. CASE View(p).shape["alert_incidents"] = "legacy"
  <2>1. Goto(p, "drop_incidents")
    BY <1>1, <1>5
  <2>2. /\ Made("drop_incidents") \subseteq Made("incidents")
        /\ "drop_incidents" \in PC /\ "drop_incidents" \in Transaction
    BY DEF Made, Before, UpToScope, PC, Transaction
  <2> QED
    BY <1>1, <1>2, <1>3, <1>5, <2>1, <2>2, Reads
<1>6. CASE View(p).shape["alert_incidents"] \notin {"absent", "legacy"}
  <2>1. Goto(p, "index")
    BY <1>1, <1>6
  <2>2. View(p).shape["alert_incidents"] = "current"
    BY <1>2, <1>6 DEF Database, Object, Shape
  <2>3. /\ Made("index") \subseteq Made("incidents") \cup {"alert_incidents"}
        /\ "index" \in PC /\ "index" \in Transaction
    BY DEF Made, Before, UpToScope, PC, Transaction
  <2> QED
    BY <1>1, <1>2, <1>3, <2>1, <2>2, <2>3, Reads
<1> QED
  BY <1>4, <1>5, <1>6

LEMMA DropOldIncidentsKnown ==
  ASSUME SchemaInv, SchemaTypeOK', TakeTurns', NEW p \in Process, DropOldIncidents(p)
  PROVE  SchemaInv' /\ Kept
<1> DEFINE d == DropIncidents(View(p))
<1>1. pc[p] = "drop_incidents"
  BY DEF DropOldIncidents
<1>2. /\ View(p) \in Database /\ Sound(View(p)) /\ Known(p)
      /\ View(p).shape["alert_incidents"] = "legacy"
      /\ writer # p => View(p) = db /\ Empty(View(p))
  BY <1>1, Seen DEF Known
<1>3. CASE Stop(p)
  BY <1>1, <1>3, StopKnown
<1>4. CASE Write(p, d) /\ Goto(p, "recreate_incidents")
  <2>1. d \in Database
    BY <1>2, DroppedIsDatabase
  <2>2. /\ d.task = View(p).task /\ d.incidents = {}
        /\ \A x \in Object : d.shape[x] =
             IF x \in {"alert_incidents", "idx_open_incident"} THEN "absent" ELSE View(p).shape[x]
    BY <1>2, Dropped
  <2> HIDE DEF d
  <2>3. {"alert_incidents", "alert_messages", "idx_open_incident"} \subseteq Object
    BY DEF Object
  <2>4. writer' = writer /\ Writes(p, d)
    BY <1>4 DEF Write, Writes
  <2>5. Sound(d) /\ Improves(View(p), d) /\ KeepsIncidents(View(p), d) /\ KeepsMessages(View(p), d)
    BY <1>2, <2>2, <2>3 DEF Sound, Improves, KeepsIncidents, KeepsMessages
  <2>6. writer' # p => Named(d) /\ Empty(d)
    <3>1. writer # p => NoMessage(d)
      BY <1>1, <1>2, <2>2 DEF Known, Fresh, NoMessage
    <3> QED
      BY <2>4, <3>1 DEF Named, Empty, NoMessage
  <2>7. \A x \in Made("recreate_incidents") : d.shape[x] = "current"
    <3>1. /\ Made("recreate_incidents") \subseteq Made("drop_incidents")
          /\ Made("recreate_incidents") \cap {"alert_incidents", "idx_open_incident"} = {}
          /\ Made("recreate_incidents") \subseteq Object
      BY DEF Made, Before, UpToScope
    <3> QED
      BY <1>1, <1>2, <2>2, <3>1 DEF Known
  <2>8. /\ "recreate_incidents" \in PC /\ "recreate_incidents" \in Transaction
        /\ "recreate_incidents" \in Rebuilding /\ "recreate_incidents" \notin Fresh
    BY DEF PC, Transaction, Before, UpToScope, Rebuilding, Fresh
  <2> QED
    BY <1>1, <1>4, <2>1, <2>4, <2>5, <2>6, <2>7, <2>8, Statement
<1> QED
  BY <1>3, <1>4 DEF DropOldIncidents, Drop

LEMMA CreateIncidentsKnown ==
  ASSUME SchemaInv, SchemaTypeOK', TakeTurns', NEW p \in Process, CreateIncidents(p)
  PROVE  SchemaInv' /\ Kept
<1>1. "alert_incidents" \in Object
  BY DEF Object
<1>2. CASE pc[p] = "create_incidents" /\ Create(p, "alert_incidents", "index")
  <2>1. /\ "index" \in PC /\ "index" \in Transaction /\ "index" \notin Fresh
        /\ Made("index") \subseteq Made("create_incidents") \cup {"alert_incidents"}
        /\ "create_incidents" \notin Rebuilding
    BY DEF PC, Transaction, Before, UpToScope, Fresh, Made, Rebuilding
  <2> QED
    BY <1>1, <1>2, <2>1, CreatedKnown
<1>3. CASE pc[p] = "recreate_incidents" /\ Create(p, "alert_incidents", "reindex")
  <2>1. /\ "reindex" \in PC /\ "reindex" \in Transaction /\ "reindex" \notin Fresh
        /\ Made("reindex") \subseteq Made("recreate_incidents") \cup {"alert_incidents"}
        /\ "reindex" \in Rebuilding
    BY DEF PC, Transaction, Before, UpToScope, Fresh, Made, Rebuilding
  <2> QED
    BY <1>1, <1>3, <2>1, CreatedKnown
<1> QED
  BY <1>2, <1>3 DEF CreateIncidents

LEMMA EnsureIndexKnown ==
  ASSUME SchemaInv, SchemaTypeOK', TakeTurns', NEW p \in Process, EnsureIndex(p)
  PROVE  SchemaInv' /\ Kept
<1>1. pc[p] \in {"index", "reindex"}
  BY DEF EnsureIndex
<1>2. View(p).shape["alert_incidents"] = "current"
  <2>1. "alert_incidents" \in Made("index") /\ "alert_incidents" \in Made("reindex")
    BY DEF Made, Object, Before
  <2> QED
    BY <1>1, <2>1, Seen DEF Known
<1>3. CASE Stop(p)
  BY <1>1, <1>3, StopKnown
<1>4. CASE pc[p] = "index" /\ Ensure(p, "idx_open_incident", "alert_side_effects")
  <2>1. /\ "alert_side_effects" \in PC /\ "alert_side_effects" \in Transaction
        /\ "alert_side_effects" \notin Fresh /\ "index" \notin Rebuilding
        /\ Made("alert_side_effects") \subseteq Made("index") \cup {"idx_open_incident"}
        /\ "idx_open_incident" \in Object
    BY DEF PC, Plain, Transaction, Before, UpToScope, Fresh, Made, Rebuilding, Object
  <2> QED
    BY <1>2, <1>4, <2>1, CreatedKnown
<1>5. CASE pc[p] = "reindex" /\ Ensure(p, "idx_open_incident", "clear_tasks")
  <2>1. /\ "clear_tasks" \in PC /\ "clear_tasks" \in Transaction
        /\ "clear_tasks" \notin Fresh /\ "clear_tasks" \in Rebuilding
        /\ Made("clear_tasks") \subseteq Made("reindex") \cup {"idx_open_incident"}
        /\ "idx_open_incident" \in Object
    BY DEF PC, Transaction, Before, UpToScope, Fresh, Made, Rebuilding, Object
  <2> QED
    BY <1>2, <1>5, <2>1, CreatedKnown
<1> QED
  BY <1>1, <1>3, <1>4, <1>5 DEF EnsureIndex

LEMMA ForgetIncidentsKnown ==
  ASSUME SchemaInv, SchemaTypeOK', TakeTurns', NEW p \in Process, ForgetIncidents(p)
  PROVE  SchemaInv' /\ Kept
<1> DEFINE d == ClearTasks(View(p))
<1>1. pc[p] = "clear_tasks"
  BY DEF ForgetIncidents
<1>2. View(p) \in Database /\ Sound(View(p)) /\ Known(p)
  BY Seen
<1>3. CASE Stop(p)
  BY <1>1, <1>3, StopKnown
<1>4. CASE BeginWrite(p, d) /\ Goto(p, "alert_side_effects")
  <2>1. d \in Database
    BY <1>2, ClearedIsDatabase
  <2>2. /\ d.shape = View(p).shape /\ d.incidents = View(p).incidents
        /\ \A a \in Alert : d.task[a] = IF View(p).task[a] = NoRow THEN NoRow ELSE NoTask
    BY <1>2, Cleared
  <2> HIDE DEF d
  <2>3. writer' = p /\ Writes(p, d)
    BY <1>4 DEF BeginWrite, Writes
  <2>4. Sound(d) /\ Improves(View(p), d) /\ KeepsIncidents(View(p), d)
    BY <1>2, <2>2 DEF Sound, Improves, KeepsIncidents
  <2>5. KeepsMessages(View(p), d) /\ Named(d)
    BY <2>2, NamesAssumption DEF KeepsMessages, Named
  <2>6. /\ "alert_side_effects" \in PC /\ "alert_side_effects" \in Transaction
        /\ "alert_side_effects" \notin Fresh
        /\ Made("alert_side_effects") \subseteq Made("clear_tasks")
    BY DEF PC, Plain, Transaction, Before, UpToScope, Fresh, Made
  <2>7. \A x \in Made("alert_side_effects") : d.shape[x] = "current"
    BY <1>1, <1>2, <2>2, <2>6 DEF Known
  <2> QED
    BY <1>1, <1>4, <2>1, <2>3, <2>4, <2>5, <2>6, <2>7, Statement
<1> QED
  BY <1>3, <1>4 DEF ForgetIncidents

-----------------------------------------------------------------------------
(* A command at work *)

LEMMA ExitKnown ==
  ASSUME SchemaInv, SchemaTypeOK', TakeTurns', NEW p \in Process, Exit(p)
  PROVE  SchemaInv' /\ Kept
<1>1. pc[p] = "open" /\ Goto(p, "down") /\ UNCHANGED <<db, writer, draft>>
  BY DEF Exit
<1>2. writer # p
  BY <1>1, Seen DEF Transaction
<1>3. Made("down") = {} /\ "down" \in PC /\ "down" \notin Fresh
  BY DEF Made, Before, PC, Fresh
<1> QED
  BY <1>1, <1>2, <1>3, Reads

(* What a command that has opened the ledger writes. *)
LEMMA RecordKnown ==
  ASSUME SchemaInv, SchemaTypeOK', TakeTurns', NEW p \in Process, NEW d \in Database,
         pc[p] = "open", UNCHANGED pc, Write(p, d),
         d.shape = db.shape, Named(d), Empty(d), KeepsMessages(db, d), db.incidents \subseteq d.incidents
  PROVE  SchemaInv' /\ Kept
<1>1. writer # p /\ View(p) = db /\ Sound(db) /\ Known(p)
  BY Seen DEF Transaction, SchemaInv
<1>2. Goto(p, "open")
  BY DEF Goto, SchemaInv, SchemaTypeOK
<1>3. Sound(d) /\ Improves(db, d) /\ KeepsIncidents(db, d)
  BY <1>1 DEF Sound, Improves, KeepsIncidents
<1>4. writer' # p /\ Writes(p, d)
  BY <1>1 DEF Write, Writes
<1>5. \A x \in Made("open") : d.shape[x] = "current"
  BY <1>1 DEF Known
<1>6. "open" \in PC /\ "open" \notin Fresh
  BY DEF PC, Fresh
<1> QED
  BY <1>1, <1>2, <1>3, <1>4, <1>5, <1>6, Statement

LEMMA IngestMessageKnown ==
  ASSUME SchemaInv, SchemaTypeOK', TakeTurns', NEW p \in Process, NEW a \in Alert, IngestMessage(p, a)
  PROVE  SchemaInv' /\ Kept
<1>1. PICK i \in (IF db.incidents = {} THEN {NoTask} ELSE db.incidents) :
        Write(p, [db EXCEPT !.task[a] = i])
  BY DEF IngestMessage
<1> DEFINE d == [db EXCEPT !.task[a] = i]
<1>2. pc[p] = "open" /\ UNCHANGED pc /\ db.shape["alert_messages"] = "current" /\ db \in Database
  BY DEF IngestMessage, Usable, SchemaInv, SchemaTypeOK
<1>3. i \in db.incidents \cup {NoTask} /\ i # NoRow /\ i \in Alert \cup {NoTask}
  BY <1>2, NamesAssumption DEF Database
<1>4. /\ d \in Database /\ d.shape = db.shape /\ d.incidents = db.incidents
      /\ \A x \in Alert : d.task[x] = IF x = a THEN i ELSE db.task[x]
  BY <1>2, <1>3 DEF Database
<1>5. Write(p, d)
  BY <1>1
<1> HIDE DEF d
<1>6. Named(d) /\ Empty(d) /\ KeepsMessages(db, d)
  BY <1>2, <1>3, <1>4 DEF Named, Empty, KeepsMessages, SchemaInv
<1> QED
  BY <1>2, <1>4, <1>5, <1>6, RecordKnown

LEMMA OpenIncidentKnown ==
  ASSUME SchemaInv, SchemaTypeOK', TakeTurns', NEW p \in Process, NEW a \in Alert, OpenIncident(p, a)
  PROVE  SchemaInv' /\ Kept
<1> DEFINE d == [db EXCEPT !.incidents = @ \cup {a},
                           !.task = [x \in Alert |-> IF @[x] = NoTask THEN a ELSE @[x]]]
<1>1. /\ pc[p] = "open" /\ UNCHANGED pc /\ db.shape["alert_messages"] = "current"
      /\ db \in Database /\ Write(p, d)
  BY DEF OpenIncident, Usable, SchemaInv, SchemaTypeOK
<1>2. /\ d \in Database /\ d.shape = db.shape /\ d.incidents = db.incidents \cup {a}
      /\ \A x \in Alert : d.task[x] = IF db.task[x] = NoTask THEN a ELSE db.task[x]
  BY <1>1 DEF Database
<1> HIDE DEF d
<1>3. Named(d) /\ Empty(d) /\ KeepsMessages(db, d)
  BY <1>1, <1>2, NamesAssumption DEF Named, Empty, KeepsMessages, SchemaInv
<1> QED
  BY <1>1, <1>2, <1>3, RecordKnown

-----------------------------------------------------------------------------
(* The theorems *)

LEMMA InitKnown == Init => SchemaInv
<1> SUFFICES ASSUME Init PROVE SchemaInv
  OBVIOUS
<1>1. PICK s \in Start : db = StartDatabase(s)
  BY DEF Init
<1>2. SchemaTypeOK /\ db \in Database /\ draft = db
  BY InitTypes DEF SchemaTypeOK, Init
<1>3. /\ \A o \in Object : db.shape[o] =
             CASE o = "alert_messages" -> s[1]
               [] o = "alert_incidents" -> s[2]
               [] o = "idx_open_incident" /\ s[2] = "current" -> "current"
               [] OTHER -> "absent"
      /\ \A a \in Alert : db.task[a] =
             CASE a \in OldAlert /\ s[1] # "absent" /\ s[2] # "absent" -> a
               [] a \in OldAlert /\ s = <<"legacy", "absent">> -> NoTask
               [] OTHER -> NoRow
      /\ db.incidents = IF s[2] = "absent" THEN {} ELSE OldAlert
  BY <1>1 DEF StartDatabase
<1>4. {"alert_incidents", "alert_messages", "idx_open_incident"} \subseteq Object
  BY DEF Object
<1>5. Sound(db)
  <2>1. \A o \in Object \ {"alert_messages", "alert_incidents"} : db.shape[o] # "legacy"
    BY <1>3
  <2>2. db.shape["alert_incidents"] = s[2]
    BY <1>3, <1>4
  <2>3. db.shape["idx_open_incident"] = "current" => s[2] = "current"
    BY <1>3, <1>4
  <2> QED
    BY <2>1, <2>2, <2>3 DEF Sound
<1>6. s[1] = "absent" => NoMessage(db)
  <2>1. s[1] = "absent" => s # <<"legacy", "absent">>
    OBVIOUS
  <2> QED
    BY <1>3, <2>1 DEF NoMessage
<1>7. Empty(db)
  BY <1>3, <1>4, <1>6 DEF Empty
<1>8. Named(db)
  <2>1. ASSUME NEW a \in Alert PROVE db.task[a] \in db.incidents \cup {NoTask, NoRow}
    <3>1. CASE a \in OldAlert /\ s[1] # "absent" /\ s[2] # "absent"
      <4>1. s # <<"legacy", "absent">>
        BY <3>1
      <4> QED
        BY <1>3, <3>1, <4>1
    <3>2. CASE ~(a \in OldAlert /\ s[1] # "absent" /\ s[2] # "absent")
      BY <1>3, <3>2
    <3> QED
      BY <3>1, <3>2
  <2> QED
    BY <2>1 DEF Named
<1>9. (\A p \in Process : pc[p] = "down" /\ writer # p) /\ TakeTurns
  BY NamesAssumption DEF Init, TakeTurns
<1>10. Made("down") = {} /\ "down" \notin Fresh
  BY DEF Made, Before, Fresh
<1>11. \A p \in Process : Known(p)
  BY <1>9, <1>10 DEF Known
<1> QED
  BY <1>2, <1>5, <1>7, <1>8, <1>9, <1>11 DEF SchemaInv, Sound

LEMMA StepKnown ==
  ASSUME SchemaInv, [InTurn]_vars
  PROVE  SchemaInv' /\ Kept
<1>1. SchemaTypeOK' /\ TakeTurns'
  <2>1. SchemaTypeOK'
    BY StepTypes DEF SchemaInv, InTurn
  <2>2. UNCHANGED vars => TakeTurns'
    BY DEF vars, SchemaInv, TakeTurns, Older
  <2> QED
    BY <2>1, <2>2 DEF InTurn
<1>2. ASSUME NEW p \in Process, Step(p) PROVE SchemaInv' /\ Kept
  BY <1>1, <1>2, BeginKnown, ReadColumnsKnown, ReadIndexesKnown, DropOldMessagesKnown,
     CreateMessagesKnown, DefaultScopeKnown, EnsurePlainKnown, ReadIncidentsKnown,
     DropOldIncidentsKnown, CreateIncidentsKnown, EnsureIndexKnown, ForgetIncidentsKnown,
     CommitKnown
  DEF Step
<1>3. ASSUME NEW p \in Process, Crash(p) PROVE SchemaInv' /\ Kept
  BY <1>1, <1>3, StopKnown DEF Crash
<1>4. ASSUME NEW p \in Process, Work(p) PROVE SchemaInv' /\ Kept
  BY <1>1, <1>4, ExitKnown, IngestMessageKnown, OpenIncidentKnown DEF Work
<1>5. CASE UNCHANGED vars
  <2>1. Kept
    BY <1>5 DEF vars, Kept, KeepsMessages
  <2>2. (Sound(db) /\ Sound(draft) /\ Named(db) /\ Empty(db))'
    BY <1>5 DEF vars, SchemaInv, Sound, Named, Empty, NoMessage
  <2>3. (\A p \in Process : Known(p))'
    BY <1>5 DEF vars, SchemaInv, Known, View, Drafted, Improves, KeepsMessages, KeepsIncidents,
                NoMessage, Named
  <2> QED
    BY <1>1, <2>1, <2>2, <2>3 DEF SchemaInv
<1> QED
  BY <1>2, <1>3, <1>4, <1>5 DEF InTurn, Next

(* Where a command is in _init_db, and whether it has a transaction, says which *)
(* tables it has made sure of, whatever others do to the file meanwhile.        *)
THEOREM SchemaInvariant == TurnSpec => []SchemaInv
<1>1. SchemaInv /\ [InTurn]_vars => SchemaInv'
  BY StepKnown
<1> QED
  BY InitKnown, <1>1, PTL DEF TurnSpec

(* A command that has opened the ledger finds every table and the unique index *)
(* in their current shape (AlertLedger._init_db).                              *)
THEOREM OpenLedgerIsComplete == TurnSpec => []OpenIsComplete
<1>1. SchemaInv => OpenIsComplete
  <2> SUFFICES ASSUME SchemaInv, NEW p \in Process, pc[p] = "open", NEW o \in Object
               PROVE  db.shape[o] = "current"
    BY DEF OpenIsComplete
  <2>1. Known(p) /\ View(p) = db
    BY Seen DEF Transaction
  <2>2. o \in Made("open")
    BY DEF Made, Before, UpToScope, Object, Plain
  <2> QED
    BY <2>1, <2>2 DEF Known
<1> QED
  BY <1>1, SchemaInvariant, PTL

(* No message of a current ledger names an incident that was dropped: outdated *)
(* incidents are replaced and forgotten in one transaction, or there is no     *)
(* message to name them (ledger.py:_init_db).                                  *)
THEOREM IncidentsAreNamed == TurnSpec => []NoVanishedIncident
<1>1. SchemaInv => NoVanishedIncident
  BY DEF SchemaInv, Named, NoVanishedIncident
<1> QED
  BY <1>1, SchemaInvariant, PTL

(* As long as commands open an older file in turn, no current table is dropped, *)
(* and no row of one is lost.                                                   *)
LEMMA RecordsKeptInTurn == TurnSpec => RecordsKept
<1>1. SchemaInv /\ [InTurn]_vars => [Kept]_vars
  BY StepKnown
<1>2. Kept => /\ db.shape["alert_messages"] = "current" =>
                    \A a \in Alert : db.task[a] # NoRow => db'.task[a] # NoRow
              /\ db.shape["alert_incidents"] = "current" => db.incidents \subseteq db'.incidents
  BY DEF Kept, KeepsMessages
<1> QED
  BY <1>1, <1>2, SchemaInvariant, PTL DEF TurnSpec, RecordsKept

-----------------------------------------------------------------------------
(* Files without an older table *)

NoLegacy(d) == \A o \in Object : d.shape[o] # "legacy"

(* No statement makes an older table. *)
LEMMA NothingGetsOlder ==
  ASSUME SchemaTypeOK, NoLegacy(db), NoLegacy(draft), [Next]_vars
  PROVE  (NoLegacy(db) /\ NoLegacy(draft))'
<1>1. ASSUME NEW p \in Process PROVE View(p) \in Database /\ NoLegacy(View(p))
  BY DEF View, SchemaTypeOK
<1>2. ASSUME NEW p \in Process, NEW d, NoLegacy(d), Write(p, d) \/ BeginWrite(p, d)
      PROVE  (NoLegacy(db) /\ NoLegacy(draft))'
  BY <1>2 DEF Write, BeginWrite, NoLegacy
<1>3. ASSUME NEW p \in Process, Stop(p) PROVE (NoLegacy(db) /\ NoLegacy(draft))'
  BY <1>3 DEF Stop, NoLegacy
<1>4. CASE UNCHANGED <<db, draft>>
  BY <1>4 DEF NoLegacy
<1>5. ASSUME NEW p \in Process, NEW o \in Object
      PROVE  NoLegacy(WithShape(View(p), o, "current"))
  BY <1>1, ShapeChanged DEF NoLegacy, Shape
<1>6. ASSUME NEW p \in Process
      PROVE  NoLegacy(DropMessages(View(p))) /\ NoLegacy(DropIncidents(View(p)))
  BY <1>1, Dropped DEF NoLegacy
<1>7. ASSUME NEW p \in Process, NEW o \in Object, NEW next,
             Create(p, o, next) \/ Ensure(p, o, next)
      PROVE  (NoLegacy(db) /\ NoLegacy(draft))'
  BY <1>2, <1>3, <1>4, <1>5, <1>7 DEF Create, Ensure
<1>8. ASSUME NEW p \in Process, Step(p) PROVE (NoLegacy(db) /\ NoLegacy(draft))'
  <2>1. CASE Begin(p) \/ ReadColumns(p) \/ ReadIndexes(p) \/ ReadIncidents(p)
    BY <1>4, <2>1 DEF Begin, ReadColumns, ReadIndexes, ReadIncidents
  <2>2. CASE DropOldMessages(p) \/ DropOldIncidents(p)
    BY <1>2, <1>3, <1>6, <2>2 DEF DropOldMessages, DropOldIncidents, Drop
  <2>3. CASE CreateMessages(p) \/ CreateIncidents(p)
    BY <1>7, <2>3 DEF CreateMessages, CreateIncidents, Object
  <2>4. CASE DefaultScope(p)
    BY <1>1, <1>2, <1>3, <2>4 DEF DefaultScope
  <2>5. CASE ForgetIncidents(p)
    <3>1. NoLegacy(ClearTasks(View(p)))
      BY <1>1, Cleared DEF NoLegacy
    <3> QED
      BY <1>2, <1>3, <2>5, <3>1 DEF ForgetIncidents
  <2>6. CASE EnsurePlain(p)
    BY <1>7, <2>6 DEF EnsurePlain, Object
  <2>7. CASE EnsureIndex(p)
    BY <1>3, <1>7, <2>7 DEF EnsureIndex, Object
  <2>8. CASE Commit(p)
    BY <2>8 DEF Commit, NoLegacy
  <2> QED
    BY <1>8, <2>1, <2>2, <2>3, <2>4, <2>5, <2>6, <2>7, <2>8 DEF Step
<1>9. ASSUME NEW p \in Process, Work(p) PROVE (NoLegacy(db) /\ NoLegacy(draft))'
  <2>1. CASE Exit(p)
    BY <1>4, <2>1 DEF Exit
  <2>2. ASSUME NEW a \in Alert, IngestMessage(p, a) PROVE (NoLegacy(db) /\ NoLegacy(draft))'
    <3>1. PICK i : Write(p, [db EXCEPT !.task[a] = i])
      BY <2>2 DEF IngestMessage
    <3>2. NoLegacy([db EXCEPT !.task[a] = i])
      BY DEF NoLegacy, SchemaTypeOK, Database
    <3> QED
      BY <1>2, <3>1, <3>2
  <2>3. ASSUME NEW a \in Alert, OpenIncident(p, a) PROVE (NoLegacy(db) /\ NoLegacy(draft))'
    <3> DEFINE d == [db EXCEPT !.incidents = @ \cup {a},
                       !.task = [x \in Alert |-> IF @[x] = NoTask THEN a ELSE @[x]]]
    <3>1. NoLegacy(d)
      BY DEF NoLegacy, SchemaTypeOK, Database
    <3> QED
      BY <1>2, <2>3, <3>1 DEF OpenIncident
  <2> QED
    BY <1>9, <2>1, <2>2, <2>3 DEF Work
<1>10. ASSUME NEW p \in Process, Crash(p) PROVE (NoLegacy(db) /\ NoLegacy(draft))'
  BY <1>3, <1>10 DEF Crash
<1>11. CASE UNCHANGED vars
  BY <1>4, <1>11 DEF vars
<1> QED
  BY <1>8, <1>9, <1>10, <1>11 DEF Next

(* On a file without an older table commands need not take turns: however many *)
(* open it at once, whatever is killed, and whatever they record meanwhile,    *)
(* what is open is complete, no message names an incident that was dropped,    *)
(* and nothing recorded is lost (AlertLedger._init_db).                        *)
THEOREM OpenedTogether ==
  ASSUME \A s \in Start : s[1] # "legacy" /\ s[2] # "legacy"
  PROVE  Spec => []OpenIsComplete /\ []NoVanishedIncident /\ RecordsKept
<1>1. Init => NoLegacy(db) /\ NoLegacy(draft)
  BY DEF Init, StartDatabase, NoLegacy
<1>2. SchemaTypeOK /\ NoLegacy(db) /\ NoLegacy(draft) /\ [Next]_vars
        => (NoLegacy(db) /\ NoLegacy(draft))'
  BY NothingGetsOlder
<1>3. NoLegacy(db) => TakeTurns
  BY DEF NoLegacy, TakeTurns, Older
<1>4. TakeTurns' /\ [Next]_vars => [InTurn]_vars
  BY DEF InTurn
<1>5. Spec => TurnSpec
  BY <1>1, <1>2, <1>3, <1>4, SchemaTypes, PTL DEF Spec, TurnSpec
<1> QED
  BY <1>5, OpenLedgerIsComplete, IncidentsAreNamed, RecordsKeptInTurn, PTL
=============================================================================
