---------------------------- MODULE LedgerSchema ----------------------------
(***************************************************************************)
(* AlertLedger.__init__ (ledger.py): every command that opens the ledger   *)
(* brings the tables of the SQLite file up to date first, next to others   *)
(* that open it or write to it.                                            *)
(*                                                                         *)
(* Python's sqlite3 commits every CREATE and DROP at once, until the first *)
(* UPDATE: it begins a transaction, which keeps SQLite's write lock and    *)
(* takes in all statements that follow, up to the commit at the end of     *)
(* _init_db. Each statement is one step, and a process may stop before any *)
(* of them: killed, or after waiting five seconds for the write lock.      *)
(***************************************************************************)
EXTENDS Naturals

CONSTANTS
  Process,     \* commands that open the ledger
  Alert,       \* manual alerts: a message and, for the first, an incident
  OldAlert,    \* the alerts that a file of an older program may hold
  Start,       \* what the file can be: <<shape of messages, of incidents>>
  NoTask,      \* NULL as incident_task_id
  MaxCrashes   \* bounds the processes that are killed while they open

Shape == {"absent", "legacy", "current"}

Plain == {"alert_sources", "alert_events", "alert_transitions",
          "alert_side_effects", "alert_event_incidents"}

Object == Plain \cup {"alert_messages", "alert_incidents", "idx_open_incident"}

ASSUME StartAssumption == Start \subseteq Shape \X Shape
ASSUME AlertAssumption == OldAlert \subseteq Alert /\ NoTask \notin Alert
ASSUME MaxCrashesAssumption == MaxCrashes \in Nat

VARIABLES
  db,      \* the committed file
  writer,  \* who has a transaction, and with it the write lock
  draft,   \* the file as the writer sees it
  pc,      \* what each process does next
  crashes

vars == <<db, writer, draft, pc, crashes>>

NoRow == "none"
Nobody == "nobody"

ASSUME NamesAssumption == NoRow \notin Alert \cup {NoTask} /\ Nobody \notin Process

(* An incident has the name of the alert that opened it. *)
Database == [shape : [Object -> Shape],
             task : [Alert -> Alert \cup {NoTask, NoRow}],  \* alert_messages
             incidents : SUBSET Alert]                      \* alert_incidents

PC == {"down", "columns", "indexes", "drop_messages", "create_messages",
       "default_scope", "incidents", "drop_incidents", "recreate_incidents",
       "create_incidents", "index", "reindex", "clear_tasks", "commit", "open"} \cup Plain

(* In a file of the older program every message names its incident. *)
StartDatabase(s) ==
  [shape |-> [o \in Object |-> CASE o = "alert_messages" -> s[1]
                                 [] o = "alert_incidents" -> s[2]
                                 [] o = "idx_open_incident" /\ s[2] = "current" -> "current"
                                 [] OTHER -> "absent"],
   task |-> [a \in Alert |->
               CASE a \in OldAlert /\ s[1] # "absent" /\ s[2] # "absent" -> a
                 [] a \in OldAlert /\ s = <<"legacy", "absent">> -> NoTask
                 [] OTHER -> NoRow],
   incidents |-> IF s[2] = "absent" THEN {} ELSE OldAlert]

Init ==
  /\ \E s \in Start : db = StartDatabase(s)
  /\ draft = db
  /\ writer = Nobody
  /\ pc = [p \in Process |-> "down"]
  /\ crashes = 0

-----------------------------------------------------------------------------
(* SQLite *)

View(p) == IF writer = p THEN draft ELSE db

Goto(p, next) == pc' = [pc EXCEPT ![p] = next]

(* A statement outside a transaction waits for the write lock and commits. *)
Write(p, new) ==
  /\ writer \in {p, Nobody}
  /\ draft' = new
  /\ db' = IF writer = p THEN db ELSE new
  /\ UNCHANGED <<writer, crashes>>

(* INSERT, UPDATE and DELETE begin a transaction. *)
BeginWrite(p, new) ==
  /\ writer \in {p, Nobody}
  /\ draft' = new
  /\ writer' = p
  /\ UNCHANGED <<db, crashes>>

(* An exception or a kill: what is not committed is rolled back. *)
Stop(p) ==
  /\ Goto(p, "down")
  /\ draft' = IF writer = p THEN db ELSE draft
  /\ writer' = IF writer = p THEN Nobody ELSE writer
  /\ UNCHANGED db

WithShape(d, o, s) == [d EXCEPT !.shape[o] = s]

NoMessages == [a \in Alert |-> NoRow]

DropMessages(d) ==
  [WithShape(d, "alert_messages", "absent") EXCEPT !.task = NoMessages]

(* Dropping a table drops its indexes. *)
DropIncidents(d) ==
  [WithShape(WithShape(d, "alert_incidents", "absent"), "idx_open_incident", "absent")
     EXCEPT !.incidents = {}]

ClearTasks(d) ==
  [d EXCEPT !.task = [a \in Alert |-> IF @[a] = NoRow THEN NoRow ELSE NoTask]]

-----------------------------------------------------------------------------
(* _init_db *)

Begin(p) ==
  /\ pc[p] = "down"
  /\ Goto(p, "columns")
  /\ UNCHANGED <<db, writer, draft, crashes>>

(* Mistake: a CREATE TABLE that fails is tried again. *)
CreateAgain(p, o, next) ==
  LET d == View(p) IN
  \/ /\ d.shape[o] = "absent"
     /\ Write(p, WithShape(d, o, "current"))
     /\ Goto(p, next)
  \/ /\ d.shape[o] # "absent"
     /\ UNCHANGED vars

(* A CREATE TABLE of a table that is there, and a DROP TABLE of one that is *)
(* not, raise.                                                              *)
Create(p, o, next) ==
  LET d == View(p) IN
  \/ /\ d.shape[o] = "absent"
     /\ Write(p, WithShape(d, o, "current"))
     /\ Goto(p, next)
  \/ /\ d.shape[o] # "absent"
     /\ Stop(p)
     /\ UNCHANGED crashes

Drop(p, o, dropped, next) ==
  \/ /\ View(p).shape[o] # "absent"
     /\ Write(p, dropped)
     /\ Goto(p, next)
  \/ /\ View(p).shape[o] = "absent"
     /\ Stop(p)
     /\ UNCHANGED crashes

(* IF NOT EXISTS: on what is there it writes nothing and needs no lock. *)
Ensure(p, o, next) ==
  LET d == View(p) IN
  /\ \/ d.shape[o] = "absent" /\ Write(p, WithShape(d, o, "current"))
     \/ d.shape[o] # "absent" /\ UNCHANGED <<db, writer, draft, crashes>>
  /\ Goto(p, next)

(* PRAGMA table_info, then PRAGMA index_list: the table may change between.  *)
ReadColumns(p) ==
  /\ pc[p] = "columns"
  /\ Goto(p, CASE View(p).shape["alert_messages"] = "absent" -> "create_messages"
               [] View(p).shape["alert_messages"] = "legacy" -> "drop_messages"
               [] OTHER -> "indexes")
  /\ UNCHANGED <<db, writer, draft, crashes>>

(* Mistake: a current table needs no UPDATE, and no transaction is begun. *)
ReadIndexesOnly(p) ==
  /\ pc[p] = "indexes"
  /\ Goto(p, IF View(p).shape["alert_messages"] = "current"
               THEN "alert_sources" ELSE "drop_messages")
  /\ UNCHANGED <<db, writer, draft, crashes>>

ReadIndexes(p) ==
  /\ pc[p] = "indexes"
  /\ Goto(p, IF View(p).shape["alert_messages"] = "current"
               THEN "default_scope" ELSE "drop_messages")
  /\ UNCHANGED <<db, writer, draft, crashes>>

DropOldMessages(p) ==
  /\ pc[p] = "drop_messages"
  /\ Drop(p, "alert_messages", DropMessages(View(p)), "create_messages")

CreateMessages(p) ==
  /\ pc[p] = "create_messages"
  /\ Create(p, "alert_messages", "alert_sources")

(* UPDATE alert_messages SET incident_scope: no row of a table whose column is *)
(* NOT NULL has none, but the statement begins the transaction. It raises if   *)
(* the table is gone.                                                          *)
DefaultScope(p) ==
  /\ pc[p] = "default_scope"
  /\ \/ /\ View(p).shape["alert_messages"] # "absent"
        /\ BeginWrite(p, View(p))
        /\ Goto(p, "alert_sources")
     \/ /\ View(p).shape["alert_messages"] = "absent"
        /\ Stop(p)
        /\ UNCHANGED crashes

After(o) ==
  CASE o = "alert_sources" -> "alert_events"
    [] o = "alert_events" -> "alert_transitions"
    [] o = "alert_transitions" -> "incidents"
    [] o = "alert_side_effects" -> "alert_event_incidents"
    [] o = "alert_event_incidents" -> "commit"

EnsurePlain(p) == pc[p] \in Plain /\ Ensure(p, pc[p], After(pc[p]))

ReadIncidents(p) ==
  /\ pc[p] = "incidents"
  /\ Goto(p, CASE View(p).shape["alert_incidents"] = "absent" -> "create_incidents"
               [] View(p).shape["alert_incidents"] = "legacy" -> "drop_incidents"
               [] OTHER -> "index")
  /\ UNCHANGED <<db, writer, draft, crashes>>

DropOldIncidents(p) ==
  /\ pc[p] = "drop_incidents"
  /\ Drop(p, "alert_incidents", DropIncidents(View(p)), "recreate_incidents")

CreateIncidents(p) ==
  \/ pc[p] = "create_incidents" /\ Create(p, "alert_incidents", "index")
  \/ pc[p] = "recreate_incidents" /\ Create(p, "alert_incidents", "reindex")

(* Mistake: the index is made with a new table only. *)
EnsureNewIndex(p) ==
  \/ /\ pc[p] = "index"
     /\ Goto(p, "alert_side_effects")
     /\ UNCHANGED <<db, writer, draft, crashes>>
  \/ pc[p] = "reindex" /\ Ensure(p, "idx_open_incident", "clear_tasks")

(* An index on a table that was dropped in the meantime raises. *)
EnsureIndex(p) ==
  /\ pc[p] \in {"index", "reindex"}
  /\ \/ /\ View(p).shape["alert_incidents"] # "absent"
        /\ Ensure(p, "idx_open_incident",
                  IF pc[p] = "index" THEN "alert_side_effects" ELSE "clear_tasks")
     \/ /\ View(p).shape["alert_incidents"] = "absent"
        /\ Stop(p)
        /\ UNCHANGED crashes

(* UPDATE alert_messages SET incident_task_id=NULL. *)
ForgetIncidents(p) ==
  /\ pc[p] = "clear_tasks"
  /\ \/ /\ View(p).shape["alert_messages"] # "absent"
        /\ BeginWrite(p, ClearTasks(View(p)))
        /\ Goto(p, "alert_side_effects")
     \/ /\ View(p).shape["alert_messages"] = "absent"
        /\ Stop(p)
        /\ UNCHANGED crashes

(* The end of the with block. Outside a transaction there is nothing left to do. *)
Commit(p) ==
  /\ pc[p] = "commit"
  /\ db' = IF writer = p THEN draft ELSE db
  /\ writer' = IF writer = p THEN Nobody ELSE writer
  /\ Goto(p, "open")
  /\ UNCHANGED <<draft, crashes>>

Step(p) ==
  \/ Begin(p) \/ ReadColumns(p) \/ ReadIndexes(p) \/ DropOldMessages(p)
  \/ CreateMessages(p) \/ DefaultScope(p) \/ EnsurePlain(p) \/ ReadIncidents(p)
  \/ DropOldIncidents(p) \/ CreateIncidents(p) \/ EnsureIndex(p)
  \/ ForgetIncidents(p) \/ Commit(p)

Crash(p) ==
  /\ pc[p] \notin {"down", "open"}
  /\ crashes < MaxCrashes
  /\ crashes' = crashes + 1
  /\ Stop(p)

-----------------------------------------------------------------------------
(* A command at work on the ledger it opened. *)

Usable(p, o) == pc[p] = "open" /\ db.shape[o] = "current"

(* ingest_message: a new message, of an open incident or of none yet. All    *)
(* alerts here are of one alarm; ManualAlerts has its steps.                 *)
IngestMessage(p, a) ==
  /\ Usable(p, "alert_messages")
  /\ db.task[a] = NoRow
  /\ \E i \in (IF db.incidents = {} THEN {NoTask} ELSE db.incidents) :
       Write(p, [db EXCEPT !.task[a] = i])
  /\ UNCHANGED pc

(* open_incident: the incident and the messages that name it, in one transaction. *)
OpenIncident(p, a) ==
  /\ Usable(p, "alert_messages")
  /\ Usable(p, "alert_incidents")
  /\ db.task[a] = NoTask
  /\ Write(p, [db EXCEPT !.incidents = @ \cup {a},
                         !.task = [x \in Alert |-> IF @[x] = NoTask THEN a ELSE @[x]]])
  /\ UNCHANGED pc

(* The command ends. *)
Exit(p) ==
  /\ pc[p] = "open"
  /\ Goto(p, "down")
  /\ UNCHANGED <<db, writer, draft, crashes>>

Work(p) == Exit(p) \/ \E a \in Alert : IngestMessage(p, a) \/ OpenIncident(p, a)

Next == \E p \in Process : Step(p) \/ Crash(p) \/ Work(p)

Spec == Init /\ [][Next]_vars

(* ReadColumns and the DROP it leads to are not in one transaction, and nothing *)
(* keeps two commands from opening a file of the older program at once: the    *)
(* second drops what the first has replaced and used since (ledger.py:246).    *)
(* What is said of such a file is said of commands that open it one after      *)
(* another, until it has no older table. On any other file this says nothing.  *)
Older == \E o \in Object : db.shape[o] = "legacy"

TakeTurns == Older => \A p, q \in Process : p # q => pc[p] = "down" \/ pc[q] = "down"

InTurn == Next /\ TakeTurns'

TurnSpec == Init /\ [][InTurn]_vars

(* A command that is opening the ledger goes on, and is started again by     *)
(* systemd. Waiting for the write lock, SQLite tries again every few         *)
(* milliseconds, and others hold it for that long and once a minute: strong  *)
(* fairness. Nothing makes an open one end.                                  *)
FairSpec == TurnSpec /\ \A p \in Process : SF_vars(Step(p) /\ TakeTurns')

-----------------------------------------------------------------------------
(* Everything has its type; the writer is in the middle of _init_db. *)
SchemaTypeOK ==
  /\ db \in Database /\ draft \in Database
  /\ writer \in Process \cup {Nobody}
  /\ pc \in [Process -> PC]
  /\ crashes \in 0..MaxCrashes
  /\ writer = Nobody => draft = db

(* A command that has opened the ledger finds every table in its current     *)
(* shape, and the partial unique index that keeps an alarm at one open       *)
(* incident, however many others open the file at the same time and wherever *)
(* an earlier attempt was interrupted.                                       *)
OpenIsComplete ==
  \A p \in Process : pc[p] = "open" => \A o \in Object : db.shape[o] = "current"

(* A message of a current ledger never names an incident that is not there:  *)
(* an interrupted replacement of the incidents takes effect with the clearing *)
(* of the messages or not at all. A duplicate of such a message would be      *)
(* answered with an incident nobody works on.                                 *)
NoVanishedIncident ==
  db.shape["alert_incidents"] # "legacy" =>
    \A a \in Alert : db.task[a] \in db.incidents \cup {NoTask, NoRow}

(* Opening the ledger drops tables of an older shape only: what a command     *)
(* recorded in a current one stays. Commands that open an older file at once  *)
(* break it.                                                                  *)
RecordsKept ==
  [][/\ db.shape["alert_messages"] = "current" =>
          \A a \in Alert : db.task[a] # NoRow => db'.task[a] # NoRow
     /\ db.shape["alert_incidents"] = "current" => db.incidents \subseteq db'.incidents]_vars

(* Opening ends: those that find a table made by another at the wrong moment  *)
(* raise, but do not keep each other from getting through.                    *)
OpensInTheEnd ==
  \A p \in Process : pc[p] = "columns" ~> pc[p] = "open"
=============================================================================
