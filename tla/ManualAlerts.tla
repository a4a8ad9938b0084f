----------------------------- MODULE ManualAlerts -----------------------------
(***************************************************************************)
(* manual-alert: an alert typed in by an operator, handled by              *)
(* AlertCoordinator.handle_alert (coordinator.py) on the tables            *)
(* alert_messages and alert_incidents, next to incident-update.            *)
(*                                                                         *)
(* One handler is one manual-alert process, and one incident scope is      *)
(* modelled. Every connection to the ledger and every Kanban call is one   *)
(* step, and a process can end between any two of them, after which the    *)
(* operator may give the same alert again. Hermes creates one card, hence  *)
(* one task id, per idempotency key: a task is its key here.               *)
(***************************************************************************)
EXTENDS Naturals, Sequences, FiniteSets

CONSTANTS
  Handler,   \* processes that handle alerts
  Operator,  \* processes that update an incident: incident-update, the watchdog
  Call,      \* the alerts: records [message, alarm, state]
  Update,    \* the updates: records [status, channel]
  Status,    \* the statuses an incident can have
  NoTask     \* NULL for a task id

Active == {"access_blocked", "awaiting_pr", "awaiting_review", "blocked",
           "code_fix_queued", "decision_blocked", "investigating",
           "ops_blocked", "pr_opened", "stalled"}

Closed == {"done", "closed", "resolved"}

Channel == {"acked", "correlated", "progress", "watchdog-stalled", "final"}

RecoveryStates == {"OK", "RECOVERY", "RESOLVED"}

ASSUME CallAssumption ==
  \A c \in Call : c.state \in RecoveryStates \cup {"ALARM", "INSUFFICIENT_DATA"}

ASSUME UpdateAssumption ==
  /\ {"investigating", "resolved"} \subseteq Status
  /\ \A u \in Update : u.status \in Status /\ u.channel \in Channel \cup {"none"}

Message == {c.message : c \in Call}
Alarm == {c.alarm : c \in Call}
Task == Alarm \X Message

ASSUME NoTaskAssumption == NoTask \notin Task

(* "none" and "absent" stand for NULL and for no row. *)
ASSUME NamesAssumption == "none" \notin Alarm /\ "absent" \notin Status

ASSUME HandlerAssumption == IsFiniteSet(Handler)

VARIABLES
  rows,      \* alert_messages in the order of id: [message, alarm, task]
  status,    \* alert_incidents.status, "absent" without a row
  channel,   \* alert_incidents.last_channel_status, "none" for NULL
  cards,     \* the tasks on the Kanban board
  answered,  \* calls that returned a result: [call, task]
  pc,        \* what each process does next
  job,       \* what a process keeps in memory
  crowd      \* history: how many alerts of an alarm were in progress at once

ledgerVars == <<rows, status, channel>>
vars == <<ledgerVars, cards, answered, pc, job, crowd>>

NoCall == [message |-> "none", alarm |-> "none", state |-> "none"]

NoUpdate == [status |-> "absent", channel |-> "none"]

Idle == [call |-> NoCall, task |-> NoTask, update |-> NoUpdate]

Process == Handler \cup Operator

Init ==
  /\ rows = <<>>
  /\ status = [t \in Task |-> "absent"]
  /\ channel = [t \in Task |-> "none"]
  /\ cards = {}
  /\ answered = {}
  /\ pc = [x \in Process |-> "idle"]
  /\ job = [x \in Process |-> Idle]
  /\ crowd = [a \in Alarm |-> 0]

-----------------------------------------------------------------------------
Goto(x, next) == pc' = [pc EXCEPT ![x] = next]

Finish(x) ==
  /\ Goto(x, "idle")
  /\ job' = [job EXCEPT ![x] = Idle]

(* find_open_incident: of several the one seen last, left open here. *)
OpenTasks(a) == {t \in Task : t[1] = a /\ status[t] \in Active}

OneOf(T) == IF T = {} THEN {NoTask} ELSE T

Busy(a) == Cardinality({h \in Handler : job[h].call.alarm = a})

(* ingest_message looks for an open incident before it inserts the message. *)
Correlate(h) ==
  /\ pc[h] = "idle"
  /\ \E c \in Call : \E t \in OneOf(OpenTasks(c.alarm)) :
       /\ job' = [job EXCEPT ![h] = [call |-> c, task |-> t, update |-> NoUpdate]]
       /\ crowd' = [crowd EXCEPT ![c.alarm] = IF @ < Busy(c.alarm) + 1 THEN @ + 1 ELSE @]
  /\ Goto(h, "insert")
  /\ UNCHANGED <<ledgerVars, cards, answered>>

RowOf(m) == {n \in DOMAIN rows : rows[n].message = m}

(* The message is new. With an incident, or as a recovery without one, it    *)
(* needs nothing more; an alert without one needs a card.                    *)
Insert(h) ==
  /\ pc[h] = "insert"
  /\ LET c == job[h].call
         t == job[h].task
     IN /\ RowOf(c.message) = {}
        /\ rows' = Append(rows, [message |-> c.message, alarm |-> c.alarm, task |-> t])
        /\ Goto(h, IF t = NoTask /\ c.state \notin RecoveryStates
                     THEN "seed" ELSE "answer")
  /\ UNCHANGED <<status, channel, cards, answered, job, crowd>>

(* Mistakes: a message that is known needs nothing more, or is handled as new. *)
DuplicateIsDone(h) ==
  /\ pc[h] = "insert"
  /\ \E n \in RowOf(job[h].call.message) :
       job' = [job EXCEPT ![h].task = rows[n].task]
  /\ Goto(h, "answer")
  /\ UNCHANGED <<ledgerVars, cards, answered, crowd>>

RepeatAsNew(h) ==
  /\ pc[h] = "insert"
  /\ RowOf(job[h].call.message) # {}
  /\ Goto(h, IF job[h].call.state \in RecoveryStates THEN "answer" ELSE "seed")
  /\ UNCHANGED <<ledgerVars, cards, answered, job, crowd>>

(* The insert fails on a message that is there: its row says which incident  *)
(* it belongs to, whatever was found before. Without one the call goes on as *)
(* for a new message.                                                        *)
Duplicate(h) ==
  /\ pc[h] = "insert"
  /\ \E n \in RowOf(job[h].call.message) :
       LET t == rows[n].task IN
       /\ job' = [job EXCEPT ![h].task = t]
       /\ Goto(h, IF t = NoTask /\ job[h].call.state \notin RecoveryStates
                    THEN "seed" ELSE "answer")
  /\ UNCHANGED <<ledgerVars, cards, answered, crowd>>

(* Mistake: the key of a card names the alert at hand. *)
SeedOfCall(c) == {c.message}

(* idempotency_seed: the first message of the alarm that has no incident yet. *)
Waiting(a) == {n \in DOMAIN rows : rows[n].alarm = a /\ rows[n].task = NoTask}

Seed(c) ==
  IF Waiting(c.alarm) = {} THEN {c.message}
  ELSE LET first(n) == \A k \in Waiting(c.alarm) : n <= k
       IN {rows[n].message : n \in {k \in Waiting(c.alarm) : first(k)}}

TakeSeed(h) ==
  /\ pc[h] = "seed"
  /\ LET c == job[h].call IN
       \E s \in Seed(c) : job' = [job EXCEPT ![h].task = <<c.alarm, s>>]
  /\ Goto(h, "create")
  /\ UNCHANGED <<ledgerVars, cards, answered, crowd>>

(* create_incident; that it can raise after it made the card is End below. *)
CreateCard(h) ==
  /\ pc[h] = "create"
  /\ cards' = cards \cup {job[h].task}
  /\ Goto(h, "open")
  /\ UNCHANGED <<ledgerVars, answered, job, crowd>>

(* open_incident inserts the row or, for a task that has one, sets its status  *)
(* again, and assigns the waiting messages of the alarm to it.                 *)
Open(h) ==
  /\ pc[h] = "open"
  /\ LET t == job[h].task IN
       /\ status' = [status EXCEPT ![t] = "investigating"]
       /\ rows' = [n \in DOMAIN rows |->
                     IF rows[n].alarm = t[1] /\ rows[n].task = NoTask
                       THEN [rows[n] EXCEPT !.task = t] ELSE rows[n]]
  /\ Goto(h, "answer")
  /\ UNCHANGED <<channel, cards, answered, job, crowd>>

Answer(h) ==
  /\ pc[h] = "answer"
  /\ answered' = answered \cup {[call |-> job[h].call, task |-> job[h].task]}
  /\ Finish(h)
  /\ UNCHANGED <<ledgerVars, cards, crowd>>

-----------------------------------------------------------------------------
(* incident-update, and the watchdog when it stores its report (cli.py:325):   *)
(* update_incident_status reads the channel status, checks it, and writes with *)
(* a second statement, in no transaction with the first.                       *)

Evidence(t, c) == IF c = "none" THEN channel[t] ELSE c

CheckEvidence(o) ==
  /\ pc[o] = "idle"
  /\ \E t \in Task, u \in Update :
       /\ status[t] # "absent"
       /\ u.status \in Closed => Evidence(t, u.channel) = "final"
       /\ job' = [job EXCEPT ![o] = [call |-> NoCall, task |-> t, update |-> u]]
  /\ Goto(o, "update")
  /\ UNCHANGED <<ledgerVars, cards, answered, crowd>>

WriteUpdate(o) ==
  /\ pc[o] = "update"
  /\ LET t == job[o].task
         u == job[o].update
     IN /\ status' = [status EXCEPT ![t] = u.status]
        /\ channel' = [channel EXCEPT ![t] = Evidence(t, u.channel)]
  /\ Finish(o)
  /\ UNCHANGED <<rows, cards, answered, crowd>>

(* The process ends early: killed, or by an exception. A Kanban call that *)
(* raises may have made its card.                                         *)
End(x) ==
  /\ pc[x] # "idle"
  /\ cards' \in {cards, IF pc[x] = "create" THEN cards \cup {job[x].task} ELSE cards}
  /\ Finish(x)
  /\ UNCHANGED <<ledgerVars, answered, crowd>>

Handle(h) ==
  \/ Correlate(h) \/ Insert(h) \/ Duplicate(h)
  \/ TakeSeed(h) \/ CreateCard(h) \/ Open(h) \/ Answer(h)

Next ==
  \/ \E h \in Handler : Handle(h)
  \/ \E o \in Operator : CheckEvidence(o) \/ WriteUpdate(o)
  \/ \E x \in Process : End(x)

Spec == Init /\ [][Next]_vars

-----------------------------------------------------------------------------
(* Properties. *)

Row == [message : Message, alarm : Alarm, task : Task \cup {NoTask}]

Job == [call : Call \cup {NoCall}, task : Task \cup {NoTask},
        update : Update \cup {NoUpdate}]

(* Everything has its type: a process knows what it works on, and a message *)
(* is in the ledger once.                                                   *)
ManualTypeOK ==
  /\ rows \in Seq(Row)
  /\ \A n, m \in DOMAIN rows : rows[n].message = rows[m].message => n = m
  /\ status \in [Task -> Status \cup {"absent"}]
  /\ channel \in [Task -> Channel \cup {"none"}]
  /\ cards \subseteq Task
  /\ answered \subseteq [call : Call, task : Task \cup {NoTask}]
  /\ pc \in [Process -> {"idle", "insert", "seed", "create", "open", "answer", "update"}]
  /\ job \in [Process -> Job]
  /\ \A x \in Process :
       /\ pc[x] \in {"insert", "seed", "create", "open", "answer"} => job[x].call \in Call
       /\ pc[x] \in {"create", "open", "update"} => job[x].task \in Task
       /\ pc[x] = "update" => x \in Operator /\ job[x].update \in Update
  /\ crowd \in [Alarm -> Nat]

(* Related alerts correlate with the open incident: an alarm whose alerts are *)
(* handled one at a time never has two open incidents, whatever was           *)
(* interrupted and repeated. Alerts that are handled at once can find no open *)
(* incident, take different keys and open one each (coordinator.py:183-198);  *)
(* but what overlaps is all that can double, and those to come correlate.     *)
OneOpenPerAlarm ==
  \A a \in Alarm : Cardinality(OpenTasks(a)) <= crowd[a]

(* A card that was made for an incident which never got its row is the one    *)
(* that the next alert of the alarm, the same or another, will use: an        *)
(* interrupted call leaves no card behind for good (idempotency_seed), as     *)
(* long as alerts of the alarm do not overlap.                                *)
OrphanIsReused ==
  \A t \in cards : (status[t] = "absent" /\ crowd[t[1]] = 1) =>
    \E n \in DOMAIN rows :
      /\ rows[n].message = t[2] /\ rows[n].alarm = t[1] /\ rows[n].task = NoTask
      /\ \A m \in 1..(n - 1) : rows[m].alarm = t[1] => rows[m].task # NoTask

(* An alert that was answered as handled has an incident, about its alarm and *)
(* with a card on the board, and its message is assigned to an incident of    *)
(* the alarm: to this one, unless alerts of the alarm overlapped.             *)
AnsweredHasIncident ==
  \A a \in answered : a.call.state \notin RecoveryStates =>
    /\ a.task \in cards
    /\ status[a.task] # "absent"
    /\ a.task[1] = a.call.alarm
    /\ \E n \in RowOf(a.call.message) :
         IF crowd[a.call.alarm] = 1
           THEN rows[n].task = a.task
           ELSE /\ rows[n].task # NoTask
                /\ rows[n].task[1] = a.call.alarm /\ status[rows[n].task] # "absent"

(* A manual closing needs final channel evidence, so that it cannot silently *)
(* bypass the channel outcome and the watchdog (README.md:497).               *)
ManualClosedHasFinal ==
  \A t \in Task : status[t] \in Closed => channel[t] = "final"
=============================================================================
