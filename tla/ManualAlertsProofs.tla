------------------------- MODULE ManualAlertsProofs -------------------------
(***************************************************************************)
(* Theorems about ManualAlerts, for any number of processes, alerts and    *)
(* updates.                                                                *)
(***************************************************************************)
EXTENDS ManualAlerts, FiniteSetTheorems, TLAPS

LEMMA InitTypes == Init => ManualTypeOK
BY DEF Init, ManualTypeOK, Job, Idle

(* What ManualTypeOK says of the processes. *)
ProcessTypes ==
  /\ pc \in [Process -> {"idle", "insert", "seed", "create", "open", "answer", "update"}]
  /\ job \in [Process -> Job]
  /\ \A x \in Process :
       /\ pc[x] \in {"insert", "seed", "create", "open", "answer"} => job[x].call \in Call
       /\ pc[x] \in {"create", "open", "update"} => job[x].task \in Task
       /\ pc[x] = "update" => x \in Operator /\ job[x].update \in Update

(* A process that ends is idle and keeps nothing. *)
LEMMA FinishTypes ==
  ASSUME ManualTypeOK, NEW x \in Process, Finish(x)
  PROVE  ProcessTypes'
<1>1. ProcessTypes
  BY DEF ManualTypeOK, ProcessTypes
<1>2. pc' = [pc EXCEPT ![x] = "idle"] /\ job' = [job EXCEPT ![x] = Idle]
  BY DEF Finish, Goto
<1>3. Idle \in Job
  BY DEF Idle, Job
<1>4. /\ pc'[x] = "idle"
      /\ \A y \in Process \ {x} : pc'[y] = pc[y] /\ job'[y] = job[y]
  BY <1>1, <1>2 DEF ProcessTypes
<1> QED
  BY <1>1, <1>2, <1>3, <1>4 DEF ProcessTypes

LEMMA SeedIsMessage ==
  ASSUME ManualTypeOK, NEW c \in Call, NEW s \in Seed(c)
  PROVE  s \in Message
<1>1. CASE Waiting(c.alarm) = {}
  BY <1>1 DEF Seed, Message
<1>2. CASE Waiting(c.alarm) # {}
  <2>1. PICK n \in Waiting(c.alarm) : s = rows[n].message
    BY <1>2 DEF Seed
  <2>2. rows[n] \in Row
    BY <2>1 DEF Waiting, ManualTypeOK
  <2> QED
    BY <2>1, <2>2 DEF Row
<1> QED
  BY <1>1, <1>2

LEMMA StepTypes ==
  ASSUME ManualTypeOK, [Next]_vars
  PROVE  ManualTypeOK'
<1> USE DEF ManualTypeOK, ledgerVars
<1>1. ASSUME NEW h \in Handler, Correlate(h) PROVE ManualTypeOK'
  <2>0. PICK c \in Call : \E t \in OneOf(OpenTasks(c.alarm)) :
          /\ job' = [job EXCEPT ![h] = [call |-> c, task |-> t, update |-> NoUpdate]]
          /\ crowd' = [crowd EXCEPT ![c.alarm] =
                         IF @ < Busy(c.alarm) + 1 THEN @ + 1 ELSE @]
    BY <1>1 DEF Correlate
  <2>1. PICK t \in OneOf(OpenTasks(c.alarm)) :
          /\ job' = [job EXCEPT ![h] = [call |-> c, task |-> t, update |-> NoUpdate]]
          /\ crowd' = [crowd EXCEPT ![c.alarm] =
                         IF @ < Busy(c.alarm) + 1 THEN @ + 1 ELSE @]
    BY <2>0
  <2>2. t \in Task \cup {NoTask}
    BY DEF OneOf, OpenTasks
  <2>3. crowd' \in [Alarm -> Nat]
    BY <2>1 DEF Alarm
  <2> QED
    BY <1>1, <2>1, <2>2, <2>3 DEF Correlate, Goto, Process, Job
<1>2. ASSUME NEW h \in Handler, Insert(h) PROVE ManualTypeOK'
  <2> DEFINE c == job[h].call
             r == [message |-> c.message, alarm |-> c.alarm, task |-> job[h].task]
  <2>1. /\ RowOf(c.message) = {} /\ rows' = Append(rows, r) /\ c \in Call
        /\ h \in Process /\ r \in Row
    BY <1>2 DEF Insert, Process, Row, Message, Alarm, Job
  <2>2. rows' \in Seq(Row)
    BY <2>1
  <2>3. ASSUME NEW n \in DOMAIN rows', NEW m \in DOMAIN rows',
               rows'[n].message = rows'[m].message
        PROVE  n = m
    <3>1. /\ Len(rows) \in Nat /\ DOMAIN rows' = 1..(Len(rows) + 1)
          /\ \A k \in 1..Len(rows) : rows'[k] = rows[k] /\ rows[k].message # c.message
          /\ rows'[Len(rows) + 1] = r
      BY <2>1 DEF RowOf
    <3>2. r.message = c.message
      OBVIOUS
    <3>3. n \in 1..Len(rows) \/ n = Len(rows) + 1
      BY <3>1
    <3>4. m \in 1..Len(rows) \/ m = Len(rows) + 1
      BY <3>1
    <3> QED
      BY <2>3, <3>1, <3>2, <3>3, <3>4
  <2> QED
    BY <1>2, <2>1, <2>2, <2>3 DEF Insert, Goto
<1>3. ASSUME NEW h \in Handler, Duplicate(h) PROVE ManualTypeOK'
  <2>1. PICK n \in RowOf(job[h].call.message) :
          /\ job' = [job EXCEPT ![h].task = rows[n].task]
          /\ \E next \in {"seed", "answer"} : pc' = [pc EXCEPT ![h] = next]
    BY <1>3 DEF Duplicate, Goto
  <2>4. h \in Process /\ pc[h] = "insert"
    BY <1>3 DEF Process, Duplicate
  <2>5. rows[n] \in Row
    BY <2>1 DEF RowOf
  <2>2. h \in Process /\ rows[n].task \in Task \cup {NoTask} /\ job[h].call \in Call
    BY <2>4, <2>5 DEF Row
  <2>3. job' \in [Process -> Job]
    BY <2>1, <2>2 DEF Job
  <2> QED
    BY <1>3, <2>1, <2>2, <2>3 DEF Duplicate, Job
<1>4. ASSUME NEW h \in Handler, TakeSeed(h) PROVE ManualTypeOK'
  <2>1. PICK s \in Seed(job[h].call) :
          job' = [job EXCEPT ![h].task = <<job[h].call.alarm, s>>]
    BY <1>4 DEF TakeSeed
  <2>2. h \in Process /\ job[h].call \in Call
    BY <1>4 DEF TakeSeed, Process
  <2>3. <<job[h].call.alarm, s>> \in Task
    BY <2>2, SeedIsMessage DEF Task, Alarm
  <2>4. /\ job' \in [Process -> Job] /\ job'[h].task \in Task /\ job'[h].call \in Call
        /\ \A x \in Process \ {h} : job'[x] = job[x]
    <3>1. PICK t \in Task : job' = [job EXCEPT ![h].task = t]
      BY <2>1, <2>3
    <3>2. job[h] \in Job
      BY <2>2
    <3>3. [job[h] EXCEPT !.task = t] \in Job /\ [job[h] EXCEPT !.task = t].task = t
          /\ [job[h] EXCEPT !.task = t].call = job[h].call
      BY <3>2 DEF Job
    <3>4. job' = [job EXCEPT ![h] = [job[h] EXCEPT !.task = t]]
      BY <3>1
    <3> QED
      BY <2>2, <3>3, <3>4
  <2>5. /\ pc' = [pc EXCEPT ![h] = "create"]
        /\ UNCHANGED <<rows, status, channel, cards, answered, crowd>>
    BY <1>4 DEF TakeSeed, Goto
  <2>6. pc'[h] = "create" /\ \A x \in Process \ {h} : pc'[x] = pc[x]
    BY <2>2, <2>5
  <2>7. ASSUME NEW x \in Process
        PROVE  (/\ pc[x] \in {"insert", "seed", "create", "open", "answer"} => job[x].call \in Call
                /\ pc[x] \in {"create", "open", "update"} => job[x].task \in Task
                /\ pc[x] = "update" => x \in Operator /\ job[x].update \in Update)'
    BY <2>4, <2>6
  <2> QED
    BY <2>2, <2>4, <2>5, <2>7
<1>5. ASSUME NEW h \in Handler, CreateCard(h) PROVE ManualTypeOK'
  BY <1>5 DEF CreateCard, Goto, Process
<1>6. ASSUME NEW h \in Handler, Open(h) PROVE ManualTypeOK'
  <2> DEFINE t == job[h].task
  <2>1. h \in Process /\ t \in Task
    BY <1>6 DEF Open, Process
  <2>2. rows' = [n \in DOMAIN rows |->
                   IF rows[n].alarm = t[1] /\ rows[n].task = NoTask
                     THEN [rows[n] EXCEPT !.task = t] ELSE rows[n]]
    BY <1>6 DEF Open
  <2>3. \A n \in DOMAIN rows : rows'[n] \in Row /\ rows'[n].message = rows[n].message
    <3>1. \A n \in DOMAIN rows : rows[n] \in Row
      OBVIOUS
    <3> QED
      BY <2>1, <2>2, <3>1 DEF Row
  <2>4. rows' \in Seq(Row) /\ DOMAIN rows' = DOMAIN rows
    <3>1. DOMAIN rows = 1..Len(rows) /\ Len(rows) \in Nat
      OBVIOUS
    <3> QED
      BY <2>2, <2>3, <3>1
  <2>5. status' \in [Task -> Status \cup {"absent"}]
    BY <1>6, <2>1, UpdateAssumption DEF Open
  <2> QED
    BY <1>6, <2>1, <2>3, <2>4, <2>5 DEF Open, Goto
<1>7. ASSUME NEW h \in Handler, Answer(h) PROVE ManualTypeOK'
  <2>1. h \in Process /\ job[h].call \in Call /\ job[h].task \in Task \cup {NoTask}
    BY <1>7 DEF Answer, Process, Job
  <2>2. ProcessTypes'
    BY <1>7, <2>1, FinishTypes DEF Answer
  <2>3. answered' \subseteq [call : Call, task : Task \cup {NoTask}]
    BY <1>7, <2>1 DEF Answer
  <2>4. UNCHANGED <<rows, status, channel, cards, crowd>>
    BY <1>7 DEF Answer
  <2> QED
    BY <2>2, <2>3, <2>4 DEF ProcessTypes
<1>8. ASSUME NEW o \in Operator, CheckEvidence(o) PROVE ManualTypeOK'
  <2>1. PICK t \in Task, u \in Update :
          job' = [job EXCEPT ![o] = [call |-> NoCall, task |-> t, update |-> u]]
    BY <1>8 DEF CheckEvidence
  <2> QED
    BY <1>8, <2>1 DEF CheckEvidence, Goto, Process, Job
<1>9. ASSUME NEW o \in Operator, WriteUpdate(o) PROVE ManualTypeOK'
  <2> DEFINE t == job[o].task
             u == job[o].update
  <2>1. o \in Process /\ t \in Task /\ u \in Update /\ Finish(o)
    BY <1>9 DEF WriteUpdate, Process
  <2>2. u.status \in Status /\ Evidence(t, u.channel) \in Channel \cup {"none"}
    BY <2>1, UpdateAssumption DEF Evidence
  <2>3. /\ status' = [status EXCEPT ![t] = u.status]
        /\ channel' = [channel EXCEPT ![t] = Evidence(t, u.channel)]
    BY <1>9 DEF WriteUpdate
  <2>4. /\ status' \in [Task -> Status \cup {"absent"}]
        /\ channel' \in [Task -> Channel \cup {"none"}]
    BY <2>1, <2>2, <2>3
  <2>5. UNCHANGED <<rows, cards, answered, crowd>>
    BY <1>9 DEF WriteUpdate
  <2>6. ProcessTypes'
    BY <2>1, FinishTypes
  <2> HIDE DEF t, u
  <2> QED
    BY <2>4, <2>5, <2>6 DEF ProcessTypes
<1>10. ASSUME NEW x \in Process, End(x) PROVE ManualTypeOK'
  <2>1. cards' \subseteq Task
    BY <1>10 DEF End
  <2>2. UNCHANGED <<rows, status, channel, answered, crowd>>
    BY <1>10 DEF End
  <2>3. ProcessTypes'
    BY <1>10, FinishTypes DEF End
  <2> QED
    BY <2>1, <2>2, <2>3 DEF ProcessTypes
<1>11. CASE UNCHANGED vars
  BY <1>11 DEF vars
<1> QED
  BY <1>1, <1>2, <1>3, <1>4, <1>5, <1>6, <1>7, <1>8, <1>9, <1>10, <1>11 DEF Next, Handle

(* Every variable keeps its type: a process knows what it works on, and a *)
(* message is in the ledger once (UNIQUE of alert_messages).              *)
THEOREM ManualTypes == Spec => []ManualTypeOK
BY InitTypes, StepTypes, PTL DEF Spec

-----------------------------------------------------------------------------
(* Closings *)

(* Every update that closes says what was posted: --last-channel-status is given. *)
EvidenceIsNamed == \A u \in Update : u.status \in Closed => u.channel # "none"

(* An update that was checked brings its evidence with it. *)
Checked(o) ==
  pc[o] = "update" =>
    (job[o].update.status \in Closed => job[o].update.channel = "final")

ClosingInv ==
  /\ ManualTypeOK
  /\ \A o \in Operator : Checked(o)
  /\ ManualClosedHasFinal

LEMMA StepClosing ==
  ASSUME EvidenceIsNamed, ClosingInv, [Next]_vars
  PROVE  ClosingInv'
<1>1. ManualTypeOK /\ ManualTypeOK' /\ ManualClosedHasFinal /\ \A o \in Operator : Checked(o)
  BY StepTypes DEF ClosingInv
<1>2. ASSUME NEW h \in Handler, Handle(h) PROVE ClosingInv'
  <2>1. channel' = channel
    BY <1>2 DEF Handle, Correlate, Insert, Duplicate, TakeSeed, CreateCard, Open, Answer, ledgerVars
  <2>2. \A t \in Task : status'[t] \in Closed => status[t] \in Closed
    <3>1. CASE Open(h)
      <4>1. job[h].task \in Task /\ status' = [status EXCEPT ![job[h].task] = "investigating"]
        BY <1>1, <3>1 DEF Open, ManualTypeOK, Process
      <4> QED
        BY <1>1, <4>1 DEF ManualTypeOK, Closed
    <3>2. CASE ~Open(h)
      BY <1>2, <3>2 DEF Handle, Correlate, Insert, Duplicate, TakeSeed, CreateCard, Answer, ledgerVars
    <3> QED
      BY <3>1, <3>2
  <2>3. ASSUME NEW o \in Operator PROVE Checked(o)'
    <3>1. /\ \A x \in Process \ {h} : pc'[x] = pc[x] /\ job'[x] = job[x]
          /\ pc'[h] # "update"
      BY <1>1, <1>2 DEF Handle, Correlate, Insert, Duplicate, TakeSeed, CreateCard, Open, Answer,
           Finish, Goto, ManualTypeOK, Process
    <3> QED
      BY <1>1, <3>1 DEF Checked, Process
  <2> QED
    BY <1>1, <2>1, <2>2, <2>3 DEF ClosingInv, ManualClosedHasFinal
<1>3. ASSUME NEW o \in Operator, CheckEvidence(o) PROVE ClosingInv'
  <2>1. status' = status /\ channel' = channel
    BY <1>3 DEF CheckEvidence, ledgerVars
  <2>2. ASSUME NEW p \in Operator PROVE Checked(p)'
    <3>1. PICK t \in Task, u \in Update :
            /\ u.status \in Closed => Evidence(t, u.channel) = "final"
            /\ job' = [job EXCEPT ![o] = [call |-> NoCall, task |-> t, update |-> u]]
      BY <1>3 DEF CheckEvidence
    <3>2. u.status \in Closed => u.channel = "final"
      BY <3>1 DEF EvidenceIsNamed, Evidence
    <3>3. CASE p = o
      BY <1>1, <3>1, <3>2, <3>3 DEF Checked, ManualTypeOK, Process
    <3>4. CASE p # o
      <4>1. pc'[p] = pc[p] /\ job'[p] = job[p]
        BY <1>1, <1>3, <3>4 DEF CheckEvidence, Goto, ManualTypeOK, Process
      <4> QED
        BY <1>1, <4>1 DEF Checked
    <3> QED
      BY <3>3, <3>4
  <2> QED
    BY <1>1, <2>1, <2>2 DEF ClosingInv, ManualClosedHasFinal
<1>4. ASSUME NEW o \in Operator, WriteUpdate(o) PROVE ClosingInv'
  <2> DEFINE t == job[o].task
             u == job[o].update
  <2>1. /\ pc[o] = "update" /\ t \in Task
        /\ status' = [status EXCEPT ![t] = u.status]
        /\ channel' = [channel EXCEPT ![t] = Evidence(t, u.channel)]
    BY <1>1, <1>4 DEF WriteUpdate, ManualTypeOK, Process
  <2>2. u.status \in Closed => Evidence(t, u.channel) = "final"
    BY <1>1, <2>1 DEF Checked, Evidence
  <2>3. ManualClosedHasFinal'
    BY <1>1, <2>1, <2>2 DEF ManualClosedHasFinal, ManualTypeOK
  <2>4. ASSUME NEW p \in Operator PROVE Checked(p)'
    <3>1. pc'[p] = "idle" \/ (pc'[p] = pc[p] /\ job'[p] = job[p])
      BY <1>1, <1>4 DEF WriteUpdate, Finish, Goto, ManualTypeOK, Process
    <3> QED
      BY <1>1, <3>1 DEF Checked
  <2> QED
    BY <1>1, <2>3, <2>4 DEF ClosingInv
<1>5. ASSUME NEW x \in Process, End(x) PROVE ClosingInv'
  <2>1. /\ status' = status /\ channel' = channel /\ pc'[x] = "idle"
        /\ \A y \in Process \ {x} : pc'[y] = pc[y] /\ job'[y] = job[y]
    BY <1>1, <1>5 DEF End, Finish, Goto, ManualTypeOK, ledgerVars
  <2> QED
    BY <1>1, <2>1 DEF ClosingInv, ManualClosedHasFinal, Checked, Process
<1>6. CASE UNCHANGED vars
  BY <1>1, <1>6 DEF vars, ledgerVars, ClosingInv, ManualClosedHasFinal, Checked
<1> QED
  BY <1>2, <1>3, <1>4, <1>5, <1>6 DEF Next

(* With any number of operators, handlers and watchdog reports at once: when    *)
(* every closing names its evidence, as README.md:494 does and the watchdog     *)
(* always, no closed incident is without final evidence. The evidence and the   *)
(* status go into one UPDATE, so that nobody comes between them. A closing that *)
(* relies on evidence recorded before is what manual_closing refutes.           *)
THEOREM NamedEvidenceSuffices ==
  ASSUME EvidenceIsNamed
  PROVE  Spec => []ManualClosedHasFinal
<1>1. Init => ClosingInv
  BY InitTypes DEF Init, ClosingInv, ManualClosedHasFinal, Checked, Closed, Process
<1>2. ClosingInv /\ [Next]_vars => ClosingInv'
  BY StepClosing
<1>3. ClosingInv => ManualClosedHasFinal
  BY DEF ClosingInv
<1> QED
  BY <1>1, <1>2, <1>3, PTL DEF Spec

-----------------------------------------------------------------------------
(* Cards and answers *)

(* A message id is given to alerts of one alarm only: cli.py:36 leaves this to *)
(* the operator.                                                               *)
MessagesOfOneAlarm ==
  \A c, d \in Call : c.message = d.message => c.alarm = d.alarm

Handling == {"insert", "seed", "create", "open", "answer"}

BusyWith(h, a) == job[h].call.alarm = a

(* The alarms whose alerts have never overlapped have one handler at most. *)
Counted(a) ==
  /\ (\E h \in Handler : BusyWith(h, a)) => crowd[a] # 0
  /\ crowd[a] \in {0, 1} => \A h, k \in Handler : BusyWith(h, a) /\ BusyWith(k, a) => h = k

RowKnown(n) ==
  /\ \A c \in Call : c.message = rows[n].message => c.alarm = rows[n].alarm
  /\ rows[n].task # NoTask =>
       rows[n].task[1] = rows[n].alarm /\ status[rows[n].task] # "absent"

(* The message of task t is the first of its alarm that waits for an incident. *)
FirstWaiting(t) ==
  \E n \in DOMAIN rows :
    /\ rows[n].message = t[2] /\ rows[n].alarm = t[1] /\ rows[n].task = NoTask
    /\ \A m \in 1..(n - 1) : rows[m].alarm = t[1] => rows[m].task # NoTask

(* What AnsweredHasIncident says of an answer. *)
Served(c, t) ==
  c.state \notin RecoveryStates =>
    /\ t \in cards /\ status[t] # "absent" /\ t[1] = c.alarm
    /\ \E n \in RowOf(c.message) :
         IF crowd[c.alarm] = 1
           THEN rows[n].task = t
           ELSE /\ rows[n].task # NoTask
                /\ rows[n].task[1] = c.alarm /\ status[rows[n].task] # "absent"

(* What a handler found, or made, still holds when it goes on. *)
Found(h) ==
  (pc[h] = "insert" /\ job[h].task # NoTask) =>
    job[h].task[1] = job[h].call.alarm /\ status[job[h].task] # "absent"

Unassigned(h) ==
  pc[h] \in {"seed", "create", "open"} =>
    /\ job[h].call.state \notin RecoveryStates
    /\ RowOf(job[h].call.message) # {}
    /\ crowd[job[h].call.alarm] = 1 =>
         \A n \in RowOf(job[h].call.message) : rows[n].task = NoTask

Seeded(h) ==
  /\ pc[h] \in {"create", "open"} =>
       /\ job[h].task[1] = job[h].call.alarm
       /\ crowd[job[h].call.alarm] = 1 => FirstWaiting(job[h].task)
  /\ pc[h] = "open" => job[h].task \in cards

HandlerKnown(h) ==
  /\ Found(h) /\ Unassigned(h) /\ Seeded(h)
  /\ pc[h] = "answer" => Served(job[h].call, job[h].task)

(* An operator works on an incident that is in the ledger. *)
Edits(x) == pc[x] = "update" => status[job[x].task] # "absent"

ManualInv ==
  /\ ManualTypeOK
  /\ \A x \in Process : Edits(x)
  /\ \A x \in Process : pc[x] \in Handling => x \in Handler
  /\ \A a \in Alarm : Counted(a)
  /\ \A n \in DOMAIN rows : RowKnown(n)
  /\ \A t \in Task : status[t] # "absent" => t \in cards
  /\ \A t \in cards : crowd[t[1]] # 0
  /\ \A h \in Handler : HandlerKnown(h)
  /\ OrphanIsReused
  /\ AnsweredHasIncident

(* What no step takes back. *)
Grows ==
  /\ \A a \in Alarm : crowd[a] # 0 => crowd'[a] # 0 /\ (crowd'[a] = 1 => crowd[a] = 1)
  /\ \A t \in Task : status[t] # "absent" => status'[t] # "absent"
  /\ cards \subseteq cards'
  /\ \A n \in DOMAIN rows :
       /\ n \in DOMAIN rows'
       /\ rows'[n].message = rows[n].message /\ rows'[n].alarm = rows[n].alarm
       /\ rows[n].task # NoTask => rows'[n].task = rows[n].task

(* No message of the alarm is assigned to an incident. *)
Frozen(a) ==
  \A n \in DOMAIN rows : rows[n].alarm = a /\ rows[n].task = NoTask => rows'[n].task = NoTask

LEMMA RowFacts ==
  ASSUME ManualTypeOK, NEW n \in DOMAIN rows
  PROVE  /\ rows[n].message \in Message /\ rows[n].alarm \in Alarm
         /\ rows[n].task \in Task \cup {NoTask}
<1>1. rows[n] \in Row
  BY DEF ManualTypeOK
<1> QED
  BY <1>1 DEF Row

LEMMA TaskFacts ==
  ASSUME NEW t \in Task
  PROVE  t[1] \in Alarm /\ t[2] \in Message /\ t = <<t[1], t[2]>> /\ t # NoTask
BY NoTaskAssumption DEF Task

LEMMA ActiveHandler ==
  ASSUME ManualInv, NEW h \in Handler, pc[h] \in Handling
  PROVE  /\ job[h].call \in Call /\ job[h].call.alarm \in Alarm
         /\ job[h].call.message \in Message /\ crowd[job[h].call.alarm] # 0
         /\ job[h].task \in Task \cup {NoTask}
<1>1. h \in Process /\ job[h] \in Job
  BY DEF Process, ManualInv, ManualTypeOK
<1>2. job[h].call \in Call
  BY <1>1 DEF ManualInv, ManualTypeOK, Handling
<1>3. job[h].call.alarm \in Alarm /\ job[h].call.message \in Message
  BY <1>2 DEF Alarm, Message
<1>4. Counted(job[h].call.alarm)
  BY <1>3 DEF ManualInv
<1>5. job[h].task \in Task \cup {NoTask}
  BY <1>1 DEF Job
<1> QED
  BY <1>2, <1>3, <1>4, <1>5 DEF Counted, BusyWith

LEMMA ServedStays ==
  ASSUME ManualTypeOK, Grows, NEW c \in Call, NEW t, Served(c, t), crowd[c.alarm] # 0
  PROVE  Served(c, t)'
<1> SUFFICES ASSUME c.state \notin RecoveryStates
             PROVE  /\ t \in cards' /\ status'[t] # "absent" /\ t[1] = c.alarm
                    /\ \E n \in RowOf(c.message)' :
                         IF crowd'[c.alarm] = 1
                           THEN rows'[n].task = t
                           ELSE /\ rows'[n].task # NoTask
                                /\ rows'[n].task[1] = c.alarm
                                /\ status'[rows'[n].task] # "absent"
  BY DEF Served
<1>1. /\ t \in cards /\ status[t] # "absent" /\ t[1] = c.alarm
      /\ \E n \in RowOf(c.message) :
           IF crowd[c.alarm] = 1
             THEN rows[n].task = t
             ELSE /\ rows[n].task # NoTask
                  /\ rows[n].task[1] = c.alarm /\ status[rows[n].task] # "absent"
  BY DEF Served
<1>2. PICK n \in RowOf(c.message) :
        IF crowd[c.alarm] = 1
          THEN rows[n].task = t
          ELSE /\ rows[n].task # NoTask
               /\ rows[n].task[1] = c.alarm /\ status[rows[n].task] # "absent"
  BY <1>1
<1>3. t \in Task /\ t # NoTask
  BY <1>1, TaskFacts DEF ManualTypeOK
<1>4. /\ rows[n].task # NoTask /\ rows[n].task[1] = c.alarm
      /\ status[rows[n].task] # "absent"
      /\ crowd[c.alarm] = 1 => rows[n].task = t
  BY <1>1, <1>2, <1>3
<1>5. n \in DOMAIN rows /\ rows[n].message = c.message
  BY DEF RowOf
<1>6. rows[n].task \in Task
  BY <1>4, <1>5, RowFacts
<1>7. n \in RowOf(c.message)' /\ rows'[n].task = rows[n].task
  BY <1>4, <1>5 DEF Grows, RowOf
<1>8. c.alarm \in Alarm
  BY DEF Alarm
<1>9. /\ t \in cards' /\ status'[t] # "absent"
      /\ status'[rows[n].task] # "absent"
      /\ crowd'[c.alarm] = 1 => crowd[c.alarm] = 1
  BY <1>1, <1>3, <1>4, <1>6, <1>8 DEF Grows
<1> QED
  BY <1>1, <1>4, <1>7, <1>9

LEMMA FirstStays ==
  ASSUME ManualTypeOK, Grows, NEW t, FirstWaiting(t), Frozen(t[1])
  PROVE  FirstWaiting(t)'
<1>1. PICK n \in DOMAIN rows :
        /\ rows[n].message = t[2] /\ rows[n].alarm = t[1] /\ rows[n].task = NoTask
        /\ \A m \in 1..(n - 1) : rows[m].alarm = t[1] => rows[m].task # NoTask
  BY DEF FirstWaiting
<1>2. /\ n \in DOMAIN rows' /\ rows'[n].message = t[2] /\ rows'[n].alarm = t[1]
      /\ rows'[n].task = NoTask
  BY <1>1 DEF Grows, Frozen
<1>3. ASSUME NEW m \in 1..(n - 1) PROVE rows'[m].alarm = t[1] => rows'[m].task # NoTask
  <2>1. rows \in Seq(Row)
    BY DEF ManualTypeOK
  <2>2. m \in DOMAIN rows
    BY <2>1
  <2> QED
    BY <1>1, <2>2 DEF Grows
<1> QED
  BY <1>2, <1>3 DEF FirstWaiting

(* One message waits first. *)
LEMMA OneFirst ==
  ASSUME ManualTypeOK, NEW t, NEW u, t[1] = u[1], FirstWaiting(t), FirstWaiting(u)
  PROVE  t[2] = u[2]
<1>1. PICK n \in DOMAIN rows :
        /\ rows[n].message = t[2] /\ rows[n].alarm = t[1] /\ rows[n].task = NoTask
        /\ \A m \in 1..(n - 1) : rows[m].alarm = t[1] => rows[m].task # NoTask
  BY DEF FirstWaiting
<1>2. PICK k \in DOMAIN rows :
        /\ rows[k].message = u[2] /\ rows[k].alarm = u[1] /\ rows[k].task = NoTask
        /\ \A m \in 1..(k - 1) : rows[m].alarm = u[1] => rows[m].task # NoTask
  BY DEF FirstWaiting
<1>3. n \in Nat /\ k \in Nat /\ n >= 1 /\ k >= 1
  BY DEF ManualTypeOK
<1>4. ~(n < k) /\ ~(k < n)
  BY <1>1, <1>2, <1>3
<1>5. n = k
  BY <1>3, <1>4
<1> QED
  BY <1>1, <1>2, <1>5

(* What a handler relies on stays true while the others leave its alarm alone. *)
LEMMA HandlerStays ==
  ASSUME ManualInv, ManualTypeOK', Grows, NEW h \in Handler, pc'[h] = pc[h], job'[h] = job[h],
         (pc[h] \in Handling /\ crowd'[job[h].call.alarm] = 1) => Frozen(job[h].call.alarm)
  PROVE  HandlerKnown(h)'
<1> DEFINE c0 == job[h].call
           t0 == job[h].task
<1>1. PICK c, t : c = job[h].call /\ t = job[h].task
  OBVIOUS
<1>2. CASE pc[h] \notin Handling
  BY <1>2 DEF HandlerKnown, Found, Unassigned, Seeded, Handling
<1>3. CASE pc[h] \in Handling
  <2>1. /\ c \in Call /\ c.alarm \in Alarm /\ crowd[c.alarm] # 0
        /\ t \in Task \cup {NoTask}
    BY <1>1, <1>3, ActiveHandler
  <2>2. Found(h) /\ Unassigned(h) /\ Seeded(h) /\ (pc[h] = "answer" => Served(c, t))
    BY <1>1 DEF ManualInv, HandlerKnown
  <2>3. crowd'[c.alarm] = 1 => crowd[c.alarm] = 1 /\ Frozen(c.alarm)
    BY <1>1, <1>3, <2>1 DEF Grows
  <2>4. Found(h)'
    BY <1>1, <2>1, <2>2 DEF Found, Grows
  <2>5. Unassigned(h)'
    <3> SUFFICES ASSUME pc[h] \in {"seed", "create", "open"}
                 PROVE  /\ c.state \notin RecoveryStates
                        /\ RowOf(c.message)' # {}
                        /\ crowd'[c.alarm] = 1 =>
                             \A n \in RowOf(c.message)' : rows'[n].task = NoTask
      BY <1>1 DEF Unassigned
    <3>1. /\ c.state \notin RecoveryStates /\ RowOf(c.message) # {}
          /\ crowd[c.alarm] = 1 => \A n \in RowOf(c.message) : rows[n].task = NoTask
      BY <1>1, <2>2 DEF Unassigned
    <3>2. PICK n \in RowOf(c.message) : TRUE
      BY <3>1
    <3>3. n \in DOMAIN rows /\ rows[n].message = c.message /\ rows[n].alarm = c.alarm
      BY <2>1 DEF RowOf, ManualInv, RowKnown
    <3>4. n \in RowOf(c.message)'
      BY <3>3 DEF RowOf, Grows
    <3>5. \A m \in RowOf(c.message)' : m = n
      BY <3>4 DEF RowOf, ManualTypeOK
    <3> QED
      BY <2>3, <3>1, <3>2, <3>3, <3>4, <3>5 DEF Frozen
  <2>6. Seeded(h)'
    <3>1. /\ pc[h] \in {"create", "open"} =>
               t[1] = c.alarm /\ (crowd[c.alarm] = 1 => FirstWaiting(t))
          /\ pc[h] = "open" => t \in cards
      BY <1>1, <2>2 DEF Seeded
    <3>2. ASSUME pc[h] \in {"create", "open"}, crowd'[c.alarm] = 1 PROVE FirstWaiting(t)'
      BY <2>3, <3>1, <3>2, FirstStays DEF ManualInv
    <3>3. pc[h] = "open" => t \in cards'
      BY <3>1 DEF Grows
    <3> QED
      BY <1>1, <3>1, <3>2, <3>3 DEF Seeded
  <2>7. pc'[h] = "answer" => Served(c, t)'
    BY <2>1, <2>2, ServedStays DEF ManualInv
  <2> QED
    BY <1>1, <2>4, <2>5, <2>6, <2>7 DEF HandlerKnown
<1> QED
  BY <1>2, <1>3

LEMMA OrphansStay ==
  ASSUME ManualInv, Grows,
         \A t \in cards' : (status'[t] = "absent" /\ crowd'[t[1]] = 1) =>
           \/ t \in cards /\ Frozen(t[1])
           \/ FirstWaiting(t)'
  PROVE  OrphanIsReused'
<1> SUFFICES ASSUME NEW t \in cards', status'[t] = "absent", crowd'[t[1]] = 1
             PROVE  FirstWaiting(t)'
  BY DEF OrphanIsReused, FirstWaiting
<1>1. CASE t \in cards /\ Frozen(t[1])
  <2>1. t \in Task /\ t[1] \in Alarm
    BY <1>1, TaskFacts DEF ManualInv, ManualTypeOK
  <2>2. status[t] = "absent" /\ crowd[t[1]] = 1
    BY <1>1, <2>1 DEF Grows, ManualInv
  <2>3. FirstWaiting(t)
    BY <1>1, <2>2 DEF ManualInv, OrphanIsReused, FirstWaiting
  <2> QED
    BY <1>1, <2>3, FirstStays DEF ManualInv
<1> QED
  BY <1>1

LEMMA AnswersStay ==
  ASSUME ManualInv, Grows, \A a \in answered' : a \in answered \/ Served(a.call, a.task)'
  PROVE  AnsweredHasIncident'
<1> SUFFICES ASSUME NEW a \in answered' PROVE Served(a.call, a.task)'
  BY DEF AnsweredHasIncident, Served
<1>1. CASE a \in answered
  <2>1. a.call \in Call
    BY <1>1 DEF ManualInv, ManualTypeOK
  <2>2. Served(a.call, a.task)
    BY <1>1 DEF ManualInv, AnsweredHasIncident, Served
  <2>3. a.call.state \notin RecoveryStates => crowd[a.call.alarm] # 0
    BY <2>2 DEF Served, ManualInv
  <2>4. CASE a.call.state \in RecoveryStates
    BY <2>4 DEF Served
  <2>5. CASE a.call.state \notin RecoveryStates
    BY <2>1, <2>2, <2>3, <2>5, ServedStays DEF ManualInv
  <2> QED
    BY <2>4, <2>5
<1> QED
  BY <1>1

LEMMA RowsStay ==
  ASSUME ManualInv, Grows, rows' = rows
  PROVE  \A n \in DOMAIN rows' : RowKnown(n)'
<1> SUFFICES ASSUME NEW n \in DOMAIN rows PROVE RowKnown(n)'
  OBVIOUS
<1>1. RowKnown(n) /\ rows[n].task \in Task \cup {NoTask}
  BY RowFacts DEF ManualInv
<1> QED
  BY <1>1 DEF RowKnown, Grows

(* A step of process x that changes no counter preserves the invariant if it *)
(* takes nothing back, leaves the waiting messages of other alarms alone, and *)
(* what it makes is as it should be.                                          *)
LEMMA ProcessStep ==
  ASSUME ManualInv, ManualTypeOK', Grows, crowd' = crowd, NEW x \in Process,
         \A y \in Process \ {x} : pc'[y] = pc[y] /\ job'[y] = job[y],
         job'[x].call = job[x].call \/ job'[x].call = NoCall,
         pc'[x] \in Handling => x \in Handler,
         Edits(x)', x \in Handler => HandlerKnown(x)',
         \A n \in DOMAIN rows' : RowKnown(n)',
         \A t \in Task : status'[t] # "absent" => t \in cards',
         \A t \in cards' : t \in cards \/ crowd[t[1]] # 0,
         \A t \in cards' : (status'[t] = "absent" /\ crowd'[t[1]] = 1) =>
           \/ t \in cards /\ Frozen(t[1])
           \/ FirstWaiting(t)',
         \A a \in answered' : a \in answered \/ Served(a.call, a.task)',
         \A a \in Alarm : Frozen(a) \/ (x \in Handler /\ BusyWith(x, a))
  PROVE  ManualInv'
<1>1. \A y \in Process : pc'[y] \in Handling => y \in Handler
  BY DEF ManualInv
<1>2. ASSUME NEW a \in Alarm PROVE Counted(a)'
  <2>1. Counted(a) /\ a # "none"
    BY NamesAssumption DEF ManualInv
  <2>2. ASSUME NEW k \in Handler, BusyWith(k, a)' PROVE BusyWith(k, a)
    <3>1. job'[k].call = job[k].call \/ job'[k].call = NoCall
      BY DEF Process
    <3> QED
      BY <2>1, <2>2, <3>1 DEF BusyWith, NoCall
  <2> QED
    BY <2>1, <2>2 DEF Counted
<1>3. ASSUME NEW k \in Handler, k # x PROVE HandlerKnown(k)'
  <2>1. pc'[k] = pc[k] /\ job'[k] = job[k]
    BY <1>3 DEF Process
  <2>2. ASSUME pc[k] \in Handling, crowd'[job[k].call.alarm] = 1
        PROVE  Frozen(job[k].call.alarm)
    <3>1. job[k].call.alarm \in Alarm
      BY <2>2, ActiveHandler
    <3>2. Counted(job[k].call.alarm) /\ crowd[job[k].call.alarm] \in {0, 1}
      BY <2>2, <3>1 DEF ManualInv
    <3>3. ~(x \in Handler /\ BusyWith(x, job[k].call.alarm))
      BY <1>3, <3>2 DEF Counted, BusyWith
    <3> QED
      BY <3>1, <3>3
  <2> QED
    BY <2>1, <2>2, HandlerStays
<1>4. OrphanIsReused'
  BY OrphansStay
<1>5. AnsweredHasIncident'
  BY AnswersStay
<1>6. \A t \in cards' : crowd'[t[1]] # 0
  BY DEF ManualInv
<1>7. ASSUME NEW y \in Process PROVE Edits(y)'
  <2>1. CASE y = x
    BY <2>1
  <2>2. CASE y # x
    <3>1. Edits(y) /\ pc'[y] = pc[y] /\ job'[y] = job[y]
      BY <2>2 DEF ManualInv
    <3>2. pc[y] = "update" => job[y].task \in Task
      BY DEF ManualInv, ManualTypeOK
    <3> QED
      BY <3>1, <3>2 DEF Edits, Grows
  <2> QED
    BY <2>1, <2>2
<1> QED
  BY <1>1, <1>2, <1>3, <1>4, <1>5, <1>6, <1>7 DEF ManualInv

(* A step that changes no row and no status takes nothing back. *)
LEMMA QuietStep ==
  ASSUME ManualInv, rows' = rows, status' = status, cards \subseteq cards', crowd' = crowd
  PROVE  /\ Grows /\ \A a : Frozen(a)
         /\ \A n \in DOMAIN rows' : RowKnown(n)'
         /\ \A t \in Task : status'[t] # "absent" => t \in cards'
<1>1. Grows
  BY DEF Grows
<1>2. \A n \in DOMAIN rows' : RowKnown(n)'
  BY <1>1, RowsStay
<1> QED
  BY <1>1, <1>2 DEF Frozen, ManualInv

(* A step that makes no card and no answer on top of that. *)
LEMMA SilentStep ==
  ASSUME ManualInv, ManualTypeOK', rows' = rows, status' = status, cards' = cards,
         crowd' = crowd, answered' = answered, NEW x \in Process,
         \A y \in Process \ {x} : pc'[y] = pc[y] /\ job'[y] = job[y],
         job'[x].call = job[x].call \/ job'[x].call = NoCall,
         pc'[x] \in Handling => x \in Handler,
         Edits(x)', x \in Handler => HandlerKnown(x)'
  PROVE  ManualInv'
<1>1. /\ Grows /\ \A a : Frozen(a)
      /\ \A n \in DOMAIN rows' : RowKnown(n)'
      /\ \A t \in Task : status'[t] # "absent" => t \in cards'
  BY QuietStep
<1> QED
  BY <1>1, ProcessStep

LEMMA StepInsert ==
  ASSUME MessagesOfOneAlarm, ManualInv, ManualTypeOK', NEW h \in Handler, Insert(h)
  PROVE  ManualInv'
<1>1. PICK c, t : c = job[h].call /\ t = job[h].task
  OBVIOUS
<1>2. PICK r : r = [message |-> c.message, alarm |-> c.alarm, task |-> t]
  OBVIOUS
<1>3. /\ pc[h] = "insert" /\ RowOf(c.message) = {} /\ rows' = Append(rows, r)
      /\ pc' = [pc EXCEPT ![h] = IF t = NoTask /\ c.state \notin RecoveryStates
                                   THEN "seed" ELSE "answer"]
      /\ UNCHANGED <<status, channel, cards, answered, job, crowd>>
  BY <1>1, <1>2 DEF Insert, Goto
<1>4. /\ c \in Call /\ c.alarm \in Alarm /\ crowd[c.alarm] # 0
      /\ t \in Task \cup {NoTask}
  BY <1>1, <1>3, ActiveHandler DEF Handling
<1>5. t # NoTask => t \in Task /\ t[1] = c.alarm /\ status[t] # "absent" /\ t \in cards
  BY <1>1, <1>3, <1>4 DEF ManualInv, HandlerKnown, Found
<1>6. /\ Len(rows) \in Nat /\ DOMAIN rows = 1..Len(rows)
      /\ DOMAIN rows' = 1..(Len(rows) + 1)
      /\ rows'[Len(rows) + 1] = r
      /\ \A n \in DOMAIN rows : rows'[n] = rows[n]
  BY <1>3 DEF ManualInv, ManualTypeOK
<1>7. Grows /\ \A a : Frozen(a)
  BY <1>3, <1>6 DEF Grows, Frozen
<1>8. ASSUME NEW n \in DOMAIN rows' PROVE RowKnown(n)'
  <2>1. CASE n \in DOMAIN rows
    BY <1>3, <1>6, <2>1 DEF ManualInv, RowKnown
  <2>2. CASE n = Len(rows) + 1
    BY <1>2, <1>3, <1>4, <1>5, <1>6, <2>2 DEF RowKnown, MessagesOfOneAlarm
  <2> QED
    BY <1>6, <2>1, <2>2
<1>9. RowOf(c.message)' = {Len(rows) + 1}
  <2>1. \A n \in DOMAIN rows : rows[n].message # c.message
    BY <1>3 DEF RowOf
  <2>2. \A n \in DOMAIN rows' : n \in DOMAIN rows \/ n = Len(rows) + 1
    BY <1>6
  <2> QED
    BY <1>2, <1>6, <2>1, <2>2 DEF RowOf
<1>10. h \in Process /\ job'[h] = job[h] /\ \A y \in Process \ {h} : pc'[y] = pc[y]
  BY <1>3 DEF Process, ManualInv, ManualTypeOK
<1>11. pc'[h] = IF t = NoTask /\ c.state \notin RecoveryStates THEN "seed" ELSE "answer"
  BY <1>3, <1>10 DEF ManualInv, ManualTypeOK
<1>12. HandlerKnown(h)'
  <2>1. CASE t = NoTask /\ c.state \notin RecoveryStates
    BY <1>1, <1>2, <1>6, <1>9, <1>10, <1>11, <2>1
       DEF HandlerKnown, Found, Unassigned, Seeded
  <2>2. CASE t # NoTask \/ c.state \in RecoveryStates
    <3>1. Served(c, t)'
      <4>1. CASE c.state \in RecoveryStates
        BY <4>1 DEF Served
      <4>2. CASE t # NoTask
        BY <1>2, <1>3, <1>5, <1>6, <1>9, <4>2 DEF Served
      <4> QED
        BY <2>2, <4>1, <4>2
    <3> QED
      BY <1>1, <1>10, <1>11, <2>2, <3>1 DEF HandlerKnown, Found, Unassigned, Seeded
  <2> QED
    BY <2>1, <2>2
<1>13. Edits(h)'
  BY <1>11 DEF Edits
<1>14. \A t1 \in Task : status'[t1] # "absent" => t1 \in cards'
  BY <1>3 DEF ManualInv
<1> QED
  BY <1>3, <1>7, <1>8, <1>10, <1>12, <1>13, <1>14, ProcessStep

LEMMA StepDuplicate ==
  ASSUME ManualInv, ManualTypeOK', NEW h \in Handler, Duplicate(h)
  PROVE  ManualInv'
<1>1. PICK c : c = job[h].call
  OBVIOUS
<1>2. PICK n \in RowOf(c.message) :
        /\ job' = [job EXCEPT ![h].task = rows[n].task]
        /\ pc' = [pc EXCEPT ![h] = IF rows[n].task = NoTask /\ c.state \notin RecoveryStates
                                     THEN "seed" ELSE "answer"]
  BY <1>1 DEF Duplicate, Goto
<1>3. PICK t : t = rows[n].task
  OBVIOUS
<1>4. pc[h] = "insert" /\ UNCHANGED <<rows, status, cards, answered, crowd>>
  BY DEF Duplicate, ledgerVars
<1>5. c \in Call /\ c.alarm \in Alarm /\ h \in Process
  BY <1>1, <1>4, ActiveHandler DEF Handling, Process
<1>6. n \in DOMAIN rows /\ rows[n].message = c.message /\ t \in Task \cup {NoTask}
  BY <1>3, RowFacts DEF RowOf, ManualInv
<1>7. t # NoTask => t[1] = c.alarm /\ status[t] # "absent" /\ t \in cards
  BY <1>3, <1>5, <1>6 DEF ManualInv, RowKnown
<1>8. \A m \in RowOf(c.message) : m = n
  BY <1>6 DEF RowOf, ManualInv, ManualTypeOK
<1>9. /\ \A y \in Process \ {h} : pc'[y] = pc[y] /\ job'[y] = job[y]
      /\ pc'[h] = IF t = NoTask /\ c.state \notin RecoveryStates THEN "seed" ELSE "answer"
  BY <1>2, <1>3, <1>5 DEF ManualInv, ManualTypeOK
<1>10. job'[h].call = c /\ job'[h].task = t
  <2>1. job[h] \in Job /\ job \in [Process -> Job]
    BY <1>5 DEF ManualInv, ManualTypeOK
  <2> QED
    BY <1>1, <1>2, <1>3, <1>5, <2>1 DEF Job
<1>11. RowOf(c.message)' = RowOf(c.message)
  BY <1>4 DEF RowOf
<1>12. HandlerKnown(h)'
  <2>1. CASE t = NoTask /\ c.state \notin RecoveryStates
    BY <1>3, <1>4, <1>8, <1>9, <1>10, <1>11, <2>1
       DEF HandlerKnown, Found, Unassigned, Seeded
  <2>2. CASE t # NoTask \/ c.state \in RecoveryStates
    <3>1. Served(c, t)'
      <4>1. CASE c.state \in RecoveryStates
        BY <4>1 DEF Served
      <4>2. CASE t # NoTask
        BY <1>3, <1>4, <1>7, <1>11, <4>2 DEF Served
      <4> QED
        BY <2>2, <4>1, <4>2
    <3> QED
      BY <1>9, <1>10, <2>2, <3>1 DEF HandlerKnown, Found, Unassigned, Seeded
  <2> QED
    BY <2>1, <2>2
<1>13. Edits(h)'
  BY <1>9 DEF Edits
<1> QED
  BY <1>1, <1>4, <1>5, <1>9, <1>10, <1>12, <1>13, SilentStep

LEMMA StepTakeSeed ==
  ASSUME ManualInv, ManualTypeOK', NEW h \in Handler, TakeSeed(h)
  PROVE  ManualInv'
<1>1. PICK c : c = job[h].call
  OBVIOUS
<1>2. PICK s \in Seed(c) : job' = [job EXCEPT ![h].task = <<c.alarm, s>>]
  BY <1>1 DEF TakeSeed
<1>3. PICK t : t = <<c.alarm, s>>
  OBVIOUS
<1>4. /\ pc[h] = "seed" /\ pc' = [pc EXCEPT ![h] = "create"]
      /\ UNCHANGED <<rows, status, cards, answered, crowd>>
  BY DEF TakeSeed, Goto, ledgerVars
<1>5. c \in Call /\ c.alarm \in Alarm /\ h \in Process
  BY <1>1, <1>4, ActiveHandler DEF Handling, Process
<1>6. /\ c.state \notin RecoveryStates
      /\ RowOf(c.message) # {}
      /\ crowd[c.alarm] = 1 => \A n \in RowOf(c.message) : rows[n].task = NoTask
  BY <1>1, <1>4 DEF ManualInv, HandlerKnown, Unassigned
<1>7. ASSUME crowd[c.alarm] = 1 PROVE FirstWaiting(t)
  <2>1. PICK k \in RowOf(c.message) : rows[k].task = NoTask
    BY <1>6, <1>7
  <2>2. k \in DOMAIN rows /\ rows[k].alarm = c.alarm
    BY <1>5, <2>1 DEF RowOf, ManualInv, RowKnown
  <2>3. Waiting(c.alarm) # {}
    BY <2>1, <2>2 DEF Waiting
  <2>4. PICK n \in Waiting(c.alarm) :
          s = rows[n].message /\ \A m \in Waiting(c.alarm) : n <= m
    BY <1>2, <2>3 DEF Seed
  <2>5. DOMAIN rows = 1..Len(rows) /\ Len(rows) \in Nat /\ n \in 1..Len(rows)
    BY <2>4 DEF Waiting, ManualInv, ManualTypeOK
  <2>6. ASSUME NEW m \in 1..(n - 1), rows[m].alarm = c.alarm PROVE rows[m].task # NoTask
    <3>1. m \in DOMAIN rows /\ ~(n <= m)
      BY <2>5
    <3> QED
      BY <2>4, <2>6, <3>1 DEF Waiting
  <2>7. t[1] = c.alarm /\ t[2] = s
    BY <1>3
  <2> QED
    BY <2>4, <2>5, <2>6, <2>7 DEF FirstWaiting, Waiting
<1>8. /\ \A y \in Process \ {h} : pc'[y] = pc[y] /\ job'[y] = job[y]
      /\ pc'[h] = "create"
  BY <1>2, <1>4, <1>5 DEF ManualInv, ManualTypeOK
<1>9. job'[h].call = c /\ job'[h].task = t
  <2>1. job[h] \in Job /\ job \in [Process -> Job]
    BY <1>5 DEF ManualInv, ManualTypeOK
  <2> QED
    BY <1>1, <1>2, <1>3, <1>5, <2>1 DEF Job
<1>10. t[1] = c.alarm
  BY <1>3
<1>11. Unassigned(h)'
  BY <1>4, <1>6, <1>9 DEF Unassigned, RowOf
<1>12. crowd'[c.alarm] = 1 => FirstWaiting(t)'
  BY <1>4, <1>7 DEF FirstWaiting
<1>13. HandlerKnown(h)'
  BY <1>8, <1>9, <1>10, <1>11, <1>12 DEF HandlerKnown, Found, Seeded
<1>14. Edits(h)'
  BY <1>8 DEF Edits
<1> QED
  BY <1>1, <1>4, <1>5, <1>8, <1>9, <1>13, <1>14, SilentStep

(* The card of a handler, made now, is where it belongs. *)
LEMMA NewCard ==
  ASSUME ManualInv, ManualTypeOK', NEW h \in Handler, pc[h] = "create",
         rows' = rows, status' = status, crowd' = crowd, cards' = cards \cup {job[h].task}
  PROVE  /\ \A t \in cards' : t \in cards \/ crowd[t[1]] # 0
         /\ \A t \in cards' : (status'[t] = "absent" /\ crowd'[t[1]] = 1) =>
              \/ t \in cards /\ Frozen(t[1])
              \/ FirstWaiting(t)'
<1>1. PICK c, t : c = job[h].call /\ t = job[h].task
  OBVIOUS
<1>2. t[1] = c.alarm /\ crowd[c.alarm] # 0 /\ (crowd[c.alarm] = 1 => FirstWaiting(t))
  BY <1>1, ActiveHandler DEF Handling, ManualInv, HandlerKnown, Seeded
<1>3. Grows /\ \A a : Frozen(a)
  BY QuietStep
<1>4. FirstWaiting(t) => FirstWaiting(t)'
  BY <1>3, FirstStays DEF ManualInv
<1> QED
  BY <1>1, <1>2, <1>3, <1>4

LEMMA StepCreateCard ==
  ASSUME ManualInv, ManualTypeOK', NEW h \in Handler, CreateCard(h)
  PROVE  ManualInv'
<1>1. PICK c, t : c = job[h].call /\ t = job[h].task
  OBVIOUS
<1>2. /\ pc[h] = "create" /\ pc' = [pc EXCEPT ![h] = "open"] /\ cards' = cards \cup {t}
      /\ UNCHANGED <<rows, status, answered, job, crowd>>
  BY <1>1 DEF CreateCard, Goto, ledgerVars
<1>3. h \in Process /\ pc'[h] = "open" /\ \A y \in Process \ {h} : pc'[y] = pc[y]
  BY <1>2 DEF Process, ManualInv, ManualTypeOK
<1>4. /\ Grows /\ \A a : Frozen(a)
      /\ \A n \in DOMAIN rows' : RowKnown(n)'
      /\ \A t1 \in Task : status'[t1] # "absent" => t1 \in cards'
  BY <1>2, QuietStep
<1>5. /\ \A t1 \in cards' : t1 \in cards \/ crowd[t1[1]] # 0
      /\ \A t1 \in cards' : (status'[t1] = "absent" /\ crowd'[t1[1]] = 1) =>
           \/ t1 \in cards /\ Frozen(t1[1])
           \/ FirstWaiting(t1)'
  BY <1>1, <1>2, NewCard
<1>6. HandlerKnown(h)'
  <2>1. Unassigned(h) /\ Seeded(h)
    BY DEF ManualInv, HandlerKnown
  <2>2. Unassigned(h)'
    BY <1>2, <1>3, <2>1 DEF Unassigned, RowOf
  <2>3. FirstWaiting(t)' <=> FirstWaiting(t)
    BY <1>2 DEF FirstWaiting
  <2>4. Seeded(h)'
    BY <1>1, <1>2, <1>3, <2>1, <2>3 DEF Seeded
  <2> QED
    BY <1>3, <2>2, <2>4 DEF HandlerKnown, Found
<1>7. Edits(h)'
  BY <1>3 DEF Edits
<1> QED
  BY <1>2, <1>3, <1>4, <1>5, <1>6, <1>7, ProcessStep

LEMMA StepOpen ==
  ASSUME ManualInv, ManualTypeOK', NEW h \in Handler, Open(h)
  PROVE  ManualInv'
<1>1. PICK c, t : c = job[h].call /\ t = job[h].task
  OBVIOUS
<1>2. /\ pc[h] = "open" /\ pc' = [pc EXCEPT ![h] = "answer"]
      /\ status' = [status EXCEPT ![t] = "investigating"]
      /\ rows' = [n \in DOMAIN rows |->
                    IF rows[n].alarm = t[1] /\ rows[n].task = NoTask
                      THEN [rows[n] EXCEPT !.task = t] ELSE rows[n]]
      /\ UNCHANGED <<cards, answered, job, crowd>>
  BY <1>1 DEF Open, Goto
<1>3. /\ c \in Call /\ c.alarm \in Alarm /\ h \in Process /\ job'[h] = job[h]
      /\ t \in Task /\ t # NoTask /\ crowd[c.alarm] # 0
  <2>1. c \in Call /\ c.alarm \in Alarm /\ h \in Process /\ crowd[c.alarm] # 0
    BY <1>1, <1>2, ActiveHandler DEF Handling, Process
  <2>2. t \in Task
    BY <1>1, <1>2, <2>1 DEF ManualInv, ManualTypeOK
  <2> QED
    BY <1>2, <2>1, <2>2, TaskFacts
<1>4. pc'[h] = "answer" /\ \A y \in Process \ {h} : pc'[y] = pc[y]
  BY <1>2, <1>3 DEF ManualInv, ManualTypeOK
<1>5. /\ t[1] = c.alarm /\ t \in cards /\ (crowd[c.alarm] = 1 => FirstWaiting(t))
      /\ c.state \notin RecoveryStates /\ RowOf(c.message) # {}
      /\ crowd[c.alarm] = 1 => \A n \in RowOf(c.message) : rows[n].task = NoTask
  BY <1>1, <1>2 DEF ManualInv, HandlerKnown, Unassigned, Seeded
<1>6. ASSUME NEW n \in DOMAIN rows
      PROVE  /\ n \in DOMAIN rows'
             /\ rows'[n].message = rows[n].message /\ rows'[n].alarm = rows[n].alarm
             /\ rows'[n].task = IF rows[n].alarm = t[1] /\ rows[n].task = NoTask
                                  THEN t ELSE rows[n].task
  <2>1. rows[n] \in Row
    BY DEF ManualInv, ManualTypeOK
  <2> QED
    BY <1>2, <2>1 DEF Row
<1>7. \A t1 \in Task : status'[t1] = IF t1 = t THEN "investigating" ELSE status[t1]
  BY <1>2, <1>3 DEF ManualInv, ManualTypeOK
<1>8. Grows
  BY <1>2, <1>6, <1>7 DEF Grows
<1>9. \A a : a = t[1] \/ Frozen(a)
  BY <1>6 DEF Frozen
<1>10. ASSUME NEW n \in DOMAIN rows' PROVE RowKnown(n)'
  <2>1. n \in DOMAIN rows
    BY <1>2
  <2>2. RowKnown(n) /\ rows[n].task \in Task \cup {NoTask}
    BY <2>1, RowFacts DEF ManualInv
  <2>3. CASE rows[n].alarm = t[1] /\ rows[n].task = NoTask
    BY <1>3, <1>6, <1>7, <2>1, <2>2, <2>3 DEF RowKnown
  <2>4. CASE ~(rows[n].alarm = t[1] /\ rows[n].task = NoTask)
    BY <1>6, <1>7, <2>1, <2>2, <2>4 DEF RowKnown
  <2> QED
    BY <2>3, <2>4
<1>11. \A t1 \in Task : status'[t1] # "absent" => t1 \in cards'
  BY <1>2, <1>5, <1>7 DEF ManualInv
<1>12. ASSUME NEW t1 \in cards', status'[t1] = "absent", crowd'[t1[1]] = 1
       PROVE  t1 \in cards /\ Frozen(t1[1])
  <2>1. t1 \in cards /\ t1 \in Task
    BY <1>2 DEF ManualInv, ManualTypeOK
  <2>2. t1 # t /\ status[t1] = "absent" /\ crowd[t1[1]] = 1
    BY <1>2, <1>7, <1>12, <2>1
  <2>3. CASE t1[1] = t[1]
    <3>1. FirstWaiting(t1) /\ FirstWaiting(t)
      BY <1>5, <2>1, <2>2, <2>3 DEF ManualInv, OrphanIsReused, FirstWaiting
    <3>2. t1[2] = t[2]
      BY <2>3, <3>1, OneFirst DEF ManualInv
    <3> QED
      BY <1>3, <2>1, <2>2, <2>3, <3>2, TaskFacts
  <2> QED
    BY <1>9, <2>1, <2>3
<1>13. Served(c, t)'
  <2>1. PICK n \in RowOf(c.message) : TRUE
    BY <1>5
  <2>2. n \in DOMAIN rows /\ rows[n].message = c.message /\ rows[n].alarm = c.alarm
    BY <1>3, <2>1 DEF RowOf, ManualInv, RowKnown
  <2>3. n \in RowOf(c.message)' /\ RowKnown(n)' /\ rows'[n].alarm = c.alarm
    BY <1>6, <1>10, <2>2 DEF RowOf
  <2>4. rows'[n].task # NoTask
    BY <1>3, <1>5, <1>6, <2>2
  <2>5. crowd'[c.alarm] = 1 => rows'[n].task = t
    BY <1>2, <1>5, <1>6, <2>1, <2>2
  <2>6. t \in cards' /\ status'[t] # "absent" /\ t[1] = c.alarm
    BY <1>2, <1>3, <1>5, <1>7
  <2>7. rows'[n].task[1] = c.alarm /\ status'[rows'[n].task] # "absent"
    BY <2>3, <2>4 DEF RowKnown
  <2> QED
    BY <2>3, <2>4, <2>5, <2>6, <2>7 DEF Served
<1>14. HandlerKnown(h)'
  BY <1>1, <1>3, <1>4, <1>13 DEF HandlerKnown, Found, Unassigned, Seeded
<1>15. Edits(h)'
  BY <1>4 DEF Edits
<1>16. \A a \in Alarm : Frozen(a) \/ (h \in Handler /\ BusyWith(h, a))
  BY <1>1, <1>5, <1>9 DEF BusyWith
<1>17. /\ crowd' = crowd /\ job'[h].call = job[h].call
       /\ \A y \in Process \ {h} : pc'[y] = pc[y] /\ job'[y] = job[y]
       /\ \A t1 \in cards' : t1 \in cards \/ crowd[t1[1]] # 0
       /\ \A a \in answered' : a \in answered \/ Served(a.call, a.task)'
  BY <1>2, <1>4
<1> QED
  BY <1>3, <1>8, <1>10, <1>11, <1>12, <1>14, <1>15, <1>16, <1>17, ProcessStep

LEMMA StepAnswer ==
  ASSUME ManualInv, ManualTypeOK', NEW h \in Handler, Answer(h)
  PROVE  ManualInv'
<1>1. /\ pc[h] = "answer" /\ h \in Process
      /\ answered' = answered \cup {[call |-> job[h].call, task |-> job[h].task]}
      /\ pc' = [pc EXCEPT ![h] = "idle"] /\ job' = [job EXCEPT ![h] = Idle]
      /\ UNCHANGED <<rows, status, cards, crowd>>
  BY DEF Answer, Finish, Goto, Process, ledgerVars
<1>2. /\ pc'[h] = "idle" /\ job'[h].call = NoCall
      /\ \A y \in Process \ {h} : pc'[y] = pc[y] /\ job'[y] = job[y]
  BY <1>1 DEF ManualInv, ManualTypeOK, Idle
<1>3. /\ Grows /\ \A a : Frozen(a)
      /\ \A n \in DOMAIN rows' : RowKnown(n)'
      /\ \A t1 \in Task : status'[t1] # "absent" => t1 \in cards'
  BY <1>1, QuietStep
<1>4. \A a \in answered' : a \in answered \/ Served(a.call, a.task)'
  <2>1. PICK c, t : c = job[h].call /\ t = job[h].task
    OBVIOUS
  <2>2. /\ c \in Call /\ crowd[c.alarm] # 0 /\ Served(c, t)
    BY <1>1, <2>1, ActiveHandler DEF Handling, ManualInv, HandlerKnown
  <2>3. Served(c, t)'
    BY <1>3, <2>2, ServedStays DEF ManualInv
  <2>4. answered' = answered \cup {[call |-> c, task |-> t]}
    BY <1>1, <2>1
  <2> QED
    BY <2>3, <2>4
<1>5. HandlerKnown(h)' /\ Edits(h)'
  BY <1>2 DEF HandlerKnown, Found, Unassigned, Seeded, Edits
<1> QED
  BY <1>1, <1>2, <1>3, <1>4, <1>5, ProcessStep DEF Handling

LEMMA StepCheckEvidence ==
  ASSUME ManualInv, ManualTypeOK', NEW o \in Operator, CheckEvidence(o)
  PROVE  ManualInv'
<1>1. PICK t \in Task, u \in Update :
        /\ status[t] # "absent"
        /\ job' = [job EXCEPT ![o] = [call |-> NoCall, task |-> t, update |-> u]]
  BY DEF CheckEvidence
<1>2. /\ o \in Process /\ pc' = [pc EXCEPT ![o] = "update"]
      /\ UNCHANGED <<rows, status, cards, answered, crowd>>
  BY DEF CheckEvidence, Goto, Process, ledgerVars
<1>3. /\ pc'[o] = "update" /\ job'[o].call = NoCall /\ job'[o].task = t
      /\ \A y \in Process \ {o} : pc'[y] = pc[y] /\ job'[y] = job[y]
  BY <1>1, <1>2 DEF ManualInv, ManualTypeOK
<1>4. HandlerKnown(o)' /\ Edits(o)'
  BY <1>1, <1>2, <1>3 DEF HandlerKnown, Found, Unassigned, Seeded, Edits
<1> QED
  BY <1>2, <1>3, <1>4, SilentStep DEF Handling

LEMMA StepWriteUpdate ==
  ASSUME ManualInv, ManualTypeOK', NEW o \in Operator, WriteUpdate(o)
  PROVE  ManualInv'
<1>1. PICK t, u : t = job[o].task /\ u = job[o].update
  OBVIOUS
<1>2. /\ pc[o] = "update" /\ o \in Process
      /\ status' = [status EXCEPT ![t] = u.status]
      /\ pc' = [pc EXCEPT ![o] = "idle"] /\ job' = [job EXCEPT ![o] = Idle]
      /\ UNCHANGED <<rows, cards, answered, crowd>>
  BY <1>1 DEF WriteUpdate, Finish, Goto, Process
<1>3. t \in Task /\ u \in Update /\ status[t] # "absent"
  BY <1>1, <1>2 DEF ManualInv, ManualTypeOK, Edits
<1>4. u.status # "absent"
  BY <1>3, UpdateAssumption, NamesAssumption
<1>5. \A t1 \in Task : status'[t1] = IF t1 = t THEN u.status ELSE status[t1]
  BY <1>2, <1>3 DEF ManualInv, ManualTypeOK
<1>6. /\ pc'[o] = "idle" /\ job'[o].call = NoCall
      /\ \A y \in Process \ {o} : pc'[y] = pc[y] /\ job'[y] = job[y]
  BY <1>2 DEF ManualInv, ManualTypeOK, Idle
<1>7. Grows /\ \A a : Frozen(a)
  BY <1>2, <1>4, <1>5 DEF Grows, Frozen
<1>8. \A n \in DOMAIN rows' : RowKnown(n)'
  BY <1>2, <1>7, RowsStay
<1>9. \A t1 \in Task : status'[t1] # "absent" => t1 \in cards'
  BY <1>2, <1>3, <1>5 DEF ManualInv
<1>10. HandlerKnown(o)' /\ Edits(o)'
  BY <1>6 DEF HandlerKnown, Found, Unassigned, Seeded, Edits
<1> QED
  BY <1>2, <1>6, <1>7, <1>8, <1>9, <1>10, ProcessStep DEF Handling

LEMMA StepEnd ==
  ASSUME ManualInv, ManualTypeOK', NEW x \in Process, End(x)
  PROVE  ManualInv'
<1>1. /\ pc' = [pc EXCEPT ![x] = "idle"] /\ job' = [job EXCEPT ![x] = Idle]
      /\ UNCHANGED <<rows, status, answered, crowd>>
      /\ cards' = cards \/ (pc[x] = "create" /\ cards' = cards \cup {job[x].task})
  BY DEF End, Finish, Goto, ledgerVars
<1>2. /\ pc'[x] = "idle" /\ job'[x].call = NoCall
      /\ \A y \in Process \ {x} : pc'[y] = pc[y] /\ job'[y] = job[y]
  BY <1>1 DEF ManualInv, ManualTypeOK, Idle
<1>3. HandlerKnown(x)' /\ Edits(x)'
  BY <1>2 DEF HandlerKnown, Found, Unassigned, Seeded, Edits
<1>4. CASE cards' = cards
  BY <1>1, <1>2, <1>3, <1>4, SilentStep DEF Handling
<1>5. CASE pc[x] = "create" /\ cards' = cards \cup {job[x].task}
  <2>1. x \in Handler
    BY <1>5 DEF ManualInv, Handling
  <2>2. /\ \A t \in cards' : t \in cards \/ crowd[t[1]] # 0
        /\ \A t \in cards' : (status'[t] = "absent" /\ crowd'[t[1]] = 1) =>
             \/ t \in cards /\ Frozen(t[1])
             \/ FirstWaiting(t)'
    BY <1>1, <1>5, <2>1, NewCard
  <2>3. /\ Grows /\ \A a : Frozen(a)
        /\ \A n \in DOMAIN rows' : RowKnown(n)'
        /\ \A t \in Task : status'[t] # "absent" => t \in cards'
    BY <1>1, <1>5, QuietStep
  <2> QED
    BY <1>1, <1>2, <1>3, <2>2, <2>3, ProcessStep DEF Handling
<1> QED
  BY <1>1, <1>4, <1>5

LEMMA BusyFacts ==
  ASSUME NEW a
  PROVE  Busy(a) \in Nat /\ ((\E k \in Handler : BusyWith(k, a)) => Busy(a) # 0)
<1> DEFINE B == {k \in Handler : BusyWith(k, a)}
<1>1. IsFiniteSet(B) /\ Busy(a) = Cardinality(B)
  BY HandlerAssumption, FS_Subset DEF Busy, BusyWith
<1>2. Busy(a) \in Nat
  BY <1>1, FS_CardinalityType
<1>3. Busy(a) = 0 => B = {}
  BY <1>1, FS_EmptySet
<1> QED
  BY <1>2, <1>3

LEMMA StepCorrelate ==
  ASSUME ManualInv, ManualTypeOK', NEW h \in Handler, Correlate(h)
  PROVE  ManualInv'
<1>0. PICK c \in Call : \E t \in OneOf(OpenTasks(c.alarm)) :
        /\ job' = [job EXCEPT ![h] = [call |-> c, task |-> t, update |-> NoUpdate]]
        /\ crowd' = [crowd EXCEPT ![c.alarm] = IF @ < Busy(c.alarm) + 1 THEN @ + 1 ELSE @]
  BY DEF Correlate
<1>1. PICK t \in OneOf(OpenTasks(c.alarm)) :
        /\ job' = [job EXCEPT ![h] = [call |-> c, task |-> t, update |-> NoUpdate]]
        /\ crowd' = [crowd EXCEPT ![c.alarm] = IF @ < Busy(c.alarm) + 1 THEN @ + 1 ELSE @]
  BY <1>0
<1>2. PICK a : a = c.alarm
  OBVIOUS
<1>3. /\ a \in Alarm /\ h \in Process /\ pc' = [pc EXCEPT ![h] = "insert"]
      /\ UNCHANGED <<rows, status, cards, answered>>
  BY <1>2 DEF Correlate, Goto, Process, Alarm, ledgerVars
<1>4. /\ pc'[h] = "insert" /\ job'[h].call = c /\ job'[h].task = t
      /\ \A y \in Process \ {h} : pc'[y] = pc[y] /\ job'[y] = job[y]
  BY <1>1, <1>3 DEF ManualInv, ManualTypeOK
<1>5. /\ crowd[a] \in Nat
      /\ crowd'[a] = IF crowd[a] < Busy(a) + 1 THEN crowd[a] + 1 ELSE crowd[a]
      /\ \A b \in Alarm \ {a} : crowd'[b] = crowd[b]
  BY <1>1, <1>2, <1>3 DEF ManualInv, ManualTypeOK
<1>6. Busy(a) \in Nat /\ ((\E k \in Handler : BusyWith(k, a)) => Busy(a) # 0)
  BY BusyFacts
<1>7. crowd'[a] # 0 /\ (crowd'[a] = 1 => crowd[a] \in {0, 1})
  BY <1>5, <1>6
<1>8. crowd[a] # 0 => crowd'[a] # 0 /\ (crowd'[a] = 1 => crowd[a] = 1)
  BY <1>5, <1>6
<1>9. Grows /\ \A b : Frozen(b)
  BY <1>3, <1>5, <1>8 DEF Grows, Frozen
<1>10. ASSUME NEW b \in Alarm PROVE Counted(b)'
  <2>1. Counted(b)
    BY DEF ManualInv
  <2>2. CASE b # a
    <3>1. \A k \in Handler : BusyWith(k, b)' => BusyWith(k, b)
      BY <1>2, <1>4, <2>2 DEF BusyWith, Process
    <3> QED
      BY <1>5, <2>1, <2>2, <3>1 DEF Counted
  <2>3. CASE b = a
    <3>1. ASSUME crowd'[a] \in {0, 1} PROVE \A k \in Handler : ~BusyWith(k, a)
      <4>1. SUFFICES ASSUME NEW k \in Handler, BusyWith(k, a) PROVE FALSE
        OBVIOUS
      <4>2. Busy(a) # 0 /\ crowd[a] # 0
        BY <1>6, <2>1, <2>3, <4>1 DEF Counted
      <4> QED
        BY <1>5, <1>6, <3>1, <4>2
    <3>2. \A k \in Handler : BusyWith(k, a)' => k = h \/ BusyWith(k, a)
      BY <1>4 DEF BusyWith, Process
    <3> QED
      BY <1>7, <2>3, <3>1, <3>2 DEF Counted
  <2> QED
    BY <2>2, <2>3
<1>11. Found(h)'
  <2>1. CASE t = NoTask
    BY <1>4, <2>1 DEF Found
  <2>2. CASE t # NoTask
    <3>1. t \in OpenTasks(a)
      BY <1>2, <2>2 DEF OneOf
    <3>2. t[1] = a /\ status[t] # "absent"
      BY <3>1 DEF OpenTasks, Active
    <3> QED
      BY <1>2, <1>3, <1>4, <3>2 DEF Found
  <2> QED
    BY <2>1, <2>2
<1>12. ASSUME NEW k \in Handler PROVE HandlerKnown(k)'
  <2>1. CASE k = h
    BY <1>4, <1>11, <2>1 DEF HandlerKnown, Unassigned, Seeded
  <2>2. CASE k # h
    <3>1. pc'[k] = pc[k] /\ job'[k] = job[k]
      BY <1>4, <2>2 DEF Process
    <3> QED
      BY <1>9, <3>1, HandlerStays
  <2> QED
    BY <2>1, <2>2
<1>13. OrphanIsReused'
  BY <1>3, <1>9, OrphansStay
<1>14. AnsweredHasIncident'
  BY <1>3, <1>9, AnswersStay
<1>15. \A n \in DOMAIN rows' : RowKnown(n)'
  BY <1>3, <1>9, RowsStay
<1>16. ASSUME NEW y \in Process PROVE Edits(y)' /\ (pc'[y] \in Handling => y \in Handler)
  BY <1>3, <1>4 DEF Edits, ManualInv
<1>17. ASSUME NEW t1 \in cards' PROVE crowd'[t1[1]] # 0
  <2>1. t1 \in cards /\ t1[1] \in Alarm
    BY <1>3, TaskFacts DEF ManualInv, ManualTypeOK
  <2> QED
    BY <1>9, <2>1 DEF Grows, ManualInv
<1>18. \A t1 \in Task : status'[t1] # "absent" => t1 \in cards'
  BY <1>3 DEF ManualInv
<1> QED
  BY <1>10, <1>12, <1>13, <1>14, <1>15, <1>16, <1>17, <1>18 DEF ManualInv

(* The invariant rests on what is known of every row, of every handler, and of *)
(* the alarms whose alerts never overlapped.                                   *)
THEOREM ManualInvariant ==
  ASSUME MessagesOfOneAlarm
  PROVE  Spec => []ManualInv
<1>1. Init => ManualInv
  <2> SUFFICES ASSUME Init PROVE ManualInv
    OBVIOUS
  <2>1. ManualTypeOK
    BY InitTypes
  <2>2. /\ rows = <<>> /\ cards = {} /\ answered = {}
        /\ \A t \in Task : status[t] = "absent"
        /\ \A x \in Process : pc[x] = "idle" /\ job[x].call.alarm = "none"
    BY DEF Init, Idle, NoCall
  <2>3. \A a \in Alarm : Counted(a)
    BY <2>2, NamesAssumption DEF Counted, BusyWith, Process
  <2>4. \A h \in Handler : HandlerKnown(h)
    BY <2>2 DEF HandlerKnown, Found, Unassigned, Seeded, Process
  <2>5. \A x \in Process : Edits(x) /\ (pc[x] \in Handling => x \in Handler)
    BY <2>2 DEF Edits, Handling
  <2>6. DOMAIN rows = {}
    BY <2>2
  <2> QED
    BY <2>1, <2>2, <2>3, <2>4, <2>5, <2>6 DEF ManualInv, OrphanIsReused, AnsweredHasIncident
<1>2. ManualInv /\ [Next]_vars => ManualInv'
  <2> SUFFICES ASSUME ManualInv, [Next]_vars PROVE ManualInv'
    OBVIOUS
  <2>1. ManualTypeOK'
    BY StepTypes DEF ManualInv
  <2>2. ASSUME NEW h \in Handler, Handle(h) PROVE ManualInv'
    BY <2>1, <2>2, StepCorrelate, StepInsert, StepDuplicate, StepTakeSeed, StepCreateCard,
       StepOpen, StepAnswer DEF Handle
  <2>3. ASSUME NEW o \in Operator, CheckEvidence(o) \/ WriteUpdate(o) PROVE ManualInv'
    BY <2>1, <2>3, StepCheckEvidence, StepWriteUpdate
  <2>4. ASSUME NEW x \in Process, End(x) PROVE ManualInv'
    BY <2>1, <2>4, StepEnd
  <2>5. CASE UNCHANGED vars
    BY <2>5 DEF vars, ledgerVars, ManualInv, ManualTypeOK, Edits, Counted, BusyWith, RowKnown,
       HandlerKnown, Found, Unassigned, Seeded, FirstWaiting, Served, RowOf, OrphanIsReused,
       AnsweredHasIncident
  <2> QED
    BY <2>2, <2>3, <2>4, <2>5 DEF Next
<1> QED
  BY <1>1, <1>2, PTL DEF Spec

(* A card whose call was interrupted before the incident got its row waits for  *)
(* the next alert of its alarm, in every reachable state in which alerts of the *)
(* alarm have not overlapped (idempotency_seed and create_incident).            *)
THEOREM OrphansAreReused ==
  ASSUME MessagesOfOneAlarm
  PROVE  Spec => []OrphanIsReused
<1>1. ManualInv => OrphanIsReused
  BY DEF ManualInv
<1> QED
  BY <1>1, ManualInvariant, PTL

(* An alert that was answered has an incident with a card and its message is    *)
(* assigned, whatever ran, overlapped, ended early or was repeated              *)
(* (handle_alert, open_incident).                                               *)
THEOREM AnsweredAreServed ==
  ASSUME MessagesOfOneAlarm
  PROVE  Spec => []AnsweredHasIncident
<1>1. ManualInv => AnsweredHasIncident
  BY DEF ManualInv
<1> QED
  BY <1>1, ManualInvariant, PTL

-----------------------------------------------------------------------------
(* Counting the open incidents *)

(* incident-update opens no incident again. *)
NoneOpenedAgain == \A u \in Update : u.status \notin Active

(* The handlers of an alarm that are on their way to an incident of its own. *)
Mover(h, a) ==
  /\ BusyWith(h, a)
  /\ pc[h] \in {"seed", "create", "open"} \/ (pc[h] = "insert" /\ job[h].task = NoTask)

(* The card a handler works for, or would work for if no other message waits. *)
Key(h) ==
  IF pc[h] \in {"create", "open"} THEN job[h].task ELSE <<job[h].call.alarm, job[h].call.message>>

(* The incidents that are open, or can be without another alert. *)
Contenders(a) ==
  OpenTasks(a) \cup {<<a, rows[n].message>> : n \in Waiting(a)}
               \cup {Key(h) : h \in {k \in Handler : Mover(k, a)}}

BusySet(a) == {h \in Handler : BusyWith(h, a)}

Crowded(a) == IsFiniteSet(Contenders(a)) /\ Cardinality(Contenders(a)) <= crowd[a]

(* Whatever waits while an incident is open was on its way when it was opened. *)
CountInv ==
  /\ ManualInv
  /\ \A a \in Alarm : Busy(a) <= crowd[a]
  /\ \A a \in Alarm : OpenTasks(a) # {} => Crowded(a)

LEMMA BusyCount ==
  ASSUME NEW a
  PROVE  IsFiniteSet(BusySet(a)) /\ Busy(a) = Cardinality(BusySet(a)) /\ Busy(a) \in Nat
<1>1. IsFiniteSet(BusySet(a)) /\ Busy(a) = Cardinality(BusySet(a))
  BY HandlerAssumption, FS_Subset DEF Busy, BusySet, BusyWith
<1> QED
  BY <1>1, FS_CardinalityType

(* A smaller set of contenders is no more crowded. *)
LEMMA CrowdedStays ==
  ASSUME NEW a \in Alarm, Crowded(a), crowd[a] \in Nat, crowd'[a] \in Nat, crowd[a] <= crowd'[a],
         Contenders(a)' \subseteq Contenders(a)
  PROVE  Crowded(a)'
<1>1. PICK S, T : S = Contenders(a) /\ T = Contenders(a)'
  OBVIOUS
<1>2. IsFiniteSet(S) /\ Cardinality(S) <= crowd[a] /\ T \in SUBSET S
  BY <1>1 DEF Crowded
<1>3. IsFiniteSet(T) /\ Cardinality(T) <= Cardinality(S)
  BY <1>2, FS_Subset
<1>4. Cardinality(S) \in Nat /\ Cardinality(T) \in Nat
  BY <1>2, <1>3, FS_CardinalityType
<1>5. Cardinality(T) <= crowd'[a]
  BY <1>2, <1>3, <1>4
<1> QED
  BY <1>1, <1>3, <1>5 DEF Crowded

(* A step of process x makes no contender if it opens, leaves waiting, and goes *)
(* for nothing but what was one already.                                        *)
LEMMA NoNewContender ==
  ASSUME NEW a, NEW x,
         \A k \in Handler \ {x} : pc'[k] = pc[k] /\ job'[k] = job[k],
         \A t \in OpenTasks(a)' : t \in Contenders(a),
         \A n \in Waiting(a)' : <<a, rows'[n].message>> \in Contenders(a),
         (x \in Handler /\ Mover(x, a)') => Key(x)' \in Contenders(a)
  PROVE  Contenders(a)' \subseteq Contenders(a)
<1>1. ASSUME NEW k \in Handler, Mover(k, a)' PROVE Key(k)' \in Contenders(a)
  <2>1. CASE k = x
    BY <1>1, <2>1
  <2>2. CASE k # x
    <3>1. Mover(k, a) /\ Key(k)' = Key(k)
      BY <1>1, <2>2 DEF Mover, BusyWith, Key
    <3> QED
      BY <3>1 DEF Contenders
  <2> QED
    BY <2>1, <2>2
<1> QED
  BY <1>1 DEF Contenders

(* A handler that opens an incident where none is open leaves no message      *)
(* waiting: the others of its alarm are all that can follow.                  *)
LEMMA FirstOpened ==
  ASSUME NEW a \in Alarm, NEW h \in Handler, NEW t, BusyWith(h, a), Busy(a) <= crowd[a],
         crowd[a] \in Nat, crowd' = crowd,
         OpenTasks(a)' \subseteq {t}, Waiting(a)' = {}, ~Mover(h, a)',
         \A k \in Handler \ {h} : pc'[k] = pc[k] /\ job'[k] = job[k]
  PROVE  Crowded(a)'
<1> DEFINE B == BusySet(a)
           f == [k \in B |-> IF k = h THEN t ELSE Key(k)]
           T == {f[k] : k \in B}
<1>1. IsFiniteSet(B) /\ Cardinality(B) <= crowd[a]
  BY BusyCount
<1>2. f \in Surjection(B, T)
  BY DEF Surjection
<1>3. IsFiniteSet(T) /\ Cardinality(T) <= Cardinality(B)
  <2> HIDE DEF B, f, T
  <2> QED
    BY <1>1, <1>2, FS_Surjection
<1>4. Contenders(a)' \subseteq T
  <2>1. h \in B
    BY DEF BusySet
  <2>2. t \in T
    BY <2>1
  <2>3. ASSUME NEW k \in Handler, Mover(k, a)' PROVE Key(k)' \in T
    <3>1. k # h /\ k \in B /\ Key(k)' = Key(k)
      BY <2>3 DEF Mover, BusyWith, Key, BusySet
    <3> QED
      BY <3>1
  <2> QED
    BY <2>2, <2>3 DEF Contenders
<1>5. PICK S : S = Contenders(a)'
  OBVIOUS
<1>6. S \in SUBSET T
  BY <1>4, <1>5
<1>7. IsFiniteSet(S) /\ Cardinality(S) <= Cardinality(T)
  BY <1>3, <1>6, FS_Subset
<1>8. Cardinality(S) \in Nat /\ Cardinality(T) \in Nat /\ Cardinality(B) \in Nat
  BY <1>1, <1>3, <1>7, FS_CardinalityType
<1>9. Cardinality(S) <= crowd'[a]
  BY <1>1, <1>3, <1>7, <1>8
<1> QED
  BY <1>5, <1>7, <1>9 DEF Crowded

(* A step of process x that counts nobody in preserves the count. *)
LEMMA CountStep ==
  ASSUME CountInv, ManualInv', crowd' = crowd, NEW x \in Process,
         \A y \in Process \ {x} : pc'[y] = pc[y] /\ job'[y] = job[y],
         job'[x].call = job[x].call \/ job'[x].call = NoCall,
         \A a \in Alarm :
           OpenTasks(a)' # {} =>
             \/ Crowded(a)'
             \/ /\ OpenTasks(a) # {}
                /\ \A t \in OpenTasks(a)' : t \in Contenders(a)
                /\ \A n \in Waiting(a)' : <<a, rows'[n].message>> \in Contenders(a)
                /\ (x \in Handler /\ Mover(x, a)') => Key(x)' \in Contenders(a)
  PROVE  CountInv'
<1>1. \A a \in Alarm : crowd[a] \in Nat
  BY DEF CountInv, ManualInv, ManualTypeOK
<1>2. \A y \in Handler \ {x} : pc'[y] = pc[y] /\ job'[y] = job[y]
  BY DEF Process
<1>3. ASSUME NEW a \in Alarm PROVE Busy(a)' <= crowd'[a]
  <2>1. BusySet(a)' \subseteq BusySet(a)
    BY <1>2, NamesAssumption DEF BusySet, BusyWith, NoCall
  <2>2. PICK S, T : S = BusySet(a) /\ T = BusySet(a)'
    OBVIOUS
  <2>3. IsFiniteSet(S) /\ Busy(a) = Cardinality(S) /\ Busy(a) \in Nat
    BY <2>2, BusyCount
  <2>4. Busy(a)' = Cardinality(T)
    BY <2>2 DEF Busy, BusySet, BusyWith
  <2>5. T \in SUBSET S
    BY <2>1, <2>2
  <2>6. IsFiniteSet(T) /\ Cardinality(T) <= Cardinality(S)
    BY <2>3, <2>5, FS_Subset
  <2>7. Cardinality(T) \in Nat /\ Busy(a) <= crowd[a]
    BY <2>6, FS_CardinalityType DEF CountInv
  <2> QED
    BY <1>1, <2>3, <2>4, <2>6, <2>7
<1>4. ASSUME NEW a \in Alarm, OpenTasks(a)' # {} PROVE Crowded(a)'
  <2>1. CASE Crowded(a)'
    BY <2>1
  <2>2. CASE ~Crowded(a)'
    <3>1. OpenTasks(a) # {} /\ Contenders(a)' \subseteq Contenders(a)
      BY <1>2, <1>4, <2>2, NoNewContender
    <3>2. Crowded(a)
      BY <3>1 DEF CountInv
    <3> QED
      BY <1>1, <3>1, <3>2, CrowdedStays
  <2> QED
    BY <2>1, <2>2
<1> QED
  BY <1>3, <1>4 DEF CountInv

LEMMA CountCorrelate ==
  ASSUME CountInv, ManualInv', NEW h \in Handler, Correlate(h)
  PROVE  CountInv'
<1>0. PICK c \in Call : \E t \in OneOf(OpenTasks(c.alarm)) :
        /\ job' = [job EXCEPT ![h] = [call |-> c, task |-> t, update |-> NoUpdate]]
        /\ crowd' = [crowd EXCEPT ![c.alarm] = IF @ < Busy(c.alarm) + 1 THEN @ + 1 ELSE @]
  BY DEF Correlate
<1>1. PICK t \in OneOf(OpenTasks(c.alarm)) :
        /\ job' = [job EXCEPT ![h] = [call |-> c, task |-> t, update |-> NoUpdate]]
        /\ crowd' = [crowd EXCEPT ![c.alarm] = IF @ < Busy(c.alarm) + 1 THEN @ + 1 ELSE @]
  BY <1>0
<1>2. /\ pc[h] = "idle" /\ h \in Process /\ c.alarm \in Alarm
      /\ pc' = [pc EXCEPT ![h] = "insert"] /\ rows' = rows /\ status' = status
  BY DEF Correlate, Goto, Process, Alarm, ledgerVars
<1>3. /\ pc'[h] = "insert" /\ job'[h].call = c /\ job'[h].task = t
      /\ \A y \in Process \ {h} : pc'[y] = pc[y] /\ job'[y] = job[y]
  BY <1>1, <1>2 DEF CountInv, ManualInv, ManualTypeOK
<1>4. \A a \in Alarm :
        /\ crowd[a] \in Nat /\ crowd'[a] \in Nat /\ Busy(a) <= crowd[a] /\ Busy(a) \in Nat
        /\ crowd'[a] = IF a = c.alarm /\ crowd[a] < Busy(a) + 1 THEN crowd[a] + 1 ELSE crowd[a]
  BY <1>1, <1>2, BusyCount DEF CountInv, ManualInv, ManualTypeOK
<1>5. \A y \in Handler \ {h} : pc'[y] = pc[y] /\ job'[y] = job[y]
  BY <1>3 DEF Process
<1>6. ASSUME NEW a \in Alarm PROVE Busy(a)' <= crowd'[a]
  <2>1. PICK S, T : S = BusySet(a) /\ T = BusySet(a)'
    OBVIOUS
  <2>2. IsFiniteSet(S) /\ Busy(a) = Cardinality(S)
    BY <2>1, BusyCount
  <2>3. Busy(a)' = Cardinality(T)
    BY <2>1 DEF Busy, BusySet, BusyWith
  <2>4. CASE a = c.alarm
    <3>1. T \in SUBSET (S \cup {h})
      BY <1>5, <2>1 DEF BusySet, BusyWith
    <3>2. IsFiniteSet(S \cup {h}) /\ Cardinality(S \cup {h}) <= Busy(a) + 1
      <4>1. /\ IsFiniteSet(S \cup {h})
            /\ Cardinality(S \cup {h}) = IF h \in S THEN Cardinality(S) ELSE Cardinality(S) + 1
        BY <2>2, FS_AddElement
      <4>2. Busy(a) \in Nat
        BY <1>4
      <4> QED
        BY <2>2, <4>1, <4>2
    <3>3. IsFiniteSet(T) /\ Cardinality(T) <= Cardinality(S \cup {h})
      BY <3>1, <3>2, FS_Subset
    <3>4. Cardinality(T) \in Nat /\ Cardinality(S \cup {h}) \in Nat
      BY <3>2, <3>3, FS_CardinalityType
    <3> QED
      BY <1>4, <2>3, <2>4, <3>2, <3>3, <3>4
  <2>5. CASE a # c.alarm
    <3>1. T \in SUBSET S
      BY <1>3, <1>5, <2>1, <2>5 DEF BusySet, BusyWith
    <3>2. IsFiniteSet(T) /\ Cardinality(T) <= Cardinality(S)
      BY <2>2, <3>1, FS_Subset
    <3>3. Cardinality(T) \in Nat
      BY <3>2, FS_CardinalityType
    <3> QED
      BY <1>4, <2>2, <2>3, <2>5, <3>2, <3>3
  <2> QED
    BY <2>4, <2>5
<1>7. ASSUME NEW a \in Alarm, OpenTasks(a)' # {} PROVE Crowded(a)'
  <2>1. OpenTasks(a)' = OpenTasks(a) /\ Waiting(a)' = Waiting(a)
    BY <1>2 DEF OpenTasks, Waiting
  <2>2. ~Mover(h, a)'
    <3>1. SUFFICES ASSUME Mover(h, a)' PROVE FALSE
      OBVIOUS
    <3>2. a = c.alarm /\ t = NoTask
      BY <1>3, <3>1 DEF Mover, BusyWith
    <3>3. t \in OpenTasks(a)
      BY <1>7, <2>1, <3>2 DEF OneOf
    <3> QED
      BY <3>2, <3>3, NoTaskAssumption DEF OpenTasks
  <2>3. \A n \in Waiting(a)' : <<a, rows'[n].message>> \in Contenders(a)
    BY <1>2, <2>1 DEF Contenders
  <2>4. \A u \in OpenTasks(a)' : u \in Contenders(a)
    BY <2>1 DEF Contenders
  <2>5. Contenders(a)' \subseteq Contenders(a)
    BY <1>5, <2>2, <2>3, <2>4, NoNewContender
  <2>6. Crowded(a)
    BY <1>7, <2>1 DEF CountInv
  <2>7. crowd[a] \in Nat /\ crowd'[a] \in Nat /\ crowd[a] <= crowd'[a]
    BY <1>4
  <2> QED
    BY <2>5, <2>6, <2>7, CrowdedStays
<1> QED
  BY <1>6, <1>7 DEF CountInv

(* A message that a mover carries, or that waits, is one of its contenders. *)
LEMMA MoverContends ==
  ASSUME NEW a, NEW h \in Handler, Mover(h, a), pc[h] \in {"insert", "seed"}
  PROVE  <<a, job[h].call.message>> \in Contenders(a)
<1>1. Key(h) = <<a, job[h].call.message>>
  BY DEF Mover, BusyWith, Key
<1> QED
  BY <1>1 DEF Contenders

LEMMA CountInsert ==
  ASSUME CountInv, ManualInv', NEW h \in Handler, Insert(h)
  PROVE  CountInv'
<1>1. PICK c, t : c = job[h].call /\ t = job[h].task
  OBVIOUS
<1>2. PICK r : r = [message |-> c.message, alarm |-> c.alarm, task |-> t]
  OBVIOUS
<1>3. /\ pc[h] = "insert" /\ rows' = Append(rows, r)
      /\ pc' = [pc EXCEPT ![h] = IF t = NoTask /\ c.state \notin RecoveryStates
                                   THEN "seed" ELSE "answer"]
      /\ UNCHANGED <<status, channel, cards, answered, job, crowd>>
  BY <1>1, <1>2 DEF Insert, Goto
<1>4. h \in Process /\ \A y \in Process \ {h} : pc'[y] = pc[y] /\ job'[y] = job[y]
  BY <1>3 DEF Process, CountInv, ManualInv, ManualTypeOK
<1>5. pc'[h] = IF t = NoTask /\ c.state \notin RecoveryStates THEN "seed" ELSE "answer"
  BY <1>3, <1>4 DEF CountInv, ManualInv, ManualTypeOK
<1>6. /\ DOMAIN rows' = 1..(Len(rows) + 1) /\ DOMAIN rows = 1..Len(rows) /\ Len(rows) \in Nat
      /\ rows'[Len(rows) + 1] = r
      /\ \A n \in DOMAIN rows : rows'[n] = rows[n]
  BY <1>3 DEF CountInv, ManualInv, ManualTypeOK
<1>7. ASSUME NEW a \in Alarm
      PROVE  /\ OpenTasks(a)' = OpenTasks(a)
             /\ \A u \in OpenTasks(a)' : u \in Contenders(a)
             /\ \A n \in Waiting(a)' : <<a, rows'[n].message>> \in Contenders(a)
             /\ Mover(h, a)' => Key(h)' \in Contenders(a)
  <2>1. OpenTasks(a)' = OpenTasks(a)
    BY <1>3 DEF OpenTasks
  <2>2. \A u \in OpenTasks(a)' : u \in Contenders(a)
    BY <2>1 DEF Contenders
  <2>3. ASSUME NEW n \in Waiting(a)' PROVE <<a, rows'[n].message>> \in Contenders(a)
    <3>1. n \in DOMAIN rows' /\ rows'[n].alarm = a /\ rows'[n].task = NoTask
      BY <2>3 DEF Waiting
    <3>2. CASE n \in DOMAIN rows
      <4>1. n \in Waiting(a) /\ rows'[n] = rows[n]
        BY <1>6, <3>1, <3>2 DEF Waiting
      <4> QED
        BY <4>1 DEF Contenders
    <3>3. CASE n = Len(rows) + 1
      <4>1. c.alarm = a /\ t = NoTask /\ rows'[n].message = c.message
        BY <1>2, <1>6, <3>1, <3>3
      <4>2. Mover(h, a)
        BY <1>1, <1>3, <4>1 DEF Mover, BusyWith
      <4> QED
        BY <1>1, <1>3, <4>1, <4>2, MoverContends
    <3> QED
      BY <1>6, <3>1, <3>2, <3>3
  <2>4. ASSUME Mover(h, a)' PROVE Key(h)' \in Contenders(a)
    <3>1. pc'[h] = "seed" /\ t = NoTask /\ c.alarm = a /\ Key(h)' = <<a, c.message>>
      BY <1>1, <1>3, <1>5, <2>4 DEF Mover, BusyWith, Key
    <3>2. Mover(h, a)
      BY <1>1, <1>3, <3>1 DEF Mover, BusyWith
    <3> QED
      BY <1>1, <1>3, <3>1, <3>2, MoverContends
  <2> QED
    BY <2>1, <2>2, <2>3, <2>4
<1>8. crowd' = crowd /\ job'[h].call = job[h].call
  BY <1>3
<1> QED
  BY <1>4, <1>7, <1>8, CountStep

LEMMA CountDuplicate ==
  ASSUME CountInv, ManualInv', NEW h \in Handler, Duplicate(h)
  PROVE  CountInv'
<1>1. PICK c : c = job[h].call
  OBVIOUS
<1>2. PICK n \in RowOf(c.message) :
        /\ job' = [job EXCEPT ![h].task = rows[n].task]
        /\ pc' = [pc EXCEPT ![h] = IF rows[n].task = NoTask /\ c.state \notin RecoveryStates
                                     THEN "seed" ELSE "answer"]
  BY <1>1 DEF Duplicate, Goto
<1>3. pc[h] = "insert" /\ h \in Process /\ UNCHANGED <<rows, status, crowd>>
  BY DEF Duplicate, ledgerVars, Process
<1>4. /\ \A y \in Process \ {h} : pc'[y] = pc[y] /\ job'[y] = job[y]
      /\ pc'[h] = IF rows[n].task = NoTask /\ c.state \notin RecoveryStates
                    THEN "seed" ELSE "answer"
  BY <1>2, <1>3 DEF CountInv, ManualInv, ManualTypeOK
<1>5. job'[h].call = c
  <2>1. job[h] \in Job /\ job \in [Process -> Job]
    BY <1>3 DEF CountInv, ManualInv, ManualTypeOK
  <2> QED
    BY <1>1, <1>2, <1>3, <2>1 DEF Job
<1>6. c \in Call
  BY <1>1, <1>3, ActiveHandler DEF Handling, CountInv
<1>7. n \in DOMAIN rows /\ rows[n].message = c.message /\ rows[n].alarm = c.alarm
  BY <1>6 DEF RowOf, CountInv, ManualInv, RowKnown
<1>8. ASSUME NEW a \in Alarm
      PROVE  /\ OpenTasks(a)' = OpenTasks(a)
             /\ \A u \in OpenTasks(a)' : u \in Contenders(a)
             /\ \A k \in Waiting(a)' : <<a, rows'[k].message>> \in Contenders(a)
             /\ Mover(h, a)' => Key(h)' \in Contenders(a)
  <2>1. OpenTasks(a)' = OpenTasks(a) /\ Waiting(a)' = Waiting(a)
    BY <1>3 DEF OpenTasks, Waiting
  <2>2. ASSUME Mover(h, a)' PROVE Key(h)' \in Contenders(a)
    <3>1. pc'[h] = "seed" /\ rows[n].task = NoTask /\ c.alarm = a /\ Key(h)' = <<a, c.message>>
      BY <1>4, <1>5, <2>2 DEF Mover, BusyWith, Key
    <3>2. n \in Waiting(a)
      BY <1>7, <3>1 DEF Waiting
    <3> QED
      BY <1>7, <3>1, <3>2 DEF Contenders
  <2> QED
    BY <1>3, <2>1, <2>2 DEF Contenders
<1> QED
  BY <1>1, <1>3, <1>4, <1>5, <1>8, CountStep

LEMMA CountTakeSeed ==
  ASSUME CountInv, ManualInv', NEW h \in Handler, TakeSeed(h)
  PROVE  CountInv'
<1>1. PICK c : c = job[h].call
  OBVIOUS
<1>2. PICK s \in Seed(c) : job' = [job EXCEPT ![h].task = <<c.alarm, s>>]
  BY <1>1 DEF TakeSeed
<1>3. PICK t : t = <<c.alarm, s>>
  OBVIOUS
<1>4. /\ pc[h] = "seed" /\ pc' = [pc EXCEPT ![h] = "create"] /\ h \in Process
      /\ UNCHANGED <<rows, status, crowd>>
  BY DEF TakeSeed, Goto, ledgerVars, Process
<1>5. pc'[h] = "create" /\ \A y \in Process \ {h} : pc'[y] = pc[y] /\ job'[y] = job[y]
  BY <1>2, <1>4 DEF CountInv, ManualInv, ManualTypeOK
<1>6. job'[h].call = c /\ job'[h].task = t
  <2>1. job[h] \in Job /\ job \in [Process -> Job]
    BY <1>4 DEF CountInv, ManualInv, ManualTypeOK
  <2> QED
    BY <1>1, <1>2, <1>3, <1>4, <2>1 DEF Job
<1>7. ASSUME NEW a \in Alarm
      PROVE  /\ OpenTasks(a)' = OpenTasks(a)
             /\ \A u \in OpenTasks(a)' : u \in Contenders(a)
             /\ \A k \in Waiting(a)' : <<a, rows'[k].message>> \in Contenders(a)
             /\ Mover(h, a)' => Key(h)' \in Contenders(a)
  <2>1. OpenTasks(a)' = OpenTasks(a) /\ Waiting(a)' = Waiting(a)
    BY <1>4 DEF OpenTasks, Waiting
  <2>2. ASSUME Mover(h, a)' PROVE Key(h)' \in Contenders(a)
    <3>1. c.alarm = a /\ Key(h)' = <<a, s>>
      BY <1>3, <1>5, <1>6, <2>2 DEF Mover, BusyWith, Key
    <3>2. Mover(h, a)
      BY <1>1, <1>4, <3>1 DEF Mover, BusyWith
    <3>3. CASE Waiting(a) = {}
      BY <1>1, <1>4, <3>1, <3>2, <3>3, MoverContends DEF Seed
    <3>4. CASE Waiting(a) # {}
      <4>1. PICK n \in Waiting(a) : s = rows[n].message
        BY <3>1, <3>4 DEF Seed
      <4> QED
        BY <3>1, <4>1 DEF Contenders
    <3> QED
      BY <3>3, <3>4
  <2> QED
    BY <1>4, <2>1, <2>2 DEF Contenders
<1> QED
  BY <1>1, <1>4, <1>5, <1>6, <1>7, CountStep

LEMMA CountCreateCard ==
  ASSUME CountInv, ManualInv', NEW h \in Handler, CreateCard(h)
  PROVE  CountInv'
<1>1. /\ pc[h] = "create" /\ pc' = [pc EXCEPT ![h] = "open"] /\ h \in Process
      /\ UNCHANGED <<rows, status, job, crowd>>
  BY DEF CreateCard, Goto, ledgerVars, Process
<1>2. pc'[h] = "open" /\ \A y \in Process \ {h} : pc'[y] = pc[y] /\ job'[y] = job[y]
  BY <1>1 DEF CountInv, ManualInv, ManualTypeOK
<1>3. ASSUME NEW a \in Alarm
      PROVE  /\ OpenTasks(a)' = OpenTasks(a)
             /\ \A u \in OpenTasks(a)' : u \in Contenders(a)
             /\ \A k \in Waiting(a)' : <<a, rows'[k].message>> \in Contenders(a)
             /\ Mover(h, a)' => Key(h)' \in Contenders(a)
  <2>1. OpenTasks(a)' = OpenTasks(a) /\ Waiting(a)' = Waiting(a)
    BY <1>1 DEF OpenTasks, Waiting
  <2>2. Mover(h, a)' => Mover(h, a) /\ Key(h)' = Key(h)
    BY <1>1, <1>2 DEF Mover, BusyWith, Key
  <2> QED
    BY <1>1, <2>1, <2>2 DEF Contenders
<1>4. job'[h].call = job[h].call
  BY <1>1
<1> QED
  BY <1>1, <1>2, <1>3, <1>4, CountStep

LEMMA CountOpen ==
  ASSUME CountInv, ManualInv', NEW h \in Handler, Open(h)
  PROVE  CountInv'
<1>1. PICK c, t : c = job[h].call /\ t = job[h].task
  OBVIOUS
<1>2. /\ pc[h] = "open" /\ pc' = [pc EXCEPT ![h] = "answer"] /\ h \in Process
      /\ status' = [status EXCEPT ![t] = "investigating"]
      /\ rows' = [n \in DOMAIN rows |->
                    IF rows[n].alarm = t[1] /\ rows[n].task = NoTask
                      THEN [rows[n] EXCEPT !.task = t] ELSE rows[n]]
      /\ UNCHANGED <<job, crowd>>
  BY <1>1 DEF Open, Goto, Process
<1>3. pc'[h] = "answer" /\ \A y \in Process \ {h} : pc'[y] = pc[y] /\ job'[y] = job[y]
  BY <1>2 DEF CountInv, ManualInv, ManualTypeOK
<1>4. t \in Task /\ t # NoTask /\ t[1] = c.alarm
  BY <1>1, <1>2, TaskFacts DEF CountInv, ManualInv, ManualTypeOK, HandlerKnown, Seeded
<1>5. ASSUME NEW n \in DOMAIN rows
      PROVE  /\ rows'[n].message = rows[n].message /\ rows'[n].alarm = rows[n].alarm
             /\ rows'[n].task = IF rows[n].alarm = t[1] /\ rows[n].task = NoTask
                                  THEN t ELSE rows[n].task
  <2>1. rows[n] \in Row
    BY DEF CountInv, ManualInv, ManualTypeOK
  <2> QED
    BY <1>2, <2>1 DEF Row
<1>6. \A u \in Task : status'[u] = IF u = t THEN "investigating" ELSE status[u]
  BY <1>2, <1>4 DEF CountInv, ManualInv, ManualTypeOK
<1>7. ASSUME NEW a \in Alarm, OpenTasks(a)' # {}
      PROVE  \/ Crowded(a)'
             \/ /\ OpenTasks(a) # {}
                /\ \A u \in OpenTasks(a)' : u \in Contenders(a)
                /\ \A k \in Waiting(a)' : <<a, rows'[k].message>> \in Contenders(a)
                /\ Mover(h, a)' => Key(h)' \in Contenders(a)
  <2>1. ~Mover(h, a)'
    BY <1>3 DEF Mover
  <2>2. CASE a # c.alarm
    <3>1. OpenTasks(a)' = OpenTasks(a)
      BY <1>4, <1>6, <2>2 DEF OpenTasks
    <3>2. \A k \in Waiting(a)' : k \in Waiting(a) /\ rows'[k].message = rows[k].message
      BY <1>2, <1>4, <1>5, <2>2 DEF Waiting
    <3> QED
      BY <1>7, <2>1, <3>1, <3>2 DEF Contenders
  <2>3. CASE a = c.alarm
    <3>1. OpenTasks(a)' \subseteq OpenTasks(a) \cup {t}
      BY <1>6 DEF OpenTasks
    <3>2. Waiting(a)' = {}
      BY <1>2, <1>4, <1>5, <2>3 DEF Waiting
    <3>3. BusyWith(h, a) /\ Mover(h, a) /\ Key(h) = t
      BY <1>1, <1>2, <2>3 DEF Mover, BusyWith, Key
    <3>4. CASE OpenTasks(a) # {}
      <4>1. \A u \in OpenTasks(a)' : u \in Contenders(a)
        BY <3>1, <3>3 DEF Contenders
      <4> QED
        BY <2>1, <3>2, <3>4, <4>1
    <3>5. CASE OpenTasks(a) = {}
      <4>1. \A k \in Handler \ {h} : pc'[k] = pc[k] /\ job'[k] = job[k]
        BY <1>3 DEF Process
      <4>2. Busy(a) <= crowd[a] /\ crowd[a] \in Nat /\ crowd' = crowd
        BY <1>2 DEF CountInv, ManualInv, ManualTypeOK
      <4>3. OpenTasks(a)' \subseteq {t}
        BY <3>1, <3>5
      <4> QED
        BY <2>1, <3>2, <3>3, <4>1, <4>2, <4>3, FirstOpened
    <3> QED
      BY <3>4, <3>5
  <2> QED
    BY <2>2, <2>3
<1>8. job'[h].call = job[h].call /\ crowd' = crowd
  BY <1>2
<1> QED
  BY <1>2, <1>3, <1>7, <1>8, CountStep

(* A step of a process that opens no incident and goes for none. *)
LEMMA CountQuiet ==
  ASSUME CountInv, ManualInv', NEW x \in Process, pc'[x] \notin Handling,
         \A y \in Process \ {x} : pc'[y] = pc[y] /\ job'[y] = job[y],
         job'[x].call = job[x].call \/ job'[x].call = NoCall,
         rows' = rows, crowd' = crowd,
         \A t \in Task : status'[t] \in Active => status[t] \in Active
  PROVE  CountInv'
<1>1. ASSUME NEW a \in Alarm
      PROVE  /\ OpenTasks(a)' \subseteq OpenTasks(a)
             /\ \A u \in OpenTasks(a)' : u \in Contenders(a)
             /\ \A k \in Waiting(a)' : <<a, rows'[k].message>> \in Contenders(a)
             /\ ~Mover(x, a)'
  <2>1. OpenTasks(a)' \subseteq OpenTasks(a) /\ Waiting(a)' = Waiting(a)
    BY DEF OpenTasks, Waiting
  <2>2. ~Mover(x, a)'
    BY DEF Mover, Handling
  <2> QED
    BY <2>1, <2>2 DEF Contenders
<1>2. \A a \in Alarm : OpenTasks(a)' # {} => OpenTasks(a) # {}
  BY <1>1
<1> QED
  BY <1>1, <1>2, CountStep

LEMMA CountAnswer ==
  ASSUME CountInv, ManualInv', NEW h \in Handler, Answer(h)
  PROVE  CountInv'
<1>1. /\ h \in Process /\ pc' = [pc EXCEPT ![h] = "idle"] /\ job' = [job EXCEPT ![h] = Idle]
      /\ UNCHANGED <<rows, status, crowd>>
  BY DEF Answer, Finish, Goto, Process, ledgerVars
<1>2. /\ pc'[h] = "idle" /\ job'[h].call = NoCall
      /\ \A y \in Process \ {h} : pc'[y] = pc[y] /\ job'[y] = job[y]
  BY <1>1 DEF CountInv, ManualInv, ManualTypeOK, Idle
<1> QED
  BY <1>1, <1>2, CountQuiet DEF Handling

LEMMA CountCheckEvidence ==
  ASSUME CountInv, ManualInv', NEW o \in Operator, CheckEvidence(o)
  PROVE  CountInv'
<1>1. PICK t \in Task, u \in Update :
        job' = [job EXCEPT ![o] = [call |-> NoCall, task |-> t, update |-> u]]
  BY DEF CheckEvidence
<1>2. /\ o \in Process /\ pc' = [pc EXCEPT ![o] = "update"] /\ UNCHANGED <<rows, status, crowd>>
  BY DEF CheckEvidence, Goto, Process, ledgerVars
<1>3. /\ pc'[o] = "update" /\ job'[o].call = NoCall
      /\ \A y \in Process \ {o} : pc'[y] = pc[y] /\ job'[y] = job[y]
  BY <1>1, <1>2 DEF CountInv, ManualInv, ManualTypeOK
<1> QED
  BY <1>2, <1>3, CountQuiet DEF Handling

LEMMA CountWriteUpdate ==
  ASSUME NoneOpenedAgain, CountInv, ManualInv', NEW o \in Operator, WriteUpdate(o)
  PROVE  CountInv'
<1>1. PICK t, u : t = job[o].task /\ u = job[o].update
  OBVIOUS
<1>2. /\ pc[o] = "update" /\ o \in Process
      /\ status' = [status EXCEPT ![t] = u.status]
      /\ pc' = [pc EXCEPT ![o] = "idle"] /\ job' = [job EXCEPT ![o] = Idle]
      /\ UNCHANGED <<rows, crowd>>
  BY <1>1 DEF WriteUpdate, Finish, Goto, Process
<1>3. t \in Task /\ u \in Update
  BY <1>1, <1>2 DEF CountInv, ManualInv, ManualTypeOK
<1>4. u.status \notin Active
  BY <1>3 DEF NoneOpenedAgain
<1>5. \A t1 \in Task : status'[t1] = IF t1 = t THEN u.status ELSE status[t1]
  BY <1>2, <1>3 DEF CountInv, ManualInv, ManualTypeOK
<1>6. \A t1 \in Task : status'[t1] \in Active => status[t1] \in Active
  BY <1>4, <1>5
<1>7. /\ pc'[o] = "idle" /\ job'[o].call = NoCall
      /\ \A y \in Process \ {o} : pc'[y] = pc[y] /\ job'[y] = job[y]
  BY <1>2 DEF CountInv, ManualInv, ManualTypeOK, Idle
<1> QED
  BY <1>2, <1>6, <1>7, CountQuiet DEF Handling

LEMMA CountEnd ==
  ASSUME CountInv, ManualInv', NEW x \in Process, End(x)
  PROVE  CountInv'
<1>1. /\ pc' = [pc EXCEPT ![x] = "idle"] /\ job' = [job EXCEPT ![x] = Idle]
      /\ UNCHANGED <<rows, status, crowd>>
  BY DEF End, Finish, Goto, ledgerVars
<1>2. /\ pc'[x] = "idle" /\ job'[x].call = NoCall
      /\ \A y \in Process \ {x} : pc'[y] = pc[y] /\ job'[y] = job[y]
  BY <1>1 DEF CountInv, ManualInv, ManualTypeOK, Idle
<1> QED
  BY <1>1, <1>2, CountQuiet DEF Handling

(* An alarm has no more open incidents at a time than alerts of it were ever    *)
(* handled at once, however handlers and updates interleave, end early and are  *)
(* repeated (ingest_message, idempotency_seed, open_incident): alerts handled   *)
(* one after another never open a second one.                                   *)
THEOREM NoMoreOpenThanOverlapped ==
  ASSUME MessagesOfOneAlarm, NoneOpenedAgain
  PROVE  Spec => []OneOpenPerAlarm
<1>1. Init /\ ManualInv => CountInv
  <2> SUFFICES ASSUME Init, ManualInv PROVE CountInv
    OBVIOUS
  <2>1. ASSUME NEW a \in Alarm PROVE Busy(a) <= crowd[a] /\ OpenTasks(a) = {}
    <3>1. BusySet(a) = {}
      BY NamesAssumption DEF Init, BusySet, BusyWith, Idle, NoCall, Process
    <3>2. Busy(a) = 0 /\ crowd[a] = 0
      BY <3>1, BusyCount, FS_EmptySet DEF Init
    <3> QED
      BY <3>2 DEF Init, OpenTasks, Active
  <2> QED
    BY <2>1 DEF CountInv
<1>2. CountInv /\ ManualInv' /\ [Next]_vars => CountInv'
  <2> SUFFICES ASSUME CountInv, ManualInv', [Next]_vars PROVE CountInv'
    OBVIOUS
  <2>1. ASSUME NEW h \in Handler, Handle(h) PROVE CountInv'
    BY <2>1, CountCorrelate, CountInsert, CountDuplicate, CountTakeSeed, CountCreateCard,
       CountOpen, CountAnswer DEF Handle
  <2>2. ASSUME NEW o \in Operator, CheckEvidence(o) \/ WriteUpdate(o) PROVE CountInv'
    BY <2>2, CountCheckEvidence, CountWriteUpdate
  <2>3. ASSUME NEW x \in Process, End(x) PROVE CountInv'
    BY <2>3, CountEnd
  <2>4. CASE UNCHANGED vars
    <3>1. UNCHANGED <<rows, status, pc, job, crowd>>
      BY <2>4 DEF vars, ledgerVars
    <3>2. ASSUME NEW a \in Alarm
          PROVE  Busy(a)' = Busy(a) /\ OpenTasks(a)' = OpenTasks(a) /\ (Crowded(a) => Crowded(a)')
      <4>1. Contenders(a)' = Contenders(a)
        BY <3>1 DEF Contenders, OpenTasks, Waiting, Mover, BusyWith, Key
      <4> QED
        BY <3>1, <4>1 DEF Busy, OpenTasks, Crowded
    <3> QED
      BY <3>1, <3>2 DEF CountInv
  <2> QED
    BY <2>1, <2>2, <2>3, <2>4 DEF Next
<1>3. CountInv => OneOpenPerAlarm
  <2> SUFFICES ASSUME CountInv, NEW a \in Alarm PROVE Cardinality(OpenTasks(a)) <= crowd[a]
    BY DEF OneOpenPerAlarm
  <2>1. crowd[a] \in Nat
    BY DEF CountInv, ManualInv, ManualTypeOK
  <2>2. CASE OpenTasks(a) = {}
    BY <2>1, <2>2, FS_EmptySet
  <2>3. CASE OpenTasks(a) # {}
    <3>1. PICK S, T : S = Contenders(a) /\ T = OpenTasks(a)
      OBVIOUS
    <3>2. IsFiniteSet(S) /\ Cardinality(S) <= crowd[a] /\ T \in SUBSET S
      BY <2>3, <3>1 DEF CountInv, Crowded, Contenders
    <3>3. IsFiniteSet(T) /\ Cardinality(T) <= Cardinality(S)
      BY <3>2, FS_Subset
    <3>4. Cardinality(S) \in Nat /\ Cardinality(T) \in Nat
      BY <3>2, <3>3, FS_CardinalityType
    <3> QED
      BY <2>1, <3>1, <3>2, <3>3, <3>4
  <2> QED
    BY <2>2, <2>3
<1> QED
  BY <1>1, <1>2, <1>3, ManualInvariant, PTL DEF Spec
=============================================================================
