---------------------- MODULE IncidentLifecycleProofs ----------------------
(***************************************************************************)
(* Theorems about IncidentLifecycle, for every set of projects, alarms,    *)
(* events, and workers of each kind.                                       *)
(***************************************************************************)
EXTENDS IncidentLifecycle, CloudLedgerProofs, FiniteSetTheorems

(* What a debugger is about to store has been posted. *)
DebuggerWork(d) ==
  /\ pc[d] \in {"idle", "create", "queue", "send", "comment", "store"}
  /\ pc[d] # "idle" =>
       /\ job[d].incident \in IncidentId
       /\ job[d].status \in AnnouncedStatus \cup {"code_fix_queued"}
  /\ pc[d] \in {"comment", "store"} => <<job[d].incident, job[d].status>> \in posted

(* A coder reports on an incident that has its task. *)
CoderWork(c) ==
  /\ pc[c] \in {"idle", "comment", "send", "feedback", "store"}
  /\ pc[c] # "idle" =>
       /\ job[c].incident \in IncidentId
       /\ job[c].status \in CoderStatus
       /\ coderTask[job[c].incident]

(* A watchdog has posted before it reads the row again, and the status that *)
(* it writes back, however old, was backed by a task or a post when it was   *)
(* read, and neither is ever taken back.                                     *)
WatchdogWork(w) ==
  /\ pc[w] \in {"idle", "send", "reread", "store"}
  /\ pc[w] \in {"reread", "store"} => <<Head(findings[w]), "watchdog-stalled">> \in posted
  /\ pc[w] = "store" =>
       /\ job[w].incident = Head(findings[w])
       /\ job[w].status \in CoderStatus => coderTask[job[w].incident]
       /\ job[w].status \in AnnouncedStatus => <<job[w].incident, job[w].status>> \in posted

WorkOK(x) ==
  /\ x \in Debugger => DebuggerWork(x)
  /\ x \in Coder => CoderWork(x)
  /\ x \in Watchdog => WatchdogWork(x)

RowsOK == CoderStatusHasTask /\ NoSilence /\ ClosedHasFinal

(* The inductive invariant. *)
LifecycleInv ==
  /\ LifecycleTypeOK
  /\ \A x \in Worker : WorkOK(x)
  /\ RowsOK

(* Posts and coder tasks are never taken back. *)
Grows ==
  /\ posted \subseteq posted'
  /\ \A i \in IncidentId : coderTask[i] => coderTask'[i]

(* Only worker x moves. *)
Moves(x) ==
  \A y \in Worker \ {x} :
    /\ pc'[y] = pc[y]
    /\ job'[y] = job[y]
    /\ y \in Watchdog => findings'[y] = findings[y]

-----------------------------------------------------------------------------
(* What a worker relies on stays true while others move. *)
LEMMA WorkKept ==
  ASSUME LifecycleInv, Grows, NEW y \in Worker,
         pc'[y] = pc[y], job'[y] = job[y],
         y \in Watchdog => findings'[y] = findings[y]
  PROVE  WorkOK(y)'
<1>1. WorkOK(y)
  BY DEF LifecycleInv
<1>2. y \in Debugger => DebuggerWork(y)'
  BY <1>1 DEF WorkOK, DebuggerWork, Grows
<1>3. y \in Coder => CoderWork(y)'
  BY <1>1 DEF WorkOK, CoderWork, Grows
<1>4. y \in Watchdog => WatchdogWork(y)'
  <2> SUFFICES ASSUME y \in Watchdog PROVE WatchdogWork(y)'
    OBVIOUS
  <2>1. pc[y] = "store" => job[y].incident \in IncidentId
    <3>1. findings[y] \in Seq(IncidentId) /\ (pc[y] = "store" => findings[y] # <<>>)
      BY DEF LifecycleInv, LifecycleTypeOK
    <3> QED
      BY <1>1, <3>1 DEF WorkOK, WatchdogWork
  <2> QED
    BY <1>1, <2>1 DEF WorkOK, WatchdogWork, Grows
<1> QED
  BY <1>2, <1>3, <1>4 DEF WorkOK

(* A step that writes no row keeps what is said of the rows. *)
LEMMA RowsKept ==
  ASSUME RowsOK, Grows, UNCHANGED <<status, channel>>
  PROVE  RowsOK'
BY DEF RowsOK, CoderStatusHasTask, NoSilence, ClosedHasFinal, Grows

(* update_incident_status changes one row, and closes it only as final. *)
LEMMA WriteRow ==
  ASSUME LifecycleTypeOK, NEW i \in IncidentId, NEW s \in IncidentStatus,
         NEW c \in ChannelStatus \cup {"none"}, Accepts(i, s, c), Write(i, s, c)
  PROVE  /\ LedgerTypeOK'
         /\ channel' \in [IncidentId -> ChannelStatus \cup {"none"}]
         /\ status'[i] = s
         /\ channel'[i] = IF c = "none" THEN channel[i] ELSE c
         /\ \A j \in IncidentId \ {i} : status'[j] = status[j] /\ channel'[j] = channel[j]
         /\ s \in ClosedStatus => channel'[i] = "final"
<1>1. LedgerTypeOK'
  BY DEF LifecycleTypeOK, LedgerTypeOK, Write
<1>2. status \in [IncidentId -> IncidentStatus \cup {"absent"}]
  BY DEF LifecycleTypeOK, LedgerTypeOK
<1>3. channel \in [IncidentId -> ChannelStatus \cup {"none"}]
  BY DEF LifecycleTypeOK
<1> QED
  BY <1>1, <1>2, <1>3 DEF Accepts, Write

(* An update keeps what is said of the rows if its status is backed by a task *)
(* or a post, and so is its mark of the watchdog.                             *)
LEMMA RowsWritten ==
  ASSUME LifecycleTypeOK, RowsOK, Grows,
         NEW i \in IncidentId, NEW s \in IncidentStatus,
         NEW c \in ChannelStatus \cup {"none"}, Accepts(i, s, c), Write(i, s, c),
         s \in CoderStatus => coderTask'[i],
         s \in AnnouncedStatus => <<i, s>> \in posted',
         c = "watchdog-stalled" => <<i, c>> \in posted'
  PROVE  RowsOK'
<1>1. /\ status'[i] = s
      /\ channel'[i] = IF c = "none" THEN channel[i] ELSE c
      /\ \A j \in IncidentId \ {i} : status'[j] = status[j] /\ channel'[j] = channel[j]
      /\ s \in ClosedStatus => channel'[i] = "final"
  BY WriteRow
<1>2. CoderStatusHasTask'
  BY <1>1 DEF RowsOK, CoderStatusHasTask, Grows
<1>3. NoSilence'
  BY <1>1 DEF RowsOK, NoSilence, Grows
<1>4. ClosedHasFinal'
  BY <1>1 DEF RowsOK, ClosedHasFinal
<1> QED
  BY <1>2, <1>3, <1>4 DEF RowsOK

-----------------------------------------------------------------------------
LEMMA InitLifecycle == Init => LifecycleInv
<1> SUFFICES ASSUME Init PROVE LifecycleInv
  OBVIOUS
<1>1. LedgerTypeOK
  BY InitInv DEF Init, LedgerInv
<1>2. \A w \in Watchdog : w \in Worker
  BY DEF Worker
<1>3. LifecycleTypeOK
  BY <1>1, <1>2 DEF Init, LifecycleTypeOK, PC, NoJob
<1>4. \A x \in Worker : WorkOK(x)
  BY DEF Init, WorkOK, DebuggerWork, CoderWork, WatchdogWork, Worker
<1>5. \A i \in IncidentId : status[i] = "absent" /\ channel[i] = "none"
  BY DEF Init, LedgerInit
<1>6. RowsOK
  BY <1>5 DEF RowsOK, CoderStatusHasTask, NoSilence, ClosedHasFinal,
              CoderStatus, AnnouncedStatus, ClosedStatus
<1> QED
  BY <1>3, <1>4, <1>6 DEF LifecycleInv

(* The listener gives an incident the status investigating or self_recovered, *)
(* or leaves it as it is.                                                     *)
LEMMA LedgerStatus ==
  ASSUME LedgerTypeOK, LedgerNext
  PROVE  /\ LedgerTypeOK'
         /\ \A i \in IncidentId :
              status'[i] = status[i] \/ status'[i] \in {"investigating", "self_recovered"}
<1>1. PICK p \in Project, e \in Event :
        \E r \in CloudAlertProcessResult(p, e) : ProcessCloudAlert(p, e, r)
  BY DEF LedgerNext
<1>2. PICK r \in CloudAlertProcessResult(p, e) : ProcessCloudAlert(p, e, r)
  BY <1>1
<1>3. LedgerTypeOK'
  BY <1>2, TypeStep
<1>4. \/ status' = status
      \/ \E j, s : s \in {"investigating", "self_recovered"}
                   /\ status' = [status EXCEPT ![j] = s]
  BY <1>2 DEF ProcessCloudAlert, DuplicateEvent, DuplicateTransition, Correlate, Open,
     StaleAlarm, UnmatchedOk, StaleOk, Resolve, Observe, ledgerVars
<1> QED
  BY <1>3, <1>4 DEF LedgerTypeOK

LEMMA AlertStep == LifecycleInv /\ Alert => LifecycleInv'
<1> SUFFICES ASSUME LifecycleInv, Alert PROVE LifecycleInv'
  OBVIOUS
<1>1. UNCHANGED <<rowVars, outsideVars, workVars>>
  BY DEF Alert
<1>2. Grows
  BY <1>1 DEF Grows, rowVars, outsideVars
<1>3. /\ LedgerTypeOK'
      /\ \A i \in IncidentId :
           status'[i] = status[i] \/ status'[i] \in {"investigating", "self_recovered"}
  BY LedgerStatus DEF Alert, LifecycleInv, LifecycleTypeOK
<1>4. LifecycleTypeOK'
  BY <1>1, <1>3 DEF LifecycleInv, LifecycleTypeOK, rowVars, outsideVars, workVars
<1>5. \A x \in Worker : WorkOK(x)'
  BY <1>1, <1>2, WorkKept DEF workVars
<1>6. RowsOK'
  BY <1>1, <1>3 DEF LifecycleInv, RowsOK, CoderStatusHasTask, NoSilence, ClosedHasFinal,
     CoderStatus, AnnouncedStatus, ClosedStatus, rowVars, outsideVars
<1> QED
  BY <1>4, <1>5, <1>6 DEF LifecycleInv

(* A worker's step preserves the invariant if it keeps the types, the worker *)
(* can rely on its own work afterwards, and the rows are as they should be.  *)
LEMMA WorkerStep ==
  ASSUME LifecycleInv, NEW x \in Worker, Grows, Moves(x),
         LifecycleTypeOK', WorkOK(x)', RowsOK'
  PROVE  LifecycleInv'
<1>1. \A y \in Worker : WorkOK(y)'
  BY WorkKept DEF Moves
<1> QED
  BY <1>1 DEF LifecycleInv

-----------------------------------------------------------------------------
LEMMA VerdictStatus ==
  \A class \in Classification : Verdict(class) \in AnnouncedStatus \cup {"code_fix_queued"}
BY DEF Classification, Verdict, AnnouncedStatus

LEMMA StatusSets ==
  /\ AnnouncedStatus \cup CoderStatus \subseteq IncidentStatus
  /\ AnnouncedStatus \cap CoderStatus = {}
  /\ "code_fix_queued" \in CoderStatus /\ "awaiting_review" \in CoderStatus
  /\ AnnouncedStatus \cap ClosedStatus = {"resolved"}
  /\ CoderStatus \cap ClosedStatus = {}
  /\ {"progress", "final", "watchdog-stalled"} \subseteq ChannelStatus
BY DEF AnnouncedStatus, CoderStatus, IncidentStatus, ActiveStatus, TerminalStatus,
       ClosedStatus, ChannelStatus

(* The steps of a debugger *)
LEMMA DebuggerStepInv ==
  ASSUME LifecycleInv, NEW d \in Debugger, DebuggerStep(d)
  PROVE  LifecycleInv'
<1> USE DEF LifecycleInv
<1>1. d \in Worker /\ d \notin Coder /\ d \notin Watchdog
  BY WorkerAssumption DEF Worker
<1>2. DebuggerWork(d)
  BY <1>1 DEF WorkOK
<1>3. DebuggerWork(d)' => WorkOK(d)'
  BY <1>1 DEF WorkOK
<1>4. /\ pc \in [Worker -> PC]
      /\ job \in [Worker -> [incident : IncidentId \cup {NoIncident},
                             status : IncidentStatus \cup {"absent"}]]
      /\ channel \in [IncidentId -> ChannelStatus \cup {"none"}]
      /\ coderTask \in [IncidentId -> BOOLEAN]
      /\ posted \subseteq IncidentId \X (IncidentStatus \cup ChannelStatus)
  BY DEF LifecycleTypeOK
<1>5. \A w \in Watchdog : w \in Worker /\ w # d
  BY <1>1 DEF Worker
<1>6. NoJob \in [incident : IncidentId \cup {NoIncident}, status : IncidentStatus \cup {"absent"}]
  BY DEF NoJob
<1>7. CASE Sync(d)
  <2>1. PICK i \in IncidentId, r \in Payload :
          /\ job' = [job EXCEPT ![d] =
                      [incident |-> i, status |-> Verdict(r.classification)]]
          /\ Goto(d, IF r.classification = "code-fix-likely" /\ ~(status[i] = "code_fix_queued")
                       THEN "create" ELSE "send")
    BY <1>7 DEF Sync
  <2>2. Verdict(r.classification) \in AnnouncedStatus \cup {"code_fix_queued"}
    BY VerdictStatus, VerdictAssumption DEF Payload
  <2>3. /\ pc'[d] \in {"create", "send"}
        /\ job'[d] = [incident |-> i, status |-> Verdict(r.classification)]
        /\ Moves(d) /\ Grows
    BY <1>1, <1>4, <1>7, <2>1 DEF Sync, Goto, Moves, Grows, rowVars, outsideVars
  <2>4. LifecycleTypeOK'
    <3>1. /\ UNCHANGED <<ledgerVars, rowVars, outsideVars, findings>>
          /\ pc' \in [Worker -> PC]
          /\ job' \in [Worker -> [incident : IncidentId \cup {NoIncident},
                                  status : IncidentStatus \cup {"absent"}]]
      BY <1>1, <1>4, <1>7, <2>1, <2>2, StatusSets DEF Sync, Goto, PC
    <3>2. \A w \in Watchdog : pc'[w] = pc[w]
      BY <1>5, <2>3 DEF Moves
    <3> QED
      BY <3>1, <3>2 DEF LifecycleTypeOK, LedgerTypeOK, ledgerVars, rowVars, outsideVars
  <2>5. DebuggerWork(d)'
    BY <2>2, <2>3 DEF DebuggerWork
  <2>6. RowsOK'
    BY <1>7, <2>3, RowsKept DEF Sync, ledgerVars, rowVars
  <2> QED
    BY <1>1, <1>3, <2>3, <2>4, <2>5, <2>6, WorkerStep
<1>8. CASE CreateCoderCard(d)
  <2>1. /\ pc[d] = "create" /\ pc'[d] = "queue" /\ job' = job
        /\ Moves(d) /\ Grows
    BY <1>1, <1>4, <1>8 DEF CreateCoderCard, Goto, Moves, Grows, rowVars
  <2>2. LifecycleTypeOK'
    <3>1. /\ UNCHANGED <<ledgerVars, rowVars, posted, job, findings>>
          /\ pc' \in [Worker -> PC]
          /\ coderCards' \subseteq IncidentId
      BY <1>2, <1>4, <1>8, <2>1
      DEF CreateCoderCard, Goto, PC, DebuggerWork, LifecycleTypeOK
    <3>2. \A w \in Watchdog : pc'[w] = pc[w]
      BY <1>5, <2>1 DEF Moves
    <3> QED
      BY <3>1, <3>2 DEF LifecycleTypeOK, LedgerTypeOK, ledgerVars, rowVars
  <2>3. DebuggerWork(d)'
    BY <1>2, <2>1 DEF DebuggerWork
  <2>4. RowsOK'
    BY <1>8, <2>1, RowsKept DEF CreateCoderCard, ledgerVars, rowVars
  <2> QED
    BY <1>1, <1>3, <2>1, <2>2, <2>3, <2>4, WorkerStep
<1>9. CASE QueueCodeFix(d)
  <2> DEFINE i == job[d].incident
  <2>1. i \in IncidentId /\ "code_fix_queued" \in IncidentStatus
    BY <1>2, <1>9, StatusSets DEF QueueCodeFix, DebuggerWork
  <2>2. /\ UNCHANGED <<prRef, outsideVars, findings>>
        /\ coderTask' \in [IncidentId -> BOOLEAN]
        /\ Moves(d) /\ Grows
    BY <1>1, <1>4, <1>9, <2>1 DEF QueueCodeFix, Goto, Finish, Moves, Grows, outsideVars
  <2>3. \A w \in Watchdog : pc'[w] = pc[w]
    BY <1>5, <2>2 DEF Moves
  <2>4. CASE Accepts(i, "code_fix_queued", "none")
    <3>1. /\ Write(i, "code_fix_queued", "none")
          /\ coderTask'[i]
          /\ pc' = [pc EXCEPT ![d] = "send"]
          /\ job' = job
      BY <1>4, <1>9, <2>1, <2>4 DEF QueueCodeFix, Goto
    <3>2. LedgerTypeOK' /\ channel' \in [IncidentId -> ChannelStatus \cup {"none"}]
      BY <2>1, <2>4, <3>1, WriteRow
    <3>3. LifecycleTypeOK'
      BY <1>4, <2>2, <2>3, <3>1, <3>2 DEF LifecycleTypeOK, outsideVars, PC
    <3>4. RowsOK'
      BY <2>1, <2>2, <2>4, <3>1, StatusSets, RowsWritten
    <3>5. DebuggerWork(d)'
      BY <1>1, <1>2, <1>4, <1>9, <3>1 DEF DebuggerWork, QueueCodeFix
    <3> QED
      BY <1>1, <1>3, <2>2, <3>3, <3>4, <3>5, WorkerStep
  <2>5. CASE ~Accepts(i, "code_fix_queued", "none")
    <3>1. Finish(d) /\ UNCHANGED <<ledgerVars, channel, coderTask>>
      BY <1>9, <2>5 DEF QueueCodeFix
    <3>2. LifecycleTypeOK'
      BY <1>1, <1>4, <1>6, <2>2, <2>3, <3>1
      DEF LifecycleTypeOK, LedgerTypeOK, ledgerVars, outsideVars, Finish, Goto, PC
    <3>3. RowsOK'
      BY <2>2, <3>1, RowsKept DEF ledgerVars
    <3>4. DebuggerWork(d)'
      BY <1>1, <1>4, <3>1 DEF DebuggerWork, Finish, Goto
    <3> QED
      BY <1>1, <1>3, <2>2, <3>2, <3>3, <3>4, WorkerStep
  <2> QED
    BY <2>4, <2>5
<1>10. CASE Announce(d)
  <2>1. /\ pc[d] = "send" /\ pc'[d] \in {"comment", "store"} /\ job' = job
        /\ posted' = posted \cup {<<job[d].incident, job[d].status>>}
        /\ Moves(d) /\ Grows
    BY <1>1, <1>4, <1>10 DEF Announce, Goto, Moves, Grows, rowVars
  <2>2. LifecycleTypeOK'
    <3>1. /\ UNCHANGED <<ledgerVars, rowVars, coderCards, job, findings>>
          /\ pc' \in [Worker -> PC]
      BY <1>4, <1>10 DEF Announce, Goto, PC
    <3>2. posted' \subseteq IncidentId \X (IncidentStatus \cup ChannelStatus)
      BY <1>2, <1>4, <2>1, StatusSets DEF DebuggerWork
    <3>3. \A w \in Watchdog : pc'[w] = pc[w]
      BY <1>5, <2>1 DEF Moves
    <3> QED
      BY <3>1, <3>2, <3>3 DEF LifecycleTypeOK, LedgerTypeOK, ledgerVars, rowVars
  <2>3. DebuggerWork(d)'
    BY <1>2, <2>1 DEF DebuggerWork
  <2>4. RowsOK'
    BY <1>10, <2>1, RowsKept DEF Announce, ledgerVars, rowVars
  <2> QED
    BY <1>1, <1>3, <2>1, <2>2, <2>3, <2>4, WorkerStep
<1>11. CASE CommentVerdict(d)
  <2>1. /\ pc[d] = "comment" /\ pc'[d] = "store"
        /\ UNCHANGED <<ledgerVars, rowVars, outsideVars, job, findings>>
        /\ Moves(d) /\ Grows
    BY <1>1, <1>4, <1>11 DEF CommentVerdict, Goto, Moves, Grows, rowVars, outsideVars
  <2>2. LifecycleTypeOK'
    <3>1. pc' \in [Worker -> PC]
      BY <1>4, <1>11 DEF CommentVerdict, Goto, PC
    <3>2. \A w \in Watchdog : pc'[w] = pc[w]
      BY <1>5, <2>1 DEF Moves
    <3> QED
      BY <2>1, <3>1, <3>2 DEF LifecycleTypeOK, LedgerTypeOK, ledgerVars, rowVars, outsideVars
  <2>3. DebuggerWork(d)'
    BY <1>2, <2>1 DEF DebuggerWork, outsideVars
  <2>4. RowsOK'
    BY <2>1, RowsKept DEF ledgerVars, rowVars
  <2> QED
    BY <1>1, <1>3, <2>1, <2>2, <2>3, <2>4, WorkerStep
<1>12. CASE StoreVerdict(d)
  <2> DEFINE i == job[d].incident
             s == job[d].status
  <2>1. /\ i \in IncidentId /\ s \in AnnouncedStatus \cup {"code_fix_queued"}
        /\ <<i, s>> \in posted
    BY <1>2, <1>12 DEF StoreVerdict, DebuggerWork
  <2>2. Finish(d) /\ UNCHANGED <<prRef, outsideVars, findings>>
    BY <1>12 DEF StoreVerdict
  <2>3. /\ coderTask' \in [IncidentId -> BOOLEAN]
        /\ Moves(d) /\ Grows
    BY <1>1, <1>4, <1>12, <2>1, <2>2 DEF StoreVerdict, Goto, Finish, Moves, Grows, outsideVars
  <2>4. DebuggerWork(d)'
    BY <1>1, <1>4, <2>2 DEF DebuggerWork, Finish, Goto
  <2>5. /\ \A w \in Watchdog : pc'[w] = pc[w]
        /\ pc' \in [Worker -> PC]
        /\ job' \in [Worker -> [incident : IncidentId \cup {NoIncident},
                                status : IncidentStatus \cup {"absent"}]]
    BY <1>1, <1>4, <1>5, <1>6, <2>2, <2>3 DEF Moves, Finish, Goto, PC
  <2>6. CASE Accepts(i, s, EvidenceOf(s))
    <3>1. Write(i, s, EvidenceOf(s)) /\ (s = "code_fix_queued" => coderTask'[i])
      BY <1>4, <1>12, <2>1, <2>6 DEF StoreVerdict
    <3>2. EvidenceOf(s) \in ChannelStatus /\ EvidenceOf(s) # "watchdog-stalled"
      BY DEF EvidenceOf, ChannelStatus
    <3>3. s \in IncidentStatus
      BY <2>1, StatusSets
    <3>4. LedgerTypeOK' /\ channel' \in [IncidentId -> ChannelStatus \cup {"none"}]
      BY <2>1, <2>6, <3>1, <3>2, <3>3, WriteRow
    <3>5. LifecycleTypeOK'
      BY <2>2, <2>3, <2>5, <3>4 DEF LifecycleTypeOK, outsideVars
    <3>6. RowsOK'
      BY <2>1, <2>2, <2>3, <2>6, <3>1, <3>2, <3>3, StatusSets, RowsWritten DEF outsideVars
    <3> QED
      BY <1>1, <1>3, <2>3, <2>4, <3>5, <3>6, WorkerStep
  <2>7. CASE ~Accepts(i, s, EvidenceOf(s))
    <3>1. UNCHANGED <<ledgerVars, channel, coderTask>>
      BY <1>12, <2>7 DEF StoreVerdict
    <3>2. LifecycleTypeOK'
      BY <2>2, <2>3, <2>5, <3>1
      DEF LifecycleTypeOK, LedgerTypeOK, ledgerVars, outsideVars
    <3>3. RowsOK'
      BY <2>3, <3>1, RowsKept DEF ledgerVars
    <3> QED
      BY <1>1, <1>3, <2>3, <2>4, <3>2, <3>3, WorkerStep
  <2> QED
    BY <2>6, <2>7
<1> QED
  BY <1>7, <1>8, <1>9, <1>10, <1>11, <1>12 DEF DebuggerStep

(* The steps of a coder *)
LEMMA CoderStepInv ==
  ASSUME LifecycleInv, NEW c \in Coder, CoderStep(c)
  PROVE  LifecycleInv'
<1> USE DEF LifecycleInv
<1>1. c \in Worker /\ c \notin Debugger /\ c \notin Watchdog
  BY WorkerAssumption DEF Worker
<1>2. CoderWork(c)
  BY <1>1 DEF WorkOK
<1>3. CoderWork(c)' => WorkOK(c)'
  BY <1>1 DEF WorkOK
<1>4. /\ pc \in [Worker -> PC]
      /\ job \in [Worker -> [incident : IncidentId \cup {NoIncident},
                             status : IncidentStatus \cup {"absent"}]]
      /\ prRef \in [IncidentId -> BOOLEAN]
      /\ posted \subseteq IncidentId \X (IncidentStatus \cup ChannelStatus)
  BY DEF LifecycleTypeOK
<1>5. \A w \in Watchdog : w \in Worker /\ w # c
  BY <1>1 DEF Worker
<1>6. NoJob \in [incident : IncidentId \cup {NoIncident}, status : IncidentStatus \cup {"absent"}]
  BY DEF NoJob
<1>7. CASE ReportPr(c) \/ RejectPr(c)
  <2>1. PICK i \in IncidentId, s \in CoderStatus :
          /\ coderTask[i]
          /\ job' = [job EXCEPT ![c] = [incident |-> i, status |-> s]]
    BY <1>7, StatusSets DEF ReportPr, RejectPr, ActiveCoder
  <2>2. /\ pc'[c] \in {"store", "comment"}
        /\ pc' \in [Worker -> PC]
        /\ UNCHANGED <<ledgerVars, rowVars, outsideVars, findings>>
        /\ Moves(c) /\ Grows
    BY <1>1, <1>4, <1>7, <2>1
    DEF ReportPr, RejectPr, Goto, PC, Moves, Grows, rowVars, outsideVars
  <2>3. LifecycleTypeOK'
    <3>1. job' \in [Worker -> [incident : IncidentId \cup {NoIncident},
                              status : IncidentStatus \cup {"absent"}]]
      BY <1>4, <2>1, StatusSets
    <3>2. \A w \in Watchdog : pc'[w] = pc[w]
      BY <1>5, <2>2 DEF Moves
    <3> QED
      BY <2>2, <3>1, <3>2 DEF LifecycleTypeOK, LedgerTypeOK, ledgerVars, rowVars, outsideVars
  <2>4. CoderWork(c)'
    BY <1>1, <1>4, <2>1, <2>2 DEF CoderWork, rowVars
  <2>5. RowsOK'
    BY <2>2, RowsKept DEF ledgerVars, rowVars
  <2> QED
    BY <1>1, <1>3, <2>2, <2>3, <2>4, <2>5, WorkerStep
<1>8. CASE CommentFeedback(c) \/ PostFeedback(c)
  <2>1. /\ pc[c] # "idle" /\ pc'[c] \in {"send", "feedback"}
        /\ pc' \in [Worker -> PC]
        /\ UNCHANGED <<ledgerVars, rowVars, coderCards, job, findings>>
        /\ posted' \in {posted, posted \cup {<<job[c].incident, "awaiting_review">>}}
        /\ Moves(c) /\ Grows
    BY <1>1, <1>4, <1>8
    DEF CommentFeedback, PostFeedback, Goto, PC, Moves, Grows, rowVars, outsideVars
  <2>2. LifecycleTypeOK'
    <3>1. posted' \subseteq IncidentId \X (IncidentStatus \cup ChannelStatus)
      BY <1>2, <1>4, <2>1, StatusSets DEF CoderWork
    <3>2. \A w \in Watchdog : pc'[w] = pc[w]
      BY <1>5, <2>1 DEF Moves
    <3> QED
      BY <2>1, <3>1, <3>2 DEF LifecycleTypeOK, LedgerTypeOK, ledgerVars, rowVars
  <2>3. CoderWork(c)'
    BY <1>2, <2>1 DEF CoderWork, rowVars
  <2>4. RowsOK'
    BY <2>1, RowsKept DEF ledgerVars, rowVars
  <2> QED
    BY <1>1, <1>3, <2>1, <2>2, <2>3, <2>4, WorkerStep
<1>9. CASE StorePr(c) \/ StoreFeedback(c)
  <2> DEFINE i == job[c].incident
  <2>1. PICK s \in CoderStatus, evidence \in {"none", "progress"} :
          /\ \/ Accepts(i, s, evidence) /\ Write(i, s, evidence)
             \/ UNCHANGED <<ledgerVars, channel>>
          /\ \/ \E b \in BOOLEAN : prRef' = [prRef EXCEPT ![i] = b]
             \/ UNCHANGED prRef
    <3>1. CASE StorePr(c)
      <4>1. /\ i \in IncidentId /\ job[c].status \in CoderStatus
            /\ prRef[i] \in BOOLEAN
        BY <1>2, <1>4, <3>1 DEF CoderWork, StorePr
      <4> QED
        BY <3>1, <4>1 DEF StorePr
    <3>2. CASE StoreFeedback(c)
      BY <3>2, StatusSets DEF StoreFeedback
    <3> QED
      BY <1>9, <3>1, <3>2
  <2>2. /\ i \in IncidentId /\ coderTask[i] /\ s \in IncidentStatus
        /\ Finish(c)
        /\ UNCHANGED <<coderTask, outsideVars, findings>>
    BY <1>2, <1>9, StatusSets DEF CoderWork, StorePr, StoreFeedback
  <2>3. /\ pc' \in [Worker -> PC]
        /\ job' \in [Worker -> [incident : IncidentId \cup {NoIncident},
                                status : IncidentStatus \cup {"absent"}]]
        /\ prRef' \in [IncidentId -> BOOLEAN]
        /\ Moves(c) /\ Grows
    BY <1>1, <1>4, <1>6, <2>1, <2>2 DEF Finish, Goto, PC, Moves, Grows, outsideVars
  <2>4. \A w \in Watchdog : pc'[w] = pc[w]
    BY <1>5, <2>3 DEF Moves
  <2>5. CoderWork(c)'
    BY <1>1, <1>4, <2>2 DEF CoderWork, Finish, Goto
  <2>6. CASE Accepts(i, s, evidence) /\ Write(i, s, evidence)
    <3>1. evidence \in ChannelStatus \cup {"none"}
      BY StatusSets
    <3>2. LedgerTypeOK' /\ channel' \in [IncidentId -> ChannelStatus \cup {"none"}]
      BY <2>2, <2>6, <3>1, WriteRow
    <3>3. LifecycleTypeOK'
      BY <2>2, <2>3, <2>4, <3>2 DEF LifecycleTypeOK, outsideVars
    <3>4. RowsOK'
      BY <2>2, <2>3, <2>6, <3>1, StatusSets, RowsWritten
    <3> QED
      BY <1>1, <1>3, <2>3, <2>5, <3>3, <3>4, WorkerStep
  <2>7. CASE UNCHANGED <<ledgerVars, channel>>
    <3>1. LifecycleTypeOK'
      BY <2>2, <2>3, <2>4, <2>7
      DEF LifecycleTypeOK, LedgerTypeOK, ledgerVars, outsideVars
    <3>2. RowsOK'
      BY <2>3, <2>7, RowsKept DEF ledgerVars
    <3> QED
      BY <1>1, <1>3, <2>3, <2>5, <3>1, <3>2, WorkerStep
  <2> QED
    BY <2>1, <2>6, <2>7
<1> QED
  BY <1>7, <1>8, <1>9 DEF CoderStep

(* The order in which a round reports the incidents is a list of them. *)
LEMMA OrdersAreLists ==
  ASSUME NEW F \in SUBSET IncidentId, F # {}, NEW f \in Orders(F)
  PROVE  f \in Seq(IncidentId) /\ f # <<>>
<1>1. IsFiniteSet(F)
  BY FiniteAssumption, FS_Subset
<1>2. Cardinality(F) \in Nat
  BY <1>1, FS_CardinalityType
<1>3. f \in [1..Cardinality(F) -> F] /\ \A i \in F : \E n \in DOMAIN f : f[n] = i
  BY DEF Orders
<1>4. f \in Seq(IncidentId)
  BY <1>2, <1>3
<1>5. f # <<>>
  <2>1. PICK n \in DOMAIN f : TRUE
    BY <1>3
  <2>2. DOMAIN f = 1..Len(f) /\ Len(f) \in Nat
    BY <1>4
  <2> QED
    BY <2>1, <2>2
<1> QED
  BY <1>4, <1>5

LEMMA HeadAndTail ==
  ASSUME NEW S, NEW f \in Seq(S), f # <<>>
  PROVE  Head(f) \in S /\ Tail(f) \in Seq(S)
OBVIOUS

(* The steps of a watchdog *)
LEMMA WatchdogStepInv ==
  ASSUME LifecycleInv, NEW w \in Watchdog, WatchdogStep(w)
  PROVE  LifecycleInv'
<1> USE DEF LifecycleInv
<1>1. w \in Worker /\ w \notin Debugger /\ w \notin Coder
  BY WorkerAssumption DEF Worker
<1>2. WatchdogWork(w)
  BY <1>1 DEF WorkOK
<1>3. WatchdogWork(w)' => WorkOK(w)'
  BY <1>1 DEF WorkOK
<1>4. /\ pc \in [Worker -> PC]
      /\ job \in [Worker -> [incident : IncidentId \cup {NoIncident},
                             status : IncidentStatus \cup {"absent"}]]
      /\ findings \in [Watchdog -> Seq(IncidentId)]
      /\ posted \subseteq IncidentId \X (IncidentStatus \cup ChannelStatus)
      /\ status \in [IncidentId -> IncidentStatus \cup {"absent"}]
      /\ \A v \in Watchdog : (pc[v] = "idle") <=> (findings[v] = <<>>)
  BY DEF LifecycleTypeOK, LedgerTypeOK
<1>5. \A v \in Watchdog : v \in Worker
  BY DEF Worker
<1>6. NoJob \in [incident : IncidentId \cup {NoIncident}, status : IncidentStatus \cup {"absent"}]
  BY DEF NoJob
<1> DEFINE i == Head(findings[w])
<1>7. pc[w] # "idle" => /\ findings[w] # <<>>
                        /\ i \in IncidentId
                        /\ Tail(findings[w]) \in Seq(IncidentId)
  BY <1>4, HeadAndTail
<1>8. CASE Scan(w)
  <2>1. PICK p \in Project : \E due \in (SUBSET OpenOf(p)) \ {{}} :
          \E f \in Orders(due) : findings' = [findings EXCEPT ![w] = f]
    BY <1>8 DEF Scan
  <2>2. PICK due \in (SUBSET OpenOf(p)) \ {{}} :
          \E f \in Orders(due) : findings' = [findings EXCEPT ![w] = f]
    BY <2>1
  <2>3. PICK f \in Orders(due) : findings' = [findings EXCEPT ![w] = f]
    BY <2>2
  <2>4. f \in Seq(IncidentId) /\ f # <<>>
    BY OrdersAreLists DEF OpenOf
  <2>5. /\ pc' = [pc EXCEPT ![w] = "send"]
        /\ UNCHANGED <<ledgerVars, rowVars, outsideVars, job>>
        /\ Moves(w) /\ Grows
    BY <1>1, <1>4, <1>8, <2>3 DEF Scan, Goto, Moves, Grows, rowVars, outsideVars
  <2>6. LifecycleTypeOK'
    <3>1. pc' \in [Worker -> PC] /\ findings' \in [Watchdog -> Seq(IncidentId)]
      BY <1>4, <2>3, <2>4, <2>5 DEF PC
    <3>2. \A v \in Watchdog : (pc'[v] = "idle") <=> (findings'[v] = <<>>)
      BY <1>1, <1>4, <1>5, <2>3, <2>4, <2>5
    <3> QED
      BY <2>5, <3>1, <3>2 DEF LifecycleTypeOK, LedgerTypeOK, ledgerVars, rowVars, outsideVars
  <2>7. WatchdogWork(w)'
    BY <1>1, <1>4, <2>5 DEF WatchdogWork
  <2>8. RowsOK'
    BY <2>5, RowsKept DEF ledgerVars, rowVars
  <2> QED
    BY <1>1, <1>3, <2>5, <2>6, <2>7, <2>8, WorkerStep
<1>9. CASE PostStalled(w)
  <2>1. /\ pc[w] = "send" /\ pc' = [pc EXCEPT ![w] = "reread"]
        /\ posted' = posted \cup {<<i, "watchdog-stalled">>}
        /\ UNCHANGED <<ledgerVars, rowVars, coderCards, job, findings>>
        /\ Moves(w) /\ Grows
    BY <1>1, <1>4, <1>9 DEF PostStalled, Goto, Moves, Grows, rowVars
  <2>2. LifecycleTypeOK'
    <3>1. posted' \subseteq IncidentId \X (IncidentStatus \cup ChannelStatus)
      BY <1>4, <1>7, <2>1, StatusSets
    <3>2. pc' \in [Worker -> PC]
      BY <1>4, <2>1 DEF PC
    <3>3. \A v \in Watchdog : (pc'[v] = "idle") <=> (findings'[v] = <<>>)
      BY <1>1, <1>4, <1>5, <2>1
    <3> QED
      BY <2>1, <3>1, <3>2, <3>3 DEF LifecycleTypeOK, LedgerTypeOK, ledgerVars, rowVars
  <2>3. WatchdogWork(w)'
    BY <1>1, <1>4, <2>1 DEF WatchdogWork
  <2>4. RowsOK'
    BY <2>1, RowsKept DEF ledgerVars, rowVars
  <2> QED
    BY <1>1, <1>3, <2>1, <2>2, <2>3, <2>4, WorkerStep
<1>10. CASE Reread(w)
  <2>1. /\ pc[w] = "reread" /\ pc' = [pc EXCEPT ![w] = "store"]
        /\ job' = [job EXCEPT ![w] = [incident |-> i, status |-> status[i]]]
        /\ UNCHANGED <<ledgerVars, rowVars, outsideVars, findings>>
        /\ Moves(w) /\ Grows
    BY <1>1, <1>4, <1>10 DEF Reread, Goto, Moves, Grows, rowVars, outsideVars
  <2>2. i \in IncidentId
    BY <1>7, <2>1
  <2>3. LifecycleTypeOK'
    <3>1. pc' \in [Worker -> PC]
      BY <1>4, <2>1 DEF PC
    <3>2. job' \in [Worker -> [incident : IncidentId \cup {NoIncident},
                              status : IncidentStatus \cup {"absent"}]]
      BY <1>4, <2>1, <2>2
    <3>3. \A v \in Watchdog : (pc'[v] = "idle") <=> (findings'[v] = <<>>)
      BY <1>1, <1>4, <1>5, <2>1
    <3> QED
      BY <2>1, <3>1, <3>2, <3>3 DEF LifecycleTypeOK, LedgerTypeOK, ledgerVars, rowVars, outsideVars
  <2>4. job'[w] = [incident |-> i, status |-> status[i]]
    BY <1>1, <1>4, <2>1
  <2>5. /\ status[i] \in CoderStatus => coderTask[i]
        /\ status[i] \in AnnouncedStatus => <<i, status[i]>> \in posted
    BY <2>2 DEF RowsOK, CoderStatusHasTask, NoSilence
  <2>6. WatchdogWork(w)'
    BY <1>1, <1>2, <1>4, <2>1, <2>4, <2>5 DEF WatchdogWork, rowVars, outsideVars
  <2>7. RowsOK'
    BY <2>1, RowsKept DEF ledgerVars, rowVars
  <2> QED
    BY <1>1, <1>3, <2>1, <2>3, <2>6, <2>7, WorkerStep
<1>11. CASE StoreStalled(w)
  <2> DEFINE s == job[w].status
             rest == Tail(findings[w])
  <2>1. /\ i \in IncidentId /\ rest \in Seq(IncidentId)
        /\ job[w].incident = i
        /\ s \in CoderStatus => coderTask[i]
        /\ s \in AnnouncedStatus => <<i, s>> \in posted
        /\ <<i, "watchdog-stalled">> \in posted
    BY <1>2, <1>7, <1>11 DEF StoreStalled, WatchdogWork
  <2>2. /\ UNCHANGED <<coderTask, prRef, outsideVars>>
        /\ job' = [job EXCEPT ![w] = NoJob]
        /\ \/ /\ Accepts(i, s, "watchdog-stalled")
              /\ Write(i, s, "watchdog-stalled")
              /\ findings' = [findings EXCEPT ![w] = rest]
              /\ pc' = [pc EXCEPT ![w] = IF rest = <<>> THEN "idle" ELSE "send"]
           \/ /\ findings' = [findings EXCEPT ![w] = <<>>]
              /\ pc' = [pc EXCEPT ![w] = "idle"]
              /\ UNCHANGED <<ledgerVars, channel>>
    BY <1>11, <2>1 DEF StoreStalled, Goto, Finish
  <2>3. Moves(w) /\ Grows
    BY <1>1, <1>4, <2>2 DEF Moves, Grows, outsideVars
  <2>4. /\ pc' \in [Worker -> PC]
        /\ job' \in [Worker -> [incident : IncidentId \cup {NoIncident},
                                status : IncidentStatus \cup {"absent"}]]
    BY <1>4, <1>6, <2>2 DEF PC
  <2>5. findings' \in [Watchdog -> Seq(IncidentId)]
    <3>1. <<>> \in Seq(IncidentId)
      OBVIOUS
    <3> QED
      BY <1>4, <2>1, <2>2, <3>1
  <2>6. \A v \in Watchdog : (pc'[v] = "idle") <=> (findings'[v] = <<>>)
    BY <1>1, <1>4, <1>5, <2>2
  <2>7. WatchdogWork(w)'
    BY <1>1, <1>4, <2>2 DEF WatchdogWork
  <2>8. CASE Accepts(i, s, "watchdog-stalled") /\ Write(i, s, "watchdog-stalled")
    <3>1. s # "absent" => s \in IncidentStatus
      BY <1>1, <1>4
    <3>2. CASE s = "absent"
      <4>1. LedgerTypeOK' /\ channel' \in [IncidentId -> ChannelStatus \cup {"none"}]
        BY <2>1, <2>8, <3>2, StatusSets DEF LifecycleTypeOK, LedgerTypeOK, Write
      <4>2. RowsOK'
        <5>1. /\ \A j \in IncidentId : status'[j] = IF j = i THEN "absent" ELSE status[j]
              /\ \A j \in IncidentId :
                   channel'[j] = IF j = i THEN "watchdog-stalled" ELSE channel[j]
          BY <2>1, <2>8, <3>2 DEF LifecycleTypeOK, LedgerTypeOK, Write
        <5>2. "absent" \notin CoderStatus \cup AnnouncedStatus \cup ClosedStatus
          BY DEF CoderStatus, AnnouncedStatus, ClosedStatus
        <5> QED
          BY <2>1, <2>3, <5>1, <5>2
          DEF RowsOK, CoderStatusHasTask, NoSilence, ClosedHasFinal, Grows
      <4>3. LifecycleTypeOK'
        BY <2>2, <2>4, <2>5, <2>6, <4>1 DEF LifecycleTypeOK, outsideVars
      <4> QED
        BY <1>1, <1>3, <2>3, <2>7, <4>2, <4>3, WorkerStep
    <3>3. CASE s \in IncidentStatus
      <4>1. "watchdog-stalled" \in ChannelStatus \cup {"none"}
        BY StatusSets
      <4>2. LedgerTypeOK' /\ channel' \in [IncidentId -> ChannelStatus \cup {"none"}]
        BY <2>1, <2>8, <3>3, <4>1, WriteRow
      <4>3. LifecycleTypeOK'
        BY <2>2, <2>4, <2>5, <2>6, <4>2 DEF LifecycleTypeOK, outsideVars
      <4>4. RowsOK'
        BY <2>1, <2>2, <2>3, <2>8, <3>3, <4>1, RowsWritten DEF outsideVars
      <4> QED
        BY <1>1, <1>3, <2>3, <2>7, <4>3, <4>4, WorkerStep
    <3> QED
      BY <3>1, <3>2, <3>3
  <2>9. CASE UNCHANGED <<ledgerVars, channel>>
    <3>1. LifecycleTypeOK'
      BY <2>2, <2>4, <2>5, <2>6, <2>9
      DEF LifecycleTypeOK, LedgerTypeOK, ledgerVars, outsideVars
    <3>2. RowsOK'
      BY <2>3, <2>9, RowsKept DEF ledgerVars
    <3> QED
      BY <1>1, <1>3, <2>3, <2>7, <3>1, <3>2, WorkerStep
  <2> QED
    BY <2>2, <2>8, <2>9
<1> QED
  BY <1>8, <1>9, <1>10, <1>11 DEF WatchdogStep

(* A worker that stops, with its work half done, leaves the rows alone. *)
LEMMA AbortStep ==
  ASSUME LifecycleInv, NEW w \in Worker, Abort(w)
  PROVE  LifecycleInv'
<1> USE DEF LifecycleInv
<1>1. /\ pc \in [Worker -> PC]
      /\ job \in [Worker -> [incident : IncidentId \cup {NoIncident},
                             status : IncidentStatus \cup {"absent"}]]
      /\ findings \in [Watchdog -> Seq(IncidentId)]
      /\ \A v \in Watchdog : (pc[v] = "idle") <=> (findings[v] = <<>>)
  BY DEF LifecycleTypeOK
<1>2. NoJob \in [incident : IncidentId \cup {NoIncident}, status : IncidentStatus \cup {"absent"}]
  BY DEF NoJob
<1>3. /\ pc' = [pc EXCEPT ![w] = "idle"]
      /\ job' = [job EXCEPT ![w] = NoJob]
      /\ findings' = [v \in Watchdog |-> IF v = w THEN <<>> ELSE findings[v]]
      /\ UNCHANGED <<ledgerVars, rowVars, outsideVars>>
  BY DEF Abort, Finish, Goto
<1>4. Moves(w) /\ Grows
  BY <1>1, <1>3 DEF Moves, Grows, rowVars, outsideVars
<1>5. LifecycleTypeOK'
  <2>1. <<>> \in Seq(IncidentId)
    OBVIOUS
  <2>2. findings' \in [Watchdog -> Seq(IncidentId)]
    BY <1>1, <1>3, <2>1
  <2>3. /\ pc' \in [Worker -> PC]
        /\ job' \in [Worker -> [incident : IncidentId \cup {NoIncident},
                                status : IncidentStatus \cup {"absent"}]]
    BY <1>1, <1>2, <1>3 DEF PC
  <2>4. \A v \in Watchdog : (pc'[v] = "idle") <=> (findings'[v] = <<>>)
    BY <1>1, <1>3 DEF Worker
  <2> QED
    BY <1>3, <2>2, <2>3, <2>4
    DEF LifecycleTypeOK, LedgerTypeOK, ledgerVars, rowVars, outsideVars
<1>6. WorkOK(w)'
  BY <1>1, <1>3 DEF WorkOK, DebuggerWork, CoderWork, WatchdogWork
<1>7. RowsOK'
  BY <1>3, <1>4, RowsKept DEF ledgerVars, rowVars
<1> QED
  BY <1>4, <1>5, <1>6, <1>7, WorkerStep

LEMMA LifecycleStutter == LifecycleInv /\ UNCHANGED vars => LifecycleInv'
<1> SUFFICES ASSUME LifecycleInv, UNCHANGED vars PROVE LifecycleInv'
  OBVIOUS
<1> USE DEF vars, rowVars, outsideVars, workVars
<1>1. Grows
  BY DEF Grows
<1>2. LifecycleTypeOK'
  BY DEF LifecycleInv, LifecycleTypeOK, LedgerTypeOK, ledgerVars
<1>3. \A x \in Worker : WorkOK(x)'
  BY <1>1, WorkKept
<1>4. RowsOK'
  BY <1>1, RowsKept DEF LifecycleInv, ledgerVars
<1> QED
  BY <1>2, <1>3, <1>4 DEF LifecycleInv

(* Whatever the listener, the debuggers, the coders and the watchdogs do, in   *)
(* whatever order, and wherever they stop.                                     *)
THEOREM LifecycleInvariant == Spec => []LifecycleInv
<1>1. LifecycleInv /\ [Next]_vars => LifecycleInv'
  <2> SUFFICES ASSUME LifecycleInv, [Next]_vars PROVE LifecycleInv'
    OBVIOUS
  <2>1. CASE Alert
    BY <2>1, AlertStep
  <2>2. CASE \E d \in Debugger : DebuggerStep(d)
    BY <2>2, DebuggerStepInv
  <2>3. CASE \E c \in Coder : CoderStep(c)
    BY <2>3, CoderStepInv
  <2>4. CASE \E w \in Watchdog : WatchdogStep(w)
    BY <2>4, WatchdogStepInv
  <2>5. CASE \E w \in Worker : Abort(w)
    BY <2>5, AbortStep
  <2>6. CASE UNCHANGED vars
    BY <2>6, LifecycleStutter
  <2> QED
    BY <2>1, <2>2, <2>3, <2>4, <2>5, <2>6 DEF Next
<1> QED
  BY <1>1, InitLifecycle, PTL DEF Spec

(* Every row, post and operation in progress is of its kind, also after a     *)
(* worker stopped in the middle.                                              *)
THEOREM LifecycleTypes == Spec => []LifecycleTypeOK
<1>1. LifecycleInv => LifecycleTypeOK
  BY DEF LifecycleInv
<1> QED
  BY <1>1, LifecycleInvariant, PTL

(* However out of date what a worker writes is, no incident gets into the PR   *)
(* lifecycle (lifecycle.py) without a coder task.                              *)
THEOREM CoderAlwaysHasTask == Spec => []CoderStatusHasTask
<1>1. LifecycleInv => CoderStatusHasTask
  BY DEF LifecycleInv, RowsOK
<1> QED
  BY <1>1, LifecycleInvariant, PTL

(* No incident is blocked, closed by a debugger or marked stalled in silence. *)
THEOREM NeverSilent == Spec => []NoSilence
<1>1. LifecycleInv => NoSilence
  BY DEF LifecycleInv, RowsOK
<1> QED
  BY <1>1, LifecycleInvariant, PTL

(* No late update takes the final evidence away from a closed incident. *)
THEOREM ClosedStaysFinal == Spec => []ClosedHasFinal
<1>1. LifecycleInv => ClosedHasFinal
  BY DEF LifecycleInv, RowsOK
<1> QED
  BY <1>1, LifecycleInvariant, PTL

-----------------------------------------------------------------------------
(* What the channel was told of a queued code fix. With one debugger: two of *)
(* them can queue the same incident, and the second one's row was not what   *)
(* it read (lifecycle_rows shows it with two).                               *)
OneDebugger == \A d, e \in Debugger : d = e

Heard(i) == <<i, "code_fix_queued">> \in posted \/ <<i, "watchdog-stalled">> \in posted

(* The row has been through a debugger's or a coder's hands. *)
Handled(i) == coderTask[i] \/ channel[i] = "progress"

(* Who has been through them does not come back to a status from which a     *)
(* debugger starts, unless by a watchdog's late update, and the channel has  *)
(* then heard of it.                                                         *)
RowHandedOff(i) ==
  /\ status[i] # "absent" => Recorded(i[2])
  /\ Handled(i) => Heard(i) \/ (Recorded(i[2]) /\ status[i] \notin DebuggedStatus)
  /\ (status[i] = "code_fix_queued" /\ channel[i] = "progress") => Heard(i)

WorkHandedOff(x) ==
  /\ (x \in Debugger /\ pc[x] \in {"create", "queue"} /\ Handled(job[x].incident))
       => Heard(job[x].incident)
  /\ (x \in Coder /\ pc[x] # "idle") => job[x].status # "code_fix_queued"

HandOffInv ==
  /\ \A i \in IncidentId : RowHandedOff(i)
  /\ \A x \in Worker : WorkHandedOff(x)

(* Every worker goes on with the incident it had, or is not about to queue it. *)
WorkOn(x) ==
  /\ x \in Debugger /\ pc'[x] \in {"create", "queue"} =>
       pc[x] \in {"create", "queue"} /\ job'[x] = job[x]
  /\ x \in Coder /\ pc'[x] # "idle" => pc[x] # "idle" /\ job'[x] = job[x]

LEMMA InitHandOff == Init => HandOffInv
<1> SUFFICES ASSUME Init PROVE HandOffInv
  OBVIOUS
<1>1. \A i \in IncidentId : status[i] = "absent" /\ channel[i] = "none" /\ ~coderTask[i]
  BY DEF Init, LedgerInit
<1>2. \A x \in Worker : pc[x] = "idle"
  BY DEF Init
<1>3. \A i \in IncidentId : RowHandedOff(i)
  BY <1>1 DEF RowHandedOff, Handled
<1>4. \A x \in Worker : WorkHandedOff(x)
  BY <1>2 DEF WorkHandedOff
<1> QED
  BY <1>3, <1>4 DEF HandOffInv

(* A step that writes no row. *)
LEMMA NoRowWritten ==
  ASSUME LifecycleInv, HandOffInv, Grows, UNCHANGED <<status, channel, coderTask, eventProject>>,
         \A x \in Worker : WorkOn(x)
  PROVE  HandOffInv'
<1>1. ASSUME NEW i \in IncidentId PROVE RowHandedOff(i)'
  <2>1. RowHandedOff(i)
    BY DEF HandOffInv
  <2> QED
    BY <2>1 DEF RowHandedOff, Handled, Heard, Recorded, Grows
<1>2. ASSUME NEW x \in Worker PROVE WorkHandedOff(x)'
  <2>1. WorkHandedOff(x) /\ WorkOn(x)
    BY DEF HandOffInv
  <2> QED
    BY <2>1 DEF WorkHandedOff, WorkOn, Handled, Heard, Grows
<1> QED
  BY <1>1, <1>2 DEF HandOffInv

(* One row is written: in the hands of others the incident was handled before, *)
(* or the channel has heard of it.                                            *)
LEMMA OneRowWritten ==
  ASSUME LifecycleInv, HandOffInv, Grows, UNCHANGED eventProject,
         NEW i \in IncidentId, NEW s, status[i] # "absent",
         status'[i] = s,
         \A j \in IncidentId \ {i} :
           status'[j] = status[j] /\ channel'[j] = channel[j] /\ coderTask'[j] = coderTask[j],
         Handled(i)' => Heard(i)' \/ s \notin DebuggedStatus,
         (s = "code_fix_queued" /\ channel'[i] = "progress") => Heard(i)',
         \A x \in Worker : WorkOn(x),
         \A d \in Debugger :
           (pc'[d] \in {"create", "queue"} /\ job[d].incident = i) => Handled(i) \/ Heard(i)'
  PROVE  HandOffInv'
<1>1. ASSUME NEW j \in IncidentId PROVE RowHandedOff(j)'
  <2>1. RowHandedOff(j)
    BY DEF HandOffInv
  <2>2. CASE j = i
    BY <2>1, <2>2 DEF RowHandedOff, Recorded
  <2>3. CASE j # i
    BY <2>1, <2>3 DEF RowHandedOff, Handled, Heard, Recorded, Grows
  <2> QED
    BY <2>2, <2>3
<1>2. ASSUME NEW x \in Worker PROVE WorkHandedOff(x)'
  <2>1. WorkHandedOff(x) /\ WorkOn(x) /\ WorkOK(x)
    BY DEF HandOffInv, LifecycleInv
  <2>2. ASSUME x \in Debugger, pc'[x] \in {"create", "queue"}, Handled(job[x].incident)'
        PROVE  Heard(job[x].incident)'
    <3>1. pc[x] \in {"create", "queue"} /\ job'[x] = job[x] /\ job[x].incident \in IncidentId
      BY <2>1, <2>2 DEF WorkOn, WorkOK, DebuggerWork
    <3>2. CASE job[x].incident = i
      BY <2>1, <2>2, <3>1, <3>2 DEF WorkHandedOff, Heard, Grows
    <3>3. CASE job[x].incident # i
      BY <2>1, <2>2, <3>1, <3>3 DEF WorkHandedOff, Handled, Heard, Grows
    <3> QED
      BY <3>2, <3>3
  <2>3. (x \in Coder /\ pc'[x] # "idle") => job'[x].status # "code_fix_queued"
    BY <2>1 DEF WorkHandedOff, WorkOn
  <2> QED
    BY <2>2, <2>3 DEF WorkHandedOff
<1> QED
  BY <1>1, <1>2 DEF HandOffInv
(* What WorkOn and the row of another incident need of a worker's step. *)
LEMMA OthersWorkOn ==
  ASSUME NEW x \in Worker, Moves(x), WorkOn(x)
  PROVE  \A y \in Worker : WorkOn(y)
BY DEF Moves, WorkOn

LEMMA AcceptedWrite ==
  ASSUME LifecycleTypeOK, NEW i \in IncidentId, NEW s, NEW c, Accepts(i, s, c), Write(i, s, c)
  PROVE  /\ status[i] # "absent" /\ status'[i] = s
         /\ channel'[i] = IF c = "none" THEN channel[i] ELSE c
         /\ \A j \in IncidentId \ {i} : status'[j] = status[j] /\ channel'[j] = channel[j]
         /\ UNCHANGED eventProject
BY DEF LifecycleTypeOK, LedgerTypeOK, Accepts, Write

LEMMA DebuggerHandsOff ==
  ASSUME OneDebugger, LifecycleInv, HandOffInv, NEW d \in Debugger, DebuggerStep(d)
  PROVE  HandOffInv'
<1>1. d \in Worker /\ d \notin Coder /\ d \notin Watchdog
  BY WorkerAssumption DEF Worker
<1>2. DebuggerWork(d) /\ WorkHandedOff(d)
  BY <1>1 DEF LifecycleInv, WorkOK, HandOffInv
<1>3. /\ pc \in [Worker -> PC] /\ DOMAIN job = Worker
      /\ channel \in [IncidentId -> ChannelStatus \cup {"none"}]
      /\ coderTask \in [IncidentId -> BOOLEAN]
  BY DEF LifecycleInv, LifecycleTypeOK
<1>4. CASE Sync(d)
  <2>1. PICK i \in IncidentId, r \in Payload :
          LET class == r.classification
              queued == status[i] = "code_fix_queued" IN
          /\ Syncable(i, class)
          /\ job' = [job EXCEPT ![d] = [incident |-> i, status |-> Verdict(class)]]
          /\ Goto(d, IF class = "code-fix-likely" /\ ~queued THEN "create" ELSE "send")
    BY <1>4 DEF Sync
  <2>2. /\ UNCHANGED <<status, channel, coderTask, eventProject, posted>>
        /\ job'[d].incident = i
        /\ Moves(d) /\ Grows
    BY <1>1, <1>3, <1>4, <2>1 DEF Sync, Goto, Moves, Grows, ledgerVars, rowVars, outsideVars
  <2>3. pc'[d] \in {"create", "queue"} => status[i] \in DebuggedStatus
    BY <1>1, <1>3, <2>1 DEF Goto, Syncable
  <2>4. RowHandedOff(i)
    BY DEF HandOffInv
  <2>5. WorkHandedOff(d)'
    BY <1>1, <2>2, <2>3, <2>4 DEF WorkHandedOff, RowHandedOff, Handled, Heard
  <2>6. ASSUME NEW j \in IncidentId PROVE RowHandedOff(j)'
    <3>1. RowHandedOff(j)
      BY DEF HandOffInv
    <3> QED
      BY <2>2, <3>1 DEF RowHandedOff, Handled, Heard, Recorded
  <2>7. ASSUME NEW y \in Worker, y # d PROVE WorkHandedOff(y)'
    <3>1. WorkHandedOff(y) /\ pc'[y] = pc[y] /\ job'[y] = job[y]
      BY <2>2, <2>7 DEF HandOffInv, Moves
    <3> QED
      BY <2>2, <3>1 DEF WorkHandedOff, Handled, Heard
  <2> QED
    BY <2>5, <2>6, <2>7 DEF HandOffInv
<1>5. CASE CreateCoderCard(d) \/ Announce(d) \/ CommentVerdict(d)
  <2>1. /\ UNCHANGED <<status, channel, coderTask, eventProject>>
        /\ Moves(d) /\ Grows /\ WorkOn(d)
    BY <1>1, <1>3, <1>5 DEF CreateCoderCard, Announce, CommentVerdict, Goto, Moves, Grows,
       WorkOn, ledgerVars, rowVars, outsideVars
  <2> QED
    BY <1>1, <2>1, OthersWorkOn, NoRowWritten
<1>6. CASE QueueCodeFix(d)
  <2>1. PICK i \in IncidentId : i = job[d].incident /\ (Handled(i) => Heard(i))
    BY <1>2, <1>6 DEF QueueCodeFix, DebuggerWork, WorkHandedOff
  <2>2. /\ pc'[d] \in {"send", "idle"} /\ UNCHANGED outsideVars
        /\ Moves(d) /\ Grows /\ WorkOn(d)
    BY <1>1, <1>3, <1>6, <2>1
    DEF QueueCodeFix, Goto, Finish, Moves, Grows, WorkOn, outsideVars
  <2>3. CASE Accepts(i, "code_fix_queued", "none")
    <3>1. /\ Write(i, "code_fix_queued", "none")
          /\ coderTask' = [coderTask EXCEPT ![i] = TRUE]
      BY <1>6, <2>1, <2>3 DEF QueueCodeFix
    <3>2. /\ status[i] # "absent" /\ status'[i] = "code_fix_queued" /\ channel'[i] = channel[i]
          /\ \A j \in IncidentId \ {i} :
               status'[j] = status[j] /\ channel'[j] = channel[j] /\ coderTask'[j] = coderTask[j]
          /\ UNCHANGED eventProject
      <4>1. \A j \in IncidentId \ {i} : coderTask'[j] = coderTask[j]
        BY <1>3, <3>1
      <4>2. LifecycleTypeOK
        BY DEF LifecycleInv
      <4> QED
        BY <2>3, <3>1, <4>1, <4>2, AcceptedWrite
    <3>3. channel'[i] = "progress" => Heard(i)'
      BY <2>1, <2>2, <3>2 DEF Handled, Heard, outsideVars
    <3>4. \A e \in Debugger : pc'[e] \notin {"create", "queue"}
      BY <2>2 DEF OneDebugger
    <3>5. "code_fix_queued" \notin DebuggedStatus
      BY DEF DebuggedStatus
    <3>6. \A y \in Worker : WorkOn(y)
      BY <1>1, <2>2, OthersWorkOn
    <3> QED
      BY <2>1, <2>2, <3>2, <3>3, <3>4, <3>5, <3>6, OneRowWritten
  <2>4. CASE ~Accepts(i, "code_fix_queued", "none")
    <3>1. UNCHANGED <<status, channel, coderTask, eventProject>>
      BY <1>6, <2>1, <2>4 DEF QueueCodeFix, ledgerVars
    <3> QED
      BY <1>1, <2>2, <3>1, OthersWorkOn, NoRowWritten
  <2> QED
    BY <2>3, <2>4
<1>7. CASE StoreVerdict(d)
  <2>1. PICK i \in IncidentId, s \in AnnouncedStatus \cup {"code_fix_queued"} :
          i = job[d].incident /\ s = job[d].status /\ <<i, s>> \in posted
    BY <1>2, <1>7 DEF StoreVerdict, DebuggerWork
  <2>2. /\ pc'[d] = "idle" /\ UNCHANGED outsideVars
        /\ Moves(d) /\ Grows /\ WorkOn(d)
    BY <1>1, <1>3, <1>7, <2>1
    DEF StoreVerdict, Goto, Finish, Moves, Grows, WorkOn, outsideVars
  <2>3. CASE Accepts(i, s, EvidenceOf(s))
    <3>1. /\ Write(i, s, EvidenceOf(s))
          /\ coderTask' = [coderTask EXCEPT ![i] = @ \/ s = "code_fix_queued"]
      BY <1>7, <2>1, <2>3 DEF StoreVerdict
    <3>2. /\ status[i] # "absent" /\ status'[i] = s
          /\ \A j \in IncidentId \ {i} :
               status'[j] = status[j] /\ channel'[j] = channel[j] /\ coderTask'[j] = coderTask[j]
          /\ UNCHANGED eventProject
      BY <1>3, <2>1, <2>3, <3>1, AcceptedWrite DEF LifecycleInv
    <3>3. s = "code_fix_queued" => Heard(i)'
      BY <2>1, <2>2 DEF Heard, outsideVars
    <3>4. \A e \in Debugger : pc'[e] \notin {"create", "queue"}
      BY <2>2 DEF OneDebugger
    <3>5. s \notin DebuggedStatus
      BY <2>1 DEF DebuggedStatus, AnnouncedStatus
    <3>6. \A y \in Worker : WorkOn(y)
      BY <1>1, <2>2, OthersWorkOn
    <3> QED
      BY <2>1, <2>2, <3>2, <3>3, <3>4, <3>5, <3>6, OneRowWritten
  <2>4. CASE ~Accepts(i, s, EvidenceOf(s))
    <3>1. UNCHANGED <<status, channel, coderTask, eventProject>>
      BY <1>7, <2>1, <2>4 DEF StoreVerdict, ledgerVars
    <3> QED
      BY <1>1, <2>2, <3>1, OthersWorkOn, NoRowWritten
  <2> QED
    BY <2>3, <2>4
<1> QED
  BY <1>4, <1>5, <1>6, <1>7 DEF DebuggerStep

LEMMA CoderHandsOff ==
  ASSUME LifecycleInv, HandOffInv, NEW c \in Coder, CoderStep(c)
  PROVE  HandOffInv'
<1>1. c \in Worker /\ c \notin Debugger /\ c \notin Watchdog
  BY WorkerAssumption DEF Worker
<1>2. CoderWork(c) /\ WorkHandedOff(c)
  BY <1>1 DEF LifecycleInv, WorkOK, HandOffInv
<1>3. /\ pc \in [Worker -> PC] /\ DOMAIN job = Worker
      /\ channel \in [IncidentId -> ChannelStatus \cup {"none"}]
  BY DEF LifecycleInv, LifecycleTypeOK
<1>4. CASE ReportPr(c) \/ RejectPr(c)
  <2>1. /\ UNCHANGED <<status, channel, coderTask, eventProject, posted>>
        /\ Moves(c) /\ Grows
        /\ job'[c].status # "code_fix_queued"
    BY <1>1, <1>3, <1>4 DEF ReportPr, RejectPr, Goto, Moves, Grows,
       ledgerVars, rowVars, outsideVars
  <2>2. ASSUME NEW j \in IncidentId PROVE RowHandedOff(j)'
    <3>1. RowHandedOff(j)
      BY DEF HandOffInv
    <3> QED
      BY <2>1, <3>1 DEF RowHandedOff, Handled, Heard, Recorded
  <2>3. ASSUME NEW y \in Worker PROVE WorkHandedOff(y)'
    <3>1. CASE y = c
      BY <1>1, <2>1, <3>1 DEF WorkHandedOff
    <3>2. CASE y # c
      <4>1. WorkHandedOff(y) /\ pc'[y] = pc[y] /\ job'[y] = job[y]
        BY <2>1, <3>2 DEF HandOffInv, Moves
      <4> QED
        BY <2>1, <4>1 DEF WorkHandedOff, Handled, Heard
    <3> QED
      BY <3>1, <3>2
  <2> QED
    BY <2>2, <2>3 DEF HandOffInv
<1>5. CASE CommentFeedback(c) \/ PostFeedback(c)
  <2>1. /\ UNCHANGED <<status, channel, coderTask, eventProject>>
        /\ Moves(c) /\ Grows /\ WorkOn(c)
    BY <1>1, <1>3, <1>5 DEF CommentFeedback, PostFeedback, Goto, Moves, Grows, WorkOn,
       ledgerVars, rowVars, outsideVars
  <2> QED
    BY <1>1, <2>1, OthersWorkOn, NoRowWritten
<1>6. CASE StorePr(c) \/ StoreFeedback(c)
  <2>1. PICK i \in IncidentId : i = job[c].incident /\ coderTask[i]
    BY <1>2, <1>6 DEF CoderWork, StorePr, StoreFeedback
  <2>2. PICK s \in CoderStatus \ {"code_fix_queued"}, evidence \in {"none", "progress"} :
          \/ Accepts(i, s, evidence) /\ Write(i, s, evidence)
          \/ UNCHANGED <<ledgerVars, channel>>
    <3>1. CASE StorePr(c)
      <4>1. job[c].status \in CoderStatus \ {"code_fix_queued"}
        BY <1>1, <1>2, <3>1 DEF CoderWork, WorkHandedOff, StorePr
      <4> QED
        BY <2>1, <3>1, <4>1 DEF StorePr
    <3>2. CASE StoreFeedback(c)
      BY <2>1, <3>2 DEF StoreFeedback, CoderStatus
    <3> QED
      BY <1>6, <3>1, <3>2
  <2>3. /\ UNCHANGED <<coderTask, posted>>
        /\ Moves(c) /\ Grows /\ WorkOn(c)
    BY <1>1, <1>3, <1>6
    DEF StorePr, StoreFeedback, Goto, Finish, Moves, Grows, WorkOn, outsideVars
  <2>4. \A y \in Worker : WorkOn(y)
    BY <1>1, <2>3, OthersWorkOn
  <2>5. CASE Accepts(i, s, evidence) /\ Write(i, s, evidence)
    <3>1. /\ status[i] # "absent" /\ status'[i] = s
          /\ \A j \in IncidentId \ {i} : status'[j] = status[j] /\ channel'[j] = channel[j]
          /\ UNCHANGED eventProject
      BY <2>1, <2>5, AcceptedWrite DEF LifecycleInv
    <3>2. s \notin DebuggedStatus
      BY DEF DebuggedStatus, CoderStatus
    <3>3. Handled(i)
      BY <2>1 DEF Handled
    <3> QED
      BY <2>2, <2>1, <2>3, <2>4, <3>1, <3>2, <3>3, OneRowWritten
  <2>6. CASE UNCHANGED <<ledgerVars, channel>>
    BY <2>3, <2>4, <2>6, NoRowWritten DEF ledgerVars
  <2> QED
    BY <2>2, <2>5, <2>6
<1> QED
  BY <1>4, <1>5, <1>6 DEF CoderStep

LEMMA WatchdogHandsOff ==
  ASSUME LifecycleInv, HandOffInv, NEW w \in Watchdog, WatchdogStep(w)
  PROVE  HandOffInv'
<1>1. w \in Worker /\ w \notin Debugger /\ w \notin Coder
  BY WorkerAssumption DEF Worker
<1>2. WatchdogWork(w)
  BY <1>1 DEF LifecycleInv, WorkOK
<1>3. /\ pc \in [Worker -> PC] /\ DOMAIN job = Worker /\ DOMAIN findings = Watchdog
      /\ findings[w] \in Seq(IncidentId)
      /\ pc[w] # "idle" => findings[w] # <<>>
  BY DEF LifecycleInv, LifecycleTypeOK
<1>4. Moves(w) /\ Grows /\ WorkOn(w)
  BY <1>1, <1>3 DEF WatchdogStep, Scan, PostStalled, Reread, StoreStalled, Goto, Finish,
     Moves, Grows, WorkOn, rowVars, outsideVars
<1>5. \A y \in Worker : WorkOn(y)
  BY <1>1, <1>4, OthersWorkOn
<1>6. CASE Scan(w) \/ PostStalled(w) \/ Reread(w)
  <2>1. UNCHANGED <<status, channel, coderTask, eventProject>>
    BY <1>6 DEF Scan, PostStalled, Reread, ledgerVars, rowVars
  <2> QED
    BY <1>4, <1>5, <2>1, NoRowWritten
<1>7. CASE StoreStalled(w)
  <2>1. pc[w] = "store" /\ Head(findings[w]) \in IncidentId
    BY <1>3, <1>7, HeadAndTail DEF StoreStalled
  <2>2. PICK i \in IncidentId : i = job[w].incident /\ <<i, "watchdog-stalled">> \in posted
    BY <1>2, <2>1 DEF WatchdogWork
  <2> DEFINE s == job[w].status
  <2>3. /\ UNCHANGED <<coderTask, posted>>
        /\ \/ Accepts(i, s, "watchdog-stalled") /\ Write(i, s, "watchdog-stalled")
           \/ UNCHANGED <<ledgerVars, channel>>
    BY <1>7, <2>2 DEF StoreStalled, outsideVars
  <2>4. CASE Accepts(i, s, "watchdog-stalled") /\ Write(i, s, "watchdog-stalled")
    <3>1. /\ status[i] # "absent" /\ status'[i] = s
          /\ \A j \in IncidentId \ {i} : status'[j] = status[j] /\ channel'[j] = channel[j]
          /\ UNCHANGED eventProject
      BY <2>2, <2>4, AcceptedWrite DEF LifecycleInv
    <3>2. Heard(i)'
      BY <2>2, <2>3 DEF Heard
    <3> HIDE DEF s
    <3> QED
      BY <1>4, <1>5, <2>2, <2>3, <3>1, <3>2, OneRowWritten
  <2>5. CASE UNCHANGED <<ledgerVars, channel>>
    BY <1>4, <1>5, <2>3, <2>5, NoRowWritten DEF ledgerVars
  <2> QED
    BY <2>3, <2>4, <2>5
<1> QED
  BY <1>6, <1>7 DEF WatchdogStep

(* An alert opens only an incident that no one has had in hand. *)
LEMMA AlertHandsOff ==
  ASSUME LifecycleInv, HandOffInv, Alert
  PROVE  HandOffInv'
<1>1. UNCHANGED <<channel, coderTask, posted, pc, job>> /\ LedgerNext
  BY DEF Alert, rowVars, outsideVars, workVars
<1>2. PICK p \in Project, e \in Event :
        \E r \in CloudAlertProcessResult(p, e) : ProcessCloudAlert(p, e, r)
  BY <1>1 DEF LedgerNext
<1>3. PICK r \in CloudAlertProcessResult(p, e) : ProcessCloudAlert(p, e, r)
  BY <1>2
<1>4. /\ eventProject \in [Event -> Project \cup {NoProject}]
      /\ status \in [IncidentId -> IncidentStatus \cup {"absent"}]
  BY DEF LifecycleInv, LifecycleTypeOK, LedgerTypeOK
<1>5. \A t \in Event : Recorded(t) => Recorded(t)'
  BY <1>3, <1>4, NoProjectAssumption
  DEF ProcessCloudAlert, DuplicateEvent, DuplicateTransition, Correlate, Open, StaleAlarm,
      UnmatchedOk, StaleOk, Resolve, Observe, RecordTransition, RecordEvent, Recorded, ledgerVars
<1>6. \/ status' = status
      \/ /\ ~Recorded(e) /\ Recorded(e)'
         /\ status' = [status EXCEPT ![<<p, e>>] = "investigating"]
      \/ \E i \in IncidentId : /\ status[i] \in ActiveStatus
                               /\ status' = [status EXCEPT ![i] = "self_recovered"]
  <2>1. CASE Open(p, e, r)
    BY <1>4, <2>1, NoProjectAssumption
    DEF Open, RecordTransition, RecordEvent, Recorded, Result
  <2>2. CASE Resolve(p, e, r)
    BY <2>2 DEF Resolve, OpenIncidents
  <2> QED
    BY <1>3, <2>1, <2>2
    DEF ProcessCloudAlert, DuplicateEvent, DuplicateTransition, Correlate, StaleAlarm,
        UnmatchedOk, StaleOk, Observe, ledgerVars
<1>7. ASSUME NEW i \in IncidentId PROVE RowHandedOff(i)'
  <2>1. RowHandedOff(i) /\ i[2] \in Event
    BY DEF HandOffInv, IncidentId
  <2>2. UNCHANGED <<Handled(i), Heard(i)>>
    BY <1>1 DEF Handled, Heard
  <2>3. CASE status'[i] = status[i]
    BY <1>1, <1>5, <2>1, <2>2, <2>3 DEF RowHandedOff
  <2>4. CASE i = <<p, e>> /\ ~Recorded(e) /\ Recorded(e)' /\ status'[i] = "investigating"
    BY <1>1, <2>1, <2>2, <2>4 DEF RowHandedOff
  <2>5. CASE status[i] \in ActiveStatus /\ status'[i] = "self_recovered"
    BY <1>1, <1>5, <2>1, <2>2, <2>5 DEF RowHandedOff, DebuggedStatus, ActiveStatus
  <2> QED
    BY <1>4, <1>6, <2>3, <2>4, <2>5
<1>8. ASSUME NEW x \in Worker PROVE WorkHandedOff(x)'
  <2>1. WorkHandedOff(x)
    BY DEF HandOffInv
  <2> QED
    BY <1>1, <2>1 DEF WorkHandedOff, Handled, Heard
<1> QED
  BY <1>7, <1>8 DEF HandOffInv

LEMMA AbortHandsOff ==
  ASSUME LifecycleInv, HandOffInv, NEW w \in Worker, Abort(w)
  PROVE  HandOffInv'
<1>1. pc \in [Worker -> PC] /\ DOMAIN job = Worker
  BY DEF LifecycleInv, LifecycleTypeOK
<1>2. /\ UNCHANGED <<status, channel, coderTask, eventProject>> /\ Grows
      /\ \A y \in Worker : WorkOn(y)
  BY <1>1 DEF Abort, Finish, Goto, Grows, WorkOn, ledgerVars, rowVars, outsideVars
<1> QED
  BY <1>2, NoRowWritten

(* With one debugger, a queued code fix whose channel status is progress has  *)
(* been announced, or the watchdog has reported it: what a retried hand-off   *)
(* relies on (sync_debugger_result, lifecycle.py).                            *)
THEOREM HandOffsAreVisible == ASSUME OneDebugger PROVE Spec => []HandOffVisible
<1>1. LifecycleInv /\ HandOffInv /\ [Next]_vars => HandOffInv'
  <2> SUFFICES ASSUME LifecycleInv, HandOffInv, [Next]_vars PROVE HandOffInv'
    OBVIOUS
  <2>1. CASE \E d \in Debugger : DebuggerStep(d)
    BY <2>1, DebuggerHandsOff
  <2>2. CASE \E c \in Coder : CoderStep(c)
    BY <2>2, CoderHandsOff
  <2>3. CASE \E w \in Watchdog : WatchdogStep(w)
    BY <2>3, WatchdogHandsOff
  <2>4. CASE \E w \in Worker : Abort(w)
    BY <2>4, AbortHandsOff
  <2>5. CASE UNCHANGED vars
    BY <2>5, NoRowWritten DEF vars, ledgerVars, rowVars, outsideVars, workVars, Grows, WorkOn
  <2> QED
    BY <2>1, <2>2, <2>3, <2>4, <2>5, AlertHandsOff DEF Next
<1>2. HandOffInv => HandOffVisible
  BY DEF HandOffInv, RowHandedOff, HandOffVisible, Heard
<1> QED
  BY <1>1, <1>2, InitHandOff, LifecycleInvariant, PTL DEF Spec
=============================================================================
