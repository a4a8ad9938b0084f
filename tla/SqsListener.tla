---------------------------- MODULE SqsListener ----------------------------
(***************************************************************************)
(* sqs-listen: the processes that take CloudWatch alerts from SQS, run     *)
(* process_cloud_alert on the ledger, perform the required side effects on *)
(* the Kanban board and only then delete the message (sqs_ingest.py).      *)
(*                                                                         *)
(* Every ledger transaction, Kanban call and SQS call is one step, so a    *)
(* crash, a failing call, an expired visibility timeout or another         *)
(* listener can come between any two of them. A crash loses the batch in   *)
(* memory and systemd starts the process again. SQS and the Kanban board   *)
(* are modelled from how the code uses them: SQS delivers in any order, at *)
(* least once, and moves a message to the dead-letter queue after          *)
(* MaxReceive receives; Kanban creates one card per idempotency key.       *)
(***************************************************************************)
EXTENDS CloudLedger, Sequences

CONSTANTS
  Listener,    \* running sqs-listen processes: records [id, project]
  Peeked,      \* projects whose queue is looked at with sqs-peek
  Message,     \* SQS messages: records [id, project, event]; project owns the queue
  Malformed,   \* the event of a message no parser accepts
  MaxReceive,  \* maxReceiveCount of the queue's redrive policy
  MaxMessages  \* max_messages of the source: the size of a batch

ASSUME ListenerAssumption ==
  /\ \A l \in Listener : l.project \in Project
  /\ Peeked \subseteq Project
  /\ \A m \in Message : m.project \in Project /\ m.event \in Event \cup {Malformed}
  /\ Malformed \notin Event
  /\ MaxReceive \in Nat \ {0}
  /\ MaxMessages \in Nat \ {0}

VARIABLES
  queue,       \* where SQS has each message
  receives,    \* ApproximateReceiveCount
  pc,          \* what each listener does next
  batch,       \* the received messages a listener still has to process
  work,        \* the CloudAlertProcessResult of the message at hand
  kanbanTask,  \* alert_incidents.kanban_task_id is set
  sideEffect,  \* alert_side_effects: events whose required effects succeeded
  parseFailed, \* alert_events rows with parse_status failed
  cards,       \* incident cards on the Kanban board
  comments     \* comments on the cards: <<incident, event>>

queueVars == <<queue, receives>>
localVars == <<pc, batch, work>>
effectVars == <<kanbanTask, sideEffect>>
kanbanVars == <<cards, comments>>

vars == <<ledgerVars, queueVars, localVars, effectVars, parseFailed, kanbanVars>>

QueueState == {"visible", "inflight", "deleted", "dead"}

PC == {"poll", "process", "check", "effects", "create", "attach", "comment",
       "record", "delete"}

NoWork == [action |-> "observed", incident |-> NoIncident]

Init ==
  /\ LedgerInit
  /\ queue = [m \in Message |-> "visible"]
  /\ receives = [m \in Message |-> 0]
  /\ pc = [l \in Listener |-> "poll"]
  /\ batch = [l \in Listener |-> <<>>]
  /\ work = [l \in Listener |-> NoWork]
  /\ kanbanTask = [i \in IncidentId |-> FALSE]
  /\ sideEffect = {}
  /\ parseFailed = {}
  /\ cards = {}
  /\ comments = {}

-----------------------------------------------------------------------------
(* SQS *)

(* The visibility timeout of a received message runs out, whoever holds it. *)
Expire(m) ==
  /\ queue[m] = "inflight"
  /\ queue' = [queue EXCEPT ![m] = "visible"]
  /\ UNCHANGED <<ledgerVars, receives, localVars, effectVars, parseFailed, kanbanVars>>

(* A message that was received often enough goes to the dead-letter queue. *)
DeadLetter(m) ==
  /\ queue[m] = "visible"
  /\ receives[m] = MaxReceive
  /\ queue' = [queue EXCEPT ![m] = "dead"]
  /\ UNCHANGED <<ledgerVars, receives, localVars, effectVars, parseFailed, kanbanVars>>

Receivable(p) ==
  {m \in Message :
     m.project = p /\ queue[m] = "visible" /\ receives[m] < MaxReceive}

(* What a ReceiveMessage call on the queue of project p can return. *)
Batches(p) ==
  {b \in UNION {[1..n -> Receivable(p)] : n \in 1..MaxMessages} :
     \A x, y \in DOMAIN b : x # y => b[x] # b[y]}

(* The messages taken are hidden until their visibility timeout runs out. *)
Take(taken) ==
  /\ queue' = [m \in Message |-> IF m \in taken THEN "inflight" ELSE queue[m]]
  /\ receives' = [m \in Message |->
                    IF m \in taken THEN receives[m] + 1 ELSE receives[m]]

(* sqs-peek and sqs-ingest --dry-run receive messages, print them and delete  *)
(* nothing, but every look counts as a receive.                               *)
Peek(p) ==
  /\ \E b \in Batches(p) : Take({b[n] : n \in DOMAIN b})
  /\ UNCHANGED <<ledgerVars, localVars, effectVars, parseFailed, kanbanVars>>

-----------------------------------------------------------------------------
(* The listener *)

Current(l) == Head(batch[l])

Alert(l) == Current(l).event

(* Leave the message at hand as it is, and take the next of the batch. *)
Advance(l) ==
  /\ batch' = [batch EXCEPT ![l] = Tail(@)]
  /\ work' = [work EXCEPT ![l] = NoWork]
  /\ pc' = [pc EXCEPT ![l] = IF Tail(batch[l]) = <<>> THEN "poll" ELSE "process"]

Goto(l, next) == pc' = [pc EXCEPT ![l] = next]

(* A receive after a successful preflight. Failed checks, an empty receive and *)
(* a receive that raises leave everything as it is.                            *)
Receive(l) ==
  /\ pc[l] = "poll"
  /\ \E b \in Batches(l.project) :
       /\ batch' = [batch EXCEPT ![l] = b]
       /\ Take({b[n] : n \in DOMAIN b})
  /\ Goto(l, "process")
  /\ UNCHANGED <<ledgerVars, work, effectVars, parseFailed, kanbanVars>>

(* A message that does not parse is recorded and left in the queue. *)
RecordParseFailure(l) ==
  /\ pc[l] = "process"
  /\ Alert(l) = Malformed
  /\ parseFailed' = parseFailed \cup {Current(l)}
  /\ Advance(l)
  /\ UNCHANGED <<ledgerVars, queueVars, effectVars, kanbanVars>>

(* The ledger transaction. A duplicate transition has no side effects to do. *)
Process(l) ==
  /\ pc[l] = "process"
  /\ Alert(l) # Malformed
  /\ \E r \in CloudAlertProcessResult(l.project, Alert(l)) :
       /\ ProcessCloudAlert(l.project, Alert(l), r)
       /\ work' = [work EXCEPT ![l] = r]
       /\ Goto(l, IF r.action = "duplicate_transition" THEN "record" ELSE "check")
  /\ UNCHANGED <<queueVars, batch, effectVars, parseFailed, kanbanVars>>

(* alert_side_effect_succeeded: the effects of the event are done already. *)
CheckEffects(l) ==
  /\ pc[l] = "check"
  /\ Goto(l, IF Alert(l) \in sideEffect THEN "delete" ELSE "effects")
  /\ UNCHANGED <<ledgerVars, queueVars, batch, work, effectVars, parseFailed, kanbanVars>>

(* get_cloud_incident_for_event: through alert_event_incidents, or else by  *)
(* first and last event, and never an incident of another project or alarm. *)
IncidentForEvent(p, e) ==
  LET mine == {i \in IncidentId :
                 status[i] # "absent" /\ i[1] = p /\ Fingerprint(i) = e.alarm}
      linked == {i \in mine : eventIncident[e] = i}
  IN IF linked # {} THEN linked ELSE {i \in mine : e \in {i[2], lastEvent[i]}}

(* The incident the side effects are about, if the action has any. *)
EffectIncident(l) ==
  CASE work[l].action \in {"opened", "correlated", "resolved"} -> {work[l].incident}
    [] work[l].action = "duplicate_event"
         /\ Alert(l).state \in RecoveryState \cup {"ALARM"} ->
           IncidentForEvent(l.project, Alert(l))
    [] OTHER -> {}

NeedsCard(l) ==
  \/ work[l].action \in {"opened", "correlated"}
  \/ work[l].action = "duplicate_event" /\ Alert(l).state = "ALARM"

(* What follows once the card of incident i is known: a comment, unless the *)
(* alert is the one that opened i.                                          *)
AfterCard(l, i) ==
  CASE work[l].action = "opened" -> "record"
    [] work[l].action = "duplicate_event" /\ Alert(l) = i[2] -> "record"
    [] OTHER -> "comment"

(* A stale, unmatched or observed alert, or a redelivered one without incident. *)
NoEffect(l) ==
  /\ pc[l] = "effects"
  /\ EffectIncident(l) = {}
  /\ Goto(l, "record")
  /\ UNCHANGED <<ledgerVars, queueVars, batch, work, effectVars, parseFailed, kanbanVars>>

(* _ensure_kanban_incident_card reads kanban_task_id. The link of an event to *)
(* its incident never changes once the event is recorded, so that looking it  *)
(* up is part of this step.                                                   *)
ReadTask(l) ==
  /\ pc[l] = "effects"
  /\ NeedsCard(l)
  /\ \E i \in EffectIncident(l) :
       /\ work' = [work EXCEPT ![l].incident = i]
       /\ Goto(l, IF kanbanTask[i] THEN AfterCard(l, i) ELSE "create")
  /\ UNCHANGED <<ledgerVars, queueVars, batch, effectVars, parseFailed, kanbanVars>>

(* Mistakes: a recovery without card has no effects, or waits for the card. *)
SkipRecoveryWithoutTask(l) ==
  /\ pc[l] = "effects"
  /\ ~NeedsCard(l)
  /\ \E i \in EffectIncident(l) :
       /\ work' = [work EXCEPT ![l].incident = i]
       /\ Goto(l, IF kanbanTask[i] THEN "comment" ELSE "record")
  /\ UNCHANGED <<ledgerVars, queueVars, batch, effectVars, parseFailed, kanbanVars>>

WaitForTaskOfRecovery(l) ==
  /\ pc[l] = "effects"
  /\ ~NeedsCard(l)
  /\ \E i \in EffectIncident(l) :
       /\ kanbanTask[i]
       /\ work' = [work EXCEPT ![l].incident = i]
  /\ Goto(l, "comment")
  /\ UNCHANGED <<ledgerVars, queueVars, batch, effectVars, parseFailed, kanbanVars>>

(* A recovery comments on the card of its incident; without one it raises, *)
(* and the message stays in the queue.                                     *)
ReadTaskOfRecovery(l) ==
  /\ pc[l] = "effects"
  /\ ~NeedsCard(l)
  /\ \E i \in EffectIncident(l) :
       \/ /\ kanbanTask[i]
          /\ work' = [work EXCEPT ![l].incident = i]
          /\ Goto(l, "comment")
          /\ UNCHANGED batch
       \/ /\ ~kanbanTask[i]
          /\ Advance(l)
  /\ UNCHANGED <<ledgerVars, queueVars, effectVars, parseFailed, kanbanVars>>

(* create_incident with the incident's idempotency key. *)
CreateCard(l) ==
  /\ pc[l] = "create"
  /\ cards' = cards \cup {work[l].incident}
  /\ Goto(l, "attach")
  /\ UNCHANGED <<ledgerVars, queueVars, batch, work, effectVars, parseFailed, comments>>

(* Mistake: a failing create_incident is logged and the work goes on. *)
CreateCardFailsQuietly(l) ==
  /\ pc[l] = "create"
  /\ cards' \in {cards, cards \cup {work[l].incident}}
  /\ Goto(l, AfterCard(l, work[l].incident))
  /\ UNCHANGED <<ledgerVars, queueVars, batch, work, effectVars, parseFailed, comments>>

(* create_incident raises, before or after the card was made. *)
CreateCardFails(l) ==
  /\ pc[l] = "create"
  /\ cards' \in {cards, cards \cup {work[l].incident}}
  /\ Advance(l)
  /\ UNCHANGED <<ledgerVars, queueVars, effectVars, parseFailed, comments>>

(* Mistake: the card is not attached to the incident. *)
ForgetTask(l) ==
  /\ pc[l] = "attach"
  /\ Goto(l, AfterCard(l, work[l].incident))
  /\ UNCHANGED <<ledgerVars, queueVars, batch, work, effectVars, parseFailed, kanbanVars>>

AttachTask(l) ==
  /\ pc[l] = "attach"
  /\ kanbanTask' = [kanbanTask EXCEPT ![work[l].incident] = TRUE]
  /\ Goto(l, AfterCard(l, work[l].incident))
  /\ UNCHANGED <<ledgerVars, queueVars, batch, work, sideEffect, parseFailed, kanbanVars>>

Comment(l) ==
  /\ pc[l] = "comment"
  /\ comments' = comments \cup {<<work[l].incident, Alert(l)>>}
  /\ Goto(l, "record")
  /\ UNCHANGED <<ledgerVars, queueVars, batch, work, effectVars, parseFailed, cards>>

CommentFails(l) ==
  /\ pc[l] = "comment"
  /\ comments' \in {comments, comments \cup {<<work[l].incident, Alert(l)>>}}
  /\ Advance(l)
  /\ UNCHANGED <<ledgerVars, queueVars, effectVars, parseFailed, cards>>

(* record_alert_side_effect *)
RecordEffects(l) ==
  /\ pc[l] = "record"
  /\ sideEffect' = sideEffect \cup {Alert(l)}
  /\ Goto(l, "delete")
  /\ UNCHANGED <<ledgerVars, queueVars, batch, work, kanbanTask, parseFailed, kanbanVars>>

(* DeleteMessage; by then the message can be visible again, held by another *)
(* listener, deleted or dead, and a late receipt handle can have no effect.  *)
Delete(l) ==
  /\ pc[l] = "delete"
  /\ queue' = IF queue[Current(l)] = "dead"
                THEN queue ELSE [queue EXCEPT ![Current(l)] = "deleted"]
  /\ Advance(l)
  /\ UNCHANGED <<ledgerVars, receives, effectVars, parseFailed, kanbanVars>>

DeleteFails(l) ==
  /\ pc[l] = "delete"
  /\ Advance(l)
  /\ UNCHANGED <<ledgerVars, queueVars, effectVars, parseFailed, kanbanVars>>

(* Mistake: a new process takes the batch of the old one for its own. *)
CrashKeepsBatch(l) ==
  /\ pc[l] # "poll"
  /\ pc' = [pc EXCEPT ![l] = "poll"]
  /\ work' = [work EXCEPT ![l] = NoWork]
  /\ UNCHANGED <<ledgerVars, queueVars, batch, effectVars, parseFailed, kanbanVars>>

(* The process dies, on an exception nothing catches or with the machine, and *)
(* starts again.                                                              *)
Crash(l) ==
  /\ pc[l] # "poll"
  /\ pc' = [pc EXCEPT ![l] = "poll"]
  /\ batch' = [batch EXCEPT ![l] = <<>>]
  /\ work' = [work EXCEPT ![l] = NoWork]
  /\ UNCHANGED <<ledgerVars, queueVars, effectVars, parseFailed, kanbanVars>>

Step(l) ==
  \/ Receive(l)
  \/ RecordParseFailure(l)
  \/ Process(l)
  \/ CheckEffects(l)
  \/ NoEffect(l)
  \/ ReadTask(l)
  \/ ReadTaskOfRecovery(l)
  \/ CreateCard(l) \/ CreateCardFails(l)
  \/ AttachTask(l)
  \/ Comment(l) \/ CommentFails(l)
  \/ RecordEffects(l)
  \/ Delete(l) \/ DeleteFails(l)

Next ==
  \/ \E l \in Listener : Step(l) \/ Crash(l)
  \/ \E m \in Message : Expire(m) \/ DeadLetter(m)
  \/ \E p \in Peeked : Peek(p)

Spec == Init /\ [][Next]_vars

(* A listener that can take a step takes one: systemd restarts it, and an     *)
(* outage that preflight notices ends. SQS keeps its timeouts and its redrive *)
(* policy. Nothing forces a call to succeed or a crash to stay away.          *)
Fairness ==
  /\ \A l \in Listener : WF_vars(Step(l))
  /\ \A m \in Message : WF_vars(Expire(m)) /\ WF_vars(DeadLetter(m))

FairSpec == Spec /\ Fairness

-----------------------------------------------------------------------------
(* Properties. *)

(* A listener has messages in memory exactly while it works on one, whatever *)
(* crashed or failed; nothing is received more often than the redrive policy *)
(* of its queue allows.                                                      *)
ListenerTypeOK ==
  /\ LedgerTypeOK
  /\ queue \in [Message -> QueueState]
  /\ receives \in [Message -> 0..MaxReceive]
  /\ pc \in [Listener -> PC]
  /\ batch \in [Listener -> Seq(Message)]
  /\ \A l \in Listener : (pc[l] = "poll") <=> (batch[l] = <<>>)
  /\ work \in [Listener -> [action : ActionName, incident : IncidentId \cup {NoIncident}]]
  /\ kanbanTask \in [IncidentId -> BOOLEAN]
  /\ sideEffect \subseteq Event
  /\ parseFailed \subseteq Message
  /\ cards \subseteq IncidentId
  /\ comments \subseteq IncidentId \X Event

(* Incident i has its card, known to the ledger, and unless e opened the        *)
(* incident, the card tells of e.                                              *)
Told(i, e) ==
  /\ kanbanTask[i] /\ i \in cards
  /\ e # i[2] => <<i, e>> \in comments

(* The required side effects of an event for project p: there are some when it *)
(* acted on an incident of p.                                                  *)
EffectsDone(p, e) ==
  LET i == eventIncident[e] IN
    e \in transitions /\ i # NoIncident /\ i[1] = p => Told(i, e)

(* The same for whatever project; the ledger links an event to one incident.   *)
AllEffectsDone(e) ==
  LET i == eventIncident[e] IN
    e \in transitions /\ i # NoIncident => Told(i, e)

(* A message is deleted only after its alert is in the ledger and the required *)
(* side effects for the project of its queue are complete, whatever crashed,   *)
(* failed, timed out or raced before (docs/architecture.md, data flow step 11). *)
DeletedAfterEffects ==
  \A m \in Message :
    queue[m] = "deleted" =>
      /\ m.event # Malformed
      /\ Recorded(m.event)
      /\ EffectsDone(m.project, m.event)

(* The ledger never notes side effects as succeeded that are not complete: a  *)
(* redelivered message is deleted on the strength of this note alone.         *)
NotedEffectsAreDone == \A e \in sideEffect : AllEffectsDone(e)

Outcome ==
  [m \in Message |-> CASE queue[m] = "deleted" -> "released"
                       [] queue[m] = "dead" -> "given up"
                       [] OTHER -> "waiting"]

EventOf(m) == m.event

Taken == {e \in Event : Recorded(e)}

(* The listeners of one queue, however many, implement intake: each alert is  *)
(* taken once, its effects are done once and stay done, are noted after that  *)
(* and the message is deleted after that (docs/architecture.md, data flow     *)
(* steps 6 to 11).                                                            *)
Intake == INSTANCE AlertIntake WITH
  taken <- Taken,
  done <- {e \in Taken : AllEffectsDone(e)},
  noted <- sideEffect,
  outcome <- Outcome

ImplementsIntake == Intake!Spec

(* Once every message about an alarm is deleted, the state of the alarm is     *)
(* that of its newest message: no loss, repetition or reordering on the way    *)
(* from the queue to the ledger changes the outcome.                           *)
AlarmMessages(p, a) ==
  {m \in Message : m.project = p /\ m.event # Malformed /\ m.event.alarm = a}

NewestStates(p, a) ==
  {m.event.state : m \in {m \in AlarmMessages(p, a) :
     \A n \in AlarmMessages(p, a) : n.event.at <= m.event.at}}

QueueOutcome ==
  \A p \in Project, a \in Alarm :
    (\A m \in AlarmMessages(p, a) : queue[m] = "deleted") =>
      /\ NewestStates(p, a) = {"ALARM"} => OpenIncidents(p, a) # {}
      /\ (NewestStates(p, a) # {} /\ NewestStates(p, a) \subseteq RecoveryState)
           => OpenIncidents(p, a) = {}

(* An incident gets its card, unless a message that would have made it ends in *)
(* the dead-letter queue, where health reports it.                             *)
EveryIncidentCarded ==
  \A i \in IncidentId :
    status[i] # "absent" ~>
      \/ kanbanTask[i]
      \/ \E m \in Message : m.event = i[2] /\ queue[m] = "dead"

(* No message stays in the queue for ever: it is deleted or dead. *)
QueueDrains ==
  \A m \in Message : <>(queue[m] \in {"deleted", "dead"})
=============================================================================
