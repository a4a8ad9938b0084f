------------------------- MODULE IncidentLifecycle -------------------------
(***************************************************************************)
(* What happens to an incident between its ALARM and its end: the          *)
(* debugger's verdict (sync_debugger_result), the coder's PR lifecycle     *)
(* (record_pr_reference, mark_awaiting_pr,                                 *)
(* record_pr_feedback_if_unsuitable) and the watchdog (watchdog-due        *)
(* --send-telegram), next to the listener's transactions (CloudLedger).    *)
(*                                                                         *)
(* Each of these processes reads an incident, posts to Telegram and the    *)
(* Kanban board, and writes the row afterwards, without a transaction      *)
(* around it. Every read, post and write is one step here, so the row can  *)
(* change between a worker's read and its write. A call that raises ends   *)
(* the worker's operation where it is.                                     *)
(***************************************************************************)
EXTENDS CloudLedger, FiniteSets, Sequences

CONSTANTS
  Debugger,  \* processes that apply debugger_result payloads
  Coder,     \* processes that report on pull requests
  Watchdog,  \* watchdog-due --send-telegram processes
  Verdicts   \* the classifications the debuggers come to

Worker == Debugger \cup Coder \cup Watchdog

ASSUME WorkerAssumption ==
  /\ Debugger \cap Coder = {}
  /\ Debugger \cap Watchdog = {}
  /\ Coder \cap Watchdog = {}

Classification ==
  {"self-recovered/transient", "code-fix-likely", "infra-ops-needed",
   "human-decision-needed", "missing-access/tooling", "false-positive/noise"}

ASSUME VerdictAssumption == Verdicts \subseteq Classification

(* A scan of the open incidents returns a list. *)
ASSUME FiniteAssumption == IsFiniteSet(IncidentId)

VARIABLES
  channel,     \* alert_incidents.last_channel_status, "none" for NULL
  coderTask,   \* alert_incidents.coder_task_id is set
  prRef,       \* alert_incidents.pr_ref is set
  posted,      \* Telegram: <<incident, what the message announces>>
  coderCards,  \* incidents with a coder card on the Kanban board
  pc,          \* what each worker does next
  job,         \* the operation a worker is in
  findings     \* the incidents a watchdog round still has to report

rowVars == <<channel, coderTask, prRef>>
outsideVars == <<posted, coderCards>>
workVars == <<pc, job, findings>>

vars == <<ledgerVars, rowVars, outsideVars, workVars>>

ClosedStatus == {"done", "closed", "resolved"}

ChannelStatus == {"acked", "correlated", "progress", "watchdog-stalled", "final"}

(* The status a verdict leads to. *)
Verdict(class) ==
  CASE class = "self-recovered/transient" -> "resolved"
    [] class = "code-fix-likely" -> "code_fix_queued"
    [] class = "infra-ops-needed" -> "ops_blocked"
    [] class = "human-decision-needed" -> "decision_blocked"
    [] class = "missing-access/tooling" -> "access_blocked"
    [] class = "false-positive/noise" -> "false_positive"

DebuggedStatus == {"investigating", "blocked", "stalled"}

CoderStatus == {"code_fix_queued", "awaiting_pr", "pr_opened", "awaiting_review"}

PC == {"idle", "create", "queue", "send", "comment", "feedback", "reread", "store"}

NoJob == [incident |-> NoIncident, status |-> "absent"]

Init ==
  /\ LedgerInit
  /\ channel = [i \in IncidentId |-> "none"]
  /\ coderTask = [i \in IncidentId |-> FALSE]
  /\ prRef = [i \in IncidentId |-> FALSE]
  /\ posted = {}
  /\ coderCards = {}
  /\ pc = [w \in Worker |-> "idle"]
  /\ job = [w \in Worker |-> NoJob]
  /\ findings = [w \in Watchdog |-> <<>>]

-----------------------------------------------------------------------------
(* update_incident_status *)

Conflicts(i, s) ==
  s \in ActiveStatus /\ OpenIncidents(i[1], Fingerprint(i)) \ {i} # {}

(* Mistake: an update may close an incident whatever the channel was told. *)
AcceptsAny(i, s, c) == status[i] # "absent" /\ ~Conflicts(i, s)

(* The UPDATE raises for an unknown incident, without final evidence for a  *)
(* closed status, and when the partial unique index finds another open      *)
(* incident.                                                                *)
Accepts(i, s, c) ==
  /\ status[i] # "absent"
  /\ s \in ClosedStatus => (IF c = "none" THEN channel[i] ELSE c) = "final"
  /\ ~Conflicts(i, s)

(* An update without a channel status leaves the last one as it is. *)
Write(i, s, c) ==
  /\ status' = [status EXCEPT ![i] = s]
  /\ channel' = IF c = "none" THEN channel ELSE [channel EXCEPT ![i] = c]
  /\ UNCHANGED <<eventProject, transitions, lastEvent, eventIncident>>

Goto(w, next) == pc' = [pc EXCEPT ![w] = next]

(* The operation of worker w ends, complete or not. *)
Finish(w) ==
  /\ Goto(w, "idle")
  /\ job' = [job EXCEPT ![w] = NoJob]

-----------------------------------------------------------------------------
(* sync_debugger_result *)

(* What a payload says: about which incident, how it is classified, whether it *)
(* has evidence, calls for a coder, and comes with a Telegram status.          *)
Payload ==
  [incident : IncidentId, classification : Verdicts,
   evidence : BOOLEAN, coder : BOOLEAN, telegram : BOOLEAN]

(* validate_debugger_result *)
Valid(r, i) ==
  /\ r.incident = i
  /\ r.evidence
  /\ r.coder <=> r.classification = "code-fix-likely"
  /\ r.telegram

Syncable(i, class) ==
  \/ status[i] \in DebuggedStatus
  \/ status[i] = "self_recovered" /\ class = "self-recovered/transient"
  \/ status[i] = "code_fix_queued" /\ class = "code-fix-likely" /\ coderTask[i]

(* Mistake: the verdict is stored before it is posted. *)
SyncSilently(d) ==
  /\ pc[d] = "idle"
  /\ \E i \in IncidentId, r \in Payload :
       LET class == r.classification
           queued == status[i] = "code_fix_queued" IN
       /\ Valid(r, i)
       /\ Syncable(i, class)
       /\ queued => channel[i] # "progress"
       /\ job' = [job EXCEPT ![d] = [incident |-> i, status |-> Verdict(class)]]
       /\ Goto(d, IF class = "code-fix-likely" /\ ~queued THEN "create" ELSE "store")
  /\ UNCHANGED <<ledgerVars, rowVars, outsideVars, findings>>

(* A verdict is accepted on the row as it is now. A code fix that is queued *)
(* already is only announced, if the channel does not know of it yet.       *)
Sync(d) ==
  /\ pc[d] = "idle"
  /\ \E i \in IncidentId, r \in Payload :
       LET class == r.classification
           queued == status[i] = "code_fix_queued" IN
       /\ Valid(r, i)
       /\ Syncable(i, class)
       /\ queued => channel[i] # "progress"
       /\ job' = [job EXCEPT ![d] = [incident |-> i, status |-> Verdict(class)]]
       /\ Goto(d, IF class = "code-fix-likely" /\ ~queued THEN "create" ELSE "send")
  /\ UNCHANGED <<ledgerVars, rowVars, outsideVars, findings>>

CreateCoderCard(d) ==
  /\ pc[d] = "create"
  /\ coderCards' = coderCards \cup {job[d].incident}
  /\ Goto(d, "queue")
  /\ UNCHANGED <<ledgerVars, rowVars, posted, job, findings>>

(* Mistakes: the coder's task is not stored, or progress before it is posted. *)
QueueWithoutTask(d) ==
  /\ pc[d] = "queue"
  /\ LET i == job[d].incident IN
       \/ /\ Accepts(i, "code_fix_queued", "none")
          /\ Write(i, "code_fix_queued", "none")
          /\ Goto(d, "send")
          /\ UNCHANGED job
       \/ /\ ~Accepts(i, "code_fix_queued", "none")
          /\ Finish(d)
          /\ UNCHANGED <<ledgerVars, channel>>
  /\ UNCHANGED <<coderTask, prRef, outsideVars, findings>>

QueueAsProgress(d) ==
  /\ pc[d] = "queue"
  /\ LET i == job[d].incident IN
       \/ /\ Accepts(i, "code_fix_queued", "progress")
          /\ Write(i, "code_fix_queued", "progress")
          /\ coderTask' = [coderTask EXCEPT ![i] = TRUE]
          /\ Goto(d, "send")
          /\ UNCHANGED job
       \/ /\ ~Accepts(i, "code_fix_queued", "progress")
          /\ Finish(d)
          /\ UNCHANGED <<ledgerVars, channel, coderTask>>
  /\ UNCHANGED <<prRef, outsideVars, findings>>

QueueCodeFix(d) ==
  /\ pc[d] = "queue"
  /\ LET i == job[d].incident IN
       \/ /\ Accepts(i, "code_fix_queued", "none")
          /\ Write(i, "code_fix_queued", "none")
          /\ coderTask' = [coderTask EXCEPT ![i] = TRUE]
          /\ Goto(d, "send")
          /\ UNCHANGED job
       \/ /\ ~Accepts(i, "code_fix_queued", "none")
          /\ Finish(d)
          /\ UNCHANGED <<ledgerVars, channel, coderTask>>
  /\ UNCHANGED <<prRef, outsideVars, findings>>

(* The verdict is posted; all but a code fix also comment on the card. *)
Announce(d) ==
  /\ pc[d] = "send"
  /\ posted' = posted \cup {<<job[d].incident, job[d].status>>}
  /\ Goto(d, IF job[d].status = "code_fix_queued" THEN "store" ELSE "comment")
  /\ UNCHANGED <<ledgerVars, rowVars, coderCards, job, findings>>

CommentVerdict(d) ==
  /\ pc[d] = "comment"
  /\ Goto(d, "store")
  /\ UNCHANGED <<ledgerVars, rowVars, outsideVars, job, findings>>

EvidenceOf(s) == IF s \in {"resolved", "false_positive"} THEN "final" ELSE "progress"

StoreVerdict(d) ==
  /\ pc[d] = "store"
  /\ LET i == job[d].incident
         s == job[d].status
     IN \/ /\ Accepts(i, s, EvidenceOf(s))
           /\ Write(i, s, EvidenceOf(s))
           /\ coderTask' = [coderTask EXCEPT ![i] = @ \/ s = "code_fix_queued"]
        \/ /\ ~Accepts(i, s, EvidenceOf(s))
           /\ UNCHANGED <<ledgerVars, channel, coderTask>>
  /\ Finish(d)
  /\ UNCHANGED <<prRef, outsideVars, findings>>

-----------------------------------------------------------------------------
(* The PR lifecycle *)

ActiveCoder(i) == coderTask[i] /\ status[i] \in CoderStatus

(* record_pr_reference, mark_awaiting_pr *)
ReportPr(c) ==
  /\ pc[c] = "idle"
  /\ \E i \in IncidentId, s \in CoderStatus \ {"code_fix_queued"} :
       /\ ActiveCoder(i)
       /\ job' = [job EXCEPT ![c] = [incident |-> i, status |-> s]]
  /\ Goto(c, "store")
  /\ UNCHANGED <<ledgerVars, rowVars, outsideVars, findings>>

StorePr(c) ==
  /\ pc[c] = "store"
  /\ LET i == job[c].incident
         s == job[c].status
     IN \/ /\ Accepts(i, s, "none")
           /\ Write(i, s, "none")
           /\ prRef' = [prRef EXCEPT ![i] = @ \/ s # "awaiting_pr"]
        \/ /\ ~Accepts(i, s, "none")
           /\ UNCHANGED <<ledgerVars, channel, prRef>>
  /\ Finish(c)
  /\ UNCHANGED <<coderTask, outsideVars, findings>>

(* record_pr_feedback_if_unsuitable: comment, post, and only then store. *)
RejectPr(c) ==
  /\ pc[c] = "idle"
  /\ \E i \in IncidentId :
       /\ ActiveCoder(i)
       /\ job' = [job EXCEPT ![c] = [incident |-> i, status |-> "awaiting_review"]]
  /\ Goto(c, "comment")
  /\ UNCHANGED <<ledgerVars, rowVars, outsideVars, findings>>

CommentFeedback(c) ==
  /\ pc[c] = "comment"
  /\ Goto(c, "send")
  /\ UNCHANGED <<ledgerVars, rowVars, outsideVars, job, findings>>

PostFeedback(c) ==
  /\ pc[c] = "send"
  /\ posted' = posted \cup {<<job[c].incident, "awaiting_review">>}
  /\ Goto(c, "feedback")
  /\ UNCHANGED <<ledgerVars, rowVars, coderCards, job, findings>>

StoreFeedback(c) ==
  /\ pc[c] = "feedback"
  /\ LET i == job[c].incident
     IN \/ /\ Accepts(i, "awaiting_review", "progress")
           /\ Write(i, "awaiting_review", "progress")
           /\ prRef' = [prRef EXCEPT ![i] = TRUE]
        \/ /\ ~Accepts(i, "awaiting_review", "progress")
           /\ UNCHANGED <<ledgerVars, channel, prRef>>
  /\ Finish(c)
  /\ UNCHANGED <<coderTask, outsideVars, findings>>

-----------------------------------------------------------------------------
(* watchdog-due --send-telegram, for one project *)

OpenOf(p) == {i \in IncidentId : i[1] = p /\ status[i] \in ActiveStatus}

Orders(F) ==
  {f \in [1..Cardinality(F) -> F] : \A i \in F : \E n \in DOMAIN f : f[n] = i}

(* A round starts from one scan of the open incidents. Which of them have been *)
(* silent for too long is left open.                                           *)
Scan(w) ==
  /\ pc[w] = "idle"
  /\ \E p \in Project : \E due \in (SUBSET OpenOf(p)) \ {{}} :
       \E f \in Orders(due) : findings' = [findings EXCEPT ![w] = f]
  /\ Goto(w, "send")
  /\ UNCHANGED <<ledgerVars, rowVars, outsideVars, job>>

PostStalled(w) ==
  /\ pc[w] = "send"
  /\ posted' = posted \cup {<<Head(findings[w]), "watchdog-stalled">>}
  /\ Goto(w, "reread")
  /\ UNCHANGED <<ledgerVars, rowVars, coderCards, job, findings>>

(* get_incident: the status that the update is going to write back. *)
Reread(w) ==
  /\ pc[w] = "reread"
  /\ LET i == Head(findings[w]) IN
       job' = [job EXCEPT ![w] = [incident |-> i, status |-> status[i]]]
  /\ Goto(w, "store")
  /\ UNCHANGED <<ledgerVars, rowVars, outsideVars, findings>>

(* Mistake: after a refused update the round goes on past its last finding. *)
StoreStalledKeepsRound(w) ==
  /\ pc[w] = "store"
  /\ LET i == job[w].incident
         s == job[w].status
     IN IF Accepts(i, s, "watchdog-stalled")
          THEN Write(i, s, "watchdog-stalled")
          ELSE UNCHANGED <<ledgerVars, channel>>
  /\ findings' = [findings EXCEPT ![w] = Tail(@)]
  /\ job' = [job EXCEPT ![w] = NoJob]
  /\ Goto(w, "send")
  /\ UNCHANGED <<coderTask, prRef, outsideVars>>

StoreStalled(w) ==
  /\ pc[w] = "store"
  /\ LET i == job[w].incident
         s == job[w].status
         rest == Tail(findings[w])
     IN \/ /\ Accepts(i, s, "watchdog-stalled")
           /\ Write(i, s, "watchdog-stalled")
           /\ findings' = [findings EXCEPT ![w] = rest]
           /\ Goto(w, IF rest = <<>> THEN "idle" ELSE "send")
           /\ job' = [job EXCEPT ![w] = NoJob]
        \/ /\ ~Accepts(i, s, "watchdog-stalled")
           /\ findings' = [findings EXCEPT ![w] = <<>>]
           /\ Finish(w)
           /\ UNCHANGED <<ledgerVars, channel>>
  /\ UNCHANGED <<coderTask, prRef, outsideVars>>

-----------------------------------------------------------------------------
(* A call of the worker raises, or the process dies: the operation ends, and  *)
(* so does the whole watchdog round. What was posted or created stays.        *)
Abort(w) ==
  /\ pc[w] # "idle"
  /\ Finish(w)
  /\ findings' = [v \in Watchdog |-> IF v = w THEN <<>> ELSE findings[v]]
  /\ UNCHANGED <<ledgerVars, rowVars, outsideVars>>

(* The listener processes an alert. *)
Alert ==
  /\ LedgerNext
  /\ UNCHANGED <<rowVars, outsideVars, workVars>>

DebuggerStep(d) ==
  \/ Sync(d)
  \/ CreateCoderCard(d)
  \/ QueueCodeFix(d)
  \/ Announce(d)
  \/ CommentVerdict(d)
  \/ StoreVerdict(d)

CoderStep(c) ==
  \/ ReportPr(c) \/ StorePr(c)
  \/ RejectPr(c) \/ CommentFeedback(c) \/ PostFeedback(c) \/ StoreFeedback(c)

WatchdogStep(w) == Scan(w) \/ PostStalled(w) \/ Reread(w) \/ StoreStalled(w)

Next ==
  \/ Alert
  \/ \E d \in Debugger : DebuggerStep(d)
  \/ \E c \in Coder : CoderStep(c)
  \/ \E w \in Watchdog : WatchdogStep(w)
  \/ \E w \in Worker : Abort(w)

Spec == Init /\ [][Next]_vars

-----------------------------------------------------------------------------
(* Properties. *)

LifecycleTypeOK ==
  /\ LedgerTypeOK
  /\ channel \in [IncidentId -> ChannelStatus \cup {"none"}]
  /\ coderTask \in [IncidentId -> BOOLEAN]
  /\ prRef \in [IncidentId -> BOOLEAN]
  /\ posted \subseteq IncidentId \X (IncidentStatus \cup ChannelStatus)
  /\ coderCards \subseteq IncidentId
  /\ pc \in [Worker -> PC]
  /\ job \in [Worker -> [incident : IncidentId \cup {NoIncident},
                         status : IncidentStatus \cup {"absent"}]]
  /\ findings \in [Watchdog -> Seq(IncidentId)]
  /\ \A w \in Watchdog : (pc[w] = "idle") <=> (findings[w] = <<>>)

(* No worker reaches a status of the PR lifecycle without a coder task on the   *)
(* row, although the status it read, or writes back, can be long out of date   *)
(* (_require_active_coder_lifecycle checks it on the row it read only).        *)
CoderStatusHasTask ==
  \A i \in IncidentId : status[i] \in CoderStatus => coderTask[i]

(* The statuses that are about a person who has to know. *)
AnnouncedStatus ==
  {"ops_blocked", "decision_blocked", "access_blocked", "false_positive", "resolved"}

(* The no-silence rule (docs/kanban-flow.md): whatever fails and whoever       *)
(* writes last, an incident that is blocked, closed by the debugger or marked  *)
(* stalled has a Telegram message that says so.                                *)
NoSilence ==
  \A i \in IncidentId :
    /\ status[i] \in AnnouncedStatus => <<i, status[i]>> \in posted
    /\ channel[i] = "watchdog-stalled" => <<i, "watchdog-stalled">> \in posted

(* A closed incident keeps its final channel evidence: no late watchdog or      *)
(* coder update takes it away (update_incident_status).                        *)
ClosedHasFinal ==
  \A i \in IncidentId : status[i] \in ClosedStatus => channel[i] = "final"

(* With one debugger, a queued code fix whose channel status is progress has   *)
(* been announced: a retry after a failed post relies on this, and posts only  *)
(* when the channel status is another. Once the watchdog has reported the      *)
(* incident its late update can break this, but the channel has heard of it.   *)
HandOffVisible ==
  \A i \in IncidentId :
    (status[i] = "code_fix_queued" /\ channel[i] = "progress") =>
      \/ <<i, "code_fix_queued">> \in posted
      \/ <<i, "watchdog-stalled">> \in posted

(* A stale debugger result cannot reopen a terminal incident                   *)
(* (tests/test_lifecycle_sync.py).                                             *)
StaysClosed ==
  [][\A i \in IncidentId :
       status[i] \in TerminalStatus => status'[i] \in TerminalStatus]_vars
=============================================================================
