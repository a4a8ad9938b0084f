---------------------------- MODULE CloudLedger ----------------------------
(***************************************************************************)
(* The cloud side of the alert ledger (ledger.py): the tables              *)
(* alert_events, alert_transitions, alert_incidents and                    *)
(* alert_event_incidents, and process_cloud_alert, the one transaction     *)
(* that turns a parsed CloudWatch state change into an incident action.    *)
(*                                                                         *)
(* process_cloud_alert runs on one SQLite connection, and its first        *)
(* statement is an INSERT, so it holds the write lock until it commits:    *)
(* the whole transaction is one step here.                                 *)
(***************************************************************************)
EXTENDS Naturals

CONSTANTS
  Project,     \* project slugs; the projects of a configuration share a ledger
  Alarm,       \* incident fingerprints (account, region, alarm identity)
  Event,       \* parsed alerts: records [id, alarm, state, at], id being event_id
  NoProject,   \* alert_events has no row for this event_id
  NoIncident   \* "no incident id" in a result, or no alert_event_incidents row

RecoveryState == {"OK", "RECOVERY", "RESOLVED"}

(* CloudWatch also reports INSUFFICIENT_DATA; any further value is treated alike. *)
AlarmState == {"ALARM", "INSUFFICIENT_DATA"} \cup RecoveryState

ASSUME EventAssumption ==
  \A e \in Event : e.alarm \in Alarm /\ e.state \in AlarmState /\ e.at \in Nat

(* Two alerts with one event_id are one row of alert_events. *)
ASSUME EventIdAssumption == \A e, f \in Event : e.id = f.id => e = f

ASSUME NoProjectAssumption == NoProject \notin Project

(* The digest of project:fingerprint:event_id, taken to be injective. *)
IncidentId == Project \X Event

ASSUME NoIncidentAssumption == NoIncident \notin IncidentId

ActiveStatus ==
  {"investigating", "blocked", "stalled", "code_fix_queued", "awaiting_pr",
   "pr_opened", "awaiting_review", "ops_blocked", "decision_blocked",
   "access_blocked"}

TerminalStatus ==
  {"observed", "correlated", "self_recovered", "false_positive", "resolved",
   "closed", "done"}

IncidentStatus == ActiveStatus \cup TerminalStatus

VARIABLES
  eventProject,   \* alert_events: the project that recorded the event_id first
  transitions,    \* alert_transitions: the events that own a transition row
  status,         \* alert_incidents.status, "absent" when there is no row
  lastEvent,      \* alert_incidents.last_event_id (first_event_id is i[2])
  eventIncident   \* alert_event_incidents: event_id to incident_id

ledgerVars == <<eventProject, transitions, status, lastEvent, eventIncident>>

-----------------------------------------------------------------------------
(* What the statements of the transaction read. *)

Fingerprint(i) == i[2].alarm

(* Mistake: every ALARM of an alarm is one transition. *)
TimelessTransitionKey(e) == <<e.alarm, e.state>>

TransitionKey(e) == <<e.alarm, e.state, e.at>>

Recorded(e) == eventProject[e] # NoProject

SameTransition(e) == {t \in transitions : TransitionKey(t) = TransitionKey(e)}

ProjectTransitions(p, a) ==
  {t \in transitions : eventProject[t] = p /\ t.alarm = a}

(* Mistake: an alert of equal time counts as late. *)
OlderOrEqual(p, e) == \E t \in ProjectTransitions(p, e.alarm) : e.at <= t.at

IsOlder(p, e) == \E t \in ProjectTransitions(p, e.alarm) : e.at < t.at

(* Mistake: an open incident of the alarm, whatever its project. *)
AnyProjectOpenIncidents(p, a) ==
  {i \in IncidentId : Fingerprint(i) = a /\ status[i] \in ActiveStatus}

OpenIncidents(p, a) ==
  {i \in IncidentId :
     i[1] = p /\ Fingerprint(i) = a /\ status[i] \in ActiveStatus}

(* The incident of the event that owns the transition row, if it has one. *)
IncidentOfTransition(e) ==
  {eventIncident[t] : t \in SameTransition(e)} \ {NoIncident}

-----------------------------------------------------------------------------
LedgerInit ==
  /\ eventProject = [e \in Event |-> NoProject]
  /\ transitions = {}
  /\ status = [i \in IncidentId |-> "absent"]
  /\ lastEvent = [i \in IncidentId |-> i[2]]
  /\ eventIncident = [e \in Event |-> NoIncident]

ActionName ==
  {"duplicate_event", "duplicate_transition", "correlated", "stale_alarm",
   "opened", "unmatched_ok", "stale_ok", "resolved", "observed"}

(* The incidents a result can name: the one that is open, the one an earlier *)
(* delivery of the transition belongs to, and the one that e would open.     *)
CloudAlertProcessResult(p, e) ==
  [action : ActionName,
   incident : OpenIncidents(p, e.alarm) \cup IncidentOfTransition(e)
                \cup {<<p, e>>, NoIncident}]

Result(action, incident) == [action |-> action, incident |-> incident]

(* The rows every first delivery of a transition writes. *)
RecordEvent(p, e) == eventProject' = [eventProject EXCEPT ![e] = p]

RecordTransition(p, e) ==
  /\ ~Recorded(e)
  /\ SameTransition(e) = {}
  /\ RecordEvent(p, e)
  /\ transitions' = transitions \cup {e}

LinkEvent(e, i) == eventIncident' = [eventIncident EXCEPT ![e] = i]

(* Mistake: a redelivered ALARM writes its incident row again. *)
DuplicateEventReopens(e, r) ==
  /\ Recorded(e)
  /\ r = Result("duplicate_event", NoIncident)
  /\ status' = IF eventIncident[e] = <<eventProject[e], e>>
                 THEN [status EXCEPT ![eventIncident[e]] = "investigating"]
                 ELSE status
  /\ UNCHANGED <<eventProject, transitions, lastEvent, eventIncident>>

DuplicateEvent(e, r) ==
  /\ Recorded(e)
  /\ r = Result("duplicate_event", NoIncident)
  /\ UNCHANGED ledgerVars

DuplicateTransition(p, e, r) ==
  /\ ~Recorded(e)
  /\ SameTransition(e) # {}
  /\ RecordEvent(p, e)
  /\ \/ /\ r.incident \in IncidentOfTransition(e)
        /\ LinkEvent(e, r.incident)
     \/ /\ IncidentOfTransition(e) = {}
        /\ r.incident = NoIncident
        /\ UNCHANGED eventIncident
  /\ r.action = "duplicate_transition"
  /\ UNCHANGED <<transitions, status, lastEvent>>

(* Mistake: an ALARM older than the incident's last event replaces it. *)
CorrelateAnyAge(p, e, r) ==
  /\ e.state = "ALARM"
  /\ r.action = "correlated"
  /\ r.incident \in OpenIncidents(p, e.alarm)
  /\ RecordTransition(p, e)
  /\ lastEvent' = [lastEvent EXCEPT ![r.incident] = e]
  /\ LinkEvent(e, r.incident)
  /\ UNCHANGED status

(* An ALARM while an incident is open; an older one leaves the row as it is. *)
Correlate(p, e, r) ==
  /\ e.state = "ALARM"
  /\ r.action = "correlated"
  /\ r.incident \in OpenIncidents(p, e.alarm)
  /\ RecordTransition(p, e)
  /\ lastEvent' = IF IsOlder(p, e)
                    THEN lastEvent
                    ELSE [lastEvent EXCEPT ![r.incident] = e]
  /\ LinkEvent(e, r.incident)
  /\ UNCHANGED status

(* Mistake: the open incident of the alarm is not looked for. *)
OpenBlindly(p, e, r) ==
  /\ e.state = "ALARM"
  /\ ~IsOlder(p, e)
  /\ r = Result("opened", <<p, e>>)
  /\ RecordTransition(p, e)
  /\ status' = [status EXCEPT ![r.incident] = "investigating"]
  /\ lastEvent' = [lastEvent EXCEPT ![r.incident] = e]
  /\ LinkEvent(e, r.incident)

Open(p, e, r) ==
  /\ e.state = "ALARM"
  /\ OpenIncidents(p, e.alarm) = {}
  /\ ~IsOlder(p, e)
  /\ r = Result("opened", <<p, e>>)
  /\ RecordTransition(p, e)
  /\ status' = [status EXCEPT ![r.incident] = "investigating"]
  /\ lastEvent' = [lastEvent EXCEPT ![r.incident] = e]
  /\ LinkEvent(e, r.incident)

StaleAlarm(p, e, r) ==
  /\ e.state = "ALARM"
  /\ OpenIncidents(p, e.alarm) = {}
  /\ IsOlder(p, e)
  /\ r = Result("stale_alarm", NoIncident)
  /\ RecordTransition(p, e)
  /\ UNCHANGED <<status, lastEvent, eventIncident>>

UnmatchedOk(p, e, r) ==
  /\ e.state \in RecoveryState
  /\ OpenIncidents(p, e.alarm) = {}
  /\ r = Result("unmatched_ok", NoIncident)
  /\ RecordTransition(p, e)
  /\ UNCHANGED <<status, lastEvent, eventIncident>>

StaleOk(p, e, r) ==
  /\ e.state \in RecoveryState
  /\ OpenIncidents(p, e.alarm) # {}
  /\ IsOlder(p, e)
  /\ r = Result("stale_ok", NoIncident)
  /\ RecordTransition(p, e)
  /\ UNCHANGED <<status, lastEvent, eventIncident>>

Resolve(p, e, r) ==
  /\ e.state \in RecoveryState
  /\ r.action = "resolved"
  /\ r.incident \in OpenIncidents(p, e.alarm)
  /\ ~IsOlder(p, e)
  /\ RecordTransition(p, e)
  /\ status' = [status EXCEPT ![r.incident] = "self_recovered"]
  /\ lastEvent' = [lastEvent EXCEPT ![r.incident] = e]
  /\ LinkEvent(e, r.incident)

Observe(p, e, r) ==
  /\ e.state \notin RecoveryState \cup {"ALARM"}
  /\ r = Result("observed", NoIncident)
  /\ RecordTransition(p, e)
  /\ UNCHANGED <<status, lastEvent, eventIncident>>

(* process_cloud_alert for event e, read from a queue of project p; r is the *)
(* CloudAlertProcessResult it returns.                                       *)
ProcessCloudAlert(p, e, r) ==
  \/ DuplicateEvent(e, r)
  \/ DuplicateTransition(p, e, r)
  \/ Correlate(p, e, r)
  \/ Open(p, e, r)
  \/ StaleAlarm(p, e, r)
  \/ UnmatchedOk(p, e, r)
  \/ StaleOk(p, e, r)
  \/ Resolve(p, e, r)
  \/ Observe(p, e, r)

LedgerNext ==
  \E p \in Project, e \in Event : \E r \in CloudAlertProcessResult(p, e) :
    ProcessCloudAlert(p, e, r)

LedgerSpec == LedgerInit /\ [][LedgerNext]_ledgerVars

-----------------------------------------------------------------------------
(* Properties. *)

(* Every table holds rows of its own kind. *)
LedgerTypeOK ==
  /\ eventProject \in [Event -> Project \cup {NoProject}]
  /\ transitions \subseteq Event
  /\ status \in [IncidentId -> IncidentStatus \cup {"absent"}]
  /\ lastEvent \in [IncidentId -> Event]
  /\ eventIncident \in [Event -> IncidentId \cup {NoIncident}]

(* The insert of an incident never meets an open incident of the same       *)
(* project and fingerprint: the partial unique index                        *)
(* idx_open_incident_by_fingerprint has nothing to reject.                  *)
AtMostOneOpen ==
  \A i, j \in IncidentId :
    /\ status[i] \in ActiveStatus
    /\ status[j] \in ActiveStatus
    /\ i[1] = j[1]
    /\ Fingerprint(i) = Fingerprint(j)
    => i = j

(* The transitions of an alarm that carry its newest state_changed_at. *)
Latest(p, a) ==
  {t \in ProjectTransitions(p, a) :
     \A u \in ProjectTransitions(p, a) : u.at <= t.at}

(* In whatever order SQS delivers them, the newest recorded transition of    *)
(* an alarm decides: an incident is open when that is an ALARM, none is when *)
(* it is a recovery. Transitions of one time that disagree decide nothing,   *)
(* and neither does INSUFFICIENT_DATA.                                       *)
LatestDecides ==
  \A p \in Project, a \in Alarm :
    /\ ProjectTransitions(p, a) = {} => OpenIncidents(p, a) = {}
    /\ Latest(p, a) # {} =>
         /\ (\A t \in Latest(p, a) : t.state = "ALARM")
              => OpenIncidents(p, a) # {}
         /\ (\A t \in Latest(p, a) : t.state \in RecoveryState)
              => OpenIncidents(p, a) = {}

(* What a transition tells of its alarm. *)
ReportKind(t) ==
  CASE t.state = "ALARM" -> "alarm"
    [] t.state \in RecoveryState -> "recovery"
    [] OTHER -> "neutral"

(* last_event_id names the newest evidence, although alerts correlate out of *)
(* order: a transition linked to an incident is newer than it only when it   *)
(* arrived after a still newer report, INSUFFICIENT_DATA, that is linked to  *)
(* no incident.                                                              *)
LastEventIsNewest ==
  \A t \in transitions :
    LET i == eventIncident[t] IN
      i # NoIncident =>
        \/ t.at <= lastEvent[i].at
        \/ \E u \in ProjectTransitions(i[1], Fingerprint(i)) :
             ReportKind(u) = "neutral" /\ t.at < u.at

(* A closed incident stays closed: a later ALARM opens a new incident, and a *)
(* redelivered or late one opens none.                                       *)
NoResurrection ==
  [][\A i \in IncidentId :
       status[i] \in TerminalStatus => status'[i] = status[i]]_ledgerVars

Reports(p, a) == {<<t.at, ReportKind(t)>> : t \in ProjectTransitions(p, a)}

(* Per project and alarm the ledger implements a last-writer-wins register   *)
(* of the alarm's state: what the code must do whatever the order and the    *)
(* number of deliveries.                                                     *)
Register == INSTANCE AlarmRegister WITH
  Key <- Project \X Alarm,
  Time <- {e.at : e \in Event},
  seen <- [k \in Project \X Alarm |-> Reports(k[1], k[2])],
  firing <- [k \in Project \X Alarm |-> OpenIncidents(k[1], k[2]) # {}]

ImplementsRegister == Register!Spec
=============================================================================
