------------------------------- MODULE Watchdog -------------------------------
(***************************************************************************)
(* watchdog-due --send-telegram, started by a systemd timer: one process   *)
(* goes through the configured projects, one after another, and posts to   *)
(* the Telegram channel of each which of its open incidents have been      *)
(* silent for too long (watchdog.py, cli.py).                              *)
(*                                                                         *)
(* Time is counted in ticks, and for each incident only the time since its *)
(* last visible status is kept. What others do to an incident is one step  *)
(* each; how their updates interleave with the watchdog's own update of    *)
(* the row is the subject of IncidentLifecycle.                            *)
(***************************************************************************)
EXTENDS Integers, SequencesExt

CONSTANTS
  Incident,      \* the incidents of the ledger
  ScopeOfIncident,  \* incident_scope: [project, route]
  NamespaceOf,   \* the slug a fingerprint starts with
  Projects,      \* the projects of the configuration, in its order
  RouteOf,       \* coordinator profile and board of each project
  NoProject,     \* no project in a scope, no namespace in a fingerprint
  DefaultSlug,   \* the project slug "default"
  AckSla, ProgressSla, StalledAfter,  \* the SLAs of the configuration, in ticks
  Broken         \* projects whose Telegram channel takes no post

ASSUME SlaAssumption ==
  AckSla \in Nat /\ ProgressSla \in Nat /\ StalledAfter \in Nat

Project == {Projects[n] : n \in DOMAIN Projects}

ASSUME ProjectsAssumption == Projects \in Seq(Project)

ASSUME IncidentAssumption == IsFiniteSet(Incident)

ASSUME SlugAssumption == NoProject \notin Project \cup {DefaultSlug}

(* The age at which every SLA is missed: time beyond it makes no difference. *)
MaxAge ==
  LET Slas == {AckSla, ProgressSla, StalledAfter}
  IN 1 + CHOOSE s \in Slas : \A r \in Slas : r <= s

VARIABLES
  status,    \* of each incident
  channel,   \* last_channel_status, "none" as long as last_channel_post_at is NULL
  age,       \* of an open one: ticks since last_channel_post_at or else first_seen_at
  todo,      \* the projects the round still has to look at
  findings,  \* what the round still has to post for the first of them
  pc,        \* what the process does next
  cut        \* whether something will end the round early: a post that raises, a kill

rowVars == <<status, channel, age>>
roundVars == <<todo, findings, pc, cut>>
vars == <<rowVars, roundVars>>

Init ==
  /\ status = [i \in Incident |-> "absent"]
  /\ channel = [i \in Incident |-> "none"]
  /\ age = [i \in Incident |-> 0]
  /\ todo = <<>>
  /\ findings = <<>>
  /\ pc = "idle"
  /\ cut = FALSE

-----------------------------------------------------------------------------
(* Whose incident it is. A scope is [project, route]; the route of a cloud    *)
(* incident is "source:sqs", and the scope "default" names no project.        *)

DefaultScope == [project |-> NoProject, route |-> "default"]

(* _incident_scope_for_config *)
ScopeOf(p) ==
  IF p = DefaultSlug /\ RouteOf[p] = "default"
    THEN DefaultScope ELSE [project |-> p, route |-> RouteOf[p]]

(* A scope without project leaves it to the namespace of the fingerprint. *)
BelongsToProject(i, p) ==
  LET named == ScopeOfIncident[i].project
  IN IF named # NoProject THEN named = p
     ELSE NamespaceOf[i] = (IF p = DefaultSlug THEN NoProject ELSE p)

BelongsToScope(i, p) ==
  LET scope == ScopeOfIncident[i] IN
  \/ scope = ScopeOf(p)
  \/ scope = DefaultScope /\ ScopeOf(p) # DefaultScope
  \/ scope.route = "source:sqs" /\ scope.project = ScopeOf(p).project

Watches(p, i) == BelongsToProject(i, p) /\ BelongsToScope(i, p)

(* Mistake: a report of the watchdog itself counts like any progress. *)
ThresholdOfProgress(i) ==
  IF channel[i] = "none" THEN AckSla ELSE ProgressSla

Threshold(i) ==
  CASE channel[i] = "none" -> AckSla
    [] channel[i] \in {"acked", "correlated", "progress"} -> ProgressSla
    [] OTHER -> StalledAfter

Due(i) == status[i] = "open" /\ age[i] > Threshold(i)

-----------------------------------------------------------------------------
(* What others do: the alerts, the debugger, the operator, and time. *)

Tick ==
  /\ age' = [i \in Incident |->
               IF status[i] = "open" /\ age[i] < MaxAge THEN age[i] + 1 ELSE age[i]]
  /\ UNCHANGED <<status, channel, roundVars>>

OpenIncident(i) ==
  /\ status[i] = "absent"
  /\ status' = [status EXCEPT ![i] = "open"]
  /\ UNCHANGED <<channel, age, roundVars>>

(* update_incident_status with a channel status, after a post. An alert that  *)
(* correlates changes last_seen_at only, the order of what a scan finds.      *)
Report(i) ==
  /\ status[i] = "open"
  /\ channel' = [channel EXCEPT ![i] = "progress"]
  /\ age' = [age EXCEPT ![i] = 0]
  /\ UNCHANGED <<status, roundVars>>

(* A recovery leaves the channel alone; a verdict or an operator is final.    *)
Close(i) ==
  /\ status[i] = "open"
  /\ \/ /\ status' = [status EXCEPT ![i] = "self_recovered"]
        /\ UNCHANGED channel
     \/ /\ status' = [status EXCEPT ![i] = "resolved"]
        /\ channel' = [channel EXCEPT ![i] = "final"]
  /\ age' = [age EXCEPT ![i] = 0]
  /\ UNCHANGED roundVars

-----------------------------------------------------------------------------
(* The watchdog *)

StartRound ==
  /\ pc = "idle"
  /\ todo' = Projects
  /\ pc' = "scan"
  /\ cut' \in BOOLEAN
  /\ UNCHANGED <<rowVars, findings>>

(* Mistake: what a scan has found behind the first report is dropped. *)
FirstFindingOnly(ps, f) ==
  LET left == IF pc = "store" THEN <<>> ELSE f IN
  /\ todo' = IF left = <<>> THEN Tail(ps) ELSE ps
  /\ findings' = left
  /\ pc' = IF left # <<>> THEN "send" ELSE IF Tail(ps) # <<>> THEN "scan" ELSE "idle"
  /\ cut' = cut

(* What follows when the findings f are left for the projects ps. *)
Continue(ps, f) ==
  /\ todo' = IF f = <<>> THEN Tail(ps) ELSE ps
  /\ findings' = f
  /\ pc' = IF f # <<>> THEN "send" ELSE IF Tail(ps) # <<>> THEN "scan" ELSE "idle"
  /\ cut' = cut

(* evaluate_stalled_incidents for the next project: all that is due in one     *)
(* list, in the order of last_seen_at, which can be any.                        *)
Scan(p) ==
  /\ pc = "scan"
  /\ Head(todo) = p
  /\ \E f \in SetToSeqs({i \in Incident : Watches(p, i) /\ Due(i)}) : Continue(todo, f)
  /\ UNCHANGED rowVars

Post(i) ==
  /\ pc = "send"
  /\ Head(findings) = i
  /\ Head(todo) \notin Broken
  /\ pc' = "store"
  /\ UNCHANGED <<rowVars, todo, findings, cut>>

(* update_incident_status, with the status as it is: it refuses to take the   *)
(* final evidence from an incident that was closed, which ends the round.     *)
Store(i) ==
  /\ pc = "store"
  /\ Head(findings) = i
  /\ status[i] # "resolved"
  /\ channel' = [channel EXCEPT ![i] = "watchdog-stalled"]
  /\ age' = [age EXCEPT ![i] = 0]
  /\ Continue(todo, Tail(findings))
  /\ UNCHANGED status

(* The round looks at no further incident and at no further project: it was   *)
(* cut short, or the channel takes no post, or the incident was closed.       *)
EndRound ==
  /\ \/ pc # "idle" /\ cut
     \/ pc = "send" /\ Head(todo) \in Broken
     \/ pc = "store" /\ status[Head(findings)] = "resolved"
  /\ todo' = <<>>
  /\ findings' = <<>>
  /\ pc' = "idle"
  /\ UNCHANGED <<rowVars, cut>>

Others ==
  \/ Tick
  \/ \E i \in Incident : OpenIncident(i) \/ Report(i) \/ Close(i)

Round ==
  \/ StartRound
  \/ \E p \in Project : Scan(p)
  \/ \E i \in Incident : Post(i) \/ Store(i)
  \/ EndRound

Next == Others \/ Round

Spec == Init /\ [][Next]_vars

(* The timer starts a round every minute, a round goes on until it ends, and   *)
(* again and again there is one that neither a failing post nor a kill cuts    *)
(* short.                                                                      *)
Fairness == WF_vars(Round) /\ SF_vars(StartRound /\ ~cut')

FairSpec == Spec /\ Fairness

-----------------------------------------------------------------------------
(* Properties. *)

(* The types of the variables. *)
WatchdogTypeOK ==
  /\ status \in [Incident -> {"absent", "open", "self_recovered", "resolved"}]
  /\ channel \in [Incident -> {"none", "progress", "watchdog-stalled", "final"}]
  /\ age \in [Incident -> 0..MaxAge]
  /\ todo \in Seq(Project)
  /\ findings \in Seq(Incident)
  /\ pc \in {"idle", "scan", "send", "store"}
  /\ cut \in BOOLEAN

(* The watchdog repeats itself about an incident only after it was silent for *)
(* stalled_after_seconds again (docs/operations.md: silent when nothing is    *)
(* due), although what it posts was found before the posts that precede it.   *)
NoNagging ==
  \A i \in Incident :
    pc = "send" /\ Head(findings) = i /\ channel[i] = "watchdog-stalled"
      /\ status[i] = "open"
      => age[i] > StalledAfter

(* The no-silence guarantee (README.md): an incident of a project with a       *)
(* working channel that has missed its SLA does not stay silent for ever.      *)
NoSilentIncident ==
  \A i \in Incident :
    (\E p \in Project \ Broken : Watches(p, i)) => (Due(i) ~> ~Due(i))
=============================================================================
