------------------------- MODULE CloudLedgerProofs -------------------------
(***************************************************************************)
(* Theorems about CloudLedger, for every set of projects, alarms and       *)
(* events.                                                                 *)
(***************************************************************************)
EXTENDS CloudLedger, TLAPS

(* An event that owns a transition row also has its alert_events row. *)
TransitionsRecorded == \A t \in transitions : Recorded(t)

(* An incident exists only once its opening event is recorded, in its own *)
(* project, together with the transition.                                 *)
IncidentsHaveEvents ==
  \A i \in IncidentId :
    status[i] # "absent" => i[2] \in transitions /\ eventProject[i[2]] = i[1]

(* An event that owns a transition is linked to an incident of its own      *)
(* project and alarm only, and an event not seen yet to none.               *)
LinksMatch ==
  /\ \A t \in transitions :
       eventIncident[t] # NoIncident =>
         /\ status[eventIncident[t]] # "absent"
         /\ eventIncident[t][1] = eventProject[t]
         /\ Fingerprint(eventIncident[t]) = t.alarm
  /\ \A e \in Event : ~Recorded(e) => eventIncident[e] = NoIncident

(* The inductive invariant. *)
LedgerInv ==
  /\ LedgerTypeOK
  /\ TransitionsRecorded
  /\ IncidentsHaveEvents
  /\ LinksMatch
  /\ AtMostOneOpen
  /\ LatestDecides

-----------------------------------------------------------------------------
(* No row, an open incident and a closed one are told apart by the status. *)
LEMMA StatusKinds ==
  /\ "absent" \notin IncidentStatus
  /\ ActiveStatus \cap TerminalStatus = {}
  /\ "investigating" \in ActiveStatus
  /\ "self_recovered" \in TerminalStatus
BY DEF IncidentStatus, ActiveStatus, TerminalStatus

(* Recording a first delivery adds exactly its transition, to the history of *)
(* its own project and alarm.                                                *)
LEMMA RecordedTransition ==
  ASSUME LedgerTypeOK, TransitionsRecorded,
         NEW p \in Project, NEW e \in Event, RecordTransition(p, e),
         NEW q \in Project, NEW a \in Alarm
  PROVE  ProjectTransitions(q, a)' =
           IF q = p /\ a = e.alarm
             THEN ProjectTransitions(q, a) \cup {e}
             ELSE ProjectTransitions(q, a)
<1>1. e \notin transitions
  BY DEF RecordTransition, TransitionsRecorded
<1>2. transitions' = transitions \cup {e}
  BY DEF RecordTransition
<1>3. eventProject'[e] = p
  BY DEF RecordTransition, RecordEvent, LedgerTypeOK
<1>4. \A t \in transitions : eventProject'[t] = eventProject[t]
  BY <1>1 DEF RecordTransition, RecordEvent, LedgerTypeOK
<1> QED
  BY <1>2, <1>3, <1>4 DEF ProjectTransitions

(* A late delivery leaves the newest transitions as they are. *)
LEMMA LatestOfOlder ==
  ASSUME LedgerTypeOK, TransitionsRecorded,
         NEW p \in Project, NEW e \in Event, RecordTransition(p, e),
         IsOlder(p, e)
  PROVE  Latest(p, e.alarm)' = Latest(p, e.alarm)
<1> DEFINE PT == ProjectTransitions(p, e.alarm)
<1>1. PT' = PT \cup {e}
  BY RecordedTransition, EventAssumption
<1>2. PICK x \in PT : e.at < x.at
  BY DEF IsOlder
<1>3. \A t \in PT \cup {e} : t.at \in Nat
  BY EventAssumption DEF ProjectTransitions, LedgerTypeOK
<1> HIDE DEF PT
<1>4. Latest(p, e.alarm) = {t \in PT : \A u \in PT : u.at <= t.at}
  BY DEF Latest, PT
<1>5. Latest(p, e.alarm)' = {t \in PT \cup {e} : \A u \in PT \cup {e} : u.at <= t.at}
  BY <1>1 DEF Latest, PT
<1>6. \A t \in PT \cup {e} :
        (\A u \in PT \cup {e} : u.at <= t.at) <=> (t \in PT /\ \A u \in PT : u.at <= t.at)
  BY <1>2, <1>3
<1> QED
  BY <1>4, <1>5, <1>6

(* A delivery that is not late is among the newest transitions. *)
LEMMA LatestOfNewer ==
  ASSUME LedgerTypeOK, TransitionsRecorded,
         NEW p \in Project, NEW e \in Event, RecordTransition(p, e),
         ~IsOlder(p, e)
  PROVE  e \in Latest(p, e.alarm)'
<1> DEFINE PT == ProjectTransitions(p, e.alarm)
<1>1. PT' = PT \cup {e}
  BY RecordedTransition, EventAssumption
<1>2. \A t \in PT \cup {e} : t.at \in Nat
  BY EventAssumption DEF ProjectTransitions, LedgerTypeOK
<1>3. \A t \in PT : ~(e.at < t.at)
  BY DEF IsOlder
<1> HIDE DEF PT
<1>4. Latest(p, e.alarm)' = {t \in PT \cup {e} : \A u \in PT \cup {e} : u.at <= t.at}
  BY <1>1 DEF Latest, PT
<1> QED
  BY <1>2, <1>3, <1>4


-----------------------------------------------------------------------------
(* The initial state satisfies the invariant: every table is empty. *)
LEMMA InitInv == LedgerInit => LedgerInv
<1> SUFFICES ASSUME LedgerInit PROVE LedgerInv
  OBVIOUS
<1>1. \A i \in IncidentId : status[i] = "absent" /\ i[2] \in Event
  BY DEF LedgerInit, IncidentId
<1>2. LedgerTypeOK
  BY <1>1 DEF LedgerInit, LedgerTypeOK, IncidentId
<1>3. "absent" \notin ActiveStatus
  BY DEF ActiveStatus
<1>4. TransitionsRecorded /\ LinksMatch
  BY DEF LedgerInit, TransitionsRecorded, LinksMatch
<1>5. IncidentsHaveEvents
  BY <1>1 DEF IncidentsHaveEvents
<1>6. AtMostOneOpen
  BY <1>1, <1>3 DEF AtMostOneOpen
<1>7. \A p \in Project, a \in Alarm :
        ProjectTransitions(p, a) = {} /\ OpenIncidents(p, a) = {} /\ Latest(p, a) = {}
  BY <1>1, <1>3 DEF LedgerInit, ProjectTransitions, OpenIncidents, Latest
<1>8. LatestDecides
  BY <1>7 DEF LatestDecides
<1> QED
  BY <1>2, <1>4, <1>5, <1>6, <1>8 DEF LedgerInv

(* The step lemmas share their hypotheses: the invariant, one call of        *)
(* process_cloud_alert, and a result of the kind it can return.              *)
LEMMA ResultType ==
  ASSUME LedgerTypeOK, NEW p \in Project, NEW e \in Event,
         NEW r \in CloudAlertProcessResult(p, e)
  PROVE  r.incident \in IncidentId \cup {NoIncident}
<1>1. OpenIncidents(p, e.alarm) \subseteq IncidentId
  BY DEF OpenIncidents
<1>2. IncidentOfTransition(e) \subseteq IncidentId
  BY DEF IncidentOfTransition, SameTransition, LedgerTypeOK
<1>3. <<p, e>> \in IncidentId
  BY DEF IncidentId
<1> QED
  BY <1>1, <1>2, <1>3 DEF CloudAlertProcessResult

(* Every transaction keeps the rows of each table of their kind. *)
LEMMA TypeStep ==
  ASSUME LedgerTypeOK, NEW p \in Project, NEW e \in Event,
         NEW r \in CloudAlertProcessResult(p, e), ProcessCloudAlert(p, e, r)
  PROVE  LedgerTypeOK'
<1> USE DEF LedgerTypeOK
<1>1. r.incident \in IncidentId \cup {NoIncident}
  BY ResultType
<1>2. <<p, e>> \in IncidentId
  BY DEF IncidentId
<1>3. {"investigating", "self_recovered"} \subseteq IncidentStatus
  BY DEF IncidentStatus, ActiveStatus, TerminalStatus
<1>4. \A q \in Project, a \in Alarm : OpenIncidents(q, a) \subseteq IncidentId
  BY DEF OpenIncidents
<1>5. e.alarm \in Alarm
  BY EventAssumption
<1>6. CASE DuplicateEvent(e, r)
  BY <1>6 DEF DuplicateEvent, ledgerVars
<1>7. CASE DuplicateTransition(p, e, r)
  BY <1>1, <1>7 DEF DuplicateTransition, RecordEvent, LinkEvent
<1>8. CASE Correlate(p, e, r)
  BY <1>1, <1>4, <1>5, <1>8 DEF Correlate, RecordTransition, RecordEvent, LinkEvent
<1>9. CASE Open(p, e, r)
  BY <1>2, <1>3, <1>9 DEF Open, Result, RecordTransition, RecordEvent, LinkEvent
<1>10. CASE StaleAlarm(p, e, r)
  BY <1>10 DEF StaleAlarm, RecordTransition, RecordEvent
<1>11. CASE UnmatchedOk(p, e, r)
  BY <1>11 DEF UnmatchedOk, RecordTransition, RecordEvent
<1>12. CASE StaleOk(p, e, r)
  BY <1>12 DEF StaleOk, RecordTransition, RecordEvent
<1>13. CASE Resolve(p, e, r)
  BY <1>3, <1>4, <1>5, <1>13 DEF Resolve, RecordTransition, RecordEvent, LinkEvent
<1>14. CASE Observe(p, e, r)
  BY <1>14 DEF Observe, RecordTransition, RecordEvent
<1> QED
  BY <1>6, <1>7, <1>8, <1>9, <1>10, <1>11, <1>12, <1>13, <1>14 DEF ProcessCloudAlert

(* A redelivered event or transition touches no incident and no transition, *)
(* nor what is known of the events that own one.                            *)
LEMMA DuplicateChangesNothing ==
  ASSUME LedgerTypeOK, TransitionsRecorded, NEW p \in Project, NEW e \in Event,
         NEW r, DuplicateEvent(e, r) \/ DuplicateTransition(p, e, r)
  PROVE  /\ UNCHANGED <<transitions, status, lastEvent>>
         /\ \A t \in transitions : eventProject'[t] = eventProject[t]
         /\ \A t \in transitions : eventIncident'[t] = eventIncident[t]
         /\ \A q \in Project, a \in Alarm :
              UNCHANGED <<ProjectTransitions(q, a), OpenIncidents(q, a), Latest(q, a)>>
<1>1. /\ UNCHANGED <<transitions, status, lastEvent>>
      /\ \A t \in transitions : eventProject'[t] = eventProject[t]
      /\ \A t \in transitions : eventIncident'[t] = eventIncident[t]
  <2>1. CASE DuplicateEvent(e, r)
    BY <2>1 DEF DuplicateEvent, ledgerVars
  <2>2. CASE DuplicateTransition(p, e, r)
    <3>1. e \notin transitions
      BY <2>2 DEF DuplicateTransition, TransitionsRecorded
    <3> QED
      BY <2>2, <3>1 DEF DuplicateTransition, RecordEvent, LinkEvent, LedgerTypeOK
  <2> QED
    BY <2>1, <2>2
<1>2. \A q \in Project, a \in Alarm : UNCHANGED ProjectTransitions(q, a)
  BY <1>1 DEF ProjectTransitions
<1>3. \A q \in Project, a \in Alarm : UNCHANGED <<OpenIncidents(q, a), Latest(q, a)>>
  BY <1>1, <1>2 DEF OpenIncidents, Latest
<1> QED
  BY <1>1, <1>2, <1>3

(* The seven ways to handle a first delivery of a transition. *)
FirstDelivery(p, e, r) ==
  \/ Correlate(p, e, r)
  \/ Open(p, e, r)
  \/ StaleAlarm(p, e, r)
  \/ UnmatchedOk(p, e, r)
  \/ StaleOk(p, e, r)
  \/ Resolve(p, e, r)
  \/ Observe(p, e, r)

(* Whatever a first delivery does, it records its event and transition. *)
LEMMA FirstDeliveryRecords ==
  ASSUME NEW p, NEW e, NEW r, FirstDelivery(p, e, r)
  PROVE  RecordTransition(p, e)
BY DEF FirstDelivery, Correlate, Open, StaleAlarm, UnmatchedOk, StaleOk, Resolve, Observe

(* A delivery repeats an event, repeats a transition, or is a first one. *)
LEMMA DuplicateOrFirst ==
  ASSUME NEW p, NEW e, NEW r, ProcessCloudAlert(p, e, r)
  PROVE  \/ DuplicateEvent(e, r) \/ DuplicateTransition(p, e, r)
         \/ FirstDelivery(p, e, r)
BY DEF ProcessCloudAlert, FirstDelivery

(* The bookkeeping parts of the invariant. *)
LEMMA RecordsStep ==
  ASSUME LedgerInv, NEW p \in Project, NEW e \in Event,
         NEW r \in CloudAlertProcessResult(p, e), ProcessCloudAlert(p, e, r)
  PROVE  TransitionsRecorded' /\ IncidentsHaveEvents'
<1> USE DEF LedgerInv
<1>1. CASE DuplicateEvent(e, r) \/ DuplicateTransition(p, e, r)
  <2>1. /\ UNCHANGED <<transitions, status>>
        /\ \A t \in transitions : eventProject'[t] = eventProject[t]
    BY <1>1, DuplicateChangesNothing
  <2> QED
    BY <2>1 DEF TransitionsRecorded, IncidentsHaveEvents, Recorded
<1>2. CASE FirstDelivery(p, e, r)
  <2>1. RecordTransition(p, e)
    BY <1>2, FirstDeliveryRecords
  <2>2. /\ transitions' = transitions \cup {e}
        /\ eventProject'[e] = p
        /\ \A t \in transitions : eventProject'[t] = eventProject[t]
    BY <2>1 DEF RecordTransition, RecordEvent, LedgerTypeOK, TransitionsRecorded
  <2>3. TransitionsRecorded'
    BY <2>2, NoProjectAssumption DEF TransitionsRecorded, Recorded
  <2>4. \A i \in IncidentId :
          status'[i] # "absent" => status[i] # "absent" \/ i = <<p, e>>
    <3>1. CASE Correlate(p, e, r) \/ StaleAlarm(p, e, r) \/ UnmatchedOk(p, e, r)
               \/ StaleOk(p, e, r) \/ Observe(p, e, r)
      BY <3>1 DEF Correlate, StaleAlarm, UnmatchedOk, StaleOk, Observe
    <3>2. CASE Open(p, e, r)
      BY <3>2 DEF Open, Result, LedgerTypeOK
    <3>3. CASE Resolve(p, e, r)
      BY <3>3, StatusKinds DEF Resolve, OpenIncidents, LedgerTypeOK, IncidentStatus
    <3> QED
      BY <1>2, <3>1, <3>2, <3>3 DEF FirstDelivery
  <2>5. IncidentsHaveEvents'
    BY <2>2, <2>4 DEF IncidentsHaveEvents
  <2> QED
    BY <2>3, <2>5
<1> QED
  BY <1>1, <1>2, DuplicateOrFirst

(* An event is linked only to an incident of its own project and alarm that *)
(* has a row.                                                               *)
LEMMA LinksStep ==
  ASSUME LedgerInv, NEW p \in Project, NEW e \in Event,
         NEW r \in CloudAlertProcessResult(p, e), ProcessCloudAlert(p, e, r)
  PROVE  LinksMatch'
<1> USE DEF LedgerInv
<1>1. CASE DuplicateEvent(e, r) \/ DuplicateTransition(p, e, r)
  <2>1. /\ UNCHANGED <<transitions, status>>
        /\ \A t \in transitions : eventProject'[t] = eventProject[t]
        /\ \A t \in transitions : eventIncident'[t] = eventIncident[t]
    BY <1>1, DuplicateChangesNothing
  <2>2. \A f \in Event :
          ~Recorded(f)' => ~Recorded(f) /\ eventIncident'[f] = eventIncident[f]
    BY <1>1, NoProjectAssumption
       DEF DuplicateEvent, DuplicateTransition, ledgerVars, RecordEvent, LinkEvent,
           Recorded, LedgerTypeOK
  <2> QED
    BY <2>1, <2>2 DEF LinksMatch
<1>2. CASE FirstDelivery(p, e, r)
  <2>1. RecordTransition(p, e)
    BY <1>2, FirstDeliveryRecords
  <2>2. /\ e \notin transitions
        /\ transitions' = transitions \cup {e}
        /\ eventProject'[e] = p
        /\ \A t \in transitions : eventProject'[t] = eventProject[t]
        /\ ~Recorded(e)
        /\ \A f \in Event : ~Recorded(f)' => ~Recorded(f) /\ f # e
    BY <2>1, NoProjectAssumption
       DEF RecordTransition, RecordEvent, Recorded, LedgerTypeOK, TransitionsRecorded
  <2>3. \A i \in IncidentId : status[i] # "absent" => status'[i] # "absent"
    BY <1>2 DEF FirstDelivery, Correlate, Open, StaleAlarm, UnmatchedOk, StaleOk,
                Resolve, Observe, LedgerTypeOK
  <2>4. \A t \in Event \ {e} : eventIncident'[t] = eventIncident[t]
    BY <1>2, <2>2 DEF FirstDelivery, Correlate, Open, StaleAlarm, UnmatchedOk,
                      StaleOk, Resolve, Observe, LinkEvent, LedgerTypeOK
  <2>5. \/ eventIncident'[e] = eventIncident[e]
        \/ /\ eventIncident'[e] \in OpenIncidents(p, e.alarm) \cup {<<p, e>>}
           /\ status'[eventIncident'[e]] # "absent"
    <3>1. CASE Correlate(p, e, r)
      BY <3>1, StatusKinds DEF Correlate, LinkEvent, LedgerTypeOK, OpenIncidents, IncidentStatus
    <3>2. CASE Open(p, e, r)
      BY <3>2 DEF Open, Result, LinkEvent, LedgerTypeOK, IncidentId
    <3>3. CASE Resolve(p, e, r)
      BY <3>3, StatusKinds DEF Resolve, LinkEvent, LedgerTypeOK, OpenIncidents, IncidentStatus
    <3>4. CASE StaleAlarm(p, e, r) \/ UnmatchedOk(p, e, r) \/ StaleOk(p, e, r)
               \/ Observe(p, e, r)
      BY <3>4 DEF StaleAlarm, UnmatchedOk, StaleOk, Observe
    <3> QED
      BY <1>2, <3>1, <3>2, <3>3, <3>4 DEF FirstDelivery
  <2> QED
    BY <2>2, <2>3, <2>4, <2>5 DEF LinksMatch, OpenIncidents, Fingerprint, LedgerTypeOK
<1> QED
  BY <1>1, <1>2, DuplicateOrFirst

(* Only opening and resolving change which incidents are open. *)
LEMMA OpenAfterOpen ==
  ASSUME LedgerTypeOK, NEW p \in Project, NEW e \in Event, NEW r, Open(p, e, r),
         NEW q \in Project, NEW a \in Alarm
  PROVE  /\ q = p /\ a = e.alarm =>
              OpenIncidents(q, a)' = OpenIncidents(q, a) \cup {<<p, e>>}
         /\ ~(q = p /\ a = e.alarm) => UNCHANGED OpenIncidents(q, a)
<1>1. <<p, e>> \in IncidentId
  BY DEF IncidentId
<1>2. \A i \in IncidentId :
        status'[i] = IF i = <<p, e>> THEN "investigating" ELSE status[i]
  BY DEF Open, Result, LedgerTypeOK
<1>3. "investigating" \in ActiveStatus
  BY StatusKinds
<1> QED
  BY <1>1, <1>2, <1>3 DEF OpenIncidents, Fingerprint

(* Resolving closes its incident and leaves every other as it is. *)
LEMMA OpenAfterResolve ==
  ASSUME LedgerTypeOK, NEW p \in Project, NEW e \in Event, NEW r, Resolve(p, e, r),
         NEW q \in Project, NEW a \in Alarm
  PROVE  OpenIncidents(q, a)' = OpenIncidents(q, a) \ {r.incident}
<1>1. r.incident \in IncidentId
  BY DEF Resolve, OpenIncidents
<1>2. \A i \in IncidentId :
        status'[i] = IF i = r.incident THEN "self_recovered" ELSE status[i]
  BY <1>1 DEF Resolve, LedgerTypeOK
<1>3. "self_recovered" \notin ActiveStatus
  BY DEF ActiveStatus
<1> QED
  BY <1>1, <1>2, <1>3 DEF OpenIncidents

(* An alert that neither opens nor resolves leaves the open incidents alone. *)
LEMMA OpenOtherwise ==
  ASSUME NEW p, NEW e, NEW r, FirstDelivery(p, e, r),
         ~Open(p, e, r), ~Resolve(p, e, r)
  PROVE  /\ UNCHANGED status
         /\ \A q \in Project, a \in Alarm : UNCHANGED OpenIncidents(q, a)
<1>1. UNCHANGED status
  BY DEF FirstDelivery, Correlate, StaleAlarm, UnmatchedOk, StaleOk, Observe
<1> QED
  BY <1>1 DEF OpenIncidents

(* In terms of the sets of open incidents. *)
LEMMA AtMostOneOpenSets ==
  AtMostOneOpen <=>
    \A q \in Project, a \in Alarm : \A i, j \in OpenIncidents(q, a) : i = j
<1>1. \A i \in IncidentId : i[1] \in Project /\ Fingerprint(i) \in Alarm
  BY EventAssumption DEF IncidentId, Fingerprint
<1> QED
  BY <1>1 DEF AtMostOneOpen, OpenIncidents

(* No transaction opens a second incident of a project and alarm. *)
LEMMA OneOpenStep ==
  ASSUME LedgerInv, NEW p \in Project, NEW e \in Event,
         NEW r \in CloudAlertProcessResult(p, e), ProcessCloudAlert(p, e, r)
  PROVE  AtMostOneOpen'
<1> USE DEF LedgerInv
<1> DEFINE One == \A q \in Project, a \in Alarm : \A i, j \in OpenIncidents(q, a) : i = j
<1>1. One
  BY AtMostOneOpenSets
<1> SUFFICES One'
  <2>1. \A i \in IncidentId : i[1] \in Project /\ Fingerprint(i) \in Alarm
    BY EventAssumption DEF IncidentId, Fingerprint
  <2> QED
    BY <2>1 DEF AtMostOneOpen, OpenIncidents
<1>2. CASE DuplicateEvent(e, r) \/ DuplicateTransition(p, e, r)
  BY <1>1, <1>2, DuplicateChangesNothing
<1>3. CASE Open(p, e, r)
  <2> SUFFICES ASSUME NEW q \in Project, NEW a \in Alarm
               PROVE  \A i, j \in OpenIncidents(q, a)' : i = j
    OBVIOUS
  <2>1. CASE q = p /\ a = e.alarm
    <3>1. OpenIncidents(q, a) = {}
      BY <1>3, <2>1 DEF Open
    <3>2. OpenIncidents(q, a)' = {<<p, e>>}
      BY <1>3, <2>1, <3>1, OpenAfterOpen
    <3> QED
      BY <3>2
  <2>2. CASE ~(q = p /\ a = e.alarm)
    <3>1. UNCHANGED OpenIncidents(q, a)
      BY <1>3, <2>2, OpenAfterOpen
    <3> QED
      BY <1>1, <3>1
  <2> QED
    BY <2>1, <2>2
<1>4. CASE Resolve(p, e, r)
  BY <1>1, <1>4, OpenAfterResolve
<1>5. CASE FirstDelivery(p, e, r) /\ ~Open(p, e, r) /\ ~Resolve(p, e, r)
  BY <1>1, <1>5, OpenOtherwise
<1> QED
  BY <1>2, <1>3, <1>4, <1>5, DuplicateOrFirst

(* The newest transition decides, whatever arrives. *)
LEMMA LatestStep ==
  ASSUME LedgerInv, NEW p \in Project, NEW e \in Event,
         NEW r \in CloudAlertProcessResult(p, e), ProcessCloudAlert(p, e, r)
  PROVE  LatestDecides'
<1> USE DEF LedgerInv
<1>1. CASE DuplicateEvent(e, r) \/ DuplicateTransition(p, e, r)
  BY <1>1, DuplicateChangesNothing DEF LatestDecides
<1>2. CASE FirstDelivery(p, e, r)
  <2>1. RecordTransition(p, e)
    BY <1>2, FirstDeliveryRecords
  <2> SUFFICES ASSUME NEW q \in Project, NEW a \in Alarm
               PROVE  /\ ProjectTransitions(q, a)' = {} => OpenIncidents(q, a)' = {}
                      /\ Latest(q, a)' # {} =>
                           /\ (\A t \in Latest(q, a)' : t.state = "ALARM")
                                => OpenIncidents(q, a)' # {}
                           /\ (\A t \in Latest(q, a)' : t.state \in RecoveryState)
                                => OpenIncidents(q, a)' = {}
    BY DEF LatestDecides
  <2>2. CASE ~(q = p /\ a = e.alarm)
    <3>1. UNCHANGED ProjectTransitions(q, a)
      BY <2>1, <2>2, RecordedTransition
    <3>2. UNCHANGED Latest(q, a)
      BY <3>1 DEF Latest
    <3>3. UNCHANGED OpenIncidents(q, a)
      <4>1. CASE Open(p, e, r)
        BY <2>2, <4>1, OpenAfterOpen
      <4>2. CASE Resolve(p, e, r)
        BY <2>2, <4>2, OpenAfterResolve DEF Resolve, OpenIncidents
      <4> QED
        BY <1>2, <4>1, <4>2, OpenOtherwise
    <3> QED
      BY <3>1, <3>2, <3>3 DEF LatestDecides
  <2>3. CASE q = p /\ a = e.alarm
    <3>1. e \in ProjectTransitions(q, a)'
      BY <2>1, <2>3, RecordedTransition
    <3>2. "ALARM" \notin RecoveryState
      BY DEF RecoveryState
    <3>3. IsOlder(p, e) => Latest(q, a)' = Latest(q, a)
      BY <2>1, <2>3, LatestOfOlder
    <3>4. ~IsOlder(p, e) => e \in Latest(q, a)'
      BY <2>1, <2>3, LatestOfNewer
    <3>5. CASE Correlate(p, e, r)
      <4>1. OpenIncidents(q, a)' = OpenIncidents(q, a) /\ OpenIncidents(q, a) # {}
        BY <2>3, <3>5 DEF Correlate, OpenIncidents
      <4> QED
        BY <2>3, <3>1, <3>2, <3>3, <3>4, <3>5, <4>1 DEF LatestDecides, Correlate
    <3>6. CASE Open(p, e, r)
      <4>1. <<p, e>> \in OpenIncidents(q, a)'
        BY <2>3, <3>6, OpenAfterOpen
      <4>2. e \in Latest(q, a)' /\ e.state \notin RecoveryState
        BY <3>2, <3>4, <3>6 DEF Open
      <4> QED
        BY <3>1, <4>1, <4>2
    <3>7. CASE StaleAlarm(p, e, r)
      BY <2>3, <3>1, <3>3, <3>7 DEF LatestDecides, StaleAlarm, OpenIncidents
    <3>8. CASE UnmatchedOk(p, e, r)
      <4>1. OpenIncidents(q, a)' = {} /\ OpenIncidents(q, a) = {}
        BY <2>3, <3>8 DEF UnmatchedOk, OpenIncidents
      <4>2. e.state # "ALARM"
        BY <3>2, <3>8 DEF UnmatchedOk
      <4> QED
        BY <3>3, <3>4, <4>1, <4>2 DEF LatestDecides
    <3>9. CASE StaleOk(p, e, r)
      BY <2>3, <3>1, <3>3, <3>9 DEF LatestDecides, StaleOk, OpenIncidents
    <3>10. CASE Resolve(p, e, r)
      <4>1. OpenIncidents(q, a)' = {}
        <5>1. r.incident \in OpenIncidents(q, a)
          BY <2>3, <3>10 DEF Resolve
        <5>2. \A i, j \in OpenIncidents(q, a) : i = j
          BY AtMostOneOpenSets
        <5> QED
          BY <3>10, <5>1, <5>2, OpenAfterResolve
      <4> QED
        BY <3>2, <3>4, <3>10, <4>1 DEF Resolve
    <3>11. CASE Observe(p, e, r)
      <4>1. OpenIncidents(q, a)' = OpenIncidents(q, a)
        BY <3>11 DEF Observe, OpenIncidents
      <4>2. e.state # "ALARM" /\ e.state \notin RecoveryState
        BY <3>11 DEF Observe
      <4> QED
        BY <3>1, <3>3, <3>4, <4>1, <4>2 DEF LatestDecides
    <3> QED
      BY <1>2, <3>5, <3>6, <3>7, <3>8, <3>9, <3>10, <3>11 DEF FirstDelivery
  <2> QED
    BY <2>2, <2>3
<1> QED
  BY <1>1, <1>2, DuplicateOrFirst

-----------------------------------------------------------------------------
(* A step that changes none of the tables keeps everything that is said of *)
(* them.                                                                    *)
LEMMA LedgerStutter ==
  ASSUME UNCHANGED ledgerVars
  PROVE  /\ \A q \in Project, a \in Alarm :
              UNCHANGED <<ProjectTransitions(q, a), OpenIncidents(q, a), Latest(q, a)>>
         /\ LedgerInv => LedgerInv'
<1> USE DEF ledgerVars
<1>1. \A q \in Project, a \in Alarm :
        UNCHANGED <<ProjectTransitions(q, a), OpenIncidents(q, a)>>
  BY DEF ProjectTransitions, OpenIncidents
<1>2. \A q \in Project, a \in Alarm : UNCHANGED Latest(q, a)
  BY <1>1 DEF Latest
<1>3. LedgerInv => LedgerTypeOK' /\ TransitionsRecorded' /\ IncidentsHaveEvents'
  BY DEF LedgerInv, LedgerTypeOK, TransitionsRecorded, IncidentsHaveEvents, Recorded
<1>4. LedgerInv => LinksMatch' /\ AtMostOneOpen'
  BY DEF LedgerInv, LinksMatch, AtMostOneOpen, Recorded, Fingerprint
<1>5. LedgerInv => LatestDecides'
  BY <1>1, <1>2 DEF LedgerInv, LatestDecides
<1> QED
  BY <1>1, <1>2, <1>3, <1>4, <1>5 DEF LedgerInv

(* Every transaction preserves the invariant. *)
LEMMA InvStep == LedgerInv /\ [LedgerNext]_ledgerVars => LedgerInv'
<1> SUFFICES ASSUME LedgerInv, [LedgerNext]_ledgerVars PROVE LedgerInv'
  OBVIOUS
<1>1. CASE LedgerNext
  <2>1. PICK p \in Project, e \in Event :
          \E r \in CloudAlertProcessResult(p, e) : ProcessCloudAlert(p, e, r)
    BY <1>1 DEF LedgerNext
  <2>2. PICK r \in CloudAlertProcessResult(p, e) : ProcessCloudAlert(p, e, r)
    BY <2>1
  <2>3. LedgerTypeOK'
    BY <2>2, TypeStep DEF LedgerInv
  <2>4. TransitionsRecorded' /\ IncidentsHaveEvents'
    BY <2>2, RecordsStep
  <2>5. LinksMatch'
    BY <2>2, LinksStep
  <2>6. AtMostOneOpen'
    BY <2>2, OneOpenStep
  <2>7. LatestDecides'
    BY <2>2, LatestStep
  <2> QED
    BY <2>3, <2>4, <2>5, <2>6, <2>7 DEF LedgerInv
<1>2. CASE UNCHANGED ledgerVars
  BY <1>2, LedgerStutter
<1> QED
  BY <1>1, <1>2

(* The inductive invariant holds in every reachable state. *)
THEOREM LedgerInvariant == LedgerSpec => []LedgerInv
<1> QED
  BY InitInv, InvStep, PTL DEF LedgerSpec

(* The tables keep their types: every write of process_cloud_alert stores a *)
(* known status and existing ids.                                           *)
THEOREM TypeCorrect == LedgerSpec => []LedgerTypeOK
<1>1. LedgerInv => LedgerTypeOK
  BY DEF LedgerInv
<1> QED
  BY <1>1, LedgerInvariant, PTL

(* Whatever is delivered, and however often, a project never has two open   *)
(* incidents for one alarm.                                                 *)
THEOREM OneOpenIncident == LedgerSpec => []AtMostOneOpen
<1>1. LedgerInv => AtMostOneOpen
  BY DEF LedgerInv
<1> QED
  BY <1>1, LedgerInvariant, PTL

(* In every delivery order the newest transition decides whether an incident *)
(* is open.                                                                  *)
THEOREM OrderIndependence == LedgerSpec => []LatestDecides
<1>1. LedgerInv => LatestDecides
  BY DEF LedgerInv
<1> QED
  BY <1>1, LedgerInvariant, PTL

-----------------------------------------------------------------------------
(* A transaction leaves closed incidents closed: the row an ALARM inserts is *)
(* new, because its event_id was.                                            *)
LEMMA ResurrectionStep ==
  ASSUME LedgerInv, [LedgerNext]_ledgerVars,
         NEW i \in IncidentId, status[i] \in TerminalStatus
  PROVE  status'[i] = status[i]
<1>1. CASE LedgerNext
  <2>1. PICK p \in Project, e \in Event :
          \E r \in CloudAlertProcessResult(p, e) : ProcessCloudAlert(p, e, r)
    BY <1>1 DEF LedgerNext
  <2>2. PICK r \in CloudAlertProcessResult(p, e) : ProcessCloudAlert(p, e, r)
    BY <2>1
  <2>3. CASE DuplicateEvent(e, r) \/ DuplicateTransition(p, e, r)
    BY <2>3 DEF DuplicateEvent, DuplicateTransition, ledgerVars
  <2>4. CASE Open(p, e, r)
    <3>1. status[i] # "absent"
      BY StatusKinds DEF IncidentStatus
    <3>2. i[2] # e
      BY <2>4, <3>1 DEF Open, RecordTransition, LedgerInv, IncidentsHaveEvents,
                        TransitionsRecorded
    <3> QED
      BY <2>4, <3>2 DEF Open, Result, LedgerInv, LedgerTypeOK
  <2>5. CASE Resolve(p, e, r)
    <3>1. status[r.incident] \in ActiveStatus
      BY <2>5 DEF Resolve, OpenIncidents
    <3>2. r.incident # i
      BY <3>1, StatusKinds
    <3> QED
      BY <2>5, <3>2 DEF Resolve, LedgerInv, LedgerTypeOK
  <2>6. CASE FirstDelivery(p, e, r) /\ ~Open(p, e, r) /\ ~Resolve(p, e, r)
    BY <2>6, OpenOtherwise
  <2> QED
    BY <2>2, <2>3, <2>4, <2>5, <2>6, DuplicateOrFirst
<1>2. CASE UNCHANGED ledgerVars
  BY <1>2 DEF ledgerVars
<1> QED
  BY <1>1, <1>2

(* No delivery reopens an incident that was closed. *)
THEOREM ClosedStaysClosed == LedgerSpec => NoResurrection
<1>1. LedgerInv /\ [LedgerNext]_ledgerVars =>
        [\A i \in IncidentId :
           status[i] \in TerminalStatus => status'[i] = status[i]]_ledgerVars
  BY ResurrectionStep
<1> QED
  BY <1>1, LedgerInvariant, PTL DEF LedgerSpec, NoResurrection

-----------------------------------------------------------------------------
(* The refinement: the abstract register's variables as state functions. *)
Seen == [k \in Project \X Alarm |-> Reports(k[1], k[2])]
Firing == [k \in Project \X Alarm |-> OpenIncidents(k[1], k[2]) # {}]

(* No history and no open incident at the start: the register is unset. *)
LEMMA RegisterInit == LedgerInit => Register!Init
<1> SUFFICES ASSUME LedgerInit PROVE Register!Init
  OBVIOUS
<1>1. \A p \in Project, a \in Alarm : Reports(p, a) = {} /\ OpenIncidents(p, a) = {}
  <2>1. "absent" \notin ActiveStatus
    BY DEF ActiveStatus
  <2> QED
    BY <2>1 DEF LedgerInit, Reports, ProjectTransitions, OpenIncidents, IncidentId
<1> QED
  BY <1>1 DEF Register!Init

(* Being older than a transition of the project is being late at the register.*)
LEMMA OlderIsLate ==
  ASSUME LedgerTypeOK, NEW p \in Project, NEW e \in Event
  PROVE  IsOlder(p, e) <=> \E s \in Reports(p, e.alarm) : e.at < s[1]
<1>1. ASSUME IsOlder(p, e)
      PROVE  \E s \in Reports(p, e.alarm) : e.at < s[1]
  <2>1. PICK t \in ProjectTransitions(p, e.alarm) : e.at < t.at
    BY <1>1 DEF IsOlder
  <2>2. <<t.at, ReportKind(t)>> \in Reports(p, e.alarm)
    BY DEF Reports
  <2> QED
    BY <2>1, <2>2
<1>2. ASSUME NEW s \in Reports(p, e.alarm), e.at < s[1]
      PROVE  IsOlder(p, e)
  <2>1. PICK t \in ProjectTransitions(p, e.alarm) : s = <<t.at, ReportKind(t)>>
    BY DEF Reports
  <2>2. s[1] = t.at
    BY <2>1
  <2> QED
    BY <1>2, <2>2 DEF IsOlder
<1> QED
  BY <1>1, <1>2

(* A first delivery adds its report, and sets the register by its kind unless *)
(* it is late.                                                                *)
LEMMA RegisterReport ==
  ASSUME LedgerInv, NEW p \in Project, NEW e \in Event,
         NEW r \in CloudAlertProcessResult(p, e), FirstDelivery(p, e, r)
  PROVE  Register!Report(<<p, e.alarm>>, e.at, ReportKind(e))
<1> USE DEF LedgerInv
<1> DEFINE k == <<p, e.alarm>>
<1>1. k \in Project \X Alarm
  BY EventAssumption
<1>2. RecordTransition(p, e)
  BY FirstDeliveryRecords
<1>3. \A q \in Project, a \in Alarm :
        Reports(q, a)' = IF q = p /\ a = e.alarm
                           THEN Reports(q, a) \cup {<<e.at, ReportKind(e)>>}
                           ELSE Reports(q, a)
  BY <1>2, RecordedTransition DEF Reports
<1>4. Seen' = [Seen EXCEPT ![k] = @ \cup {<<e.at, ReportKind(e)>>}]
  <2>1. Seen' = [x \in Project \X Alarm |-> Reports(x[1], x[2])']
    BY DEF Seen
  <2>2. \A x \in Project \X Alarm :
          Reports(x[1], x[2])' =
            IF x = k THEN Reports(x[1], x[2]) \cup {<<e.at, ReportKind(e)>>}
                     ELSE Reports(x[1], x[2])
    <3>1. \A x \in Project \X Alarm :
            /\ x[1] \in Project /\ x[2] \in Alarm
            /\ x = k <=> x[1] = p /\ x[2] = e.alarm
      OBVIOUS
    <3> QED
      BY <1>3, <3>1
  <2> QED
    BY <1>1, <2>1, <2>2 DEF Seen
<1>5. (\E s \in Seen[k] : e.at < s[1]) <=> IsOlder(p, e)
  BY <1>1, OlderIsLate DEF Seen
<1>6. \/ IsOlder(p, e) /\ UNCHANGED Firing
      \/ /\ ~IsOlder(p, e)
         /\ Firing' = [Firing EXCEPT ![k] = IF ReportKind(e) = "neutral"
                                              THEN @ ELSE ReportKind(e) = "alarm"]
  <2> DEFINE was == OpenIncidents(p, e.alarm) # {}
             now == OpenIncidents(p, e.alarm)' # {}
  <2>1. Firing' = [Firing EXCEPT ![k] = now] /\ Firing[k] = was
    <3>1. \A x \in Project \X Alarm :
            x # k => OpenIncidents(x[1], x[2])' = OpenIncidents(x[1], x[2])
      <4> SUFFICES ASSUME NEW x \in Project \X Alarm, x # k
                   PROVE  OpenIncidents(x[1], x[2])' = OpenIncidents(x[1], x[2])
        OBVIOUS
      <4>1. x[1] \in Project /\ x[2] \in Alarm /\ ~(x[1] = p /\ x[2] = e.alarm)
        OBVIOUS
      <4>2. CASE Open(p, e, r)
        BY <4>1, <4>2, OpenAfterOpen
      <4>3. CASE Resolve(p, e, r)
        <5>1. r.incident \notin OpenIncidents(x[1], x[2])
          BY <4>1, <4>3 DEF Resolve, OpenIncidents
        <5>2. OpenIncidents(x[1], x[2])' = OpenIncidents(x[1], x[2]) \ {r.incident}
          BY <4>1, <4>3, OpenAfterResolve
        <5> QED
          BY <5>1, <5>2
      <4> QED
        BY <4>1, <4>2, <4>3, OpenOtherwise
    <3>2. Firing' = [x \in Project \X Alarm |-> OpenIncidents(x[1], x[2])' # {}]
      BY DEF Firing
    <3>3. \A x \in Project \X Alarm :
            (OpenIncidents(x[1], x[2])' # {}) = IF x = k THEN now ELSE Firing[x]
      BY <3>1 DEF Firing
    <3>4. Firing[k] = was
      BY <1>1 DEF Firing
    <3>5. DOMAIN Firing = Project \X Alarm
      BY DEF Firing
    <3> HIDE DEF now, was
    <3> QED
      BY <1>1, <3>2, <3>3, <3>4, <3>5 DEF Firing
  <2>2. /\ e.state = "ALARM" => ReportKind(e) = "alarm"
        /\ e.state \in RecoveryState => ReportKind(e) = "recovery"
        /\ e.state \notin RecoveryState \cup {"ALARM"} => ReportKind(e) = "neutral"
    BY DEF ReportKind, RecoveryState
  <2>3. \/ IsOlder(p, e) /\ now = was
        \/ ~IsOlder(p, e) /\ now = IF ReportKind(e) = "neutral"
                                     THEN was ELSE ReportKind(e) = "alarm"
    <3>1. CASE Correlate(p, e, r)
      BY <2>2, <3>1, OpenOtherwise, EventAssumption DEF Correlate, Open, Resolve, RecoveryState, OpenIncidents
    <3>2. CASE Open(p, e, r)
      <4>1. <<p, e>> \in OpenIncidents(p, e.alarm)'
        BY <3>2, OpenAfterOpen, EventAssumption
      <4>2. now
        BY <4>1
      <4> QED
        BY <2>2, <3>2, <4>2 DEF Open
    <3>3. CASE StaleAlarm(p, e, r)
      BY <3>3 DEF StaleAlarm, OpenIncidents
    <3>4. CASE UnmatchedOk(p, e, r)
      BY <2>2, <3>4 DEF UnmatchedOk, OpenIncidents
    <3>5. CASE StaleOk(p, e, r)
      BY <3>5 DEF StaleOk, OpenIncidents
    <3>6. CASE Resolve(p, e, r)
      <4>1. r.incident \in OpenIncidents(p, e.alarm)
        BY <3>6 DEF Resolve
      <4>2. \A i, j \in OpenIncidents(p, e.alarm) : i = j
        BY AtMostOneOpenSets, EventAssumption
      <4>3. ~now
        BY <3>6, <4>1, <4>2, OpenAfterResolve, EventAssumption
      <4> QED
        BY <2>2, <3>6, <4>3 DEF Resolve
    <3>7. CASE Observe(p, e, r)
      BY <2>2, <3>7 DEF Observe, OpenIncidents
    <3> QED
      BY <3>1, <3>2, <3>3, <3>4, <3>5, <3>6, <3>7 DEF FirstDelivery
  <2>4. CASE IsOlder(p, e)
    <3>1. Firing' = [Firing EXCEPT ![k] = Firing[k]]
      BY <2>1, <2>3, <2>4
    <3> QED
      BY <1>1, <2>4, <3>1 DEF Firing
  <2>5. CASE ~IsOlder(p, e)
    BY <2>1, <2>3, <2>5
  <2> QED
    BY <2>4, <2>5
<1> QED
  BY <1>4, <1>5, <1>6 DEF Register!Report, Register!Late, Register!Set, Seen, Firing

(* Every transaction is a report at the register, or a stutter. *)
LEMMA RegisterStep ==
  LedgerInv /\ [LedgerNext]_ledgerVars => [Register!Next]_(Register!vars)
<1> SUFFICES ASSUME LedgerInv, [LedgerNext]_ledgerVars
             PROVE  [Register!Next]_(Register!vars)
  OBVIOUS
<1>1. ASSUME \A p \in Project, a \in Alarm :
               UNCHANGED <<ProjectTransitions(p, a), OpenIncidents(p, a)>>
      PROVE  UNCHANGED <<Seen, Firing>>
  BY <1>1 DEF Seen, Firing, Reports
<1>2. CASE LedgerNext
  <2>1. PICK p \in Project, e \in Event :
          \E r \in CloudAlertProcessResult(p, e) : ProcessCloudAlert(p, e, r)
    BY <1>2 DEF LedgerNext
  <2>2. PICK r \in CloudAlertProcessResult(p, e) : ProcessCloudAlert(p, e, r)
    BY <2>1
  <2>3. CASE DuplicateEvent(e, r) \/ DuplicateTransition(p, e, r)
    <3>1. UNCHANGED <<Seen, Firing>>
      BY <1>1, <2>3, DuplicateChangesNothing DEF LedgerInv
    <3> QED
      BY <3>1 DEF Register!vars, Seen, Firing
  <2>4. CASE FirstDelivery(p, e, r)
    <3>1. Register!Report(<<p, e.alarm>>, e.at, ReportKind(e))
      BY <2>4, RegisterReport
    <3>2. /\ <<p, e.alarm>> \in Project \X Alarm
          /\ e.at \in {f.at : f \in Event}
          /\ ReportKind(e) \in Register!Kind
      BY EventAssumption DEF ReportKind, Register!Kind
    <3> QED
      BY <3>1, <3>2 DEF Register!Next
  <2> QED
    BY <2>2, <2>3, <2>4, DuplicateOrFirst
<1>3. CASE UNCHANGED ledgerVars
  <2>1. UNCHANGED <<Seen, Firing>>
    BY <1>1, <1>3, LedgerStutter
  <2> QED
    BY <2>1 DEF Register!vars, Seen, Firing
<1> QED
  BY <1>2, <1>3

(* The ledger implements the last-writer-wins register, for any number of    *)
(* projects, alarms and events, delivered in any order and any number of     *)
(* times.                                                                    *)
THEOREM Refinement == LedgerSpec => ImplementsRegister
<1> QED
  BY RegisterInit, RegisterStep, LedgerInvariant, PTL
     DEF LedgerSpec, ImplementsRegister, Register!Spec

-----------------------------------------------------------------------------
(* No transition speaks against last_event_id: it is not newer, or it came  *)
(* after a still newer report that is neither an alarm nor a recovery.      *)
Covered(i, t) ==
  \/ t.at <= lastEvent[i].at
  \/ \E u \in ProjectTransitions(i[1], Fingerprint(i)) :
       ReportKind(u) = "neutral" /\ t.at < u.at

(* What LastEventIsNewest needs to be inductive: while an incident is open,  *)
(* every alarm and recovery of its alarm is covered, linked to it or not. A  *)
(* late ALARM is linked without moving last_event_id, and what it was late   *)
(* for need not be linked.                                                   *)
NewestEvidence ==
  \A i \in IncidentId : \A t \in ProjectTransitions(i[1], Fingerprint(i)) :
    \/ status[i] \in ActiveStatus /\ ReportKind(t) # "neutral"
    \/ eventIncident[t] = i
    => Covered(i, t)

(* Coverage passes down: what is older than something covered is covered. *)
LEMMA CoveredBelow ==
  ASSUME LedgerTypeOK, NEW i \in IncidentId, NEW t \in Event, NEW u \in Event,
         t.at < u.at, Covered(i, u)
  PROVE  Covered(i, t)
<1>1. /\ t.at \in Nat /\ u.at \in Nat /\ lastEvent[i].at \in Nat
      /\ \A x \in ProjectTransitions(i[1], Fingerprint(i)) : x.at \in Nat
  BY EventAssumption DEF LedgerTypeOK, ProjectTransitions
<1> QED
  BY <1>1 DEF Covered

(* A late alarm or recovery is covered by an open incident of its alarm: what *)
(* it is late for is neutral, or covered itself.                              *)
LEMMA LateIsCovered ==
  ASSUME LedgerTypeOK, NewestEvidence, NEW p \in Project, NEW e \in Event,
         IsOlder(p, e), NEW i \in OpenIncidents(p, e.alarm)
  PROVE  Covered(i, e)
<1>1. PICK u \in ProjectTransitions(p, e.alarm) : e.at < u.at
  BY DEF IsOlder
<1>2. i \in IncidentId /\ i[1] = p /\ Fingerprint(i) = e.alarm /\ status[i] \in ActiveStatus
  BY DEF OpenIncidents
<1>3. u \in Event
  BY DEF ProjectTransitions, LedgerTypeOK
<1>4. CASE ReportKind(u) = "neutral"
  BY <1>1, <1>2, <1>4 DEF Covered
<1>5. CASE ReportKind(u) # "neutral"
  <2>1. Covered(i, u)
    BY <1>1, <1>2, <1>5 DEF NewestEvidence
  <2> QED
    BY <1>1, <1>2, <1>3, <2>1, CoveredBelow
<1> QED
  BY <1>4, <1>5

(* Every transaction keeps the linked transitions covered. *)
LEMMA EvidenceStep ==
  ASSUME LedgerInv, NewestEvidence, NEW p \in Project, NEW e \in Event,
         NEW r \in CloudAlertProcessResult(p, e), FirstDelivery(p, e, r)
  PROVE  NewestEvidence'
<1> USE DEF LedgerInv
<1>1. RecordTransition(p, e)
  BY FirstDeliveryRecords
<1>2. e \notin transitions /\ ~Recorded(e) /\ eventIncident[e] = NoIncident
  BY <1>1 DEF RecordTransition, TransitionsRecorded, LinksMatch
<1>3. \A i \in IncidentId :
        /\ i[1] \in Project /\ Fingerprint(i) \in Alarm
        /\ ProjectTransitions(i[1], Fingerprint(i))' =
             IF i[1] = p /\ Fingerprint(i) = e.alarm
               THEN ProjectTransitions(i[1], Fingerprint(i)) \cup {e}
               ELSE ProjectTransitions(i[1], Fingerprint(i))
  <2>1. \A i \in IncidentId : i[1] \in Project /\ Fingerprint(i) \in Alarm
    BY EventAssumption DEF IncidentId, Fingerprint
  <2> QED
    BY <1>1, <2>1, RecordedTransition DEF Fingerprint
<1>4. \A t \in Event \ {e} : eventIncident'[t] = eventIncident[t]
  BY DEF FirstDelivery, Correlate, Open, StaleAlarm, UnmatchedOk, StaleOk, Resolve,
         Observe, LinkEvent, LedgerTypeOK
<1> SUFFICES ASSUME NEW i \in IncidentId,
                    NEW t \in ProjectTransitions(i[1], Fingerprint(i))',
                    \/ status'[i] \in ActiveStatus /\ ReportKind(t) # "neutral"
                    \/ eventIncident'[t] = i
             PROVE  Covered(i, t)'
  BY DEF NewestEvidence, Fingerprint
<1>5. t \in Event /\ (t = e => i[1] = p /\ Fingerprint(i) = e.alarm)
  <2>1. t \in ProjectTransitions(i[1], Fingerprint(i)) \cup {e}
    BY <1>3
  <2>2. e \notin ProjectTransitions(i[1], Fingerprint(i))
    BY <1>2 DEF ProjectTransitions
  <2> QED
    BY <1>3, <2>1, <2>2 DEF ProjectTransitions, LedgerTypeOK
(* An incident whose last_event_id becomes e: e is late for nothing. *)
<1>6. CASE /\ lastEvent'[i] = e /\ ~IsOlder(p, e)
           /\ i[1] = p /\ Fingerprint(i) = e.alarm
  <2>1. t = e \/ t \in ProjectTransitions(p, e.alarm)
    BY <1>3, <1>6
  <2>2. e.at \in Nat /\ t.at \in Nat
    BY <1>5, EventAssumption
  <2>3. t.at <= e.at
    BY <1>6, <2>1, <2>2 DEF IsOlder
  <2> QED
    BY <1>6, <2>3 DEF Covered
(* An incident that stays as it is. *)
<1>7. CASE /\ lastEvent'[i] = lastEvent[i]
           /\ status'[i] \in ActiveStatus => status[i] \in ActiveStatus
           /\ t = e => IsOlder(p, e) /\ i \in OpenIncidents(p, e.alarm)
  <2>1. Covered(i, t)
    <3>1. CASE t = e
      BY <1>7, <3>1, LateIsCovered
    <3>2. CASE t # e
      <4>1. t \in ProjectTransitions(i[1], Fingerprint(i))
        BY <1>3, <3>2
      <4>2. eventIncident'[t] = eventIncident[t]
        BY <1>4, <1>5, <3>2
      <4> QED
        BY <1>7, <4>1, <4>2 DEF NewestEvidence
    <3> QED
      BY <3>1, <3>2
  <2>2. ProjectTransitions(i[1], Fingerprint(i))
          \subseteq ProjectTransitions(i[1], Fingerprint(i))'
    BY <1>3
  <2> QED
    BY <1>7, <2>1, <2>2 DEF Covered, Fingerprint
<1>8. CASE Correlate(p, e, r)
  <2>1. r.incident \in OpenIncidents(p, e.alarm)
    BY <1>8 DEF Correlate
  <2>2. UNCHANGED status /\ eventIncident'[e] = r.incident
    BY <1>8 DEF Correlate, LinkEvent, LedgerTypeOK
  <2>3. t = e => i \in OpenIncidents(p, e.alarm)
    BY <1>5, <2>1, <2>2 DEF OpenIncidents
  <2>4. CASE i = r.incident /\ ~IsOlder(p, e)
    BY <1>6, <1>8, <2>1, <2>4 DEF Correlate, OpenIncidents, LedgerTypeOK
  <2>5. CASE i = r.incident /\ IsOlder(p, e)
    BY <1>7, <1>8, <2>2, <2>3, <2>5 DEF Correlate
  <2>6. CASE i # r.incident
    <3>1. t # e
      BY <1>5, <2>1, <2>3, <2>6, AtMostOneOpenSets, EventAssumption
    <3> QED
      BY <1>7, <1>8, <2>2, <2>6, <3>1 DEF Correlate, LedgerTypeOK
  <2> QED
    BY <2>4, <2>5, <2>6
<1>9. CASE Open(p, e, r)
  <2>1. OpenIncidents(p, e.alarm) = {} /\ ~IsOlder(p, e)
    BY <1>9 DEF Open
  <2>2. CASE i = <<p, e>>
    <3>1. lastEvent'[i] = e
      BY <1>9, <2>2 DEF Open, Result, LedgerTypeOK
    <3>2. i[1] = p /\ Fingerprint(i) = e.alarm
      BY <2>2 DEF Fingerprint
    <3> QED
      BY <1>6, <2>1, <3>1, <3>2
  <2>3. CASE i # <<p, e>>
    <3>1. lastEvent'[i] = lastEvent[i] /\ status'[i] = status[i]
      BY <1>9, <2>3 DEF Open, Result, LedgerTypeOK
    <3>2. eventIncident'[e] = <<p, e>>
      BY <1>9 DEF Open, Result, LinkEvent, LedgerTypeOK
    <3>3. t # e
      BY <1>5, <2>1, <2>3, <3>1, <3>2 DEF OpenIncidents
    <3> QED
      BY <1>7, <3>1, <3>3
  <2> QED
    BY <2>2, <2>3
<1>10. CASE Resolve(p, e, r)
  <2>1. r.incident \in OpenIncidents(p, e.alarm) /\ ~IsOlder(p, e)
    BY <1>10 DEF Resolve
  <2>2. CASE i = r.incident
    <3>1. lastEvent'[i] = e
      BY <1>10, <2>2 DEF Resolve, LedgerTypeOK
    <3> QED
      BY <1>6, <2>1, <2>2, <3>1 DEF OpenIncidents
  <2>3. CASE i # r.incident
    <3>1. lastEvent'[i] = lastEvent[i] /\ status'[i] = status[i]
      BY <1>10, <2>3 DEF Resolve, LedgerTypeOK
    <3>2. eventIncident'[e] = r.incident
      BY <1>10 DEF Resolve, LinkEvent, LedgerTypeOK
    <3>3. t = e => i \in OpenIncidents(p, e.alarm)
      BY <1>5, <2>3, <3>1, <3>2 DEF OpenIncidents
    <3>4. t # e
      BY <2>1, <2>3, <3>3, AtMostOneOpenSets, EventAssumption
    <3> QED
      BY <1>7, <3>1, <3>4
  <2> QED
    BY <2>2, <2>3
<1>11. CASE StaleAlarm(p, e, r) \/ UnmatchedOk(p, e, r) \/ StaleOk(p, e, r)
            \/ Observe(p, e, r)
  <2>1. UNCHANGED <<status, lastEvent, eventIncident>>
    BY <1>11 DEF StaleAlarm, UnmatchedOk, StaleOk, Observe
  <2>2. t = e => i \in OpenIncidents(p, e.alarm) /\ ReportKind(e) # "neutral"
    BY <1>2, <1>5, <2>1, NoIncidentAssumption DEF OpenIncidents
  <2>3. t = e => IsOlder(p, e)
    <3>1. e.state \notin RecoveryState \cup {"ALARM"} => ReportKind(e) = "neutral"
      BY DEF ReportKind
    <3> QED
      BY <1>11, <2>2, <3>1 DEF StaleAlarm, UnmatchedOk, StaleOk, Observe
  <2> QED
    BY <1>7, <2>1, <2>2, <2>3
<1> QED
  BY <1>8, <1>9, <1>10, <1>11 DEF FirstDelivery

(* last_event_id names the newest evidence of its incident, in every delivery *)
(* order.                                                                     *)
THEOREM NewestEvidenceNamed == LedgerSpec => []LastEventIsNewest
<1>1. LedgerInit => NewestEvidence
  BY DEF LedgerInit, NewestEvidence, ProjectTransitions
<1>2. LedgerInv /\ NewestEvidence /\ [LedgerNext]_ledgerVars => NewestEvidence'
  <2> SUFFICES ASSUME LedgerInv, NewestEvidence, [LedgerNext]_ledgerVars
               PROVE  NewestEvidence'
    OBVIOUS
  <2>1. CASE LedgerNext
    <3>1. PICK p \in Project, e \in Event :
            \E r \in CloudAlertProcessResult(p, e) : ProcessCloudAlert(p, e, r)
      BY <2>1 DEF LedgerNext
    <3>2. PICK r \in CloudAlertProcessResult(p, e) : ProcessCloudAlert(p, e, r)
      BY <3>1
    <3>3. CASE DuplicateEvent(e, r) \/ DuplicateTransition(p, e, r)
      <4>1. /\ UNCHANGED <<transitions, status, lastEvent>>
            /\ \A t \in transitions : eventIncident'[t] = eventIncident[t]
            /\ \A q \in Project, a \in Alarm : UNCHANGED ProjectTransitions(q, a)
        BY <3>3, DuplicateChangesNothing DEF LedgerInv
      <4>2. \A i \in IncidentId : i[1] \in Project /\ Fingerprint(i) \in Alarm
        BY EventAssumption DEF IncidentId, Fingerprint
      <4> QED
        BY <4>1, <4>2 DEF NewestEvidence, Covered, Fingerprint, ProjectTransitions
    <3>4. CASE FirstDelivery(p, e, r)
      BY <3>4, EvidenceStep
    <3> QED
      BY <3>2, <3>3, <3>4, DuplicateOrFirst
  <2>2. CASE UNCHANGED ledgerVars
    BY <2>2 DEF ledgerVars, NewestEvidence, Covered, Fingerprint, ProjectTransitions
  <2> QED
    BY <2>1, <2>2
<1>3. LedgerInv /\ NewestEvidence => LastEventIsNewest
  <2> SUFFICES ASSUME LedgerInv, NewestEvidence, NEW t \in transitions,
                      eventIncident[t] # NoIncident
               PROVE  Covered(eventIncident[t], t)
    BY DEF LastEventIsNewest, Covered
  <2>1. eventIncident[t] \in IncidentId
    BY DEF LedgerInv, LedgerTypeOK
  <2>2. t \in ProjectTransitions(eventIncident[t][1], Fingerprint(eventIncident[t]))
    BY DEF LedgerInv, LinksMatch, ProjectTransitions
  <2> QED
    BY <2>1, <2>2 DEF NewestEvidence
<1> QED
  BY <1>1, <1>2, <1>3, LedgerInvariant, PTL DEF LedgerSpec

=============================================================================
