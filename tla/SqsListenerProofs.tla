------------------------- MODULE SqsListenerProofs -------------------------
(***************************************************************************)
(* Theorems about SqsListener, for any number of listeners, messages and   *)
(* queues, batches of any size and every redrive policy. Where an alert    *)
(* may reach the queues of two projects, effects can be missed; what       *)
(* excludes this is stated where it is needed.                             *)
(***************************************************************************)
EXTENDS SqsListener, CloudLedgerProofs

(* What is in the ledger came from a message of the project that it is for. *)
FromQueue ==
  \A e \in Event :
    Recorded(e) => \E m \in Message : m.event = e /\ m.project = eventProject[e]

(* An alert in the ledger has its transition, made by itself or by another. *)
KeysKept == \A e \in Event : Recorded(e) => SameTransition(e) # {}

(* Neutral reports are linked to no incident. *)
NeutralUnlinked ==
  \A t \in transitions :
    eventIncident[t] # NoIncident => t.state \in RecoveryState \cup {"ALARM"}

(* The ledger knows of no card that is not there, and nothing is written on a *)
(* card that the ledger does not know.                                        *)
CardsKnown ==
  /\ \A i \in IncidentId : kanbanTask[i] => i \in cards
  /\ \A c \in comments : kanbanTask[c[1]]

Handling == {"check", "effects", "create", "attach", "comment", "record", "delete"}

OnCard == {"create", "attach", "comment"}

Acting == {"opened", "correlated", "resolved"}

(* A result agrees with the links of the ledger. *)
Agrees(r, p, e) ==
  /\ r.action # "duplicate_transition"
  /\ r.action \in Acting =>
       r.incident \in IncidentId /\ e \in transitions /\ eventIncident[e] = r.incident
  /\ r.action = "opened" => r.incident = <<p, e>>
  /\ r.action \notin Acting \cup {"duplicate_event"} => eventIncident[e] = NoIncident

(* What a listener carries in memory, while it handles an alert. *)
Carries(l) ==
  /\ \A n \in 1..Len(batch[l]) : batch[l][n].project = l.project
  /\ pc[l] \in Handling => Alert(l) \in Event /\ Recorded(Alert(l))
  /\ pc[l] \in {"check", "effects"} \cup OnCard => Agrees(work[l], l.project, Alert(l))
  /\ pc[l] \in OnCard => work[l].incident \in IncidentId
  /\ pc[l] = "attach" => work[l].incident \in cards
  /\ pc[l] = "comment" => kanbanTask[work[l].incident]

(* The inductive invariant of what is in memory and in the tables. *)
MemoryInv ==
  /\ ListenerTypeOK
  /\ LedgerInv
  /\ FromQueue
  /\ KeysKept
  /\ NeutralUnlinked
  /\ CardsKnown
  /\ \A l \in Listener : Carries(l)

-----------------------------------------------------------------------------
(* No table takes anything back, and what is recorded of an alert is final. *)
LedgerGrows ==
  \A e \in Event : Recorded(e) =>
    /\ eventProject'[e] = eventProject[e]
    /\ eventIncident'[e] = eventIncident[e]
    /\ e \in transitions' <=> e \in transitions

Grows ==
  /\ LedgerGrows
  /\ transitions \subseteq transitions'
  /\ \A i \in IncidentId : kanbanTask[i] => kanbanTask'[i]
  /\ cards \subseteq cards'
  /\ comments \subseteq comments'
  /\ sideEffect \subseteq sideEffect'

(* Nobody but l has moved. *)
Alone(l) ==
  \A k \in Listener \ {l} :
    pc'[k] = pc[k] /\ batch'[k] = batch[k] /\ work'[k] = work[k]

Same(l) == pc'[l] = pc[l] /\ batch'[l] = batch[l] /\ work'[l] = work[l]

LEMMA CurrentInBatch ==
  ASSUME MemoryInv, NEW l \in Listener, pc[l] # "poll"
  PROVE  /\ batch[l] \in Seq(Message) /\ batch[l] # <<>>
         /\ Current(l) \in Message /\ Current(l).project = l.project
         /\ l.project \in Project
<1>1. batch[l] \in Seq(Message) /\ batch[l] # <<>>
  BY DEF MemoryInv, ListenerTypeOK
<1>2. Len(batch[l]) \in Nat \ {0} /\ Head(batch[l]) = batch[l][1]
  BY <1>1
<1>3. batch[l][1] \in Message /\ batch[l][1].project = l.project
  BY <1>1, <1>2 DEF MemoryInv, Carries
<1> QED
  BY <1>1, <1>2, <1>3, ListenerAssumption DEF Current

LEMMA CarriesStays ==
  ASSUME MemoryInv, Grows, NEW l \in Listener, Same(l)
  PROVE  Carries(l)'
<1>1. Carries(l)
  BY DEF MemoryInv
<1>2. Alert(l)' = Alert(l)
  BY DEF Same, Alert, Current
<1>3. Recorded(Alert(l)) /\ Alert(l) \in Event => Recorded(Alert(l))'
  BY <1>2 DEF Grows, LedgerGrows, Recorded
<1>4. ASSUME Alert(l) \in Event, Recorded(Alert(l)), Agrees(work[l], l.project, Alert(l))
      PROVE  Agrees(work[l], l.project, Alert(l))'
  BY <1>2, <1>4 DEF Grows, LedgerGrows, Agrees, Same
<1>5. pc[l] \in {"check", "effects"} \cup OnCard => pc[l] \in Handling
  BY DEF OnCard, Handling
<1>6. pc[l] \in {"attach", "comment"} => pc[l] \in OnCard
  BY DEF OnCard
<1> QED
  BY <1>1, <1>2, <1>3, <1>4, <1>5, <1>6 DEF Carries, Same, Grows

(* One delivery leaves what is recorded alone, and links what it records. *)
LEMMA DeliveryGrows ==
  ASSUME LedgerInv, KeysKept, NeutralUnlinked,
         NEW p \in Project, NEW e \in Event, NEW r \in CloudAlertProcessResult(p, e),
         ProcessCloudAlert(p, e, r)
  PROVE  /\ LedgerGrows /\ transitions \subseteq transitions'
         /\ Recorded(e)'
         /\ \A f \in Event : Recorded(f)' => f = e \/ Recorded(f)
         /\ ~Recorded(e) => eventProject'[e] = p
         /\ KeysKept' /\ NeutralUnlinked'
         /\ r.action = "duplicate_transition" => e \notin transitions'
         /\ r.action # "duplicate_transition" => Agrees(r, p, e)'
<1> USE DEF LedgerInv
<1>0. LedgerTypeOK' /\ p # NoProject
  BY TypeStep, NoProjectAssumption
<1>00. /\ <<p, e>> \in IncidentId /\ e.alarm \in Alarm
       /\ "duplicate_event" \notin Acting /\ "duplicate_transition" \notin Acting
  BY EventAssumption DEF IncidentId, Acting
<1>1. CASE DuplicateEvent(e, r)
  BY <1>0, <1>00, <1>1, Zenon
     DEF DuplicateEvent, Result, LedgerGrows, KeysKept, NeutralUnlinked, Agrees, Recorded,
         SameTransition, ledgerVars
<1>2. CASE DuplicateTransition(p, e, r)
  <2>1. e \notin transitions
    BY <1>2 DEF DuplicateTransition, TransitionsRecorded
  <2>2. /\ r.action = "duplicate_transition" /\ transitions' = transitions
        /\ \A f \in Event \ {e} : eventProject'[f] = eventProject[f]
                                  /\ eventIncident'[f] = eventIncident[f]
        /\ eventProject'[e] = p
    BY <1>2 DEF DuplicateTransition, RecordEvent, LinkEvent, LedgerTypeOK
  <2>3. \A f \in Event : SameTransition(f)' = SameTransition(f)
    BY <2>2 DEF SameTransition
  <2>4. ~Recorded(e) /\ SameTransition(e) # {}
    BY <1>2 DEF DuplicateTransition
  <2>5. LedgerGrows
    BY <2>2, <2>4 DEF LedgerGrows
  <2>6. KeysKept'
    BY <2>2, <2>3, <2>4 DEF KeysKept, Recorded
  <2>7. NeutralUnlinked'
    BY <2>1, <2>2 DEF NeutralUnlinked, LedgerTypeOK
  <2> QED
    BY <1>0, <2>1, <2>2, <2>4, <2>5, <2>6, <2>7 DEF Recorded
<1>3. CASE FirstDelivery(p, e, r)
  <2>1. RecordTransition(p, e)
    BY <1>3, FirstDeliveryRecords
  <2>2. /\ ~Recorded(e) /\ transitions' = transitions \cup {e} /\ e \notin transitions
        /\ \A f \in Event \ {e} : eventProject'[f] = eventProject[f]
        /\ eventProject'[e] = p
    BY <2>1 DEF RecordTransition, RecordEvent, LedgerTypeOK, TransitionsRecorded
  <2>3. \A f \in Event \ {e} : eventIncident'[f] = eventIncident[f]
    BY <1>3 DEF FirstDelivery, Correlate, Open, StaleAlarm, UnmatchedOk, StaleOk, Resolve,
       Observe, LinkEvent, LedgerTypeOK
  <2>4. eventIncident[e] = NoIncident
    BY <2>2 DEF LinksMatch
  <2>5. /\ \/ /\ r.action \in Acting /\ r.incident \in IncidentId
              /\ eventIncident'[e] = r.incident
              /\ e.state \in RecoveryState \cup {"ALARM"}
           \/ r.action \notin Acting /\ eventIncident'[e] = NoIncident
        /\ r.action = "opened" => r.incident = <<p, e>>
        /\ r.action # "duplicate_transition"
    <3>1. CASE Correlate(p, e, r) \/ Resolve(p, e, r)
      BY <1>00, <3>1 DEF Correlate, Resolve, OpenIncidents, LinkEvent, LedgerTypeOK, Acting
    <3>2. CASE Open(p, e, r)
      BY <1>00, <3>2 DEF Open, Result, LinkEvent, LedgerTypeOK, Acting
    <3>3. CASE StaleAlarm(p, e, r) \/ UnmatchedOk(p, e, r) \/ StaleOk(p, e, r) \/ Observe(p, e, r)
      BY <2>4, <3>3 DEF StaleAlarm, UnmatchedOk, StaleOk, Observe, Result, Acting
    <3> QED
      BY <1>3, <3>1, <3>2, <3>3 DEF FirstDelivery
  <2>6. LedgerGrows
    BY <2>2, <2>3 DEF LedgerGrows
  <2>7. KeysKept'
    <3>1. \A f \in Event : SameTransition(f) \subseteq SameTransition(f)'
      BY <2>2 DEF SameTransition
    <3>2. e \in SameTransition(e)'
      BY <2>2 DEF SameTransition
    <3> QED
      BY <2>2, <3>1, <3>2 DEF KeysKept, Recorded
  <2>8. NeutralUnlinked'
    <3> SUFFICES ASSUME NEW t \in transitions', eventIncident'[t] # NoIncident
                 PROVE  t.state \in RecoveryState \cup {"ALARM"}
      BY DEF NeutralUnlinked
    <3>1. CASE t = e
      BY <2>5, <3>1
    <3>2. CASE t # e
      BY <2>2, <2>3, <3>2 DEF NeutralUnlinked, LedgerTypeOK
    <3> QED
      BY <3>1, <3>2
  <2>9. Agrees(r, p, e)'
    BY <2>2, <2>5 DEF Agrees
  <2> QED
    BY <1>0, <2>2, <2>5, <2>6, <2>7, <2>8, <2>9 DEF Recorded
<1> QED
  BY <1>1, <1>2, <1>3, DuplicateOrFirst

-----------------------------------------------------------------------------
(* Steps that write nothing to the tables of the ledger. *)
LEMMA LedgerSame ==
  ASSUME MemoryInv, UNCHANGED ledgerVars
  PROVE  /\ LedgerInv' /\ LedgerTypeOK' /\ FromQueue' /\ KeysKept' /\ NeutralUnlinked'
         /\ LedgerGrows /\ transitions \subseteq transitions'
<1>1. LedgerInv'
  BY LedgerStutter DEF MemoryInv
<1>2. UNCHANGED <<eventProject, transitions, eventIncident>>
  BY DEF ledgerVars
<1> QED
  BY <1>1, <1>2 DEF MemoryInv, LedgerInv, FromQueue, KeysKept, NeutralUnlinked, LedgerGrows,
     Recorded, SameTransition

LocalTypes ==
  /\ pc \in [Listener -> PC]
  /\ batch \in [Listener -> Seq(Message)]
  /\ \A l \in Listener : (pc[l] = "poll") <=> (batch[l] = <<>>)
  /\ work \in [Listener -> [action : ActionName, incident : IncidentId \cup {NoIncident}]]

QueueTypes == queue \in [Message -> QueueState] /\ receives \in [Message -> 0..MaxReceive]

TableTypes ==
  /\ kanbanTask \in [IncidentId -> BOOLEAN]
  /\ sideEffect \subseteq Event
  /\ parseFailed \subseteq Message
  /\ cards \subseteq IncidentId
  /\ comments \subseteq IncidentId \X Event

LEMMA TypesSplit ==
  /\ ListenerTypeOK <=> LedgerTypeOK /\ LocalTypes /\ QueueTypes /\ TableTypes
  /\ ListenerTypeOK' <=> LedgerTypeOK' /\ LocalTypes' /\ QueueTypes' /\ TableTypes'
BY DEF ListenerTypeOK, LocalTypes, QueueTypes, TableTypes

LEMMA PhaseNames ==
  /\ PC = {"poll", "process"} \cup Handling
  /\ {"check", "effects"} \cup OnCard \subseteq Handling
  /\ {"poll", "process"} \cap Handling = {}
BY DEF PC, Handling, OnCard

(* The listener leaves the message at hand. *)
LEMMA AdvanceStep ==
  ASSUME MemoryInv, NEW l \in Listener, pc[l] # "poll", Advance(l)
  PROVE  Alone(l) /\ LocalTypes' /\ Carries(l)'
<1>1. /\ LocalTypes /\ batch[l] \in Seq(Message) /\ batch[l] # <<>>
      /\ \A n \in 1..Len(batch[l]) : batch[l][n].project = l.project
  BY CurrentInBatch, TypesSplit DEF MemoryInv, Carries
<1>2. /\ pc' = [pc EXCEPT ![l] = IF Tail(batch[l]) = <<>> THEN "poll" ELSE "process"]
      /\ batch' = [batch EXCEPT ![l] = Tail(batch[l])]
      /\ work' = [work EXCEPT ![l] = NoWork]
  BY <1>1 DEF Advance, LocalTypes
<1>3. Tail(batch[l]) \in Seq(Message)
  BY <1>1
<1>4. \A n \in 1..Len(Tail(batch[l])) : Tail(batch[l])[n].project = l.project
  BY <1>1
<1>5. NoWork \in [action : ActionName, incident : IncidentId \cup {NoIncident}]
  BY DEF NoWork, ActionName
<1>6. Alone(l)
  BY <1>1, <1>2 DEF Alone, LocalTypes
<1>7. LocalTypes'
  BY <1>1, <1>2, <1>3, <1>5 DEF LocalTypes, PC
<1>8. pc'[l] \in {"poll", "process"} /\ batch'[l] = Tail(batch[l])
  BY <1>1, <1>2 DEF LocalTypes
<1>9. Carries(l)'
  BY <1>4, <1>8 DEF Carries, Handling, OnCard
<1> QED
  BY <1>6, <1>7, <1>9

(* The listener goes on with the message at hand. *)
LEMMA GotoStep ==
  ASSUME MemoryInv, NEW l \in Listener, pc[l] # "poll",
         NEW next \in Handling, Goto(l, next), UNCHANGED batch,
         NEW w \in [action : ActionName, incident : IncidentId \cup {NoIncident}],
         work' = [work EXCEPT ![l] = w]
  PROVE  /\ Alone(l) /\ LocalTypes'
         /\ pc'[l] = next /\ work'[l] = w /\ Alert(l)' = Alert(l) /\ Current(l)' = Current(l)
         /\ \A n \in 1..Len(batch'[l]) : batch'[l][n].project = l.project
<1>1. LocalTypes /\ \A n \in 1..Len(batch[l]) : batch[l][n].project = l.project
  BY TypesSplit DEF MemoryInv, Carries
<1>2. next \in PC /\ next # "poll"
  BY PhaseNames
<1> QED
  BY <1>1, <1>2 DEF Goto, LocalTypes, Alone, Alert, Current

(* A step of one listener that takes nothing back keeps what the others carry. *)
LEMMA OneMoves ==
  ASSUME MemoryInv, Grows, NEW l \in Listener, Alone(l),
         ListenerTypeOK', LedgerInv', FromQueue', KeysKept', NeutralUnlinked', CardsKnown',
         Carries(l)'
  PROVE  MemoryInv'
<1>1. ASSUME NEW k \in Listener \ {l} PROVE Carries(k)'
  BY CarriesStays DEF Alone, Same
<1> QED
  BY <1>1 DEF MemoryInv

LEMMA NobodyMoves ==
  ASSUME MemoryInv, UNCHANGED <<ledgerVars, localVars, effectVars, parseFailed, kanbanVars>>,
         QueueTypes'
  PROVE  MemoryInv'
<1>1. UNCHANGED <<pc, batch, work, kanbanTask, sideEffect, cards, comments>>
  BY DEF localVars, effectVars, kanbanVars
<1>2. /\ Grows
      /\ LedgerInv' /\ LedgerTypeOK' /\ FromQueue' /\ KeysKept' /\ NeutralUnlinked'
  <2>1. UNCHANGED ledgerVars
    OBVIOUS
  <2> QED
    BY <1>1, <2>1, LedgerSame DEF Grows
<1>3. \A l \in Listener : Carries(l)'
  BY <1>1, <1>2, CarriesStays DEF Same
<1>4. LocalTypes' /\ TableTypes'
  BY <1>1, TypesSplit DEF MemoryInv, LocalTypes, TableTypes
<1>5. CardsKnown'
  BY <1>1 DEF MemoryInv, CardsKnown
<1> QED
  BY <1>2, <1>3, <1>4, <1>5, TypesSplit DEF MemoryInv

LEMMA TakeTypes ==
  ASSUME QueueTypes, NEW p, NEW b \in Batches(p), Take({b[n] : n \in DOMAIN b})
  PROVE  QueueTypes'
<1> DEFINE S == {b[n] : n \in DOMAIN b}
<1>1. \A m \in S : m \in Receivable(p)
  BY DEF Batches
<1>2. \A m \in S : receives[m] < MaxReceive
  BY <1>1 DEF Receivable
<1>3. MaxReceive \in Nat
  BY ListenerAssumption
<1>4. \A m \in Message : m \in S => receives[m] + 1 \in 0..MaxReceive
  BY <1>2, <1>3 DEF QueueTypes
<1> HIDE DEF S
<1>5. /\ queue' = [m \in Message |-> IF m \in S THEN "inflight" ELSE queue[m]]
      /\ receives' = [m \in Message |-> IF m \in S THEN receives[m] + 1 ELSE receives[m]]
  BY DEF Take, S
<1> QED
  BY <1>4, <1>5 DEF QueueTypes, QueueState

LEMMA BatchSequence ==
  ASSUME NEW p, NEW b \in Batches(p)
  PROVE  /\ b \in Seq(Message) /\ b # <<>>
         /\ \A n \in 1..Len(b) : b[n].project = p /\ b[n] \in Receivable(p)
<1>1. PICK k \in 1..MaxMessages : b \in [1..k -> Receivable(p)]
  BY DEF Batches
<1>2. k \in Nat \ {0} /\ Receivable(p) \subseteq Message
  BY <1>1, ListenerAssumption DEF Receivable
<1>3. b \in Seq(Message) /\ Len(b) = k
  BY <1>1, <1>2
<1> QED
  BY <1>1, <1>2, <1>3 DEF Receivable

-----------------------------------------------------------------------------
(* The incident an alert acts on is one, and naming it in the result keeps the *)
(* result true.                                                                *)
LEMMA EffectIncidentKnown ==
  ASSUME MemoryInv, NEW l \in Listener, pc[l] = "effects", NEW i \in EffectIncident(l)
  PROVE  /\ i \in IncidentId
         /\ [work[l] EXCEPT !.incident = i]
              \in [action : ActionName, incident : IncidentId \cup {NoIncident}]
         /\ Agrees([work[l] EXCEPT !.incident = i], l.project, Alert(l))
         /\ [work[l] EXCEPT !.incident = i].action = work[l].action
         /\ [work[l] EXCEPT !.incident = i].incident = i
<1>1. /\ work[l] \in [action : ActionName, incident : IncidentId \cup {NoIncident}]
      /\ Agrees(work[l], l.project, Alert(l))
  BY DEF MemoryInv, ListenerTypeOK, Carries
<1>2. CASE work[l].action \in Acting
  <2>1. i = work[l].incident
    BY <1>2 DEF EffectIncident, Acting
  <2> QED
    BY <1>1, <1>2, <2>1 DEF Agrees
<1>3. CASE work[l].action \notin Acting
  <2>1. /\ work[l].action = "duplicate_event"
        /\ i \in IncidentForEvent(l.project, Alert(l))
    BY <1>3 DEF EffectIncident, Acting
  <2>2. i \in IncidentId
    BY <2>1 DEF IncidentForEvent
  <2> QED
    BY <1>1, <1>3, <2>1, <2>2 DEF Agrees, Acting
<1> QED
  BY <1>2, <1>3

LEMMA ReceiveStep ==
  ASSUME MemoryInv, NEW l \in Listener, Receive(l)
  PROVE  MemoryInv' /\ Grows
<1>1. PICK b \in Batches(l.project) :
        /\ batch' = [batch EXCEPT ![l] = b]
        /\ Take({b[n] : n \in DOMAIN b})
  BY DEF Receive
<1>2. /\ UNCHANGED ledgerVars
      /\ UNCHANGED <<work, kanbanTask, sideEffect, parseFailed, cards, comments>>
      /\ pc' = [pc EXCEPT ![l] = "process"]
  BY DEF Receive, Goto, effectVars, kanbanVars
<1>3. /\ b \in Seq(Message) /\ b # <<>> /\ \A n \in 1..Len(b) : b[n].project = l.project
  BY BatchSequence
<1>4. LocalTypes /\ QueueTypes /\ TableTypes
  BY TypesSplit DEF MemoryInv
<1>5. QueueTypes'
  BY <1>1, <1>4, TakeTypes
<1>6. LocalTypes' /\ Alone(l) /\ pc'[l] = "process" /\ batch'[l] = b
  BY <1>1, <1>2, <1>3, <1>4 DEF LocalTypes, PC, Alone
<1>7. TableTypes' /\ CardsKnown'
  BY <1>2, <1>4 DEF TableTypes, MemoryInv, CardsKnown
<1>8. Grows
  BY <1>2, LedgerSame DEF Grows
<1>9. Carries(l)'
  BY <1>3, <1>6 DEF Carries, Handling, OnCard
<1> QED
  BY <1>2, <1>5, <1>6, <1>7, <1>8, <1>9, LedgerSame, OneMoves, TypesSplit

LEMMA ProcessAlertStep ==
  ASSUME MemoryInv, NEW l \in Listener, Process(l), NEW e \in Event, e = Alert(l)
  PROVE  MemoryInv' /\ Grows
<1> DEFINE p == l.project
<1>1. PICK r \in CloudAlertProcessResult(p, e) :
        /\ ProcessCloudAlert(p, e, r)
        /\ work' = [work EXCEPT ![l] = r]
        /\ Goto(l, IF r.action = "duplicate_transition" THEN "record" ELSE "check")
  BY DEF Process
<1>2. /\ UNCHANGED <<queue, receives, batch, kanbanTask, sideEffect, parseFailed, cards, comments>>
      /\ pc[l] = "process"
  BY DEF Process, queueVars, effectVars, kanbanVars
<1>3. p \in Project /\ Current(l) \in Message /\ Current(l).project = p /\ Current(l).event = e
  BY <1>2, CurrentInBatch DEF Alert
<1>4. LedgerInv /\ LedgerTypeOK /\ KeysKept /\ NeutralUnlinked
  BY DEF MemoryInv, LedgerInv
<1>5. r \in [action : ActionName, incident : IncidentId \cup {NoIncident}]
  <2>1. r.incident \in IncidentId \cup {NoIncident}
    BY <1>3, <1>4, ResultType
  <2> QED
    BY <2>1 DEF CloudAlertProcessResult
<1>6. LedgerInv' /\ LedgerTypeOK'
  <2>1. LedgerNext
    BY <1>1, <1>3 DEF LedgerNext
  <2> QED
    BY <1>4, <2>1, InvStep DEF LedgerInv
<1>7. /\ LedgerGrows /\ transitions \subseteq transitions'
      /\ Recorded(e)'
      /\ \A f \in Event : Recorded(f)' => f = e \/ Recorded(f)
      /\ ~Recorded(e) => eventProject'[e] = p
      /\ KeysKept' /\ NeutralUnlinked'
      /\ r.action # "duplicate_transition" => Agrees(r, p, e)'
  BY <1>1, <1>3, <1>4, DeliveryGrows
<1>8. FromQueue'
  <2> SUFFICES ASSUME NEW f \in Event, Recorded(f)'
               PROVE  \E m \in Message : m.event = f /\ m.project = eventProject'[f]
    BY DEF FromQueue
  <2>1. CASE Recorded(f)
    BY <1>7, <2>1 DEF MemoryInv, FromQueue, LedgerGrows
  <2>2. CASE ~Recorded(f)
    BY <1>3, <1>7, <2>2
  <2> QED
    BY <2>1, <2>2
<1>9. Grows
  BY <1>2, <1>7 DEF Grows
<1>10. PICK next \in {"record", "check"} :
         /\ next = "check" => r.action # "duplicate_transition"
         /\ Goto(l, next)
  BY <1>1
<1>11. next \in Handling
  BY DEF Handling
<1>12. /\ Alone(l) /\ LocalTypes'
       /\ pc'[l] = next /\ work'[l] = r /\ Alert(l)' = e
       /\ \A n \in 1..Len(batch'[l]) : batch'[l][n].project = l.project
  BY <1>1, <1>2, <1>5, <1>10, <1>11, GotoStep
<1>13. Carries(l)'
  <2>1. Agrees(r, p, e)' => Agrees(work[l], l.project, Alert(l))'
    BY <1>12 DEF Agrees
  <2>2. Recorded(Alert(l))'
    BY <1>7, <1>12 DEF Recorded
  <2> QED
    BY <1>7, <1>10, <1>12, <2>1, <2>2 DEF Carries, OnCard
<1>14. QueueTypes' /\ TableTypes' /\ CardsKnown'
  BY <1>2, TypesSplit DEF MemoryInv, QueueTypes, TableTypes, CardsKnown
<1> QED
  BY <1>6, <1>7, <1>8, <1>9, <1>12, <1>13, <1>14, OneMoves, TypesSplit

LEMMA ProcessStep ==
  ASSUME MemoryInv, NEW l \in Listener, Process(l)
  PROVE  MemoryInv' /\ Grows
<1>1. Alert(l) \in Event
  BY CurrentInBatch, ListenerAssumption DEF Process, Alert
<1> QED
  BY <1>1, ProcessAlertStep

(* A step with which the listener leaves the message at hand. *)
LEMMA LeaveStep ==
  ASSUME MemoryInv, NEW l \in Listener, pc[l] # "poll", Advance(l),
         UNCHANGED <<ledgerVars, effectVars>>, cards \subseteq cards',
         comments \subseteq comments', TableTypes', QueueTypes', CardsKnown'
  PROVE  MemoryInv' /\ Grows
<1>1. UNCHANGED ledgerVars /\ UNCHANGED <<kanbanTask, sideEffect>>
  BY DEF effectVars
<1>2. Grows
  BY <1>1, LedgerSame DEF Grows
<1>3. Alone(l) /\ LocalTypes' /\ Carries(l)'
  BY AdvanceStep
<1> QED
  BY <1>1, <1>2, <1>3, LedgerSame, OneMoves, TypesSplit

(* A step with which it goes on. *)
LEMMA GoOnStep ==
  ASSUME MemoryInv, NEW l \in Listener, pc[l] \in Handling,
         NEW next \in Handling, Goto(l, next), UNCHANGED batch,
         NEW w \in [action : ActionName, incident : IncidentId \cup {NoIncident}],
         work' = [work EXCEPT ![l] = w],
         UNCHANGED <<ledgerVars, queueVars, parseFailed>>,
         \A i \in IncidentId : kanbanTask[i] => kanbanTask'[i],
         cards \subseteq cards', comments \subseteq comments',
         sideEffect \subseteq sideEffect', TableTypes', CardsKnown',
         next \in {"check", "effects"} \cup OnCard => Agrees(w, l.project, Alert(l)),
         next \in OnCard => w.incident \in IncidentId,
         next = "attach" => w.incident \in cards',
         next = "comment" => kanbanTask'[w.incident]
  PROVE  MemoryInv' /\ Grows
<1>1. UNCHANGED ledgerVars /\ UNCHANGED <<queue, receives>>
  BY DEF queueVars
<1>2. Grows
  BY <1>1, LedgerSame DEF Grows
<1>3. pc[l] # "poll"
  BY PhaseNames
<1>4. /\ Alone(l) /\ LocalTypes'
      /\ pc'[l] = next /\ work'[l] = w /\ Alert(l)' = Alert(l)
      /\ \A n \in 1..Len(batch'[l]) : batch'[l][n].project = l.project
  BY <1>3, GotoStep
<1>5. Alert(l) \in Event /\ Recorded(Alert(l))
  BY DEF MemoryInv, Carries
<1>6. Recorded(Alert(l))'
  BY <1>2, <1>4, <1>5 DEF Grows, LedgerGrows, Recorded
<1>7. Agrees(w, l.project, Alert(l)) => Agrees(work[l], l.project, Alert(l))'
  BY <1>1, <1>4 DEF Agrees, ledgerVars
<1>8. Carries(l)'
  BY <1>4, <1>5, <1>6, <1>7 DEF Carries
<1>9. QueueTypes'
  BY <1>1, TypesSplit DEF MemoryInv, QueueTypes
<1> QED
  BY <1>1, <1>2, <1>4, <1>8, <1>9, LedgerSame, OneMoves, TypesSplit

(* What is said of a listener that handles a message. *)
LEMMA AtHand ==
  ASSUME MemoryInv, NEW l \in Listener, pc[l] \in Handling
  PROVE  /\ pc[l] # "poll" /\ Alert(l) \in Event /\ Recorded(Alert(l))
         /\ work[l] \in [action : ActionName, incident : IncidentId \cup {NoIncident}]
         /\ work = [work EXCEPT ![l] = work[l]]
         /\ pc[l] \in OnCard => work[l].incident \in IncidentId
         /\ TableTypes /\ QueueTypes /\ CardsKnown
BY PhaseNames, TypesSplit DEF MemoryInv, Carries, ListenerTypeOK

LEMMA AfterCardNext ==
  ASSUME NEW l, NEW i
  PROVE  AfterCard(l, i) \in {"record", "comment"}
BY DEF AfterCard

LEMMA RecordParseFailureStep ==
  ASSUME MemoryInv, NEW l \in Listener, RecordParseFailure(l)
  PROVE  MemoryInv' /\ Grows
<1>1. /\ pc[l] # "poll" /\ Advance(l) /\ parseFailed' = parseFailed \cup {Current(l)}
      /\ UNCHANGED <<ledgerVars, effectVars>>
      /\ UNCHANGED <<queue, receives, kanbanTask, sideEffect, cards, comments>>
  BY DEF RecordParseFailure, queueVars, effectVars, kanbanVars
<1>2. Current(l) \in Message
  BY <1>1, CurrentInBatch
<1>3. TableTypes' /\ QueueTypes' /\ CardsKnown'
  BY <1>1, <1>2, TypesSplit DEF MemoryInv, TableTypes, QueueTypes, CardsKnown
<1> QED
  BY <1>1, <1>3, LeaveStep

LEMMA CheckStep ==
  ASSUME MemoryInv, NEW l \in Listener, CheckEffects(l) \/ NoEffect(l)
  PROVE  MemoryInv' /\ Grows
<1>1. /\ pc[l] \in {"check", "effects"}
      /\ UNCHANGED <<ledgerVars, queueVars, parseFailed>>
      /\ UNCHANGED <<batch, work, kanbanTask, sideEffect, parseFailed, cards, comments>>
  BY DEF CheckEffects, NoEffect, queueVars, effectVars, kanbanVars
<1>2. PICK next \in {"delete", "effects", "record"} : Goto(l, next)
  BY DEF CheckEffects, NoEffect
<1>3. pc[l] \in Handling /\ next \in Handling /\ next \notin OnCard
  BY <1>1 DEF Handling, OnCard
<1>4. Agrees(work[l], l.project, Alert(l))
  BY <1>1 DEF MemoryInv, Carries
<1>5. TableTypes' /\ CardsKnown'
  BY <1>1, <1>3, AtHand DEF TableTypes, CardsKnown
<1>6. work' = [work EXCEPT ![l] = work[l]] 
      /\ work[l] \in [action : ActionName, incident : IncidentId \cup {NoIncident}]
  BY <1>1, <1>3, AtHand
<1>7. next # "attach" /\ next # "comment"
  BY <1>3 DEF OnCard
<1> QED
  BY <1>1, <1>2, <1>3, <1>4, <1>5, <1>6, <1>7, GoOnStep

LEMMA ReadTaskStep ==
  ASSUME MemoryInv, NEW l \in Listener, NEW i \in EffectIncident(l),
         pc[l] = "effects", work' = [work EXCEPT ![l].incident = i],
         UNCHANGED <<ledgerVars, queueVars, batch, effectVars, parseFailed, kanbanVars>>,
         NEW next \in {"create", "record", "comment"}, Goto(l, next),
         next = "comment" => kanbanTask[i]
  PROVE  MemoryInv' /\ Grows
<1> DEFINE w == [work[l] EXCEPT !.incident = i]
<1>1. pc[l] \in Handling /\ next \in Handling /\ next # "attach"
  BY DEF Handling
<1>2. /\ i \in IncidentId /\ w.incident = i /\ Agrees(w, l.project, Alert(l))
      /\ w \in [action : ActionName, incident : IncidentId \cup {NoIncident}]
  BY EffectIncidentKnown
<1>3. work' = [work EXCEPT ![l] = w]
  BY DEF MemoryInv, ListenerTypeOK
<1>4. /\ UNCHANGED <<ledgerVars, queueVars, parseFailed>>
      /\ UNCHANGED <<batch, kanbanTask, sideEffect, parseFailed, cards, comments>>
  BY DEF effectVars, kanbanVars
<1>5. TableTypes' /\ CardsKnown'
  BY <1>1, <1>4, AtHand DEF TableTypes, CardsKnown
<1> HIDE DEF w
<1> QED
  BY <1>1, <1>2, <1>3, <1>4, <1>5, GoOnStep

LEMMA ReadStep ==
  ASSUME MemoryInv, NEW l \in Listener, ReadTask(l) \/ ReadTaskOfRecovery(l)
  PROVE  MemoryInv' /\ Grows
<1>1. CASE ReadTask(l)
  <2>1. PICK i \in EffectIncident(l) :
          /\ work' = [work EXCEPT ![l].incident = i]
          /\ Goto(l, IF kanbanTask[i] THEN AfterCard(l, i) ELSE "create")
    BY <1>1 DEF ReadTask
  <2>2. PICK next \in {"create", "record", "comment"} :
          Goto(l, next) /\ (next = "comment" => kanbanTask[i])
    BY <2>1, AfterCardNext
  <2> QED
    BY <1>1, <2>1, <2>2, ReadTaskStep DEF ReadTask
<1>2. CASE ReadTaskOfRecovery(l)
  <2>1. PICK i \in EffectIncident(l) :
          \/ /\ kanbanTask[i]
             /\ work' = [work EXCEPT ![l].incident = i]
             /\ Goto(l, "comment")
             /\ UNCHANGED batch
          \/ /\ ~kanbanTask[i]
             /\ Advance(l)
    BY <1>2 DEF ReadTaskOfRecovery
  <2>2. CASE kanbanTask[i]
    BY <1>2, <2>1, <2>2, ReadTaskStep DEF ReadTaskOfRecovery
  <2>3. CASE ~kanbanTask[i]
    <3>1. /\ UNCHANGED <<ledgerVars, effectVars>> /\ pc[l] # "poll" /\ pc[l] \in Handling
          /\ UNCHANGED <<queue, receives, kanbanTask, sideEffect, parseFailed, cards, comments>>
      BY <1>2 DEF ReadTaskOfRecovery, queueVars, effectVars, kanbanVars, Handling
    <3>2. TableTypes' /\ QueueTypes' /\ CardsKnown'
      BY <3>1, AtHand DEF TableTypes, QueueTypes, CardsKnown
    <3> QED
      BY <2>1, <2>3, <3>1, <3>2, LeaveStep
  <2> QED
    BY <2>2, <2>3
<1> QED
  BY <1>1, <1>2

LEMMA CardStep ==
  ASSUME MemoryInv, NEW l \in Listener, CreateCard(l) \/ CreateCardFails(l)
  PROVE  MemoryInv' /\ Grows
<1>1. /\ pc[l] = "create" /\ pc[l] # "poll" /\ pc[l] \in Handling /\ pc[l] \in OnCard
      /\ "attach" \in Handling /\ "attach" # "comment" /\ UNCHANGED ledgerVars
      /\ UNCHANGED <<queue, receives, kanbanTask, sideEffect, parseFailed, comments>>
  BY DEF CreateCard, CreateCardFails, queueVars, effectVars, Handling, OnCard
<1>2. cards' \in {cards, cards \cup {work[l].incident}}
  BY DEF CreateCard, CreateCardFails
<1>3. work[l].incident \in IncidentId
  BY <1>1, AtHand
<1>4. TableTypes' /\ QueueTypes' /\ CardsKnown'
  BY <1>1, <1>2, <1>3, AtHand DEF TableTypes, QueueTypes, CardsKnown
<1>5. CASE CreateCardFails(l)
  BY <1>1, <1>2, <1>4, <1>5, LeaveStep DEF CreateCardFails
<1>6. CASE CreateCard(l)
  <2>1. /\ Goto(l, "attach") /\ UNCHANGED batch /\ UNCHANGED <<ledgerVars, queueVars, parseFailed>>
        /\ work' = work /\ cards' = cards \cup {work[l].incident}
    BY <1>6 DEF CreateCard
  <2>2. /\ work' = [work EXCEPT ![l] = work[l]]
        /\ work[l] \in [action : ActionName, incident : IncidentId \cup {NoIncident}]
    BY <1>1, <2>1, AtHand
  <2>3. Agrees(work[l], l.project, Alert(l))
    BY <1>1 DEF MemoryInv, Carries
  <2> QED
    BY <1>1, <1>3, <1>4, <2>1, <2>2, <2>3, GoOnStep
<1> QED
  BY <1>5, <1>6

LEMMA AttachStep ==
  ASSUME MemoryInv, NEW l \in Listener, AttachTask(l)
  PROVE  MemoryInv' /\ Grows
<1> DEFINE i == work[l].incident
<1>1. /\ pc[l] = "attach" /\ pc[l] \in Handling /\ pc[l] \in OnCard
      /\ kanbanTask' = [kanbanTask EXCEPT ![i] = TRUE]
      /\ UNCHANGED <<ledgerVars, queueVars, parseFailed>>
      /\ UNCHANGED <<batch, work, sideEffect, parseFailed, cards, comments>>
  BY DEF AttachTask, kanbanVars, Handling, OnCard
<1>2. PICK next \in {"record", "comment"} : Goto(l, next)
  BY AfterCardNext DEF AttachTask
<1>3. next \in Handling /\ next # "attach"
  BY DEF Handling
<1>4. i \in IncidentId /\ i \in cards /\ Agrees(work[l], l.project, Alert(l))
  BY <1>1 DEF MemoryInv, Carries
<1>5. TableTypes /\ CardsKnown
  BY <1>1, AtHand
<1>6. /\ kanbanTask'[i] /\ \A j \in IncidentId : kanbanTask[j] => kanbanTask'[j]
      /\ \A j \in IncidentId \ {i} : kanbanTask'[j] = kanbanTask[j]
      /\ kanbanTask' \in [IncidentId -> BOOLEAN]
  BY <1>1, <1>4, <1>5 DEF TableTypes
<1>7. TableTypes'
  BY <1>1, <1>5, <1>6 DEF TableTypes
<1>8. CardsKnown'
  <2>1. \A c \in comments : c[1] \in IncidentId
    BY <1>5 DEF TableTypes
  <2> QED
    BY <1>1, <1>4, <1>5, <1>6, <2>1 DEF CardsKnown
<1>9. /\ work' = [work EXCEPT ![l] = work[l]]
      /\ work[l] \in [action : ActionName, incident : IncidentId \cup {NoIncident}]
  BY <1>1, AtHand
<1> QED
  BY <1>1, <1>2, <1>3, <1>4, <1>6, <1>7, <1>8, <1>9, GoOnStep

LEMMA CommentStep ==
  ASSUME MemoryInv, NEW l \in Listener, Comment(l) \/ CommentFails(l)
  PROVE  MemoryInv' /\ Grows
<1> DEFINE i == work[l].incident
<1>1. /\ pc[l] = "comment" /\ pc[l] # "poll" /\ pc[l] \in Handling /\ pc[l] \in OnCard
      /\ UNCHANGED ledgerVars
      /\ UNCHANGED <<queue, receives, kanbanTask, sideEffect, parseFailed, cards>>
  BY DEF Comment, CommentFails, queueVars, effectVars, Handling, OnCard
<1>2. comments' \in {comments, comments \cup {<<i, Alert(l)>>}}
  BY DEF Comment, CommentFails
<1>3. i \in IncidentId /\ Alert(l) \in Event /\ kanbanTask[i]
  BY <1>1, AtHand DEF MemoryInv, Carries
<1>4. TableTypes' /\ QueueTypes' /\ CardsKnown'
  BY <1>1, <1>2, <1>3, AtHand DEF TableTypes, QueueTypes, CardsKnown
<1>5. CASE CommentFails(l)
  BY <1>1, <1>2, <1>4, <1>5, LeaveStep DEF CommentFails
<1>6. CASE Comment(l)
  <2>1. /\ Goto(l, "record") /\ UNCHANGED batch /\ UNCHANGED <<ledgerVars, queueVars, parseFailed>>
        /\ work' = work
    BY <1>6 DEF Comment
  <2>2. /\ work' = [work EXCEPT ![l] = work[l]]
        /\ work[l] \in [action : ActionName, incident : IncidentId \cup {NoIncident}]
    BY <1>1, <2>1, AtHand
  <2>3. /\ "record" \in Handling /\ "record" \notin {"check", "effects"} \cup OnCard
        /\ "record" \notin OnCard
    BY DEF Handling, OnCard
  <2>4. /\ \A j \in IncidentId : kanbanTask[j] => kanbanTask'[j]
        /\ cards \subseteq cards' /\ comments \subseteq comments' /\ sideEffect \subseteq sideEffect'
    BY <1>1, <1>2
  <2> QED
    BY <1>1, <1>4, <2>1, <2>2, <2>3, <2>4, GoOnStep
<1> QED
  BY <1>5, <1>6

LEMMA RecordStep ==
  ASSUME MemoryInv, NEW l \in Listener, RecordEffects(l)
  PROVE  MemoryInv' /\ Grows
<1>1. /\ pc[l] = "record" /\ pc[l] \in Handling /\ Goto(l, "delete")
      /\ sideEffect' = sideEffect \cup {Alert(l)}
      /\ UNCHANGED <<ledgerVars, queueVars, parseFailed>>
      /\ UNCHANGED <<batch, work, kanbanTask, parseFailed, cards, comments>>
  BY DEF RecordEffects, kanbanVars, Handling
<1>2. /\ work' = [work EXCEPT ![l] = work[l]] /\ Alert(l) \in Event
      /\ work[l] \in [action : ActionName, incident : IncidentId \cup {NoIncident}]
      /\ TableTypes /\ CardsKnown
  BY <1>1, AtHand
<1>3. TableTypes' /\ CardsKnown'
  BY <1>1, <1>2 DEF TableTypes, CardsKnown
<1>4. "delete" \in Handling /\ "delete" \notin {"check", "effects"} \cup OnCard
  BY DEF Handling, OnCard
<1> QED
  BY <1>1, <1>2, <1>3, <1>4, GoOnStep

LEMMA DeleteStep ==
  ASSUME MemoryInv, NEW l \in Listener, Delete(l) \/ DeleteFails(l)
  PROVE  MemoryInv' /\ Grows
<1>1. /\ pc[l] = "delete" /\ pc[l] # "poll" /\ pc[l] \in Handling /\ Advance(l)
      /\ UNCHANGED <<ledgerVars, effectVars>>
      /\ UNCHANGED <<receives, kanbanTask, sideEffect, parseFailed, cards, comments>>
  BY DEF Delete, DeleteFails, queueVars, effectVars, kanbanVars, Handling
<1>2. \/ queue' = queue
      \/ queue' = [queue EXCEPT ![Current(l)] = "deleted"]
  BY DEF Delete, DeleteFails, queueVars
<1>3. TableTypes /\ QueueTypes /\ CardsKnown
  BY <1>1, AtHand
<1>4. TableTypes' /\ QueueTypes' /\ CardsKnown'
  BY <1>1, <1>2, <1>3 DEF TableTypes, QueueTypes, CardsKnown, QueueState
<1> QED
  BY <1>1, <1>4, LeaveStep

LEMMA CrashStep ==
  ASSUME MemoryInv, NEW l \in Listener, Crash(l)
  PROVE  MemoryInv' /\ Grows
<1>1. /\ pc' = [pc EXCEPT ![l] = "poll"]
      /\ batch' = [batch EXCEPT ![l] = <<>>]
      /\ work' = [work EXCEPT ![l] = NoWork]
      /\ UNCHANGED ledgerVars
      /\ UNCHANGED <<queue, receives, kanbanTask, sideEffect, parseFailed, cards, comments>>
  BY DEF Crash, queueVars, effectVars, kanbanVars
<1>2. NoWork \in [action : ActionName, incident : IncidentId \cup {NoIncident}]
  BY DEF NoWork, ActionName
<1>3. LocalTypes /\ QueueTypes /\ TableTypes /\ CardsKnown
  BY TypesSplit DEF MemoryInv
<1>4. /\ LocalTypes' /\ Alone(l) /\ pc'[l] = "poll" /\ batch'[l] = <<>>
      /\ QueueTypes' /\ TableTypes' /\ CardsKnown'
  BY <1>1, <1>2, <1>3 DEF LocalTypes, Alone, PC, QueueTypes, TableTypes, CardsKnown
<1>5. Carries(l)'
  BY <1>4 DEF Carries, Handling, OnCard
<1>6. Grows
  BY <1>1, LedgerSame DEF Grows
<1> QED
  BY <1>1, <1>4, <1>5, <1>6, LedgerSame, OneMoves, TypesSplit

(* SQS, and those who only look. *)
LEMMA OutsideStep ==
  ASSUME MemoryInv,
         (\E m \in Message : Expire(m) \/ DeadLetter(m)) \/ (\E p \in Peeked : Peek(p))
  PROVE  MemoryInv' /\ Grows
<1>1. UNCHANGED <<ledgerVars, localVars, effectVars, parseFailed, kanbanVars>>
  BY DEF Expire, DeadLetter, Peek
<1>2. QueueTypes
  BY TypesSplit DEF MemoryInv
<1>3. ASSUME NEW m \in Message, Expire(m) \/ DeadLetter(m) PROVE QueueTypes'
  BY <1>2, <1>3 DEF Expire, DeadLetter, QueueTypes, QueueState
<1>4. ASSUME NEW p \in Peeked, Peek(p) PROVE QueueTypes'
  BY <1>2, <1>4, TakeTypes DEF Peek
<1>5. QueueTypes'
  BY <1>3, <1>4
<1>6. Grows
  <2>1. UNCHANGED ledgerVars /\ UNCHANGED <<kanbanTask, sideEffect, cards, comments>>
    BY <1>1 DEF effectVars, kanbanVars
  <2> QED
    BY <2>1, LedgerSame DEF Grows
<1> QED
  BY <1>1, <1>5, <1>6, NobodyMoves

LEMMA MemoryStep ==
  ASSUME MemoryInv, [Next]_vars
  PROVE  MemoryInv' /\ Grows
<1>1. ASSUME NEW l \in Listener, Step(l) \/ Crash(l) PROVE MemoryInv' /\ Grows
  BY <1>1, ReceiveStep, RecordParseFailureStep, ProcessStep, CheckStep, ReadStep, CardStep,
     AttachStep, CommentStep, RecordStep, DeleteStep, CrashStep DEF Step
<1>2. CASE UNCHANGED vars
  <2>1. /\ UNCHANGED <<ledgerVars, localVars, effectVars, parseFailed, kanbanVars>>
        /\ UNCHANGED <<queue, receives, kanbanTask, sideEffect, cards, comments>>
        /\ UNCHANGED ledgerVars
    BY <1>2 DEF vars, queueVars, effectVars, kanbanVars
  <2>2. QueueTypes'
    BY <2>1, TypesSplit DEF MemoryInv, QueueTypes
  <2> QED
    BY <2>1, <2>2, NobodyMoves, LedgerSame DEF Grows
<1> QED
  BY <1>1, <1>2, OutsideStep DEF Next

LEMMA InitMemory == Init => MemoryInv
<1> SUFFICES ASSUME Init PROVE MemoryInv
  OBVIOUS
<1>1. LedgerInv /\ LedgerTypeOK
  BY InitInv DEF Init, LedgerInv
<1>2. ListenerTypeOK
  BY <1>1, ListenerAssumption DEF Init, ListenerTypeOK, QueueState, PC, NoWork, ActionName
<1>3. \A e \in Event : ~Recorded(e)
  BY DEF Init, LedgerInit, Recorded
<1>4. FromQueue /\ KeysKept /\ NeutralUnlinked /\ CardsKnown
  BY <1>3 DEF Init, LedgerInit, FromQueue, KeysKept, NeutralUnlinked, CardsKnown
<1>5. \A l \in Listener : Carries(l)
  BY DEF Init, Carries, Handling, OnCard
<1> QED
  BY <1>1, <1>2, <1>4, <1>5 DEF MemoryInv

(* Whatever crashes, fails or times out, what a listener has in memory agrees *)
(* with the ledger and the board, however many listeners change them.         *)
THEOREM MemoryInvariant == Spec => []MemoryInv
<1>1. MemoryInv /\ [Next]_vars => MemoryInv'
  BY MemoryStep
<1> QED
  BY InitMemory, <1>1, PTL DEF Spec

(* A listener has messages in memory exactly while it works on one, and no     *)
(* message is received more often than the redrive policy of its queue allows. *)
THEOREM ListenerTypes == Spec => []ListenerTypeOK
<1>1. MemoryInv => ListenerTypeOK
  BY DEF MemoryInv
<1> QED
  BY <1>1, MemoryInvariant, PTL

-----------------------------------------------------------------------------
(* An alert reaches the queue of one project only. Without this the tables     *)
(* alert_events and alert_side_effects, which are keyed by the event alone,    *)
(* let one project note the effects of another's alert.                        *)
OneProject ==
  \A m, n \in Message : m.event \in Event /\ m.event = n.event => m.project = n.project

Linked(e) == e \in transitions /\ eventIncident[e] # NoIncident

(* What a listener is about to write or to note is about the incident that the *)
(* ledger has linked the alert to.                                             *)
Announces(l) ==
  /\ pc[l] \in OnCard /\ Linked(Alert(l)) => work[l].incident = eventIncident[Alert(l)]
  /\ pc[l] = "record" => AllEffectsDone(Alert(l))
  /\ pc[l] = "delete" => Alert(l) \in sideEffect

NotedAreRecorded == \A e \in sideEffect : Recorded(e)

(* DeletedAfterEffects, with the effects of an event for whatever project. *)
DeletedAfterAll ==
  \A m \in Message :
    queue[m] = "deleted" =>
      m.event # Malformed /\ Recorded(m.event) /\ AllEffectsDone(m.event)

LEMMA DeletedAfterOwn == DeletedAfterAll => DeletedAfterEffects
BY DEF DeletedAfterAll, DeletedAfterEffects, EffectsDone, AllEffectsDone

(* The inductive invariant of the side effects, on top of MemoryInv. *)
EffectsInv ==
  /\ \A l \in Listener : Announces(l)
  /\ NotedAreRecorded
  /\ NotedEffectsAreDone
  /\ DeletedAfterAll

(* What is done stays done. *)
LEMMA EffectsStay ==
  ASSUME MemoryInv, Grows, NEW e \in Event, Recorded(e), AllEffectsDone(e)
  PROVE  AllEffectsDone(e)'
<1>1. eventIncident[e] \in IncidentId \cup {NoIncident}
  BY DEF MemoryInv, LedgerInv, LedgerTypeOK
<1> QED
  BY <1>1 DEF Grows, LedgerGrows, AllEffectsDone, Told

LEMMA AnnouncesStays ==
  ASSUME MemoryInv, Grows, NEW l \in Listener, Same(l), Announces(l)
  PROVE  Announces(l)'
<1>1. pc[l] \in Handling => Alert(l) \in Event /\ Recorded(Alert(l))
  BY DEF MemoryInv, Carries
<1>2. Alert(l)' = Alert(l) /\ pc'[l] = pc[l] /\ work'[l] = work[l]
  BY DEF Same, Alert, Current
<1>3. pc[l] \in OnCard \cup {"record", "delete"} => pc[l] \in Handling
  BY DEF OnCard, Handling
<1>4. (pc[l] \in OnCard /\ Linked(Alert(l)) => work[l].incident = eventIncident[Alert(l)])'
  BY <1>1, <1>2, <1>3 DEF Grows, LedgerGrows, Linked, Announces
<1>5. pc[l] = "record" => AllEffectsDone(Alert(l))'
  <2> SUFFICES ASSUME pc[l] = "record" PROVE AllEffectsDone(Alert(l))'
    OBVIOUS
  <2>1. PICK e \in Event : e = Alert(l) /\ Recorded(e) /\ AllEffectsDone(e)
    BY <1>1, <1>3 DEF Announces
  <2>2. AllEffectsDone(e)'
    BY <2>1, EffectsStay
  <2> QED
    BY <1>2, <2>1, <2>2 DEF AllEffectsDone, Told
<1>6. pc[l] = "delete" => (Alert(l) \in sideEffect)'
  BY <1>2 DEF Announces, Grows
<1> QED
  BY <1>2, <1>4, <1>5, <1>6 DEF Announces

(* Notes and deletions keep what they say while no new ones are made. *)
LEMMA NotesStay ==
  ASSUME MemoryInv, Grows, NotedAreRecorded, NotedEffectsAreDone, UNCHANGED sideEffect
  PROVE  NotedAreRecorded' /\ NotedEffectsAreDone'
<1>1. \A e \in sideEffect : e \in Event
  BY DEF MemoryInv, ListenerTypeOK
<1>2. NotedAreRecorded'
  BY <1>1 DEF NotedAreRecorded, Grows, LedgerGrows, Recorded
<1>3. NotedEffectsAreDone'
  BY <1>1, EffectsStay DEF NotedAreRecorded, NotedEffectsAreDone
<1> QED
  BY <1>2, <1>3

LEMMA DeletionsStay ==
  ASSUME MemoryInv, Grows, DeletedAfterAll, NEW m \in Message, queue[m] = "deleted"
  PROVE  m.event # Malformed /\ Recorded(m.event)' /\ AllEffectsDone(m.event)'
<1>1. m.event # Malformed /\ Recorded(m.event) /\ AllEffectsDone(m.event)
  BY DEF DeletedAfterAll
<1>2. m.event \in Event
  BY <1>1, ListenerAssumption
<1>3. PICK e \in Event : e = m.event
  BY <1>2
<1> QED
  BY <1>1, <1>3, EffectsStay DEF Grows, LedgerGrows, Recorded

(* Only the listener that takes a step moves. *)
LEMMA StepAlone ==
  ASSUME LocalTypes, NEW l \in Listener, Step(l) \/ Crash(l)
  PROVE  Alone(l)
<1> USE DEF Alone, LocalTypes, Goto, Advance
<1>1. CASE Receive(l) \/ RecordParseFailure(l) \/ Process(l) \/ CheckEffects(l) \/ NoEffect(l)
  BY <1>1 DEF Receive, RecordParseFailure, Process, CheckEffects, NoEffect
<1>2. CASE ReadTask(l) \/ ReadTaskOfRecovery(l)
  BY <1>2 DEF ReadTask, ReadTaskOfRecovery
<1>3. CASE CreateCard(l) \/ CreateCardFails(l) \/ AttachTask(l) \/ Comment(l) \/ CommentFails(l)
  BY <1>3 DEF CreateCard, CreateCardFails, AttachTask, Comment, CommentFails
<1>4. CASE RecordEffects(l) \/ Delete(l) \/ DeleteFails(l) \/ Crash(l)
  BY <1>4 DEF RecordEffects, Delete, DeleteFails, Crash, queueVars
<1> QED
  BY <1>1, <1>2, <1>3, <1>4 DEF Step

-----------------------------------------------------------------------------
(* The project that recorded an alert is the one whose listener handles it. *)
LEMMA OwnAlert ==
  ASSUME OneProject, MemoryInv, NEW l \in Listener, pc[l] \in Handling
  PROVE  eventProject[Alert(l)] = l.project
<1>1. Alert(l) \in Event /\ Recorded(Alert(l))
  BY AtHand
<1>2. Current(l) \in Message /\ Current(l).project = l.project
  BY PhaseNames, CurrentInBatch
<1>3. PICK m \in Message : m.event = Alert(l) /\ m.project = eventProject[Alert(l)]
  BY <1>1 DEF MemoryInv, FromQueue
<1> QED
  BY <1>1, <1>2, <1>3 DEF OneProject, Alert

(* The incident that the effects of an alert are about is the one the ledger *)
(* has linked it to, and an alert with a link has effects.                   *)
LEMMA EffectIsLink ==
  ASSUME OneProject, MemoryInv, NEW l \in Listener, pc[l] = "effects", Linked(Alert(l))
  PROVE  EffectIncident(l) = {eventIncident[Alert(l)]}
<1> DEFINE e == Alert(l)
           j == eventIncident[e]
<1>1. /\ pc[l] \in Handling /\ Agrees(work[l], l.project, e) /\ e \in Event
  BY AtHand DEF MemoryInv, Carries, Handling
<1>2. CASE work[l].action \in Acting
  BY <1>1, <1>2 DEF EffectIncident, Agrees, Acting
<1>3. CASE work[l].action = "duplicate_event"
  <2>1. e.state \in RecoveryState \cup {"ALARM"}
    BY DEF MemoryInv, NeutralUnlinked, Linked
  <2>2. EffectIncident(l) = IncidentForEvent(l.project, e)
    BY <1>3, <2>1 DEF EffectIncident
  <2>3. /\ j \in IncidentId /\ status[j] # "absent" /\ j[1] = l.project
        /\ Fingerprint(j) = e.alarm
    BY <1>1, OwnAlert DEF MemoryInv, LedgerInv, LedgerTypeOK, LinksMatch, Linked
  <2> DEFINE mine == {i \in IncidentId :
                        status[i] # "absent" /\ i[1] = l.project /\ Fingerprint(i) = e.alarm}
             linked == {i \in mine : eventIncident[e] = i}
  <2>4. j \in linked /\ linked \subseteq {j}
    BY <2>3
  <2>5. IncidentForEvent(l.project, e) =
          IF linked # {} THEN linked ELSE {i \in mine : e \in {i[2], lastEvent[i]}}
    BY DEF IncidentForEvent
  <2> HIDE DEF linked, mine
  <2> QED
    BY <2>2, <2>4, <2>5
<1>4. CASE work[l].action \notin Acting \cup {"duplicate_event"}
  BY <1>1, <1>4 DEF Agrees, Linked
<1> QED
  BY <1>2, <1>3, <1>4

(* Each step of a listener leaves it with a true announcement. *)
LEMMA ProcessAnnounces ==
  ASSUME MemoryInv, NEW l \in Listener, Process(l), NEW e \in Event, e = Alert(l)
  PROVE  Announces(l)'
<1>1. PICK r \in CloudAlertProcessResult(l.project, e) :
        /\ ProcessCloudAlert(l.project, e, r)
        /\ Goto(l, IF r.action = "duplicate_transition" THEN "record" ELSE "check")
  BY DEF Process
<1>2. UNCHANGED batch /\ pc[l] = "process"
  BY DEF Process
<1>3. l.project \in Project /\ LedgerInv /\ KeysKept /\ NeutralUnlinked
  BY <1>2, CurrentInBatch DEF MemoryInv
<1>4. r.action = "duplicate_transition" => e \notin transitions'
  BY <1>1, <1>3, DeliveryGrows
<1>5. /\ pc'[l] \in {"check", "record"} /\ Alert(l)' = e
      /\ pc'[l] = "record" => r.action = "duplicate_transition"
  BY <1>1, <1>2 DEF Goto, MemoryInv, ListenerTypeOK, Alert, Current
<1> QED
  BY <1>4, <1>5 DEF Announces, OnCard, AllEffectsDone, Told

LEMMA ReadAnnounces ==
  ASSUME OneProject, MemoryInv, NEW l \in Listener, pc[l] = "effects", UNCHANGED batch,
         UNCHANGED <<ledgerVars, kanbanTask, cards, comments>>,
         NEW i \in EffectIncident(l), work' = [work EXCEPT ![l].incident = i],
         pc'[l] \in {"create", "record", "comment"},
         pc'[l] = "record" => kanbanTask[i] /\ Alert(l) \in Event
                              /\ (Linked(Alert(l)) => Alert(l) = i[2])
  PROVE  Announces(l)'
<1>1. Linked(Alert(l)) => i = eventIncident[Alert(l)]
  BY EffectIsLink
<1>2. /\ Alert(l)' = Alert(l) /\ UNCHANGED <<transitions, eventIncident>>
      /\ UNCHANGED <<kanbanTask, cards, comments>>
  BY DEF Alert, Current, ledgerVars
<1>3. work'[l].incident = i
  BY DEF MemoryInv, ListenerTypeOK
<1>4. i \in IncidentId /\ (kanbanTask[i] => i \in cards)
  BY EffectIncidentKnown DEF MemoryInv, CardsKnown
<1>5. pc'[l] \in OnCard /\ Linked(Alert(l))' => (work'[l].incident = eventIncident[Alert(l)]')
  BY <1>1, <1>2, <1>3 DEF Linked
<1>6. pc'[l] = "record" => AllEffectsDone(Alert(l))'
  BY <1>1, <1>2, <1>4 DEF Linked, AllEffectsDone, Told
<1> QED
  BY <1>5, <1>6 DEF Announces

LEMMA CardAnnounces ==
  ASSUME MemoryInv, NEW l \in Listener, Announces(l),
         CreateCard(l) \/ AttachTask(l) \/ Comment(l)
  PROVE  Announces(l)'
<1>1. /\ pc[l] \in OnCard /\ pc[l] \in Handling /\ UNCHANGED <<batch, work>>
      /\ UNCHANGED <<transitions, eventIncident>>
  BY DEF CreateCard, AttachTask, Comment, OnCard, Handling, ledgerVars
<1>2. /\ work[l].incident \in IncidentId /\ Alert(l) \in Event
      /\ pc \in [Listener -> PC] /\ TableTypes /\ CardsKnown
  BY <1>1, AtHand DEF MemoryInv, ListenerTypeOK
<1>3. Linked(Alert(l)) => work[l].incident = eventIncident[Alert(l)]
  BY <1>1 DEF Announces
<1>4. Alert(l)' = Alert(l) /\ (Linked(Alert(l))' <=> Linked(Alert(l)))
      /\ eventIncident[Alert(l)]' = eventIncident[Alert(l)]
  BY <1>1 DEF Alert, Current, Linked
<1>5. CASE CreateCard(l)
  <2>1. pc'[l] = "attach"
    BY <1>2, <1>5 DEF CreateCard, Goto
  <2> QED
    BY <1>1, <1>3, <1>4, <2>1 DEF Announces
<1>6. CASE AttachTask(l)
  <2> DEFINE i == work[l].incident
  <2>1. /\ pc'[l] = AfterCard(l, i) /\ pc[l] = "attach"
        /\ kanbanTask'[i] /\ UNCHANGED <<cards, comments>>
    BY <1>2, <1>6 DEF AttachTask, Goto, kanbanVars, TableTypes
  <2>2. i \in cards /\ Agrees(work[l], l.project, Alert(l))
    BY <1>1, <2>1 DEF MemoryInv, Carries
  <2>3. pc'[l] = "record" => (Linked(Alert(l)) => Alert(l) = i[2])
    BY <2>1, <2>2 DEF AfterCard, Agrees
  <2>4. pc'[l] = "record" => AllEffectsDone(Alert(l))'
    BY <1>1, <1>3, <1>4, <2>1, <2>2, <2>3 DEF Linked, AllEffectsDone, Told
  <2>5. pc'[l] \in {"record", "comment"}
    BY <2>1, AfterCardNext
  <2> QED
    BY <1>1, <1>3, <1>4, <2>4, <2>5 DEF Announces
<1>7. CASE Comment(l)
  <2> DEFINE i == work[l].incident
  <2>1. /\ pc'[l] = "record" /\ pc[l] = "comment" /\ UNCHANGED <<kanbanTask, cards>>
        /\ comments' = comments \cup {<<i, Alert(l)>>}
    BY <1>2, <1>7 DEF Comment, Goto, effectVars
  <2>2. kanbanTask[i] /\ i \in cards
    BY <1>2, <2>1 DEF MemoryInv, Carries, CardsKnown
  <2>3. AllEffectsDone(Alert(l))'
    BY <1>1, <1>3, <1>4, <2>1, <2>2 DEF Linked, AllEffectsDone, Told
  <2> QED
    BY <2>1, <2>3 DEF Announces, OnCard
<1> QED
  BY <1>5, <1>6, <1>7

(* The card of an incident is all that is asked for the alert that opened it. *)
LEMMA AfterCardRecord ==
  ASSUME MemoryInv, NEW l \in Listener, pc[l] = "effects", NEW i \in EffectIncident(l),
         AfterCard(l, i) = "record"
  PROVE  Alert(l) = i[2]
<1>1. CASE work[l].action = "opened"
  <2>1. i = work[l].incident /\ Agrees(work[l], l.project, Alert(l))
    BY <1>1 DEF EffectIncident, MemoryInv, Carries
  <2> QED
    BY <1>1, <2>1 DEF Agrees
<1>2. CASE work[l].action # "opened"
  BY <1>2 DEF AfterCard
<1> QED
  BY <1>1, <1>2

LEMMA StepAnnounces ==
  ASSUME OneProject, MemoryInv, NEW l \in Listener, Announces(l), Step(l) \/ Crash(l)
  PROVE  Announces(l)'
<1>1. pc \in [Listener -> PC] /\ batch[l] \in Seq(Message)
  BY DEF MemoryInv, ListenerTypeOK
<1>2. ASSUME pc'[l] \in {"poll", "process", "effects"} PROVE Announces(l)'
  BY <1>2 DEF Announces, OnCard
<1>3. ASSUME Advance(l) PROVE Announces(l)'
  <2>1. pc'[l] \in {"poll", "process"}
    BY <1>1, <1>3 DEF Advance
  <2> QED
    BY <1>2, <2>1
<1>4. CASE Receive(l) \/ Crash(l)
  <2>1. pc'[l] \in {"poll", "process"}
    BY <1>1, <1>4 DEF Receive, Goto, Crash
  <2> QED
    BY <1>2, <2>1
<1>5. CASE Process(l)
  <2>1. Alert(l) \in Event
    BY <1>5, CurrentInBatch, ListenerAssumption DEF Process, Alert
  <2> QED
    BY <1>5, <2>1, ProcessAnnounces
<1>6. CASE CheckEffects(l)
  <2>1. /\ pc'[l] = IF Alert(l) \in sideEffect THEN "delete" ELSE "effects"
        /\ Alert(l)' = Alert(l) /\ sideEffect' = sideEffect
    BY <1>1, <1>6 DEF CheckEffects, Goto, Alert, Current, effectVars
  <2> QED
    BY <2>1 DEF Announces, OnCard
<1>7. CASE NoEffect(l)
  <2>1. /\ pc[l] = "effects" /\ pc'[l] = "record" /\ Alert(l)' = Alert(l)
        /\ UNCHANGED <<transitions, eventIncident>> /\ EffectIncident(l) = {}
    BY <1>1, <1>7 DEF NoEffect, Goto, Alert, Current, ledgerVars
  <2>2. ~Linked(Alert(l))
    BY <2>1, EffectIsLink
  <2>3. AllEffectsDone(Alert(l))'
    BY <2>1, <2>2 DEF Linked, AllEffectsDone, Told
  <2> QED
    BY <2>1, <2>3 DEF Announces, OnCard
<1>8. CASE ReadTask(l)
  <2>1. PICK i \in EffectIncident(l) :
          /\ work' = [work EXCEPT ![l].incident = i]
          /\ Goto(l, IF kanbanTask[i] THEN AfterCard(l, i) ELSE "create")
    BY <1>8 DEF ReadTask
  <2>2. /\ pc[l] = "effects" /\ UNCHANGED batch
        /\ UNCHANGED <<ledgerVars, kanbanTask, cards, comments>>
    BY <1>8 DEF ReadTask, effectVars, kanbanVars
  <2>3. pc'[l] = IF kanbanTask[i] THEN AfterCard(l, i) ELSE "create"
    BY <1>1, <2>1 DEF Goto
  <2>4. pc'[l] \in {"create", "record", "comment"}
    BY <2>3, AfterCardNext
  <2>5. pc'[l] = "record" => kanbanTask[i] /\ Alert(l) = i[2]
    BY <2>2, <2>3, AfterCardRecord
  <2>6. Alert(l) \in Event
    BY <2>2, AtHand DEF Handling
  <2> QED
    BY <2>1, <2>2, <2>4, <2>5, <2>6, ReadAnnounces
<1>9. CASE ReadTaskOfRecovery(l)
  <2>1. PICK i \in EffectIncident(l) :
          \/ /\ kanbanTask[i]
             /\ work' = [work EXCEPT ![l].incident = i]
             /\ Goto(l, "comment")
             /\ UNCHANGED batch
          \/ Advance(l)
    BY <1>9 DEF ReadTaskOfRecovery
  <2>2. /\ pc[l] = "effects"
        /\ UNCHANGED <<ledgerVars, kanbanTask, cards, comments>>
    BY <1>9 DEF ReadTaskOfRecovery, effectVars, kanbanVars
  <2>3. Goto(l, "comment") => pc'[l] = "comment"
    BY <1>1 DEF Goto
  <2> QED
    BY <1>3, <2>1, <2>2, <2>3, ReadAnnounces
<1>10. CASE CreateCard(l) \/ AttachTask(l) \/ Comment(l)
  BY <1>10, CardAnnounces
<1>11. CASE RecordEffects(l)
  <2>1. /\ pc'[l] = "delete" /\ Alert(l)' = Alert(l) /\ sideEffect' = sideEffect \cup {Alert(l)}
    BY <1>1, <1>11 DEF RecordEffects, Goto, Alert, Current
  <2> QED
    BY <2>1 DEF Announces, OnCard
<1>12. CASE RecordParseFailure(l) \/ CreateCardFails(l) \/ CommentFails(l) \/ Delete(l) \/ DeleteFails(l)
  BY <1>3, <1>12 DEF RecordParseFailure, CreateCardFails, CommentFails, Delete, DeleteFails
<1> QED
  BY <1>4, <1>5, <1>6, <1>7, <1>8, <1>9, <1>10, <1>11, <1>12 DEF Step

-----------------------------------------------------------------------------
(* Nothing but Delete makes a message deleted, and only RecordEffects notes. *)
LEMMA QueueMoves ==
  ASSUME MemoryInv, [Next]_vars, NEW m \in Message, queue'[m] = "deleted"
  PROVE  \/ queue[m] = "deleted"
         \/ \E l \in Listener : pc[l] = "delete" /\ Current(l) = m
<1> SUFFICES ASSUME queue[m] # "deleted"
             PROVE  \E l \in Listener : pc[l] = "delete" /\ Current(l) = m
  OBVIOUS
<1>1. queue \in [Message -> QueueState]
  BY DEF MemoryInv, ListenerTypeOK
<1>2. ASSUME NEW S, Take(S) PROVE FALSE
  BY <1>2 DEF Take
<1>3. queue' # queue
  OBVIOUS
<1>4. ASSUME NEW l \in Listener, Step(l) \/ Crash(l) PROVE Delete(l)
  <2>1. ~Receive(l)
    BY <1>2 DEF Receive
  <2> QED
    BY <1>3, <1>4, <2>1 DEF Step, Crash, RecordParseFailure, Process, CheckEffects, NoEffect, ReadTask,
       ReadTaskOfRecovery, CreateCard, CreateCardFails, AttachTask, Comment, CommentFails,
       RecordEffects, DeleteFails, queueVars
<1>5. ASSUME NEW l \in Listener, Delete(l) PROVE pc[l] = "delete" /\ Current(l) = m
  BY <1>1, <1>5 DEF Delete
<1>6. ASSUME NEW n \in Message, Expire(n) \/ DeadLetter(n) PROVE FALSE
  BY <1>1, <1>6 DEF Expire, DeadLetter
<1>7. ASSUME NEW p \in Peeked, Peek(p) PROVE FALSE
  BY <1>2, <1>7 DEF Peek
<1>8. ~UNCHANGED vars
  BY <1>3 DEF vars, queueVars
<1> QED
  BY <1>4, <1>5, <1>6, <1>7, <1>8 DEF Next

LEMMA NoteMoves ==
  ASSUME [Next]_vars
  PROVE  \/ UNCHANGED sideEffect
         \/ \E l \in Listener : pc[l] = "record" /\ sideEffect' = sideEffect \cup {Alert(l)}
<1>1. ASSUME NEW l \in Listener, Step(l) \/ Crash(l)
      PROVE  UNCHANGED sideEffect \/ RecordEffects(l)
  BY <1>1 DEF Step, Crash, Receive, RecordParseFailure, Process, CheckEffects, NoEffect,
     ReadTask, ReadTaskOfRecovery, CreateCard, CreateCardFails, AttachTask, Comment,
     CommentFails, Delete, DeleteFails, effectVars
<1>2. CASE (\E m \in Message : Expire(m) \/ DeadLetter(m)) \/ (\E p \in Peeked : Peek(p))
  BY <1>2 DEF Expire, DeadLetter, Peek, effectVars
<1>3. CASE UNCHANGED vars
  BY <1>3 DEF vars, effectVars
<1>4. ASSUME NEW l \in Listener, RecordEffects(l)
      PROVE  pc[l] = "record" /\ sideEffect' = sideEffect \cup {Alert(l)}
  BY <1>4 DEF RecordEffects
<1> QED
  BY <1>1, <1>2, <1>3, <1>4 DEF Next

LEMMA EffectsStep ==
  ASSUME OneProject, MemoryInv, EffectsInv, [Next]_vars
  PROVE  EffectsInv'
<1>1. Grows
  BY MemoryStep
<1>2. \A l \in Listener : Announces(l)
  BY DEF EffectsInv
<1>3. ASSUME NEW k \in Listener PROVE Announces(k)'
  <2>1. ASSUME NEW l \in Listener, Step(l) \/ Crash(l) PROVE Announces(k)'
    <3>1. Alone(l)
      BY <2>1, StepAlone, TypesSplit DEF MemoryInv
    <3>2. CASE k = l
      BY <1>2, <2>1, <3>2, StepAnnounces
    <3>3. CASE k # l
      BY <1>1, <1>2, <3>1, <3>3, AnnouncesStays DEF Alone, Same
    <3> QED
      BY <3>2, <3>3
  <2>2. ASSUME UNCHANGED localVars PROVE Announces(k)'
    BY <1>1, <1>2, <2>2, AnnouncesStays DEF localVars, Same
  <2>3. CASE (\E m \in Message : Expire(m) \/ DeadLetter(m)) \/ (\E p \in Peeked : Peek(p))
    BY <2>2, <2>3 DEF Expire, DeadLetter, Peek
  <2>4. CASE UNCHANGED vars
    BY <2>2, <2>4 DEF vars
  <2> QED
    BY <2>1, <2>3, <2>4 DEF Next
<1>4. NotedAreRecorded' /\ NotedEffectsAreDone'
  <2>1. CASE UNCHANGED sideEffect
    BY <1>1, <2>1, NotesStay DEF EffectsInv
  <2>2. CASE \E l \in Listener : pc[l] = "record" /\ sideEffect' = sideEffect \cup {Alert(l)}
    <3>1. PICK l \in Listener : pc[l] = "record" /\ sideEffect' = sideEffect \cup {Alert(l)}
      BY <2>2
    <3>2. Alert(l) \in Event /\ Recorded(Alert(l)) /\ AllEffectsDone(Alert(l))
      BY <1>2, <3>1, AtHand DEF Handling, Announces
    <3>3. \A e \in sideEffect' : e \in Event /\ Recorded(e) /\ AllEffectsDone(e)
      BY <3>1, <3>2 DEF EffectsInv, NotedAreRecorded, NotedEffectsAreDone, MemoryInv,
                        ListenerTypeOK
    <3>4. \A e \in sideEffect' : Recorded(e)' /\ AllEffectsDone(e)'
      <4> SUFFICES ASSUME NEW e \in sideEffect' PROVE Recorded(e)' /\ AllEffectsDone(e)'
        OBVIOUS
      <4>1. e \in Event /\ Recorded(e) /\ AllEffectsDone(e)
        BY <3>3
      <4> QED
        BY <1>1, <4>1, EffectsStay DEF Grows, LedgerGrows, Recorded
    <3> QED
      BY <3>4 DEF NotedAreRecorded, NotedEffectsAreDone
  <2> QED
    BY <2>1, <2>2, NoteMoves
<1>5. DeletedAfterAll'
  <2> SUFFICES ASSUME NEW m \in Message, queue'[m] = "deleted"
               PROVE  m.event # Malformed /\ Recorded(m.event)' /\ AllEffectsDone(m.event)'
    BY DEF DeletedAfterAll
  <2>1. CASE queue[m] = "deleted"
    BY <1>1, <2>1, DeletionsStay DEF EffectsInv
  <2>2. CASE \E l \in Listener : pc[l] = "delete" /\ Current(l) = m
    <3>1. m.event \in sideEffect /\ m.event \in Event
      BY <1>2, <2>2 DEF Announces, Alert, MemoryInv, ListenerTypeOK
    <3>2. m.event # Malformed
      BY <3>1, ListenerAssumption
    <3>3. m.event \in sideEffect'
      BY <1>1, <3>1 DEF Grows
    <3>4. Recorded(m.event)' /\ AllEffectsDone(m.event)'
      BY <1>4, <3>3 DEF NotedAreRecorded, NotedEffectsAreDone
    <3> QED
      BY <3>2, <3>4
  <2> QED
    BY <2>1, <2>2, QueueMoves
<1> QED
  BY <1>3, <1>4, <1>5 DEF EffectsInv

LEMMA InitEffects == Init => EffectsInv
BY DEF Init, EffectsInv, Announces, OnCard, NotedAreRecorded, NotedEffectsAreDone,
       DeletedAfterAll

(* Whoever handles an alert writes about the incident it is linked to, and *)
(* what is noted is done.                                                  *)
THEOREM EffectsInvariant ==
  ASSUME OneProject PROVE Spec => [](MemoryInv /\ EffectsInv)
<1>1. Init => MemoryInv /\ EffectsInv
  BY InitMemory, InitEffects
<1>2. (MemoryInv /\ EffectsInv) /\ [Next]_vars => (MemoryInv /\ EffectsInv)'
  BY MemoryStep, EffectsStep
<1> QED
  BY <1>1, <1>2, PTL DEF Spec

(* A message is deleted only after its alert is in the ledger and its side    *)
(* effects are complete, with any number of listeners that crash, fail, hold  *)
(* the same message and wait too long (sqs_ingest.py:                         *)
(* _process_live_sqs_message), if each alert is of one project.               *)
THEOREM DeletedLast == ASSUME OneProject PROVE Spec => []DeletedAfterEffects
<1>1. MemoryInv /\ EffectsInv => DeletedAfterEffects
  BY DeletedAfterOwn DEF EffectsInv
<1> QED
  BY <1>1, EffectsInvariant, PTL

(* alert_side_effects calls nothing done that is not. *)
THEOREM NotesAreTrue == ASSUME OneProject PROVE Spec => []NotedEffectsAreDone
<1>1. MemoryInv /\ EffectsInv => NotedEffectsAreDone
  BY DEF EffectsInv
<1> QED
  BY <1>1, EffectsInvariant, PTL

-----------------------------------------------------------------------------
(* Alarms of one fingerprint reach the queues of one project only: the keys of *)
(* alert_transitions do not name the project.                                  *)
OneOwner ==
  \A m, n \in Message :
    m.event \in Event /\ n.event \in Event /\ m.event.alarm = n.event.alarm
      => m.project = n.project

LEMMA OwnerIsProject == OneOwner => OneProject
BY DEF OneOwner, OneProject

(* A transition of a project is the alert of a message of that project. *)
LEMMA TransitionFromQueue ==
  ASSUME MemoryInv, NEW p \in Project, NEW a \in Alarm, NEW t \in ProjectTransitions(p, a)
  PROVE  \E m \in AlarmMessages(p, a) : m.event = t
<1>1. /\ t \in transitions /\ eventProject[t] = p /\ t.alarm = a /\ t \in Event
      /\ Recorded(t)
  BY DEF ProjectTransitions, MemoryInv, LedgerInv, LedgerTypeOK, TransitionsRecorded
<1>2. PICK m \in Message : m.event = t /\ m.project = p
  BY <1>1 DEF MemoryInv, FromQueue
<1>3. m.event # Malformed
  BY <1>1, <1>2, ListenerAssumption
<1> QED
  BY <1>1, <1>2, <1>3 DEF AlarmMessages

(* The alert of a deleted message has its transition in the same project. *)
LEMMA DeletedHasTransition ==
  ASSUME OneOwner, MemoryInv, DeletedAfterAll, NEW p \in Project, NEW a \in Alarm,
         NEW m \in AlarmMessages(p, a), queue[m] = "deleted"
  PROVE  \E t \in ProjectTransitions(p, a) : t.at = m.event.at /\ t.state = m.event.state
<1>1. /\ m \in Message /\ m.project = p /\ m.event \in Event /\ m.event.alarm = a
      /\ Recorded(m.event)
  BY ListenerAssumption DEF AlarmMessages, DeletedAfterAll
<1>2. PICK t \in transitions : TransitionKey(t) = TransitionKey(m.event)
  BY <1>1 DEF MemoryInv, KeysKept, SameTransition
<1>3. t.alarm = a /\ t.at = m.event.at /\ t.state = m.event.state
  BY <1>1, <1>2 DEF TransitionKey
<1>4. t \in Event /\ Recorded(t)
  BY DEF MemoryInv, LedgerInv, LedgerTypeOK, TransitionsRecorded
<1>5. PICK n \in Message : n.event = t /\ n.project = eventProject[t]
  BY <1>4 DEF MemoryInv, FromQueue
<1>6. n.project = p
  BY <1>1, <1>3, <1>4, <1>5 DEF OneOwner
<1> QED
  BY <1>3, <1>5, <1>6 DEF ProjectTransitions

(* Once every message about an alarm is deleted, its state in the ledger is   *)
(* that of its newest message, in whatever order and however often SQS        *)
(* delivered them and whatever happened to the listeners meanwhile.           *)
THEOREM OutcomeOfTheNewest == ASSUME OneOwner PROVE Spec => []QueueOutcome
<1>1. ASSUME MemoryInv, EffectsInv PROVE QueueOutcome
  <2> SUFFICES ASSUME NEW p \in Project, NEW a \in Alarm,
                      \A m \in AlarmMessages(p, a) : queue[m] = "deleted"
               PROVE  /\ NewestStates(p, a) = {"ALARM"} => OpenIncidents(p, a) # {}
                      /\ (NewestStates(p, a) # {} /\ NewestStates(p, a) \subseteq RecoveryState)
                           => OpenIncidents(p, a) = {}
    BY DEF QueueOutcome
  <2> DEFINE Newest == {m \in AlarmMessages(p, a) :
                          \A n \in AlarmMessages(p, a) : n.event.at <= m.event.at}
  <2>1. NewestStates(p, a) = {m.event.state : m \in Newest}
    BY DEF NewestStates
  <2>2. \A m \in AlarmMessages(p, a) :
          /\ m.event.at \in Nat
          /\ \E t \in ProjectTransitions(p, a) : t.at = m.event.at /\ t.state = m.event.state
    <3> SUFFICES ASSUME NEW m \in AlarmMessages(p, a)
                 PROVE  /\ m.event.at \in Nat
                        /\ \E t \in ProjectTransitions(p, a) :
                             t.at = m.event.at /\ t.state = m.event.state
      OBVIOUS
    <3>1. m.event \in Event
      BY ListenerAssumption DEF AlarmMessages
    <3> QED
      BY <1>1, <3>1, DeletedHasTransition, EventAssumption DEF EffectsInv
  <2>3. \A t \in ProjectTransitions(p, a) : \E m \in AlarmMessages(p, a) : m.event = t
    BY <1>1, TransitionFromQueue
  <2>4. Newest # {} => Latest(p, a) # {}
    BY <2>2, <2>3 DEF Latest
  <2>5. \A t \in Latest(p, a) : Newest # {} => \E m \in Newest : m.event = t
    <3> SUFFICES ASSUME NEW t \in Latest(p, a), NEW x \in Newest
                 PROVE  \E m \in Newest : m.event = t
      OBVIOUS
    <3>1. t \in ProjectTransitions(p, a) /\ \A u \in ProjectTransitions(p, a) : u.at <= t.at
      BY DEF Latest
    <3>2. PICK m \in AlarmMessages(p, a) : m.event = t
      BY <2>3, <3>1
    <3>3. \A n \in AlarmMessages(p, a) : n.event.at <= m.event.at
      BY <2>2, <3>1, <3>2
    <3> QED
      BY <3>2, <3>3
  <2> HIDE DEF Newest
  <2>6. Newest # {} =>
          /\ (\A t \in Latest(p, a) : t.state = "ALARM") => OpenIncidents(p, a) # {}
          /\ (\A t \in Latest(p, a) : t.state \in RecoveryState) => OpenIncidents(p, a) = {}
    BY <1>1, <2>4 DEF MemoryInv, LedgerInv, LatestDecides
  <2>7. \A t \in Latest(p, a) : Newest # {} => t.state \in NewestStates(p, a)
    BY <2>1, <2>5
  <2>8. NewestStates(p, a) # {} => Newest # {}
    BY <2>1
  <2> QED
    BY <2>6, <2>7, <2>8
<1> QED
  BY <1>1, OwnerIsProject, EffectsInvariant, PTL

-----------------------------------------------------------------------------
(* Refinement. The steps of a listener are told apart by what they do to the *)
(* alerts taken, done and noted and to the outcome of the messages.          *)
Done == {e \in Taken : AllEffectsDone(e)}

LEMMA TakenSame ==
  ASSUME UNCHANGED ledgerVars
  PROVE  UNCHANGED Taken /\ \A e \in Taken : UNCHANGED <<Linked(e), eventIncident[e]>>
BY DEF ledgerVars, Taken, Recorded, Linked

LEMMA DoneSame ==
  ASSUME UNCHANGED <<ledgerVars, kanbanTask, cards, comments>>
  PROVE  UNCHANGED <<Taken, Done>>
BY DEF ledgerVars, Taken, Recorded, Done, AllEffectsDone, Told

LEMMA OutcomeSame == ASSUME UNCHANGED queue PROVE UNCHANGED Outcome
BY DEF Outcome

(* A stutter of the abstract specification. *)
LEMMA IntakeStutters ==
  ASSUME UNCHANGED <<Taken, Done, sideEffect, Outcome>>
  PROVE  UNCHANGED Intake!vars
BY DEF Intake!vars, Done

LEMMA TakingBack ==
  ASSUME QueueTypes, NEW p, NEW b \in Batches(p), Take({b[n] : n \in DOMAIN b})
  PROVE  UNCHANGED Outcome
<1> DEFINE S == {b[n] : n \in DOMAIN b}
<1>1. \A m \in S : queue[m] = "visible"
  BY DEF Batches, Receivable
<1> HIDE DEF S
<1>2. queue' = [m \in Message |-> IF m \in S THEN "inflight" ELSE queue[m]]
  BY DEF Take, S
<1>3. \A m \in Message :
        /\ queue'[m] = "deleted" <=> queue[m] = "deleted"
        /\ queue'[m] = "dead" <=> queue[m] = "dead"
  BY <1>1, <1>2
<1> QED
  BY <1>3 DEF Outcome

(* The ledger takes an alert at its first delivery, and only that one. *)
LEMMA ProcessTakes ==
  ASSUME MemoryInv, NEW l \in Listener, Process(l), NEW e \in Event, e = Alert(l)
  PROVE  Intake!Take(e) \/ UNCHANGED Intake!vars
<1>1. PICK r \in CloudAlertProcessResult(l.project, e) : ProcessCloudAlert(l.project, e, r)
  BY DEF Process
<1>2. /\ UNCHANGED <<queue, kanbanTask, sideEffect, cards, comments>> /\ pc[l] = "process"
  BY DEF Process, queueVars, effectVars, kanbanVars
<1>3. l.project \in Project /\ LedgerInv /\ KeysKept /\ NeutralUnlinked
  BY <1>2, CurrentInBatch DEF MemoryInv
<1>4. UNCHANGED Outcome
  BY <1>2, OutcomeSame
<1>5. CASE Recorded(e)
  <2>1. UNCHANGED ledgerVars
    BY <1>1, <1>5 DEF ProcessCloudAlert, DuplicateEvent, DuplicateTransition, Correlate, Open,
       StaleAlarm, UnmatchedOk, StaleOk, Resolve, Observe, RecordTransition
  <2> QED
    BY <1>2, <1>4, <2>1, DoneSame, IntakeStutters
<1>6. CASE ~Recorded(e)
  <2>1. /\ LedgerGrows /\ Recorded(e)'
        /\ \A f \in Event : Recorded(f)' => f = e \/ Recorded(f)
    BY <1>1, <1>3, DeliveryGrows
  <2>2. \A f \in Event \ {e} : Recorded(f)' <=> Recorded(f)
    BY <2>1 DEF LedgerGrows, Recorded
  <2>3. Taken' = Taken \cup {e} /\ e \notin Taken
    BY <1>6, <2>1, <2>2 DEF Taken
  <2>4. \A f \in Taken : AllEffectsDone(f)' <=> AllEffectsDone(f)
    BY <1>2, <2>1 DEF Taken, LedgerGrows, AllEffectsDone, Told
  <2>5. Done' = {f \in Taken' : AllEffectsDone(f)'}
    BY DEF Done
  <2>6. Done' \in {Done, Done \cup {e}}
    <3>1. CASE AllEffectsDone(e)'
      <4>1. Done' = Done \cup {e}
        BY <2>3, <2>4, <2>5, <3>1 DEF Done
      <4> QED
        BY <4>1
    <3>2. CASE ~AllEffectsDone(e)'
      <4>1. Done' = Done
        BY <2>3, <2>4, <2>5, <3>2 DEF Done
      <4> QED
        BY <4>1
    <3> QED
      BY <3>1, <3>2
  <2> QED
    BY <1>2, <1>4, <2>3, <2>6 DEF Intake!Take, Done
<1> QED
  BY <1>5, <1>6

(* A card is of use once the ledger knows it. *)
LEMMA CardStutters ==
  ASSUME MemoryInv, NEW l \in Listener, CreateCard(l) \/ CreateCardFails(l)
  PROVE  UNCHANGED Intake!vars
<1> DEFINE i == work[l].incident
<1>1. /\ cards' \in {cards, cards \cup {i}} /\ UNCHANGED ledgerVars
      /\ UNCHANGED <<queue, kanbanTask, sideEffect, comments>>
  BY DEF CreateCard, CreateCardFails, queueVars, effectVars
<1>2. UNCHANGED Taken /\ UNCHANGED Outcome /\ UNCHANGED <<transitions, eventIncident>>
  BY <1>1, TakenSame, OutcomeSame DEF ledgerVars
<1>3. ASSUME NEW e \in Taken PROVE AllEffectsDone(e)' <=> AllEffectsDone(e)
  <2>1. eventIncident[e] \in IncidentId \cup {NoIncident}
    BY DEF Taken, MemoryInv, LedgerInv, LedgerTypeOK
  <2>2. eventIncident[e] \in IncidentId /\ kanbanTask[eventIncident[e]] => eventIncident[e] \in cards
    BY DEF MemoryInv, CardsKnown
  <2>3. AllEffectsDone(e) <=>
          (Linked(e) => /\ kanbanTask[eventIncident[e]] /\ eventIncident[e] \in cards
                        /\ e # eventIncident[e][2] => <<eventIncident[e], e>> \in comments)
    BY DEF AllEffectsDone, Told, Linked
  <2>4. AllEffectsDone(e)' <=>
          (Linked(e) => /\ kanbanTask[eventIncident[e]] /\ eventIncident[e] \in cards'
                        /\ e # eventIncident[e][2] => <<eventIncident[e], e>> \in comments)
    BY <1>1, <1>2 DEF AllEffectsDone, Told, Linked
  <2>5. Linked(e) => eventIncident[e] \in IncidentId
    BY <2>1 DEF Linked
  <2>6. cards \subseteq cards'
    BY <1>1
  <2> QED
    BY <2>2, <2>3, <2>4, <2>5, <2>6
<1>4. UNCHANGED Done
  BY <1>2, <1>3 DEF Done
<1> QED
  BY <1>1, <1>2, <1>4, IntakeStutters

(* One more alert is done at most. *)
LEMMA DoesOne ==
  ASSUME NEW e, UNCHANGED <<Taken, sideEffect, Outcome>>,
         \A f \in Taken : AllEffectsDone(f) => AllEffectsDone(f)',
         \A f \in Taken : AllEffectsDone(f)' => AllEffectsDone(f) \/ f = e
  PROVE  (e \in Taken /\ Intake!Do(e)) \/ UNCHANGED Intake!vars
<1>1. Done' = {f \in Taken : AllEffectsDone(f)'}
  BY DEF Done
<1>2. CASE e \in Taken /\ AllEffectsDone(e)'
  <2>1. Done' = Done \cup {e}
    BY <1>1, <1>2 DEF Done
  <2> QED
    BY <1>2, <2>1 DEF Intake!Do, Done
<1>3. CASE ~(e \in Taken /\ AllEffectsDone(e)')
  <2>1. UNCHANGED Done
    BY <1>1, <1>3 DEF Done
  <2> QED
    BY <2>1, IntakeStutters
<1> QED
  BY <1>2, <1>3

(* A card that becomes known completes the alert that opened its incident: *)
(* the others still lack their comment.                                    *)
LEMMA AttachDoes ==
  ASSUME MemoryInv, NEW l \in Listener, AttachTask(l)
  PROVE  (\E e \in Event : Intake!Do(e)) \/ UNCHANGED Intake!vars
<1> DEFINE i == work[l].incident
<1>1. /\ kanbanTask' = [kanbanTask EXCEPT ![i] = TRUE] /\ UNCHANGED ledgerVars
      /\ UNCHANGED <<queue, sideEffect, cards, comments>>
      /\ pc[l] \in Handling /\ pc[l] \in OnCard
  BY DEF AttachTask, queueVars, kanbanVars, Handling, OnCard
<1>2. /\ UNCHANGED Taken /\ UNCHANGED Outcome /\ UNCHANGED <<transitions, eventIncident>>
  BY <1>1, TakenSame, OutcomeSame DEF ledgerVars
<1>3. i \in IncidentId /\ i[2] \in Event /\ kanbanTask \in [IncidentId -> BOOLEAN] /\ CardsKnown
  <2>1. i \in IncidentId /\ TableTypes /\ CardsKnown
    BY <1>1, AtHand
  <2> QED
    BY <2>1 DEF TableTypes, IncidentId
<1>4. \A e \in Taken : eventIncident[e] \in IncidentId \cup {NoIncident}
  BY DEF Taken, MemoryInv, LedgerInv, LedgerTypeOK
<1>5. \A j \in IncidentId : (kanbanTask[j] => kanbanTask'[j]) /\ (j # i => kanbanTask'[j] = kanbanTask[j])
  BY <1>1, <1>3
<1>6. \A e \in Taken : AllEffectsDone(e) => AllEffectsDone(e)'
  BY <1>1, <1>2, <1>4, <1>5 DEF AllEffectsDone, Told
<1>7. \A e \in Taken : AllEffectsDone(e)' => AllEffectsDone(e) \/ e = i[2]
  <2> SUFFICES ASSUME NEW e \in Taken, AllEffectsDone(e)', ~AllEffectsDone(e), e # i[2]
               PROVE  FALSE
    OBVIOUS
  <2> DEFINE j == eventIncident[e]
  <2>1. /\ j \in IncidentId /\ ~kanbanTask[j] /\ kanbanTask'[j]
        /\ e # j[2] => <<j, e>> \in comments
    BY <1>1, <1>2, <1>4 DEF AllEffectsDone, Told
  <2>2. j = i
    BY <1>5, <2>1
  <2>3. <<j, e>> \in comments
    BY <2>1, <2>2
  <2>4. kanbanTask[<<j, e>>[1]]
    BY <1>3, <2>3 DEF CardsKnown
  <2> QED
    BY <2>1, <2>4
<1>8. (i[2] \in Taken /\ Intake!Do(i[2])) \/ UNCHANGED Intake!vars
  BY <1>1, <1>2, <1>6, <1>7, DoesOne
<1> QED
  BY <1>3, <1>8

LEMMA CommentDoes ==
  ASSUME MemoryInv, NEW l \in Listener, Comment(l) \/ CommentFails(l)
  PROVE  (\E e \in Event : Intake!Do(e)) \/ UNCHANGED Intake!vars
<1> DEFINE i == work[l].incident
<1>1. /\ comments' \in {comments, comments \cup {<<i, Alert(l)>>}} /\ UNCHANGED ledgerVars
      /\ UNCHANGED <<queue, kanbanTask, sideEffect, cards>>
      /\ pc[l] \in Handling
  BY DEF Comment, CommentFails, queueVars, effectVars, Handling
<1>2. /\ UNCHANGED Taken /\ UNCHANGED Outcome /\ UNCHANGED <<transitions, eventIncident>>
  BY <1>1, TakenSame, OutcomeSame DEF ledgerVars
<1>3. PICK e \in Event : e = Alert(l)
  BY <1>1, AtHand
<1>4. \A f \in Taken : AllEffectsDone(f) => AllEffectsDone(f)'
  BY <1>1, <1>2 DEF AllEffectsDone, Told
<1>5. \A f \in Taken : AllEffectsDone(f)' => AllEffectsDone(f) \/ f = e
  BY <1>1, <1>2, <1>3 DEF AllEffectsDone, Told
<1>6. (e \in Taken /\ Intake!Do(e)) \/ UNCHANGED Intake!vars
  BY <1>1, <1>2, <1>4, <1>5, DoesOne
<1> QED
  BY <1>3, <1>6

LEMMA RecordNotes ==
  ASSUME MemoryInv, EffectsInv, NEW l \in Listener, RecordEffects(l)
  PROVE  \E e \in Event : Intake!Note(e)
<1>1. /\ sideEffect' = sideEffect \cup {Alert(l)} /\ pc[l] = "record" /\ pc[l] \in Handling
      /\ UNCHANGED ledgerVars /\ UNCHANGED <<queue, kanbanTask, cards, comments>>
  BY DEF RecordEffects, queueVars, kanbanVars, Handling
<1>2. PICK e \in Event : e = Alert(l) /\ Recorded(e) /\ AllEffectsDone(e)
  BY <1>1, AtHand DEF EffectsInv, Announces
<1>3. UNCHANGED Taken /\ UNCHANGED Done /\ UNCHANGED Outcome
  BY <1>1, DoneSame, OutcomeSame
<1>4. e \in {f \in Taken : AllEffectsDone(f)}
  BY <1>2 DEF Taken
<1> QED
  BY <1>1, <1>2, <1>3, <1>4 DEF Intake!Note, Done

(* A message that ends is released, or was released or given up before. *)
LEMMA DeleteReleases ==
  ASSUME MemoryInv, EffectsInv, NEW l \in Listener, Delete(l) \/ DeleteFails(l)
  PROVE  (\E m \in Message : Intake!Release(m)) \/ UNCHANGED Intake!vars
<1>1. /\ pc[l] = "delete" /\ pc[l] # "poll" /\ UNCHANGED ledgerVars
      /\ UNCHANGED <<kanbanTask, sideEffect, cards, comments>>
  BY DEF Delete, DeleteFails, effectVars, kanbanVars
<1>2. UNCHANGED Taken /\ UNCHANGED Done
  BY <1>1, DoneSame
<1>3. PICK m \in Message : m = Current(l) /\ m.event \in sideEffect
  BY <1>1, CurrentInBatch DEF EffectsInv, Announces, Alert
<1>4. queue \in [Message -> QueueState]
  BY DEF MemoryInv, ListenerTypeOK
<1>5. CASE UNCHANGED queue
  BY <1>1, <1>2, <1>5, OutcomeSame, IntakeStutters
<1>6. CASE queue' = [queue EXCEPT ![m] = "deleted"] /\ queue[m] # "dead"
  <2>1. CASE queue[m] = "deleted"
    <3>1. queue' = queue
      BY <1>4, <1>6, <2>1
    <3> QED
      BY <1>5, <3>1
  <2>2. CASE queue[m] # "deleted"
    <3>1. Outcome[m] = "waiting" /\ Outcome' = [Outcome EXCEPT ![m] = "released"]
      BY <1>4, <1>6, <2>2 DEF Outcome
    <3>2. EventOf(m) \in sideEffect
      BY <1>3 DEF EventOf
    <3>3. Intake!End(m, "released")
      BY <1>1, <1>2, <3>1 DEF Intake!End, Done
    <3> QED
      BY <3>2, <3>3 DEF Intake!Release
  <2> QED
    BY <2>1, <2>2
<1>7. CASE Delete(l)
  BY <1>3, <1>5, <1>6, <1>7 DEF Delete
<1>8. CASE DeleteFails(l)
  BY <1>5, <1>8 DEF DeleteFails, queueVars
<1> QED
  BY <1>7, <1>8

LEMMA OutsideIntake ==
  ASSUME MemoryInv,
         (\E m \in Message : Expire(m) \/ DeadLetter(m)) \/ (\E p \in Peeked : Peek(p))
  PROVE  (\E m \in Message : Intake!GiveUp(m)) \/ UNCHANGED Intake!vars
<1>1. UNCHANGED ledgerVars /\ UNCHANGED <<kanbanTask, sideEffect, cards, comments>>
  BY DEF Expire, DeadLetter, Peek, effectVars, kanbanVars
<1>2. UNCHANGED Taken /\ UNCHANGED Done
  BY <1>1, DoneSame
<1>3. queue \in [Message -> QueueState] /\ QueueTypes
  BY TypesSplit DEF MemoryInv, ListenerTypeOK
<1>4. ASSUME UNCHANGED Outcome PROVE UNCHANGED Intake!vars
  BY <1>1, <1>2, <1>4, IntakeStutters
<1>5. ASSUME NEW m \in Message, Expire(m) PROVE UNCHANGED Intake!vars
  <2>1. UNCHANGED Outcome
    BY <1>3, <1>5 DEF Expire, Outcome
  <2> QED
    BY <1>4, <2>1
<1>6. ASSUME NEW m \in Message, DeadLetter(m) PROVE Intake!GiveUp(m)
  <2>1. Outcome[m] = "waiting" /\ Outcome' = [Outcome EXCEPT ![m] = "given up"]
    BY <1>3, <1>6 DEF DeadLetter, Outcome
  <2> QED
    BY <1>1, <1>2, <2>1 DEF Intake!GiveUp, Intake!End, Done
<1>7. ASSUME NEW p \in Peeked, Peek(p) PROVE UNCHANGED Intake!vars
  <2>1. UNCHANGED Outcome
    BY <1>3, <1>7, TakingBack DEF Peek
  <2> QED
    BY <1>4, <2>1
<1> QED
  BY <1>5, <1>6, <1>7

LEMMA IntakeStep ==
  ASSUME MemoryInv, EffectsInv, [Next]_vars
  PROVE  [Intake!Next]_(Intake!vars)
<1>1. ASSUME NEW l \in Listener, Step(l) \/ Crash(l)
      PROVE  Intake!Next \/ UNCHANGED Intake!vars
  <2>1. CASE Receive(l)
    <3>1. UNCHANGED <<ledgerVars, kanbanTask, cards, comments>> /\ UNCHANGED sideEffect
      BY <2>1 DEF Receive, effectVars, kanbanVars
    <3>2. QueueTypes
      BY TypesSplit DEF MemoryInv
    <3>3. UNCHANGED Outcome
      BY <2>1, <3>2, TakingBack DEF Receive
    <3> QED
      BY <3>1, <3>3, DoneSame, IntakeStutters
  <2>2. CASE Process(l)
    <3>1. PICK e \in Event : e = Alert(l)
      BY <2>2, CurrentInBatch, ListenerAssumption DEF Process, Alert
    <3> QED
      BY <2>2, <3>1, ProcessTakes DEF Intake!Next
  <2>3. CASE RecordParseFailure(l) \/ CheckEffects(l) \/ NoEffect(l) \/ ReadTask(l)
             \/ ReadTaskOfRecovery(l) \/ Crash(l)
    <3>1. UNCHANGED <<ledgerVars, kanbanTask, cards, comments>> /\ UNCHANGED <<sideEffect, queue>>
      BY <2>3 DEF RecordParseFailure, CheckEffects, NoEffect, ReadTask, ReadTaskOfRecovery, Crash,
         queueVars, effectVars, kanbanVars
    <3> QED
      BY <3>1, DoneSame, OutcomeSame, IntakeStutters
  <2>4. CASE CreateCard(l) \/ CreateCardFails(l)
    BY <2>4, CardStutters
  <2>5. CASE AttachTask(l)
    BY <2>5, AttachDoes DEF Intake!Next
  <2>6. CASE Comment(l) \/ CommentFails(l)
    BY <2>6, CommentDoes DEF Intake!Next
  <2>7. CASE RecordEffects(l)
    BY <2>7, RecordNotes DEF Intake!Next
  <2>8. CASE Delete(l) \/ DeleteFails(l)
    BY <2>8, DeleteReleases DEF Intake!Next
  <2> QED
    BY <1>1, <2>1, <2>2, <2>3, <2>4, <2>5, <2>6, <2>7, <2>8 DEF Step
<1>2. CASE (\E m \in Message : Expire(m) \/ DeadLetter(m)) \/ (\E p \in Peeked : Peek(p))
  BY <1>2, OutsideIntake DEF Intake!Next
<1>3. CASE UNCHANGED vars
  <2>1. UNCHANGED <<ledgerVars, kanbanTask, cards, comments>> /\ UNCHANGED <<sideEffect, queue>>
    BY <1>3 DEF vars, queueVars, effectVars, kanbanVars
  <2> QED
    BY <2>1, DoneSame, OutcomeSame, IntakeStutters
<1> QED
  BY <1>1, <1>2, <1>3 DEF Next

LEMMA IntakeInit == Init => Intake!Init
<1> SUFFICES ASSUME Init PROVE Intake!Init
  OBVIOUS
<1>1. Taken = {} /\ Outcome = [m \in Message |-> "waiting"] /\ sideEffect = {}
  BY DEF Init, LedgerInit, Taken, Recorded, Outcome
<1> QED
  BY <1>1 DEF Intake!Init

(* The listeners, however many and however they fail, implement AlertIntake: *)
(* taken, done, noted, released, in this order and each once.                *)
THEOREM IntakeRefinement == ASSUME OneProject PROVE Spec => ImplementsIntake
<1>1. MemoryInv /\ EffectsInv /\ [Next]_vars => [Intake!Next]_(Intake!vars)
  BY IntakeStep
<1> QED
  BY IntakeInit, <1>1, EffectsInvariant, PTL DEF Spec, ImplementsIntake, Intake!Spec
=============================================================================
