-------------------------- MODULE ReadinessProofs --------------------------
(***************************************************************************)
(* Theorems about Readiness, for every set of messages, size of batch,     *)
(* redrive policy and number of faults.                                    *)
(***************************************************************************)
EXTENDS Readiness, TLAPS

(* Of the first k checks of the preflight one would fail now. *)
Blocked(k) == \E n \in 1..k : TRUE \notin Answers(Checks[n])

(* Two faults that will be paid for with one receive at most: the ledger was   *)
(* emptied or locked under the process, which will raise; and something failed *)
(* after its check was passed.                                                 *)
Emptied == IF pc # "start" /\ state["ledger"] \in {"empty", "unwritable"} THEN 1 ELSE 0

Unseen(k) == IF Blocked(k) THEN 1 ELSE 0

Passed == IF pc = "check" THEN IF checked.ok THEN checked.done ELSE 0 ELSE 6

InBatch(m) == \E n \in DOMAIN batch : batch[n] = m

(* What a message that is not in the batch still stands to lose. *)
Pending == IF pc \in {"check", "receive"} THEN Unseen(Passed) ELSE 0

(* Every receive of a message has been paid for with a fault, but for the one *)
(* the batch at hand stands for; faults with consequences yet to come are not *)
(* spent.                                                                     *)
Paid(m) ==
  /\ (queue[m] # "deleted" /\ InBatch(m)) =>
       receives[m] + Emptied + Unseen(6) <= faults + 1
  /\ (queue[m] # "deleted" /\ ~InBatch(m)) =>
       receives[m] + Emptied + Pending <= faults
  /\ queue[m] = "deleted" => receives[m] <= faults + 1
  /\ queue[m] = "dead" => faults >= MaxReceive /\ ~InBatch(m)

NoneBlind == \A d \in Dependency : <<d, state[d]>> \notin Blind

ReadinessInv ==
  /\ ReadinessTypeOK
  /\ pc # "check" => checked = NoChecks
  /\ ~blind => NoneBlind /\ \A m \in Message : Paid(m)

-----------------------------------------------------------------------------
(* What is needed, and the checks *)

LEMMA Dependencies ==
  /\ Dependency = {"ledger", "hermes", "profile", "board", "queue", "aws", "telegram"}
  /\ \A d \in Dependency : Faulty[d] \subseteq Condition
  /\ "ok" \in Condition
  /\ \A d \in Dependency :
       "empty" \in Faulty[d] \/ "unwritable" \in Faulty[d] => d = "ledger"
<1>1. /\ \A d \in Dependency : Faulty[d] \subseteq Condition
      /\ "ok" \in Condition
  BY DEF Condition
<1> QED
  BY <1>1 DEF Dependency, Faulty

(* What the lists of boards and the attributes of the queue tell. *)
LEMMA Looks ==
  /\ LooksUp("board") <=> state["board"] \in {"ok", "refusing"}
  /\ LooksUp("queue") <=> state["queue"] \in {"ok", "keeping"}
BY DEF LooksUp, IsUp, Blind

LEMMA SixChecks ==
  /\ Len(Checks) = 6
  /\ Checks[1] = "sqlite" /\ Checks[2] = "hermes_binary" /\ Checks[3] = "hermes_profile"
  /\ Checks[4] = "kanban_board" /\ Checks[5] = "sqs_queue_access" /\ Checks[6] = "aws_identity"
BY DEF Checks

(* When a check can only fail. *)
LEMMA ChecksFail ==
  /\ TRUE \notin Answers(Checks[1]) <=> state["ledger"] = "down"
  /\ TRUE \notin Answers(Checks[2]) <=> ~IsUp("hermes")
  /\ TRUE \notin Answers(Checks[3]) <=> ~(IsUp("hermes") /\ IsUp("profile"))
  /\ TRUE \notin Answers(Checks[4]) <=>
       ~(IsUp("hermes") /\ IsUp("profile") /\ (LooksUp("board") \/ state["board"] = "hanging"))
  /\ TRUE \notin Answers(Checks[5]) <=> ~(LooksUp("queue") /\ IsUp("aws"))
  /\ TRUE \notin Answers(Checks[6]) <=> ~IsUp("aws")
<1>1. TRUE \notin Answers(Checks[1]) <=> state["ledger"] = "down"
  BY SixChecks DEF Answers
<1>2. TRUE \notin Answers(Checks[2]) <=> ~IsUp("hermes")
  BY SixChecks DEF Answers, IsUp
<1>3. TRUE \notin Answers(Checks[3]) <=> ~(IsUp("hermes") /\ IsUp("profile"))
  BY SixChecks DEF Answers, IsUp
<1>4. TRUE \notin Answers(Checks[4]) <=>
       ~(IsUp("hermes") /\ IsUp("profile") /\ (LooksUp("board") \/ state["board"] = "hanging"))
  BY SixChecks DEF Answers, IsUp, LooksUp
<1>5. TRUE \notin Answers(Checks[5]) <=> ~(LooksUp("queue") /\ IsUp("aws"))
  BY SixChecks DEF Answers, IsUp, LooksUp
<1>6. TRUE \notin Answers(Checks[6]) <=> ~IsUp("aws")
  BY SixChecks DEF Answers, IsUp
<1> QED
  BY <1>1, <1>2, <1>3, <1>4, <1>5, <1>6

(* What was not up when the batch was worked on, or deleted, would be seen. *)
LEMMA FailuresAreSeen ==
  /\ ~SqsAnswers => Blocked(6)
  /\ NoneBlind => state["queue"] # "keeping"
  /\ NoneBlind /\ ~KanbanAnswers /\ ~KanbanHangs => Blocked(6)
  /\ state["ledger"] = "down" => Blocked(6)
<1>1. ASSUME NEW n \in 1..6, TRUE \notin Answers(Checks[n]) PROVE Blocked(6)
  BY <1>1 DEF Blocked
<1>2. ASSUME ~SqsAnswers PROVE Blocked(6)
  <2>1. ~(LooksUp("queue") /\ IsUp("aws"))
    BY <1>2, Looks DEF SqsAnswers
  <2>2. TRUE \notin Answers(Checks[5])
    BY <2>1, ChecksFail
  <2> QED
    BY <1>1, <2>2
<1>5. NoneBlind => state["board"] # "refusing" /\ state["queue"] # "keeping"
  BY Dependencies DEF NoneBlind, Blind
<1>3. ASSUME NoneBlind, ~KanbanAnswers, ~KanbanHangs
      PROVE  Blocked(6)
  <2>1. ~(IsUp("hermes") /\ IsUp("profile") /\ (LooksUp("board") \/ state["board"] = "hanging"))
    BY <1>3, <1>5, Looks DEF KanbanAnswers, KanbanHangs, IsUp
  <2>2. TRUE \notin Answers(Checks[4])
    BY <2>1, ChecksFail
  <2> QED
    BY <1>1, <2>2
<1>4. ASSUME state["ledger"] = "down" PROVE Blocked(6)
  <2>1. TRUE \notin Answers(Checks[1])
    BY <1>4, ChecksFail
  <2> QED
    BY <1>1, <2>1
<1> QED
  BY <1>2, <1>3, <1>4, <1>5

(* What was fine stays fine: no check that could pass can only fail now. *)
LEMMA NothingNew ==
  ASSUME NEW k \in 0..6, Blocked(k)',
         \A d \in Dependency \ {"ledger"} : state'[d] = state[d] \/ state'[d] = "ok",
         state'["ledger"] = "down" => state["ledger"] = "down"
  PROVE  Blocked(k)
<1>1. PICK n \in 1..k : (TRUE \notin Answers(Checks[n]))'
  BY DEF Blocked
<1>2. n \in 1..6
  BY <1>1
<1>3. SUFFICES TRUE \notin Answers(Checks[n])
  BY <1>1 DEF Blocked
<1>4. /\ \A d \in {"hermes", "profile", "aws"} : IsUp(d) => IsUp(d)'
      /\ LooksUp("board") => LooksUp("board")'
      /\ LooksUp("queue") => LooksUp("queue")'
      /\ state["board"] = "hanging" => state["board"]' \in {"hanging", "ok"}
  BY Dependencies, Looks DEF IsUp, LooksUp, Blind
<1>5. CASE n = 1
  <2>1. (TRUE \notin Answers(Checks[1]))'
    BY <1>1, <1>5
  <2>2. TRUE \notin Answers(Checks[1])
    BY <2>1, <1>4, SixChecks DEF Answers, IsUp, LooksUp
  <2> QED
    BY <2>2, <1>5
<1>6. CASE n = 2
  <2>1. (TRUE \notin Answers(Checks[2]))'
    BY <1>1, <1>6
  <2>2. TRUE \notin Answers(Checks[2])
    BY <2>1, <1>4, SixChecks DEF Answers, IsUp, LooksUp
  <2> QED
    BY <2>2, <1>6
<1>7. CASE n = 3
  <2>1. (TRUE \notin Answers(Checks[3]))'
    BY <1>1, <1>7
  <2>2. TRUE \notin Answers(Checks[3])
    BY <2>1, <1>4, SixChecks DEF Answers, IsUp, LooksUp
  <2> QED
    BY <2>2, <1>7
<1>8. CASE n = 4
  <2>1. (TRUE \notin Answers(Checks[4]))'
    BY <1>1, <1>8
  <2>2. TRUE \notin Answers(Checks[4])
    BY <2>1, <1>4, SixChecks DEF Answers, IsUp, LooksUp
  <2> QED
    BY <2>2, <1>8
<1>9. CASE n = 5
  <2>1. (TRUE \notin Answers(Checks[5]))'
    BY <1>1, <1>9
  <2>2. TRUE \notin Answers(Checks[5])
    BY <2>1, <1>4, SixChecks DEF Answers, IsUp, LooksUp
  <2> QED
    BY <2>2, <1>9
<1>10. CASE n = 6
  <2>1. (TRUE \notin Answers(Checks[6]))'
    BY <1>1, <1>10
  <2>2. TRUE \notin Answers(Checks[6])
    BY <2>1, <1>4, SixChecks DEF Answers, IsUp, LooksUp
  <2> QED
    BY <2>2, <1>10
<1>11. n = 1 \/ n = 2 \/ n = 3 \/ n = 4 \/ n = 5 \/ n = 6
  BY <1>2
<1> QED
  BY <1>5, <1>6, <1>7, <1>8, <1>9, <1>10, <1>11

LEMMA AnswersAreBoolean ==
  ASSUME NEW n \in 1..6
  PROVE  Answers(Checks[n]) \subseteq BOOLEAN
<1>1. n = 1 \/ n = 2 \/ n = 3 \/ n = 4 \/ n = 5 \/ n = 6
  OBVIOUS
<1> QED
  BY <1>1, SixChecks DEF Answers, IsUp, LooksUp

LEMMA NothingPassed == ~Blocked(0)
BY DEF Blocked

-----------------------------------------------------------------------------
(* Batches *)

LEMMA BatchIsSeq ==
  ASSUME NEW b \in Batches, ReadinessTypeOK
  PROVE  /\ b \in Seq(Message) /\ b # <<>>
         /\ \A n \in DOMAIN b : b[n] \in Receivable
<1>1. PICK n \in 1..MaxMessages : b \in [1..n -> Receivable]
  BY DEF Batches
<1>2. n \in Nat \ {0}
  BY ReadinessAssumption
<1>3. b \in Seq(Message)
  BY <1>1, <1>2 DEF Receivable
<1>4. b # <<>>
  BY <1>1, <1>2
<1> QED
  BY <1>1, <1>3, <1>4

LEMMA BatchTail ==
  ASSUME batch \in Seq(Message), batch # <<>>, batch' = Tail(batch)
  PROVE  /\ batch' \in Seq(Message)
         /\ Head(batch) \in Message /\ InBatch(Head(batch))
         /\ \A m : InBatch(m)' => InBatch(m)
         /\ \A m : InBatch(m) => InBatch(m)' \/ m = Head(batch)
<1>1. batch' \in Seq(Message) /\ Head(batch) \in Message /\ Len(batch) > 0
  BY SMT
<1>2. InBatch(Head(batch))
  BY <1>1 DEF InBatch
<1>3. ASSUME NEW m, InBatch(m)' PROVE InBatch(m)
  <2>1. PICK n \in DOMAIN batch' : batch'[n] = m
    BY <1>3 DEF InBatch
  <2>2. n + 1 \in DOMAIN batch /\ batch[n + 1] = m
    BY <2>1, <1>1
  <2> QED
    BY <2>2 DEF InBatch
<1>4. ASSUME NEW m, InBatch(m), m # Head(batch) PROVE InBatch(m)'
  <2>1. PICK n \in DOMAIN batch : batch[n] = m
    BY <1>4 DEF InBatch
  <2>2. n - 1 \in DOMAIN batch' /\ batch'[n - 1] = m
    BY <2>1, <1>1, <1>4
  <2> QED
    BY <2>2 DEF InBatch
<1> QED
  BY <1>1, <1>2, <1>3, <1>4

LEMMA NoBatch ==
  ASSUME batch = <<>>
  PROVE  \A m : ~InBatch(m)
BY DEF InBatch

-----------------------------------------------------------------------------
(* Types *)

LEMMA InitTypes == Init => ReadinessTypeOK
<1> SUFFICES ASSUME Init PROVE ReadinessTypeOK
  OBVIOUS
<1>1. /\ state \in [Dependency -> Condition]
      /\ \A d \in Dependency : state[d] \in {"ok"} \cup Faulty[d]
  BY Dependencies DEF Init
<1>2. faults \in 0..MaxFaults
  BY ReadinessAssumption DEF Init
<1>5. blind \in BOOLEAN
  BY Zenon DEF Init
<1>3. /\ queue \in [Message -> {"visible", "inflight", "deleted", "dead"}]
      /\ receives \in [Message -> 0..MaxReceive]
      /\ handled \subseteq Message
  BY ReadinessAssumption DEF Init
<1>4. /\ checked \in Preflight
      /\ pc = "start" /\ batch \in Seq(Message) /\ batch = <<>>
  BY DEF Init, NoChecks, Preflight
<1> QED
  BY <1>1, <1>2, <1>3, <1>4, <1>5, Zenon DEF ReadinessTypeOK

LEMMA DieTypes ==
  ASSUME ReadinessTypeOK, Die
  PROVE  /\ pc' = "start" /\ batch' = <<>> /\ batch' \in Seq(Message)
         /\ checked' = NoChecks /\ checked' \in Preflight
BY DEF Die, Goto, NoChecks, Preflight

LEMMA AdvanceTypes ==
  ASSUME ReadinessTypeOK, Advance, batch # <<>>
  PROVE  /\ batch' \in Seq(Message)
         /\ pc' \in {"check", "work"} /\ (batch' # <<>> <=> pc' = "work")
<1>1. batch' = Tail(batch)
  BY DEF Advance
<1>2. batch' \in Seq(Message)
  BY <1>1, BatchTail DEF ReadinessTypeOK
<1> QED
  BY <1>1, <1>2 DEF Advance, Goto

LEMMA StepTypes ==
  ASSUME ReadinessTypeOK, [Next]_vars
  PROVE  ReadinessTypeOK'
<1> USE DEF ReadinessTypeOK
<1>1. CASE Start
  <2>1. state' = [state EXCEPT !["ledger"] = IF @ = "empty" THEN "ok" ELSE @]
    BY <1>1 DEF Start
  <2>2. (/\ state \in [Dependency -> Condition]
         /\ \A d \in Dependency : state[d] \in {"ok"} \cup Faulty[d])'
    BY <2>1, Dependencies
  <2> QED
    BY <1>1, <2>2 DEF Start, Goto
<1>2. CASE CheckNext
  <2>1. PICK ok \in Answers(Checks[checked.done + 1]) :
          checked' = [done |-> checked.done + 1, ok |-> checked.ok /\ ok]
    BY <1>2 DEF CheckNext
  <2>2. checked.done + 1 \in 0..6 /\ (checked.ok /\ ok) \in BOOLEAN
    BY <1>2, SixChecks DEF CheckNext, Preflight
  <2>3. checked' \in Preflight
    BY <2>1, <2>2 DEF Preflight
  <2> QED
    BY <1>2, <2>3 DEF CheckNext
<1>3. CASE EndPreflight
  BY <1>3 DEF EndPreflight, Goto, NoChecks, Preflight
<1>4. CASE Receive
  <2>1. PICK b \in Batches :
          /\ batch' = b
          /\ queue' = [m \in Message |->
                         IF m \in {b[n] : n \in DOMAIN b} THEN "inflight" ELSE queue[m]]
          /\ receives' = [m \in Message |->
               IF m \in {b[n] : n \in DOMAIN b} THEN receives[m] + 1 ELSE receives[m]]
    BY <1>4 DEF Receive
  <2>2. b \in Seq(Message) /\ b # <<>> /\ \A n \in DOMAIN b : b[n] \in Receivable
    BY BatchIsSeq
  <2>3. \A m \in Message : m \in {b[n] : n \in DOMAIN b} => receives[m] + 1 \in 0..MaxReceive
    BY <2>2, ReadinessAssumption DEF Receivable
  <2>4. receives' \in [Message -> 0..MaxReceive]
    BY <2>1, <2>3
  <2>5. queue' \in [Message -> {"visible", "inflight", "deleted", "dead"}]
    BY <2>1
  <2> QED
    BY <1>4, <2>1, <2>2, <2>4, <2>5 DEF Receive, Goto
<1>5. CASE ReceiveNothing
  BY <1>5 DEF ReceiveNothing, Goto
<1>6. CASE ReceiveRaises
  BY <1>6, DieTypes DEF ReceiveRaises
<1>7. CASE Work
  <2>1. Head(batch) \in Message /\ batch # <<>>
    BY <1>7 DEF Work
  <2>2. CASE Goto("delete") /\ handled' = handled \cup {Head(batch)} /\ UNCHANGED batch
    BY <1>7, <2>1, <2>2 DEF Work, Goto
  <2>3. CASE Advance /\ UNCHANGED handled
    BY <1>7, <2>1, <2>3, AdvanceTypes DEF Work
  <2> QED
    BY <1>7, <2>2, <2>3 DEF Work
<1>8. CASE WorkRaises
  BY <1>8, DieTypes DEF WorkRaises
<1>16. CASE WorkHangs \/ HangEnds
  BY <1>16 DEF WorkHangs, HangEnds, Goto
<1>9. CASE Delete
  <2>1. batch # <<>> /\ Advance
    BY <1>9 DEF Delete
  <2>2. queue' \in [Message -> {"visible", "inflight", "deleted", "dead"}]
    BY <1>9 DEF Delete
  <2> QED
    BY <1>9, <2>1, <2>2, AdvanceTypes DEF Delete
<1>10. CASE Kill
  BY <1>10, DieTypes, ReadinessAssumption DEF Kill
<1>11. ASSUME NEW d \in Dependency, Fail(d) PROVE ReadinessTypeOK'
  <2>1. PICK s \in Faulty[d] :
          /\ state' = [state EXCEPT ![d] = s]
          /\ handled' = IF s = "empty" THEN {} ELSE handled
          /\ blind' = (blind \/ <<d, s>> \in Blind)
    BY <1>11 DEF Fail
  <2>2. (/\ state \in [Dependency -> Condition]
         /\ \A e \in Dependency : state[e] \in {"ok"} \cup Faulty[e])'
    BY <2>1, Dependencies
  <2>3. faults' \in 0..MaxFaults
    BY <1>11, ReadinessAssumption DEF Fail
  <2> QED
    BY <1>11, <2>1, <2>2, <2>3 DEF Fail
<1>12. ASSUME NEW d \in Dependency, Recover(d) PROVE ReadinessTypeOK'
  <2>1. state' = [state EXCEPT ![d] = "ok"]
    BY <1>12 DEF Recover
  <2>2. (/\ state \in [Dependency -> Condition]
         /\ \A e \in Dependency : state[e] \in {"ok"} \cup Faulty[e])'
    BY <2>1, Dependencies
  <2> QED
    BY <1>12, <2>2 DEF Recover
<1>13. ASSUME NEW m \in Message, Expire(m) PROVE ReadinessTypeOK'
  BY <1>13 DEF Expire
<1>14. ASSUME NEW m \in Message, DeadLetter(m) PROVE ReadinessTypeOK'
  BY <1>14 DEF DeadLetter
<1>15. CASE UNCHANGED vars
  BY <1>15 DEF vars
<1> QED
  BY <1>1, <1>2, <1>3, <1>4, <1>5, <1>6, <1>7, <1>8, <1>9, <1>10, <1>11, <1>12, <1>13,
     <1>14, <1>15, <1>16 DEF Next, Step

(* Every variable keeps its type, and a batch is at hand exactly while one is *)
(* worked on or deleted.                                                      *)
THEOREM ReadinessTypes == Spec => []ReadinessTypeOK
BY InitTypes, StepTypes, PTL DEF Spec

-----------------------------------------------------------------------------
(* Every receive is paid for. *)

LEMMA Amounts ==
  /\ Emptied \in {0, 1} /\ Pending \in {0, 1}
  /\ \A k : Unseen(k) \in {0, 1}
BY DEF Emptied, Pending, Unseen

LEMMA InBatchWorked ==
  ASSUME ReadinessTypeOK, NEW m, InBatch(m)
  PROVE  pc \in {"work", "hung", "delete"}
BY NoBatch DEF ReadinessTypeOK

LEMMA InitPaid == Init => ReadinessInv
<1> SUFFICES ASSUME Init PROVE ReadinessInv
  OBVIOUS
<1>1. ReadinessTypeOK
  BY InitTypes
<1>2. ASSUME NEW m \in Message PROVE Paid(m)
  <2>1. ~InBatch(m) /\ Emptied = 0 /\ Pending = 0
    BY NoBatch DEF Init, Emptied, Pending
  <2> QED
    BY <2>1 DEF Init, Paid
<1>3. NoneBlind
  BY DEF Init, NoneBlind, Blind
<1> QED
  BY <1>1, <1>2, <1>3 DEF Init, ReadinessInv

(* A step that receives nothing, settles nothing and is no fault may only lower *)
(* what is pending.                                                             *)
LEMMA QuietStep ==
  ASSUME ReadinessTypeOK, ReadinessTypeOK', NEW m \in Message, Paid(m),
         receives' = receives, faults' = faults, batch' = batch,
         queue'[m] = queue[m] \/ {queue[m], queue'[m]} \subseteq {"visible", "inflight"},
         Emptied' <= Emptied, Pending' <= Pending,
         InBatch(m) => Unseen(6)' <= Unseen(6)
  PROVE  Paid(m)'
<1>1. /\ receives[m] \in Nat /\ faults \in Nat
      /\ InBatch(m)' <=> InBatch(m)
  BY ReadinessAssumption DEF ReadinessTypeOK, InBatch
<1>2. /\ Emptied \in {0, 1} /\ Pending \in {0, 1} /\ Unseen(6) \in {0, 1}
      /\ Emptied' \in {0, 1} /\ Pending' \in {0, 1} /\ Unseen(6)' \in {0, 1}
  BY DEF Emptied, Pending, Unseen
<1> QED
  BY <1>1, <1>2 DEF Paid

(* The process gives its batch up: either that is a fault, or one is on record. *)
LEMMA GivenUp ==
  ASSUME ReadinessTypeOK, ReadinessTypeOK', NEW m \in Message, Paid(m),
         receives' = receives, queue' = queue, pc' = "start", batch' = <<>>,
         \/ faults' = faults + 1
         \/ faults' = faults /\ (InBatch(m) => Emptied + Unseen(6) >= 1)
  PROVE  Paid(m)'
<1>1. /\ receives[m] \in Nat /\ faults \in Nat /\ MaxReceive \in Nat
      /\ Emptied' = 0 /\ Pending' = 0
  BY ReadinessAssumption DEF ReadinessTypeOK, Emptied, Pending
<1>2. Emptied \in {0, 1} /\ Pending \in {0, 1} /\ Unseen(6) \in {0, 1}
  BY Amounts
<1>3. ~InBatch(m)'
  BY DEF InBatch
<1> QED
  BY <1>1, <1>2, <1>3 DEF Paid

(* The first message of the batch is settled: deleted, or left because of what *)
(* the checks would see.                                                       *)
LEMMA Settled ==
  ASSUME ReadinessTypeOK, ReadinessTypeOK', NEW m \in Message, Paid(m),
         checked = NoChecks, pc \in {"work", "delete"}, Advance, checked' = checked,
         receives' = receives, faults' = faults, state' = state,
         \/ queue' = queue /\ (Blocked(6) \/ m # Head(batch))
         \/ m = Head(batch) /\ queue'[m] = "deleted"
         \/ m # Head(batch) /\ queue'[m] = queue[m]
  PROVE  Paid(m)'
<1>1. receives[m] \in Nat /\ faults \in Nat
  BY ReadinessAssumption DEF ReadinessTypeOK
<1>2. Emptied \in {0, 1} /\ Pending \in {0, 1} /\ Unseen(6) \in {0, 1}
  BY Amounts
<1>3. batch # <<>> /\ batch \in Seq(Message) /\ batch' = Tail(batch)
  BY DEF ReadinessTypeOK, Advance
<1>4. /\ InBatch(Head(batch))
      /\ InBatch(m)' => InBatch(m)
      /\ InBatch(m) => InBatch(m)' \/ m = Head(batch)
  BY <1>3, BatchTail
<1>5. pc' \in {"check", "work"}
  BY DEF Advance, Goto
<1>6. Emptied' = Emptied
  BY <1>5 DEF Emptied
<1>7. Unseen(6)' <= Unseen(6)
  <2>1. SUFFICES ASSUME Blocked(6)' PROVE Blocked(6)
    BY DEF Unseen
  <2>2. 6 \in 0..6
    OBVIOUS
  <2>3. /\ \A d \in Dependency \ {"ledger"} : state'[d] = state[d] \/ state'[d] = "ok"
        /\ state'["ledger"] = "down" => state["ledger"] = "down"
    OBVIOUS
  <2> QED
    BY <2>1, <2>2, <2>3, NothingNew
<1>8. Pending' = 0
  <2>1. ~Blocked(0)'
    BY DEF Blocked
  <2>2. pc' = "check" => Passed' = 0
    BY DEF Passed, NoChecks
  <2> QED
    BY <1>5, <2>1, <2>2 DEF Pending, Unseen
<1>9. Blocked(6) => Unseen(6) = 1
  BY DEF Unseen
<1>13. Unseen(6)' \in {0, 1}
  BY DEF Unseen
<1>10. CASE queue' = queue /\ (Blocked(6) \/ m # Head(batch))
  BY <1>1, <1>2, <1>4, <1>6, <1>7, <1>8, <1>9, <1>10, <1>13 DEF Paid
<1>11. CASE m = Head(batch) /\ queue'[m] = "deleted"
  BY <1>1, <1>2, <1>4, <1>11 DEF Paid
<1>12. CASE m # Head(batch) /\ queue'[m] = queue[m]
  BY <1>1, <1>2, <1>4, <1>6, <1>7, <1>8, <1>12, <1>13 DEF Paid
<1> QED
  BY <1>10, <1>11, <1>12

LEMMA Less ==
  ASSUME NEW r \in Nat, NEW e \in Nat, NEW p \in Nat, NEW q \in Nat, NEW f \in Nat,
         r + e + p <= f, q <= p
  PROVE  r <= f /\ r + e + q <= f
OBVIOUS

LEMMA StepPaid ==
  ASSUME ReadinessInv, [Next]_vars
  PROVE  ReadinessInv'
<1>20. ReadinessTypeOK /\ ReadinessTypeOK'
  BY StepTypes DEF ReadinessInv
<1>2. (pc # "check" => checked = NoChecks)'
  BY DEF ReadinessInv, Next, Step, Start, CheckNext, EndPreflight, Receive, ReceiveNothing,
         ReceiveRaises, Work, WorkRaises, Delete, Kill, Fail, Recover, Expire, DeadLetter,
         WorkHangs, HangEnds, Die, Advance, Goto, vars
<1>21. SUFFICES ASSUME ~blind' PROVE (NoneBlind /\ \A m \in Message : Paid(m))'
  BY <1>20, <1>2 DEF ReadinessInv
<1>22. ASSUME \E d \in Dependency : Fail(d) PROVE ~blind /\ NoneBlind /\ NoneBlind'
  <2>1. PICK d \in Dependency, s \in Condition :
          state' = [state EXCEPT ![d] = s] /\ blind' = (blind \/ <<d, s>> \in Blind)
    BY <1>22, Dependencies DEF Fail
  <2>2. ~blind /\ <<d, s>> \notin Blind
    BY <2>1, <1>20, <1>21 DEF ReadinessTypeOK
  <2>3. NoneBlind
    BY <2>2 DEF ReadinessInv
  <2>4. NoneBlind'
    BY <2>1, <2>2, <2>3, <1>20 DEF NoneBlind, ReadinessTypeOK
  <2> QED
    BY <2>2, <2>3, <2>4
<1>23. ASSUME ~\E d \in Dependency : Fail(d) PROVE ~blind /\ NoneBlind /\ NoneBlind'
  <2>1. blind' = blind
    BY <1>23 DEF Next, Step, Start, CheckNext, EndPreflight, Receive, ReceiveNothing,
         ReceiveRaises, Work, WorkRaises, WorkHangs, HangEnds, Delete, Kill, Recover,
         Expire, DeadLetter, vars
  <2>2. ~blind /\ NoneBlind
    BY <2>1, <1>21 DEF ReadinessInv
  <2>3. \A d \in Dependency : state'[d] = state[d] \/ state'[d] = "ok"
    BY <1>23, <1>20 DEF Next, Step, Start, CheckNext, EndPreflight, Receive, ReceiveNothing,
         ReceiveRaises, Work, WorkRaises, WorkHangs, HangEnds, Delete, Kill, Recover,
         Expire, DeadLetter, vars, ReadinessTypeOK
  <2>4. NoneBlind'
    BY <2>2, <2>3 DEF NoneBlind, Blind
  <2> QED
    BY <2>2, <2>4
<1>24. ~blind /\ NoneBlind /\ NoneBlind'
  BY <1>22, <1>23
<1>1. ReadinessTypeOK /\ ReadinessTypeOK' /\ \A m \in Message : Paid(m)
  BY <1>20, <1>24 DEF ReadinessInv
<1>3. SUFFICES ASSUME NEW m \in Message PROVE Paid(m)'
  BY <1>24
<1>4. Paid(m) /\ (pc # "check" => checked = NoChecks)
  BY <1>1 DEF ReadinessInv
<1>5. /\ receives[m] \in Nat /\ faults \in Nat /\ MaxReceive \in Nat
      /\ Emptied \in {0, 1} /\ Pending \in {0, 1}
      /\ Emptied' \in {0, 1} /\ Pending' \in {0, 1}
      /\ \A k : Unseen(k) \in {0, 1} /\ Unseen(k)' \in {0, 1}
  BY <1>1, ReadinessAssumption DEF ReadinessTypeOK, Emptied, Pending, Unseen
<1>6. pc \notin {"work", "hung", "delete"} => ~InBatch(m)
  BY <1>1, InBatchWorked
<1>7. CASE Start
  <2>1. /\ pc = "start" /\ pc' = "check" /\ checked' = NoChecks
        /\ state'["ledger"] \notin {"empty", "unwritable"}
        /\ UNCHANGED <<batch, queue, receives, faults>>
    BY <1>1, <1>4, <1>7, Dependencies DEF Start, Goto, ReadinessTypeOK
  <2>2. Passed' = 0
    BY <2>1 DEF Passed, NoChecks
  <2>3. ~Blocked(0)'
    BY DEF Blocked
  <2>4. Emptied' = 0 /\ Pending' = 0
    BY <2>1, <2>2, <2>3 DEF Emptied, Pending, Unseen
  <2> QED
    BY <1>1, <1>4, <1>5, <1>6, <2>1, <2>4, QuietStep
<1>8. CASE CheckNext
  <2>1. /\ pc = "check" /\ checked.done < 6
        /\ UNCHANGED <<state, pc, batch, queue, receives, faults>>
    BY <1>8, SixChecks DEF CheckNext
  <2>2. PICK ok \in Answers(Checks[checked.done + 1]) :
          checked' = [done |-> checked.done + 1, ok |-> checked.ok /\ ok]
    BY <1>8 DEF CheckNext
  <2>3. checked.done \in 0..6 /\ checked.ok \in BOOLEAN
    BY <1>1 DEF ReadinessTypeOK, Preflight
  <2>4. Emptied' = Emptied
    BY <2>1 DEF Emptied
  <2>5. Pending' <= Pending
    <3> SUFFICES ASSUME Pending' = 1 PROVE Pending = 1
      BY <1>5
    <3>1. Blocked(Passed)'
      BY DEF Pending, Unseen
    <3>2. ~Blocked(0)'
      BY DEF Blocked
    <3>3. checked'.ok /\ Passed' = checked.done + 1
      BY <2>1, <2>2, <3>1, <3>2 DEF Passed
    <3>4. checked.ok /\ ok = TRUE
      BY <2>1, <2>2, <2>3, <3>3, AnswersAreBoolean
    <3>5. PICK k \in 0..6 : k = checked.done + 1
      BY <2>1, <2>3
    <3>6. Blocked(k)
      <4>1. Blocked(k)'
        BY <3>1, <3>3, <3>5 DEF Blocked
      <4>2. state' = state
        BY <2>1
      <4> QED
        BY <4>1, <4>2, NothingNew
    <3>7. PICK n \in 1..k : TRUE \notin Answers(Checks[n])
      BY <3>6 DEF Blocked
    <3>9. TRUE \in Answers(Checks[k])
      BY <3>4, <3>5
    <3>10. n \in 1..checked.done
      <4>1. n # k
        BY <3>7, <3>9
      <4>2. n \in Nat /\ 1 <= n /\ n <= k /\ k = checked.done + 1 /\ checked.done \in Nat
        BY <2>3, <3>5, <3>7
      <4> QED
        BY <4>1, <4>2
    <3>8. Blocked(checked.done)
      BY <3>7, <3>10 DEF Blocked
    <3> QED
      BY <2>1, <3>4, <3>8 DEF Pending, Passed, Unseen
  <2> QED
    BY <1>1, <1>4, <1>5, <1>6, <2>1, <2>4, <2>5, QuietStep
<1>9. CASE EndPreflight
  <2>1. /\ pc = "check" /\ checked.done = 6 /\ checked' = NoChecks
        /\ pc' = IF checked.ok THEN "receive" ELSE "check"
        /\ UNCHANGED <<state, batch, queue, receives, faults>>
    BY <1>9, SixChecks DEF EndPreflight, Goto
  <2>2. Emptied' = Emptied
    BY <2>1 DEF Emptied
  <2>3. Pending' <= Pending
    <3>1. CASE checked.ok
      <4>1. Passed = 6 /\ Passed' = 6
        BY <2>1, <3>1 DEF Passed
      <4>2. Blocked(6)' => Blocked(6)
        <5> SUFFICES ASSUME Blocked(6)' PROVE Blocked(6)
          OBVIOUS
        <5>1. 6 \in 0..6 /\ state' = state
          BY <2>1
        <5> QED
          BY <5>1, NothingNew
      <4> QED
        BY <2>1, <3>1, <4>1, <4>2 DEF Pending, Unseen
    <3>2. CASE ~checked.ok
      <4>1. Passed' = 0
        BY <2>1, <3>2 DEF Passed, NoChecks
      <4>2. ~Blocked(0)'
        BY DEF Blocked
      <4> QED
        BY <1>5, <4>1, <4>2 DEF Pending, Unseen
    <3> QED
      BY <3>1, <3>2
  <2> QED
    BY <1>1, <1>4, <1>5, <1>6, <2>1, <2>2, <2>3, QuietStep
<1>10. CASE Receive
  <2>1. PICK b \in Batches :
          /\ batch' = b
          /\ queue' = [x \in Message |->
                         IF x \in {b[n] : n \in DOMAIN b} THEN "inflight" ELSE queue[x]]
          /\ receives' = [x \in Message |->
               IF x \in {b[n] : n \in DOMAIN b} THEN receives[x] + 1 ELSE receives[x]]
    BY <1>10 DEF Receive
  <2>2. /\ pc = "receive" /\ pc' = "work" /\ state' = state /\ faults' = faults
        /\ checked' = checked
    BY <1>10 DEF Receive, Goto
  <2>3. InBatch(m)' <=> m \in {b[n] : n \in DOMAIN b}
    BY <2>1 DEF InBatch
  <2>4. m \in {b[n] : n \in DOMAIN b} => queue[m] = "visible"
    BY <1>1, BatchIsSeq DEF Receivable
  <2>5. /\ Emptied' = Emptied /\ Pending' = 0 /\ Pending = Unseen(6)
        /\ Unseen(6)' <= Unseen(6) /\ ~InBatch(m)
    <3>1. Blocked(6)' => Blocked(6)
      <4> SUFFICES ASSUME Blocked(6)' PROVE Blocked(6)
        OBVIOUS
      <4>1. 6 \in 0..6
        OBVIOUS
      <4> QED
        BY <2>2, <4>1, NothingNew
    <3> QED
      BY <1>6, <2>2, <3>1 DEF Emptied, Pending, Passed, Unseen
  <2>6. CASE m \in {b[n] : n \in DOMAIN b}
    BY <1>4, <1>5, <2>1, <2>2, <2>3, <2>4, <2>5, <2>6 DEF Paid
  <2>7. CASE m \notin {b[n] : n \in DOMAIN b}
    BY <1>4, <1>5, <2>1, <2>2, <2>3, <2>5, <2>7 DEF Paid
  <2> QED
    BY <2>6, <2>7
<1>11. CASE ReceiveNothing
  <2>1. /\ pc = "receive" /\ pc' = "check" /\ checked' = NoChecks
        /\ UNCHANGED <<state, batch, queue, receives, faults>>
    BY <1>4, <1>11 DEF ReceiveNothing, Goto
  <2>2. Passed' = 0 /\ ~Blocked(0)'
    BY <2>1 DEF Passed, NoChecks, Blocked
  <2>3. Emptied' = Emptied /\ Pending' = 0
    BY <2>1, <2>2 DEF Emptied, Pending, Unseen
  <2> QED
    BY <1>1, <1>4, <1>5, <1>6, <2>1, <2>3, QuietStep
<1>12. CASE ReceiveRaises
  BY <1>1, <1>4, <1>6, <1>12, DieTypes, GivenUp DEF ReceiveRaises
<1>13. CASE Work
  <2>1. /\ pc = "work" /\ IsUp("ledger") /\ checked = NoChecks
        /\ UNCHANGED <<state, checked, queue, receives, faults>>
    BY <1>4, <1>13 DEF Work
  <2>2. CASE Goto("delete") /\ UNCHANGED batch
    <3>1. Emptied' = Emptied /\ Pending' = 0 /\ Unseen(6)' <= Unseen(6)
      <4>1. Blocked(6)' => Blocked(6)
        <5> SUFFICES ASSUME Blocked(6)' PROVE Blocked(6)
          OBVIOUS
        <5>1. 6 \in 0..6
          OBVIOUS
        <5> QED
          BY <2>1, <5>1, NothingNew
      <4> QED
        BY <2>1, <2>2, <4>1 DEF Emptied, Pending, Unseen, Goto
    <3> QED
      BY <1>1, <1>4, <1>5, <2>1, <2>2, <3>1, QuietStep
  <2>3. CASE ~KanbanAnswers /\ ~KanbanHangs /\ Advance
    <3>1. Blocked(6)
      BY <1>24, <2>3, FailuresAreSeen
    <3> QED
      BY <1>1, <1>4, <2>1, <2>3, <3>1, Settled
  <2> QED
    BY <1>13, <2>2, <2>3 DEF Work
<1>14. CASE WorkRaises
  <2>1. /\ pc = "work" /\ ~IsUp("ledger") /\ Die
        /\ UNCHANGED <<state, queue, receives, faults>>
    BY <1>14 DEF WorkRaises
  <2>2. state["ledger"] \in {"down", "empty", "unwritable"}
    BY <1>1, <1>24, <2>1 DEF ReadinessTypeOK, IsUp, Dependency, Faulty, NoneBlind, Blind
  <2>3. Emptied + Unseen(6) >= 1
    BY <1>5, <2>1, <2>2, FailuresAreSeen DEF Emptied, Unseen
  <2> QED
    BY <1>1, <1>4, <2>1, <2>3, DieTypes, GivenUp
<1>25. CASE WorkHangs \/ HangEnds
  <2>1. /\ pc \in {"work", "hung"} /\ pc' \in {"work", "hung"}
        /\ UNCHANGED <<state, checked, batch, queue, receives, faults>>
    BY <1>25 DEF WorkHangs, HangEnds, Goto
  <2>2. Blocked(6)' => Blocked(6)
    <3> SUFFICES ASSUME Blocked(6)' PROVE Blocked(6)
      OBVIOUS
    <3>1. 6 \in 0..6
      OBVIOUS
    <3> QED
      BY <2>1, <3>1, NothingNew
  <2>3. Emptied' = Emptied /\ Pending' = 0 /\ Unseen(6)' <= Unseen(6)
    BY <2>1, <2>2 DEF Emptied, Pending, Unseen
  <2> QED
    BY <1>1, <1>4, <1>5, <2>1, <2>3, QuietStep
<1>15. CASE Delete
  <2>1. /\ pc = "delete" /\ Advance /\ checked = NoChecks
        /\ UNCHANGED <<state, checked, receives, faults>>
    BY <1>4, <1>15 DEF Delete
  <2>4. state["queue"] # "keeping"
    BY <1>24, FailuresAreSeen
  <2>2. CASE SqsAnswers /\ queue[Head(batch)] # "dead"
    <3>1. queue' = [queue EXCEPT ![Head(batch)] = "deleted"]
      BY <1>15, <2>2, <2>4 DEF Delete
    <3>2. IF m = Head(batch) THEN queue'[m] = "deleted" ELSE queue'[m] = queue[m]
      BY <1>1, <3>1 DEF ReadinessTypeOK
    <3> QED
      BY <1>1, <1>4, <2>1, <3>2, Settled
  <2>3. CASE ~SqsAnswers \/ queue[Head(batch)] = "dead"
    <3>1. queue' = queue
      BY <1>15, <2>3 DEF Delete
    <3>2. batch \in Seq(Message) /\ batch # <<>>
      BY <1>1, <2>1 DEF ReadinessTypeOK
    <3>3. Head(batch) \in Message /\ InBatch(Head(batch))
      BY <2>1, <3>2, BatchTail DEF Advance
    <3>4. queue[Head(batch)] # "dead"
      BY <1>1, <3>3 DEF Paid
    <3>5. Blocked(6)
      BY <2>3, <3>4, FailuresAreSeen
    <3> QED
      BY <1>1, <1>4, <2>1, <3>1, <3>5, Settled
  <2> QED
    BY <2>2, <2>3
<1>16. CASE Kill
  BY <1>1, <1>4, <1>16, DieTypes, GivenUp DEF Kill
<1>17. ASSUME NEW d \in Dependency, Fail(d) PROVE Paid(m)'
  <2>1. PICK s \in Faulty[d] : state' = [state EXCEPT ![d] = s]
    BY <1>17 DEF Fail
  <2>2. /\ IsUp(d) /\ faults' = faults + 1
        /\ UNCHANGED <<pc, checked, batch, queue, receives>>
    BY <1>17 DEF Fail
  <2>3. InBatch(m)' <=> InBatch(m)
    BY <2>2 DEF InBatch
  <2>4. CASE s \in {"empty", "unwritable"}
    <3>1. d = "ledger" /\ state'["ledger"] # "down"
      BY <1>1, <2>1, <2>4, Dependencies DEF ReadinessTypeOK
    <3>2. /\ \A e \in Dependency \ {"ledger"} : state'[e] = state[e] \/ state'[e] = "ok"
          /\ state'["ledger"] = "down" => state["ledger"] = "down"
      BY <1>1, <2>1, <3>1 DEF ReadinessTypeOK
    <3>3. ASSUME NEW k \in 0..6 PROVE Unseen(k)' <= Unseen(k)
      <4>1. Blocked(k)' => Blocked(k)
        <5> SUFFICES ASSUME Blocked(k)' PROVE Blocked(k)
          OBVIOUS
        <5> QED
          BY <3>2, NothingNew
      <4> QED
        BY <4>1 DEF Unseen
    <3>4. Pending' <= Pending
      <4>1. Passed' = Passed /\ Passed \in 0..6
        BY <1>1, <2>2 DEF Passed, ReadinessTypeOK, Preflight
      <4>2. Unseen(Passed)' <= Unseen(Passed)
        BY <3>3, <4>1
      <4> QED
        BY <2>2, <4>2 DEF Pending
    <3>5. Unseen(6)' <= Unseen(6)
      BY <3>3
    <3> QED
      BY <1>4, <1>5, <2>2, <2>3, <3>4, <3>5 DEF Paid
  <2>5. CASE s \notin {"empty", "unwritable"}
    <3>1. state'["ledger"] \in {"empty", "unwritable"} =>
            state["ledger"] \in {"empty", "unwritable"}
      BY <1>1, <2>1, <2>5 DEF ReadinessTypeOK, Dependency, Faulty
    <3>2. Emptied' <= Emptied
      BY <2>2, <3>1 DEF Emptied
    <3> QED
      BY <1>4, <1>5, <2>2, <2>3, <3>2 DEF Paid
  <2> QED
    BY <2>4, <2>5
<1>18. ASSUME NEW d \in Dependency, Recover(d) PROVE Paid(m)'
  <2>1. /\ state' = [state EXCEPT ![d] = "ok"]
        /\ UNCHANGED <<pc, checked, batch, queue, receives, faults>>
    BY <1>18 DEF Recover
  <2>2. /\ \A e \in Dependency \ {"ledger"} : state'[e] = state[e] \/ state'[e] = "ok"
        /\ state'["ledger"] = "down" => state["ledger"] = "down"
        /\ state'["ledger"] \in {"empty", "unwritable"} =>
             state["ledger"] \in {"empty", "unwritable"}
    BY <1>1, <2>1 DEF ReadinessTypeOK, Dependency, Faulty
  <2>3. ASSUME NEW k \in 0..6 PROVE Unseen(k)' <= Unseen(k)
    <3>1. Blocked(k)' => Blocked(k)
      <4> SUFFICES ASSUME Blocked(k)' PROVE Blocked(k)
        OBVIOUS
      <4> QED
        BY <2>2, NothingNew
    <3> QED
      BY <3>1 DEF Unseen
  <2>4. Pending' <= Pending
    <3>1. Passed' = Passed /\ Passed \in 0..6
      BY <1>1, <2>1 DEF Passed, ReadinessTypeOK, Preflight
    <3>2. Unseen(Passed)' <= Unseen(Passed)
      BY <2>3, <3>1
    <3> QED
      BY <2>1, <3>2 DEF Pending
  <2>5. Emptied' <= Emptied /\ Unseen(6)' <= Unseen(6)
    BY <2>1, <2>2, <2>3 DEF Emptied
  <2> QED
    BY <1>1, <1>4, <2>1, <2>4, <2>5, QuietStep
<1>19. CASE \/ \E x \in Message : Expire(x) \/ DeadLetter(x)
            \/ UNCHANGED vars
  <2>1. UNCHANGED <<state, pc, checked, batch, receives, faults>>
    BY <1>19 DEF Expire, DeadLetter, vars
  <2>2. /\ Emptied' = Emptied /\ Pending' <= Pending /\ Unseen(6)' <= Unseen(6)
        /\ InBatch(m)' <=> InBatch(m)
    <3>1. ASSUME NEW k \in 0..6 PROVE Unseen(k)' <= Unseen(k)
      <4>1. Blocked(k)' => Blocked(k)
        <5> SUFFICES ASSUME Blocked(k)' PROVE Blocked(k)
          OBVIOUS
        <5> QED
          BY <2>1, NothingNew
      <4> QED
        BY <4>1 DEF Unseen
    <3>2. Passed' = Passed /\ Passed \in 0..6
      BY <1>1, <2>1 DEF Passed, ReadinessTypeOK, Preflight
    <3>3. Unseen(Passed)' <= Unseen(Passed) /\ Unseen(6)' <= Unseen(6)
      BY <3>1, <3>2
    <3> QED
      BY <2>1, <3>3 DEF Emptied, Pending, InBatch
  <2>3. CASE \E x \in Message : x = m /\ DeadLetter(x)
    <3>1. /\ pc = "receive" /\ queue[m] = "visible" /\ receives[m] = MaxReceive
          /\ queue'[m] = "dead"
      BY <1>1, <2>3 DEF DeadLetter, ReadinessTypeOK
    <3>2. ~InBatch(m) /\ ~InBatch(m)'
      BY <1>6, <2>2, <3>1
    <3>3. receives[m] + Emptied + Pending <= faults
      BY <1>4, <3>1, <3>2 DEF Paid
    <3>4. receives'[m] + Emptied' + Pending' <= faults' /\ faults' >= MaxReceive
      <4>1. /\ receives'[m] = receives[m] /\ faults' = faults /\ receives[m] = MaxReceive
            /\ Emptied' = Emptied /\ Pending' <= Pending
        BY <2>1, <2>2, <3>1
      <4>2. /\ faults \in Nat /\ MaxReceive \in Nat /\ Emptied \in {0, 1}
            /\ Pending \in {0, 1} /\ Pending' \in {0, 1}
            /\ Emptied \in Nat /\ Pending \in Nat /\ Pending' \in Nat
        BY <1>5
      <4>3. MaxReceive + Emptied + Pending <= faults
        BY <3>3, <4>1
      <4>4. MaxReceive <= faults /\ MaxReceive + Emptied + Pending' <= faults
        <5>1. MaxReceive <= faults
          BY <4>2, <4>3
        <5>2. Pending' <= Pending
          BY <4>1
        <5>3. MaxReceive + Emptied + Pending' <= faults
          BY <4>2, <4>3, <5>2, Less
        <5> QED
          BY <5>1, <5>3
      <4>5. receives'[m] + Emptied' + Pending' = MaxReceive + Emptied + Pending'
        BY <4>1
      <4> QED
        BY <4>1, <4>2, <4>4, <4>5
    <3> QED
      BY <3>1, <3>2, <3>4 DEF Paid
  <2>4. CASE ~\E x \in Message : x = m /\ DeadLetter(x)
    <3>1. queue'[m] = queue[m] \/ {queue[m], queue'[m]} \subseteq {"visible", "inflight"}
      BY <1>1, <1>19, <2>4 DEF Expire, DeadLetter, ReadinessTypeOK, vars
    <3> QED
      BY <1>1, <1>4, <2>1, <2>2, <3>1, <1>5, QuietStep
  <2> QED
    BY <2>3, <2>4
<1> QED
  BY <1>7, <1>8, <1>9, <1>10, <1>11, <1>12, <1>13, <1>14, <1>15, <1>16, <1>17, <1>18, <1>19,
     <1>25 DEF Next, Step

(* As long as nothing failed that no check looks for, the receives of a message *)
(* exceed what was paid for by no more than the one that the batch at hand      *)
(* stands for, at every moment.                                                 *)
THEOREM ReceivesArePaid == Spec => []ReadinessInv
BY InitPaid, StepPaid, PTL DEF Spec

(* As long as nothing failed that no check looks for, an outage, or a Kanban    *)
(* call that hangs, costs a message one receive however long it lasts; and the  *)
(* dead-letter queue takes as many faults as the redrive policy allows receives *)
(* (run_local_preflight before every receive, sqs_ingest.py; the ledger opened  *)
(* before the loop).                                                            *)
THEOREM OutagesCostOneReceive == Spec => []OutageCostsOneReceive
<1>1. ReadinessInv => OutageCostsOneReceive
  <2> SUFFICES ASSUME ReadinessInv, ~blind, NEW m \in Message
               PROVE  /\ receives[m] <= faults + 1
                      /\ queue[m] = "dead" => faults >= MaxReceive
    BY DEF OutageCostsOneReceive
  <2>1. Paid(m) /\ receives[m] \in Nat /\ faults \in Nat
    BY ReadinessAssumption DEF ReadinessInv, ReadinessTypeOK
  <2>2. Emptied \in {0, 1} /\ Pending \in {0, 1} /\ Unseen(6) \in {0, 1}
    BY Amounts
  <2> QED
    BY <2>1, <2>2 DEF Paid
<1> QED
  BY <1>1, ReceivesArePaid, PTL

-----------------------------------------------------------------------------
(* What a report without a failure says of everything the listener needs. *)
LEMMA HealthyMeansUp ==
  ASSUME Healthy
  PROVE  /\ state["ledger"] # "down"
         /\ IsUp("hermes") /\ IsUp("profile") /\ LooksUp("board")
         /\ LooksUp("queue") /\ IsUp("aws")
<1>1. state["ledger"] # "down"
  BY DEF Healthy, HealthReport
<1>2. \A c \in DOMAIN HermesChecks : HermesChecks[c] # "failed"
  BY DEF Healthy, HealthReport
<1>3. \A c \in DOMAIN SqsChecks : SqsChecks[c] # "failed"
  BY DEF Healthy, HealthReport
<1>4. IsUp("hermes")
  <2>1. HermesChecks["hermes_binary"] # "failed"
    BY <1>2 DEF HermesChecks
  <2> QED
    BY <2>1 DEF HermesChecks
<1>5. IsUp("profile")
  <2>1. HermesChecks["hermes_profile"] # "failed"
    BY <1>2 DEF HermesChecks
  <2> QED
    BY <1>4, <2>1 DEF HermesChecks
<1>6. LooksUp("board")
  <2>1. HermesChecks["kanban_board"] # "failed"
    BY <1>2 DEF HermesChecks
  <2> QED
    BY <1>4, <1>5, <2>1 DEF HermesChecks
<1>7. LooksUp("queue") /\ IsUp("aws")
  <2>1. "sqs_queue_access" \in DOMAIN SqsChecks
    BY DEF SqsChecks
  <2>2. SqsChecks["sqs_queue_access"] # "failed"
    BY <1>3, <2>1
  <2> QED
    BY <2>2 DEF SqsChecks
<1> QED
  BY <1>1, <1>4, <1>5, <1>6, <1>7

(* Whatever is the matter, a health report without a failure (health.py) means *)
(* that every check of the preflight passes, in the same state.                *)
THEOREM GreenHealthIsGreenPreflight == Spec => []HealthyIsReady
<1>1. ReadinessTypeOK => HealthyIsReady
  <2> SUFFICES ASSUME Healthy, NEW n \in DOMAIN Checks
               PROVE  Answers(Checks[n]) = {TRUE}
    BY DEF HealthyIsReady
  <2>1. /\ state["ledger"] # "down"
        /\ IsUp("hermes") /\ IsUp("profile") /\ LooksUp("board")
        /\ LooksUp("queue") /\ IsUp("aws")
    BY HealthyMeansUp
  <2>2. n = 1 \/ n = 2 \/ n = 3 \/ n = 4 \/ n = 5 \/ n = 6
    BY DEF Checks
  <2>3. CASE n = 1
    BY <2>1, <2>3, SixChecks DEF Answers
  <2>4. CASE n = 2
    BY <2>1, <2>4, SixChecks DEF Answers
  <2>5. CASE n = 3
    BY <2>1, <2>5, SixChecks DEF Answers
  <2>6. CASE n = 4
    <3>2. state["board"] # "hanging"
      BY <2>1, Looks
    <3>1. Answers("kanban_board") =
            {hangs /\ IsUp("hermes") /\ IsUp("profile") : hangs \in {LooksUp("board")}}
      BY <3>2 DEF Answers
    <3> QED
      BY <2>1, <2>6, <3>1, SixChecks
  <2>7. CASE n = 5
    BY <2>1, <2>7, SixChecks DEF Answers
  <2>8. CASE n = 6
    BY <2>1, <2>8, SixChecks DEF Answers
  <2> QED
    BY <2>2, <2>3, <2>4, <2>5, <2>6, <2>7, <2>8
<1> QED
  BY <1>1, ReadinessTypes, PTL
=============================================================================
