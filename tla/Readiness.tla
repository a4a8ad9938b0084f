------------------------------ MODULE Readiness ------------------------------
(***************************************************************************)
(* What one sqs-listen process makes of outages: the preflight checks that *)
(* come before every receive (run_local_preflight, sqs_ingest.py), and     *)
(* what happens to a batch when something it needs goes away after them.   *)
(* health (health.py) looks at the same things and at some more.           *)
(*                                                                         *)
(* Every check, receive, message and delete is one step; what is needed    *)
(* can fail and come back between any two, the process can be killed       *)
(* anywhere, and systemd starts it again. What a message does to the       *)
(* ledger and the board is in SqsListener; here it works or it does not.   *)
(***************************************************************************)
EXTENDS Naturals, Sequences

CONSTANTS
  Message,      \* messages of one queue that parse
  MaxMessages,  \* the size of a batch
  MaxReceive,   \* maxReceiveCount of the queue's redrive policy
  MaxFaults     \* bound: how often something fails or the process is killed

ASSUME ReadinessAssumption ==
  /\ MaxMessages \in Nat \ {0} /\ MaxReceive \in Nat \ {0} /\ MaxFaults \in Nat

(* What can be the matter. The ledger can be unreadable, or not to be written  *)
(* to (locked, read only), or its disk full; or gone: connecting to it then    *)
(* creates a file without tables. A Kanban call can hang, which nothing        *)
(* limits. The queue can be another one than its ARN says.                     *)
Faulty ==
  [ledger |-> {"down", "empty", "unwritable", "full"},
   hermes |-> {"down"}, profile |-> {"down"},
   board |-> {"down", "hanging", "refusing"},
   queue |-> {"down", "other", "keeping"}, aws |-> {"down"}, telegram |-> {"down"}]

(* What no check looks for: cards that cannot be created or commented while    *)
(* the boards are listed, messages that cannot be deleted, a full disk.        *)
Blind == {<<"ledger", "full">>, <<"board", "refusing">>, <<"queue", "keeping">>}

Dependency == DOMAIN Faulty

Condition == {"ok"} \cup UNION {Faulty[d] : d \in Dependency}

VARIABLES
  state,     \* of each dependency: "ok" or one of Faulty
  pc,        \* what the process does next
  checked,   \* the checks of this preflight: those that are done, all were ok
  batch,     \* messages received and not dealt with
  queue,     \* where SQS has each message
  receives,  \* ApproximateReceiveCount
  handled,   \* messages whose required side effects are recorded
  faults,    \* how often something failed so far
  blind      \* whether one of these was Blind

vars == <<state, pc, checked, batch, queue, receives, handled, faults, blind>>

Preflight == [done : 0..6, ok : BOOLEAN]

NoChecks == [done |-> 0, ok |-> TRUE]

Init ==
  /\ state = [d \in Dependency |-> "ok"]
  /\ pc = "start"
  /\ checked = NoChecks
  /\ batch = <<>>
  /\ queue = [m \in Message |-> "visible"]
  /\ receives = [m \in Message |-> 0]
  /\ handled = {}
  /\ faults = 0
  /\ blind = FALSE

-----------------------------------------------------------------------------
IsUp(d) == state[d] = "ok"

LooksUp(d) == IsUp(d) \/ <<d, state[d]>> \in Blind

(* run_local_preflight: the required checks in their order, each with the   *)
(* answers it can get. A list of boards can time out when Kanban hangs.     *)
Checks == <<"sqlite", "hermes_binary", "hermes_profile", "kanban_board",
            "sqs_queue_access", "aws_identity">>

(* Mistake: a status that cannot be posted is a reason not to receive. *)
AnswersWithTelegram(check) ==
  CASE check = "sqlite" -> {state["ledger"] # "down" /\ IsUp("telegram")}
    [] check = "hermes_binary" -> {IsUp("hermes")}
    [] check = "hermes_profile" -> {IsUp("hermes") /\ IsUp("profile")}
    [] check = "kanban_board" -> {IsUp("hermes") /\ IsUp("profile") /\ LooksUp("board")}
    [] check = "sqs_queue_access" -> {LooksUp("queue") /\ IsUp("aws")}
    [] check = "aws_identity" -> {IsUp("aws")}

Answers(check) ==
  CASE check = "sqlite" -> {state["ledger"] # "down"}
    [] check = "hermes_binary" -> {IsUp("hermes")}
    [] check = "hermes_profile" -> {IsUp("hermes") /\ IsUp("profile")}
    [] check = "kanban_board" ->
         {hangs /\ IsUp("hermes") /\ IsUp("profile") :
            hangs \in IF state["board"] = "hanging" THEN BOOLEAN ELSE {LooksUp("board")}}
    [] check = "sqs_queue_access" -> {LooksUp("queue") /\ IsUp("aws")}
    [] check = "aws_identity" -> {IsUp("aws")}

Goto(next) == pc' = next

(* AlertLedger(...) creates the tables that are missing. It writes also when   *)
(* none is, raises when it cannot, and systemd starts the process again.       *)
Start ==
  /\ pc = "start"
  /\ state["ledger"] \notin {"down", "unwritable"}
  /\ state' = [state EXCEPT !["ledger"] = IF @ = "empty" THEN "ok" ELSE @]
  /\ Goto("check")
  /\ UNCHANGED <<checked, batch, queue, receives, handled, faults, blind>>

CheckNext ==
  /\ pc = "check"
  /\ checked.done < Len(Checks)
  /\ \E ok \in Answers(Checks[checked.done + 1]) :
       checked' = [done |-> checked.done + 1, ok |-> checked.ok /\ ok]
  /\ UNCHANGED <<state, pc, batch, queue, receives, handled, faults, blind>>

(* Mistake: once the checks have passed they are not made again. *)
EndPreflightForGood ==
  /\ pc = "check"
  /\ checked.done = Len(Checks)
  /\ Goto(IF checked.ok THEN "receive" ELSE "check")
  /\ checked' = IF checked.ok THEN checked ELSE NoChecks
  /\ UNCHANGED <<state, batch, queue, receives, handled, faults, blind>>

(* Not ready: sleep and check again. Nothing is received. *)
EndPreflight ==
  /\ pc = "check"
  /\ checked.done = Len(Checks)
  /\ Goto(IF checked.ok THEN "receive" ELSE "check")
  /\ checked' = NoChecks
  /\ UNCHANGED <<state, batch, queue, receives, handled, faults, blind>>

(* An exception that nothing catches; the batch is lost. *)
Die ==
  /\ Goto("start")
  /\ batch' = <<>>
  /\ checked' = NoChecks

SqsAnswers == state["queue"] # "down" /\ IsUp("aws")

Receivable == {m \in Message : queue[m] = "visible" /\ receives[m] < MaxReceive}

Batches ==
  {b \in UNION {[1..n -> Receivable] : n \in 1..MaxMessages} :
     \A x, y \in DOMAIN b : x # y => b[x] # b[y]}

Receive ==
  /\ pc = "receive"
  /\ SqsAnswers
  /\ \E b \in Batches :
       LET taken == {b[n] : n \in DOMAIN b} IN
       /\ batch' = b
       /\ queue' = [m \in Message |-> IF m \in taken THEN "inflight" ELSE queue[m]]
       /\ receives' = [m \in Message |-> IF m \in taken THEN receives[m] + 1 ELSE receives[m]]
  /\ Goto("work")
  /\ UNCHANGED <<state, checked, handled, faults, blind>>

(* Nothing is there: check again. *)
ReceiveNothing ==
  /\ pc = "receive"
  /\ SqsAnswers
  /\ Receivable = {}
  /\ Goto("check")
  /\ UNCHANGED <<state, checked, batch, queue, receives, handled, faults, blind>>

ReceiveRaises ==
  /\ pc = "receive"
  /\ ~SqsAnswers
  /\ Die
  /\ UNCHANGED <<state, queue, receives, handled, faults, blind>>

Advance ==
  /\ batch' = Tail(batch)
  /\ Goto(IF Tail(batch) = <<>> THEN "check" ELSE "work")

KanbanAnswers == IsUp("hermes") /\ IsUp("profile") /\ IsUp("board")

KanbanHangs == IsUp("hermes") /\ IsUp("profile") /\ state["board"] = "hanging"

(* The ledger comes first, and its exceptions end the process. *)
WorkRaises ==
  /\ pc = "work"
  /\ ~IsUp("ledger")
  /\ Die
  /\ UNCHANGED <<state, queue, receives, handled, faults, blind>>

(* The side effects, unless they are recorded. A Kanban call that fails       *)
(* leaves the message in the queue; a status that cannot be posted is let go.  *)
Work ==
  /\ pc = "work"
  /\ IsUp("ledger")
  /\ LET m == Head(batch) IN
       \/ /\ m \in handled \/ KanbanAnswers
          /\ handled' = handled \cup {m}
          /\ Goto("delete")
          /\ UNCHANGED batch
       \/ /\ m \notin handled /\ ~KanbanAnswers /\ ~KanbanHangs
          /\ Advance
          /\ UNCHANGED handled
  /\ UNCHANGED <<state, checked, queue, receives, faults, blind>>

(* The call does not return, nor need it ever.                                *)
WorkHangs ==
  /\ pc = "work"
  /\ IsUp("ledger")
  /\ Head(batch) \notin handled /\ KanbanHangs
  /\ Goto("hung")
  /\ UNCHANGED <<state, checked, batch, queue, receives, handled, faults, blind>>

HangEnds ==
  /\ pc = "hung"
  /\ ~KanbanHangs
  /\ Goto("work")
  /\ UNCHANGED <<state, checked, batch, queue, receives, handled, faults, blind>>

(* A delete that fails leaves the message where it is.                        *)
Delete ==
  /\ pc = "delete"
  /\ IF SqsAnswers /\ state["queue"] # "keeping" /\ queue[Head(batch)] # "dead"
       THEN queue' = [queue EXCEPT ![Head(batch)] = "deleted"]
       ELSE UNCHANGED queue
  /\ Advance
  /\ UNCHANGED <<state, checked, receives, handled, faults, blind>>

-----------------------------------------------------------------------------
(* What happens to the process. *)

(* With the ledger its records go. *)
Fail(d) ==
  /\ IsUp(d)
  /\ faults < MaxFaults
  /\ \E s \in Faulty[d] :
       /\ state' = [state EXCEPT ![d] = s]
       /\ handled' = IF s = "empty" THEN {} ELSE handled
       /\ blind' = (blind \/ <<d, s>> \in Blind)
  /\ faults' = faults + 1
  /\ UNCHANGED <<pc, checked, batch, queue, receives>>

(* Whoever opens an empty ledger, health too, creates its tables. *)
Recover(d) ==
  /\ ~IsUp(d)
  /\ state' = [state EXCEPT ![d] = "ok"]
  /\ UNCHANGED <<pc, checked, batch, queue, receives, handled, faults, blind>>

Kill ==
  /\ pc # "start"
  /\ faults < MaxFaults
  /\ faults' = faults + 1
  /\ Die
  /\ UNCHANGED <<state, queue, receives, handled, blind>>

Expire(m) ==
  /\ queue[m] = "inflight"
  /\ queue' = [queue EXCEPT ![m] = "visible"]
  /\ UNCHANGED <<state, pc, checked, batch, receives, handled, faults, blind>>

(* SQS gives a message up when it is asked for messages. *)
DeadLetter(m) ==
  /\ pc = "receive"
  /\ SqsAnswers
  /\ queue[m] = "visible"
  /\ receives[m] = MaxReceive
  /\ queue' = [queue EXCEPT ![m] = "dead"]
  /\ UNCHANGED <<state, pc, checked, batch, receives, handled, faults, blind>>

Step ==
  \/ Start \/ CheckNext \/ EndPreflight
  \/ Receive \/ ReceiveNothing \/ ReceiveRaises
  \/ Work \/ WorkRaises \/ WorkHangs \/ Delete

Next ==
  \/ Step \/ HangEnds \/ Kill
  \/ \E d \in Dependency : Fail(d) \/ Recover(d)
  \/ \E m \in Message : Expire(m) \/ DeadLetter(m)

Spec == Init /\ [][Next]_vars

(* Outages end, but for those of Telegram; the process goes on where it can.  *)
(* That a call which hangs returns, or is killed, is not assumed.             *)
FairSpec ==
  /\ Spec
  /\ WF_vars(Step)
  /\ \A d \in Dependency \ {"telegram"} : WF_vars(Recover(d))
  /\ \A m \in Message : WF_vars(Expire(m)) /\ SF_vars(DeadLetter(m))

-----------------------------------------------------------------------------
(* health: build_health_report and _checks_ok. What is skipped does not count *)
(* against it, and neither do the messages on the queue.                      *)

(* Mistake: without the hermes program everything of Hermes is skipped. *)
HermesChecksSkipped ==
  [hermes_binary |-> IF IsUp("hermes") THEN "ok" ELSE "skipped",
   hermes_profile |-> CASE ~IsUp("hermes") -> "skipped" [] IsUp("profile") -> "ok"
                        [] OTHER -> "failed",
   kanban_board |-> CASE ~IsUp("hermes") \/ ~IsUp("profile") -> "skipped"
                      [] LooksUp("board") -> "ok" [] OTHER -> "failed"]

HermesChecks ==
  [hermes_binary |-> IF IsUp("hermes") THEN "ok" ELSE "failed",
   hermes_profile |-> CASE ~IsUp("hermes") -> "skipped" [] IsUp("profile") -> "ok"
                        [] OTHER -> "failed",
   kanban_board |-> CASE ~IsUp("hermes") \/ ~IsUp("profile") -> "skipped"
                      [] LooksUp("board") -> "ok" [] OTHER -> "failed"]

SqsChecks ==
  [sqs_queue_access |-> IF LooksUp("queue") /\ IsUp("aws") THEN "ok" ELSE "failed",
   sqs_dlq_visible |-> CASE ~SqsAnswers -> "skipped"
                         [] \E m \in Message : queue[m] = "dead" -> "failed"
                         [] OTHER -> "ok"]

HealthReport ==
  {IF state["ledger"] \in {"down", "unwritable"} THEN "failed" ELSE "ok",
   IF IsUp("aws") THEN "ok" ELSE "failed",
   IF IsUp("telegram") THEN "ok" ELSE "failed"}
    \cup {HermesChecks[c] : c \in DOMAIN HermesChecks}
    \cup {SqsChecks[c] : c \in DOMAIN SqsChecks}

Healthy == "failed" \notin HealthReport

-----------------------------------------------------------------------------
(* Everything has its type; there is a batch as long as it is worked on. *)
ReadinessTypeOK ==
  /\ state \in [Dependency -> Condition]
  /\ \A d \in Dependency : state[d] \in {"ok"} \cup Faulty[d]
  /\ pc \in {"start", "check", "receive", "work", "hung", "delete"}
  /\ checked \in Preflight
  /\ batch \in Seq(Message) /\ (batch # <<>> <=> pc \in {"work", "hung", "delete"})
  /\ queue \in [Message -> {"visible", "inflight", "deleted", "dead"}]
  /\ receives \in [Message -> 0..MaxReceive]
  /\ handled \subseteq Message
  /\ faults \in 0..MaxFaults /\ blind \in BOOLEAN

(* An outage that the preflight sees, or that keeps the process from starting, *)
(* costs a message one receive however long it lasts, and so does a call that  *)
(* hangs and is killed: to bring a message to the dead-letter queue takes      *)
(* MaxReceive faults. (What no check looks for costs a receive in every loop.) *)
OutageCostsOneReceive ==
  ~blind => \A m \in Message :
    /\ receives[m] <= faults + 1
    /\ queue[m] = "dead" => faults >= MaxReceive

(* When health reports no failure, the listener is ready: no check of its    *)
(* preflight fails in the same state.                                        *)
HealthyIsReady ==
  Healthy => \A n \in DOMAIN Checks : Answers(Checks[n]) = {TRUE}

(* If no Kanban call hangs for good, every message leaves the queue when the    *)
(* outages have ended, also with Telegram gone for good; and if they were       *)
(* fewer than a message has receives and none was Blind, it was dealt with and  *)
(* deleted, and is not in the dead-letter queue.                                *)
AllHandled ==
  []<>(pc # "hung") =>
    \A m \in Message :
      /\ <>[](queue[m] \in {"deleted", "dead"})
      /\ [](faults < MaxReceive /\ ~blind) => <>(m \in handled) /\ <>[](queue[m] = "deleted")
=============================================================================
