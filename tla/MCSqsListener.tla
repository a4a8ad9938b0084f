-------------------------- MODULE MCSqsListener --------------------------
(* Small instances of SqsListener for TLC. *)
EXTENDS SqsListener

CONSTANTS p1, p2, cpu

(* The state changes of one alarm: it goes off, recovers, and goes off again. *)
Change(id, state, at) == [id |-> id, alarm |-> cpu, state |-> state, at |-> at]

alarm1 == Change("a1", "ALARM", 1)
ok2    == Change("o2", "OK", 2)
alarm3 == Change("a3", "ALARM", 3)

Msg(id, p, e) == [id |-> id, project |-> p, event |-> e]

ListenerOf(id, p) == [id |-> id, project |-> p]

OneListener  == {ListenerOf("l1", p1)}
TwoListeners == {ListenerOf("l1", p1), ListenerOf("l2", p1)}
OnePerProject == {ListenerOf("l1", p1), ListenerOf("l2", p2)}

(* An alarm and its recovery, with and without a message no parser accepts. *)
RecoveryEvents == {alarm1, ok2}
RecoveryMessages == {Msg(1, p1, alarm1), Msg(2, p1, ok2)}
PoisonedMessages == RecoveryMessages \cup {Msg(3, p1, Malformed)}

(* The alarm goes off twice. *)
FlappingEvents == {alarm1, ok2, alarm3}
FlappingMessages == RecoveryMessages \cup {Msg(3, p1, alarm3)}

(* Bound: the third message is received only while no second listener is at   *)
(* work, which takes batches of the first two before and in between.          *)
ThirdForOneListener ==
  \A m \in Message, l \in Listener :
    m.id = 3 /\ l.id = "l2" => receives[m] = 0 \/ pc[l] = "poll"

(* One SNS topic with the queues of two projects subscribed. *)
SharedEvents == {alarm1}
SharedMessages == {Msg(1, p1, alarm1), Msg(2, p2, alarm1)}
=============================================================================
