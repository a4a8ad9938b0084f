------------------------ MODULE MCIncidentLifecycle ------------------------
(* Small instances of IncidentLifecycle for TLC. *)
EXTENDS IncidentLifecycle

CONSTANTS p1, cpu

Change(id, state, at) == [id |-> id, alarm |-> cpu, state |-> state, at |-> at]

(* An alarm that recovers, and one that goes off again. *)
Recovering == {Change("a1", "ALARM", 1), Change("o2", "OK", 2)}
Flapping == Recovering \cup {Change("a3", "ALARM", 3)}
=============================================================================
