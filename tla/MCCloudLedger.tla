--------------------------- MODULE MCCloudLedger ---------------------------
(* Small instances of CloudLedger for TLC. *)
EXTENDS CloudLedger

CONSTANT cpu

Change(id, state, at) == [id |-> id, alarm |-> cpu, state |-> state, at |-> at]

(* The alarm goes off, recovers and goes off again; the second time it is      *)
(* published under two event_ids, and at the same time a recovery and a report *)
(* of insufficient data. An earlier such report can come late.                 *)
Flapping ==
  {Change("a1", "ALARM", 1), Change("i1", "INSUFFICIENT_DATA", 1),
   Change("o2", "OK", 2), Change("a3", "ALARM", 3), Change("b3", "ALARM", 3),
   Change("o3", "OK", 3), Change("i3", "INSUFFICIENT_DATA", 3)}
=============================================================================
