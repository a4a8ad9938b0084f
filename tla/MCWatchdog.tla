------------------------------ MODULE MCWatchdog ------------------------------
(* Small instances of Watchdog for TLC. *)
EXTENDS Watchdog

CONSTANTS alpha, beta, i1, i2, i3

BothProjects == <<alpha, beta>>

Boards == [p \in {alpha, beta} |-> "board"]

(* Two cloud incidents of the first project, which one scan can find both, and  *)
(* a manual one in the default scope that belongs to the second by its          *)
(* fingerprint.                                                                 *)
MCScope ==
  [i \in Incident |->
     IF i = i2 THEN DefaultScope ELSE [project |-> alpha, route |-> "source:sqs"]]

MCNamespace == [i \in Incident |-> IF i = i2 THEN beta ELSE alpha]
=============================================================================
