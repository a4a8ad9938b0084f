--------------------------- MODULE AlarmRegister ---------------------------
(***************************************************************************)
(* What the ledger promises of one alarm, without events, incidents or     *)
(* duplicates: a last-writer-wins register. A report that is older than    *)
(* one already seen changes nothing. Any other sets the register: an alarm *)
(* starts firing, a recovery stops it, a neutral report leaves it alone.   *)
(***************************************************************************)
EXTENDS Naturals

CONSTANTS
  Key,   \* one register per project and alarm
  Time   \* the times a report can carry

Kind == {"alarm", "recovery", "neutral"}

VARIABLES
  seen,    \* the reports accepted so far, per register: <<time, kind>>
  firing   \* is the alarm considered to be firing

vars == <<seen, firing>>

Init ==
  /\ seen = [k \in Key |-> {}]
  /\ firing = [k \in Key |-> FALSE]

Late(k, t) == \E s \in seen[k] : t < s[1]

Set(k, kind) ==
  firing' = [firing EXCEPT ![k] = IF kind = "neutral" THEN @ ELSE kind = "alarm"]

Report(k, t, kind) ==
  /\ seen' = [seen EXCEPT ![k] = @ \cup {<<t, kind>>}]
  /\ \/ Late(k, t) /\ UNCHANGED firing
     \/ ~Late(k, t) /\ Set(k, kind)

Next == \E k \in Key, t \in Time, kind \in Kind : Report(k, t, kind)

Spec == Init /\ [][Next]_vars
=============================================================================
