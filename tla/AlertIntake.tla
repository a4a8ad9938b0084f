---------------------------- MODULE AlertIntake ----------------------------
(***************************************************************************)
(* What intake promises of every message, without listeners, batches,      *)
(* redeliveries, incidents or crashes: its alert is taken into the ledger  *)
(* once; what the alert asks for is done, at once when it asks for         *)
(* nothing; only then is that noted; only then is the message released.    *)
(* The queue can give up a message at any time before that. Nothing is     *)
(* ever undone.                                                            *)
(***************************************************************************)
CONSTANTS
  Message,
  Event,      \* alerts a parser accepts
  EventOf(_)  \* the alert of a message; no Event when none can be read

VARIABLES
  taken,    \* alerts that are in the ledger
  done,     \* those with nothing left to do
  noted,    \* those the ledger calls done
  outcome   \* of each message: "waiting", "released" or "given up"

vars == <<taken, done, noted, outcome>>

Init ==
  /\ taken = {} /\ done = {} /\ noted = {}
  /\ outcome = [m \in Message |-> "waiting"]

Take(e) ==
  /\ e \notin taken
  /\ taken' = taken \cup {e}
  /\ done' \in {done, done \cup {e}}
  /\ UNCHANGED <<noted, outcome>>

Do(e) ==
  /\ e \in taken
  /\ done' = done \cup {e}
  /\ UNCHANGED <<taken, noted, outcome>>

Note(e) ==
  /\ e \in done
  /\ noted' = noted \cup {e}
  /\ UNCHANGED <<taken, done, outcome>>

End(m, how) ==
  /\ outcome[m] = "waiting"
  /\ outcome' = [outcome EXCEPT ![m] = how]
  /\ UNCHANGED <<taken, done, noted>>

Release(m) == EventOf(m) \in noted /\ End(m, "released")

GiveUp(m) == End(m, "given up")

Next ==
  \/ \E e \in Event : Take(e) \/ Do(e) \/ Note(e)
  \/ \E m \in Message : Release(m) \/ GiveUp(m)

Spec == Init /\ [][Next]_vars
=============================================================================
