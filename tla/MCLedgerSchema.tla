--------------------------- MODULE MCLedgerSchema ---------------------------
(* Small instances of LedgerSchema for TLC. *)
EXTENDS LedgerSchema

CONSTANTS p1, p2, p3, old, new

(* What one program or the other can have left: nothing, the tables of the  *)
(* older program with its messages in the older or the current shape or     *)
(* without incidents, the current tables, or a creation that was cut short. *)
AnyFile == {<<"absent", "absent">>, <<"legacy", "legacy">>, <<"current", "legacy">>,
            <<"legacy", "absent">>, <<"current", "current">>, <<"current", "absent">>}
=============================================================================
