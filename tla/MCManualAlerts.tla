--------------------------- MODULE MCManualAlerts ---------------------------
(* A small instance of ManualAlerts for TLC. *)
EXTENDS ManualAlerts, TLC

CONSTANTS cpu, m1, m2, m3

Given(m, a, s) == [message |-> m, alarm |-> a, state |-> s]

(* An alarm is reported twice and as recovered, by operators who do not wait. *)
MCCall == {Given(m1, cpu, "ALARM"), Given(m2, cpu, "ALARM"), Given(m3, cpu, "OK")}

(* An incident is closed, by one update or in two, but not opened again. *)
Closing == {[status |-> "resolved", channel |-> "final"],
            [status |-> "resolved", channel |-> "none"]}

(* The final status was posted and recorded first, and the closing relies on it; *)
(* the watchdog stores its report about an incident that it read as open.        *)
RelyingOnRecord == {[status |-> "investigating", channel |-> "final"],
                    [status |-> "resolved", channel |-> "none"],
                    [status |-> "investigating", channel |-> "watchdog-stalled"]}

Alike == Permutations(Handler) \cup Permutations({m1, m2})

MCStatus == Active \cup Closed \cup {"self_recovered", "false_positive"}
=============================================================================
