--------------------------- MODULE MCSetupWizard ---------------------------
(* Small instances of SetupWizard for TLC. *)
EXTENDS SetupWizard

CONSTANTS readonly, default

(* A file of the operator's, for two profiles one that holds either or both. *)
Texts(f) ==
  {Absent, AllOf("old")} \cup
  (IF f \in Local THEN {}
   ELSE {Whole([p \in Profile |-> IF p = q THEN "old" ELSE "none"]) : q \in Profile})

(* The files before the wizard has run, or as an earlier run left them that *)
(* was killed: config.yaml cut short, or without its .env; credentials cut  *)
(* short while they were restored.                                          *)
Found ==
  {[f \in File |-> CASE f \in Local -> local [] f = "credentials" -> c [] OTHER -> g] :
     local \in Texts("config.yaml"), c \in Texts("credentials"), g \in Texts("config")}
  \cup
  {[f \in File |-> IF f = cut THEN Torn ELSE Absent] : cut \in {"config.yaml", "credentials"}}
  \cup
  {[f \in File |-> IF f = "config.yaml" THEN AllOf("old") ELSE Absent]}
=============================================================================
