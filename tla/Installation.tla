---------------------------- MODULE Installation ----------------------------
(***************************************************************************)
(* From nothing to a running command: the operator answers the wizard's    *)
(* questions (SetupAnswers), or writes config.yaml and .env by hand, and   *)
(* starts commands on what there is then (Configuration).                  *)
(***************************************************************************)
EXTENDS Configuration, SetupAnswers

installVars == <<commandVars, answerVars>>

InstallInit ==
  /\ request = NoRequest /\ outcome = Failed
  /\ AnswersInit
  /\ \/ config = NoFile /\ env = [v \in Name |-> Unset]
     \/ config \in Config /\ env \in Env

Dialogue ==
  /\ config = NoFile
  /\ Ask
  /\ UNCHANGED commandVars

(* The wizard writes its files, and .env is what commands are started with. *)
Write ==
  /\ config = NoFile
  /\ question = "written"
  /\ config' = config_data
  /\ env' = env_values
  /\ UNCHANGED <<request, outcome, answerVars>>

Command == Run /\ UNCHANGED answerVars

InstallNext == Dialogue \/ Write \/ Command

InstallSpec == InstallInit /\ [][InstallNext]_installVars

-----------------------------------------------------------------------------
(* The wizard only keeps answers it accepts, and a command that starts has   *)
(* what it relies on: numbers that are numbers, a queue, a channel, a slug.  *)
InstallationTypeOK == AnswersTypeOK /\ ConfigurationTypeOK
=============================================================================
