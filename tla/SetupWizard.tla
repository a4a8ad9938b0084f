----------------------------- MODULE SetupWizard -----------------------------
(***************************************************************************)
(* run_setup_wizard (setup_wizard.py): how one run of the setup wizard     *)
(* changes the four files it writes. config.yaml and .env are local, the   *)
(* AWS files credentials and config are shared with everything else that   *)
(* uses AWS on the machine. Three of them are written to a temporary file  *)
(* that replaces them, config.yaml is written in place, and so is every    *)
(* file that is restored.                                                  *)
(*                                                                         *)
(* Every system call that changes a file is one step. Each can fail with   *)
(* an OSError; between any two the run may be killed, or interrupted with  *)
(* Ctrl-C, which runs the finally clauses and nothing else. Other programs *)
(* may write the local files while the wizard asks its questions, and not  *)
(* after that.                                                             *)
(***************************************************************************)
EXTENDS Naturals

CONSTANTS
  Profile,  \* profiles with a section in the AWS files
  Mine,     \* the profile the operator names
  Start     \* the files a run can find: functions from File to Text

Local == {"config.yaml", ".env"}
Aws == {"credentials", "config"}
File == Local \cup Aws

(* The secrets, written with _write_secret_file. *)
Secret == {".env"} \cup Aws

Absent == [kind |-> "absent", by |-> [p \in Profile |-> "none"]]
Torn == [kind |-> "torn", by |-> [p \in Profile |-> "none"]]
Whole(by) == [kind |-> "whole", by |-> by]

(* Who wrote each section. A local file is all one section. *)
Text == {Absent, Torn} \cup {Whole(by) : by \in [Profile -> {"none", "old", "new"}]}

AllOf(who) == Whole([p \in Profile |-> who])

ASSUME WizardAssumption ==
  /\ Mine \in Profile
  /\ Start \subseteq [File -> Text]

VARIABLES
  files,     \* what the files hold
  links,     \* AWS files that are symbolic links, of what files has for them
  tmp,       \* temporary files that are there
  pc,        \* the next step: <<step, file>>
  backup,    \* local_backup and aws_backup
  setup,     \* the flags and answers: [force, aws, live]
  validated, \* _validate_aws reported no failure
  found,     \* the files as others left them
  restoring  \* a restore has begun

vars == <<files, links, tmp, pc, backup, setup, validated, found, restoring>>

None == "none"

At(step) == <<step, None>>

Ended == {"done", "refused", "failed", "raised", "interrupted", "killed"}

PC == ({"start", "ask", "snapshot", "link check", "validate"} \cup Ended) \X {None}
        \cup {"create", "replace"} \X Secret
        \cup {"truncate", "fill"} \X File
        \cup {"restore"} \X File

Init ==
  /\ files \in Start
  /\ found = files
  /\ links \in SUBSET Aws
  /\ tmp = {}
  /\ pc = At("start")
  /\ backup = [f \in File |-> Absent]
  /\ setup \in [force : BOOLEAN, aws : BOOLEAN, live : BOOLEAN]
  /\ validated = FALSE
  /\ restoring = FALSE

-----------------------------------------------------------------------------
Goto(next) == pc' = next

Exists(f) == files[f].kind # "absent"

Hold(f, text) == files' = [files EXCEPT ![f] = text]

inputs == <<setup, found>>

(* Without --force a run refuses to go on when a local file exists. *)
CheckExisting ==
  /\ pc = At("start")
  /\ Goto(IF ~setup.force /\ \E f \in Local : Exists(f) THEN At("refused") ELSE At("ask"))
  /\ UNCHANGED <<files, tmp, backup, validated, restoring, links, inputs>>

(* Someone writes a local file while the operator answers. Assumed: nobody does *)
(* from the snapshot on, for what is saved then is lost, when the run writes    *)
(* its own and when it restores the snapshot.                                   *)
Edit(f) ==
  /\ pc = At("ask")
  /\ f \in Local
  /\ Hold(f, AllOf("old"))
  /\ found' = [found EXCEPT ![f] = AllOf("old")]
  /\ UNCHANGED <<links, tmp, pc, backup, setup, validated, restoring>>

(* The questions end, with an answer that is not accepted or with all answers. *)
Answer ==
  /\ pc = At("ask")
  /\ \E next \in {"refused", "snapshot"} : Goto(At(next))
  /\ UNCHANGED <<files, tmp, backup, validated, restoring, links, inputs>>

(* _snapshot_files, of the local files first. A file that cannot be read ends *)
(* the run with a message or with the exception.                              *)
Snapshot ==
  /\ pc = At("snapshot")
  /\ \/ /\ backup' = files
        /\ Goto(IF setup.aws THEN At("link check") ELSE <<"truncate", "config.yaml">>)
     \/ /\ \E next \in {"refused", "raised"} : Goto(At(next))
        /\ UNCHANGED backup
  /\ UNCHANGED <<files, tmp, validated, restoring, links, inputs>>

FirstRestored(Files) ==
  IF Files = Aws THEN <<"restore", "credentials">> ELSE <<"restore", "config.yaml">>

(* What follows an exception while a file is written: the local files are    *)
(* restored when one of them was being written, and then the AWS files.      *)
Rescue(f) ==
  /\ Goto(FirstRestored(IF f \in Aws THEN Aws ELSE Local))
  /\ restoring' = TRUE

(* _write_aws_credentials refuses to replace a symbolic link. *)
CheckLinks ==
  /\ pc = At("link check")
  /\ IF links # {} THEN Rescue("credentials")
                   ELSE Goto(<<"create", "credentials">>) /\ UNCHANGED restoring
  /\ UNCHANGED <<files, tmp, backup, validated, links, inputs>>

(* Mistake: a file with secrets is written in place. *)
CreateInPlace(f) ==
  /\ pc = <<"create", f>>
  /\ \/ Hold(f, Torn) /\ Goto(<<"replace", f>>) /\ UNCHANGED restoring
     \/ Rescue(f) /\ UNCHANGED files
  /\ UNCHANGED <<tmp, backup, validated, links, inputs>>

(* _write_secret_file creates and fills a temporary file; its finally clause *)
(* removes that, whatever happened.                                          *)
CreateTmp(f) ==
  /\ pc = <<"create", f>>
  /\ \/ tmp' = tmp \cup {f} /\ Goto(<<"replace", f>>) /\ UNCHANGED restoring
     \/ Rescue(f) /\ UNCHANGED tmp
  /\ UNCHANGED <<files, backup, validated, links, inputs>>

(* The AWS files keep the sections of other profiles. A torn one is what is *)
(* left of it, or does not parse; here it has no section left. Assumed: the *)
(* parser, which skips a file it cannot open without a word, can open what  *)
(* the snapshot has just read.                                              *)
NewText(f) ==
  IF f \in Local THEN AllOf("new") ELSE Whole([files[f].by EXCEPT ![Mine] = "new"])

AfterWrite(f) ==
  CASE f = "credentials" -> <<"create", "config">>
    [] f = "config" -> IF setup.live THEN At("validate") ELSE <<"truncate", "config.yaml">>
    [] f = "config.yaml" -> <<"create", ".env">>
    [] f = ".env" -> At("done")

(* os.replace, and the chmod after it, which can still fail. *)
Replace(f) ==
  /\ pc = <<"replace", f>>
  /\ tmp' = tmp \ {f}
  /\ \/ Hold(f, NewText(f)) /\ Goto(AfterWrite(f)) /\ UNCHANGED restoring
     \/ (Hold(f, NewText(f)) \/ UNCHANGED files) /\ Rescue(f)
  /\ UNCHANGED <<backup, validated, links, inputs>>

(* Mistake: a failed validation is reported at the end, like all the others. *)
ValidateAndGoOn ==
  /\ pc = At("validate")
  /\ validated' \in BOOLEAN
  /\ Goto(<<"truncate", "config.yaml">>)
  /\ UNCHANGED <<files, tmp, backup, restoring, links, inputs>>

ValidateAws ==
  /\ pc = At("validate")
  /\ \/ /\ validated' = TRUE
        /\ Goto(<<"truncate", "config.yaml">>)
        /\ UNCHANGED restoring
     \/ /\ Rescue("credentials")
        /\ UNCHANGED validated
  /\ UNCHANGED <<files, tmp, backup, links, inputs>>

(* config.yaml is opened for writing, which empties it, and filled. *)
Truncate ==
  /\ pc = <<"truncate", "config.yaml">>
  /\ \/ Hold("config.yaml", Torn) /\ Goto(<<"fill", "config.yaml">>) /\ UNCHANGED restoring
     \/ Rescue("config.yaml") /\ UNCHANGED files
  /\ UNCHANGED <<tmp, backup, validated, links, inputs>>

Fill ==
  /\ pc = <<"fill", "config.yaml">>
  /\ ~restoring
  /\ \/ Hold("config.yaml", NewText("config.yaml")) /\ Goto(AfterWrite("config.yaml"))
        /\ UNCHANGED restoring
     \/ Rescue("config.yaml") /\ UNCHANGED files
  /\ UNCHANGED <<tmp, backup, validated, links, inputs>>

(* Mistake: the local files are restored and the AWS files are forgotten. *)
AfterRestoreLocal(f) ==
  CASE f = "config.yaml" -> <<"restore", ".env">>
    [] f = "credentials" -> <<"restore", "config">>
    [] OTHER -> At("failed")

AfterRestore(f) ==
  CASE f = "config.yaml" -> <<"restore", ".env">>
    [] f = ".env" -> IF setup.aws THEN <<"restore", "credentials">> ELSE At("failed")
    [] f = "credentials" -> <<"restore", "config">>
    [] f = "config" -> At("failed")

(* _restore_files: a file that was not there is removed, another is written  *)
(* in place. A link that leads nowhere counts as a file that was not there.  *)
(* An exception here ends the run.                                           *)
Restore(f) ==
  /\ pc = <<"restore", f>>
  /\ \/ /\ backup[f].kind = "absent"
        /\ Hold(f, Absent)
        /\ links' = links \ {f}
        /\ Goto(AfterRestore(f))
     \/ /\ backup[f].kind # "absent"
        /\ Hold(f, Torn)
        /\ Goto(<<"fill", f>>)
        /\ UNCHANGED links
     \/ Goto(At("raised")) /\ UNCHANGED <<files, links>>
  /\ UNCHANGED <<tmp, backup, validated, restoring, inputs>>

Refill(f) ==
  /\ pc = <<"fill", f>>
  /\ restoring
  /\ \/ Hold(f, backup[f]) /\ Goto(AfterRestore(f))
     \/ Goto(At("raised")) /\ UNCHANGED files
  /\ UNCHANGED <<tmp, backup, validated, restoring, links, inputs>>

Running == pc[1] \notin Ended

(* Ctrl-C raises KeyboardInterrupt, which no handler of the wizard catches. *)
Interrupt ==
  /\ Running
  /\ Goto(At("interrupted"))
  /\ tmp' = {}
  /\ UNCHANGED <<files, backup, validated, restoring, links, inputs>>

Kill ==
  /\ Running
  /\ Goto(At("killed"))
  /\ UNCHANGED <<files, tmp, backup, validated, restoring, links, inputs>>

Next ==
  \/ CheckExisting \/ Answer \/ Snapshot \/ CheckLinks \/ ValidateAws
  \/ Truncate \/ Fill \/ Interrupt \/ Kill
  \/ \E f \in File : Edit(f) \/ CreateTmp(f) \/ Replace(f) \/ Restore(f) \/ Refill(f)

Spec == Init /\ [][Next]_vars

-----------------------------------------------------------------------------
(* Everything has its type, and the step at hand is about a file it can be about. *)
WizardTypeOK ==
  /\ files \in [File -> Text] /\ found \in [File -> Text] /\ backup \in [File -> Text]
  /\ links \subseteq Aws
  /\ tmp \subseteq Secret
  /\ pc \in PC
  /\ setup \in [force : BOOLEAN, aws : BOOLEAN, live : BOOLEAN]
  /\ validated \in BOOLEAN /\ restoring \in BOOLEAN

IsNew(f) ==
  /\ files[f].kind = "whole"
  /\ \A p \in Profile : files[f].by[p] = IF f \in Local \/ p = Mine THEN "new" ELSE found[f].by[p]

(* A run that returns has written all its files, or left every one of the    *)
(* four as others left it, whatever failed on the way: no .env that exports  *)
(* AWS files which were taken back, no AWS profile without its .env.         *)
AllOrNothing ==
  /\ pc[1] \in {"refused", "failed"} => files = found
  /\ pc[1] = "done" =>
       \A f \in File : IF f \in Local \/ setup.aws THEN IsNew(f) ELSE files[f] = found[f]

(* A file with secrets is never cut short, by no failure, Ctrl-C or kill, as *)
(* long as nothing is being restored (only config.yaml is), and a whole AWS  *)
(* file has the sections of the other profiles, also after a restore.        *)
SecretsWhole ==
  \A f \in Secret :
    /\ files[f].kind = "torn" => restoring \/ found[f].kind = "torn"
    /\ (files[f].kind = "whole" /\ f \in Aws) =>
         \A p \in Profile \ {Mine} : files[f].by[p] = found[f].by[p]

(* The local files are touched when the AWS files they refer to are in place *)
(* and were tried, if they were to be: the profile that .env exports works.  *)
LocalFilesLast ==
  (setup.aws /\ \E f \in Local : files[f] # found[f]) =>
    /\ setup.live => validated
    /\ restoring \/ \A f \in Aws : IsNew(f)

(* Without --force nothing that exists is overwritten (README.md:209). *)
ExistingKept ==
  ~setup.force => \A f \in Local : found[f].kind # "absent" => files[f] = found[f]

(* A symbolic link among the AWS files is refused (setup_wizard.py:672), and *)
(* so it stays.                                                              *)
LinksStay == [][links' = links]_vars
=============================================================================
