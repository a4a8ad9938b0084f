----------------------------- MODULE SetupProofs -----------------------------
(***************************************************************************)
(* Theorems about the setup: about SetupWizard, for every set of profiles  *)
(* and whatever the files hold before the run; and about Installation, for *)
(* any number of projects and every file and environment: what the wizard  *)
(* makes of the answers, how load_config reads it, and what a command gets *)
(* in the end.                                                             *)
(***************************************************************************)
EXTENDS SetupWizard, Installation, FiniteSetTheorems, SequenceTheorems, TLAPS

Step == pc[1]
Target == pc[2]

(* Until the first write the files are as others left them. *)
Untouched ==
  Step \in {"start", "ask", "snapshot", "refused"} => files = found /\ ~restoring

(* From the snapshot on, it is what others left. *)
SnapshotIsFound ==
  Step \in {"link check", "create", "replace", "validate", "truncate", "fill",
            "restore", "failed"} => backup = found

(* AWS files are handled in runs that write them only, local files after the *)
(* validation, and what restores is told from what writes.                   *)
StepsInOrder ==
  /\ Step \in {"link check", "create", "replace", "validate", "truncate"} => ~restoring
  /\ Step \in {"restore", "failed"} => restoring
  /\ Step = "done" => ~restoring
  /\ (Step = "fill" /\ ~restoring) => Target = "config.yaml"
  /\ Step = "truncate" => Target = "config.yaml"
  /\ (Step \in {"link check", "validate"} \/ Target \in Aws) => setup.aws
  /\ (setup.aws /\ setup.live /\ (Step = "done" \/ Target \in Local)) => validated

AwsWritten == IF setup.aws THEN Aws ELSE {}

(* The files that are written by now. *)
Written ==
  CASE Step = "done" -> AwsWritten \cup Local
    [] Step = "validate" -> Aws
    [] Step \in {"truncate", "fill"} -> AwsWritten
    [] Step \in {"create", "replace"} /\ Target = "config" -> {"credentials"}
    [] Step \in {"create", "replace"} /\ Target = ".env" -> AwsWritten \cup {"config.yaml"}
    [] OTHER -> {}

(* While the run writes, every file is new or as it was, but for config.yaml *)
(* in the middle of its own writing.                                         *)
NewOrFound ==
  (~restoring /\ Step \in {"link check", "create", "replace", "validate", "truncate",
                           "fill", "done"}) =>
    \A f \in File :
      IF f \in Written THEN IsNew(f)
      ELSE files[f] = found[f] \/ (Step = "fill" /\ f = "config.yaml")

(* The files that are still to be restored. *)
Unrestored ==
  IF Step = "failed" THEN {}
  ELSE CASE Target = "config.yaml" -> Local \cup AwsWritten
         [] Target = ".env" -> {".env"} \cup AwsWritten
         [] Target = "credentials" -> Aws
         [] OTHER -> {"config"}

(* While the run restores, all other files are as others left them. *)
RestoredIsFound ==
  (restoring /\ Step \in {"restore", "fill", "failed"}) =>
    \A f \in File : f \notin Unrestored => files[f] = found[f]

WizardInv ==
  /\ WizardTypeOK
  /\ Untouched
  /\ SnapshotIsFound
  /\ StepsInOrder
  /\ NewOrFound
  /\ RestoredIsFound
  /\ SecretsWhole
  /\ LocalFilesLast

-----------------------------------------------------------------------------
(* Texts *)

LEMMA TextKinds ==
  /\ \A t \in Text : t.kind = "absent" => t = Absent
  /\ \A t \in Text : t.by \in [Profile -> {"none", "old", "new"}]
  /\ Absent \in Text /\ Torn \in Text /\ AllOf("new") \in Text /\ AllOf("old") \in Text
  /\ Absent.kind = "absent" /\ Torn.kind = "torn"
  /\ \A who : AllOf(who).kind = "whole" /\ \A p \in Profile : AllOf(who).by[p] = who
BY DEF Text, Absent, Torn, Whole, AllOf

LEMMA NewTextIsText ==
  ASSUME WizardTypeOK, NEW f \in File
  PROVE  NewText(f) \in Text
<1>1. files[f] \in Text
  BY DEF WizardTypeOK
<1>2. [files[f].by EXCEPT ![Mine] = "new"] \in [Profile -> {"none", "old", "new"}]
  BY <1>1, TextKinds, WizardAssumption
<1> QED
  BY <1>2, TextKinds DEF NewText, Text

(* A file that was as others left it is new once it is written. *)
LEMMA WrittenIsNew ==
  ASSUME WizardTypeOK, NEW f \in File, f \in Aws => files[f] = found[f],
         files'[f] = NewText(f), found' = found
  PROVE  IsNew(f)'
<1>1. files[f] \in Text /\ files[f].by \in [Profile -> {"none", "old", "new"}]
  BY TextKinds DEF WizardTypeOK
<1>2. CASE f \in Local
  BY <1>2, TextKinds DEF NewText, IsNew
<1>3. CASE f \in Aws
  <2>1. files'[f] = Whole([found[f].by EXCEPT ![Mine] = "new"])
    BY <1>3 DEF NewText, Aws, Local
  <2> QED
    BY <1>1, <1>3, <2>1, WizardAssumption DEF IsNew, Whole, Aws, Local
<1> QED
  BY <1>2, <1>3 DEF File

-----------------------------------------------------------------------------
(* Steps *)

Plain == {"start", "ask", "snapshot", "link check", "validate"} \cup Ended

LEMMA StepsArePC ==
  /\ \A step \in Plain : At(step) \in PC
  /\ \A f \in Secret : <<"create", f>> \in PC /\ <<"replace", f>> \in PC
  /\ \A f \in File : <<"truncate", f>> \in PC /\ <<"fill", f>> \in PC /\ <<"restore", f>> \in PC
<1>1. \A step \in Plain : At(step) \in PC
  BY DEF PC, At, Plain, None
<1>2. \A f \in Secret : <<"create", f>> \in PC /\ <<"replace", f>> \in PC
  BY DEF PC
<1>3. \A f \in File : <<"truncate", f>> \in PC /\ <<"fill", f>> \in PC /\ <<"restore", f>> \in PC
  BY DEF PC
<1> QED
  BY <1>1, <1>2, <1>3

LEMMA NextStepIsPC ==
  /\ \A f \in File : AfterWrite(f) \in PC /\ AfterRestore(f) \in PC
  /\ FirstRestored(Aws) \in PC /\ FirstRestored(Local) \in PC
<1>1. \A f \in File : AfterWrite(f) \in PC
  BY StepsArePC DEF AfterWrite, Plain, Ended, Secret, File, Local, Aws
<1>2. \A f \in File : AfterRestore(f) \in PC
  BY StepsArePC DEF AfterRestore, Plain, Ended, File, Local, Aws
<1>3. FirstRestored(Aws) \in PC /\ FirstRestored(Local) \in PC
  BY StepsArePC DEF FirstRestored, File, Local, Aws
<1> QED
  BY <1>1, <1>2, <1>3

LEMMA RescueIsPC ==
  ASSUME NEW f \in File, Rescue(f)
  PROVE  pc' \in PC /\ restoring'
BY NextStepIsPC DEF Rescue, Goto

-----------------------------------------------------------------------------
LEMMA TypesAtFirst == Init => WizardTypeOK
<1> SUFFICES ASSUME Init PROVE WizardTypeOK
  OBVIOUS
<1>1. pc \in PC
  BY StepsArePC DEF Init, Plain
<1> QED
  BY <1>1, WizardAssumption, TextKinds DEF Init, WizardTypeOK

LEMMA TypesPreserved == WizardTypeOK /\ [Next]_vars => WizardTypeOK'
<1> SUFFICES ASSUME WizardTypeOK, [Next]_vars PROVE WizardTypeOK'
  OBVIOUS
<1> DEFINE Rest == pc' \in PC /\ restoring' \in BOOLEAN
<1> USE DEF WizardTypeOK
<1>1. CASE CheckExisting
  BY <1>1, StepsArePC DEF CheckExisting, Goto, inputs, Plain, Ended
<1>2. CASE Answer
  BY <1>2, StepsArePC DEF Answer, Goto, inputs, Plain, Ended
<1>3. CASE Snapshot
  <2>1. pc' \in PC
    BY <1>3, StepsArePC DEF Snapshot, Goto, Plain, Ended, File, Local
  <2> QED
    BY <1>3, <2>1 DEF Snapshot, inputs
<1>4. CASE CheckLinks
  <2>1. Rest
    BY <1>4, RescueIsPC, StepsArePC DEF CheckLinks, Goto, Rescue, File, Aws, Secret
  <2> QED
    BY <1>4, <2>1 DEF CheckLinks, inputs
<1>5. CASE ValidateAws
  <2>1. Rest
    BY <1>5, RescueIsPC, StepsArePC DEF ValidateAws, Goto, Rescue, File, Local, Aws
  <2> QED
    BY <1>5, <2>1 DEF ValidateAws, inputs
<1>6. CASE Truncate
  <2>1. Rest
    BY <1>6, RescueIsPC, StepsArePC DEF Truncate, Goto, Rescue, File, Local
  <2> QED
    BY <1>6, <2>1, TextKinds DEF Truncate, Hold, inputs
<1>7. CASE Fill
  <2>1. "config.yaml" \in File
    BY DEF File, Local
  <2>2. Rest
    BY <1>7, <2>1, RescueIsPC, NextStepIsPC DEF Fill, Goto, Rescue
  <2> QED
    BY <1>7, <2>1, <2>2, NewTextIsText DEF Fill, Hold, inputs
<1>8. CASE Interrupt
  BY <1>8, StepsArePC DEF Interrupt, Goto, inputs, Plain, Ended
<1>9. CASE Kill
  BY <1>9, StepsArePC DEF Kill, Goto, inputs, Plain, Ended
<1>10. ASSUME NEW f \in File, Edit(f) PROVE WizardTypeOK'
  BY <1>10, TextKinds DEF Edit, Hold
<1>11. ASSUME NEW f \in File, CreateTmp(f) PROVE WizardTypeOK'
  <2>1. f \in Secret
    BY <1>11 DEF CreateTmp, PC, At, Ended
  <2>2. Rest
    BY <1>11, <2>1, RescueIsPC, StepsArePC DEF CreateTmp, Goto, Rescue
  <2> QED
    BY <1>11, <2>1, <2>2 DEF CreateTmp, inputs
<1>12. ASSUME NEW f \in File, Replace(f) PROVE WizardTypeOK'
  <2>1. Rest
    BY <1>12, RescueIsPC, NextStepIsPC DEF Replace, Goto, Rescue
  <2> QED
    BY <1>12, <2>1, NewTextIsText DEF Replace, Hold, inputs
<1>13. ASSUME NEW f \in File, Restore(f) PROVE WizardTypeOK'
  <2>1. pc' \in PC
    BY <1>13, NextStepIsPC, StepsArePC DEF Restore, Goto, Plain, Ended
  <2> QED
    BY <1>13, <2>1, TextKinds DEF Restore, Hold, inputs
<1>14. ASSUME NEW f \in File, Refill(f) PROVE WizardTypeOK'
  <2>1. pc' \in PC
    BY <1>14, NextStepIsPC, StepsArePC DEF Refill, Goto, Plain, Ended
  <2> QED
    BY <1>14, <2>1 DEF Refill, Hold, inputs
<1>15. CASE UNCHANGED vars
  BY <1>15 DEF vars
<1> QED
  BY <1>1, <1>2, <1>3, <1>4, <1>5, <1>6, <1>7, <1>8, <1>9, <1>10, <1>11, <1>12, <1>13,
     <1>14, <1>15 DEF Next

(* Every file, backup, answer and step is of its kind. *)
THEOREM WizardTypes == Spec => []WizardTypeOK
BY TypesAtFirst, TypesPreserved, PTL DEF Spec

-----------------------------------------------------------------------------
(* The inductive invariant *)

StagesOK == Untouched /\ SnapshotIsFound /\ StepsInOrder /\ NewOrFound /\ RestoredIsFound

(* A step that leaves all files alone keeps what is said of files only. *)
LEMMA FilesAlone ==
  ASSUME SecretsWhole, LocalFilesLast, UNCHANGED <<files, found, setup>>,
         validated => validated', restoring => restoring'
  PROVE  SecretsWhole' /\ LocalFilesLast' /\ \A f \in File : IsNew(f)' <=> IsNew(f)
BY DEF SecretsWhole, LocalFilesLast, IsNew

(* A step that ends the run in the middle. *)
LEMMA EndsAnywhere ==
  ASSUME WizardInv, pc' \in {At("raised"), At("interrupted"), At("killed")},
         UNCHANGED <<files, found, backup, setup, validated, restoring>>
  PROVE  StagesOK' /\ SecretsWhole' /\ LocalFilesLast'
<1>1. Step' \in {"raised", "interrupted", "killed"} /\ Target' = "none"
  BY DEF Step, Target, At, None
<1>2. StagesOK'
  BY <1>1 DEF StagesOK, Untouched, SnapshotIsFound, StepsInOrder, NewOrFound, RestoredIsFound,
              Aws, Local
<1> QED
  BY <1>2, FilesAlone DEF WizardInv

(* When a write fails, the AWS files are touched in runs that write them     *)
(* only, and the local files after them.                                     *)
LEMMA BeforeRescue ==
  ASSUME WizardInv, NEW f \in File, ~restoring,
         \/ Step \in {"create", "replace", "truncate", "fill"} /\ Target = f
         \/ Step \in {"link check", "validate"} /\ f = "credentials"
  PROVE  /\ backup = found
         /\ f \in Aws => setup.aws /\ \A g \in Local : files[g] = found[g]
         /\ f \in Local => /\ (setup.aws /\ setup.live) => validated
                           /\ ~setup.aws => \A g \in Aws : files[g] = found[g]
<1>1. backup = found
  BY DEF WizardInv, SnapshotIsFound
<1>2. CASE f \in Aws
  <2>1. setup.aws
    BY <1>2 DEF WizardInv, StepsInOrder
  <2>2. \A g \in Local : g \notin Written /\ Step # "fill"
    BY <1>2 DEF Written, WizardInv, StepsInOrder, Local, Aws
  <2>3. \A g \in Local : files[g] = found[g]
    BY <2>2 DEF WizardInv, NewOrFound, File, Local, Aws
  <2> QED
    BY <1>1, <1>2, <2>1, <2>3 DEF Local, Aws
<1>3. CASE f \in Local
  <2>1. (setup.aws /\ setup.live) => validated
    BY <1>3 DEF WizardInv, StepsInOrder, Local, Aws
  <2>2. ASSUME ~setup.aws, NEW g \in Aws PROVE files[g] = found[g]
    <3>1. g \notin Written
      BY <1>3, <2>2 DEF Written, AwsWritten, WizardInv, StepsInOrder, Local, Aws
    <3> QED
      BY <1>3, <2>2, <3>1 DEF WizardInv, NewOrFound, File, Local, Aws
  <2> QED
    BY <1>1, <1>3, <2>1, <2>2 DEF Local, Aws
<1> QED
  BY <1>2, <1>3 DEF File

(* What follows an exception starts with files that differ from what others  *)
(* left in those that will be restored only.                                 *)
LEMMA RescueKeepsStages ==
  ASSUME WizardInv, NEW f \in File, Rescue(f), backup = found,
         UNCHANGED <<found, backup, setup, validated>>,
         \A g \in File \ {f} : files'[g] = files[g],
         f \in Aws => setup.aws /\ \A g \in Local : files[g] = found[g],
         f \in Local => /\ (setup.aws /\ setup.live) => validated
                        /\ ~setup.aws => \A g \in Aws : files[g] = found[g]
  PROVE  StagesOK'
<1>1. restoring'
  BY DEF Rescue
<1>2. CASE f \in Aws
  <2>1. pc' = <<"restore", "credentials">>
    BY <1>2 DEF Rescue, Goto, FirstRestored
  <2>2. Step' = "restore" /\ Target' = "credentials"
    BY <2>1 DEF Step, Target
  <2>3. RestoredIsFound'
    BY <1>2, <2>2 DEF RestoredIsFound, Unrestored, File, Local, Aws
  <2> QED
    BY <1>1, <1>2, <2>2, <2>3
    DEF StagesOK, Untouched, SnapshotIsFound, StepsInOrder, NewOrFound, Local, Aws
<1>3. CASE f \in Local
  <2>1. pc' = <<"restore", "config.yaml">>
    BY <1>3 DEF Rescue, Goto, FirstRestored, Local, Aws
  <2>2. Step' = "restore" /\ Target' = "config.yaml"
    BY <2>1 DEF Step, Target
  <2>3. RestoredIsFound'
    BY <1>3, <2>2 DEF RestoredIsFound, Unrestored, AwsWritten, File, Local, Aws
  <2>4. StepsInOrder'
    BY <1>1, <1>3, <2>2 DEF StepsInOrder, Local, Aws
  <2> QED
    BY <1>1, <2>2, <2>3, <2>4 DEF StagesOK, Untouched, SnapshotIsFound, NewOrFound
<1> QED
  BY <1>2, <1>3 DEF File

(* A step of the writing that fails. *)
LEMMA FailedWriteKeepsStages ==
  ASSUME WizardInv, NEW f \in File, ~restoring, Rescue(f),
         UNCHANGED <<found, backup, setup, validated>>,
         \A g \in File \ {f} : files'[g] = files[g],
         \/ Step \in {"create", "replace", "truncate", "fill"} /\ Target = f
         \/ Step \in {"link check", "validate"} /\ f = "credentials"
  PROVE  StagesOK'
<1>1. /\ backup = found
      /\ f \in Aws => setup.aws /\ \A g \in Local : files[g] = found[g]
      /\ f \in Local => /\ (setup.aws /\ setup.live) => validated
                        /\ ~setup.aws => \A g \in Aws : files[g] = found[g]
  BY BeforeRescue
<1> QED
  BY <1>1, RescueKeepsStages

(* While restoring, the local files may differ from what others left there,  *)
(* if the AWS files were tried when they first did.                          *)
LEMMA RestoringLocals ==
  ASSUME LocalFilesLast, NEW f \in File, restoring', UNCHANGED <<found, setup, validated>>,
         \A g \in File \ {f} : files'[g] = files[g],
         (f \in Local /\ setup.aws /\ setup.live) => validated
  PROVE  LocalFilesLast'
BY DEF LocalFilesLast, File, Local, Aws

(* A file with secrets that is written, or restored. *)
LEMMA SecretWritten ==
  ASSUME WizardTypeOK, SecretsWhole, NEW f \in File, UNCHANGED found,
         restoring => restoring', \A g \in File \ {f} : files'[g] = files[g],
         \/ f \in Secret => files'[f] = NewText(f) /\ files[f] = found[f]
         \/ restoring' /\ files'[f] \in {Absent, Torn, found[f]}
  PROVE  SecretsWhole'
<1>1. ASSUME NEW g \in Secret
      PROVE  /\ files'[g].kind = "torn" => restoring' \/ found[g].kind = "torn"
             /\ (files'[g].kind = "whole" /\ g \in Aws) =>
                  \A p \in Profile \ {Mine} : files'[g].by[p] = found[g].by[p]
  <2>1. CASE g # f
    BY <1>1, <2>1 DEF SecretsWhole, Secret, File, Local, Aws
  <2>2. CASE g = f /\ restoring' /\ files'[f] \in {Absent, Torn, found[f]}
    BY <2>2, TextKinds DEF Absent, Torn
  <2>3. CASE g = f /\ files'[f] = NewText(f) /\ files[f] = found[f]
    <3>1. CASE f \in Local
      BY <2>3, <3>1, TextKinds DEF NewText, Local, Aws
    <3>2. CASE f \in Aws
      <4>1. files'[f] = Whole([found[f].by EXCEPT ![Mine] = "new"])
        BY <2>3, <3>2 DEF NewText, Local, Aws
      <4>2. found[f].by \in [Profile -> {"none", "old", "new"}]
        BY TextKinds DEF WizardTypeOK
      <4> QED
        BY <2>3, <4>1, <4>2, WizardAssumption DEF Whole
    <3> QED
      BY <3>1, <3>2 DEF File
  <2> QED
    BY <1>1, <2>1, <2>2, <2>3
<1> QED
  BY <1>1 DEF SecretsWhole

-----------------------------------------------------------------------------
(* The steps before the first write *)

LEMMA BeginningKeeps ==
  ASSUME WizardInv, CheckExisting \/ Answer \/ Snapshot
  PROVE  StagesOK' /\ SecretsWhole' /\ LocalFilesLast'
<1>1. Step \in {"start", "ask", "snapshot"} /\ files = found /\ ~restoring
  <2>1. pc \in {At("start"), At("ask"), At("snapshot")}
    BY DEF CheckExisting, Answer, Snapshot
  <2>2. Step \in {"start", "ask", "snapshot"}
    BY <2>1 DEF Step, At
  <2> QED
    BY <2>2 DEF WizardInv, Untouched
<1>2. UNCHANGED <<files, found, setup, validated, restoring, links>>
  BY DEF CheckExisting, Answer, Snapshot, inputs
<1>3. SecretsWhole' /\ LocalFilesLast'
  BY <1>2, FilesAlone DEF WizardInv
<1>4. CASE pc' \in {At("refused"), At("ask"), At("snapshot"), At("raised")}
  <2>1. Step' \in {"refused", "ask", "snapshot", "raised"} /\ Target' = "none"
    BY <1>4 DEF Step, Target, At, None
  <2> QED
    BY <1>1, <1>2, <1>3, <2>1
    DEF StagesOK, Untouched, SnapshotIsFound, StepsInOrder, NewOrFound, RestoredIsFound, Local, Aws
<1>5. CASE pc' = At("link check") /\ setup.aws /\ backup' = files
  <2>1. Step' = "link check" /\ Target' = "none"
    BY <1>5 DEF Step, Target, At, None
  <2>2. Written' = {}
    BY <2>1 DEF Written
  <2> QED
    BY <1>1, <1>2, <1>3, <1>5, <2>1, <2>2
    DEF StagesOK, Untouched, SnapshotIsFound, StepsInOrder, NewOrFound, RestoredIsFound, Local, Aws
<1>6. CASE pc' = <<"truncate", "config.yaml">> /\ ~setup.aws /\ backup' = files
  <2>1. Step' = "truncate" /\ Target' = "config.yaml"
    BY <1>6 DEF Step, Target
  <2>2. Written' = {}
    BY <1>2, <1>6, <2>1 DEF Written, AwsWritten
  <2> QED
    BY <1>1, <1>2, <1>3, <1>6, <2>1, <2>2
    DEF StagesOK, Untouched, SnapshotIsFound, StepsInOrder, NewOrFound, RestoredIsFound, Local, Aws
<1> QED
  BY <1>4, <1>5, <1>6 DEF CheckExisting, Answer, Snapshot, Goto

(* What another writes is what others left. *)
LEMMA EditKeeps ==
  ASSUME WizardInv, NEW f \in File, Edit(f)
  PROVE  StagesOK' /\ SecretsWhole' /\ LocalFilesLast'
<1>1. Step = "ask" /\ files = found /\ ~restoring /\ f \in Local
  BY DEF WizardInv, Untouched, Edit, Step, At
<1>2. files' = found' /\ UNCHANGED <<pc, backup, setup, validated, restoring>>
  BY <1>1 DEF Edit, Hold
<1>3. Step' = "ask" /\ Target' = Target
  BY <1>1, <1>2 DEF Step, Target
<1>4. StagesOK'
  BY <1>1, <1>2, <1>3
  DEF WizardInv, StagesOK, Untouched, SnapshotIsFound, StepsInOrder, NewOrFound, RestoredIsFound
<1>5. SecretsWhole'
  BY <1>2 DEF SecretsWhole
<1>6. LocalFilesLast'
  BY <1>2 DEF LocalFilesLast, File
<1> QED
  BY <1>4, <1>5, <1>6

-----------------------------------------------------------------------------
(* The steps that write *)

(* What StagesOK says of a run that goes on writing. *)
LEMMA WritingStages ==
  ASSUME backup' = found', ~restoring',
         Step' \in {"link check", "create", "replace", "validate", "truncate", "fill", "done"},
         StepsInOrder', NewOrFound'
  PROVE  StagesOK'
BY DEF StagesOK, Untouched, SnapshotIsFound, RestoredIsFound

LEMMA CheckLinksKeeps ==
  ASSUME WizardInv, CheckLinks
  PROVE  StagesOK' /\ SecretsWhole' /\ LocalFilesLast'
<1>1. Step = "link check" /\ Target = "none"
  BY DEF CheckLinks, At, Step, Target, None
<1>2. ~restoring /\ setup.aws /\ backup = found
  BY <1>1 DEF WizardInv, StepsInOrder, SnapshotIsFound
<1>3. UNCHANGED <<files, found, backup, setup, validated>>
  BY DEF CheckLinks, inputs
<1>4. CASE Rescue("credentials")
  <2>1. "credentials" \in File
    BY DEF File, Aws
  <2>2. StagesOK'
    BY <1>1, <1>2, <1>3, <1>4, <2>1, FailedWriteKeepsStages
  <2> QED
    BY <1>3, <1>4, <2>2, FilesAlone DEF WizardInv, Rescue
<1>5. CASE pc' = <<"create", "credentials">> /\ UNCHANGED restoring
  <2>1. Step' = "create" /\ Target' = "credentials"
    BY <1>5 DEF Step, Target
  <2>2. Written = {} /\ Written' = {}
    BY <1>1, <2>1 DEF Written
  <2>3. StepsInOrder'
    BY <1>2, <1>3, <1>5, <2>1 DEF StepsInOrder, Local, Aws
  <2>4. NewOrFound'
    BY <1>1, <1>2, <1>3, <1>5, <2>1, <2>2 DEF WizardInv, NewOrFound
  <2> QED
    BY <1>2, <1>3, <1>5, <2>1, <2>3, <2>4, WritingStages, FilesAlone DEF WizardInv
<1> QED
  BY <1>4, <1>5 DEF CheckLinks, Goto

LEMMA CreateTmpKeeps ==
  ASSUME WizardInv, NEW f \in File, CreateTmp(f)
  PROVE  StagesOK' /\ SecretsWhole' /\ LocalFilesLast'
<1>1. Step = "create" /\ Target = f
  BY DEF CreateTmp, Step, Target
<1>2. ~restoring /\ backup = found
  BY <1>1 DEF WizardInv, StepsInOrder, SnapshotIsFound
<1>3. UNCHANGED <<files, found, backup, setup, validated>>
  BY DEF CreateTmp, inputs
<1>4. CASE Rescue(f)
  <2>1. StagesOK'
    BY <1>1, <1>2, <1>3, <1>4, FailedWriteKeepsStages
  <2> QED
    BY <1>3, <1>4, <2>1, FilesAlone DEF WizardInv, Rescue
<1>5. CASE pc' = <<"replace", f>> /\ UNCHANGED restoring
  <2>1. Step' = "replace" /\ Target' = f
    BY <1>5 DEF Step, Target
  <2>2. Written' = Written
    BY <1>1, <1>3, <2>1 DEF Written, AwsWritten
  <2>3. StepsInOrder'
    BY <1>1, <1>2, <1>3, <1>5, <2>1 DEF WizardInv, StepsInOrder
  <2>4. NewOrFound'
    BY <1>1, <1>2, <1>3, <1>5, <2>1, <2>2, FilesAlone DEF WizardInv, NewOrFound
  <2> QED
    BY <1>2, <1>3, <1>5, <2>1, <2>3, <2>4, WritingStages, FilesAlone DEF WizardInv
<1> QED
  BY <1>4, <1>5 DEF CreateTmp, Goto

LEMMA ValidateKeeps ==
  ASSUME WizardInv, ValidateAws
  PROVE  StagesOK' /\ SecretsWhole' /\ LocalFilesLast'
<1>1. Step = "validate"
  BY DEF ValidateAws, At, Step
<1>2. ~restoring /\ setup.aws /\ backup = found
  BY <1>1 DEF WizardInv, StepsInOrder, SnapshotIsFound
<1>3. UNCHANGED <<files, found, backup, setup>>
  BY DEF ValidateAws, inputs
<1>4. CASE Rescue("credentials") /\ UNCHANGED validated
  <2>1. "credentials" \in File
    BY DEF File, Aws
  <2>2. StagesOK'
    BY <1>1, <1>2, <1>3, <1>4, <2>1, FailedWriteKeepsStages
  <2> QED
    BY <1>3, <1>4, <2>2, FilesAlone DEF WizardInv, Rescue
<1>5. CASE pc' = <<"truncate", "config.yaml">> /\ UNCHANGED restoring /\ validated'
  <2>1. Step' = "truncate" /\ Target' = "config.yaml"
    BY <1>5 DEF Step, Target
  <2>2. Written = Aws /\ Written' = Aws
    BY <1>1, <1>2, <1>3, <2>1 DEF Written, AwsWritten
  <2>3. StepsInOrder'
    BY <1>2, <1>3, <1>5, <2>1 DEF StepsInOrder, Local, Aws
  <2>4. NewOrFound'
    BY <1>1, <1>2, <1>3, <1>5, <2>1, <2>2, FilesAlone DEF WizardInv, NewOrFound
  <2> QED
    BY <1>2, <1>3, <1>5, <2>1, <2>3, <2>4, WritingStages, FilesAlone DEF WizardInv
<1> QED
  BY <1>4, <1>5 DEF ValidateAws, Goto

LEMMA TruncateKeeps ==
  ASSUME WizardInv, Truncate
  PROVE  StagesOK' /\ SecretsWhole' /\ LocalFilesLast'
<1> DEFINE f == "config.yaml"
<1>1. Step = "truncate" /\ Target = f /\ f \in File /\ f \in Local /\ f \notin Secret
  BY DEF Truncate, Step, Target, File, Local, Secret, Aws
<1>2. ~restoring /\ backup = found /\ (setup.aws /\ setup.live => validated)
  BY <1>1 DEF WizardInv, StepsInOrder, SnapshotIsFound
<1>3. /\ UNCHANGED <<found, backup, setup, validated>>
      /\ \A g \in File \ {f} : files'[g] = files[g]
  BY <1>1 DEF Truncate, Hold, inputs, WizardInv, WizardTypeOK
<1>4. restoring => restoring'
  BY <1>2
<1>5. SecretsWhole'
  BY <1>1, <1>3, <1>4, SecretWritten DEF WizardInv
<1>6. CASE Rescue(f)
  <2>1. StagesOK'
    BY <1>1, <1>2, <1>3, <1>6, FailedWriteKeepsStages
  <2> QED
    BY <1>1, <1>2, <1>3, <1>5, <1>6, <2>1, RestoringLocals DEF WizardInv, Rescue
<1>7. CASE pc' = <<"fill", f>> /\ UNCHANGED restoring
  <2>1. Step' = "fill" /\ Target' = f
    BY <1>7 DEF Step, Target
  <2>2. Written = AwsWritten /\ Written' = AwsWritten /\ f \notin AwsWritten
    BY <1>1, <1>3, <2>1 DEF Written, AwsWritten, Aws
  <2>3. StepsInOrder'
    BY <1>1, <1>2, <1>3, <1>7, <2>1 DEF StepsInOrder, Local, Aws
  <2>4. NewOrFound'
    BY <1>1, <1>2, <1>3, <1>7, <2>1, <2>2 DEF WizardInv, NewOrFound, IsNew
  <2>5. \A g \in Aws : setup.aws => IsNew(g)'
    BY <1>1, <1>2, <1>3, <1>7, <2>1, <2>2, <2>4 DEF NewOrFound, AwsWritten, File
  <2>6. LocalFilesLast'
    BY <1>2, <1>3, <2>5 DEF LocalFilesLast
  <2> QED
    BY <1>2, <1>3, <1>5, <1>7, <2>1, <2>3, <2>4, <2>6, WritingStages
<1> QED
  BY <1>6, <1>7 DEF Truncate, Goto

LEMMA FillKeeps ==
  ASSUME WizardInv, Fill
  PROVE  StagesOK' /\ SecretsWhole' /\ LocalFilesLast'
<1> DEFINE f == "config.yaml"
<1>1. Step = "fill" /\ Target = f /\ f \in File /\ f \in Local /\ f \notin Secret /\ f \notin Aws
  BY DEF Fill, Step, Target, File, Local, Secret, Aws
<1>2. ~restoring /\ backup = found /\ (setup.aws /\ setup.live => validated)
  BY <1>1 DEF Fill, WizardInv, StepsInOrder, SnapshotIsFound
<1>3. /\ UNCHANGED <<found, backup, setup, validated>>
      /\ \A g \in File \ {f} : files'[g] = files[g]
  BY <1>1 DEF Fill, Hold, inputs, WizardInv, WizardTypeOK
<1>4. restoring => restoring'
  BY <1>2
<1>5. SecretsWhole'
  BY <1>1, <1>3, <1>4, SecretWritten DEF WizardInv
<1>6. CASE Rescue(f)
  <2>1. StagesOK'
    BY <1>1, <1>2, <1>3, <1>6, FailedWriteKeepsStages
  <2> QED
    BY <1>1, <1>2, <1>3, <1>5, <1>6, <2>1, RestoringLocals DEF WizardInv, Rescue
<1>7. CASE files'[f] = NewText(f) /\ pc' = <<"create", ".env">> /\ UNCHANGED restoring
  <2>1. Step' = "create" /\ Target' = ".env"
    BY <1>7 DEF Step, Target
  <2>2. Written = AwsWritten /\ Written' = AwsWritten \cup {f}
    BY <1>1, <1>3, <2>1 DEF Written, AwsWritten, Aws
  <2>3. StepsInOrder'
    BY <1>1, <1>2, <1>3, <1>7, <2>1 DEF StepsInOrder, Local, Aws
  <2>4. IsNew(f)'
    BY <1>1, <1>3, <1>7, WrittenIsNew DEF WizardInv
  <2>5. ASSUME NEW g \in File, g # f
        PROVE  IF g \in Written' THEN IsNew(g)' ELSE files'[g] = found'[g]
    BY <1>1, <1>2, <1>3, <2>2, <2>5 DEF WizardInv, NewOrFound, IsNew
  <2>6. NewOrFound'
    BY <1>7, <2>1, <2>2, <2>4, <2>5 DEF NewOrFound
  <2>7. \A g \in Aws : setup.aws => IsNew(g)'
    BY <1>1, <2>2, <2>5 DEF AwsWritten, File
  <2>8. LocalFilesLast'
    BY <1>2, <1>3, <2>7 DEF LocalFilesLast
  <2> QED
    BY <1>2, <1>3, <1>5, <1>7, <2>1, <2>3, <2>6, <2>8, WritingStages
<1> QED
  BY <1>1, <1>6, <1>7 DEF Fill, Goto, AfterWrite, Hold, WizardInv, WizardTypeOK

(* A file that was written and after which the run goes on. *)
LEMMA ReplacedKeeps ==
  ASSUME WizardInv, NEW f \in Secret, Step = "replace", Target = f,
         UNCHANGED <<found, backup, setup, validated, restoring>>, pc' = AfterWrite(f),
         files'[f] = NewText(f), \A g \in File \ {f} : files'[g] = files[g]
  PROVE  StagesOK' /\ LocalFilesLast'
<1>1. f \in File /\ ~restoring /\ backup = found /\ f \notin Written
  BY DEF Secret, File, Local, Aws, WizardInv, StepsInOrder, SnapshotIsFound, Written, AwsWritten
<1>2. files[f] = found[f]
  BY <1>1 DEF WizardInv, NewOrFound
<1>3. IsNew(f)'
  BY <1>1, <1>2, WrittenIsNew DEF WizardInv
<1>4. ASSUME NEW g \in File, g # f
      PROVE  IF g \in Written THEN IsNew(g)' ELSE files'[g] = found'[g]
  BY <1>1, <1>4 DEF WizardInv, NewOrFound, IsNew
<1>5. ASSUME Written' = Written \cup {f}
      PROVE  \A g \in File : IF g \in Written' THEN IsNew(g)' ELSE files'[g] = found'[g]
  BY <1>3, <1>4, <1>5
<1>6. CASE f = "credentials"
  <2>1. Step' = "create" /\ Target' = "config" /\ setup.aws
    BY <1>6 DEF AfterWrite, Step, Target, WizardInv, StepsInOrder, Aws
  <2>2. Written = {} /\ Written' = {f}
    BY <1>6, <2>1 DEF Written
  <2>3. StepsInOrder'
    BY <1>1, <2>1 DEF StepsInOrder, Local, Aws
  <2>4. NewOrFound'
    BY <2>1, <2>2, <1>5 DEF NewOrFound
  <2>5. LocalFilesLast'
    BY <1>1, <1>5, <2>2, <1>6 DEF LocalFilesLast, File, Local, Aws
  <2> QED
    BY <1>1, <2>1, <2>3, <2>4, <2>5, WritingStages
<1>7. CASE f = "config"
  <2>1. Written = {"credentials"} /\ setup.aws
    BY <1>7 DEF Written, WizardInv, StepsInOrder, Aws
  <2>2. \/ Step' = "validate" /\ Target' = "none"
        \/ Step' = "truncate" /\ Target' = "config.yaml" /\ ~setup.live
    BY <1>7 DEF AfterWrite, Step, Target, At, None
  <2>3. Written' = Written \cup {f}
    BY <1>7, <2>1, <2>2 DEF Written, AwsWritten, Aws
  <2>4. StepsInOrder'
    BY <1>1, <2>1, <2>2 DEF StepsInOrder, Local, Aws
  <2>5. NewOrFound'
    BY <2>2, <2>3, <1>5 DEF NewOrFound
  <2>6. LocalFilesLast'
    BY <1>1, <1>5, <2>1, <2>3, <1>7 DEF LocalFilesLast, File, Local, Aws
  <2> QED
    BY <1>1, <2>2, <2>4, <2>5, <2>6, WritingStages
<1>8. CASE f = ".env"
  <2>1. Step' = "done" /\ Target' = "none"
    BY <1>8 DEF AfterWrite, Step, Target, At, None
  <2>2. Written = AwsWritten \cup {"config.yaml"} /\ Written' = AwsWritten \cup Local
    BY <1>8, <2>1 DEF Written, AwsWritten
  <2>3. Written' = Written \cup {f}
    BY <1>8, <2>2 DEF Local
  <2>4. setup.aws /\ setup.live => validated
    BY <1>8 DEF WizardInv, StepsInOrder, Local
  <2>5. StepsInOrder'
    BY <1>1, <2>1, <2>4 DEF StepsInOrder, Local, Aws
  <2>6. NewOrFound'
    BY <2>1, <2>3, <1>5 DEF NewOrFound
  <2>7. setup.aws => \A g \in Aws : IsNew(g)'
    BY <1>5, <2>2, <2>3 DEF AwsWritten, File
  <2>8. LocalFilesLast'
    BY <1>1, <2>4, <2>7 DEF LocalFilesLast
  <2> QED
    BY <1>1, <2>1, <2>5, <2>6, <2>8, WritingStages
<1> QED
  BY <1>6, <1>7, <1>8 DEF Secret, Aws

LEMMA ReplaceKeeps ==
  ASSUME WizardInv, NEW f \in File, Replace(f)
  PROVE  StagesOK' /\ SecretsWhole' /\ LocalFilesLast'
<1>1. pc = <<"replace", f>> /\ pc \in PC
  BY DEF Replace, WizardInv, WizardTypeOK
<1>2. Step = "replace" /\ Target = f /\ f \in Secret
  BY <1>1 DEF Step, Target, PC, Ended
<1>3. ~restoring /\ backup = found /\ f \notin Written
  BY <1>2 DEF WizardInv, StepsInOrder, SnapshotIsFound, Written, AwsWritten, Secret, Aws
<1>4. files[f] = found[f]
  BY <1>2, <1>3 DEF WizardInv, NewOrFound
<1>5. /\ UNCHANGED <<found, backup, setup, validated>>
      /\ \A g \in File \ {f} : files'[g] = files[g]
      /\ files'[f] = NewText(f) \/ UNCHANGED files
  BY DEF Replace, Hold, inputs, WizardInv, WizardTypeOK
<1>6. restoring => restoring'
  BY <1>3
<1>7. SecretsWhole'
  <2>1. CASE files'[f] = NewText(f)
    BY <1>2, <1>4, <1>5, <1>6, <2>1, SecretWritten DEF WizardInv
  <2>2. CASE UNCHANGED files
    BY <1>5, <1>6, <2>2 DEF WizardInv, SecretsWhole
  <2> QED
    BY <1>5, <2>1, <2>2
<1>8. CASE Rescue(f)
  <2>1. StagesOK'
    BY <1>2, <1>3, <1>5, <1>8, FailedWriteKeepsStages
  <2>2. f \in Local /\ setup.aws /\ setup.live => validated
    BY <1>2 DEF WizardInv, StepsInOrder
  <2> QED
    BY <1>5, <1>7, <1>8, <2>1, <2>2, RestoringLocals DEF WizardInv, Rescue
<1>9. CASE files'[f] = NewText(f) /\ pc' = AfterWrite(f) /\ UNCHANGED restoring
  BY <1>2, <1>5, <1>7, <1>9, ReplacedKeeps
<1> QED
  BY <1>8, <1>9 DEF Replace, Hold, Goto, WizardInv, WizardTypeOK

-----------------------------------------------------------------------------
(* The steps that restore *)

(* What StagesOK says of a run that restores. *)
LEMMA RestoringStages ==
  ASSUME backup' = found', restoring', Step' \in {"fill", "restore", "failed"},
         Target' \in Aws => setup'.aws,
         (setup'.aws /\ setup'.live /\ Target' \in Local) => validated',
         RestoredIsFound'
  PROVE  StagesOK'
BY DEF StagesOK, Untouched, SnapshotIsFound, StepsInOrder, NewOrFound

(* A file is as others left it again. *)
LEMMA RestoredKeeps ==
  ASSUME WizardInv, NEW f \in File, restoring, Step \in {"restore", "fill"}, Target = f,
         UNCHANGED <<found, backup, setup, validated, restoring>>, pc' = AfterRestore(f),
         files'[f] = found[f], \A g \in File \ {f} : files'[g] = files[g]
  PROVE  StagesOK'
<1>1. /\ backup = found /\ (f \in Aws => setup.aws)
      /\ (setup.aws /\ setup.live /\ f \in Local) => validated
  BY DEF WizardInv, SnapshotIsFound, StepsInOrder
<1>2. \A g \in File : g \notin Unrestored \/ g = f => files'[g] = found'[g]
  BY DEF WizardInv, RestoredIsFound
<1>3. ASSUME Step' \in {"restore", "failed"}, Unrestored \subseteq Unrestored' \cup {f}
      PROVE  RestoredIsFound'
  BY <1>2, <1>3 DEF RestoredIsFound
<1>4. CASE f = "config.yaml"
  <2>1. Step' = "restore" /\ Target' = ".env"
    BY <1>4 DEF AfterRestore, Step, Target
  <2>2. Unrestored \subseteq Unrestored' \cup {f}
    BY <1>4, <2>1 DEF Unrestored, AwsWritten, Local
  <2> QED
    BY <1>1, <1>3, <1>4, <2>1, <2>2, RestoringStages DEF Local, Aws
<1>5. CASE f = ".env" /\ setup.aws
  <2>1. Step' = "restore" /\ Target' = "credentials"
    BY <1>5 DEF AfterRestore, Step, Target
  <2>2. Unrestored \subseteq Unrestored' \cup {f}
    BY <1>5, <2>1 DEF Unrestored, AwsWritten
  <2> QED
    BY <1>1, <1>3, <1>5, <2>1, <2>2, RestoringStages DEF Local, Aws
<1>6. CASE f = ".env" /\ ~setup.aws
  <2>1. Step' = "failed" /\ Target' = "none"
    BY <1>6 DEF AfterRestore, Step, Target, At, None
  <2>2. Unrestored \subseteq {f}
    BY <1>6 DEF Unrestored, AwsWritten
  <2> QED
    BY <1>1, <1>3, <2>1, <2>2, RestoringStages DEF Local, Aws
<1>7. CASE f = "credentials"
  <2>1. Step' = "restore" /\ Target' = "config"
    BY <1>7 DEF AfterRestore, Step, Target
  <2>2. Unrestored \subseteq Unrestored' \cup {f}
    BY <1>7, <2>1 DEF Unrestored, Aws
  <2> QED
    BY <1>1, <1>3, <1>7, <2>1, <2>2, RestoringStages DEF Local, Aws
<1>8. CASE f = "config"
  <2>1. Step' = "failed" /\ Target' = "none"
    BY <1>8 DEF AfterRestore, Step, Target, At, None
  <2>2. Unrestored \subseteq {f}
    BY <1>8 DEF Unrestored
  <2> QED
    BY <1>1, <1>3, <2>1, <2>2, RestoringStages DEF Local, Aws
<1> QED
  BY <1>4, <1>5, <1>6, <1>7, <1>8 DEF File, Local, Aws

LEMMA RestoreKeeps ==
  ASSUME WizardInv, NEW f \in File, Restore(f)
  PROVE  StagesOK' /\ SecretsWhole' /\ LocalFilesLast'
<1>1. Step = "restore" /\ Target = f
  BY DEF Restore, Step, Target
<1>2. /\ restoring /\ backup = found /\ (f \in Aws => setup.aws)
      /\ (f \in Local /\ setup.aws /\ setup.live) => validated
  BY <1>1 DEF WizardInv, StepsInOrder, SnapshotIsFound
<1>3. UNCHANGED <<found, backup, setup, validated, restoring>>
  BY DEF Restore, inputs
<1>4. CASE pc' = At("raised") /\ UNCHANGED files
  BY <1>3, <1>4, EndsAnywhere
<1>5. ASSUME files'[f] \in {Absent, Torn, found[f]}, \A g \in File \ {f} : files'[g] = files[g]
      PROVE  SecretsWhole' /\ LocalFilesLast'
  <2>1. SecretsWhole'
    BY <1>2, <1>3, <1>5, SecretWritten DEF WizardInv
  <2>2. LocalFilesLast'
    BY <1>2, <1>3, <1>5, RestoringLocals DEF WizardInv
  <2> QED
    BY <2>1, <2>2
<1>6. CASE backup[f].kind = "absent" /\ Hold(f, Absent) /\ pc' = AfterRestore(f)
  <2>1. found[f] = Absent
    BY <1>2, <1>6, TextKinds DEF WizardInv, WizardTypeOK
  <2>2. files'[f] = found[f] /\ \A g \in File \ {f} : files'[g] = files[g]
    BY <1>6, <2>1 DEF Hold, WizardInv, WizardTypeOK
  <2> QED
    BY <1>1, <1>2, <1>3, <1>5, <1>6, <2>2, RestoredKeeps
<1>7. CASE Hold(f, Torn) /\ pc' = <<"fill", f>>
  <2>1. Step' = "fill" /\ Target' = f
    BY <1>7 DEF Step, Target
  <2>2. files'[f] = Torn /\ \A g \in File \ {f} : files'[g] = files[g]
    BY <1>7 DEF Hold, WizardInv, WizardTypeOK
  <2>3. Unrestored' = Unrestored /\ f \in Unrestored
    BY <1>1, <1>2, <1>3, <2>1 DEF Unrestored, AwsWritten, File, Local, Aws
  <2>4. RestoredIsFound'
    BY <1>1, <1>2, <1>3, <2>1, <2>2, <2>3 DEF WizardInv, RestoredIsFound
  <2>5. StagesOK'
    BY <1>2, <1>3, <2>1, <2>4, RestoringStages
  <2> QED
    BY <1>5, <2>2, <2>5
<1> QED
  BY <1>4, <1>6, <1>7 DEF Restore, Goto

LEMMA RefillKeeps ==
  ASSUME WizardInv, NEW f \in File, Refill(f)
  PROVE  StagesOK' /\ SecretsWhole' /\ LocalFilesLast'
<1>1. Step = "fill" /\ Target = f /\ restoring
  BY DEF Refill, Step, Target
<1>2. /\ backup = found
      /\ (f \in Local /\ setup.aws /\ setup.live) => validated
  BY <1>1 DEF WizardInv, StepsInOrder, SnapshotIsFound
<1>3. UNCHANGED <<found, backup, setup, validated, restoring>>
  BY DEF Refill, inputs
<1>4. CASE pc' = At("raised") /\ UNCHANGED files
  BY <1>3, <1>4, EndsAnywhere
<1>5. CASE Hold(f, backup[f]) /\ pc' = AfterRestore(f)
  <2>1. files'[f] = found[f] /\ \A g \in File \ {f} : files'[g] = files[g]
    BY <1>2, <1>5 DEF Hold, WizardInv, WizardTypeOK
  <2>2. StagesOK'
    BY <1>1, <1>3, <1>5, <2>1, RestoredKeeps
  <2>3. SecretsWhole'
    BY <1>1, <1>3, <2>1, SecretWritten DEF WizardInv
  <2>4. LocalFilesLast'
    BY <1>1, <1>2, <1>3, <2>1, RestoringLocals DEF WizardInv
  <2> QED
    BY <2>2, <2>3, <2>4
<1> QED
  BY <1>4, <1>5 DEF Refill, Goto

-----------------------------------------------------------------------------
(* The theorems *)

LEMMA InvAtFirst == Init => WizardInv
<1> SUFFICES ASSUME Init PROVE WizardInv
  OBVIOUS
<1>1. Step = "start" /\ Target = "none" /\ files = found /\ ~restoring
  BY DEF Init, Step, Target, At, None
<1>2. SecretsWhole /\ LocalFilesLast
  BY <1>1 DEF SecretsWhole, LocalFilesLast, File
<1> QED
  BY <1>1, <1>2, TypesAtFirst
  DEF WizardInv, Untouched, SnapshotIsFound, StepsInOrder, NewOrFound, RestoredIsFound, Local, Aws

LEMMA InvPreserved == WizardInv /\ [Next]_vars => WizardInv'
<1> SUFFICES ASSUME WizardInv, [Next]_vars PROVE StagesOK' /\ SecretsWhole' /\ LocalFilesLast'
  BY TypesPreserved DEF WizardInv, StagesOK
<1>1. CASE CheckExisting \/ Answer \/ Snapshot
  BY <1>1, BeginningKeeps
<1>2. CASE CheckLinks
  BY <1>2, CheckLinksKeeps
<1>3. CASE ValidateAws
  BY <1>3, ValidateKeeps
<1>4. CASE Truncate
  BY <1>4, TruncateKeeps
<1>5. CASE Fill
  BY <1>5, FillKeeps
<1>6. CASE Interrupt
  BY <1>6, EndsAnywhere DEF Interrupt, Goto, inputs
<1>7. CASE Kill
  BY <1>7, EndsAnywhere DEF Kill, Goto, inputs
<1>8. ASSUME NEW f \in File, Edit(f) PROVE StagesOK' /\ SecretsWhole' /\ LocalFilesLast'
  BY <1>8, EditKeeps
<1>9. ASSUME NEW f \in File, CreateTmp(f) PROVE StagesOK' /\ SecretsWhole' /\ LocalFilesLast'
  BY <1>9, CreateTmpKeeps
<1>10. ASSUME NEW f \in File, Replace(f) PROVE StagesOK' /\ SecretsWhole' /\ LocalFilesLast'
  BY <1>10, ReplaceKeeps
<1>11. ASSUME NEW f \in File, Restore(f) PROVE StagesOK' /\ SecretsWhole' /\ LocalFilesLast'
  BY <1>11, RestoreKeeps
<1>12. ASSUME NEW f \in File, Refill(f) PROVE StagesOK' /\ SecretsWhole' /\ LocalFilesLast'
  BY <1>12, RefillKeeps
<1>13. CASE UNCHANGED vars
  <2>1. UNCHANGED <<files, found, backup, setup, validated, restoring, Step, Target>>
    BY <1>13 DEF vars, Step, Target
  <2>2. Written' = Written /\ Unrestored' = Unrestored
    BY <2>1 DEF Written, Unrestored, AwsWritten
  <2> QED
    BY <2>1, <2>2, FilesAlone
    DEF WizardInv, StagesOK, Untouched, SnapshotIsFound, StepsInOrder, NewOrFound, RestoredIsFound
<1> QED
  BY <1>1, <1>2, <1>3, <1>4, <1>5, <1>6, <1>7, <1>8, <1>9, <1>10, <1>11, <1>12, <1>13 DEF Next

(* The files are where the step at hand says they are. *)
THEOREM WizardInvariant == Spec => []WizardInv
BY InvAtFirst, InvPreserved, PTL DEF Spec

(* A run that returns has written all its files or left all four as others    *)
(* left them, whichever write, validation or restore of run_setup_wizard went *)
(* wrong on the way.                                                          *)
THEOREM WritesAllOrNothing == Spec => []AllOrNothing
<1>1. ASSUME WizardInv PROVE AllOrNothing
  <2>1. CASE Step = "refused"
    BY <1>1, <2>1 DEF WizardInv, Untouched, AllOrNothing, Step
  <2>2. CASE Step = "failed"
    <3>1. \A f \in File : files[f] = found[f]
      BY <1>1, <2>2 DEF WizardInv, StepsInOrder, RestoredIsFound, Unrestored
    <3> QED
      BY <1>1, <2>2, <3>1 DEF WizardInv, WizardTypeOK, AllOrNothing, Step
  <2>3. CASE Step = "done"
    <3>1. Written = AwsWritten \cup Local
      BY <2>3 DEF Written
    <3>2. \A f \in File : IF f \in Local \/ setup.aws THEN IsNew(f) ELSE files[f] = found[f]
      BY <1>1, <2>3, <3>1 DEF WizardInv, StepsInOrder, NewOrFound, AwsWritten, File
    <3> QED
      BY <2>3, <3>2 DEF AllOrNothing, Step
  <2> QED
    BY <2>1, <2>2, <2>3 DEF AllOrNothing, Step
<1> QED
  BY <1>1, WizardInvariant, PTL

(* No failure, Ctrl-C or kill cuts a file with secrets short, or takes the   *)
(* section of another profile from an AWS file, before anything is restored  *)
(* (_write_secret_file, _write_aws_credentials).                             *)
THEOREM SecretsStayWhole == Spec => []SecretsWhole
BY WizardInvariant, PTL DEF WizardInv

(* The local files are written after the AWS files they refer to, which were *)
(* validated if they were to be.                                             *)
THEOREM LocalsAfterAws == Spec => []LocalFilesLast
BY WizardInvariant, PTL DEF WizardInv

-----------------------------------------------------------------------------
(* What a file and an environment make of a field.                           *)

FileOK(c) ==
  /\ c.state_dir \in Field
  /\ c.default_project \in Field \cup {Default}
  /\ c.projects \in Seq(Entry) /\ c.projects # <<>>

EnvOK(e) == e \in [Name -> Value \cup {Unset, Empty}]

LEMMA EntryFields ==
  ASSUME NEW x \in Entry
  PROVE  /\ x.slug \in Field /\ x.name \in Field \cup {Default}
         /\ x.queue_url_env \in Name /\ x.bot_token_env \in Name
         /\ x.max_messages \in Field
         /\ x.chat_id \in Field \cup {Default} /\ x.chat_id_env \in Name \cup {Default}
         /\ x.incident_assignee \in Field /\ x.default_priority \in Field
         /\ Expanded(x) \subseteq Field /\ Numbers(x) \subseteq Field
         /\ Numbers(x) \subseteq Expanded(x)
BY DEF Entry, Expanded, Numbers, Field

LEMMA FileEntries ==
  ASSUME NEW c, FileOK(c)
  PROVE  /\ Len(c.projects) \in Nat \ {0}
         /\ DOMAIN c.projects = 1..Len(c.projects)
         /\ \A n \in DOMAIN c.projects : c.projects[n] \in Entry
BY LenProperties, ElementOfSeq, EmptySeq DEF FileOK

(* What is given as a text, or as the name of a variable that is set.         *)
Given(e, f) == f \in Value \/ IsSet(e, f)

(* A field is a text, or the name of a variable that is set, or it stays.     *)
LEMMA Expansion ==
  ASSUME NEW e, NEW f \in Field
  PROVE  /\ f \in Value => Expand(e, f) = f /\ f \notin Name
         /\ f \in Name /\ IsSet(e, f) => Expand(e, f) = e[f] /\ Get(e, f) = e[f]
         /\ f \in Name /\ ~IsSet(e, f) => Expand(e, f) = f /\ Get(e, f) = Empty
         /\ f \in Name => f \notin Value
         /\ Resolved(e, f) <=> Given(e, f)
         /\ f \in Name /\ Given(e, f) => Get(e, f) = Expand(e, f)
         /\ Given(e, f) => Expand(e, f) \in Value
         /\ Expand(e, f) \in Field /\ Expand(e, f) # Default /\ Expand(e, f) # Empty
<1>1. /\ f \in Name => f \notin Value
      /\ f \in Value => f \notin Name
      /\ f \in Name \/ f \in Value
  BY FieldsAssumption DEF Field
<1>2. Default \notin Field /\ Empty \notin Field
  BY FieldsAssumption DEF Field
<1>3. CASE f \in Value
  BY <1>1, <1>2, <1>3 DEF Expand, Get, Resolved, Given
<1>4. CASE f \in Name /\ IsSet(e, f)
  <2>1. Expand(e, f) = e[f] /\ Get(e, f) = e[f] /\ e[f] \in Value
    BY <1>1, <1>4 DEF Expand, Get, IsSet
  <2> QED
    BY <1>1, <1>2, <1>4, <2>1 DEF Resolved, Given, Field
<1>5. CASE f \in Name /\ ~IsSet(e, f)
  <2>1. Expand(e, f) = f /\ Get(e, f) = Empty
    BY <1>1, <1>5 DEF Expand, Get
  <2> QED
    BY <1>1, <1>2, <1>5, <2>1 DEF Resolved, Given, Field
<1> QED
  BY <1>1, <1>3, <1>4, <1>5

(* A field has the same expansion if its variable has the same value.         *)
LEMMA SameVariable ==
  ASSUME NEW e, NEW g, NEW f \in Field, f \in Name => g[f] = e[f]
  PROVE  /\ Expand(g, f) = Expand(e, f)
         /\ f \in Name => Get(g, f) = Get(e, f)
         /\ Resolved(g, f) <=> Resolved(e, f)
         /\ Given(g, f) <=> Given(e, f)
<1>1. CASE f \in Name
  BY <1>1 DEF Expand, Get, Resolved, Given, IsSet
<1>2. CASE f \notin Name
  <2>1. f \in Value
    BY <1>2 DEF Field
  <2> QED
    BY <1>2, <2>1 DEF Expand, Get, Resolved, Given
<1> QED
  BY <1>1, <1>2

-----------------------------------------------------------------------------
(* load_config. *)

SlugsDiffer(c, e) ==
  \A m, n \in DOMAIN c.projects : Slug(e, c.projects[m]) = Slug(e, c.projects[n]) => m = n

(* Entry n is what load_config selects, and nothing is wrong with the file.   *)
Selects(c, e, slug, lenient, n) ==
  /\ Slug(e, c.projects[n]) = SelectedSlug(c, e, slug, lenient)
  /\ slug = Default => SelectedSlug(c, e, slug, lenient) \in Value
  /\ Resolved(e, c.state_dir)
  /\ SlugsDiffer(c, e)
  /\ \A m \in DOMAIN c.projects : Parses(e, c.projects[m], m = n)

ResultOf(c, e, n) ==
  [ok |-> TRUE, state_dir |-> Expand(e, c.state_dir),
   project |-> Project(e, c.projects[n]),
   slugs |-> {Slug(e, c.projects[m]) : m \in DOMAIN c.projects}]

(* Counting the slugs tells whether two projects have the same.               *)
LEMMA CountingSlugs ==
  ASSUME NEW c, FileOK(c), NEW e
  PROVE  Cardinality({Slug(e, c.projects[n]) : n \in DOMAIN c.projects}) = Len(c.projects)
           <=> SlugsDiffer(c, e)
<1> DEFINE D == 1..Len(c.projects)
           T == {Slug(e, c.projects[n]) : n \in DOMAIN c.projects}
           f == [n \in D |-> Slug(e, c.projects[n])]
<1>1. DOMAIN c.projects = D /\ Len(c.projects) \in Nat \ {0}
  BY FileEntries
<1>2. IsFiniteSet(D) /\ Cardinality(D) = Len(c.projects)
  BY <1>1, FS_Interval
<1>3. f \in Surjection(D, T)
  BY <1>1 DEF Surjection
<1>4. Cardinality(T) = Cardinality(D) <=> f \in Injection(D, T)
  <2> HIDE DEF D, T, f
  <2> QED
    BY <1>2, <1>3, FS_Surjection
<1>5. f \in Injection(D, T) <=> SlugsDiffer(c, e)
  BY <1>1, <1>3 DEF Injection, IsInjective, Surjection, SlugsDiffer
<1> QED
  BY <1>2, <1>4, <1>5

LEMMA Loading ==
  ASSUME NEW c, FileOK(c), NEW e, NEW slug, NEW lenient \in BOOLEAN
  PROVE  /\ load_config(c, e, slug, lenient).ok
              => \E n \in DOMAIN c.projects : Selects(c, e, slug, lenient, n)
         /\ \A n \in DOMAIN c.projects : Selects(c, e, slug, lenient, n)
              => load_config(c, e, slug, lenient) = ResultOf(c, e, n)
<1> DEFINE selected == SelectedSlug(c, e, slug, lenient)
           matching == {n \in DOMAIN c.projects : Slug(e, c.projects[n]) = selected}
           slugs == {Slug(e, c.projects[n]) : n \in DOMAIN c.projects}
           fine == /\ Resolved(e, c.state_dir)
                   /\ slug = Default => selected \in Value
                   /\ \A n \in DOMAIN c.projects : Parses(e, c.projects[n], n \in matching)
                   /\ Cardinality(slugs) = Len(c.projects)
                   /\ matching # {}
           one == CHOOSE n \in matching : TRUE
<1>1. load_config(c, e, slug, lenient) =
        IF fine THEN [ok |-> TRUE, state_dir |-> Expand(e, c.state_dir),
                      project |-> Project(e, c.projects[one]), slugs |-> slugs]
                ELSE Failed
  BY Zenon DEF load_config
<1> DEFINE loaded == load_config(c, e, slug, lenient)
<1> HIDE DEF loaded
<1>2. ~Failed.ok
  BY DEF Failed
<1>3. Cardinality(slugs) = Len(c.projects) <=> SlugsDiffer(c, e)
  BY CountingSlugs
<1>4. ASSUME fine
      PROVE  \E n \in DOMAIN c.projects : Selects(c, e, slug, lenient, n)
  <2>1. one \in matching
    BY <1>4
  <2>2. SlugsDiffer(c, e)
    BY <1>3, <1>4
  <2>3. \A m \in DOMAIN c.projects : (m \in matching) = (m = one)
    <3> TAKE m \in DOMAIN c.projects
    <3> HIDE DEF one
    <3>1. m \in matching => m = one
      BY <2>1, <2>2 DEF SlugsDiffer
    <3>2. m = one => m \in matching
      BY <2>1
    <3> HIDE DEF matching
    <3> QED
      BY <3>1, <3>2
  <2>4. \A m \in DOMAIN c.projects : Parses(e, c.projects[m], m = one)
    <3> TAKE m \in DOMAIN c.projects
    <3>1. Parses(e, c.projects[m], m \in matching)
      BY <1>4
    <3>2. (m \in matching) = (m = one)
      BY <2>3
    <3> HIDE DEF matching, one
    <3> QED
      BY <3>1, <3>2
  <2>5. Selects(c, e, slug, lenient, one)
    BY <1>4, <2>1, <2>2, <2>4 DEF Selects
  <2> QED
    BY <2>1, <2>5
<1>5. ASSUME NEW n \in DOMAIN c.projects, Selects(c, e, slug, lenient, n)
      PROVE  fine /\ one = n
  <2>1. \A m \in DOMAIN c.projects : (m \in matching) = (m = n)
    BY <1>5 DEF Selects, SlugsDiffer
  <2>2. matching = {n}
    BY <2>1
  <2>3. one = n
    BY <2>2
  <2>4. \A m \in DOMAIN c.projects : Parses(e, c.projects[m], m \in matching)
    <3> TAKE m \in DOMAIN c.projects
    <3>1. Parses(e, c.projects[m], m = n)
      BY <1>5 DEF Selects
    <3>2. (m \in matching) = (m = n)
      BY <2>1
    <3> HIDE DEF matching
    <3> QED
      BY <3>1, <3>2
  <2> QED
    BY <1>3, <1>5, <2>2, <2>3, <2>4 DEF Selects
<1>6. loaded.ok => fine
  <2> HIDE DEF fine
  <2> QED
    BY <1>1, <1>2 DEF loaded
<1>7. ASSUME NEW n \in DOMAIN c.projects, Selects(c, e, slug, lenient, n)
      PROVE  loaded = ResultOf(c, e, n)
  <2>1. fine /\ one = n
    BY <1>5, <1>7
  <2> HIDE DEF fine, one
  <2> QED
    BY <1>1, <2>1 DEF loaded, ResultOf
<1> HIDE DEF fine
<1> QED
  BY <1>4, <1>6, <1>7 DEF loaded

-----------------------------------------------------------------------------
(* The questions of the wizard. *)

Variables == Name \ Reserved

(* A project, or what is known of it: each variable that was named is set.    *)
AnswersOf(slugs, chats, numbers) ==
  [slug : slugs, name : Seq(Variables), given : Seq(Value), chat : chats, priority : numbers]

Complete == AnswersOf(GoodSlug, Chat, Number)

Partial == AnswersOf(GoodSlug \cup {Empty}, Chat \cup {Empty}, {Empty})

DraftOK ==
  /\ draft \in Partial
  /\ Len(draft.name) = Len(draft.given) /\ Len(draft.name) <= Len(Settings)
  /\ question \notin {"setting", "chat", "priority"} => draft = Nothing
  /\ question = "setting" => Len(draft.name) < Len(Settings)
  /\ question \in {"chat", "priority"} => Len(draft.name) = Len(Settings)
  /\ question \in {"setting", "chat", "priority"} =>
       draft.slug \in GoodSlug /\ draft.slug \notin {p.slug : p \in Projects}
  /\ question = "priority" => draft.chat \in Chat

ProjectsOK ==
  /\ projects \in Seq(Complete)
  /\ \A p \in Projects : Len(p.name) = Len(Settings) /\ Len(p.given) = Len(Settings)
  /\ \A m, n \in DOMAIN projects : projects[m].slug = projects[n].slug => m = n
  /\ question \in {"aws", "written", "refused"} => projects # <<>>

QuestionOK ==
  /\ question \in {"slug", "setting", "chat", "priority", "aws", "written", "refused"}
  /\ question \in {"slug", "setting", "chat", "priority"} => Len(projects) < ProjectCount

EnvOfWizard ==
  /\ env_values \in [Name -> Value \cup {Unset}]
  /\ env_values[StateDir] \in Value

DialogueInv == EnvOfWizard /\ QuestionOK /\ DraftOK /\ ProjectsOK /\ EachItsOwn

LEMMA SettingsAre == Len(Settings) = 5 /\ DOMAIN Settings = 1..5 /\ Settings[5] = "bot_token"
                     /\ \A k \in 1..4 : Settings[k] # "bot_token"
BY DEF Settings

LEMMA DialogueInit == AnswersInit => DialogueInv
<1> SUFFICES ASSUME AnswersInit PROVE DialogueInv
  OBVIOUS
<1> USE DEF AnswersInit
<1>1. /\ <<>> \in Seq(Variables) /\ <<>> \in Seq(Value) /\ <<>> \in Seq(Complete)
      /\ Len(<<>>) = 0 /\ DOMAIN <<>> = {}
  BY EmptySeq
<1>2. EnvOfWizard
  BY AnswersAssumption, TextsAssumption DEF EnvOfWizard
<1>3. QuestionOK
  BY <1>1, AnswersAssumption DEF QuestionOK
<1>4. DraftOK
  BY <1>1, SettingsAre DEF DraftOK, Nothing, Partial, AnswersOf
<1>5. ProjectsOK
  BY <1>1 DEF ProjectsOK, Projects
<1>6. EachItsOwn
  BY <1>1 DEF EachItsOwn, Projects, Nothing
<1> QED
  BY <1>2, <1>3, <1>4, <1>5, <1>6 DEF DialogueInv

(* What was named is set to a text, and is none of the names AWS may need.    *)
LEMMA NamedAreSet ==
  ASSUME DialogueInv, NEW p \in Projects \cup {draft}, NEW k \in DOMAIN p.name
  PROVE  /\ p.name[k] \in Variables /\ p.name[k] \in Name /\ p.name[k] \notin Reserved
         /\ p.given[k] \in Value /\ env_values[p.name[k]] = p.given[k]
         /\ IsSet(env_values, p.name[k])
<1>1. /\ p.name \in Seq(Variables) /\ p.given \in Seq(Value)
      /\ Len(p.name) = Len(p.given)
  <2>1. CASE p = draft
    BY <2>1 DEF DialogueInv, DraftOK, Partial, AnswersOf
  <2>2. CASE p \in Projects
    <3>1. p \in Complete
      BY <2>2, ElementOfSeq, LenProperties DEF DialogueInv, ProjectsOK, Projects
    <3> QED
      BY <2>2, <3>1 DEF DialogueInv, ProjectsOK, Complete, AnswersOf
  <2> QED
    BY <2>1, <2>2
<1>2. p.name[k] \in Variables /\ p.given[k] \in Value
  BY <1>1, ElementOfSeq, LenProperties
<1>3. env_values[p.name[k]] = p.given[k]
  BY DEF DialogueInv, EachItsOwn
<1> QED
  BY <1>2, <1>3 DEF Variables, IsSet

LEMMA KeepsSlug ==
  ASSUME DialogueInv, AskSlug
  PROVE  DialogueInv'
<1>1. PICK s \in GoodSlug \cup BadSlug :
        IsSlug(s) /\ s \notin {p.slug : p \in Projects} /\ draft' = [draft EXCEPT !.slug = s]
  BY DEF AskSlug
<1>2. /\ question = "slug" /\ question' = "setting" /\ env_values' = env_values
      /\ projects' = projects /\ Projects' = Projects
  BY DEF AskSlug, Projects
<1>3. draft \in Partial /\ draft = Nothing
  BY <1>2 DEF DialogueInv, DraftOK
<1>4. /\ draft' \in Partial /\ draft'.slug = s /\ s \in GoodSlug
      /\ draft'.name = draft.name /\ draft'.given = draft.given
  BY <1>1, <1>3 DEF Partial, AnswersOf, IsSlug
<1>5. Len(draft.name) = 0 /\ Len(draft.given) = 0
  BY <1>3, EmptySeq DEF Nothing
<1>6. DraftOK'
  BY <1>1, <1>2, <1>4, <1>5, SettingsAre DEF DraftOK
<1>7. EachItsOwn'
  BY <1>2, <1>4 DEF DialogueInv, EachItsOwn
<1> QED
  BY <1>2, <1>6, <1>7 DEF DialogueInv, EnvOfWizard, QuestionOK, ProjectsOK

LEMMA KeepsSetting ==
  ASSUME DialogueInv, AskSetting
  PROVE  DialogueInv'
<1> DEFINE setting == Settings[Len(draft.name) + 1]
<1>1. PICK v \in {DefaultName(draft.slug, setting)} \cup OtherName,
           text \in IF setting = "bot_token" THEN Token ELSE {TextFor(draft.slug, setting)} :
        /\ MayName(v)
        /\ env_values' = [env_values EXCEPT ![v] = text]
        /\ draft' = [draft EXCEPT !.name = Append(@, v), !.given = Append(@, text)]
        /\ question' = IF setting = "bot_token" THEN "chat" ELSE "setting"
  BY DEF AskSetting
<1>2. /\ question = "setting" /\ projects' = projects /\ Projects' = Projects
  BY DEF AskSetting, Projects
<1>3. /\ draft \in Partial /\ draft.slug \in GoodSlug
      /\ draft.slug \notin {p.slug : p \in Projects}
      /\ Len(draft.name) = Len(draft.given) /\ Len(draft.name) < 5
      /\ draft.name \in Seq(Variables) /\ draft.given \in Seq(Value)
      /\ Len(draft.name) \in Nat
  BY <1>2, SettingsAre, LenProperties DEF DialogueInv, DraftOK, Partial, AnswersOf
<1>4. Len(draft.name) + 1 \in DOMAIN Settings
  BY <1>3, SettingsAre
<1>5. v \in Variables /\ v \in Name /\ text \in Value
  BY <1>1, <1>3, <1>4, AnswersAssumption, TextsAssumption DEF MayName, Variables
<1> HIDE DEF setting
<1>6. /\ draft' \in Partial /\ draft'.slug = draft.slug
      /\ draft'.name = Append(draft.name, v) /\ draft'.given = Append(draft.given, text)
      /\ Len(draft'.name) = Len(draft.name) + 1 /\ Len(draft'.given) = Len(draft.name) + 1
      /\ DOMAIN draft.name = 1..Len(draft.name) /\ DOMAIN draft'.name = 1..Len(draft.name) + 1
      /\ \A k \in 1..Len(draft.name) : draft'.name[k] = draft.name[k] /\ draft'.given[k] = draft.given[k]
      /\ draft'.name[Len(draft.name) + 1] = v /\ draft'.given[Len(draft.name) + 1] = text
  <2> DEFINE names == Append(draft.name, v)
             texts == Append(draft.given, text)
  <2>1. /\ names \in Seq(Variables) /\ Len(names) = Len(draft.name) + 1
        /\ DOMAIN names = 1..Len(draft.name) + 1 /\ DOMAIN draft.name = 1..Len(draft.name)
        /\ \A k \in 1..Len(draft.name) : names[k] = draft.name[k]
        /\ names[Len(draft.name) + 1] = v
    BY <1>3, <1>5, AppendProperties, LenProperties
  <2>2. /\ texts \in Seq(Value) /\ Len(texts) = Len(draft.name) + 1
        /\ \A k \in 1..Len(draft.name) : texts[k] = draft.given[k]
        /\ texts[Len(draft.name) + 1] = text
    BY <1>3, <1>5, AppendProperties
  <2> HIDE DEF names, texts
  <2>3. draft' = [draft EXCEPT !.name = names, !.given = texts]
    BY <1>1 DEF names, texts
  <2>4. /\ draft' \in Partial /\ draft'.slug = draft.slug
        /\ draft'.name = names /\ draft'.given = texts
    BY <1>3, <2>1, <2>2, <2>3 DEF Partial, AnswersOf
  <2> QED
    BY <2>1, <2>2, <2>4 DEF names, texts
<1>7. setting = "bot_token" <=> Len(draft.name) + 1 = 5
  BY <1>3, SettingsAre DEF setting
<1>8. EnvOfWizard'
  BY <1>1, <1>5 DEF DialogueInv, EnvOfWizard, MayName, IsSet
<1>9. QuestionOK'
  BY <1>1, <1>2 DEF DialogueInv, QuestionOK
<1>10. DraftOK'
  BY <1>1, <1>2, <1>3, <1>6, <1>7, SettingsAre DEF DraftOK
<1>11. ProjectsOK'
  BY <1>1, <1>2 DEF DialogueInv, ProjectsOK
<1>12. EachItsOwn'
  <2>1. \A w \in Name : w # v => env_values'[w] = env_values[w]
    BY <1>1, <1>5 DEF DialogueInv, EnvOfWizard
  <2>2. env_values'[v] = text
    BY <1>1, <1>5 DEF DialogueInv, EnvOfWizard
  <2>3. ASSUME NEW p \in Projects \cup {draft}, NEW k \in DOMAIN p.name
        PROVE  env_values'[p.name[k]] = p.given[k]
    <3>1. /\ p.name[k] \in Name /\ IsSet(env_values, p.name[k])
          /\ env_values[p.name[k]] = p.given[k]
      BY NamedAreSet
    <3>2. p.name[k] # v
      BY <1>1, <3>1 DEF MayName
    <3> QED
      BY <2>1, <3>1, <3>2
  <2>4. ASSUME NEW k \in 1..Len(draft.name) + 1
        PROVE  env_values'[draft'.name[k]] = draft'.given[k]
    <3>1. CASE k = Len(draft.name) + 1
      BY <1>6, <2>2, <3>1
    <3>2. CASE k # Len(draft.name) + 1
      <4>1. k \in 1..Len(draft.name)
        BY <1>3, <3>2
      <4> QED
        BY <1>6, <2>3, <4>1
    <3> QED
      BY <3>1, <3>2
  <2> QED
    BY <1>2, <1>6, <2>3, <2>4 DEF EachItsOwn
<1> QED
  BY <1>8, <1>9, <1>10, <1>11, <1>12 DEF DialogueInv

LEMMA KeepsChat ==
  ASSUME DialogueInv, AskChat
  PROVE  DialogueInv'
<1>1. PICK c \in Chat : draft' = [draft EXCEPT !.chat = c]
  BY DEF AskChat
<1>2. /\ question = "chat" /\ question' = "priority" /\ env_values' = env_values
      /\ projects' = projects /\ Projects' = Projects
  BY DEF AskChat, Projects
<1>3. draft \in Partial
  BY DEF DialogueInv, DraftOK
<1>4. /\ draft' \in Partial /\ draft'.slug = draft.slug /\ draft'.chat = c
      /\ draft'.name = draft.name /\ draft'.given = draft.given
  BY <1>1, <1>3 DEF Partial, AnswersOf
<1>5. DraftOK'
  BY <1>2, <1>4 DEF DialogueInv, DraftOK
<1>6. EachItsOwn'
  BY <1>2, <1>4 DEF DialogueInv, EachItsOwn
<1> QED
  BY <1>2, <1>5, <1>6 DEF DialogueInv, EnvOfWizard, QuestionOK, ProjectsOK

LEMMA KeepsPriority ==
  ASSUME DialogueInv, AskPriority
  PROVE  DialogueInv'
<1>1. PICK text \in Reply :
        IsNumber(text) /\ projects' = Append(projects, [draft EXCEPT !.priority = text])
  BY DEF AskPriority
<1> DEFINE p == [draft EXCEPT !.priority = text]
<1>2. /\ question = "priority" /\ draft' = Nothing /\ env_values' = env_values
      /\ question' = IF Len(projects) + 1 < ProjectCount THEN "slug" ELSE "aws"
  BY DEF AskPriority
<1>3. /\ draft \in Partial /\ draft.slug \in GoodSlug /\ draft.chat \in Chat
      /\ draft.slug \notin {q.slug : q \in Projects}
      /\ Len(draft.name) = 5 /\ Len(draft.given) = 5
  BY <1>2, SettingsAre DEF DialogueInv, DraftOK
<1>4. /\ p \in Complete /\ p.slug = draft.slug
      /\ p.name = draft.name /\ p.given = draft.given
  BY <1>1, <1>3 DEF Partial, Complete, AnswersOf, IsNumber
<1> HIDE DEF p
<1>5. /\ Len(projects) \in Nat /\ DOMAIN projects = 1..Len(projects)
      /\ projects' \in Seq(Complete) /\ projects' # <<>>
      /\ Len(projects') = Len(projects) + 1 /\ DOMAIN projects' = 1..Len(projects) + 1
      /\ \A n \in 1..Len(projects) : projects'[n] = projects[n]
      /\ projects'[Len(projects) + 1] = p
  <2>1. projects \in Seq(Complete) /\ projects' = Append(projects, p)
    BY <1>1 DEF DialogueInv, ProjectsOK, p
  <2> QED
    BY <1>4, <2>1, AppendProperties, LenProperties
<1>6. Projects' = Projects \cup {p}
  <2>1. \A n \in 1..Len(projects) + 1 : n \in 1..Len(projects) \/ n = Len(projects) + 1
    BY <1>5
  <2>2. \A n \in 1..Len(projects) : n \in 1..Len(projects) + 1
    BY <1>5
  <2>3. Len(projects) + 1 \in 1..Len(projects) + 1
    BY <1>5
  <2>4. ASSUME NEW q \in Projects' PROVE q \in Projects \cup {p}
    BY <1>5, <2>1, <2>4 DEF Projects
  <2>5. Projects \subseteq Projects'
    BY <1>5, <2>2 DEF Projects
  <2>6. p \in Projects'
    BY <1>5, <2>3 DEF Projects
  <2> QED
    BY <2>4, <2>5, <2>6
<1>7. QuestionOK'
  BY <1>2, <1>5 DEF QuestionOK
<1>8. DraftOK'
  <2>1. /\ <<>> \in Seq(Variables) /\ <<>> \in Seq(Value) /\ Len(<<>>) = 0
    BY EmptySeq
  <2> QED
    BY <1>2, <2>1, SettingsAre DEF DraftOK, Nothing, Partial, AnswersOf
<1>9. ProjectsOK'
  <2>1. \A q \in Projects' : Len(q.name) = Len(Settings) /\ Len(q.given) = Len(Settings)
    BY <1>3, <1>4, <1>6, SettingsAre DEF DialogueInv, ProjectsOK
  <2>2. \A n \in 1..Len(projects) : projects[n].slug # p.slug
    BY <1>3, <1>4, <1>5 DEF Projects
  <2>3. \A m, n \in DOMAIN projects' : projects'[m].slug = projects'[n].slug => m = n
    <3>1. \A n \in 1..Len(projects) + 1 : n \in 1..Len(projects) \/ n = Len(projects) + 1
      BY <1>5
    <3>2. \A m, n \in 1..Len(projects) : projects[m].slug = projects[n].slug => m = n
      BY <1>5 DEF DialogueInv, ProjectsOK
    <3> QED
      BY <1>5, <2>2, <3>1, <3>2
  <2> QED
    BY <1>5, <2>1, <2>3 DEF ProjectsOK
<1>10. EachItsOwn'
  <2>1. DOMAIN Nothing.name = {}
    BY EmptySeq DEF Nothing
  <2>2. \A q \in Projects \cup {draft} : \A k \in DOMAIN q.name : env_values[q.name[k]] = q.given[k]
    BY DEF DialogueInv, EachItsOwn
  <2> QED
    BY <1>2, <1>4, <1>6, <2>1, <2>2 DEF EachItsOwn
<1> QED
  BY <1>2, <1>7, <1>8, <1>9, <1>10 DEF DialogueInv, EnvOfWizard

(* AWS variables and the source that is polled replace no answer.             *)
LEMMA KeepsAws ==
  ASSUME DialogueInv, AskAws
  PROVE  DialogueInv'
<1> DEFINE polled == WithSqsSource(env_values)
<1>1. /\ question = "aws" /\ question' \in {"written", "refused"}
      /\ projects' = projects /\ Projects' = Projects /\ draft' = draft
      /\ env_values' = polled \/ env_values' = WithAws(polled)
  BY DEF AskAws, Projects
<1>2. env_values \in [Name -> Value \cup {Unset}] /\ env_values[StateDir] \in Value
  BY DEF DialogueInv, EnvOfWizard
<1>3. WizardSource(projects[1].slug) \in Value
  <2>1. projects \in Seq(Complete) /\ projects # <<>>
    BY <1>1 DEF DialogueInv, ProjectsOK
  <2>2. projects[1] \in Complete
    BY <2>1, LenProperties, ElementOfSeq, EmptySeq
  <2> QED
    BY <2>2, TextsAssumption DEF Complete, AnswersOf
<1>4. /\ polled \in [Name -> Value \cup {Unset}]
      /\ \A v \in Name : env_values[v] # Unset => polled[v] = env_values[v]
  BY <1>2, <1>3, AnswersAssumption DEF WithSqsSource
<1> HIDE DEF polled
<1>5. /\ env_values' \in [Name -> Value \cup {Unset}]
      /\ \A v \in Name \ Reserved : env_values[v] # Unset => env_values'[v] = env_values[v]
  <2>1. CASE env_values' = polled
    BY <1>4, <2>1
  <2>2. CASE env_values' = WithAws(polled)
    BY <1>4, <2>2, AnswersAssumption, TextsAssumption DEF WithAws
  <2> QED
    BY <1>1, <2>1, <2>2
<1>6. Unset \notin Value
  BY FieldsAssumption
<1>7. EnvOfWizard'
  BY <1>2, <1>5, <1>6, AnswersAssumption DEF EnvOfWizard
<1>8. EachItsOwn'
  <2>1. ASSUME NEW p \in Projects \cup {draft}, NEW k \in DOMAIN p.name
        PROVE  env_values'[p.name[k]] = p.given[k]
    <3>1. /\ p.name[k] \in Name \ Reserved /\ p.given[k] \in Value
          /\ env_values[p.name[k]] = p.given[k]
      BY NamedAreSet
    <3> QED
      BY <1>5, <1>6, <3>1
  <2> QED
    BY <1>1, <2>1 DEF EachItsOwn
<1>9. DraftOK'
  BY <1>1 DEF DialogueInv, DraftOK
<1> QED
  BY <1>1, <1>7, <1>8, <1>9 DEF DialogueInv, QuestionOK, ProjectsOK

LEMMA DialogueNext == DialogueInv /\ (Ask \/ UNCHANGED answerVars) => DialogueInv'
<1> SUFFICES ASSUME DialogueInv, Ask \/ UNCHANGED answerVars PROVE DialogueInv'
  OBVIOUS
<1>1. CASE UNCHANGED answerVars
  BY <1>1 DEF answerVars, DialogueInv, EnvOfWizard, QuestionOK, DraftOK, ProjectsOK, EachItsOwn, Projects
<1>2. CASE Ask
  BY <1>2, KeepsSlug, KeepsSetting, KeepsChat, KeepsPriority, KeepsAws DEF Ask
<1> QED
  BY <1>1, <1>2

LEMMA DialogueTypes == DialogueInv => AnswersTypeOK
<1> SUFFICES ASSUME DialogueInv PROVE AnswersTypeOK
  OBVIOUS
<1>1. \A p \in Projects \cup {draft} :
        Len(p.name) = Len(p.given) /\ Len(p.name) <= Len(Settings)
  <2>1. Len(draft.name) = Len(draft.given) /\ Len(draft.name) <= Len(Settings)
    BY DEF DialogueInv, DraftOK
  <2>2. \A p \in Projects : Len(p.name) = 5 /\ Len(p.given) = 5
    BY SettingsAre DEF DialogueInv, ProjectsOK
  <2>3. Len(Settings) = 5 /\ 5 <= 5
    BY SettingsAre
  <2> TAKE p \in Projects \cup {draft}
  <2>4. CASE p = draft
    BY <2>1, <2>4
  <2>5. CASE p \in Projects
    BY <2>2, <2>3, <2>5, Zenon
  <2> QED
    BY <2>4, <2>5
<1> QED
  BY <1>1 DEF AnswersTypeOK, DialogueInv, EnvOfWizard, QuestionOK

-----------------------------------------------------------------------------
(* What the wizard writes. *)

EntryOfProject(p) ==
  [slug |-> p.slug, name |-> WizardSource(p.slug), queue_url_env |-> p.name[1],
   max_messages |-> "10", bot_token_env |-> p.name[5],
   chat_id |-> p.chat, chat_id_env |-> Default,
   incident_assignee |-> "debugger", default_priority |-> p.priority]

LEMMA CompleteProject ==
  ASSUME DialogueInv, NEW n \in DOMAIN projects
  PROVE  /\ projects[n] \in Projects /\ projects[n].slug \in GoodSlug
         /\ projects[n].slug \in Value /\ projects[n].chat \in Value
         /\ projects[n].priority \in Number
         /\ Len(projects[n].name) = 5 /\ DOMAIN projects[n].name = 1..5
<1>1. projects \in Seq(Complete) /\ Len(projects[n].name) = 5 /\ projects[n] \in Projects
  BY SettingsAre DEF DialogueInv, ProjectsOK, Projects
<1>2. projects[n] \in Complete
  BY <1>1, ElementOfSeq, LenProperties
<1> QED
  BY <1>1, <1>2, LenProperties, TextsAssumption DEF Complete, AnswersOf

LEMMA WrittenFile ==
  ASSUME DialogueInv, question = "written"
  PROVE  /\ FileOK(config_data) /\ EnvOK(env_values)
         /\ DOMAIN config_data.projects = DOMAIN projects /\ 1 \in DOMAIN projects
         /\ \A n \in DOMAIN projects : config_data.projects[n] = EntryOfProject(projects[n])
         /\ config_data.state_dir = StateDir
         /\ config_data.default_project = projects[1].slug
<1>1. /\ projects \in Seq(Complete) /\ projects # <<>>
      /\ Len(projects) \in Nat \ {0} /\ DOMAIN projects = 1..Len(projects)
  BY LenProperties, EmptySeq DEF DialogueInv, ProjectsOK
<1>2. /\ config_data.projects = [n \in DOMAIN projects |-> EntryOfProject(projects[n])]
      /\ config_data.state_dir = StateDir
      /\ config_data.default_project = projects[1].slug
  <2>1. Settings[5] = "bot_token" /\ Len(Settings) = 5
    BY SettingsAre
  <2> QED
    BY <2>1 DEF config_data, EntryOfProject
<1>3. \A n \in DOMAIN projects : EntryOfProject(projects[n]) \in Entry
  <2> TAKE n \in DOMAIN projects
  <2>1. projects[n].name[1] \in Name /\ projects[n].name[5] \in Name
    <3>1. 1 \in DOMAIN projects[n].name /\ 5 \in DOMAIN projects[n].name
      BY CompleteProject
    <3>2. projects[n] \in Projects
      BY CompleteProject
    <3> QED
      BY <3>1, <3>2, NamedAreSet
  <2>2. /\ projects[n].slug \in GoodSlug /\ projects[n].slug \in Value
        /\ projects[n].chat \in Value /\ projects[n].priority \in Value
    BY CompleteProject, FieldsAssumption
  <2>3. WizardSource(projects[n].slug) \in Value /\ "10" \in Value /\ "debugger" \in Value
    BY <2>2, TextsAssumption, FieldsAssumption
  <2> QED
    BY <2>1, <2>2, <2>3 DEF EntryOfProject, Entry, Field
<1>4. 1 \in DOMAIN projects
  BY <1>1
<1>5. config_data.projects \in Seq(Entry) /\ config_data.projects # <<>>
  <2>1. config_data.projects \in [1..Len(projects) -> Entry]
    BY <1>1, <1>2, <1>3
  <2>2. config_data.projects \in Seq(Entry)
    BY <1>1, <2>1, SeqDef
  <2>3. DOMAIN config_data.projects = DOMAIN projects /\ DOMAIN <<>> = {}
    BY <1>2, EmptySeq
  <2> QED
    BY <1>4, <2>2, <2>3
<1>6. config_data.state_dir \in Field
  BY <1>2, AnswersAssumption DEF Field
<1>7. config_data.default_project \in Field
  BY <1>2, <1>4, CompleteProject DEF Field
<1>8. EnvOK(env_values)
  BY DEF DialogueInv, EnvOfWizard, EnvOK
<1> QED
  BY <1>2, <1>4, <1>5, <1>6, <1>7, <1>8 DEF FileOK

(* Every entry the wizard writes is expanded to what was answered.            *)
LEMMA WrittenEntry ==
  ASSUME DialogueInv, question = "written", NEW n \in DOMAIN projects
  PROVE  LET p == projects[n]
             x == config_data.projects[n]
         IN /\ Slug(env_values, x) = p.slug
            /\ \A strict \in BOOLEAN : Parses(env_values, x, strict)
            /\ Project(env_values, x) =
                 [slug |-> p.slug, source |-> <<WizardSource(p.slug)>>,
                  queue_url |-> p.given[1], max_messages |-> "10",
                  bot_token |-> TokenOf(p), chat_id |-> p.chat,
                  incident_assignee |-> "debugger", default_priority |-> p.priority]
<1> DEFINE p == projects[n]
           x == config_data.projects[n]
           E(f) == Expand(env_values, f)
<1>1. x = EntryOfProject(p)
  BY WrittenFile
<1>2. /\ p.slug \in Value /\ WizardSource(p.slug) \in Value /\ p.chat \in Value
      /\ p.priority \in Value /\ "10" \in Value /\ "debugger" \in Value
      /\ p.priority \in Number /\ "10" \in Number
  BY CompleteProject, TextsAssumption, FieldsAssumption
<1>3. /\ IsSet(env_values, p.name[1]) /\ IsSet(env_values, p.name[5])
      /\ p.name[1] \in Name /\ p.name[5] \in Name
      /\ env_values[p.name[1]] = p.given[1] /\ env_values[p.name[5]] = p.given[5]
  <2>1. 1 \in DOMAIN p.name /\ 5 \in DOMAIN p.name /\ p \in Projects
    BY CompleteProject
  <2> QED
    BY <2>1, NamedAreSet
<1> HIDE DEF p, x
<1>4. /\ x.slug = p.slug /\ x.name = WizardSource(p.slug) /\ x.queue_url_env = p.name[1]
      /\ x.max_messages = "10" /\ x.bot_token_env = p.name[5] /\ x.chat_id = p.chat
      /\ x.incident_assignee = "debugger" /\ x.default_priority = p.priority
  BY <1>1 DEF EntryOfProject
<1>5. \A f \in Value : E(f) = f /\ Resolved(env_values, f) /\ f \in Field
  BY Expansion DEF Field, Given
<1>6. x.name # Default /\ x.chat_id # Default /\ x.chat_id # Empty
  BY <1>2, <1>4, FieldsAssumption
<1>13. ChatId(env_values, x) = p.chat
  BY <1>2, <1>4, <1>5, <1>6 DEF ChatId
<1>7. Slug(env_values, x) = p.slug
  BY <1>2, <1>4, <1>5 DEF Slug
<1>8. NumbersParse(env_values, x, TRUE) /\ NumbersParse(env_values, x, FALSE)
  BY <1>2, <1>4, <1>5 DEF NumbersParse, Numbers
<1>9. StrictParse(env_values, x)
  <2>1. Expanded(x) \subseteq Value
    BY <1>2, <1>4 DEF Expanded
  <2> QED
    BY <1>2, <1>3, <1>4, <1>5, <1>6, <1>13, <2>1 DEF StrictParse
<1>10. \A strict \in BOOLEAN : Parses(env_values, x, strict)
  BY <1>8, <1>9 DEF Parses
<1>11. /\ Get(env_values, x.queue_url_env) = p.given[1]
       /\ Get(env_values, x.bot_token_env) = p.given[5]
  BY <1>3, <1>4, Expansion DEF Field
<1>12. Project(env_values, x) =
         [slug |-> p.slug, source |-> <<WizardSource(p.slug)>>,
          queue_url |-> p.given[1], max_messages |-> "10",
          bot_token |-> TokenOf(p), chat_id |-> p.chat,
          incident_assignee |-> "debugger", default_priority |-> p.priority]
  <2>1. SourceName(env_values, p.slug, x) = <<WizardSource(p.slug)>>
    BY <1>2, <1>4, <1>5, <1>6 DEF SourceName
  <2>2. TokenOf(p) = p.given[5]
    BY SettingsAre DEF TokenOf
  <2> QED
    BY <1>2, <1>4, <1>5, <1>7, <1>11, <1>13, <2>1, <2>2 DEF Project
<1> QED
  BY <1>7, <1>10, <1>12 DEF p, x

LEMMA WrittenSelects ==
  ASSUME DialogueInv, question = "written", NEW n \in DOMAIN projects, NEW slug,
         SelectedSlug(config_data, env_values, slug, FALSE) = projects[n].slug
  PROVE  LoadWritten(slug) = ResultOf(config_data, env_values, n)
<1>1. /\ FileOK(config_data) /\ DOMAIN config_data.projects = DOMAIN projects
      /\ config_data.state_dir = StateDir
  BY WrittenFile
<1>2. \A m \in DOMAIN projects : /\ Slug(env_values, config_data.projects[m]) = projects[m].slug
                                 /\ \A strict \in BOOLEAN :
                                      Parses(env_values, config_data.projects[m], strict)
  BY WrittenEntry
<1>3. SlugsDiffer(config_data, env_values)
  BY <1>1, <1>2 DEF SlugsDiffer, DialogueInv, ProjectsOK
<1>4. Resolved(env_values, config_data.state_dir)
  <2>1. StateDir \in Field /\ Given(env_values, StateDir)
    BY AnswersAssumption DEF Field, Given, IsSet, DialogueInv, EnvOfWizard
  <2> QED
    BY <1>1, <2>1, Expansion
<1>5. projects[n].slug \in Value
  BY CompleteProject
<1>6. Selects(config_data, env_values, slug, FALSE, n)
  <2>1. \A m \in DOMAIN config_data.projects : Parses(env_values, config_data.projects[m], m = n)
    <3> TAKE m \in DOMAIN config_data.projects
    <3>1. (m = n) \in BOOLEAN
      OBVIOUS
    <3> QED
      BY <1>1, <1>2, <3>1
  <2> QED
    BY <1>1, <1>2, <1>3, <1>4, <1>5, <2>1 DEF Selects
<1> QED
  BY <1>1, <1>6, Loading DEF LoadWritten

LEMMA WrittenIsRead == DialogueInv => WrittenLoads
<1> SUFFICES ASSUME DialogueInv, question = "written"
             PROVE  /\ \A n \in DOMAIN projects :
                         LET p == projects[n]
                             loaded == LoadWritten(p.slug)
                         IN /\ loaded.ok
                            /\ loaded.project =
                                 [slug |-> p.slug, source |-> <<WizardSource(p.slug)>>,
                                  queue_url |-> p.given[1], max_messages |-> "10",
                                  bot_token |-> TokenOf(p), chat_id |-> p.chat,
                                  incident_assignee |-> "debugger",
                                  default_priority |-> p.priority]
                    /\ LoadWritten(Default) = LoadWritten(projects[1].slug)
  BY Zenon DEF WrittenLoads
<1>1. \A n \in DOMAIN projects : projects[n].slug \in Value /\ projects[n].slug # Default
  BY CompleteProject, FieldsAssumption
<1>2. \A n \in DOMAIN projects :
        LoadWritten(projects[n].slug) = ResultOf(config_data, env_values, n)
  BY <1>1, WrittenSelects DEF SelectedSlug
<1>3. LoadWritten(Default) = ResultOf(config_data, env_values, 1)
  <2>1. /\ 1 \in DOMAIN projects /\ config_data.default_project = projects[1].slug
    BY WrittenFile
  <2>2. Expand(env_values, projects[1].slug) = projects[1].slug
    BY <1>1, <2>1, Expansion DEF Field
  <2>3. SelectedSlug(config_data, env_values, Default, FALSE) = projects[1].slug
    BY <1>1, <2>1, <2>2 DEF SelectedSlug, DefaultSlug
  <2> QED
    BY <2>1, <2>3, WrittenSelects
<1>4. ASSUME NEW n \in DOMAIN projects
      PROVE  LET p == projects[n]
                 loaded == LoadWritten(p.slug)
             IN /\ loaded.ok
                /\ loaded.project =
                     [slug |-> p.slug, source |-> <<WizardSource(p.slug)>>,
                      queue_url |-> p.given[1], max_messages |-> "10",
                      bot_token |-> TokenOf(p), chat_id |-> p.chat,
                      incident_assignee |-> "debugger", default_priority |-> p.priority]
  <2>1. LoadWritten(projects[n].slug) = ResultOf(config_data, env_values, n)
    BY <1>2
  <2>2. /\ ResultOf(config_data, env_values, n).ok
        /\ ResultOf(config_data, env_values, n).project =
             Project(env_values, config_data.projects[n])
    BY DEF ResultOf
  <2> QED
    BY <2>1, <2>2, WrittenEntry
<1> QED
  BY <1>2, <1>3, <1>4, WrittenFile

-----------------------------------------------------------------------------
(* What the selected entry has. *)

(* All the variables a selected entry needs are there.                        *)
ParsesSelected(e, x) == Parses(e, x, TRUE)

LEMMA SelectedEntry ==
  ASSUME NEW e, EnvOK(e), NEW x \in Entry, ParsesSelected(e, x)
  PROVE  /\ \A f \in Expanded(x) : f \in Field /\ Given(e, f) /\ Expand(e, f) \in Value
         /\ x.slug \in Expanded(x) /\ x.max_messages \in Expanded(x)
         /\ x.incident_assignee \in Expanded(x) /\ x.default_priority \in Expanded(x)
         /\ x.name # Default => x.name \in Expanded(x)
         /\ x.chat_id # Default => x.chat_id \in Expanded(x)
         /\ IsSet(e, x.queue_url_env) /\ ChatId(e, x) \in Value
         /\ UsableProject(Project(e, x))
<1>1. StrictParse(e, x) /\ NumbersParse(e, x, TRUE)
  BY DEF Parses, ParsesSelected
<1>2. \A f \in Expanded(x) : f \in Field /\ Given(e, f) /\ Expand(e, f) \in Value
  BY <1>1, EntryFields, Expansion DEF StrictParse, Resolved
<1>3. /\ x.slug \in Expanded(x) /\ x.max_messages \in Expanded(x)
      /\ x.incident_assignee \in Expanded(x) /\ x.default_priority \in Expanded(x)
      /\ x.name # Default => x.name \in Expanded(x)
      /\ x.chat_id # Default => x.chat_id \in Expanded(x)
  BY DEF Expanded
<1>4. IsSet(e, x.queue_url_env) /\ ChatId(e, x) # Empty
  BY <1>1 DEF StrictParse
<1>5. Expand(e, x.max_messages) \in Number /\ Expand(e, x.default_priority) \in Number
  BY <1>1 DEF NumbersParse, Numbers
<1>6. Get(e, x.queue_url_env) \in Value
  BY <1>4 DEF Get, IsSet
<1>7. ChatId(e, x) \in Value
  <2>1. CASE x.chat_id # Default
    BY <1>2, <1>3, <2>1 DEF ChatId
  <2>2. CASE x.chat_id = Default
    BY <1>4, <2>2 DEF ChatId, Get, IsSet
  <2> QED
    BY <2>1, <2>2
<1>8. UsableProject(Project(e, x))
  BY <1>2, <1>3, <1>5, <1>6, <1>7 DEF UsableProject, Project, Slug
<1> QED
  BY <1>2, <1>3, <1>4, <1>7, <1>8

(* The variables that are filled in: none that is set, none the source needs. *)
Fills(e, g, x) ==
  /\ EnvOK(g)
  /\ \A v \in Name : IsSet(e, v) => g[v] = e[v]
  /\ \A v \in Name : g[v] = e[v] \/ g[v] = Zero
  /\ \A v \in SourceRefs(x) : g[v] = e[v]

LEMMA NotFilled ==
  ASSUME NEW e, EnvOK(e), NEW x
  PROVE  Fills(e, e, x)
BY DEF Fills, SourceRefs

LEMMA FilledIn ==
  ASSUME NEW e, EnvOK(e), NEW x
  PROVE  Fills(e, Filled(e, x), x)
<1>1. Zero \in Value
  BY ConfigurationAssumption, FieldsAssumption
<1>2. \A v \in SourceRefs(x) : v \in Name /\ v \notin OtherRefs(x)
  BY DEF SourceRefs, OtherRefs
<1> QED
  BY <1>1, <1>2 DEF Fills, Filled, EnvOK

(* Where a field was expanded, it is expanded to the same when more is filled. *)
LEMMA StaysExpanded ==
  ASSUME NEW e, NEW g, NEW x, Fills(e, g, x), NEW f \in Field, Given(e, f)
  PROVE  /\ Expand(g, f) = Expand(e, f)
         /\ f \in Name => Get(g, f) = Get(e, f)
         /\ Expand(e, f) \in Value /\ Given(g, f)
<1>1. f \in Name => g[f] = e[f]
  <2>1. CASE f \in Name
    BY <2>1, Expansion DEF Fills, Given
  <2> QED
    BY <2>1
<1> QED
  BY <1>1, SameVariable, Expansion

(* The raw file and the parsed file agree where anything is expanded.         *)
LEMMA RawExpansion ==
  ASSUME NEW e, EnvOK(e), NEW f \in Field
  PROVE  /\ RawExpand(e, f) \in Value <=> Given(e, f)
         /\ Given(e, f) => RawExpand(e, f) = Expand(e, f)
         /\ RawExpand(e, f) # Default
<1>1. /\ Unset \notin Value /\ Empty \notin Value /\ Default \notin Value /\ Default \notin Name
      /\ Default # Empty
      /\ f \in Name => f \notin Value
      /\ f \in Name \/ f \in Value
  BY FieldsAssumption DEF Field
<1>2. CASE f \in Value
  <2>1. f \notin Name
    BY <1>1, <1>2
  <2> QED
    BY <1>1, <1>2, <2>1 DEF RawExpand, Given, Expand
<1>3. CASE f \in Name
  <2>1. e[f] \in Value \cup {Unset, Empty}
    BY <1>3 DEF EnvOK
  <2>2. CASE e[f] \in Value
    BY <1>1, <1>3, <2>2 DEF RawExpand, Given, Expand, IsSet
  <2>3. CASE e[f] \in {Unset, Empty}
    BY <1>1, <1>3, <2>3 DEF RawExpand, Given, IsSet
  <2> QED
    BY <2>1, <2>2, <2>3
<1> QED
  BY <1>1, <1>2, <1>3

(* Entry n is loaded as what was named: with g, which has more than e at most *)
(* where that makes no difference to it.                                      *)
LoadedAs(c, e, g, n) ==
  /\ n \in DOMAIN c.projects
  /\ Fills(e, g, c.projects[n])
  /\ Selects(c, g, Slug(e, c.projects[n]), FALSE, n)
  /\ Slug(e, c.projects[n]) \in Value

LEMMA OnlyOneSlug ==
  ASSUME NEW c, FileOK(c), NEW e, NEW g, NEW n, LoadedAs(c, e, g, n)
  PROVE  /\ c.projects[n] \in Entry /\ EnvOK(g)
         /\ ParsesSelected(g, c.projects[n])
         /\ Slug(g, c.projects[n]) = Slug(e, c.projects[n])
         /\ \A m \in DOMAIN c.projects :
              Slug(e, c.projects[m]) = Slug(e, c.projects[n]) => m = n
<1>1. \A m \in DOMAIN c.projects : c.projects[m] \in Entry /\ c.projects[m].slug \in Field
  BY FileEntries, EntryFields
<1>2. /\ n \in DOMAIN c.projects /\ Fills(e, g, c.projects[n]) /\ SlugsDiffer(c, g)
      /\ Slug(e, c.projects[n]) \in Value
      /\ \A m \in DOMAIN c.projects : Parses(g, c.projects[m], m = n)
  BY DEF LoadedAs, Selects
<1>3. ParsesSelected(g, c.projects[n])
  <2>1. (n = n) = TRUE
    OBVIOUS
  <2> QED
    BY <1>2, <2>1 DEF ParsesSelected
<1>4. \A m \in DOMAIN c.projects : Slug(e, c.projects[m]) \in Value
                                     => Slug(g, c.projects[m]) = Slug(e, c.projects[m])
  <2> TAKE m \in DOMAIN c.projects
  <2> HAVE Slug(e, c.projects[m]) \in Value
  <2>1. Given(e, c.projects[m].slug)
    BY <1>1, Expansion DEF Slug, Resolved
  <2> QED
    BY <1>1, <1>2, <2>1, StaysExpanded DEF Slug
<1> QED
  BY <1>1, <1>2, <1>3, <1>4 DEF Fills, SlugsDiffer

-----------------------------------------------------------------------------
(* How a command finds its project. *)

LEMMA LoadBySlug ==
  ASSUME NEW c, FileOK(c), NEW e, EnvOK(e), NEW slug, slug # Default,
         load_config(c, e, slug, FALSE).ok
  PROVE  \E n \in DOMAIN c.projects :
           /\ load_config(c, e, slug, FALSE) = ResultOf(c, e, n)
           /\ Selects(c, e, slug, FALSE, n)
           /\ Slug(e, c.projects[n]) = slug /\ slug \in Value
           /\ LoadedAs(c, e, e, n)
<1>1. PICK n \in DOMAIN c.projects : Selects(c, e, slug, FALSE, n)
  BY Loading
<1>2. load_config(c, e, slug, FALSE) = ResultOf(c, e, n)
  BY <1>1, Loading
<1>3. Slug(e, c.projects[n]) = slug
  BY <1>1 DEF Selects, SelectedSlug
<1>4. slug \in Value
  <2>1. (n = n) = TRUE
    OBVIOUS
  <2>2. ParsesSelected(e, c.projects[n])
    BY <1>1, <2>1 DEF Selects, ParsesSelected
  <2>3. Expand(e, c.projects[n].slug) \in Value
    BY <2>2, FileEntries, SelectedEntry
  <2> QED
    BY <1>3, <2>3 DEF Slug
<1>5. LoadedAs(c, e, e, n)
  BY <1>1, <1>3, <1>4, NotFilled DEF LoadedAs
<1> QED
  BY <1>1, <1>2, <1>3, <1>4, <1>5

(* A source that is found in the raw file is that of the parsed entry.        *)
LEMMA SourceAgrees ==
  ASSUME NEW c, FileOK(c), NEW e, EnvOK(e), NEW g, NEW n, LoadedAs(c, e, g, n)
  PROVE  Project(g, c.projects[n]).source = RawSource(e, c.projects[n])
<1> DEFINE x == c.projects[n]
<1>1. /\ x \in Entry /\ EnvOK(g) /\ ParsesSelected(g, x) /\ Slug(g, x) = Slug(e, x)
      /\ Slug(e, x) \in Value /\ Fills(e, g, x)
  <2>1. x \in Entry /\ EnvOK(g) /\ ParsesSelected(g, x) /\ Slug(g, x) = Slug(e, x)
    BY OnlyOneSlug
  <2>2. Slug(e, x) \in Value /\ Fills(e, g, x)
    BY DEF LoadedAs
  <2> QED
    BY <2>1, <2>2
<1> SUFFICES Project(g, x).source = RawSource(e, x)
  OBVIOUS
<1> HIDE DEF x
<1>2. Project(g, x).source = SourceName(g, Slug(g, x), x)
  BY DEF Project
<1>3. CASE x.name = Default
  <2>1. RawExpand(e, x.slug) = Slug(e, x)
    <3>1. x.slug \in Field /\ Given(e, x.slug)
      BY <1>1, EntryFields, Expansion DEF Slug, Resolved
    <3> QED
      BY <3>1, RawExpansion DEF Slug
  <2> QED
    BY <1>1, <1>2, <1>3, <2>1 DEF SourceName, RawSource
<1>4. CASE x.name # Default
  <2>1. x.name \in Field /\ Given(g, x.name)
    BY <1>1, <1>4, SelectedEntry
  <2>2. x.name \in Name => g[x.name] = e[x.name]
    BY <1>1 DEF Fills, SourceRefs
  <2>3. Given(e, x.name) /\ Expand(g, x.name) = Expand(e, x.name)
    BY <2>1, <2>2, SameVariable
  <2>4. RawExpand(e, x.name) = Expand(g, x.name)
    BY <2>1, <2>3, RawExpansion
  <2> QED
    BY <1>2, <1>4, <2>4 DEF SourceName, RawSource
<1> QED
  BY <1>3, <1>4

LEMMA LoadBySource ==
  ASSUME NEW c, FileOK(c), NEW e, EnvOK(e), NEW source, ConfigOfSource(c, e, source).ok
  PROVE  \E n, g :
           /\ n \in DOMAIN c.projects
           /\ ConfigOfSource(c, e, source) = ResultOf(c, g, n)
           /\ LoadedAs(c, e, g, n)
           /\ Project(g, c.projects[n]).source = source
           /\ WithSource(c, e, source) = {n}
<1> DEFINE with == WithSource(c, e, source)
<1>1. Cardinality(with) = 1 /\ with \subseteq DOMAIN c.projects
  BY DEF ConfigOfSource, Failed, WithSource
<1>2. PICK n : with = {n}
  <2>1. IsFiniteSet(DOMAIN c.projects)
    <3>1. DOMAIN c.projects = 1..Len(c.projects) /\ Len(c.projects) \in Nat
      BY FileEntries
    <3>2. 1 \in Int /\ Len(c.projects) \in Int
      BY <3>1
    <3>3. IsFiniteSet(1..Len(c.projects))
      BY <3>2, FS_Interval
    <3> QED
      BY <3>1, <3>3
  <2>2. IsFiniteSet(with)
    BY <1>1, <2>1, FS_Subset
  <2> QED
    BY <1>1, <2>2, FS_Singleton
<1>3. /\ n \in DOMAIN c.projects
      /\ RawSource(e, c.projects[n]) = source
      /\ (CHOOSE m \in with : TRUE) = n
  BY <1>1, <1>2 DEF WithSource
<1> DEFINE x == c.projects[n]
           g == Filled(e, x)
           s == RawExpand(e, x.slug)
<1>4. ConfigOfSource(c, e, source) = load_config(c, g, s, FALSE)
  BY <1>1, <1>3 DEF ConfigOfSource
<1>5. x \in Entry /\ x.slug \in Field
  BY <1>3, FileEntries, EntryFields
<1>6. Fills(e, g, x) /\ EnvOK(g)
  BY FilledIn DEF Fills
<1> HIDE DEF g, x
<1>7. PICK k \in DOMAIN c.projects :
        /\ load_config(c, g, s, FALSE) = ResultOf(c, g, k)
        /\ Selects(c, g, s, FALSE, k)
        /\ Slug(g, c.projects[k]) = s /\ s \in Value
  BY <1>4, <1>5, <1>6, RawExpansion, LoadBySlug
<1>8. Slug(e, x) = s /\ Slug(g, x) = s
  BY <1>5, <1>6, <1>7, RawExpansion, StaysExpanded DEF Slug
<1>9. k = n
  BY <1>3, <1>7, <1>8 DEF Selects, SlugsDiffer, x
<1>10. LoadedAs(c, e, g, n)
  BY <1>3, <1>6, <1>7, <1>8, <1>9 DEF LoadedAs, x
<1>11. Project(g, c.projects[n]).source = source
  BY <1>3, <1>10, SourceAgrees
<1> QED
  BY <1>2, <1>3, <1>4, <1>7, <1>9, <1>10, <1>11

LEMMA LoadByProjectAndSource ==
  ASSUME NEW c, FileOK(c), NEW e, EnvOK(e), NEW source,
         NEW m \in DOMAIN c.projects, NEW slug \in Value,
         RawExpand(e, c.projects[m].slug) = slug,
         ConfigOfProjectSource(c, e, slug, source).ok
  PROVE  \E n, g :
           /\ n \in DOMAIN c.projects
           /\ ConfigOfProjectSource(c, e, slug, source) = ResultOf(c, g, n)
           /\ LoadedAs(c, e, g, n)
           /\ Project(g, c.projects[n]).source = source
<1> DEFINE of == {n \in DOMAIN c.projects : RawExpand(e, c.projects[n].slug) = slug}
           first == CHOOSE n \in of : \A k \in of : n <= k
           entry == c.projects[first]
           g == IF of # {} /\ RawSource(e, entry) = source THEN Filled(e, entry) ELSE e
           loaded == load_config(c, g, slug, FALSE)
<1>1. /\ loaded.ok /\ loaded.project.source = source
      /\ ConfigOfProjectSource(c, e, slug, source) = loaded
  BY DEF ConfigOfProjectSource, Failed
<1>2. slug # Default
  BY FieldsAssumption
<1>3. EnvOK(g)
  BY FilledIn, NotFilled DEF Fills
<1>4. \A v \in Name : IsSet(e, v) => g[v] = e[v]
  BY FilledIn, NotFilled DEF Fills
<1>5. PICK n \in DOMAIN c.projects :
        /\ loaded = ResultOf(c, g, n)
        /\ Selects(c, g, slug, FALSE, n)
        /\ Slug(g, c.projects[n]) = slug
  <2> HIDE DEF g
  <2>1. load_config(c, g, slug, FALSE).ok
    BY <1>1
  <2>2. \E n \in DOMAIN c.projects :
          /\ load_config(c, g, slug, FALSE) = ResultOf(c, g, n)
          /\ Selects(c, g, slug, FALSE, n)
          /\ Slug(g, c.projects[n]) = slug /\ slug \in Value
          /\ LoadedAs(c, g, g, n)
    BY <1>2, <1>3, <2>1, LoadBySlug
  <2> QED
    BY <2>2
<1>6. \A k \in of : k = n /\ Slug(e, c.projects[k]) = slug
  <2> TAKE k \in of
  <2> HIDE DEF g
  <2>1. c.projects[k].slug \in Field /\ RawExpand(e, c.projects[k].slug) = slug /\ k \in DOMAIN c.projects
    BY FileEntries, EntryFields
  <2>2. Given(e, c.projects[k].slug) /\ Expand(e, c.projects[k].slug) = slug
    BY <2>1, RawExpansion
  <2>3. c.projects[k].slug \in Name => g[c.projects[k].slug] = e[c.projects[k].slug]
    BY <1>4, <2>1, <2>2, Expansion DEF Given
  <2>4. Slug(g, c.projects[k]) = slug
    BY <2>1, <2>2, <2>3, SameVariable DEF Slug
  <2> QED
    BY <1>5, <2>1, <2>2, <2>4 DEF Selects, SlugsDiffer, Slug
<1>7. of = {n}
  BY <1>6
<1>8. first = n
  <2>1. n <= n
    BY FileEntries
  <2> QED
    BY <1>7, <2>1
<1>9. Fills(e, g, c.projects[n])
  BY <1>8, FilledIn, NotFilled
<1>10. LoadedAs(c, e, g, n)
  <2> HIDE DEF g
  <2> QED
    BY <1>5, <1>6, <1>7, <1>9 DEF LoadedAs
<1>11. Project(g, c.projects[n]).source = source
  <2> HIDE DEF g
  <2>1. ResultOf(c, g, n).project = Project(g, c.projects[n])
    BY DEF ResultOf
  <2> QED
    BY <1>1, <1>5, <2>1
<1> HIDE DEF g
<1> QED
  BY <1>1, <1>5, <1>10, <1>11

-----------------------------------------------------------------------------
(* A command at work. *)

(* What a command was given is what its file, environment and request make.   *)
CommandInv ==
  /\ config # NoFile => FileOK(config) /\ EnvOK(env)
  /\ request # NoRequest =>
       config # NoFile /\ request \in Requests /\ outcome = Outcome(config, env, request)

InstallInv == DialogueInv /\ CommandInv

LEMMA InstallFirst == InstallInit => InstallInv
<1> SUFFICES ASSUME InstallInit PROVE InstallInv
  OBVIOUS
<1>1. DialogueInv
  BY DialogueInit DEF InstallInit
<1>2. CommandInv
  BY ConfigurationAssumption DEF InstallInit, CommandInv, FileOK, EnvOK
<1> QED
  BY <1>1, <1>2 DEF InstallInv

LEMMA InstallStep == InstallInv /\ [InstallNext]_installVars => InstallInv'
<1> SUFFICES ASSUME InstallInv, [InstallNext]_installVars PROVE InstallInv'
  OBVIOUS
<1>1. DialogueInv /\ CommandInv
  BY DEF InstallInv
<1>2. CASE Dialogue
  <2>1. DialogueInv'
    BY <1>1, <1>2, DialogueNext DEF Dialogue
  <2>2. CommandInv'
    BY <1>1, <1>2 DEF Dialogue, commandVars, CommandInv, Requests, Slugs, Sources
  <2> QED
    BY <2>1, <2>2 DEF InstallInv
<1>3. CASE Write
  <2>1. DialogueInv'
    BY <1>1, <1>3, DialogueNext DEF Write
  <2>2. FileOK(config_data) /\ EnvOK(env_values)
    BY <1>1, <1>3, WrittenFile DEF Write
  <2>3. request = NoRequest /\ request' = NoRequest
    BY <1>1, <1>3 DEF Write, CommandInv
  <2>4. FileOK(config') /\ EnvOK(env')
    BY <1>3, <2>2 DEF Write
  <2>5. CommandInv'
    BY <2>3, <2>4 DEF CommandInv
  <2> QED
    BY <2>1, <2>5 DEF InstallInv
<1>4. CASE Command
  <2>1. DialogueInv'
    BY <1>1, <1>4, DialogueNext DEF Command
  <2>2. /\ config # NoFile /\ config' = config /\ env' = env
        /\ request' \in Requests /\ outcome' = Outcome(config, env, request')
    BY <1>4 DEF Command, Run
  <2>3. Requests' = Requests
    BY <2>2 DEF Requests, Slugs, Sources
  <2>4. CommandInv'
    BY <1>1, <2>2, <2>3 DEF CommandInv
  <2> QED
    BY <2>1, <2>4 DEF InstallInv
<1>5. CASE UNCHANGED installVars
  <2>1. DialogueInv'
    BY <1>1, <1>5, DialogueNext DEF installVars
  <2>2. CommandInv'
    BY <1>1, <1>5 DEF installVars, commandVars, CommandInv, Requests, Slugs, Sources
  <2> QED
    BY <2>1, <2>2 DEF InstallInv
<1> QED
  BY <1>2, <1>3, <1>4, <1>5 DEF InstallNext

LEMMA RequestParts ==
  ASSUME CommandInv, Loaded
  PROVE  /\ FileOK(config) /\ EnvOK(env) /\ outcome.ok
         /\ request.by \in {"source", "slug", "all"}
         /\ request.by = "slug" => outcome = load_config(config, env, request.slug, FALSE)
         /\ request.by = "all" => outcome = ProjectConfigs(config, env)
         /\ request.by = "source" =>
              /\ request.slug \in {Default} \cup Slugs
              /\ request.source \in Sources
              /\ request.slug = Default =>
                   outcome = ConfigOfSource(config, env, request.source)
              /\ request.slug # Default =>
                   outcome = ConfigOfProjectSource(config, env, request.slug, request.source)
<1>1. /\ config # NoFile /\ FileOK(config) /\ EnvOK(env) /\ outcome.ok
      /\ request \in Requests /\ outcome = Outcome(config, env, request)
  BY DEF CommandInv, Loaded
<1>2. /\ request.by \in {"source", "slug", "all"}
      /\ request.by = "source" => request.slug \in {Default} \cup Slugs /\ request.source \in Sources
      /\ request.by = "all" => request.slug = Default
  BY <1>1 DEF Requests
<1>3. CASE request.by = "source"
  BY <1>1, <1>2, <1>3 DEF Outcome
<1>4. CASE request.by = "slug"
  BY <1>1, <1>4 DEF Outcome
<1>5. CASE request.by = "all"
  BY <1>1, <1>5 DEF Outcome
<1> QED
  BY <1>1, <1>2, <1>3, <1>4, <1>5

LEMMA SourceIsLoaded ==
  ASSUME CommandInv, Loaded, request.by = "source"
  PROVE  \E n, g :
           /\ n \in DOMAIN config.projects
           /\ outcome = ResultOf(config, g, n)
           /\ LoadedAs(config, env, g, n)
           /\ Project(g, config.projects[n]).source = request.source
           /\ request.slug = Default => WithSource(config, env, request.source) = {n}
<1>1. /\ FileOK(config) /\ EnvOK(env) /\ outcome.ok
      /\ request.slug \in {Default} \cup Slugs
  BY RequestParts
<1>2. CASE request.slug = Default
  <2>1. outcome = ConfigOfSource(config, env, request.source)
    BY <1>2, RequestParts
  <2> QED
    BY <1>1, <2>1, LoadBySource
<1>3. CASE request.slug # Default
  <2>1. outcome = ConfigOfProjectSource(config, env, request.slug, request.source)
    BY <1>3, RequestParts
  <2>2. request.slug \in Slugs
    BY <1>1, <1>3
  <2>3. PICK m \in DOMAIN config.projects : RawExpand(env, config.projects[m].slug) = request.slug
    BY <2>2 DEF Slugs
  <2>4. request.slug \in Value
    BY <2>2 DEF Slugs
  <2>5. \E n, g :
          /\ n \in DOMAIN config.projects
          /\ ConfigOfProjectSource(config, env, request.slug, request.source) = ResultOf(config, g, n)
          /\ LoadedAs(config, env, g, n)
          /\ Project(g, config.projects[n]).source = request.source
    <3>1. ConfigOfProjectSource(config, env, request.slug, request.source).ok
      BY <1>1, <2>1
    <3> QED
      BY <1>1, <2>3, <2>4, <3>1, LoadByProjectAndSource
  <2> QED
    BY <1>3, <2>1, <2>5
<1> QED
  BY <1>2, <1>3

(* Every project of watchdog-due is loaded by its own slug.                   *)
LEMMA AllAreLoaded ==
  ASSUME CommandInv, Loaded, request.by = "all"
  PROVE  LET slugs == {Slug(env, config.projects[n]) : n \in DOMAIN config.projects}
             of(s) == load_config(config, env, s, FALSE)
         IN /\ outcome.projects = {of(s).project : s \in slugs}
            /\ \A s \in slugs : of(s).ok /\ s # Default
<1> DEFINE slugs == {Slug(env, config.projects[n]) : n \in DOMAIN config.projects}
           base == load_config(config, env, Default, TRUE)
<1>1. FileOK(config) /\ EnvOK(env) /\ outcome = ProjectConfigs(config, env) /\ outcome.ok
  BY RequestParts
<1>2. /\ base.ok /\ \A s \in base.slugs : load_config(config, env, s, FALSE).ok
      /\ outcome.projects = {load_config(config, env, s, FALSE).project : s \in base.slugs}
  BY <1>1 DEF ProjectConfigs, Failed
<1>3. base.slugs = slugs
  <2>1. PICK n \in DOMAIN config.projects : Selects(config, env, Default, TRUE, n)
    BY <1>1, <1>2, Loading
  <2>2. base = ResultOf(config, env, n)
    BY <1>1, <2>1, Loading
  <2>3. ResultOf(config, env, n).slugs = slugs
    BY DEF ResultOf
  <2> QED
    BY <2>2, <2>3, Zenon
<1>4. \A s \in slugs : s # Default
  BY <1>1, FileEntries, EntryFields, Expansion DEF Slug
<1> QED
  BY <1>2, <1>3, <1>4

(* What load_config makes of a slug; named, so that it is one thing to the    *)
(* provers.                                                                   *)
LoadOf(c, e, slug) == load_config(c, e, slug, FALSE)

LEMMA ResultParts ==
  ASSUME NEW c, NEW e, NEW n
  PROVE  /\ ResultOf(c, e, n).ok
         /\ ResultOf(c, e, n).project = Project(e, c.projects[n])
         /\ ResultOf(c, e, n).project.slug = Slug(e, c.projects[n])
BY DEF ResultOf, Project

LEMMA LoadOfSlug ==
  ASSUME NEW c, FileOK(c), NEW e, EnvOK(e), NEW slug, slug # Default,
         LoadOf(c, e, slug).ok
  PROVE  \E n \in DOMAIN c.projects :
           /\ LoadOf(c, e, slug) = ResultOf(c, e, n)
           /\ LoadOf(c, e, slug).project = Project(e, c.projects[n])
           /\ Slug(e, c.projects[n]) = slug
           /\ LoadedAs(c, e, e, n)
<1>1. load_config(c, e, slug, FALSE).ok
  BY Zenon DEF LoadOf
<1>2. PICK n \in DOMAIN c.projects :
        /\ load_config(c, e, slug, FALSE) = ResultOf(c, e, n)
        /\ Slug(e, c.projects[n]) = slug
        /\ LoadedAs(c, e, e, n)
  <2>1. \E n \in DOMAIN c.projects :
           /\ load_config(c, e, slug, FALSE) = ResultOf(c, e, n)
           /\ Selects(c, e, slug, FALSE, n)
           /\ Slug(e, c.projects[n]) = slug /\ slug \in Value
           /\ LoadedAs(c, e, e, n)
    BY <1>1, LoadBySlug
  <2> QED
    BY <2>1, Zenon
<1>3. LoadOf(c, e, slug) = ResultOf(c, e, n)
  BY <1>2, Zenon DEF LoadOf
<1> QED
  BY <1>2, <1>3, ResultParts

LEMMA LoadedIsUsable ==
  ASSUME NEW c, FileOK(c), NEW e, EnvOK(e), NEW slug, LoadOf(c, e, slug).ok
  PROVE  UsableProject(LoadOf(c, e, slug).project)
<1>1. load_config(c, e, slug, FALSE).ok
  BY Zenon DEF LoadOf
<1>2. PICK n \in DOMAIN c.projects :
        Selects(c, e, slug, FALSE, n) /\ load_config(c, e, slug, FALSE) = ResultOf(c, e, n)
  BY <1>1, Loading
<1>3. ParsesSelected(e, c.projects[n])
  <2>1. (n = n) = TRUE
    OBVIOUS
  <2> QED
    BY <1>2, <2>1 DEF Selects, ParsesSelected
<1>4. UsableProject(Project(e, c.projects[n]))
  BY <1>3, FileEntries, SelectedEntry
<1>5. LoadOf(c, e, slug) = ResultOf(c, e, n)
  BY <1>2, Zenon DEF LoadOf
<1> QED
  BY <1>4, <1>5, ResultParts

LEMMA AllOfThem ==
  ASSUME CommandInv, Loaded, request.by = "all"
  PROVE  LET slugs == {Slug(env, config.projects[n]) : n \in DOMAIN config.projects}
         IN /\ outcome.projects = {LoadOf(config, env, s).project : s \in slugs}
            /\ \A s \in slugs : LoadOf(config, env, s).ok /\ s # Default
BY AllAreLoaded, Zenon DEF LoadOf

LEMMA CommandTypes == CommandInv => ConfigurationTypeOK
<1> SUFFICES ASSUME CommandInv, Loaded
             PROVE  IF request.by = "all"
                      THEN \A p \in outcome.projects : UsableProject(p)
                      ELSE UsableProject(outcome.project)
  BY DEF ConfigurationTypeOK
<1>1. FileOK(config) /\ EnvOK(env) /\ outcome.ok /\ request.by \in {"source", "slug", "all"}
  BY RequestParts
<1>2. CASE request.by = "all"
  <2> DEFINE slugs == {Slug(env, config.projects[n]) : n \in DOMAIN config.projects}
  <2>1. /\ outcome.projects = {LoadOf(config, env, s).project : s \in slugs}
        /\ \A s \in slugs : LoadOf(config, env, s).ok
    BY <1>2, AllOfThem
  <2> HIDE DEF slugs
  <2>2. \A s \in slugs : UsableProject(LoadOf(config, env, s).project)
    BY <1>1, <2>1, LoadedIsUsable
  <2> QED
    BY <1>2, <2>1, <2>2
<1>3. CASE request.by = "slug"
  <2>1. outcome = load_config(config, env, request.slug, FALSE)
    BY <1>3, RequestParts
  <2>2. outcome = LoadOf(config, env, request.slug)
    BY <2>1, Zenon DEF LoadOf
  <2> QED
    BY <1>1, <1>3, <2>2, LoadedIsUsable
<1>4. CASE request.by = "source"
  <2>1. PICK n, g :
          n \in DOMAIN config.projects /\ outcome = ResultOf(config, g, n) /\ LoadedAs(config, env, g, n)
    BY <1>4, SourceIsLoaded
  <2>2. UsableProject(Project(g, config.projects[n]))
    BY <1>1, <2>1, OnlyOneSlug, SelectedEntry
  <2> QED
    BY <1>4, <2>1, <2>2, ResultParts
<1> QED
  BY <1>1, <1>2, <1>3, <1>4

LEMMA CommandNames == CommandInv => CommandGetsWhatItNames
<1> SUFFICES ASSUME CommandInv, Loaded
             PROVE  /\ request.by = "all" =>
                         {p.slug : p \in outcome.projects} = {Slug(env, x) : x \in Entries}
                    /\ request.by = "slug" =>
                         (request.slug # Default => outcome.project.slug = request.slug)
                    /\ request.by = "source" =>
                         /\ outcome.project.source = request.source
                         /\ request.slug = Default =>
                              \A x \in Entries :
                                SourceName(env, Slug(env, x), x) = request.source
                                  => Slug(env, x) = outcome.project.slug
  <2>1. CASE ~Loaded
    BY <2>1 DEF CommandGetsWhatItNames
  <2>2. CASE CommandInv /\ Loaded
    <3>1. request.by \in {"source", "slug", "all"}
      BY <2>2, RequestParts
    <3> QED
      BY <2>2, <3>1 DEF CommandGetsWhatItNames
  <2> QED
    BY <2>1, <2>2
<1>1. FileOK(config) /\ EnvOK(env) /\ outcome.ok
  BY RequestParts
<1>2. ASSUME request.by = "all"
      PROVE  {p.slug : p \in outcome.projects} = {Slug(env, x) : x \in Entries}
  <2> DEFINE slugs == {Slug(env, config.projects[n]) : n \in DOMAIN config.projects}
  <2>1. /\ outcome.projects = {LoadOf(config, env, s).project : s \in slugs}
        /\ \A s \in slugs : LoadOf(config, env, s).ok /\ s # Default
    BY <1>2, AllOfThem
  <2>2. slugs = {Slug(env, x) : x \in Entries}
    BY DEF Entries
  <2> HIDE DEF slugs
  <2>3. \A s \in slugs : LoadOf(config, env, s).project.slug = s
    <3> TAKE s \in slugs
    <3>1. PICK n \in DOMAIN config.projects :
            /\ LoadOf(config, env, s) = ResultOf(config, env, n)
            /\ Slug(env, config.projects[n]) = s
      BY <1>1, <2>1, LoadOfSlug
    <3> QED
      BY <3>1, ResultParts
  <2>4. {p.slug : p \in outcome.projects} = slugs
    BY <2>1, <2>3
  <2> QED
    BY <2>2, <2>4
<1>3. ASSUME request.by = "slug", request.slug # Default
      PROVE  outcome.project.slug = request.slug
  <2>1. outcome = LoadOf(config, env, request.slug)
    <3>1. outcome = load_config(config, env, request.slug, FALSE)
      BY <1>3, RequestParts
    <3> QED
      BY <3>1, Zenon DEF LoadOf
  <2>2. PICK n \in DOMAIN config.projects :
          /\ outcome = ResultOf(config, env, n)
          /\ Slug(env, config.projects[n]) = request.slug
    BY <1>1, <1>3, <2>1, LoadOfSlug
  <2> QED
    BY <2>2, ResultParts
<1>4. ASSUME request.by = "source"
      PROVE  /\ outcome.project.source = request.source
             /\ request.slug = Default =>
                  \A x \in Entries : SourceName(env, Slug(env, x), x) = request.source
                                       => Slug(env, x) = outcome.project.slug
  <2>1. PICK n, g :
          /\ n \in DOMAIN config.projects
          /\ outcome = ResultOf(config, g, n)
          /\ LoadedAs(config, env, g, n)
          /\ Project(g, config.projects[n]).source = request.source
          /\ request.slug = Default => WithSource(config, env, request.source) = {n}
    BY <1>4, SourceIsLoaded
  <2>2. outcome.project = Project(g, config.projects[n])
    BY <2>1 DEF ResultOf
  <2>3. outcome.project.slug = Slug(env, config.projects[n])
    BY <1>1, <2>1, <2>2, OnlyOneSlug DEF Project
  <2>4. request.source[1] \in Value
    BY <1>4, RequestParts DEF Sources
  <2>5. ASSUME request.slug = Default, NEW m \in DOMAIN config.projects,
               SourceName(env, Slug(env, config.projects[m]), config.projects[m]) = request.source
        PROVE  m = n
    <3> DEFINE x == config.projects[m]
    <3>1. x \in Entry
      BY <1>1, FileEntries
    <3>2. x.slug \in Field /\ x.name \in Field \cup {Default}
      BY <3>1, EntryFields
    <3> HIDE DEF x
    <3>3. RawSource(env, x) = SourceName(env, Slug(env, x), x)
      <4>1. SourceName(env, Slug(env, x), x)[1] \in Value
        BY <2>4, <2>5 DEF x
      <4>2. CASE x.name = Default
        <5>1. Slug(env, x) \in Value
          BY <4>1, <4>2 DEF SourceName
        <5>2. RawExpand(env, x.slug) = Slug(env, x)
          BY <1>1, <3>2, <5>1, Expansion, RawExpansion DEF Slug, Resolved
        <5> QED
          BY <4>2, <5>2 DEF RawSource, SourceName
      <4>3. CASE x.name # Default
        <5>1. x.name \in Field /\ Expand(env, x.name) \in Value
          BY <3>2, <4>1, <4>3 DEF SourceName
        <5>2. RawExpand(env, x.name) = Expand(env, x.name)
          BY <1>1, <5>1, Expansion, RawExpansion DEF Resolved
        <5> QED
          BY <4>3, <5>2 DEF RawSource, SourceName
      <4> QED
        BY <4>2, <4>3
    <3>4. m \in WithSource(config, env, request.source)
      BY <2>5, <3>3 DEF WithSource, x
    <3> QED
      BY <2>1, <2>5, <3>4
  <2> QED
    BY <2>1, <2>2, <2>3, <2>5 DEF Entries
<1> QED
  BY <1>2, <1>3, <1>4

LEMMA EntryFound ==
  ASSUME FileOK(config), NEW g, NEW n, LoadedAs(config, env, g, n),
         NEW project, project.slug = Slug(env, config.projects[n])
  PROVE  EntryOf(project) = config.projects[n]
<1>1. /\ n \in DOMAIN config.projects
      /\ \A m \in DOMAIN config.projects :
           Slug(env, config.projects[m]) = Slug(env, config.projects[n]) => m = n
  BY OnlyOneSlug DEF LoadedAs
<1> DEFINE P(x) == x \in Entries /\ Slug(env, x) = project.slug
<1>2. config.projects[n] \in Entries /\ Slug(env, config.projects[n]) = project.slug
  BY <1>1 DEF Entries
<1>3. \A x \in Entries : Slug(env, x) = project.slug => x = config.projects[n]
  BY <1>1 DEF Entries
<1> QED
  BY <1>2, <1>3 DEF EntryOf

-----------------------------------------------------------------------------
(* With the variables of its project only. *)

ParsesLeniently(e, x) == Parses(e, x, FALSE)

LEMMA SameProject ==
  ASSUME NEW e, NEW g, NEW x \in Entry, \A v \in EveryRef(x) : g[v] = e[v],
         ParsesSelected(e, x)
  PROVE  Project(g, x) = Project(e, x) /\ ParsesSelected(g, x)
<1> DEFINE Fields == Expanded(x) \cup {x.queue_url_env, x.bot_token_env}
                       \cup ({x.chat_id_env} \ {Default})
<1>1. \A f \in Fields :
        /\ Expand(g, f) = Expand(e, f) /\ (f \in Name => Get(g, f) = Get(e, f))
        /\ Resolved(g, f) <=> Resolved(e, f)
        /\ Given(g, f) <=> Given(e, f)
  <2> TAKE f \in Fields
  <2>1. f \in Field
    BY EntryFields DEF Field
  <2>2. f \in Name => g[f] = e[f]
    BY DEF EveryRef
  <2> QED
    BY <2>1, <2>2, SameVariable
<1>2. IsSet(g, x.queue_url_env) <=> IsSet(e, x.queue_url_env)
  BY EntryFields DEF EveryRef, IsSet
<1>3. /\ x.slug \in Fields /\ x.max_messages \in Fields
      /\ x.chat_id # Default => x.chat_id \in Fields
      /\ x.chat_id_env # Default => x.chat_id_env \in Fields /\ x.chat_id_env \in Name
      /\ x.queue_url_env \in Name /\ x.bot_token_env \in Name
      /\ x.incident_assignee \in Fields /\ x.default_priority \in Fields
      /\ x.queue_url_env \in Fields /\ x.bot_token_env \in Fields
      /\ x.name # Default => x.name \in Fields
      /\ Numbers(x) \subseteq Fields /\ Expanded(x) \subseteq Fields
  BY EntryFields DEF Expanded, Numbers
<1> HIDE DEF Fields
<1>10. ChatId(g, x) = ChatId(e, x)
  BY <1>1, <1>3 DEF ChatId
<1>4. Slug(g, x) = Slug(e, x)
  BY <1>1, <1>3 DEF Slug
<1>5. SourceName(g, Slug(g, x), x) = SourceName(e, Slug(e, x), x)
  BY <1>1, <1>3, <1>4 DEF SourceName
<1>6. Project(g, x) = Project(e, x)
  BY <1>1, <1>3, <1>4, <1>5, <1>10 DEF Project
<1>7. NumbersParse(e, x, TRUE) /\ StrictParse(e, x)
  BY DEF ParsesSelected, Parses
<1>8. StrictParse(g, x)
  BY <1>1, <1>2, <1>3, <1>7, <1>10 DEF StrictParse
<1>9. NumbersParse(g, x, TRUE)
  BY <1>1, <1>3, <1>7 DEF NumbersParse
<1> QED
  BY <1>6, <1>8, <1>9 DEF ParsesSelected, Parses

(* A variable that is gone is no mistake in a project that is not selected.   *)
LEMMA LenientlyWithout ==
  ASSUME NEW e, NEW g, NEW x \in Entry, \A v \in Name : g[v] = e[v] \/ g[v] = Unset,
         ParsesLeniently(e, x)
  PROVE  ParsesLeniently(g, x)
<1>1. \A f \in Numbers(x) : Expand(e, f) \in Number \/ ~Resolved(e, f)
  BY DEF ParsesLeniently, Parses, NumbersParse
<1>2. \A f \in Numbers(x) : Expand(g, f) \in Number \/ ~Resolved(g, f)
  <2> TAKE f \in Numbers(x)
  <2>1. f \in Field
    BY EntryFields
  <2>2. CASE f \in Name => g[f] = e[f]
    BY <1>1, <2>1, <2>2, SameVariable
  <2>3. CASE f \in Name /\ g[f] = Unset
    <3>1. ~IsSet(g, f)
      BY <2>3, FieldsAssumption DEF IsSet
    <3>2. ~Resolved(g, f)
      BY <2>1, <2>3, <3>1, Expansion DEF Given
    <3> QED
      BY <3>2
  <2> QED
    BY <2>2, <2>3
<1> QED
  BY <1>2 DEF ParsesLeniently, Parses, NumbersParse

LEMMA OwnSuffice == CommandInv => OwnVariablesSuffice
<1> SUFFICES ASSUME CommandInv, Loaded, request.by = "slug", request.slug # Default
             PROVE  LET again == LoadOf(config, OnlyWith(Needed(EntryOf(outcome.project))),
                                        request.slug)
                    IN again.ok /\ again.project = outcome.project
  BY Zenon DEF OwnVariablesSuffice, LoadOf
<1>1. FileOK(config) /\ EnvOK(env) /\ outcome.ok
  BY RequestParts
<1>2. outcome = load_config(config, env, request.slug, FALSE)
  BY RequestParts
<1>3. load_config(config, env, request.slug, FALSE).ok
  BY <1>1, <1>2, Zenon
<1>4. PICK n \in DOMAIN config.projects :
        /\ outcome = ResultOf(config, env, n)
        /\ Selects(config, env, request.slug, FALSE, n)
        /\ Slug(env, config.projects[n]) = request.slug
        /\ LoadedAs(config, env, env, n)
  <2>1. \E n \in DOMAIN config.projects :
           /\ load_config(config, env, request.slug, FALSE) = ResultOf(config, env, n)
           /\ Selects(config, env, request.slug, FALSE, n)
           /\ Slug(env, config.projects[n]) = request.slug /\ request.slug \in Value
           /\ LoadedAs(config, env, env, n)
    BY <1>1, <1>3, LoadBySlug
  <2> QED
    BY <1>2, <2>1, Zenon
<1> DEFINE x == config.projects[n]
           g == OnlyWith(Needed(x))
<1>5. outcome.project = Project(env, x) /\ outcome.project.slug = Slug(env, x)
  BY <1>4, ResultParts
<1>6. EntryOf(outcome.project) = x
  BY <1>1, <1>4, <1>5, EntryFound
<1>7. /\ \A m \in DOMAIN config.projects : config.projects[m] \in Entry
      /\ \A m \in DOMAIN config.projects : config.projects[m].slug \in Field
      /\ config.state_dir \in Field
  BY <1>1, FileEntries, EntryFields DEF FileOK
<1>8. /\ \A v \in Name : g[v] = env[v] \/ g[v] = Unset
      /\ \A v \in Needed(x) : g[v] = env[v]
  BY DEF OnlyWith, Needed
<1>9. /\ \A v \in EveryRef(x) : v \in Needed(x)
      /\ \A m \in DOMAIN config.projects :
           config.projects[m].slug \in Name => config.projects[m].slug \in Needed(x)
      /\ config.state_dir \in Name => config.state_dir \in Needed(x)
  BY DEF Needed, EveryRef, Entries
<1> HIDE DEF g
<1>10. \A m \in DOMAIN config.projects : Slug(g, config.projects[m]) = Slug(env, config.projects[m])
  BY <1>7, <1>8, <1>9, SameVariable DEF Slug
<1>11. Resolved(g, config.state_dir)
  BY <1>4, <1>7, <1>8, <1>9, SameVariable DEF Selects
<1>12. SlugsDiffer(config, g)
  BY <1>4, <1>10 DEF Selects, SlugsDiffer
<1>13. ParsesSelected(env, x)
  BY <1>1, <1>4, OnlyOneSlug
<1>14. Project(g, x) = Project(env, x) /\ ParsesSelected(g, x)
  BY <1>7, <1>8, <1>9, <1>13, SameProject
<1>15. \A m \in DOMAIN config.projects : Parses(g, config.projects[m], m = n)
  <2> TAKE m \in DOMAIN config.projects
  <2>1. CASE m = n
    <3>1. (m = n) = TRUE
      BY <2>1
    <3>2. Parses(g, config.projects[m], TRUE)
      BY <1>14, <2>1, Zenon DEF ParsesSelected, x
    <3> QED
      BY <3>1, <3>2, Zenon
  <2>2. CASE m # n
    <3>1. (m = n) = FALSE
      BY <2>2
    <3>2. Parses(env, config.projects[m], m = n)
      BY <1>4 DEF Selects
    <3>3. ParsesLeniently(env, config.projects[m])
      BY <3>1, <3>2, Zenon DEF ParsesLeniently
    <3>4. ParsesLeniently(g, config.projects[m])
      BY <1>7, <1>8, <3>3, LenientlyWithout
    <3>5. Parses(g, config.projects[m], FALSE)
      BY <3>4, Zenon DEF ParsesLeniently
    <3> QED
      BY <3>1, <3>5, Zenon
  <2> QED
    BY <2>1, <2>2
<1>16. Selects(config, g, request.slug, FALSE, n)
  <2>1. SelectedSlug(config, g, request.slug, FALSE) = request.slug
    BY DEF SelectedSlug
  <2>2. Slug(g, config.projects[n]) = request.slug
    BY <1>4, <1>10
  <2> QED
    BY <1>11, <1>12, <1>15, <2>1, <2>2, Zenon DEF Selects
<1>17. LoadOf(config, g, request.slug) = ResultOf(config, g, n)
  <2>1. load_config(config, g, request.slug, FALSE) = ResultOf(config, g, n)
    BY <1>1, <1>16, Loading
  <2> QED
    BY <2>1, Zenon DEF LoadOf
<1>18. LoadOf(config, g, request.slug).ok /\ LoadOf(config, g, request.slug).project = outcome.project
  BY <1>5, <1>14, <1>17, ResultParts
<1> QED
  BY <1>6, <1>18 DEF g

-----------------------------------------------------------------------------
(* What was filled in never shows. *)

LEMMA SinkFails ==
  ASSUME NEW e, NEW g, NEW x \in Entry, Fills(e, g, x),
         HealthSink(x, e, Project(g, x)) = "asked"
  PROVE  /\ IsSet(e, x.bot_token_env)
         /\ x.chat_id \notin Name => ChatId(e, x) # Empty
<1>1. ASSUME NEW f \in Name, ~IsSet(e, f)
      PROVE  Get(g, f) \in {Empty, Zero}
  <2>1. f \in Field
    BY DEF Field
  <2>2. CASE g[f] = e[f]
    BY <1>1, <2>1, <2>2, Expansion DEF IsSet
  <2>3. CASE g[f] = Zero
    BY <2>1, <2>3, Expansion
  <2> QED
    BY <2>2, <2>3 DEF Fills
<1>2. /\ Project(g, x).bot_token = Get(g, x.bot_token_env)
      /\ Project(g, x).chat_id = ChatId(g, x)
  BY DEF Project
<1>3. ~IsSet(e, x.bot_token_env) => Project(g, x).bot_token \in {Empty, Zero}
  BY <1>1, <1>2, EntryFields
<1>4. ASSUME x.chat_id \notin Name, ChatId(e, x) = Empty
      PROVE  /\ x.chat_id_env # Default => ~IsSet(e, x.chat_id_env)
             /\ Project(g, x).chat_id \in {Empty, Zero}
  <2>1. x.chat_id = Default
    <3>1. ASSUME x.chat_id \in Value PROVE FALSE
      <4>1. x.chat_id \in Field /\ x.chat_id # Default /\ x.chat_id # Empty
        BY <3>1, FieldsAssumption DEF Field
      <4>2. Expand(e, x.chat_id) = x.chat_id
        BY <3>1, <4>1, Expansion
      <4> QED
        BY <1>4, <4>1, <4>2 DEF ChatId
    <3> QED
      BY <1>4, <3>1, EntryFields DEF Field
  <2>2. ASSUME x.chat_id_env # Default
        PROVE  ~IsSet(e, x.chat_id_env) /\ ChatId(g, x) \in {Empty, Zero}
    <3>1. x.chat_id_env \in Name /\ x.chat_id_env \in Field
      BY <2>2, EntryFields DEF Field
    <3>2. Get(e, x.chat_id_env) = Empty
      BY <1>4, <2>1, <2>2 DEF ChatId
    <3>3. ~IsSet(e, x.chat_id_env)
      BY <3>2, FieldsAssumption DEF Get, IsSet
    <3>4. Get(g, x.chat_id_env) \in {Empty, Zero}
      BY <1>1, <3>1, <3>3
    <3> QED
      BY <2>1, <2>2, <3>3, <3>4 DEF ChatId
  <2>3. x.chat_id_env = Default => ChatId(g, x) = Empty
    BY <2>1 DEF ChatId
  <2> QED
    BY <1>2, <2>2, <2>3
<1> DEFINE p == Project(g, x)
<1> HIDE DEF p
<1>5. HealthSink(x, e, p) = "asked"
  BY DEF p
<1>6. /\ ~(~IsSet(e, x.bot_token_env) /\ p.bot_token \in {Empty, Zero})
      /\ ~(/\ x.chat_id_env # Default /\ ~IsSet(e, x.chat_id_env)
           /\ p.chat_id \in {Empty, Zero})
      /\ p.chat_id # Empty
  BY <1>5 DEF HealthSink
<1>7. ASSUME x.chat_id \notin Name, ChatId(e, x) = Empty PROVE FALSE
  <2>1. /\ x.chat_id_env # Default => ~IsSet(e, x.chat_id_env)
        /\ p.chat_id \in {Empty, Zero}
    BY <1>4, <1>7 DEF p
  <2>2. x.chat_id_env = Default => p.chat_id = Empty
    <3>1. x.chat_id = Default \/ x.chat_id \in Value
      BY <1>7, EntryFields DEF Field
    <3>2. x.chat_id # Default => x.chat_id \in Field /\ x.chat_id # Empty
      BY <3>1, FieldsAssumption DEF Field
    <3>3. x.chat_id # Default => ChatId(e, x) = x.chat_id
      BY <3>1, <3>2, Expansion DEF ChatId
    <3>4. x.chat_id = Default
      BY <1>7, <3>2, <3>3
    <3> QED
      BY <1>2, <3>4 DEF ChatId, p
  <2> QED
    BY <1>6, <2>1, <2>2
<1> QED
  BY <1>3, <1>6, <1>7 DEF p

LEMMA StrictAgrees ==
  ASSUME NEW e, EnvOK(e), NEW g, NEW x \in Entry, Fills(e, g, x), ParsesSelected(e, x)
  PROVE  Project(e, x) = [Project(g, x) EXCEPT !.bot_token = Project(e, x).bot_token]
<1>1. \A f \in Expanded(x) : Expand(g, f) = Expand(e, f)
  BY SelectedEntry, EntryFields, StaysExpanded
<1>6. ChatId(g, x) = ChatId(e, x)
  <2>1. CASE x.chat_id # Default
    BY <1>1, <2>1, SelectedEntry DEF ChatId
  <2>2. CASE x.chat_id = Default /\ x.chat_id_env # Default
    <3>1. ChatId(e, x) = Get(e, x.chat_id_env) /\ ChatId(e, x) \in Value
      BY <2>2, SelectedEntry DEF ChatId
    <3>2. x.chat_id_env \in Name /\ IsSet(e, x.chat_id_env)
      BY <2>2, <3>1, EntryFields, FieldsAssumption DEF Get
    <3>3. Get(g, x.chat_id_env) = Get(e, x.chat_id_env)
      BY <3>2 DEF Fills, Get, IsSet
    <3> QED
      BY <2>2, <3>1, <3>3 DEF ChatId
  <2>3. CASE x.chat_id = Default /\ x.chat_id_env = Default
    BY <2>3 DEF ChatId
  <2> QED
    BY <2>1, <2>2, <2>3
<1>2. Get(g, x.queue_url_env) = Get(e, x.queue_url_env)
  <2>1. /\ x.queue_url_env \in Field /\ x.queue_url_env \in Name
        /\ Given(e, x.queue_url_env)
    BY SelectedEntry, EntryFields DEF Given, Field
  <2> QED
    BY <2>1, StaysExpanded
<1>3. /\ x.slug \in Expanded(x) /\ x.max_messages \in Expanded(x)
      /\ x.incident_assignee \in Expanded(x) /\ x.default_priority \in Expanded(x)
      /\ x.name # Default => x.name \in Expanded(x)
  BY DEF Expanded
<1>4. Slug(g, x) = Slug(e, x)
  BY <1>1, <1>3 DEF Slug
<1>5. SourceName(g, Slug(g, x), x) = SourceName(e, Slug(e, x), x)
  BY <1>1, <1>3, <1>4 DEF SourceName
<1> QED
  BY <1>1, <1>2, <1>3, <1>4, <1>5, <1>6 DEF Project

LEMMA RealSource == CommandInv => SourceIsReal
<1> SUFFICES ASSUME CommandInv, Loaded, request.by = "source"
             PROVE  LET strict == LoadOf(config, env, outcome.project.slug)
                        entry == EntryOf(outcome.project)
                    IN /\ IsSet(env, entry.queue_url_env)
                       /\ Resolved(env, entry.max_messages)
                       /\ strict.ok => strict.project =
                            [outcome.project EXCEPT !.bot_token = strict.project.bot_token]
                       /\ IsSet(env, entry.bot_token_env)
                            => outcome.project.bot_token = env[entry.bot_token_env]
                       /\ HealthSink(entry, env, outcome.project) = "asked" =>
                            /\ IsSet(env, entry.bot_token_env)
                            /\ entry.chat_id \notin Name => ChatId(env, entry) # Empty
  BY Zenon DEF SourceIsReal, LoadOf
<1>1. FileOK(config) /\ EnvOK(env) /\ outcome.ok
  BY RequestParts
<1>2. PICK n, g :
        n \in DOMAIN config.projects /\ outcome = ResultOf(config, g, n) /\ LoadedAs(config, env, g, n)
  BY SourceIsLoaded
<1> DEFINE x == config.projects[n]
           strict == LoadOf(config, env, outcome.project.slug)
<1>3. /\ x \in Entry /\ EnvOK(g) /\ ParsesSelected(g, x) /\ Slug(g, x) = Slug(env, x)
      /\ \A m \in DOMAIN config.projects : Slug(env, config.projects[m]) = Slug(env, x) => m = n
  BY <1>1, <1>2, OnlyOneSlug
<1>4. Fills(env, g, x) /\ Slug(env, x) \in Value
  BY <1>2 DEF LoadedAs
<1>5. outcome.project = Project(g, x) /\ outcome.project.slug = Slug(env, x)
  BY <1>2, <1>3, ResultParts
<1>6. EntryOf(outcome.project) = x
  BY <1>1, <1>2, <1>5, EntryFound
<1>7. ASSUME strict.ok
      PROVE  strict.project = [outcome.project EXCEPT !.bot_token = strict.project.bot_token]
  <2>1. outcome.project.slug # Default
    BY <1>4, <1>5, FieldsAssumption
  <2>2. PICK k \in DOMAIN config.projects :
          /\ strict.project = Project(env, config.projects[k])
          /\ Slug(env, config.projects[k]) = outcome.project.slug
          /\ LoadedAs(config, env, env, k)
    BY <1>1, <1>7, <2>1, LoadOfSlug
  <2>3. k = n
    BY <1>3, <1>5, <2>2
  <2>4. ParsesSelected(env, x)
    BY <1>1, <2>2, <2>3, OnlyOneSlug
  <2>5. Project(env, x) = [Project(g, x) EXCEPT !.bot_token = Project(env, x).bot_token]
    BY <1>1, <1>3, <1>4, <2>4, StrictAgrees
  <2> QED
    BY <1>5, <2>2, <2>3, <2>5
<1> HIDE DEF x, strict
<1>8. IsSet(env, x.queue_url_env)
  BY <1>1, <1>3, <1>4, SelectedEntry, EntryFields DEF Fills, SourceRefs, IsSet
<1>9. Resolved(env, x.max_messages)
  <2>1. x.max_messages \in Field /\ Given(g, x.max_messages)
    BY <1>3, SelectedEntry
  <2>2. x.max_messages \in Name => g[x.max_messages] = env[x.max_messages]
    BY <1>4 DEF Fills, SourceRefs
  <2> QED
    BY <2>1, <2>2, SameVariable, Expansion
<1>10. ASSUME IsSet(env, x.bot_token_env)
       PROVE  outcome.project.bot_token = env[x.bot_token_env]
  <2>1. x.bot_token_env \in Name /\ x.bot_token_env \in Field
    BY <1>3, EntryFields DEF Field
  <2>2. g[x.bot_token_env] = env[x.bot_token_env]
    BY <1>4, <1>10, <2>1 DEF Fills
  <2>3. Get(g, x.bot_token_env) = env[x.bot_token_env]
    BY <1>10, <2>1, <2>2, Expansion DEF IsSet
  <2> QED
    BY <1>5, <2>3 DEF Project
<1>11. HealthSink(x, env, outcome.project) = "asked" =>
         /\ IsSet(env, x.bot_token_env)
         /\ x.chat_id \notin Name => ChatId(env, x) # Empty
  BY <1>3, <1>4, <1>5, SinkFails
<1> QED
  BY <1>6, <1>7, <1>8, <1>9, <1>10, <1>11, Zenon DEF strict

-----------------------------------------------------------------------------
(* From the wizard to the command. *)

(* Answers that are kept are accepted ones, and every command was given what  *)
(* load_config makes of the files and of what was asked for.                  *)
THEOREM InstallInvariant == InstallSpec => []InstallInv
BY InstallFirst, InstallStep, PTL DEF InstallSpec

(* run_setup_wizard: whatever is answered, and however many projects there    *)
(* are, no later answer takes away the variable of an earlier one.            *)
THEOREM AnswersAreKept == InstallSpec => []EachItsOwn
<1>1. InstallInv => EachItsOwn
  BY DEF InstallInv, DialogueInv
<1> QED
  BY <1>1, InstallInvariant, PTL

(* What the wizard writes is what load_config reads, for every project.       *)
THEOREM WhatIsWrittenLoads == InstallSpec => []WrittenLoads
<1>1. InstallInv => WrittenLoads
  BY WrittenIsRead DEF InstallInv
<1> QED
  BY <1>1, InstallInvariant, PTL

(* Only accepted answers are kept, and a command that starts has a usable     *)
(* project: numbers that are numbers, a queue, a channel, a slug.             *)
THEOREM CommandsAreUsable == InstallSpec => []InstallationTypeOK
<1>1. InstallInv => InstallationTypeOK
  BY DialogueTypes, CommandTypes DEF InstallInv, InstallationTypeOK
<1> QED
  BY <1>1, InstallInvariant, PTL

(* load_config: a command for one project is not disturbed when variables of  *)
(* the others are gone.                                                       *)
THEOREM OthersMayBeMissing == InstallSpec => []OwnVariablesSuffice
<1>1. InstallInv => OwnVariablesSuffice
  BY OwnSuffice DEF InstallInv
<1> QED
  BY <1>1, InstallInvariant, PTL

(* cli.py: a command gets the project or source it names and no other, though *)
(* the raw file is searched before any variable is expanded by config.py.     *)
THEOREM NamedIsFound == InstallSpec => []CommandGetsWhatItNames
<1>1. InstallInv => CommandGetsWhatItNames
  BY CommandNames DEF InstallInv
<1> QED
  BY <1>1, InstallInvariant, PTL

(* _env_for_sqs_source_load: the 0 that is filled in for missing variables    *)
(* never becomes a queue and never hides what is set; health never asks       *)
(* Telegram about it as a bot, nor as a channel where chat_id_env names the   *)
(* variable (of a chat_id: ${NAME} nothing is said: there it does).           *)
THEOREM PlaceholdersNeverShow == InstallSpec => []SourceIsReal
<1>1. InstallInv => SourceIsReal
  BY RealSource DEF InstallInv
<1> QED
  BY <1>1, InstallInvariant, PTL
=============================================================================
