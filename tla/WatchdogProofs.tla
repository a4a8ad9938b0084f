--------------------------- MODULE WatchdogProofs ---------------------------
(***************************************************************************)
(* Theorems about Watchdog, for every configuration of projects.           *)
(***************************************************************************)
EXTENDS Watchdog, FiniteSetTheorems, SequenceTheorems, TLAPS

(* No two projects of a configuration watch one incident, whatever its scope   *)
(* and fingerprint, also if they share their board: a stalled incident is not  *)
(* reported to the channel of a project that it does not belong to             *)
(* (_belongs_to_project, _belongs_to_scope).                                   *)
THEOREM OneWatcher ==
  ASSUME NEW i \in Incident, NEW p \in Project, NEW q \in Project,
         Watches(p, i), Watches(q, i)
  PROVE  p = q
<1>1. BelongsToProject(i, p) /\ BelongsToProject(i, q)
  BY DEF Watches
<1>2. CASE ScopeOfIncident[i].project # NoProject
  BY <1>1, <1>2 DEF BelongsToProject
<1>3. CASE ScopeOfIncident[i].project = NoProject
  <2>1. \A r \in Project : BelongsToProject(i, r) =>
          NamespaceOf[i] = (IF r = DefaultSlug THEN NoProject ELSE r)
    BY <1>3 DEF BelongsToProject
  <2>2. CASE NamespaceOf[i] = NoProject
    <3>1. \A r \in Project : BelongsToProject(i, r) => r = DefaultSlug
      BY <2>1, <2>2, SlugAssumption
    <3> QED
      BY <1>1, <3>1
  <2>3. CASE NamespaceOf[i] # NoProject
    <3>1. \A r \in Project : BelongsToProject(i, r) => NamespaceOf[i] = r
      BY <2>1, <2>3
    <3> QED
      BY <1>1, <3>1
  <2> QED
    BY <2>2, <2>3
<1> QED
  BY <1>2, <1>3

-----------------------------------------------------------------------------
(* Lists of incidents. *)

Listed(s, j) == \E n \in DOMAIN s : s[n] = j

(* What is left of a list without repetition does not have its first entry.    *)
LEMMA RestOfList ==
  ASSUME NEW s \in Seq(Incident), IsInjective(s), s # <<>>
  PROVE  /\ Tail(s) \in Seq(Incident)
         /\ IsInjective(Tail(s))
         /\ \A j : Listed(Tail(s), j) => Listed(s, j) /\ j # Head(s)
<1> DEFINE t == Tail(s)
<1>1. /\ Len(s) \in Nat \ {0} /\ DOMAIN s = 1..Len(s) /\ Head(s) = s[1]
      /\ t \in Seq(Incident) /\ DOMAIN t = 1..Len(s) - 1
      /\ \A n \in 1..Len(s) - 1 : t[n] = s[n + 1]
  BY LenProperties, HeadTailProperties
<1> HIDE DEF t
<1>2. \A n \in 1..Len(s) - 1 : n + 1 \in 1..Len(s) /\ n + 1 # 1
  BY <1>1
<1>3. IsInjective(t)
  <2> SUFFICES ASSUME NEW a \in 1..Len(s) - 1, NEW b \in 1..Len(s) - 1, t[a] = t[b]
               PROVE  a = b
    BY <1>1 DEF IsInjective
  <2>1. s[a + 1] = s[b + 1] /\ a + 1 \in DOMAIN s /\ b + 1 \in DOMAIN s
    BY <1>1, <1>2
  <2>2. a + 1 = b + 1
    BY <2>1 DEF IsInjective
  <2> QED
    BY <2>2
<1>4. \A j : Listed(t, j) => Listed(s, j) /\ j # Head(s)
  <2>1. 1 \in 1..Len(s)
    BY <1>1
  <2> QED
    BY <1>1, <1>2, <2>1 DEF Listed, IsInjective
<1> QED
  BY <1>1, <1>3, <1>4 DEF t

(* The members of a finite set in some order: a list without repetition.      *)
LEMMA ListOfSet ==
  ASSUME NEW S \in SUBSET Incident, IsFiniteSet(S), NEW f \in SetToSeqs(S)
  PROVE  /\ f \in Seq(Incident)
         /\ IsInjective(f)
         /\ \A j : Listed(f, j) => j \in S
<1>1. Cardinality(S) \in Nat
  BY FS_CardinalityType
<1>2. /\ f \in [1..Cardinality(S) -> S]
      /\ \A m, n \in 1..Cardinality(S) : m # n => f[m] # f[n]
  BY DEF SetToSeqs
<1>3. f \in Seq(Incident)
  <2>1. f \in [1..Cardinality(S) -> Incident]
    BY <1>2
  <2> QED
    BY <1>1, <2>1, SeqDef
<1>4. IsInjective(f)
  BY <1>2 DEF IsInjective
<1>5. \A j : Listed(f, j) => j \in S
  BY <1>2 DEF Listed
<1> QED
  BY <1>3, <1>4, <1>5

-----------------------------------------------------------------------------
(* A round. *)

(* The incidents a round still has to post for: each was opened, and none was  *)
(* reported by the watchdog less than StalledAfter ago; the reports that are   *)
(* posted first are about other incidents.                                     *)
Unreported ==
  \A i \in Incident : Listed(findings, i) =>
    /\ status[i] # "absent"
    /\ status[i] = "open" /\ channel[i] = "watchdog-stalled" => age[i] > StalledAfter

RoundInv ==
  /\ IsInjective(findings)
  /\ Unreported
  /\ pc \in {"send", "store"} => findings # <<>> /\ todo # <<>>
  /\ pc = "scan" /\ Projects # <<>> => todo # <<>>

WatchdogInv == WatchdogTypeOK /\ RoundInv

LEMMA MaxAgeType ==
  MaxAge \in Nat /\ AckSla < MaxAge /\ ProgressSla < MaxAge /\ StalledAfter < MaxAge
<1> DEFINE Slas == {AckSla, ProgressSla, StalledAfter}
<1>1. \E s \in Slas : \A r \in Slas : r <= s
  BY SlaAssumption
<1> QED
  BY <1>1, SlaAssumption DEF MaxAge

LEMMA TypeParts ==
  ASSUME WatchdogTypeOK
  PROVE  /\ \A i \in Incident : age[i] \in 0..MaxAge /\ age[i] \in Int
         /\ findings \in Seq(Incident)
BY MaxAgeType DEF WatchdogTypeOK

LEMMA InvInit == Init => WatchdogInv
<1> SUFFICES ASSUME Init PROVE WatchdogInv
  OBVIOUS
<1>1. <<>> \in Seq(Incident) /\ <<>> \in Seq(Project) /\ DOMAIN <<>> = {}
  BY EmptySeq
<1>2. WatchdogTypeOK
  <2>1. cut \in BOOLEAN
    BY Zenon DEF Init
  <2>2. [i \in Incident |-> 0] \in [Incident -> 0..MaxAge]
    BY MaxAgeType
  <2> QED
    BY <1>1, <2>1, <2>2, Zenon DEF WatchdogTypeOK, Init
<1>3. RoundInv
  BY <1>1 DEF RoundInv, Unreported, Listed, IsInjective, Init
<1> QED
  BY <1>2, <1>3 DEF WatchdogInv

(* The rows stay as they are.                                                  *)
LEMMA RowsKept ==
  ASSUME WatchdogInv, UNCHANGED rowVars,
         todo' \in Seq(Project), findings' \in Seq(Incident),
         pc' \in {"idle", "scan", "send", "store"}, cut' \in BOOLEAN,
         IsInjective(findings'), Unreported',
         pc' \in {"send", "store"} => findings' # <<>> /\ todo' # <<>>,
         pc' = "scan" /\ Projects # <<>> => todo' # <<>>
  PROVE  WatchdogInv'
<1>1. WatchdogTypeOK'
  BY DEF WatchdogInv, WatchdogTypeOK, rowVars
<1>2. RoundInv'
  BY DEF WatchdogInv, RoundInv, rowVars
<1> QED
  BY <1>1, <1>2 DEF WatchdogInv

(* The round is left alone: what it found stays due.                           *)
LEMMA RoundKept ==
  ASSUME WatchdogInv, UNCHANGED roundVars, Unreported',
         status' \in [Incident -> {"absent", "open", "self_recovered", "resolved"}],
         channel' \in [Incident -> {"none", "progress", "watchdog-stalled", "final"}],
         age' \in [Incident -> 0..MaxAge]
  PROVE  WatchdogInv'
<1>1. WatchdogTypeOK'
  BY DEF WatchdogInv, WatchdogTypeOK, roundVars
<1>2. RoundInv'
  BY DEF WatchdogInv, RoundInv, roundVars
<1> QED
  BY <1>1, <1>2 DEF WatchdogInv

LEMMA InvTick == WatchdogInv /\ Tick => WatchdogInv'
<1> SUFFICES ASSUME WatchdogInv, Tick PROVE WatchdogInv'
  OBVIOUS
<1>1. WatchdogTypeOK /\ RoundInv
  BY DEF WatchdogInv
<1>2. UNCHANGED <<status, channel, roundVars>>
      /\ age' = [i \in Incident |->
                   IF status[i] = "open" /\ age[i] < MaxAge THEN age[i] + 1 ELSE age[i]]
  BY DEF Tick
<1>3. \A i \in Incident : age'[i] \in 0..MaxAge /\ age'[i] >= age[i]
  BY <1>1, <1>2, TypeParts, MaxAgeType
<1>4. age' \in [Incident -> 0..MaxAge]
  BY <1>2, <1>3
<1>5. Unreported'
  <2> SUFFICES ASSUME NEW i \in Incident, Listed(findings, i)
               PROVE  /\ status[i] # "absent"
                      /\ status[i] = "open" /\ channel[i] = "watchdog-stalled"
                           => age'[i] > StalledAfter
    BY <1>2 DEF Unreported, roundVars
  <2>1. /\ status[i] # "absent"
        /\ status[i] = "open" /\ channel[i] = "watchdog-stalled" => age[i] > StalledAfter
    BY <1>1 DEF RoundInv, Unreported
  <2>2. age[i] \in Int /\ age'[i] \in Int /\ StalledAfter \in Int
    BY <1>1, <1>3, TypeParts, MaxAgeType, SlaAssumption
  <2> QED
    BY <2>1, <2>2, <1>3
<1>6. /\ status' \in [Incident -> {"absent", "open", "self_recovered", "resolved"}]
      /\ channel' \in [Incident -> {"none", "progress", "watchdog-stalled", "final"}]
  BY <1>1, <1>2 DEF WatchdogTypeOK
<1> QED
  BY <1>2, <1>4, <1>5, <1>6, RoundKept

LEMMA InvOpenIncident ==
  ASSUME WatchdogInv, NEW i \in Incident, OpenIncident(i)
  PROVE  WatchdogInv'
<1>1. WatchdogTypeOK /\ RoundInv
  BY DEF WatchdogInv
<1>2. /\ status[i] = "absent" /\ status' = [status EXCEPT ![i] = "open"]
      /\ UNCHANGED <<channel, age, roundVars>>
  BY DEF OpenIncident
<1>3. /\ status' \in [Incident -> {"absent", "open", "self_recovered", "resolved"}]
      /\ \A j \in Incident : status'[j] = IF j = i THEN "open" ELSE status[j]
  BY <1>1, <1>2 DEF WatchdogTypeOK
<1>4. Unreported'
  BY <1>1, <1>2, <1>3 DEF RoundInv, Unreported, roundVars
<1> QED
  BY <1>1, <1>2, <1>3, <1>4, RoundKept DEF WatchdogTypeOK

LEMMA InvReport ==
  ASSUME WatchdogInv, NEW i \in Incident, Report(i)
  PROVE  WatchdogInv'
<1>1. WatchdogTypeOK /\ RoundInv
  BY DEF WatchdogInv
<1>2. /\ status[i] = "open"
      /\ channel' = [channel EXCEPT ![i] = "progress"]
      /\ age' = [age EXCEPT ![i] = 0]
      /\ UNCHANGED <<status, roundVars>>
  BY DEF Report
<1>3. /\ channel' \in [Incident -> {"none", "progress", "watchdog-stalled", "final"}]
      /\ \A j \in Incident : channel'[j] = IF j = i THEN "progress" ELSE channel[j]
      /\ age' \in [Incident -> 0..MaxAge]
      /\ \A j \in Incident : j # i => age'[j] = age[j]
  BY <1>1, <1>2, MaxAgeType DEF WatchdogTypeOK
<1>4. Unreported'
  BY <1>1, <1>2, <1>3 DEF RoundInv, Unreported, roundVars
<1> QED
  BY <1>1, <1>2, <1>3, <1>4, RoundKept DEF WatchdogTypeOK

LEMMA InvClose ==
  ASSUME WatchdogInv, NEW i \in Incident, Close(i)
  PROVE  WatchdogInv'
<1>1. WatchdogTypeOK /\ RoundInv
  BY DEF WatchdogInv
<1>2. age' = [age EXCEPT ![i] = 0] /\ UNCHANGED roundVars
  BY DEF Close
<1>3. /\ status' \in [Incident -> {"absent", "open", "self_recovered", "resolved"}]
      /\ status'[i] \in {"self_recovered", "resolved"}
      /\ channel' \in [Incident -> {"none", "progress", "watchdog-stalled", "final"}]
      /\ \A j \in Incident \ {i} : status'[j] = status[j] /\ channel'[j] = channel[j]
  <2>1. CASE status' = [status EXCEPT ![i] = "self_recovered"] /\ UNCHANGED channel
    BY <1>1, <2>1 DEF WatchdogTypeOK
  <2>2. CASE /\ status' = [status EXCEPT ![i] = "resolved"]
             /\ channel' = [channel EXCEPT ![i] = "final"]
    BY <1>1, <2>2 DEF WatchdogTypeOK
  <2> QED
    BY <2>1, <2>2 DEF Close
<1>4. /\ age' \in [Incident -> 0..MaxAge]
      /\ \A j \in Incident \ {i} : age'[j] = age[j]
  BY <1>1, <1>2, MaxAgeType DEF WatchdogTypeOK
<1>5. Unreported'
  BY <1>1, <1>2, <1>3, <1>4 DEF RoundInv, Unreported, roundVars
<1> QED
  BY <1>2, <1>3, <1>4, <1>5, RoundKept

LEMMA InvStartRound == WatchdogInv /\ StartRound => WatchdogInv'
BY ProjectsAssumption, RowsKept
DEF StartRound, WatchdogInv, WatchdogTypeOK, RoundInv, Unreported, rowVars

(* After the findings f the round goes on with the projects that are left, or  *)
(* it is over.                                                                 *)
LEMMA GoesOn ==
  ASSUME todo \in Seq(Project), todo # <<>>, NEW f \in Seq(Incident), Continue(todo, f)
  PROVE  /\ todo' \in Seq(Project) /\ findings' = f
         /\ pc' \in {"idle", "scan", "send", "store"}
         /\ pc' \in {"send", "store"} => findings' # <<>>
         /\ pc' # "idle" => todo' # <<>>
         /\ cut' = cut
<1>1. Tail(todo) \in Seq(Project)
  BY HeadTailProperties
<1> QED
  BY <1>1 DEF Continue

LEMMA InvScan ==
  ASSUME WatchdogInv, NEW p \in Project, Scan(p)
  PROVE  WatchdogInv'
<1> DEFINE due == {i \in Incident : Watches(p, i) /\ Due(i)}
<1>1. WatchdogTypeOK /\ RoundInv
  BY DEF WatchdogInv
<1>2. PICK f \in SetToSeqs(due) : Continue(todo, f)
  BY DEF Scan
<1>3. f \in Seq(Incident) /\ IsInjective(f) /\ \A j : Listed(f, j) => j \in due
  <2>1. due \in SUBSET Incident /\ IsFiniteSet(due)
    BY IncidentAssumption, FS_Subset
  <2> HIDE DEF due
  <2> QED
    BY <2>1, ListOfSet
<1>4. todo \in Seq(Project) /\ todo # <<>>
  <2>1. Projects # <<>>
    BY EmptySeq DEF Project
  <2> QED
    BY <1>1, <2>1 DEF WatchdogTypeOK, RoundInv, Scan
<1>5. /\ todo' \in Seq(Project) /\ findings' = f
      /\ pc' \in {"idle", "scan", "send", "store"}
      /\ pc' \in {"send", "store"} => findings' # <<>>
      /\ pc' # "idle" => todo' # <<>>
      /\ cut' = cut
  BY <1>2, <1>3, <1>4, GoesOn
<1>6. UNCHANGED rowVars
  BY DEF Scan
<1>7. Unreported'
  <2> SUFFICES ASSUME NEW i \in Incident, Listed(f, i)
               PROVE  /\ status[i] # "absent"
                      /\ status[i] = "open" /\ channel[i] = "watchdog-stalled"
                           => age[i] > StalledAfter
    BY <1>5, <1>6 DEF Unreported, rowVars
  <2>1. Due(i)
    BY <1>3
  <2> QED
    BY <2>1 DEF Due, Threshold
<1>8. cut' \in BOOLEAN
  BY <1>1, <1>5 DEF WatchdogTypeOK
<1> QED
  BY <1>3, <1>5, <1>6, <1>7, <1>8, RowsKept

LEMMA InvPost ==
  ASSUME WatchdogInv, NEW i \in Incident, Post(i)
  PROVE  WatchdogInv'
BY RowsKept DEF Post, WatchdogInv, WatchdogTypeOK, RoundInv, Unreported, rowVars

LEMMA InvStore ==
  ASSUME WatchdogInv, NEW i \in Incident, Store(i)
  PROVE  WatchdogInv'
<1>1. WatchdogTypeOK /\ RoundInv
  BY DEF WatchdogInv
<1>2. /\ pc = "store" /\ Head(findings) = i
      /\ channel' = [channel EXCEPT ![i] = "watchdog-stalled"]
      /\ age' = [age EXCEPT ![i] = 0]
      /\ Continue(todo, Tail(findings))
      /\ status' = status
  BY DEF Store
<1>4. /\ findings \in Seq(Incident) /\ findings # <<>> /\ IsInjective(findings)
      /\ todo \in Seq(Project) /\ todo # <<>>
  BY <1>1, <1>2 DEF WatchdogTypeOK, RoundInv
<1>5. /\ Tail(findings) \in Seq(Incident) /\ IsInjective(Tail(findings))
      /\ \A j : Listed(Tail(findings), j) => Listed(findings, j) /\ j # i
  BY <1>2, <1>4, RestOfList
<1>6. /\ todo' \in Seq(Project) /\ findings' = Tail(findings)
      /\ pc' \in {"idle", "scan", "send", "store"}
      /\ pc' \in {"send", "store"} => findings' # <<>>
      /\ pc' # "idle" => todo' # <<>>
      /\ cut' = cut
  BY <1>2, <1>4, <1>5, GoesOn
<1>7. /\ channel' \in [Incident -> {"none", "progress", "watchdog-stalled", "final"}]
      /\ age' \in [Incident -> 0..MaxAge]
      /\ \A j \in Incident \ {i} : channel'[j] = channel[j] /\ age'[j] = age[j]
  BY <1>1, <1>2, MaxAgeType DEF WatchdogTypeOK
<1>8. Unreported'
  BY <1>1, <1>2, <1>5, <1>6, <1>7 DEF RoundInv, Unreported
<1>9. WatchdogTypeOK'
  BY <1>1, <1>2, <1>5, <1>6, <1>7 DEF WatchdogTypeOK
<1>10. RoundInv'
  BY <1>5, <1>6, <1>8 DEF RoundInv
<1> QED
  BY <1>9, <1>10 DEF WatchdogInv

LEMMA InvEndRound == WatchdogInv /\ EndRound => WatchdogInv'
<1> SUFFICES ASSUME WatchdogInv, EndRound PROVE WatchdogInv'
  OBVIOUS
<1>1. <<>> \in Seq(Incident) /\ <<>> \in Seq(Project) /\ DOMAIN <<>> = {}
  BY EmptySeq
<1>2. IsInjective(<<>>) /\ \A j : ~Listed(<<>>, j)
  BY <1>1 DEF IsInjective, Listed
<1> QED
  BY <1>1, <1>2, RowsKept DEF EndRound, Unreported, WatchdogInv, WatchdogTypeOK

LEMMA InvNext == WatchdogInv /\ [Next]_vars => WatchdogInv'
<1> SUFFICES ASSUME WatchdogInv, [Next]_vars PROVE WatchdogInv'
  OBVIOUS
<1>1. CASE Others
  BY <1>1, InvTick, InvOpenIncident, InvReport, InvClose DEF Others
<1>2. CASE Round
  BY <1>2, InvStartRound, InvScan, InvPost, InvStore, InvEndRound DEF Round
<1>3. CASE UNCHANGED vars
  <2>1. UNCHANGED rowVars /\ UNCHANGED <<todo, findings, pc, cut>>
    BY <1>3 DEF vars, roundVars
  <2> QED
    BY <2>1, RowsKept DEF WatchdogInv, WatchdogTypeOK, RoundInv, Unreported, rowVars
<1> QED
  BY <1>1, <1>2, <1>3 DEF Next

(* The inductive invariant: the findings of the round have no repetition, and what is still to be posted was opened, and is *)
(* not an open incident that the watchdog reported a moment ago.               *)
THEOREM WatchdogInvariant == Spec => []WatchdogInv
<1> QED
  BY InvInit, InvNext, PTL DEF Spec

(* The watchdog repeats itself about an incident only after stalled_after of   *)
(* silence, however many projects and incidents a round goes through and       *)
(* whatever happens to the incidents between its scan and its posts.           *)
THEOREM NeverNags == Spec => []NoNagging
<1>1. WatchdogInv => NoNagging
  <2> SUFFICES ASSUME WatchdogInv, NEW i \in Incident, pc = "send", Head(findings) = i,
                      channel[i] = "watchdog-stalled", status[i] = "open"
               PROVE  age[i] > StalledAfter
    BY DEF NoNagging
  <2>1. findings \in Seq(Incident) /\ findings # <<>>
    BY DEF WatchdogInv, WatchdogTypeOK, RoundInv
  <2>2. 1 \in DOMAIN findings /\ findings[1] = i
    BY <2>1, LenProperties
  <2>3. Listed(findings, i)
    BY <2>2 DEF Listed
  <2> QED
    BY <2>3 DEF WatchdogInv, RoundInv, Unreported
<1> QED
  BY <1>1, WatchdogInvariant, PTL

=============================================================================
