--------------------------- MODULE MigrationsProofs ---------------------------
(***************************************************************************)
(* Proofs about Migrations, for any number of processes and of migrations. *)
(***************************************************************************)
EXTENDS Migrations, TLAPS

LEMMA TypeInit == Init => TypeOK
<1>. USE LastAssumption DEF LastAssumption
<1>. SUFFICES ASSUME Init PROVE TypeOK OBVIOUS
<1>1. PICK n \in 0 .. Last :
        /\ made = 1 .. n /\ recorded = 1 .. n
        /\ ready \in BOOLEAN
        /\ times = [v \in Versions |-> IF v <= n THEN 1 ELSE 0]
  BY DEF Init
<1>2. made \subseteq Versions /\ recorded \subseteq Versions BY <1>1 DEF Versions
<1>3. times \in [Versions -> Nat] BY <1>1
<1>4. Off \in [pc : Places, version : 1 .. Last + 1] BY DEF Off, Places
<1>. QED BY <1>1, <1>2, <1>3, <1>4 DEF Init, TypeOK

(***************************************************************************)
(* A migration under way: the process holds the lock, all versions before  *)
(* its own are recorded, and so are all versions once it is through.  The  *)
(* version it is about to commit is not: nobody else could commit it since *)
(* the lock was taken.                                                     *)
(***************************************************************************)
Locked(p) == At(p, "record") \/ At(p, "commit")

InTurn(p) ==
  /\ Locked(p) => writer = {p}
  /\ At(p, "apply") \/ Locked(p) => proc[p].version \in Versions
  /\ At(p, "check") \/ At(p, "apply") \/ Locked(p)
       => \A v \in Versions : v < proc[p].version => v \in recorded
  /\ At(p, "commit") => proc[p].version \notin recorded
  /\ At(p, "create") => proc[p].version = 1
  /\ At(p, "done") => recorded = Versions

MInv ==
  /\ AppliedInOrder
  /\ \A v \in Versions : times[v] = IF v \in recorded THEN 1 ELSE 0
  /\ \A p \in Processes : InTurn(p)

LEMMA MInvInit == Init => MInv
<1>. USE LastAssumption DEF LastAssumption
<1>. SUFFICES ASSUME Init PROVE MInv OBVIOUS
<1>1. PICK n \in 0 .. Last :
        /\ made = 1 .. n /\ recorded = 1 .. n
        /\ times = [v \in Versions |-> IF v <= n THEN 1 ELSE 0]
  BY DEF Init
<1>2. AppliedInOrder BY <1>1 DEF AppliedInOrder
<1>3. \A v \in Versions : times[v] = IF v \in recorded THEN 1 ELSE 0
  BY <1>1 DEF Versions
<1>4. \A p \in Processes : InTurn(p) BY DEF Init, InTurn, Locked, At, Off
<1>. QED BY <1>2, <1>3, <1>4 DEF MInv

(***************************************************************************)
(* A step of one process that leaves the file's migrations alone, and of   *)
(* the lock takes or gives back only its own, disturbs no other process.   *)
(***************************************************************************)
LEMMA OthersInTurn ==
  ASSUME TypeOK, MInv, NEW p \in Processes, NEW q \in Processes, q # p,
         proc'[q] = proc[q], recorded' = recorded,
         writer' \in {writer, writer \ {p}} \/ (writer = {} /\ writer' = {p})
  PROVE  InTurn(q)'
<1>1. InTurn(q) BY DEF MInv
<1>2. Locked(q) => writer' = {q} BY <1>1 DEF InTurn
<1>. QED BY <1>1, <1>2 DEF InTurn, Locked, At

LEMMA TypeStep == TypeOK /\ MInv /\ [Next]_vars => TypeOK'
<1>. USE LastAssumption DEF LastAssumption
<1>. SUFFICES ASSUME TypeOK, MInv, [Next]_vars PROVE TypeOK' OBVIOUS
<1>. DEFINE Rec == [pc : Places, version : 1 .. Last + 1]
<1>0. /\ proc \in [Processes -> Rec]
      /\ \A p \in Processes : proc[p].version \in 1 .. Last + 1
  BY DEF TypeOK
<1>1. ASSUME NEW p \in Processes, Start(p) PROVE TypeOK'
  BY <1>1, <1>0 DEF Start, Goto, TypeOK, Places, file
<1>2. ASSUME NEW p \in Processes, CreateTable(p) PROVE TypeOK'
  <2>1. Step(p, "check") \in Rec BY <1>0 DEF Step, Places
  <2>. QED BY <1>2, <2>1 DEF CreateTable, Goto, TypeOK
<1>3. ASSUME NEW p \in Processes, Check(p) PROVE TypeOK'
  <2>1. Step(p, "done") \in Rec /\ Step(p, "apply") \in Rec
    BY <1>0 DEF Step, Places
  <2>2. ~ Finished(proc[p].version) => NextVersion(p) \in Rec
    BY <1>0 DEF NextVersion, Finished, Places
  <2>. QED BY <1>3, <2>1, <2>2 DEF Check, Goto, TypeOK, file
<1>4. ASSUME NEW p \in Processes, Apply(p) PROVE TypeOK'
  <2>1. Step(p, "record") \in Rec /\ Failed \in Rec
    BY <1>0 DEF Step, Failed, Places
  <2>. QED BY <1>4, <2>1 DEF Apply, Goto, TypeOK, file
<1>5. ASSUME NEW p \in Processes, Record(p) PROVE TypeOK'
  <2>1. Step(p, "commit") \in Rec /\ Failed \in Rec
    BY <1>0 DEF Step, Failed, Places
  <2>. QED BY <1>5, <2>1 DEF Record, Goto, TypeOK, file
<1>6. ASSUME NEW p \in Processes, Commit(p) PROVE TypeOK'
  <2>1. proc[p].version \in Versions
    BY <1>6 DEF Commit, MInv, InTurn, Locked
  <2>2. NextVersion(p) \in Rec BY <2>1 DEF NextVersion, Versions, Places
  <2>3. proc' \in [Processes -> Rec] BY <1>6, <1>0, <2>2 DEF Commit, Goto
  <2>4. times' \in [Versions -> Nat] BY <1>6, <2>1 DEF Commit, TypeOK
  <2>. QED BY <1>6, <2>1, <2>3, <2>4 DEF Commit, TypeOK
<1>7. ASSUME NEW p \in Processes, Stop(p) PROVE TypeOK'
  <2>1. Off \in Rec BY DEF Off, Places
  <2>. QED BY <1>7, <2>1 DEF Stop, Goto, TypeOK, file
<1>8. CASE CalmDown BY <1>8 DEF CalmDown, TypeOK, file
<1>9. CASE UNCHANGED vars BY <1>9 DEF vars, TypeOK
<1>. QED BY <1>1, <1>2, <1>3, <1>4, <1>5, <1>6, <1>7, <1>8, <1>9 DEF Next, Migrate

LEMMA MInvStep == TypeOK /\ MInv /\ [Next]_vars => MInv'
<1>. USE LastAssumption DEF LastAssumption
<1>. SUFFICES ASSUME TypeOK, MInv, [Next]_vars PROVE MInv' OBVIOUS
<1>0. ASSUME NEW p \in Processes, UNCHANGED <<made, recorded, times>>,
             \A q \in Processes : q # p => proc'[q] = proc[q],
             writer' \in {writer, writer \ {p}} \/ (writer = {} /\ writer' = {p}),
             InTurn(p)'
      PROVE  MInv'
  <2>1. \A q \in Processes : InTurn(q)' BY <1>0, OthersInTurn
  <2>2. AppliedInOrder' BY <1>0 DEF MInv, AppliedInOrder
  <2>. QED BY <1>0, <2>1, <2>2 DEF MInv
<1>1. ASSUME NEW p \in Processes, Start(p) PROVE MInv'
  <2>1. proc'[p] = [pc |-> "create", version |-> 1] BY <1>1 DEF Start, Goto, TypeOK
  <2>2. InTurn(p)' BY <2>1 DEF InTurn, Locked, At
  <2>. QED BY <1>0, <1>1, <2>2 DEF Start, Goto, TypeOK, file
<1>2. ASSUME NEW p \in Processes, CreateTable(p) PROVE MInv'
  <2>1. proc'[p].pc = "check" /\ proc'[p].version = 1
    BY <1>2 DEF CreateTable, Goto, Step, TypeOK, MInv, InTurn
  <2>2. InTurn(p)' BY <2>1 DEF InTurn, Locked, At, Versions
  <2>. QED BY <1>0, <1>2, <2>2 DEF CreateTable, Goto, TypeOK
<1>3. ASSUME NEW p \in Processes, Check(p) PROVE MInv'
  <2>. DEFINE v == proc[p].version
  <2>1. v \in 1 .. Last + 1 /\ \A u \in Versions : u < v => u \in recorded
    BY <1>3 DEF Check, TypeOK, MInv, InTurn
  <2>2. InTurn(p)'
    <3>1. CASE Finished(v)
      <4>1. recorded = Versions
        <5>1. \A u \in Versions : u < v BY <3>1, <2>1 DEF Finished, Versions
        <5>2. Versions \subseteq recorded BY <5>1, <2>1
        <5>. QED BY <5>2 DEF TypeOK
      <4>2. proc'[p].pc = "done" BY <1>3, <3>1 DEF Check, Goto, Step, TypeOK
      <4>. QED BY <1>3, <4>1, <4>2 DEF Check, InTurn, Locked, At, file
    <3>2. CASE ~ Finished(v) /\ Applied(v)
      <4>1. proc'[p] = [pc |-> "check", version |-> v + 1]
        BY <1>3, <3>2 DEF Check, Goto, NextVersion, TypeOK
      <4>2. \A u \in Versions : u < v + 1 => u \in recorded
        BY <2>1, <3>2 DEF Applied, Versions
      <4>. QED BY <1>3, <4>1, <4>2 DEF Check, InTurn, Locked, At, file
    <3>3. CASE ~ Finished(v) /\ ~ Applied(v)
      <4>1. proc'[p].pc = "apply" /\ proc'[p].version = v
        BY <1>3, <3>3 DEF Check, Goto, Step, TypeOK
      <4>2. v \in Versions BY <2>1, <3>3 DEF Finished, Versions
      <4>. QED BY <1>3, <2>1, <4>1, <4>2 DEF Check, InTurn, Locked, At, file
    <3>. QED BY <3>1, <3>2, <3>3
  <2>. QED BY <1>0, <1>3, <2>2 DEF Check, Goto, TypeOK, file
<1>4. ASSUME NEW p \in Processes, Apply(p) PROVE MInv'
  <2>1. CASE proc' = [proc EXCEPT ![p] = Step(p, "record")] /\ writer' = {p}
    <3>1. proc'[p].pc = "record" /\ proc'[p].version = proc[p].version
      BY <2>1 DEF Step, TypeOK
    <3>2. InTurn(p)' BY <1>4, <2>1, <3>1 DEF Apply, MInv, InTurn, Locked, At, file
    <3>. QED BY <1>0, <1>4, <2>1, <3>2 DEF Apply, TypeOK, file
  <2>2. CASE proc' = [proc EXCEPT ![p] = Failed] /\ UNCHANGED writer
    <3>1. InTurn(p)' BY <2>2 DEF Failed, TypeOK, InTurn, Locked, At
    <3>. QED BY <1>0, <1>4, <2>2, <3>1 DEF Apply, TypeOK, file
  <2>. QED BY <1>4, <2>1, <2>2 DEF Apply, Goto
<1>5. ASSUME NEW p \in Processes, Record(p) PROVE MInv'
  <2>0. writer = {p} BY <1>5 DEF Record, MInv, InTurn, Locked
  <2>1. CASE /\ proc[p].version \notin recorded
             /\ proc' = [proc EXCEPT ![p] = Step(p, "commit")] /\ UNCHANGED writer
    <3>1. proc'[p].pc = "commit" /\ proc'[p].version = proc[p].version
      BY <2>1 DEF Step, TypeOK
    <3>2. InTurn(p)' BY <1>5, <2>0, <2>1, <3>1 DEF Record, MInv, InTurn, Locked, At, file
    <3>. QED BY <1>0, <1>5, <2>1, <3>2 DEF Record, TypeOK, file
  <2>2. CASE proc' = [proc EXCEPT ![p] = Failed] /\ writer' = {}
    <3>1. InTurn(p)' BY <2>2 DEF Failed, TypeOK, InTurn, Locked, At
    <3>2. writer' = writer \ {p} BY <2>0, <2>2
    <3>. QED BY <1>0, <1>5, <2>2, <3>1, <3>2 DEF Record, TypeOK, file
  <2>. QED BY <1>5, <2>1, <2>2 DEF Record, Goto
<1>6. ASSUME NEW p \in Processes, Commit(p) PROVE MInv'
  <2>. DEFINE v == proc[p].version
  <2>1. /\ writer = {p} /\ v \in Versions /\ v \notin recorded
        /\ \A u \in Versions : u < v => u \in recorded
    BY <1>6 DEF Commit, MInv, InTurn, Locked
  <2>2. recorded' = recorded \cup {v} /\ made' = recorded' /\ writer' = {}
    BY <1>6 DEF Commit, MInv, AppliedInOrder
  <2>3. AppliedInOrder'
    <3>1. ASSUME NEW u \in recorded' PROVE 1 .. u \subseteq recorded'
      <4>1. CASE u \in recorded BY <4>1, <2>2 DEF MInv, AppliedInOrder
      <4>2. CASE u = v BY <4>2, <2>1, <2>2 DEF Versions
      <4>. QED BY <3>1, <4>1, <4>2, <2>2
    <3>. QED BY <2>2, <3>1 DEF AppliedInOrder
  <2>4. \A u \in Versions : times'[u] = IF u \in recorded' THEN 1 ELSE 0
    <3>1. times' = [times EXCEPT ![v] = times[v] + 1] BY <1>6 DEF Commit
    <3>. QED BY <3>1, <2>1, <2>2 DEF MInv, TypeOK
  <2>5. InTurn(p)'
    <3>1. proc'[p] = [pc |-> "check", version |-> v + 1]
      BY <1>6 DEF Commit, Goto, NextVersion, TypeOK
    <3>2. \A u \in Versions : u < v + 1 => u \in recorded'
      BY <2>1, <2>2 DEF Versions
    <3>. QED BY <3>1, <3>2 DEF InTurn, Locked, At
  <2>6. ASSUME NEW q \in Processes, q # p PROVE InTurn(q)'
    <3>1. proc'[q] = proc[q] BY <1>6, <2>6 DEF Commit, Goto, TypeOK
    <3>2. InTurn(q) /\ ~ Locked(q) BY <2>1, <2>6 DEF MInv, InTurn
    <3>3. At(q, "done") => recorded' = Versions BY <2>1, <2>2, <3>2 DEF InTurn
    <3>. QED BY <2>2, <3>1, <3>2, <3>3 DEF InTurn, Locked, At
  <2>. QED BY <2>3, <2>4, <2>5, <2>6 DEF MInv
<1>7. ASSUME NEW p \in Processes, Stop(p) PROVE MInv'
  <2>1. InTurn(p)' BY <1>7 DEF Stop, Goto, Off, TypeOK, InTurn, Locked, At
  <2>. QED BY <1>0, <1>7, <2>1 DEF Stop, Goto, TypeOK, file
<1>8. CASE UNCHANGED <<file, writer, proc>>
  BY <1>8 DEF file, MInv, AppliedInOrder, InTurn, Locked, At
<1>. QED
  BY <1>1, <1>2, <1>3, <1>4, <1>5, <1>6, <1>7, <1>8
  DEF Next, Migrate, CalmDown, vars, file

(***************************************************************************)
(* The theorems.                                                           *)
(***************************************************************************)
LEMMA MigrationsInvariant == Spec => [](TypeOK /\ MInv)
<1>. QED BY TypeInit, MInvInit, TypeStep, MInvStep, PTL DEF Spec

\* The file and the processes in Migrate keep their types.
THEOREM MigrationsTypeCorrect == Spec => []TypeOK
<1>. QED BY MigrationsInvariant, PTL

\* Whatever processes race or are stopped, the file holds the first migrations, as
\* many as schema_migrations lists.
THEOREM MigrationsInOrder == Spec => []AppliedInOrder
<1>1. MInv => AppliedInOrder BY DEF MInv
<1>. QED BY MigrationsInvariant, <1>1, PTL

\* No migration is committed twice: the loser of a race is rolled back.
THEOREM MigrationsOnce == Spec => []AppliedOnce
<1>1. MInv => AppliedOnce BY DEF MInv, AppliedOnce
<1>. QED BY MigrationsInvariant, <1>1, PTL

\* Whoever gets through Migrate finds the whole schema.
THEOREM MigrationsComplete == Spec => []DoneIsMigrated
<1>1. MInv => DoneIsMigrated BY DEF MInv, AppliedInOrder, InTurn, DoneIsMigrated
<1>. QED BY MigrationsInvariant, <1>1, PTL

(***************************************************************************)
(* Migrate implements Upgrade.                                             *)
(***************************************************************************)
Through == {p \in Processes : At(p, "done")}

\* Steps that change neither the file nor who has got through are not seen.
LEMMA Unseen ==
  ASSUME TypeOK, NEW p \in Processes, NEW r, Goto(p, r), r.pc # "done", ~ At(p, "done"),
         UNCHANGED <<made, recorded>>
  PROVE  UNCHANGED (File!upgrade)
<1>1. \A q \in Processes : proc'[q] = IF q = p THEN r ELSE proc[q]
  BY DEF TypeOK, Goto
<1>2. Through' = Through
  BY <1>1 DEF Through, At
<1>. QED BY <1>2 DEF File!upgrade, Through

\* A commit adds the next migration, to the schema and to the list.
LEMMA CommitAdvances ==
  ASSUME TypeOK, MInv, NEW p \in Processes, Commit(p)
  PROVE  File!Advance
<1>. USE LastAssumption DEF LastAssumption
<1>. DEFINE v == proc[p].version
<1>1. /\ v \in Versions /\ v \notin recorded
      /\ \A u \in Versions : u < v => u \in recorded
  BY DEF Commit, MInv, InTurn, Locked
<1>2. made = 1 .. v - 1
  <2>1. ASSUME NEW u \in recorded PROVE u < v
    <3>1. u \in Versions /\ 1 .. u \subseteq recorded
      BY <2>1 DEF TypeOK, MInv, AppliedInOrder
    <3>2. v \in 1 .. u \/ u < v BY <1>1, <3>1 DEF Versions
    <3>. QED BY <1>1, <3>1, <3>2
  <2>2. recorded \subseteq Versions BY DEF TypeOK
  <2>3. recorded = 1 .. v - 1
    <3>1. ASSUME NEW u \in recorded PROVE u \in 1 .. v - 1
      BY <1>1, <2>1, <2>2 DEF Versions
    <3>2. ASSUME NEW u \in 1 .. v - 1 PROVE u \in recorded
      BY <1>1 DEF Versions
    <3>. QED BY <3>1, <3>2
  <2>. QED BY <2>3 DEF MInv, AppliedInOrder
<1>3. recorded' = made' /\ made' = 1 .. v
  BY <1>1, <1>2 DEF Commit, MInv, AppliedInOrder, Versions
<1>4. Through' = Through
  <2>1. NextVersion(p).pc = "check" BY DEF NextVersion
  <2>2. \A q \in Processes : proc'[q] = IF q = p THEN NextVersion(p) ELSE proc[q]
    BY DEF Commit, TypeOK, Goto
  <2>. QED BY <2>1, <2>2 DEF Through, At, Commit
<1>. QED BY <1>1, <1>2, <1>3, <1>4 DEF File!Advance, Through, Versions

\* A look at the list lets a process through, or is not seen.
LEMMA CheckEnters ==
  ASSUME TypeOK, MInv, MInv', NEW p \in Processes, Check(p)
  PROVE  [File!Next]_(File!upgrade)
<1>. DEFINE v == proc[p].version
<1>0. UNCHANGED <<made, recorded>> /\ ~ At(p, "done")
  BY DEF Check, file, At
<1>1. CASE Finished(v)
  <2>1. \A q \in Processes : proc'[q] = IF q = p THEN Step(p, "done") ELSE proc[q]
    BY <1>1 DEF Check, TypeOK, Goto
  <2>2. Step(p, "done").pc = "done" BY DEF Step, TypeOK
  <2>3. Through' = Through \cup {p} BY <2>1, <2>2 DEF Through, At
  <2>4. recorded = Versions BY <1>0, <2>1, <2>2 DEF MInv, InTurn, At
  <2>5. made = 1 .. Last BY <2>4 DEF MInv, AppliedInOrder, Versions
  <2>6. File!Enter BY <1>0, <2>3, <2>5 DEF File!Enter, Through
  <2>. QED BY <2>6 DEF File!Next
<1>2. CASE ~ Finished(v)
  <2>1. PICK r \in {NextVersion(p), Step(p, "apply")} : Goto(p, r)
    BY <1>2 DEF Check
  <2>2. r.pc # "done" BY DEF NextVersion, Step, TypeOK
  <2>. QED BY <1>0, <2>1, <2>2, Unseen
<1>. QED BY <1>1, <1>2

\* However many processes race over the file and wherever they are stopped, the schema
\* and its list grow together, one whole migration at a time and in order; nothing is
\* taken back, and nobody works with less than all of them.
THEOREM MigrateKeepsUpgrade == Spec => KeepsUpgrade
<1>1. Init => File!Init
  <2>. SUFFICES ASSUME Init PROVE File!Init OBVIOUS
  <2>1. Through = {} BY DEF Init, Through, At, Off
  <2>. QED BY <2>1 DEF Init, File!Init, Through
<1>2. ASSUME TypeOK, MInv, MInv', [Next]_vars PROVE [File!Next]_(File!upgrade)
  <2>1. ASSUME NEW p \in Processes, Start(p) \/ CreateTable(p)
        PROVE  [File!Next]_(File!upgrade)
    <3>1. PICK r \in {[pc |-> "create", version |-> 1], Step(p, "check")} : Goto(p, r)
      BY <2>1 DEF Start, CreateTable
    <3>2. r.pc # "done"
      <4>1. Step(p, "check").pc = "check" BY <1>2 DEF Step, TypeOK
      <4>. QED BY <4>1
    <3>3. UNCHANGED <<made, recorded>> /\ ~ At(p, "done")
      BY <2>1 DEF Start, CreateTable, file, At
    <3>. QED BY <1>2, <3>1, <3>2, <3>3, Unseen
  <2>2. ASSUME NEW p \in Processes, Apply(p) \/ Record(p)
        PROVE  [File!Next]_(File!upgrade)
    <3>1. PICK r \in {Failed, Step(p, "record"), Step(p, "commit")} : Goto(p, r)
      BY <2>2 DEF Apply, Record
    <3>2. r.pc # "done" BY <1>2 DEF Failed, Step, TypeOK
    <3>3. UNCHANGED <<made, recorded>> /\ ~ At(p, "done")
      BY <2>2 DEF Apply, Record, file, At
    <3>. QED BY <1>2, <3>1, <3>2, <3>3, Unseen
  <2>3. ASSUME NEW p \in Processes, Check(p) PROVE [File!Next]_(File!upgrade)
    BY <1>2, <2>3, CheckEnters
  <2>4. ASSUME NEW p \in Processes, Commit(p) PROVE [File!Next]_(File!upgrade)
    BY <1>2, <2>4, CommitAdvances DEF File!Next
  <2>5. ASSUME NEW p \in Processes, Stop(p) PROVE [File!Next]_(File!upgrade)
    <3>1. \A q \in Processes : proc'[q] = IF q = p THEN Off ELSE proc[q]
      BY <1>2, <2>5 DEF Stop, Goto, TypeOK
    <3>2. Through' = Through \ {p} BY <3>1 DEF Through, At, Off
    <3>3. UNCHANGED <<made, recorded>> BY <2>5 DEF Stop, file
    <3>4. CASE p \in Through
      <4>1. File!Leave BY <3>2, <3>3, <3>4 DEF File!Leave, Through
      <4>. QED BY <4>1 DEF File!Next
    <3>5. CASE p \notin Through
      <4>1. Through' = Through BY <3>2, <3>5
      <4>. QED BY <3>3, <4>1 DEF File!upgrade, Through
    <3>. QED BY <3>4, <3>5
  <2>6. CASE CalmDown \/ UNCHANGED vars
    <3>1. UNCHANGED <<made, recorded, proc>> BY <2>6 DEF CalmDown, vars, file
    <3>. QED BY <3>1 DEF File!upgrade, At
  <2>. QED BY <1>2, <2>1, <2>2, <2>3, <2>4, <2>5, <2>6 DEF Next, Migrate
<1>. QED
  BY MigrationsInvariant, <1>1, <1>2, PTL DEF Spec, KeepsUpgrade, File!Spec
===============================================================================
