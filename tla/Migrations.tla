------------------------------ MODULE Migrations ------------------------------
(***************************************************************************)
(* Opening the database: storage.Open and storage.Migrate, run by every    *)
(* process that uses the file, the server and each CLI command, on a file  *)
(* that may be new or left by an older version.                            *)
(*                                                                         *)
(* Nothing but SQLite's write lock stands between the processes: whether a *)
(* migration was applied is read before its transaction begins.            *)
(***************************************************************************)
EXTENDS Naturals

CONSTANTS
  Processes,   \* processes that may open the file
  Service,     \* those a supervisor starts again (deploy: Restart=on-failure)
  Last,        \* number of migrations, in the order of their names
  Repeatable   \* migrations of IF NOT EXISTS statements only (001_init)

Versions == 1 .. Last

ASSUME LastAssumption       == Last \in Nat
ASSUME ServiceAssumption    == Service \subseteq Processes
ASSUME RepeatableAssumption == Repeatable \subseteq Versions

VARIABLES
  ready,      \* table schema_migrations exists
  made,       \* migrations whose statements took effect in the file
  recorded,   \* rows of schema_migrations
  writer,     \* the process that holds the write lock, if any, as a set
  proc,       \* where each process stands in Migrate
  times,      \* history: how often a migration was committed
  calm        \* history: from now on no process is stopped

file == <<ready, made, recorded, times>>
vars == <<ready, made, recorded, writer, proc, times, calm>>

Off    == [pc |-> "off", version |-> 1]
Failed == [pc |-> "failed", version |-> 1]

\* The file holds the migrations of the version that used it last.
Init ==
  /\ \E n \in 0 .. Last :
       /\ made = 1 .. n /\ recorded = 1 .. n
       /\ ready \in BOOLEAN /\ (n > 0 => ready)
       /\ times = [v \in Versions |-> IF v <= n THEN 1 ELSE 0]
  /\ writer = {}
  /\ proc = [p \in Processes |-> Off]
  /\ calm = FALSE

Goto(p, r) == proc' = [proc EXCEPT ![p] = r]
At(p, pc) == proc[p].pc = pc
Step(p, pc) == [proc[p] EXCEPT !.pc = pc]
NextVersion(p) == [pc |-> "check", version |-> proc[p].version + 1]

Start(p) ==
  /\ At(p, "off") \/ At(p, "failed")
  /\ Goto(p, [pc |-> "create", version |-> 1])
  /\ UNCHANGED <<file, writer, calm>>

\* CREATE TABLE IF NOT EXISTS schema_migrations.
CreateTable(p) ==
  /\ At(p, "create")
  /\ ready' = TRUE
  /\ Goto(p, Step(p, "check"))
  /\ UNCHANGED <<made, recorded, times, writer, calm>>

\* (Three slips: the last migration is left out, one too many is looked for, the
\* table is not looked at.)
FinishedEarly(v) == v >= Last
FinishedLate(v) == v > Last + 1
Finished(v) == v > Last

NeverApplied(v) == FALSE
Applied(v) == v \in recorded

Check(p) ==
  LET v == proc[p].version
  IN /\ At(p, "check")
     /\ Goto(p, IF Finished(v) THEN Step(p, "done")
                ELSE IF Applied(v) THEN NextVersion(p)
                ELSE Step(p, "apply"))
     /\ UNCHANGED <<file, writer, calm>>

\* The transaction is deferred: its first statement waits for the write lock and
\* then sees what other processes committed.  A column that is there already is
\* an error, and an error rolls the transaction back and ends Migrate.  What the
\* statements change is seen by nobody else before Commit.
\* (A slip: the statements run outside the transaction.)
ApplyOutside(p) ==
  LET v == proc[p].version
  IN /\ At(p, "apply") /\ writer = {}
     /\ v \notin made \/ v \in Repeatable
     /\ made' = made \cup {v}
     /\ writer' = {p}
     /\ Goto(p, Step(p, "record"))
     /\ UNCHANGED <<ready, recorded, times, calm>>

Apply(p) ==
  LET v == proc[p].version
  IN /\ At(p, "apply") /\ writer = {}
     /\ \/ /\ v \notin made \/ v \in Repeatable
           /\ writer' = {p}
           /\ Goto(p, Step(p, "record"))
        \/ /\ v \in made \ Repeatable
           /\ Goto(p, Failed)
           /\ UNCHANGED writer
     /\ UNCHANGED <<file, calm>>

\* The primary key refuses a version that is recorded.
\* (A slip: INSERT OR REPLACE.)
RecordAnyway(p) ==
  /\ At(p, "record")
  /\ Goto(p, Step(p, "commit"))
  /\ UNCHANGED <<file, writer, calm>>

Record(p) ==
  /\ At(p, "record")
  /\ \/ /\ proc[p].version \notin recorded
        /\ Goto(p, Step(p, "commit"))
        /\ UNCHANGED writer
     \/ /\ proc[p].version \in recorded
        /\ writer' = {}
        /\ Goto(p, Failed)
  /\ UNCHANGED <<file, calm>>

Commit(p) ==
  LET v == proc[p].version
  IN /\ At(p, "commit")
     /\ made' = made \cup {v}
     /\ recorded' = recorded \cup {v}
     /\ times' = [times EXCEPT ![v] = @ + 1]
     /\ writer' = {}
     /\ Goto(p, NextVersion(p))
     /\ UNCHANGED <<ready, calm>>

\* A crash, a cancelled context, or a lock not granted within busy_timeout.  The
\* journal undoes what was not committed.
Stop(p) ==
  /\ ~ calm
  /\ ~ At(p, "off")
  /\ writer' = writer \ {p}
  /\ Goto(p, Off)
  /\ UNCHANGED <<file, calm>>

CalmDown ==
  /\ calm' = TRUE
  /\ UNCHANGED <<file, writer, proc>>

Migrate(p) ==
  \/ CreateTable(p) \/ Check(p) \/ Apply(p) \/ Record(p) \/ Commit(p)

Next ==
  \/ \E p \in Processes : Start(p) \/ Migrate(p) \/ Stop(p)
  \/ CalmDown

Spec == Init /\ [][Next]_vars

(***************************************************************************)
(* Fairness.  A process in Migrate goes on: the write lock is held for a   *)
(* few statements only.  A process of Service that ended is started again; *)
(* of such a process Stop is a failure, not the operator's command.        *)
(***************************************************************************)
FairSpec ==
  /\ Spec
  /\ \A p \in Processes : WF_vars(Migrate(p))
  /\ \A p \in Service : WF_vars(Start(p))

(***************************************************************************)
(* Properties.                                                             *)
(***************************************************************************)
Places == {"off", "failed", "create", "check", "apply", "record", "commit", "done"}

\* Every variable keeps its type.
TypeOK ==
  /\ ready \in BOOLEAN
  /\ made \subseteq Versions
  /\ recorded \subseteq Versions
  /\ writer \subseteq Processes
  /\ proc \in [Processes -> [pc : Places, version : 1 .. Last + 1]]
  /\ times \in [Versions -> Nat]
  /\ calm \in BOOLEAN

\* Wherever processes race or are stopped, the file holds a whole number of
\* migrations, the first ones, and schema_migrations says which.
AppliedInOrder ==
  /\ made = recorded
  /\ \A v \in recorded : 1 .. v \subseteq recorded

\* "Migrate applies embedded SQLite migrations exactly once", also when several
\* processes found a migration missing at the same time.
AppliedOnce == \A v \in Versions : times[v] <= 1

\* A process that got through Migrate has the whole schema to work with.
DoneIsMigrated == \A p \in Processes : At(p, "done") => made = Versions

\* A process that loses a race over a migration ends with an error; but started
\* again it gets through, whoever else is starting: the service comes up once
\* nothing stops it any more.
ServiceComesUp == <>calm => \A p \in Service : <>At(p, "done")

\* Every step of the processes, wherever they race or stop, is a step of Upgrade or
\* leaves it alone: only Commit shows in the file, and no two of them at odds.
File == INSTANCE Upgrade WITH
  schema <- made,
  listed <- recorded,
  users  <- {p \in Processes : At(p, "done")}

KeepsUpgrade == File!Spec
===============================================================================
