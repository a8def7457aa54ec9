-------------------------------- MODULE Watcher --------------------------------
(***************************************************************************)
(* The background watcher of the serve process (app/watcher.go) and the    *)
(* health it keeps in table sources (sources.Repository MarkHealthy and    *)
(* MarkUnhealthy): which sources a pass asks Telegram for, in which order, *)
(* when an error pauses a source and when it disables it, while the admin  *)
(* UI, the MCP tools and the CLI add, edit and remove sources.             *)
(*                                                                         *)
(* What one sync of a source does to messages and cursors is SourceSync;   *)
(* here it is an outcome.  Time is counted in watcher intervals.           *)
(***************************************************************************)
EXTENDS Naturals, FiniteSets

CONSTANTS
  Sources,     \* source ids, numbers in the order of List (ORDER BY title, id)
  Removable,   \* those that may be removed while the watcher runs
  Threshold,   \* sourceErrorDisableThreshold
  ErrorCap,    \* bound: error_count is counted up to here
  MinPause,    \* floodWaitMinimumPauseSeconds, in intervals
  FloodWaits,  \* what Telegram asks to wait, in intervals
  SlowTicks    \* bound: ticks that may go by while one pass talks to Telegram

ASSUME SourcesAssumption   == Sources \subseteq Nat /\ IsFiniteSet(Sources)
ASSUME ThresholdAssumption == Threshold \in Nat \ {0}
ASSUME ErrorCapAssumption  == ErrorCap \in Nat /\ Threshold <= ErrorCap
ASSUME PauseAssumption     == MinPause \in Nat /\ FloodWaits \subseteq Nat
ASSUME SlowTicksAssumption == SlowTicks \in Nat

VARIABLES
  present,   \* sources with a row
  enabled,   \* column enabled
  errors,    \* column error_count
  paused,    \* intervals left until paused_until
  due,       \* the ticker channel holds a tick
  pass,      \* the pass under way
  streak,    \* history: failed results in a row since the last healthy one
  owed,      \* history: intervals Telegram still wants to be left alone
  fresh      \* history: sources added since the pass began

rows == <<present, enabled, errors, paused>>
vars == <<present, enabled, errors, paused, due, pass, streak, owed, fresh>>

(***************************************************************************)
(* What a sync of a source reports.                                        *)
(***************************************************************************)
Healthy   == [error |-> "none", wait |-> 0]
Floods    == [error : {"flood"}, wait : FloodWaits]
Others    == [error : {"permanent", "transient"}, wait : {0}]
Outcomes  == {Healthy} \cup Floods \cup Others
NoOutcome == [error |-> "unasked", wait |-> 0]

IdlePass == [pc |-> "idle", todo |-> {}, count |-> [s \in Sources |-> 0],
             results |-> [s \in Sources |-> NoOutcome], ticks |-> 0]

UpTo(cap, n) == IF n < cap THEN n ELSE cap

\* sourcePauseUntil: a flood pauses the source for what Telegram asks (a few
\* seconds more, less than an interval), but at least MinPause; any other error
\* clears the pause.
\* (Two slips: the floor taken for the pause, and no floor.)
PauseForFloor(outcome) == IF outcome.error # "flood" THEN 0 ELSE MinPause
PauseForWait(outcome) == IF outcome.error # "flood" THEN 0 ELSE outcome.wait
PauseFor(outcome) ==
  IF outcome.error # "flood" THEN 0
  ELSE IF outcome.wait < MinPause THEN MinPause ELSE outcome.wait

\* shouldDisableSource judges by the error count the pass read when it began.
\* (A slip: the failure at hand is not counted.)
DisablesLate(s, outcome) ==
  outcome.error = "permanent" /\ pass.count[s] >= Threshold
Disables(s, outcome) ==
  outcome.error = "permanent" /\ pass.count[s] + 1 >= Threshold

\* watcherReadySources.
Ready == {s \in present : enabled[s] /\ paused[s] = 0}

IsFirst(s, S) == s \in S /\ \A t \in S : s <= t

Unasked(s) == pass.results[s] = NoOutcome

Init ==
  /\ present = {}
  /\ enabled = [s \in Sources |-> FALSE]
  /\ errors = [s \in Sources |-> 0]
  /\ paused = [s \in Sources |-> 0]
  /\ due = TRUE                       \* the first pass does not wait for a tick
  /\ pass = IdlePass
  /\ streak = [s \in Sources |-> 0]
  /\ owed = [s \in Sources |-> 0]
  /\ fresh = {}

(***************************************************************************)
(* Time.  The ticker drops ticks while one is pending.  A pass may be slow *)
(* only while it talks to Telegram: a pending tick is taken up at once, and*)
(* the few updates after the sync take less than an interval.  The ticker  *)
(* is created after the first pass; here it may tick during that one, too. *)
(***************************************************************************)
Earlier(n) == IF n = 0 THEN 0 ELSE n - 1

Tick ==
  /\ \/ pass.pc = "idle" /\ ~ due /\ UNCHANGED pass
     \/ /\ pass.pc = "sync" /\ pass.ticks < SlowTicks
        /\ pass' = [pass EXCEPT !.ticks = @ + 1]
  /\ due' = TRUE
  /\ paused' = [s \in Sources |-> Earlier(paused[s])]
  /\ owed' = [s \in Sources |-> Earlier(owed[s])]
  /\ UNCHANGED <<present, enabled, errors, streak, fresh>>

(***************************************************************************)
(* One pass: runTelegramWatcherSync.                                       *)
(***************************************************************************)
\* The list of sources is read once, with their error counts.
BeginPass ==
  /\ pass.pc = "idle" /\ due
  /\ due' = FALSE
  /\ pass' = IF Ready = {} THEN IdlePass
             ELSE [IdlePass EXCEPT !.pc = "sync", !.todo = Ready, !.count = errors]
  /\ fresh' = {}
  /\ UNCHANGED <<rows, streak, owed>>

\* SyncSources: one source after the other; a flood ends the loop.
SyncSource(s, outcome) ==
  /\ pass.pc = "sync"
  /\ IsFirst(s, pass.todo)
  /\ pass' = [pass EXCEPT
                !.todo = IF outcome.error = "flood" THEN {} ELSE @ \ {s},
                !.results[s] = outcome]
  /\ owed' = [owed EXCEPT ![s] = outcome.wait]
  /\ UNCHANGED <<rows, due, streak, fresh>>

\* An error of the run itself drops the results collected so far.
RunFails ==
  /\ pass.pc = "sync"
  /\ pass' = IdlePass
  /\ owed' = [s \in Sources |-> IF Unasked(s) THEN owed[s] ELSE 0]
  /\ UNCHANGED <<rows, due, streak, fresh>>

EndSync ==
  /\ pass.pc = "sync" /\ pass.todo = {}
  /\ pass' = [pass EXCEPT !.pc = "health"]
  /\ UNCHANGED <<rows, due, streak, owed, fresh>>

Reported(s) == pass.pc = "health" /\ IsFirst(s, {t \in Sources : ~ Unasked(t)})

HealthDone(s) == pass' = [pass EXCEPT !.results[s] = NoOutcome]

\* Updates of a row that is gone match nothing.
\* (A slip: an upsert in place of the update.)
SetAlways(f, s, v) == [f EXCEPT ![s] = v]
Set(f, s, v) == IF s \in present THEN [f EXCEPT ![s] = v] ELSE f

\* (A slip: the count survives a healthy result.)
MarkHealthyKeepsCount(s) ==
  /\ Reported(s) /\ pass.results[s].error = "none"
  /\ paused' = Set(paused, s, 0)
  /\ streak' = Set(streak, s, 0)
  /\ HealthDone(s)
  /\ UNCHANGED <<present, enabled, errors, due, owed, fresh>>

MarkHealthy(s) ==
  /\ Reported(s) /\ pass.results[s].error = "none"
  /\ errors' = Set(errors, s, 0)
  /\ paused' = Set(paused, s, 0)
  /\ streak' = Set(streak, s, 0)
  /\ HealthDone(s)
  /\ UNCHANGED <<present, enabled, due, owed, fresh>>

MarkUnhealthy(s) ==
  LET outcome == pass.results[s]
  IN /\ Reported(s) /\ outcome.error # "none"
     /\ errors' = Set(errors, s, UpTo(ErrorCap, errors[s] + 1))
     /\ paused' = Set(paused, s, PauseFor(outcome))
     /\ enabled' = IF Disables(s, outcome) THEN Set(enabled, s, FALSE) ELSE enabled
     /\ streak' = Set(streak, s, UpTo(ErrorCap, streak[s] + 1))
     /\ owed' = IF s \in present THEN owed ELSE [owed EXCEPT ![s] = 0]
     /\ HealthDone(s)
     /\ UNCHANGED <<present, due, fresh>>

\* A health update can fail; it is logged and the loop goes on.
MarkFails(s) ==
  /\ Reported(s)
  /\ HealthDone(s)
  /\ owed' = [owed EXCEPT ![s] = 0]
  /\ UNCHANGED <<rows, due, streak, fresh>>

\* After the last result the summary is sent and the pass is over.
EndPass ==
  /\ pass.pc = "health" /\ \A s \in Sources : Unasked(s)
  /\ pass' = IdlePass
  /\ UNCHANGED <<rows, due, streak, owed, fresh>>

(***************************************************************************)
(* Source commands.  Upsert writes enabled but leaves the health columns   *)
(* alone: a disabled source that is enabled again keeps its error count.   *)
(***************************************************************************)
Upsert(s, on) ==
  /\ present' = present \cup {s}
  /\ enabled' = [enabled EXCEPT ![s] = on]
  /\ fresh' = IF s \in present THEN fresh ELSE fresh \cup {s}
  /\ UNCHANGED <<errors, paused, due, pass, streak, owed>>

Remove(s) ==
  /\ s \in present
  /\ present' = present \ {s}
  /\ enabled' = [enabled EXCEPT ![s] = FALSE]
  /\ errors' = [errors EXCEPT ![s] = 0]
  /\ paused' = [paused EXCEPT ![s] = 0]
  /\ streak' = [streak EXCEPT ![s] = 0]
  /\ owed' = [owed EXCEPT ![s] = 0]
  /\ UNCHANGED <<due, pass, fresh>>

Commands ==
  \/ \E s \in Sources, on \in BOOLEAN : Upsert(s, on)
  \/ \E s \in Removable : Remove(s)

PassStep ==
  \/ BeginPass
  \/ \E s \in Sources, outcome \in Outcomes : SyncSource(s, outcome)
  \/ EndSync
  \/ \E s \in Sources : MarkHealthy(s) \/ MarkUnhealthy(s) \/ MarkFails(s)
  \/ EndPass

Next == Tick \/ PassStep \/ RunFails \/ Commands

Spec == Init /\ [][Next]_vars

(***************************************************************************)
(* Properties.                                                             *)
(***************************************************************************)
Passes == [pc : {"idle", "sync", "health"}, todo : SUBSET Sources,
           count : [Sources -> 0 .. ErrorCap],
           results : [Sources -> Outcomes \cup {NoOutcome}], ticks : 0 .. SlowTicks]

\* Types; a source without a row has no health.
TypeOK ==
  /\ present \subseteq Sources
  /\ \A s \in Sources \ present : ~ enabled[s] /\ errors[s] = 0 /\ paused[s] = 0
  /\ enabled \in [Sources -> BOOLEAN]
  /\ errors \in [Sources -> 0 .. ErrorCap]
  /\ paused \in [Sources -> Nat]
  /\ due \in BOOLEAN
  /\ pass \in Passes
  /\ streak \in [Sources -> 0 .. ErrorCap]
  /\ fresh \subseteq Sources

\* The watcher takes a source out of service only after Threshold failed results
\* in a row of that very source: one healthy pass forgives what came before.  The
\* decision uses the count the pass read when it began, so a source removed and
\* added again under the pass is exempt.
DisabledIsEarned ==
  [][\A s \in Sources :
       pass.pc = "health" /\ s \in present \ fresh /\ enabled[s]
         /\ s \in present' /\ ~ enabled'[s] /\ pass' # pass
       => streak'[s] >= Threshold]_vars

\* Telegram is left alone for as long as it asked: no pass has a source before it
\* that answered with a flood wait not yet over, unless the answer was lost with
\* the run, with the health update or with the row.
PauseIsKept ==
  pass.pc = "sync" => \A s \in pass.todo : owed[s] = 0

\* A pass reads the rows once, asks and judges by what it read, and writes later;
\* yet every step is one of Health or leaves it alone: as if each report were judged
\* at once, on the row it is written to.
Row == INSTANCE Health WITH answers <- pass.results

KeepsHealth == Row!Spec

(***************************************************************************)
(* Liveness: the ticker ticks and a pass goes on.                          *)
(***************************************************************************)
FairSpec == Spec /\ WF_vars(Tick) /\ WF_vars(PassStep)

InService(s) == s \in present /\ enabled[s]

LosesFlood(s) ==
  MarkFails(s) /\ s \in present /\ pass.results[s].error = "flood"

\* The sources listed before s can each be away with a pause while the pass gets to s:
\* a flood ends the pass for those behind it, so each of them blocks one pass, and must
\* still be paused when the others have blocked theirs.
Ahead(s) == {t \in Sources : t < s}

TicksPerPass == IF SlowTicks < 1 THEN 1 ELSE SlowTicks

Outlasts(s) == Cardinality(Ahead(s)) * TicksPerPass < MinPause

\* "sync all enabled sources" (.env.example:23), as far as it is true: a source that
\* stays in service is asked for again and again if the shortest pause is longer than the
\* sources listed before it can block, one pass each; once no run fails as a whole, and
\* none of those sources loses its flood wait or is removed.  Beyond that bound they can
\* take turns in flooding and keep the source waiting for ever.
EverySourceIsAsked ==
  \A s \in {t \in Sources : Outlasts(t)} :
    /\ <>[]InService(s)
    /\ <>[][~ (RunFails \/ \E t \in Ahead(s) : LosesFlood(t) \/ Remove(t))]_vars
    => []<>~ Unasked(s)
================================================================================
