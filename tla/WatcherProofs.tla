----------------------------- MODULE WatcherProofs -----------------------------
(***************************************************************************)
(* Theorems about Watcher, for any sources, thresholds and flood waits.    *)
(***************************************************************************)
EXTENDS Watcher, TLAPS

\* Counting up to a cap at or above the threshold.
LEMMA UpToType ==
  ASSUME NEW n \in Nat
  PROVE  /\ UpTo(ErrorCap, n) \in 0 .. ErrorCap
         /\ n >= Threshold => UpTo(ErrorCap, n) >= Threshold
BY ErrorCapAssumption, ThresholdAssumption
   DEF UpTo, ErrorCapAssumption, ThresholdAssumption

\* What is left after a tick.
LEMMA EarlierType ==
  ASSUME NEW n \in Nat
  PROVE  Earlier(n) \in Nat /\ Earlier(n) <= n
BY DEF Earlier

\* Every outcome comes with a wait, and only a flood with one above 0.
LEMMA OutcomeFacts ==
  ASSUME NEW outcome \in Outcomes \cup {NoOutcome}
  PROVE  /\ outcome.wait \in Nat
         /\ outcome.error # "flood" => outcome.wait = 0
         /\ PauseFor(outcome) \in Nat
         /\ outcome.wait <= PauseFor(outcome)
<1>1. outcome.wait \in Nat /\ (outcome.error # "flood" => outcome.wait = 0)
  <2>1. CASE outcome \in Floods
    BY <2>1, PauseAssumption DEF PauseAssumption, Floods
  <2>2. CASE outcome \in Others
    BY <2>2 DEF Others
  <2>3. CASE outcome = Healthy \/ outcome = NoOutcome
    BY <2>3 DEF Healthy, NoOutcome
  <2>4. QED
    BY <2>1, <2>2, <2>3 DEF Outcomes
<1>2. QED
  BY <1>1, PauseAssumption DEF PauseAssumption, PauseFor

(***************************************************************************)
(* Types.                                                                  *)
(***************************************************************************)
\* The pass at rest is a pass.
LEMMA IdlePassType == IdlePass \in Passes
BY SlowTicksAssumption, ErrorCapAssumption
   DEF SlowTicksAssumption, ErrorCapAssumption, IdlePass, Passes

\* The steps of a pass keep the types.
LEMMA PassStepType ==
  ASSUME TypeOK, PassStep \/ RunFails
  PROVE  TypeOK'
<1> USE DEF TypeOK, rows
<1>1. CASE BeginPass
  <2>1. [IdlePass EXCEPT !.pc = "sync", !.todo = Ready, !.count = errors] \in Passes
    BY IdlePassType DEF Passes, Ready
  <2>2. pass' \in Passes
    BY <1>1, <2>1, IdlePassType DEF BeginPass
  <2>3. QED
    BY <1>1, <2>2 DEF BeginPass
<1>2. ASSUME NEW s \in Sources, NEW outcome \in Outcomes, SyncSource(s, outcome)
      PROVE  TypeOK'
  <2>1. pass' \in Passes
    BY <1>2 DEF SyncSource, Passes
  <2>2. QED
    BY <1>2, <2>1 DEF SyncSource
<1>3. CASE EndSync
  <2>1. pass' \in Passes
    BY <1>3 DEF EndSync, Passes
  <2>2. QED
    BY <1>3, <2>1 DEF EndSync
<1>4. ASSUME NEW s \in Sources, HealthDone(s) PROVE pass' \in Passes
  BY <1>4 DEF HealthDone, Passes
<1>5. ASSUME NEW s \in Sources, MarkHealthy(s) PROVE TypeOK'
  <2>1. pass' \in Passes
    BY <1>4, <1>5 DEF MarkHealthy
  <2>2. QED
    BY <1>5, <2>1, ErrorCapAssumption DEF MarkHealthy, Set, ErrorCapAssumption
<1>6. ASSUME NEW s \in Sources, MarkUnhealthy(s) PROVE TypeOK'
  <2> DEFINE outcome == pass.results[s]
  <2>1. pass' \in Passes
    BY <1>4, <1>6 DEF MarkUnhealthy
  <2>2. PauseFor(outcome) \in Nat
    <3>1. outcome \in Outcomes \cup {NoOutcome}
      BY DEF Passes
    <3>2. QED
      BY <3>1, OutcomeFacts
  <2>3. /\ UpTo(ErrorCap, errors[s] + 1) \in 0 .. ErrorCap
        /\ UpTo(ErrorCap, streak[s] + 1) \in 0 .. ErrorCap
    <3>1. errors[s] + 1 \in Nat /\ streak[s] + 1 \in Nat
      OBVIOUS
    <3>2. QED
      BY <3>1, UpToType
  <2>4. /\ enabled' = enabled \/ enabled' = Set(enabled, s, FALSE)
        /\ paused' = Set(paused, s, PauseFor(outcome))
        /\ errors' = Set(errors, s, UpTo(ErrorCap, errors[s] + 1))
        /\ streak' = Set(streak, s, UpTo(ErrorCap, streak[s] + 1))
        /\ UNCHANGED <<present, due, fresh>>
    BY <1>6 DEF MarkUnhealthy
  <2>5. QED
    BY <2>1, <2>2, <2>3, <2>4 DEF Set
<1>7. ASSUME NEW s \in Sources, MarkFails(s) PROVE TypeOK'
  BY <1>4, <1>7 DEF MarkFails
<1>8. CASE EndPass
  BY <1>8, IdlePassType DEF EndPass
<1>9. CASE RunFails
  BY <1>9, IdlePassType DEF RunFails
<1>10. QED
  BY <1>1, <1>2, <1>3, <1>5, <1>6, <1>7, <1>8, <1>9 DEF PassStep

\* Every variable keeps its type, and a source without a row has no health.
THEOREM WatcherTypeCorrect == Spec => []TypeOK
<1>1. Init => TypeOK
  BY IdlePassType, ErrorCapAssumption DEF Init, TypeOK, ErrorCapAssumption
<1>2. TypeOK /\ [Next]_vars => TypeOK'
  <2> SUFFICES ASSUME TypeOK, [Next]_vars PROVE TypeOK'
    OBVIOUS
  <2>1. CASE Tick
    <3>1. pass' \in Passes
      BY <2>1, SlowTicksAssumption DEF Tick, TypeOK, Passes, SlowTicksAssumption
    <3>2. paused' \in [Sources -> Nat] /\ \A s \in Sources : paused[s] = 0 => paused'[s] = 0
      BY <2>1 DEF Tick, TypeOK, Earlier
    <3>3. QED
      BY <2>1, <3>1, <3>2 DEF Tick, TypeOK
  <2>2. CASE PassStep \/ RunFails
    BY <2>2, PassStepType
  <2>3. CASE Commands
    <3> USE DEF TypeOK
    <3>1. ASSUME NEW s \in Sources, NEW on \in BOOLEAN, Upsert(s, on) PROVE TypeOK'
      <4>1. \A t \in Sources : t # s => enabled'[t] = enabled[t]
        BY <3>1 DEF Upsert
      <4>2. QED
        BY <3>1, <4>1 DEF Upsert
    <3>2. ASSUME NEW s \in Removable, Remove(s) PROVE TypeOK'
      <4>1. s \in Sources
        BY <3>2 DEF Remove
      <4>2. 0 \in 0 .. ErrorCap /\ 0 \in Nat
        BY ErrorCapAssumption DEF ErrorCapAssumption
      <4>3. /\ errors' \in [Sources -> 0 .. ErrorCap]
            /\ streak' \in [Sources -> 0 .. ErrorCap]
            /\ paused' \in [Sources -> Nat]
            /\ enabled' \in [Sources -> BOOLEAN]
        BY <3>2, <4>1, <4>2 DEF Remove
      <4>4. \A t \in Sources \ present' :
              ~ enabled'[t] /\ errors'[t] = 0 /\ paused'[t] = 0
        BY <3>2, <4>1 DEF Remove
      <4>5. QED
        BY <3>2, <4>3, <4>4 DEF Remove
    <3>3. QED
      BY <2>3, <3>1, <3>2 DEF Commands
  <2>4. CASE UNCHANGED vars
    BY <2>4 DEF vars, TypeOK
  <2>5. QED
    BY <2>1, <2>2, <2>3, <2>4 DEF Next
<1>3. QED
  BY <1>1, <1>2, PTL DEF Spec

(***************************************************************************)
(* Flood waits are kept.                                                   *)
(***************************************************************************)
\* What Telegram is owed is covered by the pause in the row, or by a result that
\* has not been written to the row yet; what a pass is still to ask is not owed
\* anything.
WaitKept ==
  /\ owed \in [Sources -> Nat]
  /\ pass.pc = "idle" => \A s \in Sources : Unasked(s)
  /\ \A s \in pass.todo : Unasked(s)
  /\ \A s \in Sources :
       IF Unasked(s) THEN owed[s] <= paused[s] ELSE owed[s] <= pass.results[s].wait
  /\ PauseIsKept

\* A pass over its list keeps it.
LEMMA AskingKeepsWait ==
  ASSUME TypeOK, TypeOK', WaitKept, BeginPass \/ EndSync \/ EndPass \/ RunFails
  PROVE  WaitKept'
<1> USE DEF WaitKept, PauseIsKept, Unasked
<1>1. CASE BeginPass
  <2>1. /\ pass.pc = "idle" /\ UNCHANGED <<owed, paused>>
        /\ \A s \in Sources : pass'.results[s] = NoOutcome
        /\ pass'.todo \subseteq Ready
    BY <1>1 DEF BeginPass, rows, IdlePass
  <2>2. \A s \in Sources : owed[s] <= paused[s]
    BY <2>1
  <2>3. \A s \in Ready : owed[s] = 0 /\ s \in Sources
    BY <2>2 DEF Ready, TypeOK
  <2>4. QED
    BY <2>1, <2>2, <2>3
<1>2. CASE EndSync
  <2>1. /\ UNCHANGED <<owed, paused>> /\ pass'.pc = "health"
        /\ pass'.todo = pass.todo /\ pass'.results = pass.results
    BY <1>2 DEF EndSync, rows, TypeOK, Passes
  <2>2. QED
    BY <2>1
<1>3. CASE EndPass
  BY <1>3 DEF EndPass, rows, IdlePass
<1>4. CASE RunFails
  <2>1. /\ UNCHANGED paused /\ pass'.pc = "idle" /\ pass'.todo = {}
        /\ \A s \in Sources : pass'.results[s] = NoOutcome
        /\ owed' = [s \in Sources |-> IF Unasked(s) THEN owed[s] ELSE 0]
    BY <1>4 DEF RunFails, rows, IdlePass
  <2>2. \A s \in Sources : paused[s] \in Nat
    BY DEF TypeOK
  <2>3. \A s \in Sources : owed'[s] \in Nat /\ owed'[s] <= paused[s]
    BY <2>1, <2>2
  <2>4. QED
    BY <2>1, <2>3
<1>5. QED
  BY <1>1, <1>2, <1>3, <1>4

\* An answer from Telegram is owed for, and is among the results.
LEMMA AnswerKeepsWait ==
  ASSUME TypeOK, TypeOK', WaitKept, NEW s \in Sources, NEW outcome \in Outcomes,
         SyncSource(s, outcome)
  PROVE  WaitKept'
<1> USE DEF WaitKept, PauseIsKept, Unasked
<1>1. /\ pass.pc = "sync" /\ pass'.pc = "sync" /\ s \in pass.todo
      /\ pass'.results = [pass.results EXCEPT ![s] = outcome]
      /\ pass'.todo \subseteq pass.todo \ {s}
      /\ owed' = [owed EXCEPT ![s] = outcome.wait]
      /\ UNCHANGED paused
  BY DEF SyncSource, rows, TypeOK, Passes, IsFirst
<1>2. pass.results \in [Sources -> Outcomes \cup {NoOutcome}]
  BY DEF TypeOK, Passes
<1>3. outcome.wait \in Nat /\ outcome # NoOutcome
  BY OutcomeFacts DEF Outcomes, NoOutcome, Healthy, Floods, Others
<1>4. QED
  BY <1>1, <1>2, <1>3

\* A result is written to the row, or lost together with what is owed for it.
LEMMA HealthKeepsWait ==
  ASSUME TypeOK, TypeOK', WaitKept, NEW s \in Sources,
         MarkHealthy(s) \/ MarkUnhealthy(s) \/ MarkFails(s)
  PROVE  WaitKept'
<1> USE DEF WaitKept, PauseIsKept, Unasked
<1> DEFINE outcome == pass.results[s]
<1>1. /\ pass.pc = "health" /\ pass'.pc = "health" /\ pass'.todo = pass.todo
      /\ pass'.results = [pass.results EXCEPT ![s] = NoOutcome]
      /\ ~ Unasked(s)
  BY DEF MarkHealthy, MarkUnhealthy, MarkFails, HealthDone, Reported, IsFirst,
         TypeOK, Passes
<1>2. pass.results \in [Sources -> Outcomes \cup {NoOutcome}] /\ pass.todo \subseteq Sources
  BY DEF TypeOK, Passes
<1>3. /\ outcome.wait \in Nat
      /\ outcome.error # "flood" => outcome.wait = 0
      /\ PauseFor(outcome) \in Nat
      /\ outcome.wait <= PauseFor(outcome)
  BY <1>2, OutcomeFacts
<1>4. paused \in [Sources -> Nat] /\ \A t \in Sources \ present : paused[t] = 0
  BY DEF TypeOK
<1>5. /\ owed' \in [Sources -> Nat]
      /\ \A t \in Sources \ {s} : owed'[t] = owed[t] /\ paused'[t] = paused[t]
      /\ owed'[s] <= paused'[s]
  <2>1. CASE MarkHealthy(s)
    <3>1. /\ outcome.error # "flood" /\ owed' = owed
          /\ paused' = Set(paused, s, 0)
      BY <2>1 DEF MarkHealthy
    <3>2. owed[s] = 0
      BY <1>1, <1>3, <3>1
    <3>3. QED
      BY <1>4, <3>1, <3>2 DEF Set
  <2>2. CASE MarkUnhealthy(s)
    <3>1. /\ paused' = Set(paused, s, PauseFor(outcome))
          /\ owed' = IF s \in present THEN owed ELSE [owed EXCEPT ![s] = 0]
      BY <2>2 DEF MarkUnhealthy
    <3>2. owed[s] <= PauseFor(outcome)
      BY <1>1, <1>3
    <3>3. QED
      BY <1>4, <3>1, <3>2 DEF Set
  <2>3. CASE MarkFails(s)
    BY <1>4, <2>3 DEF MarkFails, rows
  <2>4. QED
    BY <2>1, <2>2, <2>3
<1>6. QED
  BY <1>1, <1>2, <1>5

\* Time and the commands keep it.
LEMMA OthersKeepWait ==
  ASSUME TypeOK, TypeOK', WaitKept, Tick \/ Commands
  PROVE  WaitKept'
<1> USE DEF WaitKept, PauseIsKept, Unasked
<1>0. /\ pass.results \in [Sources -> Outcomes \cup {NoOutcome}]
      /\ pass.todo \subseteq Sources /\ paused \in [Sources -> Nat]
      /\ \A s \in Sources : pass.results[s].wait \in Nat
  <2>1. /\ pass.results \in [Sources -> Outcomes \cup {NoOutcome}]
        /\ pass.todo \subseteq Sources /\ paused \in [Sources -> Nat]
    BY DEF TypeOK, Passes
  <2>2. QED
    BY <2>1, OutcomeFacts
<1>1. CASE Tick
  <2>1. /\ pass'.pc = pass.pc /\ pass'.todo = pass.todo /\ pass'.results = pass.results
        /\ paused' = [s \in Sources |-> Earlier(paused[s])]
        /\ owed' = [s \in Sources |-> Earlier(owed[s])]
    BY <1>1 DEF Tick, TypeOK, Passes
  <2>2. \A s \in Sources : /\ owed'[s] \in Nat
                           /\ owed[s] <= paused[s] => owed'[s] <= paused'[s]
                           /\ owed'[s] <= owed[s]
    BY <1>0, <2>1 DEF Earlier
  <2>3. QED
    BY <1>0, <2>1, <2>2
<1>2. ASSUME NEW s \in Sources, NEW on \in BOOLEAN, Upsert(s, on) PROVE WaitKept'
  BY <1>2 DEF Upsert
<1>3. ASSUME NEW s \in Removable, Remove(s) PROVE WaitKept'
  <2>1. s \in Sources
    BY <1>3 DEF Remove, TypeOK
  <2>2. QED
    BY <1>0, <1>3, <2>1 DEF Remove
<1>4. QED
  BY <1>1, <1>2, <1>3 DEF Commands

\* Every step keeps it.
LEMMA WaitIsKept == Spec => []WaitKept
<1>1. Init => WaitKept
  BY DEF Init, WaitKept, PauseIsKept, Unasked, IdlePass
<1>2. TypeOK /\ TypeOK' /\ WaitKept /\ [Next]_vars => WaitKept'
  <2> SUFFICES ASSUME TypeOK, TypeOK', WaitKept, [Next]_vars PROVE WaitKept'
    OBVIOUS
  <2>1. CASE UNCHANGED vars
    BY <2>1 DEF vars, WaitKept, PauseIsKept, Unasked
  <2>2. QED
    BY <2>1, AskingKeepsWait, AnswerKeepsWait, HealthKeepsWait, OthersKeepWait
       DEF Next, PassStep
<1>3. QED
  BY <1>1, <1>2, WatcherTypeCorrect, PTL DEF Spec

\* Whatever commands, slow passes and lost updates come in between, no pass asks
\* for a source before the wait Telegram asked for is over.
THEOREM PauseIsKeptHolds == Spec => []PauseIsKept
<1>1. WaitKept => PauseIsKept
  BY DEF WaitKept
<1>2. QED
  BY <1>1, WaitIsKept, PTL

(***************************************************************************)
(* Only a source that failed again and again is disabled.                  *)
(***************************************************************************)
\* The row counts the failures since the last healthy result, and the count the
\* pass read is still the row's, until the result of the pass is written to it.
CountKept ==
  /\ streak = errors
  /\ pass.pc \in {"idle", "sync", "health"}
  /\ \A s \in present \ fresh :
       pass.pc = "sync" \/ (pass.pc = "health" /\ ~ Unasked(s))
         => pass.count[s] = errors[s]

\* Every step keeps it.
LEMMA CountKeptNext ==
  ASSUME TypeOK, TypeOK', CountKept, [Next]_vars
  PROVE  CountKept'
<1> USE DEF CountKept, Unasked
<1>0. present \subseteq Sources /\ pass \in Passes /\ pass' \in Passes
  BY DEF TypeOK
<1>1. CASE Tick
  BY <1>0, <1>1 DEF Tick, Passes
<1>2. CASE BeginPass
  BY <1>0, <1>2 DEF BeginPass, rows, IdlePass
<1>3. ASSUME NEW s \in Sources, NEW outcome \in Outcomes, SyncSource(s, outcome)
      PROVE  CountKept'
  BY <1>0, <1>3 DEF SyncSource, rows, Passes
<1>4. CASE EndSync
  BY <1>0, <1>4 DEF EndSync, rows, Passes
<1>5. ASSUME NEW s \in Sources, MarkHealthy(s) \/ MarkUnhealthy(s) \/ MarkFails(s)
      PROVE  CountKept'
  <2>1. /\ pass.pc = "health" /\ pass'.pc = "health" /\ pass'.count = pass.count
        /\ pass'.results = [pass.results EXCEPT ![s] = NoOutcome]
        /\ UNCHANGED <<present, fresh>>
    BY <1>0, <1>5 DEF MarkHealthy, MarkUnhealthy, MarkFails, HealthDone, Reported,
                      Passes, rows
  <2>2. streak' = errors' /\ \A t \in Sources : t # s => errors'[t] = errors[t]
    BY <1>5 DEF MarkHealthy, MarkUnhealthy, MarkFails, Set, rows, TypeOK
  <2>3. \A t \in Sources : pass'.results[t] = IF t = s THEN NoOutcome ELSE pass.results[t]
    BY <1>0, <2>1 DEF Passes
  <2>4. QED
    BY <1>0, <2>1, <2>2, <2>3
<1>6. CASE EndPass \/ RunFails
  BY <1>6 DEF EndPass, RunFails, rows, IdlePass
<1>7. ASSUME NEW s \in Sources, NEW on \in BOOLEAN, Upsert(s, on) PROVE CountKept'
  BY <1>0, <1>7 DEF Upsert
<1>8. ASSUME NEW s \in Removable, Remove(s) PROVE CountKept'
  <2>1. s \in Sources /\ \A t \in Sources : t # s => errors'[t] = errors[t]
    BY <1>0, <1>8 DEF Remove, TypeOK
  <2>2. QED
    BY <1>0, <1>8, <2>1 DEF Remove
<1>9. CASE UNCHANGED vars
  BY <1>9 DEF vars
<1>10. QED
  BY <1>1, <1>2, <1>3, <1>4, <1>5, <1>6, <1>7, <1>8, <1>9 DEF Next, PassStep, Commands

\* So it holds of every behaviour.
LEMMA CountIsKept == Spec => []CountKept
<1>1. Init => CountKept
  BY DEF Init, CountKept, IdlePass
<1>2. TypeOK /\ TypeOK' /\ CountKept /\ [Next]_vars => CountKept'
  BY CountKeptNext
<1>3. QED
  BY <1>1, <1>2, WatcherTypeCorrect, PTL DEF Spec

\* The watcher disables a source only after Threshold failures in a row of that
\* very source, although it judges by a count it read when the pass began.
THEOREM DisabledIsEarnedHolds == Spec => DisabledIsEarned
<1>1. ASSUME TypeOK, TypeOK', CountKept, [Next]_vars, NEW s \in Sources,
             pass.pc = "health", s \in present \ fresh, enabled[s],
             s \in present', ~ enabled'[s], pass' # pass
      PROVE  streak'[s] >= Threshold
  <2>1. MarkUnhealthy(s) /\ Disables(s, pass.results[s])
    BY <1>1 DEF Next, Tick, PassStep, BeginPass, SyncSource, EndSync, MarkHealthy,
                MarkUnhealthy, MarkFails, EndPass, RunFails, Commands, Upsert, Remove,
                Set, rows, vars, TypeOK
  <2>2. pass.count[s] = errors[s] /\ streak[s] = errors[s]
    BY <1>1, <2>1 DEF MarkUnhealthy, Reported, IsFirst, CountKept
  <2>3. errors[s] \in Nat /\ errors[s] + 1 >= Threshold
    BY <1>1, <2>1, <2>2 DEF Disables, TypeOK
  <2>4. streak'[s] = UpTo(ErrorCap, errors[s] + 1)
    BY <1>1, <2>1, <2>2 DEF MarkUnhealthy, Set, TypeOK
  <2>5. QED
    BY <2>3, <2>4, UpToType
<1>2. ASSUME TypeOK, TypeOK', CountKept, [Next]_vars
      PROVE  [\A s \in Sources :
                pass.pc = "health" /\ s \in present \ fresh /\ enabled[s]
                  /\ s \in present' /\ ~ enabled'[s] /\ pass' # pass
                => streak'[s] >= Threshold]_vars
  BY <1>1, <1>2
<1>3. QED
  BY <1>2, CountIsKept, WatcherTypeCorrect, PTL DEF Spec, DisabledIsEarned

(***************************************************************************)
(* The watcher implements Health.                                          *)
(***************************************************************************)
\* What a pass is still to ask was not paused when it began, and is not paused now.
ListUnpaused == pass.pc = "sync" => \A s \in pass.todo : paused[s] = 0

LEMMA ListStaysUnpaused == Spec => []ListUnpaused
<1>1. Init => ListUnpaused
  BY DEF Init, ListUnpaused, IdlePass
<1>2. ASSUME TypeOK, TypeOK', ListUnpaused, [Next]_vars PROVE ListUnpaused'
  <2> USE DEF ListUnpaused
  <2>0. /\ pass \in Passes /\ pass' \in Passes /\ pass.todo \subseteq Sources
        /\ paused \in [Sources -> Nat]
    BY <1>2 DEF TypeOK, Passes
  <2>1. CASE Tick
    <3>1. pass'.todo = pass.todo /\ pass'.pc = pass.pc
      BY <2>0, <2>1 DEF Tick, Passes
    <3>2. \A s \in Sources : paused[s] = 0 => paused'[s] = 0
      BY <2>1 DEF Tick, Earlier
    <3>3. QED
      BY <1>2, <2>0, <3>1, <3>2
  <2>2. CASE BeginPass
    BY <2>2 DEF BeginPass, rows, IdlePass, Ready
  <2>3. ASSUME NEW s \in Sources, NEW outcome \in Outcomes, SyncSource(s, outcome)
        PROVE  ListUnpaused'
    <3>1. pass'.todo \subseteq pass.todo /\ UNCHANGED paused /\ pass.pc = "sync"
      BY <2>0, <2>3 DEF SyncSource, rows, Passes
    <3>2. QED
      BY <1>2, <3>1
  <2>4. CASE EndSync
    BY <2>0, <2>4 DEF EndSync, Passes
  <2>5. ASSUME NEW s \in Sources, MarkHealthy(s) \/ MarkUnhealthy(s) \/ MarkFails(s)
        PROVE  ListUnpaused'
    BY <2>0, <2>5 DEF MarkHealthy, MarkUnhealthy, MarkFails, HealthDone, Reported, Passes
  <2>6. CASE EndPass \/ RunFails
    BY <2>6 DEF EndPass, RunFails, IdlePass
  <2>7. CASE Commands
    <3>1. ASSUME NEW s \in Sources, NEW on \in BOOLEAN, Upsert(s, on) PROVE ListUnpaused'
      BY <1>2, <3>1 DEF Upsert
    <3>2. ASSUME NEW s \in Removable, Remove(s) PROVE ListUnpaused'
      BY <1>2, <2>0, <3>2 DEF Remove
    <3>3. QED
      BY <2>7, <3>1, <3>2 DEF Commands
  <2>8. CASE UNCHANGED vars
    BY <1>2, <2>8 DEF vars
  <2>9. QED
    BY <1>2, <2>1, <2>2, <2>3, <2>4, <2>5, <2>6, <2>7, <2>8 DEF Next, PassStep
<1>3. QED
  BY <1>1, <1>2, WatcherTypeCorrect, PTL DEF Spec

\* A result that is written to its row, or lost, is a step of Health.
LEMMA ReportRefines ==
  ASSUME TypeOK, TypeOK', CountKept, NEW s \in Sources,
         MarkHealthy(s) \/ MarkUnhealthy(s) \/ MarkFails(s)
  PROVE  Row!Report(s) \/ Row!Lose(s)
<1> DEFINE outcome == pass.results[s]
<1>1. /\ pass'.results = [pass.results EXCEPT ![s] = NoOutcome]
      /\ UNCHANGED <<present, fresh>>
      /\ pass.pc = "health" /\ ~ Unasked(s)
  BY DEF MarkHealthy, MarkUnhealthy, MarkFails, HealthDone, Reported, IsFirst, rows,
         TypeOK, Passes
<1>2. CASE MarkFails(s) \/ s \notin present
  <2>1. UNCHANGED <<enabled, errors, paused>>
    BY <1>2 DEF MarkHealthy, MarkUnhealthy, MarkFails, Set, rows
  <2>2. QED
    BY <1>1, <2>1 DEF Row!Lose
<1>3. CASE MarkHealthy(s) /\ s \in present
  <2>1. Row!Recovers(s)
    BY <1>3 DEF MarkHealthy, Set, Row!Recovers
  <2>2. QED
    BY <1>1, <1>3, <2>1 DEF Row!Report
<1>4. CASE MarkUnhealthy(s) /\ s \in present
  <2> DEFINE counted == UpTo(ErrorCap, errors[s] + 1)
  <2>1. /\ errors' = [errors EXCEPT ![s] = counted]
        /\ paused' = [paused EXCEPT ![s] = PauseFor(outcome)]
        /\ enabled' = IF Disables(s, outcome) THEN [enabled EXCEPT ![s] = FALSE] ELSE enabled
        /\ outcome.error # "none"
    BY <1>4 DEF MarkUnhealthy, Set
  <2>2. outcome \in Outcomes
    <3>1. outcome \in Outcomes \cup {NoOutcome}
      BY DEF TypeOK, Passes
    <3>2. QED
      BY <1>1, <3>1 DEF Unasked
  <2>3. outcome.error # "unasked"
    BY <2>2 DEF Outcomes, Healthy, Floods, Others
  <2>4. \A t \in Sources \ {s} : paused'[t] = paused[t]
    BY <2>1 DEF TypeOK
  <2>5. /\ paused'[s] >= outcome.wait
        /\ outcome.error # "flood" => paused'[s] = 0
    <3>1. paused'[s] = PauseFor(outcome)
      BY <2>1 DEF TypeOK
    <3>2. outcome.wait \in Nat /\ PauseFor(outcome) \in Nat /\ outcome.wait <= PauseFor(outcome)
      BY <2>2, OutcomeFacts
    <3>3. outcome.error # "flood" => PauseFor(outcome) = 0
      BY DEF PauseFor
    <3>4. QED
      BY <3>1, <3>2, <3>3
  <2>6. /\ errors[s] \in Nat /\ errors'[s] = counted
        /\ counted >= Threshold <=> errors[s] + 1 >= Threshold
        /\ counted \in Nat
    <3>1. errors[s] \in Nat /\ errors'[s] = counted
      BY <2>1 DEF TypeOK
    <3>2. QED
      BY <3>1, ErrorCapAssumption, ThresholdAssumption
         DEF UpTo, ErrorCapAssumption, ThresholdAssumption
  <2>7. s \notin fresh => pass.count[s] = errors[s]
    BY <1>1, <1>4 DEF CountKept
  <2>8. \/ (Row!Judged(s) \/ s \in fresh) /\ enabled' = [enabled EXCEPT ![s] = FALSE]
        \/ (Row!Spared(s) \/ s \in fresh) /\ UNCHANGED enabled
    <3>1. CASE s \in fresh
      BY <2>1, <3>1
    <3>2. CASE s \notin fresh
      <4>1. Threshold \in Nat
        BY ThresholdAssumption DEF ThresholdAssumption
      <4>2. Disables(s, outcome) <=> Row!Judged(s)
        BY <2>6, <2>7, <3>2 DEF Disables, Row!Judged
      <4>3. ~ Disables(s, outcome) => Row!Spared(s)
        BY <2>6, <2>7, <3>2, <4>1 DEF Disables, Row!Spared
      <4>4. QED
        BY <2>1, <4>2, <4>3
    <3>3. QED
      BY <3>1, <3>2
  <2>9. errors' = [errors EXCEPT ![s] = IF @ + 1 < ErrorCap THEN @ + 1 ELSE ErrorCap]
    BY <2>1 DEF UpTo
  <2>10. Row!Suffers(s)
    BY <2>1, <2>3, <2>4, <2>5, <2>8, <2>9 DEF Row!Suffers
  <2>11. QED
    BY <1>1, <1>4, <2>10 DEF Row!Report
<1>5. QED
  BY <1>2, <1>3, <1>4

\* Asking, time and the commands.
LEMMA OthersRefine ==
  ASSUME TypeOK, TypeOK', WaitKept, ListUnpaused,
         \/ Tick \/ BeginPass \/ EndSync \/ EndPass \/ RunFails \/ Commands
         \/ \E s \in Sources, outcome \in Outcomes : SyncSource(s, outcome)
  PROVE  [Row!Next]_(Row!health)
<1>0. /\ pass \in Passes /\ pass.results \in [Sources -> Outcomes \cup {NoOutcome}]
      /\ IdlePass.results = Row!Blank
  BY DEF TypeOK, Passes, IdlePass, Row!Blank
<1>1. CASE Tick
  <2>1. pass'.results = pass.results
    BY <1>0, <1>1 DEF Tick, Passes
  <2>2. Row!Wait
    BY <1>1, <2>1 DEF Tick, Earlier, Row!Wait
  <2>3. QED
    BY <2>2 DEF Row!Next
<1>2. CASE BeginPass
  <2>1. pass.results = Row!Blank
    BY <1>0, <1>2 DEF BeginPass, WaitKept, Unasked, Row!Blank
  <2>2. pass'.results = Row!Blank
    BY <1>0, <1>2 DEF BeginPass, IdlePass
  <2>3. Row!Look
    BY <1>2, <2>1, <2>2 DEF BeginPass, rows, Row!Look
  <2>4. QED
    BY <2>3 DEF Row!Next
<1>3. ASSUME NEW s \in Sources, NEW outcome \in Outcomes, SyncSource(s, outcome)
      PROVE  [Row!Next]_(Row!health)
  <2>1. s \in pass.todo /\ pass.pc = "sync"
    BY <1>3 DEF SyncSource, IsFirst
  <2>2. pass.results[s] = NoOutcome /\ paused[s] = 0
    BY <2>1 DEF WaitKept, Unasked, ListUnpaused
  <2>3. pass'.results = [pass.results EXCEPT ![s] = outcome]
    BY <1>0, <1>3 DEF SyncSource, Passes
  <2>4. Row!Answer(s, outcome)
    BY <1>3, <2>2, <2>3 DEF SyncSource, rows, Row!Answer
  <2>5. QED
    BY <2>4 DEF Row!Next
<1>4. CASE EndSync
  <2>1. pass'.results = pass.results
    BY <1>0, <1>4 DEF EndSync, Passes
  <2>2. QED
    BY <1>4, <2>1 DEF EndSync, rows, Row!health
<1>5. CASE EndPass \/ RunFails
  <2>1. Row!LoseAll
    BY <1>0, <1>5 DEF EndPass, RunFails, rows, Row!LoseAll
  <2>2. QED
    BY <2>1 DEF Row!Next
<1>6. ASSUME NEW s \in Sources, NEW on \in BOOLEAN, Upsert(s, on)
      PROVE  [Row!Next]_(Row!health)
  <2>1. Row!Configure(s, on)
    BY <1>6 DEF Upsert, Row!Configure
  <2>2. QED
    BY <2>1 DEF Row!Next
<1>7. ASSUME NEW s \in Removable, Remove(s) PROVE [Row!Next]_(Row!health)
  <2>1. s \in Sources
    BY <1>7 DEF Remove, TypeOK
  <2>2. Row!Remove(s)
    BY <1>7 DEF Remove, Row!Remove
  <2>3. QED
    BY <2>1, <2>2 DEF Row!Next
<1>8. QED
  BY <1>1, <1>2, <1>3, <1>4, <1>5, <1>6, <1>7 DEF Commands

\* Although a pass decides by rows it read before it asked anybody, while commands
\* change them, each report has the effect it would have if it were judged at once on
\* the row it meets, and no paused source is asked.
THEOREM WatcherKeepsHealth == Spec => KeepsHealth
<1>1. Init => Row!Init
  BY DEF Init, IdlePass, Row!Init, Row!Zero, Row!Blank
<1>2. ASSUME TypeOK, TypeOK', WaitKept, CountKept, ListUnpaused, [Next]_vars
      PROVE  [Row!Next]_(Row!health)
  <2>1. ASSUME NEW s \in Sources, MarkHealthy(s) \/ MarkUnhealthy(s) \/ MarkFails(s)
        PROVE  [Row!Next]_(Row!health)
    BY <1>2, <2>1, ReportRefines DEF Row!Next
  <2>2. CASE UNCHANGED vars
    BY <2>2 DEF vars, Row!health
  <2>3. QED
    BY <1>2, <2>1, <2>2, OthersRefine DEF Next, PassStep
<1>3. QED
  BY <1>1, <1>2, WatcherTypeCorrect, WaitIsKept, CountIsKept, ListStaysUnpaused, PTL
     DEF Spec, KeepsHealth, Row!Spec
================================================================================
