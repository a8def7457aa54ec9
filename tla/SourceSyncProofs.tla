--------------------------- MODULE SourceSyncProofs ---------------------------
(***************************************************************************)
(* Theorems about SourceSync for any number of syncers and senders, any    *)
(* limits and chats of any length.                                         *)
(***************************************************************************)
EXTENDS SourceSync, FiniteSetTheorems, TLAPS

(***************************************************************************)
(* Records a syncer moves through stay runs.                               *)
(***************************************************************************)
\* The idle record, every phase and whatever follows a phase are runs.
LEMMA PhasesAreRuns ==
  /\ Idle \in Runs
  /\ \A label \in Labels, limit \in Limits \cup {0}, backfill \in Backfills \cup {0} :
       Phase(label, limit, backfill) \in Runs
  /\ \A r \in Runs : NextPhase(r) \in Runs
<1>1. NoCursors \in [Labels -> Nat]
  BY DEF NoCursors
<1>2. Idle \in Runs
  BY <1>1 DEF Idle, Runs, Labels
<1>3. ASSUME NEW label \in Labels, NEW limit \in Limits \cup {0},
             NEW backfill \in Backfills \cup {0}
      PROVE  Phase(label, limit, backfill) \in Runs
  BY <1>2 DEF Phase, Runs, Idle
<1>4. ASSUME NEW r \in Runs
      PROVE  NextPhase(r) \in Runs
  <2>1. r.limit \in Limits \cup {0} /\ r.backfill \in Backfills \cup {0}
    BY DEF Runs
  <2>2. QED
    BY <1>2, <1>3, <2>1 DEF NextPhase, Labels
<1>5. QED
  BY <1>2, <1>3, <1>4

\* What a syncer writes to source_states are two cursors.
LEMMA NewCursorsType ==
  ASSUME NEW r \in Runs
  PROVE  NewCursors(r) \in [Labels -> Nat]
BY DEF NewCursors, NoCursors, Runs, Labels

\* Limits are natural numbers, the 0 of an idle run included.
LEMMA LimitsAreNaturals ==
  ASSUME NEW r \in Runs
  PROVE  r.limit \in Nat
<1>1. r.limit \in Limits \cup {0}
  BY DEF Runs
<1>2. \A n \in Limits \cup {0} : n \in Nat
  BY LimitsAssumption DEF LimitsAssumption
<1>3. QED
  BY <1>1, <1>2, Zenon

\* Moving one syncer to a run keeps all of them runs.
LEMMA SetSyncType ==
  ASSUME sync \in [Syncers -> Runs], NEW s \in Syncers, NEW r \in Runs, SetSync(s, r)
  PROVE  sync' \in [Syncers -> Runs]
BY DEF SetSync

(***************************************************************************)
(* TypeOK is inductive by itself.                                          *)
(***************************************************************************)
\* The empty database is well typed.
LEMMA InitTypeOK == Init => TypeOK
<1> SUFFICES ASSUME Init PROVE TypeOK
  OBVIOUS
<1>1. NoCursors \in [Labels -> Nat]
  BY DEF NoCursors
<1>2. IsFiniteSet({})
  BY FS_EmptySet
<1>3. QED
  BY <1>1, <1>2, PhasesAreRuns DEF Init, TypeOK

\* Messages that come and go keep the types; a chat stays finite.
LEMMA EnvironmentTypeOK == TypeOK /\ Environment => TypeOK'
<1> SUFFICES ASSUME TypeOK, Environment PROVE TypeOK'
  OBVIOUS
<1>1. ASSUME NEW l \in Labels, NEW a \in Senders, Arrive(l, a) PROVE TypeOK'
  <2>1. issued[l] + 1 \in Nat \ {0}
    BY DEF TypeOK
  <2>2. [label |-> l, id |-> issued[l] + 1, by |-> a] \in Messages
    BY <2>1 DEF Messages
  <2>3. IsFiniteSet(remote')
    BY <1>1, FS_AddElement DEF TypeOK, Arrive
  <2>4. issued' \in [Labels -> Nat]
    BY <1>1, <2>1 DEF TypeOK, Arrive
  <2>5. QED
    BY <1>1, <2>2, <2>3, <2>4 DEF TypeOK, Arrive, policy
<1>2. ASSUME NEW m \in remote, Delete(m) PROVE TypeOK'
  <2>1. IsFiniteSet(remote')
    BY <1>2, FS_RemoveElement DEF TypeOK, Delete
  <2>2. QED
    BY <1>2, <2>1 DEF TypeOK, Delete, policy
<1>3. QED
  BY <1>1, <1>2 DEF Environment

\* So do the commands.
LEMMA CommandsTypeOK == TypeOK /\ (Commands \/ PurgeSource) => TypeOK'
<1> SUFFICES ASSUME TypeOK, Commands \/ PurgeSource PROVE TypeOK'
  OBVIOUS
<1>0. NoCursors \in [Labels -> Nat]
  BY DEF NoCursors
<1>1. CASE AddSource
  BY <1>1 DEF TypeOK, AddSource, telegram, policy
<1>2. CASE RemoveSource
  BY <1>2 DEF TypeOK, RemoveSource, telegram, policy
<1>3. CASE PurgeSource
  BY <1>0, <1>3 DEF TypeOK, PurgeSource, telegram
<1>4. ASSUME NEW a \in Senders, NEW scope \in Scopes, ExcludeSender(a, scope)
      PROVE  TypeOK'
  BY <1>4 DEF TypeOK, ExcludeSender, telegram
<1>5. ASSUME NEW e \in hiding, HideBySender(e) PROVE TypeOK'
  BY <1>5 DEF TypeOK, HideBySender, telegram
<1>6. ASSUME NEW e \in excluded, RemoveSender(e) PROVE TypeOK'
  BY <1>6 DEF TypeOK, RemoveSender, telegram
<1>7. QED
  BY <1>1, <1>2, <1>3, <1>4, <1>5, <1>6 DEF Commands

\* So does every statement of a sync.
LEMMA SyncTypeOK ==
  ASSUME TypeOK, NEW s \in Syncers, BeginRun(s) \/ SyncStep(s) \/ SyncStops(s)
  PROVE  TypeOK'
<1> DEFINE r == sync[s]
<1>0. r \in Runs
  BY DEF TypeOK
<1>1. ASSUME NEW limit \in Limits, NEW backfill \in Backfills \cup {0},
             Begin(s, limit, backfill)
      PROVE  TypeOK'
  <2>1. Phase("post", limit, backfill) \in Runs
    BY PhasesAreRuns DEF Labels
  <2>2. sync' \in [Syncers -> Runs]
    BY <1>1, <2>1, SetSyncType DEF TypeOK, Begin
  <2>3. QED
    BY <1>1, <2>2 DEF TypeOK, Begin, telegram, policy
<1>2. CASE ReadState(s)
  <2>1. [r EXCEPT !.snap = cursors,
                  !.pc = IF r.backfill > 0 THEN "cursor" ELSE "collect"] \in Runs
    BY <1>0 DEF TypeOK, Runs
  <2>2. sync' \in [Syncers -> Runs]
    BY <1>2, <2>1, SetSyncType DEF TypeOK, ReadState
  <2>3. QED
    BY <1>2, <2>2 DEF TypeOK, ReadState, telegram, policy
<1>3. CASE CollectLatest(s)
  <2>1. PICK latest \in 0 .. issued[r.label] :
          SetSync(s, IF latest = 0 THEN Idle
                     ELSE [r EXCEPT !.pc = "cursor", !.top = latest])
    BY <1>3 DEF CollectLatest
  <2>2. latest \in Nat
    BY <1>0 DEF TypeOK, Runs
  <2>3. [r EXCEPT !.pc = "cursor", !.top = latest] \in Runs
    BY <1>0, <2>2 DEF Runs
  <2>4. (IF latest = 0 THEN Idle
         ELSE [r EXCEPT !.pc = "cursor", !.top = latest]) \in Runs
    BY <2>3, PhasesAreRuns
  <2>5. sync' \in [Syncers -> Runs]
    BY <2>1, <2>4, SetSyncType DEF TypeOK
  <2>6. QED
    BY <1>3, <2>5 DEF TypeOK, CollectLatest, telegram, policy
<1>4. CASE Collect(s)
  <2> DEFINE n == IF r.backfill > 0 THEN r.backfill ELSE r.limit
             batch == Newest(After(r.label, r.snap[r.label]), n)
             done == /\ ReachedState(r.label, r.snap[r.label], n)
                     /\ ~ Truncated(r.label, r.snap[r.label], n)
  <2>1. PICK top \in 0 .. issued[r.label] :
          SetSync(s, [r EXCEPT !.pc = "messages", !.todo = batch, !.top = top,
                               !.complete = done])
    BY <1>4 DEF Collect
  <2>2. top \in Nat
    BY <1>0 DEF TypeOK, Runs
  <2>3. batch \in SUBSET Messages
    BY DEF TypeOK, Newest, After
  <2>4. done \in BOOLEAN
    OBVIOUS
  <2>5. [r EXCEPT !.pc = "messages", !.todo = batch, !.top = top,
                  !.complete = done] \in Runs
    <3> HIDE DEF r, batch, done
    <3> QED
      BY <1>0, <2>2, <2>3, <2>4 DEF Runs
  <2>6. sync' \in [Syncers -> Runs]
    BY <2>1, <2>5, SetSyncType DEF TypeOK
  <2>7. QED
    BY <1>4, <2>6 DEF TypeOK, Collect, telegram, policy
<1>5. ASSUME NEW m \in r.todo, CheckGlobal(s, m) \/ CheckSource(s, m)
      PROVE  TypeOK'
  <2>1. m \in Messages
    BY <1>0 DEF Runs
  <2>2. [r EXCEPT !.pc = "messages", !.todo = @ \ {m}] \in Runs
    BY <1>0 DEF Runs
  <2>3. /\ [r EXCEPT !.pc = "scoped"] \in Runs
        /\ [r EXCEPT !.pc = "save"] \in Runs
    BY <1>0 DEF Runs
  <2>4. sync' \in [Syncers -> Runs]
    BY <1>5, <2>2, <2>3, SetSyncType
       DEF TypeOK, CheckGlobal, CheckSource, CheckScope
  <2>5. skipped' \subseteq Messages
    BY <1>5, <2>1 DEF TypeOK, CheckGlobal, CheckSource, CheckScope
  <2>6. QED
    BY <1>5, <2>4, <2>5
       DEF TypeOK, CheckGlobal, CheckSource, CheckScope, telegram, policy
<1>6. ASSUME NEW m \in r.todo, SaveMessage(s, m) PROVE TypeOK'
  <2>1. m \in Messages
    BY <1>0 DEF Runs
  <2>2. [r EXCEPT !.pc = "messages", !.todo = @ \ {m}] \in Runs
    BY <1>0 DEF Runs
  <2>3. sync' \in [Syncers -> Runs]
    BY <1>6, <2>2, SetSyncType DEF TypeOK, SaveMessage
  <2>4. QED
    BY <1>6, <2>1, <2>3 DEF TypeOK, SaveMessage, telegram, policy
<1>7. CASE EndBatch(s)
  <2>1. /\ [r EXCEPT !.pc = "state"] \in Runs
        /\ [r EXCEPT !.pc = "cursor"] \in Runs
    BY <1>0 DEF Runs
  <2>2. NextPhase(r) \in Runs
    BY <1>0, PhasesAreRuns
  <2>3. sync' \in [Syncers -> Runs]
    BY <1>7, <2>1, <2>2, SetSyncType DEF TypeOK, EndBatch
  <2>4. QED
    BY <1>7, <2>3 DEF TypeOK, EndBatch, telegram, policy
<1>8. CASE SaveCursor(s)
  <2>1. NextPhase(r) \in Runs
    BY <1>0, PhasesAreRuns
  <2>2. sync' \in [Syncers -> Runs]
    BY <1>8, <2>1, SetSyncType DEF TypeOK, SaveCursor
  <2>3. cursors' \in [Labels -> Nat]
    BY <1>0, <1>8, NewCursorsType DEF SaveCursor
  <2>4. MaxOf(floor[r.label], r.top) \in Nat
    BY <1>0 DEF TypeOK, Runs, MaxOf
  <2>5. floor' \in [Labels -> Nat]
    BY <1>8, <2>4 DEF TypeOK, SaveCursor
  <2>6. QED
    BY <1>8, <2>2, <2>3, <2>5 DEF TypeOK, SaveCursor, telegram, policy
<1>9. CASE SyncStops(s)
  <2>1. sync' \in [Syncers -> Runs]
    BY <1>9, PhasesAreRuns, SetSyncType DEF TypeOK, SyncStops
  <2>2. QED
    BY <1>9, <2>1 DEF TypeOK, SyncStops, telegram, policy
<1>10. QED
  BY <1>1, <1>2, <1>3, <1>4, <1>5, <1>6, <1>7, <1>8, <1>9
     DEF BeginRun, SyncStep, Refused

\* Type correctness: whatever syncs, commands and Telegram do, in any
\* interleaving, the tables and the syncers hold values of their types.
THEOREM TypeCorrect == Spec => []TypeOK
<1>1. TypeOK /\ [Next]_vars => TypeOK'
  <2> SUFFICES ASSUME TypeOK, [Next]_vars PROVE TypeOK'
    OBVIOUS
  <2>1. CASE Next
    BY <2>1, EnvironmentTypeOK, CommandsTypeOK, SyncTypeOK DEF Next, SteadyNext
  <2>2. CASE UNCHANGED vars
    BY <2>2 DEF TypeOK, vars
  <2>3. QED
    BY <2>1, <2>2
<1>2. QED
  BY <1>1, InitTypeOK, PTL DEF Spec

(***************************************************************************)
(* No message and no cursor outlives its source.                           *)
(***************************************************************************)
\* A running sync writes a message or a cursor only while its source is there.
LEMMA SyncsReferTo ==
  ASSUME ForeignKeys, NEW s \in Syncers, BeginRun(s) \/ SyncStep(s) \/ SyncStops(s)
  PROVE  ForeignKeys'
<1> USE DEF ForeignKeys, ReferenceOK, telegram, policy
<1>1. CASE SaveCursor(s)
  BY <1>1 DEF SaveCursor
<1>2. ASSUME NEW m \in sync[s].todo, SaveMessage(s, m) PROVE ForeignKeys'
  BY <1>2 DEF SaveMessage
<1>3. ASSUME NEW m \in sync[s].todo, CheckGlobal(s, m) \/ CheckSource(s, m)
      PROVE  ForeignKeys'
  BY <1>3 DEF CheckGlobal, CheckSource, CheckScope
<1>4. CASE \/ BeginRun(s) \/ ReadState(s) \/ CollectLatest(s) \/ Collect(s)
           \/ EndBatch(s) \/ SyncStops(s)
  <2>1. UNCHANGED <<configured, hasState, cursors, stored, hidden, excluded>>
    BY <1>4 DEF BeginRun, Begin, ReadState, CollectLatest, Collect, EndBatch, SyncStops
  <2>. QED BY <2>1
<1>. QED BY <1>1, <1>2, <1>3, <1>4 DEF SyncStep, Refused

\* A removal is refused while anything refers to the source; a purge takes it along.
LEMMA CommandsReferTo ==
  ASSUME ForeignKeys, Environment \/ Commands \/ PurgeSource
  PROVE  ForeignKeys'
<1> USE DEF ForeignKeys, telegram, policy
<1>1. CASE Environment BY <1>1 DEF Environment, Arrive, Delete
<1>2. CASE PurgeSource BY <1>2 DEF PurgeSource
<1>3. CASE Commands
  BY <1>3 DEF Commands, AddSource, RemoveSource, ExcludeSender, HideBySender, RemoveSender
<1>. QED BY <1>1, <1>2, <1>3

\* No message and no cursor survives a purge or a removal of its source, however
\* late the statements of running syncs come.
THEOREM ForeignKeysHold == Spec => []ForeignKeys
<1>1. Init => ForeignKeys
  BY DEF Init, ForeignKeys
<1>2. ForeignKeys /\ UNCHANGED vars => ForeignKeys'
  BY DEF ForeignKeys, vars, telegram, policy
<1>3. ForeignKeys /\ Next => ForeignKeys'
  BY SyncsReferTo, CommandsReferTo DEF Next, SteadyNext
<1>. QED BY <1>1, <1>2, <1>3, PTL DEF Spec

(***************************************************************************)
(* No message is passed over.                                              *)
(***************************************************************************)
\* A batch that is not cut holds everything after the cursor.
LEMMA UncutBatch ==
  ASSUME IsFiniteSet(remote), NEW l \in Labels, NEW c \in Nat, NEW n \in Nat,
         ~ Truncated(l, c, n)
  PROVE  Newest(After(l, c), n) = After(l, c)
<1> DEFINE S == After(l, c)
<1>1. IsFiniteSet(S) /\ Cardinality(S) \in Nat /\ Cardinality(S) < n
  <2>1. S \in SUBSET remote
    BY DEF After
  <2>2. IsFiniteSet(S)
    BY <2>1, FS_Subset
  <2>3. QED
    BY <2>2, FS_CardinalityType DEF Truncated
<1>2. ASSUME NEW m \in S PROVE Cardinality({k \in S : k.id > m.id}) < n
  <2> DEFINE T == {k \in S : k.id > m.id}
  <2>1. T \in SUBSET S
    OBVIOUS
  <2>2. IsFiniteSet(T) /\ Cardinality(T) <= Cardinality(S)
    <3> HIDE DEF S, T
    <3> QED
      BY <1>1, <2>1, FS_Subset
  <2>3. Cardinality(T) \in Nat
    BY <2>2, FS_CardinalityType
  <2> HIDE DEF S, T
  <2>4. Cardinality(T) < n
    BY <1>1, <2>2, <2>3
  <2>5. QED
    BY <2>4 DEF T
<1>3. QED
  BY <1>2 DEF Newest

\* The clauses of Coverage after a step.
CoveredNext(l, c) ==
  \A m \in remote' :
    m.label = l /\ floor'[l] < m.id /\ m.id <= c => m \in stored' \cup skipped'

BatchCoveredNext(r) ==
  \A m \in remote' :
    m.label = r.label /\ floor'[r.label] < m.id /\ m.id <= r.top
      => m \in stored' \cup skipped' \cup r.todo

RunCoveredNext(r) ==
  /\ \A l \in Labels : r.snap[l] <= issued'[l] /\ CoveredNext(l, r.snap[l])
  /\ r.top <= issued'[r.label]
  /\ r.complete => BatchCoveredNext(r)
  /\ r.pc \in {"idle", "state", "collect"} => ~ r.complete
  /\ r.pc = "cursor" /\ ~ Baseline(r) => r.complete /\ r.todo = {}

\* A step that loses nothing: what was stored or skipped stays so, floors only
\* rise, and a new message has an id its chat never gave out before.
Grows ==
  /\ stored \cup skipped \subseteq stored' \cup skipped'
  /\ \A l \in Labels : floor[l] <= floor'[l] /\ issued[l] <= issued'[l]
  /\ \A m \in remote' \ remote : issued[m.label] < m.id /\ m.id <= issued'[m.label]

\* Coverage after a step, one conjunct at a time.
LEMMA CoverageNext ==
  ASSUME \A m \in remote' : m.id <= issued'[m.label],
         \A l \in Labels : cursors'[l] <= issued'[l] /\ CoveredNext(l, cursors'[l]),
         \A s \in Syncers : RunCoveredNext(sync'[s])
  PROVE  Coverage'
<1>1. \A s \in Syncers : RunCovered(sync[s])'
  BY DEF RunCovered, RunCoveredNext, Covered, CoveredNext, BatchCovered,
         BatchCoveredNext, Baseline
<1>2. \A l \in Labels : (cursors[l] <= issued[l] /\ Covered(l, cursors[l]))'
  BY DEF Covered, CoveredNext
<1>3. QED
  BY <1>1, <1>2 DEF Coverage

\* What is covered up to a cursor stays covered in a step that loses nothing.
LEMMA GrowsKeepsCovered ==
  ASSUME TypeOK, TypeOK', Grows, NEW l \in Labels, NEW c \in Nat,
         c <= issued[l], Covered(l, c)
  PROVE  c <= issued'[l] /\ CoveredNext(l, c)
<1>1. issued[l] \in Nat /\ issued'[l] \in Nat /\ floor[l] \in Nat /\ floor'[l] \in Nat
  BY DEF TypeOK
<1>2. c <= issued'[l]
  BY <1>1 DEF Grows
<1>3. ASSUME NEW m \in remote', m.label = l, floor'[l] < m.id, m.id <= c
      PROVE  m \in stored' \cup skipped'
  <2>1. m.id \in Nat
    BY DEF TypeOK, Messages
  <2>2. m \in remote
    BY <1>1, <1>3, <2>1 DEF Grows
  <2>3. floor[l] < m.id
    BY <1>1, <1>3, <2>1 DEF Grows
  <2>4. QED
    BY <1>3, <2>2, <2>3 DEF Covered, Grows
<1>4. QED
  BY <1>2, <1>3 DEF CoveredNext

\* So does a batch under way.
LEMMA GrowsKeepsBatch ==
  ASSUME TypeOK, TypeOK', Grows, NEW r \in Runs,
         r.top <= issued[r.label], BatchCovered(r)
  PROVE  r.top <= issued'[r.label] /\ BatchCoveredNext(r)
<1> DEFINE l == r.label
<1>1. /\ issued[l] \in Nat /\ issued'[l] \in Nat
      /\ floor[l] \in Nat /\ floor'[l] \in Nat
      /\ r.top \in Nat /\ l \in Labels
  BY DEF TypeOK, Runs
<1>2. r.top <= issued'[l]
  BY <1>1 DEF Grows
<1>3. ASSUME NEW m \in remote', m.label = l, floor'[l] < m.id, m.id <= r.top
      PROVE  m \in stored' \cup skipped' \cup r.todo
  <2>1. m.id \in Nat
    BY DEF TypeOK, Messages
  <2>2. m \in remote
    BY <1>1, <1>3, <2>1 DEF Grows
  <2>3. floor[l] < m.id
    BY <1>1, <1>3, <2>1 DEF Grows
  <2>4. QED
    BY <1>3, <2>2, <2>3 DEF BatchCovered, Grows
<1>4. QED
  BY <1>2, <1>3 DEF BatchCoveredNext

\* So does a whole run.
LEMMA GrowsKeepsRun ==
  ASSUME TypeOK, TypeOK', Grows, NEW r \in Runs, RunCovered(r)
  PROVE  RunCoveredNext(r)
<1>1. \A l \in Labels : r.snap[l] \in Nat
  BY DEF Runs
<1>2. \A l \in Labels : r.snap[l] <= issued'[l] /\ CoveredNext(l, r.snap[l])
  BY <1>1, GrowsKeepsCovered DEF RunCovered
<1>3. r.top <= issued'[r.label]
  <2>1. /\ issued[r.label] \in Nat /\ issued'[r.label] \in Nat
        /\ r.top \in Nat /\ r.label \in Labels
    BY DEF TypeOK, Runs
  <2>2. QED
    BY <2>1 DEF Grows, RunCovered
<1>4. r.complete => BatchCoveredNext(r)
  BY GrowsKeepsBatch DEF RunCovered
<1>5. QED
  BY <1>2, <1>3, <1>4 DEF RunCovered, RunCoveredNext

\* Steps outside the syncers that lose nothing.
LEMMA GrowsKeepsCoverage ==
  ASSUME TypeOK, TypeOK', Coverage, Grows, UNCHANGED <<sync, cursors>>
  PROVE  Coverage'
<1>1. \A m \in remote' : m.id <= issued'[m.label]
  <2> SUFFICES ASSUME NEW m \in remote', m \in remote
               PROVE  m.id <= issued'[m.label]
    BY DEF Grows
  <2>1. /\ m.label \in Labels /\ m.id \in Nat
        /\ issued[m.label] \in Nat /\ issued'[m.label] \in Nat
    BY DEF TypeOK, Messages
  <2>2. QED
    BY <2>1 DEF Grows, Coverage
<1>2. \A l \in Labels : cursors'[l] <= issued'[l] /\ CoveredNext(l, cursors'[l])
  <2>1. \A l \in Labels : cursors[l] \in Nat
    BY DEF TypeOK
  <2>2. QED
    BY <2>1, GrowsKeepsCovered DEF Coverage
<1>3. \A s \in Syncers : RunCoveredNext(sync'[s])
  <2>1. \A s \in Syncers : sync[s] \in Runs
    BY DEF TypeOK
  <2>2. QED
    BY <2>1, GrowsKeepsRun DEF Coverage
<1>4. QED
  BY <1>1, <1>2, <1>3, CoverageNext

\* A step of one syncer: the others keep their coverage, its own is to be shown.
LEMMA OneSyncer ==
  ASSUME TypeOK, TypeOK', Coverage, Grows, UNCHANGED <<remote, issued>>,
         NEW s \in Syncers, NEW q \in Runs, SetSync(s, q), RunCoveredNext(q),
         \A l \in Labels : cursors'[l] <= issued'[l] /\ CoveredNext(l, cursors'[l])
  PROVE  Coverage'
<1>1. \A m \in remote' : m.id <= issued'[m.label]
  BY DEF Coverage
<1>2. ASSUME NEW t \in Syncers PROVE RunCoveredNext(sync'[t])
  <2>1. sync[t] \in Runs /\ RunCovered(sync[t])
    BY DEF TypeOK, Coverage
  <2>2. RunCoveredNext(sync[t])
    BY <2>1, GrowsKeepsRun
  <2>3. sync'[t] = IF t = s THEN q ELSE sync[t]
    BY DEF TypeOK, SetSync
  <2>4. QED
    BY <2>2, <2>3
<1>3. QED
  BY <1>1, <1>2, CoverageNext

\* The same when the step leaves the state row alone.
LEMMA OneSyncerSameCursors ==
  ASSUME TypeOK, TypeOK', Coverage, Grows, UNCHANGED <<remote, issued, cursors>>,
         NEW s \in Syncers, NEW q \in Runs, SetSync(s, q), RunCoveredNext(q)
  PROVE  Coverage'
<1>1. \A l \in Labels : cursors[l] \in Nat
  BY DEF TypeOK
<1>2. \A l \in Labels : cursors'[l] <= issued'[l] /\ CoveredNext(l, cursors'[l])
  BY <1>1, GrowsKeepsCovered DEF Coverage
<1>3. QED
  BY <1>2, OneSyncer

\* A run that has read nothing yet has nothing to cover.
LEMMA FreshRunsCovered ==
  ASSUME TypeOK'
  PROVE  /\ RunCoveredNext(Idle)
         /\ \A label \in Labels, limit \in Limits \cup {0} :
              RunCoveredNext(Phase(label, limit, 0))
<1>1. \A l \in Labels : issued'[l] \in Nat
  BY DEF TypeOK
<1>2. \A l \in Labels : NoCursors[l] = 0 /\ CoveredNext(l, NoCursors[l])
  <2>1. \A m \in remote' : m.id \in Nat \ {0}
    BY DEF TypeOK, Messages
  <2>2. QED
    BY <2>1 DEF NoCursors, CoveredNext
<1>3. ASSUME NEW r, r.snap = NoCursors, r.top = 0, r.label \in Labels,
             r.complete = FALSE, r.pc # "cursor"
      PROVE  RunCoveredNext(r)
  BY <1>1, <1>2, <1>3 DEF RunCoveredNext
<1>4. RunCoveredNext(Idle)
  BY <1>3 DEF Idle, Labels
<1>5. ASSUME NEW label \in Labels, NEW limit \in Limits \cup {0}
      PROVE  RunCoveredNext(Phase(label, limit, 0))
  BY <1>3 DEF Phase, Idle
<1>6. QED
  BY <1>4, <1>5

\* Without backfills, what follows a phase is the idle run or a fresh phase.
LEMMA NextPhaseCovered ==
  ASSUME TypeOK', NEW r \in Runs, r.backfill = 0
  PROVE  RunCoveredNext(NextPhase(r))
<1>1. r.limit \in Limits \cup {0}
  BY DEF Runs
<1>2. QED
  BY <1>1, FreshRunsCovered DEF NextPhase, Labels

\* A step that leaves the chats and the store alone loses nothing.
LEMMA StillGrows ==
  ASSUME TypeOK, UNCHANGED <<remote, issued, floor>>,
         stored \cup skipped \subseteq stored' \cup skipped'
  PROVE  Grows
BY DEF Grows, TypeOK

\* Nor does a save of the state row, which can only give up more of what a first
\* sync left behind.
LEMMA SaveGrows ==
  ASSUME TypeOK, NEW s \in Syncers, SaveCursor(s)
  PROVE  Grows
<1> DEFINE r == sync[s]
<1>1. r.label \in Labels /\ r.top \in Nat
  BY DEF TypeOK, Runs
<1>2. /\ UNCHANGED <<remote, issued, stored, skipped>>
      /\ floor' = IF FirstSync(r) THEN [floor EXCEPT ![r.label] = MaxOf(@, r.top)]
                  ELSE floor
  BY DEF SaveCursor, telegram
<1>3. \A k \in Labels : floor[k] \in Nat /\ issued[k] \in Nat
  BY DEF TypeOK
<1>4. \A k \in Labels : floor[k] <= floor'[k]
  BY <1>1, <1>2, <1>3 DEF MaxOf, TypeOK
<1>5. QED
  BY <1>2, <1>3, <1>4 DEF Grows

(***************************************************************************)
(* Coverage is preserved by every step of a sync, when there are no        *)
(* backfills.                                                              *)
(***************************************************************************)
LEMMA SyncCoverage ==
  ASSUME Backfills = {}, TypeOK, TypeOK', Coverage, NEW s \in Syncers,
         BeginRun(s) \/ SyncStep(s) \/ SyncStops(s)
  PROVE  Coverage'
<1> DEFINE r == sync[s]
<1>a. r \in Runs /\ RunCovered(r)
  BY DEF TypeOK, Coverage
<1>b. /\ r.backfill = 0 /\ r.label \in Labels /\ r.top \in Nat
      /\ r.limit \in Limits \cup {0}
      /\ \A l \in Labels : r.snap[l] \in Nat /\ issued[l] \in Nat
      /\ \A l \in Labels : cursors[l] \in Nat /\ floor[l] \in Nat
  BY <1>a DEF Runs, TypeOK
<1>c. ASSUME UNCHANGED <<remote, issued, floor, stored, skipped>>
      PROVE  Grows
  BY <1>c, StillGrows
<1>1. ASSUME NEW limit \in Limits, NEW backfill \in Backfills \cup {0},
             Begin(s, limit, backfill)
      PROVE  Coverage'
  <2>1. backfill = 0 /\ Phase("post", limit, 0) \in Runs
    BY PhasesAreRuns DEF Labels
  <2>2. RunCoveredNext(Phase("post", limit, 0))
    BY FreshRunsCovered DEF Labels
  <2>3. /\ UNCHANGED <<remote, issued, floor, stored, skipped, cursors>>
        /\ SetSync(s, Phase("post", limit, 0))
    BY <1>1, <2>1 DEF Begin, telegram
  <2>4. QED
    BY <1>c, <2>1, <2>2, <2>3, OneSyncerSameCursors
<1>2. CASE ReadState(s)
  <2> DEFINE q == [r EXCEPT !.snap = cursors, !.pc = "collect"]
  <2>1. /\ UNCHANGED <<remote, issued, floor, stored, skipped, cursors>>
        /\ SetSync(s, q) /\ r.pc = "state"
    BY <1>2, <1>b DEF ReadState, telegram
  <2>2. q \in Runs
    BY <1>a DEF Runs, TypeOK
  <2>3. RunCovered(q)
    BY <1>a, <2>1 DEF RunCovered, Coverage, Runs
  <2>4. RunCoveredNext(q)
    BY <1>c, <2>1, <2>2, <2>3, GrowsKeepsRun
  <2>5. QED
    BY <1>c, <2>1, <2>2, <2>4, OneSyncerSameCursors
<1>3. CASE CollectLatest(s)
  <2>1. PICK latest \in 0 .. issued[r.label] :
          SetSync(s, IF latest = 0 THEN Idle
                     ELSE [r EXCEPT !.pc = "cursor", !.top = latest])
    BY <1>3 DEF CollectLatest
  <2> DEFINE q == [r EXCEPT !.pc = "cursor", !.top = latest]
  <2>2. /\ UNCHANGED <<remote, issued, floor, stored, skipped, cursors>>
        /\ r.pc = "collect" /\ Baseline(r)
    BY <1>3 DEF CollectLatest, telegram
  <2>3. latest \in Nat /\ latest <= issued[r.label]
    BY <1>b
  <2>4. q \in Runs
    BY <1>a, <2>3 DEF Runs
  <2>5. RunCovered(q)
    <3>1. ~ r.complete
      BY <1>a, <2>2 DEF RunCovered
    <3>2. /\ q.snap = r.snap /\ q.top = latest /\ q.label = r.label
          /\ q.complete = r.complete /\ q.pc = "cursor" /\ Baseline(q)
      BY <1>a, <2>2 DEF Runs, Baseline
    <3> HIDE DEF q
    <3>3. QED
      BY <1>a, <2>3, <3>1, <3>2 DEF RunCovered
  <2>6. RunCoveredNext(q) /\ RunCoveredNext(Idle)
    BY <1>c, <2>2, <2>4, <2>5, GrowsKeepsRun, FreshRunsCovered
  <2>7. CASE latest = 0
    BY <1>c, <2>1, <2>2, <2>6, <2>7, PhasesAreRuns, OneSyncerSameCursors
  <2>8. CASE latest # 0
    BY <1>c, <2>1, <2>2, <2>4, <2>6, <2>8, OneSyncerSameCursors
  <2>9. QED
    BY <2>7, <2>8
<1>4. CASE Collect(s)
  <2> DEFINE l == r.label
             c == r.snap[r.label]
             n == IF r.backfill > 0 THEN r.backfill ELSE r.limit
             done == ReachedState(l, c, n) /\ ~ Truncated(l, c, n)
             batch == Newest(After(l, c), n)
  <2>1. PICK top \in 0 .. issued[l] :
          SetSync(s, [r EXCEPT !.pc = "messages", !.todo = batch, !.top = top,
                               !.complete = done])
    BY <1>4 DEF Collect
  <2> DEFINE q == [r EXCEPT !.pc = "messages", !.todo = batch, !.top = top,
                            !.complete = done]
  <2>2. UNCHANGED <<remote, issued, floor, stored, skipped, cursors>>
    BY <1>4 DEF Collect, telegram
  <2>3. top \in Nat /\ top <= issued[l]
    BY <1>b
  <2>4. /\ q.pc = "messages" /\ q.label = l /\ q.snap = r.snap
        /\ q.top = top /\ q.todo = batch /\ q.complete = done
    BY <1>a DEF Runs
  <2>5. q \in Runs
    <3>1. batch \in SUBSET Messages
      BY DEF TypeOK, Newest, After
    <3>2. done \in BOOLEAN
      OBVIOUS
    <3> HIDE DEF batch, done
    <3>3. QED
      BY <1>a, <2>3, <3>1, <3>2 DEF Runs
  <2>6. done => BatchCovered(q)
    <3> SUFFICES ASSUME done, NEW m \in remote, m.label = l, floor[l] < m.id,
                        m.id <= top
                 PROVE  m \in stored \cup skipped \cup batch
      BY <2>4 DEF BatchCovered
    <3>0. m.id \in Nat
      BY DEF TypeOK, Messages
    <3>1. m.id \in Nat /\ c \in Nat /\ n \in Nat
      <4>1. c \in Nat
        BY <1>b
      <4>2. n = r.limit
        BY <1>b
      <4>3. r.limit \in Nat
        BY <1>a, LimitsAreNaturals
      <4>4. QED
        BY <3>0, <4>1, <4>2, <4>3
    <3>2. CASE m.id <= c
      BY <1>a, <1>b, <3>2 DEF RunCovered, Covered
    <3>3. CASE c < m.id
      <4>1. m \in After(l, c)
        BY <3>1, <3>3 DEF After
      <4>2. batch = After(l, c)
        BY <1>b, <3>1, UncutBatch DEF TypeOK
      <4>3. QED
        BY <4>1, <4>2
    <3>4. QED
      BY <3>1, <3>2, <3>3
  <2>7. RunCovered(q)
    <3> HIDE DEF q, done
    <3> QED
      BY <1>a, <2>3, <2>4, <2>6 DEF RunCovered
  <2>8. RunCoveredNext(q)
    BY <1>c, <2>2, <2>5, <2>7, GrowsKeepsRun
  <2>9. QED
    BY <1>c, <2>1, <2>2, <2>5, <2>8, OneSyncerSameCursors
<1>5. ASSUME NEW m \in r.todo, CheckGlobal(s, m) \/ CheckSource(s, m) \/ SaveMessage(s, m)
      PROVE  Coverage'
  <2> DEFINE worked == [r EXCEPT !.pc = "messages", !.todo = @ \ {m}]
  <2>1. /\ UNCHANGED <<remote, issued, floor, cursors>>
        /\ stored \cup skipped \subseteq stored' \cup skipped'
        /\ r.pc \in {"messages", "scoped", "save"}
    BY <1>5 DEF CheckGlobal, CheckSource, CheckScope, SaveMessage, telegram
  <2>2. Grows
    BY <2>1, StillGrows
  <2>3. RunCoveredNext(r)
    BY <1>a, <2>2, GrowsKeepsRun
  <2>4. CASE SetSync(s, worked) /\ m \in stored' \cup skipped'
    <3>1. worked \in Runs
      BY <1>a DEF Runs
    <3>2. /\ worked.pc = "messages" /\ worked.label = r.label
          /\ worked.snap = r.snap /\ worked.top = r.top
          /\ worked.todo = r.todo \ {m} /\ worked.complete = r.complete
      BY <1>a DEF Runs
    <3>3. BatchCoveredNext(r) => BatchCoveredNext(worked)
      BY <2>4, <3>2 DEF BatchCoveredNext
    <3>4. RunCoveredNext(worked)
      <4> HIDE DEF worked
      <4> QED
        BY <2>3, <3>2, <3>3 DEF RunCoveredNext
    <3>5. QED
      BY <2>1, <2>2, <2>4, <3>1, <3>4, OneSyncerSameCursors
  <2>5. ASSUME NEW pc \in {"scoped", "save"}, SetSync(s, [r EXCEPT !.pc = pc])
        PROVE  Coverage'
    <3> DEFINE q == [r EXCEPT !.pc = pc]
    <3>1. q \in Runs
      BY <1>a DEF Runs
    <3>2. /\ q.pc = pc /\ q.label = r.label /\ q.snap = r.snap /\ q.top = r.top
          /\ q.todo = r.todo /\ q.complete = r.complete
      BY <1>a DEF Runs
    <3>3. RunCoveredNext(q)
      <4> HIDE DEF q
      <4> QED
        BY <2>3, <3>2 DEF RunCoveredNext, BatchCoveredNext
    <3>4. QED
      BY <2>1, <2>2, <2>5, <3>1, <3>3, OneSyncerSameCursors
  <2>6. \/ SetSync(s, worked) /\ m \in stored' \cup skipped'
        \/ \E pc \in {"scoped", "save"} : SetSync(s, [r EXCEPT !.pc = pc])
    BY <1>5 DEF CheckGlobal, CheckSource, CheckScope, SaveMessage
  <2>7. QED
    BY <2>4, <2>5, <2>6
<1>6. CASE EndBatch(s)
  <2> DEFINE q == [r EXCEPT !.pc = "cursor"]
  <2>1. /\ UNCHANGED <<remote, issued, floor, stored, skipped, cursors>>
        /\ r.todo = {}
        /\ \/ SetSync(s, q) /\ r.complete
           \/ SetSync(s, NextPhase(r))
    BY <1>6, <1>b DEF EndBatch, Advances, telegram
  <2>2. CASE SetSync(s, q) /\ r.complete
    <3>1. q \in Runs
      BY <1>a DEF Runs
    <3>2. /\ q.pc = "cursor" /\ q.label = r.label /\ q.snap = r.snap
          /\ q.top = r.top /\ q.todo = r.todo /\ q.complete = r.complete
      BY <1>a DEF Runs
    <3>3. RunCovered(q)
      <4> HIDE DEF q
      <4> QED
        BY <1>a, <2>1, <2>2, <3>2 DEF RunCovered, BatchCovered
    <3>4. RunCoveredNext(q)
      BY <1>c, <2>1, <3>1, <3>3, GrowsKeepsRun
    <3>5. QED
      BY <1>c, <2>1, <2>2, <3>1, <3>4, OneSyncerSameCursors
  <2>3. CASE SetSync(s, NextPhase(r))
    BY <1>a, <1>b, <1>c, <2>1, <2>3, NextPhaseCovered, PhasesAreRuns,
       OneSyncerSameCursors
  <2>4. QED
    BY <2>1, <2>2, <2>3
<1>7. CASE SaveCursor(s)
  <2> DEFINE l == r.label
  <2>1. /\ UNCHANGED <<remote, issued, stored, skipped>>
        /\ r.pc = "cursor" /\ SetSync(s, NextPhase(r))
        /\ cursors' = NewCursors(r)
        /\ floor' = IF FirstSync(r) THEN [floor EXCEPT ![l] = MaxOf(@, r.top)]
                    ELSE floor
    BY <1>7 DEF SaveCursor, telegram
  <2>3. Grows
    BY <1>7, SaveGrows
  <2>4. CoveredNext(l, r.top)
    <3>1. \A m \in remote' : m.id \in Nat
      BY DEF TypeOK, Messages
    <3>2. CASE Baseline(r)
      <4>1. r.top <= floor'[l] /\ floor'[l] \in Nat
        BY <1>b, <2>1, <3>2 DEF Baseline, FirstSync, MaxOf, TypeOK
      <4>2. QED
        BY <1>b, <3>1, <4>1 DEF CoveredNext
    <3>3. CASE ~ Baseline(r)
      <4>1. r.complete /\ r.todo = {} /\ BatchCovered(r)
        BY <1>a, <2>1, <3>3 DEF RunCovered
      <4>2. floor' = floor
        BY <1>b, <2>1, <3>3 DEF Baseline, FirstSync
      <4>3. QED
        BY <2>1, <4>1, <4>2 DEF BatchCovered, CoveredNext
    <3>4. QED
      BY <3>2, <3>3
  <2>5. ASSUME NEW k \in Labels
        PROVE  cursors'[k] <= issued'[k] /\ CoveredNext(k, cursors'[k])
    <3>1. cursors'[k] = IF k = l THEN r.top
                        ELSE IF l = "post" /\ Baseline(r) THEN 0
                        ELSE r.snap[k]
      BY <1>a, <1>b, <2>1 DEF NewCursors, NoCursors, Labels, Runs
    <3>2. CASE k = l
      BY <1>a, <2>1, <2>4, <3>1, <3>2 DEF RunCovered
    <3>3. CASE k # l /\ l = "post" /\ Baseline(r)
      <4>1. \A m \in remote' : m.id \in Nat \ {0}
        BY DEF TypeOK, Messages
      <4>2. QED
        BY <1>b, <2>1, <3>1, <3>3, <4>1 DEF CoveredNext
    <3>4. CASE k # l /\ ~ (l = "post" /\ Baseline(r))
      <4>1. r.snap[k] \in Nat /\ r.snap[k] <= issued[k] /\ Covered(k, r.snap[k])
        BY <1>a, <1>b DEF RunCovered
      <4>2. QED
        BY <2>3, <3>1, <3>4, <4>1, GrowsKeepsCovered
    <3>5. QED
      BY <3>2, <3>3, <3>4
  <2>6. RunCoveredNext(NextPhase(r)) /\ NextPhase(r) \in Runs
    BY <1>a, <1>b, NextPhaseCovered, PhasesAreRuns
  <2>7. QED
    BY <2>1, <2>3, <2>5, <2>6, OneSyncer
<1>8. CASE SyncStops(s)
  <2>1. /\ UNCHANGED <<remote, issued, floor, stored, skipped, cursors>>
        /\ SetSync(s, Idle)
    BY <1>8 DEF SyncStops, telegram
  <2>2. QED
    BY <1>c, <2>1, FreshRunsCovered, PhasesAreRuns, OneSyncerSameCursors
<1>9. QED
  BY <1>1, <1>2, <1>3, <1>4, <1>5, <1>6, <1>7, <1>8
     DEF BeginRun, SyncStep, Refused

\* With no messages and no cursors nothing is owed.
LEMMA InitCoverage == Init => Coverage
<1> SUFFICES ASSUME Init PROVE Coverage
  OBVIOUS
<1>1. \A l \in Labels : NoCursors[l] = 0
  BY DEF NoCursors
<1>2. ASSUME NEW s \in Syncers PROVE RunCovered(sync[s])
  BY <1>1 DEF Init, RunCovered, Covered, Idle, Labels
<1>3. QED
  BY <1>1, <1>2 DEF Init, Coverage, Covered

\* A purge loses the store, but gives up every id so far: nothing is owed.
LEMMA PurgeCoverage ==
  ASSUME TypeOK, TypeOK', Coverage, PurgeSource
  PROVE  Coverage'
<1>1. /\ UNCHANGED <<remote, issued, sync>>
      /\ floor' = issued /\ cursors' = NoCursors
  BY DEF PurgeSource, telegram
<1>2. ASSUME NEW m \in remote'
      PROVE  m.id \in Nat /\ m.id <= issued'[m.label] /\ ~ floor'[m.label] < m.id
  <2>1. m.id \in Nat /\ m.label \in Labels /\ issued[m.label] \in Nat
    BY <1>1 DEF TypeOK, Messages
  <2>2. m.id <= issued[m.label]
    BY <1>1 DEF Coverage
  <2>3. QED
    BY <1>1, <2>1, <2>2
<1>3. \A l \in Labels, c \in Nat : CoveredNext(l, c)
  BY <1>2 DEF CoveredNext
<1>4. \A l \in Labels : cursors'[l] = 0 /\ issued'[l] \in Nat
  BY <1>1 DEF NoCursors, TypeOK
<1>5. ASSUME NEW s \in Syncers PROVE RunCoveredNext(sync'[s])
  <2>1. sync[s] \in Runs /\ RunCovered(sync[s])
    BY DEF TypeOK, Coverage
  <2>2. \A l \in Labels : sync[s].snap[l] \in Nat
    BY <2>1 DEF Runs
  <2>3. BatchCoveredNext(sync[s])
    BY <1>2 DEF BatchCoveredNext
  <2>4. QED
    BY <1>1, <1>3, <2>1, <2>2, <2>3 DEF RunCovered, RunCoveredNext
<1>6. QED
  BY <1>2, <1>3, <1>4, <1>5, CoverageNext

\* Telegram and the commands lose nothing.
LEMMA OthersGrow ==
  ASSUME TypeOK, Environment \/ Commands
  PROVE  Grows /\ UNCHANGED <<sync, cursors>>
<1>1. UNCHANGED <<sync, cursors, stored, skipped, floor>>
  BY DEF Environment, Arrive, Delete, Commands, AddSource, RemoveSource,
         ExcludeSender, HideBySender, RemoveSender
<1>2. \A l \in Labels : floor[l] <= floor'[l]
  BY <1>1 DEF TypeOK
<1>3. ASSUME NEW l \in Labels, NEW a \in Senders, Arrive(l, a) PROVE Grows
  <2>1. \A k \in Labels : issued[k] \in Nat
    BY DEF TypeOK
  <2>2. \A k \in Labels : issued'[k] = IF k = l THEN issued[l] + 1 ELSE issued[k]
    BY <1>3 DEF Arrive, TypeOK
  <2>3. \A m \in remote' \ remote : m.label = l /\ m.id = issued[l] + 1
    BY <1>3 DEF Arrive
  <2>4. QED
    BY <1>1, <1>2, <2>1, <2>2, <2>3 DEF Grows
<1>4. ASSUME remote' \subseteq remote, issued' = issued PROVE Grows
  BY <1>1, <1>2, <1>4 DEF Grows, TypeOK
<1>5. ASSUME \E m \in remote : Delete(m) PROVE Grows
  BY <1>4, <1>5 DEF Delete
<1>6. ASSUME Commands PROVE Grows
  <2>1. UNCHANGED <<remote, issued>>
    BY <1>6 DEF Commands, AddSource, RemoveSource, ExcludeSender, HideBySender,
                RemoveSender, telegram
  <2>2. QED
    BY <1>4, <2>1
<1>7. QED
  BY <1>1, <1>3, <1>5, <1>6 DEF Environment

\* So they keep what is covered.
LEMMA OthersCoverage ==
  ASSUME TypeOK, TypeOK', Coverage, Environment \/ Commands
  PROVE  Coverage'
BY OthersGrow, GrowsKeepsCoverage

\* Without backfills coverage is an invariant of any number of concurrent
\* syncers that may stop anywhere, with purges and stale state writes.
THEOREM CoverageHolds ==
  ASSUME Backfills = {}
  PROVE  Spec => []Coverage
<1>1. TypeOK /\ TypeOK' /\ Coverage /\ [Next]_vars => Coverage'
  <2> SUFFICES ASSUME TypeOK, TypeOK', Coverage, [Next]_vars PROVE Coverage'
    OBVIOUS
  <2>1. CASE Next
    BY <2>1, SyncCoverage, PurgeCoverage, OthersCoverage DEF Next, SteadyNext
  <2>2. CASE UNCHANGED vars
    <3>1. Grows
      BY <2>2, StillGrows DEF vars
    <3>2. QED
      BY <2>2, <3>1, GrowsKeepsCoverage DEF vars
  <2>3. QED
    BY <2>1, <2>2
<1>2. QED
  BY <1>1, InitCoverage, TypeCorrect, PTL DEF Spec

\* Without backfills no message is silently skipped: a cursor of source_states
\* passes only messages that were stored, or skipped as excluded, or given up by
\* a first sync or a purge.
THEOREM NoSilentSkipHolds ==
  ASSUME Backfills = {}
  PROVE  Spec => []NoSilentSkip
<1>1. Coverage => NoSilentSkip
  BY DEF Coverage, NoSilentSkip
<1>2. QED
  BY <1>1, CoverageHolds, PTL

(***************************************************************************)
(* What remains true with backfills.                                       *)
(***************************************************************************)
\* A run from a cursor, uncut, holds what lies between that cursor and its top,
\* and works it off before it moves the cursor.
SpanCovered(r) ==
  \A m \in remote :
    m.label = r.label /\ floor[r.label] < m.id /\ r.snap[r.label] < m.id /\ m.id <= r.top
      => m \in stored \cup skipped \cup r.todo

IncrementCovered(r) ==
  r.backfill = 0 =>
    /\ r.top <= issued[r.label]
    /\ r.complete => SpanCovered(r)
    /\ r.pc \in {"idle", "state", "collect"} => ~ r.complete
    /\ r.pc = "cursor" /\ ~ Baseline(r) => r.complete /\ r.todo = {}

Increments ==
  /\ \A m \in remote : m.id <= issued[m.label]
  /\ \A s \in Syncers : IncrementCovered(sync[s])

\* The same after a step.
SpanCoveredNext(r) ==
  \A m \in remote' :
    m.label = r.label /\ floor'[r.label] < m.id /\ r.snap[r.label] < m.id /\ m.id <= r.top
      => m \in stored' \cup skipped' \cup r.todo

IncrementCoveredNext(r) ==
  r.backfill = 0 =>
    /\ r.top <= issued'[r.label]
    /\ r.complete => SpanCoveredNext(r)
    /\ r.pc \in {"idle", "state", "collect"} => ~ r.complete
    /\ r.pc = "cursor" /\ ~ Baseline(r) => r.complete /\ r.todo = {}

LEMMA IncrementsNext ==
  ASSUME \A m \in remote' : m.id <= issued'[m.label],
         \A s \in Syncers : IncrementCoveredNext(sync'[s])
  PROVE  Increments'
<1>1. \A s \in Syncers : IncrementCovered(sync[s])'
  BY DEF IncrementCovered, IncrementCoveredNext, SpanCovered, SpanCoveredNext, Baseline
<1>2. QED
  BY <1>1 DEF Increments

\* A step that loses nothing keeps what a run has covered.
LEMMA GrowsKeepsIncrement ==
  ASSUME TypeOK, TypeOK', Grows, NEW r \in Runs, IncrementCovered(r)
  PROVE  IncrementCoveredNext(r)
<1> SUFFICES ASSUME r.backfill = 0 PROVE IncrementCoveredNext(r)
  BY DEF IncrementCoveredNext
<1> DEFINE l == r.label
<1>1. /\ issued[l] \in Nat /\ issued'[l] \in Nat
      /\ floor[l] \in Nat /\ floor'[l] \in Nat
      /\ r.top \in Nat /\ l \in Labels
  BY DEF TypeOK, Runs
<1>2. r.top <= issued[l] /\ r.top <= issued'[l]
  BY <1>1 DEF Grows, IncrementCovered
<1>3. ASSUME r.complete, NEW m \in remote', m.label = l, floor'[l] < m.id,
             r.snap[l] < m.id, m.id <= r.top
      PROVE  m \in stored' \cup skipped' \cup r.todo
  <2>1. m.id \in Nat
    BY DEF TypeOK, Messages
  <2>2. m \in remote
    BY <1>1, <1>2, <1>3, <2>1 DEF Grows
  <2>3. floor[l] < m.id
    BY <1>1, <1>3, <2>1 DEF Grows
  <2>4. QED
    BY <1>3, <2>2, <2>3 DEF IncrementCovered, SpanCovered, Grows
<1>4. QED
  BY <1>2, <1>3 DEF IncrementCovered, IncrementCoveredNext, SpanCoveredNext

\* Ids stay within what was issued.
LEMMA IssuedNext ==
  ASSUME TypeOK, TypeOK', Grows, \A m \in remote : m.id <= issued[m.label]
  PROVE  \A m \in remote' : m.id <= issued'[m.label]
<1> SUFFICES ASSUME NEW m \in remote', m \in remote
             PROVE  m.id <= issued'[m.label]
  BY DEF Grows
<1>1. /\ m.label \in Labels /\ m.id \in Nat
      /\ issued[m.label] \in Nat /\ issued'[m.label] \in Nat
  BY DEF TypeOK, Messages
<1>2. QED
  BY <1>1 DEF Grows

\* Steps outside the syncers that lose nothing.
LEMMA GrowsKeepsIncrements ==
  ASSUME TypeOK, TypeOK', Increments, Grows, UNCHANGED sync
  PROVE  Increments'
<1>1. \A s \in Syncers : sync[s] \in Runs
  BY DEF TypeOK
<1>2. QED
  BY <1>1, IssuedNext, GrowsKeepsIncrement, IncrementsNext DEF Increments

\* A step of one syncer.
LEMMA OneIncrement ==
  ASSUME TypeOK, TypeOK', Increments, Grows, NEW s \in Syncers, NEW q \in Runs,
         SetSync(s, q), IncrementCoveredNext(q)
  PROVE  Increments'
<1>1. ASSUME NEW t \in Syncers PROVE IncrementCoveredNext(sync'[t])
  <2>1. sync[t] \in Runs /\ IncrementCovered(sync[t])
    BY DEF TypeOK, Increments
  <2>2. IncrementCoveredNext(sync[t])
    BY <2>1, GrowsKeepsIncrement
  <2>3. sync'[t] = IF t = s THEN q ELSE sync[t]
    BY DEF TypeOK, SetSync
  <2>4. QED
    BY <2>2, <2>3
<1>2. QED
  BY <1>1, IssuedNext, IncrementsNext DEF Increments

\* A run that has read nothing yet has covered what it must.
LEMMA FreshIncrements ==
  ASSUME TypeOK'
  PROVE  /\ IncrementCoveredNext(Idle)
         /\ \A label \in Labels, limit \in Limits \cup {0}, backfill \in Backfills \cup {0} :
              IncrementCoveredNext(Phase(label, limit, backfill))
         /\ \A r \in Runs : IncrementCoveredNext(NextPhase(r))
<1>1. \A l \in Labels : issued'[l] \in Nat
  BY DEF TypeOK
<1>2. ASSUME NEW r, r.top = 0, r.label \in Labels, r.complete = FALSE, r.pc # "cursor"
      PROVE  IncrementCoveredNext(r)
  BY <1>1, <1>2 DEF IncrementCoveredNext
<1>3. IncrementCoveredNext(Idle)
  BY <1>2 DEF Idle, Labels
<1>4. ASSUME NEW label \in Labels, NEW limit \in Limits \cup {0},
             NEW backfill \in Backfills \cup {0}
      PROVE  IncrementCoveredNext(Phase(label, limit, backfill))
  BY <1>2 DEF Phase, Idle
<1>5. ASSUME NEW r \in Runs PROVE IncrementCoveredNext(NextPhase(r))
  <2>1. r.limit \in Limits \cup {0} /\ r.backfill \in Backfills \cup {0}
    BY DEF Runs
  <2>2. QED
    BY <1>3, <1>4, <2>1 DEF NextPhase, Labels
<1>6. QED
  BY <1>3, <1>4, <1>5

\* Every step of a sync keeps it; a backfill owes nothing of its own, and what it
\* writes to the state row no run under way looks at.
LEMMA SyncIncrements ==
  ASSUME TypeOK, TypeOK', Increments, NEW s \in Syncers,
         BeginRun(s) \/ SyncStep(s) \/ SyncStops(s)
  PROVE  Increments'
<1> DEFINE r == sync[s]
<1>a. r \in Runs /\ IncrementCovered(r)
  BY DEF TypeOK, Increments
<1>b. /\ r.label \in Labels /\ r.top \in Nat /\ r.limit \in Nat
      /\ \A l \in Labels : r.snap[l] \in Nat /\ issued[l] \in Nat /\ floor[l] \in Nat
  BY <1>a, LimitsAreNaturals DEF Runs, TypeOK
<1>c. ASSUME UNCHANGED <<remote, issued, floor, stored, skipped>>
      PROVE  Grows
  BY <1>c, StillGrows
<1>d. ASSUME UNCHANGED <<remote, issued, floor, stored, skipped>>,
             NEW q \in Runs, SetSync(s, q), IncrementCovered(q)
      PROVE  Increments'
  <2>1. IncrementCoveredNext(q)
    BY <1>c, <1>d, GrowsKeepsIncrement
  <2>2. QED
    BY <1>c, <1>d, <2>1, OneIncrement
<1>e. ASSUME Grows, NEW q \in Runs, SetSync(s, q),
             \/ q = Idle
             \/ q = NextPhase(r)
             \/ \E limit \in Limits, backfill \in Backfills \cup {0} :
                  q = Phase("post", limit, backfill)
      PROVE  Increments'
  <2>1. IncrementCoveredNext(q)
    BY <1>a, <1>e, FreshIncrements DEF Labels
  <2>2. QED
    BY <1>e, <2>1, OneIncrement
<1>1. ASSUME NEW limit \in Limits, NEW backfill \in Backfills \cup {0},
             Begin(s, limit, backfill)
      PROVE  Increments'
  <2>1. Phase("post", limit, backfill) \in Runs
    BY PhasesAreRuns DEF Labels
  <2>2. /\ UNCHANGED <<remote, issued, floor, stored, skipped>>
        /\ SetSync(s, Phase("post", limit, backfill))
    BY <1>1 DEF Begin, telegram
  <2>3. QED
    BY <1>c, <1>e, <2>1, <2>2
<1>2. CASE ReadState(s)
  <2> DEFINE pc == IF r.backfill > 0 THEN "cursor" ELSE "collect"
             q == [r EXCEPT !.snap = cursors, !.pc = pc]
  <2>1. /\ UNCHANGED <<remote, issued, floor, stored, skipped>>
        /\ SetSync(s, q) /\ r.pc = "state"
    BY <1>2 DEF ReadState, telegram
  <2>2. q \in Runs
    BY <1>a DEF Runs, TypeOK
  <2>3. /\ q.pc = pc /\ q.label = r.label /\ q.top = r.top
        /\ q.complete = r.complete /\ q.backfill = r.backfill
    BY <1>a DEF Runs
  <2>4. IncrementCovered(q)
    <3> HIDE DEF q
    <3> QED
      BY <1>a, <2>1, <2>3 DEF IncrementCovered
  <2>5. QED
    BY <1>d, <2>1, <2>2, <2>4
<1>3. CASE CollectLatest(s)
  <2>1. PICK latest \in 0 .. issued[r.label] :
          SetSync(s, IF latest = 0 THEN Idle
                     ELSE [r EXCEPT !.pc = "cursor", !.top = latest])
    BY <1>3 DEF CollectLatest
  <2> DEFINE q == [r EXCEPT !.pc = "cursor", !.top = latest]
  <2>2. /\ UNCHANGED <<remote, issued, floor, stored, skipped>>
        /\ r.pc = "collect" /\ Baseline(r)
    BY <1>3 DEF CollectLatest, telegram
  <2>3. latest \in Nat /\ latest <= issued[r.label]
    BY <1>b
  <2>4. q \in Runs
    BY <1>a, <2>3 DEF Runs
  <2>5. IncrementCovered(q)
    <3>1. ~ r.complete
      BY <1>a, <2>2 DEF IncrementCovered, Baseline
    <3>2. /\ q.snap = r.snap /\ q.top = latest /\ q.label = r.label
          /\ q.complete = r.complete /\ q.pc = "cursor" /\ Baseline(q)
      BY <1>a, <2>2 DEF Runs, Baseline
    <3> HIDE DEF q
    <3>3. QED
      BY <2>3, <3>1, <3>2 DEF IncrementCovered
  <2>6. CASE latest = 0
    BY <1>c, <1>e, <2>1, <2>2, <2>6, PhasesAreRuns
  <2>7. CASE latest # 0
    BY <1>d, <2>1, <2>2, <2>4, <2>5, <2>7
  <2>8. QED
    BY <2>6, <2>7
<1>4. CASE Collect(s)
  <2> DEFINE l == r.label
             c == r.snap[r.label]
             n == IF r.backfill > 0 THEN r.backfill ELSE r.limit
             done == ReachedState(l, c, n) /\ ~ Truncated(l, c, n)
             batch == Newest(After(l, c), n)
  <2>1. PICK top \in 0 .. issued[l] :
          SetSync(s, [r EXCEPT !.pc = "messages", !.todo = batch, !.top = top,
                               !.complete = done])
    BY <1>4 DEF Collect
  <2> DEFINE q == [r EXCEPT !.pc = "messages", !.todo = batch, !.top = top,
                            !.complete = done]
  <2>2. UNCHANGED <<remote, issued, floor, stored, skipped>>
    BY <1>4 DEF Collect, telegram
  <2>3. top \in Nat /\ top <= issued[l]
    BY <1>b
  <2>4. /\ q.pc = "messages" /\ q.label = l /\ q.snap = r.snap
        /\ q.top = top /\ q.todo = batch /\ q.complete = done
        /\ q.backfill = r.backfill
    BY <1>a DEF Runs
  <2>5. q \in Runs
    <3>1. batch \in SUBSET Messages
      BY DEF TypeOK, Newest, After
    <3>2. done \in BOOLEAN
      OBVIOUS
    <3> HIDE DEF batch, done
    <3>3. QED
      BY <1>a, <2>3, <3>1, <3>2 DEF Runs
  <2>6. r.backfill = 0 /\ done => SpanCovered(q)
    <3> SUFFICES ASSUME r.backfill = 0, done, NEW m \in remote, m.label = l,
                        c < m.id, m.id <= top
                 PROVE  m \in batch
      BY <2>4 DEF SpanCovered
    <3>1. m \in After(l, c)
      BY DEF After
    <3>2. n = r.limit /\ n \in Nat /\ c \in Nat
      BY <1>b
    <3>3. batch = After(l, c)
      BY <1>b, <3>2, UncutBatch DEF TypeOK
    <3>4. QED
      BY <3>1, <3>3
  <2>7. IncrementCovered(q)
    <3> HIDE DEF q, done
    <3> QED
      BY <2>3, <2>4, <2>6 DEF IncrementCovered
  <2>8. QED
    BY <1>d, <2>1, <2>2, <2>5, <2>7
<1>5. ASSUME NEW m \in r.todo, CheckGlobal(s, m) \/ CheckSource(s, m) \/ SaveMessage(s, m)
      PROVE  Increments'
  <2> DEFINE worked == [r EXCEPT !.pc = "messages", !.todo = @ \ {m}]
  <2>1. /\ UNCHANGED <<remote, issued, floor>>
        /\ stored \cup skipped \subseteq stored' \cup skipped'
        /\ r.pc \in {"messages", "scoped", "save"}
    BY <1>5 DEF CheckGlobal, CheckSource, CheckScope, SaveMessage, telegram
  <2>2. Grows
    BY <2>1, StillGrows
  <2>3. IncrementCoveredNext(r)
    BY <1>a, <2>2, GrowsKeepsIncrement
  <2>4. CASE SetSync(s, worked) /\ m \in stored' \cup skipped'
    <3>1. worked \in Runs
      BY <1>a DEF Runs
    <3>2. /\ worked.pc = "messages" /\ worked.label = r.label
          /\ worked.snap = r.snap /\ worked.top = r.top
          /\ worked.todo = r.todo \ {m} /\ worked.complete = r.complete
          /\ worked.backfill = r.backfill
      BY <1>a DEF Runs
    <3>3. SpanCoveredNext(r) => SpanCoveredNext(worked)
      BY <2>4, <3>2 DEF SpanCoveredNext
    <3>4. IncrementCoveredNext(worked)
      <4> HIDE DEF worked
      <4> QED
        BY <2>3, <3>2, <3>3 DEF IncrementCoveredNext
    <3>5. QED
      BY <2>2, <2>4, <3>1, <3>4, OneIncrement
  <2>5. ASSUME NEW pc \in {"scoped", "save"}, SetSync(s, [r EXCEPT !.pc = pc])
        PROVE  Increments'
    <3> DEFINE q == [r EXCEPT !.pc = pc]
    <3>1. q \in Runs
      BY <1>a DEF Runs
    <3>2. /\ q.pc = pc /\ q.label = r.label /\ q.snap = r.snap /\ q.top = r.top
          /\ q.todo = r.todo /\ q.complete = r.complete /\ q.backfill = r.backfill
      BY <1>a DEF Runs
    <3>3. IncrementCoveredNext(q)
      <4> HIDE DEF q
      <4> QED
        BY <2>3, <3>2 DEF IncrementCoveredNext, SpanCoveredNext
    <3>4. QED
      BY <2>2, <2>5, <3>1, <3>3, OneIncrement
  <2>6. \/ SetSync(s, worked) /\ m \in stored' \cup skipped'
        \/ \E pc \in {"scoped", "save"} : SetSync(s, [r EXCEPT !.pc = pc])
    BY <1>5 DEF CheckGlobal, CheckSource, CheckScope, SaveMessage
  <2>7. QED
    BY <2>4, <2>5, <2>6
<1>6. CASE EndBatch(s)
  <2>1. /\ UNCHANGED <<remote, issued, floor, stored, skipped>>
        /\ r.todo = {}
        /\ \/ SetSync(s, NextPhase(r))
           \/ \E pc \in {"state", "cursor"} :
                /\ SetSync(s, [r EXCEPT !.pc = pc])
                /\ r.backfill = 0 => pc = "cursor" /\ r.complete
    <3>1. CASE r.backfill > 0
      BY <1>6, <3>1 DEF EndBatch, telegram
    <3>2. CASE ~ r.backfill > 0
      BY <1>6, <3>2 DEF EndBatch, Advances, telegram
    <3>3. QED
      BY <3>1, <3>2
  <2>2. ASSUME NEW pc \in {"state", "cursor"}, SetSync(s, [r EXCEPT !.pc = pc]),
               r.backfill = 0 => pc = "cursor" /\ r.complete
        PROVE  Increments'
    <3> DEFINE q == [r EXCEPT !.pc = pc]
    <3>1. q \in Runs
      BY <1>a DEF Runs
    <3>2. /\ q.pc = pc /\ q.label = r.label /\ q.snap = r.snap /\ q.top = r.top
          /\ q.todo = r.todo /\ q.complete = r.complete /\ q.backfill = r.backfill
      BY <1>a DEF Runs
    <3>3. IncrementCovered(q)
      <4> HIDE DEF q
      <4> QED
        BY <1>a, <2>1, <2>2, <3>2 DEF IncrementCovered, SpanCovered
    <3>4. QED
      BY <1>d, <2>1, <2>2, <3>1, <3>3
  <2>3. CASE SetSync(s, NextPhase(r))
    BY <1>a, <1>c, <1>e, <2>1, <2>3, PhasesAreRuns
  <2>4. QED
    BY <2>1, <2>2, <2>3
<1>7. CASE SaveCursor(s)
  <2>1. SetSync(s, NextPhase(r))
    BY <1>7 DEF SaveCursor
  <2>2. QED
    BY <1>a, <1>e, <1>7, <2>1, SaveGrows, PhasesAreRuns
<1>8. CASE SyncStops(s)
  <2>1. /\ UNCHANGED <<remote, issued, floor, stored, skipped>>
        /\ SetSync(s, Idle)
    BY <1>8 DEF SyncStops, telegram
  <2>2. QED
    BY <1>c, <1>e, <2>1, PhasesAreRuns
<1>9. QED
  BY <1>1, <1>2, <1>3, <1>4, <1>5, <1>6, <1>7, <1>8
     DEF BeginRun, SyncStep, Refused

\* A purge gives up every id so far.
LEMMA PurgeIncrements ==
  ASSUME TypeOK, TypeOK', Increments, PurgeSource
  PROVE  Increments'
<1>1. UNCHANGED <<remote, issued, sync>> /\ floor' = issued
  BY DEF PurgeSource, telegram
<1>2. ASSUME NEW m \in remote' PROVE ~ floor'[m.label] < m.id
  <2>1. m.id \in Nat /\ m.label \in Labels /\ issued[m.label] \in Nat
    BY <1>1 DEF TypeOK, Messages
  <2>2. m.id <= issued[m.label]
    BY <1>1 DEF Increments
  <2>3. QED
    BY <1>1, <2>1, <2>2
<1>3. ASSUME NEW s \in Syncers PROVE IncrementCoveredNext(sync'[s])
  <2>1. SpanCoveredNext(sync[s])
    BY <1>2 DEF SpanCoveredNext
  <2>2. QED
    BY <1>1, <2>1 DEF Increments, IncrementCovered, IncrementCoveredNext
<1>4. QED
  BY <1>1, <1>3, IncrementsNext DEF Increments

\* Whatever backfills are requested, and whatever other syncers and purges write in
\* between: a run that carries on from a cursor never moves it past a message that
\* it did not see.  Only a backfill can.
THEOREM IncrementsSkipNothingHolds == Spec => []IncrementsSkipNothing
<1>1. Init => Increments
  <2> SUFFICES ASSUME Init PROVE Increments
    OBVIOUS
  <2>1. \A s \in Syncers : IncrementCovered(sync[s])
    BY DEF Init, IncrementCovered, Idle, NoCursors, Labels
  <2>2. QED
    BY <2>1 DEF Init, Increments
<1>2. TypeOK /\ TypeOK' /\ Increments /\ [Next]_vars => Increments'
  <2> SUFFICES ASSUME TypeOK, TypeOK', Increments, [Next]_vars PROVE Increments'
    OBVIOUS
  <2>1. CASE Environment \/ Commands
    BY <2>1, OthersGrow, GrowsKeepsIncrements
  <2>2. CASE UNCHANGED vars
    <3>1. Grows
      BY <2>2, StillGrows DEF vars
    <3>2. QED
      BY <2>2, <3>1, GrowsKeepsIncrements DEF vars
  <2>3. QED
    BY <2>1, <2>2, SyncIncrements, PurgeIncrements DEF Next, SteadyNext
<1>3. Increments => IncrementsSkipNothing
  BY DEF Increments, IncrementCovered, SpanCovered, IncrementsSkipNothing
<1>4. QED
  BY <1>1, <1>2, <1>3, TypeCorrect, PTL DEF Spec

(***************************************************************************)
(* A source with too many new posts stays as it is.                        *)
(***************************************************************************)
\* What a run must be like for the posts cursor to stay at c.
RunStuck(r, c) ==
  /\ r.pc \notin {"idle", "state"} => r.snap["post"] = c
  /\ r.label = "post" => r.pc # "cursor" /\ ~ r.complete

\* More messages are never fewer.
LEMMA MoreAfter ==
  ASSUME TypeOK, TypeOK', remote \subseteq remote', NEW l \in Labels, NEW c \in Nat,
         NEW n \in Nat, Cardinality(After(l, c)) >= n
  PROVE  Cardinality({m \in remote' : m.label = l /\ m.id > c}) >= n
<1> DEFINE old == After(l, c)
           new == {m \in remote' : m.label = l /\ m.id > c}
<1>1. old \in SUBSET new
  BY DEF After
<1>2. IsFiniteSet(new)
  <2>1. new \in SUBSET remote' /\ IsFiniteSet(remote')
    BY DEF TypeOK
  <2> HIDE DEF new
  <2>2. QED
    BY <2>1, FS_Subset
<1>3. Cardinality(old) <= Cardinality(new) /\ IsFiniteSet(old)
  <2> HIDE DEF old, new
  <2>1. QED
    BY <1>1, <1>2, FS_Subset
<1>4. Cardinality(old) \in Nat /\ Cardinality(new) \in Nat
  BY <1>2, <1>3, FS_CardinalityType
<1>5. QED
  BY <1>3, <1>4

\* Whatever limit a run has, its batch of posts is cut.
LEMMA StuckIsTruncated ==
  ASSUME TypeOK, Stuck, NEW r \in Runs
  PROVE  Truncated("post", cursors["post"], r.limit)
<1> DEFINE S == After("post", cursors["post"])
<1>1. CASE r.limit \in Limits
  BY <1>1 DEF Stuck, Truncated
<1>2. CASE r.limit = 0
  <2>1. S \in SUBSET remote /\ IsFiniteSet(remote)
    BY DEF After, TypeOK
  <2>2. Cardinality(S) \in Nat
    <3> HIDE DEF S
    <3> QED
      BY <2>1, FS_Subset, FS_CardinalityType
  <2>3. QED
    BY <1>2, <2>2 DEF Truncated
<1>3. QED
  BY <1>1, <1>2 DEF Runs

\* A run that moves on stays stuck, and so does what follows a phase.
LEMMA StuckRuns ==
  ASSUME NEW c \in Nat
  PROVE  /\ RunStuck(Idle, c)
         /\ \A label \in Labels, limit \in Limits \cup {0} : RunStuck(Phase(label, limit, 0), c)
         /\ \A r \in Runs : r.backfill = 0 => RunStuck(NextPhase(r), c)
<1>1. RunStuck(Idle, c)
  BY DEF Idle, RunStuck
<1>2. ASSUME NEW label \in Labels, NEW limit \in Limits \cup {0}
      PROVE  RunStuck(Phase(label, limit, 0), c)
  BY DEF Phase, Idle, RunStuck
<1>3. ASSUME NEW r \in Runs, r.backfill = 0 PROVE RunStuck(NextPhase(r), c)
  <2>1. r.limit \in Limits \cup {0}
    BY DEF Runs
  <2>2. QED
    BY <1>1, <1>2, <1>3, <2>1 DEF NextPhase, Labels
<1>4. QED
  BY <1>1, <1>2, <1>3

\* A step of a stuck run leaves the posts cursor alone and the run stuck.
LEMMA StuckSync ==
  ASSUME Backfills = {}, TypeOK, Stuck, NEW s \in Syncers,
         BeginRun(s) \/ SyncStep(s) \/ SyncStops(s)
  PROVE  /\ cursors'["post"] = cursors["post"]
         /\ \E q : SetSync(s, q) /\ RunStuck(q, cursors["post"])
<1> DEFINE r == sync[s]
           c == cursors["post"]
<1>a. /\ r \in Runs /\ c \in Nat /\ c > 0
      /\ RunStuck(r, c)
  BY DEF TypeOK, Stuck, RunStuck, Labels
<1>b. r.backfill = 0 /\ r.label \in Labels /\ r.limit \in Limits \cup {0}
  BY <1>a DEF Runs
<1>1. ASSUME NEW limit \in Limits, NEW backfill \in Backfills \cup {0},
             Begin(s, limit, backfill)
      PROVE  UNCHANGED cursors /\ \E q : SetSync(s, q) /\ RunStuck(q, c)
  <2>1. backfill = 0
    OBVIOUS
  <2>2. SetSync(s, Phase("post", limit, 0)) /\ UNCHANGED cursors
    BY <1>1, <2>1 DEF Begin
  <2>3. RunStuck(Phase("post", limit, 0), c)
    BY <1>a, StuckRuns DEF Labels
  <2>4. QED
    BY <2>2, <2>3
<1>2. CASE ReadState(s)
  <2> DEFINE q == [r EXCEPT !.snap = cursors, !.pc = "collect"]
  <2>1. SetSync(s, q) /\ UNCHANGED cursors
    BY <1>2, <1>b DEF ReadState
  <2>2. q.snap = cursors /\ q.pc = "collect" /\ q.label = r.label /\ q.complete = r.complete
    BY <1>a DEF Runs
  <2>3. RunStuck(q, c)
    <3> HIDE DEF q
    <3> QED
      BY <1>a, <2>2 DEF RunStuck
  <2>4. QED
    BY <2>1, <2>3
<1>3. CASE CollectLatest(s)
  <2>1. r.pc = "collect" /\ r.label # "post" /\ UNCHANGED cursors
    BY <1>3, <1>a DEF CollectLatest, Baseline, RunStuck
  <2>2. PICK latest \in 0 .. issued[r.label] :
          SetSync(s, IF latest = 0 THEN Idle
                     ELSE [r EXCEPT !.pc = "cursor", !.top = latest])
    BY <1>3 DEF CollectLatest
  <2> DEFINE q == [r EXCEPT !.pc = "cursor", !.top = latest]
  <2>3. q.snap = r.snap /\ q.label = r.label
    BY <1>a DEF Runs
  <2>4. RunStuck(q, c)
    <3> HIDE DEF q
    <3> QED
      BY <1>a, <2>1, <2>3 DEF RunStuck
  <2>5. RunStuck(Idle, c)
    BY <1>a, StuckRuns
  <2>6. QED
    BY <2>1, <2>2, <2>4, <2>5
<1>4. CASE Collect(s)
  <2> DEFINE l == r.label
             n == IF r.backfill > 0 THEN r.backfill ELSE r.limit
             stop == r.snap[r.label]
             batch == Newest(After(l, stop), n)
             done == ReachedState(l, stop, n) /\ ~ Truncated(l, stop, n)
  <2>1. PICK top \in 0 .. issued[l] :
          SetSync(s, [r EXCEPT !.pc = "messages", !.todo = batch, !.top = top,
                               !.complete = done])
    BY <1>4 DEF Collect
  <2> DEFINE q == [r EXCEPT !.pc = "messages", !.todo = batch, !.top = top,
                            !.complete = done]
  <2>2. q.pc = "messages" /\ q.label = l /\ q.snap = r.snap /\ q.complete = done
    BY <1>a DEF Runs
  <2>3. r.pc = "collect" /\ r.snap["post"] = c /\ UNCHANGED cursors
    BY <1>4, <1>a DEF Collect, RunStuck
  <2>4. l = "post" => ~ done
    BY <1>a, <1>b, <2>3, StuckIsTruncated
  <2>5. RunStuck(q, c)
    <3> HIDE DEF q, done
    <3> QED
      BY <2>2, <2>3, <2>4 DEF RunStuck
  <2>6. QED
    BY <2>1, <2>3, <2>5
<1>5. ASSUME NEW m \in r.todo, CheckGlobal(s, m) \/ CheckSource(s, m) \/ SaveMessage(s, m)
      PROVE  UNCHANGED cursors /\ \E q : SetSync(s, q) /\ RunStuck(q, c)
  <2> DEFINE worked == [r EXCEPT !.pc = "messages", !.todo = @ \ {m}]
  <2>1. /\ r.pc \in {"messages", "scoped", "save"} /\ UNCHANGED cursors
        /\ \/ SetSync(s, worked)
           \/ \E pc \in {"scoped", "save"} : SetSync(s, [r EXCEPT !.pc = pc])
    BY <1>5 DEF CheckGlobal, CheckSource, CheckScope, SaveMessage
  <2>2. CASE SetSync(s, worked)
    <3>1. /\ worked.pc = "messages" /\ worked.label = r.label
          /\ worked.snap = r.snap /\ worked.complete = r.complete
      BY <1>a DEF Runs
    <3>2. RunStuck(worked, c)
      <4> HIDE DEF worked
      <4> QED
        BY <1>a, <2>1, <3>1 DEF RunStuck
    <3>3. QED
      BY <2>1, <2>2, <3>2
  <2>3. ASSUME NEW pc \in {"scoped", "save"}, SetSync(s, [r EXCEPT !.pc = pc])
        PROVE  UNCHANGED cursors /\ \E q : SetSync(s, q) /\ RunStuck(q, c)
    <3> DEFINE q == [r EXCEPT !.pc = pc]
    <3>1. /\ q.pc = pc /\ q.label = r.label
          /\ q.snap = r.snap /\ q.complete = r.complete
      BY <1>a DEF Runs
    <3>2. RunStuck(q, c)
      <4> HIDE DEF q
      <4> QED
        BY <1>a, <2>1, <3>1 DEF RunStuck
    <3>3. QED
      BY <2>1, <2>3, <3>2
  <2>4. QED
    BY <2>1, <2>2, <2>3
<1>6. CASE EndBatch(s)
  <2> DEFINE q == [r EXCEPT !.pc = "cursor"]
  <2>1. /\ r.pc = "messages" /\ UNCHANGED cursors
        /\ \/ SetSync(s, q) /\ r.complete
           \/ SetSync(s, NextPhase(r))
    BY <1>6, <1>b DEF EndBatch, Advances
  <2>2. CASE SetSync(s, q) /\ r.complete
    <3>1. q.label = r.label /\ q.snap = r.snap
      BY <1>a DEF Runs
    <3>2. RunStuck(q, c)
      <4> HIDE DEF q
      <4> QED
        BY <1>a, <2>1, <2>2, <3>1 DEF RunStuck
    <3>3. QED
      BY <2>1, <2>2, <3>2
  <2>3. CASE SetSync(s, NextPhase(r))
    BY <1>a, <1>b, <2>1, <2>3, StuckRuns
  <2>4. QED
    BY <2>1, <2>2, <2>3
<1>7. CASE SaveCursor(s)
  <2>1. r.pc = "cursor" /\ cursors' = NewCursors(r) /\ SetSync(s, NextPhase(r))
    BY <1>7 DEF SaveCursor
  <2>2. r.label # "post" /\ r.snap["post"] = c
    BY <1>a, <2>1 DEF RunStuck
  <2>3. cursors'["post"] = c
    BY <1>a, <2>1, <2>2 DEF NewCursors, Runs, Labels
  <2>4. QED
    BY <1>a, <1>b, <2>1, <2>3, StuckRuns
<1>8. CASE SyncStops(s)
  BY <1>8, <1>a, StuckRuns DEF SyncStops
<1>9. QED
  BY <1>1, <1>2, <1>3, <1>4, <1>5, <1>6, <1>7, <1>8
     DEF BeginRun, SyncStep, Refused

\* Without backfills, once a source shows as many new posts as the largest limit, or more,
\* its posts cursor stays where it is, for any number of syncers and repetitions, until
\* messages are deleted or the source is purged.
THEOREM StuckStaysHolds ==
  ASSUME Backfills = {}
  PROVE  Spec => StuckStays
<1>1. ASSUME TypeOK, TypeOK', [Next]_vars, Stuck, remote \subseteq remote', hasState'
      PROVE  Stuck' /\ cursors'["post"] = cursors["post"]
  <2> DEFINE c == cursors["post"]
  <2>1. c \in Nat /\ \A s \in Syncers : RunStuck(sync[s], c)
    BY <1>1 DEF TypeOK, Stuck, RunStuck, Labels
  <2>2. cursors'["post"] = c /\ \A s \in Syncers : RunStuck(sync'[s], c)
    <3>1. ASSUME NEW s \in Syncers, BeginRun(s) \/ SyncStep(s) \/ SyncStops(s)
          PROVE  cursors'["post"] = c /\ \A t \in Syncers : RunStuck(sync'[t], c)
      <4>1. PICK q : SetSync(s, q) /\ RunStuck(q, c)
        BY <1>1, <3>1, StuckSync
      <4>2. \A t \in Syncers : sync'[t] = IF t = s THEN q ELSE sync[t]
        BY <1>1, <4>1 DEF SetSync, TypeOK
      <4>3. cursors'["post"] = c
        BY <1>1, <3>1, StuckSync
      <4>4. QED
        BY <2>1, <4>1, <4>2, <4>3
    <3>2. CASE Environment \/ Commands
      <4>1. UNCHANGED <<sync, cursors>>
        BY <3>2 DEF Environment, Arrive, Delete, Commands, AddSource, RemoveSource,
                    ExcludeSender, HideBySender, RemoveSender
      <4>2. QED
        BY <2>1, <4>1
    <3>3. CASE UNCHANGED vars
      BY <2>1, <3>3 DEF vars
    <3>4. ~ PurgeSource
      BY <1>1 DEF PurgeSource
    <3>5. QED
      BY <1>1, <3>1, <3>2, <3>3, <3>4 DEF Next, SteadyNext
  <2>3. \A n \in Limits : Cardinality({m \in remote' : m.label = "post" /\ m.id > c}) >= n
    <3>1. \A n \in Limits : n \in Nat
      BY LimitsAssumption DEF LimitsAssumption
    <3>2. QED
      BY <1>1, <2>1, <3>1, MoreAfter DEF Stuck, Labels
  <2>4. QED
    BY <1>1, <2>2, <2>3 DEF Stuck, RunStuck, After
<1>2. ASSUME TypeOK, TypeOK', [Next]_vars
      PROVE  [Stuck /\ remote \subseteq remote' /\ hasState'
                => Stuck' /\ cursors'["post"] = cursors["post"]]_vars
  BY <1>1, <1>2
<1>3. QED
  BY <1>2, TypeCorrect, PTL DEF Spec, StuckStays

(***************************************************************************)
(* What a running sync brings back of an excluded sender.                  *)
(***************************************************************************)
\* Messages of one chat differ in their ids, and so do those of a batch.
IdsApart ==
  /\ \A m \in remote : m.id <= issued[m.label]
  /\ \A m, k \in remote : m.label = k.label /\ m.id = k.id => m = k
  /\ \A s \in Syncers : \A m, k \in sync[s].todo : m.id = k.id => m = k

\* Syncers that have already found the exclusion e absent for a message of its
\* sender, and are on the way to save it.
Past(scope) == IF scope = "global" THEN {"scoped", "save"} ELSE {"save"}
Checked(e) ==
  {s \in Syncers : /\ sync[s].pc \in Past(e[2])
                   /\ \E m \in sync[s].todo : IsOldest(m, sync[s].todo) /\ m.by = e[1]}
Shown(a) == {m \in Visible : m.by = a}

BoundOf(e) ==
  Cardinality(Shown(e[1])) + Cardinality(Checked(e)) <= Cardinality(Syncers)

\* Each of them can bring back one message, and is then no longer among them.
LeakInv ==
  /\ IdsApart
  /\ IsFiniteSet(stored)
  /\ \A e \in excluded \ hiding : BoundOf(e)

\* A step of one syncer that shortens its batch, or replaces it by messages of one
\* chat, leaves ids apart.
LEMMA SetSyncApart ==
  ASSUME TypeOK, IdsApart, UNCHANGED <<remote, issued>>, NEW s \in Syncers, NEW q,
         SetSync(s, q),
         \/ q.todo \subseteq sync[s].todo
         \/ \E l \in Labels : q.todo \subseteq {m \in remote : m.label = l}
  PROVE  IdsApart'
<1>1. \A t \in Syncers : sync'[t] = IF t = s THEN q ELSE sync[t]
  BY DEF TypeOK, SetSync
<1>2. \A m, k \in q.todo : m.id = k.id => m = k
  BY DEF IdsApart
<1>3. QED
  BY <1>1, <1>2 DEF IdsApart

\* The batches syncers move to.
LEMMA SyncApart ==
  ASSUME TypeOK, IdsApart, NEW s \in Syncers, BeginRun(s) \/ SyncStep(s) \/ SyncStops(s)
  PROVE  IdsApart'
<1> DEFINE r == sync[s]
<1>0. r \in Runs
  BY DEF TypeOK
<1>1. /\ Idle.todo = {} /\ NextPhase(r).todo = {}
      /\ \A limit, backfill : Phase("post", limit, backfill).todo = {}
  BY DEF NextPhase, Phase, Idle
<1>2. UNCHANGED <<remote, issued>>
  BY DEF BeginRun, Begin, SyncStep, SyncStops, ReadState, CollectLatest, Collect,
         CheckGlobal, CheckSource, CheckScope, SaveMessage, EndBatch, SaveCursor,
         Refused, telegram
<1>3. CASE BeginRun(s)
  BY <1>1, <1>2, <1>3, SetSyncApart DEF BeginRun, Begin
<1>4. CASE SyncStops(s)
  BY <1>1, <1>2, <1>4, SetSyncApart DEF SyncStops
<1>5. CASE ReadState(s)
  BY <1>0, <1>2, <1>5, SetSyncApart DEF ReadState, Runs
<1>6. CASE CollectLatest(s)
  BY <1>0, <1>1, <1>2, <1>6, SetSyncApart DEF CollectLatest, Runs
<1>7. CASE Collect(s)
  <2> DEFINE n == IF r.backfill > 0 THEN r.backfill ELSE r.limit
             batch == Newest(After(r.label, r.snap[r.label]), n)
  <2>1. PICK top, complete :
          SetSync(s, [r EXCEPT !.pc = "messages", !.todo = batch, !.top = top,
                               !.complete = complete])
    BY <1>7, Zenon DEF Collect
  <2> DEFINE q == [r EXCEPT !.pc = "messages", !.todo = batch, !.top = top,
                            !.complete = complete]
  <2>2. q.todo \subseteq {m \in remote : m.label = r.label}
    <3>1. q.todo = batch
      BY <1>0 DEF Runs
    <3>2. batch \subseteq {m \in remote : m.label = r.label}
      BY DEF Newest, After
    <3>3. QED
      BY <3>1, <3>2
  <2>3. SetSync(s, q)
    BY <2>1
  <2>4. r.label \in Labels
    BY <1>0 DEF Runs
  <2> HIDE DEF q, n, batch
  <2>5. QED
    BY <1>2, <2>2, <2>3, <2>4, SetSyncApart
<1>8. ASSUME NEW m \in r.todo, CheckGlobal(s, m) \/ CheckSource(s, m) \/ SaveMessage(s, m)
      PROVE  IdsApart'
  BY <1>0, <1>2, <1>8, SetSyncApart DEF CheckGlobal, CheckSource, CheckScope, SaveMessage, Runs
<1>9. CASE EndBatch(s)
  BY <1>0, <1>1, <1>2, <1>9, SetSyncApart DEF EndBatch, Runs
<1>10. CASE SaveCursor(s)
  BY <1>1, <1>2, <1>10, SetSyncApart DEF SaveCursor
<1>11. QED
  BY <1>3, <1>4, <1>5, <1>6, <1>7, <1>8, <1>9, <1>10 DEF SyncStep, Refused

\* Ids stay apart in every step.
LEMMA IdsApartNext ==
  ASSUME TypeOK, IdsApart, [Next]_vars
  PROVE  IdsApart'
<1>1. ASSUME NEW l \in Labels, NEW a \in Senders, Arrive(l, a) PROVE IdsApart'
  <2> DEFINE n == [label |-> l, id |-> issued[l] + 1, by |-> a]
  <2>1. /\ remote' = remote \cup {n} /\ UNCHANGED sync
        /\ \A k \in Labels : issued'[k] = IF k = l THEN issued[l] + 1 ELSE issued[k]
    BY <1>1 DEF Arrive, TypeOK
  <2>2. \A m \in remote : m.id \in Nat /\ m.label \in Labels
    BY DEF TypeOK, Messages
  <2>3. \A k \in Labels : issued[k] \in Nat
    BY DEF TypeOK
  <2>4. QED
    BY <2>1, <2>2, <2>3 DEF IdsApart
<1>2. CASE \/ \E m \in remote : Delete(m)
           \/ Commands \/ PurgeSource \/ UNCHANGED vars
  BY <1>2 DEF Delete, Commands, AddSource, RemoveSource, ExcludeSender, HideBySender,
              RemoveSender, PurgeSource, telegram, vars, IdsApart
<1>3. QED
  BY <1>1, <1>2, SyncApart DEF Next, SteadyNext, Environment

\* The oldest message of a batch is one.
LEMMA OneOldest ==
  ASSUME TypeOK, IdsApart, NEW s \in Syncers, NEW m, NEW k,
         IsOldest(m, sync[s].todo), IsOldest(k, sync[s].todo)
  PROVE  m = k
<1>1. m \in Messages /\ k \in Messages
  BY DEF TypeOK, Runs, IsOldest
<1>2. m.id \in Nat /\ k.id \in Nat
  BY <1>1 DEF Messages
<1>3. m.id = k.id
  BY <1>2 DEF IsOldest
<1>4. QED
  BY <1>3 DEF IdsApart, IsOldest

\* A step that shows nothing new of the sender and checks nothing for him.
LEMMA BoundKept ==
  ASSUME IsFiniteSet(Syncers), IsFiniteSet(stored), NEW e \in excluded \ hiding,
         LeakInv, Shown(e[1])' \subseteq Shown(e[1]), Checked(e)' \subseteq Checked(e)
  PROVE  BoundOf(e)'
<1>1. IsFiniteSet(Shown(e[1])) /\ IsFiniteSet(Checked(e))
  <2>1. Shown(e[1]) \in SUBSET stored /\ Checked(e) \in SUBSET Syncers
    BY DEF Shown, Visible, Checked
  <2>2. QED
    BY <2>1, FS_Subset
<1>2. /\ IsFiniteSet(Shown(e[1])') /\ IsFiniteSet(Checked(e)')
      /\ Cardinality(Shown(e[1])') <= Cardinality(Shown(e[1]))
      /\ Cardinality(Checked(e)') <= Cardinality(Checked(e))
  BY <1>1, FS_Subset
<1>3. /\ Cardinality(Shown(e[1])') \in Nat /\ Cardinality(Shown(e[1])) \in Nat
      /\ Cardinality(Checked(e)') \in Nat /\ Cardinality(Checked(e)) \in Nat
      /\ Cardinality(Syncers) \in Nat
  BY <1>1, <1>2, FS_CardinalityType
<1>4. Cardinality(Shown(e[1])) + Cardinality(Checked(e)) <= Cardinality(Syncers)
  BY DEF LeakInv, BoundOf
<1>5. QED
  BY <1>2, <1>3, <1>4 DEF BoundOf

\* Saving a checked message trades one syncer for one message shown.
LEMMA SaveBound ==
  ASSUME IsFiniteSet(Syncers), TypeOK, LeakInv, NEW s \in Syncers,
         NEW m \in sync[s].todo, SaveMessage(s, m), NEW e \in excluded \ hiding
  PROVE  BoundOf(e)'
<1> DEFINE a == e[1]
<1>1. \A t \in Syncers \ {s} : sync'[t] = sync[t]
  BY DEF SaveMessage, SetSync, TypeOK
<1>2. sync'[s].pc = "messages"
  <2>1. sync[s] \in Runs
    BY DEF TypeOK
  <2>2. QED
    BY <2>1 DEF SaveMessage, SetSync, TypeOK, Runs
<1>3. Checked(e)' \subseteq Checked(e) \ {s}
  BY <1>1, <1>2 DEF Checked, Past
<1>4. CASE m.by # a
  <2>1. Shown(a)' \subseteq Shown(a)
    BY <1>4 DEF Shown, Visible, SaveMessage
  <2>2. QED
    BY <1>3, <2>1, BoundKept DEF LeakInv
<1>5. CASE m.by = a
  <2>1. Shown(a)' \subseteq Shown(a) \cup {m}
    BY DEF Shown, Visible, SaveMessage
  <2>2. s \in Checked(e)
    BY <1>5 DEF SaveMessage, Checked, Past
  <2>3. IsFiniteSet(Shown(a)) /\ IsFiniteSet(Checked(e))
    <3>1. Shown(a) \in SUBSET stored /\ Checked(e) \in SUBSET Syncers
      BY DEF Shown, Visible, Checked
    <3>2. QED
      BY <3>1, FS_Subset DEF LeakInv
  <2>4. /\ IsFiniteSet(Shown(a) \cup {m})
        /\ Cardinality(Shown(a) \cup {m}) <= Cardinality(Shown(a)) + 1
    <3>1. Cardinality(Shown(a)) \in Nat
      BY <2>3, FS_CardinalityType
    <3>2. \A S : IsFiniteSet(S) =>
             /\ IsFiniteSet(S \cup {m})
             /\ Cardinality(S \cup {m}) = IF m \in S THEN Cardinality(S)
                                          ELSE Cardinality(S) + 1
      BY FS_AddElement
    <3> HIDE DEF a
    <3>3. QED
      BY <2>3, <3>1, <3>2
  <2>5. /\ IsFiniteSet(Checked(e) \ {s})
        /\ Cardinality(Checked(e) \ {s}) = Cardinality(Checked(e)) - 1
    BY <2>2, <2>3, FS_RemoveElement
  <2>6. /\ IsFiniteSet(Shown(a)') /\ IsFiniteSet(Checked(e)')
        /\ Cardinality(Shown(a)') <= Cardinality(Shown(a) \cup {m})
        /\ Cardinality(Checked(e)') <= Cardinality(Checked(e) \ {s})
    BY <1>3, <2>1, <2>4, <2>5, FS_Subset
  <2>7. /\ Cardinality(Shown(a)') \in Nat /\ Cardinality(Checked(e)') \in Nat
        /\ Cardinality(Shown(a)) \in Nat /\ Cardinality(Checked(e)) \in Nat
        /\ Cardinality(Shown(a) \cup {m}) \in Nat
        /\ Cardinality(Checked(e) \ {s}) \in Nat /\ Cardinality(Syncers) \in Nat
    BY <2>3, <2>4, <2>5, <2>6, FS_CardinalityType
  <2>8. Cardinality(Shown(a)) + Cardinality(Checked(e)) <= Cardinality(Syncers)
    BY DEF LeakInv, BoundOf
  <2>9. QED
    BY <2>4, <2>5, <2>6, <2>7, <2>8 DEF BoundOf
<1>6. QED
  BY <1>4, <1>5

\* A check passes no message of a sender who is excluded in its scope.
LEMMA CheckBound ==
  ASSUME TypeOK, IdsApart, NEW s \in Syncers, NEW m \in sync[s].todo,
         CheckGlobal(s, m) \/ CheckSource(s, m), NEW e \in excluded
  PROVE  Checked(e)' \subseteq Checked(e)
<1> DEFINE r == sync[s]
<1>0. r \in Runs /\ e = <<e[1], e[2]>> /\ e[2] \in {"global", "source"}
  <2>1. r \in Runs /\ e \in Senders \X Scopes
    BY DEF TypeOK
  <2>2. \A scope \in Scopes : scope \in {"global", "source"}
    BY ScopesAssumption, Zenon DEF ScopesAssumption
  <2>3. e = <<e[1], e[2]>> /\ e[2] \in Scopes
    BY <2>1
  <2>4. QED
    BY <2>1, <2>2, <2>3
<1>1. \A t \in Syncers \ {s} : sync'[t] = sync[t]
  BY DEF CheckGlobal, CheckSource, CheckScope, SetSync, TypeOK
<1>2. IsOldest(m, r.todo)
  BY DEF CheckGlobal, CheckSource, CheckScope
<1>3. \/ sync'[s].pc = "messages"
      \/ /\ sync'[s].todo = r.todo
         /\ \/ r.pc = "messages" /\ sync'[s].pc = "scoped" /\ ~ Excludes("global", m)
            \/ r.pc = "scoped" /\ sync'[s].pc = "save" /\ ~ Excludes("source", m)
  <2>1. \/ SetSync(s, [r EXCEPT !.pc = "messages", !.todo = @ \ {m}])
        \/ /\ r.pc = "messages" /\ ~ Excludes("global", m)
           /\ SetSync(s, [r EXCEPT !.pc = "scoped"])
        \/ /\ r.pc = "scoped" /\ ~ Excludes("source", m)
           /\ SetSync(s, [r EXCEPT !.pc = "save"])
    BY DEF CheckGlobal, CheckSource, CheckScope
  <2>2. \A q : SetSync(s, q) => sync'[s] = q
    BY DEF SetSync, TypeOK
  <2>3. QED
    BY <1>0, <2>1, <2>2 DEF Runs
<1>4. ASSUME s \in Checked(e)' PROVE s \in Checked(e)
  <2>1. /\ sync'[s].todo = r.todo /\ sync'[s].pc \in Past(e[2])
        /\ \/ r.pc = "messages" /\ sync'[s].pc = "scoped" /\ ~ Excludes("global", m)
           \/ r.pc = "scoped" /\ sync'[s].pc = "save" /\ ~ Excludes("source", m)
    BY <1>3, <1>4 DEF Checked, Past
  <2>2. PICK k \in r.todo : IsOldest(k, r.todo) /\ k.by = e[1]
    BY <1>4, <2>1 DEF Checked
  <2>3. k = m
    BY <1>2, <2>2, OneOldest
  <2>4. \A scope : e[2] = scope => Excludes(scope, m)
    BY <1>0, <2>2, <2>3 DEF Excludes
  <2>5. r.pc \in Past(e[2])
    BY <1>0, <2>1, <2>4 DEF Past
  <2>6. QED
    BY <2>2, <2>5 DEF Checked
<1>5. QED
  BY <1>1, <1>4 DEF Checked

\* The other steps of a syncer check nothing.
LEMMA OtherBound ==
  ASSUME TypeOK, NEW s \in Syncers, NEW e,
         \/ BeginRun(s) \/ ReadState(s) \/ CollectLatest(s) \/ Collect(s)
         \/ EndBatch(s) \/ SaveCursor(s) \/ SyncStops(s)
  PROVE  Checked(e)' \subseteq Checked(e)
<1> DEFINE r == sync[s]
<1>0. r \in Runs /\ sync \in [Syncers -> Runs]
  BY DEF TypeOK
<1>1. ASSUME NEW q, SetSync(s, q), q.pc \notin {"scoped", "save"}
      PROVE  Checked(e)' \subseteq Checked(e)
  <2>1. \A t \in Syncers : sync'[t] = IF t = s THEN q ELSE sync[t]
    BY <1>0, <1>1 DEF SetSync
  <2>2. QED
    BY <1>1, <2>1 DEF Checked, Past
<1>2. /\ Idle.pc = "idle" /\ NextPhase(r).pc \notin {"scoped", "save"}
      /\ \A limit, backfill :
           Phase("post", limit, backfill).pc \notin {"scoped", "save"}
  BY DEF NextPhase, Phase, Idle
<1>3. CASE BeginRun(s)
  BY <1>1, <1>2, <1>3 DEF BeginRun, Begin
<1>4. CASE SyncStops(s)
  BY <1>1, <1>2, <1>4 DEF SyncStops
<1>5. CASE ReadState(s)
  BY <1>0, <1>1, <1>5 DEF ReadState, Runs
<1>6. CASE CollectLatest(s)
  BY <1>0, <1>1, <1>2, <1>6 DEF CollectLatest, Runs
<1>7. CASE Collect(s)
  <2>1. PICK todo, top, complete :
          SetSync(s, [r EXCEPT !.pc = "messages", !.todo = todo, !.top = top,
                               !.complete = complete])
    BY <1>7, Zenon DEF Collect
  <2> DEFINE q == [r EXCEPT !.pc = "messages", !.todo = todo, !.top = top,
                            !.complete = complete]
  <2>2. q.pc = "messages"
    BY <1>0 DEF Runs
  <2>3. SetSync(s, q)
    BY <2>1
  <2> HIDE DEF q
  <2>4. QED
    BY <1>1, <2>2, <2>3
<1>8. CASE EndBatch(s)
  BY <1>0, <1>1, <1>2, <1>8 DEF EndBatch, Runs
<1>9. CASE SaveCursor(s)
  BY <1>1, <1>2, <1>9 DEF SaveCursor
<1>10. QED
  BY <1>3, <1>4, <1>5, <1>6, <1>7, <1>8, <1>9

\* Each step keeps the bound of each exclusion.
LEMMA LeakInvNext ==
  ASSUME IsFiniteSet(Syncers), TypeOK, LeakInv, [Next]_vars
  PROVE  LeakInv'
<1>1. IdsApart'
  BY IdsApartNext DEF LeakInv
<1>2. IsFiniteSet(stored')
  <2>1. UNCHANGED stored \/ stored' = {} \/ \E m : stored' = stored \cup {m}
    BY DEF Next, SteadyNext, Environment, Arrive, Delete, Commands, AddSource,
           RemoveSource, ExcludeSender, HideBySender, RemoveSender, PurgeSource,
           BeginRun, Begin, SyncStep, SyncStops, ReadState, CollectLatest, Collect,
           CheckGlobal, CheckSource, CheckScope, SaveMessage, EndBatch, SaveCursor,
           Refused, vars
  <2>2. \A m : IsFiniteSet(stored \cup {m})
    BY FS_AddElement DEF LeakInv
  <2>3. QED
    BY <2>1, <2>2, FS_EmptySet DEF LeakInv
<1>3. ASSUME NEW e \in excluded' \ hiding'
      PROVE  BoundOf(e)'
  <2> USE DEF LeakInv
  <2>1. ASSUME NEW s \in Syncers, BeginRun(s) \/ SyncStep(s) \/ SyncStops(s)
        PROVE  BoundOf(e)'
    <3>1. e \in excluded \ hiding
      BY <2>1 DEF BeginRun, Begin, SyncStep, SyncStops, ReadState, CollectLatest,
         Collect, CheckGlobal, CheckSource, CheckScope, SaveMessage, EndBatch,
         SaveCursor, Refused, policy
    <3>2. CASE \E m \in sync[s].todo : SaveMessage(s, m)
      BY <3>1, <3>2, SaveBound
    <3>3. ASSUME UNCHANGED <<stored, hidden>>
          PROVE  Shown(e[1])' \subseteq Shown(e[1])
      BY <3>3 DEF Shown, Visible
    <3>4. CASE \E m \in sync[s].todo : CheckGlobal(s, m) \/ CheckSource(s, m)
      BY <3>1, <3>3, <3>4, CheckBound, BoundKept DEF CheckGlobal, CheckSource, CheckScope
    <3>5. CASE \/ BeginRun(s) \/ ReadState(s) \/ CollectLatest(s) \/ Collect(s)
               \/ EndBatch(s) \/ SaveCursor(s) \/ SyncStops(s)
      <4>1. UNCHANGED <<stored, hidden>>
        BY <3>5 DEF BeginRun, Begin, ReadState, CollectLatest, Collect, EndBatch,
                    SaveCursor, SyncStops
      <4>2. QED
        BY <3>1, <3>3, <3>5, <4>1, OtherBound, BoundKept
    <3>6. QED
      BY <2>1, <3>2, <3>4, <3>5 DEF SyncStep, Refused
  <2>2. ASSUME UNCHANGED sync, e \in excluded \ hiding,
               Shown(e[1])' \subseteq Shown(e[1])
        PROVE  BoundOf(e)'
    <3>1. Checked(e)' \subseteq Checked(e)
      BY <2>2 DEF Checked
    <3>2. QED
      BY <2>2, <3>1, BoundKept
  <2>3. ASSUME Shown(e[1])' = {} PROVE BoundOf(e)'
    <3>1. Checked(e)' \in SUBSET Syncers
      BY DEF Checked
    <3>2. /\ Cardinality(Checked(e)') <= Cardinality(Syncers)
          /\ Cardinality(Checked(e)') \in Nat /\ Cardinality(Syncers) \in Nat
      BY <3>1, FS_Subset, FS_CardinalityType
    <3>3. Cardinality({}) = 0
      BY FS_EmptySet
    <3>4. QED
      BY <2>3, <3>2, <3>3 DEF BoundOf
  <2>4. CASE Environment \/ AddSource \/ RemoveSource \/ UNCHANGED vars
    BY <2>2, <2>4 DEF Environment, Arrive, Delete, AddSource, RemoveSource, policy,
                      vars, Shown, Visible
  <2>5. CASE \E a \in Senders, scope \in Scopes : ExcludeSender(a, scope)
    BY <2>2, <2>5 DEF ExcludeSender, Shown, Visible
  <2>6. CASE \E d \in excluded : RemoveSender(d)
    BY <2>2, <2>6 DEF RemoveSender, Shown, Visible
  <2>7. ASSUME NEW d \in hiding, HideBySender(d) PROVE BoundOf(e)'
    <3>1. CASE e = d
      <4>1. Shown(e[1])' = {}
        BY <2>7, <3>1 DEF HideBySender, Shown, Visible
      <4>2. QED
        BY <2>3, <4>1
    <3>2. CASE e # d
      BY <2>2, <2>7, <3>2 DEF HideBySender, Shown, Visible
    <3>3. QED
      BY <3>1, <3>2
  <2>8. CASE PurgeSource
    BY <2>3, <2>8 DEF PurgeSource, Shown, Visible
  <2>9. QED
    BY <2>1, <2>4, <2>5, <2>6, <2>7, <2>8 DEF Next, SteadyNext, Commands
<1>4. QED
  BY <1>1, <1>2, <1>3 DEF LeakInv

\* However exclusions, hiding, purges and any number of syncers interleave, an
\* exclusion whose messages were hidden is undone for at most one message per
\* syncer, the one it had already checked.
THEOREM LeakIsBounded ==
  ASSUME IsFiniteSet(Syncers)
  PROVE  Spec => []LeakBound
<1>1. Init => LeakInv
  BY FS_EmptySet DEF Init, LeakInv, IdsApart, Idle
<1>2. TypeOK /\ LeakInv /\ [Next]_vars => LeakInv'
  BY LeakInvNext
<1>3. LeakInv => LeakBound
  <2> SUFFICES ASSUME LeakInv, NEW e \in excluded \ hiding
               PROVE  Cardinality(Shown(e[1])) <= Cardinality(Syncers)
    BY DEF LeakBound, Shown
  <2>1. Shown(e[1]) \in SUBSET stored /\ Checked(e) \in SUBSET Syncers
    BY DEF Shown, Visible, Checked
  <2>2. /\ Cardinality(Shown(e[1])) \in Nat /\ Cardinality(Checked(e)) \in Nat
        /\ Cardinality(Syncers) \in Nat
    BY <2>1, FS_Subset, FS_CardinalityType DEF LeakInv
  <2>3. QED
    BY <2>2 DEF LeakInv, BoundOf
<1>4. QED
  BY <1>1, <1>2, <1>3, TypeCorrect, PTL DEF Spec

(***************************************************************************)
(* One syncer never takes a cursor back.                                   *)
(***************************************************************************)
\* A source with a state row has a cursor for its posts.  What the only syncer read
\* is still what the row holds, its comments come after the posts' cursor, and what
\* it is about to write is newer.
AloneInv(s) ==
  LET r == sync[s]
  IN /\ hasState <=> cursors["post"] > 0
     /\ r.pc \notin {"idle", "state"} => r.snap = cursors
     /\ r.label = "comment" => hasState
     /\ r.pc \in {"messages", "scoped", "save"} => ~ Baseline(r)
     /\ r.pc = "cursor" => r.top > r.snap[r.label]

\* One step of the syncer itself.
LEMMA AloneSyncStep ==
  ASSUME Backfills = {}, TypeOK, TypeOK', NEW s \in Syncers, AloneInv(s),
         BeginRun(s) \/ SyncStep(s) \/ SyncStops(s)
  PROVE  /\ AloneInv(s)'
         /\ hasState => \A l \in Labels : cursors[l] <= cursors'[l]
<1> DEFINE r == sync[s]
<1>0. /\ r \in Runs /\ r.backfill = 0 /\ r.label \in Labels /\ r.top \in Nat
      /\ \A l \in Labels : r.snap[l] \in Nat /\ cursors[l] \in Nat
  BY DEF TypeOK, Runs
<1>1. \A q : SetSync(s, q) => sync'[s] = q
  BY DEF TypeOK, SetSync
<1>2. /\ Idle.pc = "idle" /\ Idle.label = "post"
      /\ \A label, limit : /\ Phase(label, limit, 0).pc = "state"
                           /\ Phase(label, limit, 0).label = label
      /\ \/ NextPhase(r).pc = "idle" /\ NextPhase(r).label = "post"
         \/ /\ NextPhase(r).pc = "state" /\ NextPhase(r).label = "comment"
            /\ r.label = "post"
  BY <1>0 DEF NextPhase, Phase, Idle
<1>3. CASE BeginRun(s) \/ SyncStops(s)
  <2>1. PICK q : /\ SetSync(s, q) /\ q.pc \in {"idle", "state"} /\ q.label = "post"
                 /\ UNCHANGED <<hasState, cursors>>
    <3>1. CASE SyncStops(s)
      BY <1>2, <3>1 DEF SyncStops
    <3>2. CASE BeginRun(s)
      <4>1. PICK limit \in Limits : Begin(s, limit, 0)
        BY <3>2 DEF BeginRun
      <4>2. QED
        BY <1>2, <4>1 DEF Begin
    <3>3. QED
      BY <1>3, <3>1, <3>2
  <2>2. QED
    BY <1>0, <1>1, <2>1 DEF AloneInv
<1>4. CASE ReadState(s)
  <2>1. sync'[s] = [r EXCEPT !.snap = cursors, !.pc = "collect"]
    BY <1>0, <1>1, <1>4 DEF ReadState
  <2>2. /\ sync'[s].pc = "collect" /\ sync'[s].snap = cursors /\ sync'[s].label = r.label
    BY <1>0, <2>1 DEF Runs
  <2>3. UNCHANGED <<hasState, cursors>> /\ r.pc = "state"
    BY <1>4 DEF ReadState
  <2>4. QED
    BY <1>0, <2>2, <2>3 DEF AloneInv
<1>5. CASE CollectLatest(s)
  <2>1. UNCHANGED <<hasState, cursors>> /\ Baseline(r) /\ r.pc = "collect"
    BY <1>5 DEF CollectLatest
  <2>2. \/ sync'[s] = Idle
        \/ \E latest \in Nat \ {0} :
             sync'[s] = [r EXCEPT !.pc = "cursor", !.top = latest]
    <3>1. PICK latest \in 0 .. issued[r.label] :
            SetSync(s, IF latest = 0 THEN Idle
                       ELSE [r EXCEPT !.pc = "cursor", !.top = latest])
      BY <1>5 DEF CollectLatest
    <3>2. latest \in Nat
      BY <1>0 DEF TypeOK
    <3>3. QED
      BY <1>1, <3>1, <3>2
  <2>3. CASE sync'[s] = Idle
    BY <1>0, <1>2, <2>1, <2>3 DEF AloneInv
  <2>4. ASSUME NEW latest \in Nat \ {0},
               sync'[s] = [r EXCEPT !.pc = "cursor", !.top = latest]
        PROVE  /\ AloneInv(s)'
               /\ hasState => \A l \in Labels : cursors[l] <= cursors'[l]
    <3>1. /\ sync'[s].pc = "cursor" /\ sync'[s].top = latest
          /\ sync'[s].snap = r.snap /\ sync'[s].label = r.label
      BY <1>0, <2>4 DEF Runs
    <3>2. r.snap[r.label] = 0
      BY <2>1 DEF Baseline
    <3>3. QED
      BY <1>0, <2>1, <3>1, <3>2 DEF AloneInv
  <2>5. QED
    BY <2>2, <2>3, <2>4
<1>6. CASE Collect(s)
  <2>1. PICK todo, top, complete :
          SetSync(s, [r EXCEPT !.pc = "messages", !.todo = todo, !.top = top,
                               !.complete = complete])
    BY <1>6, Zenon DEF Collect
  <2> DEFINE q == [r EXCEPT !.pc = "messages", !.todo = todo, !.top = top,
                            !.complete = complete]
  <2>2. /\ q.pc = "messages" /\ q.snap = r.snap /\ q.label = r.label
        /\ q.backfill = r.backfill
    BY <1>0 DEF Runs
  <2>3. sync'[s] = q
    BY <1>1, <2>1
  <2>4. /\ UNCHANGED <<hasState, cursors>> /\ ~ Baseline(r) /\ r.pc = "collect"
    BY <1>6 DEF Collect
  <2> HIDE DEF q
  <2>5. QED
    BY <1>0, <2>2, <2>3, <2>4 DEF AloneInv, Baseline
<1>7. ASSUME NEW m \in r.todo, CheckGlobal(s, m) \/ CheckSource(s, m) \/ SaveMessage(s, m)
      PROVE  /\ AloneInv(s)'
             /\ hasState => \A l \in Labels : cursors[l] <= cursors'[l]
  <2>1. /\ UNCHANGED <<hasState, cursors>>
        /\ r.pc \in {"messages", "scoped", "save"}
    BY <1>7 DEF CheckGlobal, CheckSource, CheckScope, SaveMessage
  <2>2. \/ \E pc \in {"scoped", "save"} : SetSync(s, [r EXCEPT !.pc = pc])
        \/ SetSync(s, [r EXCEPT !.pc = "messages", !.todo = @ \ {m}])
    BY <1>7 DEF CheckGlobal, CheckSource, CheckScope, SaveMessage
  <2>3. PICK q : /\ SetSync(s, q)
                 /\ q.pc \in {"messages", "scoped", "save"}
                 /\ q.snap = r.snap /\ q.label = r.label /\ q.backfill = r.backfill
    <3>1. CASE SetSync(s, [r EXCEPT !.pc = "messages", !.todo = @ \ {m}])
      <4> DEFINE d == [r EXCEPT !.pc = "messages", !.todo = @ \ {m}]
      <4>1. /\ d.pc = "messages" /\ d.snap = r.snap /\ d.label = r.label
            /\ d.backfill = r.backfill
        BY <1>0 DEF Runs
      <4>2. SetSync(s, d)
        BY <3>1
      <4> HIDE DEF d
      <4>3. QED
        BY <4>1, <4>2
    <3>2. ASSUME NEW pc \in {"scoped", "save"}, SetSync(s, [r EXCEPT !.pc = pc])
          PROVE  \E q : /\ SetSync(s, q)
                        /\ q.pc \in {"messages", "scoped", "save"}
                        /\ q.snap = r.snap /\ q.label = r.label
                        /\ q.backfill = r.backfill
      <4> DEFINE d == [r EXCEPT !.pc = pc]
      <4>1. /\ d.pc = pc /\ d.snap = r.snap /\ d.label = r.label
            /\ d.backfill = r.backfill
        BY <1>0 DEF Runs
      <4>2. SetSync(s, d)
        BY <3>2
      <4> HIDE DEF d
      <4>3. QED
        BY <4>1, <4>2
    <3>3. QED
      BY <2>2, <3>1, <3>2
  <2>4. sync'[s] = q
    BY <1>1, <2>3
  <2>5. QED
    BY <1>0, <2>1, <2>3, <2>4 DEF AloneInv, Baseline
<1>8. CASE EndBatch(s)
  <2>1. /\ UNCHANGED <<hasState, cursors>> /\ r.pc = "messages"
        /\ SetSync(s, IF Advances(r) THEN [r EXCEPT !.pc = "cursor"] ELSE NextPhase(r))
    BY <1>0, <1>8 DEF EndBatch
  <2>2. r.snap = cursors /\ ~ Baseline(r)
    BY <2>1 DEF AloneInv
  <2>3. CASE Advances(r)
    <3>1. /\ sync'[s].pc = "cursor" /\ sync'[s].snap = r.snap
          /\ sync'[s].label = r.label /\ sync'[s].top = r.top
      BY <1>0, <1>1, <2>1, <2>3 DEF Runs
    <3>2. QED
      BY <1>0, <2>1, <2>2, <2>3, <3>1 DEF AloneInv, Advances
  <2>4. CASE ~ Advances(r)
    <3>1. sync'[s] = NextPhase(r)
      BY <1>1, <2>1, <2>4
    <3>2. NextPhase(r).label = "comment" => hasState
      <4>1. cursors["post"] > 0 => hasState
        BY DEF AloneInv
      <4>2. NextPhase(r).label = "comment" => r.label = "post"
        BY <1>2
      <4>3. cursors[r.label] > 0
        BY <1>0, <2>2 DEF Baseline
      <4>4. QED
        BY <4>1, <4>2, <4>3
    <3>3. QED
      BY <1>0, <1>2, <2>1, <3>1, <3>2 DEF AloneInv
  <2>5. QED
    BY <2>3, <2>4
<1>9. CASE SaveCursor(s)
  <2>1. /\ r.pc = "cursor" /\ hasState' = TRUE /\ cursors' = NewCursors(r)
        /\ sync'[s] = NextPhase(r)
    BY <1>1, <1>9 DEF SaveCursor
  <2>2. r.snap = cursors /\ r.top > cursors[r.label]
    BY <2>1 DEF AloneInv
  <2>3. cursors'[r.label] = r.top
    BY <1>0, <2>1 DEF NewCursors, NoCursors, Runs
  <2>4. r.label = "comment" => cursors'["post"] = cursors["post"] /\ hasState
    BY <1>0, <2>1, <2>2 DEF NewCursors, Runs, AloneInv
  <2>5. cursors'["post"] > 0
    BY <1>0, <2>2, <2>3, <2>4 DEF AloneInv, Labels
  <2>6. ASSUME hasState, NEW l \in Labels PROVE cursors[l] <= cursors'[l]
    <3>1. ~ (r.label = "post" /\ Baseline(r))
      BY <2>2, <2>6 DEF AloneInv, Baseline
    <3>2. cursors' = [cursors EXCEPT ![r.label] = r.top]
      BY <2>1, <2>2, <3>1 DEF NewCursors
    <3>3. QED
      BY <1>0, <2>2, <3>2 DEF TypeOK
  <2>7. QED
    BY <1>2, <2>1, <2>5, <2>6 DEF AloneInv
<1>10. QED
  BY <1>3, <1>4, <1>5, <1>6, <1>7, <1>8, <1>9 DEF SyncStep, Refused

\* With one syncer, no backfill and no purge no cursor of a source ever goes back,
\* wherever syncs stop and whatever Telegram deletes.
THEOREM CursorsAdvanceHolds ==
  ASSUME Backfills = {}, NEW s, Syncers = {s}
  PROVE  SteadySpec => CursorsAdvance
<1>1. Init => AloneInv(s)
  BY DEF Init, AloneInv, Idle, NoCursors, Labels
<1>2. ASSUME TypeOK, TypeOK', AloneInv(s), [SteadyNext]_vars
      PROVE  /\ AloneInv(s)'
             /\ hasState => \A l \in Labels : cursors[l] <= cursors'[l]
  <2>1. CASE BeginRun(s) \/ SyncStep(s) \/ SyncStops(s)
    BY <1>2, <2>1, AloneSyncStep
  <2>2. CASE Environment \/ Commands \/ UNCHANGED vars
    <3>1. UNCHANGED <<hasState, cursors, sync>>
      BY <2>2 DEF Environment, Arrive, Delete, Commands, AddSource, RemoveSource,
         ExcludeSender, HideBySender, RemoveSender, vars
    <3>2. \A l \in Labels : cursors[l] \in Nat
      BY <1>2 DEF TypeOK
    <3>3. QED
      BY <1>2, <3>1, <3>2 DEF AloneInv, Baseline
  <2>3. QED
    BY <1>2, <2>1, <2>2 DEF SteadyNext
<1>3. TypeOK /\ TypeOK' /\ AloneInv(s) /\ [SteadyNext]_vars => AloneInv(s)'
  BY <1>2
<1>4. TypeOK /\ TypeOK' /\ AloneInv(s) /\ [SteadyNext]_vars
        => [hasState /\ hasState' => \A l \in Labels : cursors[l] <= cursors'[l]]_vars
  BY <1>2
<1>5. [SteadyNext]_vars => [Next]_vars
  BY DEF Next
<1>6. QED
  BY <1>1, <1>3, <1>4, <1>5, TypeCorrect, PTL DEF Spec, SteadySpec, CursorsAdvance
===============================================================================
