---------------------------- MODULE SyncFeedProofs ----------------------------
(***************************************************************************)
(* Any number of syncers keep the promise of Feed, as long as no backfill  *)
(* is requested.                                                           *)
(***************************************************************************)
EXTENDS SyncFeed, SourceSyncProofs

(***************************************************************************)
(* What a syncer is about to save was issued by its chat.                  *)
(***************************************************************************)
TodoIssued ==
  \A s \in Syncers : \A m \in sync[s].todo : m.id <= issued[m.label]

\* A batch is taken from what the chats show, and ids are only ever added.
LEMMA TodoIssuedNext ==
  ASSUME TypeOK, TypeOK', Coverage, TodoIssued, [Next]_vars
  PROVE  TodoIssued'
<1>1. \A l \in Labels : issued[l] \in Nat /\ issued'[l] \in Nat /\ issued[l] <= issued'[l]
  <2>1. UNCHANGED issued \/ \E l \in Labels, a \in Senders : Arrive(l, a)
    BY DEF Next, SteadyNext, Environment, Arrive, Delete, Commands, AddSource,
           RemoveSource, ExcludeSender, HideBySender, RemoveSender, PurgeSource,
           BeginRun, Begin, SyncStep, SyncStops, ReadState, CollectLatest, Collect,
           CheckGlobal, CheckSource, CheckScope, SaveMessage, EndBatch, SaveCursor,
           Refused, telegram, vars
  <2>2. \A l \in Labels : issued[l] \in Nat /\ issued'[l] \in Nat
    BY DEF TypeOK
  <2>3. QED
    BY <2>1, <2>2 DEF Arrive, TypeOK
<1>2. ASSUME NEW s \in Syncers PROVE sync'[s].todo \subseteq sync[s].todo \cup remote
  <2>1. CASE UNCHANGED sync
    BY <2>1
  <2>2. ASSUME NEW t \in Syncers, BeginRun(t) \/ SyncStep(t) \/ SyncStops(t)
        PROVE  sync'[s].todo \subseteq sync[s].todo \cup remote
    <3> DEFINE r == sync[t]
    <3>1. \/ sync'[s] = sync[s]
          \/ s = t /\ sync'[s].todo \subseteq r.todo \cup remote
      <4>0. sync \in [Syncers -> Runs] /\ r \in Runs
        BY DEF TypeOK
      <4>1. ASSUME NEW q, SetSync(t, q), q.todo \subseteq r.todo \cup remote
            PROVE  <3>1!1 \/ <3>1!2
        BY <4>0, <4>1 DEF SetSync
      <4>2. /\ Idle.todo = {} /\ NextPhase(r).todo = {}
            /\ \A limit, backfill : Phase("post", limit, backfill).todo = {}
        BY DEF NextPhase, Phase, Idle
      <4>3. CASE BeginRun(t)
        BY <4>1, <4>2, <4>3 DEF BeginRun, Begin
      <4>4. CASE SyncStops(t)
        BY <4>1, <4>2, <4>4 DEF SyncStops
      <4>5. CASE ReadState(t)
        BY <4>0, <4>1, <4>5 DEF ReadState, Runs
      <4>6. CASE CollectLatest(t)
        BY <4>0, <4>1, <4>2, <4>6 DEF CollectLatest, Runs
      <4>7. CASE Collect(t)
        <5>1. \A l, c, n : Newest(After(l, c), n) \subseteq remote
          BY DEF Newest, After
        <5> DEFINE n == IF r.backfill > 0 THEN r.backfill ELSE r.limit
                   batch == Newest(After(r.label, r.snap[r.label]), n)
        <5>2. PICK top, complete :
                SetSync(t, [r EXCEPT !.pc = "messages", !.todo = batch, !.top = top,
                                     !.complete = complete])
          BY <4>7, Zenon DEF Collect
        <5> DEFINE q == [r EXCEPT !.pc = "messages", !.todo = batch, !.top = top,
                                  !.complete = complete]
        <5>3. q.todo \subseteq remote
          BY <4>0, <5>1 DEF Runs
        <5>4. SetSync(t, q)
          BY <5>2
        <5> HIDE DEF q
        <5>5. QED
          BY <4>1, <5>3, <5>4
      <4>8. ASSUME NEW m \in r.todo,
                   CheckGlobal(t, m) \/ CheckSource(t, m) \/ SaveMessage(t, m)
            PROVE  <3>1!1 \/ <3>1!2
        BY <4>0, <4>1, <4>8 DEF CheckGlobal, CheckSource, CheckScope, SaveMessage, Runs
      <4>9. CASE EndBatch(t)
        BY <4>0, <4>1, <4>2, <4>9 DEF EndBatch, Runs
      <4>10. CASE SaveCursor(t)
        BY <4>1, <4>2, <4>10 DEF SaveCursor
      <4>11. QED
        BY <2>2, <4>3, <4>4, <4>5, <4>6, <4>7, <4>8, <4>9, <4>10 DEF SyncStep, Refused
    <3>2. QED
      BY <3>1
  <2>3. QED
    BY <2>1, <2>2 DEF Next, SteadyNext, Environment, Arrive, Delete, Commands, AddSource,
       RemoveSource, ExcludeSender, HideBySender, RemoveSender, PurgeSource, vars
<1>3. ASSUME NEW s \in Syncers, NEW m \in sync'[s].todo PROVE m.id <= issued'[m.label]
  <2>1. m \in Messages /\ m.id \in Nat /\ m.label \in Labels
    BY DEF TypeOK, Runs, Messages
  <2>2. m.id <= issued[m.label]
    BY <1>2 DEF TodoIssued, Coverage
  <2>3. QED
    BY <1>1, <2>1, <2>2
<1>4. QED
  BY <1>3 DEF TodoIssued

(***************************************************************************)
(* The mapping, step by step.                                              *)
(***************************************************************************)
\* What Coverage says of the cursors is what Feed wants of its marks.
LEMMA CoverageIsRead ==
  ASSUME TypeOK', Coverage'
  PROVE  /\ Promise!NothingSkipped'
         /\ cursors' \in [Labels -> Nat]
         /\ \A c \in Labels : cursors'[c] <= issued'[c]
<1>1. \A m \in remote' : m.id \in Nat /\ m.label \in Labels
  BY DEF TypeOK, Messages
<1>2. \A l \in Labels : floor'[l] \in Nat /\ cursors'[l] \in Nat
  BY DEF TypeOK
<1>3. ASSUME NEW c \in Labels, NEW m \in remote', m.label = c, m.id <= cursors'[c]
      PROVE  m.id <= floor'[c] \/ m \in stored' \cup skipped'
  BY <1>1, <1>2, <1>3 DEF Coverage, Covered
<1>4. Promise!NothingSkipped'
  BY <1>3 DEF Promise!NothingSkipped, Promise!Read
<1>5. QED
  BY <1>4 DEF TypeOK, Coverage

\* Storing a message, or skipping it, settles it.
LEMMA SettlesOne ==
  ASSUME TypeOK, TypeOK', TodoIssued, NEW s \in Syncers, NEW m \in sync[s].todo,
         stored' \cup skipped' = stored \cup skipped \cup {m},
         UNCHANGED <<remote, issued, cursors, floor>>
  PROVE  Promise!Settle
<1>1. stored' \cup skipped' \subseteq Messages
  BY DEF TypeOK
<1>2. m.id <= issued[m.label]
  BY DEF TodoIssued
<1>3. QED
  BY <1>1, <1>2 DEF Promise!Settle, Promise!Messages, Messages

\* The statements of a sync.
LEMMA SyncRefines ==
  ASSUME TypeOK, TypeOK', Coverage, Coverage', TodoIssued, NEW s \in Syncers,
         BeginRun(s) \/ SyncStep(s) \/ SyncStops(s)
  PROVE  [Promise!Next]_(Promise!feed)
<1> DEFINE r == sync[s]
<1>1. CASE \/ BeginRun(s) \/ ReadState(s) \/ CollectLatest(s) \/ Collect(s)
           \/ EndBatch(s) \/ SyncStops(s)
  <2>1. UNCHANGED <<remote, issued, cursors, floor, stored, skipped>>
    BY <1>1 DEF BeginRun, Begin, ReadState, CollectLatest, Collect, EndBatch,
                SyncStops, telegram
  <2>2. QED
    BY <2>1 DEF Promise!feed
<1>2. ASSUME NEW m \in r.todo, CheckGlobal(s, m) \/ CheckSource(s, m)
      PROVE  [Promise!Next]_(Promise!feed)
  <2>1. /\ UNCHANGED <<remote, issued, cursors, floor, stored>>
        /\ skipped' = skipped \/ skipped' = skipped \cup {m}
    BY <1>2 DEF CheckGlobal, CheckSource, CheckScope, telegram
  <2>2. CASE skipped' = skipped
    BY <2>1, <2>2 DEF Promise!feed
  <2>3. CASE skipped' = skipped \cup {m}
    <3>1. stored' \cup skipped' = stored \cup skipped \cup {m}
      BY <2>1, <2>3
    <3>2. QED
      BY <2>1, <3>1, SettlesOne DEF Promise!Next
  <2>4. QED
    BY <2>1, <2>2, <2>3
<1>3. ASSUME NEW m \in r.todo, SaveMessage(s, m)
      PROVE  [Promise!Next]_(Promise!feed)
  <2>1. UNCHANGED <<remote, issued, cursors, floor, skipped>>
    BY <1>3 DEF SaveMessage, telegram
  <2>2. stored' \cup skipped' = stored \cup skipped \cup {m}
    BY <1>3, <2>1 DEF SaveMessage
  <2>3. QED
    BY <2>1, <2>2, SettlesOne DEF Promise!Next
<1>4. CASE SaveCursor(s)
  <2> DEFINE l == r.label
  <2>1. /\ UNCHANGED <<remote, issued, stored, skipped>>
        /\ cursors' = NewCursors(r)
        /\ floor' = IF FirstSync(r) THEN [floor EXCEPT ![l] = MaxOf(@, r.top)] ELSE floor
    BY <1>4 DEF SaveCursor, telegram
  <2>2. l \in Labels /\ r \in Runs /\ r.top \in Nat /\ floor \in [Labels -> Nat]
    BY DEF TypeOK, Runs
  <2>3. cursors'[l] = r.top
    BY <2>1, <2>2 DEF NewCursors, NoCursors, Runs
  <2>4. floor' = floor \/ floor' = [floor EXCEPT ![l] = cursors'[l]]
    BY <2>1, <2>2, <2>3 DEF MaxOf
  <2>5. \A c \in Labels : floor[c] <= floor'[c]
    BY <2>1, <2>2 DEF MaxOf
  <2>6. Promise!Move
    BY <2>1, <2>2, <2>4, <2>5, CoverageIsRead DEF Promise!Move
  <2>7. QED
    BY <2>6 DEF Promise!Next
<1>5. QED
  BY <1>1, <1>2, <1>3, <1>4 DEF SyncStep, Refused

\* Telegram, the commands and the purge.
LEMMA OthersRefine ==
  ASSUME TypeOK, Environment \/ Commands \/ PurgeSource
  PROVE  [Promise!Next]_(Promise!feed)
<1>1. ASSUME NEW l \in Labels, NEW a \in Senders, Arrive(l, a)
      PROVE  Promise!Appear(l, a)
  BY <1>1 DEF Arrive, Promise!Appear
<1>2. ASSUME NEW m \in remote, Delete(m) PROVE Promise!Disappear(m)
  BY <1>2 DEF Delete, Promise!Disappear
<1>3. CASE Environment
  BY <1>1, <1>2, <1>3 DEF Environment, Promise!Next
<1>4. CASE Commands
  BY <1>4 DEF Commands, AddSource, RemoveSource, ExcludeSender, HideBySender,
              RemoveSender, telegram, Promise!feed
<1>5. CASE PurgeSource
  <2>1. /\ UNCHANGED <<remote, issued>> /\ floor' = issued
        /\ cursors' = NoCursors /\ stored' \cup skipped' \subseteq stored \cup skipped
    BY <1>5 DEF PurgeSource, telegram
  <2>2. Promise!Forget
    BY <2>1 DEF Promise!Forget, Promise!Nothing, NoCursors
  <2>3. QED
    BY <2>2 DEF Promise!Next
<1>6. QED
  BY <1>3, <1>4, <1>5

\* Without backfills any number of syncers, with purges, stops and stale writes of
\* the state row, implement Feed: their cursors move only over messages that were
\* stored, skipped as excluded, or given up.
THEOREM SyncKeepsPromise ==
  ASSUME Backfills = {}
  PROVE  Spec => KeepsPromise
<1>1. Init => Promise!Init
  BY DEF Init, Promise!Init, Promise!Nothing, NoCursors
<1>2. Init => TodoIssued
  BY DEF Init, TodoIssued, Idle
<1>3. /\ TypeOK /\ TypeOK' /\ Coverage /\ TodoIssued /\ [Next]_vars => TodoIssued'
  BY TodoIssuedNext
<1>4. ASSUME TypeOK, TypeOK', Coverage, Coverage', TodoIssued, [Next]_vars
      PROVE  [Promise!Next]_(Promise!feed)
  <2>1. CASE Next
    BY <1>4, <2>1, SyncRefines, OthersRefine DEF Next, SteadyNext
  <2>2. CASE UNCHANGED vars
    BY <2>2 DEF vars, Promise!feed
  <2>3. QED
    BY <1>4, <2>1, <2>2
<1>5. Spec => []TypeOK /\ []Coverage
  BY TypeCorrect, CoverageHolds
<1>6. QED
  BY <1>1, <1>2, <1>3, <1>4, <1>5, PTL DEF Spec, KeepsPromise, Promise!Spec
===============================================================================
