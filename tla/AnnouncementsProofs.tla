------------------------- MODULE AnnouncementsProofs -------------------------
(***************************************************************************)
(* How news can be lost, for any number of syncers beside the watcher, as  *)
(* long as no backfill is requested: in the two ways NewsIsAnnounced names *)
(* and in no other.                                                        *)
(***************************************************************************)
EXTENDS Announcements, SyncFeedProofs

Excused(m) == m \notin remote \/ m \in skipped \/ m.id <= floor[m.label]

\* Another syncer or a failed run has to answer for it.
Lapsed(m) == m \in overtaken \cup slipped

\* What is owed is counted in the result, or lies beyond the cursors and is read
\* again, or was taken from the watcher, or is excused: the batch under way is never
\* all that keeps it.
CursorNews ==
  \A m \in owed : m \in counted \/ m.id > cursors[m.label] \/ Lapsed(m) \/ Excused(m)

\* The same for the cursors the watcher has read and may write back.
ReadNews(r) ==
  \A m \in owed : m \in counted \/ m.id > r.snap[m.label] \/ Lapsed(m) \/ Excused(m)

\* A batch that reached the cursor uncut accounts for what is owed up to its top.
BatchNews(r) ==
  r.complete =>
    \A m \in owed : m.label = r.label /\ r.snap[r.label] < m.id /\ m.id <= r.top
      => m \in r.todo \cup batch \cup counted \/ Lapsed(m) \/ Excused(m)

\* A count is under way or in the result, unless an error took it.
CountKnown == owed \subseteq batch \cup counted \cup dropped \cup slipped

\* Between two phases nothing is under way.
BatchPut(r) == r.pc \in {"idle", "state", "collect"} => batch = {}

NewsTyped ==
  /\ owed \subseteq Messages /\ owed \subseteq remote
  /\ \A m \in owed : m.id <= issued[m.label]
  /\ ~ passing => counted = {} /\ sync[Watcher].pc = "idle"

NewsInv ==
  /\ TodoIssued
  /\ NewsTyped
  /\ CountKnown
  /\ BatchPut(sync[Watcher])
  /\ CursorNews
  /\ ReadNews(sync[Watcher])
  /\ BatchNews(sync[Watcher])

\* The watcher and the others take steps of SourceSync, and nobody purges.
LEMMA AnnImplements == [AnnNext]_annVars => [SteadyNext]_vars
<1> SUFFICES ASSUME [AnnNext]_annVars PROVE [SteadyNext]_vars
  OBVIOUS
<1>0. Watcher \in Syncers
  BY WatcherAssumption
<1>1. CASE BeginPass
  BY <1>0, <1>1 DEF BeginPass, BeginRun, SteadyNext
<1>2. ASSUME NEW m \in sync[Watcher].todo, CountSaved(m) PROVE [SteadyNext]_vars
  BY <1>0, <1>2 DEF CountSaved, SyncStep, SteadyNext
<1>3. CASE EndPhase
  BY <1>0, <1>3 DEF EndPhase, SyncStep, SteadyNext
<1>4. CASE OtherStep
  BY <1>0, <1>4 DEF OtherStep, SyncStep, SteadyNext
<1>5. CASE SourceFails \/ RunFails \/ Summarize
  BY <1>0, <1>5 DEF SourceFails, RunFails, Summarize, SteadyNext
<1>6. ASSUME NEW s \in Syncers \ {Watcher}, ManualStep(s) PROVE [SteadyNext]_vars
  BY <1>6 DEF ManualStep, SteadyNext
<1>7. CASE (\E m \in remote : Withdrawn(m)) \/ (\E l \in Labels, a \in Senders : Arrive(l, a))
           \/ Commands
  BY <1>7 DEF Withdrawn, Environment, SteadyNext
<1>8. CASE UNCHANGED annVars
  BY <1>8 DEF annVars, vars
<1>9. QED
  BY <1>1, <1>2, <1>3, <1>4, <1>5, <1>6, <1>7, <1>8 DEF AnnNext

\* Ids are only added, a floor only rises, and what was skipped stays so.
LEMMA ExcuseStays ==
  ASSUME TypeOK, [SteadyNext]_vars
  PROVE  /\ \A l \in Labels : issued[l] <= issued'[l]
         /\ \A m \in Messages : m.id <= issued[m.label] /\ Excused(m) => Excused(m)'
<1> DEFINE Goal == /\ \A l \in Labels : issued[l] <= issued'[l]
                   /\ \A m \in Messages :
                        m.id <= issued[m.label] /\ Excused(m) => Excused(m)'
<1>0. issued \in [Labels -> Nat] /\ floor \in [Labels -> Nat]
  BY DEF TypeOK
<1>1. ASSUME UNCHANGED issued, remote' \subseteq remote, skipped \subseteq skipped',
             \A l \in Labels : floor[l] <= floor'[l], floor' \in [Labels -> Nat]
      PROVE  Goal
  BY <1>0, <1>1 DEF Excused, Messages
<1>2. ASSUME NEW l \in Labels, NEW a \in Senders, Arrive(l, a) PROVE Goal
  <2>1. \A k \in Labels : issued[k] <= issued'[k]
    BY <1>0, <1>2 DEF Arrive
  <2>2. ASSUME NEW m \in Messages, m.id <= issued[m.label], m \notin remote
        PROVE  m \notin remote'
    BY <1>0, <1>2, <2>2 DEF Arrive, Messages
  <2>3. QED
    BY <1>2, <2>1, <2>2 DEF Arrive, Excused
<1>3. ASSUME NEW m \in remote, Delete(m) PROVE Goal
  BY <1>0, <1>1, <1>3 DEF Delete
<1>4. CASE Commands
  BY <1>0, <1>1, <1>4 DEF Commands, AddSource, RemoveSource, ExcludeSender, HideBySender,
                          RemoveSender, telegram
<1>5. ASSUME NEW s \in Syncers, SaveCursor(s) PROVE Goal
  <2>1. sync[s].top \in Nat /\ sync[s].label \in Labels
    BY DEF TypeOK, Runs
  <2>2. floor' \in [Labels -> Nat] /\ \A l \in Labels : floor[l] <= floor'[l]
    BY <1>0, <1>5, <2>1 DEF SaveCursor, MaxOf
  <2>3. QED
    BY <1>1, <1>5, <2>2 DEF SaveCursor, telegram
<1>6. ASSUME NEW s \in Syncers, BeginRun(s) \/ SyncStep(s) \/ SyncStops(s) PROVE Goal
  <2>1. ASSUME UNCHANGED <<telegram, floor>>, skipped \subseteq skipped' PROVE Goal
    BY <1>0, <1>1, <2>1 DEF telegram
  <2>2. CASE BeginRun(s) \/ ReadState(s) \/ CollectLatest(s) \/ EndBatch(s)
    BY <2>1, <2>2 DEF BeginRun, Begin, ReadState, CollectLatest, EndBatch
  <2>3. CASE Collect(s) \/ SyncStops(s) \/ Refused(s)
    BY <2>1, <2>3 DEF Collect, SyncStops, Refused
  <2>4. ASSUME NEW m \in sync[s].todo,
               CheckGlobal(s, m) \/ CheckSource(s, m) \/ SaveMessage(s, m)
        PROVE  Goal
    BY <2>1, <2>4 DEF CheckGlobal, CheckSource, CheckScope, SaveMessage
  <2>5. QED
    BY <1>5, <1>6, <2>2, <2>3, <2>4 DEF SyncStep
<1>7. CASE UNCHANGED vars
  BY <1>0, <1>1, <1>7 DEF vars
<1>8. QED
  BY <1>2, <1>3, <1>4, <1>6, <1>7 DEF SteadyNext, Environment

\* A step in which nothing new is owed and no count is lost keeps the typing.
LEMMA TypedStays ==
  ASSUME TypeOK, TypeOK', [SteadyNext]_vars, NewsTyped, owed' \subseteq owed
  PROVE  owed' \subseteq Messages /\ \A m \in owed' : m.id <= issued'[m.label]
<1>1. \A m \in owed : m \in Messages /\ m.id <= issued[m.label]
  BY DEF NewsTyped
<1>2. \A m \in Messages : m.label \in Labels /\ m.id \in Nat
  BY DEF Messages
<1>3. \A l \in Labels : issued[l] \in Nat /\ issued'[l] \in Nat
  BY DEF TypeOK
<1>4. QED
  BY <1>1, <1>2, <1>3, ExcuseStays

\* Steps of the others: what they pass with a cursor is marked as overtaken.
LEMMA OthersKeepNews ==
  ASSUME TypeOK, TypeOK', [SteadyNext]_vars, NewsInv, TodoIssued',
         owed' \subseteq owed \cap remote', UNCHANGED <<passing, batch, counted>>,
         \A m \in owed' : (Lapsed(m) => Lapsed(m)') /\ (m \in dropped => m \in dropped')
                          /\ (m \in slipped => m \in slipped'),
         \A m \in owed' : m.id > cursors[m.label]
           => m \in counted \/ m.id > cursors'[m.label] \/ Lapsed(m)',
         sync'[Watcher] = sync[Watcher]
  PROVE  NewsInv'
<1>1. \A m \in owed : Excused(m) => Excused(m)'
  BY ExcuseStays DEF NewsInv, NewsTyped
<1>2. NewsTyped'
  BY TypedStays DEF NewsInv, NewsTyped
<1>3. CursorNews'
  BY <1>1 DEF NewsInv, CursorNews
<1>4. ReadNews(sync[Watcher])'
  BY <1>1 DEF NewsInv, ReadNews
<1>5. BatchNews(sync[Watcher])'
  BY <1>1 DEF NewsInv, BatchNews
<1>6. CountKnown' /\ BatchPut(sync[Watcher])'
  BY DEF NewsInv, CountKnown, BatchPut
<1>. QED
  BY <1>2, <1>3, <1>4, <1>5, <1>6 DEF NewsInv

(***************************************************************************)
(* Steps of the watcher.                                                   *)
(***************************************************************************)
\* A run at the start of a phase has read no cursor and collected nothing.
Blank(q) == q.snap = NoCursors /\ q.complete = FALSE

\* So are an idle run and the start of every phase.
LEMMA PhasesAreBlank ==
  /\ Blank(Idle)
  /\ \A label, limit, backfill : Blank(Phase(label, limit, backfill))
  /\ \A r : Blank(NextPhase(r))
BY DEF Blank, Idle, Phase, NextPhase

\* Where a phase begins, only the row has to be looked at.
LEMMA BlankKeepsNews ==
  ASSUME NewsTyped', TodoIssued', CursorNews', CountKnown', BatchPut(sync[Watcher])',
         Blank(sync'[Watcher])
  PROVE  NewsInv'
<1>1. \A m \in owed' : m.label \in Labels /\ m.id > 0
  BY DEF NewsTyped, Messages
<1>2. ReadNews(sync[Watcher])'
  BY <1>1 DEF Blank, ReadNews, NoCursors
<1>3. BatchNews(sync[Watcher])'
  BY DEF Blank, BatchNews
<1>4. QED
  BY <1>2, <1>3 DEF NewsInv

\* What a step sets is where the watcher stands next.
LEMMA WatcherSets ==
  ASSUME TypeOK, NEW q, SetSync(Watcher, q)
  PROVE  sync'[Watcher] = q
BY WatcherAssumption DEF TypeOK, SetSync

\* The pass begins or ends; the sync ends before its time.
LEMMA PassKeepsNews ==
  ASSUME TypeOK, TypeOK', [SteadyNext]_vars, NewsInv, TodoIssued',
         BeginPass \/ SourceFails \/ RunFails \/ Summarize
  PROVE  NewsInv'
<1>1. \A m \in owed : Excused(m) => Excused(m)'
  BY ExcuseStays DEF NewsInv, NewsTyped
<1>2. UNCHANGED cursors
  BY DEF BeginPass, Begin, SourceFails, RunFails, SyncStops, Summarize, vars
<1>3. /\ owed' \subseteq owed /\ UNCHANGED remote
      /\ \A m \in owed' : (m \in counted => m \in counted' \/ m \in slipped' \/ ~ passing)
                          /\ (Lapsed(m) => Lapsed(m)')
  BY DEF BeginPass, Begin, SourceFails, RunFails, SyncStops, Summarize, vars, telegram, past,
         Lapsed
<1>4. NewsTyped'
  <2>1. ~ passing' => counted' = {} /\ sync'[Watcher].pc = "idle"
    BY WatcherSets
       DEF BeginPass, SourceFails, RunFails, Summarize, SyncStops, Idle, vars, NewsInv,
           NewsTyped
  <2>2. QED
    BY <1>3, <2>1, TypedStays DEF NewsInv, NewsTyped
<1>5. CursorNews'
  BY <1>1, <1>2, <1>3 DEF NewsInv, NewsTyped, CursorNews, Lapsed
<1>6. Blank(sync'[Watcher])
  <2>1. CASE BeginPass
    BY <2>1, WatcherSets, PhasesAreBlank DEF BeginPass, Begin
  <2>2. CASE SyncStops(Watcher)
    BY <2>2, WatcherSets, PhasesAreBlank DEF SyncStops
  <2>3. CASE sync[Watcher] = Idle /\ UNCHANGED vars
    BY <2>3, PhasesAreBlank DEF vars
  <2>4. QED
    BY <2>1, <2>2, <2>3 DEF SourceFails, RunFails, Summarize
<1>7. batch' = {}
  BY DEF BeginPass, SourceFails, RunFails, Summarize, NewsInv, BatchPut, Idle
<1>8. CountKnown'
  <2>1. BeginPass => batch = {} /\ counted = {}
    BY DEF BeginPass, NewsInv, NewsTyped, BatchPut
  <2>2. QED
    BY <1>7, <2>1 DEF BeginPass, SourceFails, RunFails, Summarize, past, NewsInv, CountKnown
<1>9. QED
  BY <1>4, <1>5, <1>6, <1>7, <1>8, BlankKeepsNews DEF BatchPut

\* A message is saved and counted.  If it was not stored before, no cursor has
\* passed it, unless it was excused.
LEMMA CountKeepsNews ==
  ASSUME TypeOK, TypeOK', [SteadyNext]_vars, Coverage, NewsInv, TodoIssued',
         NEW m \in sync[Watcher].todo, CountSaved(m)
  PROVE  NewsInv'
<1> DEFINE r == sync[Watcher]
           q == [r EXCEPT !.pc = "messages", !.todo = @ \ {m}]
<1>0. /\ Watcher \in Syncers /\ r \in Runs /\ m \in Messages
      /\ m.label \in Labels /\ m.id \in Nat
  BY WatcherAssumption DEF TypeOK, Runs, Messages
<1>1. \A n \in owed : Excused(n) => Excused(n)'
  BY ExcuseStays DEF NewsInv, NewsTyped
<1>2. /\ UNCHANGED <<remote, issued, cursors, floor, skipped, passing, counted>>
      /\ owed' \subseteq (owed \cup {m}) \cap (owed \cup remote)
      /\ (m \in owed' => m \in owed \/ m \notin stored)
      /\ batch' = batch \cup {m} /\ dropped' = dropped \ {m}
      /\ \A n : Lapsed(n)' <=> Lapsed(n)
      /\ UNCHANGED slipped
  BY DEF CountSaved, SaveMessage, telegram, Lapsed
<1>3. sync'[Watcher] = q
  BY WatcherSets DEF CountSaved, SaveMessage
<1>4. q.snap = r.snap /\ q.label = r.label /\ q.top = r.top /\ q.complete = r.complete
      /\ q.todo = r.todo \ {m}
  BY <1>0 DEF Runs
<1> HIDE DEF q
<1>5. m.id <= issued[m.label]
  BY <1>0 DEF NewsInv, TodoIssued
<1>6. NewsTyped'
  <2>1. passing'
    BY <1>2 DEF NewsInv, NewsTyped, CountSaved, SaveMessage
  <2>2. QED
    BY <1>0, <1>2, <1>5, <2>1 DEF NewsInv, NewsTyped
<1>7. ASSUME NEW c \in [Labels -> Nat], \A l \in Labels : Covered(l, c[l]), m \notin stored
      PROVE  m.id > c[m.label] \/ Excused(m)
  BY <1>0, <1>7 DEF Covered, Excused, TypeOK
<1>8. CursorNews'
  <2>1. cursors \in [Labels -> Nat] /\ \A l \in Labels : Covered(l, cursors[l])
    BY DEF TypeOK, Coverage
  <2>2. m \notin stored => m.id > cursors[m.label] \/ Excused(m)
    BY <1>7, <2>1
  <2>3. Excused(m) => Excused(m)'
    BY <1>2 DEF Excused
  <2>4. QED
    BY <1>1, <1>2, <2>2, <2>3 DEF NewsInv, CursorNews
<1>9. ReadNews(sync[Watcher])'
  <2>1. r.snap \in [Labels -> Nat] /\ \A l \in Labels : Covered(l, r.snap[l])
    BY <1>0 DEF Runs, Coverage, RunCovered
  <2>2. m \notin stored => m.id > r.snap[m.label] \/ Excused(m)
    BY <1>7, <2>1
  <2>3. Excused(m) => Excused(m)'
    BY <1>2 DEF Excused
  <2>4. QED
    BY <1>1, <1>2, <1>3, <1>4, <2>2, <2>3 DEF NewsInv, ReadNews
<1>10. BatchNews(sync[Watcher])'
  BY <1>1, <1>2, <1>3, <1>4 DEF NewsInv, BatchNews
<1>11. CountKnown'
  BY <1>2 DEF NewsInv, CountKnown
<1>12. BatchPut(sync[Watcher])'
  BY <1>0, <1>3 DEF BatchPut, Runs, q
<1>13. QED
  BY <1>6, <1>8, <1>9, <1>10, <1>11, <1>12 DEF NewsInv

\* The watcher reads the cursors, collects a batch, or skips an excluded message.
LEMMA ReadingKeepsNews ==
  ASSUME TypeOK, TypeOK', [SteadyNext]_vars, Coverage, NewsInv, TodoIssued', OtherStep
  PROVE  NewsInv'
<1> DEFINE r == sync[Watcher]
<1>0. Watcher \in Syncers /\ r \in Runs /\ r.label \in Labels
  BY WatcherAssumption DEF TypeOK, Runs
<1>1. \A n \in owed : Excused(n) => Excused(n)'
  BY ExcuseStays DEF NewsInv, NewsTyped
<1>2. /\ UNCHANGED <<cursors, remote, floor, passing, batch, counted, owed, dropped, slipped>>
      /\ \A n : Lapsed(n)' <=> Lapsed(n)
  BY DEF OtherStep, news, past, ReadState, CollectLatest, Collect, CheckGlobal, CheckSource,
         CheckScope, telegram, Lapsed
<1>3. NewsTyped' /\ CursorNews' /\ CountKnown' /\ BatchPut(sync[Watcher])'
  <2>1. passing'
    BY <1>2 DEF NewsInv, NewsTyped, OtherStep, ReadState, CollectLatest, Collect,
                CheckGlobal, CheckSource, CheckScope
  <2>2. NewsTyped'
    BY <1>2, <2>1, TypedStays DEF NewsInv, NewsTyped
  <2>3. CursorNews'
    BY <1>1, <1>2 DEF NewsInv, CursorNews
  <2>4. CountKnown'
    BY <1>2 DEF NewsInv, CountKnown
  <2>5. r.pc \in {"state", "collect"} \/ ~ (sync'[Watcher].pc \in {"idle", "state", "collect"})
    BY <1>0, WatcherSets
       DEF OtherStep, ReadState, CollectLatest, Collect, CheckGlobal, CheckSource,
           CheckScope, Runs
  <2>6. BatchPut(sync[Watcher])'
    BY <1>2, <2>5 DEF NewsInv, BatchPut
  <2>. QED
    BY <2>2, <2>3, <2>4, <2>6
<1>4. ASSUME NEW q, SetSync(Watcher, q), q.snap = r.snap, ~ q.complete
      PROVE  NewsInv'
  <2>1. sync'[Watcher] = q
    BY <1>4, WatcherSets
  <2>2. ReadNews(sync[Watcher])'
    BY <1>1, <1>2, <1>4, <2>1 DEF NewsInv, ReadNews
  <2>3. BatchNews(sync[Watcher])'
    BY <1>4, <2>1 DEF BatchNews
  <2>4. QED
    BY <1>3, <2>2, <2>3 DEF NewsInv
<1>5. r.pc \in {"state", "collect"} => ~ r.complete
  BY <1>0 DEF Coverage, RunCovered
<1>6. CASE ReadState(Watcher)
  <2>1. sync'[Watcher].snap = cursors /\ ~ sync'[Watcher].complete
    BY <1>0, <1>5, <1>6, WatcherSets DEF ReadState, Runs
  <2>2. ReadNews(sync[Watcher])'
    BY <1>1, <1>2, <2>1 DEF NewsInv, CursorNews, ReadNews
  <2>3. BatchNews(sync[Watcher])'
    BY <2>1 DEF BatchNews
  <2>4. QED
    BY <1>3, <2>2, <2>3 DEF NewsInv
<1>7. CASE CollectLatest(Watcher)
  <2>1. PICK latest \in 0 .. issued[r.label] :
          SetSync(Watcher, IF latest = 0 THEN Idle
                           ELSE [r EXCEPT !.pc = "cursor", !.top = latest])
    BY <1>7 DEF CollectLatest
  <2>2. CASE latest = 0
    <3>1. Blank(sync'[Watcher])
      BY <2>1, <2>2, WatcherSets, PhasesAreBlank
    <3>2. QED
      BY <1>3, <3>1, BlankKeepsNews
  <2>3. CASE latest # 0
    <3> DEFINE q == [r EXCEPT !.pc = "cursor", !.top = latest]
    <3>1. SetSync(Watcher, q)
      BY <2>1, <2>3
    <3>2. q.snap = r.snap /\ ~ q.complete
      BY <1>0, <1>5, <1>7 DEF Runs, CollectLatest
    <3> HIDE DEF q
    <3>3. QED
      BY <1>4, <3>1, <3>2
  <2>4. QED
    BY <2>2, <2>3
<1>8. CASE Collect(Watcher)
  <2> DEFINE n == IF r.backfill > 0 THEN r.backfill ELSE r.limit
             all == After(r.label, r.snap[r.label])
             chosen == Newest(all, n)
             uncut == /\ ReachedState(r.label, r.snap[r.label], n)
                      /\ ~ Truncated(r.label, r.snap[r.label], n)
  <2>1. PICK top \in 0 .. issued[r.label] :
          SetSync(Watcher, [r EXCEPT !.pc = "messages", !.todo = chosen, !.top = top,
                                     !.complete = uncut])
    BY <1>8, Zenon DEF Collect
  <2> DEFINE q == [r EXCEPT !.pc = "messages", !.todo = chosen, !.top = top,
                            !.complete = uncut]
  <2>2. /\ q.snap = r.snap /\ q.label = r.label /\ q.todo = chosen
        /\ q.complete = uncut
    BY <1>0 DEF Runs
  <2>3. uncut => chosen = all
    <3>1. n \in Nat /\ r.snap[r.label] \in Nat
      <4>1. r.limit \in Nat
        BY <1>0, LimitsAreNaturals
      <4>2. r.backfill \in Backfills \cup {0} /\ r.snap \in [Labels -> Nat]
        BY <1>0 DEF Runs
      <4>3. r.backfill \in Nat
        <5>1. \A b \in Backfills \cup {0} : b \in Nat
          BY BackfillsAssumption DEF BackfillsAssumption
        <5>2. QED
          BY <4>2, <5>1, Zenon
      <4>4. QED
        BY <1>0, <4>1, <4>2, <4>3
    <3>2. QED
      BY <1>0, <3>1, UncutBatch DEF TypeOK
  <2>4. sync'[Watcher] = q
    BY <2>1, WatcherSets
  <2> HIDE DEF q, n, uncut
  <2>5. ReadNews(sync[Watcher])'
    BY <1>1, <1>2, <2>2, <2>4 DEF NewsInv, ReadNews
  <2>6. ASSUME NEW m \in owed, q.complete, m.label = r.label, r.snap[r.label] < m.id
        PROVE  m \in q.todo \/ Excused(m)
    <3>1. m \in remote => m \in all
      BY <2>6 DEF After
    <3>2. QED
      BY <2>2, <2>3, <2>6, <3>1 DEF Excused
  <2>7. BatchNews(sync[Watcher])'
    BY <1>1, <1>2, <2>2, <2>4, <2>6 DEF BatchNews
  <2>8. QED
    BY <1>3, <2>5, <2>7 DEF NewsInv
<1>9. ASSUME NEW m \in r.todo, CheckGlobal(Watcher, m) \/ CheckSource(Watcher, m)
      PROVE  NewsInv'
  <2>1. /\ sync'[Watcher].snap = r.snap /\ sync'[Watcher].label = r.label
        /\ sync'[Watcher].top = r.top /\ sync'[Watcher].complete = r.complete
        /\ \/ sync'[Watcher].todo = r.todo
           \/ sync'[Watcher].todo = r.todo \ {m} /\ m \in skipped'
    BY <1>0, <1>9, WatcherSets DEF CheckGlobal, CheckSource, CheckScope, Runs
  <2>2. ReadNews(sync[Watcher])'
    BY <1>1, <1>2, <2>1 DEF NewsInv, ReadNews
  <2>3. BatchNews(sync[Watcher])'
    BY <1>1, <1>2, <2>1 DEF NewsInv, BatchNews, Excused
  <2>4. QED
    BY <1>3, <2>2, <2>3 DEF NewsInv
<1>10. QED
  BY <1>6, <1>7, <1>8, <1>9 DEF OtherStep

\* The batch ends, and with it the phase, or the cursor is written: what is owed up
\* to the top has been counted by then, or a baseline gives it up.
LEMMA EndKeepsNews ==
  ASSUME Backfills = {},
         TypeOK, TypeOK', [SteadyNext]_vars, Coverage, NewsInv, TodoIssued', EndPhase
  PROVE  NewsInv'
<1> DEFINE r == sync[Watcher]
<1>0. Watcher \in Syncers /\ r \in Runs /\ r.label \in Labels
  BY WatcherAssumption DEF TypeOK, Runs
<1>1. \A n \in owed : Excused(n) => Excused(n)'
  BY ExcuseStays DEF NewsInv, NewsTyped
<1>2. /\ UNCHANGED <<passing, owed, dropped, remote>>
      /\ counted \subseteq counted' /\ batch \cup counted \subseteq batch' \cup counted'
      /\ Counts(sync'[Watcher]) => batch \subseteq counted' /\ batch' = {}
      /\ \A n : (n \in slipped => n \in slipped' \cup counted')
               /\ (Lapsed(n) => Lapsed(n)' \/ n \in counted')
  BY DEF EndPhase, EndBatch, SaveCursor, telegram, Lapsed
<1>3. NewsTyped'
  <2>1. passing'
    BY <1>2 DEF NewsInv, NewsTyped, EndPhase, EndBatch, SaveCursor
  <2>2. QED
    BY <1>2, <2>1, TypedStays DEF NewsInv, NewsTyped
<1>4. CountKnown'
  BY <1>2 DEF NewsInv, CountKnown
<1>5. BatchPut(sync[Watcher])'
  <2>1. r.backfill = 0
    BY <1>0 DEF Runs
  <2>2. CASE sync'[Watcher] = NextPhase(r)
    BY <1>0, <1>2, <2>2 DEF Counts, BatchPut, NextPhase, Phase, Idle, Labels
  <2>3. CASE sync'[Watcher] = [r EXCEPT !.pc = "cursor"]
    BY <1>0, <2>3 DEF BatchPut, Runs
  <2>. QED
    BY <2>1, <2>2, <2>3, WatcherSets DEF EndPhase, EndBatch, SaveCursor
<1>6. CASE EndBatch(Watcher)
  <2>1. UNCHANGED cursors
    BY <1>6 DEF EndBatch
  <2>2. CursorNews'
    BY <1>1, <1>2, <2>1 DEF NewsInv, CursorNews
  <2>3. \/ Blank(sync'[Watcher])
        \/ /\ sync'[Watcher].snap = r.snap /\ sync'[Watcher].label = r.label
           /\ sync'[Watcher].top = r.top /\ sync'[Watcher].complete = r.complete
           /\ sync'[Watcher].todo = r.todo
    <3>1. \/ SetSync(Watcher, NextPhase(r))
          \/ SetSync(Watcher, [r EXCEPT !.pc = "state"])
          \/ SetSync(Watcher, [r EXCEPT !.pc = "cursor"])
      BY <1>6, Zenon DEF EndBatch
    <3>2. QED
      BY <1>0, <3>1, WatcherSets, PhasesAreBlank DEF Runs
  <2>4. CASE ~ Blank(sync'[Watcher])
    <3>1. ReadNews(sync[Watcher])'
      BY <1>1, <1>2, <2>3, <2>4 DEF NewsInv, ReadNews
    <3>2. BatchNews(sync[Watcher])'
      BY <1>1, <1>2, <2>3, <2>4 DEF NewsInv, BatchNews
    <3>3. QED
      BY <1>3, <1>4, <1>5, <2>2, <3>1, <3>2 DEF NewsInv
  <2>5. QED
    BY <1>3, <1>4, <1>5, <2>2, <2>4, BlankKeepsNews
<1>7. CASE SaveCursor(Watcher)
  <2>1. cursors' = NewCursors(r) /\ sync'[Watcher] = NextPhase(r)
    BY <1>7, WatcherSets DEF SaveCursor
  <2>2. batch \cup counted \subseteq counted'
    BY <1>0, <1>2, <2>1 DEF Counts, NextPhase, Idle, Labels
  <2>3. ASSUME NEW m \in owed
        PROVE  m \in counted' \/ m.id > cursors'[m.label] \/ Lapsed(m)' \/ Excused(m)'
    <3>0. m \in Messages /\ m.label \in Labels /\ m.id \in Nat \ {0}
      BY DEF NewsInv, NewsTyped, Messages
    <3>1. CASE m.id <= r.snap[m.label]
      <4>1. r.snap[m.label] \in Nat
        BY <1>0, <3>0 DEF Runs
      <4>2. m \in counted \/ Lapsed(m) \/ Excused(m)
        BY <2>3, <3>0, <3>1, <4>1 DEF NewsInv, ReadNews
      <4>3. QED
        BY <1>1, <1>2, <2>2, <2>3, <4>2
    <3>2. CASE m.label = r.label /\ ~ FirstSync(r)
      <4>1. r.complete /\ r.todo = {}
        BY <1>0, <1>7, <3>2 DEF Coverage, RunCovered, SaveCursor, Baseline, FirstSync
      <4>2. cursors'[m.label] = r.top
        BY <1>0, <2>1, <3>0, <3>2 DEF NewCursors, Baseline, FirstSync, Runs
      <4>3. CASE m.id > r.top
        BY <4>2, <4>3
      <4>4. CASE r.snap[r.label] < m.id /\ m.id <= r.top
        BY <1>1, <1>2, <2>2, <3>2, <4>1, <4>4 DEF NewsInv, BatchNews
      <4>5. r.top \in Nat /\ r.snap[r.label] \in Nat
        BY <1>0 DEF Runs
      <4>6. QED
        BY <3>0, <3>1, <3>2, <4>3, <4>4, <4>5
    <3>3. CASE m.label = r.label /\ FirstSync(r)
      <4>1. cursors'[m.label] = r.top
        BY <1>0, <2>1, <3>0, <3>3 DEF NewCursors, NoCursors, Runs
      <4>2. floor'[m.label] >= r.top
        BY <1>0, <1>7, <3>0, <3>3 DEF SaveCursor, MaxOf, TypeOK, Runs
      <4>3. r.top \in Nat /\ floor'[m.label] \in Nat
        BY <1>0, <3>0 DEF Runs, TypeOK
      <4>4. QED
        BY <3>0, <4>1, <4>2, <4>3 DEF Excused
    <3>4. CASE m.label # r.label
      <4>1. cursors'[m.label] \in {0, r.snap[m.label]}
        BY <1>0, <2>1, <3>0, <3>4 DEF NewCursors, NoCursors, Runs
      <4>2. r.snap[m.label] \in Nat
        BY <1>0, <3>0 DEF Runs
      <4>3. QED
        BY <3>0, <3>1, <4>1, <4>2
    <3>5. QED
      BY <3>2, <3>3, <3>4
  <2>4. CursorNews'
    BY <1>2, <2>3 DEF CursorNews
  <2>5. QED
    BY <1>3, <1>4, <1>5, <2>1, <2>4, PhasesAreBlank, BlankKeepsNews
<1>8. QED
  BY <1>6, <1>7 DEF EndPhase

\* The others, among them a cursor written by another syncer: what it passes is
\* marked.
LEMMA OthersStepKeepsNews ==
  ASSUME TypeOK, TypeOK', [SteadyNext]_vars, NewsInv, TodoIssued',
         \/ \E s \in Syncers \ {Watcher} : ManualStep(s)
         \/ \E m \in remote : Withdrawn(m)
         \/ (\E l \in Labels, a \in Senders : Arrive(l, a)) /\ UNCHANGED news
         \/ Commands /\ UNCHANGED news
  PROVE  NewsInv'
<1>1. CASE \/ (\E l \in Labels, a \in Senders : Arrive(l, a)) /\ UNCHANGED news
           \/ Commands /\ UNCHANGED news
  <2>1. UNCHANGED <<sync, cursors>> /\ remote \subseteq remote'
    BY <1>1 DEF Commands, Arrive, AddSource, RemoveSource, ExcludeSender, HideBySender,
                RemoveSender, telegram
  <2>. QED
    BY <1>1, <2>1, OthersKeepNews DEF news, past, NewsInv, NewsTyped, Lapsed
<1>2. ASSUME NEW n \in remote, Withdrawn(n) PROVE NewsInv'
  <2>1. /\ UNCHANGED <<sync, cursors, passing, batch, counted>>
        /\ owed' = owed \ {n} /\ remote' = remote \ {n}
        /\ \A m \in owed' : (Lapsed(m) => Lapsed(m)') /\ (m \in dropped => m \in dropped')
                            /\ (m \in slipped => m \in slipped')
    BY <1>2 DEF Withdrawn, Delete, Lapsed
  <2>. QED
    BY <2>1, OthersKeepNews DEF NewsInv, NewsTyped
<1>3. ASSUME NEW s \in Syncers \ {Watcher}, ManualStep(s) PROVE NewsInv'
  <2>1. sync'[Watcher] = sync[Watcher]
    <3>1. \E q : SetSync(s, q)
      BY <1>3, Zenon
         DEF ManualStep, BeginRun, Begin, SyncStep, SyncStops, ReadState, CollectLatest,
             Collect, CheckGlobal, CheckSource, CheckScope, SaveMessage, EndBatch,
             SaveCursor, Refused
    <3>. QED
      BY <1>3, <3>1, WatcherAssumption DEF SetSync, TypeOK
  <2>2. UNCHANGED remote
    BY <1>3 DEF ManualStep, BeginRun, Begin, SyncStep, SyncStops, ReadState, CollectLatest,
                Collect, CheckGlobal, CheckSource, CheckScope, SaveMessage, EndBatch,
                SaveCursor, Refused, telegram
  <2>3. ASSUME NEW m \in owed, m.id > cursors[m.label], m \notin counted
        PROVE  m.id > cursors'[m.label] \/ Lapsed(m)'
    <3>1. cursors[m.label] \in Nat /\ cursors'[m.label] \in Nat /\ m.id \in Nat
      BY DEF TypeOK, NewsInv, NewsTyped, Messages
    <3>. QED
      BY <1>3, <2>3, <3>1 DEF ManualStep, Passed, Lapsed
  <2>. QED
    BY <1>3, <2>1, <2>2, <2>3, OthersKeepNews DEF ManualStep, NewsInv, NewsTyped, Lapsed
<1>. QED
  BY <1>1, <1>2, <1>3

(***************************************************************************)
(* The theorem.                                                            *)
(***************************************************************************)
\* Every step keeps the invariant.
LEMMA NewsStep ==
  ASSUME Backfills = {}, TypeOK, TypeOK', Coverage, NewsInv, [AnnNext]_annVars
  PROVE  NewsInv'
<1>1. [SteadyNext]_vars
  BY AnnImplements
<1>2. TodoIssued'
  BY <1>1, TodoIssuedNext DEF NewsInv, Next
<1>3. ASSUME NEW m \in sync[Watcher].todo, CountSaved(m) PROVE NewsInv'
  BY <1>1, <1>2, <1>3, CountKeepsNews
<1>4. CASE UNCHANGED annVars
  BY <1>1, <1>2, <1>4, OthersKeepNews DEF annVars, vars, news, past, NewsInv, NewsTyped, Lapsed
<1>5. QED
  BY <1>1, <1>2, <1>3, <1>4, PassKeepsNews, EndKeepsNews, ReadingKeepsNews,
     OthersStepKeepsNews DEF AnnNext

\* It holds before the first pass.
LEMMA NewsInit == AnnInit => Init /\ NewsInv
BY WatcherAssumption
   DEF AnnInit, Init, NewsInv, TodoIssued, NewsTyped, CountKnown, BatchPut, CursorNews,
       ReadNews, BatchNews, Idle

\* Without backfills: what the watcher stored first is counted by the summary of this
\* pass, or is read and counted again by a later one, unless a run failed that had
\* counted it, or an error took its count and another syncer's cursor passed it.
THEOREM NewsIsAnnouncedHolds ==
  ASSUME Backfills = {}
  PROVE  AnnSpec => []NewsIsAnnounced
<1>1. [AnnNext]_annVars => [Next]_vars
  BY AnnImplements DEF Next
<1>2. NewsInv => NewsIsAnnounced
  BY DEF NewsInv, NewsTyped, CountKnown, CursorNews, NewsIsAnnounced, Lapsed, Excused
<1>3. TypeOK /\ TypeOK' /\ Coverage /\ NewsInv /\ [AnnNext]_annVars => NewsInv'
  BY NewsStep
<1>4. Spec => []Coverage
  BY CoverageHolds
<1>5. QED
  BY <1>1, <1>2, <1>3, <1>4, NewsInit, TypeCorrect, PTL DEF AnnSpec, Spec

\* Without backfills: while the watcher and any number of others sync the source, posts
\* and comments, no cursor of the row passes a message that was neither stored, nor
\* skipped as excluded, nor given up by a first sync.
THEOREM PassesSkipNothing ==
  ASSUME Backfills = {}
  PROVE  AnnSpec => []NoSilentSkip
<1>1. [AnnNext]_annVars => [Next]_vars
  BY AnnImplements DEF Next
<1>2. AnnSpec => Spec
  BY <1>1, NewsInit, PTL DEF AnnSpec, Spec
<1>3. Spec => []NoSilentSkip
  BY NoSilentSkipHolds
<1>4. QED
  BY <1>2, <1>3, PTL

\* Whatever holds of the feed holds of a source the watcher announces: its passes are
\* runs of Feed too, and add nothing that could be seen there.
THEOREM PassesKeepPromise ==
  ASSUME Backfills = {}
  PROVE  AnnSpec => KeepsPromise
<1>1. [AnnNext]_annVars => [Next]_vars
  BY AnnImplements DEF Next
<1>2. AnnSpec => Spec
  BY <1>1, NewsInit, PTL DEF AnnSpec, Spec
<1>3. Spec => KeepsPromise
  BY SyncKeepsPromise
<1>4. QED
  BY <1>2, <1>3, PTL
===============================================================================
