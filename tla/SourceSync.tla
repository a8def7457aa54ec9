------------------------------ MODULE SourceSync ------------------------------
(***************************************************************************)
(* Synchronisation of one Telegram source into the local SQLite store:     *)
(* telegram/sync.go with the repositories it writes (state, messages,      *)
(* exclusions, sources) and the commands that interfere with it.           *)
(*                                                                         *)
(* Several syncers may work on the same source at once: the watcher of the *)
(* serve process, the MCP tool "sync", the button of the admin UI and the  *)
(* CLI command telegram-sync.  Nothing locks a source, and the database    *)
(* handle makes single statements atomic but not a sync, so every action   *)
(* below is one SQL statement (or one transaction) or one history request. *)
(***************************************************************************)
EXTENDS Naturals, FiniteSets

CONSTANTS
  Syncers,     \* activities that may run syncOneSource for the source
  Senders,     \* authors of messages
  Scopes,      \* exclusion scopes in use, a subset of {"global", "source"}
  Limits,      \* values of SyncOptions.Limit, after normalizeSyncLimit
  Backfills,   \* values of SyncOptions.Backfill besides 0 (no backfill)
  LastId,      \* bound: highest message id of each chat
  Discussion   \* whether the channel has a linked discussion group

ASSUME ScopesAssumption    == Scopes \subseteq {"global", "source"}
ASSUME LimitsAssumption    == Limits \subseteq Nat \ {0}
ASSUME BackfillsAssumption == Backfills \subseteq Nat \ {0}

Labels == {"post", "comment"}

ASSUME LastIdAssumption     == LastId \in [Labels -> Nat]
ASSUME DiscussionAssumption == Discussion \in BOOLEAN

VARIABLES
  remote,      \* Telegram: the messages the two chats show
  issued,      \* Telegram: the highest id given out in each chat
  configured,  \* the row of the source in table sources exists
  hasState,    \* its row in table source_states exists
  cursors,     \* last_message_id and last_comment_message_id of that row
  stored,      \* table messages
  hidden,      \* its rows with hidden_by_exclusion = 1
  excluded,    \* table excluded_senders, as pairs <<sender, scope>>
  hiding,      \* exclusions inserted whose messages are not hidden yet
  sync,        \* where each syncer stands
  floor,       \* history: ids a first sync or a purge gave up on purpose
  skipped      \* history: messages a sync skipped as excluded

telegram == <<remote, issued>>
policy   == <<excluded, hiding>>
vars == <<remote, issued, configured, hasState, cursors, stored, hidden,
          excluded, hiding, sync, floor, skipped>>

(***************************************************************************)
(* Messages.  external_id is made of source, label and message id, so the  *)
(* pair (label, id) is the key of table messages.  Ids grow per chat.      *)
(***************************************************************************)
Messages == [label : Labels, id : Nat \ {0}, by : Senders]

NoCursors == [l \in Labels |-> 0]

MaxOf(a, b) == IF a < b THEN b ELSE a

(***************************************************************************)
(* collectHistory returns at most n messages, the newest of those after    *)
(* the cursor.                                                             *)
(***************************************************************************)
After(l, c) == {m \in remote : m.label = l /\ m.id > c}

Newest(S, n) == {m \in S : Cardinality({k \in S : k.id > m.id}) < n}

\* maxID: 0 when there is no message.
IsTop(i, S) == \/ S = {} /\ i = 0
               \/ \E m \in S : m.id = i /\ \A k \in S : k.id <= i

\* It is told to stop at a message no newer than the cursor, and sets
\* truncated as soon as it holds n messages, whether or not more follow.
ReachedState(l, c, n) ==
  /\ Cardinality(After(l, c)) < n
  /\ c > 0
  /\ \E m \in remote : m.label = l /\ m.id <= c

Truncated(l, c, n) == Cardinality(After(l, c)) >= n

IsOldest(m, S) == m \in S /\ \A k \in S : m.id <= k.id

(***************************************************************************)
(* A syncer.  pc names the next statement:                                 *)
(*   "state"    States.Get            "collect"  collectHistory            *)
(*   "messages" next message, global  "scoped"   its source-scoped check   *)
(*   "save"     Messages.Save         "cursor"   States.Save               *)
(***************************************************************************)
Idle == [pc |-> "idle", label |-> "post", limit |-> 0, backfill |-> 0,
         snap |-> NoCursors, todo |-> {}, top |-> 0, complete |-> FALSE]

\* The phase of the given label: a backfill starts with the history, every
\* other run with the stored state.
Phase(label, limit, backfill) ==
  [Idle EXCEPT !.pc = IF backfill > 0 THEN "collect" ELSE "state",
               !.label = label, !.limit = limit, !.backfill = backfill]

\* After the posts come the comments of the linked discussion, if any.
\* (NextPhasePostsOnly is a slip: the comments are forgotten.)
NextPhasePostsOnly(r) == Idle
NextPhase(r) == IF r.label = "post" /\ Discussion
                THEN Phase("comment", r.limit, r.backfill)
                ELSE Idle

\* No usable cursor and no backfill: only the latest id is recorded.
Baseline(r) == r.backfill = 0 /\ r.snap[r.label] = 0

\* The cursor moves only past a batch that reached it uncut.  (The first two are
\* slips: the cut is not looked at; neither is whether anything was found.)
AdvancesWhenCut(r) == r.top > r.snap[r.label]
AdvancesWhenEmpty(r) == r.complete
Advances(r) == r.top > r.snap[r.label] /\ r.complete

\* The state row a syncer writes.  A baseline of the posts resets the comment
\* cursor; everything else copies the other cursor from what it read before.
\* (The first two are slips: both columns take the top; one column is left out.)
NewCursorsBoth(r) == [l \in Labels |-> r.top]
NewCursorsOneColumn(r) == [l \in {r.label} |-> r.top]
NewCursors(r) ==
  IF r.label = "post" /\ Baseline(r)
  THEN [NoCursors EXCEPT !["post"] = r.top]
  ELSE [r.snap EXCEPT ![r.label] = r.top]

\* Only one that carries on from a cursor owes the messages in between.
FirstSync(r) == r.snap[r.label] = 0

\* Rows that refer to the source are refused while it has none (PRAGMA
\* foreign_keys = ON).  (ReferenceUnchecked is a slip: the pragma is lost.)
ReferenceUnchecked == TRUE
ReferenceOK == configured

Visible == stored \ hidden

Excludes(scope, m) == <<m.by, scope>> \in excluded

(***************************************************************************)
(* The initial state: an empty database and no sync running.               *)
(***************************************************************************)
Init ==
  /\ remote = {}
  /\ issued = NoCursors
  /\ configured = FALSE
  /\ hasState = FALSE
  /\ cursors = NoCursors
  /\ stored = {}
  /\ hidden = {}
  /\ excluded = {}
  /\ hiding = {}
  /\ sync = [s \in Syncers |-> Idle]
  /\ floor = NoCursors
  /\ skipped = {}

(***************************************************************************)
(* Telegram.                                                               *)
(***************************************************************************)
Arrive(l, a) ==
  /\ issued[l] < LastId[l]
  /\ issued' = [issued EXCEPT ![l] = @ + 1]
  /\ remote' = remote \cup {[label |-> l, id |-> issued[l] + 1, by |-> a]}
  /\ UNCHANGED <<configured, hasState, cursors, stored, hidden, policy, sync,
                 floor, skipped>>

Delete(m) ==
  /\ m \in remote
  /\ remote' = remote \ {m}
  /\ UNCHANGED <<issued, configured, hasState, cursors, stored, hidden, policy,
                 sync, floor, skipped>>

(***************************************************************************)
(* One sync: syncOneSource, then syncLinkedComments.                       *)
(***************************************************************************)
SetSync(s, r) == sync' = [sync EXCEPT ![s] = r]

\* A run reads the list of configured sources and takes the source from it.
Begin(s, limit, backfill) ==
  /\ configured
  /\ sync[s].pc = "idle"
  /\ SetSync(s, Phase("post", limit, backfill))
  /\ UNCHANGED <<telegram, configured, hasState, cursors, stored, hidden,
                 policy, floor, skipped>>

\* States.Get: a missing row reads as two zero cursors.
ReadState(s) ==
  /\ sync[s].pc = "state"
  /\ SetSync(s, [sync[s] EXCEPT
                   !.snap = cursors,
                   !.pc = IF sync[s].backfill > 0 THEN "cursor" ELSE "collect"])
  /\ UNCHANGED <<telegram, configured, hasState, cursors, stored, hidden,
                 policy, floor, skipped>>

\* The baseline looks at the newest message only.  An empty chat ends the
\* whole sync, comments included.
CollectLatest(s) ==
  LET r == sync[s]
  IN /\ r.pc = "collect" /\ Baseline(r)
     /\ \E latest \in 0 .. issued[r.label] :
          /\ IsTop(latest, After(r.label, 0))
          /\ SetSync(s, IF latest = 0 THEN Idle
                        ELSE [r EXCEPT !.pc = "cursor", !.top = latest])
     /\ UNCHANGED <<telegram, configured, hasState, cursors, stored, hidden,
                    policy, floor, skipped>>

Collect(s) ==
  LET r == sync[s]
      n == IF r.backfill > 0 THEN r.backfill ELSE r.limit
      stop == r.snap[r.label]   \* still 0 in a backfill
      batch == Newest(After(r.label, stop), n)
  IN /\ r.pc = "collect" /\ ~ Baseline(r)
     /\ \E top \in 0 .. issued[r.label] :
          /\ IsTop(top, batch)
          /\ SetSync(s, [r EXCEPT
                           !.pc = "messages",
                           !.todo = batch,
                           !.top = top,
                           !.complete = /\ ReachedState(r.label, stop, n)
                                        /\ ~ Truncated(r.label, stop, n)])
     /\ UNCHANGED <<telegram, configured, hasState, cursors, stored, hidden,
                    policy, floor, skipped>>

\* IsExcluded is two queries: the global scope, then the source's own.
CheckScope(s, m, pc, scope, next) ==
  LET r == sync[s]
  IN /\ r.pc = pc
     /\ IsOldest(m, r.todo)
     /\ IF Excludes(scope, m)
        THEN /\ SetSync(s, [r EXCEPT !.pc = "messages", !.todo = @ \ {m}])
             /\ skipped' = skipped \cup {m}
        ELSE /\ SetSync(s, [r EXCEPT !.pc = next])
             /\ UNCHANGED skipped
     /\ UNCHANGED <<telegram, configured, hasState, cursors, stored, hidden,
                    policy, floor>>

CheckGlobal(s, m) == CheckScope(s, m, "messages", "global", "scoped")
CheckSource(s, m) == CheckScope(s, m, "scoped", "source", "save")

\* Messages.Save is an upsert that writes hidden_by_exclusion = 0.  The foreign
\* key refuses it when the source is gone (SyncStops).
SaveMessage(s, m) ==
  LET r == sync[s]
  IN /\ ReferenceOK
     /\ r.pc = "save"
     /\ IsOldest(m, r.todo)
     /\ stored' = stored \cup {m}
     /\ hidden' = hidden \ {m}
     /\ SetSync(s, [r EXCEPT !.pc = "messages", !.todo = @ \ {m}])
     /\ UNCHANGED <<telegram, configured, hasState, cursors, policy, floor,
                    skipped>>

\* The batch is done: does the cursor move?  (EndBatchFirst is a slip: the cursor
\* is saved before the messages.)
EndBatchFirst(s) ==
  LET r == sync[s]
  IN /\ r.pc = "messages"
     /\ SetSync(s, IF Advances(r) THEN [r EXCEPT !.pc = "cursor"] ELSE NextPhase(r))
     /\ UNCHANGED <<telegram, configured, hasState, cursors, stored, hidden,
                    policy, floor, skipped>>
EndBatch(s) ==
  LET r == sync[s]
  IN /\ r.pc = "messages" /\ r.todo = {}
     /\ SetSync(s,
          IF r.backfill > 0
          THEN IF r.top > 0 THEN [r EXCEPT !.pc = "state"] ELSE NextPhase(r)
          ELSE IF Advances(r) THEN [r EXCEPT !.pc = "cursor"] ELSE NextPhase(r))
     /\ UNCHANGED <<telegram, configured, hasState, cursors, stored, hidden,
                    policy, floor, skipped>>

\* States.Save writes both cursors of the row.
SaveCursor(s) ==
  LET r == sync[s]
  IN /\ ReferenceOK
     /\ r.pc = "cursor"
     /\ hasState' = TRUE
     /\ cursors' = NewCursors(r)
     /\ floor' = IF FirstSync(r)
                 THEN [floor EXCEPT ![r.label] = MaxOf(@, r.top)]
                 ELSE floor
     /\ SetSync(s, NextPhase(r))
     /\ UNCHANGED <<telegram, configured, stored, hidden, policy, skipped>>

\* Any request or statement can fail, a request context can be cancelled and
\* the process can die: the sync returns, what it wrote stays.
SyncStops(s) ==
  /\ sync[s].pc # "idle"
  /\ SetSync(s, Idle)
  /\ UNCHANGED <<telegram, configured, hasState, cursors, stored, hidden,
                 policy, floor, skipped>>

\* A statement refused by the foreign key.
Refused(s) ==
  /\ ~ ReferenceOK
  /\ sync[s].pc \in {"save", "cursor"}
  /\ SyncStops(s)

(***************************************************************************)
(* Source commands: sources.Repository Upsert, Remove and Purge.           *)
(***************************************************************************)
AddSource ==
  /\ configured' = TRUE
  /\ UNCHANGED <<telegram, hasState, cursors, stored, hidden, policy, sync,
                 floor, skipped>>

SourceScoped == {e \in excluded : e[2] = "source"}

\* The foreign keys refuse a removal while rows refer to the source.  Exclusions
\* have no foreign key: those of the source outlive a plain removal.
RemoveSource ==
  /\ ~ hasState /\ stored = {}
  /\ configured' = FALSE
  /\ UNCHANGED <<telegram, hasState, cursors, stored, hidden, policy, sync,
                 floor, skipped>>

\* One transaction, whether or not the source is there.  It forgets the source, so
\* a later sync is a first one.
PurgeSource ==
  /\ configured' = FALSE
  /\ hasState' = FALSE
  /\ cursors' = NoCursors
  /\ stored' = {}
  /\ hidden' = {}
  /\ excluded' = excluded \ SourceScoped
  /\ floor' = issued
  /\ UNCHANGED <<telegram, hiding, sync, skipped>>

(***************************************************************************)
(* Exclusion commands: Service.AddSender is two statements, the insert and *)
(* the update that hides; it may stop in between.                          *)
(***************************************************************************)
ExcludeSender(a, scope) ==
  /\ excluded' = excluded \cup {<<a, scope>>}
  /\ hiding' = hiding \cup {<<a, scope>>}
  /\ UNCHANGED <<telegram, configured, hasState, cursors, stored, hidden, sync,
                 floor, skipped>>

\* (A slip: the exclusion is listed, but nothing is hidden.)
HideNothing(e) ==
  /\ e \in hiding
  /\ hiding' = hiding \ {e}
  /\ UNCHANGED <<telegram, configured, hasState, cursors, stored, hidden, excluded,
                 sync, floor, skipped>>

HideBySender(e) ==
  /\ e \in hiding
  /\ hiding' = hiding \ {e}
  /\ hidden' = hidden \cup {m \in stored : m.by = e[1]}
  /\ UNCHANGED <<telegram, configured, hasState, cursors, stored, excluded,
                 sync, floor, skipped>>

\* RemoveSender deletes the exclusion; hidden messages stay hidden.
RemoveSender(e) ==
  /\ e \in excluded
  /\ excluded' = excluded \ {e}
  /\ UNCHANGED <<telegram, configured, hasState, cursors, stored, hidden,
                 hiding, sync, floor, skipped>>

(***************************************************************************)
(* The specification.                                                      *)
(***************************************************************************)
Environment ==
  \/ \E l \in Labels, a \in Senders : Arrive(l, a)
  \/ \E m \in remote : Delete(m)

Commands ==
  \/ AddSource
  \/ RemoveSource
  \/ \E a \in Senders, scope \in Scopes : ExcludeSender(a, scope)
  \/ \E e \in hiding : HideBySender(e)
  \/ \E e \in excluded : RemoveSender(e)

SyncStep(s) ==
  \/ ReadState(s)
  \/ CollectLatest(s)
  \/ Collect(s)
  \/ \E m \in sync[s].todo : CheckGlobal(s, m)
  \/ \E m \in sync[s].todo : CheckSource(s, m)
  \/ \E m \in sync[s].todo : SaveMessage(s, m)
  \/ EndBatch(s)
  \/ SaveCursor(s)
  \/ Refused(s)

BeginRun(s) ==
  \E limit \in Limits, backfill \in Backfills \cup {0} : Begin(s, limit, backfill)

SteadyNext ==
  \/ Environment
  \/ Commands
  \/ \E s \in Syncers : BeginRun(s) \/ SyncStep(s) \/ SyncStops(s)

Next == SteadyNext \/ PurgeSource

Spec == Init /\ [][Next]_vars

\* The same, as long as nobody purges the source.
SteadySpec == Init /\ [][SteadyNext]_vars

(***************************************************************************)
(* Properties.                                                             *)
(***************************************************************************)
Runs == [pc : {"idle", "state", "collect", "messages", "scoped", "save", "cursor"},
         label : Labels, limit : Limits \cup {0}, backfill : Backfills \cup {0},
         snap : [Labels -> Nat], todo : SUBSET Messages, top : Nat,
         complete : BOOLEAN]

\* Every variable keeps its type.
TypeOK ==
  /\ remote \subseteq Messages /\ IsFiniteSet(remote)
  /\ issued \in [Labels -> Nat]
  /\ configured \in BOOLEAN
  /\ hasState \in BOOLEAN
  /\ cursors \in [Labels -> Nat]
  /\ stored \subseteq Messages
  /\ hidden \subseteq Messages
  /\ excluded \subseteq Senders \X Scopes
  /\ hiding \subseteq Senders \X Scopes
  /\ sync \in [Syncers -> Runs]
  /\ floor \in [Labels -> Nat]
  /\ skipped \subseteq Messages

\* A purge or a removal leaves no message and no cursor of the source behind,
\* whatever syncs are under way: no row outlives the source it refers to
\* (sources.Purge deletes in one transaction, late writes are refused).
ForeignKeys ==
  /\ ~ configured => ~ hasState /\ stored = {}
  /\ ~ hasState => cursors = NoCursors
  /\ hidden \subseteq stored

\* A message the chat still shows, at or before the cursor c and not given up by
\* a first sync or a purge, has been stored or deliberately skipped.
Covered(l, c) ==
  \A m \in remote :
    m.label = l /\ floor[l] < m.id /\ m.id <= c => m \in stored \cup skipped

\* "avoid silently skipping messages" (README): the cursors never pass a message
\* that was neither stored nor skipped as excluded, however many syncers share
\* the source and wherever they stop.  It needs that no backfill is requested.
NoSilentSkip == \A l \in Labels : Covered(l, cursors[l])

\* Why it holds.  What a syncer read earlier is as covered as what the row holds
\* now, so a stale write harms no one; a batch that reached the cursor without
\* being cut covers everything up to its top, once it is worked off; and ids of
\* messages still to come are beyond every cursor.
BatchCovered(r) ==
  \A m \in remote :
    m.label = r.label /\ floor[r.label] < m.id /\ m.id <= r.top
      => m \in stored \cup skipped \cup r.todo

RunCovered(r) ==
  /\ \A l \in Labels : r.snap[l] <= issued[l] /\ Covered(l, r.snap[l])
  /\ r.top <= issued[r.label]
  /\ r.complete => BatchCovered(r)
  /\ r.pc \in {"idle", "state", "collect"} => ~ r.complete
  /\ r.pc = "cursor" /\ ~ Baseline(r) => r.complete /\ r.todo = {}

Coverage ==
  /\ \A m \in remote : m.id <= issued[m.label]
  /\ \A l \in Labels : cursors[l] <= issued[l] /\ Covered(l, cursors[l])
  /\ \A s \in Syncers : RunCovered(sync[s])

\* What is left of it when backfills are requested, too: a run that carries on from a
\* cursor and is about to move it passes no message between the cursor it read and
\* its top, whatever backfills, other syncers and purges did to the row meanwhile.
IncrementsSkipNothing ==
  \A s \in Syncers :
    LET r == sync[s]
    IN r.pc = "cursor" /\ r.backfill = 0 /\ ~ Baseline(r) =>
         \A m \in remote :
           m.label = r.label /\ floor[r.label] < m.id
             /\ r.snap[r.label] < m.id /\ m.id <= r.top => m \in stored \cup skipped

\* Once a sender is excluded and his messages have been hidden, a running sync
\* can bring back at most the one message it had already checked: the exclusion
\* check and the save are two statements, and the save clears hidden_by_exclusion.
LeakBound ==
  \A e \in excluded \ hiding :
    Cardinality({m \in Visible : m.by = e[1]}) <= Cardinality(Syncers)

\* As many new posts as the largest limit, or more, and no run that read an earlier cursor or
\* collected before there were so many.
Stuck ==
  LET c == cursors["post"]
  IN /\ c > 0
     /\ \A n \in Limits : Cardinality(After("post", c)) >= n
     /\ \A s \in Syncers :
          LET r == sync[s]
          IN /\ r.pc \notin {"idle", "state"} => r.snap["post"] = c
             /\ r.label = "post" => r.pc # "cursor" /\ ~ r.complete

\* "Run again with a bigger limit to avoid silently skipping messages" (README) has an
\* end: once the largest limit is too small, no run moves the cursor, however often
\* and by however many it is repeated, until messages are deleted or the source is
\* purged.  It needs that no backfill is requested.
StuckStays ==
  [][Stuck /\ remote \subseteq remote' /\ hasState'
       => Stuck' /\ cursors'["post"] = cursors["post"]]_vars

\* With one syncer, no backfill and no purge the cursors never go back, wherever
\* syncs stop and whatever Telegram deletes.
CursorsAdvance ==
  [][hasState /\ hasState' => \A l \in Labels : cursors[l] <= cursors'[l]]_vars

\* Only the first sync of a source is a baseline: a comment cursor once stored
\* is not thrown away, for the next sync would skip every comment in between.
CommentCursorKept ==
  [][hasState /\ hasState' /\ cursors["comment"] > 0
       => cursors'["comment"] > 0]_vars
===============================================================================
