---------------------------- MODULE Announcements ----------------------------
(***************************************************************************)
(* What the watcher announces: SourceSync with one of its syncers driven   *)
(* by runTelegramWatcherSync (app/watcher.go), which counts what each sync *)
(* saved and sends one summary after the pass (app/notifier.go).  The      *)
(* counts are kept as the sets of messages they count.                     *)
(*                                                                         *)
(* One source is followed; an error of the whole run may come from any.    *)
(* The source is not purged: a purge takes its news with it.               *)
(***************************************************************************)
EXTENDS SourceSync

CONSTANT Watcher   \* the syncer that is the watcher

ASSUME WatcherAssumption == Watcher \in Syncers

VARIABLES
  passing,     \* a pass of the watcher is under way
  batch,       \* messages saved in the phase under way, not yet in the result
  counted,     \* SavedMessages and SavedComments of the source's result
  owed,        \* history: messages the watcher stored first, that the chat still shows
               \* and that no summary, sent or failed, has counted yet
  overtaken,   \* history: those of them that another syncer's cursor passed while they
               \* were not in the result
  dropped,     \* history: those whose count an error took before it was in the result,
               \* and that have not been saved again
  slipped      \* history: those whose count was in the result of a run that failed,
               \* and that have not got into another one

past == <<owed, overtaken, dropped, slipped>>
news == <<passing, batch, counted, past>>
annVars == <<vars, news>>

AnnInit ==
  /\ Init
  /\ passing = FALSE
  /\ batch = {}
  /\ counted = {}
  /\ owed = {} /\ overtaken = {} /\ dropped = {} /\ slipped = {}

(***************************************************************************)
(* One pass.                                                               *)
(***************************************************************************)
BeginPass ==
  /\ ~ passing
  /\ \E limit \in Limits : Begin(Watcher, limit, 0)
  /\ passing' = TRUE
  /\ batch' = {}
  /\ counted' = {}
  /\ UNCHANGED past

\* The upsert counts a message whether or not it was stored before.
CountSaved(m) ==
  /\ SaveMessage(Watcher, m)
  /\ batch' = batch \cup {m}
  /\ owed' = owed \cup ({m} \cap (remote \ stored))
  /\ dropped' = dropped \ {m}
  /\ UNCHANGED <<passing, counted, overtaken, slipped>>

\* SavedMessages is set before the cursor is written, SavedComments after it.
Counts(next) == sync[Watcher].label = "post" \/ next.pc = "idle"

EndPhase ==
  /\ EndBatch(Watcher) \/ SaveCursor(Watcher)
  /\ IF Counts(sync'[Watcher])
     THEN /\ counted' = counted \cup batch
          /\ batch' = {}
          /\ overtaken' = overtaken \ batch
          /\ slipped' = slipped \ batch
     ELSE UNCHANGED <<counted, batch, overtaken, slipped>>
  /\ UNCHANGED <<passing, owed, dropped>>

OtherStep ==
  /\ \/ ReadState(Watcher) \/ CollectLatest(Watcher) \/ Collect(Watcher)
     \/ \E m \in sync[Watcher].todo :
          CheckGlobal(Watcher, m) \/ CheckSource(Watcher, m)
  /\ UNCHANGED news

\* An error of the source is recorded in its result: what was counted until then
\* stays counted, what the phase under way has saved is not.  (A slip: an error of
\* the comments replaces the whole result.)
SourceFailsAnew ==
  /\ SyncStops(Watcher)
  /\ batch' = {}
  /\ counted' = {}
  /\ dropped' = dropped \cup (batch \cap owed)
  /\ UNCHANGED <<passing, owed, overtaken, slipped>>

SourceFails ==
  /\ SyncStops(Watcher)
  /\ batch' = {}
  /\ dropped' = dropped \cup (batch \cap owed)
  /\ UNCHANGED <<passing, counted, owed, overtaken, slipped>>

\* An error of the run, or the end of the process, drops every result.
RunFails ==
  /\ passing
  /\ \/ SyncStops(Watcher)
     \/ sync[Watcher] = Idle /\ UNCHANGED vars
  /\ passing' = FALSE
  /\ batch' = {}
  /\ counted' = {}
  /\ dropped' = dropped \cup (batch \cap owed)
  /\ slipped' = slipped \cup (counted \cap owed)
  /\ UNCHANGED <<owed, overtaken>>

\* SendWatcherSummary is tried once; a failure is logged.
Summarize ==
  /\ passing /\ sync[Watcher] = Idle
  /\ passing' = FALSE
  /\ counted' = {}
  /\ owed' = owed \ counted
  /\ UNCHANGED <<vars, batch, overtaken, dropped, slipped>>

(***************************************************************************)
(* The other syncers announce nothing.  A cursor they move past a message  *)
(* keeps the watcher from reading it again.                                *)
(***************************************************************************)
Passed == {m \in owed : cursors[m.label] < m.id /\ m.id <= cursors'[m.label]}

ManualStep(s) ==
  /\ BeginRun(s) \/ SyncStep(s) \/ SyncStops(s)
  /\ overtaken' = overtaken \cup (Passed \ (counted \cup slipped))
  /\ UNCHANGED <<passing, batch, counted, owed, dropped, slipped>>

\* What the chat no longer shows is no longer news.
Withdrawn(m) ==
  /\ Delete(m)
  /\ owed' = owed \ {m}
  /\ overtaken' = overtaken \ {m}
  /\ dropped' = dropped \ {m}
  /\ slipped' = slipped \ {m}
  /\ UNCHANGED <<passing, batch, counted>>

AnnNext ==
  \/ BeginPass
  \/ \E m \in sync[Watcher].todo : CountSaved(m)
  \/ EndPhase \/ OtherStep
  \/ SourceFails \/ RunFails
  \/ Summarize
  \/ \E s \in Syncers \ {Watcher} : ManualStep(s)
  \/ \E m \in remote : Withdrawn(m)
  \/ \E l \in Labels, a \in Senders : Arrive(l, a) /\ UNCHANGED news
  \/ Commands /\ UNCHANGED news

AnnSpec == AnnInit /\ [][AnnNext]_annVars

(***************************************************************************)
(* Properties.                                                             *)
(***************************************************************************)
\* "Sends one summary message after watcher sync when new messages were saved"
\* (.env.example:29): a message that the watcher stored first and that no summary has
\* taken is on its way into the summary of this pass, or lies above the cursor and is
\* read and counted again by the next one.  It is lost in two ways only: the whole run
\* failed after the message was counted, or an error took its count before that and
\* another syncer moved the cursor past it.  The second takes both: an error of the
\* source, of its comments or of a cursor write loses nothing as long as the watcher is
\* left alone, and a cursor moved by another nothing of a pass without an error.
\* Excused is what was skipped as excluded, and what another syncer's first sync gave
\* up while the watcher was at it.
NewsIsAnnounced ==
  \A m \in owed :
    \/ m \in counted \cup batch
    \/ m.id > cursors[m.label]
    \/ m \in slipped
    \/ m \in dropped \cap overtaken
    \/ m \in skipped
    \/ m.id <= floor[m.label]
===============================================================================
