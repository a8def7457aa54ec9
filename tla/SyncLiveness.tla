----------------------------- MODULE SyncLiveness -----------------------------
(***************************************************************************)
(* What the watcher's repetition buys: SourceSync with an environment that *)
(* is faulty at first and may calm down, after which no sync is cut short. *)
(* The source is not purged.                                               *)
(***************************************************************************)
EXTENDS SourceSync

VARIABLE calm   \* from now on no request or statement fails

liveVars == <<vars, calm>>

LiveInit == Init /\ calm = FALSE

Undisturbed ==
  \/ Environment
  \/ Commands
  \/ \E s \in Syncers : BeginRun(s) \/ SyncStep(s)

LiveNext ==
  \/ Undisturbed /\ UNCHANGED calm
  \/ ~ calm /\ (\E s \in Syncers : SyncStops(s)) /\ UNCHANGED calm
  \/ ~ calm /\ calm' = TRUE /\ UNCHANGED vars

(***************************************************************************)
(* The ticker of runTelegramWatcher starts a pass again and again, and a   *)
(* sync that was started goes on with its next statement.  Nothing obliges *)
(* the chats, the commands or the network to do anything.                  *)
(***************************************************************************)
LiveSpec ==
  /\ LiveInit /\ [][LiveNext]_liveVars
  /\ \A s \in Syncers :
       /\ WF_liveVars(BeginRun(s) /\ UNCHANGED calm)
       /\ WF_liveVars(SyncStep(s) /\ UNCHANGED calm)

\* Stored, skipped as excluded, gone from Telegram, or given up by a first sync.
Settled(m) == \/ m \in stored \cup skipped
              \/ m \notin remote
              \/ m.id <= floor[m.label]

AllMessages ==
  UNION {[label : {l}, id : 1 .. LastId[l], by : Senders] : l \in Labels}

\* "avoid silently skipping messages" (README), the other half: once failures
\* stop, every message of a source that had its first sync is settled in the
\* end, whatever was cut short before.
EventuallySettled ==
  <>calm /\ <>[](configured /\ hasState)
    => \A m \in AllMessages : (m \in remote) ~> Settled(m)
===============================================================================
