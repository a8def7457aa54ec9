--------------------------------- MODULE Feed ---------------------------------
(***************************************************************************)
(* What synchronisation promises of one source, whoever carries it out: a  *)
(* mark per chat, moved only over messages that have been dealt with.      *)
(*                                                                         *)
(* README.md: "Sync new posts/messages after the last stored message id",  *)
(* "avoid silently skipping messages".  How many syncers there are, in     *)
(* what order they read and write, and where they stop is left open.       *)
(***************************************************************************)
EXTENDS Naturals

CONSTANTS
  Chats,       \* the chats of a source: its posts and the linked discussion
  Senders      \* authors of messages

VARIABLES
  shown,       \* the messages the chats show
  issued,      \* the highest id given out in each chat
  mark,        \* how far each chat has been read
  floor,       \* what was given up in each chat
  settled      \* messages that were stored, or skipped as excluded

feed == <<shown, issued, mark, floor, settled>>

Messages == [label : Chats, id : Nat \ {0}, by : Senders]

Nothing == [c \in Chats |-> 0]

Init ==
  /\ shown = {}
  /\ issued = Nothing
  /\ mark = Nothing
  /\ floor = Nothing
  /\ settled = {}

(***************************************************************************)
(* Every message shown up to the mark has been given up or settled.        *)
(***************************************************************************)
Read(c) ==
  \A m \in shown : m.label = c /\ m.id <= mark[c] => m.id <= floor[c] \/ m \in settled

\* No message is silently skipped (README.md:135).
NothingSkipped == \A c \in Chats : Read(c)

(***************************************************************************)
(* Steps.                                                                  *)
(***************************************************************************)
Appear(c, a) ==
  /\ issued' = [issued EXCEPT ![c] = @ + 1]
  /\ shown' = shown \cup {[label |-> c, id |-> issued[c] + 1, by |-> a]}
  /\ UNCHANGED <<mark, floor, settled>>

Disappear(m) ==
  /\ m \in shown
  /\ shown' = shown \ {m}
  /\ UNCHANGED <<issued, mark, floor, settled>>

\* Nothing but what a chat has issued is settled.
Settle ==
  /\ settled \subseteq settled'
  /\ settled' \subseteq Messages
  /\ \A m \in settled' \ settled : m.id <= issued[m.label]
  /\ UNCHANGED <<shown, issued, mark, floor>>

\* The marks may move to and fro, but never over an unread message; the first
\* sync of a chat may give up what it finds below its mark.
Move ==
  /\ mark' \in [Chats -> Nat]
  /\ \A c \in Chats : mark'[c] <= issued[c]
  /\ floor' = floor \/ \E c \in Chats : floor' = [floor EXCEPT ![c] = mark'[c]]
  /\ \A c \in Chats : floor[c] <= floor'[c]
  /\ NothingSkipped'
  /\ UNCHANGED <<shown, issued, settled>>

\* The source is purged, and all there was is given up.
Forget ==
  /\ mark' = Nothing
  /\ floor' = issued
  /\ settled' \subseteq settled
  /\ UNCHANGED <<shown, issued>>

Next ==
  \/ \E c \in Chats, a \in Senders : Appear(c, a)
  \/ \E m \in shown : Disappear(m)
  \/ Settle \/ Move \/ Forget

Spec == Init /\ [][Next]_feed
===============================================================================
