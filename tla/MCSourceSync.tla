----------------------------- MODULE MCSourceSync -----------------------------
(***************************************************************************)
(* Small instances of SourceSync for TLC.                                  *)
(***************************************************************************)
EXTENDS SyncFeed, TLC

\* Chats with the given numbers of posts and comments.
Chats(posts, comments) == [l \in Labels |-> IF l = "post" THEN posts ELSE comments]

Posts3 == Chats(3, 0)
Posts2Comments2 == Chats(2, 2)

\* Syncers behave alike, and so do senders.
Alike == Permutations(Syncers) \cup Permutations(Senders)
===============================================================================
