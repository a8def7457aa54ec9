---------------------------- MODULE MCSyncLiveness ----------------------------
(***************************************************************************)
(* Small instances of SyncLiveness for TLC.                                *)
(***************************************************************************)
EXTENDS SyncLiveness

Chats(posts, comments) == [l \in Labels |-> IF l = "post" THEN posts ELSE comments]

Posts4 == Chats(4, 0)
Posts1Comments2 == Chats(1, 2)
===============================================================================
