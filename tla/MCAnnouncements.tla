--------------------------- MODULE MCAnnouncements ---------------------------
(***************************************************************************)
(* Small instances of Announcements for TLC.                               *)
(***************************************************************************)
EXTENDS Announcements

Chats(posts, comments) == [l \in Labels |-> IF l = "post" THEN posts ELSE comments]

Posts2Comments2 == Chats(2, 2)
===============================================================================
