------------------------------- MODULE SyncFeed -------------------------------
(***************************************************************************)
(* SourceSync implements Feed, as long as no backfill is requested: the    *)
(* cursors are the marks, and what is stored or was skipped is settled.    *)
(***************************************************************************)
EXTENDS SourceSync

Promise == INSTANCE Feed WITH
  Chats   <- Labels,
  shown   <- remote,
  mark    <- cursors,
  settled <- stored \cup skipped

\* Every step of any number of syncers, wherever they stop and whatever commands
\* come in between, is a step of Feed or leaves it alone: a cursor is moved only
\* over messages that were stored, skipped as excluded or given up.
KeepsPromise == Promise!Spec
===============================================================================
