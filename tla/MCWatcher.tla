------------------------------- MODULE MCWatcher -------------------------------
(* Instances of Watcher for TLC; the source ids are numbers given in the .cfg. *)
EXTENDS Watcher
================================================================================
