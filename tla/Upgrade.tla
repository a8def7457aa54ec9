-------------------------------- MODULE Upgrade --------------------------------
(***************************************************************************)
(* What opening the database promises, however many processes do it: the   *)
(* schema grows by one whole migration at a time, in the order of their    *)
(* names, together with the list of what was applied; nothing is ever      *)
(* taken back; and only a schema that is complete is worked with.          *)
(***************************************************************************)
EXTENDS Naturals

CONSTANTS
  Processes,   \* processes that may open the file
  Last         \* number of migrations

VARIABLES
  schema,      \* migrations that took effect
  listed,      \* migrations the file says took effect
  users        \* processes that work with the database

upgrade == <<schema, listed, users>>

Init ==
  /\ \E n \in 0 .. Last : schema = 1 .. n
  /\ listed = schema
  /\ users = {}

Advance ==
  \E v \in 1 .. Last :
    /\ schema = 1 .. v - 1
    /\ schema' = 1 .. v
    /\ listed' = schema'
    /\ UNCHANGED users

Enter ==
  /\ schema = 1 .. Last
  /\ \E p \in Processes : users' = users \cup {p}
  /\ UNCHANGED <<schema, listed>>

Leave ==
  /\ \E p \in users : users' = users \ {p}
  /\ UNCHANGED <<schema, listed>>

Next == Advance \/ Enter \/ Leave

Spec == Init /\ [][Next]_upgrade
===============================================================================
