----------------------------- MODULE MCExclusions -----------------------------
(***************************************************************************)
(* Instances of Exclusions for TLC: one account writes in one source.      *)
(***************************************************************************)
EXTENDS Exclusions, TLC

CONSTANTS a1, n1

ByOne == [m \in Messages |-> a1]
OneSource == [m \in Messages |-> "src"]

\* The admin types a username; a message gives an id, with or without one.
Typed == {[id |-> None, name |-> n1]}

Alike == Permutations(Editors)
===============================================================================
