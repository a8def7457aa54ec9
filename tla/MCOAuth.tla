-------------------------------- MODULE MCOAuth --------------------------------
(* Instances of OAuth for TLC. *)
EXTENDS OAuth, TLC

\* Ids are drawn at random and handlers are alike.
Interchangeable ==
  Permutations(Clients) \cup Permutations(Codes) \cup Permutations(Tokens)
    \cup Permutations(Handlers)
================================================================================
