-------------------------------- MODULE Grants --------------------------------
(***************************************************************************)
(* What the authorization server promises its clients, whatever maps,      *)
(* files and handlers it is built from: a code is worth one token at most, *)
(* for the client it was authorized for; a token is good until it expires; *)
(* a restart may lose codes, and more than that only after harm was done   *)
(* to the state file; nothing that was lost ever comes back.               *)
(***************************************************************************)
CONSTANTS
  Clients,     \* client ids
  Codes,       \* authorization codes
  Tokens       \* access tokens

VARIABLES
  registered,  \* the clients that may ask for codes and tokens
  open,        \* codes that may still be redeemed, each with its client
  valid,       \* tokens that are accepted, each with its client
  told,        \* ids that clients were given and that have not expired
  drawn,       \* the ids handed out so far
  harmed       \* the state file was written by two at once, or badly

grants == <<registered, open, valid, told, drawn, harmed>>

Init ==
  /\ registered = {} /\ open = {} /\ valid = {}
  /\ told = {} /\ drawn = {}
  /\ harmed = FALSE

Known == registered \cup {e.token : e \in valid}

Register ==
  \E c \in Clients \ drawn :
    /\ registered' = registered \cup {c}
    /\ drawn' = drawn \cup {c}
    /\ UNCHANGED <<open, valid, told, harmed>>

Authorize ==
  \E c \in registered, k \in Codes \ drawn :
    /\ open' = open \cup {[code |-> k, client |-> c]}
    /\ drawn' = drawn \cup {k}
    /\ UNCHANGED <<registered, valid, told, harmed>>

\* The code is spent, and its client, who is registered, gets a token.
Redeem ==
  \E k \in open, t \in Tokens \ drawn :
    /\ k.client \in registered
    /\ open' = open \ {k}
    /\ valid' = valid \cup {[token |-> t, client |-> k.client]}
    /\ drawn' = drawn \cup {t}
    /\ UNCHANGED <<registered, told, harmed>>

\* A failed attempt spends the code as well.
Refuse ==
  \E k \in open :
    /\ open' = open \ {k}
    /\ UNCHANGED <<registered, valid, told, drawn, harmed>>

\* Clients are told only what the server would accept.
Tell ==
  \E i \in Known :
    /\ told' = told \cup {i}
    /\ UNCHANGED <<registered, open, valid, drawn, harmed>>

Expire ==
  \E t \in Tokens \cap drawn :
    /\ valid' = {e \in valid : e.token # t}
    /\ told' = told \ {t}
    /\ UNCHANGED <<registered, open, drawn, harmed>>

Harm ==
  /\ harmed' = TRUE
  /\ UNCHANGED <<registered, open, valid, told, drawn>>

\* A restart brings up nothing and leaves no token without its client; unharmed, it
\* loses nothing that a client was told.
Restart ==
  /\ open' = {}
  /\ registered' \subseteq registered
  /\ valid' \subseteq valid
  /\ \A e \in valid' : e.client \in registered'
  /\ harmed' \in BOOLEAN /\ (harmed => harmed')
  /\ ~ harmed' => told \subseteq Known'
  /\ UNCHANGED <<told, drawn>>

Next ==
  \/ Register \/ Authorize \/ Redeem \/ Refuse
  \/ Tell \/ Expire \/ Harm \/ Restart

Spec == Init /\ [][Next]_grants
===============================================================================
