--------------------------------- MODULE OAuth ---------------------------------
(***************************************************************************)
(* The OAuth authorization-code mode of the HTTP endpoint (mcp/oauth.go):  *)
(* clients register, the owner authorizes a code, a code is redeemed for a *)
(* token.  The state lives in three maps under one mutex; clients and      *)
(* tokens are also written to a file that is read once, at start.          *)
(*                                                                         *)
(* HTTP handlers run concurrently.  A save copies the maps under the mutex *)
(* and writes the file after releasing it, so saves can overlap; the file  *)
(* is truncated and rewritten in place, so a crash can leave it torn.      *)
(***************************************************************************)
EXTENDS Naturals, FiniteSets

CONSTANTS
  Clients,   \* client ids that registration may draw
  Codes,     \* authorization codes that may be drawn
  Tokens,    \* access tokens that may be drawn
  Handlers   \* HTTP handlers that may be at work at once

\* The ids of clients begin with "client_", tokens with "mcp_".
ASSUME IdsAssumption == Clients \cap Tokens = {}

VARIABLES
  clients,   \* globalOAuthState.clients
  codes,     \* globalOAuthState.codes
  tokens,    \* globalOAuthState.tokens
  file,      \* the state file
  handler,   \* where each HTTP handler stands
  expired,   \* tokens whose lifetime is over
  drawn,     \* history: the random ids handed out so far
  granted,   \* history: tokens issued, each with the code it was issued for
  answered,  \* history: the ids callers were given in a successful answer
  harmed     \* history: saves overlapped, one failed, or a crash cut one short

memory == <<clients, codes, tokens>>
vars == <<memory, file, handler, expired, drawn, granted, answered, harmed>>

CodeEntries  == [code : Codes, client : Clients]
TokenEntries == [token : Tokens, client : Clients]
Contents     == [clients : SUBSET Clients, tokens : SUBSET TokenEntries]
Nothing      == [clients |-> {}, tokens |-> {}]

\* What json.Unmarshal makes of the file: contents, or an error for one that is
\* empty, cut short or followed by the tail of a longer one.
Files == [intact : BOOLEAN, held : Contents]

\* A handler at rest, or on its way through a request.  "id" is what it answers.
Idle     == [pc |-> "idle"]
Redeemer == [pc : {"redeem"}, code : CodeEntries, as : Clients]
Saver    == [pc : {"save", "answer"}, id : Clients \cup Tokens \cup {"none"}]
            \cup [pc : {"open", "write"}, id : Clients \cup Tokens \cup {"none"},
                  copy : Contents]
Stands   == {Idle} \cup Redeemer \cup Saver

Init ==
  /\ clients = {} /\ codes = {} /\ tokens = {}
  /\ file = [intact |-> TRUE, held |-> Nothing]
  /\ handler = [h \in Handlers |-> Idle]
  /\ expired = {}
  /\ drawn = {}
  /\ granted = {}
  /\ answered = {}
  /\ harmed = FALSE

At(h, pc) == handler[h].pc = pc
Moves(h, stand) == handler' = [handler EXCEPT ![h] = stand]
Saves(h, id) == Moves(h, [pc |-> "save", id |-> id])
Fresh(ids) == ids \ drawn

(***************************************************************************)
(* Requests.                                                               *)
(***************************************************************************)
\* handleOAuthRegister, up to its save.
Register(h) ==
  \E c \in Fresh(Clients) :
    /\ At(h, "idle")
    /\ clients' = clients \cup {c}
    /\ drawn' = drawn \cup {c}
    /\ Saves(h, c)
    /\ UNCHANGED <<codes, tokens, file, expired, granted, answered, harmed>>

\* completeOAuthAuthorize, once the owner's token is accepted.  Clients are never
\* removed, so the two critical sections count as one step.  Codes are not saved.
Authorize ==
  \E c \in clients, k \in Fresh(Codes) :
    /\ codes' = codes \cup {[code |-> k, client |-> c]}
    /\ drawn' = drawn \cup {k}
    /\ UNCHANGED <<clients, tokens, file, handler, expired, granted, answered, harmed>>

\* handleOAuthToken, first critical section: the code is looked up and deleted,
\* whoever asks and whether or not the checks that follow are passed.
\* (TakeCodeKeeps is a slip: the code is left in place.)
TakeCodeKeeps(h) ==
  \E k \in codes, c \in Clients :
    /\ At(h, "idle")
    /\ Moves(h, [pc |-> "redeem", code |-> k, as |-> c])
    /\ UNCHANGED <<memory, file, expired, drawn, granted, answered, harmed>>

TakeCode(h) ==
  \E k \in codes, c \in Clients :
    /\ At(h, "idle")
    /\ codes' = codes \ {k}
    /\ Moves(h, [pc |-> "redeem", code |-> k, as |-> c])
    /\ UNCHANGED <<clients, tokens, file, expired, drawn, granted, answered, harmed>>

\* The checks that compare the request with the code's entry.
\* (A slip: the client is not compared.)
MatchesAnyClient(stand) == stand.as \in clients
Matches(stand) == stand.as \in clients /\ stand.as = stand.code.client

\* A wrong secret or verifier, an expired code, another client's code.
Refuse(h) ==
  /\ At(h, "redeem")
  /\ Moves(h, Idle)
  /\ UNCHANGED <<memory, file, expired, drawn, granted, answered, harmed>>

\* Second critical section: a token for the client that was authorized.
Issue(h) ==
  \E t \in Fresh(Tokens) :
    LET stand == handler[h]
    IN /\ At(h, "redeem")
       /\ Matches(stand)
       /\ tokens' = tokens \cup {[token |-> t, client |-> stand.as]}
       /\ drawn' = drawn \cup {t}
       /\ granted' = granted \cup {[token |-> t, client |-> stand.as, code |-> stand.code]}
       /\ Saves(h, t)
       /\ UNCHANGED <<clients, codes, file, expired, answered, harmed>>

\* validateOAuthBearerToken, for a token that is not known or has expired: the expired
\* one is dropped, and there is a save either way.  A blank token and one for another
\* resource are turned down, and a good one accepted, without a change or a save.
Reject(h) ==
  \E dropped \in SUBSET {e \in tokens : e.token \in expired} :
    /\ At(h, "idle")
    /\ Cardinality(dropped) <= 1          \* none: the token is not known
    /\ tokens' = tokens \ dropped
    /\ Saves(h, "none")
    /\ UNCHANGED <<clients, codes, file, expired, drawn, granted, answered, harmed>>

Expire(t) ==
  /\ t \in drawn \ expired
  /\ expired' = expired \cup {t}
  /\ UNCHANGED <<memory, file, handler, drawn, granted, answered, harmed>>

(***************************************************************************)
(* saveOAuthStateToDisk.                                                   *)
(***************************************************************************)
\* (A slip: the ids without their entries.)
LiveIds(entries) == {e.token : e \in entries} \ expired
Live(entries) == {e \in entries : e.token \notin expired}

Saving(h) == handler[h].pc \in {"open", "write"}

\* The copy, under the mutex.
\* (A slip: the copy is what the file holds, with nothing added.)
CopyOfFile(h) ==
  /\ At(h, "save")
  /\ Moves(h, [pc |-> "open", id |-> handler[h].id, copy |-> file.held])
  /\ harmed' = (harmed \/ \E g \in Handlers : Saving(g))
  /\ UNCHANGED <<memory, file, expired, drawn, granted, answered>>

Copy(h) ==
  /\ At(h, "save")
  /\ Moves(h, [pc |-> "open", id |-> handler[h].id,
               copy |-> [clients |-> clients, tokens |-> Live(tokens)]])
  /\ harmed' = (harmed \/ \E g \in Handlers : Saving(g))
  /\ UNCHANGED <<memory, file, expired, drawn, granted, answered>>

\* os.WriteFile opens the file and truncates it ...
Truncate(h) ==
  /\ At(h, "open")
  /\ Moves(h, [handler[h] EXCEPT !.pc = "write"])
  /\ file' = [intact |-> FALSE, held |-> Nothing]
  /\ UNCHANGED <<memory, expired, drawn, granted, answered, harmed>>

Size(contents) == Cardinality(contents.clients) + Cardinality(contents.tokens)

\* ... and writes from its own offset 0, over what another save wrote meanwhile:
\* of longer contents a tail remains, and the file no longer parses.
Write(h) ==
  LET copy == handler[h].copy
      tail == Size(file.held) > Size(copy)
  IN /\ At(h, "write")
     /\ file' = [intact |-> ~ tail, held |-> IF tail THEN file.held ELSE copy]
     /\ Moves(h, [pc |-> "answer", id |-> handler[h].id])
     /\ UNCHANGED <<memory, expired, drawn, granted, answered, harmed>>

\* Errors of MkdirAll and WriteFile are ignored: the request is answered all the same.
SaveFails(h) ==
  /\ Saving(h)
  /\ Moves(h, [pc |-> "answer", id |-> handler[h].id])
  /\ harmed' = TRUE
  /\ UNCHANGED <<memory, file, expired, drawn, granted, answered>>

Answer(h) ==
  /\ At(h, "answer")
  /\ Moves(h, Idle)
  /\ answered' = answered \cup ({handler[h].id} \ {"none"})
  /\ UNCHANGED <<memory, file, expired, drawn, granted, harmed>>

(***************************************************************************)
(* The process stops at any point and starts again: loadOAuthStateFromDisk *)
(* takes an unreadable file for no file.                                   *)
(***************************************************************************)
\* (A slip: the clients are not read back.)
LoadedTokensOnly == [clients |-> {}, tokens |-> IF file.intact THEN Live(file.held.tokens) ELSE {}]
Loaded == IF file.intact THEN [file.held EXCEPT !.tokens = Live(@)] ELSE Nothing

Restart ==
  /\ clients' = Loaded.clients
  /\ tokens' = Loaded.tokens
  /\ codes' = {}
  /\ handler' = [h \in Handlers |-> Idle]
  /\ harmed' = (harmed \/ \E h \in Handlers : At(h, "write"))
  /\ UNCHANGED <<file, expired, drawn, granted, answered>>

Step(h) ==
  \/ Register(h) \/ TakeCode(h) \/ Refuse(h) \/ Issue(h) \/ Reject(h)
  \/ Copy(h) \/ Truncate(h) \/ Write(h) \/ SaveFails(h) \/ Answer(h)

Next ==
  \/ \E h \in Handlers : Step(h)
  \/ Authorize
  \/ \E t \in Tokens : Expire(t)
  \/ Restart

Spec == Init /\ [][Next]_vars

(***************************************************************************)
(* Properties.                                                             *)
(***************************************************************************)
Copies == {handler[h].copy : h \in {g \in Handlers : Saving(g)}}

\* Types; a handler in a save carries what it will answer and what it copied.
TypeOK ==
  /\ clients \subseteq Clients
  /\ codes \subseteq CodeEntries
  /\ tokens \subseteq TokenEntries
  /\ file \in Files
  /\ handler \in [Handlers -> Stands]
  /\ expired \subseteq Tokens
  /\ drawn \subseteq Clients \cup Codes \cup Tokens
  /\ granted \subseteq [token : Tokens, client : Clients, code : CodeEntries]
  /\ answered \subseteq Clients \cup Tokens
  /\ harmed \in BOOLEAN

\* A code or token always belongs to a registered client: in memory, in every copy
\* on its way to the file, and in the file, whatever restarts and torn files do.
OwnersRegistered ==
  /\ \A e \in codes \cup tokens : e.client \in clients
  /\ \A held \in Copies \cup {file.held} : \A e \in held.tokens : e.client \in held.clients

\* A code is good for one token at most, however many requests race to redeem it
\* and whatever is restarted meanwhile.
CodeRedeemedOnce ==
  \A a, b \in granted : a.code.code = b.code.code => a = b

\* A token in memory, in a copy or in the file was issued, to the client the owner
\* authorized and to no other: saves and restarts bring up nothing else.
TokensGranted ==
  \A e \in tokens \cup file.held.tokens \cup UNION {held.tokens : held \in Copies} :
    \E g \in granted : g.token = e.token /\ g.client = e.client /\ g.code.client = e.client

\* What a caller was given survives a restart at any moment: as long as no two
\* saves overlapped, none failed and no crash hit one, the file holds every client
\* and every live token that was answered, except while it is being rewritten.
AnsweredIsDurable ==
  harmed \/ (\E h \in Handlers : At(h, "write"))
    \/ /\ file.intact
       /\ answered \cap Clients \subseteq file.held.clients
       /\ (answered \cap Tokens) \ expired \subseteq {e.token : e \in file.held.tokens}

(***************************************************************************)
(* The abstract service.                                                   *)
(***************************************************************************)
\* A code is open until the request that took it has been answered; a token that
\* expired is not valid, whether or not it has been dropped yet.
InRequest == {handler[h].code : h \in {g \in Handlers : At(g, "redeem")}}

Service == INSTANCE Grants WITH
  registered <- clients,
  open       <- codes \cup InRequest,
  valid      <- Live(tokens),
  told       <- answered \ expired

\* Every step of the handlers, with their saves, failures and restarts, is a step of
\* Grants or leaves it alone: one token per code, for the client it was authorized
\* for; nothing that was lost comes back; and an unharmed restart loses nothing that
\* a client was told.
KeepsGrants == Service!Spec
================================================================================
