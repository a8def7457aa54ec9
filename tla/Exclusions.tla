------------------------------ MODULE Exclusions ------------------------------
(***************************************************************************)
(* The exclusion list: exclusions/repository.go and service.go over table  *)
(* excluded_senders, with the messages they hide and the syncs that ask    *)
(* IsExcluded.  A sender is known by a Telegram id, by a username or by    *)
(* both, and usernames change hands; SourceSync, where a sender is one     *)
(* identity, knows nothing of that.                                        *)
(*                                                                         *)
(* The admin UI and the MCP tools edit the list at the same time.  Every   *)
(* step is one SQL statement.                                              *)
(***************************************************************************)
EXTENDS Naturals, FiniteSets

CONSTANTS
  Accounts,    \* Telegram users and channels, by id
  Names,       \* usernames, after normalizeUsername
  Sources,     \* source ids
  Messages,    \* message ids, in the order a batch is worked off
  By,          \* the account that wrote a message
  In,          \* the source a message belongs to
  Captioned,   \* messages with a text; the others are a bare photo, say
  Places,      \* scopes in use: "global" and source ids
  Requests,    \* senders that editors type in, see Senders
  Editors,     \* requests that may edit the list at the same time
  Syncers,     \* syncs that may run at the same time
  LastRow,     \* bound: rows inserted into excluded_senders
  None         \* SQL NULL

ASSUME MessagesAssumption ==
  /\ Messages \subseteq Nat /\ By \in [Messages -> Accounts]
  /\ In \in [Messages -> Sources] /\ Captioned \subseteq Messages
ASSUME PlacesAssumption == Places \subseteq {"global"} \cup Sources
ASSUME NoneAssumption  == None \notin Accounts \cup Names \cup Messages
ASSUME LastRowAssumption == LastRow \in Nat

\* A sender has an id or a username.
Senders == {s \in [id : Accounts \cup {None}, name : Names \cup {None}] :
              s.id # None \/ s.name # None}

ASSUME RequestsAssumption == Requests \subseteq Senders

VARIABLES
  handle,     \* Telegram: the username each account has now
  present,    \* sources with a row in table sources
  table,      \* table excluded_senders
  lastRow,    \* its AUTOINCREMENT counter
  stored,     \* table messages
  named,      \* its column sender_username_normalized
  hidden,     \* its rows with hidden_by_exclusion = 1
  editor,     \* where each request stands
  sync,       \* where each sync stands
  answered,   \* history: rows whose own sender was excluded with success
  late        \* history: messages a sync had in hand when that was answered

rows == <<present, table, lastRow, stored, named, hidden>>
vars == <<handle, present, table, lastRow, stored, named, hidden, editor, sync,
          answered, late>>
past == <<answered, late>>

\* Add refuses a sender with neither id nor username.
Rows == {e \in [row : 1 .. LastRow, id : Accounts \cup {None},
                name : Names \cup {None}, place : Places,
                ref : Messages \cup {None}, text : Messages \cup {None}] :
           e.id # None \/ e.name # None}

(***************************************************************************)
(* FindMatching: by id if there is one, then by username if there is one.  *)
(* The unique indexes leave at most one row to each query.                 *)
(***************************************************************************)
ById(s, p)   == {e \in table : e.id = s.id /\ s.id # None /\ e.place = p}
ByName(s, p) == {e \in table : e.name = s.name /\ s.name # None /\ e.place = p}
Matches(s, p) == ById(s, p) \cup ByName(s, p)

\* senderWhere: messages are hidden by id, by username only if no id is given.
Wrote(s, m) == IF s.id # None THEN By[m] = s.id ELSE named[m] = s.name

Covers(p, m) == p \in {"global", In[m]}

SameKey(s, e) == IF e.id # None THEN s.id = e.id ELSE s.id = None /\ s.name = e.name

(***************************************************************************)
(* A request to edit.  pc names the next statement of AddSender:           *)
(*   byId, byName -> insert -> get -> hide    or    -> fill -> get -> hide *)
(* and of RemoveSender:  byId, byName -> delete.                           *)
(***************************************************************************)
NoSender == [id |-> None, name |-> None]
IdleEditor == [pc |-> "idle", op |-> "none", sender |-> NoSender,
               place |-> "none", ref |-> None, row |-> 0]

IdleSync == [pc |-> "idle", todo |-> {}, seen |-> [a \in Accounts |-> None]]

Init ==
  /\ handle = [a \in Accounts |-> None]
  /\ present = {}
  /\ table = {}
  /\ lastRow = 0
  /\ stored = {}
  /\ named = [m \in Messages |-> None]
  /\ hidden = {}
  /\ editor = [d \in Editors |-> IdleEditor]
  /\ sync = [s \in Syncers |-> IdleSync]
  /\ answered = {}
  /\ late = {}

IsNext(r, m) == m \in r.todo /\ \A k \in r.todo : m <= k

SetEditor(d, r) == editor' = [editor EXCEPT ![d] = r]

Request(op, s, p, m) ==
  [pc |-> "byId", op |-> op, sender |-> s, place |-> p, ref |-> m, row |-> 0]

BeginEdit(d, op, s, p) ==
  /\ editor[d].pc = "idle"
  /\ SetEditor(d, Request(op, s, p, None))
  /\ UNCHANGED <<handle, rows, sync, past>>

\* AddFromMessage takes the sender as the message was stored.  (A slip: by his
\* username only.)
BeginAddFromByName(d, m, p) ==
  /\ editor[d].pc = "idle"
  /\ m \in stored
  /\ SetEditor(d, Request("add", [id |-> None, name |-> named[m]], p, m))
  /\ UNCHANGED <<handle, rows, sync, past>>

BeginAddFrom(d, m, p) ==
  /\ editor[d].pc = "idle"
  /\ m \in stored
  /\ SetEditor(d, Request("add", [id |-> By[m], name |-> named[m]], p, m))
  /\ UNCHANGED <<handle, rows, sync, past>>

Look(d, pc, found, miss) ==
  LET r == editor[d]
      hit == IF r.op = "add" THEN "fill" ELSE "delete"
  IN /\ r.pc = pc
     /\ \/ \E e \in found : SetEditor(d, [r EXCEPT !.pc = hit, !.row = e.row])
        \/ found = {} /\ SetEditor(d, miss)
     /\ UNCHANGED <<handle, rows, sync, past>>

LookById(d) ==
  LET r == editor[d]
  IN Look(d, "byId", ById(r.sender, r.place), [r EXCEPT !.pc = "byName"])

LookByName(d) ==
  LET r == editor[d]
  IN Look(d, "byName", ByName(r.sender, r.place),
          IF r.op = "add" THEN [r EXCEPT !.pc = "insert"] ELSE IdleEditor)

\* AUTOINCREMENT never gives a number out again.  (NextRowReused is a slip: a plain
\* INTEGER PRIMARY KEY takes the highest number in the table plus one.)
NextRowReused ==
  IF table = {} THEN 1
  ELSE (CHOOSE n \in 1 .. LastRow :
          /\ \E e \in table : e.row = n
          /\ \A e \in table : e.row <= n) + 1
NextRow == lastRow + 1

\* The text of the evidence message is stored beside its id, link and date.
TextOf(m) == IF m \in Captioned THEN m ELSE None

\* The unique indexes refuse a second row for the id or the username.
Insert(d) ==
  LET r == editor[d]
  IN /\ r.pc = "insert"
     /\ \/ /\ Matches(r.sender, r.place) = {}
           /\ lastRow < LastRow
           /\ lastRow' = lastRow + 1
           /\ table' = table \cup
                {[row |-> NextRow, id |-> r.sender.id, name |-> r.sender.name,
                  place |-> r.place, ref |-> r.ref, text |-> TextOf(r.ref)]}
           /\ SetEditor(d, [r EXCEPT !.pc = "get", !.row = NextRow])
        \/ /\ Matches(r.sender, r.place) # {}
           /\ SetEditor(d, IdleEditor)
           /\ UNCHANGED <<table, lastRow>>
     /\ UNCHANGED <<handle, present, stored, named, hidden, sync, past>>

\* fillExisting completes the evidence column by column; the identity is left as
\* it is.  An update of a row that is gone matches nothing.
Filled(e, r) ==
  [e EXCEPT !.ref = IF e.ref = None THEN r.ref ELSE e.ref,
            !.text = IF e.text = None THEN TextOf(r.ref) ELSE e.text]

Fill(d) ==
  LET r == editor[d]
  IN /\ r.pc = "fill"
     /\ table' = {IF e.row = r.row THEN Filled(e, r) ELSE e : e \in table}
     /\ SetEditor(d, [r EXCEPT !.pc = "get"])
     /\ UNCHANGED <<handle, present, lastRow, stored, named, hidden, sync, past>>

\* Get reads the row back; a row gone meanwhile is an error, and nothing is hidden.
Get(d) ==
  LET r == editor[d]
  IN /\ r.pc = "get"
     /\ SetEditor(d, IF \E e \in table : e.row = r.row
                     THEN [r EXCEPT !.pc = "hide"] ELSE IdleEditor)
     /\ UNCHANGED <<handle, rows, sync, past>>

ToHide(r) == {m \in stored : Wrote(r.sender, m) /\ Covers(r.place, m)}

\* Messages whose check has begun.
InHand == {m \in Messages : \E s \in Syncers :
             IsNext(sync[s], m) /\ sync[s].pc # "globalId"}

HideBySender(d) ==
  LET r == editor[d]
  IN /\ r.pc = "hide"
     /\ hidden' = hidden \cup ToHide(r)
     /\ answered' = answered \cup
          {e.row : e \in {x \in table : x.row = r.row /\ SameKey(r.sender, x)}}
     /\ late' = (late \ ToHide(r)) \cup InHand
     /\ SetEditor(d, IdleEditor)
     /\ UNCHANGED <<handle, present, table, lastRow, stored, named, sync>>

DeleteRow(d) ==
  LET r == editor[d]
  IN /\ r.pc = "delete"
     /\ table' = {e \in table : e.row # r.row}
     /\ SetEditor(d, IdleEditor)
     /\ UNCHANGED <<handle, present, lastRow, stored, named, hidden, sync, past>>

\* Any statement can fail and the process can die.
EditorStops(d) ==
  /\ editor[d].pc # "idle"
  /\ SetEditor(d, IdleEditor)
  /\ UNCHANGED <<handle, rows, sync, past>>

(***************************************************************************)
(* A sync works off a batch; the usernames are those of the moment the     *)
(* batch was read.  IsExcluded is up to four queries.                      *)
(***************************************************************************)
SetSync(s, r) == sync' = [sync EXCEPT ![s] = r]

Author(r, m) == [id |-> By[m], name |-> r.seen[By[m]]]

BeginSync(s, src, batch) ==
  /\ sync[s].pc = "idle"
  /\ src \in present
  /\ batch # {} /\ \A m \in batch : In[m] = src
  /\ SetSync(s, [pc |-> "globalId", todo |-> batch, seen |-> handle])
  /\ UNCHANGED <<handle, rows, editor, past>>

\* With the last message the batch is done.
Proceed(r, m) ==
  IF r.todo = {m} THEN IdleSync
  ELSE [r EXCEPT !.pc = "globalId", !.todo = @ \ {m}]

Query(s, m, pc, found, next) ==
  LET r == sync[s]
  IN /\ r.pc = pc /\ IsNext(r, m)
     /\ SetSync(s, IF found # {} THEN Proceed(r, m) ELSE [r EXCEPT !.pc = next])
     /\ UNCHANGED <<handle, rows, editor, past>>

\* (A slip: the list of the source is not asked.)
IsExcludedGlobally(s, m) ==
  LET a == Author(sync[s], m)
  IN \/ Query(s, m, "globalId", ById(a, "global"), "globalName")
     \/ Query(s, m, "globalName", ByName(a, "global"), "save")

IsExcluded(s, m) ==
  LET a == Author(sync[s], m)
  IN \/ Query(s, m, "globalId", ById(a, "global"), "globalName")
     \/ Query(s, m, "globalName", ByName(a, "global"), "sourceId")
     \/ Query(s, m, "sourceId", ById(a, In[m]), "sourceName")
     \/ Query(s, m, "sourceName", ByName(a, In[m]), "save")

\* The upsert takes the username of the batch; without its source it is refused.
SaveMessage(s, m) ==
  LET r == sync[s]
  IN /\ r.pc = "save" /\ IsNext(r, m)
     /\ In[m] \in present
     /\ stored' = stored \cup {m}
     /\ named' = [named EXCEPT ![m] = Author(r, m).name]
     /\ hidden' = hidden \ {m}
     /\ SetSync(s, Proceed(r, m))
     /\ UNCHANGED <<handle, present, table, lastRow, editor, past>>

SyncStops(s) ==
  /\ sync[s].pc # "idle"
  /\ SetSync(s, IdleSync)
  /\ UNCHANGED <<handle, rows, editor, past>>

(***************************************************************************)
(* Telegram and the source commands.                                       *)
(***************************************************************************)
Rename(a, n) ==
  /\ n # handle[a]
  /\ n = None \/ \A b \in Accounts : handle[b] # n
  /\ handle' = [handle EXCEPT ![a] = n]
  /\ UNCHANGED <<rows, editor, sync, past>>

AddSource(src) ==
  /\ present' = present \cup {src}
  /\ UNCHANGED <<handle, table, lastRow, stored, named, hidden, editor, sync, past>>

OfSource(src) == {m \in stored : In[m] = src}

\* A plain removal, refused while messages refer to the source, leaves its
\* exclusions: a source added later under the same id finds them in force.
RemoveSource(src) ==
  /\ OfSource(src) = {}
  /\ present' = present \ {src}
  /\ UNCHANGED <<handle, table, lastRow, stored, named, hidden, editor, sync, past>>

PurgeSource(src) ==
  /\ present' = present \ {src}
  /\ table' = {e \in table : e.place # src}
  /\ stored' = stored \ OfSource(src)
  /\ hidden' = hidden \ OfSource(src)
  /\ named' = [m \in Messages |-> IF m \in OfSource(src) THEN None ELSE named[m]]
  /\ UNCHANGED <<handle, lastRow, editor, sync, past>>

(***************************************************************************)
(* The specification.                                                      *)
(***************************************************************************)
EditorStep(d) ==
  \/ LookById(d) \/ LookByName(d)
  \/ Insert(d) \/ Fill(d) \/ Get(d) \/ HideBySender(d)
  \/ DeleteRow(d)
  \/ EditorStops(d)

Edit(d) ==
  \/ \E op \in {"add", "remove"}, s \in Requests, p \in Places : BeginEdit(d, op, s, p)
  \/ \E m \in stored, p \in Places : BeginAddFrom(d, m, p)

SyncStep(s) ==
  \/ \E m \in sync[s].todo : IsExcluded(s, m)
  \/ \E m \in sync[s].todo : SaveMessage(s, m)
  \/ SyncStops(s)

Next ==
  \/ \E d \in Editors : Edit(d) \/ EditorStep(d)
  \/ \E s \in Syncers :
       \/ \E src \in Sources, batch \in SUBSET Messages : BeginSync(s, src, batch)
       \/ SyncStep(s)
  \/ \E a \in Accounts, n \in Names \cup {None} : Rename(a, n)
  \/ \E src \in Sources : AddSource(src) \/ RemoveSource(src) \/ PurgeSource(src)

Spec == Init /\ [][Next]_vars

(***************************************************************************)
(* Properties.                                                             *)
(***************************************************************************)
EditorRecords ==
  [pc : {"idle", "byId", "byName", "insert", "fill", "get", "hide", "delete"},
   op : {"none", "add", "remove"}, sender : Senders \cup {NoSender},
   place : Places \cup {"none"}, ref : Messages \cup {None}, row : 0 .. LastRow]

SyncRecords ==
  [pc : {"idle", "globalId", "globalName", "sourceId", "sourceName", "save"},
   todo : SUBSET Messages, seen : [Accounts -> Names \cup {None}]]

\* Every variable keeps its type.
TypeOK ==
  /\ handle \in [Accounts -> Names \cup {None}]
  /\ present \subseteq Sources
  /\ table \subseteq Rows
  /\ lastRow \in 0 .. LastRow
  /\ stored \subseteq Messages
  /\ named \in [Messages -> Names \cup {None}]
  /\ hidden \subseteq stored
  /\ editor \in [Editors -> EditorRecords]
  /\ \A d \in Editors : editor[d].pc # "idle" => /\ editor[d].sender \in Senders
                                                 /\ editor[d].place \in Places
  /\ sync \in [Syncers -> SyncRecords]
  /\ answered \subseteq 1 .. LastRow
  /\ late \subseteq Messages

\* Once AddSender was answered for the sender of a row, and as long as the row is
\* in the list, none of his messages comes back but those a sync was checking or
\* saving at that moment: whatever id or username the row goes by, whoever carries
\* that name, whether or not an earlier attempt stopped between insert and hide, and
\* however often its source is removed and added again.
ExclusionKept ==
  \A e \in table, m \in stored \ hidden :
    e.row \in answered /\ Wrote(e, m) /\ Covers(e.place, m) => m \in late

\* A row found by one statement and changed or deleted by a later one, by its
\* number, is still a row of the sender the request named: nobody is taken off
\* the list, or charged with evidence, in place of somebody else.
HitsItsSender ==
  [][\A e \in table \ table' :
       \/ e.place \in Sources \ present'
       \/ \E d \in Editors :
            LET r == editor[d]
            IN r.pc \in {"fill", "delete"} /\ e \in Matches(r.sender, r.place)]_vars

\* "Store the evidence message that caused a sender to be excluded" (README): what
\* is stored as evidence is one message.
EvidenceIsOneMessage == \A e \in table : e.text # None => e.text = e.ref

(***************************************************************************)
(* The list as one object.                                                 *)
(***************************************************************************)
Checking(r) ==
  IF r.pc \in {"idle", "globalId"} THEN {} ELSE {m \in r.todo : IsNext(r, m)}

\* However many statements an addition, a removal or a check takes, and whatever comes
\* in between, each has the effect of one step on the list: one entry is added, with
\* no other of its id or username there, one entry of the named sender is taken off,
\* and a message is shown only if the list, at the moment of its save, allows it.
List == INSTANCE Blocklist WITH
  entries  <- table,
  drawn    <- 1 .. lastRow,
  inForce  <- answered,
  wish     <- editor,
  checking <- [s \in Syncers |-> Checking(sync[s])],
  shown    <- stored \ hidden,
  excused  <- late

KeepsList == List!Spec
===============================================================================
