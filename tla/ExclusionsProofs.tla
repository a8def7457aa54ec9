--------------------------- MODULE ExclusionsProofs ---------------------------
(***************************************************************************)
(* Proofs about Exclusions, for any number of accounts, usernames,         *)
(* sources, editors and syncs.                                             *)
(***************************************************************************)
EXTENDS Exclusions, TLAPS

\* An editor changes his own record only.
LEMMA OneEditor ==
  ASSUME TypeOK, NEW d \in Editors, NEW q, SetEditor(d, q)
  PROVE  editor'[d] = q /\ \A c \in Editors \ {d} : editor'[c] = editor[c]
BY DEF TypeOK, SetEditor

LEMMA OneSync ==
  ASSUME TypeOK, NEW s \in Syncers, NEW q, SetSync(s, q)
  PROVE  sync'[s] = q /\ \A t \in Syncers \ {s} : sync'[t] = sync[t]
BY DEF TypeOK, SetSync

\* A well-typed editor record: what TypeOK says of each.
GoodEditor(q) ==
  /\ q \in EditorRecords
  /\ q.pc # "idle" => q.sender \in Senders /\ q.place \in Places

LEMMA SetEditorType ==
  ASSUME TypeOK, NEW d \in Editors, NEW q, GoodEditor(q), SetEditor(d, q)
  PROVE  /\ editor' \in [Editors -> EditorRecords]
         /\ \A c \in Editors : editor'[c].pc # "idle" => /\ editor'[c].sender \in Senders
                                                         /\ editor'[c].place \in Places
<1>1. editor' \in [Editors -> EditorRecords]
  BY DEF TypeOK, SetEditor, GoodEditor
<1>2. \A c \in Editors : editor'[c] = q \/ editor'[c] = editor[c]
  BY OneEditor
<1>3. QED
  BY <1>1, <1>2 DEF TypeOK, GoodEditor

LEMMA IdleEditorIsGood == GoodEditor(IdleEditor)
BY LastRowAssumption DEF GoodEditor, IdleEditor, EditorRecords, NoSender, LastRowAssumption

\* Moving on keeps a record good.
LEMMA GoodMoves ==
  ASSUME TypeOK, NEW d \in Editors, editor[d].pc # "idle",
         NEW pc \in {"byName", "insert", "fill", "get", "hide", "delete"},
         NEW row \in 0 .. LastRow
  PROVE  /\ GoodEditor([editor[d] EXCEPT !.pc = pc])
         /\ GoodEditor([editor[d] EXCEPT !.pc = pc, !.row = row])
<1> DEFINE r == editor[d]
<1>1. r \in EditorRecords /\ r.sender \in Senders /\ r.place \in Places
  BY DEF TypeOK
<1> HIDE DEF r
<1>2. /\ [r EXCEPT !.pc = pc] \in EditorRecords
      /\ [r EXCEPT !.pc = pc].sender = r.sender
      /\ [r EXCEPT !.pc = pc].place = r.place
  BY <1>1 DEF EditorRecords
<1>3. /\ [r EXCEPT !.pc = pc, !.row = row] \in EditorRecords
      /\ [r EXCEPT !.pc = pc, !.row = row].sender = r.sender
      /\ [r EXCEPT !.pc = pc, !.row = row].place = r.place
  BY <1>1 DEF EditorRecords
<1>4. GoodEditor([r EXCEPT !.pc = pc]) /\ GoodEditor([r EXCEPT !.pc = pc, !.row = row])
  BY <1>1, <1>2, <1>3 DEF GoodEditor
<1>5. QED
  BY <1>4 DEF r

\* What every step of an editor does to his record.
LEMMA EditorMoves ==
  ASSUME TypeOK, NEW d \in Editors, Edit(d) \/ EditorStep(d)
  PROVE  \E q : GoodEditor(q) /\ SetEditor(d, q)
<1> DEFINE r == editor[d]
<1>1. CASE EditorStops(d)
  BY <1>1, IdleEditorIsGood DEF EditorStops
<1>2. CASE Edit(d)
  <2>1. \A op \in {"add", "remove"}, s \in Senders, p \in Places, m \in Messages \cup {None} :
          GoodEditor(Request(op, s, p, m))
    BY LastRowAssumption DEF GoodEditor, Request, EditorRecords, LastRowAssumption
  <2>2. CASE \E op \in {"add", "remove"}, s \in Requests, p \in Places : BeginEdit(d, op, s, p)
    BY <2>1, <2>2, RequestsAssumption DEF BeginEdit, RequestsAssumption
  <2>3. ASSUME NEW m \in stored, NEW p \in Places, BeginAddFrom(d, m, p)
        PROVE  \E q : GoodEditor(q) /\ SetEditor(d, q)
    <3> DEFINE s == [id |-> By[m], name |-> named[m]]
    <3>1. m \in Messages /\ By[m] \in Accounts /\ named[m] \in Names \cup {None}
      BY MessagesAssumption DEF TypeOK, MessagesAssumption
    <3>2. By[m] # None
      BY <3>1, NoneAssumption DEF NoneAssumption
    <3>3. s \in Senders
      BY <3>1, <3>2 DEF Senders
    <3>4. SetEditor(d, Request("add", s, p, m))
      BY <2>3 DEF BeginAddFrom
    <3>5. QED
      BY <2>1, <3>1, <3>3, <3>4
  <2>4. QED
    BY <1>2, <2>2, <2>3 DEF Edit
<1>3. CASE LookById(d) \/ LookByName(d)
  <2>1. r.pc # "idle"
    BY <1>3 DEF LookById, LookByName, Look
  <2>2. \A e \in table : e.row \in 0 .. LastRow
    BY DEF TypeOK, Rows
  <2>3. ASSUME NEW e \in table, NEW pc \in {"fill", "delete"},
               SetEditor(d, [r EXCEPT !.pc = pc, !.row = e.row])
        PROVE  \E q : GoodEditor(q) /\ SetEditor(d, q)
    BY <2>1, <2>2, <2>3, GoodMoves
  <2>4. ASSUME NEW pc \in {"byName", "insert"}, SetEditor(d, [r EXCEPT !.pc = pc])
        PROVE  \E q : GoodEditor(q) /\ SetEditor(d, q)
    <3>1. 0 \in 0 .. LastRow
      BY LastRowAssumption DEF LastRowAssumption
    <3>2. GoodEditor([r EXCEPT !.pc = pc])
      BY <2>1, <3>1, GoodMoves
    <3>3. QED
      BY <2>4, <3>2
  <2>5. \/ \E e \in table, pc \in {"fill", "delete"} :
             SetEditor(d, [r EXCEPT !.pc = pc, !.row = e.row])
        \/ \E pc \in {"byName", "insert"} : SetEditor(d, [r EXCEPT !.pc = pc])
        \/ SetEditor(d, IdleEditor)
    <3>1. CASE LookById(d)
      BY <3>1 DEF LookById, Look, ById
    <3>2. CASE LookByName(d)
      BY <3>2 DEF LookByName, Look, ByName
    <3>3. QED
      BY <1>3, <3>1, <3>2
  <2>6. QED
    BY <2>3, <2>4, <2>5, IdleEditorIsGood
<1>4. CASE Insert(d)
  <2>1. r.pc # "idle"
    BY <1>4 DEF Insert
  <2>2. CASE SetEditor(d, IdleEditor)
    BY <2>2, IdleEditorIsGood
  <2>3. CASE lastRow < LastRow /\ SetEditor(d, [r EXCEPT !.pc = "get", !.row = NextRow])
    <3>1. NextRow \in 0 .. LastRow
      BY <2>3, LastRowAssumption DEF TypeOK, NextRow, LastRowAssumption
    <3>2. QED
      BY <2>1, <2>3, <3>1, GoodMoves
  <2>4. QED
    BY <1>4, <2>2, <2>3 DEF Insert
<1>5. CASE Fill(d) \/ Get(d)
  <2>1. 0 \in 0 .. LastRow /\ r.pc # "idle"
    BY <1>5, LastRowAssumption DEF LastRowAssumption, Fill, Get
  <2>2. GoodEditor([r EXCEPT !.pc = "get"]) /\ GoodEditor([r EXCEPT !.pc = "hide"])
    BY <2>1, GoodMoves
  <2>3. \/ SetEditor(d, [r EXCEPT !.pc = "get"])
        \/ SetEditor(d, [r EXCEPT !.pc = "hide"])
        \/ SetEditor(d, IdleEditor)
    BY <1>5 DEF Fill, Get
  <2>4. QED
    BY <2>2, <2>3, IdleEditorIsGood
<1>6. CASE HideBySender(d) \/ DeleteRow(d)
  BY <1>6, IdleEditorIsGood DEF HideBySender, DeleteRow
<1>7. QED
  BY <1>1, <1>2, <1>3, <1>4, <1>5, <1>6 DEF EditorStep

\* An editor touches the sources, the names and the syncs in no way.
LEMMA EditorTouches ==
  ASSUME NEW d \in Editors, Edit(d) \/ EditorStep(d)
  PROVE  /\ UNCHANGED <<handle, present, stored, named, sync>>
         /\ HideBySender(d) \/ UNCHANGED <<hidden, answered, late>>
         /\ Insert(d) \/ lastRow' = lastRow
         /\ Insert(d) \/ Fill(d) \/ DeleteRow(d) \/ table' = table
BY DEF Edit, EditorStep, BeginEdit, BeginAddFrom, LookById, LookByName, Look, Insert, Fill,
   Get, HideBySender, DeleteRow, EditorStops, rows, past

\* What an insert does to the table, if it is not refused.
LEMMA Inserted ==
  ASSUME NEW d \in Editors, Insert(d)
  PROVE  \/ UNCHANGED <<table, lastRow>> /\ SetEditor(d, IdleEditor)
         \/ LET r == editor[d]
            IN /\ lastRow < LastRow /\ lastRow' = lastRow + 1
               /\ table' = table \cup
                    {[row |-> lastRow + 1, id |-> r.sender.id, name |-> r.sender.name,
                      place |-> r.place, ref |-> r.ref, text |-> TextOf(r.ref)]}
               /\ SetEditor(d, [r EXCEPT !.pc = "get", !.row = lastRow + 1])
BY DEF Insert, NextRow

\* Completing the evidence leaves the row and the sender as they are.
LEMMA FilledRow ==
  ASSUME TypeOK, NEW d \in Editors, editor[d].pc # "idle", NEW e \in table
  PROVE  LET f == Filled(e, editor[d])
         IN /\ f \in Rows
            /\ f.row = e.row /\ f.id = e.id /\ f.name = e.name /\ f.place = e.place
<1> DEFINE r == editor[d]
<1>1. r.ref \in Messages \cup {None} /\ TextOf(r.ref) \in Messages \cup {None}
  BY DEF TypeOK, EditorRecords, TextOf
<1>2. e \in Rows
  BY DEF TypeOK
<1> HIDE DEF r
<1>3. /\ Filled(e, r) \in Rows
      /\ Filled(e, r).row = e.row /\ Filled(e, r).id = e.id
      /\ Filled(e, r).name = e.name /\ Filled(e, r).place = e.place
  BY <1>1, <1>2 DEF Filled, Rows
<1>4. QED
  BY <1>3 DEF r

\* The statements of an editor keep the tables' types.
LEMMA EditorTypes ==
  ASSUME TypeOK, NEW d \in Editors, Edit(d) \/ EditorStep(d)
  PROVE  TypeOK'
<1> DEFINE r == editor[d]
<1>1. table' \subseteq Rows /\ lastRow' \in 0 .. LastRow
  <2>1. CASE Insert(d)
    <3>1. CASE UNCHANGED <<table, lastRow>>
      BY <3>1 DEF TypeOK
    <3>2. CASE /\ lastRow < LastRow /\ lastRow' = lastRow + 1
               /\ table' = table \cup
                    {[row |-> lastRow + 1, id |-> r.sender.id, name |-> r.sender.name,
                      place |-> r.place, ref |-> r.ref, text |-> TextOf(r.ref)]}
      <4>1. lastRow + 1 \in 1 .. LastRow
        BY <3>2, LastRowAssumption DEF TypeOK, LastRowAssumption
      <4>2. /\ r.sender \in Senders /\ r.place \in Places
            /\ r.ref \in Messages \cup {None} /\ TextOf(r.ref) \in Messages \cup {None}
        BY <2>1 DEF Insert, TypeOK, EditorRecords, TextOf
      <4> HIDE DEF r
      <4>3. [row |-> lastRow + 1, id |-> r.sender.id, name |-> r.sender.name,
             place |-> r.place, ref |-> r.ref, text |-> TextOf(r.ref)] \in Rows
        BY <4>1, <4>2 DEF Rows, Senders
      <4>4. QED
        BY <3>2, <4>1, <4>3 DEF TypeOK
    <3>3. QED
      BY <2>1, <3>1, <3>2, Inserted
  <2>2. CASE Fill(d)
    BY <2>2, FilledRow, EditorTouches DEF Fill, TypeOK
  <2>3. CASE DeleteRow(d)
    BY <2>3 DEF DeleteRow, TypeOK
  <2>4. CASE table' = table /\ lastRow' = lastRow
    BY <2>4 DEF TypeOK
  <2>5. QED
    BY <2>1, <2>2, <2>3, <2>4, EditorTouches
<1>2. /\ hidden' \subseteq stored
      /\ answered' \subseteq 1 .. LastRow
      /\ late' \subseteq Messages
  <2>1. CASE HideBySender(d)
    BY <2>1 DEF HideBySender, ToHide, InHand, TypeOK, Rows
  <2>2. CASE UNCHANGED <<hidden, answered, late>>
    BY <2>2 DEF TypeOK
  <2>3. QED
    BY <2>1, <2>2, EditorTouches
<1>3. UNCHANGED <<handle, present, stored, named, sync>>
  BY EditorTouches
<1>4. /\ editor' \in [Editors -> EditorRecords]
      /\ \A c \in Editors : editor'[c].pc # "idle" => /\ editor'[c].sender \in Senders
                                                      /\ editor'[c].place \in Places
  BY EditorMoves, SetEditorType
<1>5. QED
  BY <1>1, <1>2, <1>3, <1>4 DEF TypeOK

\* A sync goes on with a record of its own.
LEMMA SyncTypes ==
  ASSUME TypeOK, NEW s \in Syncers,
         \/ \E src \in Sources, batch \in SUBSET Messages : BeginSync(s, src, batch)
         \/ SyncStep(s)
  PROVE  TypeOK'
<1> DEFINE r == sync[s]
<1>1. r \in SyncRecords
  BY DEF TypeOK
<1>2. IdleSync \in SyncRecords
  BY DEF IdleSync, SyncRecords
<1>3. ASSUME NEW m PROVE Proceed(r, m) \in SyncRecords
  BY <1>1, <1>2 DEF Proceed, SyncRecords
<1>4. \A q \in SyncRecords : SetSync(s, q) => sync' \in [Syncers -> SyncRecords]
  BY DEF TypeOK, SetSync
<1>5. CASE \E src \in Sources, batch \in SUBSET Messages : BeginSync(s, src, batch)
  <2>1. PICK batch \in SUBSET Messages :
          SetSync(s, [pc |-> "globalId", todo |-> batch, seen |-> handle])
    BY <1>5 DEF BeginSync
  <2>2. [pc |-> "globalId", todo |-> batch, seen |-> handle] \in SyncRecords
    BY DEF TypeOK, SyncRecords
  <2>3. UNCHANGED <<handle, rows, editor, past>>
    BY <1>5 DEF BeginSync
  <2>4. QED
    BY <1>4, <2>1, <2>2, <2>3 DEF TypeOK, rows, past
<1>6. ASSUME NEW m \in r.todo, IsExcluded(s, m) PROVE TypeOK'
  <2>1. \A pc \in {"globalName", "sourceId", "sourceName", "save"} :
          [r EXCEPT !.pc = pc] \in SyncRecords
    BY <1>1 DEF SyncRecords
  <2>2. \/ SetSync(s, Proceed(r, m))
        \/ \E pc2 \in {"globalName", "sourceId", "sourceName", "save"} :
             SetSync(s, [r EXCEPT !.pc = pc2])
    BY <1>6 DEF IsExcluded, Query
  <2>3. sync' \in [Syncers -> SyncRecords]
    BY <1>3, <1>4, <2>1, <2>2
  <2>4. UNCHANGED <<handle, rows, editor, past>>
    BY <1>6 DEF IsExcluded, Query
  <2>5. QED
    BY <2>3, <2>4 DEF TypeOK, rows, past
<1>7. ASSUME NEW m \in r.todo, SaveMessage(s, m) PROVE TypeOK'
  <2>1. m \in Messages /\ By[m] \in Accounts
    BY <1>1, MessagesAssumption DEF SyncRecords, MessagesAssumption
  <2>2. Author(r, m).name \in Names \cup {None}
    BY <1>1, <2>1 DEF Author, SyncRecords
  <2>3. named' \in [Messages -> Names \cup {None}]
    BY <1>7, <2>2 DEF SaveMessage, TypeOK
  <2>4. stored' \subseteq Messages /\ hidden' \subseteq stored'
    BY <1>7, <2>1 DEF SaveMessage, TypeOK
  <2>5. sync' \in [Syncers -> SyncRecords]
    BY <1>3, <1>4, <1>7 DEF SaveMessage
  <2>6. UNCHANGED <<handle, present, table, lastRow, editor, past>>
    BY <1>7 DEF SaveMessage
  <2>7. QED
    BY <2>3, <2>4, <2>5, <2>6 DEF TypeOK, past
<1>8. CASE SyncStops(s)
  BY <1>2, <1>4, <1>8 DEF SyncStops, TypeOK, rows, past
<1>9. QED
  BY <1>5, <1>6, <1>7, <1>8 DEF SyncStep

\* Telegram and the commands on sources.
Outside ==
  \/ \E a \in Accounts, n \in Names \cup {None} : Rename(a, n)
  \/ \E src \in Sources : AddSource(src) \/ RemoveSource(src) \/ PurgeSource(src)

LEMMA OutsideTypes ==
  ASSUME TypeOK, Outside
  PROVE  TypeOK'
<1>1. ASSUME NEW a \in Accounts, NEW n \in Names \cup {None}, Rename(a, n) PROVE TypeOK'
  BY <1>1 DEF Rename, TypeOK, rows, past
<1>2. ASSUME NEW src \in Sources, AddSource(src) \/ RemoveSource(src) PROVE TypeOK'
  BY <1>2 DEF AddSource, RemoveSource, TypeOK, past
<1>3. ASSUME NEW src \in Sources, PurgeSource(src) PROVE TypeOK'
  <2>1. named' \in [Messages -> Names \cup {None}]
    BY <1>3 DEF PurgeSource, TypeOK
  <2>2. present' \subseteq Sources /\ table' \subseteq Rows
    BY <1>3 DEF PurgeSource, TypeOK
  <2>3. stored' \subseteq Messages /\ hidden' \subseteq stored'
    BY <1>3 DEF PurgeSource, TypeOK
  <2>4. UNCHANGED <<handle, lastRow, editor, sync, answered, late>>
    BY <1>3 DEF PurgeSource, past
  <2>5. QED
    BY <2>1, <2>2, <2>3, <2>4 DEF TypeOK
<1>4. QED
  BY <1>1, <1>2, <1>3 DEF Outside

LEMMA TypeStep == TypeOK /\ [Next]_vars => TypeOK'
<1>1. TypeOK /\ UNCHANGED vars => TypeOK'
  BY DEF TypeOK, vars
<1>2. QED
  BY <1>1, EditorTypes, SyncTypes, OutsideTypes DEF Next, Outside

LEMMA TypeInit == Init => TypeOK
<1>1. IdleEditor \in EditorRecords /\ IdleEditor.pc = "idle" /\ IdleSync \in SyncRecords
  BY LastRowAssumption DEF IdleEditor, EditorRecords, NoSender, IdleSync, SyncRecords,
     LastRowAssumption
<1>2. QED
  BY <1>1, LastRowAssumption DEF Init, TypeOK, LastRowAssumption

\* The tables, the requests and the syncs keep their types, and no row of
\* excluded_senders is without an id and a username (exclusions/repository.go, Add).
THEOREM ExclusionsTypeCorrect == Spec => []TypeOK
BY TypeInit, TypeStep, PTL DEF Spec

(***************************************************************************)
(* Row numbers.  A row is known by its number between two statements, so   *)
(* what an editor found is what he meets again, or it is gone.             *)
(***************************************************************************)
RowsNumbered ==
  /\ \A e \in table : e.row <= lastRow
  /\ \A e, f \in table : e.row = f.row => e = f
  /\ \A n \in answered : n <= lastRow

OnTrack(d) ==
  LET r == editor[d]
  IN /\ r.pc \in {"fill", "get", "hide", "delete"} => r.row <= lastRow
     /\ r.pc \in {"fill", "delete"} =>
          \A e \in table : e.row = r.row => e \in Matches(r.sender, r.place)
     /\ r.pc \in {"get", "hide"} => \A e \in table : e.row = r.row => e.place = r.place

ListInv == RowsNumbered /\ \A d \in Editors : OnTrack(d)

SameRow(e, f) == e.row = f.row /\ e.id = f.id /\ e.name = f.name /\ e.place = f.place

\* A step leaves the rows under their numbers, or adds one under a new number.
RowsKept ==
  /\ lastRow' \in {lastRow, lastRow + 1}
  /\ \A f \in table' : (\E e \in table : SameRow(e, f))
                       \/ (f.row = lastRow + 1 /\ lastRow' = lastRow + 1)

LEMMA StepKeepsRows ==
  ASSUME TypeOK, [Next]_vars
  PROVE  RowsKept
<1>0. \A e \in table : SameRow(e, e)
  BY DEF SameRow
<1>1. CASE table' \subseteq table /\ lastRow' = lastRow
  BY <1>0, <1>1 DEF RowsKept
<1>2. ASSUME NEW d \in Editors, Insert(d) PROVE RowsKept
  <2>1. CASE UNCHANGED <<table, lastRow>>
    BY <1>1, <2>1
  <2>2. ASSUME NEW f, f.row = lastRow + 1, table' = table \cup {f}, lastRow' = lastRow + 1
        PROVE  RowsKept
    BY <1>0, <2>2 DEF RowsKept
  <2>3. QED
    BY <1>2, <2>1, <2>2, Inserted
<1>3. ASSUME NEW d \in Editors, Fill(d) PROVE RowsKept
  <2>1. \A e \in table : SameRow(e, Filled(e, editor[d]))
    BY <1>3, FilledRow DEF Fill, SameRow
  <2>2. table' = {IF e.row = editor[d].row THEN Filled(e, editor[d]) ELSE e : e \in table}
        /\ lastRow' = lastRow
    BY <1>3 DEF Fill
  <2>3. QED
    BY <1>0, <2>1, <2>2 DEF RowsKept
<1>4. CASE UNCHANGED vars
  BY <1>1, <1>4 DEF vars
<1>5. ASSUME NEW d \in Editors, Edit(d) \/ EditorStep(d) PROVE RowsKept
  <2>1. CASE DeleteRow(d)
    BY <1>1, <2>1 DEF DeleteRow
  <2>2. QED
    BY <1>1, <1>2, <1>3, <1>5, <2>1, EditorTouches
<1>6. ASSUME NEW s \in Syncers,
             \/ \E src \in Sources, batch \in SUBSET Messages : BeginSync(s, src, batch)
             \/ SyncStep(s)
      PROVE  RowsKept
  BY <1>1, <1>6 DEF BeginSync, SyncStep, IsExcluded, Query, SaveMessage, SyncStops, rows
<1>7. CASE Outside
  BY <1>1, <1>7 DEF Outside, Rename, AddSource, RemoveSource, PurgeSource, rows
<1>8. QED
  BY <1>4, <1>5, <1>6, <1>7 DEF Next, Outside

\* Who does not move stays on track.
LEMMA TrackKept ==
  ASSUME TypeOK, RowsKept, NEW d \in Editors, OnTrack(d), editor'[d] = editor[d]
  PROVE  OnTrack(d)'
<1> DEFINE r == editor[d]
<1>0. lastRow \in Nat /\ \A e \in table : e.row \in Nat
  BY LastRowAssumption DEF TypeOK, Rows, LastRowAssumption
<1>1. r.row \in Nat
  BY LastRowAssumption DEF TypeOK, EditorRecords, LastRowAssumption
<1>2. ASSUME r.row <= lastRow, NEW f \in table', f.row = r.row
      PROVE  \E e \in table : SameRow(e, f)
  BY <1>0, <1>1, <1>2 DEF RowsKept
<1>3. r.row <= lastRow => r.row <= lastRow'
  BY <1>0, <1>1 DEF RowsKept
<1>4. ASSUME NEW e \in table, NEW f \in table', SameRow(e, f),
             e \in Matches(r.sender, r.place)
      PROVE  f \in Matches(r.sender, r.place)'
  BY <1>4 DEF SameRow, Matches, ById, ByName
<1>5. r.pc \in {"fill", "delete"} =>
        \A f \in table' : f.row = r.row => f \in Matches(r.sender, r.place)'
  BY <1>2, <1>4 DEF OnTrack, SameRow
<1>6. r.pc \in {"get", "hide"} => \A f \in table' : f.row = r.row => f.place = r.place
  BY <1>2 DEF OnTrack, SameRow
<1>7. QED
  BY <1>3, <1>5, <1>6 DEF OnTrack

LEMMA ListStep ==
  ASSUME TypeOK, TypeOK', ListInv, [Next]_vars
  PROVE  ListInv'
<1>0. /\ RowsKept /\ lastRow \in Nat /\ lastRow' \in Nat /\ answered \subseteq Nat
      /\ \A e \in table : e.row \in Nat
  BY StepKeepsRows, LastRowAssumption DEF TypeOK, Rows, LastRowAssumption
<1>1. CASE /\ table' \subseteq table /\ answered' = answered
           /\ editor' = editor
  <2>1. RowsNumbered'
    <3>1. lastRow <= lastRow'
      BY <1>0 DEF RowsKept
    <3>2. \A e \in table : e.row <= lastRow'
      BY <1>0, <3>1 DEF ListInv, RowsNumbered
    <3>3. \A n \in answered : n <= lastRow'
      BY <1>0, <3>1 DEF ListInv, RowsNumbered
    <3>4. QED
      BY <1>1, <3>2, <3>3 DEF ListInv, RowsNumbered
  <2>2. QED
    BY <1>0, <1>1, <2>1, TrackKept DEF ListInv
<1>2. ASSUME NEW d \in Editors, Edit(d) \/ EditorStep(d)
      PROVE  ListInv'
  <2> DEFINE r == editor[d]
  <2>0. OnTrack(d) /\ RowsNumbered
    BY DEF ListInv
  <2>1. PICK q : SetEditor(d, q)
    BY <1>2, EditorMoves
  <2>2. editor'[d] = q /\ \A c \in Editors \ {d} : OnTrack(c)'
    BY <1>0, <2>1, OneEditor, TrackKept DEF ListInv
  <2>3. CASE Insert(d)
    <3> DEFINE new == [row |-> lastRow + 1, id |-> r.sender.id, name |-> r.sender.name,
                       place |-> r.place, ref |-> r.ref, text |-> TextOf(r.ref)]
    <3>1. answered' = answered
      BY <2>3 DEF Insert, past
    <3>2. CASE UNCHANGED <<table, lastRow>> /\ editor'[d] = IdleEditor
      <4>1. RowsNumbered'
        BY <2>0, <3>1, <3>2 DEF RowsNumbered
      <4>2. OnTrack(d)'
        BY <3>2 DEF OnTrack, IdleEditor
      <4>3. QED
        BY <2>2, <4>1, <4>2 DEF ListInv
    <3>3. CASE /\ lastRow' = lastRow + 1 /\ table' = table \cup {new}
               /\ editor'[d] = [r EXCEPT !.pc = "get", !.row = lastRow + 1]
      <4>1. new.row = lastRow + 1 /\ new.place = r.place
        OBVIOUS
      <4>2. editor'[d].pc = "get" /\ editor'[d].row = lastRow + 1 /\ editor'[d].place = r.place
        BY <3>3 DEF TypeOK, EditorRecords
      <4> HIDE DEF new
      <4>3. /\ \A e \in table' : e.row <= lastRow'
            /\ \A e, f \in table' : e.row = f.row => e = f
        BY <1>0, <2>0, <3>3, <4>1 DEF RowsNumbered
      <4>4. \A n \in answered' : n <= lastRow'
        BY <1>0, <2>0, <3>1, <3>3 DEF RowsNumbered, TypeOK
      <4>5. OnTrack(d)'
        BY <1>0, <2>0, <3>3, <4>1, <4>2 DEF RowsNumbered, OnTrack
      <4>6. QED
        BY <2>2, <4>3, <4>4, <4>5 DEF ListInv, RowsNumbered
    <3>4. QED
      BY <2>3, <3>2, <3>3, Inserted, OneEditor
  <2>4. CASE Fill(d)
    <3>1. /\ r.pc = "fill" /\ editor'[d] = [r EXCEPT !.pc = "get"]
          /\ UNCHANGED <<lastRow, answered>>
          /\ table' = {IF e.row = r.row THEN Filled(e, r) ELSE e : e \in table}
      BY <2>4, OneEditor DEF Fill, past
    <3>2. \A e \in table : SameRow(e, Filled(e, r))
      BY <3>1, FilledRow DEF SameRow
    <3>3. RowsNumbered'
      BY <2>0, <3>1, <3>2 DEF RowsNumbered, SameRow
    <3>4. editor'[d].pc = "get" /\ editor'[d].row = r.row /\ editor'[d].place = r.place
      BY <3>1 DEF TypeOK, EditorRecords
    <3>5. r.row <= lastRow /\ \A e \in table : e.row = r.row => e.place = r.place
      BY <2>0, <3>1 DEF OnTrack, Matches, ById, ByName
    <3>6. \A f \in table' : f.row = r.row => f.place = r.place
      BY <3>1, <3>2, <3>5 DEF SameRow
    <3>7. OnTrack(d)'
      BY <3>1, <3>4, <3>5, <3>6 DEF OnTrack
    <3>8. QED
      BY <2>2, <3>3, <3>7 DEF ListInv
  <2>5. CASE HideBySender(d)
    <3>1. /\ r.pc = "hide" /\ editor'[d] = IdleEditor /\ UNCHANGED <<table, lastRow>>
          /\ answered' = answered \cup
               {e.row : e \in {x \in table : x.row = r.row /\ SameKey(r.sender, x)}}
      BY <2>5, OneEditor DEF HideBySender
    <3>2. RowsNumbered'
      BY <2>0, <3>1 DEF RowsNumbered
    <3>3. OnTrack(d)'
      BY <3>1 DEF OnTrack, IdleEditor
    <3>4. QED
      BY <2>2, <3>2, <3>3 DEF ListInv
  <2>6. CASE LookById(d) \/ LookByName(d)
    <3>1. UNCHANGED <<table, lastRow, answered>>
      BY <2>6 DEF LookById, LookByName, Look, rows, past
    <3>2. CASE editor'[d].pc \in {"idle", "byName", "insert"}
      <4>1. OnTrack(d)'
        BY <3>2 DEF OnTrack
      <4>2. QED
        BY <2>0, <2>2, <3>1, <4>1 DEF ListInv, RowsNumbered
    <3>3. ASSUME NEW e \in Matches(r.sender, r.place), NEW pc \in {"fill", "delete"},
                 SetEditor(d, [r EXCEPT !.pc = pc, !.row = e.row])
          PROVE  ListInv'
      <4>1. editor'[d] = [r EXCEPT !.pc = pc, !.row = e.row]
        BY <3>3, OneEditor
      <4>2. /\ editor'[d].pc = pc /\ editor'[d].row = e.row
            /\ editor'[d].sender = r.sender /\ editor'[d].place = r.place
        BY <4>1 DEF TypeOK, EditorRecords
      <4>3. e \in table
        BY DEF Matches, ById, ByName
      <4>4. \A f \in table : f.row = e.row => f \in Matches(r.sender, r.place)
        BY <2>0, <4>3 DEF RowsNumbered
      <4>5. Matches(r.sender, r.place)' = Matches(r.sender, r.place)
        BY <3>1, <4>2 DEF Matches, ById, ByName
      <4>6. OnTrack(d)'
        BY <2>0, <3>1, <4>2, <4>3, <4>4 DEF OnTrack, RowsNumbered, Matches, ById, ByName
      <4>7. QED
        BY <2>0, <2>2, <3>1, <4>6 DEF ListInv, RowsNumbered
    <3>4. \/ editor'[d].pc \in {"idle", "byName", "insert"}
          \/ \E e \in Matches(r.sender, r.place), pc \in {"fill", "delete"} :
               SetEditor(d, [r EXCEPT !.pc = pc, !.row = e.row])
      <4>1. \A pc \in {"byName", "insert"} : [r EXCEPT !.pc = pc].pc = pc
        BY DEF TypeOK, EditorRecords
      <4>2. IdleEditor.pc = "idle"
        BY DEF IdleEditor
      <4>3. CASE LookById(d)
        BY <4>1, <4>3, OneEditor DEF LookById, Look, Matches
      <4>4. CASE LookByName(d)
        BY <4>1, <4>2, <4>4, OneEditor DEF LookByName, Look, Matches
      <4>5. QED
        BY <2>6, <4>3, <4>4
    <3>5. QED
      BY <3>2, <3>3, <3>4
  <2>7. CASE Get(d)
    <3>1. /\ UNCHANGED <<table, lastRow, answered>> /\ r.pc = "get"
          /\ editor'[d] \in {[r EXCEPT !.pc = "hide"], IdleEditor}
      BY <2>7, OneEditor DEF Get, rows, past
    <3>2. \/ editor'[d].pc = "idle"
          \/ /\ editor'[d].pc = "hide" /\ editor'[d].row = r.row
             /\ editor'[d].place = r.place
      BY <3>1 DEF TypeOK, EditorRecords, IdleEditor
    <3>3. OnTrack(d)'
      BY <2>0, <3>1, <3>2 DEF OnTrack
    <3>4. QED
      BY <2>0, <2>2, <3>1, <3>3 DEF ListInv, RowsNumbered
  <2>8. CASE Edit(d) \/ EditorStops(d) \/ DeleteRow(d)
    <3>1. table' \subseteq table /\ UNCHANGED <<lastRow, answered>>
      BY <2>8 DEF Edit, BeginEdit, BeginAddFrom, EditorStops, DeleteRow, rows, past
    <3>2. editor'[d].pc \in {"idle", "byId"}
      <4>1. CASE EditorStops(d) \/ DeleteRow(d)
        BY <4>1, OneEditor DEF EditorStops, DeleteRow, IdleEditor
      <4>2. CASE Edit(d)
        <5>1. PICK op, s, p, m : SetEditor(d, Request(op, s, p, m))
          BY <4>2 DEF Edit, BeginEdit, BeginAddFrom
        <5>2. Request(op, s, p, m).pc = "byId"
          BY DEF Request
        <5>3. QED
          BY <5>1, <5>2, OneEditor
      <4>3. QED
        BY <2>8, <4>1, <4>2
    <3>3. OnTrack(d)'
      BY <3>2 DEF OnTrack
    <3>4. RowsNumbered'
      BY <2>0, <3>1 DEF RowsNumbered
    <3>5. QED
      BY <2>2, <3>3, <3>4 DEF ListInv
  <2>9. QED
    BY <1>2, <2>3, <2>4, <2>5, <2>6, <2>7, <2>8 DEF EditorStep
<1>3. ASSUME NEW s \in Syncers,
             \/ \E src \in Sources, batch \in SUBSET Messages : BeginSync(s, src, batch)
             \/ SyncStep(s)
      PROVE  ListInv'
  BY <1>1, <1>3 DEF BeginSync, SyncStep, IsExcluded, Query, SaveMessage, SyncStops, rows, past
<1>4. CASE Outside
  BY <1>1, <1>4 DEF Outside, Rename, AddSource, RemoveSource, PurgeSource, rows, past
<1>5. CASE UNCHANGED vars
  BY <1>1, <1>5 DEF vars
<1>6. QED
  BY <1>2, <1>3, <1>4, <1>5 DEF Next, Outside

LEMMA ListInit == Init => ListInv
BY DEF Init, ListInv, RowsNumbered, OnTrack, IdleEditor

\* A row is changed or deleted only for a request that named its sender and its
\* place, or with its source, for any number of editors and interleavings: numbers
\* are never given out again (exclusions/repository.go, fillExisting, RemoveMatching).
THEOREM HitsItsSenderHolds == Spec => HitsItsSender
<1>1. ASSUME TypeOK, ListInv, [Next]_vars, NEW e \in table \ table'
      PROVE  \/ e.place \in Sources \ present'
             \/ \E d \in Editors : /\ editor[d].pc \in {"fill", "delete"}
                                   /\ e \in Matches(editor[d].sender, editor[d].place)
  <2>1. ASSUME NEW d \in Editors, Fill(d) \/ DeleteRow(d)
        PROVE  /\ editor[d].pc \in {"fill", "delete"}
               /\ e \in Matches(editor[d].sender, editor[d].place)
    <3>1. editor[d].pc \in {"fill", "delete"} /\ e.row = editor[d].row
      BY <1>1, <2>1 DEF Fill, DeleteRow
    <3>2. QED
      BY <1>1, <3>1 DEF ListInv, OnTrack
  <2>2. ASSUME NEW src \in Sources, PurgeSource(src) PROVE e.place \in Sources \ present'
    BY <1>1, <2>2 DEF PurgeSource
  <2>3. \/ \E d \in Editors : Fill(d) \/ DeleteRow(d)
        \/ \E src \in Sources : PurgeSource(src)
        \/ table \subseteq table'
    <3>1. ASSUME NEW d \in Editors, Edit(d) \/ EditorStep(d)
          PROVE  Fill(d) \/ DeleteRow(d) \/ table \subseteq table'
      BY <3>1, EditorTouches, Inserted
    <3>2. ASSUME NEW s \in Syncers,
             \/ \E src \in Sources, batch \in SUBSET Messages : BeginSync(s, src, batch)
             \/ SyncStep(s)
          PROVE  table' = table
      BY <3>2 DEF BeginSync, SyncStep, IsExcluded, Query, SaveMessage, SyncStops, rows
    <3>3. CASE UNCHANGED vars
      BY <3>3 DEF vars
    <3>4. CASE Outside
      BY <3>4 DEF Outside, Rename, AddSource, RemoveSource, rows
    <3>5. QED
      BY <1>1, <3>1, <3>2, <3>3, <3>4 DEF Next, Outside
  <2>4. QED
    BY <1>1, <2>1, <2>2, <2>3
<1>2. TypeOK /\ ListInv /\ [Next]_vars =>
        [\A e \in table \ table' :
           \/ e.place \in Sources \ present'
           \/ \E d \in Editors :
                LET r == editor[d]
                IN r.pc \in {"fill", "delete"} /\ e \in Matches(r.sender, r.place)]_vars
  BY <1>1
<1>3. TypeOK /\ TypeOK' /\ ListInv /\ [Next]_vars => ListInv'
  BY ListStep
<1>4. QED
  BY <1>2, <1>3, ListInit, ExclusionsTypeCorrect, PTL DEF Spec, HitsItsSender

(***************************************************************************)
(* What an exclusion that was answered keeps out.                          *)
(***************************************************************************)
\* The list has been asked for the row e on behalf of the next message m.
Asked(r, m, e) ==
  \/ /\ r.pc \in {"globalName", "sourceId", "sourceName", "save"}
     /\ e.place = "global" /\ e.id # None /\ e.id = By[m]
  \/ /\ r.pc \in {"sourceId", "sourceName", "save"}
     /\ e.place = "global" /\ e.id = None /\ e.name = r.seen[By[m]]
  \/ /\ r.pc \in {"sourceName", "save"}
     /\ e.place = In[m] /\ e.id # None /\ e.id = By[m]
  \/ /\ r.pc = "save"
     /\ e.place = In[m] /\ e.id = None /\ e.name = r.seen[By[m]]

\* A row in force that the next message got past was answered later than the list
\* was asked.
Passed(r) ==
  \A m \in r.todo, e \in table :
    IsNext(r, m) /\ e.row \in answered /\ Asked(r, m, e) => m \in late

KeptInv == ExclusionKept /\ \A s \in Syncers : Passed(sync[s])

\* Rows that stay, and messages that are neither written nor shown, change nothing.
LEMMA KeptByTable ==
  ASSUME TypeOK, TypeOK', ListInv, KeptInv, RowsKept,
         UNCHANGED <<sync, answered, late>>,
         stored' \subseteq stored, stored' \cap hidden \subseteq hidden',
         \A m \in stored' : named'[m] = named[m]
  PROVE  KeptInv'
<1>1. ASSUME NEW f \in table', f.row \in answered
      PROVE  \E e \in table : SameRow(e, f)
  <2>1. lastRow \in Nat /\ f.row <= lastRow
    <3>1. lastRow \in Nat
      BY LastRowAssumption DEF TypeOK, LastRowAssumption
    <3>2. f.row <= lastRow
      BY <1>1 DEF ListInv, RowsNumbered
    <3>3. QED
      BY <3>1, <3>2
  <2>2. f.row # lastRow + 1
    BY <2>1
  <2>3. QED
    BY <2>2 DEF RowsKept
<1>2. ExclusionKept'
  <2>1. ASSUME NEW f \in table', NEW m \in stored' \ hidden',
               f.row \in answered, Wrote(f, m)', Covers(f.place, m)
        PROVE  m \in late
    <3>1. PICK e \in table : SameRow(e, f)
      BY <1>1, <2>1
    <3>2. Wrote(e, m) /\ Covers(e.place, m)
      BY <2>1, <3>1 DEF SameRow, Wrote, Covers
    <3>3. m \in stored \ hidden
      BY <2>1
    <3>4. e.row \in answered
      BY <2>1, <3>1 DEF SameRow
    <3>5. QED
      BY <3>2, <3>3, <3>4 DEF KeptInv, ExclusionKept
  <2>2. QED
    BY <2>1 DEF ExclusionKept
<1>3. ASSUME NEW s \in Syncers PROVE Passed(sync[s])'
  <2>1. ASSUME NEW m \in sync[s].todo, NEW f \in table',
               IsNext(sync[s], m), f.row \in answered, Asked(sync[s], m, f)
        PROVE  m \in late
    <3>1. PICK e \in table : SameRow(e, f)
      BY <1>1, <2>1
    <3>2. e.row \in answered /\ Asked(sync[s], m, e)
      BY <2>1, <3>1 DEF SameRow, Asked
    <3>3. QED
      BY <2>1, <3>2 DEF KeptInv, Passed
  <2>2. QED
    BY <2>1 DEF Passed
<1>4. QED
  BY <1>2, <1>3 DEF KeptInv

\* Hiding takes back what was stored before, and what is in hand becomes late.
LEMMA KeptByHiding ==
  ASSUME TypeOK, ListInv, KeptInv, NEW d \in Editors, HideBySender(d)
  PROVE  KeptInv'
<1> DEFINE r == editor[d]
<1>1. /\ r.pc = "hide" /\ hidden' = hidden \cup ToHide(r)
      /\ answered' = answered \cup
           {e.row : e \in {x \in table : x.row = r.row /\ SameKey(r.sender, x)}}
      /\ late' = (late \ ToHide(r)) \cup InHand
      /\ UNCHANGED <<table, stored, named, sync>>
  BY DEF HideBySender
<1>2. \A e \in table : e.row = r.row => e.place = r.place
  BY <1>1 DEF ListInv, OnTrack
<1>3. ASSUME NEW e \in table, NEW m \in stored \ hidden',
             e.row \in answered', Wrote(e, m), Covers(e.place, m)
      PROVE  m \in late'
  <2>1. CASE e.row \in answered
    BY <1>1, <1>3, <2>1 DEF KeptInv, ExclusionKept
  <2>2. CASE e.row \notin answered
    <3>1. PICK x \in table : x.row = r.row /\ SameKey(r.sender, x) /\ x.row = e.row
      BY <1>1, <1>3, <2>2
    <3>2. x = e
      BY <3>1 DEF ListInv, RowsNumbered
    <3>3. Wrote(r.sender, m)
      BY <1>3, <3>1, <3>2 DEF Wrote, SameKey
    <3>4. m \in ToHide(r)
      BY <1>2, <1>3, <3>1, <3>2, <3>3 DEF ToHide
    <3>5. QED
      BY <1>1, <1>3, <3>4
  <2>3. QED
    BY <2>1, <2>2
<1>4. ExclusionKept'
  BY <1>1, <1>3 DEF ExclusionKept, Wrote
<1>5. ASSUME NEW s \in Syncers, NEW m \in sync[s].todo, NEW e \in table,
             IsNext(sync[s], m), Asked(sync[s], m, e)
      PROVE  m \in late'
  <2>1. sync[s].pc # "globalId" /\ m \in Messages
    BY <1>5 DEF Asked, TypeOK, SyncRecords
  <2>2. m \in InHand
    BY <1>5, <2>1 DEF InHand
  <2>3. QED
    BY <1>1, <2>2
<1>6. \A s \in Syncers : Passed(sync[s])'
  BY <1>1, <1>5 DEF Passed
<1>7. QED
  BY <1>4, <1>6 DEF KeptInv

\* A sync asks, query by query, before it saves.
LEMMA KeptBySync ==
  ASSUME TypeOK, TypeOK', ListInv, KeptInv, NEW s \in Syncers,
         \/ \E src \in Sources, batch \in SUBSET Messages : BeginSync(s, src, batch)
         \/ SyncStep(s)
  PROVE  KeptInv'
<1> DEFINE r == sync[s]
<1>0. /\ r \in SyncRecords /\ UNCHANGED <<table, answered, late>>
      /\ \A e \in table : e.id # None \/ e.name # None
  BY DEF TypeOK, Rows, BeginSync, SyncStep, IsExcluded, Query, SaveMessage, SyncStops,
     rows, past
<1>1. ASSUME NEW q, SetSync(s, q), Passed(q) PROVE \A t \in Syncers : Passed(sync[t])'
  BY <1>0, <1>1, OneSync DEF KeptInv, Passed
<1>2. Passed(IdleSync) /\ \A q : q.pc \in {"idle", "globalId"} => Passed(q)
  BY DEF Passed, Asked, IdleSync
<1>3. \A m : Proceed(r, m).pc \in {"idle", "globalId"}
  BY <1>0 DEF Proceed, IdleSync, SyncRecords
<1>4. CASE \E src \in Sources, batch \in SUBSET Messages : BeginSync(s, src, batch)
  <2>1. PICK batch : SetSync(s, [pc |-> "globalId", todo |-> batch, seen |-> handle])
    BY <1>4 DEF BeginSync
  <2>2. \A t \in Syncers : Passed(sync[t])'
    BY <1>1, <1>2, <2>1
  <2>3. ExclusionKept'
    BY <1>4 DEF BeginSync, rows, past, KeptInv, ExclusionKept, Wrote
  <2>4. QED
    BY <2>2, <2>3 DEF KeptInv
<1>5. ASSUME NEW m \in r.todo, IsExcluded(s, m) PROVE KeptInv'
  <2>1. ExclusionKept'
    BY <1>5 DEF IsExcluded, Query, rows, past, KeptInv, ExclusionKept, Wrote
  <2>2. CASE SetSync(s, Proceed(r, m))
    BY <1>1, <1>2, <1>3, <2>1, <2>2 DEF KeptInv
  <2>3. ASSUME NEW pc \in {"globalName", "sourceId", "sourceName", "save"},
               SetSync(s, [r EXCEPT !.pc = pc]), IsNext(r, m),
               \A e \in table : Asked([r EXCEPT !.pc = pc], m, e) => Asked(r, m, e)
        PROVE  KeptInv'
    <3> DEFINE q == [r EXCEPT !.pc = pc]
    <3>1. q.todo = r.todo
      BY <1>0 DEF SyncRecords
    <3>2. \A k : IsNext(q, k) => k = m
      <4>1. r.todo \subseteq Nat
        BY <1>0, MessagesAssumption DEF SyncRecords, MessagesAssumption
      <4>2. QED
        BY <2>3, <3>1, <4>1 DEF IsNext
    <3>3. Passed(r)
      BY DEF KeptInv
    <3>4. SetSync(s, q) /\ \A e \in table : Asked(q, m, e) => Asked(r, m, e)
      BY <2>3
    <3> HIDE DEF q
    <3>5. Passed(q)
      BY <2>3, <3>1, <3>2, <3>3, <3>4 DEF Passed
    <3>6. QED
      BY <1>1, <2>1, <3>4, <3>5 DEF KeptInv
  <2>4. \A pc : /\ [r EXCEPT !.pc = pc].pc = pc
                /\ [r EXCEPT !.pc = pc].seen = r.seen
    BY <1>0 DEF SyncRecords
  <2> DEFINE a == Author(r, m)
  <2>5. a.id = By[m] /\ a.name = r.seen[By[m]] /\ By[m] # None
    <3>1. By[m] \in Accounts
      BY <1>0, MessagesAssumption DEF SyncRecords, MessagesAssumption
    <3>2. By[m] # None
      BY <3>1, NoneAssumption DEF NoneAssumption
    <3>3. QED
      BY <3>2 DEF Author
  <2> HIDE DEF a
  <2>6. CASE Query(s, m, "globalId", ById(a, "global"), "globalName")
    <3>1. CASE ById(a, "global") # {}
      BY <2>2, <2>6, <3>1 DEF Query
    <3>2. CASE ById(a, "global") = {}
      <4>1. /\ r.pc = "globalId" /\ IsNext(r, m)
            /\ SetSync(s, [r EXCEPT !.pc = "globalName"])
        BY <2>6, <3>2 DEF Query
      <4>2. \A e \in table : Asked([r EXCEPT !.pc = "globalName"], m, e) => Asked(r, m, e)
        BY <2>4, <2>5, <3>2, <4>1 DEF Asked, ById
      <4>3. QED
        BY <2>3, <4>1, <4>2
    <3>3. QED
      BY <3>1, <3>2
  <2>7. CASE Query(s, m, "globalName", ByName(a, "global"), "sourceId")
    <3>1. CASE ByName(a, "global") # {}
      BY <2>2, <2>7, <3>1 DEF Query
    <3>2. CASE ByName(a, "global") = {}
      <4>1. /\ r.pc = "globalName" /\ IsNext(r, m)
            /\ SetSync(s, [r EXCEPT !.pc = "sourceId"])
        BY <2>7, <3>2 DEF Query
      <4>2. \A e \in table : Asked([r EXCEPT !.pc = "sourceId"], m, e) => Asked(r, m, e)
        BY <1>0, <2>4, <2>5, <3>2, <4>1 DEF Asked, ByName
      <4>3. QED
        BY <2>3, <4>1, <4>2
    <3>3. QED
      BY <3>1, <3>2
  <2>8. CASE Query(s, m, "sourceId", ById(a, In[m]), "sourceName")
    <3>1. CASE ById(a, In[m]) # {}
      BY <2>2, <2>8, <3>1 DEF Query
    <3>2. CASE ById(a, In[m]) = {}
      <4>1. /\ r.pc = "sourceId" /\ IsNext(r, m)
            /\ SetSync(s, [r EXCEPT !.pc = "sourceName"])
        BY <2>8, <3>2 DEF Query
      <4>2. \A e \in table : Asked([r EXCEPT !.pc = "sourceName"], m, e) => Asked(r, m, e)
        BY <2>4, <2>5, <3>2, <4>1 DEF Asked, ById
      <4>3. QED
        BY <2>3, <4>1, <4>2
    <3>3. QED
      BY <3>1, <3>2
  <2>9. CASE Query(s, m, "sourceName", ByName(a, In[m]), "save")
    <3>1. CASE ByName(a, In[m]) # {}
      BY <2>2, <2>9, <3>1 DEF Query
    <3>2. CASE ByName(a, In[m]) = {}
      <4>1. /\ r.pc = "sourceName" /\ IsNext(r, m)
            /\ SetSync(s, [r EXCEPT !.pc = "save"])
        BY <2>9, <3>2 DEF Query
      <4>2. \A e \in table : Asked([r EXCEPT !.pc = "save"], m, e) => Asked(r, m, e)
        BY <1>0, <2>4, <2>5, <3>2, <4>1 DEF Asked, ByName
      <4>3. QED
        BY <2>3, <4>1, <4>2
    <3>3. QED
      BY <3>1, <3>2
  <2>10. QED
    BY <1>5, <2>6, <2>7, <2>8, <2>9 DEF IsExcluded, a
<1>6. ASSUME NEW m \in r.todo, SaveMessage(s, m) PROVE KeptInv'
  <2>1. /\ r.pc = "save" /\ IsNext(r, m) /\ stored' = stored \cup {m}
        /\ named' = [named EXCEPT ![m] = r.seen[By[m]]]
        /\ hidden' = hidden \ {m} /\ SetSync(s, Proceed(r, m))
    BY <1>6 DEF SaveMessage, Author
  <2>2. \A t \in Syncers : Passed(sync[t])'
    BY <1>1, <1>2, <1>3, <2>1
  <2>3. named'[m] = r.seen[By[m]] /\ \A k \in Messages \ {m} : named'[k] = named[k]
    BY <1>0, <2>1 DEF TypeOK, SyncRecords
  <2>4. ASSUME NEW e \in table, NEW k \in stored' \ hidden',
               e.row \in answered, Wrote(e, k)', Covers(e.place, k)
        PROVE  k \in late
    <3>1. CASE k = m
      <4>1. Asked(r, m, e)
        BY <1>0, <2>1, <2>3, <2>4, <3>1 DEF Asked, Wrote, Covers
      <4>2. QED
        BY <2>1, <2>4, <3>1, <4>1 DEF KeptInv, Passed
    <3>2. CASE k # m
      <4>1. k \in stored \ hidden /\ Wrote(e, k)
        BY <2>1, <2>3, <2>4, <3>2 DEF Wrote, TypeOK
      <4>2. QED
        BY <2>4, <4>1 DEF KeptInv, ExclusionKept
    <3>3. QED
      BY <3>1, <3>2
  <2>5. ExclusionKept'
    BY <1>0, <2>4 DEF ExclusionKept
  <2>6. QED
    BY <2>2, <2>5 DEF KeptInv
<1>7. CASE SyncStops(s)
  <2>1. ExclusionKept'
    BY <1>7 DEF SyncStops, rows, past, KeptInv, ExclusionKept, Wrote
  <2>2. QED
    BY <1>1, <1>2, <1>7, <2>1 DEF SyncStops, KeptInv
<1>8. QED
  BY <1>4, <1>5, <1>6, <1>7 DEF SyncStep

LEMMA KeptStep ==
  ASSUME TypeOK, TypeOK', ListInv, KeptInv, [Next]_vars
  PROVE  KeptInv'
<1>0. RowsKept
  BY StepKeepsRows
<1>1. ASSUME NEW d \in Editors, Edit(d) \/ EditorStep(d) PROVE KeptInv'
  <2>1. CASE HideBySender(d)
    BY <2>1, KeptByHiding
  <2>2. CASE UNCHANGED <<hidden, answered, late>>
    BY <1>0, <1>1, <2>2, KeptByTable, EditorTouches
  <2>3. QED
    BY <1>1, <2>1, <2>2, EditorTouches
<1>2. ASSUME NEW s \in Syncers,
             \/ \E src \in Sources, batch \in SUBSET Messages : BeginSync(s, src, batch)
             \/ SyncStep(s)
      PROVE  KeptInv'
  BY <1>2, KeptBySync
<1>3. CASE Outside
  <2>1. ASSUME NEW src \in Sources, PurgeSource(src) PROVE KeptInv'
    <3>1. /\ stored' \subseteq stored /\ stored' \cap hidden \subseteq hidden'
          /\ UNCHANGED <<sync, answered, late>>
      BY <2>1 DEF PurgeSource, past
    <3>2. \A m \in stored' : named'[m] = named[m]
      BY <2>1 DEF PurgeSource, TypeOK
    <3>3. QED
      BY <1>0, <3>1, <3>2, KeptByTable
  <2>2. CASE UNCHANGED <<stored, named, hidden, sync, answered, late>>
    BY <1>0, <2>2, KeptByTable
  <2>3. QED
    BY <1>3, <2>1, <2>2 DEF Outside, Rename, AddSource, RemoveSource, rows, past
<1>4. CASE UNCHANGED vars
  BY <1>0, <1>4, KeptByTable DEF vars
<1>5. QED
  BY <1>1, <1>2, <1>3, <1>4 DEF Next, Outside

\* An exclusion that was answered stays in force as long as its row is in the list:
\* for any number of editors, syncs, sources and names, whoever carries which
\* username, none of the sender's messages comes back but those a sync had in hand
\* when it was answered (exclusions/service.go, AddSender and IsExcluded).
THEOREM ExclusionIsKept == Spec => []ExclusionKept
<1>1. Init => KeptInv
  BY DEF Init, KeptInv, ExclusionKept, Passed
<1>2. TypeOK /\ TypeOK' /\ ListInv /\ [Next]_vars => ListInv'
  BY ListStep
<1>3. TypeOK /\ TypeOK' /\ ListInv /\ KeptInv /\ [Next]_vars => KeptInv'
  BY KeptStep
<1>4. KeptInv => ExclusionKept
  BY DEF KeptInv
<1>5. QED
  BY <1>1, <1>2, <1>3, <1>4, ListInit, ExclusionsTypeCorrect, PTL DEF Spec

(***************************************************************************)
(* The list as one object: every statement is a step of Blocklist, or      *)
(* does not show.                                                          *)
(***************************************************************************)
\* Which statement is next tells what was asked for.
OpOf(q) ==
  /\ q.pc = "idle" => q.op = "none"
  /\ q.pc \in {"byId", "byName"} => q.op \in {"add", "remove"}
  /\ q.pc \in {"insert", "fill", "get", "hide"} => q.op = "add"
  /\ q.pc = "delete" => q.op = "remove"

OpInv == \A d \in Editors : OpOf(editor[d])

\* An editor begins, ends, or moves on to a statement of the request he has.
Begins(d) == editor[d].pc = "idle" /\ editor'[d].pc = "byId"
             /\ editor'[d].op \in {"add", "remove"}
Ends(d) == editor'[d] = IdleEditor
Moves(d) ==
  /\ editor[d].pc # "idle" /\ editor'[d].pc # "idle"
  /\ editor'[d].op = editor[d].op /\ editor'[d].sender = editor[d].sender
  /\ editor'[d].place = editor[d].place

LEMMA EditorTurns ==
  ASSUME TypeOK, OpInv, NEW d \in Editors, Edit(d) \/ EditorStep(d)
  PROVE  /\ \A c \in Editors \ {d} : editor'[c] = editor[c]
         /\ OpOf(editor'[d])
         /\ \/ Edit(d) /\ Begins(d)
            \/ EditorStep(d) /\ Ends(d)
            \/ EditorStep(d) /\ Moves(d)
<1> DEFINE r == editor[d]
<1>0. \A c \in Editors \ {d} : editor'[c] = editor[c]
  BY EditorMoves, OneEditor
<1>1. OpOf(IdleEditor) /\ \A op \in {"add", "remove"} : \A s, p, m : OpOf(Request(op, s, p, m))
  BY DEF OpOf, IdleEditor, Request
<1>2. ASSUME SetEditor(d, IdleEditor) PROVE OpOf(editor'[d]) /\ Ends(d)
  BY <1>1, <1>2, OneEditor DEF Ends
<1>3. ASSUME NEW pc, NEW row, r.pc # "idle", pc # "idle",
             \/ SetEditor(d, [r EXCEPT !.pc = pc])
             \/ SetEditor(d, [r EXCEPT !.pc = pc, !.row = row])
      PROVE  Moves(d) /\ editor'[d].pc = pc
  <2>1. \/ editor'[d] = [r EXCEPT !.pc = pc]
        \/ editor'[d] = [r EXCEPT !.pc = pc, !.row = row]
    BY <1>3, OneEditor
  <2>2. r \in EditorRecords
    BY DEF TypeOK
  <2> DEFINE q == editor'[d]
  <2> HIDE DEF r, q
  <2>3. q = [r EXCEPT !.pc = pc] \/ q = [r EXCEPT !.pc = pc, !.row = row]
    BY <2>1 DEF q
  <2>4. q.pc = pc /\ q.op = r.op /\ q.sender = r.sender /\ q.place = r.place
    BY <2>2, <2>3 DEF EditorRecords
  <2>. QED BY <1>3, <2>4 DEF Moves, q, r
<1>4. CASE Edit(d)
  <2>1. r.pc = "idle" /\ \E op \in {"add", "remove"} :
                           \E s, p, m : SetEditor(d, Request(op, s, p, m))
    BY <1>4 DEF Edit, BeginEdit, BeginAddFrom
  <2>2. PICK op \in {"add", "remove"} : \E s, p, m : editor'[d] = Request(op, s, p, m)
    BY <2>1, OneEditor
  <2>3. Begins(d) BY <2>1, <2>2 DEF Begins, Request
  <2>. QED BY <1>0, <1>1, <1>4, <2>2, <2>3
<1>5. CASE LookById(d) \/ LookByName(d)
  <2>1. r.pc \in {"byId", "byName"} /\ r.op \in {"add", "remove"}
    BY <1>5 DEF LookById, LookByName, Look, OpInv, OpOf
  <2>2. \/ r.op = "add" /\ \E e : SetEditor(d, [r EXCEPT !.pc = "fill", !.row = e.row])
        \/ r.op # "add" /\ \E e : SetEditor(d, [r EXCEPT !.pc = "delete", !.row = e.row])
        \/ SetEditor(d, [r EXCEPT !.pc = "byName"])
        \/ r.op = "add" /\ SetEditor(d, [r EXCEPT !.pc = "insert"])
        \/ SetEditor(d, IdleEditor)
    BY <1>5 DEF LookById, LookByName, Look
  <2>3. CASE SetEditor(d, IdleEditor)
    BY <1>0, <1>2, <1>5, <2>3 DEF EditorStep
  <2>4. CASE ~ SetEditor(d, IdleEditor)
    <3>1. /\ Moves(d)
          /\ \/ editor'[d].pc = "byName"
             \/ r.op = "add" /\ editor'[d].pc \in {"fill", "insert"}
             \/ r.op # "add" /\ editor'[d].pc = "delete"
      BY <1>3, <2>1, <2>2, <2>4
    <3>2. OpOf(editor'[d]) BY <2>1, <3>1 DEF Moves, OpOf
    <3>. QED BY <1>0, <1>5, <3>1, <3>2 DEF EditorStep
  <2>. QED BY <2>3, <2>4
<1>6. CASE Insert(d) \/ Fill(d) \/ Get(d)
  <2>1. r.pc \in {"insert", "fill", "get"} /\ r.op = "add"
    BY <1>6 DEF Insert, Fill, Get, OpInv, OpOf
  <2>2. \/ SetEditor(d, [r EXCEPT !.pc = "get", !.row = NextRow])
        \/ SetEditor(d, [r EXCEPT !.pc = "get"])
        \/ SetEditor(d, [r EXCEPT !.pc = "hide"])
        \/ SetEditor(d, IdleEditor)
    BY <1>6 DEF Insert, Fill, Get
  <2>3. CASE SetEditor(d, IdleEditor)
    BY <1>0, <1>2, <1>6, <2>3 DEF EditorStep
  <2>4. CASE ~ SetEditor(d, IdleEditor)
    <3>1. Moves(d) /\ editor'[d].pc \in {"get", "hide"}
      BY <1>3, <2>1, <2>2, <2>4
    <3>2. OpOf(editor'[d]) BY <2>1, <3>1 DEF Moves, OpOf
    <3>. QED BY <1>0, <1>6, <3>1, <3>2 DEF EditorStep
  <2>. QED BY <2>3, <2>4
<1>7. CASE HideBySender(d) \/ DeleteRow(d) \/ EditorStops(d)
  <2>1. SetEditor(d, IdleEditor)
    BY <1>7 DEF HideBySender, DeleteRow, EditorStops
  <2>. QED BY <1>0, <1>2, <1>7, <2>1 DEF EditorStep
<1>. QED BY <1>4, <1>5, <1>6, <1>7 DEF EditorStep

LEMMA OpStep == TypeOK /\ OpInv /\ [Next]_vars => OpInv'
<1> SUFFICES ASSUME TypeOK, OpInv, [Next]_vars PROVE OpInv' OBVIOUS
<1>1. ASSUME NEW d \in Editors, Edit(d) \/ EditorStep(d) PROVE OpInv'
  BY <1>1, EditorTurns DEF OpInv
<1>2. CASE UNCHANGED editor
  BY <1>2 DEF OpInv
<1>3. (\E d \in Editors : Edit(d) \/ EditorStep(d)) \/ UNCHANGED editor
  <2>1. ASSUME NEW s \in Syncers,
               \/ \E src \in Sources, batch \in SUBSET Messages : BeginSync(s, src, batch)
               \/ SyncStep(s)
        PROVE  UNCHANGED editor
    BY <2>1 DEF BeginSync, SyncStep, IsExcluded, Query, SaveMessage, SyncStops
  <2>2. CASE Outside
    BY <2>2 DEF Outside, Rename, AddSource, RemoveSource, PurgeSource
  <2>. QED BY <2>1, <2>2 DEF Next, Outside, vars
<1>. QED BY <1>1, <1>2, <1>3

\* Nothing shows of a step that leaves rows, messages and syncs alone; the editor
\* who makes it has begun, ended or moved on.
LEMMA EditorUnseen ==
  ASSUME TypeOK, OpInv, NEW d \in Editors, Edit(d) \/ EditorStep(d),
         UNCHANGED <<table, lastRow, hidden, answered, late>>
  PROVE  [List!Next]_(List!blocklist)
<1>1. UNCHANGED <<stored, named, sync>>
  BY EditorTouches
<1>2. CASE Begins(d)
  <2>1. List!Wish(d)
    BY <1>1, <1>2, EditorTurns DEF List!Wish, List!Only, Begins, OpInv, OpOf
  <2>. QED BY <2>1 DEF List!Next, List!Edit
<1>3. CASE Ends(d)
  <2>1. List!Drop(d)
    BY <1>1, <1>3, EditorTurns DEF List!Drop, List!Only, List!Ended, Ends, IdleEditor
  <2>. QED BY <2>1 DEF List!Next, List!Edit
<1>4. CASE Moves(d)
  <2>1. \A c \in Editors : List!Wished(editor'[c]) = List!Wished(editor[c])
    BY <1>4, EditorTurns DEF List!Wished, Moves
  <2>2. List!Proceed BY <1>1, <2>1 DEF List!Proceed, List!SameWishes
  <2>. QED BY <2>2 DEF List!Next
<1>. QED BY <1>2, <1>3, <1>4, EditorTurns

\* The insert is refused unless the list has no entry of the sender's id or username,
\* whatever came in between since the editor looked.
LEMMA InsertEnters ==
  ASSUME TypeOK, OpInv, NEW d \in Editors, Insert(d)
  PROVE  [List!Next]_(List!blocklist)
<1> DEFINE r == editor[d]
<1>0. EditorStep(d) /\ r.pc = "insert"
  BY DEF EditorStep, Insert
<1>1. CASE UNCHANGED <<table, lastRow>>
  BY <1>0, <1>1, EditorUnseen DEF Insert, past
<1>2. CASE ~ UNCHANGED <<table, lastRow>>
  <2> DEFINE x == [row |-> lastRow + 1, id |-> r.sender.id, name |-> r.sender.name,
                   place |-> r.place, ref |-> r.ref, text |-> TextOf(r.ref)]
  <2>1. /\ Matches(r.sender, r.place) = {}
        /\ lastRow' = lastRow + 1 /\ table' = table \cup {x}
        /\ SetEditor(d, [r EXCEPT !.pc = "get", !.row = lastRow + 1])
    BY <1>2 DEF Insert, NextRow
  <2>2. editor'[d] # IdleEditor
    <3>1. r \in EditorRecords BY DEF TypeOK
    <3>2. editor'[d] = [r EXCEPT !.pc = "get", !.row = lastRow + 1]
      BY <2>1, OneEditor
    <3> DEFINE q == editor'[d]
    <3> HIDE DEF r, q
    <3>3. q.pc = "get" BY <3>1, <3>2 DEF EditorRecords, q
    <3>. QED BY <3>3 DEF q, IdleEditor
  <2>3. Moves(d) /\ \A c \in Editors \ {d} : editor'[c] = editor[c]
    BY <1>0, <2>2, EditorTurns DEF Ends, Begins
  <2>4. List!SameWishes
    BY <2>3 DEF List!SameWishes, List!Wished, Moves
  <2>5. r.op = "add"
    BY <1>0 DEF OpInv, OpOf
  <2>6. \A e \in table : e.place = r.place => ~ List!GoesBy(r.sender, e)
    BY <2>1 DEF Matches, ById, ByName, List!GoesBy
  <2>7. /\ x \in table' /\ x.row \notin 1 .. lastRow
        /\ (1 .. lastRow)' = (1 .. lastRow) \cup {x.row}
        /\ x.id = r.sender.id /\ x.name = r.sender.name /\ x.place = r.place
    <3>1. lastRow \in Nat BY LastRowAssumption DEF TypeOK, LastRowAssumption
    <3>2. x.row = lastRow + 1 /\ x.id = r.sender.id /\ x.name = r.sender.name
          /\ x.place = r.place
      OBVIOUS
    <3> HIDE DEF x
    <3>. QED BY <2>1, <3>1, <3>2
  <2>8. UNCHANGED <<answered, sync, stored, hidden, named, late>>
    BY DEF Insert, past
  <2>. HIDE DEF x
  <2>9. List!Enter(editor[d])
    BY <2>1, <2>4, <2>5, <2>6, <2>7, <2>8 DEF List!Enter
  <2>. QED BY <2>9 DEF List!Next, List!Edit
<1>. QED BY <1>1, <1>2

\* The row an editor found is still an entry of the sender he named, or gone.
LEMMA FillNotes ==
  ASSUME TypeOK, ListInv, OpInv, NEW d \in Editors, Fill(d)
  PROVE  [List!Next]_(List!blocklist)
<1> DEFINE r == editor[d]
<1>0. EditorStep(d) /\ r.pc = "fill"
  BY DEF EditorStep, Fill
<1>1. table' = {IF e.row = r.row THEN Filled(e, r) ELSE e : e \in table}
      /\ UNCHANGED <<lastRow, answered, sync, stored, hidden, named, late>>
  BY DEF Fill, past
<1>2. CASE \A e \in table : e.row # r.row
  <2>1. table' = table BY <1>1, <1>2
  <2>. QED BY <1>0, <1>1, <2>1, EditorUnseen
<1>3. CASE \E e \in table : e.row = r.row
  <2>1. PICK e \in table : e.row = r.row BY <1>3
  <2>2. \A f \in table : f.row = r.row => f = e
    BY <2>1 DEF ListInv, RowsNumbered
  <2>3. table' = (table \ {e}) \cup {Filled(e, r)}
    BY <1>1, <2>1, <2>2
  <2>4. e \in Matches(r.sender, r.place)
    BY <1>0, <2>1 DEF ListInv, OnTrack
  <2>5. e.place = r.place /\ List!GoesBy(r.sender, e)
    BY <2>4 DEF Matches, ById, ByName, List!GoesBy
  <2>6. LET x == Filled(e, r)
        IN /\ x \in table' /\ x.row = e.row /\ x.id = e.id /\ x.name = e.name
           /\ x.place = e.place
    BY <1>0, <2>1, <2>3, FilledRow
  <2>7. r.op = "add" BY <1>0 DEF OpInv, OpOf
  <2>8. Moves(d) /\ \A c \in Editors \ {d} : editor'[c] = editor[c]
    <3>1. r \in EditorRecords BY DEF TypeOK
    <3>2. editor'[d] = [r EXCEPT !.pc = "get"]
      BY OneEditor DEF Fill
    <3> DEFINE q == editor'[d]
    <3>3. q.pc = "get"
      <4> HIDE DEF r, q
      <4>. QED BY <3>1, <3>2 DEF EditorRecords, q
    <3>. QED BY <1>0, <3>3, EditorTurns DEF Ends, Begins, IdleEditor
  <2>9. List!SameWishes
    BY <2>8 DEF List!SameWishes, List!Wished, Moves
  <2>10. List!Note(editor[d])
    BY <1>1, <2>3, <2>5, <2>6, <2>7, <2>9 DEF List!Note
  <2>. QED BY <2>10 DEF List!Next, List!Edit
<1>. QED BY <1>2, <1>3

LEMMA DeleteStrikes ==
  ASSUME TypeOK, ListInv, OpInv, NEW d \in Editors, DeleteRow(d)
  PROVE  [List!Next]_(List!blocklist)
<1> DEFINE r == editor[d]
<1>0. EditorStep(d) /\ r.pc = "delete"
  BY DEF EditorStep, DeleteRow
<1>1. table' = {e \in table : e.row # r.row}
      /\ UNCHANGED <<lastRow, answered, sync, stored, hidden, named, late>>
  BY DEF DeleteRow, past
<1>2. CASE \A e \in table : e.row # r.row
  <2>1. table' = table BY <1>1, <1>2
  <2>. QED BY <1>0, <1>1, <2>1, EditorUnseen
<1>3. CASE \E e \in table : e.row = r.row
  <2>1. PICK e \in table : e.row = r.row BY <1>3
  <2>2. table' = table \ {e}
    BY <1>1, <2>1 DEF ListInv, RowsNumbered
  <2>3. e \in Matches(r.sender, r.place)
    BY <1>0, <2>1 DEF ListInv, OnTrack
  <2>4. e.place = r.place /\ List!GoesBy(r.sender, e)
    BY <2>3 DEF Matches, ById, ByName, List!GoesBy
  <2>5. r.op = "remove" BY <1>0 DEF OpInv, OpOf
  <2>6. List!Ended(d)
    BY OneEditor DEF DeleteRow, List!Ended, List!Only, IdleEditor
  <2>7. List!Strike(d, editor[d], e)
    BY <1>1, <2>1, <2>2, <2>4, <2>5, <2>6 DEF List!Strike
  <2>. QED BY <2>1, <2>7 DEF List!Next, List!Edit
<1>. QED BY <1>2, <1>3

\* An idle sync has nothing left to do.
RestInv == \A s \in Syncers : sync[s].pc = "idle" => sync[s].todo = {}

\* What is in hand is what the syncers check.
LEMMA InHandIsChecked ==
  ASSUME TypeOK, RestInv
  PROVE  InHand = UNION {Checking(sync[s]) : s \in Syncers}
<1>1. \A s \in Syncers : \A m : m \in Checking(sync[s]) <=>
        IsNext(sync[s], m) /\ sync[s].pc # "globalId"
  BY DEF Checking, IsNext, RestInv
<1>2. \A s \in Syncers : \A m : IsNext(sync[s], m) => m \in Messages
  BY DEF IsNext, TypeOK, SyncRecords
<1>. QED BY <1>1, <1>2 DEF InHand

\* Hiding puts the entry in force that means the sender, and no other.
LEMMA HideEnforces ==
  ASSUME TypeOK, ListInv, OpInv, RestInv, NEW d \in Editors, HideBySender(d)
  PROVE  [List!Next]_(List!blocklist)
<1> DEFINE r == editor[d]
           F == {x \in table : x.row = r.row /\ SameKey(r.sender, x)}
<1>1. /\ r.pc = "hide" /\ hidden' = hidden \cup ToHide(r)
      /\ answered' = answered \cup {e.row : e \in F}
      /\ late' = (late \ ToHide(r)) \cup InHand
      /\ UNCHANGED <<table, lastRow, stored, named, sync>>
  BY DEF HideBySender
<1>2. F \in SUBSET {e \in table : e.place = r.place /\ List!SameSender(r.sender, e)}
  BY <1>1 DEF ListInv, OnTrack, SameKey, List!SameSender
<1>3. \A m \in stored : m \in ToHide(r) <=> List!Hides(r.sender, r.place, m, named[m])
  BY DEF ToHide, Wrote, Covers, List!Hides, List!Means
<1>4. (stored \ hidden)' =
        {m \in stored \ hidden : ~ List!Hides(r.sender, r.place, m, named[m])}
  BY <1>1, <1>3
<1>5. /\ InHand \cup (late \cap (stored \ hidden)') \subseteq late'
      /\ late' \subseteq late \cup InHand
  BY <1>1, <1>4, <1>3
<1>6. r.op = "add" /\ List!Ended(d)
  BY <1>1, OneEditor DEF OpInv, OpOf, HideBySender, List!Ended, List!Only, IdleEditor
<1> HIDE DEF F
<1>7. List!Enforce(d, editor[d])
  BY <1>1, <1>2, <1>4, <1>5, <1>6, InHandIsChecked DEF List!Enforce
<1>. QED BY <1>7 DEF List!Next, List!Edit

LEMMA CheckingSet ==
  ASSUME TypeOK, NEW s \in Syncers, NEW q, SetSync(s, q)
  PROVE  [t \in Syncers |-> Checking(sync[t])]' =
           [[t \in Syncers |-> Checking(sync[t])] EXCEPT ![s] = Checking(q)]
<1>1. \A t \in Syncers : Checking(sync'[t]) = IF t = s THEN Checking(q) ELSE Checking(sync[t])
  BY OneSync
<1>2. [t \in Syncers |-> Checking(sync[t])]' = [t \in Syncers |-> Checking(sync'[t])]
  BY DEF Checking, IsNext
<1>. QED BY <1>1, <1>2

\* A message is checked from the first query to the save, and no other.
LEMMA CheckingOne ==
  ASSUME TypeOK, NEW s \in Syncers, NEW m \in sync[s].todo, IsNext(sync[s], m)
  PROVE  /\ sync[s].pc \notin {"idle", "globalId"} => Checking(sync[s]) = {m}
         /\ \A pc \in {"globalName", "sourceId", "sourceName", "save"} :
              Checking([sync[s] EXCEPT !.pc = pc]) = {m}
         /\ Checking(Proceed(sync[s], m)) = {} /\ Checking(IdleSync) = {}
<1> DEFINE r == sync[s]
<1>1. r \in SyncRecords BY DEF TypeOK
<1>2. r.todo \subseteq Nat
  BY <1>1, MessagesAssumption DEF SyncRecords, MessagesAssumption
<1>3. {k \in r.todo : IsNext(r, k)} = {m}
  BY <1>2 DEF IsNext
<1> HIDE DEF r
<1>4. ASSUME NEW pc \in {"globalName", "sourceId", "sourceName", "save"}
      PROVE  Checking([r EXCEPT !.pc = pc]) = {m}
  <2> DEFINE q == [r EXCEPT !.pc = pc]
  <2>1. q.pc = pc /\ q.todo = r.todo BY <1>1 DEF SyncRecords
  <2> HIDE DEF q
  <2>2. {k \in q.todo : IsNext(q, k)} = {m} BY <1>3, <2>1 DEF IsNext
  <2>. QED BY <2>1, <2>2 DEF Checking, q
<1>5. Proceed(r, m).pc \in {"idle", "globalId"} /\ IdleSync.pc = "idle"
  BY <1>1 DEF Proceed, IdleSync, SyncRecords
<1>. QED BY <1>3, <1>4, <1>5 DEF Checking, r

\* A query begins a check, goes on with it, or ends it: the message is excluded.
LEMMA QueryShows ==
  ASSUME TypeOK, NEW s \in Syncers, NEW m \in sync[s].todo, IsExcluded(s, m)
  PROVE  [List!Next]_(List!blocklist)
<1> DEFINE r == sync[s]
<1>1. /\ r.pc \in {"globalId", "globalName", "sourceId", "sourceName"} /\ IsNext(r, m)
      /\ \/ SetSync(s, Proceed(r, m))
         \/ \E pc \in {"globalName", "sourceId", "sourceName", "save"} :
              SetSync(s, [r EXCEPT !.pc = pc])
      /\ UNCHANGED <<handle, rows, editor, past>>
  BY DEF IsExcluded, Query
<1>2. UNCHANGED <<table, lastRow, answered, editor, stored, hidden, named, late>>
  BY <1>1 DEF rows, past
<1>3. CASE SetSync(s, Proceed(r, m))
  <2>1. [t \in Syncers |-> Checking(sync[t])]' =
          [[t \in Syncers |-> Checking(sync[t])] EXCEPT ![s] = {}]
    <3>1. Checking(Proceed(r, m)) = {} BY <1>1, CheckingOne
    <3>. QED BY <1>3, <3>1, CheckingSet
  <2>2. List!Leave(s) BY <1>2, <2>1 DEF List!Leave
  <2>. QED BY <2>2 DEF List!Next, List!Sync
<1>4. ASSUME NEW pc \in {"globalName", "sourceId", "sourceName", "save"},
             SetSync(s, [r EXCEPT !.pc = pc])
      PROVE  [List!Next]_(List!blocklist)
  <2>1. [t \in Syncers |-> Checking(sync[t])]' =
          [[t \in Syncers |-> Checking(sync[t])] EXCEPT ![s] = {m}]
    <3>1. Checking([r EXCEPT !.pc = pc]) = {m} BY <1>1, CheckingOne
    <3>. QED BY <1>4, <3>1, CheckingSet
  <2>2. CASE r.pc = "globalId"
    <3>1. Checking(r) = {} BY <2>2 DEF Checking
    <3>2. List!Check(s, m) BY <1>2, <2>1, <3>1 DEF List!Check
    <3>3. m \in Messages BY DEF TypeOK, SyncRecords
    <3>. QED BY <3>2, <3>3 DEF List!Next, List!Sync
  <2>3. CASE r.pc # "globalId"
    <3>1. Checking(r) = {m} BY <1>1, <2>3, CheckingOne
    <3>2. [t \in Syncers |-> Checking(sync[t])]' = [t \in Syncers |-> Checking(sync[t])]
      BY <2>1, <3>1
    <3>. QED BY <1>2, <3>2 DEF List!blocklist
  <2>. QED BY <2>2, <2>3
<1>. QED BY <1>1, <1>3, <1>4

\* What four queries let pass, the list as it is at the save allows.
LEMMA SaveShows ==
  ASSUME TypeOK, TypeOK', ExclusionKept', NEW s \in Syncers, NEW m \in sync[s].todo,
         SaveMessage(s, m)
  PROVE  [List!Next]_(List!blocklist)
<1> DEFINE r == sync[s]
<1>1. /\ r.pc = "save" /\ IsNext(r, m)
      /\ stored' = stored \cup {m} /\ hidden' = hidden \ {m}
      /\ named' = [named EXCEPT ![m] = Author(r, m).name]
      /\ SetSync(s, Proceed(r, m))
      /\ UNCHANGED <<table, lastRow, editor, answered, late>>
  BY DEF SaveMessage, past
<1>2. Checking(r) = {m} BY <1>1, CheckingOne
<1>3. [t \in Syncers |-> Checking(sync[t])]' =
        [[t \in Syncers |-> Checking(sync[t])] EXCEPT ![s] = {}]
  <2>1. Checking(Proceed(r, m)) = {} BY <1>1, CheckingOne
  <2>. QED BY <1>1, <2>1, CheckingSet
<1>4. (stored \ hidden)' = (stored \ hidden) \cup {m}
  BY <1>1
<1>5. \A k \in (stored \ hidden) \ {m} : named'[k] = named[k]
  BY <1>1 DEF TypeOK
<1>6. \A e \in table :
        e.row \in answered /\ List!Hides(e, e.place, m, named'[m]) => m \in late
  BY <1>1, <1>4 DEF ExclusionKept, Wrote, Covers, List!Hides, List!Means
<1>7. List!Show(s, m)
  BY <1>1, <1>2, <1>3, <1>4, <1>5, <1>6 DEF List!Show
<1>8. m \in Messages BY DEF TypeOK, SyncRecords
<1>. QED BY <1>7, <1>8 DEF List!Next, List!Sync

LEMMA SyncShows ==
  ASSUME TypeOK, TypeOK', ExclusionKept', NEW s \in Syncers,
         \/ \E src \in Sources, batch \in SUBSET Messages : BeginSync(s, src, batch)
         \/ SyncStep(s)
  PROVE  [List!Next]_(List!blocklist)
<1>1. ASSUME NEW q, SetSync(s, q), Checking(q) = {},
             UNCHANGED <<table, lastRow, answered, editor, stored, hidden, named, late>>
      PROVE  [List!Next]_(List!blocklist)
  <2>1. [t \in Syncers |-> Checking(sync[t])]' =
          [[t \in Syncers |-> Checking(sync[t])] EXCEPT ![s] = {}]
    BY <1>1, CheckingSet
  <2>2. List!Leave(s) BY <1>1, <2>1 DEF List!Leave
  <2>. QED BY <2>2 DEF List!Next, List!Sync
<1>2. CASE \E src \in Sources, batch \in SUBSET Messages : BeginSync(s, src, batch)
  <2>1. PICK batch : SetSync(s, [pc |-> "globalId", todo |-> batch, seen |-> handle])
    BY <1>2 DEF BeginSync
  <2>2. Checking([pc |-> "globalId", todo |-> batch, seen |-> handle]) = {}
    BY DEF Checking
  <2>3. UNCHANGED <<table, lastRow, answered, editor, stored, hidden, named, late>>
    BY <1>2 DEF BeginSync, rows, past
  <2>. QED BY <1>1, <2>1, <2>2, <2>3
<1>3. CASE SyncStops(s)
  <2>1. Checking(IdleSync) = {} BY DEF Checking, IdleSync
  <2>2. UNCHANGED <<table, lastRow, answered, editor, stored, hidden, named, late>>
    BY <1>3 DEF SyncStops, rows, past
  <2>. QED BY <1>1, <1>3, <2>1, <2>2 DEF SyncStops
<1>4. ASSUME NEW m \in sync[s].todo, IsExcluded(s, m) \/ SaveMessage(s, m)
      PROVE  [List!Next]_(List!blocklist)
  BY <1>4, QueryShows, SaveShows
<1>. QED BY <1>2, <1>3, <1>4 DEF SyncStep

LEMMA OutsideShows ==
  ASSUME TypeOK, Outside \/ UNCHANGED vars
  PROVE  [List!Next]_(List!blocklist)
<1>1. ASSUME NEW src \in Sources, PurgeSource(src) PROVE [List!Next]_(List!blocklist)
  <2>1. /\ table' = {e \in table : e.place # src}
        /\ UNCHANGED <<lastRow, answered, editor, late>>
        /\ [t \in Syncers |-> Checking(sync[t])]' = [t \in Syncers |-> Checking(sync[t])]
    BY <1>1 DEF PurgeSource, past, Checking, IsNext
  <2>2. (stored \ hidden)' = {m \in stored \ hidden : In[m] # src}
    BY <1>1 DEF PurgeSource, OfSource
  <2>3. \A m \in (stored \ hidden)' : named'[m] = named[m]
    BY <1>1, <2>2 DEF PurgeSource, OfSource, TypeOK
  <2>4. List!Clear(src) BY <2>1, <2>2, <2>3 DEF List!Clear
  <2>. QED BY <2>4 DEF List!Next
<1>2. CASE UNCHANGED <<table, lastRow, answered, editor, sync, stored, hidden, named, late>>
  BY <1>2 DEF List!blocklist, Checking, IsNext
<1>. QED
  BY <1>1, <1>2 DEF Outside, Rename, AddSource, RemoveSource, rows, past, vars

\* A sync that comes to its end has nothing left.
LEMMA RestStep == TypeOK /\ RestInv /\ [Next]_vars => RestInv'
<1> SUFFICES ASSUME TypeOK, RestInv, [Next]_vars PROVE RestInv' OBVIOUS
<1>1. ASSUME NEW s \in Syncers, NEW q, SetSync(s, q), q.pc = "idle" => q.todo = {}
      PROVE  RestInv'
  BY <1>1, OneSync DEF RestInv
<1>2. IdleSync.todo = {} BY DEF IdleSync
<1>3. ASSUME NEW s \in Syncers, SyncStep(s) PROVE RestInv'
  <2> DEFINE r == sync[s]
  <2>1. r \in SyncRecords BY DEF TypeOK
  <2>2. \A m : Proceed(r, m).pc = "idle" => Proceed(r, m).todo = {}
    <3> HIDE DEF r
    <3>. QED BY <1>2, <2>1 DEF Proceed, SyncRecords
  <2>3. \A pc \in {"globalName", "sourceId", "sourceName", "save"} :
          [r EXCEPT !.pc = pc].pc # "idle"
    <3> HIDE DEF r
    <3>. QED BY <2>1 DEF SyncRecords
  <2>4. \/ \E m : SetSync(s, Proceed(r, m))
        \/ \E pc \in {"globalName", "sourceId", "sourceName", "save"} :
             SetSync(s, [r EXCEPT !.pc = pc])
        \/ SetSync(s, IdleSync)
    BY <1>3 DEF SyncStep, IsExcluded, Query, SaveMessage, SyncStops
  <2>. HIDE DEF r
  <2>. QED BY <1>1, <1>2, <2>2, <2>3, <2>4
<1>4. ASSUME NEW s \in Syncers, NEW src \in Sources, NEW batch \in SUBSET Messages,
             BeginSync(s, src, batch)
      PROVE  RestInv'
  BY <1>1, <1>4 DEF BeginSync
<1>5. ASSUME NEW d \in Editors, Edit(d) \/ EditorStep(d) PROVE sync' = sync
  BY <1>5, EditorTouches
<1>6. CASE sync' = sync
  BY <1>6 DEF RestInv
<1>7. CASE Outside
  BY <1>6, <1>7 DEF Outside, Rename, AddSource, RemoveSource, PurgeSource
<1>. QED BY <1>3, <1>4, <1>5, <1>6, <1>7 DEF Next, Outside, vars

LEMMA ListShows ==
  ASSUME TypeOK, TypeOK', ListInv, OpInv, RestInv, ExclusionKept', [Next]_vars
  PROVE  [List!Next]_(List!blocklist)
<1>1. ASSUME NEW d \in Editors, Edit(d) \/ EditorStep(d)
      PROVE  [List!Next]_(List!blocklist)
  <2>1. CASE Insert(d) \/ Fill(d) \/ DeleteRow(d) \/ HideBySender(d)
    BY <2>1, InsertEnters, FillNotes, DeleteStrikes, HideEnforces
  <2>2. CASE ~ (Insert(d) \/ Fill(d) \/ DeleteRow(d) \/ HideBySender(d))
    BY <1>1, <2>2, EditorTouches, EditorUnseen
  <2>. QED BY <2>1, <2>2
<1>. QED BY <1>1, SyncShows, OutsideShows DEF Next, Outside

\* However many editors and syncs there are, and whatever comes in between their
\* statements, the list works as one object: an addition, a removal and a check have
\* the effect of one step each (exclusions/repository.go and service.go).
THEOREM ExclusionsKeepList == Spec => KeepsList
<1>1. Init => List!Init
  <2>. SUFFICES ASSUME Init PROVE List!Init OBVIOUS
  <2>1. \A d \in Editors : editor[d].op = "none" BY DEF Init, IdleEditor
  <2>2. [s \in Syncers |-> Checking(sync[s])] = [s \in Syncers |-> {}]
    BY DEF Init, IdleSync, Checking
  <2>3. 1 .. lastRow = {} BY DEF Init
  <2>. QED BY <2>1, <2>2, <2>3 DEF Init, List!Init
<1>2. Init => OpInv /\ RestInv
  BY DEF Init, OpInv, OpOf, IdleEditor, RestInv, IdleSync
<1>3. TypeOK /\ TypeOK' /\ ListInv /\ [Next]_vars => ListInv'
  BY ListStep
<1>4. TypeOK /\ TypeOK' /\ ListInv /\ OpInv /\ RestInv /\ ExclusionKept' /\ [Next]_vars
        => [List!Next]_(List!blocklist)
  BY ListShows
<1>. QED
  BY <1>1, <1>2, <1>3, <1>4, ListInit, OpStep, RestStep, ExclusionsTypeCorrect,
     ExclusionIsKept, PTL DEF Spec, KeepsList, List!Spec
===============================================================================
