------------------------------- MODULE Blocklist -------------------------------
(***************************************************************************)
(* What the exclusion list promises, as if it were one object: an entry is *)
(* put on the list, taken off it or put in force at once, and a message is *)
(* shown only if the list, as it is at that moment, allows it.  How many   *)
(* statements the code needs for any of these does not show.               *)
(***************************************************************************)
CONSTANTS
  Editors,   \* who may edit the list at the same time
  Syncers,   \* who may bring messages in
  Sources,   \* sources: places that come and go; the other place is "global"
  Messages,  \* message ids
  By, In,    \* the id of their sender, and their source
  None       \* no id, no username

VARIABLES
  entries,   \* the list: [row, id, name, place] and whatever else is noted
  drawn,     \* the numbers used so far
  inForce,   \* numbers of the entries somebody was told are in force
  wish,      \* each editor's wish: [op, sender, place] and how far it got, op "add",
             \* "remove" or "none"
  checking,  \* for each syncer the message it is checking, if any
  shown,     \* messages that readers see
  named,     \* the username each message was brought in under
  excused    \* messages that were in some syncer's hand when an entry came into force

blocklist == <<entries, drawn, inForce, wish, checking, shown, named, excused>>

Init ==
  /\ entries = {} /\ drawn = {} /\ inForce = {}
  /\ \A d \in Editors : wish[d].op = "none"
  /\ checking = [s \in Syncers |-> {}]
  /\ shown = {} /\ named = [m \in Messages |-> None]
  /\ excused = {}

\* An entry that a sender goes by, by his id or by his username.
GoesBy(s, e) ==
  \/ s.id # None /\ e.id = s.id
  \/ s.name # None /\ e.name = s.name

\* The id of an entry tells whom it means; its username does if there is no id.
Means(s, m, name) == IF s.id # None THEN By[m] = s.id ELSE name = s.name
Hides(s, place, m, name) == place \in {"global", In[m]} /\ Means(s, m, name)

SameSender(s, e) == IF e.id # None THEN s.id = e.id ELSE s.id = None /\ s.name = e.name

Wished(w) == <<w.op, w.sender, w.place>>
SameWishes == \A d \in Editors : Wished(wish'[d]) = Wished(wish[d])
Only(d) == \A c \in Editors \ {d} : wish'[c] = wish[c]
Ended(d) == wish'[d].op = "none" /\ Only(d)

\* A wish takes its time, during which nothing shows.
Proceed ==
  /\ SameWishes
  /\ UNCHANGED <<entries, drawn, inForce, checking, shown, named, excused>>

Wish(d) ==
  /\ wish[d].op = "none" /\ Only(d)
  /\ UNCHANGED <<entries, drawn, inForce, checking, shown, named, excused>>

\* A wish may come to nothing at any time.
Drop(d) ==
  /\ Ended(d)
  /\ UNCHANGED <<entries, drawn, inForce, checking, shown, named, excused>>

\* No two entries of a place go by one id or by one username.
Enter(w) ==
  /\ w.op = "add" /\ SameWishes
  /\ \A e \in entries : e.place = w.place => ~ GoesBy(w.sender, e)
  /\ \E x \in entries' :
       /\ x.row \notin drawn /\ drawn' = drawn \cup {x.row}
       /\ x.id = w.sender.id /\ x.name = w.sender.name /\ x.place = w.place
       /\ entries' = entries \cup {x}
  /\ UNCHANGED <<inForce, checking, shown, named, excused>>

\* More is noted of an entry, for a wish that named its sender.
Note(w) ==
  /\ w.op = "add" /\ SameWishes
  /\ \E e \in entries, x \in entries' :
       /\ e.place = w.place /\ GoesBy(w.sender, e)
       /\ x.row = e.row /\ x.id = e.id /\ x.name = e.name /\ x.place = e.place
       /\ entries' = (entries \ {e}) \cup {x}
  /\ UNCHANGED <<drawn, inForce, checking, shown, named, excused>>

\* The sender's messages disappear, and the entry that means him is in force.  Only
\* what is in a syncer's hand is excused, and what was excused and still shows.
Enforce(d, w) ==
  /\ w.op = "add"
  /\ Ended(d)
  /\ shown' = {m \in shown : ~ Hides(w.sender, w.place, m, named[m])}
  /\ \E F \in SUBSET {e \in entries : e.place = w.place /\ SameSender(w.sender, e)} :
       inForce' = inForce \cup {e.row : e \in F}
  /\ LET hand == UNION {checking[s] : s \in Syncers}
     IN /\ hand \cup (excused \cap shown') \subseteq excused'
        /\ excused' \subseteq excused \cup hand
  /\ UNCHANGED <<entries, drawn, checking, named>>

\* An entry is taken off the list for a wish that named its sender.
Strike(d, w, e) ==
  /\ w.op = "remove" /\ e.place = w.place /\ GoesBy(w.sender, e)
  /\ Ended(d)
  /\ entries' = entries \ {e}
  /\ UNCHANGED <<drawn, inForce, checking, shown, named, excused>>

Check(s, m) ==
  /\ checking[s] = {}
  /\ checking' = [checking EXCEPT ![s] = {m}]
  /\ UNCHANGED <<entries, drawn, inForce, wish, shown, named, excused>>

Leave(s) ==
  /\ checking' = [checking EXCEPT ![s] = {}]
  /\ UNCHANGED <<entries, drawn, inForce, wish, shown, named, excused>>

\* Nothing is shown that an entry in force forbids now, but for what was in hand.
Show(s, m) ==
  /\ m \in checking[s]
  /\ \A e \in entries :
       e.row \in inForce /\ Hides(e, e.place, m, named'[m]) => m \in excused
  /\ checking' = [checking EXCEPT ![s] = {}]
  /\ shown' = shown \cup {m}
  /\ \A k \in shown \ {m} : named'[k] = named[k]
  /\ UNCHANGED <<entries, drawn, inForce, wish, excused>>

\* A source goes, with its entries and its messages.
Clear(place) ==
  /\ entries' = {e \in entries : e.place # place}
  /\ shown' = {m \in shown : In[m] # place}
  /\ \A m \in shown' : named'[m] = named[m]
  /\ UNCHANGED <<drawn, inForce, wish, checking, excused>>

Edit(d) ==
  \/ Wish(d) \/ Drop(d)
  \/ LET w == wish[d]
     IN \/ Enter(w) \/ Note(w) \/ Enforce(d, w)
        \/ \E e \in entries : Strike(d, w, e)

Sync(s) ==
  \/ Leave(s)
  \/ \E m \in Messages : Check(s, m) \/ Show(s, m)

Next ==
  \/ Proceed
  \/ \E d \in Editors : Edit(d)
  \/ \E s \in Syncers : Sync(s)
  \/ \E place \in Sources : Clear(place)

Spec == Init /\ [][Next]_blocklist
===============================================================================
