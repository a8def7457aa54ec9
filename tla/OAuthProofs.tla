------------------------------ MODULE OAuthProofs ------------------------------
(***************************************************************************)
(* Proofs about OAuth, for any sets of clients, codes, tokens and handlers.*)
(***************************************************************************)
EXTENDS OAuth, FiniteSetTheorems, TLAPS

\* The records a handler can become are stands.
LEMMA StandsOfARequest ==
  /\ Idle \in Stands
  /\ \A k \in CodeEntries, c \in Clients :
       [pc |-> "redeem", code |-> k, as |-> c] \in Stands
  /\ \A id \in Clients \cup Tokens \cup {"none"} :
       /\ [pc |-> "save", id |-> id] \in Stands
       /\ [pc |-> "answer", id |-> id] \in Stands
       /\ \A copy \in Contents : [pc |-> "open", id |-> id, copy |-> copy] \in Stands
BY DEF Idle, Stands, Redeemer, Saver

\* What a handler at a given point carries.
LEMMA StandsByPc ==
  ASSUME NEW r \in Stands
  PROVE  /\ r.pc = "redeem" => r.code \in CodeEntries /\ r.as \in Clients
         /\ r.pc \in {"save", "open", "write", "answer"}
              => r.id \in Clients \cup Tokens \cup {"none"}
         /\ r.pc \in {"open", "write"} => r.copy \in Contents
         /\ r.pc = "open" => [r EXCEPT !.pc = "write"] \in Stands
<1>1. CASE r = Idle
  BY <1>1 DEF Idle
<1>2. CASE r \in Redeemer
  BY <1>2 DEF Redeemer
<1>3. CASE r \in Saver
  BY <1>3 DEF Saver, Stands
<1>4. QED
  BY <1>1, <1>2, <1>3 DEF Stands

(***************************************************************************)
(* Types.                                                                  *)
(***************************************************************************)
\* Moving one handler keeps all of them on their way through a request.
LEMMA MovesType ==
  ASSUME TypeOK, NEW h \in Handlers, NEW r \in Stands, Moves(h, r)
  PROVE  handler' \in [Handlers -> Stands]
BY DEF TypeOK, Moves

\* Every step of a handler keeps the types.
LEMMA StepType ==
  ASSUME TypeOK, NEW h \in Handlers, Step(h)
  PROVE  TypeOK'
<1> DEFINE r == handler[h]
<1>0. /\ r \in Stands
      /\ r.pc = "redeem" => r.code \in CodeEntries /\ r.as \in Clients
      /\ r.pc \in {"save", "open", "write", "answer"}
           => r.id \in Clients \cup Tokens \cup {"none"}
      /\ r.pc \in {"open", "write"} => r.copy \in Contents
      /\ r.pc = "open" => [r EXCEPT !.pc = "write"] \in Stands
  <2>1. r \in Stands
    BY DEF TypeOK
  <2>2. QED
    BY <2>1, StandsByPc
<1>a. Nothing \in Contents /\ [clients |-> clients, tokens |-> Live(tokens)] \in Contents
  BY DEF Nothing, Contents, TypeOK, Live
<1>1. ASSUME NEW c \in Fresh(Clients), Register(h),
             clients' = clients \cup {c}, drawn' = drawn \cup {c}, Saves(h, c)
      PROVE  TypeOK'
  <2>1. c \in Clients
    BY DEF Fresh
  <2>2. handler' \in [Handlers -> Stands]
    BY <1>1, <2>1, StandsOfARequest, MovesType DEF Saves
  <2>3. QED
    BY <1>1, <2>1, <2>2 DEF Register, TypeOK
<1>2. ASSUME NEW k \in codes, NEW c \in Clients, TakeCode(h), codes' = codes \ {k},
             Moves(h, [pc |-> "redeem", code |-> k, as |-> c])
      PROVE  TypeOK'
  <2>1. k \in CodeEntries
    BY DEF TypeOK
  <2>2. handler' \in [Handlers -> Stands]
    BY <1>2, <2>1, StandsOfARequest, MovesType
  <2>3. QED
    BY <1>2, <2>2 DEF TakeCode, TypeOK
<1>3. CASE Refuse(h)
  <2>1. handler' \in [Handlers -> Stands]
    BY <1>3, StandsOfARequest, MovesType DEF Refuse
  <2>2. QED
    BY <1>3, <2>1 DEF Refuse, TypeOK, memory
<1>4. ASSUME NEW t \in Fresh(Tokens), At(h, "redeem"), Matches(r),
             tokens' = tokens \cup {[token |-> t, client |-> r.as]},
             drawn' = drawn \cup {t},
             granted' = granted \cup {[token |-> t, client |-> r.as, code |-> r.code]},
             Saves(h, t),
             UNCHANGED <<clients, codes, file, expired, answered, harmed>>
      PROVE  TypeOK'
  <2>1. t \in Tokens /\ r.as \in Clients /\ r.code \in CodeEntries
    BY <1>0, <1>4 DEF Fresh, At
  <2>2. handler' \in [Handlers -> Stands]
    BY <1>4, <2>1, StandsOfARequest, MovesType DEF Saves
  <2>3. QED
    BY <1>4, <2>1, <2>2 DEF TypeOK, TokenEntries
<1>5. CASE Reject(h)
  <2>1. handler' \in [Handlers -> Stands]
    BY <1>5, StandsOfARequest, MovesType DEF Reject, Saves
  <2>2. QED
    BY <1>5, <2>1 DEF Reject, TypeOK
<1>6. CASE Copy(h)
  <2>1. handler' \in [Handlers -> Stands]
    BY <1>0, <1>a, <1>6, StandsOfARequest, MovesType DEF Copy, At
  <2>2. QED
    BY <1>6, <2>1 DEF Copy, TypeOK, memory
<1>7. CASE Truncate(h)
  <2>1. handler' \in [Handlers -> Stands]
    BY <1>0, <1>7, MovesType DEF Truncate, At
  <2>2. QED
    BY <1>7, <1>a, <2>1 DEF Truncate, TypeOK, memory, Files
<1>8. CASE Write(h)
  <2>1. handler' \in [Handlers -> Stands]
    BY <1>0, <1>8, StandsOfARequest, MovesType DEF Write, At
  <2>2. file' \in Files
    BY <1>0, <1>8 DEF Write, At, TypeOK, Files
  <2>3. QED
    BY <1>8, <2>1, <2>2 DEF Write, TypeOK, memory
<1>9. CASE SaveFails(h)
  <2>1. handler' \in [Handlers -> Stands]
    BY <1>0, <1>9, StandsOfARequest, MovesType DEF SaveFails, Saving
  <2>2. QED
    BY <1>9, <2>1 DEF SaveFails, TypeOK, memory
<1>10. CASE Answer(h)
  <2>1. handler' \in [Handlers -> Stands]
    BY <1>10, StandsOfARequest, MovesType DEF Answer
  <2>2. answered' \subseteq Clients \cup Tokens
    BY <1>0, <1>10 DEF Answer, At, TypeOK
  <2>3. QED
    BY <1>10, <2>1, <2>2 DEF Answer, TypeOK, memory
<1>11. QED
  BY <1>1, <1>2, <1>3, <1>4, <1>5, <1>6, <1>7, <1>8, <1>9, <1>10
     DEF Step, Register, TakeCode, Issue

\* What a start loads from the file is of the file's type.
LEMMA RestartType ==
  ASSUME TypeOK, Restart
  PROVE  TypeOK'
<1>1. Loaded \in Contents
  BY DEF TypeOK, Files, Loaded, Nothing, Contents, Live
<1>2. clients' \subseteq Clients /\ tokens' \subseteq TokenEntries /\ codes' = {}
  BY <1>1 DEF Restart, Contents
<1>3. handler' \in [Handlers -> Stands]
  BY StandsOfARequest DEF Restart
<1>4. harmed' \in BOOLEAN
  BY Zenon DEF Restart
<1>5. /\ file' \in Files /\ expired' \subseteq Tokens /\ answered' \subseteq Clients \cup Tokens
      /\ drawn' \subseteq Clients \cup Codes \cup Tokens
      /\ granted' \subseteq [token : Tokens, client : Clients, code : CodeEntries]
  BY DEF Restart, TypeOK
<1>6. QED
  BY <1>2, <1>3, <1>4, <1>5 DEF TypeOK

\* Type correctness: in any interleaving of handlers, saves and restarts the maps,
\* the file and every handler hold values of their types.
THEOREM OAuthTypeCorrect == Spec => []TypeOK
<1>1. Init => TypeOK
  <2> SUFFICES ASSUME Init PROVE TypeOK
    OBVIOUS
  <2>1. file \in Files
    BY DEF Init, Files, Contents, Nothing
  <2>2. handler \in [Handlers -> Stands]
    BY StandsOfARequest DEF Init
  <2>3. QED
    BY <2>1, <2>2 DEF Init, TypeOK
<1>2. TypeOK /\ [Next]_vars => TypeOK'
  <2> SUFFICES ASSUME TypeOK, [Next]_vars PROVE TypeOK'
    OBVIOUS
  <2>1. ASSUME NEW h \in Handlers, Step(h) PROVE TypeOK'
    BY <2>1, StepType
  <2>2. CASE Authorize
    BY <2>2 DEF Authorize, TypeOK, CodeEntries, Fresh
  <2>3. ASSUME NEW t \in Tokens, Expire(t) PROVE TypeOK'
    BY <2>3 DEF Expire, TypeOK, memory
  <2>4. UNCHANGED vars => TypeOK'
    BY DEF vars, memory, TypeOK
  <2>. QED
    BY <2>1, <2>2, <2>3, <2>4, RestartType DEF Next
<1>3. QED
  BY <1>1, <1>2, PTL DEF Spec

(***************************************************************************)
(* A code is redeemed once.                                                *)
(*                                                                         *)
(* A drawn code is in one place: live, in the hands of one handler, or     *)
(* spent on one token.  Uniqueness among the granted codes alone is not    *)
(* inductive: it needs that what is granted next was in no other place.    *)
(***************************************************************************)
Holds(h, k) == At(h, "redeem") /\ handler[h].code.code = k

\* Codes wherever they are were drawn, so a code drawn now is in none of the places.
CodesDrawn ==
  /\ \A k \in codes : k.code \in drawn
  /\ \A h \in Handlers : At(h, "redeem") => handler[h].code.code \in drawn
  /\ \A e \in granted : e.code.code \in drawn

LiveOnce     == \A k, l \in codes : k.code = l.code => k = l
TakenIsGone  == \A h \in Handlers, k \in codes : ~ Holds(h, k.code)
TakenByOne   == \A g, h \in Handlers :
                  At(g, "redeem") /\ Holds(h, handler[g].code.code) => g = h
GrantedIsGone ==
  \A e \in granted : /\ \A k \in codes : k.code # e.code.code
                     /\ \A h \in Handlers : ~ Holds(h, e.code.code)

CodesApart ==
  /\ CodesDrawn /\ LiveOnce /\ TakenIsGone /\ TakenByOne /\ GrantedIsGone
  /\ CodeRedeemedOnce

\* A handler that moves on to anything but a redemption leaves the codes apart.
LEMMA OtherMovesKeepApart ==
  ASSUME TypeOK, CodesApart, NEW h \in Handlers, NEW r, r.pc # "redeem", Moves(h, r),
         codes' = codes, granted' = granted, drawn \subseteq drawn'
  PROVE  CodesApart'
<1>1. \A g \in Handlers : At(g, "redeem")' => handler'[g] = handler[g] /\ At(g, "redeem")
  BY DEF TypeOK, Moves, At
<1>2. CodesDrawn'
  BY <1>1 DEF CodesApart, CodesDrawn
<1>3. LiveOnce' /\ CodeRedeemedOnce'
  BY DEF CodesApart, LiveOnce, CodeRedeemedOnce
<1>4. TakenIsGone' /\ TakenByOne' /\ GrantedIsGone'
  BY <1>1 DEF CodesApart, TakenIsGone, TakenByOne, GrantedIsGone, Holds
<1>5. QED
  BY <1>2, <1>3, <1>4 DEF CodesApart

\* Taking a code moves it from the live ones into the hands of one handler.
LEMMA TakeKeepsApart ==
  ASSUME TypeOK, CodesApart, NEW h \in Handlers, TakeCode(h)
  PROVE  CodesApart'
<1>1. PICK k \in codes, c \in Clients :
        /\ codes' = codes \ {k}
        /\ Moves(h, [pc |-> "redeem", code |-> k, as |-> c])
  BY DEF TakeCode
<1>2. granted' = granted /\ drawn' = drawn
  BY DEF TakeCode
<1>3. At(h, "redeem")' /\ handler'[h].code = k
  BY <1>1 DEF TypeOK, Moves, At
<1>4. \A g \in Handlers \ {h} : handler'[g] = handler[g] /\ At(g, "redeem")' = At(g, "redeem")
  BY <1>1 DEF TypeOK, Moves, At
<1>5. CodesDrawn'
  BY <1>1, <1>2, <1>3, <1>4 DEF CodesApart, CodesDrawn, At
<1>6. LiveOnce' /\ CodeRedeemedOnce'
  BY <1>1, <1>2 DEF CodesApart, LiveOnce, CodeRedeemedOnce
<1>7. TakenIsGone'
  BY <1>1, <1>3, <1>4 DEF CodesApart, TakenIsGone, LiveOnce, Holds, At
<1>8. TakenByOne'
  BY <1>1, <1>3, <1>4 DEF CodesApart, TakenByOne, TakenIsGone, Holds, At
<1>9. GrantedIsGone'
  BY <1>1, <1>2, <1>3, <1>4 DEF CodesApart, GrantedIsGone, Holds, At
<1>10. QED
  BY <1>5, <1>6, <1>7, <1>8, <1>9 DEF CodesApart

\* A grant spends the code its handler held.
LEMMA IssueKeepsApart ==
  ASSUME TypeOK, CodesApart, NEW h \in Handlers, Issue(h)
  PROVE  CodesApart'
<1> DEFINE r == handler[h]
<1>1. PICK t \in Tokens :
        /\ At(h, "redeem")
        /\ granted' = granted \cup {[token |-> t, client |-> r.as, code |-> r.code]}
        /\ drawn' = drawn \cup {t}
        /\ codes' = codes
        /\ Moves(h, [pc |-> "save", id |-> t])
  BY DEF Issue, Fresh, Saves
<1>2. \A g \in Handlers : At(g, "redeem")' =>
        g # h /\ handler'[g] = handler[g] /\ At(g, "redeem")
  BY <1>1 DEF TypeOK, Moves, At
<1>3. CodesDrawn'
  BY <1>1, <1>2 DEF CodesApart, CodesDrawn
<1>4. LiveOnce' /\ TakenIsGone' /\ TakenByOne'
  BY <1>1, <1>2 DEF CodesApart, LiveOnce, TakenIsGone, TakenByOne, Holds
<1>5. GrantedIsGone'
  BY <1>1, <1>2 DEF CodesApart, GrantedIsGone, TakenIsGone, TakenByOne, Holds
<1>6. CodeRedeemedOnce'
  BY <1>1 DEF CodesApart, CodeRedeemedOnce, GrantedIsGone, Holds
<1>7. QED
  BY <1>3, <1>4, <1>5, <1>6 DEF CodesApart

\* Every step of a handler keeps the codes apart.
LEMMA StepKeepsApart ==
  ASSUME TypeOK, CodesApart, NEW h \in Handlers, Step(h)
  PROVE  CodesApart'
<1>1. CASE TakeCode(h)
  BY <1>1, TakeKeepsApart
<1>2. CASE Issue(h)
  BY <1>2, IssueKeepsApart
<1>3. CASE Register(h) \/ Reject(h)
  <2>1. PICK id : Moves(h, [pc |-> "save", id |-> id])
    BY <1>3 DEF Register, Reject, Saves
  <2>2. codes' = codes /\ granted' = granted /\ drawn \subseteq drawn'
    BY <1>3 DEF Register, Reject
  <2>3. QED
    BY <2>1, <2>2, OtherMovesKeepApart
<1>4. CASE Refuse(h) \/ Answer(h)
  <2>1. Moves(h, Idle) /\ Idle.pc # "redeem"
    BY <1>4 DEF Refuse, Answer, Idle
  <2>2. codes' = codes /\ granted' = granted /\ drawn \subseteq drawn'
    BY <1>4 DEF Refuse, Answer, memory
  <2>3. QED
    BY <2>1, <2>2, OtherMovesKeepApart
<1>5. CASE Copy(h)
  <2>1. PICK id, copy : Moves(h, [pc |-> "open", id |-> id, copy |-> copy])
    BY <1>5 DEF Copy
  <2>2. codes' = codes /\ granted' = granted /\ drawn \subseteq drawn'
    BY <1>5 DEF Copy, memory
  <2>3. QED
    BY <2>1, <2>2, OtherMovesKeepApart
<1>6. CASE Truncate(h)
  <2>1. Moves(h, [handler[h] EXCEPT !.pc = "write"])
    BY <1>6 DEF Truncate
  <2>2. [handler[h] EXCEPT !.pc = "write"].pc # "redeem"
    <3>1. handler[h] \in Stands /\ handler[h].pc = "open"
      BY <1>6 DEF Truncate, At, TypeOK
    <3>2. handler[h] \in Saver
      BY <3>1 DEF Stands, Idle, Redeemer
    <3>3. QED
      BY <3>1, <3>2 DEF Saver
  <2>3. codes' = codes /\ granted' = granted /\ drawn \subseteq drawn'
    BY <1>6 DEF Truncate, memory
  <2>4. QED
    BY <2>1, <2>2, <2>3, OtherMovesKeepApart
<1>7. CASE Write(h) \/ SaveFails(h)
  <2>1. Moves(h, [pc |-> "answer", id |-> handler[h].id])
    BY <1>7 DEF Write, SaveFails
  <2>2. codes' = codes /\ granted' = granted /\ drawn \subseteq drawn'
    BY <1>7 DEF Write, SaveFails, memory
  <2>3. QED
    BY <2>1, <2>2, OtherMovesKeepApart
<1>8. QED
  BY <1>1, <1>2, <1>3, <1>4, <1>5, <1>6, <1>7 DEF Step

\* A code drawn by the owner's authorization is in none of the places.
LEMMA AuthorizeKeepsApart ==
  ASSUME CodesApart, Authorize
  PROVE  CodesApart'
<1>1. PICK c \in clients, k \in Codes :
        /\ k \notin drawn
        /\ codes' = codes \cup {[code |-> k, client |-> c]}
        /\ drawn' = drawn \cup {k}
        /\ handler' = handler /\ granted' = granted
  BY DEF Authorize, Fresh
<1>2. CodesDrawn' /\ CodeRedeemedOnce' /\ TakenByOne'
  BY <1>1 DEF CodesApart, CodesDrawn, CodeRedeemedOnce, TakenByOne, Holds, At
<1>3. LiveOnce' /\ TakenIsGone' /\ GrantedIsGone'
  BY <1>1 DEF CodesApart, CodesDrawn, LiveOnce, TakenIsGone, GrantedIsGone, Holds, At
<1>4. QED
  BY <1>2, <1>3 DEF CodesApart

\* A start forgets the live codes and those in hands; the spent ones stay spent.
LEMMA RestartKeepsApart ==
  ASSUME CodesApart, Restart
  PROVE  CodesApart'
<1>1. codes' = {} /\ granted' = granted /\ drawn' = drawn
  BY DEF Restart
<1>2. \A h \in Handlers : ~ At(h, "redeem")'
  BY DEF Restart, At, Idle
<1>3. QED
  BY <1>1, <1>2 DEF CodesApart, CodesDrawn, LiveOnce, TakenIsGone, TakenByOne,
                    GrantedIsGone, CodeRedeemedOnce, Holds

\* A code is in one place at any time.
LEMMA CodesStayApart == Spec => []CodesApart
<1>1. Init => CodesApart
  BY DEF Init, CodesApart, CodesDrawn, LiveOnce, TakenIsGone, TakenByOne,
         GrantedIsGone, CodeRedeemedOnce, Holds, At, Idle
<1>2. TypeOK /\ CodesApart /\ [Next]_vars => CodesApart'
  <2> SUFFICES ASSUME TypeOK, CodesApart, [Next]_vars PROVE CodesApart'
    OBVIOUS
  <2>1. ASSUME NEW h \in Handlers, Step(h) PROVE CodesApart'
    BY <2>1, StepKeepsApart
  <2>2. CASE Authorize
    BY <2>2, AuthorizeKeepsApart
  <2>3. CASE Restart
    BY <2>3, RestartKeepsApart
  <2>4. CASE UNCHANGED vars \/ \E t \in Tokens : Expire(t)
    <3>1. codes' = codes /\ granted' = granted /\ drawn' = drawn /\ handler' = handler
      BY <2>4 DEF vars, memory, Expire
    <3>2. QED
      BY <3>1 DEF CodesApart, CodesDrawn, LiveOnce, TakenIsGone, TakenByOne,
                  GrantedIsGone, CodeRedeemedOnce, Holds, At
  <2>5. QED
    BY <2>1, <2>2, <2>3, <2>4 DEF Next
<1>3. QED
  BY OAuthTypeCorrect, <1>1, <1>2, PTL DEF Spec

\* Single use: whatever requests race to redeem a code, and whatever is restarted
\* meanwhile, no two tokens are ever issued for it.
THEOREM CodeIsSingleUse == Spec => []CodeRedeemedOnce
<1>1. CodesApart => CodeRedeemedOnce
  BY DEF CodesApart
<1>2. QED
  BY <1>1, CodesStayApart, PTL

(***************************************************************************)
(* What reaches the file.                                                  *)
(***************************************************************************)
Kept == [clients |-> clients, tokens |-> Live(tokens)]

\* A copy is one that was under way, or what memory holds; the file gets a copy, or
\* is emptied.
LEMMA CopiesNext ==
  ASSUME TypeOK, NEW h \in Handlers, Step(h)
  PROVE  /\ Copies' \subseteq Copies \cup {Kept}
         /\ file'.held \in Copies \cup {file.held, Nothing}
<1> DEFINE r == handler[h]
<1>0. /\ handler \in [Handlers -> Stands] /\ r \in Stands
      /\ r.pc = "open" => r.copy = [r EXCEPT !.pc = "write"].copy
  <2>1. handler \in [Handlers -> Stands]
    BY DEF TypeOK
  <2>2. r \in Stands
    BY <2>1
  <2>3. CASE r \in Saver
    BY <2>1, <2>3 DEF Saver
  <2>4. CASE r = Idle \/ r \in Redeemer
    BY <2>1, <2>4 DEF Idle, Redeemer
  <2>5. QED
    BY <2>1, <2>2, <2>3, <2>4 DEF Stands
<1>1. ASSUME NEW q, Moves(h, q),
             q.pc \in {"open", "write"} => q.copy \in Copies \cup {Kept}
      PROVE  Copies' \subseteq Copies \cup {Kept}
  <2>1. \A g \in Handlers : handler'[g] = IF g = h THEN q ELSE handler[g]
    BY <1>0, <1>1 DEF Moves
  <2>2. \A g \in Handlers : handler'[g].pc \in {"open", "write"}
                              => handler'[g].copy \in Copies \cup {Kept}
    BY <1>1, <2>1 DEF Copies, Saving
  <2>3. QED
    BY <2>2 DEF Copies, Saving
<1>2. CASE Register(h) \/ Issue(h) \/ Reject(h)
  <2>1. PICK id : Moves(h, [pc |-> "save", id |-> id]) /\ file' = file
    BY <1>2 DEF Register, Issue, Reject, Saves
  <2>2. [pc |-> "save", id |-> id].pc = "save"
    OBVIOUS
  <2>3. QED
    BY <1>1, <2>1, <2>2
<1>3. CASE TakeCode(h)
  <2>1. PICK k, c : Moves(h, [pc |-> "redeem", code |-> k, as |-> c]) /\ file' = file
    BY <1>3 DEF TakeCode
  <2>2. [pc |-> "redeem", code |-> k, as |-> c].pc = "redeem"
    OBVIOUS
  <2>3. QED
    BY <1>1, <2>1, <2>2
<1>4. CASE Refuse(h) \/ Answer(h)
  <2>1. Moves(h, Idle) /\ file' = file /\ Idle.pc = "idle"
    BY <1>4 DEF Refuse, Answer, Idle
  <2>2. QED
    BY <1>1, <2>1
<1>5. CASE Copy(h)
  <2> DEFINE q == [pc |-> "open", id |-> r.id, copy |-> Kept]
  <2>1. Moves(h, q) /\ file' = file
    BY <1>5 DEF Copy, Kept
  <2>2. q.copy = Kept
    OBVIOUS
  <2> HIDE DEF q
  <2>3. QED
    BY <1>1, <2>1, <2>2
<1>6. CASE Truncate(h)
  <2> DEFINE q == [r EXCEPT !.pc = "write"]
  <2>1. Moves(h, q) /\ r.pc = "open" /\ file'.held = Nothing
    BY <1>6 DEF Truncate, At
  <2>2. q.copy \in Copies
    BY <1>0, <2>1 DEF Copies, Saving
  <2> HIDE DEF q
  <2>3. QED
    BY <1>1, <2>1, <2>2
<1>7. CASE Write(h) \/ SaveFails(h)
  <2> DEFINE q == [pc |-> "answer", id |-> r.id]
  <2>1. Moves(h, q) /\ q.pc = "answer"
    BY <1>7 DEF Write, SaveFails
  <2>2. file'.held \in Copies \cup {file.held}
    BY <1>7 DEF Write, SaveFails, At, Copies, Saving
  <2> HIDE DEF q
  <2>3. QED
    BY <1>1, <2>1, <2>2
<1>8. QED
  BY <1>2, <1>3, <1>4, <1>5, <1>6, <1>7 DEF Step

\* Registered owners and granted tokens in one set of contents.
Owned(held) == \A e \in held.tokens : e.client \in held.clients
Granted(e) ==
  \E g \in granted : g.token = e.token /\ g.client = e.client /\ g.code.client = e.client

\* A step of a handler keeps owners registered.
LEMMA StepKeepsOwners ==
  ASSUME TypeOK, OwnersRegistered, NEW h \in Handlers, Step(h)
  PROVE  OwnersRegistered'
<1>1. Owned(Kept) /\ Owned(Nothing)
  BY DEF Owned, Kept, Nothing, Live, OwnersRegistered
<1>2. \A held \in Copies' \cup {file'.held} : Owned(held)
  BY <1>1, CopiesNext DEF OwnersRegistered, Owned
<1>3. \A e \in codes' \cup tokens' : e.client \in clients'
  <2>1. ASSUME NEW t \in Tokens, Matches(handler[h]),
               tokens' = tokens \cup {[token |-> t, client |-> handler[h].as]},
               UNCHANGED <<clients, codes>>
        PROVE  <1>3
    BY <2>1 DEF Matches, OwnersRegistered
  <2>2. ASSUME codes' \subseteq codes, tokens' \subseteq tokens, clients \subseteq clients'
        PROVE  <1>3
    BY <2>2 DEF OwnersRegistered
  <2>3. CASE Issue(h)
    BY <2>1, <2>3 DEF Issue, Fresh
  <2>4. CASE ~ Issue(h)
    BY <2>2, <2>4 DEF Step, Register, TakeCode, Refuse, Reject, Copy, Truncate, Write,
                      SaveFails, Answer, memory
  <2>5. QED
    BY <2>3, <2>4
<1>4. QED
  BY <1>2, <1>3 DEF OwnersRegistered, Owned

\* No code or token without a registered client: not in memory, not in a copy on its
\* way to the file, not in the file, whatever restarts and torn files do.
THEOREM OwnersAreRegistered == Spec => []OwnersRegistered
<1>1. Init => OwnersRegistered
  BY DEF Init, OwnersRegistered, Nothing, Copies, Saving, Idle
<1>2. TypeOK /\ OwnersRegistered /\ [Next]_vars => OwnersRegistered'
  <2> SUFFICES ASSUME TypeOK, OwnersRegistered, [Next]_vars PROVE OwnersRegistered'
    OBVIOUS
  <2>1. CASE Restart
    <3>1. Copies' = {} /\ file' = file /\ codes' = {}
      BY <2>1 DEF Restart, Copies, Saving, Idle
    <3>2. Owned(Loaded)
      BY DEF Loaded, Nothing, Live, Owned, OwnersRegistered, TypeOK, Files, Contents
    <3>3. QED
      BY <2>1, <3>1, <3>2 DEF Restart, OwnersRegistered, Owned
  <2>2. CASE Authorize \/ (\E t \in Tokens : Expire(t)) \/ UNCHANGED vars
    BY <2>2 DEF Authorize, Expire, vars, memory, OwnersRegistered, Copies, Saving
  <2>3. QED
    BY <2>1, <2>2, StepKeepsOwners DEF Next
<1>3. QED
  BY <1>1, <1>2, OAuthTypeCorrect, PTL DEF Spec

\* A step of a handler brings up no token that was not granted.
LEMMA StepKeepsGranted ==
  ASSUME TypeOK, TokensGranted, NEW h \in Handlers, Step(h)
  PROVE  TokensGranted'
<1>1. granted \subseteq granted'
  BY DEF Step, Register, TakeCode, Refuse, Issue, Reject, Copy, Truncate, Write,
         SaveFails, Answer
<1>2. \A e : Granted(e) => Granted(e)'
  BY <1>1 DEF Granted
<1>3. ASSUME NEW e \in tokens' PROVE Granted(e)'
  <2>1. CASE Issue(h)
    <3>1. PICK t \in Tokens :
            /\ Matches(handler[h])
            /\ tokens' = tokens \cup {[token |-> t, client |-> handler[h].as]}
            /\ granted' = granted \cup {[token |-> t, client |-> handler[h].as,
                                         code |-> handler[h].code]}
      BY <2>1 DEF Issue, Fresh
    <3>2. CASE e \in tokens
      BY <1>2, <3>2 DEF TokensGranted, Granted
    <3>3. CASE e = [token |-> t, client |-> handler[h].as]
      <4> DEFINE g == [token |-> t, client |-> handler[h].as, code |-> handler[h].code]
      <4>1. handler[h].as = handler[h].code.client
        BY <3>1 DEF Matches
      <4>2. g \in granted' /\ g.token = e.token /\ g.client = e.client
        BY <3>1, <3>3
      <4>3. g.code.client = e.client
        BY <3>3, <4>1
      <4>4. QED
        BY <4>2, <4>3 DEF Granted
    <3>4. QED
      BY <3>1, <3>2, <3>3
  <2>2. CASE ~ Issue(h)
    <3>1. tokens' \subseteq tokens
      BY <2>2 DEF Step, Register, TakeCode, Refuse, Reject, Copy, Truncate, Write,
                  SaveFails, Answer, memory
    <3>2. QED
      BY <1>2, <3>1 DEF TokensGranted, Granted
  <2>3. QED
    BY <2>1, <2>2
<1>4. ASSUME NEW held \in Copies' \cup {file'.held}, NEW e \in held.tokens
      PROVE  Granted(e)'
  <2>1. held \in Copies \cup {Kept, file.held, Nothing}
    BY CopiesNext
  <2>2. Granted(e)
    BY <2>1 DEF TokensGranted, Granted, Kept, Nothing, Live
  <2>3. QED
    BY <1>2, <2>2
<1>5. QED
  BY <1>3, <1>4 DEF TokensGranted, Granted

\* Every token in memory, in a copy or in the file was issued, to the client the
\* owner authorized: neither saves nor restarts bring up another.
THEOREM TokensAreGranted == Spec => []TokensGranted
<1>1. Init => TokensGranted
  BY DEF Init, TokensGranted, Nothing, Copies, Saving, Idle
<1>2. TypeOK /\ TokensGranted /\ [Next]_vars => TokensGranted'
  <2> SUFFICES ASSUME TypeOK, TokensGranted, [Next]_vars PROVE TokensGranted'
    OBVIOUS
  <2>1. CASE Restart
    <3>1. Copies' = {} /\ UNCHANGED <<file, granted>>
      BY <2>1 DEF Restart, Copies, Saving, Idle
    <3>2. tokens' \subseteq file.held.tokens
      BY <2>1 DEF Restart, Loaded, Nothing, Live, TypeOK, Files, Contents
    <3>3. \A e \in tokens' \cup file'.held.tokens : Granted(e)'
      BY <3>1, <3>2 DEF TokensGranted, Granted
    <3>4. QED
      BY <3>1, <3>3 DEF TokensGranted, Granted
  <2>2. CASE Authorize \/ (\E t \in Tokens : Expire(t)) \/ UNCHANGED vars
    BY <2>2 DEF Authorize, Expire, vars, memory, TokensGranted, Copies, Saving
  <2>3. QED
    BY <2>1, <2>2, StepKeepsGranted DEF Next
<1>3. QED
  BY <1>1, <1>2, OAuthTypeCorrect, PTL DEF Spec

(***************************************************************************)
(* What was answered is in the file.                                       *)
(***************************************************************************)
\* Answered, or about to be; and being saved.
Promised(i) ==
  \/ i \in answered
  \/ \E h \in Handlers : At(h, "answer") /\ handler[h].id = i /\ i # "none"
InHand(i) ==
  \E h \in Handlers :
    handler[h].pc \in {"save", "open", "write"} /\ handler[h].id = i /\ i # "none"

Keeps(held, i) ==
  /\ i \in Clients => i \in held.clients
  /\ i \in Tokens \ expired => \E e \in held.tokens : e.token = i

\* As long as no save was harmed there is one at a time, and what it writes holds
\* all that was promised and what it is itself for; so does memory, for all that
\* is in hand; so does the file, unless it is being rewritten.
OneSave    == \A g, h \in Handlers : Saving(g) /\ Saving(h) => g = h
EmptyFirst == \A h \in Handlers : At(h, "write") => file.held = Nothing
FileKeeps  ==
  \/ \E h \in Handlers : At(h, "write")
  \/ file.intact /\ \A i : Promised(i) => Keeps(file.held, i)
CopyKeeps  ==
  \A h \in Handlers : Saving(h) =>
    \A i : Promised(i) \/ (i = handler[h].id /\ i # "none") => Keeps(handler[h].copy, i)
MemoryKeeps ==
  \A i : Promised(i) \/ InHand(i) => Keeps([clients |-> clients, tokens |-> tokens], i)

Unharmed == OneSave /\ EmptyFirst /\ FileKeeps /\ CopyKeeps /\ MemoryKeeps

FiniteContents(held) == IsFiniteSet(held.clients) /\ IsFiniteSet(held.tokens)

AllFinite ==
  /\ IsFiniteSet(clients) /\ IsFiniteSet(tokens)
  /\ \A held \in Copies \cup {file.held} : FiniteContents(held)

DurableInv == AllFinite /\ (harmed \/ Unharmed)

\* Memory and everything on its way to the file stay finite.
LEMMA StepKeepsFinite ==
  ASSUME TypeOK, AllFinite, NEW h \in Handlers, Step(h)
  PROVE  AllFinite'
<1>1. FiniteContents(Kept) /\ FiniteContents(Nothing)
  <2>1. Live(tokens) \in SUBSET tokens
    BY DEF Live
  <2>2. IsFiniteSet(Live(tokens))
    BY <2>1, FS_Subset DEF AllFinite
  <2>3. QED
    BY <2>2, FS_EmptySet DEF AllFinite, FiniteContents, Kept, Nothing
<1>2. \A held \in Copies' \cup {file'.held} : FiniteContents(held)
  BY <1>1, CopiesNext DEF AllFinite
<1>3. IsFiniteSet(clients')
  <2>1. clients' = clients \/ \E c : clients' = clients \cup {c}
    BY DEF Step, Register, TakeCode, Refuse, Issue, Reject, Copy, Truncate, Write,
           SaveFails, Answer, memory
  <2>2. QED
    BY <2>1, FS_AddElement DEF AllFinite
<1>4. IsFiniteSet(tokens')
  <2>1. tokens' \in SUBSET tokens \/ \E e : tokens' = tokens \cup {e}
    BY DEF Step, Register, TakeCode, Refuse, Issue, Reject, Copy, Truncate, Write,
           SaveFails, Answer, memory
  <2>2. QED
    BY <2>1, FS_AddElement, FS_Subset DEF AllFinite
<1>5. QED
  BY <1>2, <1>3, <1>4 DEF AllFinite, FiniteContents

\* Where the other handlers stand does not change in a step of one.
LEMMA OthersStand ==
  ASSUME TypeOK, NEW h \in Handlers, NEW q, Moves(h, q)
  PROVE  \A g \in Handlers : handler'[g] = IF g = h THEN q ELSE handler[g]
BY DEF TypeOK, Moves

\* A request that only changes memory and goes to its save.
LEMMA BeginSaveKeeps ==
  ASSUME TypeOK, Unharmed, NEW h \in Handlers, NEW id, At(h, "idle") \/ At(h, "redeem"),
         Saves(h, id), UNCHANGED <<file, expired, answered>>,
         \A i : Promised(i) \/ InHand(i) \/ (i = id /\ i # "none")
                  => Keeps([clients |-> clients', tokens |-> tokens'], i)
  PROVE  Unharmed'
<1> DEFINE q == [pc |-> "save", id |-> id]
<1>1. \A g \in Handlers : handler'[g] = IF g = h THEN q ELSE handler[g]
  BY OthersStand DEF Saves
<1>2. q.pc = "save" /\ q.id = id
  OBVIOUS
<1> HIDE DEF q
<1>3. \A g \in Handlers : /\ Saving(g)' <=> Saving(g)
                          /\ At(g, "write")' <=> At(g, "write")
                          /\ At(g, "answer")' <=> At(g, "answer")
                          /\ Saving(g) \/ At(g, "answer") => handler'[g] = handler[g]
  BY <1>1, <1>2 DEF Saving, At
<1>4. \A i : Promised(i)' <=> Promised(i)
  BY <1>3 DEF Promised
<1>5. \A i : InHand(i)' => InHand(i) \/ (i = id /\ i # "none")
  BY <1>1, <1>2 DEF InHand
<1>6. \A held, i : Keeps(held, i)' <=> Keeps(held, i)
  BY DEF Keeps
<1>7. OneSave' /\ EmptyFirst' /\ FileKeeps'
  BY <1>3, <1>4, <1>6 DEF Unharmed, OneSave, EmptyFirst, FileKeeps, Keeps
<1>8. CopyKeeps'
  BY <1>3, <1>4, <1>6 DEF Unharmed, CopyKeeps, Keeps
<1>9. MemoryKeeps'
  BY <1>4, <1>5 DEF MemoryKeeps, Keeps
<1>10. QED
  BY <1>7, <1>8, <1>9 DEF Unharmed

\* A step of a handler that harms nothing keeps what was promised.
LEMMA StepKeepsUnharmed ==
  ASSUME TypeOK, AllFinite, Unharmed, NEW h \in Handlers, Step(h), ~ harmed'
  PROVE  Unharmed'
<1> DEFINE r == handler[h]
<1>0. r.pc \in {"open", "write"} => r.copy \in Copies
  BY DEF Copies, Saving
<1>1. CASE Register(h)
  <2>1. PICK c \in Clients : clients' = clients \cup {c} /\ Saves(h, c)
    BY <1>1 DEF Register, Fresh
  <2>2. c \notin Tokens
    BY IdsAssumption DEF IdsAssumption
  <2>3. \A i : Promised(i) \/ InHand(i) \/ (i = c /\ i # "none")
                 => Keeps([clients |-> clients', tokens |-> tokens'], i)
    BY <1>1, <2>1, <2>2 DEF Register, Unharmed, MemoryKeeps, Keeps
  <2>4. At(h, "idle") /\ UNCHANGED <<file, expired, answered>>
    BY <1>1 DEF Register
  <2>5. QED
    BY <2>1, <2>3, <2>4, BeginSaveKeeps
<1>2. CASE Issue(h)
  <2>1. PICK t \in Tokens :
          /\ tokens' = tokens \cup {[token |-> t, client |-> r.as]}
          /\ Saves(h, t)
    BY <1>2 DEF Issue, Fresh
  <2>2. t \notin Clients
    BY IdsAssumption DEF IdsAssumption
  <2>3. \A i : Promised(i) \/ InHand(i) \/ (i = t /\ i # "none")
                 => Keeps([clients |-> clients', tokens |-> tokens'], i)
    <3>1. UNCHANGED <<clients, expired>> /\ tokens \subseteq tokens'
      BY <1>2, <2>1 DEF Issue
    <3>2. [token |-> t, client |-> r.as] \in tokens'
      BY <2>1
    <3>3. \A i : Promised(i) \/ InHand(i)
                   => Keeps([clients |-> clients, tokens |-> tokens], i)
      BY DEF Unharmed, MemoryKeeps
    <3>4. QED
      BY <2>2, <3>1, <3>2, <3>3 DEF Keeps
  <2>4. At(h, "redeem") /\ UNCHANGED <<file, expired, answered>>
    BY <1>2 DEF Issue
  <2>5. QED
    BY <2>1, <2>3, <2>4, BeginSaveKeeps
<1>3. CASE Reject(h)
  <2>1. PICK dropped \in SUBSET {e \in tokens : e.token \in expired} :
          tokens' = tokens \ dropped /\ Saves(h, "none")
    BY <1>3 DEF Reject
  <2>2. \A e \in tokens : e.token \notin expired => e \in tokens'
    BY <2>1
  <2>3. \A i : Promised(i) \/ InHand(i)
                 => Keeps([clients |-> clients', tokens |-> tokens'], i)
    <3>1. UNCHANGED <<clients, expired>>
      BY <1>3 DEF Reject
    <3>2. \A i : Promised(i) \/ InHand(i)
                   => Keeps([clients |-> clients, tokens |-> tokens], i)
      BY DEF Unharmed, MemoryKeeps
    <3>3. QED
      BY <2>2, <3>1, <3>2 DEF Keeps
  <2>4. At(h, "idle") /\ UNCHANGED <<file, expired, answered>>
    BY <1>3 DEF Reject
  <2>5. QED
    BY <2>1, <2>3, <2>4, BeginSaveKeeps
<1>4. CASE TakeCode(h) \/ Refuse(h)
  <2>1. PICK q : Moves(h, q) /\ q.pc \in {"redeem", "idle"}
    <3>1. CASE Refuse(h)
      <4>1. Moves(h, Idle) /\ Idle.pc = "idle"
        BY <3>1 DEF Refuse, Idle
      <4>2. QED
        BY <4>1
    <3>2. CASE TakeCode(h)
      <4>1. PICK k, c : Moves(h, [pc |-> "redeem", code |-> k, as |-> c])
        BY <3>2 DEF TakeCode
      <4>2. [pc |-> "redeem", code |-> k, as |-> c].pc = "redeem"
        OBVIOUS
      <4>3. QED
        BY <4>1, <4>2
    <3>3. QED
      BY <1>4, <3>1, <3>2
  <2>2. /\ r.pc \in {"idle", "redeem"}
        /\ UNCHANGED <<clients, tokens, file, expired, answered>>
    BY <1>4 DEF TakeCode, Refuse, At, memory
  <2>3. \A g \in Handlers : handler'[g] = IF g = h THEN q ELSE handler[g]
    BY <2>1, OthersStand
  <2>4. \A g \in Handlers : /\ Saving(g)' <=> Saving(g)
                            /\ \A pc \in {"save", "open", "write", "answer"} :
                                 (handler'[g].pc = pc) <=> (handler[g].pc = pc)
                            /\ handler[g].pc \in {"save", "open", "write", "answer"}
                                 => handler'[g] = handler[g]
    BY <2>1, <2>2, <2>3 DEF Saving
  <2>5. \A i : (Promised(i)' <=> Promised(i)) /\ (InHand(i)' <=> InHand(i))
    BY <2>2, <2>4 DEF Promised, InHand, At
  <2>6. OneSave' /\ EmptyFirst' /\ FileKeeps'
    BY <2>2, <2>4, <2>5 DEF Unharmed, OneSave, EmptyFirst, FileKeeps, Keeps, At
  <2>7. CopyKeeps' /\ MemoryKeeps'
    BY <2>2, <2>4, <2>5 DEF Unharmed, CopyKeeps, MemoryKeeps, Keeps, Saving
  <2>8. QED
    BY <2>6, <2>7 DEF Unharmed
<1>5. CASE Copy(h)
  <2> DEFINE q == [pc |-> "open", id |-> r.id, copy |-> Kept]
  <2>1. /\ Moves(h, q) /\ r.pc = "save"
        /\ UNCHANGED <<clients, tokens, file, expired, answered>>
        /\ \A g \in Handlers : ~ Saving(g)
    BY <1>5 DEF Copy, At, Kept, memory
  <2>2. \A g \in Handlers : handler'[g] = IF g = h THEN q ELSE handler[g]
    BY <2>1, OthersStand
  <2>3. q.pc = "open" /\ q.id = r.id /\ q.copy = Kept
    OBVIOUS
  <2> HIDE DEF q
  <2>4. /\ \A g \in Handlers : Saving(g)' <=> g = h
        /\ \A g \in Handlers : ~ At(g, "write")' /\ ~ At(g, "write")
        /\ \A g \in Handlers : At(g, "answer")' <=> At(g, "answer")
        /\ \A g \in Handlers : handler'[g].id = handler[g].id
    BY <2>1, <2>2, <2>3 DEF Saving, At
  <2>5. \A i : (Promised(i)' <=> Promised(i)) /\ (InHand(i)' <=> InHand(i))
    <3>1. \A g \in Handlers : handler'[g].pc \in {"save", "open", "write"}
                                <=> handler[g].pc \in {"save", "open", "write"}
      BY <2>1, <2>2, <2>3
    <3>2. QED
      BY <2>1, <2>4, <3>1 DEF Promised, InHand
  <2>6. OneSave' /\ EmptyFirst' /\ FileKeeps'
    BY <2>1, <2>4, <2>5 DEF Unharmed, OneSave, EmptyFirst, FileKeeps, Keeps
  <2>7. \A i : Keeps([clients |-> clients, tokens |-> tokens], i) => Keeps(Kept, i)'
    BY <2>1 DEF Keeps, Kept, Live
  <2>8. \A i : Promised(i) \/ (i = r.id /\ i # "none") => Keeps(Kept, i)'
    BY <2>1, <2>7 DEF Unharmed, MemoryKeeps, InHand
  <2>9. CopyKeeps'
    <3>1. ASSUME NEW i, Promised(i)' \/ (i = handler'[h].id /\ i # "none")
          PROVE  Keeps(handler[h].copy, i)'
      <4>1. handler'[h].copy = Kept'
        BY <2>1, <2>2, <2>3 DEF Kept, Live
      <4>2. Keeps(Kept, i)'
        BY <2>4, <2>5, <2>8, <3>1
      <4>3. QED
        BY <4>1, <4>2 DEF Keeps
    <3>2. QED
      BY <2>4, <3>1 DEF CopyKeeps
  <2>10. MemoryKeeps'
    BY <2>1, <2>5 DEF Unharmed, MemoryKeeps, Keeps
  <2>11. QED
    BY <2>6, <2>9, <2>10 DEF Unharmed
<1>6. CASE Truncate(h)
  <2> DEFINE q == [r EXCEPT !.pc = "write"]
  <2>1. /\ Moves(h, q) /\ r.pc = "open" /\ file'.held = Nothing
        /\ UNCHANGED <<clients, tokens, expired, answered>>
    BY <1>6 DEF Truncate, At, memory
  <2>2. q.pc = "write" /\ q.id = r.id /\ q.copy = r.copy
    <3>1. r \in Stands
      BY DEF TypeOK
    <3>2. r \in Saver
      BY <2>1, <3>1 DEF Stands, Idle, Redeemer
    <3>3. QED
      BY <2>1, <3>2 DEF Saver
  <2>3. \A g \in Handlers : handler'[g] = IF g = h THEN q ELSE handler[g]
    BY <2>1, OthersStand
  <2> HIDE DEF q
  <2>4. /\ \A g \in Handlers : Saving(g)' <=> Saving(g)
        /\ At(h, "write")'
        /\ \A g \in Handlers : At(g, "answer")' <=> At(g, "answer")
        /\ \A g \in Handlers : handler'[g].id = handler[g].id
        /\ \A g \in Handlers : Saving(g) => handler'[g].copy = handler[g].copy
        /\ \A g \in Handlers : handler'[g].pc \in {"save", "open", "write"}
                                 <=> handler[g].pc \in {"save", "open", "write"}
    BY <2>1, <2>2, <2>3 DEF Saving, At
  <2>5. \A i : (Promised(i)' <=> Promised(i)) /\ (InHand(i)' <=> InHand(i))
    BY <2>1, <2>4 DEF Promised, InHand
  <2>6. OneSave' /\ EmptyFirst' /\ FileKeeps'
    BY <2>1, <2>4, <2>5 DEF Unharmed, OneSave, EmptyFirst, FileKeeps
  <2>7. CopyKeeps' /\ MemoryKeeps'
    BY <2>1, <2>4, <2>5 DEF Unharmed, CopyKeeps, MemoryKeeps, Keeps
  <2>8. QED
    BY <2>6, <2>7 DEF Unharmed
<1>7. CASE Write(h)
  <2> DEFINE q == [pc |-> "answer", id |-> r.id]
  <2>1. /\ Moves(h, q) /\ r.pc = "write" /\ file.held = Nothing
        /\ UNCHANGED <<clients, tokens, expired, answered>>
    BY <1>7 DEF Write, At, memory, Unharmed, EmptyFirst
  <2>2. ~ (Size(file.held) > Size(r.copy))
    <3>1. Size(r.copy) \in Nat
      BY <1>0, <2>1, FS_CardinalityType DEF Size, AllFinite, FiniteContents
    <3>2. Size(file.held) = 0
      BY <2>1, FS_EmptySet DEF Size, Nothing
    <3>3. QED
      BY <3>1, <3>2
  <2>3. file'.intact /\ file'.held = r.copy
    BY <1>7, <2>2 DEF Write
  <2>4. q.pc = "answer" /\ q.id = r.id
    OBVIOUS
  <2>5. \A g \in Handlers : handler'[g] = IF g = h THEN q ELSE handler[g]
    BY <2>1, OthersStand
  <2> HIDE DEF q
  <2>6. /\ \A g \in Handlers : ~ Saving(g)' /\ ~ At(g, "write")'
        /\ \A g \in Handlers : At(g, "answer")' <=> At(g, "answer") \/ g = h
        /\ \A g \in Handlers : handler'[g].id = handler[g].id
    BY <2>1, <2>4, <2>5 DEF Saving, At, Unharmed, OneSave
  <2>7. \A i : Promised(i)' <=> Promised(i) \/ (i = r.id /\ i # "none")
    BY <2>1, <2>6 DEF Promised
  <2>8. \A i : InHand(i)' => InHand(i)
    BY <2>1, <2>4, <2>5 DEF InHand
  <2>9. \A i : Promised(i)' => Keeps(r.copy, i)
    BY <2>1, <2>7 DEF Unharmed, CopyKeeps, Saving
  <2>10. OneSave' /\ EmptyFirst' /\ CopyKeeps'
    BY <2>6 DEF OneSave, EmptyFirst, CopyKeeps
  <2>11. FileKeeps'
    BY <2>1, <2>3, <2>9 DEF FileKeeps, Keeps
  <2>12. MemoryKeeps'
    BY <2>1, <2>7, <2>8 DEF Unharmed, MemoryKeeps, InHand, Keeps
  <2>13. QED
    BY <2>10, <2>11, <2>12 DEF Unharmed
<1>8. CASE Answer(h)
  <2>1. /\ Moves(h, Idle) /\ Idle.pc = "idle" /\ r.pc = "answer"
        /\ answered' = answered \cup ({r.id} \ {"none"})
        /\ UNCHANGED <<clients, tokens, file, expired>>
    BY <1>8 DEF Answer, At, memory, Idle
  <2>2. \A g \in Handlers : handler'[g] = IF g = h THEN Idle ELSE handler[g]
    BY <2>1, OthersStand
  <2>3. /\ \A g \in Handlers : Saving(g)' <=> Saving(g)
        /\ \A g \in Handlers : At(g, "write")' <=> At(g, "write")
        /\ \A g \in Handlers : At(g, "answer")' => At(g, "answer") /\ g # h
        /\ \A g \in Handlers : g # h => handler'[g] = handler[g]
    BY <2>1, <2>2 DEF Saving, At
  <2>4. \A i : (Promised(i)' => Promised(i)) /\ (InHand(i)' => InHand(i))
    BY <2>1, <2>2, <2>3 DEF Promised, InHand, At
  <2>5. OneSave' /\ EmptyFirst' /\ FileKeeps'
    BY <2>1, <2>3, <2>4 DEF Unharmed, OneSave, EmptyFirst, FileKeeps, Keeps
  <2>6. CopyKeeps' /\ MemoryKeeps'
    BY <2>1, <2>2, <2>3, <2>4 DEF Unharmed, CopyKeeps, MemoryKeeps, Keeps, Saving
  <2>7. QED
    BY <2>5, <2>6 DEF Unharmed
<1>9. CASE SaveFails(h)
  BY <1>9 DEF SaveFails
<1>10. QED
  BY <1>1, <1>2, <1>3, <1>4, <1>5, <1>6, <1>7, <1>8, <1>9 DEF Step

\* A start takes over what the file holds.
LEMMA RestartKeepsDurable ==
  ASSUME TypeOK, DurableInv, Restart
  PROVE  DurableInv'
<1>1. /\ \A g \in Handlers : handler'[g].pc = "idle"
      /\ UNCHANGED <<file, expired, answered>>
  BY DEF Restart, Idle
<1>2. Copies' = {} /\ \A g \in Handlers : ~ Saving(g)' /\ ~ At(g, "write")'
  BY <1>1 DEF Copies, Saving, At
<1>3. AllFinite'
  <2>1. IsFiniteSet(Loaded.clients) /\ IsFiniteSet(Loaded.tokens)
    <3>1. Live(file.held.tokens) \in SUBSET file.held.tokens
      BY DEF Live
    <3>2. IsFiniteSet(Live(file.held.tokens)) /\ IsFiniteSet(file.held.clients)
      BY <3>1, FS_Subset DEF DurableInv, AllFinite, FiniteContents
    <3>3. file.held \in Contents
      BY DEF TypeOK, Files
    <3>4. QED
      BY <3>2, <3>3, FS_EmptySet DEF Loaded, Nothing, Contents
  <2>2. QED
    BY <1>1, <1>2, <2>1 DEF Restart, DurableInv, AllFinite, FiniteContents
<1>4. ASSUME ~ harmed' PROVE Unharmed'
  <2>1. Unharmed /\ \A g \in Handlers : ~ At(g, "write")
    BY <1>4 DEF Restart, DurableInv
  <2>2. \A i : (Promised(i)' => Promised(i)) /\ ~ InHand(i)'
    BY <1>1 DEF Promised, InHand, At
  <2>3. file.intact /\ \A i : Promised(i)' => Keeps(file.held, i)
    BY <2>1, <2>2 DEF Unharmed, FileKeeps
  <2>4. OneSave' /\ EmptyFirst' /\ CopyKeeps'
    BY <1>2 DEF OneSave, EmptyFirst, CopyKeeps
  <2>5. FileKeeps'
    BY <1>1, <2>3 DEF FileKeeps, Keeps
  <2>6. MemoryKeeps'
    <3>1. clients' = file.held.clients /\ tokens' = Live(file.held.tokens)
      BY <2>3 DEF Restart, Loaded, TypeOK, Files, Contents
    <3>2. QED
      BY <1>1, <2>2, <2>3, <3>1 DEF MemoryKeeps, Keeps, Live
  <2>7. QED
    BY <2>4, <2>5, <2>6 DEF Unharmed
<1>5. QED
  BY <1>3, <1>4 DEF DurableInv

\* Durability: as long as no two saves overlapped, none failed and no crash hit one,
\* whatever was answered is in the file, or is about to be rewritten into it.
THEOREM AnswersAreDurable == Spec => []AnsweredIsDurable
<1>1. Init => DurableInv
  <2> SUFFICES ASSUME Init PROVE DurableInv
    OBVIOUS
  <2>1. \A h \in Handlers : ~ Saving(h) /\ handler[h].pc = "idle"
    BY DEF Init, Saving, Idle
  <2>2. Copies = {}
    BY <2>1 DEF Copies
  <2>3. \A i : ~ Promised(i) /\ ~ InHand(i)
    BY <2>1 DEF Init, Promised, InHand, At
  <2>4. Unharmed
    BY <2>1, <2>3 DEF Init, Unharmed, OneSave, EmptyFirst, FileKeeps, CopyKeeps,
                      MemoryKeeps, At
  <2>5. AllFinite
    BY <2>2, FS_EmptySet DEF Init, AllFinite, FiniteContents, Nothing
  <2>6. QED
    BY <2>4, <2>5 DEF DurableInv
<1>2. TypeOK /\ DurableInv /\ [Next]_vars => DurableInv'
  <2> SUFFICES ASSUME TypeOK, DurableInv, [Next]_vars PROVE DurableInv'
    OBVIOUS
  <2>1. ASSUME NEW h \in Handlers, Step(h) PROVE DurableInv'
    <3>1. harmed => harmed'
      BY <2>1 DEF Step, Register, TakeCode, Refuse, Issue, Reject, Copy, Truncate,
                  Write, SaveFails, Answer
    <3>2. QED
      BY <2>1, <3>1, StepKeepsFinite, StepKeepsUnharmed DEF DurableInv
  <2>2. CASE Restart
    BY <2>2, RestartKeepsDurable
  <2>3. CASE Authorize \/ (\E t \in Tokens : Expire(t)) \/ UNCHANGED vars
    <3>1. /\ UNCHANGED <<clients, tokens, file, handler, answered, harmed>>
          /\ expired \subseteq expired'
      BY <2>3 DEF Authorize, Expire, vars, memory
    <3>2. \A held, i : Keeps(held, i) => Keeps(held, i)'
      BY <3>1 DEF Keeps
    <3>3. AllFinite'
      BY <3>1 DEF DurableInv, AllFinite, Copies, Saving
    <3>4. \A i : (Promised(i)' <=> Promised(i)) /\ (InHand(i)' <=> InHand(i))
      BY <3>1 DEF Promised, InHand, At
    <3>5. Unharmed => Unharmed'
      <4>1. OneSave /\ EmptyFirst => OneSave' /\ EmptyFirst'
        BY <3>1 DEF OneSave, EmptyFirst, Saving, At
      <4>2. FileKeeps => FileKeeps'
        BY <3>1, <3>4 DEF FileKeeps, At, Keeps
      <4>3. CopyKeeps => CopyKeeps'
        BY <3>1, <3>4 DEF CopyKeeps, Saving, Keeps
      <4>4. MemoryKeeps => MemoryKeeps'
        BY <3>1, <3>4 DEF MemoryKeeps, Keeps
      <4>5. QED
        BY <4>1, <4>2, <4>3, <4>4 DEF Unharmed
    <3>6. QED
      BY <3>1, <3>3, <3>5 DEF DurableInv
  <2>4. QED
    BY <2>1, <2>2, <2>3 DEF Next
<1>3. TypeOK /\ DurableInv => AnsweredIsDurable
  <2> SUFFICES ASSUME TypeOK, DurableInv, ~ harmed,
                      ~ \E h \in Handlers : At(h, "write")
               PROVE  AnsweredIsDurable
    BY DEF AnsweredIsDurable
  <2>1. file.intact /\ \A i \in answered : Keeps(file.held, i)
    BY DEF DurableInv, Unharmed, FileKeeps, Promised
  <2>2. QED
    BY <2>1 DEF AnsweredIsDurable, Keeps
<1>4. QED
  BY <1>1, <1>2, <1>3, OAuthTypeCorrect, PTL DEF Spec

(***************************************************************************)
(* The server implements Grants.                                           *)
(*                                                                         *)
(* A start must bring up nothing that memory had lost, so what can be read *)
(* back, and every copy on its way to the file, must lie within memory,    *)
(* harmed or not.  A client is told only what memory holds.                *)
(***************************************************************************)
Within(held) == held.clients \subseteq clients /\ Live(held.tokens) \subseteq Live(tokens)

InMemory(i) == Keeps([clients |-> clients, tokens |-> tokens], i)

\* The id a handler will answer once its save is over.
Carries(h, i) ==
  /\ handler[h].pc \in {"save", "open", "write", "answer"}
  /\ handler[h].id = i /\ i # "none"

MemoryLeads ==
  /\ \A held \in Copies : Within(held)
  /\ file.intact => Within(file.held)
  /\ \A h \in Handlers : \A i : Carries(h, i) => InMemory(i)
  /\ expired \subseteq drawn

\* In a step of a handler memory loses nothing but expired tokens, and what it draws
\* anew had not expired.
LEMMA StepKeepsMemory ==
  ASSUME TypeOK, NEW h \in Handlers, Step(h)
  PROVE  /\ expired' = expired /\ drawn \subseteq drawn' /\ clients \subseteq clients'
         /\ \A e \in tokens : e.token \notin expired => e \in tokens'
<1>1. CASE Register(h)
  BY <1>1 DEF Register
<1>2. CASE Issue(h)
  BY <1>2 DEF Issue
<1>3. CASE Reject(h)
  BY <1>3 DEF Reject
<1>4. CASE TakeCode(h) \/ Refuse(h) \/ Copy(h) \/ Truncate(h)
  BY <1>4 DEF TakeCode, Refuse, Copy, Truncate, memory
<1>5. CASE Write(h) \/ SaveFails(h) \/ Answer(h)
  BY <1>5 DEF Write, SaveFails, Answer, memory
<1>6. QED
  BY <1>1, <1>2, <1>3, <1>4, <1>5 DEF Step

\* What a handler carries it carried before, or has just put into memory.
LEMMA CarriesNext ==
  ASSUME TypeOK, NEW h \in Handlers, Step(h), NEW g \in Handlers, NEW i,
         Carries(g, i)'
  PROVE  \/ Carries(g, i)
         \/ i \in clients' /\ i \notin Tokens
         \/ i \notin Clients /\ \E e \in tokens' : e.token = i
<1> DEFINE r == handler[h]
<1>1. ASSUME NEW q, Moves(h, q),
             q.pc \in {"save", "open", "write", "answer"} =>
               q.id = "none" \/ (r.pc \in {"save", "open", "write"} /\ q.id = r.id)
      PROVE  Carries(g, i)
  <2>1. handler'[g] = IF g = h THEN q ELSE handler[g]
    BY <1>1, OthersStand
  <2>2. QED
    BY <1>1, <2>1 DEF Carries
<1>2. ASSUME NEW id, Saves(h, id) PROVE Carries(g, i) \/ i = id
  <2>1. handler'[g] = IF g = h THEN [pc |-> "save", id |-> id] ELSE handler[g]
    BY <1>2, OthersStand DEF Saves
  <2>2. QED
    BY <2>1 DEF Carries
<1>3. CASE Register(h)
  <2>1. PICK c \in Clients : Saves(h, c) /\ c \in clients'
    BY <1>3 DEF Register, Fresh
  <2>2. QED
    BY <1>2, <2>1, IdsAssumption DEF IdsAssumption
<1>4. CASE Issue(h)
  <2>1. PICK t \in Tokens : Saves(h, t) /\ [token |-> t, client |-> r.as] \in tokens'
    BY <1>4 DEF Issue, Fresh
  <2>2. QED
    BY <1>2, <2>1, IdsAssumption DEF IdsAssumption
<1>5. CASE Reject(h)
  <2>1. Saves(h, "none")
    BY <1>5 DEF Reject
  <2>2. i # "none"
    BY DEF Carries
  <2>3. QED
    BY <1>2, <2>1, <2>2
<1>6. CASE TakeCode(h)
  <2>1. PICK k, c : Moves(h, [pc |-> "redeem", code |-> k, as |-> c])
    BY <1>6 DEF TakeCode
  <2>2. QED
    BY <1>1, <2>1
<1>7. CASE Refuse(h) \/ Answer(h)
  <2>1. Moves(h, Idle) /\ Idle.pc = "idle"
    BY <1>7 DEF Refuse, Answer, Idle
  <2>2. QED
    BY <1>1, <2>1
<1>8. CASE Copy(h)
  <2>1. Moves(h, [pc |-> "open", id |-> r.id, copy |-> Kept]) /\ r.pc = "save"
    BY <1>8 DEF Copy, Kept, At
  <2>2. QED
    BY <1>1, <2>1
<1>9. CASE Truncate(h)
  <2> DEFINE q == [r EXCEPT !.pc = "write"]
  <2>1. Moves(h, q) /\ r.pc = "open"
    BY <1>9 DEF Truncate, At
  <2>2. q.id = r.id
    <3>1. r \in Stands
      BY DEF TypeOK
    <3>2. r \in Saver
      BY <2>1, <3>1 DEF Stands, Idle, Redeemer
    <3>3. QED
      BY <2>1, <3>2 DEF Saver
  <2> HIDE DEF q
  <2>3. QED
    BY <1>1, <2>1, <2>2
<1>10. CASE Write(h) \/ SaveFails(h)
  <2>1. Moves(h, [pc |-> "answer", id |-> r.id]) /\ r.pc \in {"open", "write"}
    BY <1>10 DEF Write, SaveFails, At, Saving
  <2>2. QED
    BY <1>1, <2>1
<1>11. QED
  BY <1>3, <1>4, <1>5, <1>6, <1>7, <1>8, <1>9, <1>10 DEF Step

\* Memory leads after every step of a handler.
LEMMA StepKeepsLead ==
  ASSUME TypeOK, MemoryLeads, NEW h \in Handlers, Step(h)
  PROVE  MemoryLeads'
<1>1. \A held : Within(held) => Within(held)'
  BY StepKeepsMemory DEF Within, Live
<1>2. Within(Kept)
  BY DEF Within, Kept, Live
<1>3. \A held \in Copies' : Within(held)'
  BY <1>1, <1>2, CopiesNext DEF MemoryLeads
<1>4. file'.intact => Within(file.held)'
  <2>1. CASE Write(h)
    <3>1. file'.intact => file'.held \in Copies
      BY <2>1 DEF Write, At, Copies, Saving
    <3>2. QED
      BY <1>1, <3>1 DEF MemoryLeads, Within, Live
  <2>2. CASE Truncate(h)
    BY <2>2 DEF Truncate
  <2>3. CASE file' = file
    BY <1>1, <2>3 DEF MemoryLeads, Within, Live
  <2>4. QED
    BY <2>1, <2>2, <2>3 DEF Step, Register, TakeCode, Refuse, Issue, Reject, Copy,
                            SaveFails, Answer
<1>5. ASSUME NEW g \in Handlers, NEW i, Carries(g, i)' PROVE InMemory(i)'
  <2>1. \/ Carries(g, i)
        \/ i \in clients' /\ i \notin Tokens
        \/ i \notin Clients /\ \E e \in tokens' : e.token = i
    BY <1>5, CarriesNext
  <2>2. Carries(g, i) => InMemory(i)
    BY DEF MemoryLeads
  <2>3. QED
    BY <2>1, <2>2, StepKeepsMemory DEF InMemory, Keeps
<1>6. expired' \subseteq drawn'
  BY StepKeepsMemory DEF MemoryLeads
<1>7. QED
  BY <1>3, <1>4, <1>5, <1>6 DEF MemoryLeads

\* And after every other step: a start takes from the file what memory had.
LEMMA LeadNext ==
  ASSUME TypeOK, MemoryLeads, [Next]_vars
  PROVE  MemoryLeads'
<1>1. ASSUME NEW h \in Handlers, Step(h) PROVE MemoryLeads'
  BY <1>1, StepKeepsLead
<1>2. CASE Restart
  <2>1. \A h \in Handlers : handler'[h].pc = "idle"
    BY <1>2 DEF Restart, Idle
  <2>2. Copies' = {} /\ \A h \in Handlers : \A i : ~ Carries(h, i)'
    BY <2>1 DEF Copies, Saving, Carries
  <2>3. file'.intact => Within(file.held)'
    <3>1. file \in Files /\ file.held \in Contents
      BY DEF TypeOK, Files
    <3>2. file.intact => clients' = file.held.clients /\ tokens' = Live(file.held.tokens)
      BY <1>2, <3>1 DEF Restart, Loaded, Contents
    <3>3. file' = file /\ expired' = expired
      BY <1>2 DEF Restart
    <3>4. QED
      BY <3>2, <3>3 DEF Within, Live
  <2>4. expired' \subseteq drawn'
    BY <1>2 DEF Restart, MemoryLeads
  <2>5. QED
    BY <2>2, <2>3, <2>4 DEF MemoryLeads
<1>3. CASE Authorize \/ (\E t \in Tokens : Expire(t)) \/ UNCHANGED vars
  <2>1. /\ UNCHANGED <<clients, tokens, file, handler>>
        /\ expired \subseteq expired' /\ expired' \subseteq drawn'
    BY <1>3 DEF Authorize, Expire, vars, memory, MemoryLeads
  <2>2. \A held : Within(held) => Within(held)'
    BY <2>1 DEF Within, Live
  <2>3. Copies' = Copies /\ \A h \in Handlers : \A i : Carries(h, i)' <=> Carries(h, i)
    BY <2>1 DEF Copies, Saving, Carries
  <2>4. \A i : InMemory(i) => InMemory(i)'
    BY <2>1 DEF InMemory, Keeps
  <2>5. file'.intact => Within(file.held)'
    BY <2>1 DEF MemoryLeads, Within, Live
  <2>. QED
    BY <2>1, <2>2, <2>3, <2>4, <2>5 DEF MemoryLeads
<1>4. QED
  BY <1>1, <1>2, <1>3 DEF Next

\* Codes in the hands of the other handlers.
Elsewhere(h) == {handler[g].code : g \in {f \in Handlers \ {h} : At(f, "redeem")}}

\* The codes in requests before and after one handler moves.
LEMMA RequestsNext ==
  ASSUME TypeOK, NEW h \in Handlers, NEW q, Moves(h, q)
  PROVE  /\ InRequest = Elsewhere(h) \cup (IF At(h, "redeem") THEN {handler[h].code} ELSE {})
         /\ InRequest' = Elsewhere(h) \cup (IF q.pc = "redeem" THEN {q.code} ELSE {})
<1>1. InRequest = Elsewhere(h) \cup (IF At(h, "redeem") THEN {handler[h].code} ELSE {})
  BY DEF InRequest, Elsewhere, At
<1>2. \A g \in Handlers : handler'[g] = IF g = h THEN q ELSE handler[g]
  BY OthersStand
<1>3. InRequest' = Elsewhere(h) \cup (IF q.pc = "redeem" THEN {q.code} ELSE {})
  BY <1>2 DEF InRequest, Elsewhere, At
<1>4. QED
  BY <1>1, <1>3

\* A handler that neither takes nor gives up a code leaves the open codes alone.
LEMMA OtherMovesKeepOpen ==
  ASSUME TypeOK, NEW h \in Handlers, NEW q, Moves(h, q), q.pc # "redeem",
         ~ At(h, "redeem"), codes' = codes
  PROVE  (codes \cup InRequest)' = codes \cup InRequest
BY RequestsNext

\* A code whose request comes to its end is open no longer, and no other is touched.
LEMMA EndClosesOne ==
  ASSUME TypeOK, CodesApart, NEW h \in Handlers, At(h, "redeem"), codes' = codes,
         NEW q, Moves(h, q), q.pc # "redeem"
  PROVE  /\ handler[h].code \in codes \cup InRequest
         /\ (codes \cup InRequest)' = (codes \cup InRequest) \ {handler[h].code}
<1> DEFINE k == handler[h].code
<1>1. k \notin codes
  BY DEF CodesApart, TakenIsGone, Holds
<1>2. k \notin Elsewhere(h)
  BY DEF CodesApart, TakenByOne, Holds, Elsewhere
<1>3. InRequest = Elsewhere(h) \cup {k} /\ InRequest' = Elsewhere(h)
  BY RequestsNext
<1>4. QED
  BY <1>1, <1>2, <1>3

\* The requests: what registers, authorizes, redeems or refuses does so in Grants.
LEMMA RequestRefines ==
  ASSUME TypeOK, CodesApart, MemoryLeads, NEW h \in Handlers,
         Register(h) \/ TakeCode(h) \/ Refuse(h) \/ Issue(h) \/ Reject(h)
  PROVE  [Service!Next]_(Service!grants)
<1> DEFINE r == handler[h]
<1>1. CASE Register(h)
  <2>1. PICK c \in Clients \ drawn :
          clients' = clients \cup {c} /\ drawn' = drawn \cup {c} /\ Saves(h, c)
    BY <1>1 DEF Register, Fresh
  <2>2. (codes \cup InRequest)' = codes \cup InRequest
    BY <1>1, <2>1, OtherMovesKeepOpen DEF Register, Saves, At
  <2>3. Live(tokens)' = Live(tokens) /\ UNCHANGED <<answered, expired, harmed>>
    BY <1>1 DEF Register, Live
  <2>4. Service!Register
    BY <2>1, <2>2, <2>3 DEF Service!Register
  <2>5. QED
    BY <2>4 DEF Service!Next
<1>2. CASE TakeCode(h)
  <2>1. PICK k \in codes, c \in Clients :
          codes' = codes \ {k} /\ Moves(h, [pc |-> "redeem", code |-> k, as |-> c])
    BY <1>2 DEF TakeCode
  <2>2. InRequest = Elsewhere(h) /\ InRequest' = Elsewhere(h) \cup {k}
    <3> DEFINE q == [pc |-> "redeem", code |-> k, as |-> c]
    <3>1. q.pc = "redeem" /\ q.code = k /\ Moves(h, q)
      BY <2>1
    <3> HIDE DEF q
    <3>2. ~ At(h, "redeem")
      BY <1>2 DEF TakeCode, At
    <3>3. QED
      BY <3>1, <3>2, RequestsNext
  <2>3. UNCHANGED <<clients, tokens, expired, drawn, answered, harmed>>
    BY <1>2 DEF TakeCode
  <2>4. QED
    BY <2>1, <2>2, <2>3 DEF Service!grants, Live
<1>3. CASE Refuse(h)
  <2>1. Moves(h, Idle) /\ Idle.pc # "redeem" /\ At(h, "redeem")
    BY <1>3 DEF Refuse, Idle
  <2>2. UNCHANGED <<clients, codes, tokens, expired, drawn, answered, harmed>>
    BY <1>3 DEF Refuse, memory
  <2>3. Service!Refuse
    BY <2>1, <2>2, EndClosesOne DEF Service!Refuse, Live
  <2>4. QED
    BY <2>3 DEF Service!Next
<1>4. CASE Issue(h)
  <2>1. PICK t \in Tokens \ drawn :
          /\ Matches(r) /\ drawn' = drawn \cup {t}
          /\ tokens' = tokens \cup {[token |-> t, client |-> r.as]}
          /\ Saves(h, t)
    BY <1>4 DEF Issue, Fresh
  <2>2. UNCHANGED <<clients, codes, expired, answered, harmed>> /\ At(h, "redeem")
    BY <1>4 DEF Issue
  <2>3. /\ r.code \in codes \cup InRequest
        /\ (codes \cup InRequest)' = (codes \cup InRequest) \ {r.code}
    BY <2>1, <2>2, EndClosesOne DEF Saves
  <2>4. r.as = r.code.client /\ r.code.client \in clients
    BY <2>1 DEF Matches
  <2>5. Live(tokens)' = Live(tokens) \cup {[token |-> t, client |-> r.code.client]}
    <3>1. t \notin expired
      BY DEF MemoryLeads
    <3>2. QED
      BY <2>1, <2>2, <2>4, <3>1 DEF Live
  <2>6. Service!Redeem
    BY <2>1, <2>2, <2>3, <2>4, <2>5 DEF Service!Redeem
  <2>7. QED
    BY <2>6 DEF Service!Next
<1>5. CASE Reject(h)
  <2>1. (codes \cup InRequest)' = codes \cup InRequest
    BY <1>5, OtherMovesKeepOpen DEF Reject, Saves, At
  <2>2. Live(tokens)' = Live(tokens)
    BY <1>5 DEF Reject, Live
  <2>3. UNCHANGED <<clients, expired, drawn, answered, harmed>>
    BY <1>5 DEF Reject
  <2>4. QED
    BY <2>1, <2>2, <2>3 DEF Service!grants
<1>6. QED
  BY <1>1, <1>2, <1>3, <1>4, <1>5

\* The saves: they change nothing that Grants knows of, but they can do harm; and the
\* answer, which tells what memory holds.
LEMMA SaveRefines ==
  ASSUME TypeOK, MemoryLeads, NEW h \in Handlers,
         Copy(h) \/ Truncate(h) \/ Write(h) \/ SaveFails(h) \/ Answer(h)
  PROVE  [Service!Next]_(Service!grants)
<1> DEFINE r == handler[h]
<1>0. harmed \in BOOLEAN /\ r \in Stands
  BY DEF TypeOK
<1>1. UNCHANGED <<clients, codes, tokens, expired, drawn>> /\ Live(tokens)' = Live(tokens)
  BY DEF Copy, Truncate, Write, SaveFails, Answer, memory, Live
<1>2. (codes \cup InRequest)' = codes \cup InRequest
  <2>1. ~ At(h, "redeem")
    BY DEF Copy, Truncate, Write, SaveFails, Answer, Saving, At
  <2>2. \E q : Moves(h, q) /\ q.pc # "redeem"
    <3>1. CASE Truncate(h)
      <4> DEFINE q == [r EXCEPT !.pc = "write"]
      <4>1. Moves(h, q) /\ r.pc = "open"
        BY <3>1 DEF Truncate, At
      <4>2. r \in Saver
        BY <1>0, <4>1 DEF Stands, Idle, Redeemer
      <4>3. q.pc = "write"
        BY <4>1, <4>2 DEF Saver
      <4> HIDE DEF q
      <4>4. QED
        BY <4>1, <4>3
    <3>2. CASE Copy(h)
      <4>1. Moves(h, [pc |-> "open", id |-> r.id, copy |-> Kept])
        BY <3>2 DEF Copy, Kept
      <4>2. QED
        BY <4>1
    <3>3. CASE Write(h) \/ SaveFails(h)
      <4>1. Moves(h, [pc |-> "answer", id |-> r.id])
        BY <3>3 DEF Write, SaveFails
      <4>2. QED
        BY <4>1
    <3>4. CASE Answer(h)
      <4>1. Moves(h, Idle) /\ Idle.pc # "redeem"
        BY <3>4 DEF Answer, Idle
      <4>2. QED
        BY <4>1
    <3>5. QED
      BY <3>1, <3>2, <3>3, <3>4
  <2>3. QED
    BY <1>1, <2>1, <2>2, OtherMovesKeepOpen
<1>3. CASE Copy(h) \/ Truncate(h) \/ Write(h) \/ SaveFails(h)
  <2>1. answered' = answered /\ (harmed' = harmed \/ harmed' = TRUE)
    BY <1>0, <1>3, Zenon DEF Copy, Truncate, Write, SaveFails
  <2>2. CASE harmed' = harmed
    BY <1>1, <1>2, <2>1, <2>2 DEF Service!grants
  <2>3. CASE harmed' = TRUE
    <3>1. Service!Harm
      BY <1>1, <1>2, <2>1, <2>3 DEF Service!Harm
    <3>2. QED
      BY <3>1 DEF Service!Next
  <2>4. QED
    BY <2>1, <2>2, <2>3
<1>4. CASE Answer(h)
  <2>1. answered' = answered \cup ({r.id} \ {"none"}) /\ harmed' = harmed
    BY <1>4 DEF Answer
  <2>2. CASE r.id = "none" \/ r.id \in expired
    <3>1. answered' \ expired' = answered \ expired
      BY <1>1, <2>1, <2>2
    <3>2. QED
      BY <1>1, <1>2, <2>1, <3>1 DEF Service!grants
  <2>3. CASE r.id # "none" /\ r.id \notin expired
    <3>1. answered' \ expired' = (answered \ expired) \cup {r.id}
      BY <1>1, <2>1, <2>3
    <3>2. InMemory(r.id)
      BY <1>4, <2>3 DEF Answer, At, MemoryLeads, Carries
    <3>3. r.id \in Clients \cup Tokens
      BY <1>0, <1>4, <2>3, StandsByPc DEF Answer, At
    <3>4. r.id \in clients \/ \E e \in Live(tokens) : e.token = r.id
      BY <2>3, <3>2, <3>3 DEF InMemory, Keeps, Live
    <3>5. Service!Tell
      BY <1>1, <1>2, <2>1, <3>1, <3>4 DEF Service!Tell, Service!Known
    <3>6. QED
      BY <3>5 DEF Service!Next
  <2>4. QED
    BY <2>2, <2>3
<1>5. QED
  BY <1>3, <1>4

\* A start is a restart of Grants: nothing comes back, no token is without its client,
\* and without harm all that was told is loaded.
LEMMA RestartRefines ==
  ASSUME TypeOK, OwnersRegistered, AnsweredIsDurable, MemoryLeads, Restart
  PROVE  Service!Restart
<1>0. file.held \in Contents /\ harmed \in BOOLEAN
  BY DEF TypeOK, Files
<1>1. UNCHANGED <<expired, drawn, answered>> /\ codes' = {}
  BY DEF Restart
<1>2. InRequest' = {}
  BY DEF Restart, InRequest, At, Idle
<1>3. CASE ~ file.intact
  <2>1. clients' = {} /\ tokens' = {}
    BY <1>3 DEF Restart, Loaded, Nothing
  <2>2. ~ harmed' => harmed' = FALSE /\ answered \ expired = {}
    <3>1. ASSUME ~ harmed' PROVE FALSE
      BY <1>3, <3>1 DEF Restart, AnsweredIsDurable
    <3>2. QED
      BY <3>1
  <2>3. harmed' \in BOOLEAN /\ (harmed => harmed')
    BY <1>0, Zenon DEF Restart
  <2>4. QED
    BY <1>1, <1>2, <2>1, <2>2, <2>3 DEF Service!Restart, Live, Service!Known
<1>4. CASE file.intact
  <2>1. clients' = file.held.clients /\ tokens' = Live(file.held.tokens)
    BY <1>0, <1>4 DEF Restart, Loaded, Contents
  <2>2. clients' \subseteq clients /\ Live(tokens)' \subseteq Live(tokens)
    BY <1>1, <1>4, <2>1 DEF MemoryLeads, Within, Live
  <2>3. \A e \in Live(tokens)' : e.client \in clients'
    BY <1>1, <2>1 DEF OwnersRegistered, Live
  <2>4. harmed' \in BOOLEAN /\ (harmed => harmed')
    BY <1>0, Zenon DEF Restart
  <2>5. ~ harmed' => answered \ expired \subseteq Service!Known'
    <3>1. SUFFICES ASSUME ~ harmed', NEW i \in answered \ expired
                   PROVE  i \in clients' \/ \E e \in Live(tokens)' : e.token = i
      BY DEF Service!Known
    <3>2. i \in Clients \cup Tokens
      BY DEF TypeOK
    <3>3. /\ answered \cap Clients \subseteq file.held.clients
          /\ (answered \cap Tokens) \ expired \subseteq {e.token : e \in file.held.tokens}
      BY <3>1 DEF Restart, AnsweredIsDurable
    <3>4. QED
      BY <1>1, <2>1, <3>1, <3>2, <3>3 DEF Live
  <2>6. QED
    BY <1>1, <1>2, <2>2, <2>3, <2>4, <2>5 DEF Service!Restart
<1>5. QED
  BY <1>3, <1>4

\* However requests, saves, failures and restarts interleave, the server grants as
\* Grants allows: one token per code, for its client, accepted until it expires or is
\* lost; nothing lost comes back; without harm nothing told is lost.
THEOREM ServerKeepsGrants == Spec => KeepsGrants
<1>1. Init => Service!Init /\ MemoryLeads
  <2> SUFFICES ASSUME Init PROVE Service!Init /\ MemoryLeads
    OBVIOUS
  <2>1. \A h \in Handlers : handler[h].pc = "idle"
    BY DEF Init, Idle
  <2>2. Copies = {} /\ InRequest = {}
    BY <2>1 DEF Copies, Saving, InRequest, At
  <2>3. MemoryLeads
    BY <2>1, <2>2 DEF Init, MemoryLeads, Carries, Within, Nothing, Live
  <2>4. Service!Init
    BY <2>2 DEF Init, Service!Init, Live
  <2>5. QED
    BY <2>3, <2>4
<1>2. TypeOK /\ MemoryLeads /\ [Next]_vars => MemoryLeads'
  BY LeadNext
<1>3. ASSUME TypeOK, CodesApart, OwnersRegistered, AnsweredIsDurable, MemoryLeads,
             [Next]_vars
      PROVE  [Service!Next]_(Service!grants)
  <2>1. ASSUME NEW h \in Handlers, Step(h) PROVE [Service!Next]_(Service!grants)
    BY <1>3, <2>1, RequestRefines, SaveRefines DEF Step
  <2>2. CASE Authorize
    <3>1. UNCHANGED <<clients, tokens, handler, expired, answered, harmed>>
      BY <2>2 DEF Authorize
    <3>2. InRequest' = InRequest /\ Live(tokens)' = Live(tokens)
      BY <3>1 DEF InRequest, At, Live
    <3>3. Service!Authorize
      BY <2>2, <3>1, <3>2 DEF Authorize, Fresh, Service!Authorize
    <3>4. QED
      BY <3>3 DEF Service!Next
  <2>3. ASSUME NEW t \in Tokens, Expire(t) PROVE [Service!Next]_(Service!grants)
    <3>1. /\ t \in drawn /\ expired' = expired \cup {t}
          /\ UNCHANGED <<clients, codes, tokens, handler, drawn, answered, harmed>>
      BY <2>3 DEF Expire, memory
    <3>2. InRequest' = InRequest
      BY <3>1 DEF InRequest, At
    <3>3. Live(tokens)' = {e \in Live(tokens) : e.token # t}
      BY <3>1 DEF Live
    <3>4. Service!Expire
      BY <3>1, <3>2, <3>3 DEF Service!Expire
    <3>5. QED
      BY <3>4 DEF Service!Next
  <2>4. CASE Restart
    BY <1>3, <2>4, RestartRefines DEF Service!Next
  <2>5. CASE UNCHANGED vars
    <3>1. UNCHANGED <<clients, codes, tokens, handler, expired, drawn, answered, harmed>>
      BY <2>5 DEF vars, memory
    <3>2. QED
      BY <3>1 DEF Service!grants, InRequest, At, Live
  <2>6. QED
    BY <1>3, <2>1, <2>2, <2>3, <2>4, <2>5 DEF Next
<1>4. Spec => []TypeOK /\ []CodesApart /\ []OwnersRegistered /\ []AnsweredIsDurable
  BY OAuthTypeCorrect, CodesStayApart, OwnersAreRegistered, AnswersAreDurable, PTL
<1>5. QED
  BY <1>1, <1>2, <1>3, <1>4, PTL DEF Spec, KeepsGrants, Service!Spec
================================================================================
