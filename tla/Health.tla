--------------------------------- MODULE Health ---------------------------------
(***************************************************************************)
(* What the health of a source promises, whatever a watcher reads ahead: a *)
(* report is judged at once, on the row as it stands, by the failures in a *)
(* row of that very source; a paused source is not asked; what is asked in *)
(* vain is forgotten without a trace.                                      *)
(***************************************************************************)
EXTENDS Naturals

CONSTANTS
  Sources,     \* source ids
  Threshold,   \* failures in a row that disable a source
  ErrorCap,    \* bound: failures are counted up to here
  Outcomes,    \* what a source may answer: [error, wait]
  NoOutcome    \* no answer

VARIABLES
  present, enabled, errors, paused,   \* the rows
  answers,                            \* answers not reported yet
  fresh                               \* rows newer than the last look

health == <<present, enabled, errors, paused, answers, fresh>>

Blank == [s \in Sources |-> NoOutcome]
Zero  == [s \in Sources |-> 0]

Init ==
  /\ present = {}
  /\ enabled = [s \in Sources |-> FALSE]
  /\ errors = Zero
  /\ paused = Zero
  /\ answers = Blank
  /\ fresh = {}

Wait ==
  /\ paused' = [s \in Sources |-> IF paused[s] = 0 THEN 0 ELSE paused[s] - 1]
  /\ UNCHANGED <<present, enabled, errors, answers, fresh>>

Look ==
  /\ answers = Blank
  /\ fresh' = {}
  /\ UNCHANGED <<present, enabled, errors, paused, answers>>

Answer(s, outcome) ==
  /\ answers[s] = NoOutcome
  /\ paused[s] = 0
  /\ answers' = [answers EXCEPT ![s] = outcome]
  /\ UNCHANGED <<present, enabled, errors, paused, fresh>>

Recovers(s) ==
  /\ answers[s].error = "none"
  /\ errors' = [errors EXCEPT ![s] = 0]
  /\ paused' = [paused EXCEPT ![s] = 0]
  /\ UNCHANGED enabled

\* Of a row younger than the look it is left open whether it is disabled.
Judged(s) == answers[s].error = "permanent" /\ errors'[s] >= Threshold
Spared(s) == answers[s].error # "permanent" \/ errors'[s] < Threshold

Suffers(s) ==
  /\ answers[s].error \notin {"none", "unasked"}
  /\ errors' = [errors EXCEPT ![s] = IF @ + 1 < ErrorCap THEN @ + 1 ELSE ErrorCap]
  /\ \A t \in Sources \ {s} : paused'[t] = paused[t]
  /\ paused'[s] >= answers[s].wait
  /\ answers[s].error # "flood" => paused'[s] = 0
  /\ \/ /\ Judged(s) \/ s \in fresh
        /\ enabled' = [enabled EXCEPT ![s] = FALSE]
     \/ /\ Spared(s) \/ s \in fresh
        /\ UNCHANGED enabled

Report(s) ==
  /\ s \in present
  /\ Recovers(s) \/ Suffers(s)
  /\ answers' = [answers EXCEPT ![s] = NoOutcome]
  /\ UNCHANGED <<present, fresh>>

Lose(s) ==
  /\ answers' = [answers EXCEPT ![s] = NoOutcome]
  /\ UNCHANGED <<present, enabled, errors, paused, fresh>>

LoseAll ==
  /\ answers' = Blank
  /\ UNCHANGED <<present, enabled, errors, paused, fresh>>

Configure(s, on) ==
  /\ present' = present \cup {s}
  /\ enabled' = [enabled EXCEPT ![s] = on]
  /\ fresh' = fresh \cup ({s} \ present)
  /\ UNCHANGED <<errors, paused, answers>>

Remove(s) ==
  /\ present' = present \ {s}
  /\ enabled' = [enabled EXCEPT ![s] = FALSE]
  /\ errors' = [errors EXCEPT ![s] = 0]
  /\ paused' = [paused EXCEPT ![s] = 0]
  /\ UNCHANGED <<answers, fresh>>

Next ==
  \/ Wait \/ Look \/ LoseAll
  \/ \E s \in Sources : Report(s) \/ Lose(s) \/ Remove(s)
  \/ \E s \in Sources, outcome \in Outcomes : Answer(s, outcome)
  \/ \E s \in Sources, on \in BOOLEAN : Configure(s, on)

Spec == Init /\ [][Next]_health
=================================================================================
