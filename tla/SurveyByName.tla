---------------------------- MODULE SurveyByName ----------------------------
(***************************************************************************)
(* What editing a survey promises, with rules between questions, not       *)
(* between places: an edit moves no end of a rule to another question.     *)
(*                                                                         *)
(* A rule leads to a question, to the end of the survey, or behind the     *)
(* last question: to 0, where the next one appended will be, 1, where the  *)
(* one after that will be, and so on.  Deleting a question takes its own   *)
(* rules away and sends the rules that led to it to the question after it, *)
(* or to the end if there is none, and with them those that led to 0.      *)
(***************************************************************************)
EXTENDS Integers, SequencesExt, Functions

CONSTANTS
  Questions,
  Always,        \* the condition of a rule that always applies
  EndOfSurvey

VARIABLES
  questions,     \* the survey's questions in order
  links,         \* the rules
  memory         \* per question, the earlier ones it is shown

vars == <<questions, links, memory>>

\* The question at place k, counted from 1, or how far behind the last one that is.
At(qs, k) == IF k <= Len(qs) THEN qs[k] ELSE k - Len(qs) - 1

Place(qs, q) == CHOOSE k \in DOMAIN qs : qs[k] = q

Default(q, to) == [from |-> q, to |-> to, reads |-> Always, priority |-> -1, before_rule |-> FALSE]

Send(L, from, to) == {[l EXCEPT !.to = IF @ \in from THEN to ELSE @] : l \in L}

\* Behind the last question everything comes nearer.
Approach(L, q) ==
  {[l EXCEPT !.to = IF @ \notin Nat THEN @ ELSE IF @ = 0 THEN q ELSE @ - 1] : l \in L}

Init ==
  /\ questions \in Seq(Questions) /\ IsInjective(questions)
  /\ links = {Default(questions[k], At(questions, k + 1)) : k \in DOMAIN questions}
  /\ memory = [q \in Questions |-> {}]

\* The rules once q is put at place k.
LinksWith(qs, L, q, k) ==
  (IF k = Len(qs) + 1 THEN Approach(L, q) ELSE L) \cup {Default(q, At(qs, k))}

\* The rules once the question at place k is gone.
LinksWithout(qs, L, k) ==
  LET kept == {l \in L : l.from # qs[k]}
  IN IF k = Len(qs) THEN Send(kept, {qs[k], 0}, EndOfSurvey) ELSE Send(kept, {qs[k]}, qs[k + 1])

Forget(q) == [f \in Questions |-> IF f = q THEN {} ELSE memory[f] \ {q}]

Add(q, k) ==
  /\ q \notin Range(questions)
  /\ questions' = InsertAt(questions, k, q)
  /\ links' = LinksWith(questions, links, q, k)
  /\ UNCHANGED memory

Delete(q) ==
  LET k == Place(questions, q) IN
  /\ questions' = RemoveAt(questions, k)
  /\ links' = LinksWithout(questions, links, k)
  /\ memory' = Forget(q)

\* The question is taken out and put in again, without its rules and memories.
Move(q, k) ==
  LET i == Place(questions, q)
      rest == RemoveAt(questions, i) IN
  /\ questions' = InsertAt(rest, k, q)
  /\ links' = LinksWith(rest, LinksWithout(questions, links, i), q, k)
  /\ memory' = Forget(q)

\* One more rule, that leads forward.
Link(q) ==
  /\ \E l \in links' :
       /\ links' = links \cup {l}
       /\ l.from = q
       /\ l.to \in {questions[k] : k \in Place(questions, q) + 1 .. Len(questions)}
                   \cup Nat \cup {EndOfSurvey}
       /\ l.reads \in Questions \cup {Always}
       /\ l.priority >= 0
  /\ UNCHANGED <<questions, memory>>

Remember(q) ==
  /\ \E k \in 1 .. Place(questions, q) - 1 :
       memory' = [memory EXCEPT ![q] = @ \cup {questions[k]}]
  /\ UNCHANGED <<questions, links>>

Next ==
  \/ \E q \in Questions \ Range(questions), k \in 1..Len(questions) + 1 : Add(q, k)
  \/ \E q \in Range(questions) :
       \/ Delete(q)
       \/ \E k \in 1..Len(questions) : Move(q, k)
       \/ Link(q)
       \/ Remember(q)

Spec == Init /\ [][Next]_vars
=============================================================================
