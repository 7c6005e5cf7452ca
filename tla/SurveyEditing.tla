--------------------------- MODULE SurveyEditing ---------------------------
(***************************************************************************)
(* Building a survey: src/edsl/surveys/edit_survey.py with the rules of    *)
(* surveys/rules and the memory plan of surveys/memory.                    *)
(*                                                                         *)
(* Rules refer to questions by index (from 0), the memory plan by name.    *)
(* Every edit that moves questions has to rewrite the indices of all rules *)
(* it keeps.  A rule's expression is what it reads: Always for "True", or  *)
(* the question whose answer it tests.                                     *)
(*                                                                         *)
(* The survey is one record, because move_question is delete_question and  *)
(* then add_question.  A rejected call changes nothing, but for the move   *)
(* whose second half is rejected.                                          *)
(***************************************************************************)
EXTENDS Integers, FiniteSets, FiniteSetsExt, SequencesExt, Functions

CONSTANTS
  Questions,     \* question names
  Starts,        \* the lists of questions Survey(...) may be called with
  Conditions,    \* what rules of the user may read, besides Always
  Always,        \* the expression "True"
  EndOfSurvey,
  Unknown,       \* num_questions is None
  MaxBehind,     \* bound on how far behind the last question a rule may lead
  MaxEdits       \* bound on the number of edits

ASSUME SurveyConstants ==
  /\ MaxBehind \in Nat /\ MaxEdits \in Nat
  /\ EndOfSurvey \notin Int /\ Unknown \notin Int
  /\ Always \notin Questions /\ Conditions \subseteq Questions
  /\ EndOfSurvey \notin Questions /\ Questions \cap Int = {}
  /\ \A o \in Starts : o \in Seq(Questions) /\ IsInjective(o)

VARIABLES
  survey,
  edits          \* how many edits were made

editingVars == <<survey, edits>>

Rules == [current_q   : Nat,
          next_q      : Nat \cup {EndOfSurvey},
          reads       : Questions \cup {Always},
          priority    : Int,
          before_rule : BOOLEAN]

Surveys == [order        : Seq(Questions),            \* _questions
            rules        : SUBSET Rules,              \* the rule collection
            nameIndex    : [Questions -> Nat \cup {Unknown}],
                                                      \* its question_name_to_index
            numQuestions : Nat \cup {Unknown},        \* its num_questions
            memory       : [Questions -> SUBSET Questions]]

TypeOK ==
  /\ survey \in Surveys
  /\ edits \in 0..MaxEdits

-----------------------------------------------------------------------------
(***************************************************************************)
(* Indices and rules.                                                      *)
(***************************************************************************)

IndexOf(s, q) == (CHOOSE k \in DOMAIN s.order : s.order[k] = q) - 1

DefaultRule(i) == [current_q |-> i, next_q |-> i + 1, reads |-> Always,
                   priority |-> -1, before_rule |-> FALSE]

IsDefault(r) == r.priority = -1

ApplicableRules(s, i, before) == {r \in s.rules : r.current_q = i /\ r.before_rule = before}

\* A rule newly added takes priority over the older ones of its kind.
NewPriority(s, i, before) ==
  LET priorities == {r.priority : r \in ApplicableRules(s, i, before)}
  IN IF priorities = {} THEN 0 ELSE Max(priorities) + 1

\* Mutated form: a rule that leads to the place of the new question leads to it.
MovedUpBehind(r, i) ==
  [r EXCEPT !.current_q = IF @ >= i THEN @ + 1 ELSE @,
            !.next_q = IF @ # EndOfSurvey /\ @ > i THEN @ + 1 ELSE @]

\* The indices of a rule after a question is inserted at i.
MovedUp(r, i) ==
  [r EXCEPT !.current_q = IF @ >= i THEN @ + 1 ELSE @,
            !.next_q = IF @ # EndOfSurvey /\ @ >= i THEN @ + 1 ELSE @]

\* Mutated form: what led to the question leads to the one before it.
MovedDownBefore(r, i, n) ==
  [r EXCEPT !.current_q = IF @ > i THEN @ - 1 ELSE @,
            !.next_q = LET moved == IF @ # EndOfSurvey /\ @ >= i THEN @ - 1 ELSE @
                       IN IF moved = i /\ i = n THEN EndOfSurvey ELSE moved]

\* The indices of a rule after the question at i is deleted, which leaves n: what led
\* to that question leads to the next one, which now has its index.
MovedDown(r, i, n) ==
  [r EXCEPT !.current_q = IF @ > i THEN @ - 1 ELSE @,
            !.next_q = LET moved == IF @ # EndOfSurvey /\ @ > i THEN @ - 1 ELSE @
                       IN IF moved = i /\ i = n THEN EndOfSurvey ELSE moved]

-----------------------------------------------------------------------------
(***************************************************************************)
(* The survey each method makes of a survey.                               *)
(***************************************************************************)

\* Each added rule brings the index of every question up to date in the map the
\* rules share; names that are gone keep theirs.
NameIndexWith(nameIndex, o) ==
  [q \in Questions |-> IF q \in Range(o) THEN (CHOOSE k \in DOMAIN o : o[k] = q) - 1
                       ELSE nameIndex[q]]

NoNames == [q \in Questions |-> Unknown]

Constructed(o) ==
  [order        |-> o,
   rules        |-> {DefaultRule(i) : i \in 0..Len(o) - 1},
   nameIndex    |-> NameIndexWith(NoNames, o),
   numQuestions |-> IF o = <<>> THEN Unknown ELSE Len(o),
   memory       |-> [q \in Questions |-> {}]]

\* num_questions stays what it was.
WithQuestion(s, q, i) ==
  LET o == InsertAt(s.order, i + 1, q)
      interior == i # Len(s.order)
      kept == IF interior THEN {MovedUp(r, i) : r \in s.rules} ELSE s.rules
  IN [s EXCEPT !.order = o,
               !.rules = kept \cup {DefaultRule(i)},
               !.nameIndex = NameIndexWith(@, o)]

\* Mutated form: the memory plan still names the question.
WithoutQuestionRemembered(s, i) ==
  LET o == RemoveAt(s.order, i + 1)
      kept == {MovedDown(r, i, Len(o)) : r \in {x \in s.rules : x.current_q # i}}
  IN [order        |-> o,
      rules        |-> kept,
      nameIndex    |-> IF kept = {} THEN NoNames ELSE s.nameIndex,
      numQuestions |-> Len(o),
      memory       |-> s.memory]

\* Mutated form: the question is forgotten by others, but not what it is shown.
WithoutQuestionHalfForgotten(s, i) ==
  LET o == RemoveAt(s.order, i + 1)
      q == s.order[i + 1]
      kept == {MovedDown(r, i, Len(o)) : r \in {x \in s.rules : x.current_q # i}}
  IN [order        |-> o,
      rules        |-> kept,
      nameIndex    |-> IF kept = {} THEN NoNames ELSE s.nameIndex,
      numQuestions |-> Len(o),
      memory       |-> [f \in Questions |-> s.memory[f] \ {q}]]

\* A new rule collection: its map is that of the rules it is given.
WithoutQuestion(s, i) ==
  LET o == RemoveAt(s.order, i + 1)
      q == s.order[i + 1]
      kept == {MovedDown(r, i, Len(o)) : r \in {x \in s.rules : x.current_q # i}}
  IN [order        |-> o,
      rules        |-> kept,
      nameIndex    |-> IF kept = {} THEN NoNames ELSE s.nameIndex,
      numQuestions |-> Len(o),
      memory       |-> [f \in Questions |-> IF f = q THEN {} ELSE s.memory[f] \ {q}]]

\* RuleManager.add_rule; Rule raises if it leads backwards or reads a later question.
CanAddRule(s, i, reads, next) ==
  /\ next # EndOfSurvey => next > i
  /\ reads # Always => reads \in Range(s.order) /\ IndexOf(s, reads) <= i

WithRule(s, i, reads, next, before) ==
  [s EXCEPT !.rules = @ \cup {[current_q |-> i, next_q |-> next, reads |-> reads,
                               priority |-> NewPriority(s, i, before), before_rule |-> before]},
            !.nameIndex = NameIndexWith(@, s.order)]

-----------------------------------------------------------------------------
(***************************************************************************)
(* The edits.                                                              *)
(***************************************************************************)

Edit(s) ==
  /\ edits < MaxEdits
  /\ edits' = edits + 1
  /\ survey' = s

AddQuestion(q, i) ==
  /\ q \notin Range(survey.order)
  /\ Edit(WithQuestion(survey, q, i))

DeleteQuestion(i) == Edit(WithoutQuestion(survey, i))

\* The index is checked against the survey without the question: moved to the old
\* length, the question is lost.
MoveQuestion(i, j) ==
  LET rest == WithoutQuestion(survey, i)
  IN Edit(IF j <= Len(rest.order) THEN WithQuestion(rest, survey.order[i + 1], j) ELSE rest)

\* add_rule: a rule for after the question or before it, to any later place, be there a
\* question or not.
AddRule(i, reads, next, before) ==
  /\ CanAddRule(survey, i, reads, next)
  /\ Edit(WithRule(survey, i, reads, next, before))

AddStopRule(i, reads) == AddRule(i, reads, EndOfSurvey, FALSE)

AddSkipRule(i, reads) == AddRule(i, reads, i + 1, TRUE)

AddTargetedMemory(i, j) ==
  LET q == survey.order[i + 1]
      prior == survey.order[j + 1] IN
  /\ j < i
  /\ prior \notin survey.memory[q]
  /\ Edit([survey EXCEPT !.memory[q] = @ \cup {prior}])

Init ==
  /\ \E o \in Starts : survey = Constructed(o)
  /\ edits = 0

Next ==
  LET n == Len(survey.order) IN
  \/ \E q \in Questions, i \in 0..n : AddQuestion(q, i)
  \/ \E i \in 0..n - 1 :
       \/ DeleteQuestion(i)
       \/ \E j \in 0..n : MoveQuestion(i, j)
       \/ \E reads \in Conditions \cup {Always} :
            \/ \E next \in (0..n + MaxBehind) \cup {EndOfSurvey}, before \in BOOLEAN :
                 AddRule(i, reads, next, before)
            \/ AddStopRule(i, reads)
            \/ AddSkipRule(i, reads)
       \/ \E j \in 0..n - 1 : AddTargetedMemory(i, j)

Spec == Init /\ [][Next]_editingVars

-----------------------------------------------------------------------------
(***************************************************************************)
(* Properties.                                                             *)
(***************************************************************************)

\* However a survey was edited, each rule belongs to a question and leads on from it; each
\* question has one default rule, which leads at most to the place after the last, and no
\* two rules of a kind have the same priority.  next_question therefore finds exactly one
\* rule to follow, and following rules ends.  (Rules of the user may lead behind the
\* survey, which ends it; none leads back, though add_rule's documentation says so.)
RulesSound ==
  LET n == Len(survey.order) IN
  /\ \A r \in survey.rules :
       /\ r.current_q < n
       /\ r.next_q # EndOfSurvey => r.current_q < r.next_q
       /\ IsDefault(r) /\ r.next_q # EndOfSurvey => r.next_q <= n
  /\ \A i \in 0..n - 1 :
       \E r \in survey.rules : r.current_q = i /\ r.reads = Always /\ IsDefault(r) /\ ~r.before_rule
  /\ \A r, x \in survey.rules :
       r.current_q = x.current_q /\ r.before_rule = x.before_rule /\ r.priority = x.priority => r = x

\* Whatever was inserted, deleted and moved, a question is shown answers only to
\* questions of the survey that come before it.
MemoryBehind ==
  \A q \in Questions : \A p \in survey.memory[q] :
    /\ {p, q} \subseteq Range(survey.order)
    /\ IndexOf(survey, p) < IndexOf(survey, q)

\* The question an index of a rule stands for, or how far behind the last one it leads.
Named(i) ==
  IF i = EndOfSurvey THEN EndOfSurvey
  ELSE IF i >= Len(survey.order) THEN i - Len(survey.order) ELSE survey.order[i + 1]

Link(r) == [from |-> survey.order[r.current_q + 1], to |-> Named(r.next_q), reads |-> r.reads,
            priority |-> r.priority, before_rule |-> r.before_rule]

ByName == INSTANCE SurveyByName
            WITH questions <- survey.order,
                 links <- {Link(r) : r \in survey.rules},
                 memory <- survey.memory

\* Rewriting indices is invisible: seen by name, an edit moves no end of a rule from
\* one question to another, except that a rule to a deleted question leads to the next.
EditsKeepRules == ByName!Spec
=============================================================================
