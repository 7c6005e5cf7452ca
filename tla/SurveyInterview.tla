--------------------------- MODULE SurveyInterview ---------------------------
(***************************************************************************)
(* Interviews with a survey as the runner conducts them: a task for each   *)
(* question, started when the tasks it depends on are done, and then       *)
(* either asked or skipped by its rules.  The order is not that of the     *)
(* survey: JobService._extract_dag decides what waits for what, and        *)
(* should_skip_task replays the survey with the answers there are.         *)
(*                                                                         *)
(* The survey is any that SurveyEditing builds.  SurveyNavigator, which    *)
(* asks one question after another, is the reference for who is asked.     *)
(***************************************************************************)
EXTENDS SurveyEditing

CONSTANTS
  Pipes,         \* <<p, q>>: the text of question q quotes the answer to p
  Yes, No,       \* answers that make a rule that reads them true or false
  NoAnswer

ASSUME InterviewConstants ==
  /\ \A pair \in Pipes : pair \in Questions \X Questions /\ pair[1] # pair[2]
  /\ Cardinality({Yes, No, NoAnswer}) = 3

VARIABLES
  asking,        \* whether the survey was submitted; it is no longer edited then
  status,        \* of the task of each question
  answers

vars == <<survey, edits, asking, status, answers>>

InterviewTypeOK ==
  /\ TypeOK
  /\ asking \in BOOLEAN
  /\ status \in [Questions -> {"pending", "asked", "skipped"}]
  /\ answers \in [Questions -> {Yes, No, NoAnswer}]

-----------------------------------------------------------------------------
(***************************************************************************)
(* Following rules.                                                        *)
(***************************************************************************)

\* A rule that reads a question without an answer does not apply.
Holds(r, ans) == r.reads = Always \/ ans[r.reads] = Yes

Holding(s, i, before, ans) == {r \in ApplicableRules(s, i, before) : Holds(r, ans)}

UserRules(s) == {r \in s.rules : ~IsDefault(r)}

\* The rule of highest priority wins after a question ...
NextQuestion(s, i, ans) ==
  LET rules == Holding(s, i, FALSE, ans)
  IN (CHOOSE r \in rules : \A x \in rules : x.priority <= r.priority).next_q

SkippedBefore(s, i, ans) == Holding(s, i, TRUE, ans) # {}

\* ... and the first one that was added before it.
SkipsTo(s, i, ans) ==
  LET rules == Holding(s, i, TRUE, ans)
  IN (CHOOSE r \in rules : \A x \in rules : r.priority <= x.priority).next_q

\* Whether should_skip_task, walking from the first question, gets to the one at i.
Reached(s, i, ans) ==
  LET walk[j \in 0..i] ==
        \/ j = i
        \/ LET k == IF SkippedBefore(s, j, ans) THEN SkipsTo(s, j, ans) ELSE NextQuestion(s, j, ans)
           IN k # EndOfSurvey /\ k <= i /\ walk[k]
  IN walk[0]

\* Mutated form: the rules before the question itself are not looked at.
ShouldSkipUnreached(s, i, ans) ==
  /\ UserRules(s) # {}
  /\ ~Reached(s, i, ans)

ShouldSkip(s, i, ans) ==
  /\ UserRules(s) # {}
  /\ ~Reached(s, i, ans) \/ SkippedBefore(s, i, ans)

\* The place a rule leads to; the end is the place after the last question.
PlaceOf(s, next) == IF next = EndOfSurvey \/ next > Len(s.order) THEN Len(s.order) ELSE next

\* The questions a SurveyNavigator asks; what it skips, it leaves by the rules for
\* leaving an asked question.
Path(s, ans) ==
  LET n == Len(s.order)
      next(i) == PlaceOf(s, NextQuestion(s, i, ans))
      landing[i \in 0..n] == IF i < n /\ SkippedBefore(s, i, ans) THEN landing[next(i)] ELSE i
      path[i \in 0..n] == IF i = n THEN {} ELSE {i} \cup path[landing[next(i)]]
  IN path[landing[0]]

-----------------------------------------------------------------------------
(***************************************************************************)
(* What a task waits for.                                                  *)
(***************************************************************************)

\* piping_dag raises if a text quotes a later question.
QuotesBehind(s) ==
  \A pair \in Pipes : {pair[1], pair[2]} \subseteq Range(s.order) =>
                         IndexOf(s, pair[1]) < IndexOf(s, pair[2])

\* The dag of the rules raises if one ends a survey whose length the collection was
\* never told, and Rule, which from_dict calls for each of them, if the index of what
\* it reads is not up to its own.
RulesRebuild(s) ==
  /\ s.numQuestions = Unknown =>
       ~\E r \in UserRules(s) : ~r.before_rule /\ r.next_q = EndOfSurvey
  /\ \A r \in s.rules : r.reads # Always => s.nameIndex[r.reads] <= r.current_q

\* Mutated form: nothing waits for a question with a rule.
DependsOnNoRule(s, i) ==
  LET q == s.order[i + 1] IN
  UNION {{IndexOf(s, p) : p \in s.memory[q]},
         {IndexOf(s, pair[1]) : pair \in {x \in Pipes : x[2] = q /\ x[1] \in Range(s.order)}},
         IF \E r \in UserRules(s) : r.current_q = i /\ r.before_rule THEN 0..i - 1 ELSE {}}

\* Before a question with a skip rule, all earlier ones; after any rule, all later ones.
DependsOn(s, i) ==
  LET q == s.order[i + 1] IN
  UNION {{IndexOf(s, p) : p \in s.memory[q]},
         {IndexOf(s, pair[1]) : pair \in {x \in Pipes : x[2] = q /\ x[1] \in Range(s.order)}},
         {r.current_q : r \in {x \in UserRules(s) : x.current_q < i}},
         IF \E r \in UserRules(s) : r.current_q = i /\ r.before_rule THEN 0..i - 1 ELSE {}}

Answered(q) == answers[q] # NoAnswer

Finished(q) == status[q] = "skipped" \/ Answered(q)

-----------------------------------------------------------------------------

InterviewInit ==
  /\ Init
  /\ asking = FALSE
  /\ status = [q \in Questions |-> "pending"]
  /\ answers = [q \in Questions |-> NoAnswer]

Editing ==
  /\ ~asking
  /\ Next
  /\ UNCHANGED <<asking, status, answers>>

\* Submitting raises if there is no dag, rendering if the rules cannot be rebuilt.
Submit ==
  /\ ~asking
  /\ survey.order # <<>>
  /\ QuotesBehind(survey)
  /\ RulesRebuild(survey)
  /\ asking' = TRUE
  /\ UNCHANGED <<survey, edits, status, answers>>

Decide(i) ==
  LET q == survey.order[i + 1] IN
  /\ status[q] = "pending"
  /\ \A j \in DependsOn(survey, i) : Finished(survey.order[j + 1])
  /\ status' = [status EXCEPT ![q] = IF ShouldSkip(survey, i, answers) THEN "skipped" ELSE "asked"]
  /\ UNCHANGED <<survey, edits, asking, answers>>

\* Only what a rule reads makes a difference.
Answer(q) ==
  /\ status[q] = "asked"
  /\ ~Answered(q)
  /\ \E value \in IF \E r \in survey.rules : r.reads = q THEN {Yes, No} ELSE {No} :
       answers' = [answers EXCEPT ![q] = value]
  /\ UNCHANGED <<survey, edits, asking, status>>

Interviewing ==
  /\ asking
  /\ \E i \in 0..Len(survey.order) - 1 : Decide(i) \/ Answer(survey.order[i + 1])

InterviewNext ==
  \/ Editing
  \/ Submit
  \/ Interviewing

\* The runner goes on as long as there is something to render or to answer.
InterviewSpec == InterviewInit /\ [][InterviewNext]_vars /\ WF_vars(Interviewing)

-----------------------------------------------------------------------------
(***************************************************************************)
(* Properties.                                                             *)
(***************************************************************************)

\* No edit has put what a rule reads after the place where the rule is followed.
ReadsBehind ==
  \A r \in UserRules(survey) :
    r.reads \in Range(survey.order) =>
      IF r.before_rule THEN IndexOf(survey, r.reads) < r.current_q
                       ELSE IndexOf(survey, r.reads) <= r.current_q

\* And what is read after a question is asked is its own answer.
Local ==
  /\ ReadsBehind
  /\ \A r \in UserRules(survey) :
       r.reads \in Range(survey.order) /\ ~r.before_rule => IndexOf(survey, r.reads) = r.current_q

Decision(i) == (status[survey.order[i + 1]] = "skipped") = ShouldSkip(survey, i, answers)

\* Whatever is answered later, a question that was skipped would be skipped again, and
\* one that was asked would be asked again: no decision is taken too early.
DecisionFinal ==
  asking /\ Local =>
    \A i \in 0..Len(survey.order) - 1 : status[survey.order[i + 1]] # "pending" => Decision(i)

\* The navigator leaves a question it skips by the rules for after it, the runner by the
\* rule that skips it.
LeftAlike(i) ==
  SkippedBefore(survey, i, answers) =>
    PlaceOf(survey, SkipsTo(survey, i, answers)) = PlaceOf(survey, NextQuestion(survey, i, answers))

\* No question was inserted before another, or appended after the last was deleted.
Straight ==
  \A r \in survey.rules :
    IsDefault(r) => \/ r.next_q = r.current_q + 1
                    \/ r.next_q = EndOfSurvey /\ r.current_q = Len(survey.order) - 1

\* In whatever order the tasks ran, those asked at the end are the questions the navigator
\* asks one after another, if for each skipped question the two ways to leave it lead to
\* the same place.  (Without a rule of the user the runner follows no rule at all.)
PathFollowed ==
  /\ asking /\ Local
  /\ UserRules(survey) = {} => Straight
  /\ \A i \in 0..Len(survey.order) - 1 : Finished(survey.order[i + 1]) /\ LeftAlike(i)
  => {i \in 0..Len(survey.order) - 1 : Answered(survey.order[i + 1])} = Path(survey, answers)

\* Memories, quotations and rules, however edited, never wait for each other: every
\* question of a submitted survey is answered or skipped.
InterviewEnds == asking ~> \A q \in Range(survey.order) : Finished(q)

\* The rules of a survey that edits produced can be rebuilt from their dictionary, unless
\* it moved what a rule reads behind the rule.
CanRebuild == ReadsBehind => RulesRebuild(survey)
=============================================================================
