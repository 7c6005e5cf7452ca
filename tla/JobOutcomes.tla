---------------------------- MODULE JobOutcomes ----------------------------
(***************************************************************************)
(* What the runner promises about a submitted job, without any of the      *)
(* bookkeeping it uses to keep the promise (counters, ready sets, retries):*)
(*                                                                         *)
(*   - every task gets at most one outcome and keeps it;                   *)
(*   - a task is completed, skipped or failed only after everything it     *)
(*     depends on was completed or skipped;                                *)
(*   - a failure blocks, in the same step, exactly the tasks downstream of *)
(*     it that have no outcome yet;                                        *)
(*   - an interview is reported once, in the step that gives its last task *)
(*     an outcome;                                                         *)
(*   - the job gets its verdict in the step that reports the last          *)
(*     interview.                                                          *)
(*                                                                         *)
(* JobService is shown to implement this specification.                    *)
(***************************************************************************)
EXTENDS Naturals, FiniteSets

CONSTANTS
  Tasks,        \* the tasks of the job, one per interview and question
  Interviews,   \* the interviews of the job
  InterviewOf,  \* the interview a task belongs to
  Deps          \* the tasks a task depends on

VARIABLES
  outcome,      \* outcome of every task, "NONE" while it has none
  reports,      \* how often an interview was reported as finished
  verdict       \* state of the job as its user reads it

vars == <<outcome, reports, verdict>>

Satisfied == {"COMPLETED", "SKIPPED"}
Failures  == {"FAILED", "BLOCKED"}

TasksOf(i) == {t \in Tasks : InterviewOf[t] = i}

Open(t)   == outcome[t] = "NONE"
Startable == {t \in Tasks : Open(t) /\ \A d \in Deps[t] : outcome[d] \in Satisfied}

Finished(i, out) == \A t \in TasksOf(i) : out[t] # "NONE"

Report ==
  reports' = [i \in Interviews |->
                IF Finished(i, outcome') /\ ~Finished(i, outcome)
                THEN reports[i] + 1 ELSE reports[i]]

Judge ==
  verdict' = IF /\ \A i \in Interviews : Finished(i, outcome')
                /\ \E i \in Interviews : ~Finished(i, outcome)
             THEN IF \E t \in Tasks : outcome'[t] \in Failures
                  THEN "COMPLETED_WITH_FAILURES" ELSE "COMPLETED"
             ELSE verdict

-----------------------------------------------------------------------------

Init ==
  /\ outcome = [t \in Tasks |-> "NONE"]
  /\ reports = [i \in Interviews |-> 0]
  /\ verdict = "RUNNING"

\* Some startable tasks are completed, or skipped, together.
Settle(S, o) ==
  /\ S # {}
  /\ outcome' = [t \in Tasks |-> IF t \in S THEN o ELSE outcome[t]]
  /\ Report
  /\ Judge

\* B is blocked: the open tasks with a dependency that failed or is blocked.
Fail(t) ==
  \E B \in SUBSET {x \in Tasks : Open(x)} :
    /\ \A x \in Tasks : x \in B <=> Open(x) /\ \E d \in Deps[x] : d = t \/ d \in B
    /\ outcome' = [x \in Tasks |-> IF x = t THEN "FAILED"
                                   ELSE IF x \in B THEN "BLOCKED" ELSE outcome[x]]
    /\ Report
    /\ Judge

Cancel ==
  /\ verdict' = "CANCELLED"
  /\ UNCHANGED <<outcome, reports>>

Next ==
  \/ \E S \in SUBSET Startable, o \in Satisfied : Settle(S, o)
  \/ \E t \in Startable : Fail(t)
  \/ Cancel

Spec == Init /\ [][Next]_vars

=============================================================================
