----------------------------- MODULE JobService -----------------------------
(***************************************************************************)
(* The job service of src/edsl/runner: the state kept by the stores of     *)
(* stores.py for one submitted job, and the handlers of service.py that    *)
(* the render loop, the direct-answer path and the workers call on it.     *)
(*                                                                         *)
(* All callers run on one event loop and no handler awaits, so a handler   *)
(* is one action here.  The module says nothing of who calls a handler     *)
(* when, only in which status a task is when it is called: Runner composes *)
(* it with the callers.                                                    *)
(*                                                                         *)
(* A definition introduced as a mutated form of the one that follows it is *)
(* used by no action: it is there to show that the properties notice it.   *)
(***************************************************************************)
EXTENDS Integers, FiniteSets

CONSTANTS
  Tasks,          \* task ids of the job
  Interviews,     \* interview ids of the job
  InterviewOf,    \* task -> interview (TaskDefinition.interview_id)
  Deps,           \* task -> tasks it waits for (TaskDefinition.depends_on)
  ErrorTypes,     \* error types a caller may report
  RetryPolicies,  \* error type -> [retryable, max_attempts]
  StopOnException \* the flag given to submit_job

ASSUME FiniteJob ==
  /\ IsFiniteSet(Tasks)
  /\ IsFiniteSet(Interviews)

\* _create_tasks_for_interview links the tasks of one interview only.
ASSUME DepsWithinInterview ==
  /\ InterviewOf \in [Tasks -> Interviews]
  /\ Deps \in [Tasks -> SUBSET Tasks]
  /\ \A t \in Tasks : \A d \in Deps[t] : d # t /\ InterviewOf[d] = InterviewOf[t]

\* A survey has at least one question, a job at least one interview.
ASSUME NonEmptyJob ==
  /\ Interviews # {}
  /\ \A i \in Interviews : \E t \in Tasks : InterviewOf[t] = i

ASSUME PolicyTypes ==
  /\ RetryPolicies \in [ErrorTypes -> [retryable : BOOLEAN, max_attempts : Nat]]
  /\ StopOnException \in BOOLEAN

NoError == "none"
ASSUME ErrorTypesAreNot == NoError \notin ErrorTypes /\ "upstream_failure" \notin ErrorTypes

VARIABLES
  status,      \* task:{id}:status
  unmetDeps,   \* task:{id}:unmet_deps
  readyTasks,  \* job:{id}:ready_tasks
  attempts,    \* task:{id}:attempts
  lastError,   \* type in task:{id}:last_error, the key get_state reads
  batchError,  \* type in task:{id}:error, the key set_errors_batch writes
  answers,     \* tasks whose answer is stored
  tally,       \* interview:{id}:{completed,skipped,failed,blocked}
  interview,   \* interview:{id}:state
  counted,     \* job:{id}:counted_interviews
  jobTally,    \* job:{id}:{completed,failed}_interviews
  job,         \* job:{id}:state
  notified     \* how often the interview callback was called

taskVars == <<status, unmetDeps, readyTasks, attempts, lastError, batchError, answers>>
jobVars  == <<tally, interview, counted, jobTally, job, notified>>
vars     == <<taskVars, jobVars>>

-----------------------------------------------------------------------------
Satisfied == {"COMPLETED", "SKIPPED"}
Outcomes  == {"COMPLETED", "SKIPPED", "FAILED", "BLOCKED"}
Claimed   == {"RENDERING", "QUEUED", "RUNNING"}
Status    == {"PENDING", "READY"} \cup Claimed \cup Outcomes

InterviewStates == {"RUNNING", "COMPLETED", "COMPLETED_WITH_FAILURES"}
JobStates       == InterviewStates \cup {"CANCELLED"}

TasksOf(i) == {t \in Tasks : InterviewOf[t] = i}

\* A task some caller has taken from the ready set and not yet finished.
InHand(t) == t \notin readyTasks /\ status[t] \in {"READY"} \cup Claimed

\* What stays typed even when a handler is called for a task that has its outcome.
RestTypeOK ==
  /\ status \in [Tasks -> Status]
  /\ readyTasks \in SUBSET Tasks
  /\ attempts \in [Tasks -> [ErrorTypes -> Nat]]
  /\ lastError \in [Tasks -> ErrorTypes \cup {NoError, "upstream_failure"}]
  /\ batchError \in [Tasks -> {NoError, "upstream_failure"}]
  /\ answers \in SUBSET Tasks
  /\ tally \in [Interviews -> [Outcomes -> Nat]]
  /\ interview \in [Interviews -> InterviewStates]
  /\ counted \in SUBSET Interviews
  /\ jobTally \in [completed : Nat, failed : Nat]
  /\ job \in JobStates
  /\ notified \in [Interviews -> Nat]

TypeOK == RestTypeOK /\ unmetDeps \in [Tasks -> Nat]

InitRest ==
  /\ attempts = [t \in Tasks |-> [e \in ErrorTypes |-> 0]]
  /\ lastError = [t \in Tasks |-> NoError]
  /\ batchError = [t \in Tasks |-> NoError]
  /\ answers = {}
  /\ tally = [i \in Interviews |-> [o \in Outcomes |-> 0]]
  /\ interview = [i \in Interviews |-> "RUNNING"]
  /\ counted = {}
  /\ jobTally = [completed |-> 0, failed |-> 0]
  /\ job = "RUNNING"
  /\ notified = [i \in Interviews |-> 0]

\* Mutated form: create_batch puts every task into the ready set.
InitEveryTaskReady ==
  /\ status = [t \in Tasks |-> IF Deps[t] = {} THEN "READY" ELSE "PENDING"]
  /\ unmetDeps = [t \in Tasks |-> Cardinality(Deps[t])]
  /\ readyTasks = Tasks
  /\ InitRest

\* The state submit_job leaves behind.
Init ==
  /\ status = [t \in Tasks |-> IF Deps[t] = {} THEN "READY" ELSE "PENDING"]
  /\ unmetDeps = [t \in Tasks |-> Cardinality(Deps[t])]
  /\ readyTasks = {t \in Tasks : Deps[t] = {}}
  /\ InitRest

-----------------------------------------------------------------------------
(***************************************************************************)
(* The ready set and the claimed statuses.                                 *)
(***************************************************************************)

PopReady(t) ==
  /\ t \in readyTasks
  /\ readyTasks' = readyTasks \ {t}
  /\ UNCHANGED <<status, unmetDeps, attempts, lastError, batchError, answers, jobVars>>

\* The render loop puts a direct-answer task back, the direct path an LLM task.
AddToReady(t) ==
  /\ InHand(t) /\ status[t] = "READY"
  /\ readyTasks' = readyTasks \cup {t}
  /\ UNCHANGED <<status, unmetDeps, attempts, lastError, batchError, answers, jobVars>>

SetStatus(t, from, to) ==
  /\ InHand(t) /\ status[t] = from
  /\ status' = [status EXCEPT ![t] = to]
  /\ UNCHANGED <<unmetDeps, readyTasks, attempts, lastError, batchError, answers, jobVars>>

StartRendering(t) == SetStatus(t, "READY", "RENDERING")
EnqueueTask(t)    == SetStatus(t, "RENDERING", "QUEUED")
StartRunning(t)   == SetStatus(t, "QUEUED", "RUNNING")

-----------------------------------------------------------------------------
(***************************************************************************)
(* Dependencies: TaskStore.mark_dependency_satisfied for every dependent   *)
(* of the tasks S, whose own status becomes o.  A dependent is made ready  *)
(* by the decrement that brings its counter to zero.                       *)
(***************************************************************************)

\* Mutated form: a batch decrements the counter of a dependent once only.
MetOnce(t, S) == IF Deps[t] \cap S = {} THEN 0 ELSE 1

Met(t, S) == Cardinality(Deps[t] \cap S)

\* Mutated form: any satisfied dependency is enough.
NowReadyAnyDependency(S) == {t \in Tasks : Met(t, S) > 0}

NowReady(S) == {t \in Tasks : unmetDeps[t] \in 1..Met(t, S)}

MarkSatisfied(S, o) ==
  /\ unmetDeps' = [t \in Tasks |-> unmetDeps[t] - Met(t, S)]
  /\ status' = [t \in Tasks |-> IF t \in NowReady(S) THEN "READY"
                                ELSE IF t \in S THEN o ELSE status[t]]
  /\ readyTasks' = readyTasks \cup NowReady(S)

\* Mutated form: direct dependents only.
DirectDependents == [t \in Tasks |-> {d \in Tasks : t \in Deps[d]}]

\* The unique tasks _propagate_failure visits from the dependents of t.
Downstream ==
  [t \in Tasks |->
     {d \in Tasks : \A S \in SUBSET Tasks :
         (\A x \in Tasks : (t \in Deps[x] \/ Deps[x] \cap S # {}) => x \in S) => d \in S}]

\* Mutated form: a task another failure already blocked is blocked again.
BlockedAgain(t) == {d \in Downstream[t] : status[d] \notin Outcomes \ {"BLOCKED"}}

NewlyBlocked(t) == {d \in Downstream[t] : status[d] \notin Outcomes}

-----------------------------------------------------------------------------
(***************************************************************************)
(* Interview and job counters: the composite operations of InterviewStore  *)
(* and JobStore.                                                           *)
(***************************************************************************)

\* Mutated form: blocked tasks are not counted as finished.
FinishedWithoutBlocked(c) == c["COMPLETED"] + c["SKIPPED"] + c["FAILED"]

FinishedCount(c) == c["COMPLETED"] + c["SKIPPED"] + c["FAILED"] + c["BLOCKED"]

\* InterviewStore._maybe_finalize with InterviewStatus.is_done, compute_state.
InterviewState(i, c) ==
  IF FinishedCount(c) < Cardinality(TasksOf(i)) THEN interview[i]
  ELSE IF c["FAILED"] = 0 /\ c["BLOCKED"] = 0 THEN "COMPLETED"
  ELSE "COMPLETED_WITH_FAILURES"

\* Mutated form: the job waits for interviews without failures only.
JobStateOfCompleted(c) ==
  IF c.completed < Cardinality(Interviews) THEN job
  ELSE IF c.failed = 0 THEN "COMPLETED"
  ELSE "COMPLETED_WITH_FAILURES"

\* JobStore._maybe_finalize with JobStatus.is_done, compute_state.
JobState(c) ==
  IF c.completed + c.failed < Cardinality(Interviews) THEN job
  ELSE IF c.failed = 0 THEN "COMPLETED"
  ELSE "COMPLETED_WITH_FAILURES"

\* Mutated form: every interview is counted as completed.
MarkCompletedAnyway(i, hadFailures) ==
  IF interview'[i] = "RUNNING"
  THEN UNCHANGED <<counted, jobTally, job, notified>>
  ELSE /\ counted' = counted \cup {i}
       /\ notified' = [notified EXCEPT ![i] = @ + 1]
       /\ jobTally' = [jobTally EXCEPT !.completed = @ + 1]
       /\ job' = JobState(jobTally')

\* JobStore.mark_interview_completed, then the interview callback, as every
\* handler calls them when the interview's state is no longer RUNNING.
MarkInterviewCompleted(i, hadFailures) ==
  IF interview'[i] = "RUNNING"
  THEN UNCHANGED <<counted, jobTally, job, notified>>
  ELSE /\ counted' = counted \cup {i}
       /\ notified' = [notified EXCEPT ![i] = @ + 1]
       /\ IF i \in counted
          THEN UNCHANGED <<jobTally, job>>
          ELSE /\ jobTally' = IF hadFailures
                              THEN [jobTally EXCEPT !.failed = @ + 1]
                              ELSE [jobTally EXCEPT !.completed = @ + 1]
               /\ job' = JobState(jobTally')

\* Mutated form: the batch does not call the interview callback.
MarkBatchSilently(done) ==
  LET failing == {i \in done : interview'[i] = "COMPLETED_WITH_FAILURES"}
  IN  /\ counted' = counted \cup done
      /\ jobTally' = [completed |-> jobTally.completed + Cardinality(done \ failing),
                      failed    |-> jobTally.failed + Cardinality(failing)]
      /\ job' = JobState(jobTally')
      /\ UNCHANGED notified

\* JobStore.mark_interviews_completed_batch: every interview given is added to
\* the counters, whether or not the set already held it.
MarkInterviewsCompletedBatch(done) ==
  LET failing == {i \in done : interview'[i] = "COMPLETED_WITH_FAILURES"}
  IN  IF done = {}
      THEN UNCHANGED <<counted, jobTally, job, notified>>
      ELSE /\ counted' = counted \cup done
           /\ notified' = [i \in Interviews |->
                             IF i \in done THEN notified[i] + 1 ELSE notified[i]]
           /\ jobTally' = [completed |-> jobTally.completed + Cardinality(done \ failing),
                           failed    |-> jobTally.failed + Cardinality(failing)]
           /\ job' = JobState(jobTally')

-----------------------------------------------------------------------------
(***************************************************************************)
(* The handlers of service.py.                                             *)
(***************************************************************************)

\* Called by a worker (RUNNING) or by the direct-answer path (READY).
OnTaskCompleted(t) ==
  LET i == InterviewOf[t]
  IN  /\ InHand(t) /\ status[t] \in {"READY", "RUNNING"}
      /\ answers' = answers \cup {t}
      /\ MarkSatisfied({t}, "COMPLETED")
      /\ tally' = [tally EXCEPT ![i]["COMPLETED"] = @ + 1]
      /\ interview' = [interview EXCEPT ![i] = InterviewState(i, tally'[i])]
      /\ MarkInterviewCompleted(i, interview'[i] = "COMPLETED_WITH_FAILURES")
      /\ UNCHANGED <<attempts, lastError, batchError>>

\* The same for several tasks at once; S may span interviews.
OnTasksCompletedBatch(S) ==
  LET here == {i \in Interviews : TasksOf(i) \cap S # {}}
  IN  /\ S # {}
      /\ \A t \in S : InHand(t) /\ status[t] \in {"READY", "RUNNING"}
      /\ answers' = answers \cup S
      /\ MarkSatisfied(S, "COMPLETED")
      /\ tally' = [i \in Interviews |->
                     [tally[i] EXCEPT !["COMPLETED"] = @ + Cardinality(TasksOf(i) \cap S)]]
      /\ interview' = [i \in Interviews |->
                         IF i \in here THEN InterviewState(i, tally'[i]) ELSE interview[i]]
      /\ MarkInterviewsCompletedBatch({i \in here : interview'[i] # "RUNNING"})
      /\ UNCHANGED <<attempts, lastError, batchError>>

\* Mutated form: a skipped task does not satisfy its dependents.
SkippedAlone(t) ==
  LET i == InterviewOf[t]
  IN  /\ InHand(t) /\ status[t] = "READY"
      /\ status' = [status EXCEPT ![t] = "SKIPPED"]
      /\ tally' = [tally EXCEPT ![i]["SKIPPED"] = @ + 1]
      /\ interview' = [interview EXCEPT ![i] = InterviewState(i, tally'[i])]
      /\ MarkInterviewCompleted(i, interview'[i] = "COMPLETED_WITH_FAILURES")
      /\ UNCHANGED <<unmetDeps, readyTasks, attempts, lastError, batchError, answers>>

\* Skip logic, evaluated by the render loop or the direct-answer path.
OnTaskSkipped(t) ==
  LET i == InterviewOf[t]
  IN  /\ InHand(t) /\ status[t] = "READY"
      /\ MarkSatisfied({t}, "SKIPPED")
      /\ tally' = [tally EXCEPT ![i]["SKIPPED"] = @ + 1]
      /\ interview' = [interview EXCEPT ![i] = InterviewState(i, tally'[i])]
      /\ MarkInterviewCompleted(i, interview'[i] = "COMPLETED_WITH_FAILURES")
      /\ UNCHANGED <<attempts, lastError, batchError, answers>>

\* on_task_failed is called for a task in the hands of the direct-answer path or
\* of the render loop (READY), of the main loop (QUEUED) or of a worker (RUNNING).
MayFail(t) == InHand(t) /\ status[t] # "RENDERING"

CountsAttempt(e, force) ==
  ~force /\ ~StopOnException /\ RetryPolicies[e].retryable

\* Mutated form: one attempt more than the policy allows.
RetriesOnceMore(t, e, force) ==
  CountsAttempt(e, force) /\ attempts[t][e] + 1 <= RetryPolicies[e].max_attempts

WillRetry(t, e, force) ==
  CountsAttempt(e, force) /\ attempts[t][e] + 1 < RetryPolicies[e].max_attempts

CountAttempt(t, e, force) ==
  attempts' = IF CountsAttempt(e, force)
              THEN [attempts EXCEPT ![t][e] = @ + 1] ELSE attempts

\* on_task_failed, when the retry policy still allows an attempt.  It does not look at
\* the task's status.
RetryTask(t, e) ==
  /\ WillRetry(t, e, FALSE)
  /\ CountAttempt(t, e, FALSE)
  /\ status' = [status EXCEPT ![t] = "READY"]
  /\ readyTasks' = readyTasks \cup {t}
  /\ UNCHANGED <<unmetDeps, lastError, batchError, answers, jobVars>>

\* on_task_failed, when the failure is permanent; with _propagate_failure.
FailTask(t, e, force) ==
  LET i       == InterviewOf[t]
      blocked == NewlyBlocked(t)
  IN  /\ ~WillRetry(t, e, force)
      /\ CountAttempt(t, e, force)
      /\ status' = [x \in Tasks |-> IF x = t THEN "FAILED"
                                    ELSE IF x \in blocked THEN "BLOCKED" ELSE status[x]]
      /\ lastError' = [lastError EXCEPT ![t] = e]
      /\ batchError' = [x \in Tasks |-> IF x \in blocked THEN "upstream_failure"
                                        ELSE batchError[x]]
      /\ tally' = [tally EXCEPT ![i]["FAILED"] = @ + 1,
                                ![i]["BLOCKED"] = @ + Cardinality(blocked)]
      /\ interview' = [interview EXCEPT ![i] = InterviewState(i, tally'[i])]
      /\ MarkInterviewCompleted(i, TRUE)
      /\ UNCHANGED <<unmetDeps, readyTasks, answers>>

OnTaskFailedRetry(t, e)          == MayFail(t) /\ RetryTask(t, e)
OnTaskFailedForGood(t, e, force) == MayFail(t) /\ FailTask(t, e, force)

OnTaskFailed(t, e, force) == OnTaskFailedRetry(t, e) \/ OnTaskFailedForGood(t, e, force)

\* JobHandle.cancel, and the main loop before it raises: only the state is set.
Cancel ==
  /\ job' = "CANCELLED"
  /\ UNCHANGED <<taskVars, tally, interview, counted, jobTally, notified>>

Claim(t) == PopReady(t) \/ AddToReady(t) \/ StartRendering(t) \/ EnqueueTask(t) \/ StartRunning(t)

Next ==
  \/ \E t \in Tasks : Claim(t) \/ OnTaskCompleted(t) \/ OnTaskSkipped(t)
  \/ \E t \in Tasks, e \in ErrorTypes :
        OnTaskFailedRetry(t, e) \/ \E force \in BOOLEAN : OnTaskFailedForGood(t, e, force)
  \/ \E S \in SUBSET Tasks : OnTasksCompletedBatch(S)
  \/ Cancel

Spec == Init /\ [][Next]_vars

-----------------------------------------------------------------------------
(***************************************************************************)
(* Properties.                                                             *)
(***************************************************************************)

Finished(i) == \A t \in TasksOf(i) : status[t] \in Outcomes
WithOutcome(i, O) == {t \in TasksOf(i) : status[t] \in O}

\* The counter mark_dependency_satisfied decrements is, at every moment, the
\* number of dependencies that are not completed or skipped, and it alone says
\* whether a task may be taken: no decrement is lost, repeated or early.
UnmetDepsExact ==
  \A t \in Tasks :
    /\ unmetDeps[t] = Cardinality({d \in Deps[t] : status[d] \notin Satisfied})
    /\ unmetDeps[t] > 0 <=> status[t] \in {"PENDING", "BLOCKED"}

\* A task is rendered, run, completed, skipped or failed only after everything
\* it depends on was completed or skipped, and only READY tasks can be popped.
DependenciesRespected ==
  /\ \A t \in Tasks : status[t] \notin {"PENDING", "BLOCKED"} =>
       \A d \in Deps[t] : status[d] \in Satisfied
  /\ \A t \in readyTasks : status[t] = "READY"

\* A task that waits, waits for a task that has no outcome yet: on_task_completed
\* and _propagate_failure between them leave no task waiting for nothing.
NothingStranded ==
  \A t \in Tasks : status[t] = "PENDING" => \E d \in Deps[t] : status[d] \notin Outcomes

\* Blocked are exactly the tasks with a dependency that failed or is blocked,
\* however the graph converges and in whatever order several failures arrive.
BlockedExactly ==
  \A t \in Tasks :
    status[t] = "BLOCKED" <=> \E d \in Deps[t] : status[d] \in {"FAILED", "BLOCKED"}

\* The counters of an interview count each task once, under the outcome it has,
\* and exactly the completed tasks have an answer.
TalliesExact ==
  /\ \A i \in Interviews, o \in Outcomes : tally[i][o] = Cardinality(WithOutcome(i, {o}))
  /\ answers = {t \in Tasks : status[t] = "COMPLETED"}

\* An interview leaves RUNNING with its last outcome, never before and never
\* later, and its final state says whether a task failed or was blocked.  The job
\* counts each finished interview once, under its own final state, and is final
\* exactly when every interview is, unless it was cancelled.
FinalizedExactly ==
  /\ \A i \in Interviews :
       interview[i] = IF ~Finished(i) THEN "RUNNING"
                      ELSE IF WithOutcome(i, {"FAILED", "BLOCKED"}) = {} THEN "COMPLETED"
                      ELSE "COMPLETED_WITH_FAILURES"
  /\ counted = {i \in Interviews : Finished(i)}
  /\ jobTally.completed = Cardinality({i \in Interviews : interview[i] = "COMPLETED"})
  /\ jobTally.failed =
       Cardinality({i \in Interviews : interview[i] = "COMPLETED_WITH_FAILURES"})
  /\ job # "CANCELLED" =>
       job = IF counted # Interviews THEN "RUNNING"
             ELSE IF jobTally.failed = 0 THEN "COMPLETED" ELSE "COMPLETED_WITH_FAILURES"

\* The interview callback, which streams the interview's result to the store, is
\* called once per interview, after its last task.
NotifiedOnce == \A i \in Interviews : notified[i] = IF Finished(i) THEN 1 ELSE 0

\* A task is attempted again only while every error type is within its policy.
AttemptsWithinPolicy ==
  \A t \in Tasks, e \in ErrorTypes :
    LET p == RetryPolicies[e]
    IN  /\ attempts[t][e] <= IF p.max_attempts = 0 THEN 1 ELSE p.max_attempts
        /\ p.retryable /\ attempts[t][e] >= p.max_attempts /\ attempts[t][e] > 0
             => status[t] = "FAILED"

\* No handler overwrites the outcome of a task, not even a failure upstream.
OutcomeKept ==
  [][\A t \in Tasks : status[t] \in Outcomes => status'[t] = status[t]]_vars

\* The job service implements the promise JobOutcomes states without counters.
Promise == INSTANCE JobOutcomes WITH
             outcome <- [t \in Tasks |-> IF status[t] \in Outcomes THEN status[t] ELSE "NONE"],
             reports <- notified,
             verdict <- job
PromiseKept == Promise!Spec

=============================================================================
