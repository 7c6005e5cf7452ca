# A verification development of EDSL

EDSL asks questionnaires ("surveys") of AI agents: a *job* is the product of
scenarios, agents and models, each combination is an *interview*, and each
question of an interview is a *task*. This directory holds TLA+ modules that
model how a survey is built and followed, how a job is carried through to its
results and how the results are kept, TLC configurations that check them on small
instances, and TLAPS proofs for every value of the constants.

## 1. The system

### 1.1 The core: `src/edsl/runner`

| part | source | state it keeps | operations |
|---|---|---|---|
| Job service | `service.py`, `models.py` | none of its own; callbacks per job | `submit_job`, `on_task_completed`, `on_tasks_completed_batch`, `on_task_skipped`, `on_task_failed`, `_propagate_failure`, `get_progress*`, `should_skip_task`, `recover_job` |
| Stores | `stores.py` | per task: status, unmet dependencies, attempts, errors; per job: ready set, counted interviews, counters, state; per interview: counters, state; answers | composite operations (`mark_dependency_satisfied`, `mark_task_*`, `mark_interview(s)_completed*`, `_maybe_finalize`) made of single storage calls |
| Runner | `runner.py` | direct-answer registry, per-job CAS stream | `submit`, `results` (`_execute_job_async`), `cancel`, `wait` |
| Render worker | `render.py` | none | `render_ready_tasks`: pop, skip or fail by rule, put back, render or raise |
| Coordinator, queues | `coordinator.py`, `queues.py` | FIFO per (service, model, key), two token buckets each, a heap of queue availability, in-flight tasks | `enqueue`, `async_request_work`, `complete_work`, `_requeue_task` |
| Workers | `executor.py` | the task in hand | `ExecutionWorker.run`: take, run the model, report |
| Worker registry | `worker_registry.py` | heartbeats | `heartbeat`, `get_dead_worker_tasks` |
| Direct answers | `direct_answer.py` | entries per task | `execute`, `remove` |
| Storage backends | `storage*.py` | persistent and volatile keys, sets | read, write, increment, set operations |

How they interact. `Runner.submit` has the job service create every task with
its dependencies; tasks without any go into the job's ready set.
`JobHandle.results` runs one event loop: the *main coroutine* executes ready
direct-answer tasks (awaiting user code), has the render worker pop and render
the other ready ones, enqueues what was rendered, looks at `get_progress` for
failures and for the end, and sleeps; a pool of *worker coroutines* takes tasks
from the queues, awaits the model and reports to the job service. A reported
outcome decrements counters of dependents, makes some of them ready, counts for
the interview and, with the interview's last task, for the job, and calls the
callback that streams the interview's result. `JobHandle.cancel` writes the
job's state from outside.

What is hard here: the outcome of a task touches six counters that must agree;
graphs converge, so a failure reaches a task on several paths; a retry puts a
task back behind the back of code that already forgot it; finalization is
decided by "the last one out"; cancellation and `stop_on_exception` race with
completions; rate limits and workers decide when, not whether, a task runs; with
several processes, every composite store operation is a sequence of storage calls.

### 1.2 Surveys: `src/edsl/surveys`

| part | source | state it keeps | operations |
|---|---|---|---|
| Editing | `survey.py`, `edit_survey.py`, `rules/` | questions in order, rules by index, a map from names to indices shared by the rules | construct, `add_question`, `delete_question`, `move_question`, `add_rule`, `add_stop_rule`, `add_skip_rule` |
| Memory plan | `memory/memory_plan.py` | per question, the earlier ones it is shown | `add_targeted_memory`, `remove_all_question_references` |
| Dependencies | `dag/construct_dag.py`, `_extract_dag` and `should_skip_task` of `runner/service.py` | none | the dag of memory, piping and rules; replay of the survey for one task |
| Navigator | `survey_navigator.py` | the answers so far | the next question, one after another |

The runner does not use the navigator: it starts a task for every question and
lets `should_skip_task` decide when the task's dependencies are done. What is hard
here: an edit rewrites the index in every rule it keeps; the dag must hold back a
question until every answer a decision about it depends on is there; and two
implementations of the same walk have to agree.

### 1.3 Results: `src/edsl/object_store`, `runner/cas_integration.py`

| part | source | state it keeps | operations |
|---|---|---|---|
| Repository | `cas_repository.py`, `fs_backend.py` | blobs, trees and commits by hash, refs, HEAD, `current.jsonl` | `save`, `load`, `branch`, `checkout`, `log` |
| Store | `store.py` | a root directory of repositories | `sync` from one directory to another |
| Streaming | `streaming_writer.py`, `cas_integration.py` | hashes of rows written, the writer's tip, pending interviews | callback on interview completion, flush, `finalize` |

Each of them is a sequence of writes of single keys, without a lock, and any write
may raise. What is hard: the order of the writes, what is left after a failure, what
a retry takes for done, and two writers on one branch.

### 1.4 The rest of the repository

| part | source | what would make it correct |
|---|---|---|
| Token buckets | `buckets/` | never more than capacity, waits are long enough, concurrent waiters do not both spend |
| Caching | `caching/` | a hit returns what was stored under the key; the remote diff loses no entry |
| Interviews, tasks (legacy) | `interviews/`, `tasks/`, `jobs/async_interview_runner.py` | as the runner, on asyncio futures |
| Remote jobs | `jobs/remote_inference.py`, `coop/` | polling ends; a result is fetched once completed |
| Language models, services | `language_models/`, `inference_services/` | calls time out, raw responses are parsed or rejected |
| Questions, agents, scenarios, prompts, results, datasets, macros | same names | data classes and transformations |
| CLI, HTML, widgets, generators | `cli*.py`, `*_html_*` | input and output |

## 2. Modules

| module | models | checked by | proofs |
|---|---|---|---|
| `JobOutcomes` | what a job promises, with none of the bookkeeping | as the property `PromiseKept` | `JobServiceProofs` |
| `JobService` | stores and handlers of one job, a handler per action | `MCJobService` | `JobServiceProofs` |
| `Runner` | main coroutine, direct answers, render loop, queue and workers, around an instance of `JobService` | `MCRunner` | `RunnerProofs` |
| `Buckets` | the pure operations of a token bucket | through its users | `TokenBucketProofs` |
| `TokenBucket` | one bucket, its callers and an observer | itself | `TokenBucketProofs` |
| `WorkPool` | what the coordinator promises render loop and workers | as the property `PoolKept` | `CoordinatorProofs` |
| `Coordinator` | FIFO queues with two buckets each, dispatch heap, assignment, requeueing | `MCCoordinator` | `CoordinatorProofs` |
| `WorkerRegistry` | heartbeats, dead workers and their tasks over successive calls of `results` | `MCWorkerRegistry` | `WorkerRegistryProofs` |
| `CrashRecovery` | several processes on one storage: the handlers of the job service call by call, crashes, `recover_job` | `MCCrashRecovery` | `CrashRecoveryProofs` |
| `SurveyByName` | what editing a survey promises, with rules between questions, not indices | as the property `EditsKeepRules` | `SurveyProofs` |
| `SurveyEditing` | the survey as its edits rewrite it: questions, rules, name map, memory plan | `MCSurvey` | `SurveyProofs` |
| `SurveyInterview` | a submitted survey: dag, decisions to skip, answers in any order; the navigator as reference | `MCSurvey` | `SurveyProofs` |
| `ObjectStore` | directories of blobs, trees, commits, refs; savers, a streaming job, a sync, write by write | `MCObjectStore` | `ObjectStoreProofs` |

`Runner` composes `JobService` with everything that calls it; it has the
coordinator as `WorkPool` promises it, and `Coordinator` is shown to keep that
promise. `Coordinator` uses `Buckets`, as does `TokenBucket`. `SurveyInterview`
extends `SurveyEditing`, so the surveys that are conducted are those that edits
produce; `SurveyEditing` is shown to implement `SurveyByName`. What a task's
dependencies are is `SurveyInterview`'s matter; `JobService` takes any.
`ObjectStore` begins where `JobService` calls the interview callback.

### 2.1 How state and actions correspond to the code

**JobService.** One variable per storage key family: `status`, `unmetDeps`,
`attempts` (per error type, as the key `task:{id}:attempts:{type}`), `lastError`
and `batchError` (the two keys errors are written to), `readyTasks` (the job's
ready set), `answers`; `tally` (the four counters of an interview), `interview`
(its state), `counted` (`job:{id}:counted_interviews`), `jobTally`, `job`; and
`notified` counts calls of the interview callback. A handler never awaits, so
with one process it is one action: `OnTaskCompleted`, `OnTasksCompletedBatch`,
`OnTaskSkipped`, `OnTaskFailedRetry` and `OnTaskFailedForGood` (the two ends of
`on_task_failed`, with `_propagate_failure`), plus the small steps by which the
render worker and the execution workers move a task from `READY` to `RUNNING`.
`Downstream` is the traversal of `_propagate_failure`, defined as the least set
closed under dependents. The handlers are called in every order the statuses
allow; who calls them, and when, is `Runner`'s business.

**Runner.** `pc` is the place of the main coroutine in `_execute_job_async`; a
coroutine gives way only at an `await`, so workers step only while the main
coroutine is `answering` or `sleeping`. `direct`, `batch`, `rendered`, `queued`
and `worker` are the places a task can be between its readiness and its outcome:
local variables of the code that no store knows of. `Pending` is
`get_progress`, `FailureSeen` is `get_first_failed_task`, `Check` the end and
failure tests of the loop, in the code's order. `RuledTasks` may be
skipped, `BrokenRules` may raise, so may the prompts of `BrokenPrompts` (outside any
`try`, unlike the rules), `RoutableTasks` have a queue, and a call fails with any
of `WorkerErrors`. The interview callback writes to disk inside the handler that
finishes an interview and may raise (`StreamRaises`): that ends a worker (`WorkerEnds`) or the
run (`MainUnstreamed`), or sends a completed direct answer to `on_task_failed`
(`DirectUnstreamed`). It leaves the handler after all its writes, so the handler's effects are
`JobService`'s. After `DirectUnstreamed` a task may, in larger jobs than the checked one, be blocked where
it lies; what the code then does with it is not modelled (the steps that move a task
ask for the status its place stands for), and `HeldOnce` and `ExitComplete` say nothing of it.

**TokenBucket, Coordinator.** Time is counted in ticks, and a bucket is what the
code stores: tokens, and the time since they were last refilled (`lag`), since
`refill` is called by whoever asks. The heap is the sequence of queues in the
order `pop` yields them; entries that the heap's lazy deletion drops are not
kept. `Push` inserts a queue behind those that are available as soon, `Without` is the deletion
of an entry. `Assign` and `Refuse` are the two ends of `_try_assign`, which tries at
most `max_attempts` queues and puts back what it popped (`PutBack`); `Complete` reconciles the estimate. `Requeue` is
`_check_dead_workers` seen from the queues.

**WorkerRegistry.** `entry` is the record under `worker:{id}:info`, `current`
what the worker's next heartbeat will report, `tracked` the coordinator's
`_in_flight`, and `waiting` counts copies of a task in the queues. A call of
`results` starts the next pool of `Pools` and ends by cancelling it. `Check` is
`_check_dead_workers`: the tasks of the dead are read with one clock reading and the entries
removed with a second one, so a worker whose time runs out in between (`Expiring`) is removed
and its task not requeued. `missed` remembers those tasks, `alarm` whether a heartbeat was
ever late; they record facts about the past and no action reads them.

**CrashRecovery.** `db` is the storage as one record, which every process shares. Each
has its `hand` (what it popped) and `todo`, the storage calls its running handler has still
to make, reads included where something is decided by them: what a call finds may decide which
follow (`Following`; the recovery reads the dependencies of each task it requeues when it comes to
it, `RequeueTask`). A single call is atomic, nothing else is, so the handlers of two
processes interleave between any two calls. `Crash` loses a process's `todo` and `hand` and
keeps `db`; `Recover` is `recover_job`, called when no process is running, and interrupted like
any handler. `whole` remembers whether a handler was cut short since the last recovery; no
handler reads it. The storage is one that survives its process, as SQLAlchemy's or Redis do.

**SurveyEditing.** `survey` is one record, because `move_question` is
`delete_question` followed by `add_question`; its fields are `_questions`, the
rules (a set: no two are equal, see `RulesSound`), the map the rules share, the
collection's `num_questions`, and the memory plan. A rule's expression is what it
reads: `"True"`, or one question's answer. The indices after an edit are
`MovedUp` and `MovedDown`. `AddRule` is `Survey.add_rule` with all it accepts: a
rule for after a question or before it, to any later place. A target may be an index, which
nothing compares with the length of the survey, so a rule may lead behind the last question;
what it then stands for, also after further edits, is part of `SurveyByName`.

**SurveyInterview.** `DependsOn` is the dag of memory, piping and rules,
`RulesRebuild` what makes its construction or `Rule` raise, `ShouldSkip` is
`should_skip_task`, `Path` the navigator. The walks are functions over indices;
they are finite because rules lead forward (`RulesSound`). They leave a skipped question
differently, `should_skip_task` by the rule that skips it (`SkipsTo`), the navigator by the rules
for after it (`NextQuestion`): `PathFollowed` says that they agree wherever these lead to the
same place, `LeftAlike`. With the rules of `add_skip_rule` they do on a survey that no edit has
disturbed, unless a rule for after the skipped question holds without its answer.
A failed answer is not modelled here: the runner then blocks what depends on it,
which is `JobService`'s business.

**ObjectStore.** A key is a pair of a kind and what it is the hash of, so
equal contents have equal keys; a commit's hash contains its time, so commits are
numbered as they are made. `saver[p]` and `sync` are the local variables of a
call and its place between two writes; `stream` is the `StreamingCASWriter` with
the `RunnerCASIntegration` around it. `SaverFails`, `StreamFails` and `SyncFails`
are an exception at any write (after a successful first commit for the stream:
one that fails there never existed). A process that dies is one that takes no
further step. `Unserializable` are the results for which `build_edsl_result` or
`json.dumps` raises. The callback has no memory of the interviews it was called with, so a
row is `<<i, n>>`, made of interview `i` when it is reported for the `n`th time; `Results` says
which reports may come. `authors` records who wrote a branch; no action reads it.

Definitions introduced as a *mutated form* are used by no action: each is the
next definition with a plausible bug, and replacing one by the other breaks a
property.

## 3. Runs

| run | module | states | question |
|---|---|---|---|
| `job_service` | `MCJobService` | 99 218 | does the bookkeeping stay exact, and implement `JobOutcomes`, in every order of handlers? |
| `runner` | `MCRunner` | 167 036 | is no task lost or executed twice, is everything finished when the loop ends, does it end, over two calls, with retries, skips, result streams that raise and cancellation, and with `stop_on_exception` does a failure always end it by raising, for its own cause? |
| `token_bucket` | `TokenBucket` | 16 773 | does lazy refill with refunds keep the limit of every window, and is the predicted wait right? |
| `coordinator` | `MCCoordinator` | 54 192 | does the heap list the queues with a task, is a refusal free, does every task start that can, and is `WorkPool` implemented? |
| `registry` | `MCWorkerRegistry` | 141 774 | what is guaranteed about tasks that are requeued, retried and cancelled, also with late heartbeats? |
| `crash_recovery` | `MCCrashRecovery` | 2 373 433 | what do two processes on one storage keep exact, and what survives when they die at any storage call? |
| `survey` | `MCSurvey` | 439 983 | do edits carry rules and memories along, and are those questions of a survey so built asked that the navigator asks, where both leave skipped questions alike, in every order the dag allows? |
| `object_store` | `MCObjectStore` | 502 421 | can what a branch names be loaded, here and in the copy, with its history, whatever is interrupted? |
| `result_stream` | `MCObjectStore` | 1 366 012 | does the branch hold exactly what was reported, once for each report, and does it lose nothing? |
| `recovery_rebuilt`, `survey_rebuild`, `sync_history` | | | violations: see section 6 |

`job_service` uses five tasks in two interviews, with a diamond and a task of
its own, two error types of which one is not retried: enough for a failure that
reaches a task on two paths, two failures that meet, a batch that contains
dependents of different interviews, and an interview finished by a batch, a skip
or a failure. More tasks repeat these cases. `runner` has two interviews: in
one a direct answer and a model call meet in a third task, which has rules, a prompt that raises
and no queue; the other is one model call. There are two workers, and each of two calls is with or
without `stop_on_exception`. The callback raises twice at most, in the direct path once: the first
time is enough for a worker to end with work left and for a completed task to be retried. `coordinator` has two queues
with capacities of one request and two tokens, a call that overruns its estimate
(the bucket goes into debt), a task too large for its queue, and two sends of
each task; `MaxLag = 4` is the longest time any bucket takes to fill from the
deepest debt, so a longer one changes nothing. `registry` has two calls, the
first with two workers, so that an entry left by the first is there in the
second; the timeout is two ticks and the interval one, the least values with
`Interval < Timeout`. `crash_recovery` has
two processes, two tasks that a third depends on, so that each process may finish one at the same
time, and one that stands alone; of two crashes the second may hit the other process, or interrupt
the recovery from the first. `survey` starts
from no question or from three and has a fourth to add; three edits are enough for a
rule or memory, an edit that disturbs it and one that disturbs it
again. Rules lead one place behind the end at most (`MaxBehind`), from where the appended
question is reached and passed; one question may be read by rules and moved in front of and behind
each other one, as names are all alike; one is quoted. `object_store` has
two branches, one saver that calls twice and two syncs, so that each call meets the
remains of an interrupted one; `result_stream` three interviews in batches of two, of which one
may be reported twice and one
cannot be serialized, so that there is a full batch, a last one that is not full, and an empty
flush, and a saver on the same directory. `current.jsonl` is left out of the view: no action and no property reads it.
Bounds in guards: `Calls`, `MaxStreamErrors`, `MaxSends`, `MaxLag`, `MaxElapsed`, `MaxRetries`,
`MaxCrashes`, `MaxEdits`, `MaxBehind`, `MaxCalls`, `MaxSyncs`, and `Results` for how often an
interview is reported.

The type invariants of the modules with proofs are theorems and not checked again
by the runs.

`CHECK_DEADLOCK FALSE` appears in the configurations whose system does stop: the
calls have run out (`WorkerRegistry`, `ObjectStore`), the job is over
(`CrashRecovery`), or every question is answered (`SurveyInterview`).

### 3.1 Fairness

- `Runner`: weak fairness of the main coroutine, strong fairness of the workers
  together. The event loop resumes every coroutine that can go on; a worker can go on only
  while the main coroutine awaits, again and again, hence strong. A model call
  returns because `language_model.py` wraps it in `wait_for`; a direct answer is
  the user's function and is assumed to return.
- `Coordinator`: an idle worker asks again at least every half second
  (`async_request_work`'s wait), time passes, calls return.
- `WorkerRegistry`: the heartbeat tasks and the cleanup loop are loops around
  `sleep`, repeated as long as they are not cancelled; time passes. Nothing is
  assumed about when workers take or finish tasks.
- `SurveyInterview`: weak fairness of a submitted survey's steps together: the runner
  renders what is ready and a rendered task is answered or fails in the end, which is
  what `Runner` shows.
- `ObjectStore`: none; its properties are about safety.

## 4. Proofs

TLAPS checks the theorems of eight modules for every value of the constants,
assuming only the named assumptions of the component modules (finite sets of
tasks, interviews and processes, dependencies within `Tasks`, positive rates, interval
below timeout, distinct names). Dependency graphs may be any, including cyclic ones.
`CoordinatorIsPool` has one hypothesis more, named in it: no false alarms.

**JobServiceProofs.** No property is inductive alone; the
invariant is `IInv == TypeOK /\ DepInv`; `DepInv` says that `unmetDeps` counts
the unsatisfied dependencies, that a task is `PENDING` or `BLOCKED` exactly while it
has one, that it is blocked exactly when a dependency is failed or blocked, and then
downstream of a failed one, and that only `READY` tasks are in the ready set. Blocking is what makes the argument work: a
completed task's dependents cannot be blocked by it, so a decrement to zero
always meets a `PENDING` task, and a failing task's downstream is exactly what
becomes blocked. From it follow `UnmetDepsCorrect`, `DependenciesCorrect`,
`NeverStranded`, `BlockedCorrect`, `FailureReaches` and the action property
`OutcomesKept`. Needed on the way: how the cardinality of a set of unsatisfied
dependencies changes with a set of tasks, and that `Downstream` is closed.

The books of the job service have an invariant of their own: `BookInv` puts `TalliesExact`,
`FinalizedExactly`, `NotifiedOnce` and `AttemptsWithinPolicy` together. It is inductive
on top of `IInv`, because outcomes are kept: a counter grows by exactly the tasks that
gain the outcome in a step (`Gained`), so it stays the number of those that have it; and
a task in some caller's hands has no outcome, so its interview is neither final nor
counted before the step. Each handler then only has to say which tasks gain which
outcome. `Implements` is the refinement: the initial states map to each other, and a
step maps to completing, skipping or failing tasks that `JobOutcomes` calls startable
(`DepInv` says they are), with exactly `NewlyBlocked` blocked, the interviews reported
that finish, and the verdict given with the last; every other step changes nothing
the promise sees.

**RunnerProofs.** `HeldOnce` alone is not inductive, for two reasons. A task that is reported
leaves its place, and the handler changes the status of others: that those lie in no other place is
known only while the books of `JobService` are right (a failing task blocks only tasks that wait).
And the books stay right only if handlers are called in turn, for a task somebody holds. So
`RInv` has both: `JP!IInv` and `JP!BookInv`; `Hands`, that what lies in a place has
the status of that place and lies in no other; and `Placed`, that every task under way lies somewhere,
unless an exception ended a run. `ReportHandsOver` says once for all handlers what a report leaves
alone, and `NextStays` what every step does: it calls the service at most once.

The books are wrong once a completed task is failed or retried (section 6). The callbacks show it,
`Recounted`: an interview is streamed a second time, or open again after it was. `CalledLoosely` says for
handlers called for any task that this is never undone, so everything above is proved
under `~Recounted`, step by step; `LooseInv`, what the main coroutine holds at each point, holds even then.
From `RInv` follow `RunTyped`, `RunKeepsBooks` (all that `JobServiceProofs` shows holds when
`Runner` makes the calls), `RunCallsService` (each step of a run is one of `JobService` or
changes nothing there), `HeldOnceCorrect` and `RaisedForCauseCorrect`.
`ExitCompleteCorrect` is about a sum: `get_progress` adds the counters of all interviews and compares
them with the number of tasks. Folds of the community modules are recursive functions on sets; that such a
function exists (`SumsExist`), and that parts that do not overlap add up to the whole
(`PartsAddUp`), is proved once, by a least counterexample. Then `Accounted` is the number of tasks with
an outcome (`AccountedExact`), and nothing pending and nothing running means that all have one.

**TokenBucketProofs.** `WindowLimit` is strengthened to a budget: what was
granted in the window plus what the bucket holds now, refilled up to now, is at
most the capacity and the window's refill. A refund gives tokens back and lowers
`granted` by as much, a refill stays within the rate, and capping only lowers
the sum. `WaitCorrect` is an invariant of no state: it follows from the types and
the definition of a rounded-up quotient.

**WorkerRegistryProofs.** `HeldRecoverable` is inductive once only a running
loop has live workers (`LiveWhileRunning`); what both readings of a check remove, and a task it
does not requeue, changes nothing for what a worker still holds. `ExecutedOnce` needs three more
facts, as long as no heartbeat was late: an entry of a live worker is at most one
interval old (`InTime`), in the first call every entry is of a live worker
(`EntriesLive`), and a task is ready, waiting once, or held by one (`OnePlace`).
Together no worker is found dead by the first reading, so nothing is requeued behind a worker's
back; one that the second finds dead is late.

**ObjectStoreProofs.** That every ref can be loaded is not inductive: a caller that is
about to write a ref has a commit in hand that must be stored, and it got it
writes ago. The invariant `IInv` says of the store that a commit
is stored only with its tree and rows (`CommitsLoad`), that parents come before
(`ParentsBefore`) and that refs name stored commits (`RefsStored`); and of each caller
how far it got (`SaverReady`, `StreamReady`, `SyncReady`). Since keys are only
added and old commits never change, what one caller relies on no other
can take away: every action adds one fact and the lemmas on growing stores keep
the rest. The theorem is `RefsLoad`, for any number of savers, branches and interviews.

Three invariants on top of it carry the rest of the module. `HInv`, for `HistoryLoads`:
every commit made is stored in the directory, and the copy is closed under parents but for the
place where the walk of a sync is (`Gap`), so it is closed when the walk ends and a ref is
written; an interrupted sync leaves the gap, which is why the property asks for none.
`Ancestors` is a recursive function; that it has the value one expects, and keeps it as commits
are made, rests on parents coming before (`LineageExists`, `AncestorsAre`, `HistoryStays`) and on
the least counterexample, since the prover has no induction. `TInv`, for `BranchKept`: between the step
in which a caller reads the tip and the one in which it replaces it, the branch is as it was
read or has a second author. `SInv`, for `StreamExact` and `StreamGrows`: the row of a report is hashed, being
written or waiting, in one of these only (`RowsOf`); the commit in hand is of all that is hashed;
and what `Main` names is a beginning of it, and all of it once a flush is through.

**CoordinatorProofs.** `ListedExactly` is inductive with the types (`Lists`), once the
heap operations are understood: `Push` keeps a heap of distinct queues and adds one queue to
those it lists, `Without` takes one away, and putting back what `_try_assign` popped in vain
lists the queues it listed before. `PutBack` is a recursive function over the heap; that it has
a value at all is `Chain`, by the least counterexample again. `RefusalsCostNothing` compares
buckets through the tokens they would have if refilled now: asking refills them and takes nothing,
time only adds. `CoordinatorIsPool` is the refinement of `WorkPool`, step by step, over
`Work`: a task waits in one place once, what waits is not tracked, what a worker has is
tracked, and no two workers have the same task. A worker taken for dead while it works breaks
the last, so without `FalseAlarms = FALSE` neither the invariant nor the refinement holds.

**CrashRecoveryProofs.** With a storage call per step, what a process is about to do is state:
the calls left in `todo`. The invariant reads them through three sets: tasks whose status or
readiness is still to be written (`Owned`), dependents still to be told of an outcome that is
already written (`Telling`), and sets still to be blocked (`Blocking`); `Shape` says which
calls can follow one another. Then a task is in one hand, in one process's `Owned`, or ready,
and only in one of these (`OnePlace`); its status fits that place; its counter is at least the number of
unsatisfied dependencies and of processes that still have to tell it, more if one died before it
told (`UnmetCounted`); and what is blocked, or about to be, depends on a failure
(`BlockedForCause`). `Crash` drops a process's calls, which only takes from these sets,
and `Recover` starts when all are empty. From it follow `TasksHeldByOne`,
`RecoveryRespectsDependencies` and `RecoveryKeepsOutcomes`, for any number of processes,
crashes and recoveries.

`TalliesAgree` reads the same calls as books. A process that has written an outcome
and not yet counted it owes one to the counter (`Owes`), after a propagation as many as it
has blocked; a counter and what all processes owe to it (`Owed`, a sum over the processes)
are together the tasks with that outcome (`Balanced`), fewer only after a crash, until the recovery
writes the counter again. The recovery runs alone and writes what the statuses say
(`CountersFit`). Of blocked tasks no fewer are counted, and no more as long as
one failure at most spreads (`BlockedBalanced`, `BlockedFresh`); with more, two
propagations can meet at a task and both count it. `Books` gives the order of the calls that this rests on. The
bound on a counter is part of the theorem and needs its own argument: attempts are
bounded by the policy and the crashes (`AttemptsBounded`), blocked tasks by the tasks times
the failures, and the interview is counted once (`JobCounted`).

`LastOneFinalizes` is about executions without a crash, where the invariants above only
bound what can happen: the last one out must do something. `LastInv` says that whatever is not
done is in someone's calls. `Closing` is the shape of these calls: whoever satisfies a task
tells every dependent, a task made ready goes into the ready set, after an increment comes a
finalization, and after that a mark; a call and what follows from what it found keep this (`ClosingLeft`),
and every handler starts with it (`ReportCloses`). A counter of unmet dependencies is then
exactly what is still to be decremented (`UnmetExact` with `UnmetCounted`), so a task that waits
for nothing is ready, in a hand, or owned by a process's calls (`Placed`). The way to a final job is four
reads, each of what an earlier call wrote, by any process: `LastOne` says that if all is counted
and the interview still runs, someone is about to look at the counters; if it is final and
not counted, to mark it; if it is counted and the job runs, to write the job or to look at its
tally. That no one is early is the converse: any verdict a variable or a call holds
(`Given`) stems from a look at the counters when they were full. With one failure at most a
counter is never above its tasks, so all tasks had their outcome then, and the
verdict says whether one failed (`DoneMeansAll`, `VerdictFits`). `LastInv` was checked by TLC on the
tasks of `MCCrashRecovery` before it was proved.

**SurveyProofs.** `Sound`, of the survey as one record, says that no question is there
twice, that rules belong to a question and lead forward, default rules at most to the place
after the last question, that each question has its
default, that rules of a kind differ in priority, and that a question remembers earlier
ones only. Two parts are there for the induction alone: questions are distinct (else
moving one would move another), and priorities are bounded, so that a
highest one exists and the next is new. Every edit is a composition of
shifting indices up or down, dropping and adding rules, and each of these keeps `Sound`.
Answering changes no rule, so the theorems `RulesSoundCorrect` and `MemoryBehindCorrect`
hold for every list of questions and every sequence of edits.

`EditsKeepRulesCorrect` is the refinement of `SurveyByName`: the links between names are the same
before and after an insertion in the interior; at the end, those that lead behind the survey come
nearer by one (`InsertedLinks`); a deletion sends on those that led to what is deleted
(`RemovedLinks`). `DecisionFinalCorrect` rests on `Waited`: what a decided
question had to wait for stays finished. An answer that comes later is then read by no rule on the
way to a decided question (`NothingUnread`), and a decision depends on no other rules
(`SameDecision`). For `PathFollowedCorrect`, `should_skip_task` walks to a question and the navigator walks
through the survey, in two recursive functions that leave a skipped question differently.
Where both lead on to the same place they ask the same questions (`WaysAgree`), which is what
`LeftAlike` says of skipped ones, in terms of where a rule leads and not of the recursion
(`LeftAlikeAgreeing`). At the end the decisions that were made are those of the final answers
(`DecisionsFollowed`). That the recursive functions have
values is `RecursionForward`, for all functions that recur to a later place.

Only model-checked: the liveness properties (`RunEnds`, `FailureRaises`, `EveryTaskStarts`,
`ReportedRecovered`, `InterviewEnds`), which are beyond the prover. Every invariant and every
action property of the passing runs is a theorem, and so are the refinements.

## 5. Hazards and properties

`PROJECT.json` lists what is hard to test in this code, each at its line with the
properties that would notice it. The ones without a property say why in their
note: they need the batch handler or a recovery beside a running process, call by call, or writes
that are not atomic, or they are steps of a model that go wrong by design of the code, as section 6
says. Where a property excepts what a hazard names, the hazard's note says so.

## 6. Where code and documentation disagree

Each of these is a run that TLC is expected to find violated.

- `recovery_rebuilt`: `recover_job` does not put a popped `READY` task, or a
  dependent whose decrement was lost, into the ready set, and finalizes nothing
  (`service.py:2687`).
- `survey_rebuild`: the map from names to indices that rules share is brought up to date by
  additions only. Insert a question in front, add a rule to a question that reads its
  own answer, delete the inserted one: the survey is sound, its dictionary says it is
  complete (`survey.py:832`), and `from_dict` raises (`rule.py:151`); so does
  rendering in the runner.
- `sync_history`: `sync` walks from the tip backwards and takes a commit that is there for
  one that is there with its ancestors (`store.py:559`). Interrupted after the tip and tried
  again, it publishes a branch whose `log` ends in a missing key.

These were seen while modelling, and follow from the same models with the change named.

- Cancelled jobs: `cancel` writes the job's state and the loop never reads it, so pending tasks
  are run (`runner.py:216` says they are dropped; a `PROPERTY` that no task starts once
  `job = "CANCELLED"`). One whose last interview then finishes reads `COMPLETED`
  (`stores.py:310`), so `results` does not raise as `runner.py:176` says.
- The error of blocked tasks is written to a key nothing reads (`stores.py:948`;
  `lastError` and `batchError` in `JobService`).
- A stream write that fails after the last answer of an interview, if that is a direct answer, is
  taken for a failure of the answer (`runner.py:898`): the completed task is retried or marked
  `FAILED`, is counted twice, its result streamed again: drop `~Recounted` from `ExitComplete`.
  The branch then has two rows of one interview (`cas_integration.py:94`): ask in `StreamExact` for one
  row per interview.
  If `results` then raises, the count that is too high can hide a task from the end test of the next
  call. The counters of its dependents are decremented again, below zero too, so a task that waits for
  another one becomes ready, and is then blocked where it is when that one fails: with one
  interview in which `d` waits for `b` and `c`, and `e` for `b` and `d`, a task is
  `BLOCKED` and in the queue. Drop `~Recounted` from `HeldOnce` and give `MCRunner` these dependencies.
- The same failure in a worker ends its coroutine (`executor.py:167`). The pool starts no other, and
  when all are gone `results` waits for ever: drop `gone = Workers` from `RunEnds` and give
  `MCRunner` one worker.
- Two failures handled by two processes at once count a common dependent as blocked twice. Because
  `is_done` uses `>=` "for safety in case of race conditions causing over-counting"
  (`models.py:330`), the interview can then be final while another of its tasks is running: drop the
  condition on `FAILED` from `FinalizedByLast`.
- After a call of `results` that raised, a second call waits for ever for tasks whose
  workers are gone, and `timeout` is ignored (`runner.py:175`): drop `raised` from `RunEnds`.
- A task taken after its worker's last heartbeat is never requeued when that
  worker dies (`coordinator.py:410`): drop from `ReportedRecovered` that it was reported.
- Nor is the reported task of a worker whose time runs out between the two clock readings of a check
  (`coordinator.py:415` and `427`, `worker_registry.py:263`): its entry is removed and the task stays
  in `_in_flight`, though `coordinator.py:410` says "Check for dead workers and requeue their
  in-flight tasks." Drop `t \in missed` from `ReportedRecovered`.
- A stopped worker stays registered, because the clean-up
  awaits the heartbeat task it has cancelled and the `CancelledError` escapes
  (`worker_registry.py:460`). The entry it leaves has a task requeued while a
  live worker of the next call executes it (`coordinator.py:433`): drop `call <= 1`
  from `ExecutedOnce` and give the second call two workers.
- A decision to skip can depend on the order in which tasks run (`service.py:2346`): the
  dag makes a later question wait for the question a rule belongs to, not for the one the rule
  reads. After a rule at `c` that reads `a`, `d` is decided as soon as `c` is answered. Put
  `ReadsBehind` in place of `Local` in `DecisionFinal`.
- The default rule of the question before is shifted past an inserted one
  (`edit_survey.py:111`), and that of a last question is made one to the end when its
  successor is deleted, so that a question inserted in the interior, or
  appended after the deletion, is never reached by rules. Without any other rule, the runner asks it
  all the same, the navigator does not. Drop `Straight` from `PathFollowed`.
- `add_rule` says that a rule may be "jumping to an earlier question" (`survey.py:2490`); `Rule` raises
  for every target that is not later (`rule.py:55`). `CanAddRule` is what the code does, and
  `RulesSound` says that no rule leads back.
- `should_skip_task` says that it "Mirrors SurveyNavigator's traversal" (`service.py:749`). A skipped
  question is left by the rule that skips it there (`service.py:770`) and by the rules for after it in
  the navigator (`survey_navigator.py:116`). With questions `a`, `b`, `c`, `d` and a rule before `b`
  that reads `a` and leads to `d`, the runner asks `a` and `d`, the navigator also `c`. Drop
  `LeftAlike` from `PathFollowed`.
- A survey whose last question is deleted has the rules that led to the place after it lead to the
  end (`edit_survey.py:201`), so that a question appended later is not reached by them; a rule that led
  further behind comes to lead to a question once enough are appended.
- `move_question` deletes first; moved to an index equal to the old length, the question is lost with
  its rules (`edit_survey.py:37`).
- Two savers with the same `expected_tip` both succeed, and one commit leaves
  the history, though the comparison is there to prevent it (`cas_repository.py:141`): drop the
  bound on `authors` from `BranchKept` and give `MCObjectStore` two savers.
- `save` moves HEAD before it stores anything (`cas_repository.py:112`): rejected or cut short,
  it leaves HEAD on a branch that may not exist.
- A stream whose write of HEAD or `current.jsonl` failed after its ref was written makes its next
  commit a child of the commit before (`streaming_writer.py:117`); no row is lost (`StreamGrows`),
  one commit leaves the history.

## 7. Not modelled

What prompts say, what models answer, how answers are validated and priced;
progress displays and logs; the storage backends' own implementation (each call
is atomic); deletion of jobs. `requeue_stale_tasks`, `running_timeout` and the
threaded `HeartbeatManager` are used nowhere in the repository.

Of surveys: instructions and their pseudo-indices, question groups, full and lagged
memory, randomization, combining surveys, rendering and export. Of the object store: the
metadata index, deletion, large values kept as separate blobs, writes of a file that
are not atomic (`fs_backend.py:40`), and the HTTP backend, where a push is one bundle that is
stored at once; `pull` is `sync` with the ends exchanged.

Of the runner: dynamic Loop & Merge, which adds tasks to a job that runs
(`extend_definition_tasks`, `stores.py:435`), and tasks that `render.py` passes over without a word because
their stored data are gone. One `sync` runs at a time.

The components of section 1.4 are listed in `PROJECT.json` with the reason.

## 8. Plan

Next, in this order:

1. `CrashRecovery` with the batch handler, several interviews, and a recovery beside a process that
   runs, with the duplicates it produces: which of `JobService`'s properties survive.
2. Instructions and groups in `SurveyEditing`; failed answers in `SurveyInterview`.
3. Legacy token buckets, cache, remote polling, hybrid storage.
