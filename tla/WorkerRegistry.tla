--------------------------- MODULE WorkerRegistry ---------------------------
(***************************************************************************)
(* Distributed mode of src/edsl/runner: workers register in the storage,   *)
(* their heartbeats report the task they are at, and the coordinator       *)
(* requeues what workers without a heartbeat reported.                     *)
(*                                                                         *)
(* Each call of results starts a pool of its own workers and stops it when *)
(* it ends; registry and coordinator outlive the calls.  The queues are    *)
(* abstracted to how many copies of a task wait.  Time is counted in       *)
(* ticks.  A check of the dead workers is one action since it never        *)
(* awaits, but it reads the clock twice, and time may pass in between.     *)
(*                                                                         *)
(* A definition introduced as a mutated form of the one that follows it is *)
(* used by no action: it is there to show that the properties notice it.   *)
(***************************************************************************)
EXTENDS Naturals, Sequences, FiniteSets

CONSTANTS
  Tasks,
  Workers,
  Pools,       \* <<workers of the first call, workers of the second, ...>>
  Interval,    \* heartbeat_interval
  Timeout,     \* heartbeat_timeout
  MaxRetries,  \* bound: how often a task fails and is ready again
  None

ASSUME RegistryConstants ==
  /\ Pools \in Seq(SUBSET Workers)
  /\ \A i, j \in DOMAIN Pools : i # j => Pools[i] \cap Pools[j] = {}
  /\ Interval \in Nat \ {0} /\ Timeout \in Nat /\ Interval < Timeout
  /\ MaxRetries \in Nat
  /\ None \notin Tasks

VARIABLES
  call,     \* calls of results so far
  running,  \* is the last of them in its main loop?
  phase,    \* of each worker's coroutine
  current,  \* worker -> AsyncHeartbeatManager._current_task_id
  entry,    \* worker:{id}:info: task reported and time since, or None
  alarm,    \* has a heartbeat ever been late?
  tracked,  \* ExecutionCoordinator._in_flight
  missed,   \* tracked tasks whose report was removed and that were not requeued
  waiting,  \* task -> its copies in the queues
  ready,    \* tasks the job service has ready
  done,     \* tasks the job service has as completed
  retries   \* how often each task failed

vars == <<call, running, phase, current, entry, alarm, tracked, missed, waiting, ready, done, retries>>

Phases == {"new", "idle", "busy", "gone"}
Live(w) == phase[w] \in {"idle", "busy"}
Holds(w, t) == phase[w] = "busy" /\ current[w] = t
Report(t) == [task |-> t, age |-> 0]

TypeOK ==
  /\ call \in 0..Len(Pools) /\ running \in BOOLEAN
  /\ phase \in [Workers -> Phases]
  /\ current \in [Workers -> Tasks \cup {None}]
  /\ \A w \in Workers : phase[w] = "busy" <=> current[w] # None
  /\ entry \in [Workers -> [task : Tasks \cup {None}, age : 0..Timeout] \cup {None}]
  /\ alarm \in BOOLEAN
  /\ tracked \subseteq Tasks /\ missed \subseteq Tasks
  /\ ready \subseteq Tasks /\ done \subseteq Tasks
  /\ waiting \in [Tasks -> Nat]
  /\ retries \in [Tasks -> 0..MaxRetries]

Init ==
  /\ call = 0 /\ running = FALSE
  /\ phase = [w \in Workers |-> "new"]
  /\ current = [w \in Workers |-> None]
  /\ entry = [w \in Workers |-> None]
  /\ alarm = FALSE
  /\ tracked = {} /\ missed = {} /\ ready = Tasks /\ done = {}
  /\ waiting = [t \in Tasks |-> 0]
  /\ retries = [t \in Tasks |-> 0]

-----------------------------------------------------------------------------

\* pool.start: every worker registers before the loop's first iteration.
Start ==
  /\ ~running /\ call < Len(Pools)
  /\ call' = call + 1 /\ running' = TRUE
  /\ phase' = [w \in Workers |-> IF w \in Pools[call + 1] THEN "idle" ELSE phase[w]]
  /\ entry' = [w \in Workers |-> IF w \in Pools[call + 1] THEN Report(None) ELSE entry[w]]
  /\ UNCHANGED <<current, tracked, missed, waiting, ready, done, retries, alarm>>

\* The main loop renders a ready task and enqueues it.
Put(t) ==
  /\ running /\ t \in ready
  /\ ready' = ready \ {t}
  /\ waiting' = [waiting EXCEPT ![t] = @ + 1]
  /\ UNCHANGED <<call, running, phase, current, entry, tracked, missed, done, retries, alarm>>

\* Mutated form: the assignment is not tracked.
TakeUntracked(w, t) ==
  /\ phase[w] = "idle" /\ waiting[t] > 0
  /\ phase' = [phase EXCEPT ![w] = "busy"]
  /\ current' = [current EXCEPT ![w] = t]
  /\ waiting' = [waiting EXCEPT ![t] = @ - 1]
  /\ UNCHANGED <<call, running, entry, tracked, missed, ready, done, retries, alarm>>

\* The next heartbeat will report the task.
Take(w, t) ==
  /\ phase[w] = "idle" /\ waiting[t] > 0
  /\ phase' = [phase EXCEPT ![w] = "busy"]
  /\ current' = [current EXCEPT ![w] = t]
  /\ waiting' = [waiting EXCEPT ![t] = @ - 1]
  /\ tracked' = tracked \cup {t}
  /\ missed' = missed \ {t}
  /\ UNCHANGED <<call, running, entry, ready, done, retries, alarm>>

\* The call returns, and the task is done or, failed, ready again.
Finish(w, fails) ==
  LET t == current[w]
  IN  /\ phase[w] = "busy"
      /\ fails => retries[t] < MaxRetries
      /\ phase' = [phase EXCEPT ![w] = "idle"]
      /\ current' = [current EXCEPT ![w] = None]
      /\ tracked' = tracked \ {t}
      /\ missed' = missed \ {t}
      /\ ready' = IF fails THEN ready \cup {t} ELSE ready
      /\ done' = IF fails THEN done ELSE done \cup {t}
      /\ retries' = IF fails THEN [retries EXCEPT ![t] = @ + 1] ELSE retries
      /\ UNCHANGED <<call, running, entry, waiting, alarm>>

Beat(w) ==
  /\ Live(w) /\ entry[w] # None
  /\ entry' = [entry EXCEPT ![w] = Report(current[w])]
  /\ UNCHANGED <<call, running, phase, current, tracked, missed, waiting, ready, done, retries, alarm>>

\* The main loop ends, and the pool is stopped.  _unregister awaits the heartbeat it
\* has cancelled, which raises the CancelledError that AsyncHeartbeatManager.stop does
\* not catch: the worker's coroutine ends there, and its entry stays.
Stop ==
  /\ running
  /\ running' = FALSE
  /\ phase' = [w \in Workers |-> IF Live(w) THEN "gone" ELSE phase[w]]
  /\ current' = [w \in Workers |-> None]
  /\ UNCHANGED <<call, entry, tracked, missed, waiting, ready, done, retries, alarm>>

\* Mutated form: a worker that is one interval late is dead.
DeadAfterInterval == {w \in Workers : entry[w] # None /\ entry[w].age >= Interval}

Dead == {w \in Workers : entry[w] # None /\ entry[w].age >= Timeout}
Reported(ws) == {entry[w].task : w \in ws} \ {None}

\* Mutated form: the registry is cleaned up before it is asked for the tasks.
CheckDeadCleaned ==
  /\ running /\ Dead # {}
  /\ entry' = [w \in Workers |-> IF w \in Dead THEN None ELSE entry[w]]
  /\ UNCHANGED <<call, running, phase, current, tracked, missed, waiting, ready, done, retries, alarm>>

\* Those who may reach the timeout while a check is made.
Expiring == {w \in Workers : entry[w] # None /\ entry[w].age = Timeout - 1}

\* The tracked tasks that the dead reported are requeued; then the entries are removed,
\* also those of workers who died in between.
Check(late) ==
  LET requeued == Reported(Dead) \cap tracked
  IN  /\ running /\ Dead \cup late # {}
      /\ tracked' = tracked \ requeued
      /\ missed' = (missed \cup (Reported(late) \cap tracked)) \ requeued
      /\ waiting' = [t \in Tasks |-> IF t \in requeued THEN waiting[t] + 1 ELSE waiting[t]]
      /\ entry' = [w \in Workers |-> IF w \in Dead \cup late THEN None ELSE entry[w]]
      /\ alarm' = (alarm \/ \E w \in late : Live(w))
      /\ UNCHANGED <<call, running, phase, current, ready, done, retries>>

\* get_dead_worker_tasks and cleanup_dead_workers ask the clock each for themselves.
CheckDead == \E late \in SUBSET Expiring : Check(late)

Late(w) == Live(w) /\ entry[w] # None /\ entry[w].age >= Interval

\* A heartbeat is late if something blocks the event loop.
Tick ==
  /\ \E w \in Workers : entry[w] # None /\ entry[w].age < Timeout
  /\ entry' = [w \in Workers |->
                 IF entry[w] = None THEN None
                 ELSE IF entry[w].age = Timeout THEN entry[w]
                 ELSE [entry[w] EXCEPT !.age = @ + 1]]
  /\ alarm' = (alarm \/ \E w \in Workers : Late(w))
  /\ UNCHANGED <<call, running, phase, current, tracked, missed, waiting, ready, done, retries>>

Next ==
  \/ Start \/ Stop \/ CheckDead \/ Tick
  \/ \E t \in Tasks : Put(t)
  \/ \E w \in Workers :
       \/ Beat(w)
       \/ \E t \in Tasks : Take(w, t)
       \/ \E fails \in BOOLEAN : Finish(w, fails)

Spec == Init /\ [][Next]_vars

\* Time passes, heartbeats and checks are repeated for as long as the loop runs.
Fairness ==
  WF_vars(Tick) /\ WF_vars(CheckDead) /\ \A w \in Workers : WF_vars(Beat(w))

FairSpec == Spec /\ Fairness

-----------------------------------------------------------------------------
(***************************************************************************)
(* Properties.                                                             *)
(***************************************************************************)

\* However often stale reports and false alarms have a task executed twice, and the
\* first copy to return ends the tracking of the second: a cancelled worker takes no
\* task with it that is not done, tracked, waiting, ready, or held by another worker.
HeldRecoverable ==
  \A w \in Workers, t \in Tasks :
    Holds(w, t) => \/ t \in tracked \cup ready \cup done \/ waiting[t] > 0
                   \/ \E v \in Workers \ {w} : Holds(v, t)

\* The task a worker reported before it was cancelled is requeued if the coordinator
\* still tracks it, as long as some main loop runs, unless the worker's time ran out
\* while a check was being made: then its entry is removed and the task is not requeued.
\* What it took after its last heartbeat was never reported.
ReportedRecovered ==
  \A w \in Workers, t \in Tasks :
    (/\ running /\ t \in tracked /\ phase[w] = "gone"
     /\ entry[w] # None /\ entry[w].task = t)
      ~> (t \notin tracked \/ t \in missed \/ ~running)

\* In the first call, where every entry is of a live worker, no task is executed by two
\* workers at a time, as long as heartbeats came in time.
ExecutedOnce ==
  ~alarm /\ call <= 1 =>
    \A v, w \in Workers, t \in Tasks : Holds(v, t) /\ Holds(w, t) => v = w

=============================================================================
