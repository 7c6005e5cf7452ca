------------------------ MODULE WorkerRegistryProofs ------------------------
(***************************************************************************)
(* Theorems about WorkerRegistry, for any workers, tasks, pools, interval  *)
(* and timeout.                                                            *)
(*                                                                         *)
(* TypeOK and HeldRecoverable are inductive once it is known that only a   *)
(* running loop has live workers.  ExecutedOnce is not: that no worker of  *)
(* the first call is taken for dead depends on the age of its entry        *)
(* (InTime), on the entries being those of live workers (EntriesLive), and *)
(* on a task being in one place at a time (OnePlace).                      *)
(***************************************************************************)
EXTENDS WorkerRegistry, TLAPS

\* Between two calls every coroutine has ended.
LiveWhileRunning == \A w \in Workers : Live(w) => running

Typed == TypeOK /\ LiveWhileRunning

Entries == [task : Tasks \cup {None}, age : 0..Timeout]

LEMMA TypedInit == Init => Typed
  <1> SUFFICES ASSUME Init PROVE Typed
    OBVIOUS
  <1>1. 0 \in 0..Len(Pools) /\ 0 \in 0..MaxRetries
    BY RegistryConstants
  <1>2. LiveWhileRunning
    BY DEF Init, LiveWhileRunning, Live
  <1> QED BY <1>1, <1>2, RegistryConstants DEF Init, Typed, TypeOK, Phases

LEMMA TypedStep == Typed /\ [Next]_vars => Typed'
  <1> SUFFICES ASSUME Typed, [Next]_vars PROVE Typed'
    OBVIOUS
  <1> USE RegistryConstants DEF Typed, TypeOK, LiveWhileRunning, Live, Phases
  <1>1. CASE Start
    <2>1. Report(None) \in Entries
      BY DEF Report, Entries
    <2>2. entry' \in [Workers -> Entries \cup {None}]
      BY <1>1, <2>1 DEF Start, Entries
    <2>3. \A w \in Workers : phase'[w] = "busy" <=> current'[w] # None
      BY <1>1 DEF Start
    <2> QED BY <1>1, <2>2, <2>3 DEF Start, Entries
  <1>2. CASE Stop
    BY <1>2 DEF Stop
  <1>3. CASE CheckDead
    <2>0. PICK late \in SUBSET Expiring : Check(late)
      BY <1>3 DEF CheckDead
    <2>1. entry' \in [Workers -> Entries \cup {None}]
      BY <2>0 DEF Check, Entries
    <2>2. waiting' \in [Tasks -> Nat]
      BY <2>0 DEF Check
    <2>3. alarm' \in BOOLEAN
      BY <2>0 DEF Check
    <2>4. missed' \subseteq Tasks
      BY <2>0 DEF Check
    <2> QED BY <2>0, <2>1, <2>2, <2>3, <2>4 DEF Check, Entries
  <1>4. CASE Tick
    <2>1. ASSUME NEW w \in Workers, entry[w] # None, entry[w].age # Timeout
          PROVE  [entry[w] EXCEPT !.age = @ + 1] \in Entries
      <3>1. entry[w] \in Entries
        BY <2>1 DEF Entries
      <3>2. entry[w].age + 1 \in 0..Timeout
        BY <2>1, <3>1 DEF Entries
      <3> HIDE DEF Typed, TypeOK
      <3> QED BY <3>1, <3>2 DEF Entries
    <2>2. entry' \in [Workers -> Entries \cup {None}]
      BY <1>4, <2>1 DEF Tick, Entries
    <2> QED BY <1>4, <2>2 DEF Tick, Entries
  <1>5. ASSUME NEW t \in Tasks, Put(t) PROVE Typed'
    BY <1>5 DEF Put
  <1>6. ASSUME NEW w \in Workers, Beat(w) PROVE Typed'
    <2>1. Report(current[w]) \in Entries
      BY DEF Report, Entries
    <2>2. entry' \in [Workers -> Entries \cup {None}]
      BY <1>6, <2>1 DEF Beat, Entries
    <2> QED BY <1>6, <2>2 DEF Beat, Entries
  <1>7. ASSUME NEW w \in Workers, NEW t \in Tasks, Take(w, t) PROVE Typed'
    BY <1>7 DEF Take
  <1>8. ASSUME NEW w \in Workers, NEW fails \in BOOLEAN, Finish(w, fails) PROVE Typed'
    <2>1. current[w] \in Tasks
      BY <1>8 DEF Finish
    <2>2. retries' \in [Tasks -> 0..MaxRetries]
      BY <1>8, <2>1 DEF Finish
    <2> QED BY <1>8, <2>1, <2>2 DEF Finish
  <1>9. CASE UNCHANGED vars
    BY <1>9 DEF vars
  <1> QED BY SMTT(30), <1>1, <1>2, <1>3, <1>4, <1>5, <1>6, <1>7, <1>8, <1>9 DEF Next

\* Every variable keeps its type, a worker reports a task exactly while it executes
\* one, and no age exceeds the timeout.
THEOREM TypeCorrect == Spec => []TypeOK
  <1>1. Spec => []Typed
    BY TypedInit, TypedStep, PTL DEF Spec
  <1> QED BY <1>1, PTL DEF Typed

-----------------------------------------------------------------------------

LEMMA HeldInit == Init => HeldRecoverable
  BY DEF Init, HeldRecoverable, Holds

\* Whatever takes a task off one list puts it on another.
LEMMA HeldStep ==
  ASSUME Typed, HeldRecoverable, [Next]_vars
  PROVE  HeldRecoverable'
  <1> DEFINE Recoverable(w, t) == \/ t \in tracked \cup ready \cup done \/ waiting[t] > 0
                                  \/ \E v \in Workers \ {w} : Holds(v, t)
  <1>0. SUFFICES ASSUME NEW v \in Workers, NEW u \in Tasks, Holds(v, u)'
                 PROVE  Recoverable(v, u)'
    BY DEF HeldRecoverable
  <1>a. Holds(v, u) => Recoverable(v, u)
    BY DEF HeldRecoverable
  <1> USE DEF Typed, TypeOK, Holds
  <1>1. CASE Start
    BY <1>0, <1>1 DEF Start, LiveWhileRunning, Live
  <1>2. CASE Stop
    BY <1>0, <1>2 DEF Stop, Live
  <1>3. CASE CheckDead
    <2>0. PICK late \in SUBSET Expiring : Check(late)
      BY <1>3 DEF CheckDead
    <2>1. u \in tracked => u \in tracked' \/ waiting'[u] > 0
      BY <2>0 DEF Check
    <2>2. waiting[u] > 0 => waiting'[u] > 0
      BY <2>0 DEF Check
    <2> QED BY <1>0, <1>a, <2>0, <2>1, <2>2 DEF Check
  <1>4. CASE Tick
    BY <1>0, <1>a, <1>4 DEF Tick
  <1>5. ASSUME NEW t \in Tasks, Put(t) PROVE Recoverable(v, u)'
    BY <1>0, <1>a, <1>5 DEF Put
  <1>6. ASSUME NEW w \in Workers, Beat(w) PROVE Recoverable(v, u)'
    BY <1>0, <1>a, <1>6 DEF Beat
  <1>7. ASSUME NEW w \in Workers, NEW t \in Tasks, Take(w, t) PROVE Recoverable(v, u)'
    <2>1. CASE u = t
      BY <1>7, <2>1 DEF Take
    <2>2. CASE u # t
      <3>1. v # w /\ Holds(v, u)
        BY <1>0, <1>7, <2>2 DEF Take
      <3>2. waiting'[u] = waiting[u] /\ tracked \subseteq tracked'
        BY <1>7, <2>2 DEF Take
      <3>3. \A x \in Workers : Holds(x, u) => Holds(x, u)'
        BY <1>7 DEF Take
      <3> QED BY <1>a, <1>7, <3>1, <3>2, <3>3 DEF Take
    <2> QED BY <2>1, <2>2
  <1>8. ASSUME NEW w \in Workers, NEW fails \in BOOLEAN, Finish(w, fails)
        PROVE  Recoverable(v, u)'
    <2>1. CASE u = current[w]
      BY <1>8, <2>1 DEF Finish
    <2>2. CASE u # current[w]
      <3>1. v # w /\ Holds(v, u)
        BY <1>0, <1>8 DEF Finish
      <3>2. \A x \in Workers : Holds(x, u) => Holds(x, u)'
        BY <1>8, <2>2 DEF Finish
      <3> QED BY <1>a, <1>8, <2>2, <3>1, <3>2 DEF Finish
    <2> QED BY <2>1, <2>2
  <1>9. CASE UNCHANGED vars
    BY <1>0, <1>a, <1>9 DEF vars
  <1> HIDE DEF Recoverable
  <1> QED BY <1>1, <1>2, <1>3, <1>4, <1>5, <1>6, <1>7, <1>8, <1>9 DEF Next

\* Stopping the pool loses no task, however often stale reports and false alarms had it
\* executed twice.
THEOREM HeldCorrect == Spec => []HeldRecoverable
  <1>1. Spec => [](Typed /\ HeldRecoverable)
    BY TypedInit, TypedStep, HeldInit, HeldStep, PTL DEF Spec
  <1> QED BY <1>1, PTL

-----------------------------------------------------------------------------

\* A heartbeat that comes in time keeps the entry younger than the timeout.
InTime ==
  \A w \in Workers : Live(w) /\ entry[w] # None => entry[w].age <= Interval

\* Until the first call has ended, every entry is of one of its workers.
EntriesLive ==
  /\ call = 0 => \A w \in Workers : entry[w] = None
  /\ call <= 1 /\ running => \A w \in Workers : entry[w] # None => Live(w)

\* Until then a task is ready, or waits once, or is held by one worker.
InOnePlace(t) ==
  /\ waiting[t] <= 1
  /\ t \in ready => waiting[t] = 0 /\ \A w \in Workers : ~Holds(w, t)
  /\ waiting[t] = 1 => \A w \in Workers : ~Holds(w, t)
  /\ \A v, w \in Workers : Holds(v, t) /\ Holds(w, t) => v = w

OnePlace == call <= 1 => \A t \in Tasks : InOnePlace(t)

Once == EntriesLive /\ (~alarm => InTime /\ OnePlace)

LEMMA OnceInit == Init => Once
  <1> SUFFICES ASSUME Init PROVE Once
    OBVIOUS
  <1>1. InTime /\ EntriesLive
    BY DEF Init, InTime, EntriesLive
  <1>2. OnePlace
    BY DEF Init, OnePlace, InOnePlace, Holds
  <1> QED BY <1>1, <1>2 DEF Once

LEMMA InTimeStep ==
  ASSUME Typed, InTime, ~alarm', [Next]_vars
  PROVE  InTime'
  <1> USE RegistryConstants DEF InTime, Typed, TypeOK, Live, Report
  <1>1. CASE Start
    BY <1>1 DEF Start, LiveWhileRunning
  <1>2. CASE Stop
    BY <1>2 DEF Stop
  <1>3. CASE CheckDead
    BY <1>3 DEF CheckDead, Check
  <1>4. CASE Tick
    <2>1. SUFFICES ASSUME NEW w \in Workers, Live(w), entry[w] # None
                   PROVE  entry'[w].age <= Interval
      BY <1>4 DEF Tick
    <2>2. entry[w] \in [task : Tasks \cup {None}, age : 0..Timeout]
      BY <2>1
    <2>3. ~Late(w)
      BY <1>4 DEF Tick
    <2>4. entry[w].age < Interval
      BY <2>1, <2>2, <2>3 DEF Late
    <2> QED BY <1>4, <2>1, <2>2, <2>4 DEF Tick
  <1>5. ASSUME NEW t \in Tasks, Put(t) PROVE InTime'
    BY <1>5 DEF Put
  <1>6. ASSUME NEW w \in Workers, Beat(w) PROVE InTime'
    BY <1>6 DEF Beat
  <1>7. ASSUME NEW w \in Workers, NEW t \in Tasks, Take(w, t) PROVE InTime'
    BY <1>7 DEF Take
  <1>8. ASSUME NEW w \in Workers, NEW fails \in BOOLEAN, Finish(w, fails) PROVE InTime'
    BY <1>8 DEF Finish
  <1>9. CASE UNCHANGED vars
    BY <1>9 DEF vars
  <1> QED BY <1>1, <1>2, <1>3, <1>4, <1>5, <1>6, <1>7, <1>8, <1>9 DEF Next

LEMMA EntriesLiveStep ==
  ASSUME Typed, EntriesLive, [Next]_vars
  PROVE  EntriesLive'
  <1> USE DEF EntriesLive, Typed, TypeOK, Live, Report
  <1>1. CASE Start
    <2>1. call' = call + 1 /\ call' <= 1 => call = 0
      BY <1>1 DEF Start
    <2> QED BY <1>1, <2>1 DEF Start
  <1>2. CASE Stop
    BY <1>2 DEF Stop, LiveWhileRunning
  <1>3. CASE CheckDead
    BY <1>3 DEF CheckDead, Check
  <1>4. CASE Tick
    BY <1>4 DEF Tick
  <1>5. ASSUME NEW t \in Tasks, Put(t) PROVE EntriesLive'
    BY <1>5 DEF Put
  <1>6. ASSUME NEW w \in Workers, Beat(w) PROVE EntriesLive'
    BY <1>6 DEF Beat
  <1>7. ASSUME NEW w \in Workers, NEW t \in Tasks, Take(w, t) PROVE EntriesLive'
    BY <1>7 DEF Take
  <1>8. ASSUME NEW w \in Workers, NEW fails \in BOOLEAN, Finish(w, fails)
        PROVE  EntriesLive'
    BY <1>8 DEF Finish
  <1>9. CASE UNCHANGED vars
    BY <1>9 DEF vars
  <1> QED BY <1>1, <1>2, <1>3, <1>4, <1>5, <1>6, <1>7, <1>8, <1>9 DEF Next

\* So nobody is dead when a check begins, and nothing is requeued.
LEMMA NoneDead ==
  ASSUME Typed, InTime, EntriesLive, call <= 1, running
  PROVE  Dead = {}
  BY RegistryConstants DEF Typed, TypeOK, InTime, EntriesLive, Dead

LEMMA OnePlaceStep ==
  ASSUME Typed, InTime, EntriesLive, OnePlace, [Next]_vars
  PROVE  OnePlace'
  <1> SUFFICES ASSUME (call <= 1)', NEW u \in Tasks PROVE InOnePlace(u)'
    BY DEF OnePlace
  <1>0. call <= 1
    BY DEF Next, vars, Start, Stop, CheckDead, Check, Tick, Put, Beat, Take, Finish, Typed, TypeOK
  <1>a. InOnePlace(u)
    BY <1>0 DEF OnePlace
  <1> USE DEF Typed, TypeOK, Holds, InOnePlace
  <1>1. CASE Start
    BY <1>1, <1>a DEF Start, LiveWhileRunning, Live
  <1>2. CASE Stop
    BY <1>2, <1>a DEF Stop, Live
  <1>3. CASE CheckDead
    <2>1. PICK late \in SUBSET Expiring : Check(late)
      BY <1>3 DEF CheckDead
    <2>2. Reported(Dead) = {}
      BY <2>1, <1>0, NoneDead DEF Check, Reported
    <2> QED BY <2>1, <2>2, <1>a DEF Check
  <1>4. CASE Tick
    BY <1>4, <1>a DEF Tick
  <1>5. ASSUME NEW t \in Tasks, Put(t) PROVE InOnePlace(u)'
    BY <1>5, <1>a DEF Put
  <1>6. ASSUME NEW w \in Workers, Beat(w) PROVE InOnePlace(u)'
    BY <1>6, <1>a DEF Beat
  <1>7. ASSUME NEW w \in Workers, NEW t \in Tasks, Take(w, t) PROVE InOnePlace(u)'
    <2>1. CASE u = t
      <3>1. waiting[u] = 1 /\ waiting'[u] = 0 /\ u \notin ready'
        BY <1>7, <1>a, <2>1 DEF Take
      <3>2. \A v \in Workers : Holds(v, u)' => v = w
        BY <1>7, <1>a, <2>1, <3>1 DEF Take
      <3> QED BY <3>1, <3>2
    <2>2. CASE u # t
      BY <1>7, <1>a, <2>2 DEF Take
    <2> QED BY <2>1, <2>2
  <1>8. ASSUME NEW w \in Workers, NEW fails \in BOOLEAN, Finish(w, fails)
        PROVE  InOnePlace(u)'
    <2>1. \A v \in Workers : Holds(v, u)' => Holds(v, u) /\ v # w
      BY <1>8 DEF Finish
    <2>2. CASE u = current[w]
      <3>1. Holds(w, u) /\ waiting[u] = 0
        BY <1>8, <1>a, <2>2 DEF Finish
      <3> QED BY <1>8, <1>a, <2>1, <3>1 DEF Finish
    <2>3. CASE u # current[w]
      BY <1>8, <1>a, <2>1, <2>3 DEF Finish
    <2> QED BY <2>2, <2>3
  <1>9. CASE UNCHANGED vars
    BY <1>9, <1>a DEF vars
  <1> HIDE DEF InOnePlace
  <1> QED BY <1>1, <1>2, <1>3, <1>4, <1>5, <1>6, <1>7, <1>8, <1>9 DEF Next

\* A late heartbeat is never forgotten.
LEMMA AlarmStays ==
  ASSUME [Next]_vars, alarm
  PROVE  alarm'
  BY DEF Next, vars, Start, Stop, CheckDead, Check, Tick, Put, Beat, Take, Finish

LEMMA OnceStep ==
  ASSUME Typed, Once, [Next]_vars
  PROVE  Once'
  <1>1. EntriesLive'
    BY EntriesLiveStep DEF Once
  <1>2. ASSUME ~alarm' PROVE InTime' /\ OnePlace'
    BY <1>2, AlarmStays, InTimeStep, OnePlaceStep DEF Once
  <1> QED BY <1>1, <1>2 DEF Once

LEMMA OnceSuffices == Once => ExecutedOnce
  BY DEF Once, OnePlace, InOnePlace, ExecutedOnce

\* In the first call no two workers execute a task at a time, as long as heartbeats
\* came in time.
THEOREM ExecutedOnceCorrect == Spec => []ExecutedOnce
  <1>1. Spec => [](Typed /\ Once)
    BY TypedInit, TypedStep, OnceInit, OnceStep, PTL DEF Spec
  <1> QED BY <1>1, OnceSuffices, PTL

=============================================================================
