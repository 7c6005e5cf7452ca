------------------------------ MODULE WorkPool ------------------------------
(***************************************************************************)
(* What the coordinator promises the render loop and the workers, without  *)
(* queues, heap or limits: a task put into the pool is handed to one       *)
(* worker at a time, and stays with it until the worker is done with it or *)
(* is gone.  Runner assumes no more than this of the coordinator.          *)
(***************************************************************************)
CONSTANTS Tasks, Workers, None

VARIABLES
  queued,   \* tasks waiting for a worker
  hand,     \* worker -> the task it executes, or None
  orphans   \* tasks whose worker is gone

vars == <<queued, hand, orphans>>

Held(t) == \E w \in Workers : hand[w] = t

Init ==
  /\ queued = {}
  /\ hand = [w \in Workers |-> None]
  /\ orphans = {}

Put(t) ==
  /\ t \notin queued \cup orphans /\ ~Held(t)
  /\ queued' = queued \cup {t}
  /\ UNCHANGED <<hand, orphans>>

Take(w, t) ==
  /\ hand[w] = None /\ t \in queued
  /\ queued' = queued \ {t}
  /\ hand' = [hand EXCEPT ![w] = t]
  /\ UNCHANGED orphans

Finish(w) ==
  /\ hand[w] # None
  /\ hand' = [hand EXCEPT ![w] = None]
  /\ UNCHANGED <<queued, orphans>>

Abandon ==
  /\ orphans' = orphans \cup {t \in Tasks : Held(t)}
  /\ hand' = [w \in Workers |-> None]
  /\ UNCHANGED queued

Return(t) ==
  /\ t \in orphans
  /\ orphans' = orphans \ {t}
  /\ queued' = queued \cup {t}
  /\ UNCHANGED hand

Next ==
  \/ \E t \in Tasks : Put(t) \/ Return(t)
  \/ \E w \in Workers : Finish(w) \/ \E t \in Tasks : Take(w, t)
  \/ Abandon

Spec == Init /\ [][Next]_vars

=============================================================================
