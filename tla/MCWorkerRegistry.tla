-------------------------- MODULE MCWorkerRegistry --------------------------
(***************************************************************************)
(* A small instance of WorkerRegistry: a call with two workers, and one    *)
(* with one.                                                               *)
(***************************************************************************)
EXTENDS WorkerRegistry, TLC

CONSTANTS t1, t2, w1, w2, w3

MCPools == <<{w1, w2}, {w3}>>

=============================================================================
