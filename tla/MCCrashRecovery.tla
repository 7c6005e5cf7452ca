-------------------------- MODULE MCCrashRecovery --------------------------
(***************************************************************************)
(* A small instance of CrashRecovery: c depends on a and on b, which may   *)
(* be in the hands of two processes, and d stands alone.                   *)
(***************************************************************************)
EXTENDS CrashRecovery, TLC

CONSTANTS a, b, c, d, p, q

MCDeps == (a :> {}) @@ (b :> {}) @@ (c :> {a, b}) @@ (d :> {})

ProcessSymmetry == Permutations(Processes)

=============================================================================
