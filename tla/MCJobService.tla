---------------------------- MODULE MCJobService ----------------------------
(***************************************************************************)
(* A small instance of JobService: interview i1 is the converging graph of *)
(* tests/runner/test_failure_propagation.py (b and c after a, d after both *)
(* of them), interview i2 holds one task.                                  *)
(***************************************************************************)
EXTENDS JobService, TLC

CONSTANTS a, b, c, d, z, i1, i2

MCInterviewOf == [t \in {a, b, c, d} |-> i1] @@ (z :> i2)
MCDeps == (a :> {}) @@ (b :> {a}) @@ (c :> {a}) @@ (d :> {b, c}) @@ (z :> {})

\* One error type that is retried once and one that is not retried.
MCRetryPolicies == [server_error    |-> [retryable |-> TRUE, max_attempts |-> 2],
                    invalid_request |-> [retryable |-> FALSE, max_attempts |-> 1]]

=============================================================================
