------------------------------ MODULE MCRunner ------------------------------
(***************************************************************************)
(* A small instance of Runner.  Interview i1 converges: b answers directly *)
(* and c asks the model, d asks it after both.  Interview i2 is e alone.   *)
(***************************************************************************)
EXTENDS Runner, TLC

CONSTANTS b, c, d, e, i1, i2

MCInterviewOf == [t \in {b, c, d, e} |-> IF t = e THEN i2 ELSE i1]
MCDeps == (b :> {}) @@ (c :> {}) @@ (d :> {b, c}) @@ (e :> {})

Retried(n) == [retryable |-> TRUE, max_attempts |-> n]
MCRetryPolicies == [server_error        |-> Retried(2),
                    direct_answer_error |-> Retried(2),
                    no_queue            |-> Retried(1),
                    rule_error          |-> Retried(2)]

=============================================================================
