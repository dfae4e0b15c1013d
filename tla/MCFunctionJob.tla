--------------------------- MODULE MCFunctionJob ---------------------------
(* Small instances of FunctionJob for TLC. *)
EXTENDS FunctionJob

CONSTANTS p, q, nil

JobSpec(ps, single, par, retry) ==
  [payloads |-> ps, payload |-> single, parallelism |-> par, retryLimit |-> retry]

\* Two payloads, one per reconcile, no retries (the limit is below zero); and
\* the job edited down to one other payload, outside a list, that may be
\* retried (the parallelism is below one).
TwoSpecs ==
  { JobSpec(<<p, q>>, nil, 1, -1), JobSpec(<<>>, q, 0, 1) }
=============================================================================
