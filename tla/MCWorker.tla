------------------------------ MODULE MCWorker ------------------------------
(* Model checking Worker: rings so short that they fill up, wrap around    *)
(* and are extended.                                                       *)
EXTENDS Worker

CONSTANTS a, b, c

MCRequests == {a, b, c}
(* One name that is retried, two that are not.                             *)
MCPersistent == {c}
=============================================================================
