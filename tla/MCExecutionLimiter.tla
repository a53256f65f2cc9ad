-------------------------- MODULE MCExecutionLimiter --------------------------
(***************************************************************************)
(* Five requests for three conversations compete for two permits.          *)
(***************************************************************************)
EXTENDS ExecutionLimiter, TLC

CONSTANTS a1, a2, b1, b2, c1, a, b, c

MCKeyOf == (a1 :> a) @@ (a2 :> a) @@ (b1 :> b) @@ (b2 :> b) @@ (c1 :> c)
=============================================================================
