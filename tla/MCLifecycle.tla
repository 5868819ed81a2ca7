---------------------------- MODULE MCLifecycle ----------------------------
(* A small instance of Lifecycle: a stream on the interactive lane and a    *)
(* blocking request on a dark one, of one tenant with a cap of 1 or 2.        *)
EXTENDS Lifecycle, TLC

CONSTANTS r1, r2, t1

MCTenant == (r1 :> t1) @@ (r2 :> t1)
MCCaps == [{t1} -> {1, 2}]
=============================================================================
