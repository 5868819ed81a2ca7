------------------------------ MODULE MCServer ------------------------------
(* One request, and a job in stop or in checkpoint mode. *)
EXTENDS Server, TLC

CONSTANTS r1, t1

MCTenant == (r1 :> t1)
MCCaps == [{t1} -> {2}]
=============================================================================
