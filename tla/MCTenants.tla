------------------------------- MODULE MCTenants ------------------------------
(* Instances of Tenants for TLC.                                           *)
EXTENDS Tenants, TLC

CONSTANTS a1, a2, c1, c2, m1, m2, r1, r2
=============================================================================
