----------------------------- MODULE MCEscalation -----------------------------
(* Instances of Escalation for TLC.                                        *)
EXTENDS Escalation

CONSTANTS i1, i2, w1, w2, p1, q1
=============================================================================
