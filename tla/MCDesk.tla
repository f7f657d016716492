-------------------------------- MODULE MCDesk --------------------------------
(* Instances of Desk for TLC.                                              *)
EXTENDS Desk, TLC

CONSTANTS i1, i2, t1, t2, r1, r2

MCSymmetry == Permutations({t1, t2}) \cup Permutations({r1, r2})
                \cup Permutations({i1, i2})
=============================================================================
