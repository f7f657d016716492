---------------------------- MODULE MCIncidentSla ----------------------------
(* An instance of IncidentSla for TLC.  What happens, happens at minute 0  *)
(* or 4: an incident created at 0 has, at 4, used up the targets of high,  *)
(* is past 75% of those of medium, and low has no targets; a change of     *)
(* severity turns a clock back, off or over.                               *)
EXTENDS IncidentSla

CONSTANTS i1, c1, c2, h1

MCTargetMin ==
  [s \in Sla |-> [v \in Severity |->
     IF v = "high" THEN 4 ELSE IF v = "medium" THEN 5 ELSE 0]]
=============================================================================
