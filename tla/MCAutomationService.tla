------------------------- MODULE MCAutomationService -------------------------
(***************************************************************************)
(* Automations and Playbook have no variable in common: a run is one step  *)
(* of the first and a whole behaviour of the second.  Each behaviour here  *)
(* is one of either, chosen at the start, and the other stands still.      *)
(***************************************************************************)
EXTENDS Automations, MCPlaybook

VARIABLE part

serviceVars == <<apiVars, walkVars, part>>

ServiceInit ==
  /\ part \in {"api", "walk"}
  /\ ApiInit /\ WalkInit
  /\ part = "api" => kind = CHOOSE k \in Typing : TRUE

ServiceNext ==
  \/ part = "api" /\ ApiNext /\ UNCHANGED <<walkVars, part>>
  \/ part = "walk" /\ WalkNext /\ UNCHANGED <<apiVars, part>>

(* In its initial state neither part has anything to go on with.           *)
ServiceFairSpec ==
  /\ ServiceInit /\ [][ServiceNext]_serviceVars
  /\ WF_apiVars(CronTurn) /\ WF_apiVars(ApiStep(Cron))
  /\ WF_walkVars(WalkStep)
=============================================================================
