--------------------------- MODULE AutomationService ---------------------------
(***************************************************************************)
(* What the models of the automation service (automation-service, main.py) *)
(* share: WorkflowEngine has the executions and the transactions that      *)
(* contend for them, Automations the API and the starters, Playbook one    *)
(* walk and what it does to the outside.  The three use different names    *)
(* for their variables and actions, so that one module can state theorems  *)
(* about all of them.                                                      *)
(***************************************************************************)
CONSTANT None
=============================================================================
