---------------------------- MODULE WorkflowEngine ----------------------------
(***************************************************************************)
(* Executions of the automation service (automation-service, main.py): a   *)
(* workflow is a graph of nodes; run_workflow walks over it, pauses at an  *)
(* approval gate or at a wait for an event, and is resumed by a decision,  *)
(* an event or by hand.                                                    *)
(*                                                                         *)
(* Every request and every event is one database transaction, which spans  *)
(* the whole walk: what it writes is seen by others when it commits, and   *)
(* the rows it wrote are locked until then.  The actions of the nodes      *)
(* (mails, HTTP calls) happen at once and are not rolled back.  PostgreSQL *)
(* runs at READ COMMITTED: a SELECT sees what is committed at that moment  *)
(* and locks nothing, an UPDATE waits for the lock and changes the newest  *)
(* committed row.                                                          *)
(***************************************************************************)
EXTENDS AutomationService, Integers, FiniteSets

CONSTANTS
  Request,           \* requests in progress
  Evaluator,         \* the trigger evaluator's task
  Node, Kind, Succ,  \* the workflow: nodes, their kind, their successors
  Trigger,           \* its trigger nodes
  Exec,              \* executions
  MaxTicket,         \* bound on approval gates and pending events
  MaxInputs,         \* bound on requests and events
  MaxAborts          \* bound on failed transactions

Kinds == {"action", "if", "gate", "wait"}
Tx == Request \cup {Evaluator}
Ticket == 1..MaxTicket

ASSUME WorkflowAssumption ==
  /\ Kind \in [Node -> Kinds]
  /\ Succ \in [Node -> SUBSET Node]
  /\ Trigger \subseteq Node
ASSUME BoundAssumption == MaxTicket \in Nat /\ MaxInputs \in Nat /\ MaxAborts \in Nat
ASSUME EvaluatorAssumption == Evaluator \notin Request

(* workflow_executions; asked is the ticket the pause inserted.            *)
ExecRow == [status : {"running", "waiting_approval", "waiting_event", "success",
                      "failed", "rejected"},
            at : Node \cup {None}, seen : SUBSET Node, asked : Ticket \cup {None}]

(* workflow_approval_gates and workflow_pending_events.                    *)
TicketRow == [exec : Exec, node : Node,
              status : {"pending", "approved", "rejected", "received", "expired"}]

ASSUME NoneAssumption ==
  None \notin ExecRow /\ None \notin TicketRow /\ None \notin Node /\ None \notin Ticket
  /\ None \notin Exec

VARIABLES
  exec,       \* exec[e]: committed row of the execution
  ticket,     \* ticket[k]: committed row of the gate or event
  tx,         \* tx[t]: the transaction, and the rows it wrote
  performed,  \* performed[e][n]: times node n acted for e, up to 2
  redecided,  \* some ticket was decided that was not pending any more
  manual,     \* some execution was resumed by hand
  inputs, aborts

history == <<redecided, manual, inputs, aborts>>
vars == <<exec, ticket, tx, performed, history>>

IdleTx == [pc |-> "idle", answer |-> None, list |-> {}, on |-> None, copy |-> None,
           todo |-> {}, seen |-> {},
           exec |-> [e \in Exec |-> None], ticket |-> [k \in Ticket |-> None]]

Init ==
  /\ exec = [e \in Exec |-> None]
  /\ ticket = [k \in Ticket |-> None]
  /\ tx = [t \in Tx |-> IdleTx]
  /\ performed = [e \in Exec |-> [n \in Node |-> 0]]
  /\ redecided = FALSE /\ manual = FALSE
  /\ inputs = 0 /\ aborts = 0

(* What transaction t reads, and the rows it may write.                    *)
ExecSeen(t, e) == IF tx[t].exec[e] # None THEN tx[t].exec[e] ELSE exec[e]
TicketSeen(t, k) == IF tx[t].ticket[k] # None THEN tx[t].ticket[k] ELSE ticket[k]
ExecFree(t, e) == \A u \in Tx \ {t} : tx[u].exec[e] = None
TicketFree(t, k) == \A u \in Tx \ {t} : tx[u].ticket[k] = None

Begins(t) == tx[t].pc = "idle" /\ inputs < MaxInputs /\ inputs' = inputs + 1

-----------------------------------------------------------------------------
(* Requests and events.                                                    *)

(* A trigger, a schedule, a webhook or a user starts an execution.         *)
Start(t, e) ==
  /\ Begins(t)
  /\ exec[e] = None /\ ExecFree(t, e)
  /\ tx' = [tx EXCEPT ![t] =
       [IdleTx EXCEPT !.pc = "run", !.on = e, !.todo = Trigger,
          !.exec[e] = [status |-> "running", at |-> None, seen |-> {}, asked |-> None]]]
  /\ UNCHANGED <<exec, ticket, performed, redecided, manual, aborts>>

Pending(k, want) ==
  ticket[k] # None /\ ticket[k].status = "pending" /\ Kind[ticket[k].node] = want

(* decide_approval: the gate is read without a lock.                       *)
Decide(t, k, answer) ==
  /\ t # Evaluator
  /\ Begins(t)
  /\ Pending(k, "gate")
  /\ tx' = [tx EXCEPT ![t] = [IdleTx EXCEPT !.pc = "mark", !.list = {k}, !.answer = answer]]
  /\ UNCHANGED <<exec, ticket, performed, redecided, manual, aborts>>

(* trigger_evaluator: an event that some waiting executions match.         *)
Event(L) ==
  /\ Begins(Evaluator)
  /\ L # {} /\ \A k \in L : Pending(k, "wait")
  /\ tx' = [tx EXCEPT ![Evaluator] =
       [IdleTx EXCEPT !.pc = "mark", !.list = L, !.answer = "received"]]
  /\ UNCHANGED <<exec, ticket, performed, redecided, manual, aborts>>

(* resume_execution: whatever state the execution is in.                   *)
ResumeByHand(t, e) ==
  /\ t # Evaluator
  /\ Begins(t)
  /\ exec[e] # None
  /\ tx' = [tx EXCEPT ![t] = [IdleTx EXCEPT !.pc = "read", !.on = e]]
  /\ manual' = TRUE
  /\ UNCHANGED <<exec, ticket, performed, redecided, aborts>>

(* Mutant: the decision is committed before the execution is resumed.      *)
MarkCommitted(t, k) ==
  /\ tx[t].pc = "mark" /\ k \in tx[t].list
  /\ TicketFree(t, k)
  /\ ticket' = [ticket EXCEPT ![k].status = tx[t].answer]
  /\ tx' = [tx EXCEPT ![t].pc = IF tx[t].answer = "rejected" THEN "reject" ELSE "read",
                      ![t].list = @ \ {k}, ![t].on = ticket[k].exec]
  /\ redecided' = (redecided \/ ticket[k].status # "pending")
  /\ UNCHANGED <<exec, performed, manual, inputs, aborts>>

(* UPDATE ... WHERE id: the status is not looked at again.                 *)
Mark(t, k) ==
  /\ tx[t].pc = "mark" /\ k \in tx[t].list
  /\ TicketFree(t, k)
  /\ tx' = [tx EXCEPT ![t].pc = IF tx[t].answer = "rejected" THEN "reject" ELSE "read",
                      ![t].list = @ \ {k},
                      ![t].on = ticket[k].exec,
                      ![t].ticket[k] = [ticket[k] EXCEPT !.status = tx[t].answer]]
  /\ redecided' = (redecided \/ ticket[k].status # "pending")
  /\ UNCHANGED <<exec, ticket, performed, manual, inputs, aborts>>

Reject(t) ==
  LET e == tx[t].on IN
  /\ tx[t].pc = "reject"
  /\ ExecFree(t, e)
  /\ tx' = [tx EXCEPT ![t].pc = "commit",
                      ![t].exec[e] = [ExecSeen(t, e) EXCEPT !.status = "rejected"]]
  /\ UNCHANGED <<exec, ticket, performed, history>>

(* _resume_workflow: the row is read, and locked by the UPDATE after.      *)
Read(t) ==
  /\ tx[t].pc = "read"
  /\ tx' = [tx EXCEPT ![t].pc = "resume", ![t].copy = ExecSeen(t, tx[t].on)]
  /\ UNCHANGED <<exec, ticket, performed, history>>

(* Mutant: the walk begins at the triggers again.                          *)
ResumeFromStart(t) ==
  LET e == tx[t].on IN
  /\ tx[t].pc = "resume"
  /\ ExecFree(t, e)
  /\ tx' = [tx EXCEPT
       ![t].pc = "run", ![t].copy = None, ![t].todo = Trigger, ![t].seen = {},
       ![t].exec[e] = [ExecSeen(t, e) EXCEPT !.status = "running", !.at = None]]
  /\ UNCHANGED <<exec, ticket, performed, history>>

(* Where the copy says it paused; without a node, from the triggers.       *)
Resume(t) ==
  LET e == tx[t].on
      copy == tx[t].copy IN
  /\ tx[t].pc = "resume"
  /\ ExecFree(t, e)
  /\ tx' = [tx EXCEPT
       ![t].pc = "run", ![t].copy = None,
       ![t].todo = IF copy.at = None THEN Trigger ELSE Succ[copy.at] \ copy.seen,
       ![t].seen = IF copy.at = None THEN {} ELSE copy.seen,
       ![t].exec[e] = [ExecSeen(t, e) EXCEPT !.status = "running", !.at = None]]
  /\ UNCHANGED <<exec, ticket, performed, history>>

-----------------------------------------------------------------------------
(* run_workflow.                                                           *)

Runs(t, n) == tx[t].pc = "run" /\ n \in tx[t].todo

(* Mutant: the end of the list is not noticed.                             *)
AfterEndless(t) == "mark"

(* The walk is over: the next event of the list, or the commit.            *)
After(t) == IF tx[t].list # {} THEN "mark" ELSE "commit"

(* An if or a switch follows the edges of one branch, some or none of      *)
(* them; every other node follows all.                                     *)
Branches(n) == IF Kind[n] = "if" THEN SUBSET Succ[n] ELSE {Succ[n]}

Perform(t, n) ==
  /\ Runs(t, n) /\ Kind[n] \in {"action", "if"}
  /\ performed' = [performed EXCEPT ![tx[t].on][n] = IF @ = 2 THEN 2 ELSE @ + 1]
  /\ \E next \in Branches(n) :
       tx' = [tx EXCEPT ![t].seen = @ \cup {n},
                        ![t].todo = (@ \cup next) \ (tx[t].seen \cup {n})]
  /\ UNCHANGED <<exec, ticket, history>>

(* A node fails and its error handling is to stop.                         *)
NodeFails(t, n) ==
  LET e == tx[t].on IN
  /\ Runs(t, n) /\ Kind[n] \in {"action", "if"}
  /\ tx' = [tx EXCEPT ![t].pc = After(t), ![t].todo = {}, ![t].seen = {},
                      ![t].exec[e].status = "failed"]
  /\ UNCHANGED <<exec, ticket, performed, history>>

(* An unused ticket.                                                       *)
Fresh(k) == ticket[k] = None /\ \A u \in Tx : tx[u].ticket[k] = None

(* The gate or the pending event is inserted and the walk stops here: the  *)
(* node and the nodes visited are saved, what else was to do is not.       *)
Pause(t, n) ==
  LET e == tx[t].on IN
  /\ Runs(t, n) /\ Kind[n] \in {"gate", "wait"}
  /\ \E k \in Ticket :
       /\ Fresh(k)
       /\ \A j \in Ticket : Fresh(j) => k <= j
       /\ tx' = [tx EXCEPT
            ![t].pc = After(t), ![t].todo = {}, ![t].seen = {},
            ![t].ticket[k] = [exec |-> e, node |-> n, status |-> "pending"],
            ![t].exec[e] =
              [status |-> IF Kind[n] = "gate" THEN "waiting_approval" ELSE "waiting_event",
               at |-> n, seen |-> tx[t].seen \cup {n}, asked |-> k]]
  /\ UNCHANGED <<exec, ticket, performed, history>>

Finish(t) ==
  LET e == tx[t].on IN
  /\ tx[t].pc = "run" /\ tx[t].todo = {}
  /\ tx' = [tx EXCEPT ![t].pc = After(t), ![t].seen = {},
                      ![t].exec[e].status = "success"]
  /\ UNCHANGED <<exec, ticket, performed, history>>

-----------------------------------------------------------------------------
Commit(t) ==
  /\ tx[t].pc = "commit"
  /\ exec' = [e \in Exec |-> ExecSeen(t, e)]
  /\ ticket' = [k \in Ticket |-> TicketSeen(t, k)]
  /\ tx' = [tx EXCEPT ![t] = IdleTx]
  /\ UNCHANGED <<performed, history>>

(* A statement fails, or the process dies: everything written is undone,   *)
(* the actions of the nodes are not.                                       *)
Abort(t) ==
  /\ tx[t].pc # "idle"
  /\ aborts < MaxAborts
  /\ aborts' = aborts + 1
  /\ tx' = [tx EXCEPT ![t] = IdleTx]
  /\ UNCHANGED <<exec, ticket, performed, redecided, manual, inputs>>

(* cron_evaluator: a gate or an event runs out; the execution stays as it  *)
(* is.                                                                     *)
Expire(k) ==
  /\ ticket[k] # None /\ ticket[k].status = "pending"
  /\ \A t \in Tx : tx[t].ticket[k] = None
  /\ ticket' = [ticket EXCEPT ![k].status = "expired"]
  /\ UNCHANGED <<exec, tx, performed, history>>

-----------------------------------------------------------------------------
Step(t) ==
  \/ \E k \in Ticket : Mark(t, k)
  \/ Reject(t)
  \/ Read(t)
  \/ Resume(t)
  \/ \E n \in Node : Perform(t, n) \/ Pause(t, n)
  \/ Finish(t)
  \/ Commit(t)

Input ==
  \/ \E t \in Tx, e \in Exec : Start(t, e) \/ ResumeByHand(t, e)
  \/ \E t \in Tx, k \in Ticket, a \in {"approved", "rejected"} : Decide(t, k, a)
  \/ \E L \in SUBSET Ticket : Event(L)

Next ==
  \/ Input
  \/ \E t \in Tx : Step(t) \/ Abort(t) \/ \E n \in Node : NodeFails(t, n)
  \/ \E k \in Ticket : Expire(k)

Spec == Init /\ [][Next]_vars

(* A handler that has begun goes on, and PostgreSQL grants a lock that is  *)
(* released.                                                               *)
FairSpec == Spec /\ \A t \in Tx : WF_vars(Step(t))

-----------------------------------------------------------------------------
TxType == [pc : {"idle", "mark", "reject", "read", "resume", "run", "commit"},
           answer : {"approved", "rejected", "received", None},
           list : SUBSET Ticket, on : Exec \cup {None}, copy : ExecRow \cup {None},
           todo : SUBSET Node, seen : SUBSET Node,
           exec : [Exec -> ExecRow \cup {None}],
           ticket : [Ticket -> TicketRow \cup {None}]]

(* Rows and transactions keep their types.                                 *)
TypeOK ==
  /\ exec \in [Exec -> ExecRow \cup {None}]
  /\ ticket \in [Ticket -> TicketRow \cup {None}]
  /\ tx \in [Tx -> TxType]
  /\ performed \in [Exec -> [Node -> 0..2]]
  /\ redecided \in BOOLEAN /\ manual \in BOOLEAN
  /\ inputs \in 0..MaxInputs /\ aborts \in 0..MaxAborts

Waiting == {"waiting_approval", "waiting_event"}

(* Nobody waits for an answer that has been given: an execution that waits *)
(* has asked, for the node it is at, and its ticket is pending or expired. *)
(* The decision and the resumption are committed together                  *)
(* (main.py:3087-3126, 1837-1855).                                         *)
WaitsForAnswer ==
  \A e \in Exec : (exec[e] # None /\ exec[e].status \in Waiting) =>
    /\ exec[e].asked # None /\ ticket[exec[e].asked] # None
    /\ ticket[exec[e].asked].exec = e /\ ticket[exec[e].asked].node = exec[e].at
    /\ ticket[exec[e].asked].status \in {"pending", "expired"}

(* A node acts twice for one execution only if a transaction failed after  *)
(* it acted, somebody resumed by hand, or a ticket was decided that was    *)
(* not pending any more; visited nodes and the saved place see to the rest *)
(* (main.py:1578-1597).                                                    *)
RepeatedActionNeedsCause ==
  (\E e \in Exec, n \in Node : performed[e][n] > 1)
    => aborts > 0 \/ manual \/ redecided

(* Every request and every event is dealt with: no transaction waits for   *)
(* ever for another's locks, and a walk over a cyclic graph ends.          *)
EveryRequestEnds == \A t \in Tx : tx[t].pc # "idle" ~> tx[t].pc = "idle"

(* The gates every path from a trigger to n goes through.                  *)
ReachedWithout(g) ==
  LET r[k \in Nat] ==
        IF k = 0 THEN Trigger \ {g}
        ELSE r[k - 1] \cup UNION {Succ[m] \ {g} : m \in r[k - 1]}
  IN  r[Cardinality(Node)]
GatesBefore(n) == {g \in Node \ {n} : Kind[g] = "gate" /\ n \notin ReachedWithout(g)}

(* AUTOMATION_BUILDER.md:101, "Pause and wait for human approval": as long *)
(* as nobody resumes by hand, a node behind a gate acts only if that gate  *)
(* was approved for the execution.                                         *)
ActsAfterApproval ==
  [][\A t \in Tx, n \in Node : Perform(t, n) /\ ~manual =>
       \A g \in GatesBefore(n) : \E k \in Ticket :
         /\ TicketSeen(t, k) # None
         /\ TicketSeen(t, k).exec = tx[t].on /\ TicketSeen(t, k).node = g
         /\ TicketSeen(t, k).status = "approved"]_vars
=============================================================================
