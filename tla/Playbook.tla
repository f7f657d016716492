------------------------------- MODULE Playbook -------------------------------
(***************************************************************************)
(* What one walk over a workflow does to the outside (automation-service,  *)
(* main.py): execute_node with its dry run and its retries, the calls each *)
(* kind of node makes and the result it reports, try/catch scopes,         *)
(* sub-workflows within the walk, pauses and resumptions.                  *)
(*                                                                         *)
(* WorkflowEngine has the transactions that contend for the rows; here one *)
(* transaction runs at a time and what matters is the order of the calls,  *)
(* and what becomes of a call that is refused or whose answer is lost.     *)
(***************************************************************************)
EXTENDS AutomationService, Integers, Sequences, FiniteSets, SequencesExt

CONSTANTS
  Workflow, WfNode,
  Of,          \* Of[n]: the workflow node n belongs to
  Typing,      \* the node types the nodes may have: a set of functions
  Edge,        \* edges [from, to, on]; on is the branch of the condition
  Retry,       \* retry_count of each node
  OnError,     \* error_handling: "stop" or "continue"
  Calls,       \* Calls[n]: the workflow a sub_workflow node n names
  MaxDepth,    \* sub-workflow depth (5 in the code)
  MaxExec,     \* bound on executions: a walk begins when its own and its
               \* sub-workflows' fit
  MaxErrors    \* bound on calls that fail

-----------------------------------------------------------------------------
(* The kinds of nodes, by what they do to the outside.                     *)

(* side_effect_types: what a dry run skips.                                *)
SideEffects == {"change_status", "add_comment", "assign_incident", "add_tags",
  "escalate_incident", "create_incident", "update_incident", "close_incident",
  "send_email", "send_notification", "http_request", "virustotal_lookup",
  "abuseipdb_check", "whois_lookup", "dns_resolve", "geoip_lookup", "approval_gate",
  "wait_for_event", "sub_workflow"}

Local == {"trigger", "set_variable", "log", "delay", "merge", "loop", "regex_extract",
          "json_parse", "math_expression", "text_template", "array_filter",
          "extract_iocs"}
Branching == {"if_condition", "switch"}
Lookups == {"virustotal_lookup", "abuseipdb_check", "whois_lookup", "dns_resolve",
            "geoip_lookup", "get_incident", "search_incidents"}
DeskReads == {"freshdesk_get_ticket", "freshdesk_list_tickets", "onedesk_get_item",
              "onedesk_list_items"}
(* One call to the incident service, or to any URL, whose result is only   *)
(* copied into the output.                                                 *)
Quiet == {"add_comment", "change_status", "assign_incident", "add_tags",
          "create_incident", "update_incident", "http_request"}
FreshdeskWrites == {"freshdesk_create_ticket", "freshdesk_update_ticket",
                    "freshdesk_add_note"}
OnedeskWrites == {"onedesk_create_item", "onedesk_update_item", "onedesk_add_comment"}
DeskWrites == FreshdeskWrites \cup OnedeskWrites
Pauses == {"approval_gate", "wait_for_event"}

Writes == Quiet \cup DeskWrites
          \cup {"close_incident", "escalate_incident", "send_notification", "send_email"}
Reads == Lookups \cup DeskReads
NodeTypes == Local \cup Branching \cup Reads \cup Writes \cup Pauses
         \cup {"sub_workflow", "try_catch", "stop"}

(* What becomes of an execution.                                           *)
Ends == {"running", "waiting", "success", "failed", "rejected"}

ASSUME WalkAssumption ==
  /\ IsFiniteSet(WfNode) /\ Typing \subseteq [WfNode -> NodeTypes]
  /\ Calls \in [WfNode -> Workflow] /\ \A d \in Edge : d.to \in WfNode
  /\ MaxDepth \in Nat
ASSUME WalkNoneAssumption == None \notin WfNode \cup Ends

(* A call is answered, refused (HTTP 400 or more, or by the mail server),  *)
(* never arrives, or is carried out and its answer is lost.                *)
Outcomes == {"ok", "refused", "down", "lost"}
Raises(o) == o \in {"down", "lost"}

(* What the i-th call of a node with outcome o leads to: the node's        *)
(* result, or its next call.                                               *)
QuietResult(o) == "success"
LookupResult(o) == "success"
CloseResult(i, o) == IF i = 1 /\ ~Raises(o) THEN "next" ELSE "success"
EscalateResult(i, o) ==
  IF Raises(o) THEN "error" ELSE IF i = 1 /\ o = "ok" THEN "next" ELSE "success"
NotifyResult(i, o) ==
  IF i = 2 THEN "success" ELSE IF Raises(o) THEN "error" ELSE "next"
MailResult(o) == IF o = "ok" THEN "success" ELSE "error"
FreshdeskResult(o) == IF o = "ok" THEN "success" ELSE "failed"
OnedeskResult(o) == IF o = "ok" THEN "success" ELSE "failed"

Result(k, i, o) ==
  CASE k \in Reads -> LookupResult(o)
    [] k \in Quiet -> QuietResult(o)
    [] k = "close_incident" -> CloseResult(i, o)
    [] k = "escalate_incident" -> EscalateResult(i, o)
    [] k = "send_notification" -> NotifyResult(i, o)
    [] k = "send_email" -> MailResult(o)
    [] k \in FreshdeskWrites -> FreshdeskResult(o)
    [] k \in OnedeskWrites -> OnedeskResult(o)

-----------------------------------------------------------------------------
VARIABLES
  kind,      \* kind[n]: type of node n
  runs,      \* executions, in the order they were created
  stack,     \* walks in progress: the innermost sub-workflow first
  done,      \* calls carried out: execution, node, number of the call
  repeated,  \* calls carried out more than once
  unsure,    \* calls whose answer was lost
  errors

walkVars == <<kind, runs, stack, done, repeated, unsure, errors>>
calls == <<done, repeated, unsure, errors>>

(* Where a walk begins: without triggers, at the nodes no edge leads to.   *)
Triggers(w) ==
  LET own == {n \in WfNode : Of[n] = w}
      T == {n \in own : kind[n] = "trigger"} IN
  IF T # {} THEN T ELSE {n \in own : \A d \in Edge : d.to # n}

(* The edges' targets in some order: the query that loads them has none.   *)
Orders(S) == SetToSeqs(S)

(* Mutant: the dry run is not put into the context.                        *)
FrameLive(e, queue, visited, depth, dry, saved) ==
  [exec |-> e, queue |-> queue, visited |-> visited, catches |-> <<>>, node |-> None,
   attempt |-> 0, call |-> 1, depth |-> depth, dry |-> FALSE, saved |-> saved,
   result |-> None]

Frame(e, queue, visited, depth, dry, saved) ==
  [exec |-> e, queue |-> queue, visited |-> visited, catches |-> <<>>, node |-> None,
   attempt |-> 0, call |-> 1, depth |-> depth, dry |-> dry, saved |-> saved,
   result |-> None]

WalkInit ==
  /\ kind \in Typing
  /\ runs = <<>> /\ stack = <<>>
  /\ done = {} /\ repeated = {} /\ unsure = {} /\ errors = 0

Top == Head(stack)
Continue(f) == stack' = <<f>> \o Tail(stack)

(* above is history: the executions it was started in.                     *)
NewRow(w, dry, above) ==
  [wf |-> w, dry |-> dry, above |-> above, resumed |-> FALSE, again |-> FALSE,
   status |-> "running", at |-> None, saved |-> FALSE, visited |-> {}]

(* run_workflow of a trigger, a user, a schedule: the triggers come first. *)
StartRun(w, dry) ==
  /\ stack = <<>> /\ Len(runs) + MaxDepth < MaxExec
  /\ runs' = Append(runs, NewRow(w, dry, {}))
  /\ \E q \in Orders(Triggers(w)) :
       stack' = <<Frame(Len(runs) + 1, q, {}, 0, dry, TRUE)>>
  /\ UNCHANGED <<kind, calls>>

(* Mutant: the visited nodes are not looked at.                            *)
UnseenNever(f, n) == TRUE

Unseen(f, n) == n \notin f.visited

(* The edges of node n that a result with this branch follows: a result    *)
(* without a branch follows them all.                                      *)
Targets(n, branch) ==
  {d.to : d \in {c \in Edge : c.from = n /\ (branch = None \/ c.on \in {None, branch})}}

-----------------------------------------------------------------------------
(* The walk.                                                               *)

(* The walk of the top frame ends with this row; a sub-workflow's caller   *)
(* is told its status.                                                     *)
End(row) ==
  /\ runs' = [runs EXCEPT ![Top.exec] = row]
  /\ stack' = IF Len(stack) = 1 THEN <<>>
              ELSE <<[stack[2] EXCEPT !.result = row.status]>> \o Tail(Tail(stack))

Ended(status) ==
  End([runs[Top.exec] EXCEPT !.status = status, !.visited = Top.visited])

(* queue.pop(0): a visited node is dropped, a try node opens a scope, any  *)
(* other is executed.                                                      *)
Drop ==
  /\ stack # <<>> /\ Top.node = None /\ Top.queue # <<>>
  /\ ~Unseen(Top, Head(Top.queue))
  /\ Continue([Top EXCEPT !.queue = Tail(@)])
  /\ UNCHANGED <<kind, runs, calls>>

Visited(n) == [Top EXCEPT !.queue = Tail(@), !.visited = @ \cup {n}]

Try ==
  LET n == Head(Top.queue) IN
  /\ stack # <<>> /\ Top.node = None /\ Top.queue # <<>>
  /\ Unseen(Top, n) /\ kind[n] = "try_catch" /\ Top.saved
  /\ \E q \in Orders({m \in Targets(n, "try") : Unseen(Visited(n), m)}) :
       Continue([Visited(n) EXCEPT !.queue = @ \o q,
                   !.catches = <<{d.to : d \in {c \in Edge : c.from = n /\ c.on = "catch"}}>> \o @])
  /\ UNCHANGED <<kind, runs, calls>>

Visit ==
  LET n == Head(Top.queue) IN
  /\ stack # <<>> /\ Top.node = None /\ Top.queue # <<>>
  /\ Unseen(Top, n) /\ (kind[n] = "try_catch" => ~Top.saved)
  /\ Continue([Visited(n) EXCEPT !.node = n, !.attempt = 0, !.call = 1])
  /\ UNCHANGED <<kind, runs, calls>>

FinishWalk ==
  /\ stack # <<>> /\ Top.node = None /\ Top.queue = <<>>
  /\ Ended("success")
  /\ UNCHANGED <<kind, calls>>

(* execute_node returned: a failure is retried, handled or ends the walk.  *)
Leave(f) == [f EXCEPT !.node = None, !.result = None]

Settle(result, branch) ==
  LET n == Top.node
      f == Leave(Top) IN
  IF result = "failed" /\ Top.attempt < Retry[n]
  THEN /\ Continue([Top EXCEPT !.attempt = @ + 1, !.call = 1, !.result = None])
       /\ UNCHANGED runs
  ELSE IF ~Top.saved THEN Ended("failed")
  ELSE IF result = "failed" /\ OnError[n] # "continue"
  THEN IF f.catches = <<>> THEN Ended("failed")
       ELSE /\ \E q \in Orders({m \in Head(f.catches) : Unseen(f, m)}) :
                 Continue([f EXCEPT !.catches = Tail(@), !.queue = @ \o q])
            /\ UNCHANGED runs
  ELSE IF kind[n] = "stop" THEN Ended("success")
  ELSE /\ \E q \in Orders({m \in Targets(n, branch) : Unseen(f, m)}) :
            Continue([f EXCEPT !.queue = @ \o q])
       /\ UNCHANGED runs

-----------------------------------------------------------------------------
(* The nodes.                                                              *)

Executing(S) == stack # <<>> /\ Top.node # None /\ kind[Top.node] \in S
Skipped == Top.dry /\ kind[Top.node] \in SideEffects

SkipDry ==
  /\ Executing(NodeTypes) /\ Skipped /\ Top.result = None
  /\ Settle("skipped_dry_run", None)
  /\ UNCHANGED <<kind, calls>>

(* Nodes that only compute: a bad configuration raises.                    *)
Compute ==
  /\ Executing(Local \cup {"stop", "try_catch"})
  /\ \/ Settle("success", None) /\ UNCHANGED errors
     \/ errors < MaxErrors /\ errors' = errors + 1 /\ Settle("failed", None)
  /\ UNCHANGED <<kind, done, repeated, unsure>>

Branch ==
  /\ Executing(Branching)
  /\ \E b \in {"true", "false"} : Settle("success", b)
  /\ UNCHANGED <<kind, calls>>

Carried(o) == o \in {"ok", "lost"}

(* A call of the node, and what its outcome leads to.                      *)
Call(o) ==
  LET n == Top.node
      c == <<Top.exec, n, Top.call>>
      r == Result(kind[n], Top.call, o) IN
  /\ Executing(Reads \cup Writes) /\ ~Skipped
  /\ o = "ok" \/ errors < MaxErrors
  /\ errors' = IF o = "ok" THEN errors ELSE errors + 1
  /\ done' = IF kind[n] \in Writes /\ Carried(o) THEN done \cup {c} ELSE done
  /\ repeated' = IF kind[n] \in Writes /\ Carried(o) /\ c \in done
                 THEN repeated \cup {c} ELSE repeated
  /\ unsure' = IF o = "lost" THEN unsure \cup {c} ELSE unsure
  /\ IF r = "next" THEN Continue([Top EXCEPT !.call = @ + 1]) /\ UNCHANGED runs
     ELSE Settle(r, None)
  /\ UNCHANGED kind

(* approval_gate, wait_for_event: the place is saved; the scopes opened by *)
(* try nodes, the depth and the rest of the queue are not.                 *)
PauseWalk ==
  /\ Executing(Pauses) /\ ~Skipped
  /\ IF Top.saved
     THEN End([runs[Top.exec] EXCEPT !.status = "waiting", !.at = Top.node, !.saved = TRUE,
                                     !.visited = Top.visited])
     ELSE Ended("failed")
  /\ UNCHANGED <<kind, calls>>

(* Mutant: the depth is the caller's.                                      *)
InnerSameDepth(f) == f.depth

Inner(f) == f.depth + 1

(* sub_workflow: run_workflow within the walk.                             *)
EnterSub ==
  /\ Executing({"sub_workflow"}) /\ ~Skipped /\ Top.result = None
  /\ Top.depth < MaxDepth
  /\ runs' = Append(runs, NewRow(Calls[Top.node], FALSE, runs[Top.exec].above \cup {Top.exec}))
  /\ \E q \in Orders(Triggers(Calls[Top.node])) :
       stack' = <<Frame(Len(runs) + 1, q, {}, Inner(Top), FALSE, TRUE)>> \o stack
  /\ UNCHANGED <<kind, calls>>

TooDeep ==
  /\ Executing({"sub_workflow"}) /\ ~Skipped /\ Top.result = None
  /\ Top.depth >= MaxDepth
  /\ Settle("failed", None)
  /\ UNCHANGED <<kind, calls>>

SubStatus(r) == IF r = "failed" THEN "failed" ELSE "success"

(* The sub-workflow is over, or it waits: only a failure counts.           *)
LeaveSub ==
  /\ Executing({"sub_workflow"}) /\ Top.result # None
  /\ Settle(SubStatus(Top.result), None)
  /\ UNCHANGED <<kind, calls>>

-----------------------------------------------------------------------------
(* Mutant: the visited nodes are not restored.                             *)
RestoredNone(row) == {}

Restored(row) == row.visited

(* An answer, an event or a user resumes an execution, whatever its state: *)
(* it goes on behind the node it paused at, from the triggers when there   *)
(* is none.  One that never paused has no context, and its first node      *)
(* raises (context["nodes"]).                                              *)
ResumeRun(e) ==
  LET row == runs[e] IN
  /\ stack = <<>> /\ Len(runs) + MaxDepth <= MaxExec
  /\ runs' = [runs EXCEPT ![e].status = "running", ![e].at = None, ![e].resumed = TRUE,
                          ![e].again = @ \/ row.status # "waiting"]
  /\ IF row.at # None
     THEN \E q \in Orders(Targets(row.at, None)) :
            stack' = <<Frame(e, q, Restored(row), 0, FALSE, row.saved)>>
     ELSE \E q \in Orders(Triggers(row.wf)) :
            stack' = <<Frame(e, q, {}, 0, FALSE, row.saved)>>
  /\ UNCHANGED <<kind, calls>>

RejectRun(e) ==
  /\ stack = <<>> /\ runs[e].status = "waiting"
  /\ runs' = [runs EXCEPT ![e].status = "rejected"]
  /\ UNCHANGED <<kind, stack, calls>>

-----------------------------------------------------------------------------
WalkStep ==
  \/ Drop \/ Try \/ Visit \/ FinishWalk
  \/ SkipDry \/ Compute \/ Branch
  \/ \E o \in Outcomes : Call(o)
  \/ PauseWalk \/ EnterSub \/ TooDeep \/ LeaveSub

WalkNext ==
  \/ \E w \in Workflow, dry \in BOOLEAN : StartRun(w, dry)
  \/ WalkStep
  \/ \E e \in DOMAIN runs : ResumeRun(e) \/ RejectRun(e)

WalkSpec == WalkInit /\ [][WalkNext]_walkVars
(* Every call has a timeout, and the walk goes on after it.                *)
WalkFairSpec == WalkSpec /\ WF_walkVars(WalkStep)

-----------------------------------------------------------------------------
RunRow == [wf : Workflow, dry : BOOLEAN, above : SUBSET Nat, resumed : BOOLEAN,
           again : BOOLEAN, status : Ends, at : WfNode \cup {None}, saved : BOOLEAN,
           visited : SUBSET WfNode]
FrameRow == [exec : Nat, queue : Seq(WfNode), visited : SUBSET WfNode,
             catches : Seq(SUBSET WfNode), node : WfNode \cup {None}, attempt : Nat,
             call : Nat, depth : Nat, dry : BOOLEAN, saved : BOOLEAN,
             result : Ends \cup {None}]
WalkTypeOK ==
  /\ kind \in [WfNode -> NodeTypes]
  /\ runs \in Seq(RunRow) /\ stack \in Seq(FrameRow)
  /\ done \subseteq (DOMAIN runs) \X WfNode \X Nat
  /\ repeated \subseteq done /\ unsure \subseteq (DOMAIN runs) \X WfNode \X Nat
  /\ errors \in Nat

(* "Execute without side effects" (AUTOMATION_BUILDER.md:675): nothing a   *)
(* walk carries out belongs to a dry run nobody resumed.  The code breaks  *)
(* it at the ticket desks, whose nodes side_effect_types does not name     *)
(* (main.py:146-153).                                                      *)
DryRunHasNoEffect == \A c \in done : runs[c[1]].dry => runs[c[1]].resumed

(* How far it is broken: a dry run carries nothing out and starts no       *)
(* sub-workflow but at the ticket desks, and but for the node it begins    *)
(* with when somebody resumes it, as a resumption knows of no dry run      *)
(* (main.py:147-153, 1559-1570).                                           *)
Restarted(e, n) == runs[e].again /\ n \in Triggers(runs[e].wf)
DryRunTouchesOnlyDesks ==
  /\ \A c \in done : runs[c[1]].dry => kind[c[2]] \in DeskWrites \/ Restarted(c[1], c[2])
  /\ \A e \in DOMAIN runs : \A a \in runs[e].above : runs[a].dry => runs[a].again

(* A call is carried out twice for one execution only if its answer was    *)
(* lost and the node retried, or somebody resumed an execution that was    *)
(* not waiting: neither a cycle in the graph nor an approval replays what  *)
(* was done (main.py:174-193, 1578-1596).                                  *)
RepeatNeedsLostAnswer ==
  \A c \in repeated : c \in unsure \/ runs[c[1]].again

(* Sub-workflows are nested deeper than the limit only below an execution  *)
(* that was resumed: a pause does not save the depth (main.py:518-523,     *)
(* 1625-1626).                                                             *)
ChainNeedsPause ==
  \A e \in DOMAIN runs : Cardinality(runs[e].above) > MaxDepth =>
    \E a \in runs[e].above : runs[a].resumed

(* Every walk ends or pauses, whatever the graph: over cycles, through     *)
(* sub-workflows that call each other, with calls that fail.               *)
RunEnds == stack # <<>> ~> stack = <<>>
=============================================================================
