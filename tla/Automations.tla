----------------------------- MODULE Automations -----------------------------
(***************************************************************************)
(* The workflows of the automation service (automation-service, main.py)   *)
(* and who starts them: the API that creates, saves, clones, publishes,    *)
(* pauses and deletes them, the trigger evaluator, the cron evaluator, the *)
(* webhooks and users.                                                     *)
(*                                                                         *)
(* A workflow is a row and its rows of nodes and of edges; every request   *)
(* and every turn of an evaluator is one transaction of several            *)
(* statements.  At READ COMMITTED each statement sees what is committed    *)
(* when it begins; an UPDATE or DELETE that meets rows another transaction *)
(* has written waits for it, then finds the rows it saw changed or gone,   *)
(* and never the rows inserted in the meantime.  What an execution does    *)
(* is in WorkflowEngine and Playbook; here a run is one step.              *)
(***************************************************************************)
EXTENDS AutomationService, Integers, Sequences, FiniteSets, SequencesExt

CONSTANTS
  Caller,       \* requests in progress
  Listener,     \* the trigger evaluator's task
  Wf,           \* workflow ids
  Existing,     \* those that exist at first, published
  Cron,         \* the cron evaluator's task
  Sched,        \* schedule ids
  Batch,        \* due schedules of one turn (LIMIT 10)
  MaxEdits,     \* bound on versions of graphs
  MaxRequests   \* bound on requests and events

Session == Caller \cup {Listener, Cron}
Statuses == {"draft", "active", "paused", "archived"}

(* workflows, workflow_nodes and workflow_edges: rows by the save that     *)
(* inserted them.                                                          *)
WfRow == [status : Statuses, nodes : SUBSET Nat, edges : SUBSET Nat]
SchedRow == [wf : Wf, due : BOOLEAN]

ASSUME ApiFiniteAssumption == IsFiniteSet(Wf) /\ IsFiniteSet(Sched) /\ Existing \subseteq Wf
ASSUME ApiNoneAssumption == None \notin WfRow \cup SchedRow \cup Statuses \cup Wf

VARIABLES
  wf,        \* wf[w]: committed workflow
  sched,     \* sched[s]: committed schedule
  session,   \* session[t]: the transaction
  edits,     \* versions of graphs so far
  mixed,     \* mixed[w]: a delete or a copy of w met a save
  requests

apiVars == <<wf, sched, session, edits, mixed, requests>>

(* steps: statements to come; held: locks as <<table, workflow>>; new: what
   the transaction wrote; snap: the rows a waiting DELETE saw; met: another
   transaction changed what this one had read or waits for.               *)
IdleSession == [kind |-> "idle", steps |-> <<>>, held |-> {}, w |-> None, edit |-> 0,
                status |-> None, goneNodes |-> {}, goneEdges |-> {}, snap |-> None,
                nodes |-> {}, edges |-> {}, met |-> FALSE, late |-> {}, advanced |-> {}]

ApiInit ==
  /\ wf = [w \in Wf |-> IF w \in Existing
             THEN [status |-> "active", nodes |-> {1}, edges |-> {1}] ELSE None]
  /\ sched = [s \in Sched |-> None]
  /\ session = [t \in Session |-> IdleSession]
  /\ edits = 1
  /\ mixed = [w \in Wf |-> FALSE]
  /\ requests = 0

Exists(w) == w # None /\ wf[w] # None

Opens(t, r) ==
  /\ session[t].kind = "idle"
  /\ requests < MaxRequests /\ requests' = requests + 1
  /\ session' = [session EXCEPT ![t] = r]
  /\ UNCHANGED <<wf, sched, mixed>>

-----------------------------------------------------------------------------
(* The API.                                                                *)

(* create_workflow, use_template: a new draft and its rows at once.        *)
Create(t, w) ==
  /\ session[t].kind = "idle" /\ requests < MaxRequests /\ requests' = requests + 1
  /\ wf[w] = None /\ edits < MaxEdits
  /\ \A u \in Session : session[u].kind = "clone" => session[u].w # w
  /\ edits' = edits + 1
  /\ wf' = [wf EXCEPT ![w] = [status |-> "draft", nodes |-> {edits + 1},
                              edges |-> {edits + 1}]]
  /\ UNCHANGED <<sched, session, mixed>>

(* Mutant: the row of the workflow is written last.                        *)
SaveStepsRowLast(w) == <<<<"deleteNodes", w>>, <<"deleteEdges", w>>, <<"row", w>>>>

(* update_workflow, as the builder calls it: with the nodes and the edges. *)
SaveSteps(w) == <<<<"row", w>>, <<"deleteNodes", w>>, <<"deleteEdges", w>>>>

Save(t, w) ==
  /\ Exists(w) /\ edits < MaxEdits /\ edits' = edits + 1
  /\ Opens(t, [IdleSession EXCEPT !.kind = "save", !.w = w, !.edit = edits + 1,
                                   !.steps = SaveSteps(w)])

(* delete_workflow                                                         *)
Delete(t, w) ==
  /\ Opens(t, [IdleSession EXCEPT !.kind = "delete", !.w = w, !.status = "archived",
                  !.steps = <<<<"deleteEdges", w>>, <<"deleteNodes", w>>, <<"row", w>>>>])
  /\ Exists(w) /\ UNCHANGED edits

(* publish_workflow, pause_workflow: whatever the status is.               *)
SetStatus(t, w, s) ==
  /\ Exists(w)
  /\ Opens(t, [IdleSession EXCEPT !.kind = "status", !.w = w, !.status = s,
                                   !.steps = <<<<"row", w>>>>])
  /\ UNCHANGED edits

Load(w) == <<<<"readNodes", w>>, <<"readEdges", w>>>>

(* clone_workflow: _load_full_workflow of from, then a draft to.           *)
Clone(t, from, to) ==
  /\ Exists(from) /\ wf[to] = None
  /\ \A u \in Session : session[u].kind = "clone" => session[u].w # to
  /\ Opens(t, [IdleSession EXCEPT !.kind = "clone", !.w = to, !.steps = Load(from)])
  /\ UNCHANGED edits

CreateSchedule(w, s) ==
  /\ sched[s] = None /\ Exists(w)
  /\ \A i \in DOMAIN session[Cron].steps : session[Cron].steps[i][2] # s
  /\ requests < MaxRequests /\ requests' = requests + 1
  /\ sched' = [sched EXCEPT ![s] = [wf |-> w, due |-> FALSE]]
  /\ UNCHANGED <<wf, session, edits, mixed>>

(* The row is locked by a turn of the cron evaluator that has advanced it. *)
DeleteSchedule(s) ==
  /\ sched[s] # None /\ s \notin session[Cron].advanced
  /\ requests < MaxRequests /\ requests' = requests + 1
  /\ sched' = [sched EXCEPT ![s] = None]
  /\ UNCHANGED <<wf, session, edits, mixed>>

-----------------------------------------------------------------------------
(* Starters.                                                               *)

(* Mutant: the status is not looked at.                                    *)
StartableAny(w) == Exists(w)

(* w.status = 'active' in the query of the trigger evaluator, of the cron  *)
(* evaluator and in webhook_trigger.                                       *)
Startable(w) == Exists(w) /\ wf[w].status = "active"

RunSteps(w) == Append(Load(w), <<"run", w>>)

(* The programs of the items of a list, one after another.                 *)
Programs(list, P(_)) ==
  LET n == Len(P(list[1])) IN
  [k \in 1 .. n * Len(list) |-> P(list[((k - 1) \div n) + 1])[((k - 1) % n) + 1]]

(* trigger_evaluator: the active workflows with a trigger for the event,   *)
(* one after another.                                                      *)
EventTurn ==
  /\ \E list \in SetToSeqs({w \in Wf : Startable(w) /\ wf[w].nodes # {}}) :
       /\ list # <<>>
       /\ Opens(Listener, [IdleSession EXCEPT !.kind = "fire",
                              !.steps = Programs(list, RunSteps)])
  /\ UNCHANGED edits

(* webhook_trigger                                                         *)
Webhook(t, w) ==
  /\ Startable(w)
  /\ Opens(t, [IdleSession EXCEPT !.kind = "fire", !.steps = RunSteps(w)])
  /\ UNCHANGED edits

(* manual_execute: a draft, a paused or an archived workflow as well.      *)
Execute(t, w) ==
  /\ Exists(w)
  /\ Opens(t, [IdleSession EXCEPT !.kind = "manual", !.steps = RunSteps(w)])
  /\ UNCHANGED edits

CronSteps(s) == Append(RunSteps(sched[s].wf), <<"advance", s>>)

Due(s) == sched[s] # None /\ sched[s].due /\ Startable(sched[s].wf)

(* cron_evaluator: some of the due schedules, in no order: the query has a *)
(* LIMIT and no ORDER BY.                                                  *)
AllDue == {s \in Sched : Due(s)}
CronTurn ==
  /\ session[Cron].kind = "idle"
  /\ \E S \in SUBSET AllDue :
       /\ S # {} /\ Cardinality(S) <= Batch
       /\ Cardinality(S) < Batch => S = AllDue
       /\ \E list \in SetToSeqs(S) :
            session' = [session EXCEPT ![Cron] =
              [IdleSession EXCEPT !.kind = "fire", !.steps = Programs(list, CronSteps)]]
  /\ UNCHANGED <<wf, sched, edits, mixed, requests>>

(* Mutant: an exception ends the turn.                                     *)
CronSkipsRest(s) ==
  /\ \E i \in DOMAIN session[Cron].steps :
       /\ session[Cron].steps[i] = <<"advance", s>>
       /\ \A j \in 1 .. i - 1 : session[Cron].steps[j][1] # "advance"
  /\ session' = [session EXCEPT ![Cron].steps = <<>>]
  /\ UNCHANGED <<wf, sched, edits, mixed, requests>>

(* The run of schedule s raises, or its cron expression does: the turn     *)
(* goes on behind it, and s stays due.                                     *)
CronSkips(s) ==
  LET list == session[Cron].steps IN
  /\ \E i \in DOMAIN list :
       /\ list[i] = <<"advance", s>> /\ \A j \in 1 .. i - 1 : list[j][1] # "advance"
       /\ session' = [session EXCEPT ![Cron].steps = SubSeq(list, i + 1, Len(list))]
  /\ UNCHANGED <<wf, sched, edits, mixed, requests>>

(* The next time of the schedule comes, as often as it likes.              *)
Tick(s) ==
  /\ sched[s] # None /\ ~sched[s].due
  /\ sched' = [sched EXCEPT ![s].due = TRUE]
  /\ UNCHANGED <<wf, session, edits, mixed, requests>>

-----------------------------------------------------------------------------
(* Statements.                                                             *)

At(t, op) == session[t].steps # <<>> /\ Head(session[t].steps)[1] = op
On(t) == Head(session[t].steps)[2]
Done(r) == [r EXCEPT !.steps = Tail(@)]

Table(t) == CASE At(t, "row") -> "workflows"
              [] At(t, "deleteNodes") -> "nodes"
              [] At(t, "deleteEdges") -> "edges"
Writing(t) == At(t, "row") \/ At(t, "deleteNodes") \/ At(t, "deleteEdges")

(* The transaction that has written the rows t is about to write.          *)
WaitsFor(t) ==
  IF Writing(t) THEN {u \in Session \ {t} : <<Table(t), On(t)>> \in session[u].held} ELSE {}

(* The rows a DELETE sees.                                                 *)
Rows(t) == IF At(t, "deleteNodes") THEN wf[On(t)].nodes ELSE wf[On(t)].edges

UpdateRow(t) ==
  /\ At(t, "row") /\ WaitsFor(t) = {}
  /\ session' = [session EXCEPT ![t] =
       [Done(session[t]) EXCEPT !.held = @ \cup {<<"workflows", On(t)>>}]]
  /\ UNCHANGED <<wf, sched, edits, mixed, requests>>

(* A DELETE meets rows of another transaction and waits.                   *)
Wait(t) ==
  /\ At(t, "deleteNodes") \/ At(t, "deleteEdges")
  /\ WaitsFor(t) # {} /\ session[t].snap = None
  /\ session' = [session EXCEPT ![t].snap = Rows(t)]
  /\ UNCHANGED <<wf, sched, edits, mixed, requests>>

(* It goes on when they are free: with those of its rows still there.      *)
DeleteRows(t) ==
  LET gone == IF session[t].snap = None THEN Rows(t) ELSE Rows(t) \cap session[t].snap
      lock == IF gone = {} THEN {} ELSE {<<Table(t), On(t)>>}
      r == [Done(session[t]) EXCEPT !.held = @ \cup lock, !.snap = None] IN
  /\ At(t, "deleteNodes") \/ At(t, "deleteEdges")
  /\ WaitsFor(t) = {}
  /\ session' = [session EXCEPT ![t] =
       IF At(t, "deleteNodes") THEN [r EXCEPT !.goneNodes = gone]
                               ELSE [r EXCEPT !.goneEdges = gone]]
  /\ UNCHANGED <<wf, sched, edits, mixed, requests>>

(* _load_full_workflow: one SELECT for the nodes, one for the edges.       *)
ReadNodes(t) ==
  /\ At(t, "readNodes")
  /\ session' = [session EXCEPT ![t] =
       [Done(session[t]) EXCEPT !.nodes = wf[On(t)].nodes, !.met = mixed[On(t)]]]
  /\ UNCHANGED <<wf, sched, edits, mixed, requests>>

ReadEdges(t) ==
  /\ At(t, "readEdges")
  /\ session' = [session EXCEPT ![t] = [Done(session[t]) EXCEPT !.edges = wf[On(t)].edges]]
  /\ UNCHANGED <<wf, sched, edits, mixed, requests>>

(* run_workflow, whose actions are not rolled back.                        *)
Run(t) ==
  /\ At(t, "run")
  /\ session' = [session EXCEPT ![t] = Done(@)]
  /\ UNCHANGED <<wf, sched, edits, mixed, requests>>

(* UPDATE ... SET next_run_at: no row when the schedule was deleted.       *)
Advance(t) ==
  /\ At(t, "advance")
  /\ session' = [session EXCEPT ![t] = [Done(session[t]) EXCEPT
       !.advanced = IF sched[On(t)] # None THEN @ \cup {On(t)} ELSE @]]
  /\ UNCHANGED <<wf, sched, edits, mixed, requests>>

(* The row that t's commit leaves for workflow w.                          *)
Left(t, w) ==
  LET r == session[t] IN
  CASE r.kind = "save" -> [wf[w] EXCEPT !.nodes = (@ \ r.goneNodes) \cup {r.edit},
                                        !.edges = (@ \ r.goneEdges) \cup {r.edit}]
    [] r.kind = "delete" -> [status |-> r.status, nodes |-> wf[w].nodes \ r.goneNodes,
                             edges |-> wf[w].edges \ r.goneEdges]
    [] r.kind = "status" -> [wf[w] EXCEPT !.status = r.status]
    [] r.kind = "clone" -> [status |-> "draft", nodes |-> r.nodes, edges |-> r.edges]

(* u has read the nodes of w and not yet its edges, or it is deleting w.   *)
Meets(u, w) == \/ At(u, "readEdges") /\ On(u) = w
               \/ session[u].kind = "delete" /\ session[u].w = w
ToStart(u) ==
  {session[u].steps[i][2] : i \in {j \in DOMAIN session[u].steps : session[u].steps[j][1] = "run"}}

CommitWf(t) ==
  LET w == session[t].w IN
  /\ session[t].kind \in {"save", "delete", "status", "clone"} /\ session[t].steps = <<>>
  /\ wf' = [wf EXCEPT ![w] = Left(t, w)]
  /\ mixed' = [mixed EXCEPT ![w] =
       CASE session[t].kind = "save" -> FALSE
         [] session[t].kind = "status" -> @
         [] OTHER -> @ \/ session[t].met]
  /\ session' = [u \in Session |-> IF u = t THEN IdleSession ELSE
       [session[u] EXCEPT
          !.met = @ \/ (session[t].kind \in {"save", "delete"} /\ Meets(u, w)),
          !.late = IF session[t].status # None /\ w \in ToStart(u) THEN @ \cup {w} ELSE @]]
  /\ UNCHANGED <<sched, edits, requests>>

CommitRun(t) ==
  /\ session[t].kind \in {"fire", "manual"} /\ session[t].steps = <<>>
  /\ sched' = [s \in Sched |-> IF s \in session[t].advanced THEN [sched[s] EXCEPT !.due = FALSE]
                                                       ELSE sched[s]]
  /\ session' = [session EXCEPT ![t] = IdleSession]
  /\ UNCHANGED <<wf, edits, mixed, requests>>

(* What t wrote is undone; the runs it made are not.                       *)
RollBack(t) ==
  /\ session' = [session EXCEPT ![t] = IdleSession]
  /\ UNCHANGED <<wf, sched, edits, mixed, requests>>

(* A statement fails, which spoils the transaction, or the process dies:   *)
(* any number of times.                                                    *)
Fail(t) ==
  /\ session[t].kind # "idle"
  /\ RollBack(t)

(* PostgreSQL ends one of two transactions that wait for each other.       *)
Deadlock(t) ==
  /\ \E u \in WaitsFor(t) : t \in WaitsFor(u)
  /\ RollBack(t)

-----------------------------------------------------------------------------
ApiStep(t) ==
  \/ UpdateRow(t) \/ Wait(t) \/ DeleteRows(t)
  \/ ReadNodes(t) \/ ReadEdges(t) \/ Run(t) \/ Advance(t)
  \/ CommitWf(t) \/ CommitRun(t) \/ Deadlock(t)

ApiNext ==
  \/ \E t \in Caller, w \in Wf :
       \/ Create(t, w) \/ Save(t, w) \/ Delete(t, w)
       \/ \E s \in {"active", "paused"} : SetStatus(t, w, s)
       \/ \E to \in Wf : Clone(t, w, to)
       \/ Webhook(t, w) \/ Execute(t, w)
  \/ \E w \in Wf, s \in Sched : CreateSchedule(w, s)
  \/ \E s \in Sched : DeleteSchedule(s) \/ Tick(s) \/ CronSkips(s)
  \/ EventTurn \/ CronTurn
  \/ \E t \in Session : ApiStep(t) \/ Fail(t)

ApiSpec == ApiInit /\ [][ApiNext]_apiVars

(* The cron evaluator looks every 30 s, and its transaction goes on: it    *)
(* waits for nobody.                                                       *)
ApiFairSpec == ApiSpec /\ WF_apiVars(CronTurn) /\ WF_apiVars(ApiStep(Cron))

-----------------------------------------------------------------------------
Stmt == ({"row", "deleteNodes", "deleteEdges", "readNodes", "readEdges", "run"} \X Wf)
        \cup ({"advance"} \X Sched)
SessionRow == [kind : {"idle", "save", "delete", "status", "clone", "fire", "manual"},
          steps : Seq(Stmt), held : SUBSET ({"workflows", "nodes", "edges"} \X Wf),
          w : Wf \cup {None}, edit : Nat, status : Statuses \cup {None},
          goneNodes : SUBSET Nat, goneEdges : SUBSET Nat, snap : (SUBSET Nat) \cup {None},
          nodes : SUBSET Nat, edges : SUBSET Nat, met : BOOLEAN,
          late : SUBSET Wf, advanced : SUBSET Sched]
ApiTypeOK ==
  /\ wf \in [Wf -> WfRow \cup {None}]
  /\ sched \in [Sched -> SchedRow \cup {None}]
  /\ session \in [Session -> SessionRow]
  /\ edits \in Nat
  /\ mixed \in [Wf -> BOOLEAN]

(* The nodes and the edges of a workflow are those of one save, however    *)
(* many save at once, unless a save commits while a deletion or a copy of  *)
(* the workflow is under way (main.py:2538-2617, 2636-2690).               *)
GraphIsWhole ==
  \A w \in Wf : wf[w] # None /\ ~mixed[w] =>
    wf[w].nodes = wf[w].edges /\ Cardinality(wf[w].nodes) <= 1

(* A run walks over the nodes and edges of one save, unless a save or a    *)
(* deletion commits between the two queries that load them                 *)
(* (main.py:1887-1903).                                                    *)
RunIsOfOneGraph ==
  [][\A t \in Session : Run(t) => session[t].nodes = session[t].edges \/ session[t].met]_apiVars

(* A workflow that is not active starts by itself only if it was active    *)
(* when its transaction chose it: once a pause or a deletion is seen by a  *)
(* query, nothing starts it (main.py:1808-1827, 1916-1923, 3143-3158).     *)
LateStartNeedsChoice ==
  [][\A t \in Session : Run(t) /\ session[t].kind = "fire" =>
       wf[On(t)].status = "active" \/ On(t) \in session[t].late]_apiVars

(* A due schedule of an active workflow is run and advanced, however often *)
(* schedules fall due and whatever becomes of the others in its turns,     *)
(* unless it raises itself for ever (it is then run again every 30 s), the *)
(* turns fail for ever, or for ever turns begin with more schedules due    *)
(* than LIMIT takes: without ORDER BY the query may pass over the same one *)
(* each time (main.py:1915-1947).                                          *)
DueFires ==
  \A s \in Sched :
    \/ Due(s) ~> ~Due(s)
    \/ []<><<CronSkips(s)>>_apiVars
    \/ []<><<Fail(Cron) /\ ~CommitRun(Cron)>>_apiVars
    \/ []<><<CronTurn /\ Cardinality(AllDue) > Batch>>_apiVars
=============================================================================
