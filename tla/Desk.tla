--------------------------------- MODULE Desk ---------------------------------
(***************************************************************************)
(* The incident desk and the outside systems that follow its incidents:    *)
(* manual tickets, status changes, the background tasks that push and      *)
(* update tickets at the help desks (incidents/freshservice.py,            *)
(* freshdesk.py, servicenow.py), the webhooks those send back, comments,   *)
(* and the round trip to the autonomous analysis (incidents/routes.py).    *)
(*                                                                         *)
(* The three connectors are one protocol with different status tables.     *)
(* A task lives in the memory of the process: a crash forgets it.  A step  *)
(* ends where the code commits or waits for a remote answer.  A ticket is  *)
(* the pair <<incident, desk>>, as push_to_* runs once per incident.       *)
(***************************************************************************)
EXTENDS Integers, Sequences, FiniteSets

CONSTANTS
  Incident,     \* manual incidents, by id
  Setups,       \* sets of help desks a tenant may have enabled and complete
  Task,         \* background tasks alive at the same time
  Request,      \* requests for creation or analysis in progress
  AskedStatus,  \* statuses analysts ask for in this instance
  OwnIds,       \* ids analysts give a ticket themselves, as numbers
  DeskMoves,    \* statuses agents of the help desks set
  MaxOps,       \* bound on requests of analysts
  MaxMoves,     \* bound on moves of the help desks' agents
  MaxFaults,    \* bound on failed calls, lost jobs and crashes
  None          \* SQL NULL, no ticket

Closed == {"resolved", "false_positive"}
Status == Closed \cup {"new", "triaging", "ai triaging", "in_progress", "escalated",
                       "sent to customer", "customer response received"}

(* ---- the status tables ------------------------------------------------ *)
STATUS_TO_FS_STATUS == [s \in Status |->
  CASE s \in {"sent to customer", "customer response received"} -> "pending"
    [] s = "resolved" -> "resolved"
    [] s = "false_positive" -> "closed"
    [] OTHER -> "open"]
STATUS_TO_FD_STATUS == STATUS_TO_FS_STATUS
(* Mutant: the customer's answer closes the ServiceNow incident.           *)
STATUS_TO_SN_CLOSING == [s \in Status |->
  CASE s \in {"in_progress", "escalated"} -> "2"
    [] s = "sent to customer" -> "3"
    [] s \in {"resolved", "customer response received"} -> "6"
    [] s = "false_positive" -> "7"
    [] OTHER -> "1"]
STATUS_TO_SN_STATE == [s \in Status |->
  CASE s \in {"in_progress", "escalated", "customer response received"} -> "2"
    [] s = "sent to customer" -> "3"
    [] s = "resolved" -> "6"
    [] s = "false_positive" -> "7"
    [] OTHER -> "1"]
FS_STATUS_TO_SOC == [open |-> "in_progress", pending |-> "sent to customer",
                     resolved |-> "resolved", closed |-> "false_positive"]
FD_STATUS_TO_SOC == FS_STATUS_TO_SOC
SN_STATE_TO_SOC == [s \in {"1", "2", "3", "6", "7", "8"} |->
  CASE s = "1" -> "triaging"
    [] s = "2" -> "in_progress"
    [] s = "3" -> "sent to customer"
    [] s = "6" -> "resolved"
    [] s \in {"7", "8"} -> "false_positive"]

DeskName == {"freshservice", "freshdesk", "servicenow"}
Outward(d) == CASE d = "freshservice" -> STATUS_TO_FS_STATUS
                [] d = "freshdesk" -> STATUS_TO_FD_STATUS
                [] d = "servicenow" -> STATUS_TO_SN_STATE
Inward(d) == CASE d = "freshservice" -> FS_STATUS_TO_SOC
               [] d = "freshdesk" -> FD_STATUS_TO_SOC
               [] d = "servicenow" -> SN_STATE_TO_SOC
Opening(d) == IF d = "servicenow" THEN "1" ELSE "open"
DeskStatus == UNION {DOMAIN Inward(d) : d \in DeskName}

ASSUME IncidentAssumption == IsFiniteSet(Incident) /\ IsFiniteSet(Request)
ASSUME DeskAssumption == Setups \subseteq (SUBSET DeskName) \ {{}}
ASSUME StatusAssumption == AskedStatus \subseteq Status /\ DeskMoves \subseteq DeskStatus
ASSUME IdAssumption == OwnIds \subseteq Nat \ {0}
ASSUME BoundAssumption == {MaxOps, MaxMoves, MaxFaults} \subseteq Nat
ASSUME NoneAssumption == None \notin Status \cup DeskStatus \cup Incident

VARIABLES
  enabled,   \* help desks enabled in integration_configs
  status,    \* incidents.status, None when there is no row
  ticketId,  \* incidents.ticket_id, as a number
  ai,        \* incidents.ai_status
  mapping,   \* mapping[i][d]: the row of integration_ticket_mappings
  ticket,    \* ticket[i][d]: the status of the ticket at the help desk
  task,
  hooks,     \* webhooks the help desks have sent and nobody has answered
  notes,     \* notes analysts have put on tickets
  timeline,  \* notes recorded in incident_email_interactions, by direction
  told,      \* tickets an analyst was told a comment was posted to
  skipped,   \* tickets a comment was not sent to for want of a configuration
  req,
  jobs,      \* jobs[i]: analyses of i the autonomous SOC is working on
  ops, moves, faults,
  ended,     \* incidents an analyst or an agent has closed
  calm,      \* pairs whose last change was an undisturbed analyst's
  refused,   \* incidents that had a report refused or a job lost
  named,     \* incidents whose ticket id an analyst gave
  mixed      \* two counted creations overlapped, or an incident was deleted

talk == <<notes, timeline, told, skipped>>
rowVars == <<status, ticketId, ai>>
deskVars == <<mapping, ticket>>
ghosts == <<ended, calm, refused, named, mixed>>
bounds == <<ops, moves, faults>>
vars == <<enabled, rowVars, deskVars, task, hooks, talk, req, jobs, bounds, ghosts>>

Mapping == {"none", "synced", "error", "kept"}
IdleTask == [kind |-> "idle", inc |-> None, todo |-> <<>>, status |-> None, pc |-> "idle"]
TaskRow ==
  {IdleTask}
  \cup [kind : {"push"}, inc : Incident, todo : Seq(DeskName), status : {None},
        pc : {"post", "map", "stamp", "log"}]
  \cup [kind : {"update"}, inc : Incident, todo : Seq(DeskName), status : Status,
        pc : {"find", "look", "put", "mark"}]
Hook == [inc : Incident, desk : DeskName, status : DeskStatus, note : BOOLEAN]
NoReq == [op |-> "none", inc |-> None, desk |-> None, id |-> 0]
ReqRow ==
  {NoReq}
  \cup [op : {"create", "name"}, inc : {None}, desk : {None}, id : Nat \ {0}]
  \cup [op : {"analyze"}, inc : Incident, desk : {None}, id : Nat]
  \cup [op : {"comment", "record"}, inc : Incident, desk : DeskName, id : {0}]

Exists(i) == status[i] # None
Existing == {i \in Incident : Exists(i)}
(* external_ticket_id is set in a synced row, and in an error row that was *)
(* synced before ("kept").                                                 *)
HasTicketId(i, d) == mapping[i][d] \in {"synced", "kept"}
Busy(i) == \/ \E t \in Task : task[t].inc = i
           \/ \E h \in hooks : h.inc = i
           \/ \E r \in Request : req[r].inc = i /\ req[r].op = "analyze"

(* The desk opens with tickets 1, 2, ... of earlier days; the first may be *)
(* at the enabled help desks already.                                      *)
Init ==
  /\ enabled \in Setups
  /\ \E n \in 0..Cardinality(Incident), pushed \in SUBSET Incident :
       /\ ticketId \in [Incident -> 0..n]
       /\ \A k \in 1..n : \E i \in Incident : ticketId[i] = k
       /\ \A i, j \in Incident : ticketId[i] = ticketId[j] /\ ticketId[i] # 0 => i = j
       /\ \A i \in pushed : ticketId[i] = 1
       /\ status = [i \in Incident |-> CASE ticketId[i] = 0 -> None
                                         [] i \in pushed -> "sent to customer"
                                         [] OTHER -> "new"]
       /\ mapping = [i \in Incident |-> [d \in DeskName |->
                       IF i \in pushed /\ d \in enabled THEN "synced" ELSE "none"]]
       /\ ticket = [i \in Incident |-> [d \in DeskName |->
                      IF i \in pushed /\ d \in enabled THEN Opening(d) ELSE None]]
  /\ ai = [i \in Incident |-> "none"]
  /\ task = [t \in Task |-> IdleTask]
  /\ hooks = {}
  /\ notes = {} /\ timeline = {} /\ told = {} /\ skipped = {}
  /\ req = [r \in Request |-> NoReq]
  /\ jobs = [i \in Incident |-> 0]
  /\ ops = 0 /\ moves = 0 /\ faults = 0
  /\ ended = {} /\ calm = {} /\ refused = {} /\ named = {} /\ mixed = FALSE

Op == ops < MaxOps /\ ops' = ops + 1
Fault == faults < MaxFaults /\ faults' = faults + 1
Free == {t \in Task : task[t].kind = "idle"}
(* asyncio.create_task for each of the rows, in any free slots.            *)
Spawn(rows) ==
  \E s \in {f \in [rows -> Free] : \A x, y \in rows : f[x] = f[y] => x = y} :
    task' = [t \in Task |-> IF \E x \in rows : s[x] = t
                            THEN CHOOSE x \in rows : s[x] = t ELSE task[t]]
Work(t, row) == task' = [task EXCEPT ![t] = row]
Noise(i) == calm' = {c \in calm : c[1] # i}

(* ---- requests of analysts --------------------------------------------- *)
(* Mutant: the count itself is the id of the new ticket.                   *)
CreateCountOld(r) ==
  /\ Op
  /\ req[r] = NoReq
  /\ req' = [req EXCEPT ![r] = [op |-> "create", inc |-> None, desk |-> None,
                                id |-> Cardinality(Existing)]]
  /\ UNCHANGED <<rowVars, deskVars, task, hooks, talk, jobs, moves, faults, ghosts>>
(* create_incident, without an id: ticket_id is COUNT + 1 over the rows    *)
(* that are committed.                                                     *)
CreateCount(r) ==
  /\ Op
  /\ req[r] = NoReq
  /\ req' = [req EXCEPT ![r] = [op |-> "create", inc |-> None, desk |-> None,
                                id |-> Cardinality(Existing) + 1]]
  /\ UNCHANGED <<rowVars, deskVars, task, hooks, talk, jobs, moves, faults, ghosts>>

(* With an id (body.incident_id), which nobody compares with those in use. *)
CreateNamed(r) ==
  /\ Op
  /\ req[r] = NoReq
  /\ \E id \in OwnIds :
       req' = [req EXCEPT ![r] = [op |-> "name", inc |-> None, desk |-> None, id |-> id]]
  /\ UNCHANGED <<rowVars, deskVars, task, hooks, talk, jobs, moves, faults, ghosts>>

PushOf(i, d) == [kind |-> "push", inc |-> i, todo |-> <<d>>, status |-> None, pc |-> "post"]
CreateCommit(r) ==
  /\ req[r].op \in {"create", "name"}
  /\ \E i \in Incident, s \in AskedStatus :
       /\ ~Exists(i) /\ ticketId[i] = 0
       /\ status' = [status EXCEPT ![i] = s]
       /\ ticketId' = [ticketId EXCEPT ![i] = req[r].id]
       /\ named' = IF req[r].op = "name" THEN named \cup {i} ELSE named
       /\ ended' = IF s \in Closed THEN ended \cup {i} ELSE ended
       /\ Spawn({PushOf(i, d) : d \in enabled})
  /\ mixed' = (mixed \/ (req[r].op = "create" /\ \E q \in Request \ {r} : req[q].op = "create"))
  /\ req' = [req EXCEPT ![r] = NoReq]
  /\ UNCHANGED <<ai, deskVars, hooks, talk, jobs, bounds, calm, refused>>

(* What analysts commit, and whether anything else is under way for i.     *)
Commit(i, s) ==
  /\ Exists(i)
  /\ status' = [status EXCEPT ![i] = s]
  /\ ended' = IF s \in Closed THEN ended \cup {i} ELSE ended
  /\ calm' = IF Busy(i) THEN {c \in calm : c[1] # i}
             ELSE calm \cup {<<i, d>> : d \in {e \in enabled : mapping[i][e] = "synced"}}
  /\ UNCHANGED <<ticketId, ai, deskVars, hooks, talk, req, jobs, moves, faults,
                 refused, named, mixed>>

(* update_status starts one task per help desk, patch_incident one task    *)
(* that finds the incident and goes through all of them; each carries the  *)
(* status of its request.                                                  *)
UpdateOf(i, list, s, pc) ==
  [kind |-> "update", inc |-> i, todo |-> list, status |-> s, pc |-> pc]
UpdateStatus(i, s) ==
  /\ Op /\ Commit(i, s)
  /\ Spawn({UpdateOf(i, <<d>>, s, "look") : d \in enabled})
Enabled(d) == IF d \in enabled THEN <<d>> ELSE <<>>
PatchIncident(i, s) ==
  LET all == Enabled("freshservice") \o Enabled("servicenow") \o Enabled("freshdesk") IN
  /\ Op /\ Commit(i, s)
  /\ Spawn({UpdateOf(i, all, s, "find")})

(* A comment goes to the ticket first and to the timeline after, so only   *)
(* what was posted is recorded.                                            *)
CommentLook(r, i) ==
  /\ Op
  /\ req[r] = NoReq /\ Exists(i)
  /\ \E d \in DeskName :
       /\ mapping[i][d] = "synced"
       /\ req' = [req EXCEPT ![r] = [op |-> "comment", inc |-> i, desk |-> d, id |-> 0]]
  /\ UNCHANGED <<rowVars, deskVars, task, hooks, talk, jobs, moves, faults, ghosts>>
CommentPost(r) ==
  /\ req[r].op = "comment"
  /\ notes' = notes \cup {<<req[r].inc, req[r].desk>>}
  /\ req' = [req EXCEPT ![r].op = "record"]
  /\ UNCHANGED <<rowVars, deskVars, task, hooks, timeline, told, skipped, jobs, bounds,
                 ghosts>>
CommentRecord(r) ==
  /\ req[r].op = "record"
  /\ timeline' = timeline \cup {<<req[r].inc, req[r].desk, "outbound">>}
  /\ told' = told \cup {<<req[r].inc, req[r].desk>>}
  /\ req' = [req EXCEPT ![r] = NoReq]
  /\ UNCHANGED <<rowVars, deskVars, task, hooks, notes, skipped, jobs, bounds, ghosts>>
(* Mutant: every connector keeps its failure to itself.                    *)
SwallowsAll == DeskName
(* A failure of Freshservice is answered 500; the other two log it, and    *)
(* the analyst reads "Comment posted to ITSM ticket" all the same.         *)
SwallowsError == {"freshdesk", "servicenow"}
CommentFails(r) ==
  LET c == <<req[r].inc, req[r].desk>> IN
  /\ req[r].op \in {"comment", "record"} /\ Fault
  /\ notes' \in {notes, notes \cup {c}}
  /\ told' = IF req[r].desk \in SwallowsError THEN told \cup {c} ELSE told
  /\ req' = [req EXCEPT ![r] = NoReq]
  /\ UNCHANGED <<rowVars, deskVars, task, hooks, timeline, skipped, jobs, ops, moves,
                 ghosts>>

(* get_integration_config finds none: it cannot be read, or was disabled   *)
(* or emptied since the push.  All three connectors return, and the        *)
(* analyst reads the same.                                                 *)
CommentSkipped(r) ==
  LET c == <<req[r].inc, req[r].desk>> IN
  /\ req[r].op = "comment" /\ Fault
  /\ told' = told \cup {c}
  /\ skipped' = skipped \cup {c}
  /\ req' = [req EXCEPT ![r] = NoReq]
  /\ UNCHANGED <<rowVars, deskVars, task, hooks, notes, timeline, jobs, ops, moves,
                 ghosts>>

(* The mappings, the tickets and a running task survive the incident.      *)
DeleteIncident(i) ==
  /\ Op /\ Exists(i)
  /\ status' = [status EXCEPT ![i] = None]
  /\ ai' = [ai EXCEPT ![i] = "none"]
  /\ mixed' = TRUE
  /\ Noise(i)
  /\ UNCHANGED <<ticketId, deskVars, task, hooks, talk, req, jobs, moves, faults,
                 ended, refused, named>>

(* ---- background tasks: create a ticket -------------------------------- *)
Pushing(t, d, pc) == /\ task[t].kind = "push" /\ task[t].pc = pc
                     /\ Head(task[t].todo) = d
Ticketed(t, d) == ticket' = [ticket EXCEPT ![task[t].inc][d] = Opening(d)]
Mapped(t, d, m) == mapping' = [mapping EXCEPT ![task[t].inc][d] = m]
(* Mutant: every failure claims a ticket id.                               *)
FailedKept(t, d) == Mapped(t, d, "kept")
(* Any exception after the ticket's row was written keeps its ticket id.   *)
Failed(t, d) == Mapped(t, d, IF HasTicketId(task[t].inc, d) THEN "kept" ELSE "error")

Post(t, d) ==
  /\ Pushing(t, d, "post")
  /\ Ticketed(t, d)
  /\ Work(t, [task[t] EXCEPT !.pc = "map"])
  /\ UNCHANGED <<rowVars, mapping, hooks, talk, req, jobs, bounds, ghosts>>
(* There is no configuration any more; or the call fails, or the ticket is *)
(* created and the answer is lost.                                         *)
PostFails(t, d) ==
  /\ Pushing(t, d, "post") /\ Fault
  /\ \/ ticket' = ticket /\ mapping' = mapping
     \/ (ticket' = ticket \/ Ticketed(t, d)) /\ Failed(t, d)
  /\ Work(t, IdleTask)
  /\ UNCHANGED <<rowVars, hooks, talk, req, jobs, ops, moves, ghosts>>
Map(t, d) ==
  /\ Pushing(t, d, "map")
  /\ Mapped(t, d, "synced")
  /\ Work(t, [task[t] EXCEPT !.pc = "stamp"])
  /\ UNCHANGED <<rowVars, ticket, hooks, talk, req, jobs, bounds, ghosts>>
(* The incident becomes 'sent to customer', whatever it has become since.  *)
Stamp(t, d) ==
  /\ Pushing(t, d, "stamp")
  /\ status' = IF Exists(task[t].inc)
               THEN [status EXCEPT ![task[t].inc] = "sent to customer"] ELSE status
  /\ Noise(task[t].inc)
  /\ Work(t, [task[t] EXCEPT !.pc = "log"])
  /\ UNCHANGED <<ticketId, ai, deskVars, hooks, talk, req, jobs, bounds,
                 ended, refused, named, mixed>>
(* A failed update is only logged, and the task goes on.                   *)
StampFails(t, d) ==
  /\ Pushing(t, d, "stamp") /\ Fault
  /\ Work(t, [task[t] EXCEPT !.pc = "log"])
  /\ UNCHANGED <<rowVars, deskVars, hooks, talk, req, jobs, ops, moves, ghosts>>
Log(t, d) ==
  /\ Pushing(t, d, "log")
  /\ Work(t, IdleTask)
  /\ UNCHANGED <<rowVars, deskVars, hooks, talk, req, jobs, bounds, ghosts>>
PushFails(t, d) ==
  /\ \E pc \in {"map", "log"} : Pushing(t, d, pc)
  /\ Fault
  /\ Failed(t, d)
  /\ Work(t, IdleTask)
  /\ UNCHANGED <<rowVars, ticket, hooks, talk, req, jobs, ops, moves, ghosts>>
Push(t, d) == Post(t, d) \/ PostFails(t, d) \/ Map(t, d) \/ Stamp(t, d)
              \/ StampFails(t, d) \/ Log(t, d) \/ PushFails(t, d)
push_to_freshservice(t) == Push(t, "freshservice")
push_to_freshdesk(t) == Push(t, "freshdesk")
push_to_servicenow(t) == Push(t, "servicenow")

(* ---- background tasks: update a ticket -------------------------------- *)
Updating(t, d, pc) == /\ task[t].kind = "update" /\ task[t].pc = pc
                      /\ Head(task[t].todo) = d
(* Mutant: a help desk without a ticket ends the task for all of them.     *)
RestOrStop(row) == IF Len(row.todo) <= 1 \/ row.pc = "look" THEN IdleTask
                   ELSE [row EXCEPT !.todo = Tail(@), !.pc = "look"]
Rest(row) == IF Len(row.todo) <= 1 THEN IdleTask
             ELSE [row EXCEPT !.todo = Tail(@), !.pc = "look"]

FindIncident(t) ==
  /\ task[t].pc = "find"
  /\ Work(t, IF Exists(task[t].inc) THEN [task[t] EXCEPT !.pc = "look"] ELSE IdleTask)
  /\ UNCHANGED <<rowVars, deskVars, hooks, talk, req, jobs, bounds, ghosts>>
Look(t, d) ==
  /\ Updating(t, d, "look")
  /\ Work(t, IF mapping[task[t].inc][d] = "synced"
             THEN [task[t] EXCEPT !.pc = "put"] ELSE Rest(task[t]))
  /\ UNCHANGED <<rowVars, deskVars, hooks, talk, req, jobs, bounds, ghosts>>
Sets(t, d) == ticket' = [ticket EXCEPT ![task[t].inc][d] = Outward(d)[task[t].status]]
(* A help desk may report a change back, also one made through its API.    *)
Echo(i, d) == hooks' \in {hooks, hooks \cup {[inc |-> i, desk |-> d,
                                             status |-> ticket'[i][d], note |-> FALSE]}}
Put(t, d) ==
  /\ Updating(t, d, "put")
  /\ Sets(t, d)
  /\ Echo(task[t].inc, d)
  /\ Work(t, [task[t] EXCEPT !.pc = "mark"])
  /\ UNCHANGED <<rowVars, mapping, talk, req, jobs, bounds, ghosts>>
Mark(t, d) ==
  /\ Updating(t, d, "mark")
  /\ mapping' = IF mapping[task[t].inc][d] = "none" THEN mapping
                ELSE [mapping EXCEPT ![task[t].inc][d] =
                        IF @ = "error" THEN "error" ELSE "synced"]
  /\ Work(t, Rest(task[t]))
  /\ UNCHANGED <<rowVars, ticket, hooks, talk, req, jobs, bounds, ghosts>>
(* The configuration or the mapping cannot be read, or the call fails, or  *)
(* it changed the ticket and the answer is lost.                           *)
PutFails(t, d) ==
  /\ Fault
  /\ \/ /\ Updating(t, d, "look") \/ Updating(t, d, "put")
        /\ ticket' = ticket /\ hooks' = hooks
     \/ Updating(t, d, "put") /\ Sets(t, d) /\ Echo(task[t].inc, d)
  /\ Noise(task[t].inc)
  /\ Work(t, Rest(task[t]))
  /\ UNCHANGED <<rowVars, mapping, talk, req, jobs, ops, moves, ended, refused, named,
                 mixed>>
Update(t, d) == Look(t, d) \/ Put(t, d) \/ Mark(t, d) \/ PutFails(t, d)
update_freshservice(t) == Update(t, "freshservice")
update_freshdesk(t) == Update(t, "freshdesk")
update_servicenow(t) == Update(t, "servicenow")

(* ---- the help desks --------------------------------------------------- *)
(* An agent moves a ticket, with or without a note; the rule that reports  *)
(* it sends both in one webhook.                                           *)
AgentMoves(i, d) ==
  /\ moves < MaxMoves /\ moves' = moves + 1
  /\ ticket[i][d] # None
  /\ \E s \in DeskMoves \cap DOMAIN Inward(d), note \in BOOLEAN :
       /\ ticket' = [ticket EXCEPT ![i][d] = s]
       /\ hooks' = hooks \cup {[inc |-> i, desk |-> d, status |-> s, note |-> note]}
       /\ ended' = IF Inward(d)[s] \in Closed THEN ended \cup {i} ELSE ended
  /\ Noise(i)
  /\ UNCHANGED <<rowVars, mapping, task, talk, req, jobs, ops, faults, refused, named,
                 mixed>>

(* The route opens the session's transaction in a context manager and the  *)
(* handler commits in it.  The commit of the note therefore closes it: the *)
(* UPDATE of the status that follows raises, is logged, and is lost.       *)
Webhook(h, d) ==
  /\ h.desk = d
  /\ hooks' = hooks \ {h}
  /\ timeline' = IF HasTicketId(h.inc, d) /\ h.note
                 THEN timeline \cup {<<h.inc, d, "inbound">>} ELSE timeline
  /\ status' = IF HasTicketId(h.inc, d) /\ ~h.note /\ Exists(h.inc)
               THEN [status EXCEPT ![h.inc] = Inward(d)[h.status]] ELSE status
  /\ UNCHANGED <<ticketId, ai, deskVars, task, notes, told, skipped, req, jobs, bounds,
                 ghosts>>
apply_freshservice_webhook(h) == Webhook(h, "freshservice")
apply_freshdesk_webhook(h) == Webhook(h, "freshdesk")
apply_servicenow_webhook(h) == Webhook(h, "servicenow")

(* ---- the autonomous analysis ------------------------------------------ *)
(* The incident is posted; a report may come back from now on.             *)
AnalyzePost(r, i) ==
  /\ Op
  /\ req[r] = NoReq /\ Exists(i)
  /\ req' = [req EXCEPT ![r] = [op |-> "analyze", inc |-> i, desk |-> None,
                                id |-> ticketId[i]]]
  /\ jobs' = [jobs EXCEPT ![i] = @ + 1]
  /\ UNCHANGED <<rowVars, deskVars, task, hooks, talk, moves, faults, ghosts>>
AnalyzeCommit(r) ==
  LET i == req[r].inc IN
  /\ req[r].op = "analyze"
  /\ status' = IF Exists(i) THEN [status EXCEPT ![i] = "ai triaging"] ELSE status
  /\ ai' = IF Exists(i) THEN [ai EXCEPT ![i] = "pending"] ELSE ai
  /\ req' = [req EXCEPT ![r] = NoReq]
  /\ Noise(i)
  /\ UNCHANGED <<ticketId, deskVars, task, hooks, talk, jobs, bounds, ended,
                 refused, named, mixed>>
(* Mutant: the status is set although the analysis was not accepted.       *)
AnalyzeFailsPending(r) ==
  /\ req[r].op = "analyze" /\ Fault
  /\ jobs' = [jobs EXCEPT ![req[r].inc] = IF @ = 0 THEN 0 ELSE @ - 1]
  /\ ai' = [ai EXCEPT ![req[r].inc] = "pending"]
  /\ req' = [req EXCEPT ![r] = NoReq]
  /\ UNCHANGED <<status, ticketId, deskVars, task, hooks, talk, ops, moves, ghosts>>
(* No job was accepted, or its answer was late: 502, and nothing written.  *)
AnalyzeFails(r) ==
  /\ req[r].op = "analyze" /\ Fault
  /\ jobs' \in {jobs, [jobs EXCEPT ![req[r].inc] = IF @ = 0 THEN 0 ELSE @ - 1]}
  /\ req' = [req EXCEPT ![r] = NoReq]
  /\ UNCHANGED <<rowVars, deskVars, task, hooks, talk, ops, moves, ghosts>>

(* A report names its ticket id; it is taken by a row that carries this id *)
(* and refused, for good, unless that row is pending.                      *)
Report(i) ==
  /\ jobs[i] > 0
  /\ jobs' = [jobs EXCEPT ![i] = @ - 1]
  /\ \/ /\ \A j \in Existing : ticketId[j] # ticketId[i]
        /\ refused' = refused \cup {i}
        /\ ai' = ai
     \/ \E j \in Existing :
          /\ ticketId[j] = ticketId[i]
          /\ IF ai[j] = "pending"
             THEN ai' = [ai EXCEPT ![j] = "completed"] /\ refused' = refused
             ELSE ai' = ai /\ refused' = refused \cup {i}
  /\ UNCHANGED <<status, ticketId, deskVars, task, hooks, talk, req, bounds,
                 ended, calm, named, mixed>>
LoseJob(i) ==
  /\ jobs[i] > 0 /\ Fault
  /\ jobs' = [jobs EXCEPT ![i] = @ - 1]
  /\ refused' = refused \cup {i}
  /\ UNCHANGED <<rowVars, deskVars, task, hooks, talk, req, ops, moves, ended,
                 calm, named, mixed>>

(* The incident service dies: its tasks and requests are gone.             *)
Crash ==
  /\ Fault
  /\ task' = [t \in Task |-> IdleTask]
  /\ req' = [r \in Request |-> NoReq]
  /\ calm' = {}
  /\ UNCHANGED <<rowVars, deskVars, hooks, talk, jobs, ops, moves, ended, refused,
                 named, mixed>>

AnalystStep(i) == \/ \E s \in AskedStatus : UpdateStatus(i, s) \/ PatchIncident(i, s)
                  \/ DeleteIncident(i)
RequestStep(r) == \/ CreateCount(r) \/ CreateNamed(r) \/ CreateCommit(r)
                  \/ \E i \in Incident : CommentLook(r, i)
                  \/ CommentPost(r) \/ CommentRecord(r) \/ CommentFails(r) \/ CommentSkipped(r)
                  \/ \E i \in Incident : AnalyzePost(r, i)
                  \/ AnalyzeCommit(r) \/ AnalyzeFails(r)
TaskStep(t) == \/ push_to_freshservice(t) \/ push_to_freshdesk(t) \/ push_to_servicenow(t)
               \/ FindIncident(t) \/ update_freshservice(t) \/ update_freshdesk(t) \/ update_servicenow(t)
HookStep(h) == \/ apply_freshservice_webhook(h) \/ apply_freshdesk_webhook(h)
               \/ apply_servicenow_webhook(h)
Outside(i) == Report(i) \/ LoseJob(i) \/ \E d \in DeskName : AgentMoves(i, d)

Next ==
  /\ \/ \E i \in Incident : AnalystStep(i) \/ Outside(i)
     \/ \E r \in Request : RequestStep(r)
     \/ \E t \in Task : TaskStep(t)
     \/ \E h \in hooks : HookStep(h)
     \/ Crash
  /\ UNCHANGED enabled

Spec == Init /\ [][Next]_vars

(* ---- properties ------------------------------------------------------- *)
TypeOK ==
  /\ enabled \subseteq DeskName
  /\ status \in [Incident -> Status \cup {None}]
  /\ ticketId \in [Incident -> Nat]
  /\ ai \in [Incident -> {"none", "pending", "completed"}]
  /\ mapping \in [Incident -> [DeskName -> Mapping]]
  /\ ticket \in [Incident -> [DeskName -> DeskStatus \cup {None}]]
  /\ \A i \in Incident, d \in DeskName : ticket[i][d] \in DOMAIN Inward(d) \cup {None}
  /\ task \in [Task -> TaskRow]
  /\ hooks \subseteq {h \in Hook : h.status \in DOMAIN Inward(h.desk)}
  /\ timeline \subseteq Incident \X DeskName \X {"inbound", "outbound"}
  /\ notes \subseteq Incident \X DeskName /\ told \subseteq Incident \X DeskName
  /\ skipped \subseteq Incident \X DeskName
  /\ req \in [Request -> ReqRow]
  /\ jobs \in [Incident -> Nat]
  /\ {ops, moves, faults} \subseteq Nat
  /\ ended \subseteq Incident /\ refused \subseteq Incident /\ named \subseteq Incident
  /\ calm \subseteq Incident \X DeskName
  /\ mixed \in BOOLEAN

(* No synchronisation closes an incident by itself: a closed incident, and *)
(* a closed ticket of one, go back to an analyst or an agent who closed    *)
(* it, through tables, tasks and webhooks in any order.                    *)
ClosedHasCause ==
  \A i \in Incident \ ended :
    /\ status[i] \notin Closed
    /\ \A d \in DeskName : ticket[i][d] # None => Inward(d)[ticket[i][d]] \notin Closed

(* Once an analyst's change met no other change and its tasks and echoes   *)
(* are through, incident and ticket agree on whether it is closed and how. *)
Outcome(s) == IF s \in Closed THEN s ELSE "open"
CalmAgrees ==
  \A c \in calm : Exists(c[1]) /\ ~Busy(c[1]) =>
    Outcome(status[c[1]]) = Outcome(Inward(c[2])[ticket[c[1]][c[2]]])

(* A mapping with a ticket id has a ticket behind it, so every webhook of  *)
(* the ticket finds its incident from the moment the row says so.          *)
MappedIsReal == \A i \in Incident, d \in DeskName : HasTicketId(i, d) => ticket[i][d] # None

(* The timeline shows no comment the ticket does not have.  An analyst is  *)
(* told of such a comment only if no configuration was found for it, or by *)
(* the two connectors that hide a call that failed: a note Freshservice    *)
(* refuses, or whose answer is lost, is never called posted.               *)
NoteTold ==
  /\ \A n \in timeline : n[3] = "outbound" => <<n[1], n[2]>> \in notes
  /\ \A n \in told \ notes : n[2] \in {"freshdesk", "servicenow"} \/ n \in skipped

(* Manual tickets share an id only when one was deleted, when two counted  *)
(* creations overlapped, or when one of the two was given its id by an     *)
(* analyst: COUNT + 1 is new among the counted ids, whatever ids of their  *)
(* own analysts give in between.                                           *)
SharedIdHasCause ==
  ~mixed => \A i, j \in Existing \ named : ticketId[i] = ticketId[j] => i = j

(* An analysis that stays pending has its job at work, or its report came  *)
(* while the row was not pending yet, or was lost, or there is or was      *)
(* another incident with the same ticket id.                               *)
PendingHasReason ==
  \A i \in Existing : ai[i] = "pending" =>
    \/ jobs[i] > 0 \/ i \in refused
    \/ \E j \in Incident \ {i} : ticketId[j] = ticketId[i]

=============================================================================
