----------------------------- MODULE Desk_proofs ------------------------------
(***************************************************************************)
(* Proofs about Desk, for any incidents, sets of help desks, tasks,        *)
(* requests and bounds.  Every property rests on what is still on its way: *)
(* a task, a webhook, a request or a job carries a value that was true     *)
(* when it set out, and what it will find when it arrives.                 *)
(***************************************************************************)
EXTENDS Desk, TLAPS, FiniteSetTheorems

-----------------------------------------------------------------------------
(* The three pairs of tables: a new ticket is open, whatever is sent out   *)
(* can be read back, and only a closing status closes a ticket.            *)
LEMMA Tables ==
  ASSUME NEW d \in DeskName
  PROVE  /\ Opening(d) \in DOMAIN Inward(d)
         /\ Inward(d)[Opening(d)] \notin Closed
         /\ \A s \in DOMAIN Inward(d) : Inward(d)[s] \in Status
         /\ \A s \in Status : /\ Outward(d)[s] \in DOMAIN Inward(d)
                              /\ Inward(d)[Outward(d)[s]] \in Closed => s \in Closed
         /\ DOMAIN Inward(d) \subseteq DeskStatus \ {None}
<1>1. DOMAIN Inward(d) \subseteq DeskStatus \ {None}
  BY NoneAssumption DEF DeskStatus
<1>2. /\ DOMAIN FS_STATUS_TO_SOC = {"open", "pending", "resolved", "closed"}
      /\ FS_STATUS_TO_SOC["open"] = "in_progress"
      /\ FS_STATUS_TO_SOC["pending"] = "sent to customer"
      /\ FS_STATUS_TO_SOC["resolved"] = "resolved"
      /\ FS_STATUS_TO_SOC["closed"] = "false_positive"
  BY DEF FS_STATUS_TO_SOC
<1>3. CASE d \in {"freshservice", "freshdesk"}
  <2>1. Inward(d) = FS_STATUS_TO_SOC /\ Outward(d) = STATUS_TO_FS_STATUS /\ Opening(d) = "open"
    BY <1>3 DEF Inward, Outward, Opening, FD_STATUS_TO_SOC, STATUS_TO_FD_STATUS
  <2>2. ASSUME NEW s \in Status
        PROVE  /\ STATUS_TO_FS_STATUS[s] \in {"open", "pending", "resolved", "closed"}
               /\ s \notin Closed => STATUS_TO_FS_STATUS[s] \in {"open", "pending"}
    BY DEF STATUS_TO_FS_STATUS, Status, Closed
  <2>3. \A s \in DOMAIN FS_STATUS_TO_SOC : FS_STATUS_TO_SOC[s] \in Status
    BY <1>2 DEF Status, Closed
  <2>4. \A s \in {"open", "pending"} : FS_STATUS_TO_SOC[s] \notin Closed
    BY <1>2 DEF Closed
  <2> QED
    BY <1>1, <1>2, <2>1, <2>2, <2>3, <2>4
<1>4. CASE d = "servicenow"
  BY <1>1, <1>4 DEF Inward, Outward, Opening, SN_STATE_TO_SOC, STATUS_TO_SN_STATE,
                    Status, Closed
<1> QED
  BY <1>3, <1>4 DEF DeskName

LEMMA WorkType ==
  ASSUME TypeOK, NEW t \in Task, NEW row \in TaskRow, Work(t, row)
  PROVE  task' \in [Task -> TaskRow]
BY DEF TypeOK, Work

LEMMA Spawned ==
  ASSUME NEW rows, Spawn(rows)
  PROVE  /\ task' = [t \in Task |-> task'[t]]
         /\ \A t \in Task : task'[t] \in rows \/ task'[t] = task[t]
<1>1. PICK s \in [rows -> Free] :
        task' = [t \in Task |-> IF \E x \in rows : s[x] = t
                                THEN CHOOSE x \in rows : s[x] = t ELSE task[t]]
  BY DEF Spawn
<1> QED
  BY <1>1

(* What the kind of a task says about its row.                             *)
LEMMA PushedIncident ==
  ASSUME TypeOK, NEW t \in Task, NEW d, NEW pc, Pushing(t, d, pc)
  PROVE  task[t].inc \in Incident
BY DEF TypeOK, Pushing, TaskRow, IdleTask

LEMMA UpdatedIncident ==
  ASSUME TypeOK, NEW t \in Task, NEW d, NEW pc, Updating(t, d, pc)
  PROVE  task[t].inc \in Incident /\ task[t].status \in Status
BY DEF TypeOK, Updating, TaskRow, IdleTask

LEMMA ExistingFinite == IsFiniteSet(Existing) /\ Cardinality(Existing) \in Nat
<1>1. IsFiniteSet(Existing)
  BY IncidentAssumption, FS_Subset DEF Existing
<1> QED
  BY <1>1, FS_CardinalityType

LEMMA IdleTaskType == IdleTask \in TaskRow
BY DEF IdleTask, TaskRow

LEMMA InitType == Init => TypeOK
<1> SUFFICES ASSUME Init PROVE TypeOK
  OBVIOUS
<1>1. PICK n \in 0..Cardinality(Incident), pushed \in SUBSET Incident :
        /\ ticketId \in [Incident -> 0..n]
        /\ status = [i \in Incident |-> CASE ticketId[i] = 0 -> None
                                          [] i \in pushed -> "sent to customer"
                                          [] OTHER -> "new"]
        /\ mapping = [i \in Incident |-> [d \in DeskName |->
                        IF i \in pushed /\ d \in enabled THEN "synced" ELSE "none"]]
        /\ ticket = [i \in Incident |-> [d \in DeskName |->
                       IF i \in pushed /\ d \in enabled THEN Opening(d) ELSE None]]
  BY DEF Init
<1>2. status \in [Incident -> Status \cup {None}]
  BY <1>1 DEF Status
<1>3. ticketId \in [Incident -> Nat]
  <2>1. Cardinality(Incident) \in Nat
    BY FS_CardinalityType, IncidentAssumption
  <2>2. 0..n \subseteq Nat
    BY <2>1
  <2> QED
    BY <1>1, <2>2
<1>4. mapping \in [Incident -> [DeskName -> Mapping]]
  BY <1>1 DEF Mapping
<1>5. /\ ticket \in [Incident -> [DeskName -> DeskStatus \cup {None}]]
      /\ \A i \in Incident, d \in DeskName : ticket[i][d] \in DOMAIN Inward(d) \cup {None}
  BY <1>1, Tables
<1>6. task \in [Task -> TaskRow]
  BY IdleTaskType DEF Init
<1>7. enabled \subseteq DeskName
  BY DeskAssumption DEF Init
<1>8. req \in [Request -> ReqRow]
  BY DEF Init, ReqRow
<1>9. ops \in Nat /\ moves \in Nat /\ faults \in Nat
  BY DEF Init
<1>10. mixed \in BOOLEAN
  BY DEF Init
<1> QED
  BY <1>2, <1>3, <1>4, <1>5, <1>6, <1>7, <1>8, <1>9, <1>10 DEF Init, TypeOK
-----------------------------------------------------------------------------
(* Next, with the desk of a task as a parameter.                           *)
LEMMA Steps ==
  ASSUME Next
  PROVE  \/ \E i \in Incident, s \in AskedStatus : UpdateStatus(i, s) \/ PatchIncident(i, s)
         \/ \E i \in Incident : DeleteIncident(i) \/ Report(i) \/ LoseJob(i)
         \/ \E i \in Incident, d \in DeskName : AgentMoves(i, d)
         \/ \E r \in Request : \/ CreateCount(r) \/ CreateNamed(r) \/ CreateCommit(r)
                               \/ CommentPost(r) \/ CommentRecord(r) \/ CommentFails(r)
                               \/ CommentSkipped(r) \/ AnalyzeCommit(r) \/ AnalyzeFails(r)
         \/ \E r \in Request, i \in Incident : CommentLook(r, i) \/ AnalyzePost(r, i)
         \/ \E t \in Task, d \in DeskName :
              \/ Post(t, d) \/ PostFails(t, d) \/ Map(t, d) \/ Stamp(t, d)
              \/ StampFails(t, d) \/ Log(t, d) \/ PushFails(t, d)
              \/ Look(t, d) \/ Put(t, d) \/ Mark(t, d) \/ PutFails(t, d)
         \/ \E t \in Task : FindIncident(t)
         \/ \E h \in hooks, d \in DeskName : Webhook(h, d)
         \/ Crash
BY DEF Next, AnalystStep, Outside, RequestStep, TaskStep, HookStep, DeskName,
   push_to_freshservice, push_to_freshdesk, push_to_servicenow, Push,
   update_freshservice, update_freshdesk, update_servicenow, Update,
   apply_freshservice_webhook, apply_freshdesk_webhook, apply_servicenow_webhook

(* What each action leaves alone.                                          *)
LEMMA Frames ==
  /\ \A i, s : UpdateStatus(i, s) \/ PatchIncident(i, s) =>
       UNCHANGED <<ticketId, ai, mapping, ticket, hooks, notes, timeline,
       told, req, jobs, refused, mixed, named, skipped>>
  /\ \A i : DeleteIncident(i) =>
       UNCHANGED <<ticketId, mapping, ticket, task, hooks, notes, timeline,
       told, req, jobs, ended, refused, named, skipped>>
  /\ \A i : Report(i) =>
       UNCHANGED <<status, ticketId, mapping, ticket, task, hooks, notes,
       timeline, told, req, ended, mixed, named, skipped>>
  /\ \A i : LoseJob(i) =>
       UNCHANGED <<status, ticketId, ai, mapping, ticket, task, hooks, notes,
       timeline, told, req, ended, mixed, named, skipped>>
  /\ \A i, d : AgentMoves(i, d) =>
       UNCHANGED <<status, ticketId, ai, mapping, task, notes, timeline,
       told, req, jobs, refused, mixed, named, skipped>>
  /\ \A r : CreateCount(r) \/ CreateNamed(r) =>
       UNCHANGED <<status, ticketId, ai, mapping, ticket, task, hooks, notes,
       timeline, told, jobs, ended, refused, mixed, named, skipped>>
  /\ \A r : CreateCommit(r) =>
       UNCHANGED <<ai, mapping, ticket, hooks, notes, timeline, told, jobs,
       refused, skipped>>
  /\ \A r : CommentPost(r) =>
       UNCHANGED <<status, ticketId, ai, mapping, ticket, task, hooks,
       timeline, told, jobs, ended, refused, mixed, named, skipped>>
  /\ \A r : CommentRecord(r) =>
       UNCHANGED <<status, ticketId, ai, mapping, ticket, task, hooks, notes,
       jobs, ended, refused, mixed, named, skipped>>
  /\ \A r : CommentFails(r) =>
       UNCHANGED <<status, ticketId, ai, mapping, ticket, task, hooks,
       timeline, jobs, ended, refused, mixed, named, skipped>>
  /\ \A r : CommentSkipped(r) =>
       UNCHANGED <<status, ticketId, ai, mapping, ticket, task, hooks, notes,
       timeline, jobs, ended, refused, mixed, named>>
  /\ \A r : AnalyzeCommit(r) =>
       UNCHANGED <<ticketId, mapping, ticket, task, hooks, notes, timeline,
       told, jobs, ended, refused, mixed, named, skipped>>
  /\ \A r : AnalyzeFails(r) =>
       UNCHANGED <<status, ticketId, ai, mapping, ticket, task, hooks, notes,
       timeline, told, ended, refused, mixed, named, skipped>>
  /\ \A r, i : CommentLook(r, i) =>
       UNCHANGED <<status, ticketId, ai, mapping, ticket, task, hooks, notes,
       timeline, told, jobs, ended, refused, mixed, named, skipped>>
  /\ \A r, i : AnalyzePost(r, i) =>
       UNCHANGED <<status, ticketId, ai, mapping, ticket, task, hooks, notes,
       timeline, told, ended, refused, mixed, named, skipped>>
  /\ \A t, d : Post(t, d) =>
       UNCHANGED <<status, ticketId, ai, mapping, hooks, notes, timeline,
       told, req, jobs, ended, refused, mixed, named, skipped>>
  /\ \A t, d : PostFails(t, d) =>
       UNCHANGED <<status, ticketId, ai, hooks, notes, timeline, told, req,
       jobs, ended, refused, mixed, named, skipped>>
  /\ \A t, d : Map(t, d) \/ PushFails(t, d) \/ Mark(t, d) =>
       UNCHANGED <<status, ticketId, ai, ticket, hooks, notes, timeline,
       told, req, jobs, ended, refused, mixed, named, skipped>>
  /\ \A t, d : Stamp(t, d) =>
       UNCHANGED <<ticketId, ai, mapping, ticket, hooks, notes, timeline,
       told, req, jobs, ended, refused, mixed, named, skipped>>
  /\ \A t, d : StampFails(t, d) \/ Log(t, d) \/ Look(t, d) =>
       UNCHANGED <<status, ticketId, ai, mapping, ticket, hooks, notes,
       timeline, told, req, jobs, ended, refused, mixed, named, skipped>>
  /\ \A t, d : Put(t, d) \/ PutFails(t, d) =>
       UNCHANGED <<status, ticketId, ai, mapping, notes, timeline, told, req,
       jobs, ended, refused, mixed, named, skipped>>
  /\ \A t : FindIncident(t) =>
       UNCHANGED <<status, ticketId, ai, mapping, ticket, hooks, notes,
       timeline, told, req, jobs, ended, refused, mixed, named, skipped>>
  /\ \A h, d : Webhook(h, d) =>
       UNCHANGED <<ticketId, ai, mapping, ticket, task, notes, told, req,
       jobs, ended, refused, mixed, named, skipped>>
  /\ Crash =>
       UNCHANGED <<status, ticketId, ai, mapping, ticket, hooks, notes,
       timeline, told, jobs, ended, refused, mixed, named, skipped>>
BY DEF UpdateStatus, PatchIncident, Commit, DeleteIncident, Report, LoseJob,
       AgentMoves, CreateNamed, CommentSkipped, CreateCount, CreateCommit, CommentPost, CommentRecord,
       CommentFails, AnalyzeCommit, AnalyzeFails, CommentLook, AnalyzePost,
       Post, PostFails, Map, PushFails, Mark, Stamp, StampFails, Log, Look,
       Put, PutFails, FindIncident, Webhook, Crash, rowVars, deskVars, talk,
       ghosts

LEMMA RestType ==
  ASSUME NEW row \in TaskRow, row.kind = "update"
  PROVE  Rest(row) \in TaskRow
<1>1. CASE Len(row.todo) <= 1
  BY <1>1, IdleTaskType DEF Rest
<1>2. CASE ~(Len(row.todo) <= 1)
  <2>1. row \in [kind : {"update"}, inc : Incident, todo : Seq(DeskName), status : Status,
                 pc : {"find", "look", "put", "mark"}]
    BY DEF TaskRow, IdleTask
  <2>2. Tail(row.todo) \in Seq(DeskName)
    BY <1>2, <2>1
  <2> DEFINE next == [row EXCEPT !.todo = Tail(row.todo), !.pc = "look"]
  <2>3. next \in TaskRow
    BY <2>1, <2>2 DEF TaskRow
  <2>4. Rest(row) = next
    BY <1>2 DEF Rest
  <2> QED
    BY <2>3, <2>4
<1> QED
  BY <1>1, <1>2

LEMMA TaskTypes ==
  ASSUME TypeOK, Next
  PROVE  task' \in [Task -> TaskRow]
<1>1. CASE task' = task
  BY <1>1 DEF TypeOK
<1>2. ASSUME NEW i \in Incident, NEW s \in AskedStatus, UpdateStatus(i, s)
      PROVE  task' \in [Task -> TaskRow]
  <2> DEFINE rows == {UpdateOf(i, <<d>>, s, "look") : d \in enabled}
  <2>1. rows \subseteq TaskRow
    <3>1. ASSUME NEW d \in enabled PROVE UpdateOf(i, <<d>>, s, "look") \in TaskRow
      <4>1. d \in DeskName /\ <<d>> \in Seq(DeskName)
        BY DEF TypeOK
      <4> QED
        BY <4>1, StatusAssumption DEF UpdateOf, TaskRow
    <3> QED
      BY <3>1
  <2>2. Spawn(rows)
    BY <1>2 DEF UpdateStatus
  <2> HIDE DEF rows
  <2> QED
    BY <2>1, <2>2, Spawned DEF TypeOK
<1>3. ASSUME NEW i \in Incident, NEW s \in AskedStatus, PatchIncident(i, s)
      PROVE  task' \in [Task -> TaskRow]
  <2> DEFINE all == Enabled("freshservice") \o Enabled("servicenow") \o Enabled("freshdesk")
             rows == {UpdateOf(i, all, s, "find")}
  <2>1. all \in Seq(DeskName)
    <3>1. \A d \in DeskName : Enabled(d) \in Seq(DeskName)
      BY DEF Enabled
    <3> QED
      BY <3>1 DEF DeskName
  <2>2. Spawn(rows)
    BY <1>3 DEF PatchIncident
  <2> HIDE DEF all
  <2>3. rows \subseteq TaskRow
    BY <2>1, StatusAssumption DEF UpdateOf, TaskRow
  <2> HIDE DEF rows
  <2> QED
    BY <2>2, <2>3, Spawned DEF TypeOK
<1>4. ASSUME NEW r \in Request, CreateCommit(r)
      PROVE  task' \in [Task -> TaskRow]
  <2>1. PICK i \in Incident : Spawn({PushOf(i, d) : d \in enabled})
    BY <1>4 DEF CreateCommit
  <2> DEFINE rows == {PushOf(i, d) : d \in enabled}
  <2>2. rows \subseteq TaskRow
    <3>1. ASSUME NEW d \in enabled PROVE PushOf(i, d) \in TaskRow
      <4>1. d \in DeskName /\ <<d>> \in Seq(DeskName)
        BY DEF TypeOK
      <4> QED
        BY <4>1 DEF PushOf, TaskRow
    <3> QED
      BY <3>1
  <2>3. Spawn(rows)
    BY <2>1
  <2> HIDE DEF rows
  <2> QED
    BY <2>2, <2>3, Spawned DEF TypeOK
<1>5. ASSUME NEW t \in Task, NEW d \in DeskName,
             \/ Post(t, d) \/ PostFails(t, d) \/ Map(t, d) \/ Stamp(t, d)
             \/ StampFails(t, d) \/ Log(t, d) \/ PushFails(t, d)
      PROVE  task' \in [Task -> TaskRow]
  <2>1. task[t].kind = "push" /\ task[t] \in TaskRow
    BY <1>5 DEF Post, PostFails, Map, Stamp, StampFails, Log, PushFails, Pushing, TypeOK
  <2>2. \A p \in {"map", "stamp", "log"} : [task[t] EXCEPT !.pc = p] \in TaskRow
    BY <2>1 DEF TaskRow, IdleTask
  <2>3. \E row \in TaskRow : Work(t, row)
    BY <1>5, <2>2, IdleTaskType DEF Post, PostFails, Map, Stamp, StampFails, Log, PushFails
  <2> QED
    BY <2>3, WorkType
<1>8. ASSUME NEW t \in Task, NEW d \in DeskName,
             Look(t, d) \/ Put(t, d) \/ Mark(t, d) \/ PutFails(t, d)
      PROVE  task' \in [Task -> TaskRow]
  <2>1. task[t].kind = "update" /\ task[t] \in TaskRow
    BY <1>8 DEF Look, Put, Mark, PutFails, Updating, TypeOK
  <2>2. \A p \in {"put", "mark"} : [task[t] EXCEPT !.pc = p] \in TaskRow
    BY <2>1 DEF TaskRow, IdleTask
  <2>3. Rest(task[t]) \in TaskRow
    BY <2>1, RestType
  <2>4. \E row \in TaskRow : Work(t, row)
    BY <1>8, <2>2, <2>3 DEF Look, Put, Mark, PutFails
  <2> QED
    BY <2>4, WorkType
<1>6. ASSUME NEW t \in Task, FindIncident(t)
      PROVE  task' \in [Task -> TaskRow]
  <2>1. [task[t] EXCEPT !.pc = "look"] \in TaskRow
    <3>1. task[t] \in TaskRow /\ task[t].pc = "find"
      BY <1>6 DEF FindIncident, TypeOK
    <3> QED
      BY <3>1 DEF TaskRow, IdleTask
  <2> QED
    BY <1>6, <2>1, WorkType, IdleTaskType DEF FindIncident
<1>7. CASE Crash
  BY <1>7, IdleTaskType DEF Crash
<1> QED
  BY <1>1, <1>2, <1>3, <1>4, <1>5, <1>6, <1>7, <1>8, Steps, Frames

(* What a request of an analyst commits.                                   *)
LEMMA CommitTypes ==
  ASSUME TypeOK, NEW i \in Incident, NEW s \in AskedStatus, Commit(i, s)
  PROVE  /\ status' \in [Incident -> Status \cup {None}]
         /\ ended' \subseteq Incident /\ calm' \subseteq Incident \X DeskName
<1>1. s \in Status
  BY StatusAssumption
<1> QED
  BY <1>1 DEF Commit, TypeOK

LEMMA RowTypes ==
  ASSUME TypeOK, Next
  PROVE  /\ enabled' \subseteq DeskName
         /\ status' \in [Incident -> Status \cup {None}]
         /\ ticketId' \in [Incident -> Nat]
         /\ ai' \in [Incident -> {"none", "pending", "completed"}]
<1>1. enabled' \subseteq DeskName
  BY DEF Next, TypeOK
<1>2. ASSUME UNCHANGED <<status, ticketId, ai>>
      PROVE  /\ status' \in [Incident -> Status \cup {None}]
             /\ ticketId' \in [Incident -> Nat]
             /\ ai' \in [Incident -> {"none", "pending", "completed"}]
  BY <1>2 DEF TypeOK
<1>0. /\ status \in [Incident -> Status \cup {None}]
      /\ ticketId \in [Incident -> Nat]
      /\ ai \in [Incident -> {"none", "pending", "completed"}]
  BY DEF TypeOK
<1>3. ASSUME NEW i \in Incident, NEW s \in AskedStatus,
             UpdateStatus(i, s) \/ PatchIncident(i, s)
      PROVE  /\ status' \in [Incident -> Status \cup {None}]
             /\ UNCHANGED <<ticketId, ai>>
  BY <1>3, CommitTypes DEF UpdateStatus, PatchIncident, Commit
<1>4. ASSUME NEW i \in Incident, DeleteIncident(i)
      PROVE  /\ status' \in [Incident -> Status \cup {None}]
             /\ ai' \in [Incident -> {"none", "pending", "completed"}] /\ ticketId' = ticketId
  BY <1>4 DEF DeleteIncident, TypeOK
<1>5. ASSUME NEW i \in Incident, Report(i)
      PROVE  /\ ai' \in [Incident -> {"none", "pending", "completed"}]
             /\ UNCHANGED <<status, ticketId>>
  BY <1>5 DEF Report, TypeOK, Existing
<1>6. ASSUME NEW r \in Request, CreateCommit(r)
      PROVE  /\ status' \in [Incident -> Status \cup {None}]
             /\ ticketId' \in [Incident -> Nat] /\ ai' = ai
  <2>1. req[r].id \in Nat
    BY DEF TypeOK, ReqRow, NoReq
  <2> QED
    BY <1>6, <2>1, StatusAssumption DEF CreateCommit, TypeOK
<1>7. ASSUME NEW r \in Request, AnalyzeCommit(r)
      PROVE  /\ status' \in [Incident -> Status \cup {None}]
             /\ ai' \in [Incident -> {"none", "pending", "completed"}] /\ ticketId' = ticketId
  BY <1>7 DEF AnalyzeCommit, TypeOK, Status
<1>8. ASSUME NEW t \in Task, NEW d \in DeskName, Stamp(t, d)
      PROVE  status' \in [Incident -> Status \cup {None}] /\ UNCHANGED <<ticketId, ai>>
  BY <1>8 DEF Stamp, TypeOK, Status
<1>9. ASSUME NEW h \in hooks, NEW d \in DeskName, Webhook(h, d)
      PROVE  status' \in [Incident -> Status \cup {None}] /\ UNCHANGED <<ticketId, ai>>
  <2>1. Inward(d)[h.status] \in Status
    BY <1>9, Tables DEF Webhook, TypeOK
  <2> QED
    BY <1>9, <2>1 DEF Webhook, TypeOK
<1> QED
  BY <1>0, <1>1, <1>2, <1>3, <1>4, <1>5, <1>6, <1>7, <1>8, <1>9, Steps, Frames

LEMMA MappingTypes ==
  ASSUME TypeOK, Next
  PROVE  mapping' \in [Incident -> [DeskName -> Mapping]]
<1>1. CASE mapping' = mapping
  BY <1>1 DEF TypeOK
<1>2. ASSUME NEW t \in Task, NEW d \in DeskName, NEW m \in Mapping, Mapped(t, d, m)
      PROVE  mapping' \in [Incident -> [DeskName -> Mapping]]
  BY <1>2 DEF Mapped, TypeOK
<1>3. ASSUME NEW t \in Task, NEW d \in DeskName, Failed(t, d)
      PROVE  \E m \in Mapping : Mapped(t, d, m)
  BY <1>3 DEF Failed, Mapping
<1>4. ASSUME NEW t \in Task, NEW d \in DeskName, Mark(t, d)
      PROVE  mapping' \in [Incident -> [DeskName -> Mapping]]
  <2>1. "error" \in Mapping /\ "synced" \in Mapping
    BY DEF Mapping
  <2> QED
    BY <1>4, <2>1 DEF Mark, TypeOK
<1>5. ASSUME NEW t \in Task, NEW d \in DeskName,
             Map(t, d) \/ PostFails(t, d) \/ PushFails(t, d)
      PROVE  mapping' \in [Incident -> [DeskName -> Mapping]]
  BY <1>1, <1>2, <1>3, <1>5 DEF Map, PostFails, PushFails, Mapping
<1> QED
  BY <1>1, <1>4, <1>5, Steps, Frames

(* A ticket and what a help desk reports carry statuses of that help desk. *)
TicketFits(i, d) == ticket[i][d] \in DOMAIN Inward(d) \cup {None}
HookFits(h) == h \in Hook /\ h.status \in DOMAIN Inward(h.desk)

LEMMA TicketTypes ==
  ASSUME TypeOK, Next
  PROVE  /\ ticket' \in [Incident -> [DeskName -> DeskStatus \cup {None}]]
         /\ \A i \in Incident, d \in DeskName : TicketFits(i, d)'
         /\ \A h \in hooks' : HookFits(h)
<1> DEFINE Fine == /\ ticket' \in [Incident -> [DeskName -> DeskStatus \cup {None}]]
                   /\ \A i \in Incident, d \in DeskName : TicketFits(i, d)'
<1>1. ASSUME ticket' = ticket PROVE Fine
  BY <1>1 DEF TypeOK, TicketFits
<1>2. ASSUME NEW i \in Incident, NEW d \in DeskName, NEW s \in DOMAIN Inward(d),
             ticket' = [ticket EXCEPT ![i][d] = s]
      PROVE  Fine
  <2>1. s \in DeskStatus
    BY Tables
  <2> QED
    BY <1>2, <2>1 DEF TypeOK, TicketFits
<1>3. ASSUME hooks' \subseteq hooks PROVE \A h \in hooks' : HookFits(h)
  BY <1>3 DEF TypeOK, HookFits
<1>4. ASSUME NEW i \in Incident, NEW d \in DeskName, NEW s \in DOMAIN Inward(d),
             NEW n \in BOOLEAN,
             hooks' \in {hooks, hooks \cup {[inc |-> i, desk |-> d, status |-> s, note |-> n]}}
      PROVE  \A h \in hooks' : HookFits(h)
  BY <1>4, Tables DEF TypeOK, HookFits, Hook
<1> HIDE DEF Fine
<1>5. ASSUME NEW i \in Incident, NEW d \in DeskName, AgentMoves(i, d)
      PROVE  Fine /\ \A h \in hooks' : HookFits(h)
  <2>1. PICK s \in DeskMoves \cap DOMAIN Inward(d), note \in BOOLEAN :
          /\ ticket' = [ticket EXCEPT ![i][d] = s]
          /\ hooks' = hooks \cup {[inc |-> i, desk |-> d, status |-> s, note |-> note]}
    BY <1>5 DEF AgentMoves
  <2> QED
    BY <1>2, <1>4, <2>1
<1>6. ASSUME NEW t \in Task, NEW d \in DeskName, Post(t, d) \/ PostFails(t, d)
      PROVE  Fine /\ hooks' = hooks
  <2>1. task[t].inc \in Incident
    BY <1>6, PushedIncident DEF Post, PostFails
  <2> QED
    BY <1>1, <1>2, <1>6, <2>1, Tables DEF Post, PostFails, Ticketed
<1>7. ASSUME NEW t \in Task, NEW d \in DeskName, Put(t, d) \/ PutFails(t, d)
      PROVE  Fine /\ \A h \in hooks' : HookFits(h)
  <2>1. task[t].inc \in Incident /\ Outward(d)[task[t].status] \in DOMAIN Inward(d)
    BY <1>7, UpdatedIncident, Tables DEF Put, PutFails
  <2>2. CASE ticket' = ticket /\ hooks' = hooks
    BY <1>1, <1>3, <2>2
  <2>3. CASE Sets(t, d) /\ Echo(task[t].inc, d)
    <3>1. Fine
      BY <1>2, <2>1, <2>3 DEF Sets
    <3>2. ticket'[task[t].inc][d] = Outward(d)[task[t].status]
      BY <2>1, <2>3 DEF Sets, TypeOK
    <3> QED
      BY <1>4, <2>1, <2>3, <3>1, <3>2 DEF Echo
  <2> QED
    BY <1>7, <2>2, <2>3 DEF Put, PutFails
<1> QED
  <2>1. (ticket' = ticket /\ hooks' \subseteq hooks)
        \/ (Fine /\ \A h \in hooks' : HookFits(h))
    BY <1>3, <1>5, <1>6, <1>7, Steps, Frames DEF Webhook
  <2> QED
    BY <1>1, <1>3, <2>1 DEF Fine

LEMMA ReqTypes ==
  ASSUME TypeOK, Next
  PROVE  req' \in [Request -> ReqRow]
<1> DEFINE Fine == req' \in [Request -> ReqRow]
<1>1. ASSUME req' = req PROVE Fine
  BY <1>1 DEF TypeOK
<1>2. ASSUME NEW r \in Request, NEW row \in ReqRow, req' = [req EXCEPT ![r] = row]
      PROVE  Fine
  BY <1>2 DEF TypeOK
<1>3. NoReq \in ReqRow
  BY DEF ReqRow
<1> HIDE DEF Fine
<1>4. ASSUME NEW r \in Request, CreateCount(r) PROVE Fine
  <2> DEFINE n == Cardinality(Existing) + 1
             row == [op |-> "create", inc |-> None, desk |-> None, id |-> n]
  <2>1. n \in Nat \ {0}
    BY ExistingFinite
  <2>2. row \in ReqRow
    BY <2>1 DEF ReqRow
  <2>3. req' = [req EXCEPT ![r] = row]
    BY <1>4 DEF CreateCount
  <2> HIDE DEF row
  <2> QED
    BY <1>2, <2>2, <2>3
<1>10. ASSUME NEW r \in Request, CreateNamed(r) PROVE Fine
  <2>1. PICK n \in OwnIds :
          req' = [req EXCEPT ![r] = [op |-> "name", inc |-> None, desk |-> None, id |-> n]]
    BY <1>10 DEF CreateNamed
  <2>2. [op |-> "name", inc |-> None, desk |-> None, id |-> n] \in ReqRow
    BY IdAssumption DEF ReqRow
  <2> QED
    BY <1>2, <2>1, <2>2
<1>5. ASSUME NEW r \in Request,
             \/ CreateCommit(r) \/ CommentRecord(r) \/ CommentFails(r)
             \/ CommentSkipped(r) \/ AnalyzeCommit(r) \/ AnalyzeFails(r)
      PROVE  Fine
  BY <1>2, <1>3, <1>5 DEF CreateCommit, CommentRecord, CommentFails, CommentSkipped,
     AnalyzeCommit, AnalyzeFails
<1>6. ASSUME NEW r \in Request, CommentPost(r) PROVE Fine
  <2>1. req[r] \in [op : {"comment", "record"}, inc : Incident, desk : DeskName, id : {0}]
    BY <1>6 DEF CommentPost, TypeOK, ReqRow, NoReq
  <2> DEFINE row == [req[r] EXCEPT !.op = "record"]
  <2>2. row \in ReqRow
    BY <2>1 DEF ReqRow
  <2>3. req' = [req EXCEPT ![r] = row]
    BY <1>6 DEF CommentPost
  <2> HIDE DEF row
  <2> QED
    BY <1>2, <2>2, <2>3
<1>7. ASSUME NEW r \in Request, NEW i \in Incident, CommentLook(r, i) PROVE Fine
  <2>1. PICK d \in DeskName :
          req' = [req EXCEPT ![r] = [op |-> "comment", inc |-> i, desk |-> d, id |-> 0]]
    BY <1>7 DEF CommentLook
  <2>2. [op |-> "comment", inc |-> i, desk |-> d, id |-> 0] \in ReqRow
    BY DEF ReqRow
  <2> QED
    BY <1>2, <2>1, <2>2
<1>8. ASSUME NEW r \in Request, NEW i \in Incident, AnalyzePost(r, i) PROVE Fine
  <2> DEFINE row == [op |-> "analyze", inc |-> i, desk |-> None, id |-> ticketId[i]]
  <2>1. ticketId[i] \in Nat
    BY DEF TypeOK
  <2>2. row \in ReqRow
    BY <2>1 DEF ReqRow
  <2>3. req' = [req EXCEPT ![r] = row]
    BY <1>8 DEF AnalyzePost
  <2> HIDE DEF row
  <2> QED
    BY <1>2, <2>2, <2>3
<1>9. ASSUME Crash PROVE Fine
  BY <1>3, <1>9 DEF Crash, Fine
<1> QED
  <2>1. req' = req \/ Fine
    BY <1>4, <1>5, <1>6, <1>7, <1>8, <1>9, <1>10, Steps, Frames
  <2> QED
    BY <1>1, <2>1 DEF Fine

LEMMA JobTypes ==
  ASSUME TypeOK, Next
  PROVE  /\ jobs' \in [Incident -> Nat] /\ refused' \subseteq Incident /\ mixed' \in BOOLEAN
         /\ ended' \subseteq Incident /\ named' \subseteq Incident
<1>1. jobs \in [Incident -> Nat] /\ refused \subseteq Incident /\ mixed \in BOOLEAN
      /\ ended \subseteq Incident /\ named \subseteq Incident
  BY DEF TypeOK
<1>2. ASSUME NEW i \in Incident, Report(i) \/ LoseJob(i)
      PROVE  jobs' \in [Incident -> Nat] /\ refused' \subseteq Incident
  <2>1. jobs[i] - 1 \in Nat
    BY <1>1, <1>2 DEF Report, LoseJob
  <2>2. jobs' \in [Incident -> Nat]
    BY <1>1, <1>2, <2>1 DEF Report, LoseJob
  <2>3. refused' \subseteq Incident
    BY <1>1, <1>2 DEF Report, LoseJob
  <2> QED
    BY <2>2, <2>3
<1>3. ASSUME NEW r \in Request, NEW i \in Incident, AnalyzePost(r, i)
      PROVE  jobs' \in [Incident -> Nat]
  BY <1>1, <1>3 DEF AnalyzePost
<1>4. ASSUME NEW r \in Request, AnalyzeFails(r)
      PROVE  jobs' \in [Incident -> Nat]
  <2> DEFINE i == req[r].inc
  <2>1. i \in Incident
    BY <1>4 DEF AnalyzeFails, TypeOK, ReqRow, NoReq
  <2>2. (IF jobs[i] = 0 THEN 0 ELSE jobs[i] - 1) \in Nat
    BY <1>1, <2>1
  <2>3. jobs' \in {jobs, [jobs EXCEPT ![i] = IF jobs[i] = 0 THEN 0 ELSE jobs[i] - 1]}
    BY <1>4 DEF AnalyzeFails
  <2> HIDE DEF i
  <2> QED
    BY <1>1, <2>1, <2>2, <2>3
<1>5. ASSUME NEW i \in Incident, DeleteIncident(i) PROVE mixed' \in BOOLEAN
  BY <1>5 DEF DeleteIncident
<1>6. ASSUME NEW r \in Request, CreateCommit(r)
      PROVE  mixed' \in BOOLEAN /\ ended' \subseteq Incident /\ named' \subseteq Incident
  <2>1. mixed' \in BOOLEAN
    BY <1>1, <1>6 DEF CreateCommit
  <2>2. ended' \subseteq Incident /\ named' \subseteq Incident
    BY <1>1, <1>6 DEF CreateCommit
  <2> QED
    BY <2>1, <2>2
<1>7. ASSUME NEW i \in Incident, NEW s \in AskedStatus,
             UpdateStatus(i, s) \/ PatchIncident(i, s)
      PROVE  ended' \subseteq Incident
  BY <1>7, CommitTypes DEF UpdateStatus, PatchIncident
<1>8. ASSUME NEW i \in Incident, NEW d \in DeskName, AgentMoves(i, d)
      PROVE  ended' \subseteq Incident
  BY <1>1, <1>8 DEF AgentMoves
<1> QED
  BY <1>1, <1>2, <1>3, <1>4, <1>5, <1>6, <1>7, <1>8, Steps, Frames

LEMMA TalkTypes ==
  ASSUME TypeOK, Next
  PROVE  /\ timeline' \subseteq Incident \X DeskName \X {"inbound", "outbound"}
         /\ notes' \subseteq Incident \X DeskName /\ told' \subseteq Incident \X DeskName
         /\ skipped' \subseteq Incident \X DeskName
<1>1. /\ timeline \subseteq Incident \X DeskName \X {"inbound", "outbound"}
      /\ notes \subseteq Incident \X DeskName /\ told \subseteq Incident \X DeskName
      /\ skipped \subseteq Incident \X DeskName
  BY DEF TypeOK
<1>4. ASSUME NEW r \in Request, CommentSkipped(r)
      PROVE  /\ told' \subseteq Incident \X DeskName /\ skipped' \subseteq Incident \X DeskName
             /\ UNCHANGED <<timeline, notes>>
  <2>1. req[r].inc \in Incident /\ req[r].desk \in DeskName
    BY <1>4 DEF CommentSkipped, TypeOK, ReqRow, NoReq
  <2> QED
    BY <1>1, <1>4, <2>1 DEF CommentSkipped
<1>2. ASSUME NEW r \in Request, CommentPost(r) \/ CommentRecord(r) \/ CommentFails(r)
      PROVE  /\ timeline' \subseteq Incident \X DeskName \X {"inbound", "outbound"}
             /\ notes' \subseteq Incident \X DeskName
             /\ told' \subseteq Incident \X DeskName
  <2>1. req[r].inc \in Incident /\ req[r].desk \in DeskName
    BY <1>2 DEF CommentPost, CommentRecord, CommentFails, TypeOK, ReqRow, NoReq
  <2> QED
    BY <1>1, <1>2, <2>1 DEF CommentPost, CommentRecord, CommentFails
<1>3. ASSUME NEW h \in hooks, NEW d \in DeskName, Webhook(h, d)
      PROVE  timeline' \subseteq Incident \X DeskName \X {"inbound", "outbound"}
  <2>1. h.inc \in Incident
    BY DEF TypeOK, Hook
  <2> QED
    BY <1>1, <1>3, <2>1 DEF Webhook
<1> QED
  BY <1>1, <1>2, <1>3, <1>4, Steps, Frames

(* Only a change of an analyst makes a pair calm.                          *)
LEMMA CalmShrinks ==
  ASSUME Next
  PROVE  \/ calm' \subseteq calm
         \/ \E i \in Incident, s \in AskedStatus : UpdateStatus(i, s) \/ PatchIncident(i, s)
<1>5. \A i : DeleteIncident(i) \/ Report(i) \/ LoseJob(i) => calm' \subseteq calm
  BY DEF DeleteIncident, Report, LoseJob, ghosts, Noise
<1>6. \A i, d : AgentMoves(i, d) => calm' \subseteq calm
  BY DEF AgentMoves, ghosts, Noise
<1>7. \A r : CreateCount(r) \/ CreateNamed(r) \/ CreateCommit(r) \/ CommentPost(r)
            \/ CommentRecord(r) \/ CommentFails(r) \/ CommentSkipped(r) \/ AnalyzeCommit(r) \/ AnalyzeFails(r) => calm' \subseteq calm
  BY DEF CreateCount, CreateNamed, CreateCommit, CommentPost, CommentRecord, CommentFails,
     CommentSkipped, AnalyzeCommit, AnalyzeFails, ghosts, Noise
<1>8. \A r, i : CommentLook(r, i) \/ AnalyzePost(r, i) => calm' \subseteq calm
  BY DEF CommentLook, AnalyzePost, ghosts, Noise
<1>9. \A t, d : Post(t, d) \/ PostFails(t, d) \/ Map(t, d) \/ Stamp(t, d)
               \/ StampFails(t, d) \/ Log(t, d) \/ PushFails(t, d) => calm' \subseteq calm
  BY DEF Post, PostFails, Map, Stamp, StampFails, Log, PushFails, ghosts, Noise
<1>10. \A t, d : Look(t, d) \/ Put(t, d) \/ Mark(t, d) \/ PutFails(t, d) => calm' \subseteq calm
  BY DEF Look, Put, Mark, PutFails, ghosts, Noise
<1>11. \A t : FindIncident(t) => calm' \subseteq calm
  BY DEF FindIncident, ghosts, Noise
<1>12. \A h, d : Webhook(h, d) => calm' \subseteq calm
  BY DEF Webhook, ghosts, Noise
<1>13. Crash => calm' \subseteq calm
  BY DEF Crash, ghosts, Noise
<1> QED
  BY <1>5, <1>6, <1>7, <1>8, <1>9, <1>10, <1>11, <1>12, <1>13, Steps

LEMMA CalmTypes ==
  ASSUME TypeOK, Next
  PROVE  calm' \subseteq Incident \X DeskName
<1>1. calm \subseteq Incident \X DeskName
  BY DEF TypeOK
<1>2. ASSUME NEW i \in Incident, NEW s \in AskedStatus,
             UpdateStatus(i, s) \/ PatchIncident(i, s)
      PROVE  calm' \subseteq Incident \X DeskName
  BY <1>2, CommitTypes DEF UpdateStatus, PatchIncident
<1> QED
  BY <1>1, <1>2, CalmShrinks

LEMMA BoundTypes ==
  ASSUME TypeOK, Next
  PROVE  {ops, moves, faults}' \subseteq Nat
<1>1. ops \in Nat /\ moves \in Nat /\ faults \in Nat
  BY DEF TypeOK
<1> DEFINE Up == /\ ops' \in {ops, ops + 1} /\ moves' \in {moves, moves + 1}
                 /\ faults' \in {faults, faults + 1}
<1>4. \A i, s : UpdateStatus(i, s) \/ PatchIncident(i, s) => Up
  BY DEF UpdateStatus, PatchIncident, Commit, bounds, Op, Fault
<1>5. \A i : DeleteIncident(i) \/ Report(i) \/ LoseJob(i) => Up
  BY DEF DeleteIncident, Report, LoseJob, bounds, Op, Fault
<1>6. \A i, d : AgentMoves(i, d) => Up
  BY DEF AgentMoves, bounds, Op, Fault
<1>7. \A r : CreateCount(r) \/ CreateNamed(r) \/ CreateCommit(r) \/ CommentPost(r)
            \/ CommentRecord(r) \/ CommentFails(r) \/ CommentSkipped(r) \/ AnalyzeCommit(r) \/ AnalyzeFails(r) => Up
  BY DEF CreateCount, CreateNamed, CreateCommit, CommentPost, CommentRecord, CommentFails,
     CommentSkipped, AnalyzeCommit, AnalyzeFails, bounds, Op, Fault
<1>8. \A r, i : CommentLook(r, i) \/ AnalyzePost(r, i) => Up
  BY DEF CommentLook, AnalyzePost, bounds, Op, Fault
<1>9. \A t, d : Post(t, d) \/ PostFails(t, d) \/ Map(t, d) \/ Stamp(t, d)
               \/ StampFails(t, d) \/ Log(t, d) \/ PushFails(t, d) => Up
  BY DEF Post, PostFails, Map, Stamp, StampFails, Log, PushFails, bounds, Op, Fault
<1>10. \A t, d : Look(t, d) \/ Put(t, d) \/ Mark(t, d) \/ PutFails(t, d) => Up
  BY DEF Look, Put, Mark, PutFails, bounds, Op, Fault
<1>11. \A t : FindIncident(t) => Up
  BY DEF FindIncident, bounds, Op, Fault
<1>12. \A h, d : Webhook(h, d) => Up
  BY DEF Webhook, bounds, Op, Fault
<1>13. Crash => Up
  BY DEF Crash, bounds, Op, Fault
<1>2. Up
  <2> HIDE DEF Up
  <2> QED
    BY <1>4, <1>5, <1>6, <1>7, <1>8, <1>9, <1>10, <1>11, <1>12, <1>13, Steps
<1> QED
  BY <1>1, <1>2

LEMMA NextType == ASSUME TypeOK, Next PROVE TypeOK'
<1>1. \A i \in Incident, d \in DeskName : ticket'[i][d] \in DOMAIN Inward(d) \cup {None}
  BY TicketTypes DEF TicketFits
<1>2. hooks' \subseteq {h \in Hook : h.status \in DOMAIN Inward(h.desk)}
  BY TicketTypes DEF HookFits
<1> QED
  BY <1>1, <1>2, TaskTypes, RowTypes, MappingTypes, TicketTypes, ReqTypes, JobTypes,
     TalkTypes, CalmTypes, BoundTypes DEF TypeOK

(* Every variable keeps its type: in particular a ticket only ever has a   *)
(* status its help desk knows, whichever table, task or webhook set it.    *)
THEOREM TypeCorrect == Spec => []TypeOK
<1>1. TypeOK /\ UNCHANGED vars => TypeOK'
  BY DEF vars, rowVars, deskVars, talk, ghosts, bounds, TypeOK
<1> QED
  BY InitType, NextType, <1>1, PTL DEF Spec
-----------------------------------------------------------------------------
(* A ticket, once there, stays.                                            *)
LEMMA TicketStays ==
  ASSUME TypeOK, Next, NEW i \in Incident, NEW d \in DeskName, ticket[i][d] # None
  PROVE  ticket'[i][d] # None
<1>1. ASSUME NEW j \in Incident, NEW e \in DeskName, NEW s \in DeskStatus,
             ticket' = [ticket EXCEPT ![j][e] = s]
      PROVE  ticket'[i][d] # None
  BY <1>1, NoneAssumption DEF TypeOK
<1>2. ASSUME NEW j \in Incident, NEW e \in DeskName, AgentMoves(j, e)
      PROVE  ticket'[i][d] # None
  BY <1>1, <1>2, Tables DEF AgentMoves
<1>3. ASSUME NEW t \in Task, NEW e \in DeskName, Post(t, e) \/ PostFails(t, e)
      PROVE  ticket'[i][d] # None
  <2>1. task[t].inc \in Incident /\ Opening(e) \in DeskStatus
    BY <1>3, PushedIncident, Tables DEF Post, PostFails
  <2> QED
    BY <1>1, <1>3, <2>1 DEF Post, PostFails, Ticketed
<1>4. ASSUME NEW t \in Task, NEW e \in DeskName, Put(t, e) \/ PutFails(t, e)
      PROVE  ticket'[i][d] # None
  <2>1. task[t].inc \in Incident /\ Outward(e)[task[t].status] \in DeskStatus
    BY <1>4, UpdatedIncident, Tables DEF Put, PutFails
  <2> QED
    BY <1>1, <1>4, <2>1 DEF Put, PutFails, Sets
<1> QED
  BY <1>2, <1>3, <1>4, Steps, Frames

(* MappedIsReal is not inductive by itself: a push that has created its    *)
(* ticket must have it still when it writes the row.                       *)
Pushed(t) == task[t].kind = "push" /\ task[t].pc \in {"map", "stamp", "log"}
TicketBehind ==
  /\ MappedIsReal
  /\ \A t \in Task, d \in DeskName :
       Pushed(t) /\ Head(task[t].todo) = d => ticket[task[t].inc][d] # None

LEMMA TicketBehindInit == Init => TicketBehind
<1> SUFFICES ASSUME Init PROVE TicketBehind
  OBVIOUS
<1>1. \A i \in Incident, d \in DeskName : HasTicketId(i, d) => ticket[i][d] # None
  <2>1. PICK pushed \in SUBSET Incident :
          /\ mapping = [i \in Incident |-> [d \in DeskName |->
                         IF i \in pushed /\ d \in enabled THEN "synced" ELSE "none"]]
          /\ ticket = [i \in Incident |-> [d \in DeskName |->
                        IF i \in pushed /\ d \in enabled THEN Opening(d) ELSE None]]
    BY DEF Init
  <2>2. \A d \in DeskName : Opening(d) # None
    BY Tables
  <2> QED
    BY <2>1, <2>2 DEF HasTicketId
<1>2. \A t \in Task : ~Pushed(t)
  BY DEF Init, IdleTask, Pushed
<1> QED
  BY <1>1, <1>2 DEF TicketBehind, MappedIsReal

(* Who writes a row: with a ticket id only if there was one, or after the  *)
(* ticket.                                                                 *)
LEMMA MappedStep ==
  ASSUME TypeOK, TicketBehind, Next, NEW i \in Incident, NEW d \in DeskName,
         HasTicketId(i, d)'
  PROVE  ticket[i][d] # None
<1> SUFFICES ASSUME ~HasTicketId(i, d) PROVE ticket[i][d] # None
  BY DEF TicketBehind, MappedIsReal
<1>6. mapping' # mapping
  BY DEF HasTicketId
<1>1. ASSUME NEW t \in Task, NEW e \in DeskName, NEW m \in Mapping, Mapped(t, e, m)
      PROVE  task[t].inc = i /\ e = d /\ m \in {"synced", "kept"}
  BY <1>1 DEF Mapped, HasTicketId, TypeOK
<1>2. ASSUME NEW t \in Task, NEW e \in DeskName, Failed(t, e) PROVE FALSE
  <2>1. (IF HasTicketId(task[t].inc, e) THEN "kept" ELSE "error") \in Mapping
    BY DEF Mapping
  <2>2. task[t].inc = i /\ e = d
        /\ (IF HasTicketId(task[t].inc, e) THEN "kept" ELSE "error") \in {"synced", "kept"}
    BY <1>1, <1>2, <2>1 DEF Failed
  <2> QED
    BY <2>2
<1>3. ASSUME NEW t \in Task, NEW e \in DeskName, Map(t, e)
      PROVE  ticket[i][d] # None
  <2>1. task[t].inc = i /\ e = d
    BY <1>1, <1>3 DEF Map, Mapping
  <2>2. Pushed(t) /\ Head(task[t].todo) = e
    BY <1>3 DEF Map, Pushing, Pushed
  <2> QED
    BY <2>1, <2>2 DEF TicketBehind
<1>4. ASSUME NEW t \in Task, NEW e \in DeskName, Mark(t, e) PROVE FALSE
  <2> DEFINE j == task[t].inc
             m == IF mapping[j][e] = "error" THEN "error" ELSE "synced"
  <2>1. j \in Incident
    BY <1>4, UpdatedIncident DEF Mark
  <2>2. mapping[j][e] # "none" /\ mapping' = [mapping EXCEPT ![j][e] = m]
    BY <1>4, <1>6 DEF Mark
  <2> HIDE DEF j
  <2>3. mapping'[i][d] = IF i = j /\ d = e THEN m ELSE mapping[i][d]
    BY <2>1, <2>2 DEF TypeOK
  <2>4. mapping[j][e] \in {"synced", "error", "kept"}
    BY <2>1, <2>2 DEF TypeOK, Mapping
  <2> QED
    BY <2>3, <2>4 DEF HasTicketId
<1>5. ASSUME NEW t \in Task, NEW e \in DeskName, PostFails(t, e) \/ PushFails(t, e)
      PROVE  FALSE
  BY <1>2, <1>5, <1>6 DEF PostFails, PushFails
<1> QED
  BY <1>3, <1>4, <1>5, <1>6, Steps, Frames

(* Who has pushed: the task that has just created its ticket, or one that  *)
(* had before.                                                             *)
LEMMA PushedStep ==
  ASSUME TypeOK, Next, NEW t \in Task, Pushed(t)'
  PROVE  /\ task'[t].inc = task[t].inc /\ task'[t].todo = task[t].todo
         /\ Pushed(t) \/ (\E d \in DeskName : Post(t, d))
<1> DEFINE Same == /\ task'[t].inc = task[t].inc /\ task'[t].todo = task[t].todo
                   /\ Pushed(t) \/ (\E d \in DeskName : Post(t, d))
<1>1. ASSUME task'[t] = task[t] PROVE Same
  BY <1>1 DEF Pushed
<1>2. ASSUME NEW rows, Spawn(rows), \A row \in rows : row.kind # "push" \/ row.pc = "post"
      PROVE  Same
  BY <1>1, <1>2, Spawned DEF Pushed
<1>3. ASSUME NEW i \in Incident, NEW s \in AskedStatus,
             UpdateStatus(i, s) \/ PatchIncident(i, s)
      PROVE  Same
  BY <1>2, <1>3 DEF UpdateStatus, PatchIncident, UpdateOf
<1>4. ASSUME NEW r \in Request, CreateCommit(r) PROVE Same
  BY <1>2, <1>4 DEF CreateCommit, PushOf
<1>5. ASSUME NEW u \in Task, NEW row, Work(u, row)
      PROVE  task'[t] = IF u = t THEN row ELSE task[t]
  BY <1>5 DEF Work, TypeOK
<1>6. ASSUME NEW u \in Task, NEW d \in DeskName,
             \/ Post(u, d) \/ Map(u, d) \/ Stamp(u, d) \/ StampFails(u, d)
      PROVE  Same
  <2>1. task[u] \in TaskRow /\ task[u].kind = "push"
    BY <1>6 DEF Post, Map, Stamp, StampFails, Pushing, TypeOK
  <2>2. \E p \in {"map", "stamp", "log"} : Work(u, [task[u] EXCEPT !.pc = p])
    BY <1>6 DEF Post, Map, Stamp, StampFails
  <2>3. PICK p \in {"map", "stamp", "log"} :
          task'[t] = IF u = t THEN [task[u] EXCEPT !.pc = p] ELSE task[t]
    BY <1>5, <2>2
  <2>4. Post(u, d) \/ Pushed(u)
    BY <1>6 DEF Map, Stamp, StampFails, Pushing, Pushed
  <2>5. CASE u = t
    BY <2>1, <2>3, <2>4, <2>5 DEF TaskRow, IdleTask
  <2> QED
    BY <1>1, <2>3, <2>5
<1>7. ASSUME NEW u \in Task, NEW d \in DeskName,
             PostFails(u, d) \/ Log(u, d) \/ PushFails(u, d)
      PROVE  Same
  <2>1. task'[t] = IF u = t THEN IdleTask ELSE task[t]
    BY <1>5, <1>7 DEF PostFails, Log, PushFails
  <2> QED
    BY <1>1, <2>1 DEF Pushed, IdleTask
<1>8. ASSUME NEW u \in Task, FindIncident(u) \/ \E d \in DeskName :
               Look(u, d) \/ Put(u, d) \/ Mark(u, d) \/ PutFails(u, d)
      PROVE  Same
  <2>1. task[u] \in TaskRow /\ task[u].kind = "update"
    <3>1. task[u] \in TaskRow
      BY DEF TypeOK
    <3>2. CASE FindIncident(u)
      BY <3>1, <3>2 DEF FindIncident, TaskRow, IdleTask
    <3> QED
      BY <1>8, <3>1, <3>2 DEF Look, Put, Mark, PutFails, Updating
  <2>2. PICK row : row.kind # "push" /\ task'[t] = IF u = t THEN row ELSE task[t]
    <3>1. \A p \in {"look", "put", "mark"} : [task[u] EXCEPT !.pc = p].kind # "push"
      BY <2>1 DEF TaskRow, IdleTask
    <3>2. IdleTask.kind # "push" /\ Rest(task[u]).kind # "push"
      BY <2>1 DEF Rest, TaskRow, IdleTask
    <3> QED
      BY <1>5, <1>8, <3>1, <3>2 DEF FindIncident, Look, Put, Mark, PutFails
  <2> QED
    BY <1>1, <2>2 DEF Pushed
<1>9. ASSUME Crash PROVE Same
  BY <1>9 DEF Crash, IdleTask, Pushed
<1> HIDE DEF Same
<1>10. Same
  <2>1. task' = task \/ Same
    BY <1>3, <1>4, <1>6, <1>7, <1>8, <1>9, Steps, Frames
  <2> QED
    BY <1>1, <2>1
<1> QED
  BY <1>10 DEF Same

LEMMA TicketBehindNext == ASSUME TypeOK, TicketBehind, Next PROVE TicketBehind'
<1>1. MappedIsReal'
  BY MappedStep, TicketStays DEF MappedIsReal
<1>2. ASSUME NEW t \in Task, NEW d \in DeskName, Pushed(t)', (Head(task[t].todo) = d)'
      PROVE  (ticket[task[t].inc][d] # None)'
  <2>1. /\ task'[t].inc = task[t].inc /\ Head(task[t].todo) = d
        /\ Pushed(t) \/ (\E e \in DeskName : Post(t, e))
    BY <1>2, PushedStep
  <2>2. CASE Pushed(t)
    <3>1. task[t].inc \in Incident
      BY <2>2 DEF Pushed, TypeOK, TaskRow, IdleTask
    <3> QED
      BY <2>1, <2>2, <3>1, TicketStays DEF TicketBehind
  <2>3. ASSUME NEW e \in DeskName, Post(t, e)
        PROVE  ticket'[task[t].inc][d] # None
    <3>1. task[t].inc \in Incident /\ e = d /\ Opening(d) # None
      BY <2>1, <2>3, PushedIncident, Tables DEF Post, Pushing
    <3> QED
      BY <2>3, <3>1 DEF Post, Ticketed, TypeOK
  <2> QED
    BY <2>1, <2>2, <2>3
<1> QED
  BY <1>1, <1>2 DEF TicketBehind

(* Every row with a ticket id has its ticket, from the moment it says so,  *)
(* through lost answers, failed updates, webhooks and crashes.             *)
THEOREM MappedCorrect == Spec => []MappedIsReal
<1>1. TicketBehind /\ UNCHANGED vars => TicketBehind'
  BY DEF vars, rowVars, deskVars, TicketBehind, MappedIsReal, HasTicketId, Pushed
<1>2. TicketBehind => MappedIsReal
  BY DEF TicketBehind
<1> QED
  BY TypeCorrect, TicketBehindInit, TicketBehindNext, <1>1, <1>2, PTL DEF Spec
-----------------------------------------------------------------------------
(* A comment is recorded by the request that has posted it.                *)
PostedIsNoted ==
  /\ NoteTold
  /\ \A r \in Request : req[r].op = "record" => <<req[r].inc, req[r].desk>> \in notes

LEMMA PostedInit == Init => PostedIsNoted
<1> SUFFICES ASSUME Init PROVE PostedIsNoted
  OBVIOUS
<1>1. timeline = {} /\ told = {}
  BY DEF Init
<1>2. \A r \in Request : req[r].op # "record"
  BY DEF Init, NoReq
<1> QED
  BY <1>1, <1>2 DEF PostedIsNoted, NoteTold

LEMMA PostedNext == ASSUME TypeOK, PostedIsNoted, Next PROVE PostedIsNoted'
<1>1. \A q \in Request : req[q] \in ReqRow
  BY DEF TypeOK
<1>2. ASSUME UNCHANGED <<notes, told, skipped, timeline>>,
             \A q \in Request : req'[q] = req[q] \/ req'[q].op # "record"
      PROVE  PostedIsNoted'
  BY <1>2 DEF PostedIsNoted, NoteTold
<1>3. ASSUME NEW r \in Request, NEW row, row.op # "record", req' = [req EXCEPT ![r] = row],
             UNCHANGED <<notes, told, skipped, timeline>>
      PROVE  PostedIsNoted'
  BY <1>2, <1>3 DEF TypeOK
<1>4. NoReq.op # "record"
  BY DEF NoReq
<1>5. ASSUME NEW r \in Request, CreateCount(r) \/ CreateNamed(r) \/ CreateCommit(r)
                                \/ AnalyzeCommit(r) \/ AnalyzeFails(r)
      PROVE  PostedIsNoted'
  BY <1>3, <1>4, <1>5, Frames DEF CreateCount, CreateNamed, CreateCommit,
     AnalyzeCommit, AnalyzeFails
<1>6. ASSUME NEW r \in Request, NEW i \in Incident, CommentLook(r, i) \/ AnalyzePost(r, i)
      PROVE  PostedIsNoted'
  BY <1>3, <1>6, Frames DEF CommentLook, AnalyzePost
<1>7. ASSUME Crash PROVE PostedIsNoted'
  BY <1>2, <1>4, <1>7, Frames DEF Crash
<1>8. ASSUME NEW r \in Request, CommentPost(r) PROVE PostedIsNoted'
  <2>1. /\ notes' = notes \cup {<<req[r].inc, req[r].desk>>}
        /\ req' = [req EXCEPT ![r] = [req[r] EXCEPT !.op = "record"]]
        /\ UNCHANGED <<told, skipped, timeline>>
    BY <1>8, Frames DEF CommentPost
  <2>2. ASSUME NEW q \in Request, req'[q].op = "record"
        PROVE  <<req'[q].inc, req'[q].desk>> \in notes'
    <3>1. CASE q = r
      <4>1. req[r] \in [op : {"comment", "record"}, inc : Incident, desk : DeskName, id : {0}]
        BY <1>1, <1>8 DEF CommentPost, ReqRow, NoReq
      <4>2. req'[q] = [req[r] EXCEPT !.op = "record"]
        BY <2>1, <3>1 DEF TypeOK
      <4>3. req'[q].inc = req[r].inc /\ req'[q].desk = req[r].desk
        BY <4>1, <4>2
      <4> QED
        BY <2>1, <4>3
    <3>2. CASE q # r
      BY <2>1, <2>2, <3>2 DEF PostedIsNoted, TypeOK
    <3> QED
      BY <3>1, <3>2
  <2> QED
    BY <2>1, <2>2 DEF PostedIsNoted, NoteTold
<1>9. ASSUME NEW r \in Request, CommentRecord(r) PROVE PostedIsNoted'
  <2> DEFINE c == <<req[r].inc, req[r].desk>>
  <2>1. c \in notes
    BY <1>9 DEF CommentRecord, PostedIsNoted
  <2>2. /\ timeline' = timeline \cup {<<req[r].inc, req[r].desk, "outbound">>}
        /\ told' = told \cup {c} /\ UNCHANGED <<notes, skipped>> /\ req' = [req EXCEPT ![r] = NoReq]
    BY <1>9, Frames DEF CommentRecord
  <2>3. \A n \in timeline' : n[3] = "outbound" => <<n[1], n[2]>> \in notes'
    BY <2>1, <2>2 DEF PostedIsNoted, NoteTold
  <2>4. \A n \in told' \ notes' : n[2] \in {"freshdesk", "servicenow"} \/ n \in skipped'
    BY <2>1, <2>2 DEF PostedIsNoted, NoteTold
  <2>5. \A q \in Request : req'[q].op = "record" => <<req'[q].inc, req'[q].desk>> \in notes'
    BY <1>4, <2>2 DEF PostedIsNoted, TypeOK
  <2> QED
    BY <2>3, <2>4, <2>5 DEF PostedIsNoted, NoteTold
<1>10. ASSUME NEW r \in Request, CommentFails(r) PROVE PostedIsNoted'
  <2> DEFINE c == <<req[r].inc, req[r].desk>>
  <2>1. /\ notes \subseteq notes' /\ timeline' = timeline /\ req' = [req EXCEPT ![r] = NoReq]
        /\ skipped' = skipped
        /\ \/ told' = told
           \/ told' = told \cup {c} /\ req[r].desk \in {"freshdesk", "servicenow"}
    BY <1>10, Frames DEF CommentFails, SwallowsError
  <2>2. \A n \in told' \ notes' : n[2] \in {"freshdesk", "servicenow"} \/ n \in skipped'
    BY <2>1 DEF PostedIsNoted, NoteTold
  <2>3. \A q \in Request : req'[q].op = "record" => <<req'[q].inc, req'[q].desk>> \in notes'
    BY <1>4, <2>1 DEF PostedIsNoted, TypeOK
  <2>4. \A n \in timeline' : n[3] = "outbound" => <<n[1], n[2]>> \in notes'
    BY <2>1 DEF PostedIsNoted, NoteTold
  <2> QED
    BY <2>2, <2>3, <2>4 DEF PostedIsNoted, NoteTold
<1>11. ASSUME NEW h \in hooks, NEW d \in DeskName, Webhook(h, d) PROVE PostedIsNoted'
  <2>1. /\ UNCHANGED <<notes, told, skipped, req>>
        /\ timeline' \subseteq timeline \cup {<<h.inc, d, "inbound">>}
    BY <1>11, Frames DEF Webhook
  <2> QED
    BY <2>1 DEF PostedIsNoted, NoteTold
<1>12. ASSUME NEW r \in Request, CommentSkipped(r) PROVE PostedIsNoted'
  <2> DEFINE c == <<req[r].inc, req[r].desk>>
  <2>1. /\ told' = told \cup {c} /\ skipped' = skipped \cup {c}
        /\ UNCHANGED <<notes, timeline>> /\ req' = [req EXCEPT ![r] = NoReq]
    BY <1>12, Frames DEF CommentSkipped
  <2>2. \A q \in Request : req'[q].op = "record" => <<req'[q].inc, req'[q].desk>> \in notes'
    BY <1>4, <2>1 DEF PostedIsNoted, TypeOK
  <2> QED
    BY <2>1, <2>2 DEF PostedIsNoted, NoteTold
<1> QED
  BY <1>2, <1>5, <1>6, <1>7, <1>8, <1>9, <1>10, <1>11, <1>12, Steps, Frames

(* The timeline never shows a comment the ticket lacks.  An analyst is     *)
(* told of one only when no configuration was found for its help desk, or  *)
(* by the two connectors that hide a call that failed.                     *)
THEOREM NoteCorrect == Spec => []NoteTold
<1>1. PostedIsNoted /\ UNCHANGED vars => PostedIsNoted'
  BY DEF vars, talk, PostedIsNoted, NoteTold
<1>2. PostedIsNoted => NoteTold
  BY DEF PostedIsNoted
<1> QED
  BY TypeCorrect, PostedInit, PostedNext, <1>1, <1>2, PTL DEF Spec
-----------------------------------------------------------------------------
(* No incident that nobody closed is closed anywhere: in its row, at a     *)
(* help desk, in a task on its way out or in a webhook on its way in.      *)
NeverClosed(i) ==
  /\ status[i] \notin Closed
  /\ \A d \in DeskName : ticket[i][d] # None => Inward(d)[ticket[i][d]] \notin Closed
  /\ \A t \in Task : task[t].kind = "update" /\ task[t].inc = i => task[t].status \notin Closed
  /\ \A h \in hooks : h.inc = i => Inward(h.desk)[h.status] \notin Closed
OnlyClosedByHand == \A i \in Incident \ ended : NeverClosed(i)

LEMMA ByHandInit == Init => OnlyClosedByHand
<1> SUFFICES ASSUME Init, NEW i \in Incident PROVE NeverClosed(i)
  BY DEF OnlyClosedByHand
<1>1. PICK pushed \in SUBSET Incident :
        /\ status = [j \in Incident |-> CASE ticketId[j] = 0 -> None
                                          [] j \in pushed -> "sent to customer"
                                          [] OTHER -> "new"]
        /\ ticket = [j \in Incident |-> [d \in DeskName |->
                       IF j \in pushed /\ d \in enabled THEN Opening(d) ELSE None]]
  BY DEF Init
<1>2. status[i] \notin Closed
  BY <1>1, NoneAssumption DEF Closed, Status
<1>3. \A d \in DeskName : ticket[i][d] # None => Inward(d)[ticket[i][d]] \notin Closed
  BY <1>1, Tables
<1>4. \A t \in Task : task[t].kind # "update"
  BY DEF Init, IdleTask
<1>5. hooks = {}
  BY DEF Init
<1> QED
  BY <1>2, <1>3, <1>4, <1>5 DEF NeverClosed

LEMMA EndedGrows == ASSUME Next PROVE ended \subseteq ended'
<1>1. \A i, s : UpdateStatus(i, s) \/ PatchIncident(i, s) => ended \subseteq ended'
  BY DEF UpdateStatus, PatchIncident, Commit
<1>2. \A r : CreateCommit(r) => ended \subseteq ended'
  BY DEF CreateCommit
<1>3. \A i, d : AgentMoves(i, d) => ended \subseteq ended'
  BY DEF AgentMoves
<1> QED
  BY <1>1, <1>2, <1>3, Steps, Frames

(* An update task carries the status of the request that started it.       *)
LEMMA UpdateStep ==
  ASSUME TypeOK, Next, NEW t \in Task, (task[t].kind = "update")'
  PROVE  \/ /\ task[t].kind = "update"
            /\ task'[t].inc = task[t].inc /\ task'[t].status = task[t].status
         \/ \E i \in Incident, s \in AskedStatus :
              /\ UpdateStatus(i, s) \/ PatchIncident(i, s)
              /\ task'[t].inc = i /\ task'[t].status = s
<1> DEFINE Same == /\ task[t].kind = "update"
                   /\ task'[t].inc = task[t].inc /\ task'[t].status = task[t].status
           Asked == \E i \in Incident, s \in AskedStatus :
                      /\ UpdateStatus(i, s) \/ PatchIncident(i, s)
                      /\ task'[t].inc = i /\ task'[t].status = s
<1>1. ASSUME task'[t] = task[t] PROVE Same
  BY <1>1
<1>2. ASSUME NEW i \in Incident, NEW s \in AskedStatus,
             UpdateStatus(i, s) \/ PatchIncident(i, s)
      PROVE  Same \/ Asked
  <2>1. PICK rows : Spawn(rows) /\ \A row \in rows : row.inc = i /\ row.status = s
    BY <1>2 DEF UpdateStatus, PatchIncident, UpdateOf
  <2> QED
    BY <1>1, <1>2, <2>1, Spawned
<1>3. ASSUME NEW r \in Request, CreateCommit(r) PROVE Same
  <2>1. PICK rows : Spawn(rows) /\ \A row \in rows : row.kind = "push"
    BY <1>3 DEF CreateCommit, PushOf
  <2> QED
    BY <1>1, <2>1, Spawned
<1>4. ASSUME NEW u \in Task, NEW row, Work(u, row)
      PROVE  task'[t] = IF u = t THEN row ELSE task[t]
  BY <1>4 DEF Work, TypeOK
<1>5. task[t] \in TaskRow
  BY DEF TypeOK
<1>6. ASSUME NEW u \in Task, NEW p, Work(u, [task[u] EXCEPT !.pc = p])
      PROVE  Same
  BY <1>4, <1>5, <1>6 DEF TaskRow, IdleTask
<1>7. ASSUME NEW u \in Task, Work(u, IdleTask) PROVE Same
  BY <1>1, <1>4, <1>7 DEF IdleTask
<1>8. ASSUME NEW u \in Task, Work(u, Rest(task[u])) PROVE Same
  <2>1. task'[t] = IF u = t THEN Rest(task[t]) ELSE task[t]
    BY <1>4, <1>8
  <2>2. CASE Rest(task[t]) = IdleTask
    BY <1>1, <2>1, <2>2 DEF IdleTask
  <2>3. CASE Rest(task[t]) = [task[t] EXCEPT !.todo = Tail(task[t].todo), !.pc = "look"]
    BY <1>1, <1>5, <2>1, <2>3 DEF TaskRow, IdleTask
  <2> QED
    BY <2>2, <2>3 DEF Rest
<1>9. ASSUME Crash PROVE Same
  BY <1>9 DEF Crash, IdleTask
<1> HIDE DEF Same, Asked
<1>10. ASSUME NEW u \in Task, NEW d \in DeskName,
             \/ Post(u, d) \/ PostFails(u, d) \/ Map(u, d) \/ Stamp(u, d)
             \/ StampFails(u, d) \/ Log(u, d) \/ PushFails(u, d)
       PROVE  Same
  BY <1>6, <1>7, <1>10 DEF Post, PostFails, Map, Stamp, StampFails, Log, PushFails
<1>11. ASSUME NEW u \in Task, NEW d \in DeskName,
             Look(u, d) \/ Put(u, d) \/ Mark(u, d) \/ PutFails(u, d)
       PROVE  Same
  BY <1>6, <1>8, <1>11 DEF Look, Put, Mark, PutFails
<1>12. ASSUME NEW u \in Task, FindIncident(u) PROVE Same
  BY <1>6, <1>7, <1>12 DEF FindIncident
<1>13. task' = task \/ Same \/ Asked
  BY <1>2, <1>3, <1>9, <1>10, <1>11, <1>12, Steps, Frames
<1> QED
  BY <1>1, <1>13 DEF Same, Asked

LEMMA ByHandStatus ==
  ASSUME TypeOK, OnlyClosedByHand, Next, NEW i \in Incident \ ended'
  PROVE  status'[i] \notin Closed
<1>1. status[i] \notin Closed /\ None \notin Closed
  BY EndedGrows, NoneAssumption DEF OnlyClosedByHand, NeverClosed, Status
<1>2. ASSUME NEW j \in Incident, NEW s, status' = [status EXCEPT ![j] = s],
             j = i => s \notin Closed
      PROVE  status'[i] \notin Closed
  BY <1>1, <1>2 DEF TypeOK
<1>3. ASSUME NEW j \in Incident, NEW s \in AskedStatus,
             UpdateStatus(j, s) \/ PatchIncident(j, s)
      PROVE  status'[i] \notin Closed
  <2>1. status' = [status EXCEPT ![j] = s] /\ (s \in Closed => j \in ended')
    BY <1>3 DEF UpdateStatus, PatchIncident, Commit
  <2> QED
    BY <1>2, <2>1
<1>4. ASSUME NEW r \in Request, CreateCommit(r) PROVE status'[i] \notin Closed
  <2>1. PICK j \in Incident, s \in AskedStatus :
          status' = [status EXCEPT ![j] = s] /\ (s \in Closed => j \in ended')
    BY <1>4 DEF CreateCommit
  <2> QED
    BY <1>2, <2>1
<1>5. ASSUME NEW j \in Incident, DeleteIncident(j) PROVE status'[i] \notin Closed
  BY <1>1, <1>2, <1>5 DEF DeleteIncident
<1>6. ASSUME NEW r \in Request, AnalyzeCommit(r) PROVE status'[i] \notin Closed
  BY <1>1, <1>6 DEF AnalyzeCommit, Closed, TypeOK
<1>7. ASSUME NEW t \in Task, NEW d \in DeskName, Stamp(t, d) PROVE status'[i] \notin Closed
  BY <1>1, <1>7 DEF Stamp, Closed, TypeOK
<1>8. ASSUME NEW h \in hooks, NEW d \in DeskName, Webhook(h, d)
      PROVE  status'[i] \notin Closed
  <2>1. h.inc \in Incident /\ h.desk = d
    BY <1>8 DEF Webhook, TypeOK, Hook
  <2>2. h.inc = i => Inward(d)[h.status] \notin Closed
    BY <2>1, EndedGrows DEF OnlyClosedByHand, NeverClosed
  <2>3. status' = status \/ status' = [status EXCEPT ![h.inc] = Inward(d)[h.status]]
    BY <1>8 DEF Webhook
  <2> QED
    BY <1>1, <1>2, <2>1, <2>2, <2>3
<1> QED
  BY <1>1, <1>3, <1>4, <1>5, <1>6, <1>7, <1>8, Steps, Frames

LEMMA ByHandTickets ==
  ASSUME TypeOK, OnlyClosedByHand, Next, NEW i \in Incident \ ended'
  PROVE  /\ \A d \in DeskName : ticket'[i][d] # None => Inward(d)[ticket'[i][d]] \notin Closed
         /\ \A h \in hooks' : h.inc = i => Inward(h.desk)[h.status] \notin Closed
<1> DEFINE Out == \A d \in DeskName :
                    ticket'[i][d] # None => Inward(d)[ticket'[i][d]] \notin Closed
           Back == \A h \in hooks' : h.inc = i => Inward(h.desk)[h.status] \notin Closed
<1>1. /\ \A d \in DeskName : ticket[i][d] # None => Inward(d)[ticket[i][d]] \notin Closed
      /\ \A h \in hooks : h.inc = i => Inward(h.desk)[h.status] \notin Closed
      /\ \A t \in Task : task[t].kind = "update" /\ task[t].inc = i
                          => task[t].status \notin Closed
  BY EndedGrows DEF OnlyClosedByHand, NeverClosed
<1>2. ASSUME ticket' = ticket PROVE Out
  BY <1>1, <1>2
<1>3. ASSUME NEW j \in Incident, NEW d \in DeskName, NEW s \in DOMAIN Inward(d),
             ticket' = [ticket EXCEPT ![j][d] = s], j = i => Inward(d)[s] \notin Closed
      PROVE  Out
  BY <1>1, <1>3 DEF TypeOK
<1>4. ASSUME hooks' \subseteq hooks PROVE Back
  BY <1>1, <1>4
<1>5. ASSUME NEW j \in Incident, NEW d \in DeskName, NEW s, NEW n,
             hooks' \in {hooks, hooks \cup {[inc |-> j, desk |-> d, status |-> s, note |-> n]}},
             j = i => Inward(d)[s] \notin Closed
      PROVE  Back
  BY <1>1, <1>5
<1> HIDE DEF Out, Back
<1>6. ASSUME NEW j \in Incident, NEW d \in DeskName, AgentMoves(j, d) PROVE Out /\ Back
  <2>1. PICK s \in DeskMoves \cap DOMAIN Inward(d), n \in BOOLEAN :
          /\ ticket' = [ticket EXCEPT ![j][d] = s]
          /\ hooks' = hooks \cup {[inc |-> j, desk |-> d, status |-> s, note |-> n]}
          /\ Inward(d)[s] \in Closed => j \in ended'
    BY <1>6 DEF AgentMoves
  <2>2. j = i => Inward(d)[s] \notin Closed
    BY <2>1
  <2>3. Out
    BY <1>3, <2>1, <2>2
  <2>4. hooks' \in {hooks, hooks \cup {[inc |-> j, desk |-> d, status |-> s, note |-> n]}}
    BY <2>1
  <2>5. Back
    BY <1>5, <2>2, <2>4
  <2> QED
    BY <2>3, <2>5
<1>7. ASSUME NEW t \in Task, NEW d \in DeskName, Post(t, d) \/ PostFails(t, d)
      PROVE  Out /\ hooks' = hooks
  <2>1. task[t].inc \in Incident
    BY <1>7, PushedIncident DEF Post, PostFails
  <2>2. ticket' = ticket \/ ticket' = [ticket EXCEPT ![task[t].inc][d] = Opening(d)]
    BY <1>7 DEF Post, PostFails, Ticketed
  <2> QED
    BY <1>2, <1>3, <1>7, <2>1, <2>2, Tables, Frames
<1>8. ASSUME NEW t \in Task, NEW d \in DeskName, Put(t, d) \/ PutFails(t, d)
      PROVE  Out /\ Back
  <2> DEFINE s == Outward(d)[task[t].status]
  <2>1. task[t].inc \in Incident /\ task[t].status \in Status /\ s \in DOMAIN Inward(d)
    BY <1>8, UpdatedIncident, Tables DEF Put, PutFails
  <2>2. task[t].kind = "update"
    BY <1>8 DEF Put, PutFails, Updating
  <2>3. task[t].inc = i => Inward(d)[s] \notin Closed
    BY <1>1, <2>1, <2>2, Tables
  <2>4. CASE ticket' = ticket /\ hooks' = hooks
    BY <1>2, <1>4, <2>4
  <2>5. CASE Sets(t, d) /\ Echo(task[t].inc, d)
    <3>1. ticket' = [ticket EXCEPT ![task[t].inc][d] = s]
      BY <2>5 DEF Sets
    <3>2. ticket'[task[t].inc][d] = s
      BY <2>1, <3>1 DEF TypeOK
    <3>3. hooks' \in {hooks, hooks \cup {[inc |-> task[t].inc, desk |-> d, status |-> s,
                                           note |-> FALSE]}}
      BY <2>5, <3>2 DEF Echo
    <3>4. Out
      BY <1>3, <2>1, <2>3, <3>1
    <3>5. Back
      <4> DEFINE j == task[t].inc
                 n == FALSE
      <4> HIDE DEF s, j, n
      <4>1. /\ j \in Incident /\ (j = i => Inward(d)[s] \notin Closed)
            /\ hooks' \in {hooks, hooks \cup {[inc |-> j, desk |-> d, status |-> s,
                                              note |-> n]}}
        BY <2>1, <2>3, <3>3 DEF j, n
      <4> QED
        BY <1>5, <4>1
    <3> QED
      BY <3>4, <3>5
  <2> QED
    BY <1>8, <2>4, <2>5 DEF Put, PutFails
<1>9. ASSUME NEW h \in hooks, NEW d \in DeskName, Webhook(h, d) PROVE Out /\ Back
  BY <1>2, <1>4, <1>9, Frames DEF Webhook
<1>10. (ticket' = ticket /\ hooks' = hooks) \/ (Out /\ (Back \/ hooks' = hooks))
  BY <1>6, <1>7, <1>8, <1>9, Steps, Frames
<1> QED
  BY <1>2, <1>4, <1>10 DEF Out, Back

LEMMA ByHandNext == ASSUME TypeOK, OnlyClosedByHand, Next PROVE OnlyClosedByHand'
<1> SUFFICES ASSUME NEW i \in Incident, i \notin ended' PROVE NeverClosed(i)'
  BY DEF OnlyClosedByHand
<1>1. ASSUME NEW t \in Task, (task[t].kind = "update" /\ task[t].inc = i)'
      PROVE  (task[t].status)' \notin Closed
  <2>1. CASE /\ task[t].kind = "update"
             /\ task'[t].inc = task[t].inc /\ task'[t].status = task[t].status
    BY <1>1, <2>1, EndedGrows DEF OnlyClosedByHand, NeverClosed
  <2>2. ASSUME NEW j \in Incident, NEW s \in AskedStatus,
               UpdateStatus(j, s) \/ PatchIncident(j, s),
               task'[t].inc = j, task'[t].status = s
        PROVE  s \notin Closed
    <3>1. j = i /\ (s \in Closed => j \in ended')
      BY <1>1, <2>2 DEF UpdateStatus, PatchIncident, Commit
    <3> QED
      BY <3>1
  <2> QED
    BY <1>1, <2>1, <2>2, UpdateStep
<1> QED
  BY <1>1, ByHandStatus, ByHandTickets DEF NeverClosed

(* No synchronisation closes an incident: whatever tables, tasks, echoes,  *)
(* webhooks and failures do in any order, an incident or a ticket is       *)
(* closed only after an analyst or an agent has closed it.                 *)
THEOREM ClosedCorrect == Spec => []ClosedHasCause
<1>1. OnlyClosedByHand /\ UNCHANGED vars => OnlyClosedByHand'
  BY DEF vars, rowVars, deskVars, ghosts, OnlyClosedByHand, NeverClosed
<1>2. OnlyClosedByHand => ClosedHasCause
  BY DEF OnlyClosedByHand, NeverClosed, ClosedHasCause
<1> QED
  BY TypeCorrect, ByHandInit, ByHandNext, <1>1, <1>2, PTL DEF Spec
-----------------------------------------------------------------------------
(* Only a creation adds a row, and only a deletion takes one away.         *)
LEMMA ExistingStep ==
  ASSUME TypeOK, Next
  PROVE  \/ Existing' = Existing
         \/ \E r \in Request : CreateCommit(r)
         \/ \E i \in Incident : DeleteIncident(i)
<1>1. ASSUME NEW j \in Incident, NEW s \in Status, Exists(j), status' = [status EXCEPT ![j] = s]
      PROVE  Existing' = Existing
  BY <1>1, NoneAssumption DEF Existing, Exists, TypeOK
<1>2. ASSUME status' = status PROVE Existing' = Existing
  BY <1>2 DEF Existing, Exists
<1>3. ASSUME NEW j \in Incident, NEW s \in AskedStatus,
             UpdateStatus(j, s) \/ PatchIncident(j, s)
      PROVE  Existing' = Existing
  BY <1>1, <1>3, StatusAssumption DEF UpdateStatus, PatchIncident, Commit
<1>4. ASSUME NEW r \in Request, AnalyzeCommit(r) PROVE Existing' = Existing
  <2>1. req[r].inc \in Incident
    <3>1. req[r] \in ReqRow /\ req[r].op = "analyze"
      BY <1>4 DEF AnalyzeCommit, TypeOK
    <3> QED
      BY <3>1 DEF ReqRow, NoReq
  <2>2. "ai triaging" \in Status
    BY DEF Status
  <2> QED
    BY <1>1, <1>2, <1>4, <2>1, <2>2 DEF AnalyzeCommit
<1>5. ASSUME NEW t \in Task, NEW d \in DeskName, Stamp(t, d) PROVE Existing' = Existing
  <2>1. task[t].inc \in Incident
    BY <1>5, PushedIncident DEF Stamp
  <2>2. "sent to customer" \in Status
    BY DEF Status
  <2> QED
    BY <1>1, <1>2, <1>5, <2>1, <2>2 DEF Stamp
<1>6. ASSUME NEW h \in hooks, NEW d \in DeskName, Webhook(h, d) PROVE Existing' = Existing
  <2>1. h.inc \in Incident /\ Inward(d)[h.status] \in Status
    BY <1>6, Tables DEF Webhook, TypeOK, Hook
  <2> QED
    BY <1>1, <1>2, <1>6, <2>1 DEF Webhook
<1> QED
  BY <1>2, <1>3, <1>4, <1>5, <1>6, Steps, Frames

(* While nothing was deleted and no two counted creations overlapped, the  *)
(* counted ids in use are at most the number of rows, and a creation under *)
(* way has an id above all of them.                                        *)
Counted == Existing \ named
Numbered ==
  ~mixed => /\ \A i, j \in Counted : ticketId[i] = ticketId[j] => i = j
            /\ \A i \in Counted : ticketId[i] <= Cardinality(Existing)
            /\ \A r \in Request : req[r].op = "create" =>
                 /\ req[r].id <= Cardinality(Existing) + 1
                 /\ \A i \in Counted : ticketId[i] < req[r].id

LEMMA NumberedInit == Init => Numbered
<1> SUFFICES ASSUME Init PROVE Numbered
  OBVIOUS
<1>1. Cardinality(Incident) \in Nat
  BY FS_CardinalityType, IncidentAssumption
<1>0. \E n \in 0..Cardinality(Incident), pushed \in SUBSET Incident :
        /\ ticketId \in [Incident -> 0..n]
        /\ \A k \in 1..n : \E i \in Incident : ticketId[i] = k
        /\ \A i, j \in Incident : ticketId[i] = ticketId[j] /\ ticketId[i] # 0 => i = j
        /\ \A i \in pushed : ticketId[i] = 1
        /\ status = [i \in Incident |-> CASE ticketId[i] = 0 -> None
                                          [] i \in pushed -> "sent to customer"
                                          [] OTHER -> "new"]
  BY DEF Init
<1>2. PICK n \in Nat :
        /\ ticketId \in [Incident -> 0..n]
        /\ \A k \in 1..n : \E i \in Incident : ticketId[i] = k
        /\ \A i, j \in Incident : ticketId[i] = ticketId[j] /\ ticketId[i] # 0 => i = j
  <2>1. 0..Cardinality(Incident) \subseteq Nat
    BY <1>1
  <2> QED
    BY <1>0, <2>1
<1>3. Existing = {i \in Incident : ticketId[i] # 0}
  <2>1. PICK pushed \in SUBSET Incident :
          /\ \A i \in pushed : ticketId[i] = 1
          /\ status = [i \in Incident |-> CASE ticketId[i] = 0 -> None
                                            [] i \in pushed -> "sent to customer"
                                            [] OTHER -> "new"]
    BY <1>0
  <2>2. None # "sent to customer" /\ None # "new"
    BY NoneAssumption DEF Status
  <2>3. ASSUME NEW j \in pushed PROVE ticketId[j] = 1
    BY <2>1, Zenon
  <2>4. ASSUME NEW i \in Incident PROVE status[i] = None <=> ticketId[i] = 0
    <3>1. status[i] = CASE ticketId[i] = 0 -> None
                        [] i \in pushed -> "sent to customer"
                        [] OTHER -> "new"
      BY <2>1
    <3>2. CASE ticketId[i] # 0
      BY <2>2, <3>1, <3>2
    <3>3. CASE ticketId[i] = 0
      <4>1. i \notin pushed
        BY <2>3, <3>3
      <4>2. status[i] = None
        BY <3>1, <3>3, <4>1
      <4> QED
        BY <3>3, <4>2
    <3> QED
      BY <3>2, <3>3
  <2> QED
    BY <2>4 DEF Existing, Exists
<1>4. n <= Cardinality(Existing)
  <2> DEFINE f == [i \in Existing |-> ticketId[i]]
  <2>1. n \in Nat
    BY <1>1, <1>2
  <2>2. f \in [Existing -> 1..n]
    BY <1>2, <1>3, <2>1
  <2>3. \A k \in 1..n : \E i \in Existing : f[i] = k
    BY <1>2, <1>3, <2>1
  <2>4. f \in Surjection(Existing, 1..n)
    BY <2>2, <2>3 DEF Surjection
  <2> HIDE DEF f
  <2>5. Cardinality(1..n) <= Cardinality(Existing)
    BY <2>4, ExistingFinite, FS_Surjection
  <2>6. Cardinality(1..n) = n
    BY <2>1, FS_Interval
  <2> QED
    BY <2>5, <2>6
<1>5. \A i \in Existing : ticketId[i] <= Cardinality(Existing)
  <2>1. \A i \in Existing : ticketId[i] \in Nat /\ ticketId[i] <= n /\ n \in Nat
    BY <1>1, <1>2, <1>3
  <2> QED
    BY <1>4, <2>1, ExistingFinite
<1>6. \A r \in Request : req[r].op # "create"
  BY DEF Init, NoReq
<1> QED
  BY <1>2, <1>3, <1>5, <1>6 DEF Numbered, Counted

LEMMA NumberedNext == ASSUME TypeOK, Numbered, Next PROVE Numbered'
<1> SUFFICES ASSUME ~mixed' PROVE Numbered'
  BY DEF Numbered
<1>1. ~mixed
  <2>1. \A r : CreateCommit(r) /\ ~mixed' => ~mixed
    BY DEF CreateCommit
  <2>2. \A i : ~DeleteIncident(i)
    BY DEF DeleteIncident
  <2> QED
    BY <2>1, <2>2, Steps, Frames
<1> DEFINE Fresh(row) == row.op = "create" =>
                           /\ row.id <= Cardinality(Existing) + 1
                           /\ \A i \in Counted : ticketId[i] < row.id
<1>2. /\ \A i, j \in Counted : ticketId[i] = ticketId[j] => i = j
      /\ \A i \in Counted : ticketId[i] <= Cardinality(Existing)
      /\ \A r \in Request : Fresh(req[r])
  BY <1>1 DEF Numbered
<1>0. \A j \in Counted : ticketId[j] \in Nat /\ j \in Incident
  BY DEF TypeOK, Existing, Counted
<1> DEFINE n == Cardinality(Existing)
<1>14. n \in Nat
  BY ExistingFinite
<1>15. ASSUME NEW r \in Request PROVE req[r].op \in {"create", "name"} => req[r].id \in Nat
  BY DEF TypeOK, ReqRow, NoReq
<1>3. ASSUME NEW r \in Request, CreateCommit(r) PROVE Numbered'
  <2>1. PICK i \in Incident, s \in AskedStatus :
          /\ ~Exists(i)
          /\ status' = [status EXCEPT ![i] = s]
          /\ ticketId' = [ticketId EXCEPT ![i] = req[r].id]
          /\ named' = IF req[r].op = "name" THEN named \cup {i} ELSE named
    BY <1>3 DEF CreateCommit
  <2>2. /\ req' = [req EXCEPT ![r] = NoReq]
        /\ req[r].op \in {"create", "name"}
        /\ req[r].op = "create" => \A q \in Request \ {r} : req[q].op # "create"
    BY <1>3 DEF CreateCommit
  <2>3. Existing' = Existing \cup {i} /\ i \notin Existing
    BY <2>1, StatusAssumption, NoneAssumption DEF Existing, Exists, TypeOK
  <2>4. Cardinality(Existing') = n + 1
    BY <2>3, ExistingFinite, FS_AddElement
  <2>5. \A j \in Incident : ticketId'[j] = IF j = i THEN req[r].id ELSE ticketId[j]
    BY <2>1 DEF TypeOK
  <2>6. \A j \in Counted : ticketId'[j] = ticketId[j] /\ ticketId[j] <= n + 1
    BY <1>0, <1>2, <1>14, <2>3, <2>5 DEF Counted
  <2>7. \A q \in Request : req'[q].op = "create" => q # r /\ req'[q] = req[q]
    BY <2>2 DEF NoReq, TypeOK
  <2>8. CASE req[r].op = "name"
    <3>1. Counted' \subseteq Counted
      BY <2>1, <2>3, <2>8 DEF Counted
    <3>2. ASSUME NEW q \in Request, req'[q].op = "create"
          PROVE  /\ req'[q].id <= Cardinality(Existing') + 1
                 /\ \A j \in Counted' : ticketId'[j] < req'[q].id
      <4>1. Fresh(req[q]) /\ req[q].op = "create" /\ req'[q].id = req[q].id
        BY <1>2, <2>7, <3>2
      <4>2. req[q].id \in Nat
        BY <1>15, <4>1
      <4> QED
        BY <1>14, <2>4, <2>6, <3>1, <4>1, <4>2
    <3> QED
      BY <1>2, <2>4, <2>6, <3>1, <3>2 DEF Numbered
  <2>9. CASE req[r].op = "create"
    <3>1. Counted' \subseteq Counted \cup {i} /\ i \notin Counted
      BY <2>1, <2>3, <2>9 DEF Counted
    <3>2. \A q \in Request : req'[q].op # "create"
      BY <2>2, <2>7, <2>9
    <3>3. /\ ticketId'[i] = req[r].id /\ req[r].id \in Nat /\ req[r].id <= n + 1
          /\ \A j \in Counted : ticketId[j] < req[r].id
      BY <1>2, <1>15, <2>5, <2>9
    <3>4. \A j, k \in Counted' : ticketId'[j] = ticketId'[k] => j = k
      BY <1>0, <1>2, <2>6, <3>1, <3>3
    <3>5. \A j \in Counted' : ticketId'[j] <= Cardinality(Existing')
      BY <2>4, <2>6, <3>1, <3>3
    <3> QED
      BY <3>2, <3>4, <3>5 DEF Numbered
  <2> QED
    BY <2>2, <2>8, <2>9
<1>16. ASSUME NEW row, row.id = n + 1 PROVE Fresh(row)
  BY <1>0, <1>2, <1>14, <1>16
<1>4. ASSUME Existing' = Existing, UNCHANGED <<ticketId, named>>,
             \A r \in Request : Fresh(req'[r])
      PROVE  Numbered'
  BY <1>2, <1>4 DEF Numbered, Counted
<1> DEFINE Fine == \A q \in Request : Fresh(req'[q])
<1> HIDE DEF Fresh, n
<1>5. ASSUME NEW r \in Request, NEW row, req' = [req EXCEPT ![r] = row], Fresh(row)
      PROVE  Fine
  BY <1>2, <1>5 DEF TypeOK
<1>17. ASSUME NEW row, row.op # "create" PROVE Fresh(row)
  BY <1>17 DEF Fresh
<1>10. ASSUME req' = req PROVE Fine
  BY <1>2, <1>10
<1>9. ASSUME Crash PROVE Fine
  BY <1>9, <1>17 DEF Crash, NoReq
<1> HIDE DEF Fine
<1>18. ASSUME NEW r \in Request, CreateCount(r) PROVE Fine
  BY <1>5, <1>16, <1>18 DEF CreateCount, n
<1>6. ASSUME NEW r \in Request,
             \/ CreateNamed(r) \/ CommentRecord(r) \/ CommentFails(r) \/ CommentSkipped(r)
             \/ AnalyzeCommit(r) \/ AnalyzeFails(r)
      PROVE  Fine
  <2>1. \E row : row.op # "create" /\ req' = [req EXCEPT ![r] = row]
    BY <1>6 DEF CreateNamed, CommentRecord, CommentFails, CommentSkipped, AnalyzeCommit,
       AnalyzeFails, NoReq
  <2> QED
    BY <1>5, <1>17, <2>1
<1>7. ASSUME NEW r \in Request, NEW i \in Incident, CommentLook(r, i) \/ AnalyzePost(r, i)
      PROVE  Fine
  <2>1. \E row : row.op # "create" /\ req' = [req EXCEPT ![r] = row]
    BY <1>7 DEF CommentLook, AnalyzePost
  <2> QED
    BY <1>5, <1>17, <2>1
<1>8. ASSUME NEW r \in Request, CommentPost(r) PROVE Fine
  <2>1. [req[r] EXCEPT !.op = "record"].op # "create"
    BY <1>8 DEF CommentPost, TypeOK, ReqRow, NoReq
  <2> QED
    BY <1>5, <1>8, <1>17, <2>1 DEF CommentPost
<1>11. Fine \/ \E r \in Request : CreateCommit(r)
  BY <1>6, <1>7, <1>8, <1>9, <1>10, <1>18, Steps, Frames
<1>12. UNCHANGED <<ticketId, named>> \/ \E r \in Request : CreateCommit(r)
  BY Steps, Frames
<1>13. \A i : ~DeleteIncident(i)
  BY DEF DeleteIncident
<1> QED
  BY <1>3, <1>4, <1>11, <1>12, <1>13, ExistingStep DEF Fine

(* COUNT + 1 is new among the counted ids unless an incident was deleted   *)
(* or two counted creations overlapped, whatever ids analysts give.        *)
THEOREM NumberCorrect == Spec => []SharedIdHasCause
<1>1. Numbered /\ UNCHANGED vars => Numbered'
  BY DEF vars, rowVars, ghosts, Numbered, Counted, Existing, Exists
<1>2. Numbered => SharedIdHasCause
  BY DEF Numbered, Counted, SharedIdHasCause
<1> QED
  BY TypeCorrect, NumberedInit, NumberedNext, <1>1, <1>2, PTL DEF Spec
-----------------------------------------------------------------------------
(* Of an incident that shares its ticket id with no other, every request   *)
(* for an analysis that has not committed yet and the pending row have a   *)
(* job each, unless a report of the incident was refused or lost.  An      *)
(* incident without an id was never created: nothing waits for it.         *)
Open(i) == {r \in Request : req[r].op = "analyze" /\ req[r].inc = i}
Waits(i) == IF ai[i] = "pending" THEN 1 ELSE 0
Shared(i) == \E j \in Incident \ {i} : ticketId[j] = ticketId[i]
Begun == \A i \in Incident : ticketId[i] = 0 =>
           ~Exists(i) /\ Open(i) = {} /\ ai[i] # "pending"
HasJobs(i) == i \in refused \/ Shared(i) \/ Cardinality(Open(i)) + Waits(i) <= jobs[i]
Accounted == Begun /\ \A i \in Incident : HasJobs(i)

LEMMA OpenFinite ==
  ASSUME NEW i PROVE IsFiniteSet(Open(i)) /\ Cardinality(Open(i)) \in Nat
<1>1. IsFiniteSet(Open(i))
  BY IncidentAssumption, FS_Subset DEF Open
<1> QED
  BY <1>1, FS_CardinalityType

LEMMA AccountedInit == Init => Accounted
<1> SUFFICES ASSUME Init, NEW i \in Incident
             PROVE  /\ ticketId[i] = 0 => ~Exists(i)
                    /\ Open(i) = {} /\ ai[i] = "none"
                    /\ Cardinality(Open(i)) + Waits(i) <= jobs[i]
  BY DEF Accounted, Begun, HasJobs
<1>1. Open(i) = {}
  BY DEF Init, Open, NoReq
<1>2. Cardinality(Open(i)) = 0
  BY <1>1, FS_EmptySet
<1>3. jobs[i] = 0 /\ ai[i] = "none"
  BY DEF Init
<1>4. Waits(i) = 0
  BY <1>3 DEF Waits
<1>5. ticketId[i] = 0 => ~Exists(i)
  <2>1. PICK pushed \in SUBSET Incident :
          /\ status = [k \in Incident |-> CASE ticketId[k] = 0 -> None
                                            [] k \in pushed -> "sent to customer"
                                            [] OTHER -> "new"]
          /\ \A k \in pushed : ticketId[k] = 1
    BY DEF Init
  <2>2. status[i] = CASE ticketId[i] = 0 -> None
                      [] i \in pushed -> "sent to customer"
                      [] OTHER -> "new"
    BY <2>1
  <2>3. ticketId[i] = 0 => i \notin pushed
    <3>1. ASSUME i \in pushed PROVE ticketId[i] = 1
      BY <2>1, <3>1, Zenon
    <3> QED
      BY <3>1
  <2> QED
    BY <2>2, <2>3 DEF Exists
<1> QED
  BY <1>1, <1>2, <1>3, <1>4, <1>5

(* Who opens or closes a request for an analysis.                          *)
LEMMA OpenStep ==
  ASSUME TypeOK, Next
  PROVE  \/ \A i \in Incident : Open(i)' \subseteq Open(i)
         \/ \E r \in Request, i \in Incident : AnalyzePost(r, i)
<1> DEFINE Fine == \A i \in Incident : Open(i)' \subseteq Open(i)
<1>1. ASSUME NEW r \in Request, NEW row, row.op # "analyze", req' = [req EXCEPT ![r] = row]
      PROVE  Fine
  BY <1>1 DEF Open, TypeOK
<1>2. ASSUME req' = req PROVE Fine
  BY <1>2 DEF Open
<1>3. ASSUME NEW r \in Request,
             \/ CreateCount(r) \/ CreateNamed(r) \/ CreateCommit(r) \/ CommentRecord(r)
             \/ CommentFails(r) \/ CommentSkipped(r) \/ AnalyzeCommit(r) \/ AnalyzeFails(r)
      PROVE  Fine
  <2>1. \E row : row.op # "analyze" /\ req' = [req EXCEPT ![r] = row]
    BY <1>3 DEF CreateCount, CreateNamed, CreateCommit, CommentRecord, CommentFails,
       CommentSkipped, AnalyzeCommit, AnalyzeFails, NoReq
  <2> QED
    BY <1>1, <2>1
<1>4. ASSUME NEW r \in Request, NEW i \in Incident, CommentLook(r, i) PROVE Fine
  BY <1>1, <1>4 DEF CommentLook
<1>5. ASSUME NEW r \in Request, CommentPost(r) PROVE Fine
  <2>1. [req[r] EXCEPT !.op = "record"].op # "analyze"
    BY <1>5 DEF CommentPost, TypeOK, ReqRow, NoReq
  <2> QED
    BY <1>1, <1>5, <2>1 DEF CommentPost
<1>6. ASSUME Crash PROVE Fine
  BY <1>6 DEF Crash, Open, NoReq
<1> HIDE DEF Fine
<1>7. Fine \/ \E r \in Request, i \in Incident : AnalyzePost(r, i)
  BY <1>2, <1>3, <1>4, <1>5, <1>6, Steps, Frames
<1> QED
  BY <1>7 DEF Fine

(* A ticket id is given once and for all.                                  *)
LEMMA IdStays ==
  ASSUME TypeOK, Next, NEW i \in Incident, ticketId[i] # 0
  PROVE  ticketId'[i] = ticketId[i]
<1>1. ASSUME NEW r \in Request, CreateCommit(r) PROVE ticketId'[i] = ticketId[i]
  BY <1>1 DEF CreateCommit, TypeOK
<1> QED
  BY <1>1, Steps, Frames

LEMMA BegunNext == ASSUME TypeOK, Begun, Next PROVE Begun'
<1> SUFFICES ASSUME NEW i \in Incident, ticketId'[i] = 0
             PROVE  ~Exists(i)' /\ Open(i)' = {} /\ ai'[i] # "pending"
  BY DEF Begun
<1>1. ticketId[i] = 0 /\ ~Exists(i) /\ Open(i) = {} /\ ai[i] # "pending"
  BY IdStays DEF Begun
<1>2. ~Exists(i)'
  <2>1. ASSUME NEW r \in Request, CreateCommit(r) PROVE ~Exists(i)'
    <3>1. PICK j \in Incident, s \in AskedStatus :
            /\ status' = [status EXCEPT ![j] = s]
            /\ ticketId' = [ticketId EXCEPT ![j] = req[r].id]
      BY <2>1 DEF CreateCommit
    <3>2. req[r].id # 0
      <4>1. req[r] \in ReqRow /\ req[r].op \in {"create", "name"}
        BY <2>1 DEF CreateCommit, TypeOK
      <4>2. req[r] \in [op : {"create", "name"}, inc : {None}, desk : {None}, id : Nat \ {0}]
        BY <4>1 DEF ReqRow, NoReq
      <4> QED
        BY <4>2
    <3>3. j # i
      BY <3>1, <3>2 DEF TypeOK
    <3> QED
      BY <1>1, <3>1, <3>3 DEF Exists, TypeOK
  <2>2. ASSUME NEW j \in Incident, DeleteIncident(j) PROVE ~Exists(i)'
    BY <1>1, <2>2 DEF DeleteIncident, Exists, TypeOK
  <2>3. Existing' = Existing => ~Exists(i)'
    BY <1>1 DEF Existing
  <2> QED
    BY <2>1, <2>2, <2>3, ExistingStep
<1>3. Open(i)' = {}
  <2>1. ASSUME NEW r \in Request, NEW j \in Incident, AnalyzePost(r, j) PROVE Open(i)' = {}
    <3>1. j # i
      BY <1>1, <2>1 DEF AnalyzePost
    <3>2. req' = [req EXCEPT ![r] = [op |-> "analyze", inc |-> j, desk |-> None,
                                     id |-> ticketId[j]]]
      BY <2>1 DEF AnalyzePost
    <3> QED
      BY <1>1, <3>1, <3>2 DEF Open, TypeOK
  <2> QED
    BY <1>1, <2>1, OpenStep
<1>4. ai'[i] # "pending"
  <2>1. ASSUME NEW r \in Request, AnalyzeCommit(r) PROVE ai'[i] # "pending"
    BY <1>1, <2>1 DEF AnalyzeCommit, TypeOK
  <2>2. ASSUME NEW j \in Incident, Report(j) PROVE ai'[i] # "pending"
    BY <1>1, <2>2 DEF Report, TypeOK, Existing
  <2>3. ASSUME NEW j \in Incident, DeleteIncident(j) PROVE ai'[i] # "pending"
    BY <1>1, <2>3 DEF DeleteIncident, TypeOK
  <2> QED
    BY <1>1, <2>1, <2>2, <2>3, Steps, Frames
<1> QED
  BY <1>2, <1>3, <1>4

LEMMA JobsNext ==
  ASSUME TypeOK, Accounted, Next, NEW i \in Incident PROVE HasJobs(i)'
<1>1. CASE ticketId[i] = 0
  <2>1. ticketId'[i] = 0 => Open(i)' = {} /\ ai'[i] # "pending"
    BY BegunNext DEF Accounted, Begun
  <2>2. ticketId'[i] # 0 => Open(i)' = {} /\ ai'[i] # "pending"
    <3>1. ASSUME ticketId'[i] # 0 PROVE \E r \in Request : CreateCommit(r)
      BY <1>1, <3>1, Steps, Frames
    <3>2. Open(i) = {} /\ ai[i] # "pending"
      BY <1>1 DEF Accounted, Begun
    <3>3. ASSUME NEW r \in Request, CreateCommit(r) PROVE Open(i)' = {} /\ ai' = ai
      <4>1. req' = [req EXCEPT ![r] = NoReq] /\ ai' = ai
        BY <3>3, Frames DEF CreateCommit
      <4> QED
        BY <3>2, <4>1 DEF Open, NoReq, TypeOK
    <3> QED
      BY <3>1, <3>2, <3>3
  <2>3. Cardinality(Open(i)') = 0 /\ Waits(i)' = 0
    BY <2>1, <2>2, FS_EmptySet DEF Waits
  <2>4. jobs'[i] \in Nat
    BY JobTypes
  <2> QED
    BY <2>3, <2>4 DEF HasJobs
<1> SUFFICES ASSUME ticketId[i] # 0, ~Shared(i)'
             PROVE  i \in refused' \/ Cardinality(Open(i)') + Waits(i)' <= jobs'[i]
  BY <1>1 DEF HasJobs
<1> DEFINE Fine == i \notin refused' => Cardinality(Open(i)') + Waits(i)' <= jobs'[i]
<1>3. \A j \in Incident \ {i} : ticketId[j] # ticketId[i]
  BY IdStays DEF Shared
<1>2. /\ i \notin refused => Cardinality(Open(i)) + Waits(i) <= jobs[i]
      /\ jobs[i] \in Nat /\ Waits(i) \in {0, 1}
  BY <1>3 DEF Accounted, HasJobs, Shared, TypeOK, Waits
<1>5. Cardinality(Open(i)) \in Nat /\ IsFiniteSet(Open(i))
  BY OpenFinite
<1>6. ASSUME Open(i)' \subseteq Open(i)
      PROVE  Cardinality(Open(i)') \in Nat /\ Cardinality(Open(i)') <= Cardinality(Open(i))
  BY <1>5, <1>6, FS_Subset, FS_CardinalityType
<1>7. ASSUME Open(i)' \subseteq Open(i), UNCHANGED jobs, refused \subseteq refused', ai'[i] = ai[i]
      PROVE  Fine
  <2>1. Waits(i)' = Waits(i)
    BY <1>7 DEF Waits
  <2> QED
    BY <1>2, <1>5, <1>6, <1>7, <2>1
<1>8. ASSUME NEW r \in Request, NEW j \in Incident, AnalyzePost(r, j) PROVE Fine
  <2>1. /\ req[r] = NoReq /\ Exists(j) /\ jobs' = [jobs EXCEPT ![j] = jobs[j] + 1]
        /\ req' = [req EXCEPT ![r] = [op |-> "analyze", inc |-> j, desk |-> None,
                                      id |-> ticketId[j]]]
        /\ UNCHANGED <<ai, refused>>
    BY <1>8, Frames DEF AnalyzePost
  <2>2. Waits(i)' = Waits(i)
    BY <2>1 DEF Waits
  <2>3. CASE i = j
    <3>1. Open(i)' = Open(i) \cup {r} /\ r \notin Open(i)
      BY <2>1, <2>3 DEF Open, NoReq, TypeOK
    <3>2. Cardinality(Open(i)') = Cardinality(Open(i)) + 1
      BY <1>5, <3>1, FS_AddElement
    <3>3. jobs'[i] = jobs[i] + 1
      BY <2>1, <2>3 DEF TypeOK
    <3> QED
      BY <1>2, <1>5, <2>1, <2>2, <2>3, <3>2, <3>3
  <2>4. CASE i # j
    <3>1. Open(i)' \subseteq Open(i)
      BY <2>1, <2>4 DEF Open, TypeOK
    <3>2. jobs'[i] = jobs[i]
      BY <2>1, <2>4 DEF TypeOK
    <3> QED
      BY <1>2, <1>5, <1>6, <2>1, <2>2, <3>1, <3>2
  <2> QED
    BY <2>3, <2>4
<1>9. ASSUME NEW r \in Request, req[r].op = "analyze", req[r].inc = i,
             req' = [req EXCEPT ![r] = NoReq]
      PROVE  /\ Cardinality(Open(i)') = Cardinality(Open(i)) - 1
             /\ Cardinality(Open(i)) # 0
  <2>1. r \in Open(i) /\ Open(i)' = Open(i) \ {r}
    BY <1>9 DEF Open, NoReq, TypeOK
  <2>2. Cardinality(Open(i)') = Cardinality(Open(i)) - 1
    BY <1>5, <2>1, FS_RemoveElement
  <2>3. Cardinality(Open(i)) # 0
    BY <1>5, <2>1, FS_EmptySet
  <2> QED
    BY <2>2, <2>3
<1>10. ASSUME NEW r \in Request, AnalyzeCommit(r) PROVE Fine
  <2>1. /\ req[r].op = "analyze" /\ req' = [req EXCEPT ![r] = NoReq]
        /\ UNCHANGED <<jobs, refused>>
        /\ ai' = ai \/ ai' = [ai EXCEPT ![req[r].inc] = "pending"]
    BY <1>10, Frames DEF AnalyzeCommit
  <2>2. CASE req[r].inc = i
    <3>1. Waits(i)' \in {0, 1}
      BY DEF Waits
    <3>2. Cardinality(Open(i)') = Cardinality(Open(i)) - 1
      BY <1>9, <2>1, <2>2
    <3>3. jobs'[i] = jobs[i] /\ refused' = refused
      BY <2>1
    <3> QED
      BY <1>2, <1>5, <3>1, <3>2, <3>3
  <2>3. CASE req[r].inc # i
    <3>1. ai'[i] = ai[i]
      BY <2>1, <2>3 DEF TypeOK
    <3>2. Open(i)' \subseteq Open(i)
      BY <2>1, <2>3 DEF Open, NoReq, TypeOK
    <3> QED
      BY <1>7, <2>1, <3>1, <3>2
  <2> QED
    BY <2>2, <2>3
<1>11. ASSUME NEW r \in Request, AnalyzeFails(r) PROVE Fine
  <2> DEFINE m == IF jobs[req[r].inc] = 0 THEN 0 ELSE jobs[req[r].inc] - 1
  <2>1. /\ req[r].op = "analyze" /\ req' = [req EXCEPT ![r] = NoReq]
        /\ UNCHANGED <<ai, refused>>
        /\ jobs' \in {jobs, [jobs EXCEPT ![req[r].inc] = m]}
    BY <1>11, Frames DEF AnalyzeFails
  <2>2. Waits(i)' = Waits(i)
    BY <2>1 DEF Waits
  <2>3. CASE req[r].inc = i
    <3>1. jobs'[i] = jobs[i] \/ jobs'[i] = IF jobs[i] = 0 THEN 0 ELSE jobs[i] - 1
      BY <2>1, <2>3 DEF TypeOK
    <3>2. /\ Cardinality(Open(i)') = Cardinality(Open(i)) - 1
          /\ Cardinality(Open(i)) # 0
      BY <1>9, <2>1, <2>3
    <3> QED
      BY <1>2, <1>5, <2>1, <2>2, <3>1, <3>2
  <2>4. CASE req[r].inc # i
    <3>1. jobs'[i] = jobs[i]
      BY <2>1, <2>4 DEF TypeOK
    <3>2. Open(i)' \subseteq Open(i)
      BY <2>1, <2>4 DEF Open, NoReq, TypeOK
    <3> QED
      BY <1>2, <1>5, <1>6, <2>1, <2>2, <3>1, <3>2
  <2> QED
    BY <2>3, <2>4
<1>12. ASSUME NEW j \in Incident, Report(j) PROVE Fine
  <2>1. /\ jobs[j] > 0 /\ jobs' = [jobs EXCEPT ![j] = jobs[j] - 1]
        /\ req' = req /\ refused \subseteq refused'
    BY <1>12, Frames DEF Report
  <2>2. Open(i)' = Open(i)
    BY <2>1 DEF Open
  <2>3. PICK k \in Incident :
          /\ ticketId[k] = ticketId[j]
          /\ \/ ai[k] = "pending" /\ ai' = [ai EXCEPT ![k] = "completed"]
             \/ ai' = ai /\ j \in refused'
    BY <1>12 DEF Report, Existing
  <2>4. i = k <=> i = j
    BY <1>3, <2>3
  <2>5. CASE i = j
    <3>1. jobs'[i] = jobs[i] - 1
      BY <2>1, <2>5 DEF TypeOK
    <3>2. i \in refused' \/ (Waits(i) = 1 /\ Waits(i)' = 0)
      BY <2>3, <2>4, <2>5 DEF Waits, TypeOK
    <3> QED
      BY <1>2, <1>5, <2>1, <2>2, <2>5, <3>1, <3>2
  <2>6. CASE i # j
    <3>1. jobs'[i] = jobs[i] /\ ai'[i] = ai[i]
      BY <2>1, <2>3, <2>4, <2>6 DEF TypeOK
    <3>2. Waits(i)' = Waits(i)
      BY <3>1 DEF Waits
    <3> QED
      BY <1>2, <2>1, <2>2, <3>1, <3>2
  <2> QED
    BY <2>5, <2>6
<1>13. ASSUME NEW j \in Incident, LoseJob(j) PROVE Fine
  <2>1. /\ jobs[j] > 0 /\ jobs' = [jobs EXCEPT ![j] = jobs[j] - 1]
        /\ refused' = refused \cup {j} /\ UNCHANGED <<req, ai>>
    BY <1>13, Frames DEF LoseJob
  <2>2. Open(i)' = Open(i) /\ Waits(i)' = Waits(i)
    BY <2>1 DEF Open, Waits
  <2>3. i = j \/ jobs'[i] = jobs[i]
    BY <2>1 DEF TypeOK
  <2>4. jobs'[i] <= jobs[i] /\ jobs'[i] \in Nat
    BY <1>2, <2>1 DEF TypeOK
  <2> QED
    BY <1>2, <2>1, <2>2, <2>3, <2>4
<1>17. ASSUME NEW j \in Incident, DeleteIncident(j) PROVE Fine
  <2>1. UNCHANGED <<req, jobs, refused>> /\ ai' = [ai EXCEPT ![j] = "none"]
    BY <1>17, Frames DEF DeleteIncident
  <2>2. Open(i)' = Open(i) /\ Waits(i)' \in {0, Waits(i)}
    BY <2>1 DEF Open, Waits, TypeOK
  <2> QED
    BY <1>2, <1>5, <2>1, <2>2
<1> HIDE DEF Fine
<1>14. ASSUME UNCHANGED <<jobs, refused, ai>>, Open(i)' \subseteq Open(i) PROVE Fine
  BY <1>7, <1>14
<1>15. \/ \E r \in Request, j \in Incident : AnalyzePost(r, j)
       \/ \E r \in Request : AnalyzeCommit(r) \/ AnalyzeFails(r)
       \/ \E j \in Incident : Report(j) \/ LoseJob(j) \/ DeleteIncident(j)
       \/ UNCHANGED <<jobs, refused, ai>>
  BY Steps, Frames
<1>16. Fine
  BY <1>8, <1>10, <1>11, <1>12, <1>13, <1>14, <1>15, <1>17, OpenStep
<1> QED
  BY <1>16 DEF Fine

LEMMA AccountedNext == ASSUME TypeOK, Accounted, Next PROVE Accounted'
BY BegunNext, JobsNext DEF Accounted

(* A pending analysis has a job at work, unless its report was refused or  *)
(* lost or another incident has or had its ticket id: through deletions,   *)
(* crashes, and creations that overlap or come with an id of their own.    *)
THEOREM PendingCorrect == Spec => []PendingHasReason
<1>2. Accounted /\ UNCHANGED vars => Accounted'
  BY DEF vars, rowVars, ghosts, Accounted, Begun, HasJobs, Shared, Open, Waits, Exists
<1>3. TypeOK /\ Accounted => PendingHasReason
  <2> SUFFICES ASSUME TypeOK, Accounted, NEW i \in Incident, ai[i] = "pending",
                      i \notin refused, ~Shared(i)
               PROVE  jobs[i] > 0
    BY DEF PendingHasReason, Existing, Shared
  <2>1. Cardinality(Open(i)) + 1 <= jobs[i] /\ jobs[i] \in Nat
    BY DEF Accounted, HasJobs, Waits, TypeOK
  <2> QED
    BY <2>1, OpenFinite
<1> QED
  BY TypeCorrect, AccountedInit, AccountedNext, <1>2, <1>3, PTL DEF Spec
-----------------------------------------------------------------------------
(* What keeps a calm pair calm: the row and everything still under way for *)
(* the incident say the same about how it ended, and the ticket either     *)
(* says so too or is still to be written by a task that will.              *)
Fits(i, s) == Outcome(s) = Outcome(status[i])
Awaits(row, i, d) ==
  /\ row.kind = "update" /\ row.inc = i
  /\ \E k \in DOMAIN row.todo :
       row.todo[k] = d /\ (k > 1 \/ row.pc \in {"find", "look", "put"})
CalmHolds(i, d) ==
  /\ Exists(i) /\ d \in enabled /\ mapping[i][d] = "synced"
  /\ \A t \in Task : task[t].inc = i => task[t].kind = "update" /\ Fits(i, task[t].status)
  /\ \A h \in hooks : h.inc = i => Fits(i, Inward(h.desk)[h.status])
  /\ Fits(i, Inward(d)[ticket[i][d]]) \/ \E t \in Task : Awaits(task[t], i, d)
CalmIsOnItsWay == \A c \in calm : CalmHolds(c[1], c[2])

(* What ends the calm of an incident.                                      *)
Commits(i) == \E s \in AskedStatus : UpdateStatus(i, s) \/ PatchIncident(i, s)
Disturbs(i) ==
  \/ Commits(i) \/ DeleteIncident(i) \/ Crash
  \/ \E d \in DeskName : AgentMoves(i, d)
  \/ \E r \in Request : AnalyzeCommit(r) /\ req[r].inc = i
  \/ \E t \in Task, d \in DeskName : (Stamp(t, d) \/ PutFails(t, d)) /\ task[t].inc = i

(* Sent out and read back, a status still says whether the incident is     *)
(* closed and how.                                                         *)
LEMMA OutcomeReturns ==
  ASSUME NEW d \in DeskName, NEW s \in Status
  PROVE  Outcome(Inward(d)[Outward(d)[s]]) = Outcome(s)
<1>1. CASE d \in {"freshservice", "freshdesk"}
  <2>1. Inward(d) = FS_STATUS_TO_SOC /\ Outward(d) = STATUS_TO_FS_STATUS
    BY <1>1 DEF Inward, Outward, FD_STATUS_TO_SOC, STATUS_TO_FD_STATUS
  <2>2. /\ FS_STATUS_TO_SOC["open"] = "in_progress"
        /\ FS_STATUS_TO_SOC["pending"] = "sent to customer"
        /\ FS_STATUS_TO_SOC["resolved"] = "resolved"
        /\ FS_STATUS_TO_SOC["closed"] = "false_positive"
    BY DEF FS_STATUS_TO_SOC
  <2>3. /\ s = "resolved" => STATUS_TO_FS_STATUS[s] = "resolved"
        /\ s = "false_positive" => STATUS_TO_FS_STATUS[s] = "closed"
        /\ s \notin Closed => STATUS_TO_FS_STATUS[s] \in {"open", "pending"}
    BY DEF STATUS_TO_FS_STATUS, Status, Closed
  <2> QED
    BY <2>1, <2>2, <2>3 DEF Outcome, Closed
<1>2. CASE d = "servicenow"
  BY <1>2 DEF Inward, Outward, SN_STATE_TO_SOC, STATUS_TO_SN_STATE, Status, Closed, Outcome
<1> QED
  BY <1>1, <1>2 DEF DeskName

(* Every row handed to create_task runs, and the tasks under way go on.    *)
LEMMA SpawnedAll ==
  ASSUME NEW rows, Spawn(rows)
  PROVE  /\ \A x \in rows : \E t \in Task : task'[t] = x
         /\ \A t \in Task : task[t].kind # "idle" => task'[t] = task[t]
<1>1. PICK s \in {f \in [rows -> Free] : \A x, y \in rows : f[x] = f[y] => x = y} :
        task' = [t \in Task |-> IF \E x \in rows : s[x] = t
                                THEN CHOOSE x \in rows : s[x] = t ELSE task[t]]
  BY DEF Spawn
<1>2. ASSUME NEW x \in rows PROVE \E t \in Task : task'[t] = x
  <2>1. s[x] \in Free /\ s[x] \in Task
    BY <1>1 DEF Free
  <2>2. task'[s[x]] = CHOOSE y \in rows : s[y] = s[x]
    BY <1>1, <2>1
  <2>3. (CHOOSE y \in rows : s[y] = s[x]) = x
    BY <1>1
  <2> QED
    BY <2>1, <2>2, <2>3
<1>3. ASSUME NEW t \in Task, task[t].kind # "idle" PROVE task'[t] = task[t]
  <2>1. \A x \in rows : s[x] # t
    BY <1>1, <1>3 DEF Free
  <2> QED
    BY <1>1, <2>1
<1> QED
  BY <1>2, <1>3

(* A pair is calm because it was and nothing disturbed it, or because an   *)
(* analyst has just changed an incident nobody else is busy with.          *)
LEMMA CalmOrigin ==
  ASSUME TypeOK, Next, CalmIsOnItsWay, NEW i \in Incident, NEW d \in DeskName,
         <<i, d>> \in calm'
  PROVE  \/ <<i, d>> \in calm /\ ~Disturbs(i)
         \/ Commits(i) /\ ~Busy(i) /\ d \in enabled /\ mapping[i][d] = "synced"
<1>1. ASSUME NEW j \in Incident, NEW s \in AskedStatus,
             UpdateStatus(j, s) \/ PatchIncident(j, s)
      PROVE  IF j = i THEN ~Busy(i) /\ d \in enabled /\ mapping[i][d] = "synced"
                      ELSE <<i, d>> \in calm
  <2>1. calm' = IF Busy(j) THEN {c \in calm : c[1] # j}
                ELSE calm \cup {<<j, e>> : e \in {e \in enabled : mapping[j][e] = "synced"}}
    BY <1>1 DEF UpdateStatus, PatchIncident, Commit
  <2>2. <<i, d>> \in calm => d \in enabled /\ mapping[i][d] = "synced"
    BY DEF CalmIsOnItsWay, CalmHolds
  <2> QED
    BY <2>1, <2>2
<1>2. ASSUME NEW j, Noise(j) PROVE <<i, d>> \in calm /\ j # i
  BY <1>2 DEF Noise
<1>3. DeleteIncident(i) => FALSE
  BY <1>2 DEF DeleteIncident
<1>4. Crash => FALSE
  BY DEF Crash
<1>5. \A e \in DeskName : AgentMoves(i, e) => FALSE
  BY <1>2 DEF AgentMoves
<1>6. \A r \in Request : AnalyzeCommit(r) => req[r].inc # i
  BY <1>2 DEF AnalyzeCommit
<1>7. \A t \in Task, e \in DeskName : Stamp(t, e) \/ PutFails(t, e) => task[t].inc # i
  BY <1>2 DEF Stamp, PutFails
<1>8. CASE Commits(i)
  BY <1>1, <1>8 DEF Commits
<1>9. CASE ~Commits(i)
  <2>1. ~Disturbs(i)
    BY <1>3, <1>4, <1>5, <1>6, <1>7, <1>9 DEF Disturbs
  <2>2. <<i, d>> \in calm
    <3>1. CASE \E j \in Incident : Commits(j)
      BY <1>1, <1>9, <3>1 DEF Commits
    <3>2. CASE calm' \subseteq calm
      BY <3>2
    <3> QED
      BY <3>1, <3>2, CalmShrinks DEF Commits
  <2> QED
    BY <2>1, <2>2
<1> QED
  BY <1>8, <1>9

LEMMA PushOrigin ==
  ASSUME TypeOK, Next, NEW t \in Task, (task[t].kind = "push")'
  PROVE  \/ task[t].kind = "push" /\ task'[t].inc = task[t].inc
         \/ task'[t].inc \in Incident /\ ~Exists(task'[t].inc)
<1> DEFINE Same == \/ task[t].kind = "push" /\ task'[t].inc = task[t].inc
                   \/ task'[t].inc \in Incident /\ ~Exists(task'[t].inc)
<1>1. ASSUME task'[t] = task[t] PROVE Same
  BY <1>1
<1>2. ASSUME NEW i \in Incident, NEW s \in AskedStatus,
             UpdateStatus(i, s) \/ PatchIncident(i, s)
      PROVE  Same
  <2>1. PICK rows : Spawn(rows) /\ \A row \in rows : row.kind = "update"
    BY <1>2 DEF UpdateStatus, PatchIncident, UpdateOf
  <2> QED
    BY <1>1, <2>1, Spawned
<1>3. ASSUME NEW r \in Request, CreateCommit(r) PROVE Same
  <2>1. PICK i \in Incident : ~Exists(i) /\ Spawn({PushOf(i, d) : d \in enabled})
    BY <1>3 DEF CreateCommit
  <2>2. \A row \in {PushOf(i, d) : d \in enabled} : row.inc = i
    BY DEF PushOf
  <2> QED
    BY <1>1, <2>1, <2>2, Spawned
<1>4. ASSUME NEW u \in Task, NEW row, Work(u, row)
      PROVE  task'[t] = IF u = t THEN row ELSE task[t]
  BY <1>4 DEF Work, TypeOK
<1>5. task[t] \in TaskRow
  BY DEF TypeOK
<1>6. ASSUME NEW u \in Task, NEW p, Work(u, [task[u] EXCEPT !.pc = p])
      PROVE  Same
  BY <1>4, <1>5, <1>6 DEF TaskRow, IdleTask
<1>7. ASSUME NEW u \in Task, Work(u, IdleTask) PROVE Same
  BY <1>1, <1>4, <1>7 DEF IdleTask
<1>8. ASSUME NEW u \in Task, task[u].kind = "update", Work(u, Rest(task[u])) PROVE Same
  <2>1. task'[t] = IF u = t THEN Rest(task[t]) ELSE task[t]
    BY <1>4, <1>8
  <2>2. u = t => Rest(task[t]).kind # "push"
    BY <1>5, <1>8 DEF Rest, TaskRow, IdleTask
  <2> QED
    BY <1>1, <2>1, <2>2
<1>9. ASSUME Crash PROVE Same
  BY <1>9 DEF Crash, IdleTask
<1> HIDE DEF Same
<1>10. ASSUME NEW u \in Task, NEW d \in DeskName,
             \/ Post(u, d) \/ PostFails(u, d) \/ Map(u, d) \/ Stamp(u, d)
             \/ StampFails(u, d) \/ Log(u, d) \/ PushFails(u, d)
       PROVE  Same
  BY <1>6, <1>7, <1>10 DEF Post, PostFails, Map, Stamp, StampFails, Log, PushFails
<1>11. ASSUME NEW u \in Task, NEW d \in DeskName,
             Look(u, d) \/ Put(u, d) \/ Mark(u, d) \/ PutFails(u, d)
       PROVE  Same
  BY <1>6, <1>8, <1>11 DEF Look, Put, Mark, PutFails, Updating
<1>12. ASSUME NEW u \in Task, FindIncident(u) PROVE Same
  BY <1>6, <1>7, <1>12 DEF FindIncident
<1>13. task' = task \/ Same
  BY <1>2, <1>3, <1>9, <1>10, <1>11, <1>12, Steps, Frames
<1> QED
  BY <1>1, <1>13 DEF Same

LEMMA CalmStatus ==
  ASSUME TypeOK, Next, NEW i \in Incident, NEW d \in DeskName,
         CalmHolds(i, d), ~Disturbs(i)
  PROVE  status'[i] # None /\ Outcome(status'[i]) = Outcome(status[i])
<1> DEFINE Keeps == status'[i] # None /\ Outcome(status'[i]) = Outcome(status[i])
<1>1. status[i] # None
  BY DEF CalmHolds, Exists
<1>2. ASSUME NEW j, j # i, NEW s,
             status' = status \/ status' = [status EXCEPT ![j] = s]
      PROVE  Keeps
  BY <1>1, <1>2 DEF TypeOK
<1> HIDE DEF Keeps
<1>3. ASSUME NEW j \in Incident, NEW s \in AskedStatus,
             UpdateStatus(j, s) \/ PatchIncident(j, s)
      PROVE  Keeps
  <2>1. j # i
    BY <1>3 DEF Disturbs, Commits
  <2> QED
    BY <1>2, <1>3, <2>1 DEF UpdateStatus, PatchIncident, Commit
<1>4. ASSUME NEW r \in Request, CreateCommit(r) PROVE Keeps
  <2>1. PICK j \in Incident, s \in AskedStatus :
          ~Exists(j) /\ status' = [status EXCEPT ![j] = s]
    BY <1>4 DEF CreateCommit
  <2> QED
    BY <1>1, <1>2, <2>1 DEF Exists
<1>5. ASSUME NEW j \in Incident, DeleteIncident(j) PROVE Keeps
  <2>1. j # i
    BY <1>5 DEF Disturbs
  <2> QED
    BY <1>2, <1>5, <2>1 DEF DeleteIncident
<1>6. ASSUME NEW r \in Request, AnalyzeCommit(r) PROVE Keeps
  <2>1. req[r].inc # i
    BY <1>6 DEF Disturbs
  <2> QED
    BY <1>2, <1>6, <2>1 DEF AnalyzeCommit
<1>7. ASSUME NEW t \in Task, NEW e \in DeskName, Stamp(t, e) PROVE Keeps
  <2>1. task[t].inc # i
    BY <1>7 DEF Disturbs
  <2> QED
    BY <1>2, <1>7, <2>1 DEF Stamp
<1>8. ASSUME NEW h \in hooks, NEW e \in DeskName, Webhook(h, e) PROVE Keeps
  <2>1. h.inc \in Incident /\ h.desk = e /\ h.status \in DOMAIN Inward(e)
    BY <1>8 DEF Webhook, TypeOK, Hook
  <2>2. Inward(e)[h.status] # None
    BY <2>1, Tables, NoneAssumption
  <2>3. status' = status \/ status' = [status EXCEPT ![h.inc] = Inward(e)[h.status]]
    BY <1>8 DEF Webhook
  <2>4. CASE h.inc # i
    BY <1>2, <2>3, <2>4
  <2>5. CASE h.inc = i
    <3>1. Outcome(Inward(e)[h.status]) = Outcome(status[i])
      BY <2>1, <2>5 DEF CalmHolds, Fits
    <3> QED
      BY <1>1, <2>1, <2>2, <2>3, <2>5, <3>1 DEF TypeOK, Keeps
  <2> QED
    BY <2>4, <2>5
<1>9. ASSUME status' = status PROVE Keeps
  BY <1>1, <1>9 DEF Keeps
<1>10. Keeps
  BY <1>3, <1>4, <1>5, <1>6, <1>7, <1>8, <1>9, Steps, Frames
<1> QED
  BY <1>10 DEF Keeps

LEMMA CalmMapping ==
  ASSUME TypeOK, Next, NEW i \in Incident, NEW d \in DeskName, CalmHolds(i, d)
  PROVE  mapping'[i][d] = "synced"
<1>1. mapping[i][d] = "synced"
  BY DEF CalmHolds
<1>2. ASSUME NEW t \in Task, NEW e \in DeskName, Map(t, e) \/ PostFails(t, e) \/ PushFails(t, e)
      PROVE  mapping'[i][d] = "synced"
  <2>1. task[t].kind = "push"
    BY <1>2 DEF Map, PostFails, PushFails, Pushing
  <2>2. task[t].inc # i
    BY <2>1 DEF CalmHolds
  <2>3. mapping' = mapping \/ \E m : mapping' = [mapping EXCEPT ![task[t].inc][e] = m]
    BY <1>2 DEF Map, PostFails, PushFails, Failed, Mapped
  <2> QED
    BY <1>1, <2>2, <2>3 DEF TypeOK
<1>3. ASSUME NEW t \in Task, NEW e \in DeskName, Mark(t, e)
      PROVE  mapping'[i][d] = "synced"
  <2> DEFINE j == task[t].inc
             m == IF mapping[j][e] = "error" THEN "error" ELSE "synced"
  <2>1. j \in Incident
    BY <1>3, UpdatedIncident DEF Mark
  <2>2. mapping' = mapping \/ mapping' = [mapping EXCEPT ![j][e] = m]
    BY <1>3 DEF Mark
  <2> HIDE DEF j
  <2>3. mapping' = mapping \/ mapping'[i][d] = IF i = j /\ d = e THEN m ELSE mapping[i][d]
    BY <2>1, <2>2 DEF TypeOK
  <2> QED
    BY <1>1, <2>3
<1> QED
  BY <1>1, <1>2, <1>3, Steps, Frames

LEMMA CalmTasks ==
  ASSUME TypeOK, Next, NEW i \in Incident, NEW d \in DeskName,
         CalmHolds(i, d), ~Disturbs(i), NEW t \in Task, task'[t].inc = i
  PROVE  task'[t].kind = "update" /\ Outcome(task'[t].status) = Outcome(status[i])
<1>1. task'[t].kind \in {"push", "update"}
  <2>1. task'[t] \in TaskRow
    BY TaskTypes
  <2> QED
    BY <2>1, NoneAssumption DEF TaskRow, IdleTask
<1>2. CASE task'[t].kind = "push"
  <2>1. task[t].kind = "push" /\ task[t].inc = i
    BY <1>2, PushOrigin DEF CalmHolds
  <2> QED
    BY <2>1 DEF CalmHolds
<1>3. CASE task'[t].kind = "update"
  <2>1. ~\E s \in AskedStatus : UpdateStatus(i, s) \/ PatchIncident(i, s)
    BY DEF Disturbs, Commits
  <2>2. task[t].kind = "update" /\ task[t].inc = i /\ task'[t].status = task[t].status
    BY <1>3, <2>1, UpdateStep
  <2> QED
    BY <1>3, <2>2 DEF CalmHolds, Fits
<1> QED
  BY <1>1, <1>2, <1>3

(* The ticket of a calm pair is only written by the update tasks, and each *)
(* of them sets and echoes what the row says.                              *)
LEMMA CalmTicket ==
  ASSUME TypeOK, Next, NEW i \in Incident, NEW d \in DeskName,
         CalmHolds(i, d), ~Disturbs(i)
  PROVE  /\ ticket'[i][d] = ticket[i][d] \/ Fits(i, Inward(d)[ticket'[i][d]])
         /\ \A t \in Task : Put(t, d) /\ task[t].inc = i => Fits(i, Inward(d)[ticket'[i][d]])
         /\ \A h \in hooks' : h.inc = i => Fits(i, Inward(h.desk)[h.status])
<1> DEFINE Out == ticket'[i][d] = ticket[i][d] \/ Fits(i, Inward(d)[ticket'[i][d]])
           Back == \A h \in hooks' : h.inc = i => Fits(i, Inward(h.desk)[h.status])
<1>1. \A h \in hooks : h.inc = i => Fits(i, Inward(h.desk)[h.status])
  BY DEF CalmHolds
<1>2. ASSUME NEW t \in Task, NEW e \in DeskName, Post(t, e) \/ PostFails(t, e)
      PROVE  Out
  <2>1. task[t].inc # i
    BY <1>2 DEF Post, PostFails, Pushing, CalmHolds
  <2>2. ticket' = ticket \/ ticket' = [ticket EXCEPT ![task[t].inc][e] = Opening(e)]
    BY <1>2 DEF Post, PostFails, Ticketed
  <2> QED
    BY <2>1, <2>2 DEF TypeOK
<1>3. ASSUME NEW t \in Task, NEW e \in DeskName, Put(t, e)
      PROVE  /\ Out /\ Back
             /\ task[t].inc = i /\ e = d => Fits(i, Inward(d)[ticket'[i][d]])
  <2> DEFINE j == task[t].inc
             s == Outward(e)[task[t].status]
             h == [inc |-> j, desk |-> e, status |-> s, note |-> FALSE]
  <2>1. j \in Incident /\ task[t].status \in Status
    BY <1>3, UpdatedIncident DEF Put
  <2>2. j = i => Fits(i, Inward(e)[s])
    BY <2>1, OutcomeReturns DEF CalmHolds, Fits
  <2>3. ticket' = [ticket EXCEPT ![j][e] = s]
    BY <1>3 DEF Put, Sets
  <2>4. ticket'[j][e] = s /\ ticket'[i][d] = IF i = j /\ d = e THEN s ELSE ticket[i][d]
    BY <2>1, <2>3 DEF TypeOK
  <2>5. hooks' \in {hooks, hooks \cup {h}}
    BY <1>3, <2>4 DEF Put, Echo
  <2>6. h.inc = j /\ h.desk = e /\ h.status = s
    OBVIOUS
  <2> HIDE DEF j, s, h
  <2>7. Back
    BY <1>1, <2>2, <2>5, <2>6
  <2> QED
    BY <2>2, <2>4, <2>7 DEF j
<1>4. ASSUME NEW t \in Task, NEW e \in DeskName, PutFails(t, e)
      PROVE  Out /\ Back
  <2> DEFINE j == task[t].inc
             s == Outward(e)[task[t].status]
             h == [inc |-> j, desk |-> e, status |-> s, note |-> FALSE]
  <2>1. j \in Incident /\ j # i
    BY <1>4, UpdatedIncident DEF PutFails, Disturbs
  <2>2. \/ ticket' = ticket /\ hooks' = hooks
        \/ ticket' = [ticket EXCEPT ![j][e] = s] /\ Echo(j, e)
    BY <1>4 DEF PutFails, Sets
  <2>3. hooks' = hooks \/ hooks' = hooks \cup {[inc |-> j, desk |-> e,
                                                status |-> ticket'[j][e], note |-> FALSE]}
    BY <2>2 DEF Echo
  <2> HIDE DEF j, s
  <2>4. Back
    BY <1>1, <2>1, <2>3
  <2> QED
    BY <2>1, <2>2, <2>4 DEF TypeOK
<1>5. ASSUME NEW j \in Incident, NEW e \in DeskName, AgentMoves(j, e) PROVE Out /\ Back
  <2>1. j # i
    BY <1>5 DEF Disturbs
  <2>2. PICK s, n : /\ ticket' = [ticket EXCEPT ![j][e] = s]
                    /\ hooks' = hooks \cup {[inc |-> j, desk |-> e, status |-> s, note |-> n]}
    BY <1>5 DEF AgentMoves
  <2>3. Back
    BY <1>1, <2>1, <2>2
  <2> QED
    BY <2>1, <2>2, <2>3 DEF TypeOK
<1>6. ASSUME NEW h \in hooks, NEW e \in DeskName, Webhook(h, e) PROVE Out /\ Back
  BY <1>1, <1>6, Frames DEF Webhook
<1>7. hooks' = hooks => Back
  BY <1>1
<1>8. ticket' = ticket => Out
  OBVIOUS
<1> HIDE DEF Out, Back
<1>9. Out /\ Back
  BY <1>2, <1>3, <1>4, <1>5, <1>6, <1>7, <1>8, Steps, Frames
<1> QED
  BY <1>3, <1>9 DEF Out, Back

LEMMA RestAwaits ==
  ASSUME NEW row \in TaskRow, NEW i, NEW d, row.kind = "update", row.inc = i,
         NEW k \in DOMAIN row.todo, k > 1, row.todo[k] = d
  PROVE  Awaits(Rest(row), i, d)
<1>1. row \in [kind : {"update"}, inc : Incident, todo : Seq(DeskName), status : Status,
               pc : {"find", "look", "put", "mark"}]
  BY DEF TaskRow, IdleTask
<1>2. k \in 1..Len(row.todo) /\ Len(row.todo) > 1 /\ Len(row.todo) \in Nat
  BY <1>1
<1> DEFINE list == Tail(row.todo)
           next == [row EXCEPT !.todo = list, !.pc = "look"]
<1>3. k - 1 \in DOMAIN list /\ list[k - 1] = d
  BY <1>1, <1>2
<1>4. Rest(row) = next
  BY <1>2 DEF Rest
<1>5. next.kind = "update" /\ next.inc = i /\ next.todo = list /\ next.pc = "look"
  BY <1>1
<1> HIDE DEF list, next
<1> QED
  BY <1>3, <1>4, <1>5 DEF Awaits

(* A task that is to write the ticket goes on until it has.                *)
LEMMA AwaitStep ==
  ASSUME TypeOK, Next, NEW i \in Incident, NEW d \in DeskName,
         CalmHolds(i, d), ~Disturbs(i), NEW t \in Task, Awaits(task[t], i, d)
  PROVE  Awaits(task'[t], i, d) \/ Put(t, d)
<1>1. task[t] \in [kind : {"update"}, inc : Incident, todo : Seq(DeskName), status : Status,
                   pc : {"find", "look", "put", "mark"}]
  BY DEF TypeOK, TaskRow, IdleTask, Awaits
<1>2. task[t].kind = "update" /\ task[t].inc = i
  BY DEF Awaits
<1>3. PICK k \in DOMAIN task[t].todo :
        task[t].todo[k] = d /\ (k > 1 \/ task[t].pc \in {"find", "look", "put"})
  BY DEF Awaits
<1>4. ASSUME NEW rows, Spawn(rows) PROVE Awaits(task'[t], i, d)
  BY <1>2, <1>4, SpawnedAll
<1>5. ASSUME NEW u \in Task, NEW row, Work(u, row)
      PROVE  task'[t] = IF u = t THEN row ELSE task[t]
  BY <1>5 DEF Work, TypeOK
<1>6. ASSUME NEW u \in Task, NEW e \in DeskName,
             \/ Post(u, e) \/ PostFails(u, e) \/ Map(u, e) \/ Stamp(u, e)
             \/ StampFails(u, e) \/ Log(u, e) \/ PushFails(u, e)
      PROVE  Awaits(task'[t], i, d)
  <2>1. u # t
    BY <1>2, <1>6 DEF Post, PostFails, Map, Stamp, StampFails, Log, PushFails, Pushing
  <2>2. \E row : Work(u, row)
    BY <1>6 DEF Post, PostFails, Map, Stamp, StampFails, Log, PushFails
  <2> QED
    BY <1>5, <2>1, <2>2
<1>7. ASSUME NEW p \in {"look", "put", "mark"}, Work(t, [task[t] EXCEPT !.pc = p]),
             p # "mark" \/ k > 1
      PROVE  Awaits(task'[t], i, d)
  <2> DEFINE next == [task[t] EXCEPT !.pc = p]
  <2>1. next.kind = "update" /\ next.inc = i /\ next.todo = task[t].todo /\ next.pc = p
    BY <1>1, <1>2
  <2>2. task'[t] = next
    BY <1>5, <1>7
  <2> HIDE DEF next
  <2> QED
    BY <1>3, <1>7, <2>1, <2>2 DEF Awaits
<1>8. ASSUME Work(t, Rest(task[t])), k > 1 PROVE Awaits(task'[t], i, d)
  <2>1. task[t] \in TaskRow
    BY DEF TypeOK
  <2> QED
    BY <1>2, <1>3, <1>5, <1>8, <2>1, RestAwaits
<1>9. CASE \E e \in DeskName : Look(t, e) \/ Put(t, e) \/ Mark(t, e) \/ PutFails(t, e)
  <2>1. PICK e \in DeskName : Look(t, e) \/ Put(t, e) \/ Mark(t, e) \/ PutFails(t, e)
    BY <1>9
  <2>2. Head(task[t].todo) = e
    BY <2>1 DEF Look, Put, Mark, PutFails, Updating
  <2>3. k = 1 => e = d
    BY <1>1, <1>3, <2>2
  <2>4. k \in Nat /\ k >= 1
    BY <1>1, <1>3
  <2>5. CASE Look(t, e)
    <3>1. CASE mapping[i][e] = "synced"
      BY <1>2, <1>7, <2>5, <3>1 DEF Look
    <3>2. CASE mapping[i][e] # "synced"
      <4>1. k > 1
        BY <2>3, <2>4, <3>2 DEF CalmHolds
      <4> QED
        BY <1>2, <1>8, <2>5, <3>2, <4>1 DEF Look
    <3> QED
      BY <3>1, <3>2
  <2>6. CASE Put(t, e)
    <3>1. CASE k = 1
      BY <2>3, <2>6, <3>1
    <3>2. CASE k > 1
      BY <1>7, <2>6, <3>2 DEF Put
    <3> QED
      BY <2>4, <3>1, <3>2
  <2>7. CASE Mark(t, e)
    <3>1. k > 1
      BY <1>3, <2>4, <2>7 DEF Mark, Updating
    <3> QED
      BY <1>8, <2>7, <3>1 DEF Mark
  <2>8. ~PutFails(t, e)
    BY <1>2 DEF Disturbs
  <2> QED
    BY <2>1, <2>5, <2>6, <2>7, <2>8
<1>10. ASSUME NEW u \in Task, u # t, NEW e \in DeskName,
              Look(u, e) \/ Put(u, e) \/ Mark(u, e) \/ PutFails(u, e)
       PROVE  Awaits(task'[t], i, d)
  <2>1. \E row : Work(u, row)
    BY <1>10 DEF Look, Put, Mark, PutFails
  <2> QED
    BY <1>5, <1>10, <2>1
<1>11. ASSUME NEW u \in Task, FindIncident(u) PROVE Awaits(task'[t], i, d)
  <2>1. CASE u # t
    <3>1. \E row : Work(u, row)
      BY <1>11 DEF FindIncident
    <3> QED
      BY <1>5, <2>1, <3>1
  <2>2. CASE u = t
    <3>1. Work(t, [task[t] EXCEPT !.pc = "look"])
      BY <1>2, <1>11, <2>2 DEF FindIncident, CalmHolds
    <3> QED
      BY <1>7, <3>1
  <2> QED
    BY <2>1, <2>2
<1>12. \A j, s : UpdateStatus(j, s) \/ PatchIncident(j, s) => Awaits(task'[t], i, d)
  BY <1>4 DEF UpdateStatus, PatchIncident
<1>13. \A r : CreateCommit(r) => Awaits(task'[t], i, d)
  BY <1>4 DEF CreateCommit
<1>14. CASE task' = task
  BY <1>14
<1>15. ~Crash
  BY DEF Disturbs
<1> QED
  BY <1>6, <1>9, <1>10, <1>11, <1>12, <1>13, <1>14, <1>15, Steps, Frames

(* The change that makes a pair calm starts a task for its ticket.         *)
Occurs(d, list) == \E k \in DOMAIN list : list[k] = d
LEMMA OccursInBoth ==
  ASSUME NEW a \in Seq(DeskName), NEW b \in Seq(DeskName), NEW d,
         Occurs(d, a) \/ Occurs(d, b)
  PROVE  Occurs(d, a \o b)
<1>1. ASSUME NEW k \in DOMAIN a, a[k] = d PROVE Occurs(d, a \o b)
  <2>1. k \in DOMAIN (a \o b) /\ (a \o b)[k] = d
    BY <1>1
  <2> QED
    BY <2>1 DEF Occurs
<1>2. ASSUME NEW k \in DOMAIN b, b[k] = d PROVE Occurs(d, a \o b)
  <2>1. Len(a) + k \in DOMAIN (a \o b) /\ (a \o b)[Len(a) + k] = d
    BY <1>2
  <2> QED
    BY <2>1 DEF Occurs
<1> QED
  BY <1>1, <1>2 DEF Occurs

LEMMA CalmStarts ==
  ASSUME TypeOK, Next, NEW i \in Incident, NEW d \in DeskName,
         Commits(i), ~Busy(i), d \in enabled, mapping[i][d] = "synced"
  PROVE  CalmHolds(i, d)'
<1>1. PICK s \in AskedStatus : UpdateStatus(i, s) \/ PatchIncident(i, s)
  BY DEF Commits
<1>2. s \in Status /\ s # None
  BY StatusAssumption, NoneAssumption
<1>3. status'[i] = s
  BY <1>1 DEF UpdateStatus, PatchIncident, Commit, TypeOK
<1>4. mapping' = mapping /\ hooks' = hooks /\ enabled' = enabled
  BY <1>1, Frames DEF Next
<1>5. \A t \in Task : task[t].inc # i
  BY DEF Busy
<1>6. \A h \in hooks : h.inc # i
  BY DEF Busy
<1>7. PICK rows : /\ Spawn(rows)
                  /\ \A row \in rows : row.inc = i /\ row.kind = "update" /\ row.status = s
                  /\ \E row \in rows : Awaits(row, i, d)
  <2>1. CASE UpdateStatus(i, s)
    <3> DEFINE row == UpdateOf(i, <<d>>, s, "look")
    <3>1. Spawn({UpdateOf(i, <<e>>, s, "look") : e \in enabled})
      BY <2>1 DEF UpdateStatus
    <3>2. row.kind = "update" /\ row.inc = i /\ row.todo = <<d>> /\ row.pc = "look"
      BY DEF UpdateOf
    <3>3. 1 \in DOMAIN <<d>> /\ <<d>>[1] = d
      OBVIOUS
    <3> HIDE DEF row
    <3>4. Awaits(row, i, d)
      BY <3>2, <3>3 DEF Awaits
    <3> DEFINE rows == {UpdateOf(i, <<e>>, s, "look") : e \in enabled}
    <3>5. \A r \in rows : r.inc = i /\ r.kind = "update" /\ r.status = s
      BY DEF UpdateOf
    <3>6. row \in rows
      BY DEF row
    <3> HIDE DEF rows
    <3>7. Spawn(rows)
      BY <3>1 DEF rows
    <3> QED
      BY <3>4, <3>5, <3>6, <3>7
  <2>2. CASE PatchIncident(i, s)
    <3> DEFINE all == Enabled("freshservice") \o Enabled("servicenow") \o Enabled("freshdesk")
               row == UpdateOf(i, all, s, "find")
    <3>1. Spawn({row})
      BY <2>2 DEF PatchIncident
    <3>2. \A e \in DeskName : Enabled(e) \in Seq(DeskName)
      BY DEF Enabled
    <3>3. Occurs(d, Enabled(d))
      <4>1. Enabled(d) = <<d>>
        BY DEF Enabled
      <4>2. 1 \in DOMAIN <<d>> /\ <<d>>[1] = d
        OBVIOUS
      <4> QED
        BY <4>1, <4>2 DEF Occurs
    <3>4. Occurs(d, all)
      <4> DEFINE two == Enabled("freshservice") \o Enabled("servicenow")
      <4>1. two \in Seq(DeskName)
        BY <3>2 DEF DeskName
      <4>2. d \in {"freshservice", "servicenow"} => Occurs(d, two)
        BY <3>2, <3>3, OccursInBoth DEF DeskName
      <4> HIDE DEF two
      <4>3. Occurs(d, two \o Enabled("freshdesk"))
        BY <3>2, <3>3, <4>1, <4>2, OccursInBoth DEF DeskName
      <4> QED
        BY <4>3 DEF two
    <3> HIDE DEF all
    <3>5. /\ row.kind = "update" /\ row.inc = i /\ row.todo = all /\ row.pc = "find"
          /\ row.status = s
      BY DEF UpdateOf
    <3> HIDE DEF row
    <3>6. Awaits(row, i, d)
      BY <3>4, <3>5 DEF Awaits, Occurs
    <3> QED
      BY <3>1, <3>5, <3>6
  <2> QED
    BY <1>1, <2>1, <2>2
<1>8. \A t \in Task : task'[t] \in rows \/ task'[t] = task[t]
  BY <1>7, Spawned
<1>9. \E t \in Task : Awaits(task'[t], i, d)
  BY <1>7, SpawnedAll
<1>10. \A t \in Task : task'[t].inc = i => task'[t].kind = "update" /\ task'[t].status = s
  BY <1>5, <1>7, <1>8
<1> QED
  BY <1>2, <1>3, <1>4, <1>6, <1>9, <1>10 DEF CalmHolds, Exists, Fits

LEMMA CalmNext == ASSUME TypeOK, CalmIsOnItsWay, Next PROVE CalmIsOnItsWay'
<1> SUFFICES ASSUME NEW c \in calm' PROVE CalmHolds(c[1], c[2])'
  BY DEF CalmIsOnItsWay
<1>1. PICK i \in Incident, d \in DeskName : c = <<i, d>>
  BY CalmTypes
<1>2. CASE <<i, d>> \in calm /\ ~Disturbs(i)
  <2>1. CalmHolds(i, d)
    BY <1>2 DEF CalmIsOnItsWay
  <2>2. status'[i] # None /\ Outcome(status'[i]) = Outcome(status[i])
    BY <1>2, <2>1, CalmStatus
  <2>3. mapping'[i][d] = "synced" /\ d \in enabled'
    BY <2>1, CalmMapping DEF Next, CalmHolds
  <2>4. \A t \in Task : task'[t].inc = i =>
          task'[t].kind = "update" /\ Outcome(task'[t].status) = Outcome(status[i])
    BY <1>2, <2>1, CalmTasks
  <2>5. /\ ticket'[i][d] = ticket[i][d] \/ Fits(i, Inward(d)[ticket'[i][d]])
        /\ \A t \in Task : Put(t, d) /\ task[t].inc = i => Fits(i, Inward(d)[ticket'[i][d]])
        /\ \A h \in hooks' : h.inc = i => Fits(i, Inward(h.desk)[h.status])
    BY <1>2, <2>1, CalmTicket
  <2>6. Fits(i, Inward(d)[ticket'[i][d]]) \/ \E t \in Task : Awaits(task'[t], i, d)
    <3>1. CASE Fits(i, Inward(d)[ticket[i][d]])
      BY <2>5, <3>1
    <3>2. CASE \E t \in Task : Awaits(task[t], i, d)
      <4>1. PICK t \in Task : Awaits(task[t], i, d)
        BY <3>2
      <4>2. task[t].inc = i
        BY <4>1 DEF Awaits
      <4>3. Awaits(task'[t], i, d) \/ Put(t, d)
        BY <1>2, <2>1, <4>1, AwaitStep
      <4> QED
        BY <2>5, <4>2, <4>3
    <3> QED
      BY <2>1, <3>1, <3>2 DEF CalmHolds
  <2>7. CalmHolds(i, d)'
    BY <2>2, <2>3, <2>4, <2>5, <2>6 DEF CalmHolds, Exists, Fits
  <2> QED
    BY <1>1, <2>7
<1>3. CASE Commits(i) /\ ~Busy(i) /\ d \in enabled /\ mapping[i][d] = "synced"
  BY <1>1, <1>3, CalmStarts
<1> QED
  BY <1>1, <1>2, <1>3, CalmOrigin

(* When an analyst's change met nothing else under way and everything it   *)
(* set off has ended, the incident and its ticket agree on whether it is   *)
(* closed and how, whichever way tasks, echoes and other incidents ran.    *)
THEOREM CalmCorrect == Spec => []CalmAgrees
<1>1. Init => CalmIsOnItsWay
  BY DEF Init, CalmIsOnItsWay
<1>2. CalmIsOnItsWay /\ UNCHANGED vars => CalmIsOnItsWay'
  BY DEF vars, rowVars, deskVars, ghosts, CalmIsOnItsWay, CalmHolds, Exists, Fits, Awaits
<1>3. CalmIsOnItsWay => CalmAgrees
  <2> SUFFICES ASSUME CalmIsOnItsWay, NEW c \in calm, ~Busy(c[1])
               PROVE  Outcome(status[c[1]]) = Outcome(Inward(c[2])[ticket[c[1]][c[2]]])
    BY DEF CalmAgrees
  <2>1. CalmHolds(c[1], c[2])
    BY DEF CalmIsOnItsWay
  <2>2. \A t \in Task : task[t].inc # c[1]
    BY DEF Busy
  <2> QED
    BY <2>1, <2>2 DEF CalmHolds, Awaits, Fits
<1> QED
  BY TypeCorrect, CalmNext, <1>1, <1>2, <1>3, PTL DEF Spec
=============================================================================
