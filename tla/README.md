# Central SOC: verification of the platform's protocols

Central SOC is a multi-tenant security operations platform: a set of FastAPI
services around one PostgreSQL database and one Redis, and a Flask dashboard
beside them. This directory holds TLA+ models of the parts whose correctness
depends on the order of events, the TLC configurations that check them, and
TLAPS proofs of what matters most. `PROJECT.json` names the lines of code each
definition stands for, the runs, the mutants, the hazards and the theorems.

## 1. Inventory

| Component | Code (under `src/services/` unless said) | State it keeps | Operations | What is hard |
| --- | --- | --- | --- | --- |
| SLA clocks and breach checker | `incident-service/incidents/sla.py` | columns `created_at`, `first_response_at`, `sla_*_breached`, `sla_*_notified`, `sla_*_warning_sent` of `incidents`; rows of `sla_events`; mails sent | `check_first_response`, `record_sla_event`, `sla_breach_checker` | one checker per process (two uvicorn workers), row locks, mail inside a transaction, concurrent answers |
| Incident API | `incident-service/incidents/routes.py` | rows of `incidents`, the timeline | create, status, patch, assign, comment, delete, analyze, send-email, reply | two transactions per request, stale reads, ticket ids by COUNT |
| Mail and escalation | `incident-service/incidents/mailing.py` | `escalation_level`, `next_escalation_check_at`, `status`, interactions; SMTP and IMAP servers | `send_incident_email`, `escalation_worker`, `inbound_email_poller`, `send_analyst_reply` | commits in the middle of a locked batch, mails that cannot be undone, replies racing the worker |
| ITSM synchronisation | `incident-service/incidents/{freshservice,servicenow,freshdesk}.py` | `integration_ticket_mappings`, remote tickets, background tasks in memory | push, update, note, webhook | late pushes over newer statuses, echoes, lost answers, a crash that forgets tasks |
| AI analysis | `routes.py` analyze, report webhook | `ai_status`, jobs of the analysis service | dispatch, report | a report that comes before its request has committed |
| Workflow engine | `automation-service/main.py` | executions, node logs, approvals, pending events, schedules, workflows with nodes and edges | run, pause, decide, resume, expire, trigger; create, save, clone, publish, delete, schedule | pauses, two deciders, resuming what has ended, calls whose answer is lost, saves under a running load |
| Ingestion | `ingestion-service/scheduler.py`, `connectors/` | Redis `dedup:*`, `last_poll:*`, the queue; the schedule | poll, enqueue, load, reload, heal | what changes while a poll runs, lost notifications, a load that fails halfway |
| Normalization | `normalization-service/worker.py`, `parsers/` | the queue, `incidents` | pop, upsert, publish | items lost, vendor updates against analyst updates |
| Auth | `auth-service/auth/` | users, tenant assignments, refresh tokens, signatures | login, refresh, register, update, toggle, delete, signatures | two refreshes of one token, two records of one fact, rights read before they are used |
| Tenants | `tenant-service/main.py` | tenants and their schemas, connectors, teams, levels, SLA targets, integrations, mail groups | create, change, toggle, delete | a search_path that outlives its transaction, a mail group rewritten row by row, notifications sent once |
| XSIAM live dashboard | `src/xsiam_live_dashboard/app.py`, `config_manager.py` (`src/plan/app.py` is the same file) | the configuration file, two caches | configure, build a page, poll XQL jobs | a threaded server, caches that outlive a configuration, failures that read as empty answers |
| Gateway, live events, UI console | `api-gateway/`, `incident-service/main.py`, `ui-console/` | none worth a model | proxy, broadcast, render | - |

Seed, migration and report scripts are one-off tools and are left aside. The
database schema (`shared/db/init.sql`) gives the models their columns, defaults
and cascades.

How the parts interact. Every service opens its own PostgreSQL transactions at
READ COMMITTED; between services there are only the Redis list
`soc:raw_incidents:queue` from ingestion to normalization, Redis pub/sub for
live events (which the trigger evaluator also listens to), and HTTP calls: the
tenant service tells the ingestion service to reload its connectors, workflow
nodes call the incident service, help desks and the analysis service call
webhooks. The incident service runs as two uvicorn processes
(`incident-service/Dockerfile:8`) and each starts its own SLA checker,
escalation worker and mailbox poller, so that everything these tasks do is done
by two of them at once and only row locks keep them apart.

The properties that make each component correct:

| Component | Must hold |
| --- | --- |
| SLA | a breach is flagged when the clock ran out, once, with its event; a mail is repeated only if the transaction that should remember it was rolled back; an overdue incident is flagged in the end |
| Escalation | levels are climbed one at a time; a level is not mailed twice by two workers; a timer that ran out is handled; no deadlock between batches |
| Ingestion, normalization | a version a fingerprint hides has arrived or is on its way; a row only takes over newer copies of its own incident; what the vendor shows arrives |
| ITSM synchronisation | no synchronisation closes an incident by itself; an undisturbed change reaches the ticket; a mapping has a ticket, a note on the timeline has a note at the desk |
| AI analysis | an incident that stays pending has its job at work, or a known reason: its report came too early or was lost, or another incident has its ticket id |
| Workflow engine | nothing acts behind a gate without its approval; nobody waits for an answer that was given; an action is not repeated without a cause; a dry run carries nothing out (it does, at the ticket desks); every walk and every request ends; due schedules fire |
| Workflow editing | the graph is of one save; a run is of one graph; a paused workflow does not start |
| Auth | a token is revoked exactly when a successor was handed out, of which two refreshes at once may leave two; the two records of a user's tenants agree; the last `super_admin` is lost only in named ways |
| Tenants | the schedule follows the connectors of vendors it knows; what cascades from a deleted tenant is gone with it (`sla_events`, which has no foreign key, is not); a change of a shared mail configuration that meets no other leaves it whole; another schema is shown only after a commit that left its path behind |
| Dashboard | an old tenant's data fades; incidents that could not be fetched are not shown as health (other calls that failed are); nothing old is served as fresh |

## 2. Modules

| Module | Models | Composes or uses |
| --- | --- | --- |
| `SlaLedger` | abstract: what a reader of an incident and its timeline may take the SLA flags for | - |
| `IncidentSla` | SLA columns, request handlers that answer or close an incident, the breach checkers | implements `SlaLedger` |
| `Escalation` | customer mail, escalation workers, mailbox pollers | - |
| `Mirror` | abstract: what the ingestion promises about the incidents table | - |
| `IngestPipeline` | vendor, poll, fingerprints, queue, normalization worker, analysts | implements `Mirror` |
| `WorkflowEngine` | executions, gates, pending events: the transactions that contend for their rows | - |
| `Playbook` | one walk at a time: kinds of nodes, calls, retries, try/catch, sub-workflows, dry runs | - |
| `Automations` | workflows and their graphs, schedules, the three starters, statement by statement | - |
| `AutomationService` | the constant the models of the automation service share, so that one proof module extends them all | extended by `WorkflowEngine`, `Automations`, `Playbook` |
| `Desk` | manual tickets, three help desks, their webhooks, comments, the AI round trip | - |
| `Accounts` | users, tenant assignments, refresh tokens, signatures | - |
| `Tenants` | tenants, connectors, configurations, mail groups, and the poll scheduler they drive | tenant service and scheduler in one |
| `Dashboard` | configuration file, XQL jobs, caches and figures of the XSIAM dashboard | - |
| `MC...` | the instances TLC checks | the module of that name |
| `..._proofs` | theorems, for every value of the constants | the module of that name, `TLAPS` |

`IngestPipeline`, `Desk` and `Tenants` each compose two or more programs
(scheduler, vendor and worker; incident service, help desks and analysis
service; tenant service and scheduler) and one desk, connector or vendor that is
external. `WorkflowEngine`, `Playbook` and `Automations` look at one program
from three sides: who holds which row, what is done to the outside, and what
graph is run. They share no variable, and `MCAutomationService` checks the last
two in one run: a behaviour is one of either, chosen at the start.

Definitions whose comment begins with *Mutant* are not part of a specification:
each is a plausible bug, and replacing the definition behind it by the mutant
breaks the property it was written against. They document what a property is
sensitive to.

### SlaLedger and IncidentSla

The Boolean columns `sla_*_breached`, `sla_*_notified` and `sla_*_warning_sent`
are the sets `breached`, `notified`, `warned` of clocks (an incident and one of
`first_response`, `resolution`). `sla_events` is counted in `breachEvents`;
`mails` counts what the SMTP server was handed, which no rollback takes back.

A checker's cycle is one transaction: `Scan` (SELECT ... FOR UPDATE SKIP
LOCKED), for each row `CheckFirst` then `CheckResolution`, each with the branches
breach, warning, nothing due, then `Commit`; `Abort` at any moment. What it
wrote is in `txn[c]` until the commit. A handler's UPDATE waits while a
checker holds the row (`~Locked`). The status handler is two transactions with
the old status carried between them (`StatusRead`, `StatusWrite`,
`StatusRecord`), and may die between them. `ItsmPush` is the one statement of
the help-desk push that answers an incident.

Kept in the model, as the code has it: `check_first_response` compares with `>`
and also flags a target of 0, with which the checker's clock is off;
`update_status` stamps `first_response_at` itself before it calls
`check_first_response`, which then looks for no breach, so a late first response
made by a status change is not flagged by it. No line of the repository says
which is meant. Outside it: the worker's `record_sla_event` gets an empty tenant
(`mailing.py:798-800`) and is never recorded; the poller's
`incident["tenant_id"]` raises a KeyError that is swallowed
(`mailing.py:917-922`), so `email_received` is never recorded.

`SlaLedger` knows no checkers, transactions, locks or requests under way: an
incident is opened, moved, rated and answered once, and a verdict on a clock is one
step about the row as that step finds it (`Judge`: open, covered, not flagged
yet, past a target that is on; `Answer`: later than the target when it was given).
`LedgerSpec` in `IncidentSla` is this specification over the columns of the
same names. It permits what the code permits: an answer that leaves no breach, and
a second event when the late answer follows the checker's flag.

### Escalation

A timer is `none`, `armed` or `due`. The worker's `Select` copies ids and levels
and locks the rows; `Deliver` hands the mail over, `RecordEscalation` updates and
commits the row, and with this the locks of the **whole** batch are gone
(`held` becomes empty) while the batch is walked on. `Refuse` and `ClearTimer`
are the failure branch. The poller searches, fetches (which marks the messages
seen for everybody, so that a crash then loses them, `mailing.py:833`) and
records reply by reply. A manual send mails first and writes after.
`WorkerFails` and `PollerFails` drop what the task held. A reply recorded while
the worker walks over an older copy does not stop its mail; that, too, is in the
model.

### Mirror and IngestPipeline

A version of an incident is its modification time, alert count and status. The
poll is `PollFetch` (`modification_time >= last_poll`, the newest `PageSize`),
`Enqueue` (fingerprints and items in one MULTI/EXEC), `MarkPolled` (last_poll =
now). `PollEmpty` is the answer without a reply or without credentials: no error,
and last_poll moves on. The worker is `Pop` and `Upsert`; `LoseItem` is the
exception or crash after BLPOP. The queue is one sequence per incident, which
lets items of different incidents overtake each other: more behaviours than the
one Redis list has. `Normalized` is the parser's table, with *new* for what it
does not name (`base_parser.py:42`).

`Mirror` says what a reader of the incidents table may rely on, without polls,
fingerprints, queue or worker: copies are taken, may be lost or taken twice, and
a row only takes over a copy of its own incident that is not older than what it
shows; a closed row keeps its status. `IngestPipeline` implements it with
everything in the batch, the queue and the worker's hand as the `copies`
(`MirrorSpec`).

One connector per vendor and tenant is modelled. Two with different labels share
their fingerprints (`scheduler.py:112`), so an incident both see is enqueued by
one of them.

### WorkflowEngine

A transaction `tx[t]` holds what it wrote (`tx[t].exec`, `tx[t].ticket`), which
are also the rows it has locked; it reads its own rows first and committed ones
otherwise (`ExecSeen`). `Decide` and `Event` read tickets without a lock, `Mark` is the
unconditional UPDATE, `Read` the SELECT of `_resume_workflow`, `Resume` the UPDATE
that waits for the lock, with the place and the visited nodes of the copy
read before. `Perform`, `Pause`, `NodeFails`, `Finish` are the walk; `performed`
counts actions, which are not undone by `Abort`. `Start` has a transaction of its own
with any trigger. The evaluator resumes all executions that match an event in
one transaction (`list`). A gate or event that expires leaves its execution
waiting for a resumption by hand (`Expire`, `main.py:1943`).

An execution's `asked` is a history variable: the ticket its last pause inserted.
A node whose error handling is *continue* is a `Perform`; an `if` or a switch
follows any of its edges. The order of the queue is left open.

### Playbook

`stack` holds the walks in progress, the innermost sub-workflow first; a frame is
a queue of nodes, the visited ones, the depth and the dry-run flag. A node is
skipped (`SkipDry`), computed (`Compute`), branched on (`Branch`), carried out
call by call (`Call`), paused at (`PauseWalk`), entered (`EnterSub`, `TooDeep`,
`LeaveSub`) or stopped at. A call is answered, refused, never arrives, or is
carried out and its answer is lost; `Result` says what each kind of node makes
of that. `done`, `repeated` and `unsure` record what was carried out. `Settle`
is the end of a node: retry, try/catch, *continue* or *stop*. A row's `above` is a
history variable: the executions a sub-workflow was started in.

A resumption knows of no dry run (`main.py:1559-1570`). `ResumeRun` of an
execution that never paused begins it again, live, with a context that lacks
`nodes`: its first node acts and then raises. When the workflow has a trigger that is the
first node; when it has none, a node that no edge leads to is carried out for an
execution that was a dry run. `DryRunTouchesOnlyDesks` therefore excepts these nodes
(`Restarted`), and no sub-workflow gets below them; `DryRunHasNoEffect`, the claim
as the repository makes it, is violated (section 4). Choices of node types without a trigger
are in the run.

The incident service's nodes and the lookups report *success* for every failure
(`QuietResult`), which the model shows and no property forbids. A try scope is
never closed: it stays open for what comes after the node it belongs to. A pause
drops the rest of the queue and the depth of the nesting; the first leaves
parallel branches unvisited, the second is `ChainNeedsPause`.

### Automations

A workflow row, its node rows and its edge rows are `wf[w]`; rows are named by
the save that inserted them, so that a graph of two saves shows. A transaction
is a program (`steps`): UPDATE of the row, DELETE of nodes and edges, their
INSERTs at the commit, SELECT of nodes, SELECT of edges, the run, the advance of
a schedule. `Wait` is a DELETE that meets rows another transaction has written:
it waits, and then deletes what it saw and is still there, not what was inserted
meanwhile. `Deadlock` is PostgreSQL's way out. The starters (`EventTurn`, `Webhook`,
`CronTurn`) choose active workflows first and run them one by one in the same
transaction; `CronTurn` takes any `Batch` of the due schedules (`LIMIT 10` without
an order in the code), `CronSkips` is a schedule whose run or cron expression
raises: the turn goes on behind it, and it stays due. Schedules fall due (`Tick`) and
transactions fail (`Fail`) without a bound.
`mixed`, `met` and `late` are history: they name the races the properties
exempt. Publishing revives an archived workflow, and an event that two triggers of one
workflow listen to runs it twice; both are as in the code.

### Desk

The three connectors are one protocol with three pairs of status tables and
different ways to fail. A background task has a list of desks to do (`todo`);
`Post`, `Map`, `Stamp`, `Log` are the push (remote ticket, mapping row, status
and first response, timeline), `Look`, `Put`, `Mark` the update, each ending
where the code commits or awaits a remote answer. A call that fails may have
been carried out. `Webhook` is what a desk sends back, of its agents' moves or as
an echo of our own updates. `Crash` forgets every task and request, and nothing
else. Creation is `CreateCount` (COUNT + 1) or `CreateNamed` (an id the analyst
typed, which nothing compares with those in use), then `CreateCommit`; a comment that
finds no configuration is sent nowhere and reported as posted
(`CommentSkipped`, in all three connectors); the analysis is
`AnalyzePost`, `AnalyzeCommit` and, at any time after the first, `Report`.
A ticket is the pair of incident and desk.

In the Freshservice webhook the commit of the note ends the transaction the
route opened, so the UPDATE of the status that follows raises and is lost
(`freshservice.py:430`), although the docstring (`freshservice.py:361`) lists
both. It is modelled as it is. `assign_incident` and `add_comment` use an undefined
`target_tid` (`routes.py:1240`, `1290`) and fail after their commit; what they
write nothing here reads.

### Accounts

A request is one transaction. What its reads returned is kept in `req[r]`; its
writes and its commit are one step, except where another request can come
between: the DELETE and INSERT of assignments, the two UPDATEs of signatures,
and the revocation of a refresh token, whose row stays locked. `StartUp` is the
lifespan handler that fills `user_tenants` from `users.tenant_id`; `Restart` and
`Abort` end requests anywhere. A request keeps the role its actor was found in
(`rank`), because the permission checks are made with it: a `customer_admin` may
update or toggle anybody with a tenant in common, the last `super_admin` included
(`auth/routes.py:407-428`, `490-506`), which `LastAdminLeaves` names.

### Tenants

A value a request writes is the number of the request, so that an old one can be told
from a new one. `path` is the search_path a pooled connection was left with
(`Leaves`): statements of later requests that do not name a schema go there. The
update of a connector commits before it finds that there is none
(`update_connector_missing`, `main.py:425`), so an answer 404 leaves its path too.
A mail group gets a row for each entry of the list it is created with, which may
name a tenant twice (`twice`), and no later change takes the second row away. A
change of it is `PutScan` (read the rows) and `PutCommit` (update,
delete, insert); one that another meets (`overlapped`) may leave it `torn`, until one
that is met by none. A bulk toggle goes tenant by tenant in one transaction, whose
first failing tenant aborts the others while the log says success
(`main.py:1037`). A connector's change is committed first and announced after
(`_notify_ingestion_reload`), once, and a failure is only logged. The scheduler
is `reload_connectors`, `ReadTenants`, `ReadTenant` for one schema after the
other, `ReloadEnd`; a schema dropped in between aborts the load (`broken`), and a
connector whose vendor the registry does not know is left out (`Loads`,
`scheduler.py:246`), enabled or not: vendors are free text. The
self-healing job is added with `next_run_time=None`, which is *paused* to
APScheduler (`FirstRun`), and so does nothing: a lost notification lasts until the
next change is announced, which is what `missed` excuses in `JobsAreCurrent` and `EnabledIsPolled`.

### Dashboard

Each page is a sequence of steps (`Plan`): a call to XSIAM, an XQL query that is
started and polled, a feed from its cache or its source, the risky users from
theirs. `xsiam_post` turns any failure into a dictionary without the key the
page looks for; a call's `got` is then empty. The tactics page asks for incidents
once more when neither those nor the alerts named a tactic (`Spared` skips it). The configuration file is read
anew at each call and is rewritten in place (`SaveOpen` leaves it `torn` until
`SaveWrite`, `config_manager.py:93`); a page that meets the torn file fails, or
goes without the data of that step where the code guards it. The figures of the posture and of the summary are computed as in
the code, over at most `Newest` incidents.

## 3. Runs

| Run | Shows | Instance |
| --- | --- | --- |
| `sla` | flags, events and mails agree; the verdicts of checkers and requests are those of `SlaLedger`, each reached in one step on the row as it is then; no resolution warning after the breach; an overdue open incident is flagged in the end | 1 incident, 2 checkers, 1 concurrent request, 3 severities, minutes 0 and 4, 1 rollback |
| `escalation` | locked copies are current, no worker waits while it holds rows, levels are climbed in order, a timer that ran out is handled | 2 incidents, 2 workers, 1 poller, 1 request at a time, 2 levels, 2 manual sends, 1 crash |
| `escalation_twice` | **violated**: a worker mails from a level the row has left | 2 incidents, 2 workers, no poller, no crash |
| `ingest` | a fingerprint stands for a version that is on its way or stored; the pipeline implements `Mirror`; what the vendor shows when no poll runs is stored in the end | 2 incidents, an answer with room for 1, 2 instants, 1 alert, 1 fault |
| `workflow` | nobody waits for an answer that was given; an action is repeated only after a failure, a resumption by hand or a second decision; every transaction ends | 2 executions of a cyclic graph, 2 requests and the evaluator, 4 inputs, 3 tickets, 1 failed transaction |
| `workflow_twice` | **violated**: two approvals of one gate pass the next gate too | 1 execution, 2 gates in a row, 2 requests |
| `automation_service` | API: nodes and edges are of one save; a run is of one graph; nothing paused starts unless it was chosen before; a due schedule fires, however often others do, unless it or the turns fail for ever or more are due than a turn takes. Walk: a dry run touches nothing but the ticket desks unless it is resumed; a call is carried out twice only if its answer was lost or an execution that did not wait was resumed; nesting beyond the limit needs a pause; every walk ends | API: 2 workflows, 2 requests at a time, evaluator and cron, 3 schedules with turns of 2, 3 versions, 3 requests, due times and failures unbounded. Walk: 2 workflows of 11 nodes, one calling itself, 5 choices of node types, depth 1, 3 executions, 2 failed calls, 1 retry |
| `dry_run` | **violated**: a dry run opens a ticket | the walk of `automation_service` |
| `desk` | no synchronisation closes an incident; an undisturbed change reaches the tickets; mappings and notes have a ticket and a note behind them; ticket ids and pending analyses | 2 incidents, counted ids and the given id 1, Freshservice with ServiceNow or Freshdesk alone, 2 tasks and 2 requests at a time, 2 operations, 1 move of an agent, 1 fault |
| `accounts` | the two records of a user's tenants agree; rotation is all or nothing; the last `super_admin` is lost only in named ways | 3 accounts (2 exist), 2 tenants, 3 tokens, 2 signatures, 2 requests of any kind, restarts |
| `tenants` | the schedule follows the connectors of known vendors; the cascades of a deletion are whole; a change of a mail group that meets no other leaves it whole; whose numbers are shown; enabled connectors of known vendors are polled | 2 tenants, 1 connector of a vendor with or without a class, a group of 2 rows, 2 operations, 1 fault |
| `dashboard` | old tenants fade, calm needs incidents, fresh is recent | 2 clients on five pairs of pages, 2 tenants, 3 incidents of which 2 are shown, lifetimes of 2, 3 instants, 1 edit, 1 fault |

Why the bounds are enough to be interesting. Two checkers, workers or requests
are what the deployment has (two processes), and every conflict the code knows
is between two. A batch of two incidents is the smallest in which one row's
commit frees another; two operations that overlap are the smallest that race.
One rollback, crash or lost answer is the smallest number that shows what a
failure leaves behind, and the code has no state that counts failures.

- `sla`: everything happens at minute 0 or 4. At 4 the targets of *high* have run
  out, those of *medium* are past 75%, *low* has none, so breach, warning and a
  clock that is off are all met, and a change of severity moves between them.
- `ingest`: the answer has room for one of two incidents, so one is cut off, and
  a version may be modified before, during and after a poll. The incidents are
  alike; alerts and the arrival are watched on one of them (`Watched`), which keeps
  the liveness check within minutes.
- `workflow`: four inputs are two starts, an event that resumes both executions
  in one transaction, and a request that interferes. No history of four inputs
  of that graph needs a fourth ticket (`EveryRequestEnds` would fail), so
  `MaxTicket` never stops a walk.
- `automation_service`: three versions are the initial graph and two saves or new
  workflows; turns of two with three schedules are the code's LIMIT 10 with eleven: one
  may be passed over. Due times and failures of transactions have no bound, so
  that `DueFires` is not kept by the bound running out. The typings put every class of
  node with calls of its own at the write node or the catch branch; depth 1 is
  reached and exceeded by a workflow that calls itself. `MaxExec` bounds executions
  before a walk begins, never in it.
- `desk`: two operations are a creation and a change, two changes, or a change
  and a comment or an analysis; the id 1 an analyst may give is the first COUNT + 1 gives;
  with an agent's move and a fault they overlap in
  any order. Freshservice and ServiceNow differ in tables and failures, Freshdesk
  shares the first's tables.
- `dashboard`: time advances to the lifetime of both caches, so that an entry is
  served, expires and is replaced.

Symmetry is used for interchangeable tasks, requests, incidents, tokens and
signatures in `desk` and `accounts`, where only invariants and a step property are checked.
`CHECK_DEADLOCK FALSE` stands where inputs are bounded and the system rests when
they are used up (`workflow`, `automation_service`, `dry_run`, `desk`, `accounts`,
`tenants`, `dashboard`). In `sla`, `escalation` and `ingest` there is always a
step left (a status change, another poll) and deadlock is checked.

Fairness. `IncidentSla` and `Escalation` assume weak fairness of each checker's
and worker's next step: they are endless loops with a sleep. `IngestPipeline`
assumes it of the poll, a job APScheduler starts at every interval, and of the
worker's loop. `WorkflowEngine` assumes that a transaction that
has begun goes on and gets a lock when it is free; `Automations`, only of the cron
evaluator, that it takes its turns and goes on with them, as it waits for no lock; `Playbook`, that a walk goes on, as every call has a timeout.
`Tenants` assumes that a handler runs on after its commit, that the event loop
serves reloads, that a job's interval comes round and that a poll ends.
Nothing is assumed of users, customers, vendors, agents, the clock or failures:
bounded faults stand for *failures stop at some time* (in `Automations`, where they
are not bounded, `DueFires` names those that never stop), and `missed` in `Tenants` says what one
that is not made good excuses.

The properties name their exceptions. `RepeatedActionNeedsCause`, `RepeatNeedsLostAnswer`,
`SharedIdHasCause`, `LateStartNeedsChoice`, `WrongNeedsCommit`, `LastAdminLeaves` and others
have the form *this only happens if*: the code does let it happen, and the
property says that the named race is the only way. A reader who wants to close
the race finds in the property what is left to exclude.

## 4. Findings

Three claims of the repository that the code does not keep have a run that TLC
ends with a counterexample (`PROJECT.json`, *findings*, quotes the lines).

1. `escalation_twice`: the rows are locked *to prevent double escalation*
   (`mailing.py:780`), but the first mail of the batch commits the session and
   frees the others; a second process escalates one, then the first mails the same level again.
2. `workflow_twice`: a gate is checked without a lock and decided without a
   condition; the second of two approvals resumes the execution from the next gate.
3. `dry_run`: a dry run is to *execute without side effects*
   (`AUTOMATION_BUILDER.md:675`, `automation-service/main.py:146`), but
   `side_effect_types` does not name the Freshdesk and OneDesk nodes; the walk of a dry
   run opens a ticket. `DryRunTouchesOnlyDesks` says that it goes no further.

Two more have no run of their own. The first is *self-healing periodic refresh job (every 10
minutes)* (`scheduler.py:266`, `275`). The job is added with `next_run_time=None`
and never runs; a notification that is lost, or a load that breaks off, is
therefore excused by `missed` in `JobsAreCurrent` and `EnabledIsPolled` for as
long as nothing else is announced. The second is the docstring of the Freshservice
webhook (`freshservice.py:361`), which one sequential call shows: see `Desk`.

Met while modelling, kept in the models as the code has it, and described with
the module in section 2: the first response a status change stamps
(`routes.py:950`), replies marked seen before they are recorded
(`mailing.py:833`), a mail to a customer whose answer came while the batch was
walked, changes during a poll that the next window leaves out
(`scheduler.py:184`), the webhook whose note loses its status
(`freshservice.py:430`), a dry run that somebody resumes and whose
first node then acts (`automation-service/main.py:1559`),
a comment reported as posted although no configuration was found (`freshservice.py:592`), ids of
tickets that nothing keeps apart (`routes.py:434-444`), a mail group with two rows
of a tenant (`tenant-service/main.py:590`), a path left by an answer 404
(`tenant-service/main.py:401`, `425`), connectors of unknown vendors that are enabled
and never polled (`scheduler.py:246`), rows of `sla_events` that outlive their tenant
(`init.sql:148`), a `customer_admin` who may deactivate the last `super_admin`
(`auth/routes.py:490`), the bulk toggle that undoes itself (`tenant-service/main.py:1037`).

## 5. Proofs

All theorems hold for every value of the constants that satisfies the named
assumptions of the modules (bounds are naturals, `None` is none of the values it
stands beside, targets are naturals, bodies are well formed). They are about
`Spec`, without fairness. Type correctness is proved in each of the eight modules and
therefore takes no run. Each module's inductive invariant is the property, strengthened
by what the open transactions, tasks and requests carry, because what an
invariant says of the rows is broken or kept by what they will write.

`IncidentSla_proofs`: `BreachEventsCorrect`, `RepeatedMailCorrect`,
`FlagsAreDue`, `WarningsPrecedeBreach`. The invariant adds: rows held by a
checker exist and are open, no two checkers hold one row (`LocksExclusive`), a
clock is staged only while its row is held and still to be walked over in order
(`StagedInOrder`), what is staged was due when it was (`StagedIsDue`), and how
many events and mails a clock had, staged ones included (`EventCount`,
`MailCount`). That a handler cannot write a held row makes *due when staged*
into *due when committed*. `SlaImplementsLedger` is the step simulation behind the run's
`LedgerSpec`: a commit is the ledger's `Judge` of all the clocks staged, the UPDATE of
a status request or a first-response check is its `Answer`, and scans, reads,
messages and rollbacks are stutters. It takes two facts more (`LInv`): a request that
dates an answer began after the incident was opened (`Dated`), and a cycle
judges only covered incidents, by targets that are on and that no change of
severity moves while the row is held (`ByTarget`, `HeldTarget`).

`Escalation_proofs`: `LockedCopiesCurrent`, `NoLockCycle`, `ClimbsCorrect`. The
invariant says that held rows belong to one worker and carry the copied level,
and that a level in a batch was mailed; the last outlives the loss of the locks,
which is why climbing is safe although the copies go stale.

`IngestPipeline_proofs`: `FingerprintsHonest`, `RowsAdvance`, and
`PipelineImplementsMirror`, the step simulation behind the run's `MirrorSpec`.
Rows are overwritten without a comparison of times, so *a row never goes back*
is a fact about the whole pipeline: along row, hand, queue, fetched batch and
vendor modification times never decrease (`Ordered`).

`AutomationService_proofs`, about `WorkflowEngine`: `WaitingIsAsking`. The invariant (`Sound`) is about what
an open transaction has written: a ticket it marked belongs to an execution it
has resumed or is about to (`Answered`); a pause it wrote waits for a ticket it
inserted itself (`Asked`); tickets are locked by one transaction at a time.
Exclusive locks on executions are not needed for this, and the theorem includes
double decisions and resumptions by hand. `RepeatsHaveCause`
(`RepeatedActionNeedsCause`) stands on it with a second invariant (`Orderly`):
as long as no transaction failed, nobody resumed by hand and no ticket was
decided twice, a transaction touches a committed execution only after it has
marked the one pending ticket that execution waits for (`Entitled`, `Awaited`).
Tickets are exclusive, so nobody else is entitled to it, and what its row says
was visited when it paused still covers all nodes that acted (`Recorded`); a walk
acts only on nodes it has not visited (`Remembers`). Without that calm the bound
is false, so it is carried as an implication; only the locks on executions
(`ExecsLocked`) hold always.

`AutomationService_proofs`, about `Automations` (`ApiSpec`): `GraphCorrect`,
`RunCorrect`, `StartCorrect`. Each open transaction is described by what it
still has to do (`Planned`): a save that has written the row holds it until it
commits (`Locks`), so two saves never take away rows at the same time and a save
takes away exactly the rows there are, also those it saw while it waited
(`Erases`). A copy or a run that has read the nodes of a workflow holds those of
the committed save or was met by another commit (`HasRead`), and what is still to be
started is active or was noted as stopped late (`Starts`). Nothing is induced over the programs:
a program is among finitely many remainders, or each statement in it follows the one it depends on
(`Chained`), which taking the first one away keeps.

`AutomationService_proofs`, about `Playbook` (`WalkSpec`): `DryRunCorrect`,
`RepeatCorrect`, `ChainCorrect`. A sub-workflow puts a walk on top of its
caller's and hands it back untouched, so the invariant (`Walked`) is about all walks on the
stack, and needs that no two of them are of one execution. Each has visited every node its
execution has a call of, and a call still to come of the node it is at was lost if it
was carried out (`Recalls`): a visited node is dropped, a failure that is
retried without a lost answer carried nothing out (`Failing`), and a desk's node makes one call. A
row that waits remembers as much (`RunOK`), so an approval replays nothing; who
resumes a row that does not wait leaves `again` behind. A live walk of a dry
run is one without a context, and has not left the nodes it began with
(`Unsaved`). The depth a walk carries counts the executions above it as long
as none of them was resumed (`Deep`).

`Accounts_proofs`: `PrimaryCorrect`, `RotationCorrect`, `LastAdminCorrect`. A
token and the one it was obtained with have one owner, so that a cascade takes
both (`Lineage`); no user keeps a primary tenant that is gone (`PrimaryLives`); a request
that disables or deletes names somebody else, and only one found to be `super_admin`
deletes (`Careful`).

`Desk_proofs`: `MappedCorrect`, `NoteCorrect`, `ClosedCorrect`, `NumberCorrect`,
`PendingCorrect`, `CalmCorrect`. What is under way was true when it set out: a task, a webhook
or a request carries a status nobody closed, a ticket that exists, a count that
no other counted creation has overtaken, a ticket id that its row keeps for good. The lemma `Tables` is what the three pairs of
status tables must have in common for this. For `CalmCorrect` the invariant follows one
undisturbed change of status to its end (`CalmHolds`): incident and ticket agree already, or a
task has the update of that ticket still to do (`Awaits`), and every other task, update
and echo under way carries the same status; whatever disturbs this ends the calm.

`Tenants_proofs`: `LeftCorrect`, `WrongCorrect`, `GroupCorrect`, `JobsCorrect`,
one strengthening each: what an open transaction refers to cannot be deleted
(`Referring`); a search_path is of a tenant about whose connectors a request committed
(`PathCommitted`); as long as no other change meets it, what a change of a group read at
its start covers the rows (`Tracking`); what is loaded so far is what the database holds,
or a notice or a reload is still to come (`OnItsWay`).

`Dashboard_proofs`: `FadesCorrect`, `FreshCorrect`, `CalmCorrect`. The invariant says where data
came from: what a request holds, its XQL job included, is of tenants it saw
configured, no tenant in the risk cache was last seen before the entry was made,
and no feed is older than its entry claims, as the time is read before the fetch.
`CalmCorrect` is arithmetic over the figures, whatever the other calls
brought: with no incidents in hand the posture takes its SLA share as 50, its share of
closed incidents as 0 and both times as 80, so the score is at most 78
(`NotGreen`) where green begins at 80, and the summary's SLA share is 0, which its
all-clear does not accept (`NotClear`). It uses that counts are natural numbers
and the connected endpoints a percentage (`ContentAssumption`).

Only model-checked: liveness (`OverdueIsFlagged`, `OverdueIsHandled`,
`VisibleIsStored`, `EveryRequestEnds`, `RunEnds`, `DueFires`, `EnabledIsPolled`), as
fairness and ENABLED are out of the prover's reach. Every other property of a passing
run is a theorem for all values of the constants.

## 6. What is not modelled

- The gateway, the console, live events: no state a property could be about.
- Endpoints that only read; password, profile and texts; the credentials API,
  the seeding of templates and the statistics of the automation service;
  `assign_incident`, attachments and enrichment: columns and files nothing else reads.
- The XSIAM proxies of the tenant service (`main.py:1171-2278`): they keep no
  state and call a `_xsiam_post` that module does not define, so they answer empty.
- The layout of the dashboard's pages and the charts' data.
- Text, payloads, credentials, HTTP and IMAP details: abstracted to what the
  control flow distinguishes.
- Time zones, the skew between the database's clock and a service's.
- Seed, migration and report scripts; analytics views and indexes of the schema.

## 7. Plan

What would come next, in order of importance.

1. `IncidentLife`: `IncidentSla`, `Escalation`, `Desk` and the upsert of the ingestion over one
   row, composed, with what each relies on from the others.
2. A second connector of one vendor in `IngestPipeline`, with shared fingerprints.
3. Abstract specifications of the escalation ladder (implemented by one worker,
   not by two) and of a set of executions with atomic decisions.
4. Attachments and enrichment.

## 8. Running

`tlc -config MCWorkflowEngine.cfg MCWorkflowEngine.tla` checks a run; the longest
takes about three minutes with two workers. `tlapm Tenants_proofs.tla` checks a
proof module.
