------------------------------- MODULE Tenants --------------------------------
(***************************************************************************)
(* The tenant service and the poll scheduler that follows it: tenants with *)
(* their isolation schema, connectors, mail servers shared by groups of    *)
(* tenants, teams, SLA targets and integrations (tenant-service/main.py),  *)
(* and the schedule the ingestion service rebuilds from them whenever it   *)
(* is told that a connector changed (ingestion-service/scheduler.py).      *)
(*                                                                         *)
(* A value a request writes (credentials, mail settings, configurations)   *)
(* is the number of the request.  A step of a request is one transaction,  *)
(* or one statement of it where others can come between.                   *)
(***************************************************************************)
EXTENDS Integers, FiniteSets

CONSTANTS
  Tenant, Connector,
  Row,        \* bound on rows of one group in mailing_configs: a change that
              \* needs more does not commit
  Request,    \* requests in progress
  MaxOps,     \* bound on requests
  MaxFaults,  \* bound on lost notifications, failed loads and restarts
  None

ASSUME BoundAssumption == {MaxOps, MaxFaults} \subseteq Nat
(* Rows of connector_configs and mailing_configs.  The vendor of a         *)
(* connector is free text: known says that the registry has a class for it.*)
ConnRow == [owner : Tenant, enabled : BOOLEAN, creds : Nat, known : BOOLEAN]
MailRow == [owner : Tenant, settings : Nat]
ASSUME NoneAssumption == None \notin Nat \cup Tenant \cup ConnRow \cup MailRow

VARIABLES
  tenant,   \* tenants: "never" created, "live" or "gone"
  conn,     \* connector_configs of all schemas
  path,     \* search_path of a pooled connection: None is public
  config,   \* config[t]: teams, levels, e-mails, SLA targets of t
  integ,    \* integ[t]: the configuration of an integration
  mail,     \* mailing_configs rows of the group
  req,
  job,      \* job[c]: the credentials a scheduled job polls with
  healing,  \* the self-healing refresh job
  loader,   \* load_and_schedule_connectors in progress
  reloads,  \* calls of /connectors/reload waiting for the event loop
  poll,     \* poll[c]: the credentials of a running poll
  polled,   \* polled[c]: the credentials of the last poll that ended
  ops, faults,
  want,     \* tenants the last change of the mail group asked for
  torn,     \* the last change of the mail group was overlapped by another,
            \* or a row of it was edited alone
  overlapped,  \* requests whose change of the mail group another one met
  twice,    \* tenants a creation listed twice, or overlapping changes added
  missed,   \* a change was not announced, or not wholly loaded, since
  committed,  \* tenants about whose connectors a request committed
  wrong     \* tenants shown the numbers of another schema

tenantVars == <<tenant, conn, path>>
configVars == <<config, integ>>
mailVars == <<mail, want, torn, overlapped, twice>>
jobVars == <<job, healing, loader, reloads, poll, polled>>
ghosts == <<missed, committed, wrong>>
vars == <<tenantVars, configVars, mailVars, req, jobVars, ops, faults, ghosts>>

Live == {t \in Tenant : tenant[t] = "live"}
Existing == {c \in Connector : conn[c] # None}
Rows == {m \in Row : mail[m] # None}
Owners == {mail[m].owner : m \in Rows}

NoReq == [op |-> "none", ts |-> {}, cur |-> {}, scan |-> {}, done |-> {},
          broken |-> FALSE, v |-> 0]
IdleLoader == [pc |-> "idle", todo |-> {}, seen |-> {}, rows |-> {}, broken |-> FALSE]
NoJobs == [c \in Connector |-> None]

(* A day's start: some tenants, their enabled connectors loaded, and a     *)
(* mail group for all of them or none.                                     *)
Init ==
  /\ tenant \in [Tenant -> {"never", "live"}]
  /\ conn \in [Connector -> {None} \cup [owner : Live, enabled : {TRUE}, creds : {0},
                                          known : BOOLEAN]]
  /\ path = None
  /\ config = [t \in Tenant |-> {}] /\ integ = [t \in Tenant |-> None]
  /\ want \in {{}, Live} /\ torn = FALSE /\ overlapped = {} /\ twice = {}
  /\ \E f \in {g \in [want -> Row] : \A x, y \in want : g[x] = g[y] => x = y} :
       mail = [m \in Row |-> IF \E t \in want : f[t] = m
                 THEN [owner |-> CHOOSE t \in want : f[t] = m, settings |-> 0] ELSE None]
  /\ req = [r \in Request |-> NoReq]
  /\ job = [c \in Connector |-> IF conn[c] # None /\ conn[c].known THEN 0 ELSE None]
  /\ healing = "paused"
  /\ loader = IdleLoader /\ reloads = 0
  /\ poll = NoJobs /\ polled = [c \in Connector |-> 0]
  /\ ops = 0 /\ faults = 0
  /\ missed = FALSE /\ committed = {} /\ wrong = {}

Op == ops < MaxOps /\ ops' = ops + 1
Fault == faults < MaxFaults /\ faults' = faults + 1
Begin(r, row) == req[r] = NoReq /\ req' = [req EXCEPT ![r] = row]
Set(r, row) == req' = [req EXCEPT ![r] = row]
End(r) == Set(r, NoReq)
Notifying(r) == Begin(r, [NoReq EXCEPT !.op = "notify"])
(* SET search_path outlives its transaction when that commits; the request *)
(* may have used the connection we watch, or another of the pool.          *)
Leaves(t) == path' \in {path, t} /\ committed' = committed \cup {t}

(* ---- tenants and connectors ------------------------------------------- *)
(* A new tenant starts with a disabled XSIAM connector.                    *)
create_tenant(r, t, c) ==
  /\ Op
  /\ tenant[t] = "never" /\ conn[c] = None
  /\ tenant' = [tenant EXCEPT ![t] = "live"]
  /\ conn' = [conn EXCEPT ![c] = [owner |-> t, enabled |-> FALSE, creds |-> ops',
                                   known |-> TRUE]]
  /\ Leaves(t)
  /\ Notifying(r)
  /\ UNCHANGED <<configVars, mailVars, jobVars, faults, missed, wrong>>

(* Any vendor is accepted.                                                 *)
create_connector(r, t, c, on, known) ==
  /\ Op
  /\ t \in Live /\ conn[c] = None
  /\ conn' = [conn EXCEPT ![c] = [owner |-> t, enabled |-> on, creds |-> ops',
                                   known |-> known]]
  /\ Leaves(t)
  /\ Notifying(r)
  /\ UNCHANGED <<tenant, configVars, mailVars, jobVars, faults, missed, wrong>>

Changed(c, on) == conn' = [conn EXCEPT ![c].enabled = on, ![c].creds = ops']
(* Mutant: the change is saved and nobody is told.                         *)
update_connector_quietly(r, c, on) ==
  /\ Op
  /\ c \in Existing /\ req[r] = NoReq
  /\ Changed(c, on)
  /\ Leaves(conn[c].owner)
  /\ UNCHANGED <<tenant, configVars, mailVars, req, jobVars, faults, missed, wrong>>
update_connector(r, c, on) ==
  /\ Op
  /\ c \in Existing
  /\ Changed(c, on)
  /\ Leaves(conn[c].owner)
  /\ Notifying(r)
  /\ UNCHANGED <<tenant, configVars, mailVars, jobVars, faults, missed, wrong>>

(* The connector is not in the tenant's schema: the commit comes before    *)
(* that is found out, and nobody is notified.                              *)
update_connector_missing(t) ==
  /\ Op
  /\ t \in Live
  /\ Leaves(t)
  /\ UNCHANGED <<tenant, conn, configVars, mailVars, req, jobVars, faults, missed, wrong>>

(* The reload is asked for with a time limit of 5 seconds; what happens to *)
(* the answer changes nothing.                                             *)
_notify_ingestion_reload(r) ==
  /\ req[r].op = "notify"
  /\ reloads' = reloads + 1
  /\ End(r)
  /\ UNCHANGED <<tenantVars, configVars, mailVars, job, healing, loader, poll, polled,
                 ops, faults, ghosts>>
NotifyLost(r) ==
  /\ req[r].op = "notify" /\ Fault
  /\ missed' = TRUE
  /\ End(r)
  /\ UNCHANGED <<tenantVars, configVars, mailVars, jobVars, ops, committed, wrong>>

(* Mutant: the rows of the mail group outlive their tenant.                *)
Without(t) ==
  /\ config' = [config EXCEPT ![t] = {}] /\ integ' = [integ EXCEPT ![t] = None]
  /\ conn' = [c \in Connector |-> IF c \in Existing /\ conn[c].owner = t THEN None ELSE conn[c]]
WithoutMail(t) == Without(t) /\ mail' = mail
(* The foreign keys cascade and the schema goes with its tables.           *)
Cascade(t) ==
  /\ Without(t)
  /\ mail' = [m \in Row |-> IF m \in Rows /\ mail[m].owner = t THEN None ELSE mail[m]]
(* DROP SCHEMA waits for a load that has read its tables, and the DELETE   *)
(* for a transaction with a reference to the tenant.  Nobody is notified.  *)
delete_tenant(t) ==
  /\ Op
  /\ t \in Live \ loader.seen
  /\ \A r \in Request : t \notin req[r].done
  /\ tenant' = [tenant EXCEPT ![t] = "gone"]
  /\ Cascade(t)
  /\ path' = IF path = t THEN None ELSE path
  /\ UNCHANGED <<want, torn, overlapped, twice, req, jobVars, faults, ghosts>>

(* Mutant: the listing ends its transaction with a commit.                 *)
get_connectors_committing(t) ==
  /\ t \in Live /\ path' = t /\ Op
  /\ UNCHANGED <<tenant, conn, configVars, mailVars, req, jobVars, faults, ghosts>>
(* The listing never commits: its search_path is rolled back.              *)
get_connectors(t) ==
  /\ t \in Live /\ path' = path /\ Op
  /\ UNCHANGED <<tenant, conn, configVars, mailVars, req, jobVars, faults, ghosts>>
(* The numbers come from whatever "incidents" means on the connection.     *)
tenant_stats(t) ==
  /\ Op /\ t \in Live
  /\ wrong' = IF path \in {None, t} THEN wrong ELSE wrong \cup {t}
  /\ UNCHANGED <<tenantVars, configVars, mailVars, req, jobVars, faults, missed, committed>>

(* ---- teams, SLA targets, integrations --------------------------------- *)
Adds(t, kind, on) ==
  /\ Op /\ t \in Live /\ on \subseteq config[t]
  /\ config' = [config EXCEPT ![t] = @ \cup {kind}]
  /\ UNCHANGED <<tenantVars, integ, mailVars, req, jobVars, faults, ghosts>>
Removes(t, kinds) ==
  /\ Op /\ config[t] \cap kinds # {}
  /\ config' = [config EXCEPT ![t] = @ \ kinds]
  /\ UNCHANGED <<tenantVars, integ, mailVars, req, jobVars, faults, ghosts>>
create_team(t) == Adds(t, "team", {})
create_level(t) == Adds(t, "level", {"team"})
add_email(t) == Adds(t, "email", {"level"})
upsert_sla_config(t) == Adds(t, "sla", {})
delete_team(t) == Removes(t, {"team", "level", "email"})
delete_level(t) == Removes(t, {"level", "email"})
remove_email(t) == Removes(t, {"email"})

Integrate(t, v) ==
  /\ Op /\ integ' = [integ EXCEPT ![t] = v]
  /\ UNCHANGED <<tenantVars, config, mailVars, req, jobVars, faults, ghosts>>
upsert_integration(t) == t \in Live /\ Integrate(t, ops')
patch_integration(t) == integ[t] # None /\ Integrate(t, ops')
delete_integration(t) == integ[t] # None /\ Integrate(t, None)

(* One transaction for all tenants, one statement for each: a tenant that  *)
(* is gone aborts it, every later statement fails, and the commit rolls    *)
(* back what came before.                                                  *)
bulk_toggle_integration(r, ts) ==
  /\ Op
  /\ Begin(r, [NoReq EXCEPT !.op = "bulk", !.ts = ts, !.v = ops'])
  /\ UNCHANGED <<tenantVars, configVars, mailVars, jobVars, faults, ghosts>>
BulkTenant(r, t) ==
  /\ req[r].op = "bulk" /\ t \in req[r].ts
  /\ Set(r, IF t \in Live /\ ~req[r].broken
            THEN [req[r] EXCEPT !.ts = @ \ {t}, !.done = @ \cup {t}]
            ELSE [req[r] EXCEPT !.ts = @ \ {t}, !.cur = @ \cup {t}, !.broken = TRUE])
  /\ UNCHANGED <<tenantVars, configVars, mailVars, jobVars, ops, faults, ghosts>>
BulkCommit(r) ==
  /\ req[r].op = "bulk" /\ req[r].ts = {}
  /\ integ' = IF req[r].broken THEN integ
              ELSE [t \in Tenant |-> IF t \in req[r].done THEN req[r].v ELSE integ[t]]
  /\ End(r)
  /\ UNCHANGED <<tenantVars, config, mailVars, jobVars, ops, faults, ghosts>>

(* ---- mail servers shared by a group of tenants ------------------------ *)
Free == Row \ Rows
NewRow(t, v) == [owner |-> t, settings |-> v]
(* Places for one row per tenant among the free ids.                       *)
Places(ts) == {f \in [ts -> Free] : \A x, y \in ts : f[x] = f[y] => x = y}
Putting == {r \in Request : req[r].op \in {"put", "scanned"}}

(* One row for every entry of the list, which may name a tenant twice.     *)
create_mail_config_group(ts) ==
  /\ Op
  /\ Rows = {} /\ Putting = {} /\ ts # {} /\ ts \subseteq Live
  /\ \E f \in [Row -> ts \cup {None}] :
       /\ \A t \in ts : \E m \in Row : f[m] = t
       /\ mail' = [m \in Row |-> IF f[m] = None THEN None ELSE NewRow(f[m], ops')]
       /\ twice' = {t \in ts : \E m, n \in Row : m # n /\ f[m] = t /\ f[n] = t}
  /\ want' = ts /\ torn' = FALSE
  /\ UNCHANGED <<tenantVars, configVars, overlapped, req, jobVars, faults, ghosts>>
(* The tenants of the group are read, then its rows are updated, then the  *)
(* difference is deleted and inserted.                                     *)
update_mail_config_group(r, ts) ==
  /\ Op
  /\ ts # {} /\ Rows # {}
  /\ Begin(r, [NoReq EXCEPT !.op = "put", !.ts = ts, !.cur = Owners, !.v = ops'])
  /\ overlapped' = IF Putting = {} THEN {} ELSE Putting \cup {r}
  /\ UNCHANGED <<tenantVars, configVars, mail, want, torn, twice, jobVars, faults, ghosts>>
PutScan(r) ==
  /\ req[r].op = "put"
  /\ Set(r, [req[r] EXCEPT !.op = "scanned", !.scan = Rows])
  /\ UNCHANGED <<tenantVars, configVars, mailVars, jobVars, ops, faults, ghosts>>
(* Mutant: rows of removed tenants stay.                                   *)
KeptAll(r) == Rows
(* The UPDATE waits for a row another transaction holds, but never sees    *)
(* rows inserted after it began.                                           *)
Kept(r) == {m \in Rows : mail[m].owner \notin req[r].cur \ req[r].ts}
PutCommit(r) ==
  LET new == req[r].ts \ req[r].cur IN
  /\ req[r].op = "scanned" /\ new \subseteq Live
  /\ \E f \in Places(new) :
       mail' = [m \in Row |->
         IF \E t \in new : f[t] = m THEN NewRow(CHOOSE t \in new : f[t] = m, req[r].v)
         ELSE IF m \notin Kept(r) THEN None
         ELSE IF m \in req[r].scan THEN NewRow(mail[m].owner, req[r].v) ELSE mail[m]]
  /\ want' = req[r].ts
  /\ torn' = (r \in overlapped) /\ overlapped' = overlapped \ {r}
  /\ twice' = IF r \in overlapped THEN twice \cup new ELSE twice
  /\ End(r)
  /\ UNCHANGED <<tenantVars, configVars, jobVars, ops, faults, ghosts>>
(* A tenant to add is gone: the transaction is rolled back.                *)
PutFails(r) ==
  /\ req[r].op = "scanned" /\ ~(req[r].ts \ req[r].cur \subseteq Live)
  /\ overlapped' = overlapped \ {r}
  /\ End(r)
  /\ UNCHANGED <<tenantVars, configVars, mail, want, torn, twice, jobVars, ops, faults,
                 ghosts>>
delete_mail_config_group ==
  /\ Op /\ Rows # {}
  /\ mail' = [m \in Row |-> None]
  /\ want' = {} /\ torn' = FALSE /\ overlapped' = Putting
  /\ UNCHANGED <<tenantVars, configVars, twice, req, jobVars, faults, ghosts>>
(* One tenant's own page changes or deletes its row of the group.          *)
update_mail_config(m) ==
  /\ Op /\ m \in Rows
  /\ mail' = [mail EXCEPT ![m].settings = ops']
  /\ torn' = TRUE /\ overlapped' = Putting
  /\ UNCHANGED <<tenantVars, configVars, want, twice, req, jobVars, faults, ghosts>>
delete_mail_config(m) ==
  /\ Op /\ m \in Rows
  /\ mail' = [mail EXCEPT ![m] = None]
  /\ torn' = TRUE /\ overlapped' = Putting
  /\ UNCHANGED <<tenantVars, configVars, want, twice, req, jobVars, faults, ghosts>>

(* ---- the poll scheduler ----------------------------------------------- *)
(* APScheduler: a job added with next_run_time=None is added paused.       *)
FirstRun(next) == IF next = None THEN "paused" ELSE "due"

(* The handler blocks the event loop: reloads run one after the other, and *)
(* no job is started meanwhile.  It removes all jobs first.                *)
reload_connectors ==
  /\ loader.pc = "idle"
  /\ reloads > 0 \/ healing = "due"
  /\ reloads' = IF reloads > 0 THEN reloads - 1 ELSE 0
  /\ job' = IF reloads > 0 THEN NoJobs ELSE job
  /\ healing' = "none"
  /\ loader' = [IdleLoader EXCEPT !.pc = "load"]
  /\ UNCHANGED <<tenantVars, configVars, mailVars, req, poll, polled, ops, faults, ghosts>>
ReadTenants ==
  /\ loader.pc = "load"
  /\ loader' = [loader EXCEPT !.pc = "read", !.todo = Live]
  /\ missed' = FALSE
  /\ UNCHANGED <<tenantVars, configVars, mailVars, req, job, healing, reloads, poll,
                 polled, ops, faults, committed, wrong>>
(* All is read in one transaction: a schema dropped since the tenants were *)
(* read aborts it, and no later tenant is loaded.                          *)
ReadTenant(t) ==
  LET broken == loader.broken \/ t \notin Live IN
  /\ loader.pc = "read" /\ t \in loader.todo
  /\ loader' = [loader EXCEPT !.todo = @ \ {t}, !.broken = broken,
                  !.seen = IF broken THEN @ ELSE @ \cup {t},
                  !.rows = IF broken THEN @ ELSE @ \cup
                             {<<c, conn[c].creds, conn[c].known>> : c \in {d \in Existing :
                                conn[d].owner = t /\ conn[d].enabled}}]
  /\ missed' = (missed \/ broken)
  /\ UNCHANGED <<tenantVars, configVars, mailVars, req, job, healing, reloads, poll,
                 polled, ops, faults, committed, wrong>>
(* A connector whose vendor has no class in the registry is skipped.       *)
Loads(c) == {p[2] : p \in {q \in loader.rows : q[1] = c /\ q[3]}}
(* Mutant: a connector that is being polled is not scheduled again.        *)
ScheduledIdle == [c \in Connector |->
  IF Loads(c) = {} \/ poll[c] # None THEN job[c] ELSE CHOOSE v \in Loads(c) : TRUE]
Scheduled == [c \in Connector |->
  IF Loads(c) = {} THEN job[c] ELSE CHOOSE v \in Loads(c) : TRUE]
ReloadEnd ==
  /\ loader.pc = "read" /\ loader.todo = {}
  /\ job' = Scheduled
  /\ healing' = FirstRun(None)
  /\ loader' = IdleLoader
  /\ UNCHANGED <<tenantVars, configVars, mailVars, req, reloads, poll, polled, ops,
                 faults, ghosts>>
(* The database does not answer: no job is left, not even the refresh.     *)
LoadFails ==
  /\ loader.pc = "load" /\ Fault
  /\ loader' = IdleLoader
  /\ missed' = TRUE
  /\ UNCHANGED <<tenantVars, configVars, mailVars, req, job, healing, reloads, poll,
                 polled, ops, committed, wrong>>
(* The ingestion service restarts and loads.                               *)
Restart ==
  /\ Fault
  /\ job' = NoJobs /\ poll' = NoJobs
  /\ reloads' = 0 /\ healing' = "none"
  /\ loader' = [IdleLoader EXCEPT !.pc = "load"]
  /\ UNCHANGED <<tenantVars, configVars, mailVars, req, polled, ops, ghosts>>

(* One poll of a connector at a time, also across reloads; it keeps the    *)
(* credentials it was started with.                                        *)
PollStart(c) ==
  /\ loader.pc = "idle" /\ job[c] # None /\ poll[c] = None
  /\ poll' = [poll EXCEPT ![c] = job[c]]
  /\ UNCHANGED <<tenantVars, configVars, mailVars, req, job, healing, loader, reloads,
                 polled, ops, faults, ghosts>>
PollEnd(c) ==
  /\ poll[c] # None
  /\ polled' = [polled EXCEPT ![c] = poll[c]]
  /\ poll' = [poll EXCEPT ![c] = None]
  /\ UNCHANGED <<tenantVars, configVars, mailVars, req, job, healing, loader, reloads,
                 ops, faults, ghosts>>

ConnectorStep(r) ==
  \/ \E t \in Tenant, c \in Connector :
       create_tenant(r, t, c) \/ \E on, known \in BOOLEAN : create_connector(r, t, c, on, known)
  \/ \E c \in Connector, on \in BOOLEAN : update_connector(r, c, on)
  \/ _notify_ingestion_reload(r) \/ NotifyLost(r)
ConfigStep(t) ==
  \/ update_connector_missing(t)
  \/ delete_tenant(t) \/ get_connectors(t) \/ tenant_stats(t)
  \/ create_team(t) \/ create_level(t) \/ add_email(t) \/ upsert_sla_config(t)
  \/ delete_team(t) \/ delete_level(t) \/ remove_email(t)
  \/ upsert_integration(t) \/ patch_integration(t) \/ delete_integration(t)
BulkStep(r) ==
  \/ \E ts \in SUBSET Tenant : ts # {} /\ bulk_toggle_integration(r, ts)
  \/ \E t \in Tenant : BulkTenant(r, t)
  \/ BulkCommit(r)
MailStep ==
  \/ \E ts \in SUBSET Tenant : create_mail_config_group(ts)
                                \/ \E r \in Request : update_mail_config_group(r, ts)
  \/ \E r \in Request : PutScan(r) \/ PutCommit(r) \/ PutFails(r)
  \/ delete_mail_config_group
  \/ \E m \in Row : update_mail_config(m) \/ delete_mail_config(m)
LoadStep == ReadTenants \/ (\E t \in Tenant : ReadTenant(t)) \/ ReloadEnd
SchedulerStep ==
  \/ reload_connectors \/ LoadStep \/ LoadFails \/ Restart
  \/ \E c \in Connector : PollStart(c) \/ PollEnd(c)

Next == \/ \E r \in Request : ConnectorStep(r) \/ BulkStep(r)
        \/ \E t \in Tenant : ConfigStep(t)
        \/ MailStep \/ SchedulerStep

Spec == Init /\ [][Next]_vars
(* A handler runs on once it has committed; the event loop serves reloads  *)
(* and finishes them; the interval of a job comes round; polls time out.   *)
Fairness == /\ \A r \in Request : WF_vars(_notify_ingestion_reload(r))
            /\ WF_vars(reload_connectors) /\ WF_vars(LoadStep)
            /\ \A c \in Connector : WF_vars(PollStart(c)) /\ WF_vars(PollEnd(c))
FairSpec == Spec /\ Fairness

(* ---- properties ------------------------------------------------------- *)
Kind == {"team", "level", "email", "sla"}
TypeOK ==
  /\ tenant \in [Tenant -> {"never", "live", "gone"}]
  /\ conn \in [Connector -> {None} \cup ConnRow]
  /\ path \in Tenant \cup {None}
  /\ config \in [Tenant -> SUBSET Kind]
  /\ integ \in [Tenant -> Nat \cup {None}]
  /\ mail \in [Row -> {None} \cup MailRow]
  /\ req \in [Request -> [op : {"none", "notify", "bulk", "put", "scanned"},
                ts : SUBSET Tenant, cur : SUBSET Tenant, scan : SUBSET Row,
                done : SUBSET Tenant, broken : BOOLEAN, v : Nat]]
  /\ job \in [Connector -> Nat \cup {None}]
  /\ healing \in {"none", "paused", "due"}
  /\ loader \in [pc : {"idle", "load", "read"}, todo : SUBSET Tenant,
                 seen : SUBSET Tenant, rows : SUBSET (Connector \X Nat \X BOOLEAN),
                 broken : BOOLEAN]
  /\ reloads \in Nat /\ ops \in Nat /\ faults \in Nat
  /\ poll \in [Connector -> Nat \cup {None}] /\ polled \in [Connector -> Nat]
  /\ want \subseteq Tenant /\ torn \in BOOLEAN /\ missed \in BOOLEAN
  /\ overlapped \subseteq Request /\ twice \subseteq Tenant
  /\ committed \subseteq Tenant /\ wrong \subseteq Tenant

(* When every change has been announced and loaded, the schedule holds the *)
(* enabled connectors with the credentials they have now, and none whose   *)
(* vendor has no connector class, although it is enabled.  Jobs of others  *)
(* are left only where the tenant was deleted, which nobody announces.     *)
Quiet == /\ loader.pc = "idle" /\ reloads = 0
         /\ \A r \in Request : req[r].op # "notify"
JobsAreCurrent ==
  Quiet /\ ~missed =>
    \A c \in Existing : job[c] = IF conn[c].enabled /\ conn[c].known
                                 THEN conn[c].creds ELSE None

(* Of what cascades nothing is left half: no row of a tenant's schema or   *)
(* of a table with a foreign key to tenants refers to one that is gone,    *)
(* and a level or an e-mail always has the team it hangs from.  The table  *)
(* sla_events, which has no foreign key, keeps its rows for ever.          *)
CascadesAreWhole ==
  /\ \A c \in Existing : conn[c].owner \in Live
  /\ Owners \subseteq Live
  /\ \A t \in Tenant \ Live : config[t] = {} /\ integ[t] = None
  /\ \A t \in Tenant : /\ "level" \in config[t] => "team" \in config[t]
                       /\ "email" \in config[t] => "level" \in config[t]

(* A change of the group that no other one met leaves one configuration,   *)
(* for exactly the tenants it asked for that still exist, whatever earlier *)
(* changes left: it mends rows edited alone and changes that overlapped,   *)
(* of which nothing is promised until then.  At all times a tenant has two *)
(* rows only where a creation listed it twice or two overlapping changes   *)
(* both added it; no later change mends that.                              *)
GroupIsWhole ==
  /\ \A m, n \in Rows : mail[m].owner = mail[n].owner => m = n \/ mail[m].owner \in twice
  /\ ~torn => /\ \A m, n \in Rows : mail[m].settings = mail[n].settings
              /\ Owners = want \cap Live

(* A tenant is shown another schema's numbers only after a request about a *)
(* connector of another tenant committed, whether the connector was saved  *)
(* or not even found; looking at connectors never does it.                 *)
WrongNeedsCommit == \A t \in wrong : committed \ {t} # {}

(* An enabled connector of a known vendor is polled with the credentials   *)
(* it has, unless they change again or the change was lost on the way to   *)
(* the scheduler.  A lost change waits for the next announced one: the job *)
(* that should refresh all connectors every ten minutes is added paused    *)
(* (next_run_time None) and never runs.                                    *)
EnabledIsPolled ==
  \A c \in Connector :
    []<>(\/ missed \/ c \notin Existing
         \/ /\ c \in Existing
            /\ ~conn[c].enabled \/ ~conn[c].known \/ polled[c] = conn[c].creds)

=============================================================================
