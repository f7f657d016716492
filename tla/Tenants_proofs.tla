---------------------------- MODULE Tenants_proofs -----------------------------
(***************************************************************************)
(* Proofs about Tenants, for any tenants, connectors, rows, requests and   *)
(* bounds.  The four invariants the run checks rest on one each:           *)
(*   CascadesAreWhole  what an open transaction refers to cannot be        *)
(*                     deleted (Referring);                                *)
(*   WrongNeedsCommit  a search_path is of a tenant about whose connectors *)
(*                     a request committed (PathCommitted);                *)
(*   GroupIsWhole      what a change of the group read at its start covers *)
(*                     the rows until another one meets it (Tracking);     *)
(*   JobsAreCurrent    what is loaded so far is what the database holds,   *)
(*                     or a notice or a reload is still to come (OnItsWay).*)
(***************************************************************************)
EXTENDS Tenants, TLAPS

DatabaseType ==
  /\ tenant \in [Tenant -> {"never", "live", "gone"}]
  /\ conn \in [Connector -> {None} \cup ConnRow]
  /\ path \in Tenant \cup {None}
  /\ committed \subseteq Tenant /\ wrong \subseteq Tenant /\ missed \in BOOLEAN
ConfigType == config \in [Tenant -> SUBSET Kind] /\ integ \in [Tenant -> Nat \cup {None}]
MailType == /\ mail \in [Row -> {None} \cup MailRow]
            /\ want \subseteq Tenant /\ torn \in BOOLEAN
            /\ twice \subseteq Tenant
OverlapType == overlapped \subseteq Request
Reqs == [op : {"none", "notify", "bulk", "put", "scanned"},
         ts : SUBSET Tenant, cur : SUBSET Tenant, scan : SUBSET Row,
         done : SUBSET Tenant, broken : BOOLEAN, v : Nat]
ReqType == req \in [Request -> Reqs]
Loaders == [pc : {"idle", "load", "read"}, todo : SUBSET Tenant,
            seen : SUBSET Tenant, rows : SUBSET (Connector \X Nat \X BOOLEAN), broken : BOOLEAN]
JobType == /\ job \in [Connector -> Nat \cup {None}]
           /\ healing \in {"none", "paused", "due"}
           /\ loader \in Loaders /\ reloads \in Nat
           /\ poll \in [Connector -> Nat \cup {None}] /\ polled \in [Connector -> Nat]
CountType == ops \in Nat /\ faults \in Nat

LEMMA TypeParts ==
  TypeOK <=> /\ DatabaseType /\ ConfigType /\ MailType /\ OverlapType
             /\ ReqType /\ JobType /\ CountType
BY DEF TypeOK, DatabaseType, ConfigType, MailType, OverlapType, ReqType, Reqs, JobType, Loaders,
   CountType

LEMMA Steps ==
  ASSUME Next
  PROVE  \/ \E r \in Request, t \in Tenant, c \in Connector :
              create_tenant(r, t, c) \/ \E on, known \in BOOLEAN : create_connector(r, t, c, on, known)
         \/ \E r \in Request, c \in Connector, on \in BOOLEAN : update_connector(r, c, on)
         \/ \E r \in Request : _notify_ingestion_reload(r) \/ NotifyLost(r)
         \/ \E t \in Tenant : delete_tenant(t) \/ get_connectors(t) \/ tenant_stats(t)
              \/ update_connector_missing(t)
         \/ \E t \in Tenant : create_team(t) \/ create_level(t) \/ add_email(t)
              \/ upsert_sla_config(t) \/ delete_team(t) \/ delete_level(t) \/ remove_email(t)
         \/ \E t \in Tenant : upsert_integration(t) \/ patch_integration(t)
              \/ delete_integration(t)
         \/ \E r \in Request, ts \in SUBSET Tenant :
              bulk_toggle_integration(r, ts) \/ update_mail_config_group(r, ts)
         \/ \E r \in Request, t \in Tenant : BulkTenant(r, t)
         \/ \E r \in Request : BulkCommit(r) \/ PutScan(r) \/ PutCommit(r) \/ PutFails(r)
         \/ \E ts \in SUBSET Tenant : create_mail_config_group(ts)
         \/ delete_mail_config_group
         \/ \E m \in Row : update_mail_config(m) \/ delete_mail_config(m)
         \/ reload_connectors \/ ReadTenants \/ ReloadEnd \/ LoadFails \/ Restart
         \/ \E t \in Tenant : ReadTenant(t)
         \/ \E c \in Connector : PollStart(c) \/ PollEnd(c)
BY DEF Next, ConnectorStep, ConfigStep, BulkStep, MailStep, LoadStep, SchedulerStep

-----------------------------------------------------------------------------
(* Who changes what.                                                       *)
dbVars == <<tenant, conn, path, committed, wrong>>
groupVars == <<mail, want, torn, twice>>
planVars == <<job, loader, healing, reloads, poll, polled, missed>>

LEMMA DatabaseSteps ==
  ASSUME Next
  PROVE  \/ \E r \in Request, t \in Tenant, c \in Connector :
              create_tenant(r, t, c) \/ \E on, known \in BOOLEAN : create_connector(r, t, c, on, known)
         \/ \E r \in Request, c \in Connector, on \in BOOLEAN : update_connector(r, c, on)
         \/ \E t \in Tenant : delete_tenant(t) \/ tenant_stats(t) \/ update_connector_missing(t)
         \/ UNCHANGED dbVars
BY Steps DEF dbVars, _notify_ingestion_reload, NotifyLost, get_connectors,
   create_team, create_level, add_email, upsert_sla_config, delete_team, delete_level,
   remove_email, Adds, Removes, upsert_integration, patch_integration, delete_integration,
   Integrate, bulk_toggle_integration, update_mail_config_group, BulkTenant, BulkCommit,
   PutScan, PutCommit, PutFails, create_mail_config_group, delete_mail_config_group,
   update_mail_config, delete_mail_config, reload_connectors, ReadTenants, ReloadEnd,
   LoadFails, Restart, ReadTenant, PollStart, PollEnd, tenantVars, ghosts

LEMMA ConfigSteps ==
  ASSUME Next
  PROVE  \/ \E t \in Tenant : create_team(t) \/ create_level(t) \/ add_email(t)
              \/ upsert_sla_config(t) \/ delete_team(t) \/ delete_level(t) \/ remove_email(t)
         \/ \E t \in Tenant : upsert_integration(t) \/ patch_integration(t)
              \/ delete_integration(t) \/ delete_tenant(t)
         \/ \E r \in Request : BulkCommit(r)
         \/ UNCHANGED configVars
BY Steps DEF create_tenant, create_connector, update_connector, _notify_ingestion_reload,
   NotifyLost, get_connectors, tenant_stats, update_connector_missing,
   bulk_toggle_integration, update_mail_config_group, BulkTenant,
   PutScan, PutCommit, PutFails, create_mail_config_group, delete_mail_config_group,
   update_mail_config, delete_mail_config, reload_connectors, ReadTenants, ReloadEnd,
   LoadFails, Restart, ReadTenant, PollStart, PollEnd, configVars

LEMMA MailSteps ==
  ASSUME Next
  PROVE  \/ \E ts \in SUBSET Tenant : create_mail_config_group(ts)
         \/ \E r \in Request : PutCommit(r)
         \/ delete_mail_config_group
         \/ \E m \in Row : update_mail_config(m) \/ delete_mail_config(m)
         \/ \E t \in Tenant : delete_tenant(t)
         \/ UNCHANGED groupVars
BY Steps DEF create_tenant, create_connector, update_connector, _notify_ingestion_reload,
   NotifyLost, get_connectors, tenant_stats, update_connector_missing,
   create_team, create_level, add_email, upsert_sla_config, delete_team, delete_level,
   remove_email, Adds, Removes, upsert_integration, patch_integration, delete_integration,
   Integrate, bulk_toggle_integration, update_mail_config_group, BulkTenant, BulkCommit,
   PutScan, PutFails, reload_connectors, ReadTenants, ReloadEnd,
   LoadFails, Restart, ReadTenant, PollStart, PollEnd, mailVars, groupVars

LEMMA OverlapSteps ==
  ASSUME Next
  PROVE  \/ \E r \in Request, ts \in SUBSET Tenant : update_mail_config_group(r, ts)
         \/ \E r \in Request : PutCommit(r) \/ PutFails(r)
         \/ delete_mail_config_group
         \/ \E m \in Row : update_mail_config(m) \/ delete_mail_config(m)
         \/ UNCHANGED overlapped
BY Steps DEF create_tenant, create_connector, update_connector, _notify_ingestion_reload,
   NotifyLost, get_connectors, tenant_stats, update_connector_missing, delete_tenant,
   create_team, create_level, add_email, upsert_sla_config, delete_team, delete_level,
   remove_email, Adds, Removes, upsert_integration, patch_integration, delete_integration,
   Integrate, bulk_toggle_integration, BulkTenant, BulkCommit, create_mail_config_group,
   PutScan, reload_connectors, ReadTenants, ReloadEnd,
   LoadFails, Restart, ReadTenant, PollStart, PollEnd, mailVars

LEMMA RequestSteps ==
  ASSUME Next
  PROVE  \/ \E r \in Request, t \in Tenant, c \in Connector :
              create_tenant(r, t, c) \/ \E on, known \in BOOLEAN : create_connector(r, t, c, on, known)
         \/ \E r \in Request, c \in Connector, on \in BOOLEAN : update_connector(r, c, on)
         \/ \E r \in Request, ts \in SUBSET Tenant :
              bulk_toggle_integration(r, ts) \/ update_mail_config_group(r, ts)
         \/ \E r \in Request, t \in Tenant : BulkTenant(r, t)
         \/ \E r \in Request : \/ _notify_ingestion_reload(r) \/ NotifyLost(r)
              \/ BulkCommit(r) \/ PutScan(r) \/ PutCommit(r) \/ PutFails(r)
         \/ UNCHANGED req
BY Steps DEF get_connectors, tenant_stats, delete_tenant, update_connector_missing,
   create_team, create_level, add_email, upsert_sla_config, delete_team, delete_level,
   remove_email, Adds, Removes, upsert_integration, patch_integration, delete_integration,
   Integrate, create_mail_config_group, delete_mail_config_group,
   update_mail_config, delete_mail_config, reload_connectors, ReadTenants, ReloadEnd,
   LoadFails, Restart, ReadTenant, PollStart, PollEnd

LEMMA PlanSteps ==
  ASSUME Next
  PROVE  \/ \E r \in Request : _notify_ingestion_reload(r) \/ NotifyLost(r)
         \/ reload_connectors \/ ReadTenants \/ ReloadEnd \/ LoadFails \/ Restart
         \/ \E t \in Tenant : ReadTenant(t)
         \/ \E c \in Connector : PollStart(c) \/ PollEnd(c)
         \/ UNCHANGED planVars
<1> USE DEF planVars, jobVars, ghosts
<1>1. ASSUME \/ \E r \in Request, t \in Tenant, c \in Connector :
                   \/ create_tenant(r, t, c)
                   \/ \E on, known \in BOOLEAN : create_connector(r, t, c, on, known)
             \/ \E r \in Request, c \in Connector, on \in BOOLEAN : update_connector(r, c, on)
             \/ \E t \in Tenant : update_connector_missing(t)
      PROVE  UNCHANGED planVars
  BY <1>1 DEF create_tenant, create_connector, update_connector, update_connector_missing
<1>2. ASSUME NEW t \in Tenant,
             \/ delete_tenant(t) \/ get_connectors(t) \/ tenant_stats(t)
             \/ create_team(t) \/ create_level(t) \/ add_email(t)
             \/ upsert_sla_config(t) \/ delete_team(t) \/ delete_level(t) \/ remove_email(t)
             \/ upsert_integration(t) \/ patch_integration(t) \/ delete_integration(t)
      PROVE  UNCHANGED planVars
  BY <1>2 DEF get_connectors, tenant_stats, delete_tenant, create_team, create_level, add_email,
     upsert_sla_config, delete_team, delete_level, remove_email, Adds, Removes,
     upsert_integration, patch_integration, delete_integration, Integrate
<1>3. ASSUME \/ \E r \in Request, ts \in SUBSET Tenant :
                   bulk_toggle_integration(r, ts) \/ update_mail_config_group(r, ts)
             \/ \E r \in Request, t \in Tenant : BulkTenant(r, t)
             \/ \E r \in Request : BulkCommit(r) \/ PutScan(r) \/ PutCommit(r) \/ PutFails(r)
             \/ \E ts \in SUBSET Tenant : create_mail_config_group(ts)
             \/ delete_mail_config_group
      PROVE  UNCHANGED planVars
  BY <1>3 DEF bulk_toggle_integration, update_mail_config_group, BulkTenant, BulkCommit, PutScan,
     PutCommit, PutFails, create_mail_config_group, delete_mail_config_group
<1>4. ASSUME NEW m \in Row, update_mail_config(m) \/ delete_mail_config(m)
      PROVE  UNCHANGED planVars
  BY <1>4 DEF update_mail_config, delete_mail_config
<1> HIDE DEF planVars, jobVars, ghosts
<1> QED
  BY Steps, <1>1, <1>2, <1>3, <1>4

LEMMA CountSteps ==
  ASSUME Next
  PROVE  (Op \/ UNCHANGED ops) /\ (Fault \/ UNCHANGED faults)
<1>1. Op \/ UNCHANGED ops
  BY Steps DEF create_tenant, create_connector, update_connector, get_connectors,
   tenant_stats, update_connector_missing, delete_tenant, _notify_ingestion_reload, NotifyLost,
   create_team, create_level, add_email, upsert_sla_config, delete_team, delete_level,
   remove_email, Adds, Removes, upsert_integration, patch_integration, delete_integration,
   Integrate, bulk_toggle_integration, update_mail_config_group, BulkTenant, BulkCommit,
   PutScan, PutCommit, PutFails, create_mail_config_group, delete_mail_config_group,
   update_mail_config, delete_mail_config, reload_connectors, ReadTenants, ReloadEnd,
   LoadFails, Restart, ReadTenant, PollStart, PollEnd
<1>2. Fault \/ UNCHANGED faults
  BY Steps DEF create_tenant, create_connector, update_connector, get_connectors,
   tenant_stats, update_connector_missing, delete_tenant, _notify_ingestion_reload, NotifyLost,
   create_team, create_level, add_email, upsert_sla_config, delete_team, delete_level,
   remove_email, Adds, Removes, upsert_integration, patch_integration, delete_integration,
   Integrate, bulk_toggle_integration, update_mail_config_group, BulkTenant, BulkCommit,
   PutScan, PutCommit, PutFails, create_mail_config_group, delete_mail_config_group,
   update_mail_config, delete_mail_config, reload_connectors, ReadTenants, ReloadEnd,
   LoadFails, Restart, ReadTenant, PollStart, PollEnd
<1> QED
  BY <1>1, <1>2

-----------------------------------------------------------------------------
(* Types.                                                                  *)
LEMMA BeginTypes ==
  ASSUME ReqType, NEW r \in Request, NEW row \in Reqs, Begin(r, row) \/ Set(r, row)
  PROVE  ReqType'
BY DEF ReqType, Begin, Set

LEMMA InitTypes == Init => TypeOK
<1> SUFFICES ASSUME Init PROVE TypeOK
  OBVIOUS
<1> USE DEF Init
<1>1. DatabaseType
  <2>1. [owner : Live, enabled : {TRUE}, creds : {0}, known : BOOLEAN] \subseteq ConnRow
    <3>1. Live \subseteq Tenant
      BY DEF Live
    <3>2. ASSUME NEW x \in [owner : Live, enabled : {TRUE}, creds : {0}, known : BOOLEAN]
          PROVE  x \in ConnRow
      <4>1. x = [owner |-> x.owner, enabled |-> x.enabled, creds |-> x.creds,
                    known |-> x.known]
        OBVIOUS
      <4>2. x.owner \in Tenant /\ x.creds \in Nat /\ x.known \in BOOLEAN
        BY <3>1
      <4>3. x.enabled \in {TRUE}
        OBVIOUS
      <4>4. x.enabled \in BOOLEAN
        BY <4>3
      <4> QED
        BY <4>1, <4>2, <4>4 DEF ConnRow
    <3> QED
      BY <3>2
  <2>2. conn \in [Connector -> {None} \cup ConnRow]
    BY <2>1
  <2>3. tenant \in [Tenant -> {"never", "live", "gone"}]
    OBVIOUS
  <2> QED
    BY <2>2, <2>3 DEF DatabaseType
<1>2. ConfigType /\ CountType
  BY DEF ConfigType, CountType
<1>3. MailType
  <2>1. want \subseteq Tenant
    BY DEF Live
  <2>2. PICK f \in [want -> Row] :
          mail = [m \in Row |-> IF \E t \in want : f[t] = m
                   THEN [owner |-> CHOOSE t \in want : f[t] = m, settings |-> 0] ELSE None]
    OBVIOUS
  <2>3. ASSUME NEW m \in Row PROVE mail[m] \in {None} \cup MailRow
    <3>1. CASE \E t \in want : f[t] = m
      <4> DEFINE o == CHOOSE t \in want : f[t] = m
      <4>1. o \in Tenant
        BY <3>1, <2>1
      <4>2. mail[m] = [owner |-> o, settings |-> 0]
        BY <2>2, <3>1
      <4> HIDE DEF o
      <4> QED
        BY <4>1, <4>2 DEF MailRow
    <3> QED
      BY <2>2, <3>1
  <2>4. mail \in [Row -> {None} \cup MailRow]
    BY <2>2, <2>3
  <2> QED
    BY <2>1, <2>4 DEF MailType
<1>4. ReqType /\ OverlapType
  BY DEF ReqType, Reqs, NoReq, OverlapType
<1>5. JobType
  BY DEF JobType, Loaders, IdleLoader, NoJobs
<1> QED
  BY <1>1, <1>2, <1>3, <1>4, <1>5, TypeParts

LEMMA DatabaseTypes == TypeOK /\ Next => DatabaseType'
<1> SUFFICES ASSUME TypeOK, Next PROVE DatabaseType'
  OBVIOUS
<1>0. DatabaseType /\ CountType /\ missed' \in BOOLEAN
  <2>1. DatabaseType /\ CountType
    BY TypeParts
  <2>2. missed' \in BOOLEAN
    BY PlanSteps, <2>1 DEF DatabaseType, _notify_ingestion_reload, NotifyLost, ghosts,
       reload_connectors, ReadTenants, ReloadEnd, LoadFails, Restart, ReadTenant,
       PollStart, PollEnd, planVars, jobVars
  <2> QED
    BY <2>1, <2>2
<1> USE DEF DatabaseType, ConnRow
<1>1. ASSUME NEW r \in Request, NEW t \in Tenant, NEW c \in Connector,
             create_tenant(r, t, c) \/ \E on, known \in BOOLEAN : create_connector(r, t, c, on, known)
      PROVE  DatabaseType'
  <2>0. ops' \in Nat
    BY <1>0, <1>1 DEF create_tenant, create_connector, Op, CountType
  <2>1. path' \in Tenant \cup {None} /\ committed' \subseteq Tenant /\ UNCHANGED wrong
    BY <1>0, <1>1 DEF create_tenant, create_connector, Leaves
  <2>2. tenant' \in [Tenant -> {"never", "live", "gone"}]
    BY <1>0, <1>1 DEF create_tenant, create_connector
  <2>3. PICK on \in BOOLEAN, known \in BOOLEAN : conn' = [conn EXCEPT ![c] =
                   [owner |-> t, enabled |-> on, creds |-> ops', known |-> known]]
    BY <1>1 DEF create_tenant, create_connector
  <2>4. [owner |-> t, enabled |-> on, creds |-> ops', known |-> known] \in ConnRow
    BY <2>0
  <2>5. conn' \in [Connector -> {None} \cup ConnRow]
    BY <1>0, <2>3, <2>4
  <2> QED
    BY <1>0, <2>1, <2>2, <2>5
<1>2. ASSUME NEW r \in Request, NEW c \in Connector, NEW on \in BOOLEAN,
             update_connector(r, c, on)
      PROVE  DatabaseType'
  <2>1. conn[c] \in ConnRow /\ ops' \in Nat
    BY <1>0, <1>2 DEF update_connector, Existing, Op, CountType
  <2>2. conn' \in [Connector -> {None} \cup ConnRow]
    BY <1>0, <1>2, <2>1 DEF update_connector, Changed
  <2>3. path' \in Tenant \cup {None} /\ committed' \subseteq Tenant
    BY <1>0, <1>2, <2>1 DEF update_connector, Leaves
  <2> QED
    BY <1>0, <1>2, <2>2, <2>3 DEF update_connector
<1>3. ASSUME NEW t \in Tenant,
             delete_tenant(t) \/ tenant_stats(t) \/ update_connector_missing(t)
      PROVE  DatabaseType'
  <2>1. CASE delete_tenant(t)
    <3>1. conn' \in [Connector -> {None} \cup ConnRow]
      BY <1>0, <2>1 DEF delete_tenant, Cascade, Without
    <3> QED
      BY <1>0, <2>1, <3>1 DEF delete_tenant, ghosts
  <2>2. CASE tenant_stats(t)
    BY <1>0, <2>2 DEF tenant_stats, tenantVars
  <2>3. CASE update_connector_missing(t)
    BY <1>0, <2>3 DEF update_connector_missing, Leaves
  <2> QED
    BY <1>3, <2>1, <2>2, <2>3
<1>4. UNCHANGED dbVars => DatabaseType'
  BY <1>0 DEF dbVars
<1> QED
  BY <1>1, <1>2, <1>3, <1>4, DatabaseSteps

LEMMA ConfigTypes == TypeOK /\ Next => ConfigType'
<1> SUFFICES ASSUME TypeOK, Next PROVE ConfigType'
  OBVIOUS
<1>0. ConfigType /\ ReqType /\ CountType
  BY TypeParts
<1> USE DEF ConfigType, Kind
<1>1. ASSUME NEW t \in Tenant,
             create_team(t) \/ create_level(t) \/ add_email(t) \/ upsert_sla_config(t)
               \/ delete_team(t) \/ delete_level(t) \/ remove_email(t)
      PROVE  ConfigType'
  BY <1>0, <1>1 DEF create_team, create_level, add_email, upsert_sla_config, delete_team,
     delete_level, remove_email, Adds, Removes
<1>2. ASSUME NEW t \in Tenant,
             upsert_integration(t) \/ patch_integration(t) \/ delete_integration(t)
               \/ delete_tenant(t)
      PROVE  ConfigType'
  BY <1>0, <1>2 DEF upsert_integration, patch_integration, delete_integration, Integrate,
     delete_tenant, Cascade, Without, Op, CountType
<1>3. ASSUME NEW r \in Request, BulkCommit(r) PROVE ConfigType'
  BY <1>0, <1>3 DEF BulkCommit, ReqType, Reqs
<1>4. UNCHANGED configVars => ConfigType'
  BY <1>0 DEF configVars
<1> QED
  BY <1>1, <1>2, <1>3, <1>4, ConfigSteps

LEMMA NewRows ==
  ASSUME NEW ts \in SUBSET Tenant, NEW f \in Places(ts), NEW m \in Row,
         \E t \in ts : f[t] = m
  PROVE  /\ (CHOOSE t \in ts : f[t] = m) \in ts
         /\ f[CHOOSE t \in ts : f[t] = m] = m
         /\ m \notin Rows
BY DEF Places, Free

LEMMA MailTypes == TypeOK /\ Next => MailType'
<1> SUFFICES ASSUME TypeOK, Next PROVE MailType'
  OBVIOUS
<1>0. MailType /\ ReqType /\ CountType
  BY TypeParts
<1> USE DEF MailType
<1>1. ASSUME NEW ts \in SUBSET Tenant, create_mail_config_group(ts) PROVE MailType'
  <2>1. PICK f \in [Row -> ts \cup {None}] :
          mail' = [m \in Row |-> IF f[m] = None THEN None ELSE NewRow(f[m], ops')]
    BY <1>1 DEF create_mail_config_group
  <2>2. ops' \in Nat
    BY <1>0, <1>1 DEF create_mail_config_group, Op, CountType
  <2>3. ASSUME NEW m \in Row PROVE mail'[m] \in {None} \cup MailRow
    BY <2>1, <2>2 DEF MailRow, NewRow
  <2>4. twice' \subseteq Tenant
    BY <1>1 DEF create_mail_config_group
  <2> QED
    BY <1>1, <2>1, <2>3, <2>4 DEF create_mail_config_group
<1>2. ASSUME NEW r \in Request, PutCommit(r) PROVE MailType'
  <2>0. req[r] \in Reqs
    BY <1>0 DEF ReqType
  <2> DEFINE new == req[r].ts \ req[r].cur
  <2>1. PICK f \in Places(new) :
          mail' = [m \in Row |->
            IF \E t \in new : f[t] = m THEN NewRow(CHOOSE t \in new : f[t] = m, req[r].v)
            ELSE IF m \notin Kept(r) THEN None
            ELSE IF m \in req[r].scan THEN NewRow(mail[m].owner, req[r].v) ELSE mail[m]]
    BY <1>2 DEF PutCommit
  <2>2. new \in SUBSET Tenant /\ req[r].v \in Nat
    BY <2>0 DEF Reqs
  <2> HIDE DEF new
  <2>3. ASSUME NEW m \in Row PROVE mail'[m] \in {None} \cup MailRow
    <3>1. CASE \E t \in new : f[t] = m
      <4> DEFINE o == CHOOSE t \in new : f[t] = m
      <4>1. o \in Tenant
        BY <3>1, <2>2, NewRows
      <4>2. mail'[m] = NewRow(o, req[r].v)
        BY <2>1, <3>1
      <4> HIDE DEF o
      <4> QED
        BY <4>1, <4>2, <2>2 DEF MailRow, NewRow
    <3>2. CASE ~(\E t \in new : f[t] = m) /\ m \in Kept(r)
      <4>1. mail[m] \in MailRow
        BY <1>0, <3>2 DEF Kept, Rows
      <4> QED
        BY <2>1, <2>2, <3>2, <4>1 DEF MailRow, NewRow
    <3> QED
      BY <2>1, <3>1, <3>2
  <2>4. want' \subseteq Tenant /\ torn' \in BOOLEAN /\ twice' \subseteq Tenant
    BY <1>0, <1>2, <2>0 DEF PutCommit, Reqs
  <2> QED
    BY <2>1, <2>3, <2>4
<1>3. ASSUME delete_mail_config_group PROVE MailType'
  BY <1>0, <1>3 DEF delete_mail_config_group
<1>4. ASSUME NEW m \in Row, update_mail_config(m) \/ delete_mail_config(m) PROVE MailType'
  <2>1. CASE update_mail_config(m)
    <3>1. mail[m] \in MailRow /\ ops' \in Nat
      BY <1>0, <2>1 DEF update_mail_config, Rows, Op, CountType
    <3>2. [mail[m] EXCEPT !.settings = ops'] \in MailRow
      BY <3>1 DEF MailRow
    <3> QED
      BY <1>0, <2>1, <3>2 DEF update_mail_config
  <2>2. CASE delete_mail_config(m)
    BY <1>0, <2>2 DEF delete_mail_config
  <2> QED
    BY <1>4, <2>1, <2>2
<1>5. ASSUME NEW t \in Tenant, delete_tenant(t) PROVE MailType'
  BY <1>0, <1>5 DEF delete_tenant, Cascade
<1>6. UNCHANGED groupVars => MailType'
  BY <1>0 DEF groupVars
<1> QED
  BY <1>1, <1>2, <1>3, <1>4, <1>5, <1>6, MailSteps

LEMMA OverlapTypes == TypeOK /\ Next => OverlapType'
BY TypeParts, OverlapSteps DEF OverlapType, update_mail_config_group, PutCommit, PutFails,
   delete_mail_config_group, update_mail_config, delete_mail_config, Putting

LEMMA RequestTypes == TypeOK /\ Next => ReqType'
<1> SUFFICES ASSUME TypeOK, Next PROVE ReqType'
  OBVIOUS
<1>0. ReqType /\ CountType /\ MailType
  BY TypeParts
<1>a. /\ NoReq \in Reqs /\ [NoReq EXCEPT !.op = "notify"] \in Reqs
  BY DEF NoReq, Reqs
<1>b. \A r \in Request : Notifying(r) \/ End(r) => ReqType'
  BY <1>0, <1>a, BeginTypes DEF Notifying, End
<1>c. Owners \in SUBSET Tenant /\ Rows \in SUBSET Row
  BY <1>0 DEF MailType, Owners, Rows, MailRow
<1>1. ASSUME NEW r \in Request, NEW t \in Tenant, NEW c \in Connector,
             create_tenant(r, t, c) \/ \E on, known \in BOOLEAN : create_connector(r, t, c, on, known)
      PROVE  ReqType'
  BY <1>1, <1>b DEF create_tenant, create_connector
<1>2. ASSUME NEW r \in Request, NEW c \in Connector, NEW on \in BOOLEAN,
             update_connector(r, c, on)
      PROVE  ReqType'
  BY <1>2, <1>b DEF update_connector
<1>3. ASSUME NEW r \in Request, NEW ts \in SUBSET Tenant,
             bulk_toggle_integration(r, ts) \/ update_mail_config_group(r, ts)
      PROVE  ReqType'
  <2> DEFINE b == [NoReq EXCEPT !.op = "bulk", !.ts = ts, !.v = ops']
             p == [NoReq EXCEPT !.op = "put", !.ts = ts, !.cur = Owners, !.v = ops']
  <2>1. ops' \in Nat
    BY <1>0, <1>3 DEF bulk_toggle_integration, update_mail_config_group, Op, CountType
  <2>2. b \in Reqs /\ p \in Reqs
    BY <2>1, <1>c DEF NoReq, Reqs
  <2>3. Begin(r, b) \/ Begin(r, p)
    BY <1>3 DEF bulk_toggle_integration, update_mail_config_group
  <2> HIDE DEF b, p
  <2> QED
    BY <1>0, <2>2, <2>3, BeginTypes
<1>4. ASSUME NEW r \in Request, NEW t \in Tenant, BulkTenant(r, t) PROVE ReqType'
  <2> DEFINE h == IF t \in Live /\ ~req[r].broken
            THEN [req[r] EXCEPT !.ts = @ \ {t}, !.done = @ \cup {t}]
            ELSE [req[r] EXCEPT !.ts = @ \ {t}, !.cur = @ \cup {t}, !.broken = TRUE]
  <2>1. h \in Reqs
    BY <1>0 DEF ReqType, Reqs
  <2>2. Set(r, h)
    BY <1>4 DEF BulkTenant
  <2> HIDE DEF h
  <2> QED
    BY <1>0, <2>1, <2>2, BeginTypes
<1>5. ASSUME NEW r \in Request, PutScan(r) PROVE ReqType'
  <2> DEFINE h == [req[r] EXCEPT !.op = "scanned", !.scan = Rows]
  <2>1. h \in Reqs
    BY <1>0, <1>c DEF ReqType, Reqs
  <2>2. Set(r, h)
    BY <1>5 DEF PutScan
  <2> HIDE DEF h
  <2> QED
    BY <1>0, <2>1, <2>2, BeginTypes
<1>6. ASSUME NEW r \in Request, _notify_ingestion_reload(r) \/ NotifyLost(r)
              \/ BulkCommit(r) \/ PutCommit(r) \/ PutFails(r)
      PROVE  ReqType'
  BY <1>6, <1>b DEF _notify_ingestion_reload, NotifyLost, BulkCommit, PutCommit, PutFails
<1>7. UNCHANGED req => ReqType'
  BY <1>0 DEF ReqType
<1> QED
  BY <1>1, <1>2, <1>3, <1>4, <1>5, <1>6, <1>7, RequestSteps

LEMMA JobTypes == TypeOK /\ Next => JobType'
<1> SUFFICES ASSUME TypeOK, Next PROVE JobType'
  OBVIOUS
<1>0. JobType /\ DatabaseType
  BY TypeParts
<1> USE DEF JobType
<1>1. ASSUME NEW r \in Request, _notify_ingestion_reload(r) \/ NotifyLost(r)
      PROVE  JobType'
  BY <1>0, <1>1 DEF _notify_ingestion_reload, NotifyLost, jobVars
<1>2. ASSUME reload_connectors \/ LoadFails \/ Restart PROVE JobType'
  <2>1. NoJobs \in [Connector -> Nat \cup {None}]
    BY DEF NoJobs
  <2>2. IdleLoader \in Loaders /\ [IdleLoader EXCEPT !.pc = "load"] \in Loaders
    BY DEF IdleLoader, Loaders
  <2>3. reloads' \in Nat /\ healing' \in {"none", "paused", "due"}
    BY <1>0, <1>2 DEF reload_connectors, LoadFails, Restart
  <2>4. loader' \in Loaders /\ job' \in [Connector -> Nat \cup {None}]
    BY <1>0, <1>2, <2>1, <2>2 DEF reload_connectors, LoadFails, Restart
  <2>5. /\ poll' \in [Connector -> Nat \cup {None}]
        /\ polled' \in [Connector -> Nat]
    BY <1>0, <1>2, <2>1 DEF reload_connectors, LoadFails, Restart
  <2> QED
    BY <2>3, <2>4, <2>5
<1>3. ASSUME ReadTenants PROVE JobType'
  BY <1>0, <1>3 DEF ReadTenants, Loaders, Live
<1>4. ASSUME NEW t \in Tenant, ReadTenant(t) PROVE JobType'
  <2> DEFINE broken == loader.broken \/ t \notin Live
             news == {<<c, conn[c].creds, conn[c].known>> : c \in {d \in Existing :
                                conn[d].owner = t /\ conn[d].enabled}}
  <2>1. news \in SUBSET (Connector \X Nat \X BOOLEAN)
    BY <1>0 DEF DatabaseType, Existing, ConnRow
  <2>2. broken \in BOOLEAN
    BY <1>0 DEF Loaders
  <2>3. loader' = [loader EXCEPT !.todo = @ \ {t}, !.broken = broken,
                  !.seen = IF broken THEN @ ELSE @ \cup {t},
                  !.rows = IF broken THEN @ ELSE @ \cup news]
    BY <1>4 DEF ReadTenant
  <2> HIDE DEF broken, news
  <2>4. loader' \in Loaders
    BY <1>0, <2>1, <2>2, <2>3 DEF Loaders
  <2> QED
    BY <1>0, <1>4, <2>4 DEF ReadTenant
<1>5. ASSUME ReloadEnd PROVE JobType'
  <2>1. ASSUME NEW c \in Connector PROVE job'[c] \in Nat \cup {None}
    <3>1. Loads(c) \subseteq Nat
      BY <1>0 DEF Loads, Loaders
    <3>2. Loads(c) # {} => (CHOOSE v \in Loads(c) : TRUE) \in Loads(c)
      OBVIOUS
    <3> QED
      BY <1>0, <1>5, <3>1, <3>2 DEF ReloadEnd, Scheduled
  <2>2. job' \in [Connector -> Nat \cup {None}]
    BY <1>5, <2>1 DEF ReloadEnd, Scheduled
  <2> QED
    BY <1>0, <1>5, <2>2 DEF ReloadEnd, FirstRun, IdleLoader, Loaders
<1>6. ASSUME NEW c \in Connector, PollStart(c) \/ PollEnd(c) PROVE JobType'
  BY <1>0, <1>6 DEF PollStart, PollEnd
<1>7. UNCHANGED planVars => JobType'
  BY <1>0 DEF planVars
<1> QED
  BY <1>1, <1>2, <1>3, <1>4, <1>5, <1>6, <1>7, PlanSteps

LEMMA NextTypes == TypeOK /\ Next => TypeOK'
<1>1. TypeOK /\ Next => CountType'
  BY CountSteps, TypeParts DEF CountType, Op, Fault
<1>2. TypeOK' <=> /\ DatabaseType' /\ ConfigType' /\ MailType' /\ OverlapType'
                  /\ ReqType' /\ JobType' /\ CountType'
  BY DEF TypeOK, DatabaseType, ConfigType, MailType, OverlapType, ReqType, Reqs, JobType,
     Loaders, CountType
<1> QED
  BY <1>1, <1>2, DatabaseTypes, ConfigTypes, MailTypes, OverlapTypes, RequestTypes, JobTypes

LEMMA StutterTypes == TypeOK /\ UNCHANGED vars => TypeOK'
BY DEF TypeOK, vars, tenantVars, configVars, mailVars, jobVars, ghosts

(* The tables, requests, jobs and the loader of tenant-service/main.py and *)
(* ingestion-service/scheduler.py keep their types.                        *)
THEOREM TypeCorrect == Spec => []TypeOK
BY InitTypes, NextTypes, StutterTypes, PTL DEF Spec

-----------------------------------------------------------------------------
(* What cascades.                                                          *)
Referring == \A r \in Request : req[r].done \subseteq Live
Left == TypeOK /\ Referring /\ CascadesAreWhole

LEMMA InitLeft == Init => Left
<1> SUFFICES ASSUME Init PROVE Left
  OBVIOUS
<1>1. TypeOK
  BY InitTypes
<1>2. Referring
  BY DEF Init, Referring, NoReq
<1>3. Owners \subseteq Live
  <2>1. PICK f \in [want -> Row] :
          mail = [m \in Row |-> IF \E t \in want : f[t] = m
                   THEN [owner |-> CHOOSE t \in want : f[t] = m, settings |-> 0] ELSE None]
    BY DEF Init
  <2>2. ASSUME NEW m \in Rows PROVE mail[m].owner \in Live
    <3>1. \E t \in want : f[t] = m
      BY <2>1 DEF Rows
    <3> DEFINE o == CHOOSE t \in want : f[t] = m
    <3>2. o \in want
      BY <3>1
    <3>3. mail[m] = [owner |-> o, settings |-> 0]
      BY <2>1, <3>1 DEF Rows
    <3>4. want \subseteq Live
      BY DEF Init
    <3> HIDE DEF o
    <3> QED
      BY <3>2, <3>3, <3>4
  <2> QED
    BY <2>2 DEF Owners
<1>4. \A c \in Existing : conn[c].owner \in Live
  BY DEF Init, Existing
<1> QED
  BY <1>1, <1>2, <1>3, <1>4 DEF Left, CascadesAreWhole, Init

LEMMA LiveSteps ==
  ASSUME TypeOK, Next
  PROVE  \/ \E t \in Tenant : delete_tenant(t)
         \/ \E r \in Request, t \in Tenant, c \in Connector :
              create_tenant(r, t, c) /\ Live' = Live \cup {t}
         \/ UNCHANGED Live
<1>0. DatabaseType
  BY TypeParts
<1>1. ASSUME NEW r \in Request, NEW t \in Tenant, NEW c \in Connector, create_tenant(r, t, c)
      PROVE  Live' = Live \cup {t}
  BY <1>0, <1>1 DEF create_tenant, Live, DatabaseType
<1>2. UNCHANGED tenant => UNCHANGED Live
  BY DEF Live
<1> QED
  BY <1>1, <1>2, DatabaseSteps DEF create_connector, update_connector, update_connector_missing,
     tenant_stats, tenantVars, dbVars

LEMMA NextReferring == Left /\ Next => Referring'
<1> SUFFICES ASSUME Left, Next PROVE Referring'
  OBVIOUS
<1>0. ReqType /\ TypeOK /\ Referring
  BY TypeParts DEF Left
<1>1. ASSUME NEW t \in Tenant, delete_tenant(t) PROVE Referring'
  BY <1>0, <1>1 DEF delete_tenant, Referring, Live, ReqType
<1>2. ASSUME Live \subseteq Live' PROVE Referring'
  <2>1. ASSUME NEW r \in Request, NEW t \in Tenant, NEW c \in Connector,
               create_tenant(r, t, c) \/ \E on, known \in BOOLEAN : create_connector(r, t, c, on, known)
        PROVE  Referring'
    BY <1>0, <1>2, <2>1 DEF create_tenant, create_connector, Notifying, Begin, NoReq, Referring,
       ReqType
  <2>2. ASSUME NEW r \in Request, NEW c \in Connector, NEW on \in BOOLEAN,
               update_connector(r, c, on)
        PROVE  Referring'
    BY <1>0, <1>2, <2>2 DEF update_connector, Notifying, Begin, NoReq, Referring, ReqType
  <2>3. ASSUME NEW r \in Request, NEW ts \in SUBSET Tenant,
               bulk_toggle_integration(r, ts) \/ update_mail_config_group(r, ts)
        PROVE  Referring'
    BY <1>0, <1>2, <2>3 DEF bulk_toggle_integration, update_mail_config_group, Begin, NoReq,
       Referring, ReqType
  <2>4. ASSUME NEW r \in Request, NEW t \in Tenant, BulkTenant(r, t) PROVE Referring'
    <3>1. req'[r].done \subseteq Live
      BY <1>0, <2>4 DEF BulkTenant, Set, Referring, ReqType, Reqs
    <3>2. \A s \in Request \ {r} : req'[s] = req[s]
      BY <1>0, <2>4 DEF BulkTenant, Set, ReqType
    <3> QED
      BY <1>0, <1>2, <3>1, <3>2 DEF Referring
  <2>5. ASSUME NEW r \in Request, _notify_ingestion_reload(r) \/ NotifyLost(r)
                \/ BulkCommit(r) \/ PutScan(r) \/ PutCommit(r) \/ PutFails(r)
        PROVE  Referring'
    <3>1. CASE PutScan(r)
      BY <1>0, <1>2, <3>1 DEF PutScan, Set, Referring, ReqType, Reqs
    <3>2. CASE End(r)
      BY <1>0, <1>2, <3>2 DEF End, Set, NoReq, Referring, ReqType
    <3> QED
      BY <2>5, <3>1, <3>2 DEF _notify_ingestion_reload, NotifyLost, BulkCommit, PutCommit, PutFails
  <2>6. UNCHANGED req => Referring'
    BY <1>0, <1>2 DEF Referring
  <2> QED
    BY <2>1, <2>2, <2>3, <2>4, <2>5, <2>6, RequestSteps
<1> QED
  BY <1>0, <1>1, <1>2, LiveSteps

ConnectorsLeft == \A c \in Existing : conn[c].owner \in Live
LEMMA NextConnectors == Left /\ Next => ConnectorsLeft'
<1> SUFFICES ASSUME Left, Next PROVE ConnectorsLeft'
  OBVIOUS
<1>0. DatabaseType /\ ConnectorsLeft /\ TypeOK
  BY TypeParts DEF Left, CascadesAreWhole, ConnectorsLeft
<1> USE DEF ConnectorsLeft, Existing, DatabaseType
<1>1. ASSUME NEW r \in Request, NEW t \in Tenant, NEW c \in Connector, create_tenant(r, t, c)
      PROVE  ConnectorsLeft'
  <2>1. Live' = Live \cup {t}
    BY <1>0, <1>1 DEF create_tenant, Live
  <2> QED
    BY <1>0, <1>1, <2>1 DEF create_tenant
<1>2. ASSUME NEW r \in Request, NEW t \in Tenant, NEW c \in Connector,
             NEW on \in BOOLEAN, NEW known \in BOOLEAN, create_connector(r, t, c, on, known)
      PROVE  ConnectorsLeft'
  <2>1. Live' = Live
    BY <1>2 DEF create_connector, Live
  <2> QED
    BY <1>0, <1>2, <2>1 DEF create_connector
<1>3. ASSUME NEW r \in Request, NEW c \in Connector, NEW on \in BOOLEAN,
             update_connector(r, c, on)
      PROVE  ConnectorsLeft'
  <2>1. Live' = Live
    BY <1>3 DEF update_connector, Live
  <2>2. conn[c] \in ConnRow
    BY <1>0, <1>3 DEF update_connector
  <2>3. \A d \in Existing' : d \in Existing /\ conn'[d].owner = conn[d].owner
    BY <1>0, <1>3, <2>2 DEF update_connector, Changed, ConnRow
  <2> QED
    BY <1>0, <2>1, <2>3
<1>4. ASSUME NEW t \in Tenant, delete_tenant(t) PROVE ConnectorsLeft'
  <2>1. Live' = Live \ {t}
    BY <1>0, <1>4 DEF delete_tenant, Live
  <2>2. \A d \in Existing' : d \in Existing /\ conn'[d] = conn[d] /\ conn[d].owner # t
    BY <1>0, <1>4 DEF delete_tenant, Cascade, Without
  <2> QED
    BY <1>0, <2>1, <2>2
<1>5. ASSUME NEW t \in Tenant, tenant_stats(t) \/ update_connector_missing(t)
      PROVE  ConnectorsLeft'
  BY <1>0, <1>5 DEF tenant_stats, update_connector_missing, tenantVars, Live
<1>6. UNCHANGED dbVars => ConnectorsLeft'
  BY <1>0 DEF dbVars, Live
<1> QED
  BY <1>1, <1>2, <1>3, <1>4, <1>5, <1>6, DatabaseSteps

ConfigLeft == /\ \A t \in Tenant \ Live : config[t] = {} /\ integ[t] = None
              /\ \A t \in Tenant : /\ "level" \in config[t] => "team" \in config[t]
                                   /\ "email" \in config[t] => "level" \in config[t]
LEMMA NextConfigs == Left /\ Next => ConfigLeft'
<1> SUFFICES ASSUME Left, Next PROVE ConfigLeft'
  OBVIOUS
<1>0. ConfigType /\ ConfigLeft /\ Referring /\ ReqType /\ TypeOK /\ DatabaseType
  BY TypeParts DEF Left, CascadesAreWhole, ConfigLeft
<1> USE DEF ConfigLeft, ConfigType
<1>1. ASSUME NEW t \in Tenant, delete_tenant(t) PROVE ConfigLeft'
  <2>1. Live' = Live \ {t}
    BY <1>0, <1>1 DEF delete_tenant, Live, DatabaseType
  <2> QED
    BY <1>0, <1>1, <2>1 DEF delete_tenant, Cascade, Without
<1>2. ASSUME Live \subseteq Live' PROVE ConfigLeft'
  <2>1. ASSUME NEW t \in Tenant,
               create_team(t) \/ create_level(t) \/ add_email(t) \/ upsert_sla_config(t)
        PROVE  ConfigLeft'
    BY <1>0, <1>2, <2>1 DEF create_team, create_level, add_email, upsert_sla_config, Adds
  <2>2. ASSUME NEW t \in Tenant, delete_team(t) \/ delete_level(t) \/ remove_email(t)
        PROVE  ConfigLeft'
    BY <1>0, <1>2, <2>2 DEF delete_team, delete_level, remove_email, Removes
  <2>3. ASSUME NEW t \in Tenant,
               upsert_integration(t) \/ patch_integration(t) \/ delete_integration(t)
        PROVE  ConfigLeft'
    BY <1>0, <1>2, <2>3 DEF upsert_integration, patch_integration, delete_integration, Integrate
  <2>4. ASSUME NEW r \in Request, BulkCommit(r) PROVE ConfigLeft'
    <3>1. req[r].done \subseteq Live
      BY <1>0 DEF Referring
    <3>2. \A t \in Tenant \ Live : integ'[t] = integ[t]
      BY <1>0, <2>4, <3>1 DEF BulkCommit
    <3> QED
      BY <1>0, <1>2, <2>4, <3>2 DEF BulkCommit
  <2>5. UNCHANGED configVars => ConfigLeft'
    BY <1>0, <1>2 DEF configVars
  <2>6. ASSUME NEW t \in Tenant, delete_tenant(t) PROVE ConfigLeft'
    BY <1>1, <2>6
  <2> QED
    BY <2>1, <2>2, <2>3, <2>4, <2>5, <2>6, ConfigSteps
<1> QED
  BY <1>0, <1>1, <1>2, LiveSteps

MailLeft == Owners \subseteq Live
LEMMA NextMail == Left /\ Next => MailLeft'
<1> SUFFICES ASSUME Left, Next PROVE MailLeft'
  OBVIOUS
<1>0. MailType /\ TypeOK /\ DatabaseType /\ \A m \in Rows : mail[m].owner \in Live
  BY TypeParts DEF Left, CascadesAreWhole, Owners
<1> SUFFICES ASSUME NEW m \in Rows' PROVE mail'[m].owner \in Live'
  BY DEF MailLeft, Owners
<1>a. m \in Row /\ mail'[m] # None
  BY DEF Rows
<1>1. ASSUME NEW t \in Tenant, delete_tenant(t) PROVE mail'[m].owner \in Live'
  <2>1. Live' = Live \ {t}
    BY <1>0, <1>1 DEF delete_tenant, Live, DatabaseType
  <2> QED
    BY <1>0, <1>1, <1>a, <2>1 DEF delete_tenant, Cascade, Rows
<1>2. ASSUME Live \subseteq Live' PROVE mail'[m].owner \in Live'
  <2>1. ASSUME NEW ts \in SUBSET Tenant, create_mail_config_group(ts)
        PROVE  mail'[m].owner \in Live'
    <3>1. PICK f \in [Row -> ts \cup {None}] :
            mail' = [n \in Row |-> IF f[n] = None THEN None ELSE NewRow(f[n], ops')]
      BY <2>1 DEF create_mail_config_group
    <3>2. f[m] \in ts /\ mail'[m] = NewRow(f[m], ops')
      BY <1>a, <3>1
    <3> QED
      BY <1>2, <2>1, <3>2 DEF create_mail_config_group, NewRow
  <2>2. ASSUME NEW r \in Request, PutCommit(r) PROVE mail'[m].owner \in Live'
    <3> DEFINE new == req[r].ts \ req[r].cur
    <3>1. PICK f \in Places(new) :
            mail' = [n \in Row |->
              IF \E t \in new : f[t] = n THEN NewRow(CHOOSE t \in new : f[t] = n, req[r].v)
              ELSE IF n \notin Kept(r) THEN None
              ELSE IF n \in req[r].scan THEN NewRow(mail[n].owner, req[r].v) ELSE mail[n]]
      BY <2>2 DEF PutCommit
    <3>2. new \subseteq Live
      BY <2>2 DEF PutCommit
    <3> HIDE DEF new
    <3>3. CASE \E t \in new : f[t] = m
      <4> DEFINE o == CHOOSE t \in new : f[t] = m
      <4>1. o \in new
        BY <3>3
      <4>2. mail'[m] = NewRow(o, req[r].v)
        BY <1>a, <3>1, <3>3
      <4> HIDE DEF o
      <4> QED
        BY <1>2, <3>2, <4>1, <4>2 DEF NewRow
    <3>4. CASE ~(\E t \in new : f[t] = m)
      <4>1. m \in Kept(r)
        BY <1>a, <3>1, <3>4
      <4>2. m \in Rows /\ mail'[m].owner = mail[m].owner
        BY <1>a, <3>1, <3>4, <4>1 DEF Kept, NewRow
      <4> QED
        BY <1>0, <1>2, <4>2
    <3> QED
      BY <3>3, <3>4
  <2>3. ASSUME delete_mail_config_group PROVE mail'[m].owner \in Live'
    BY <1>a, <2>3 DEF delete_mail_config_group
  <2>4. ASSUME NEW n \in Row, update_mail_config(n) \/ delete_mail_config(n)
        PROVE  mail'[m].owner \in Live'
    <3>1. CASE update_mail_config(n)
      <4>1. mail[n] \in MailRow
        BY <1>0, <3>1 DEF update_mail_config, MailType, Rows
      <4>2. m \in Rows /\ mail'[m].owner = mail[m].owner
        BY <1>0, <1>a, <3>1, <4>1 DEF update_mail_config, MailType, Rows, MailRow
      <4> QED
        BY <1>0, <1>2, <4>2
    <3>2. CASE delete_mail_config(n)
      BY <1>0, <1>2, <1>a, <3>2 DEF delete_mail_config, MailType, Rows
    <3> QED
      BY <2>4, <3>1, <3>2
  <2>5. UNCHANGED groupVars => mail'[m].owner \in Live'
    BY <1>0, <1>2, <1>a DEF groupVars, Rows
  <2>6. ASSUME NEW t \in Tenant, delete_tenant(t) PROVE mail'[m].owner \in Live'
    BY <1>1, <2>6
  <2> QED
    BY <2>1, <2>2, <2>3, <2>4, <2>5, <2>6, MailSteps
<1> QED
  BY <1>0, <1>1, <1>2, LiveSteps

LEMMA NextLeft == Left /\ [Next]_vars => Left'
<1>1. Left /\ Next => Left'
  <2>1. Left <=> TypeOK /\ Referring /\ ConnectorsLeft /\ MailLeft /\ ConfigLeft
    BY DEF Left, CascadesAreWhole, ConnectorsLeft, MailLeft, ConfigLeft
  <2>2. Left' <=> TypeOK' /\ Referring' /\ ConnectorsLeft' /\ MailLeft' /\ ConfigLeft'
    BY DEF Left, CascadesAreWhole, ConnectorsLeft, MailLeft, ConfigLeft
  <2> QED
    BY <2>1, <2>2, NextTypes, NextReferring, NextConnectors, NextMail, NextConfigs
<1>2. Left /\ UNCHANGED vars => Left'
  BY StutterTypes DEF Left, Referring, CascadesAreWhole, Live, Existing, Owners, Rows,
     vars, tenantVars, configVars, mailVars
<1> QED
  BY <1>1, <1>2

(* Of what cascades nothing outlives its tenant, and nothing hangs from a  *)
(* deleted team: the foreign keys and the order of locks suffice, whatever *)
(* requests are open.  The rows of sla_events do not cascade and stay.     *)
THEOREM LeftCorrect == Spec => []CascadesAreWhole
<1>1. Left => CascadesAreWhole
  BY DEF Left
<1> QED
  BY <1>1, InitLeft, NextLeft, PTL DEF Spec

-----------------------------------------------------------------------------
(* The search_path of the pooled connection.                               *)
PathCommitted == path # None => path \in committed
Shown == TypeOK /\ PathCommitted /\ WrongNeedsCommit

LEMMA NextShown == Shown /\ [Next]_vars => Shown'
<1>1. Shown /\ Next => Shown'
  <2> SUFFICES ASSUME Shown, Next PROVE PathCommitted' /\ WrongNeedsCommit'
    BY NextTypes DEF Shown
  <2>0. DatabaseType /\ PathCommitted /\ WrongNeedsCommit
    BY TypeParts DEF Shown
  <2> USE DEF PathCommitted, WrongNeedsCommit, Leaves
  <2>1. ASSUME NEW r \in Request, NEW t \in Tenant, NEW c \in Connector,
               create_tenant(r, t, c) \/ \E on, known \in BOOLEAN : create_connector(r, t, c, on, known)
        PROVE  PathCommitted' /\ WrongNeedsCommit'
    BY <2>0, <2>1 DEF create_tenant, create_connector
  <2>2. ASSUME NEW r \in Request, NEW c \in Connector, NEW on \in BOOLEAN,
               update_connector(r, c, on)
        PROVE  PathCommitted' /\ WrongNeedsCommit'
    BY <2>0, <2>2 DEF update_connector
  <2>3. ASSUME NEW t \in Tenant, delete_tenant(t) PROVE PathCommitted' /\ WrongNeedsCommit'
    BY <2>0, <2>3 DEF delete_tenant, ghosts
  <2>4. ASSUME NEW t \in Tenant, tenant_stats(t) PROVE PathCommitted' /\ WrongNeedsCommit'
    <3>1. path \notin {None, t} => path \in committed \ {t}
      BY <2>0
    <3> QED
      BY <2>0, <2>4, <3>1 DEF tenant_stats, tenantVars
  <2>5. ASSUME NEW t \in Tenant, update_connector_missing(t)
        PROVE  PathCommitted' /\ WrongNeedsCommit'
    BY <2>0, <2>5 DEF update_connector_missing
  <2>6. UNCHANGED dbVars => PathCommitted' /\ WrongNeedsCommit'
    BY <2>0 DEF dbVars
  <2> QED
    BY <2>1, <2>2, <2>3, <2>4, <2>5, <2>6, DatabaseSteps
<1>2. Shown /\ UNCHANGED vars => Shown'
  BY StutterTypes DEF Shown, PathCommitted, WrongNeedsCommit, vars, tenantVars, ghosts
<1> QED
  BY <1>1, <1>2

(* A tenant is shown another schema's numbers only after a request about a *)
(* connector of another tenant committed, found or not: a search_path      *)
(* stays only by a commit.                                                 *)
THEOREM WrongCorrect == Spec => []WrongNeedsCommit
<1>1. Init => Shown
  BY InitTypes DEF Init, Shown, PathCommitted, WrongNeedsCommit
<1>2. Shown => WrongNeedsCommit
  BY DEF Shown
<1> QED
  BY <1>1, <1>2, NextShown, PTL DEF Spec

-----------------------------------------------------------------------------
(* The mail group.                                                         *)
Known(ts) == \A t \in ts : tenant[t] # "never"
Tracks(r) == /\ Owners \subseteq req[r].cur /\ req[r].cur \cap Live \subseteq Owners
             /\ req[r].op = "scanned" => Rows \subseteq req[r].scan
Alone(r) == Putting = {r} /\ Tracks(r)
Tracking == /\ Known(want)
            /\ \A r \in Putting : Known(req[r].cur) /\ (r \in overlapped \/ Alone(r))
Whole == Left /\ Tracking /\ GroupIsWhole

LEMMA InitWhole == Init => Whole
<1> SUFFICES ASSUME Init PROVE Whole
  OBVIOUS
<1>1. Left
  BY InitLeft
<1>2. Putting = {} /\ Known(want)
  BY DEF Init, Putting, NoReq, Known, Live
<1>3. PICK f \in {g \in [want -> Row] : \A x, y \in want : g[x] = g[y] => x = y} :
         mail = [m \in Row |-> IF \E t \in want : f[t] = m
                   THEN [owner |-> CHOOSE t \in want : f[t] = m, settings |-> 0] ELSE None]
  BY DEF Init
<1>4. ASSUME NEW t \in want
      PROVE  f[t] \in Rows /\ mail[f[t]].owner = t
  <2> DEFINE o == CHOOSE u \in want : f[u] = f[t]
  <2>1. o = t
    BY <1>3
  <2>2. f[t] \in Row /\ mail[f[t]] = [owner |-> o, settings |-> 0]
    BY <1>3
  <2>3. want \subseteq Tenant
    BY DEF Init, Live
  <2> HIDE DEF o
  <2>4. mail[f[t]] \in MailRow
    BY <2>1, <2>2, <2>3 DEF MailRow
  <2> QED
    BY <2>1, <2>2, <2>4, NoneAssumption DEF Rows
<1>5. ASSUME NEW m \in Rows
      PROVE  mail[m].owner \in want /\ f[mail[m].owner] = m /\ mail[m].settings = 0
  <2>1. \E t \in want : f[t] = m
    BY <1>3 DEF Rows
  <2> DEFINE o == CHOOSE t \in want : f[t] = m
  <2>2. o \in want /\ f[o] = m
    BY <2>1
  <2>3. mail[m] = [owner |-> o, settings |-> 0]
    BY <1>3, <2>1 DEF Rows
  <2> HIDE DEF o
  <2> QED
    BY <2>2, <2>3
<1>6. want \subseteq Live /\ Owners = want
  <2>1. Owners \subseteq want
    BY <1>5 DEF Owners
  <2>2. want \subseteq Owners
    BY <1>4 DEF Owners
  <2> QED
    BY <2>1, <2>2 DEF Init
<1>7. GroupIsWhole
  <2>2. \A m, n \in Rows : mail[m].settings = mail[n].settings
    BY <1>5
  <2>3. \A m, n \in Rows : mail[m].owner = mail[n].owner => m = n
    BY <1>5
  <2> QED
    BY <1>6, <2>2, <2>3 DEF GroupIsWhole
<1> QED
  BY <1>1, <1>2, <1>7 DEF Whole, Tracking

(* A request that begins or ends elsewhere is none of the group's.         *)
LEMMA PuttingSteps ==
  ASSUME TypeOK, Next
  PROVE  \/ \E r \in Request, ts \in SUBSET Tenant : update_mail_config_group(r, ts)
         \/ \E r \in Request : PutScan(r)
         \/ /\ Putting' \subseteq Putting
            /\ \A r \in Putting' : req'[r] = req[r]
<1>0. ReqType
  BY TypeParts
<1> USE DEF Putting, ReqType
<1>1. ASSUME NEW r \in Request, Notifying(r) \/ End(r)
      PROVE  Putting' \subseteq Putting /\ \A s \in Putting' : req'[s] = req[s]
  BY <1>0, <1>1 DEF Notifying, Begin, End, Set, NoReq
<1>2. ASSUME NEW r \in Request, NEW ts \in SUBSET Tenant, bulk_toggle_integration(r, ts)
      PROVE  Putting' \subseteq Putting /\ \A s \in Putting' : req'[s] = req[s]
  BY <1>0, <1>2 DEF bulk_toggle_integration, Begin, NoReq
<1>3. ASSUME NEW r \in Request, NEW t \in Tenant, BulkTenant(r, t)
      PROVE  Putting' \subseteq Putting /\ \A s \in Putting' : req'[s] = req[s]
  <2>1. req'[r].op = "bulk"
    BY <1>0, <1>3 DEF BulkTenant, Set, Reqs
  <2>2. \A s \in Request \ {r} : req'[s] = req[s]
    BY <1>0, <1>3 DEF BulkTenant, Set
  <2> QED
    BY <2>1, <2>2
<1> QED
  BY <1>1, <1>2, <1>3, RequestSteps DEF create_tenant, create_connector, update_connector,
     _notify_ingestion_reload, NotifyLost, BulkCommit, PutCommit, PutFails

LEMMA GroupSteps ==
  ASSUME TypeOK, Next
  PROVE  \/ \E r \in Request, ts \in SUBSET Tenant : update_mail_config_group(r, ts)
         \/ \E r \in Request : PutScan(r) \/ PutCommit(r) \/ PutFails(r)
         \/ \E ts \in SUBSET Tenant : create_mail_config_group(ts)
         \/ delete_mail_config_group
         \/ \E m \in Row : update_mail_config(m) \/ delete_mail_config(m)
         \/ \E t \in Tenant : delete_tenant(t)
         \/ \E r \in Request, t \in Tenant, c \in Connector : create_tenant(r, t, c)
         \/ /\ UNCHANGED <<tenant, groupVars, overlapped>> /\ Putting' \subseteq Putting
            /\ \A r \in Putting' : req'[r] = req[r]
<1>1. \/ \E t \in Tenant : delete_tenant(t)
      \/ \E r \in Request, t \in Tenant, c \in Connector : create_tenant(r, t, c)
      \/ UNCHANGED tenant
  BY DatabaseSteps DEF create_connector, update_connector, update_connector_missing,
     tenant_stats, tenantVars, dbVars
<1> QED
  BY <1>1, MailSteps, OverlapSteps, PuttingSteps

LEMMA NextTracking ==
  ASSUME Whole, Next
  PROVE  Tracking'
<1>0. /\ DatabaseType /\ ReqType /\ MailType /\ TypeOK /\ Left
      /\ Owners \subseteq Live
  BY TypeParts DEF Whole, Left, CascadesAreWhole
<1>a. /\ Known(want)
      /\ \A r \in Putting : Known(req[r].cur) /\ (r \in overlapped \/ Alone(r))
  BY DEF Whole, Tracking
<1>b. ASSUME UNCHANGED <<tenant, mail, want>>, overlapped \cap Putting' \subseteq overlapped',
             Putting' \subseteq Putting, \A r \in Putting' : req'[r] = req[r]
      PROVE  Tracking'
  <2>1. ASSUME NEW r \in Putting'
        PROVE  Known(req[r].cur)' /\ (r \in overlapped' \/ Alone(r)')
    <3>1. r \in Putting /\ req'[r] = req[r]
      BY <1>b
    <3>2. CASE r \in overlapped
      BY <1>a, <1>b, <3>1, <3>2 DEF Known
    <3>3. CASE Alone(r)
      <4>1. Putting' = {r}
        BY <1>b, <3>3 DEF Alone
      <4>2. Tracks(r)'
        BY <1>b, <3>1, <3>3 DEF Alone, Tracks, Owners, Rows, Live
      <4> QED
        BY <1>a, <1>b, <3>1, <4>1, <4>2 DEF Known, Alone
    <3> QED
      BY <1>a, <3>1, <3>2, <3>3
  <2> QED
    BY <1>a, <1>b, <2>1 DEF Tracking, Known
<1>1. ASSUME NEW r \in Request, NEW ts \in SUBSET Tenant, update_mail_config_group(r, ts)
      PROVE  Tracking'
  <2>1. UNCHANGED <<tenant, mail, want>>
    BY <1>1 DEF update_mail_config_group, tenantVars
  <2>2. /\ \A s \in Request \ {r} : req'[s] = req[s]
        /\ req'[r].op = "put" /\ req'[r].cur = Owners /\ r \notin Putting
    BY <1>0, <1>1 DEF update_mail_config_group, Begin, NoReq, ReqType, Putting
  <2>3. Putting' = Putting \cup {r}
    BY <2>2 DEF Putting
  <2>4. Known(Owners)
    BY <1>0 DEF Known, Live
  <2>5. \A s \in Putting' : Known(req[s].cur)'
    BY <1>a, <2>1, <2>2, <2>3, <2>4 DEF Known, Putting
  <2>6. CASE Putting = {}
    <3>1. Putting' = {r} /\ Tracks(r)'
      BY <2>1, <2>2, <2>3, <2>6 DEF Tracks, Owners, Rows, Live
    <3>2. \A s \in Putting' : Alone(s)'
      BY <3>1 DEF Alone
    <3> QED
      BY <1>a, <2>1, <2>5, <3>2 DEF Tracking, Known
  <2>7. CASE Putting # {}
    <3>1. overlapped' = Putting'
      BY <1>1, <2>3, <2>7 DEF update_mail_config_group
    <3> QED
      BY <1>a, <2>1, <2>5, <3>1 DEF Tracking, Known
  <2> QED
    BY <2>6, <2>7
<1>2. ASSUME NEW r \in Request, PutScan(r) PROVE Tracking'
  <2>1. UNCHANGED <<tenant, mail, want, overlapped>>
    BY <1>2 DEF PutScan, tenantVars, mailVars
  <2>2. /\ \A s \in Request \ {r} : req'[s] = req[s]
        /\ r \in Putting /\ req'[r].cur = req[r].cur /\ req'[r].scan = Rows
        /\ req'[r].op = "scanned"
    BY <1>0, <1>2 DEF PutScan, Set, Putting, ReqType, Reqs
  <2>3. Putting' = Putting
    BY <2>2 DEF Putting
  <2>4. \A s \in Putting' : Known(req[s].cur)'
    BY <1>a, <2>1, <2>2, <2>3 DEF Known, Putting
  <2>5. Alone(r) => Alone(r)'
    BY <2>1, <2>2, <2>3 DEF Alone, Tracks, Owners, Rows, Live
  <2>6. ASSUME NEW s \in Putting', s # r, Alone(s) PROVE FALSE
    BY <2>2, <2>6 DEF Alone
  <2> QED
    BY <1>a, <2>1, <2>3, <2>4, <2>5, <2>6 DEF Tracking, Known
<1>3. ASSUME NEW r \in Request, PutCommit(r) PROVE Tracking'
  <2>1. /\ want' = req[r].ts /\ UNCHANGED tenant /\ r \in Putting
        /\ overlapped' = overlapped \ {r} /\ req[r].ts \ req[r].cur \subseteq Live
    BY <1>3 DEF PutCommit, tenantVars, Putting
  <2>2. /\ Putting' = Putting \ {r}
        /\ \A s \in Putting' : req'[s] = req[s]
    BY <1>0, <1>3 DEF PutCommit, End, Set, NoReq, Putting, ReqType
  <2>3. Known(want)'
    BY <1>a, <2>1 DEF Known, Live
  <2>4. ASSUME NEW s \in Putting' PROVE Known(req[s].cur)' /\ s \in overlapped'
    <3>1. s \in Putting /\ ~Alone(s)
      BY <2>1, <2>2 DEF Alone
    <3> QED
      BY <1>a, <2>1, <2>2, <3>1 DEF Known
  <2> QED
    BY <2>3, <2>4 DEF Tracking
<1>4. ASSUME NEW r \in Request, PutFails(r) PROVE Tracking'
  <2>1. UNCHANGED <<tenant, mail, want>> /\ overlapped' = overlapped \ {r}
    BY <1>4 DEF PutFails, tenantVars
  <2>2. r \notin Putting' /\ Putting' \subseteq Putting /\ \A s \in Putting' : req'[s] = req[s]
    BY <1>0, <1>4 DEF PutFails, End, Set, NoReq, Putting, ReqType
  <2> QED
    BY <1>b, <2>1, <2>2
<1>5. ASSUME NEW ts \in SUBSET Tenant, create_mail_config_group(ts) PROVE Tracking'
  <2>1. Putting' = {} /\ want' = ts /\ ts \subseteq Live /\ UNCHANGED tenant
    BY <1>5 DEF create_mail_config_group, Putting, tenantVars
  <2> QED
    BY <2>1 DEF Tracking, Known, Live
<1>6. ASSUME \/ delete_mail_config_group
             \/ \E m \in Row : update_mail_config(m) \/ delete_mail_config(m)
      PROVE  Tracking'
  <2>1. /\ UNCHANGED <<tenant, req>> /\ overlapped' = Putting
        /\ want' = {} \/ want' = want
    BY <1>6 DEF delete_mail_config_group, update_mail_config, delete_mail_config, tenantVars
  <2>2. Putting' = Putting
    BY <2>1 DEF Putting
  <2> QED
    BY <1>a, <2>1, <2>2 DEF Tracking, Known
<1>7. ASSUME NEW t \in Tenant, delete_tenant(t) PROVE Tracking'
  <2>1. UNCHANGED <<want, overlapped, req, Putting>> /\ Live' = Live \ {t}
    BY <1>0, <1>7 DEF delete_tenant, Live, DatabaseType, Putting
  <2>2. \A ts \in SUBSET Tenant : Known(ts) => Known(ts)'
    BY <1>0, <1>7 DEF delete_tenant, Known, DatabaseType
  <2>3. Rows' \subseteq Rows /\ Owners' = Owners \ {t}
    BY <1>0, <1>7 DEF delete_tenant, Cascade, Rows, Owners, MailType
  <2>4. \A r \in Request : req[r].cur \subseteq Tenant
    BY <1>0 DEF ReqType, Reqs
  <2>5. ASSUME NEW r \in Putting'
        PROVE  Known(req[r].cur)' /\ (r \in overlapped' \/ Alone(r)')
    <3>1. r \in Putting /\ r \in Request
      BY <2>1 DEF Putting
    <3>2. Known(req[r].cur)'
      BY <1>a, <2>1, <2>2, <2>4, <3>1 DEF Known
    <3>3. Alone(r) => Alone(r)'
      BY <2>1, <2>3 DEF Alone, Tracks
    <3> QED
      BY <1>a, <2>1, <3>1, <3>2, <3>3
  <2>6. Known(want)'
    BY <1>0, <1>a, <2>1, <2>2 DEF MailType, Known
  <2> QED
    BY <2>5, <2>6 DEF Tracking
<1>8. ASSUME NEW r \in Request, NEW t \in Tenant, NEW c \in Connector, create_tenant(r, t, c)
      PROVE  Tracking'
  <2>1. /\ UNCHANGED <<mail, want, overlapped>> /\ Live' = Live \cup {t}
        /\ tenant[t] = "never"
    BY <1>0, <1>8 DEF create_tenant, Live, DatabaseType, mailVars
  <2>2. Putting' = Putting /\ \A s \in Putting' : req'[s] = req[s]
    BY <1>0, <1>8 DEF create_tenant, Notifying, Begin, NoReq, Putting, ReqType
  <2>3. \A u \in Tenant : tenant[u] # "never" => tenant'[u] # "never"
    BY <1>0, <1>8 DEF create_tenant, DatabaseType
  <2>4. Rows' = Rows /\ Owners' = Owners
    BY <2>1 DEF Rows, Owners
  <2>5. ASSUME NEW s \in Putting'
        PROVE  Known(req[s].cur)' /\ (s \in overlapped' \/ Alone(s)')
    <3>1. s \in Putting /\ req'[s] = req[s] /\ req[s].cur \subseteq Tenant
      BY <1>0, <2>2 DEF ReqType, Reqs, Putting
    <3>2. t \notin req[s].cur /\ Known(req[s].cur)'
      BY <1>a, <2>1, <2>3, <3>1 DEF Known
    <3>3. Alone(s) => Alone(s)'
      BY <2>1, <2>2, <2>4, <3>1, <3>2 DEF Alone, Tracks
    <3> QED
      BY <1>a, <2>1, <3>1, <3>2, <3>3
  <2>6. Known(want)'
    BY <1>0, <1>a, <2>1, <2>3 DEF MailType, Known
  <2> QED
    BY <2>5, <2>6 DEF Tracking
<1>9. ASSUME UNCHANGED <<tenant, groupVars, overlapped>>, Putting' \subseteq Putting,
             \A r \in Putting' : req'[r] = req[r]
      PROVE  Tracking'
  BY <1>b, <1>9 DEF groupVars
<1> QED
  BY <1>0, <1>1, <1>2, <1>3, <1>4, <1>5, <1>6, <1>7, <1>8, <1>9, GroupSteps

LEMMA RowFields ==
  \A t, v : NewRow(t, v).owner = t /\ NewRow(t, v).settings = v
BY DEF NewRow

LEMMA NextGroup ==
  ASSUME Whole, Next
  PROVE  GroupIsWhole'
<1>0. /\ DatabaseType /\ ReqType /\ MailType /\ TypeOK /\ Left
      /\ Owners \subseteq Live
  BY TypeParts DEF Whole, Left, CascadesAreWhole
<1> DEFINE OneSetting == \A m, n \in Rows : mail[m].settings = mail[n].settings
           OneEach == \A m, n \in Rows :
                        mail[m].owner = mail[n].owner => m = n \/ mail[m].owner \in twice
           Goal == /\ OneEach'
                   /\ ~torn' => OneSetting' /\ Owners' = want' \cap Live'
<1>a. /\ OneEach
      /\ ~torn => OneSetting /\ Owners = want \cap Live
      /\ Known(want) /\ \A r \in Putting : r \in overlapped \/ Alone(r)
  BY DEF Whole, Tracking, GroupIsWhole
<1>1. UNCHANGED <<tenant, groupVars>> => Goal
  BY <1>a DEF groupVars, Rows, Owners, Live
<1>2. ASSUME NEW r \in Request, NEW ts \in SUBSET Tenant,
             update_mail_config_group(r, ts) \/ PutScan(r) \/ PutFails(r)
      PROVE  Goal
  BY <1>1, <1>2 DEF update_mail_config_group, PutScan, PutFails, tenantVars, mailVars, groupVars
<1>3. ASSUME NEW r \in Request, PutCommit(r) PROVE Goal
  <2> DEFINE new == req[r].ts \ req[r].cur
  <2>1. PICK f \in Places(new) :
          mail' = [n \in Row |->
            IF \E t \in new : f[t] = n THEN NewRow(CHOOSE t \in new : f[t] = n, req[r].v)
            ELSE IF n \notin Kept(r) THEN None
            ELSE IF n \in req[r].scan THEN NewRow(mail[n].owner, req[r].v) ELSE mail[n]]
    BY <1>3 DEF PutCommit
  <2>2. /\ want' = req[r].ts /\ UNCHANGED tenant /\ r \in Putting
        /\ req[r].op = "scanned" /\ new \subseteq Live
        /\ torn' = (r \in overlapped)
        /\ twice' = IF r \in overlapped THEN twice \cup new ELSE twice
    BY <1>3 DEF PutCommit, tenantVars, Putting
  <2>3. OneEach
    BY <1>a
  <2>4. r \notin overlapped =>
          /\ Rows \subseteq req[r].scan /\ Owners \subseteq req[r].cur
          /\ req[r].cur \cap Live \subseteq Owners
    BY <1>a, <2>2 DEF Alone, Tracks
  <2>5. new \subseteq Tenant /\ req[r].v \in Nat /\ req[r].cur \subseteq Tenant
    BY <1>0 DEF ReqType, Reqs
  <2>6. new \cap req[r].cur = {} /\ req[r].ts = new \cup (req[r].ts \cap req[r].cur)
    OBVIOUS
  <2> HIDE DEF new
  <2>7. ASSUME NEW t \in new
        PROVE  /\ f[t] \in Rows' /\ mail'[f[t]].owner = t
               /\ mail'[f[t]].settings = req[r].v
    <3> DEFINE o == CHOOSE u \in new : f[u] = f[t]
    <3>1. o = t /\ f[t] \in Row
      BY DEF Places, Free
    <3>2. mail'[f[t]] = NewRow(o, req[r].v)
      BY <2>1, <3>1
    <3> HIDE DEF o
    <3>3. NewRow(t, req[r].v) \in MailRow
      BY <2>5 DEF NewRow, MailRow
    <3> QED
      BY <3>1, <3>2, <3>3, NoneAssumption, RowFields DEF Rows
  <2>8. ASSUME NEW n \in Kept(r)
        PROVE  /\ n \in Rows' /\ mail'[n].owner = mail[n].owner
               /\ n \in req[r].scan => mail'[n].settings = req[r].v
    <3>1. n \in Rows /\ n \in Row
      BY DEF Kept, Rows
    <3>2. ~ \E t \in new : f[t] = n
      BY <3>1 DEF Places, Free
    <3>3. mail'[n] = IF n \in req[r].scan THEN NewRow(mail[n].owner, req[r].v) ELSE mail[n]
      BY <2>1, <3>1, <3>2
    <3>4. mail[n] \in MailRow
      BY <1>0, <3>1 DEF Rows, MailType
    <3>5. NewRow(mail[n].owner, req[r].v) \in MailRow
      BY <2>5, <3>4 DEF NewRow, MailRow
    <3> QED
      BY <3>1, <3>3, <3>4, <3>5, NoneAssumption, RowFields DEF Rows
  <2>9. ASSUME NEW n \in Rows'
        PROVE  \/ n \in Kept(r)
               \/ mail'[n].owner \in new /\ n = f[mail'[n].owner]
    <3>1. n \in Row /\ mail'[n] # None
      BY DEF Rows
    <3>2. CASE \E t \in new : f[t] = n
      <4>1. PICK t \in new : f[t] = n
        BY <3>2
      <4> QED
        BY <4>1, <2>7
    <3>3. CASE ~(\E t \in new : f[t] = n)
      BY <2>1, <3>1, <3>3
    <3> QED
      BY <3>2, <3>3
  <2>10. ASSUME NEW n \in Kept(r)
         PROVE  /\ mail'[n].owner = mail[n].owner /\ mail[n].owner \in Owners
                /\ n \in Rows /\ mail[n].owner \notin req[r].cur \ req[r].ts
    BY <2>8 DEF Kept, Owners
  <2>11. OneEach'
    <3> SUFFICES ASSUME NEW m \in Rows', NEW n \in Rows', mail'[m].owner = mail'[n].owner
                 PROVE  m = n \/ mail'[m].owner \in twice'
      OBVIOUS
    <3>1. CASE m \in Kept(r) /\ n \in Kept(r)
      BY <2>2, <2>3, <2>10, <3>1
    <3>2. CASE ~(m \in Kept(r)) /\ ~(n \in Kept(r))
      BY <2>9, <3>2
    <3>3. \A a, b \in Rows' : a \in Kept(r) /\ b \notin Kept(r)
             /\ mail'[a].owner = mail'[b].owner => mail'[b].owner \in twice'
      <4> SUFFICES ASSUME NEW a \in Rows', NEW b \in Rows', a \in Kept(r), b \notin Kept(r),
                          mail'[a].owner = mail'[b].owner
                   PROVE  mail'[b].owner \in twice'
        OBVIOUS
      <4>1. mail'[b].owner \in new /\ mail'[b].owner \in Owners
        BY <2>9, <2>10
      <4>2. r \in overlapped
        BY <2>4, <2>6, <4>1
      <4> QED
        BY <2>2, <4>1, <4>2
    <3> QED
      BY <3>1, <3>2, <3>3
  <2>12. ASSUME ~torn' PROVE OneSetting' /\ Owners' = want' \cap Live'
    <3>0. /\ Rows \subseteq req[r].scan /\ Owners \subseteq req[r].cur
          /\ req[r].cur \cap Live \subseteq Owners
      BY <2>2, <2>4, <2>12
    <3>1. \A n \in Kept(r) : mail'[n].settings = req[r].v
      BY <2>8, <2>10, <3>0
    <3>2. \A n \in Rows' : mail'[n].settings = req[r].v
      BY <2>7, <2>9, <3>1
    <3>3. ASSUME NEW n \in Rows' PROVE mail'[n].owner \in req[r].ts \cap Live
      <4>1. CASE n \in Kept(r)
        BY <1>0, <2>10, <3>0, <4>1
      <4>2. CASE n \notin Kept(r)
        BY <2>2, <2>6, <2>9, <4>2
      <4> QED
        BY <4>1, <4>2
    <3>4. Owners' \subseteq req[r].ts \cap Live
      BY <3>3 DEF Owners
    <3>5. ASSUME NEW t \in req[r].ts \cap Live PROVE t \in Owners'
      <4>1. CASE t \in new
        BY <2>7, <4>1 DEF Owners
      <4>2. CASE t \in req[r].cur
        <5>1. PICK n \in Rows : mail[n].owner = t
          BY <3>0, <4>2 DEF Owners
        <5>2. n \in Kept(r)
          BY <5>1 DEF Kept
        <5> QED
          BY <2>8, <5>1, <5>2 DEF Owners
      <4> QED
        BY <2>6, <4>1, <4>2
    <3>6. Live' = Live
      BY <2>2 DEF Live
    <3> QED
      BY <2>2, <3>2, <3>4, <3>5, <3>6
  <2> QED
    BY <2>11, <2>12
<1>4. ASSUME NEW ts \in SUBSET Tenant, create_mail_config_group(ts) PROVE Goal
  <2>1. PICK f \in [Row -> ts \cup {None}] :
          /\ \A t \in ts : \E m \in Row : f[m] = t
          /\ mail' = [m \in Row |-> IF f[m] = None THEN None ELSE NewRow(f[m], ops')]
          /\ twice' = {t \in ts : \E m, n \in Row : m # n /\ f[m] = t /\ f[n] = t}
    BY <1>4 DEF create_mail_config_group
  <2>2. want' = ts /\ ts \subseteq Live /\ UNCHANGED tenant /\ ops' \in Nat
    BY <1>0, <1>4, TypeParts DEF create_mail_config_group, tenantVars, Op, CountType
  <2>3. None \notin ts
    BY NoneAssumption
  <2>4. ASSUME NEW m \in Row, f[m] # None
        PROVE  m \in Rows' /\ mail'[m].owner = f[m] /\ mail'[m].settings = ops'
    <3>1. mail'[m] = NewRow(f[m], ops') /\ f[m] \in ts
      BY <2>1, <2>4
    <3>2. NewRow(f[m], ops') \in MailRow
      BY <2>2, <3>1 DEF NewRow, MailRow
    <3> QED
      BY <3>1, <3>2, NoneAssumption, RowFields DEF Rows
  <2>5. \A m \in Rows' : m \in Row /\ f[m] # None /\ f[m] \in ts
    BY <2>1 DEF Rows
  <2>6. OneSetting'
    BY <2>4, <2>5
  <2>7. OneEach'
    BY <2>1, <2>4, <2>5
  <2>8. Owners' = ts
    <3>1. Owners' \subseteq ts
      BY <2>4, <2>5 DEF Owners
    <3>2. ASSUME NEW t \in ts PROVE t \in Owners'
      <4>1. PICK m \in Row : f[m] = t
        BY <2>1
      <4> QED
        BY <2>3, <2>4, <4>1 DEF Owners
    <3> QED
      BY <3>1, <3>2
  <2>9. Owners' = want' \cap Live'
    BY <2>2, <2>8 DEF Live
  <2> QED
    BY <2>6, <2>7, <2>9
<1>5. ASSUME delete_mail_config_group PROVE Goal
  <2>1. Rows' = {} /\ want' = {}
    BY <1>5 DEF delete_mail_config_group, Rows
  <2> QED
    BY <2>1 DEF Owners
<1>6. ASSUME NEW m \in Row, update_mail_config(m) \/ delete_mail_config(m) PROVE Goal
  <2>1. torn' /\ UNCHANGED twice
    BY <1>6 DEF update_mail_config, delete_mail_config
  <2>2. \A n \in Rows' : n \in Rows /\ mail'[n].owner = mail[n].owner
    <3>1. CASE update_mail_config(m)
      <4>1. mail[m] \in MailRow
        BY <1>0, <3>1 DEF update_mail_config, MailType, Rows
      <4> QED
        BY <1>0, <3>1, <4>1 DEF update_mail_config, MailType, Rows, MailRow
    <3>2. CASE delete_mail_config(m)
      BY <1>0, <3>2 DEF delete_mail_config, MailType, Rows
    <3> QED
      BY <1>6, <3>1, <3>2
  <2> QED
    BY <1>a, <2>1, <2>2
<1>7. ASSUME NEW t \in Tenant, delete_tenant(t) PROVE Goal
  <2>1. UNCHANGED <<want, torn, twice>> /\ Live' = Live \ {t}
    BY <1>0, <1>7 DEF delete_tenant, Live, DatabaseType
  <2>2. Rows' \subseteq Rows /\ Owners' = Owners \ {t} /\ \A m \in Rows' : mail'[m] = mail[m]
    BY <1>0, <1>7 DEF delete_tenant, Cascade, Rows, Owners, MailType
  <2> QED
    BY <1>a, <2>1, <2>2
<1>8. ASSUME NEW r \in Request, NEW t \in Tenant, NEW c \in Connector, create_tenant(r, t, c)
      PROVE  Goal
  <2>1. /\ UNCHANGED <<mail, want, torn, twice>> /\ Live' = Live \cup {t}
        /\ tenant[t] = "never"
    BY <1>0, <1>8 DEF create_tenant, Live, DatabaseType, mailVars
  <2>2. t \notin want
    BY <1>a, <2>1 DEF Known
  <2> QED
    BY <1>a, <2>1, <2>2 DEF Rows, Owners
<1> HIDE DEF Goal
<1>9. Goal
  BY <1>0, <1>1, <1>2, <1>3, <1>4, <1>5, <1>6, <1>7, <1>8, GroupSteps
<1> QED
  BY <1>9 DEF Goal, GroupIsWhole

LEMMA NextWhole == Whole /\ [Next]_vars => Whole'
<1>1. Whole /\ Next => Whole'
  BY NextLeft, NextTracking, NextGroup DEF Whole
<1>2. Whole /\ UNCHANGED vars => Whole'
  <2> SUFFICES ASSUME Whole, UNCHANGED vars PROVE Whole'
    OBVIOUS
  <2>1. UNCHANGED <<tenant, mail, want, torn, overlapped, twice, req>>
    BY DEF vars, tenantVars, mailVars
  <2>2. Left'
    BY NextLeft DEF Whole
  <2>3. Tracking' /\ GroupIsWhole'
    BY <2>1 DEF Whole, Tracking, GroupIsWhole, Known, Putting, Alone, Tracks, Owners, Rows, Live
  <2> QED
    BY <2>2, <2>3 DEF Whole
<1> QED
  BY <1>1, <1>2

(* A change of a mail group that no other one met leaves one configuration *)
(* for exactly the tenants it asked for that still exist, whatever earlier *)
(* changes left; a tenant has two rows only where a creation listed it     *)
(* twice or two overlapping changes both added it.                         *)
THEOREM GroupCorrect == Spec => []GroupIsWhole
<1>1. Whole => GroupIsWhole
  BY DEF Whole
<1> QED
  BY <1>1, InitWhole, NextWhole, PTL DEF Spec

-----------------------------------------------------------------------------
(* The schedule.                                                           *)
NoNotice == \A r \in Request : req[r].op # "notify"
Polled(c) == conn[c].enabled /\ conn[c].known
Wanted(c) == IF Polled(c) THEN conn[c].creds ELSE None
Loaded(c) == Loads(c) = IF conn[c].owner \notin loader.todo /\ Polled(c)
                        THEN {conn[c].creds} ELSE {}
Loading == /\ healing # "due"
           /\ loader.pc # "idle" => \A c \in Connector : job[c] = None
           /\ loader.pc = "load" => loader.rows = {} /\ ~loader.broken
           /\ loader.pc = "read" /\ ~missed => ~loader.broken
Told == NoNotice /\ reloads = 0 /\ ~missed
OnItsWay == /\ Told /\ loader.pc = "idle" => \A c \in Existing : job[c] = Wanted(c)
            /\ Told /\ loader.pc = "read" => \A c \in Existing : Loaded(c)
Planned == Left /\ Loading /\ OnItsWay

LEMMA InitPlanned == Init => Planned
<1> SUFFICES ASSUME Init PROVE Planned
  OBVIOUS
<1>1. Loading /\ loader.pc = "idle"
  BY DEF Init, Loading, IdleLoader
<1>2. \A c \in Existing : job[c] = Wanted(c)
  BY DEF Init, Existing, Wanted, Polled
<1> QED
  BY <1>1, <1>2, InitLeft DEF Planned, OnItsWay

LEMMA NoticeSteps ==
  ASSUME TypeOK, Next, NoNotice'
  PROVE  NoNotice \/ \E r \in Request : _notify_ingestion_reload(r) \/ NotifyLost(r)
<1>0. ReqType
  BY TypeParts
<1> USE DEF NoNotice
<1>1. ASSUME NEW r \in Request, req[r].op # "notify",
             \A s \in Request \ {r} : req'[s] = req[s]
      PROVE  NoNotice
  BY <1>1
<1>2. ASSUME NEW r \in Request, NEW h, Begin(r, h) PROVE NoNotice
  <2>1. req[r].op # "notify" /\ \A s \in Request \ {r} : req'[s] = req[s]
    BY <1>0, <1>2 DEF Begin, NoReq, ReqType
  <2> QED
    BY <1>1, <2>1
<1>3. ASSUME NEW r \in Request, NEW h, Set(r, h), req[r].op # "notify" PROVE NoNotice
  <2>1. \A s \in Request \ {r} : req'[s] = req[s]
    BY <1>0, <1>3 DEF Set, ReqType
  <2> QED
    BY <1>1, <1>3, <2>1
<1>4. ASSUME NEW r \in Request, NEW ts \in SUBSET Tenant,
             bulk_toggle_integration(r, ts) \/ update_mail_config_group(r, ts)
      PROVE  NoNotice
  <2> DEFINE b == [NoReq EXCEPT !.op = "bulk", !.ts = ts, !.v = ops']
             p == [NoReq EXCEPT !.op = "put", !.ts = ts, !.cur = Owners, !.v = ops']
  <2>1. Begin(r, b) \/ Begin(r, p)
    BY <1>4 DEF bulk_toggle_integration, update_mail_config_group
  <2> HIDE DEF b, p
  <2> QED
    BY <1>2, <2>1
<1>5. ASSUME NEW r \in Request, NEW t \in Tenant, BulkTenant(r, t) PROVE NoNotice
  <2> DEFINE h == IF t \in Live /\ ~req[r].broken
            THEN [req[r] EXCEPT !.ts = @ \ {t}, !.done = @ \cup {t}]
            ELSE [req[r] EXCEPT !.ts = @ \ {t}, !.cur = @ \cup {t}, !.broken = TRUE]
  <2>1. Set(r, h) /\ req[r].op # "notify"
    BY <1>5 DEF BulkTenant
  <2> HIDE DEF h
  <2> QED
    BY <1>3, <2>1
<1>6. ASSUME NEW r \in Request, PutScan(r) PROVE NoNotice
  <2> DEFINE h == [req[r] EXCEPT !.op = "scanned", !.scan = Rows]
  <2>1. Set(r, h) /\ req[r].op # "notify"
    BY <1>6 DEF PutScan
  <2> HIDE DEF h
  <2> QED
    BY <1>3, <2>1
<1>7. ASSUME NEW r \in Request, BulkCommit(r) \/ PutCommit(r) \/ PutFails(r) PROVE NoNotice
  <2>1. Set(r, NoReq) /\ req[r].op # "notify"
    BY <1>7 DEF BulkCommit, PutCommit, PutFails, End
  <2> QED
    BY <1>3, <2>1
<1>8. ASSUME NEW r \in Request, NEW t \in Tenant, NEW c \in Connector,
             create_tenant(r, t, c) \/ \E on, known \in BOOLEAN : create_connector(r, t, c, on, known)
      PROVE  NoNotice
  BY <1>2, <1>8 DEF create_tenant, create_connector, Notifying
<1>9. ASSUME NEW r \in Request, NEW c \in Connector, NEW on \in BOOLEAN,
             update_connector(r, c, on)
      PROVE  NoNotice
  BY <1>2, <1>9 DEF update_connector, Notifying
<1> QED
  BY <1>4, <1>5, <1>6, <1>7, <1>8, <1>9, RequestSteps

LEMMA NoticeGiven ==
  ASSUME TypeOK, NEW r \in Request, Notifying(r)
  PROVE  ~NoNotice'
<1>1. req \in [Request -> Reqs]
  BY TypeParts DEF ReqType
<1> QED
  BY <1>1 DEF Notifying, Begin, NoReq, NoNotice

(* A connector changes only with a notice, or goes with its tenant.        *)
LEMMA ConnectorSteps ==
  ASSUME TypeOK, Next, NoNotice'
  PROVE  \A c \in Existing' : c \in Existing /\ conn'[c] = conn[c]
<1>0. DatabaseType
  BY TypeParts
<1>1. ASSUME NEW t \in Tenant, delete_tenant(t)
      PROVE  \A c \in Existing' : c \in Existing /\ conn'[c] = conn[c]
  BY <1>0, <1>1 DEF delete_tenant, Cascade, Without, Existing, DatabaseType
<1>2. UNCHANGED conn => \A c \in Existing' : c \in Existing /\ conn'[c] = conn[c]
  BY DEF Existing
<1> QED
  BY <1>1, <1>2, DatabaseSteps, NoticeGiven
     DEF create_tenant, create_connector, update_connector, update_connector_missing,
         tenant_stats, tenantVars, dbVars

LEMMA NextLoading ==
  ASSUME Planned, Next
  PROVE  Loading'
<1>0. JobType /\ Loading
  BY TypeParts DEF Planned, Left
<1> USE DEF Loading, JobType, Loaders
<1>1. ASSUME NEW r \in Request, _notify_ingestion_reload(r) \/ NotifyLost(r) PROVE Loading'
  BY <1>0, <1>1 DEF _notify_ingestion_reload, NotifyLost, jobVars, ghosts
<1>2. ASSUME reload_connectors PROVE Loading'
  <2>1. job' = NoJobs /\ loader' = [IdleLoader EXCEPT !.pc = "load"] /\ healing' = "none"
    BY <1>0, <1>2 DEF reload_connectors
  <2> QED
    BY <2>1 DEF NoJobs, IdleLoader
<1>3. ASSUME ReadTenants PROVE Loading'
  BY <1>0, <1>3 DEF ReadTenants
<1>4. ASSUME ReloadEnd PROVE Loading'
  BY <1>0, <1>4 DEF ReloadEnd, IdleLoader, FirstRun
<1>5. ASSUME LoadFails PROVE Loading'
  BY <1>0, <1>5 DEF LoadFails, IdleLoader
<1>6. ASSUME Restart PROVE Loading'
  <2>1. job' = NoJobs /\ loader' = [IdleLoader EXCEPT !.pc = "load"] /\ healing' = "none"
    BY <1>6 DEF Restart
  <2> QED
    BY <2>1 DEF NoJobs, IdleLoader
<1>7. ASSUME NEW t \in Tenant, ReadTenant(t) PROVE Loading'
  <2> DEFINE broken == loader.broken \/ t \notin Live
  <2>1. /\ UNCHANGED <<healing, job>> /\ missed' = (missed \/ broken)
        /\ loader.pc = "read" /\ loader'.pc = "read" /\ loader'.broken = broken
    BY <1>0, <1>7 DEF ReadTenant
  <2> HIDE DEF broken
  <2> QED
    BY <1>0, <2>1
<1>8. ASSUME NEW c \in Connector, PollStart(c) \/ PollEnd(c) PROVE Loading'
  BY <1>0, <1>8 DEF PollStart, PollEnd, ghosts
<1>9. UNCHANGED planVars => Loading'
  BY <1>0 DEF planVars
<1> QED
  BY <1>1, <1>2, <1>3, <1>4, <1>5, <1>6, <1>7, <1>8, <1>9, PlanSteps

LEMMA NextOnItsWay ==
  ASSUME Planned, Next
  PROVE  OnItsWay'
<1> SUFFICES ASSUME Told' PROVE /\ loader'.pc = "idle" => \A c \in Existing' : job'[c] = Wanted(c)'
                                /\ loader'.pc = "read" => \A c \in Existing' : Loaded(c)'
  BY DEF OnItsWay
<1> DEFINE Goal == /\ loader'.pc = "idle" => \A c \in Existing' : job'[c] = Wanted(c)'
                   /\ loader'.pc = "read" => \A c \in Existing' : Loaded(c)'
<1>0. /\ JobType /\ DatabaseType /\ Loading /\ TypeOK /\ OnItsWay
      /\ \A c \in Existing : conn[c].owner \in Live
  BY TypeParts DEF Planned, Left, CascadesAreWhole
<1>a. NoNotice' /\ reloads' = 0 /\ ~missed'
  BY DEF Told
<1>b. \A c \in Existing' : c \in Existing /\ conn'[c] = conn[c]
  BY <1>0, <1>a, ConnectorSteps
<1>c. \/ NoNotice
      \/ \E r \in Request : _notify_ingestion_reload(r) \/ NotifyLost(r)
  BY <1>0, <1>a, NoticeSteps
<1>1. ASSUME NEW r \in Request, _notify_ingestion_reload(r) \/ NotifyLost(r) PROVE Goal
  BY <1>0, <1>a, <1>1 DEF _notify_ingestion_reload, NotifyLost, JobType
<1>2. ASSUME reload_connectors \/ Restart PROVE Goal
  BY <1>2 DEF reload_connectors, Restart, IdleLoader
<1>3. ASSUME ReadTenants PROVE Goal
  <2>1. /\ loader'.pc = "read" /\ loader'.todo = Live /\ loader'.rows = {}
        /\ conn' = conn
    BY <1>0, <1>3 DEF ReadTenants, JobType, Loaders, Loading, tenantVars
  <2>2. \A c \in Existing' : Loads(c)' = {} /\ conn'[c].owner \in loader'.todo
    BY <1>0, <2>1 DEF Loads, Existing
  <2> QED
    BY <2>1, <2>2 DEF Loaded
<1>4. ASSUME ReloadEnd, NoNotice PROVE Goal
  <2>1. /\ loader.pc = "read" /\ loader.todo = {} /\ loader'.pc = "idle" /\ Told
        /\ job' = Scheduled
    BY <1>4, <1>a DEF ReloadEnd, IdleLoader, Told, ghosts
  <2>2. ASSUME NEW c \in Existing' PROVE job'[c] = Wanted(c)'
    <3>1. c \in Existing /\ c \in Connector /\ Loaded(c) /\ job[c] = None
      BY <1>0, <1>b, <2>1 DEF OnItsWay, Loading, Existing
    <3>2. job'[c] = IF Loads(c) = {} THEN job[c] ELSE CHOOSE v \in Loads(c) : TRUE
      BY <2>1, <3>1 DEF Scheduled
    <3>3. Wanted(c)' = Wanted(c)
      BY <1>b DEF Wanted, Polled
    <3>4. Loads(c) = IF Polled(c) THEN {conn[c].creds} ELSE {}
      BY <2>1, <3>1 DEF Loaded
    <3>5. CASE Polled(c)
      <4>1. (CHOOSE v \in Loads(c) : TRUE) = conn[c].creds
        BY <3>4, <3>5
      <4> QED
        BY <3>2, <3>3, <3>4, <3>5, <4>1 DEF Wanted
    <3>6. CASE ~Polled(c)
      BY <3>1, <3>2, <3>3, <3>4, <3>6 DEF Wanted
    <3> QED
      BY <3>5, <3>6
  <2> QED
    BY <2>1, <2>2
<1>5. ASSUME LoadFails PROVE Goal
  BY <1>a, <1>5 DEF LoadFails
<1>6. ASSUME NEW t \in Tenant, ReadTenant(t), NoNotice PROVE Goal
  <2> DEFINE broken == loader.broken \/ t \notin Live
             news == {<<c, conn[c].creds, conn[c].known>> : c \in {d \in Existing :
                                conn[d].owner = t /\ conn[d].enabled}}
  <2>1. missed' = (missed \/ broken) /\ reloads' = reloads /\ loader.pc = "read" /\ conn' = conn
        /\ t \in loader.todo
    BY <1>6 DEF ReadTenant, tenantVars
  <2>2. ~broken /\ Told
    BY <1>6, <1>a, <2>1 DEF Told
  <2>3. loader' = [loader EXCEPT !.todo = @ \ {t}, !.broken = broken,
                  !.seen = IF broken THEN @ ELSE @ \cup {t},
                  !.rows = IF broken THEN @ ELSE @ \cup news]
    BY <1>6 DEF ReadTenant
  <2> HIDE DEF broken
  <2>4. loader'.pc = "read" /\ loader'.todo = loader.todo \ {t} /\ loader'.rows = loader.rows \cup news
    BY <1>0, <2>1, <2>2, <2>3 DEF JobType, Loaders
  <2>5. ASSUME NEW c \in Existing' PROVE Loaded(c)'
    <3>1. c \in Existing /\ Loaded(c) /\ c \in Connector
      BY <1>0, <1>b, <2>1, <2>2 DEF OnItsWay, Existing
    <3>2. CASE conn[c].owner = t
      <4>1. Loads(c) = {}
        BY <2>1, <3>1, <3>2 DEF Loaded
      <4>2. \A q \in loader.rows : ~(q[1] = c /\ q[3])
        BY <4>1 DEF Loads
      <4>3. {q \in news : q[1] = c /\ q[3]} =
              IF Polled(c) THEN {<<c, conn[c].creds, conn[c].known>>} ELSE {}
        BY <3>1, <3>2 DEF Polled
      <4>4. Loads(c)' = {p[2] : p \in {q \in news : q[1] = c /\ q[3]}}
        BY <2>4, <4>2 DEF Loads
      <4>5. Loads(c)' = IF Polled(c) THEN {conn[c].creds} ELSE {}
        <5>1. CASE Polled(c)
          <6>1. Loads(c)' = {p[2] : p \in {<<c, conn[c].creds, conn[c].known>>}}
            BY <4>3, <4>4, <5>1
          <6> QED
            BY <5>1, <6>1
        <5>2. CASE ~Polled(c)
          BY <4>3, <4>4, <5>2
        <5> QED
          BY <5>1, <5>2
      <4> QED
        BY <2>1, <2>4, <3>2, <4>5 DEF Loaded, Polled
    <3>3. CASE conn[c].owner # t
      <4>1. \A q \in news : q[1] # c
        BY <3>3
      <4>2. Loads(c)' = Loads(c)
        BY <2>4, <4>1 DEF Loads
      <4> QED
        BY <2>1, <2>4, <3>1, <3>3, <4>2 DEF Loaded, Polled
    <3> QED
      BY <3>2, <3>3
  <2> QED
    BY <2>4, <2>5
<1>7. ASSUME UNCHANGED <<job, loader, reloads, missed>>, NoNotice PROVE Goal
  <2>1. Told
    BY <1>7, <1>a DEF Told
  <2>2. \A c \in Existing' : /\ Wanted(c)' = Wanted(c) /\ Loads(c)' = Loads(c)
                             /\ Loaded(c)' <=> Loaded(c)
    BY <1>7, <1>b DEF Wanted, Loads, Loaded, Polled
  <2> QED
    BY <1>0, <1>7, <1>b, <2>1, <2>2 DEF OnItsWay
<1>8. ASSUME NEW c \in Connector, PollStart(c) \/ PollEnd(c), NoNotice PROVE Goal
  BY <1>7, <1>8 DEF PollStart, PollEnd, ghosts
<1>9. ASSUME UNCHANGED planVars, NoNotice PROVE Goal
  BY <1>7, <1>9 DEF planVars
<1> HIDE DEF Goal
<1>10. Goal
  BY <1>c, <1>1, <1>2, <1>3, <1>4, <1>5, <1>6, <1>8, <1>9, PlanSteps
<1> QED
  BY <1>10 DEF Goal

LEMMA NextPlanned == Planned /\ [Next]_vars => Planned'
<1>1. Planned /\ Next => Planned'
  BY NextLeft, NextLoading, NextOnItsWay DEF Planned
<1>2. Planned /\ UNCHANGED vars => Planned'
  <2> SUFFICES ASSUME Planned, UNCHANGED vars PROVE Planned'
    OBVIOUS
  <2>1. UNCHANGED <<conn, req, job, healing, loader, reloads, missed>>
    BY DEF vars, tenantVars, jobVars, ghosts
  <2>2. Left'
    BY NextLeft DEF Planned
  <2>3. Loading' /\ OnItsWay'
    BY <2>1 DEF Planned, Loading, OnItsWay, Told, NoNotice, Wanted, Polled, Loaded, Loads, Existing
  <2> QED
    BY <2>2, <2>3 DEF Planned
<1> QED
  BY <1>1, <1>2

(* Once every change was announced and loaded the schedule is the          *)
(* database's, however changes, reloads, restarts and polls interleave.    *)
THEOREM JobsCorrect == Spec => []JobsAreCurrent
<1>1. Planned => JobsAreCurrent
  BY DEF Planned, OnItsWay, JobsAreCurrent, Quiet, Told, NoNotice, Wanted, Polled
<1> QED
  BY <1>1, InitPlanned, NextPlanned, PTL DEF Spec

=============================================================================
