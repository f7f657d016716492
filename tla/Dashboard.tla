----------------------------- MODULE Dashboard -----------------------------
(***************************************************************************)
(* The XSIAM live dashboard, src/xsiam_live_dashboard/app.py (src/plan/    *)
(* holds the same file): a threaded Flask process whose pages are put      *)
(* together from calls to the XSIAM tenant named in the configuration      *)
(* file, from XQL queries that are started and polled, from public feeds   *)
(* behind a four-hour cache and from user risk scores behind a five-minute *)
(* one.  Requests run side by side, an administrator may save or remove    *)
(* the configuration under them, every call may fail, and xsiam_post turns *)
(* a failure into a dictionary without the key the page looks for, so a    *)
(* page cannot tell a failure from an empty tenant.                        *)
(*                                                                         *)
(* Time advances in units no shorter than a step; both caches' lifetimes   *)
(* are constants.  The hours of the SLA table are kept, in units of four   *)
(* hours.                                                                  *)
(***************************************************************************)
EXTENDS Integers, Sequences, FiniteSets

CONSTANTS Req,          \* the clients
          Tenant,       \* the XSIAM tenants a configuration may name
          Bundled,      \* the tenant of config.py, the fallback
          Content,      \* what the tenants may hold: functions on Tenant
          Newest,       \* search_to: how many incidents one answer holds
          FeedTTL,      \* _CACHE_TTL
          RiskTTL,      \* _USER_RISK_TTL
          MaxPolls,     \* polls of one XQL job
          Asked,        \* which client keeps asking for which page: functions
          MaxNow, MaxEdits, MaxFaults, MaxPages

VARIABLES file,     \* config.json: a tenant, "none", or "torn" while it is rewritten
          saving,   \* the tenant being written into a torn file, or "-"
          content,  \* what each tenant holds
          now,
          feeds,    \* _feed_cache
          risk,     \* _user_risk_cache
          req,      \* the requests
          saw,      \* history: the tenants configured while a request ran
          last,     \* history: when a tenant was last configured, or seen by
                    \* a request that was still running
          edits, faults, pages  \* what the bounds count

vars == <<file, saving, content, now, feeds, risk, req, saw, last, edits, faults, pages>>

-----------------------------------------------------------------------------
(* The pages, each as the steps it takes, in order. *)

Feed == {"certin_news", "certin_nvd", "unit42", "kev_ids", "kev_full"}
\* Their fetchers catch every exception themselves and return an empty list.
Swallowing == {"certin_news", "certin_nvd"}
XQL == {"uploads", "cves", "exposed", "query"}
Post == {"incidents", "alerts", "fallback", "risk_alerts", "rules", "assets", "findings",
         "endpoints"}
Call == Post \cup XQL
StepName == Feed \cup Call \cup {"risk", "keep"}

\* Lists, counts and charts over the newest incidents or alerts, or over one.
ListPlan == <<"incidents">>
DetailPlan == <<"incidents">>
StatsPlan == <<"incidents">>
SearchPlan == <<"incidents">>
PerformancePlan == <<"incidents">>
SourcesPlan == <<"incidents">>
AlertsPlan == <<"alerts">>
AlertPlan == <<"alerts">>
CriticalPlan == <<"alerts">>

PosturePlan == <<"incidents", "alerts", "endpoints", "risk">>
SummaryPlan == <<"incidents">>
VulnerabilityPlan == <<"cves", "alerts", "kev_ids", "kev_full">>
SurfacePlan == <<"rules", "assets", "exposed", "findings", "endpoints">>
TacticsPlan == <<"incidents", "alerts", "fallback">>
ThreatPlan == <<"certin_news", "certin_nvd", "unit42", "kev_full">>
QueryPlan == <<"query">>

Plan == [list |-> ListPlan, detail |-> DetailPlan, stats |-> StatsPlan,
         search |-> SearchPlan, performance |-> PerformancePlan, sources |-> SourcesPlan,
         alerts |-> AlertsPlan, alert |-> AlertPlan, critical |-> CriticalPlan,
         posture |-> PosturePlan, summary |-> SummaryPlan, users |-> <<"risk">>,
         vulnerabilities |-> VulnerabilityPlan, surface |-> SurfacePlan,
         tactics |-> TacticsPlan, threats |-> ThreatPlan, query |-> QueryPlan]
Page == DOMAIN Plan

ASSUME DashboardAssumption ==
    /\ Bundled \in Tenant /\ Asked \subseteq [Req -> Page]
    /\ {FeedTTL, RiskTTL, MaxPolls, Newest} \subseteq Nat \ {0}
    /\ {MaxNow, MaxEdits, MaxFaults, MaxPages} \subseteq Nat
    /\ {"none", "torn", "-"} \cap Tenant = {}
ASSUME ContentAssumption ==
    \A c \in Content, t \in Tenant :
        /\ c[t].risk \in Nat /\ c[t].bulk \in Nat
        /\ c[t].critical \in Nat /\ c[t].high \in Nat /\ c[t].connected \in 0..100

\* These pages let an exception of xsiam_post through; Flask answers 500.
Unguarded == {"list", "detail", "stats", "search", "performance", "sources", "alerts",
              "alert", "critical", "summary"}

-----------------------------------------------------------------------------
(* Credentials. *)

IsConfigured == file \in Tenant
\* load_config, when it does not raise: without a file, config.py answers.
Creds == IF file = "none" THEN Bundled ELSE file

-----------------------------------------------------------------------------
(* The figures.  An incident is [sev, status, age, touched, wait, owned]:  *)
(* the time since its creation, its modification time after its creation   *)
(* (0: never), its creation after its detection (0: unknown).              *)

Limit == [critical |-> 1, high |-> 2, medium |-> 6, low |-> 18]
Limited(i) == i.sev \in DOMAIN Limit
Resolved(i) == i.status = "resolved"
Unit == 4    \* hours

Indices(s, P(_)) == {k \in DOMAIN s : P(s[k])}
Count(s, P(_)) == Cardinality(Indices(s, P))
Sum(s, P(_), V(_)) ==
    LET upto[k \in 0..Len(s)] ==
            IF k = 0 THEN 0
            ELSE upto[k - 1] + (IF P(s[k]) THEN V(s[k]) ELSE 0)
    IN upto[Len(s)]

\* Python's round of n / d: half to even.
Round(n, d) ==
    LET q == n \div d  twice == 2 * (n % d)
    IN IF twice > d \/ (twice = d /\ q % 2 = 1) THEN q + 1 ELSE q

AtLeast0(n) == IF n < 0 THEN 0 ELSE n
Percent(k, n) == IF n = 0 THEN 0 ELSE Round(100 * k, n)

Mended(i) == Resolved(i) /\ i.touched > 0
Noticed(i) == i.wait > 0
\* Tenths of an hour; 0 for no value, which every caller treats alike.
CalculateMttr(s) ==
    LET Took(i) == i.touched  n == Count(s, Mended)
    IN IF n = 0 THEN 0 ELSE Round(10 * Unit * Sum(s, Mended, Took), n)
CalculateMttd(s) ==
    LET Took(i) == i.wait  n == Count(s, Noticed)
    IN IF n = 0 THEN 0 ELSE Round(10 * Unit * Sum(s, Noticed, Took), n)

\* An incident that was touched counts by the time of the last touch, open or not.
PassesSla(i) == Limited(i)
    /\ (IF i.touched > 0 THEN i.touched ELSE i.age) <= Limit[i.sev]
\* Mutant: no incidents, no breach.
CalculateSlaOptimist(s, else) ==
    IF Count(s, Limited) = 0 THEN 100
    ELSE Percent(Count(s, PassesSla), Count(s, Limited))
\* The share of incidents within their limit, or else where there is none:
\* calculate_sla returns None, and 0 is as false as None to "or".
CalculateSla(s, else) ==
    LET p == Percent(Count(s, PassesSla), Count(s, Limited))
    IN IF p = 0 THEN else ELSE p

IsSlaBreached(i) == Limited(i) /\ ~Resolved(i) /\ i.age > Limit[i.sev]
Active(i) == ~Resolved(i)
ActiveCritical(i) == Active(i) /\ i.sev = "critical"
Unassigned(i) == ~i.owned

-----------------------------------------------------------------------------
(* What a finished request has in hand. *)

\* The incidents it was given: the newest of the tenant, none after a failure.
IncidentsOf(r) ==
    IF req[r].got["incidents"] = {} THEN <<>>
    ELSE LET t == CHOOSE u \in req[r].got["incidents"] : TRUE
             all == content[t].incidents
         IN SubSeq(all, 1, IF Len(all) < Newest THEN Len(all) ELSE Newest)

Of(r, step, field, else) ==
    IF req[r].got[step] = {} THEN else
    ELSE content[CHOOSE u \in req[r].got[step] : TRUE][field]

MttrScore(m) == IF m = 0 THEN 80
                ELSE AtLeast0(100 - ((IF m < 480 THEN m ELSE 480) * 50) \div 80)
MttdScore(m) == IF m = 0 THEN 80 ELSE AtLeast0(100 - (m * 100) \div 240)

\* The six components of ciso_posture and their weighted sum.
PostureScore(r) ==
    LET s == IncidentsOf(r)
        c1 == Round(Percent(Count(s, Resolved), Len(s)) + CalculateSla(s, 50), 2)
        c2 == AtLeast0(100 - 8 * Of(r, "alerts", "critical", 0) - 3 * Of(r, "alerts", "high", 0))
        c3 == Of(r, "endpoints", "connected", 50)
        c4 == Round(MttdScore(CalculateMttd(s)) + MttrScore(CalculateMttr(s)), 2)
        c5 == AtLeast0(100 - 20 * Count(s, ActiveCritical)
                           - 10 * Count(s, IsSlaBreached))
        c6 == 100 - req[r].users.score
    IN Round(25 * c1 + 20 * c2 + 15 * c3 + 15 * c4 + 10 * c5 + 15 * c6, 100)

Green(r) == PostureScore(r) >= 80

\* executive_summary has no recommendation to make.
AllClear(r) ==
    LET s == IncidentsOf(r)
    IN /\ Count(s, ActiveCritical) = 0
       /\ Percent(Count(s, Unassigned), Len(s)) <= 10
       /\ CalculateSla(s, 0) >= 80
       /\ CalculateMttr(s) <= 240

-----------------------------------------------------------------------------
NoFeed == [full |-> FALSE, fresh |-> FALSE, age |-> 0]
NoUsers == [of |-> {}, score |-> 0, at |-> -1]
NoReq == [st |-> "idle", page |-> "summary", todo |-> <<>>, fetching |-> FALSE, job |-> "-",
          polls |-> 0, clock |-> 0, got |-> [c \in Call |-> {}],
          feed |-> [f \in Feed |-> NoFeed], users |-> NoUsers, calm |-> FALSE, given |-> FALSE]

Running(r) == req[r].st = "running"
Step(r) == Head(req[r].todo)
At(r, steps) == Running(r) /\ req[r].todo # <<>> /\ Step(r) \in steps
Next1(q) == [q EXCEPT !.todo = Tail(q.todo), !.fetching = FALSE, !.job = "-", !.polls = 0]

Init == /\ file \in Tenant \cup {"none"} /\ saving = "-"
        /\ content \in Content /\ now = 0
        /\ feeds = [f \in Feed |-> [ts |-> -1, full |-> FALSE, asof |-> -1]]
        /\ risk = [ts |-> -1, of |-> {}, score |-> 0]
        /\ \E a \in Asked : req = [r \in Req |-> [NoReq EXCEPT !.page = a[r]]]
        /\ saw = [r \in Req |-> {}] /\ last = [t \in Tenant |-> 0]
        /\ edits = 0 /\ faults = 0 /\ pages = 0

\* Whether a call succeeds; a failure is one of MaxFaults.
Outcome(ok) == \/ ok /\ UNCHANGED faults
               \/ ~ok /\ faults < MaxFaults /\ faults' = faults + 1

-----------------------------------------------------------------------------
(* The administrator. *)

\* save_config opens the file for writing, which empties it, then dumps.
SaveOpen(t) == /\ saving = "-" /\ edits < MaxEdits
               /\ file' = "torn" /\ saving' = t /\ edits' = edits + 1
               /\ UNCHANGED <<content, now, feeds, risk, req, faults, pages>>
\* After a removal the dump goes to a file that has no name any more.
SaveWrite == /\ saving # "-" /\ saving' = "-"
             /\ file' = IF file = "torn" THEN saving ELSE file
             /\ UNCHANGED <<content, now, feeds, risk, req, edits, faults, pages>>
Reset == /\ file # "none" /\ edits < MaxEdits
         /\ file' = "none" /\ edits' = edits + 1
         /\ UNCHANGED <<saving, content, now, feeds, risk, req, faults, pages>>

Tick == /\ now < MaxNow /\ now' = now + 1
        /\ UNCHANGED <<file, saving, content, feeds, risk, req, edits, faults, pages>>

(* A request; require_setup sends it to /setup without a usable file. *)
Begin(r) == /\ ~Running(r) /\ IsConfigured /\ pages < MaxPages /\ pages' = pages + 1
            /\ req' = [req EXCEPT ![r] = [NoReq EXCEPT !.st = "running", !.page = req[r].page,
                                             !.todo = Plan[req[r].page]]]
            /\ UNCHANGED <<file, saving, content, now, feeds, risk, edits, faults>>

\* The client has its page, of which the model keeps whether it looks calm and
\* whether it rests on incidents.
Calm(r) == CASE req[r].page = "posture" -> Green(r)
             [] req[r].page = "summary" -> AllClear(r)
             [] OTHER -> FALSE
Respond(r) == /\ Running(r) /\ req[r].todo = <<>>
              /\ req' = [req EXCEPT ![r] = [NoReq EXCEPT !.st = "done", !.page = req[r].page,
                                  !.calm = Calm(r), !.given = IncidentsOf(r) # <<>>]]
              /\ UNCHANGED <<file, saving, content, now, feeds, risk, edits, faults, pages>>

-----------------------------------------------------------------------------
(* One call of xsiam_post.  It reads the file for the address and again for *)
(* the key; a change between the two is a call the tenant refuses, hence a   *)
(* failure.  An exception, raised only by the first reading of a torn file,  *)
(* costs a guarded step its data and an unguarded page its answer.           *)

Needed(r) == LET got == req[r].got
             IN CASE Step(r) = "exposed"  -> got["assets"] = {}
                  [] Step(r) = "findings" -> got["assets"] \cup got["rules"] \cup got["exposed"] = {}
                  [] OTHER -> TRUE
\* The incidents are asked for again if those and the alerts name no tactic.
Spared(r) == Step(r) = "fallback" /\ req[r].got["incidents"] \cup req[r].got["alerts"] # {}
Skip(r) == /\ At(r, Call) /\ (~Needed(r) \/ Spared(r))
           /\ req' = [req EXCEPT ![r] = Next1(@)]
           /\ UNCHANGED <<file, saving, content, now, feeds, risk, edits, faults, pages>>

Raise(r) == /\ At(r, Call) /\ Needed(r) /\ file = "torn"
            /\ req' = [req EXCEPT ![r] =
                  IF @.page \in Unguarded THEN [NoReq EXCEPT !.st = "error", !.page = req[r].page] ELSE Next1(@)]
            /\ UNCHANGED <<file, saving, content, now, feeds, risk, edits, faults, pages>>

Sends(r, steps) == At(r, steps) /\ Needed(r) /\ file # "torn"

Answer(r) == /\ Sends(r, Post)
             /\ \E ok \in BOOLEAN :
                  /\ Outcome(ok)
                  /\ req' = [req EXCEPT ![r] =
                        Next1([@ EXCEPT !.got[Step(r)] = IF ok THEN {Creds} ELSE {}])]
             /\ UNCHANGED <<file, saving, content, now, feeds, risk, edits, pages>>

\* start_xql_query: without a job id the query has no rows.
StartJob(r) == /\ Sends(r, XQL) /\ req[r].job = "-"
               /\ \E ok \in BOOLEAN :
                    /\ Outcome(ok)
                    /\ req' = [req EXCEPT ![r] =
                          IF ok THEN [@ EXCEPT !.job = Creds] ELSE Next1(@)]
               /\ UNCHANGED <<file, saving, content, now, feeds, risk, edits, pages>>

\* get_query_results: a final status ends the query.  A job still running, a
\* failed call and a tenant that does not know the job all say "poll again".
Poll(r) == /\ Sends(r, XQL) /\ req[r].job # "-"
           /\ \E status \in {"success", "failed", "again"} :
                /\ \/ status = "again" /\ UNCHANGED faults
                   \/ status # "again" /\ req[r].job = Creds /\ Outcome(status = "success")
                /\ req' = [req EXCEPT ![r] =
                      IF status = "again" /\ @.polls + 1 < MaxPolls
                      THEN [@ EXCEPT !.polls = req[r].polls + 1]
                      ELSE Next1([@ EXCEPT !.got[Step(r)] =
                              IF status = "success" THEN {req[r].job} ELSE {}])]
           /\ UNCHANGED <<file, saving, content, now, feeds, risk, edits, pages>>

-----------------------------------------------------------------------------
(* User risk scores: _build_user_risk_scores. *)

RiskIsFresh == risk.ts >= 0 /\ now - risk.ts < RiskTTL
Users(q) == [of |-> q.of, score |-> q.score, at |-> now]

\* Mutant: every hit renews the entry.
RiskHitRenews(r) == /\ At(r, {"risk"}) /\ RiskIsFresh
                    /\ req' = [req EXCEPT ![r] = Next1([@ EXCEPT !.users = Users(risk)])]
                    /\ risk' = [risk EXCEPT !.ts = now]
                    /\ UNCHANGED <<file, saving, content, now, feeds, edits, faults, pages>>
RiskHit(r) == /\ At(r, {"risk"}) /\ RiskIsFresh
              /\ req' = [req EXCEPT ![r] = Next1([@ EXCEPT !.users = Users(risk)])]
              /\ UNCHANGED <<file, saving, content, now, feeds, risk, edits, faults, pages>>
RiskMiss(r) == /\ At(r, {"risk"}) /\ ~RiskIsFresh
               /\ req' = [req EXCEPT ![r].todo =
                             <<"risk_alerts", "uploads", "keep">> \o Tail(@)]
               /\ UNCHANGED <<file, saving, content, now, feeds, risk, edits, faults, pages>>
\* Whatever came in is kept, the nothing of a failure too.
RiskKeep(r) ==
    /\ At(r, {"keep"})
    /\ LET score == Of(r, "risk_alerts", "risk", 0) + Of(r, "uploads", "bulk", 0)
           built == [ts |-> now, of |-> req[r].got["risk_alerts"] \cup req[r].got["uploads"],
                     score |-> IF score > 100 THEN 100 ELSE score]
       IN /\ risk' = built
          /\ req' = [req EXCEPT ![r] = Next1([@ EXCEPT !.users = Users(built),
                              !.got["risk_alerts"] = {}, !.got["uploads"] = {}])]
    /\ UNCHANGED <<file, saving, content, now, feeds, edits, faults, pages>>

-----------------------------------------------------------------------------
(* Feeds: _get_cached.  The time is read once, before the fetch. *)

FeedIsFresh(f) == feeds[f].ts >= 0 /\ now - feeds[f].ts < FeedTTL
\* How old is what a page gets: at is when it asked.
Served(q, fresh, at) == [full |-> q.full, fresh |-> fresh, age |-> AtLeast0(at - q.asof)]

FeedHit(r) == /\ At(r, Feed) /\ ~req[r].fetching /\ FeedIsFresh(Step(r))
              /\ req' = [req EXCEPT ![r] = Next1([@ EXCEPT !.feed[Step(r)] =
                            Served(feeds[Step(r)], TRUE, now)])]
              /\ UNCHANGED <<file, saving, content, now, feeds, risk, edits, faults, pages>>
FeedMiss(r) == /\ At(r, Feed) /\ ~req[r].fetching /\ ~FeedIsFresh(Step(r))
               /\ req' = [req EXCEPT ![r].fetching = TRUE, ![r].clock = now]
               /\ UNCHANGED <<file, saving, content, now, feeds, risk, edits, faults, pages>>

Entry(r, ok) == [ts |-> req[r].clock, full |-> ok, asof |-> now]
\* Mutant: a failed fetch puts off the next one.
FeedAnswerBacksOff(r) ==
    /\ At(r, Feed) /\ req[r].fetching
    /\ \E ok \in BOOLEAN :
         /\ Outcome(ok)
         /\ LET f == Step(r)  kept == ok \/ f \in Swallowing
                entry == IF kept THEN Entry(r, ok) ELSE [feeds[f] EXCEPT !.ts = req[r].clock]
            IN /\ feeds' = [feeds EXCEPT ![f] = entry]
               /\ req' = [req EXCEPT ![r] = Next1([@ EXCEPT !.feed[f] =
                             Served(entry, kept, req[r].clock)])]
    /\ UNCHANGED <<file, saving, content, now, risk, edits, pages>>
\* A failure that reaches the cache serves what it holds, as stale; a fetcher
\* that swallows the failure has an empty list kept and served as fresh.
FeedAnswer(r) ==
    /\ At(r, Feed) /\ req[r].fetching
    /\ \E ok \in BOOLEAN :
         /\ Outcome(ok)
         /\ LET f == Step(r)  kept == ok \/ f \in Swallowing
                entry == IF kept THEN Entry(r, ok) ELSE feeds[f]
            IN /\ feeds' = [feeds EXCEPT ![f] = entry]
               /\ req' = [req EXCEPT ![r] = Next1([@ EXCEPT !.feed[f] =
                             Served(entry, kept, req[r].clock)])]
    /\ UNCHANGED <<file, saving, content, now, risk, edits, pages>>

-----------------------------------------------------------------------------
Serve(r) == \/ Respond(r) \/ Skip(r) \/ Raise(r) \/ Answer(r) \/ StartJob(r) \/ Poll(r)
            \/ RiskHit(r) \/ RiskMiss(r) \/ RiskKeep(r)
            \/ FeedHit(r) \/ FeedMiss(r) \/ FeedAnswer(r)

Configured == IF file = "none" THEN {Bundled} ELSE {file} \cap Tenant
\* The history of who was configured when; it guards nothing.
Watch == /\ saw' = [r \in Req |->
                IF ~Running(r)' THEN {}
                ELSE (IF Running(r) THEN saw[r] ELSE {}) \cup Configured']
         /\ last' = [t \in Tenant |->
                IF t \in Configured' \/ \E r \in Req : Running(r)' /\ t \in saw'[r]
                THEN now' ELSE last[t]]

Next == /\ \/ \E t \in Tenant : SaveOpen(t)
           \/ SaveWrite \/ Reset \/ Tick
           \/ \E r \in Req : Serve(r) \/ Begin(r)
        /\ Watch

Spec == Init /\ [][Next]_vars

-----------------------------------------------------------------------------
(* Type invariant: the file, the caches and the requests hold what the     *)
(* code puts there.                                                        *)
FeedView == [full : BOOLEAN, fresh : BOOLEAN, age : Nat]
UserView == [of : SUBSET Tenant, score : 0..100, at : Int]
Requests ==
    [st : {"idle", "running", "done", "error"}, page : Page, todo : Seq(StepName),
     fetching : BOOLEAN, job : Tenant \cup {"-"}, polls : 0..MaxPolls, clock : Nat,
     got : [Call -> SUBSET Tenant], feed : [Feed -> FeedView], users : UserView,
     calm : BOOLEAN, given : BOOLEAN]
TypeOK ==
    /\ file \in Tenant \cup {"none", "torn"} /\ saving \in Tenant \cup {"-"}
    /\ content \in Content /\ now \in 0..MaxNow
    /\ feeds \in [Feed -> [ts : Int, full : BOOLEAN, asof : Int]]
    /\ risk \in [ts : Int, of : SUBSET Tenant, score : 0..100]
    /\ req \in [Req -> Requests]
    /\ saw \in [Req -> SUBSET Tenant] /\ last \in [Tenant -> Nat]
    /\ edits \in 0..MaxEdits /\ faults \in 0..MaxFaults /\ pages \in 0..MaxPages

(* A change of tenant takes effect: a page may show the users of a tenant  *)
(* that was not configured at any time while it was put together only out  *)
(* of the five-minute cache, and only for that long after the last request *)
(* that began under that tenant was over (app.py:1987-2105; save_config    *)
(* clears no cache, and a request in flight stores what it read).          *)
OldTenantFades ==
    \A r \in Req : \A t \in req[r].users.of :
        t \in saw[r] \/ req[r].users.at - last[t] < RiskTTL

(* Incidents that could not be fetched are not shown as health: a green    *)
(* posture, and the summary's "within acceptable parameters", both need    *)
(* incidents that came in.  Every other part of the score does read a      *)
(* failed call as no risk (app.py:1287-1360, 1367-1495).                   *)
CalmNeedsIncidents ==
    \A r \in Req : req[r].calm => req[r].given

(* What the feed cache serves as current was fetched less than its         *)
(* lifetime before the page asked, whatever failures and slower fetches of *)
(* other requests came between (app.py:36-53).                             *)
FreshIsRecent ==
    \A r \in Req, f \in Feed :
        LET q == req[r].feed[f] IN q.fresh => q.age < FeedTTL

=============================================================================
