---------------------------- MODULE Dashboard_proofs ----------------------------
(***************************************************************************)
(* Proofs about Dashboard, for any clients, tenants, contents, lifetimes   *)
(* and bounds: what the two caches may serve, and what looks calm.         *)
(*                                                                         *)
(* The invariant says where data came from: what a request holds, its XQL  *)
(* job included, is of tenants it saw configured, no tenant in the risk    *)
(* cache was last seen before the entry was made, and no feed is older     *)
(* than its entry claims, as the time is read before the fetch.  Calm is   *)
(* arithmetic: without incidents the score stays below its threshold.      *)
(***************************************************************************)
EXTENDS Dashboard, SequenceTheorems, FiniteSetTheorems, TLAPS

LEMMA Plans == \A p \in Page : Plan[p] \in Seq(StepName)
<1> USE DEF StepName, Feed, Call, Post, XQL
<1>1. /\ ListPlan \in Seq(StepName) /\ DetailPlan \in Seq(StepName)
      /\ StatsPlan \in Seq(StepName) /\ SearchPlan \in Seq(StepName)
      /\ PerformancePlan \in Seq(StepName) /\ SourcesPlan \in Seq(StepName)
      /\ AlertsPlan \in Seq(StepName) /\ AlertPlan \in Seq(StepName)
      /\ CriticalPlan \in Seq(StepName)
  BY DEF ListPlan, DetailPlan, StatsPlan, SearchPlan, PerformancePlan, SourcesPlan,
     AlertsPlan, AlertPlan, CriticalPlan
<1>2. PosturePlan \in Seq(StepName) /\ SummaryPlan \in Seq(StepName)
  BY DEF PosturePlan, SummaryPlan
<1>3. VulnerabilityPlan \in Seq(StepName) /\ TacticsPlan \in Seq(StepName)
  BY DEF VulnerabilityPlan, TacticsPlan
<1>4. SurfacePlan \in Seq(StepName)
  BY DEF SurfacePlan
<1>5. ThreatPlan \in Seq(StepName) /\ QueryPlan \in Seq(StepName)
  BY DEF ThreatPlan, QueryPlan
<1>6. <<"risk">> \in Seq(StepName)
  OBVIOUS
<1>7. /\ Page = {"list", "detail", "stats", "search", "performance", "sources", "alerts", "alert", "critical",
              "posture", "summary", "users", "vulnerabilities", "surface", "tactics", "threats", "query"}
      /\ Plan["list"] = ListPlan /\ Plan["detail"] = DetailPlan
      /\ Plan["stats"] = StatsPlan /\ Plan["search"] = SearchPlan
      /\ Plan["performance"] = PerformancePlan /\ Plan["sources"] = SourcesPlan
      /\ Plan["alerts"] = AlertsPlan /\ Plan["alert"] = AlertPlan
      /\ Plan["critical"] = CriticalPlan /\ Plan["posture"] = PosturePlan
      /\ Plan["summary"] = SummaryPlan /\ Plan["users"] = <<"risk">>
      /\ Plan["vulnerabilities"] = VulnerabilityPlan /\ Plan["surface"] = SurfacePlan
      /\ Plan["tactics"] = TacticsPlan /\ Plan["threats"] = ThreatPlan
      /\ Plan["query"] = QueryPlan
  BY DEF Page, Plan
<1> QED
  BY <1>1, <1>2, <1>3, <1>4, <1>5, <1>6, <1>7

LEMMA Shorter ==
  ASSUME NEW q \in Requests, q.todo # <<>>
  PROVE  Next1(q) \in Requests
<1>1. Tail(q.todo) \in Seq(StepName)
  BY DEF Requests
<1>2. 0 \in 0..MaxPolls /\ FALSE \in BOOLEAN
  BY DashboardAssumption
<1> QED
  BY <1>1, <1>2 DEF Next1, Requests

LEMMA Blank ==
  /\ NoReq \in Requests /\ "-" \notin Tenant
  /\ \A p \in Page : [NoReq EXCEPT !.st = "error", !.page = p] \in Requests
<1>1. "summary" \in Page
  BY DEF Page, Plan
<1>2. <<>> \in Seq(StepName)
  OBVIOUS
<1>3. NoFeed \in FeedView
  BY DEF NoFeed, FeedView
<1>4. NoUsers \in UserView
  BY DEF NoUsers, UserView
<1>5. NoReq \in Requests
  BY <1>1, <1>2, <1>3, <1>4, DashboardAssumption DEF NoReq, Requests
<1> QED
  BY <1>5, DashboardAssumption DEF Requests

-----------------------------------------------------------------------------
(* What a request in progress may hold, given the tenants it saw (S), when *)
(* each tenant was last seen (L) and the time (n).                         *)
Fits(q, S, L, n) ==
    /\ q.clock <= n
    /\ \A c \in Call : q.got[c] \subseteq S
    /\ q.job # "-" => q.job \in S
    /\ \A f \in Feed : q.feed[f].fresh => q.feed[f].age < FeedTTL
    /\ \A t \in q.users.of : t \in S \/ q.users.at - L[t] < RiskTTL
Sound(r) == Fits(req[r], saw[r], last, now) /\ (~Running(r) => saw[r] = {})
Caches == /\ \A f \in Feed : feeds[f].ts >= 0 => feeds[f].asof >= feeds[f].ts
          /\ \A t \in risk.of : last[t] >= risk.ts
          /\ \A t \in Tenant : last[t] <= now
IInv == TypeOK /\ Caches /\ \A r \in Req : Sound(r)

LEMMA Later ==
  ASSUME NEW q \in Requests, NEW S, NEW S2, S \subseteq S2,
         NEW L \in [Tenant -> Nat], NEW L2 \in [Tenant -> Nat],
         \A t \in Tenant : L[t] <= L2[t],
         NEW n \in Nat, NEW n2 \in Nat, n <= n2, Fits(q, S, L, n)
  PROVE  Fits(q, S2, L2, n2)
<1>1. q.clock \in Nat /\ q.users.of \subseteq Tenant /\ q.users.at \in Int /\ RiskTTL \in Nat
  BY DashboardAssumption DEF Requests, UserView
<1>2. q.clock <= n2
  BY <1>1 DEF Fits
<1>3. \A t \in q.users.of : t \in S2 \/ q.users.at - L2[t] < RiskTTL
  BY <1>1 DEF Fits
<1> QED
  BY <1>2, <1>3 DEF Fits

LEMMA BlankFits ==
  ASSUME NEW q \in Requests, q.clock = 0, q.got = [c \in Call |-> {}], q.job = "-",
         q.feed = [f \in Feed |-> NoFeed], q.users = NoUsers,
         NEW S, NEW L, NEW n \in Nat
  PROVE  Fits(q, S, L, n)
BY DEF Fits, NoFeed, NoUsers

LEMMA InitInv == Init => IInv
<1> SUFFICES ASSUME Init PROVE IInv
  OBVIOUS
<1> USE DEF Init
<1>1. ASSUME NEW r \in Req PROVE req[r] \in Requests /\ Sound(r)
  <2>1. PICK p \in Page : req[r] = [NoReq EXCEPT !.page = p]
    BY DashboardAssumption
  <2>2. req[r] \in Requests
    BY <2>1, Blank DEF Requests
  <2>3. /\ req[r].clock = 0 /\ req[r].got = [c \in Call |-> {}] /\ req[r].job = "-"
        /\ req[r].feed = [f \in Feed |-> NoFeed] /\ req[r].users = NoUsers
    BY <2>1 DEF NoReq
  <2>4. now \in Nat
    OBVIOUS
  <2> QED
    BY <2>2, <2>3, <2>4, BlankFits DEF Sound
<1>2. req \in [Req -> Requests]
  BY <1>1
<1>3. TypeOK
  BY <1>2, DashboardAssumption DEF TypeOK
<1>4. Caches
  BY DEF Caches
<1> QED
  BY <1>1, <1>3, <1>4 DEF IInv

(* The history variables only grow while a request runs.                   *)
LEMMA Watched ==
  ASSUME IInv, Watch, file' \in Tenant \cup {"none", "torn"}, now' \in Nat, now <= now'
  PROVE  /\ saw' \in [Req -> SUBSET Tenant] /\ last' \in [Tenant -> Nat]
         /\ \A t \in Tenant : last[t] <= last'[t] /\ last'[t] <= now'
         /\ \A r \in Req : Running(r) /\ Running(r)' => saw[r] \subseteq saw'[r]
         /\ \A r \in Req : Running(r)' => Configured' \subseteq saw'[r]
         /\ \A r \in Req : ~Running(r)' => saw'[r] = {}
         /\ \A r \in Req, t \in Tenant : Running(r)' /\ t \in saw'[r] => last'[t] = now'
<1>1. saw \in [Req -> SUBSET Tenant] /\ last \in [Tenant -> Nat] /\ now \in Nat
  BY DEF IInv, TypeOK
<1>2. \A t \in Tenant : last[t] <= now
  BY DEF IInv, Caches
<1>3. Configured' \subseteq Tenant
  BY DashboardAssumption DEF Configured
<1>4. saw' = [r \in Req |-> IF ~Running(r)' THEN {}
                ELSE (IF Running(r) THEN saw[r] ELSE {}) \cup Configured']
  BY DEF Watch
<1>5. saw' \in [Req -> SUBSET Tenant]
  BY <1>1, <1>3, <1>4
<1>6. last' = [t \in Tenant |->
                IF t \in Configured' \/ \E r \in Req : Running(r)' /\ t \in saw'[r]
                THEN now' ELSE last[t]]
  BY DEF Watch
<1>7. last' \in [Tenant -> Nat] /\ \A t \in Tenant : last[t] <= last'[t] /\ last'[t] <= now'
  BY <1>1, <1>2, <1>6
<1>8. \A r \in Req, t \in Tenant : Running(r)' /\ t \in saw'[r] => last'[t] = now'
  BY <1>6
<1>9. \A r \in Req : Running(r) /\ Running(r)' => saw[r] \subseteq saw'[r]
  BY <1>4
<1>10. \A r \in Req : Running(r)' => Configured' \subseteq saw'[r]
  BY <1>4
<1>11. \A r \in Req : ~Running(r)' => saw'[r] = {}
  BY <1>4
<1> QED
  BY <1>5, <1>7, <1>8, <1>9, <1>10, <1>11

(* A request no step is about stays sound.                                 *)
LEMMA Others ==
  ASSUME IInv, Watch, file' \in Tenant \cup {"none", "torn"}, now' \in Nat, now <= now',
         NEW r \in Req, req'[r] = req[r]
  PROVE  Sound(r)'
<1>1. req[r] \in Requests /\ last \in [Tenant -> Nat] /\ now \in Nat /\ Sound(r)
  BY DEF IInv, TypeOK
<1>2. Running(r)' <=> Running(r)
  BY DEF Running
<1>3. saw[r] \subseteq saw'[r]
  BY <1>1, <1>2, Watched DEF Sound
<1>4. Fits(req[r], saw'[r], last', now')
  BY <1>1, <1>3, Watched, Later DEF Sound
<1> QED
  BY <1>4, Watched DEF Sound

(* The rest of the state.                                                  *)
Settings == /\ file \in Tenant \cup {"none", "torn"} /\ saving \in Tenant \cup {"-"}
            /\ content \in Content /\ now \in 0..MaxNow
            /\ edits \in 0..MaxEdits /\ faults \in 0..MaxFaults /\ pages \in 0..MaxPages
Stores == /\ feeds \in [Feed -> [ts : Int, full : BOOLEAN, asof : Int]]
          /\ risk \in [ts : Int, of : SUBSET Tenant, score : 0..100]

LEMMA TypeParts ==
  TypeOK <=> /\ Settings /\ Stores /\ req \in [Req -> Requests]
             /\ saw \in [Req -> SUBSET Tenant] /\ last \in [Tenant -> Nat]
BY DEF TypeOK, Settings, Stores

LEMMA NextSettings ==
  ASSUME IInv, Next
  PROVE  Settings' /\ now <= now' /\ now' \in Nat
<1>0. /\ Settings
      /\ MaxNow \in Nat /\ MaxEdits \in Nat /\ MaxFaults \in Nat /\ MaxPages \in Nat
  BY TypeParts, DashboardAssumption DEF IInv
<1>a. now \in Nat /\ (Settings' => now' \in Nat)
  BY <1>0 DEF Settings
<1> USE DEF Settings
<1>1. ASSUME NEW t \in Tenant, SaveOpen(t) PROVE Settings' /\ now <= now'
  BY <1>0, <1>a, <1>1 DEF SaveOpen
<1>2. ASSUME SaveWrite \/ Reset \/ Tick PROVE Settings' /\ now <= now'
  BY <1>0, <1>a, <1>2 DEF SaveWrite, Reset, Tick
<1>3. ASSUME NEW r \in Req, Begin(r) PROVE Settings' /\ now <= now'
  BY <1>0, <1>a, <1>3 DEF Begin
<1>4. ASSUME NEW r \in Req, Serve(r) PROVE Settings' /\ now <= now'
  <2>1. UNCHANGED <<file, saving, content, now, edits, pages>>
    BY <1>4 DEF Serve, Respond, Skip, Raise, Answer, StartJob, Poll, RiskHit, RiskMiss, RiskKeep,
       FeedHit, FeedMiss, FeedAnswer
  <2>2. ASSUME NEW ok \in BOOLEAN, Outcome(ok) PROVE faults' \in 0..MaxFaults
    BY <1>0, <2>2 DEF Outcome
  <2>3. ASSUME NEW b, Outcome(b) PROVE faults' \in 0..MaxFaults
    BY <1>0, <2>3 DEF Outcome
  <2>4. UNCHANGED faults => faults' \in 0..MaxFaults
    BY <1>0
  <2>5. faults' \in 0..MaxFaults
    BY <1>4, <2>2, <2>3, <2>4 DEF Serve, Respond, Skip, Raise, Answer, StartJob, Poll, RiskHit,
       RiskMiss, RiskKeep, FeedHit, FeedMiss, FeedAnswer
  <2> QED
    BY <1>0, <1>a, <2>1, <2>5
<1> QED
  BY <1>a, <1>1, <1>2, <1>3, <1>4 DEF Next

-----------------------------------------------------------------------------
(* A step of one request.                                                  *)
LEMMA OneMoves ==
  ASSUME IInv, Next, NEW r \in Req, NEW q \in Requests, req' = [req EXCEPT ![r] = q],
         Fits(q, saw'[r], last', now')
  PROVE  req' \in [Req -> Requests] /\ \A s \in Req : Sound(s)'
<1>1. req \in [Req -> Requests]
  BY DEF IInv, TypeOK
<1>2. Settings' /\ now' \in Nat /\ now <= now' /\ Watch
  BY NextSettings DEF Next
<1>3. req'[r] = q /\ \A s \in Req \ {r} : req'[s] = req[s]
  BY <1>1
<1>4. Sound(r)'
  BY <1>2, <1>3, Watched DEF Sound, Settings
<1>5. \A s \in Req \ {r} : Sound(s)'
  BY <1>2, <1>3, Others DEF Settings
<1> QED
  BY <1>1, <1>4, <1>5

(* While it runs on, it keeps what it had.                                 *)
LEMMA Keeps ==
  ASSUME IInv, Next, NEW r \in Req, Running(r), Running(r)'
  PROVE  Fits(req[r], saw'[r], last', now')
<1>1. Settings' /\ now' \in Nat /\ now <= now' /\ Watch /\ now \in Nat
  BY NextSettings DEF Next, IInv, TypeOK
<1>2. req[r] \in Requests /\ last \in [Tenant -> Nat] /\ Sound(r)
  BY DEF IInv, TypeOK
<1> QED
  BY <1>1, <1>2, Watched, Later DEF Sound, Settings

LEMMA NextFits ==
  ASSUME NEW q \in Requests, NEW S, NEW L, NEW n, Fits(q, S, L, n)
  PROVE  Fits(Next1(q), S, L, n)
BY DEF Fits, Next1, Requests

LEMMA CalmType == \A r : Calm(r) \in BOOLEAN
<1>1. \A r : Green(r) \in BOOLEAN
  BY DEF Green
<1>2. \A r : AllClear(r) \in BOOLEAN
  BY DEF AllClear
<1> QED
  BY <1>1, <1>2 DEF Calm

LEMMA CallSteps ==
  ASSUME IInv, Next, NEW r \in Req,
         Respond(r) \/ Skip(r) \/ Raise(r) \/ Answer(r) \/ StartJob(r) \/ Poll(r)
  PROVE  req' \in [Req -> Requests] /\ \A s \in Req : Sound(s)'
<1>0. /\ req \in [Req -> Requests] /\ req[r] \in Requests /\ Running(r)
      /\ now' \in Nat /\ Settings' /\ now <= now' /\ Watch
      /\ req[r].page \in Page
  <2>1. req \in [Req -> Requests]
    BY DEF IInv, TypeOK
  <2>2. Running(r)
    BY DEF Respond, Skip, Raise, Answer, StartJob, Poll, Sends, At
  <2> QED
    BY <2>1, <2>2, NextSettings DEF Next, Requests
<1> DEFINE Done == req' \in [Req -> Requests] /\ \A s \in Req : Sound(s)'
<1>a. ASSUME NEW q \in Requests, req' = [req EXCEPT ![r] = q], q.st = "running",
             Fits(req[r], saw'[r], last', now') => Fits(q, saw'[r], last', now')
      PROVE  Done
  <2>1. Running(r)'
    BY <1>0, <1>a DEF Running
  <2> QED
    BY <1>0, <1>a, <2>1, Keeps, OneMoves
<1>b. ASSUME req[r].todo # <<>>, NEW q \in Requests, req' = [req EXCEPT ![r] = Next1(q)],
             q.todo = req[r].todo, q.st = req[r].st,
             Fits(req[r], saw'[r], last', now') => Fits(q, saw'[r], last', now')
      PROVE  Done
  <2>1. Next1(q) \in Requests /\ Next1(q).st = "running"
    BY <1>0, <1>b, Shorter DEF Next1, Requests, Running
  <2> QED
    BY <1>a, <1>b, <2>1, NextFits
<1>c. file = file' /\ file # "torn" => Creds \in Tenant /\ (Running(r)' => Creds \in saw'[r])
  <2> SUFFICES ASSUME file = file', file # "torn"
               PROVE  Creds \in Tenant /\ (Running(r)' => Creds \in saw'[r])
    OBVIOUS
  <2>1. file \in Tenant \cup {"none"}
    BY DEF IInv, TypeOK
  <2>2. Creds \in Tenant /\ Creds \in Configured'
    BY <2>1, DashboardAssumption DEF Creds, Configured
  <2> QED
    BY <1>0, <2>2, Watched DEF Settings
<1>1. CASE Respond(r)
  <2> DEFINE q == [NoReq EXCEPT !.st = "done", !.page = req[r].page,
                                  !.calm = Calm(r), !.given = IncidentsOf(r) # <<>>]
  <2>1. req' = [req EXCEPT ![r] = q]
    BY <1>1 DEF Respond
  <2>2. Calm(r) \in BOOLEAN /\ (IncidentsOf(r) # <<>>) \in BOOLEAN
    BY CalmType
  <2>3. q \in Requests
    BY <1>0, <2>2, Blank DEF Requests
  <2>4. /\ q.clock = 0 /\ q.got = [c \in Call |-> {}] /\ q.job = "-"
        /\ q.feed = [f \in Feed |-> NoFeed] /\ q.users = NoUsers
    BY DEF NoReq
  <2> HIDE DEF q
  <2> QED
    BY <1>0, <2>1, <2>3, <2>4, BlankFits, OneMoves
<1>2. CASE Skip(r)
  BY <1>0, <1>2, <1>b DEF Skip, At
<1>3. CASE Raise(r)
  <2>1. CASE req[r].page \in Unguarded
    <3> DEFINE q == [NoReq EXCEPT !.st = "error", !.page = req[r].page]
    <3>1. req' = [req EXCEPT ![r] = q]
      BY <1>3, <2>1 DEF Raise
    <3>2. q \in Requests
      BY <1>0, Blank
    <3>3. /\ q.clock = 0 /\ q.got = [c \in Call |-> {}] /\ q.job = "-"
          /\ q.feed = [f \in Feed |-> NoFeed] /\ q.users = NoUsers
      BY DEF NoReq
    <3> HIDE DEF q
    <3> QED
      BY <1>0, <3>1, <3>2, <3>3, BlankFits, OneMoves
  <2>2. CASE req[r].page \notin Unguarded
    <3>1. req' = [req EXCEPT ![r] = Next1(req[r])] /\ req[r].todo # <<>>
      BY <1>3, <2>2 DEF Raise, At
    <3> QED
      BY <1>0, <1>b, <3>1
  <2> QED
    BY <2>1, <2>2
<1>4. CASE Answer(r)
  <2>1. PICK ok \in BOOLEAN :
          req' = [req EXCEPT ![r] =
                    Next1([req[r] EXCEPT !.got[Step(r)] = IF ok THEN {Creds} ELSE {}])]
    BY <1>4 DEF Answer
  <2> DEFINE g == IF ok THEN {Creds} ELSE {}
             q == [req[r] EXCEPT !.got[Step(r)] = g]
  <2>2. Step(r) \in Call /\ req[r].todo # <<>> /\ file = file' /\ file # "torn"
    BY <1>4 DEF Answer, Sends, At, Call
  <2>3. g \in SUBSET Tenant
    BY <1>c, <2>2
  <2>4. q \in Requests /\ q.todo = req[r].todo /\ q.st = req[r].st
    BY <1>0, <2>2, <2>3 DEF Requests
  <2>5. Next1(q).st = "running"
    BY <1>0, <2>4 DEF Next1, Requests, Running
  <2>6. req' = [req EXCEPT ![r] = Next1(q)]
    BY <2>1
  <2>7. Running(r)'
    BY <1>0, <2>5, <2>6 DEF Running
  <2>8. g \subseteq saw'[r]
    BY <1>c, <2>2, <2>7
  <2> HIDE DEF g
  <2>9. Fits(req[r], saw'[r], last', now') => Fits(q, saw'[r], last', now')
    BY <1>0, <2>2, <2>8 DEF Fits, Requests
  <2> HIDE DEF q
  <2> QED
    BY <1>b, <2>2, <2>4, <2>6, <2>9
<1>5. CASE StartJob(r)
  <2>1. PICK ok \in BOOLEAN :
          req' = [req EXCEPT ![r] = IF ok THEN [req[r] EXCEPT !.job = Creds] ELSE Next1(req[r])]
    BY <1>5 DEF StartJob
  <2>2. req[r].todo # <<>> /\ file = file' /\ file # "torn"
    BY <1>5 DEF StartJob, Sends, At
  <2>3. CASE ok
    <3> DEFINE q == [req[r] EXCEPT !.job = Creds]
    <3>1. q \in Requests /\ q.st = "running"
      BY <1>0, <1>c, <2>2 DEF Requests, Running
    <3>2. req' = [req EXCEPT ![r] = q]
      BY <2>1, <2>3
    <3>3. Running(r)'
      BY <1>0, <3>1, <3>2 DEF Running
    <3>4. Fits(req[r], saw'[r], last', now') => Fits(q, saw'[r], last', now')
      BY <1>0, <1>c, <2>2, <3>3 DEF Fits, Requests
    <3> HIDE DEF q
    <3> QED
      BY <1>a, <3>1, <3>2, <3>4
  <2>4. CASE ~ok
    BY <1>0, <1>b, <2>1, <2>2, <2>4
  <2> QED
    BY <2>3, <2>4
<1>6. CASE Poll(r)
  <2>1. PICK status \in {"success", "failed", "again"} :
          req' = [req EXCEPT ![r] =
                      IF status = "again" /\ req[r].polls + 1 < MaxPolls
                      THEN [req[r] EXCEPT !.polls = req[r].polls + 1]
                      ELSE Next1([req[r] EXCEPT !.got[Step(r)] =
                              IF status = "success" THEN {req[r].job} ELSE {}])]
    BY <1>6 DEF Poll
  <2>2. /\ Step(r) \in Call /\ req[r].todo # <<>> /\ req[r].job \in Tenant
        /\ req[r].polls \in 0..MaxPolls /\ MaxPolls \in Nat
    BY <1>0, <1>6, DashboardAssumption DEF Poll, Sends, At, Call, Requests
  <2>3. CASE status = "again" /\ req[r].polls + 1 < MaxPolls
    <3> DEFINE q == [req[r] EXCEPT !.polls = req[r].polls + 1]
    <3>1. req[r].polls + 1 \in 0..MaxPolls
      BY <2>2, <2>3
    <3>2. q \in Requests /\ q.st = "running"
      BY <1>0, <3>1 DEF Requests, Running
    <3>3. Fits(req[r], saw'[r], last', now') => Fits(q, saw'[r], last', now')
      BY <1>0 DEF Fits, Requests
    <3>4. req' = [req EXCEPT ![r] = q]
      BY <2>1, <2>3
    <3> HIDE DEF q
    <3> QED
      BY <1>a, <3>2, <3>3, <3>4
  <2>4. CASE ~(status = "again" /\ req[r].polls + 1 < MaxPolls)
    <3> DEFINE g == IF status = "success" THEN {req[r].job} ELSE {}
               q == [req[r] EXCEPT !.got[Step(r)] = g]
    <3>1. g \in SUBSET Tenant
      BY <2>2
    <3>2. q \in Requests /\ q.todo = req[r].todo /\ q.st = req[r].st
      BY <1>0, <2>2, <3>1 DEF Requests
    <3>3. req' = [req EXCEPT ![r] = Next1(q)]
      BY <2>1, <2>4
    <3>4. Fits(req[r], saw'[r], last', now') => g \subseteq saw'[r]
      BY <2>2, Blank DEF Fits
    <3> HIDE DEF g
    <3>5. Fits(req[r], saw'[r], last', now') => Fits(q, saw'[r], last', now')
      BY <1>0, <2>2, <3>4 DEF Fits, Requests
    <3> HIDE DEF q
    <3> QED
      BY <1>b, <2>2, <3>2, <3>3, <3>5
  <2> QED
    BY <2>3, <2>4
<1> QED
  BY <1>1, <1>2, <1>3, <1>4, <1>5, <1>6

LEMMA CacheSteps ==
  ASSUME IInv, Next, NEW r \in Req,
         RiskHit(r) \/ RiskMiss(r) \/ RiskKeep(r) \/ FeedHit(r) \/ FeedMiss(r) \/ FeedAnswer(r)
  PROVE  /\ req' \in [Req -> Requests] /\ \A s \in Req : Sound(s)'
         /\ Stores' /\ Caches'
<1>0. /\ req \in [Req -> Requests] /\ req[r] \in Requests /\ Running(r) /\ Sound(r)
      /\ now' \in Nat /\ Settings' /\ now <= now' /\ Watch /\ now \in Nat
      /\ req[r].todo # <<>>
  <2>1. req \in [Req -> Requests] /\ now \in Nat
    BY DEF IInv, TypeOK
  <2>2. Running(r) /\ req[r].todo # <<>>
    BY DEF RiskHit, RiskMiss, RiskKeep, FeedHit, FeedMiss, FeedAnswer, At
  <2> QED
    BY <2>1, <2>2, NextSettings DEF Next, IInv
<1>s. Stores /\ Caches /\ last \in [Tenant -> Nat]
  BY TypeParts DEF IInv
<1>t. /\ RiskTTL \in Nat \ {0} /\ FeedTTL \in Nat \ {0} /\ file' \in Tenant \cup {"none", "torn"}
      /\ now' = now
  BY <1>0, DashboardAssumption DEF Settings, RiskHit, RiskMiss, RiskKeep, FeedHit, FeedMiss, FeedAnswer
<1>w. /\ last' \in [Tenant -> Nat] /\ \A t \in Tenant : last[t] <= last'[t] /\ last'[t] <= now'
      /\ \A t \in Tenant : Running(r)' /\ t \in saw'[r] => last'[t] = now'
  BY <1>0, <1>t, Watched DEF IInv
<1>k. /\ UNCHANGED feeds => /\ feeds' \in [Feed -> [ts : Int, full : BOOLEAN, asof : Int]]
                            /\ \A f \in Feed : feeds'[f].ts >= 0 => feeds'[f].asof >= feeds'[f].ts
      /\ UNCHANGED risk => /\ risk' \in [ts : Int, of : SUBSET Tenant, score : 0..100]
                           /\ \A t \in risk'.of : last'[t] >= risk'.ts
      /\ \A t \in Tenant : last'[t] <= now'
  BY <1>s, <1>w DEF Stores, Caches
<1> DEFINE Done == req' \in [Req -> Requests] /\ \A s \in Req : Sound(s)'
<1>a. ASSUME NEW q \in Requests, req' = [req EXCEPT ![r] = q], q.st = "running",
             Fits(req[r], saw'[r], last', now') => Fits(q, saw'[r], last', now')
      PROVE  Done
  <2>1. Running(r)'
    BY <1>0, <1>a DEF Running
  <2> QED
    BY <1>0, <1>a, <2>1, Keeps, OneMoves
<1>b. ASSUME NEW q \in Requests, req' = [req EXCEPT ![r] = Next1(q)],
             q.todo = req[r].todo, q.st = req[r].st,
             Fits(req[r], saw'[r], last', now') => Fits(q, saw'[r], last', now')
      PROVE  Done
  <2>1. Next1(q) \in Requests /\ Next1(q).st = "running"
    BY <1>0, <1>b, Shorter DEF Next1, Requests, Running
  <2> QED
    BY <1>a, <1>b, <2>1, NextFits
<1>1. CASE RiskHit(r)
  <2> DEFINE u == Users(risk)
             q == [req[r] EXCEPT !.users = u]
  <2>1. u \in UserView /\ u.of = risk.of /\ u.at = now
    BY <1>0, <1>s DEF Stores, Users, UserView
  <2>2. req' = [req EXCEPT ![r] = Next1(q)] /\ RiskIsFresh /\ UNCHANGED <<feeds, risk>>
    BY <1>1 DEF RiskHit
  <2> HIDE DEF u
  <2>3. q \in Requests /\ q.todo = req[r].todo /\ q.st = req[r].st
    BY <1>0, <2>1 DEF Requests
  <2>4. ASSUME NEW t \in u.of PROVE u.at - last'[t] < RiskTTL
    <3>1. t \in Tenant /\ last'[t] >= risk.ts /\ now - risk.ts < RiskTTL /\ risk.ts \in Int
      BY <1>k, <1>s, <2>1, <2>2 DEF RiskIsFresh, Stores
    <3> QED
      BY <1>0, <1>t, <1>w, <2>1, <3>1
  <2>5. Fits(req[r], saw'[r], last', now') => Fits(q, saw'[r], last', now')
    BY <1>0, <2>4 DEF Fits, Requests
  <2> HIDE DEF q
  <2>6. Done
    BY <1>b, <2>2, <2>3, <2>5
  <2> QED
    BY <1>k, <2>2, <2>6 DEF Stores, Caches
<1>2. CASE RiskMiss(r)
  <2> DEFINE todo == <<"risk_alerts", "uploads", "keep">> \o Tail(req[r].todo)
             q == [req[r] EXCEPT !.todo = todo]
  <2>1. req' = [req EXCEPT ![r] = q] /\ UNCHANGED <<feeds, risk>>
    BY <1>0, <1>2 DEF RiskMiss
  <2>2. todo \in Seq(StepName)
    <3>1. <<"risk_alerts", "uploads", "keep">> \in Seq(StepName)
      BY DEF StepName, Call, Post, XQL
    <3>2. Tail(req[r].todo) \in Seq(StepName)
      BY <1>0 DEF Requests
    <3> QED
      BY <3>1, <3>2
  <2> HIDE DEF todo
  <2>3. q \in Requests /\ q.st = "running"
    BY <1>0, <2>2 DEF Requests, Running
  <2>4. Fits(req[r], saw'[r], last', now') => Fits(q, saw'[r], last', now')
    BY <1>0 DEF Fits, Requests
  <2> HIDE DEF q
  <2>5. Done
    BY <1>a, <2>1, <2>3, <2>4
  <2> QED
    BY <1>k, <2>1, <2>5 DEF Stores, Caches
<1>3. CASE RiskKeep(r)
  <2> DEFINE score == Of(r, "risk_alerts", "risk", 0) + Of(r, "uploads", "bulk", 0)
             of == req[r].got["risk_alerts"] \cup req[r].got["uploads"]
             built == [ts |-> now, of |-> of, score |-> IF score > 100 THEN 100 ELSE score]
             u == Users(built)
             q == [req[r] EXCEPT !.users = u, !.got["risk_alerts"] = {}, !.got["uploads"] = {}]
  <2>1. req' = [req EXCEPT ![r] = Next1(q)] /\ risk' = built /\ UNCHANGED feeds
    BY <1>3 DEF RiskKeep
  <2>2. "risk_alerts" \in Call /\ "uploads" \in Call
    BY DEF Call, Post, XQL
  <2>3. of \subseteq Tenant
    BY <1>0, <2>2 DEF Requests
  <2>4. score \in Nat
    <3>1. content \in Content
      BY DEF IInv, TypeOK
    <3>2. Of(r, "risk_alerts", "risk", 0) \in Nat
      BY <1>0, <2>2, <3>1, ContentAssumption DEF Of, Requests
    <3>3. Of(r, "uploads", "bulk", 0) \in Nat
      BY <1>0, <2>2, <3>1, ContentAssumption DEF Of, Requests
    <3> QED
      BY <3>2, <3>3
  <2> HIDE DEF score
  <2>5. built \in [ts : Int, of : SUBSET Tenant, score : 0..100]
    BY <1>0, <2>3, <2>4
  <2>6. u \in UserView /\ u.of = of
    BY <1>0, <2>5 DEF Users, UserView
  <2>7. Running(r)'
    BY <1>0, <2>1 DEF Running, Next1, Requests
  <2>8. of \subseteq saw'[r]
    <3>1. Fits(req[r], saw'[r], last', now')
      BY <1>0, <2>7, Keeps
    <3> QED
      BY <2>2, <3>1 DEF Fits
  <2>9. \A t \in risk'.of : last'[t] >= risk'.ts
    BY <1>0, <1>t, <1>w, <2>1, <2>3, <2>7, <2>8
  <2> HIDE DEF u, of
  <2>10. q \in Requests /\ q.todo = req[r].todo /\ q.st = req[r].st
    BY <1>0, <2>2, <2>6 DEF Requests
  <2>11. Fits(req[r], saw'[r], last', now') => Fits(q, saw'[r], last', now')
    <3>1. \A c \in Call : q.got[c] = {} \/ q.got[c] = req[r].got[c]
      BY <1>0, <2>2 DEF Requests
    <3>2. /\ q.clock = req[r].clock /\ q.job = req[r].job /\ q.feed = req[r].feed
          /\ q.users = u
      BY <1>0 DEF Requests
    <3> HIDE DEF q
    <3> QED
      BY <2>6, <2>8, <3>1, <3>2 DEF Fits
  <2> HIDE DEF q
  <2>12. Done
    BY <1>b, <2>1, <2>10, <2>11
  <2> QED
    BY <1>k, <2>1, <2>5, <2>9, <2>12 DEF Stores, Caches
<1>4. CASE FeedHit(r)
  <2> DEFINE f == Step(r)
             v == Served(feeds[f], TRUE, now)
             q == [req[r] EXCEPT !.feed[f] = v]
  <2>1. /\ req' = [req EXCEPT ![r] = Next1(q)] /\ f \in Feed /\ FeedIsFresh(f)
        /\ UNCHANGED <<feeds, risk>>
    BY <1>4 DEF FeedHit, At
  <2> HIDE DEF f
  <2>2. v \in FeedView /\ (v.fresh => v.age < FeedTTL)
    <3>1. feeds[f] \in [ts : Int, full : BOOLEAN, asof : Int] /\ feeds[f].asof >= feeds[f].ts
          /\ now - feeds[f].ts < FeedTTL
      BY <1>s, <2>1 DEF Stores, Caches, FeedIsFresh
    <3>2. AtLeast0(now - feeds[f].asof) \in Nat /\ AtLeast0(now - feeds[f].asof) < FeedTTL
      BY <1>0, <1>t, <3>1 DEF AtLeast0
    <3> QED
      BY <3>1, <3>2 DEF Served, FeedView
  <2> HIDE DEF v
  <2>3. q \in Requests /\ q.todo = req[r].todo /\ q.st = req[r].st
    BY <1>0, <2>1, <2>2 DEF Requests
  <2>4. Fits(req[r], saw'[r], last', now') => Fits(q, saw'[r], last', now')
    BY <1>0, <2>1, <2>2 DEF Fits, Requests
  <2> HIDE DEF q
  <2>5. Done
    BY <1>b, <2>1, <2>3, <2>4
  <2> QED
    BY <1>k, <2>1, <2>5 DEF Stores, Caches
<1>5. CASE FeedMiss(r)
  <2> DEFINE q == [req[r] EXCEPT !.fetching = TRUE, !.clock = now]
  <2>1. req' = [req EXCEPT ![r] = q] /\ UNCHANGED <<feeds, risk>>
    BY <1>0, <1>5 DEF FeedMiss
  <2>2. q \in Requests /\ q.st = "running"
    BY <1>0 DEF Requests, Running
  <2>3. Fits(req[r], saw'[r], last', now') => Fits(q, saw'[r], last', now')
    BY <1>0, <1>t DEF Fits, Requests
  <2> HIDE DEF q
  <2>4. Done
    BY <1>a, <2>1, <2>2, <2>3
  <2> QED
    BY <1>k, <2>1, <2>4 DEF Stores, Caches
<1>6. CASE FeedAnswer(r)
  <2> DEFINE f == Step(r)
  <2>1. PICK ok \in BOOLEAN :
          LET kept == ok \/ f \in Swallowing
              entry == IF kept THEN Entry(r, ok) ELSE feeds[f]
          IN /\ feeds' = [feeds EXCEPT ![f] = entry]
             /\ req' = [req EXCEPT ![r] = Next1([req[r] EXCEPT !.feed[f] =
                             Served(entry, kept, req[r].clock)])]
    BY <1>6 DEF FeedAnswer
  <2> DEFINE kept == ok \/ f \in Swallowing
             entry == IF kept THEN Entry(r, ok) ELSE feeds[f]
             v == Served(entry, kept, req[r].clock)
             q == [req[r] EXCEPT !.feed[f] = v]
  <2>2. /\ f \in Feed /\ UNCHANGED risk /\ feeds' = [feeds EXCEPT ![f] = entry]
        /\ req' = [req EXCEPT ![r] = Next1(q)]
    BY <1>6, <2>1 DEF FeedAnswer, At
  <2> HIDE DEF f
  <2>3. kept \in BOOLEAN /\ req[r].clock \in Nat /\ req[r].clock <= now
    BY <1>0 DEF Requests, Sound, Fits
  <2>4. /\ entry \in [ts : Int, full : BOOLEAN, asof : Int]
        /\ entry.ts >= 0 => entry.asof >= entry.ts
        /\ kept => entry.asof = now
    BY <1>0, <1>s, <2>2, <2>3 DEF Entry, Stores, Caches
  <2> HIDE DEF kept, entry
  <2>5. v \in FeedView /\ (v.fresh => v.age < FeedTTL)
    <3>1. AtLeast0(req[r].clock - entry.asof) \in Nat
      BY <2>3, <2>4 DEF AtLeast0
    <3>2. kept => AtLeast0(req[r].clock - entry.asof) = 0
      BY <1>0, <2>3, <2>4 DEF AtLeast0
    <3> QED
      BY <1>t, <2>3, <2>4, <3>1, <3>2 DEF Served, FeedView
  <2> HIDE DEF v
  <2>6. q \in Requests /\ q.todo = req[r].todo /\ q.st = req[r].st
    BY <1>0, <2>2, <2>5 DEF Requests
  <2>7. Fits(req[r], saw'[r], last', now') => Fits(q, saw'[r], last', now')
    BY <1>0, <2>2, <2>5 DEF Fits, Requests
  <2> HIDE DEF q
  <2>8. Done
    BY <1>b, <2>2, <2>6, <2>7
  <2>9. /\ feeds' \in [Feed -> [ts : Int, full : BOOLEAN, asof : Int]]
        /\ \A g \in Feed : feeds'[g].ts >= 0 => feeds'[g].asof >= feeds'[g].ts
    BY <1>s, <2>2, <2>4 DEF Stores, Caches
  <2> QED
    BY <1>k, <2>2, <2>8, <2>9 DEF Stores, Caches
<1> QED
  BY <1>1, <1>2, <1>3, <1>4, <1>5, <1>6

LEMMA NextInv == IInv /\ [Next]_vars => IInv'
<1> SUFFICES ASSUME IInv, [Next]_vars PROVE IInv'
  OBVIOUS
<1>1. CASE Next
  <2>0. /\ Settings' /\ now <= now' /\ now' \in Nat /\ Watch
        /\ file' \in Tenant \cup {"none", "torn"}
    BY <1>1, NextSettings DEF Next, Settings
  <2>w. /\ saw' \in [Req -> SUBSET Tenant] /\ last' \in [Tenant -> Nat]
        /\ \A t \in Tenant : last[t] <= last'[t] /\ last'[t] <= now'
    BY <2>0, Watched
  <2>s. Stores /\ Caches /\ last \in [Tenant -> Nat] /\ req \in [Req -> Requests]
    BY TypeParts DEF IInv
  <2>k. UNCHANGED <<feeds, risk>> => Stores' /\ Caches'
    BY <2>s, <2>w DEF Stores, Caches
  <2> DEFINE Done == /\ req' \in [Req -> Requests] /\ \A s \in Req : Sound(s)'
                     /\ Stores' /\ Caches'
  <2>1. ASSUME UNCHANGED <<req, feeds, risk>> PROVE Done
    <3>1. \A s \in Req : Sound(s)'
      BY <2>0, <2>1, Others
    <3> QED
      BY <2>1, <2>k, <2>s, <3>1
  <2>2. ASSUME NEW t \in Tenant, SaveOpen(t) PROVE Done
    BY <2>1, <2>2 DEF SaveOpen
  <2>3. ASSUME SaveWrite \/ Reset \/ Tick PROVE Done
    BY <2>1, <2>3 DEF SaveWrite, Reset, Tick
  <2>4. ASSUME NEW r \in Req, Begin(r) PROVE Done
    <3> DEFINE q == [NoReq EXCEPT !.st = "running", !.page = req[r].page,
                                  !.todo = Plan[req[r].page]]
    <3>1. req' = [req EXCEPT ![r] = q] /\ UNCHANGED <<feeds, risk>>
      BY <2>4 DEF Begin
    <3>2. q \in Requests
      BY <2>s, Blank, Plans DEF Requests
    <3>3. /\ q.clock = 0 /\ q.got = [c \in Call |-> {}] /\ q.job = "-"
          /\ q.feed = [f \in Feed |-> NoFeed] /\ q.users = NoUsers
      BY DEF NoReq
    <3> HIDE DEF q
    <3>4. req' \in [Req -> Requests] /\ \A s \in Req : Sound(s)'
      BY <1>1, <2>0, <3>1, <3>2, <3>3, BlankFits, OneMoves
    <3> QED
      BY <2>k, <3>1, <3>4
  <2>5. ASSUME NEW r \in Req, Serve(r) PROVE Done
    <3>1. CASE Respond(r) \/ Skip(r) \/ Raise(r) \/ Answer(r) \/ StartJob(r) \/ Poll(r)
      <4>1. UNCHANGED <<feeds, risk>>
        BY <3>1 DEF Respond, Skip, Raise, Answer, StartJob, Poll
      <4> QED
        BY <1>1, <2>k, <3>1, <4>1, CallSteps
    <3>2. CASE \/ RiskHit(r) \/ RiskMiss(r) \/ RiskKeep(r)
               \/ FeedHit(r) \/ FeedMiss(r) \/ FeedAnswer(r)
      BY <1>1, <3>2, CacheSteps
    <3> QED
      BY <2>5, <3>1, <3>2 DEF Serve
  <2> HIDE DEF Done
  <2>6. Done
    BY <1>1, <2>2, <2>3, <2>4, <2>5 DEF Next
  <2>7. TypeOK'
    BY <2>0, <2>w, <2>6 DEF Done, TypeOK, Settings, Stores
  <2> QED
    BY <2>6, <2>7 DEF Done, IInv
<1>2. CASE UNCHANGED vars
  BY <1>2 DEF vars, IInv, TypeOK, Caches, Sound, Fits, Running
<1> QED
  BY <1>1, <1>2

(* The file, the caches and the requests of app.py keep their types.       *)
THEOREM TypeCorrect == Spec => []TypeOK
<1>1. IInv => TypeOK
  BY DEF IInv
<1> QED
  BY <1>1, InitInv, NextInv, PTL DEF Spec

(* Users of a tenant that was not configured while a page was put together *)
(* are shown only out of the cache, and only for its lifetime.             *)
THEOREM FadesCorrect == Spec => []OldTenantFades
<1>1. IInv => OldTenantFades
  BY DEF IInv, Sound, Fits, OldTenantFades
<1> QED
  BY <1>1, InitInv, NextInv, PTL DEF Spec

(* What the feed cache serves as current is younger than its lifetime.     *)
THEOREM FreshCorrect == Spec => []FreshIsRecent
<1>1. IInv => FreshIsRecent
  BY DEF IInv, Sound, Fits, FreshIsRecent
<1> QED
  BY <1>1, InitInv, NextInv, PTL DEF Spec

-----------------------------------------------------------------------------
(* What looks calm.  Without incidents the summary's share of incidents    *)
(* within their limit is 0; and the posture's first component is 25 at     *)
(* most, its fourth 80, which holds the whole below 80 whatever the others *)
(* are.                                                                    *)
LEMMA NoneCounted == ASSUME NEW P(_) PROVE Count(<<>>, P) = 0
<1>1. Indices(<<>>, P) = {}
  BY DEF Indices
<1> QED
  BY <1>1, FS_EmptySet DEF Count

LEMMA Halves ==
  ASSUME NEW n \in Int
  PROVE  Round(n, 2) \in Int /\ 2 * Round(n, 2) <= n + 1
BY DEF Round

LEMMA Hundredths ==
  ASSUME NEW n \in Int, n <= 7900
  PROVE  Round(n, 100) <= 79
BY DEF Round

LEMMA NothingShown ==
  /\ Percent(0, 0) = 0 /\ \A else : CalculateSla(<<>>, else) = else
  /\ CalculateMttd(<<>>) = 0 /\ CalculateMttr(<<>>) = 0
<1>1. Percent(0, 0) = 0
  BY DEF Percent
<1>2. /\ Count(<<>>, PassesSla) = 0 /\ Count(<<>>, Limited) = 0
      /\ Count(<<>>, Noticed) = 0 /\ Count(<<>>, Mended) = 0
  BY NoneCounted
<1> QED
  BY <1>1, <1>2 DEF CalculateSla, CalculateMttd, CalculateMttr

LEMMA NotClear ==
  ASSUME NEW r \in Req, IncidentsOf(r) = <<>>
  PROVE  ~AllClear(r)
BY NothingShown DEF AllClear

LEMMA Figures ==
  ASSUME TypeOK, NEW r \in Req
  PROVE  /\ Of(r, "alerts", "critical", 0) \in Nat /\ Of(r, "alerts", "high", 0) \in Nat
         /\ Of(r, "endpoints", "connected", 50) \in 0..100
<1>1. content \in Content /\ req[r].got \in [Call -> SUBSET Tenant]
  BY DEF TypeOK, Requests
<1>2. \A step \in Call : req[r].got[step] # {} =>
        (CHOOSE u \in req[r].got[step] : TRUE) \in Tenant
  BY <1>1
<1>3. "alerts" \in Call /\ "endpoints" \in Call
  BY DEF Call, Post
<1> QED
  BY <1>1, <1>2, <1>3, ContentAssumption DEF Of

LEMMA NotGreen ==
  ASSUME TypeOK, NEW r \in Req, IncidentsOf(r) = <<>>
  PROVE  ~Green(r)
<1> DEFINE s == IncidentsOf(r)
           c1 == Round(Percent(Count(s, Resolved), Len(s)) + CalculateSla(s, 50), 2)
           c2 == AtLeast0(100 - 8 * Of(r, "alerts", "critical", 0) - 3 * Of(r, "alerts", "high", 0))
           c3 == Of(r, "endpoints", "connected", 50)
           c4 == Round(MttdScore(CalculateMttd(s)) + MttrScore(CalculateMttr(s)), 2)
           c5 == AtLeast0(100 - 20 * Count(s, ActiveCritical) - 10 * Count(s, IsSlaBreached))
           c6 == 100 - req[r].users.score
<1>1. c1 \in Int /\ c1 <= 25
  <2>1. Percent(Count(s, Resolved), Len(s)) = 0 /\ CalculateSla(s, 50) = 50
    <3>1. Count(<<>>, Resolved) = 0 /\ Len(<<>>) = 0
      BY NoneCounted
    <3> QED
      BY <3>1, NothingShown
  <2>2. c1 = Round(50, 2)
    BY <2>1
  <2> HIDE DEF c1
  <2> QED
    BY <2>2, Halves
<1>2. c2 \in Int /\ c2 <= 100
  BY Figures DEF AtLeast0
<1>3. c3 \in Int /\ c3 <= 100
  <2>1. c3 \in 0..100
    BY Figures
  <2> HIDE DEF c3
  <2> QED
    BY <2>1
<1>4. c4 \in Int /\ c4 <= 80
  <2>1. MttdScore(CalculateMttd(s)) = 80 /\ MttrScore(CalculateMttr(s)) = 80
    BY NothingShown DEF MttdScore, MttrScore
  <2>2. c4 = Round(160, 2)
    BY <2>1
  <2> HIDE DEF c4
  <2> QED
    BY <2>2, Halves
<1>5. c5 \in Int /\ c5 <= 100
  <2>1. Count(<<>>, ActiveCritical) = 0 /\ Count(<<>>, IsSlaBreached) = 0
    BY NoneCounted
  <2> QED
    BY <2>1 DEF AtLeast0
<1>6. c6 \in Int /\ c6 <= 100
  <2>1. req[r] \in Requests
    BY DEF TypeOK
  <2>2. req[r].users.score \in 0..100
    BY <2>1 DEF Requests, UserView
  <2>3. \A n \in 0..100 : 100 - n \in Int /\ 100 - n <= 100
    OBVIOUS
  <2> QED
    BY <2>2, <2>3
<1>7. PostureScore(r) = Round(25 * c1 + 20 * c2 + 15 * c3 + 15 * c4 + 10 * c5 + 15 * c6, 100)
  BY DEF PostureScore
<1> HIDE DEF c1, c2, c3, c4, c5, c6
<1> DEFINE total == 25 * c1 + 20 * c2 + 15 * c3 + 15 * c4 + 10 * c5 + 15 * c6
<1>8. total \in Int /\ total <= 7900
  BY <1>1, <1>2, <1>3, <1>4, <1>5, <1>6
<1>9. Round(total, 100) <= 79 /\ Round(total, 100) \in Int
  <2> HIDE DEF total
  <2> QED
    BY <1>8, Hundredths DEF Round
<1> HIDE DEF total
<1> QED
  BY <1>7, <1>9 DEF Green, total

LEMMA CalmGiven ==
  ASSUME TypeOK, NEW r \in Req, Calm(r)
  PROVE  IncidentsOf(r) # <<>>
BY NotClear, NotGreen DEF Calm

(* Every other step leaves a request's verdict, or drops it.               *)
LEMMA Judged ==
  ASSUME TypeOK, CalmNeedsIncidents, NEW r \in Req, Begin(r) \/ Serve(r)
  PROVE  CalmNeedsIncidents'
<1>0. /\ req \in [Req -> Requests] /\ req[r] \in Requests /\ ~NoReq.calm
      /\ req[r].calm => req[r].given
  BY DEF TypeOK, NoReq, CalmNeedsIncidents
<1>a. ASSUME NEW q, req' = [req EXCEPT ![r] = q], q.calm => q.given
      PROVE  CalmNeedsIncidents'
  BY <1>0, <1>a DEF CalmNeedsIncidents
<1>b. ASSUME NEW q, req' = [req EXCEPT ![r] = q], q.calm = req[r].calm, q.given = req[r].given
      PROVE  CalmNeedsIncidents'
  BY <1>0, <1>a, <1>b
<1> DEFINE Kept(q) == q.calm = req[r].calm /\ q.given = req[r].given
<1>c. ASSUME NEW v
      PROVE  /\ Kept(Next1(req[r])) /\ Kept(Next1([req[r] EXCEPT !.users = v]))
             /\ Kept(Next1([req[r] EXCEPT !.users = v, !.got["risk_alerts"] = {}, !.got["uploads"] = {}]))
             /\ Kept([req[r] EXCEPT !.job = v]) /\ Kept([req[r] EXCEPT !.polls = v])
             /\ Kept([req[r] EXCEPT !.todo = v]) /\ Kept([req[r] EXCEPT !.fetching = TRUE, !.clock = v])
  BY <1>0 DEF Next1, Requests
<1>1. CASE Begin(r)
  <2> DEFINE q == [NoReq EXCEPT !.st = "running", !.page = req[r].page, !.todo = Plan[req[r].page]]
  <2>1. req' = [req EXCEPT ![r] = q] /\ ~q.calm
    BY <1>1 DEF Begin, NoReq
  <2> QED
    BY <1>a, <2>1
<1>2. CASE Respond(r)
  <2> DEFINE q == [NoReq EXCEPT !.st = "done", !.page = req[r].page,
                                !.calm = Calm(r), !.given = IncidentsOf(r) # <<>>]
  <2>1. req' = [req EXCEPT ![r] = q]
    BY <1>2 DEF Respond
  <2>2. q.calm = Calm(r) /\ q.given = (IncidentsOf(r) # <<>>)
    BY DEF NoReq
  <2> HIDE DEF q
  <2> QED
    BY <1>a, <2>1, <2>2, CalmGiven
<1>3. CASE Skip(r)
  <2>1. req' = [req EXCEPT ![r] = Next1(req[r])]
    BY <1>3 DEF Skip
  <2> QED
    BY <1>b, <1>c, <2>1
<1>4. CASE Raise(r)
  <2> DEFINE q == [NoReq EXCEPT !.st = "error", !.page = req[r].page]
  <2>1. req' = [req EXCEPT ![r] = q] \/ req' = [req EXCEPT ![r] = Next1(req[r])]
    BY <1>4 DEF Raise
  <2>2. ~q.calm
    BY DEF NoReq
  <2> HIDE DEF q
  <2> QED
    BY <1>a, <1>b, <1>c, <2>1, <2>2
<1>5. CASE Answer(r)
  <2>1. \E v : req' = [req EXCEPT ![r] = Next1([req[r] EXCEPT !.got[Step(r)] = v])]
    BY <1>5 DEF Answer
  <2>2. PICK step, v : req' = [req EXCEPT ![r] = Next1([req[r] EXCEPT !.got[step] = v])]
    BY <2>1
  <2>3. Kept(Next1([req[r] EXCEPT !.got[step] = v]))
    BY <1>0 DEF Next1, Requests
  <2> QED
    BY <1>b, <2>2, <2>3
<1>6. CASE StartJob(r)
  <2>1. \/ req' = [req EXCEPT ![r] = [req[r] EXCEPT !.job = Creds]]
        \/ req' = [req EXCEPT ![r] = Next1(req[r])]
    BY <1>6 DEF StartJob
  <2> QED
    BY <1>b, <1>c, <2>1
<1>7. CASE Poll(r)
  <2>1. \E v : \/ req' = [req EXCEPT ![r] = [req[r] EXCEPT !.polls = v]]
               \/ req' = [req EXCEPT ![r] = Next1([req[r] EXCEPT !.got[Step(r)] = v])]
    BY <1>7 DEF Poll
  <2>2. PICK step, v : \/ req' = [req EXCEPT ![r] = [req[r] EXCEPT !.polls = v]]
                       \/ req' = [req EXCEPT ![r] = Next1([req[r] EXCEPT !.got[step] = v])]
    BY <2>1
  <2>3. /\ Kept([req[r] EXCEPT !.polls = v])
        /\ Kept(Next1([req[r] EXCEPT !.got[step] = v]))
    BY <1>0 DEF Next1, Requests
  <2> QED
    BY <1>b, <2>2, <2>3
<1>8. CASE RiskHit(r)
  <2>1. req' = [req EXCEPT ![r] = Next1([req[r] EXCEPT !.users = Users(risk)])]
    BY <1>8 DEF RiskHit
  <2> QED
    BY <1>b, <1>c, <2>1
<1>9. CASE RiskMiss(r)
  <2>1. PICK v : req' = [req EXCEPT ![r] = [req[r] EXCEPT !.todo = v]]
    <3>1. req' = [req EXCEPT ![r] = [req[r] EXCEPT !.todo =
                    <<"risk_alerts", "uploads", "keep">> \o Tail(req[r].todo)]]
      BY <1>9 DEF RiskMiss
    <3> QED
      BY <3>1
  <2> QED
    BY <1>b, <1>c, <2>1
<1>10. CASE RiskKeep(r)
  <2>1. PICK v : req' = [req EXCEPT ![r] = Next1([req[r] EXCEPT !.users = v,
                           !.got["risk_alerts"] = {}, !.got["uploads"] = {}])]
    BY <1>10 DEF RiskKeep
  <2> QED
    BY <1>b, <1>c, <2>1
<1>11. CASE FeedHit(r)
  <2>1. \E v : req' = [req EXCEPT ![r] = Next1([req[r] EXCEPT !.feed[Step(r)] = v])]
    BY <1>11 DEF FeedHit
  <2>2. PICK step, v : req' = [req EXCEPT ![r] = Next1([req[r] EXCEPT !.feed[step] = v])]
    BY <2>1
  <2>3. Kept(Next1([req[r] EXCEPT !.feed[step] = v]))
    BY <1>0 DEF Next1, Requests
  <2> QED
    BY <1>b, <2>2, <2>3
<1>12. CASE FeedMiss(r)
  <2>1. req' = [req EXCEPT ![r] = [req[r] EXCEPT !.fetching = TRUE, !.clock = now]]
    BY <1>0, <1>12 DEF FeedMiss
  <2> QED
    BY <1>b, <1>c, <2>1
<1>13. CASE FeedAnswer(r)
  <2>1. \E v : req' = [req EXCEPT ![r] = Next1([req[r] EXCEPT !.feed[Step(r)] = v])]
    BY <1>13 DEF FeedAnswer
  <2>2. PICK step, v : req' = [req EXCEPT ![r] = Next1([req[r] EXCEPT !.feed[step] = v])]
    BY <2>1
  <2>3. Kept(Next1([req[r] EXCEPT !.feed[step] = v]))
    BY <1>0 DEF Next1, Requests
  <2> QED
    BY <1>b, <2>2, <2>3
<1> QED
  BY <1>1, <1>2, <1>3, <1>4, <1>5, <1>6, <1>7, <1>8, <1>9, <1>10, <1>11, <1>12, <1>13 DEF Serve

(* A green posture and the summary's all-clear rest on incidents that were *)
(* fetched, whatever the tenants hold and whichever calls fail.            *)
THEOREM CalmCorrect == Spec => []CalmNeedsIncidents
<1>1. Init => CalmNeedsIncidents
  <2> SUFFICES ASSUME Init, NEW r \in Req PROVE ~req[r].calm
    BY DEF CalmNeedsIncidents
  <2> QED
    BY DashboardAssumption DEF Init, NoReq
<1>2. ASSUME IInv, CalmNeedsIncidents, [Next]_vars PROVE CalmNeedsIncidents'
  <2>1. ASSUME UNCHANGED req PROVE CalmNeedsIncidents'
    BY <1>2, <2>1 DEF CalmNeedsIncidents
  <2>2. ASSUME NEW r \in Req, Begin(r) \/ Serve(r) PROVE CalmNeedsIncidents'
    BY <1>2, <2>2, Judged DEF IInv
  <2>3. ASSUME NEW t \in Tenant, SaveOpen(t) PROVE UNCHANGED req
    BY <2>3 DEF SaveOpen
  <2>4. SaveWrite \/ Reset \/ Tick \/ UNCHANGED vars => UNCHANGED req
    BY DEF SaveWrite, Reset, Tick, vars
  <2> QED
    BY <1>2, <2>1, <2>2, <2>3, <2>4 DEF Next
<1> QED
  BY <1>1, <1>2, InitInv, NextInv, PTL DEF Spec

=============================================================================
