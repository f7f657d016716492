----------------------- MODULE AutomationService_proofs ------------------------
(***************************************************************************)
(* Proofs about the automation service, for any workflows, graphs,         *)
(* executions and bounds.                                                  *)
(*                                                                         *)
(* First Automations, the API and the three starters: types, that a graph  *)
(* is one save's, that a run is of one graph, and that a workflow nobody   *)
(* wants started does not start.  The argument is about each open          *)
(* transaction (Regular): what it still has to do, that it has written the *)
(* row it changes, and that what it has read or taken away is whole unless *)
(* another transaction was committed meanwhile; two of them do not hold    *)
(* the same row (Apart), and what is committed is whole or remembered as   *)
(* mixed (Whole).                                                          *)
(*                                                                         *)
(* Then Playbook: types, what a dry run carries out, what is carried out   *)
(* twice and how deep sub-workflows go.  The invariant (Walked) is about   *)
(* every walk on the stack at once, as a sub-workflow adds one on top and  *)
(* hands the rest back when it ends: each remembers the calls of its own   *)
(* execution (Recalls), its depth (Deep) and, without a context, that it   *)
(* has not left the nodes it began with (Unsaved); no two walks are of one *)
(* execution; and a row that waits remembers what was visited (RunOK).     *)
(*                                                                         *)
(* Last WorkflowEngine: types, that nobody waits for an answer that has    *)
(* been given, and that no node acts twice without a cause.  Sound says    *)
(* what an open transaction has written: a ticket it has marked belongs to *)
(* the execution it is about to resume or has resumed, and a pause it has  *)
(* written comes with its own, new ticket.  Orderly adds who may touch a   *)
(* committed execution, and what is remembered of the nodes that acted.    *)
(***************************************************************************)
EXTENDS WorkflowEngine, Automations, Playbook, FiniteSetTheorems, TLAPS

Small(S) == S = {} \/ \E x \in S : S = {x}

(* The statements still to come.                                           *)
Ahead(steps, op) == steps # <<>> /\ Head(steps)[1] = op
Has(steps, op) == \E k \in DOMAIN steps : steps[k][1] = op
SaveRest(w) == {<<<<"row", w>>, <<"deleteNodes", w>>, <<"deleteEdges", w>>>>,
                <<<<"deleteNodes", w>>, <<"deleteEdges", w>>>>,
                <<<<"deleteEdges", w>>>>, <<>>}
DeleteRest(w) == {<<<<"deleteEdges", w>>, <<"deleteNodes", w>>, <<"row", w>>>>,
                  <<<<"deleteNodes", w>>, <<"row", w>>>>, <<<<"row", w>>>>, <<>>}
StatusRest(w) == {<<<<"row", w>>>>, <<>>}
CloneRest(w) == {<<<<"readNodes", w>>, <<"readEdges", w>>>>, <<<<"readEdges", w>>>>, <<>>}
Chained(steps) ==
  \A k \in DOMAIN steps :
    /\ steps[k][1] \in {"readNodes", "readEdges", "run", "advance"}
    /\ k > 1 /\ steps[k][1] = "readEdges" => steps[k - 1] = <<"readNodes", steps[k][2]>>
    /\ k > 1 /\ steps[k][1] = "run" => steps[k - 1] = <<"readEdges", steps[k][2]>>

Planned(r) ==
  /\ r.kind = "idle" => r = IdleSession
  /\ r.kind \in {"save", "delete", "status", "clone"} => r.w \in Wf
  /\ r.kind = "save" => r.steps \in SaveRest(r.w)
  /\ r.kind = "delete" => r.steps \in DeleteRest(r.w) /\ r.status # None
  /\ r.kind = "status" => r.steps \in StatusRest(r.w) /\ r.status # None
  /\ r.kind = "clone" => \E from \in Wf : r.steps \in CloneRest(from)
  /\ r.kind \in {"fire", "manual"} => Chained(r.steps)

(* Workflows never go away.                                                *)
Grounded(r) ==
  /\ r.kind \in {"save", "delete", "status"} => wf[r.w] # None
  /\ r.kind = "clone" => wf[r.w] = None
  /\ \A k \in DOMAIN r.steps : r.steps[k][1] # "advance" => wf[r.steps[k][2]] # None

(* What a save or a deletion takes away is all there is: a save holds the  *)
(* row while it deletes, a deletion is met by whoever comes between.       *)
Locks(r) ==
  r.kind \in {"save", "delete", "status"} /\ ~Has(r.steps, "row") =>
    <<"workflows", r.w>> \in r.held
Erases(r) ==
  /\ r.snap # None => Ahead(r.steps, "deleteNodes") \/ Ahead(r.steps, "deleteEdges")
  /\ r.kind = "save" \/ (r.kind = "delete" /\ ~r.met) =>
       /\ r.snap # None => r.snap = IF Ahead(r.steps, "deleteNodes") THEN wf[r.w].nodes
                                                                 ELSE wf[r.w].edges
       /\ ~Has(r.steps, "deleteNodes") => r.goneNodes = wf[r.w].nodes
       /\ ~Has(r.steps, "deleteEdges") => r.goneEdges = wf[r.w].edges

(* What a copy or a run has read is of one save.                           *)
HasRead(r) ==
  ~r.met =>
    /\ Ahead(r.steps, "readEdges") =>
         LET w == Head(r.steps)[2] IN r.nodes = wf[w].nodes /\ ~mixed[w]
    /\ Ahead(r.steps, "run") \/ (r.kind = "clone" /\ r.steps = <<>>) =>
         r.nodes = r.edges /\ Small(r.nodes)

Starts(r) ==
  r.kind = "fire" => \A k \in DOMAIN r.steps : r.steps[k][1] = "run" =>
    wf[r.steps[k][2]].status = "active" \/ r.steps[k][2] \in r.late

Regular(r) == Planned(r) /\ Grounded(r) /\ Locks(r) /\ Erases(r) /\ HasRead(r) /\ Starts(r)

(* One transaction holds the row of a workflow, one copy makes it.         *)
Apart(r, q) ==
  /\ \A w \in Wf : ~(<<"workflows", w>> \in r.held /\ <<"workflows", w>> \in q.held)
  /\ r.kind = "clone" /\ q.kind = "clone" => r.w # q.w

Whole(w) == wf[w] # None /\ ~mixed[w] => wf[w].nodes = wf[w].edges /\ Small(wf[w].nodes)

RegularSession(t) == Regular(session[t])

(* Only the cron evaluator advances schedules, and those it has advanced   *)
(* stay until it commits.                                                  *)
Kept ==
  \A t \in Session :
    /\ t # Cron =>
         /\ session[t].advanced = {}
         /\ session[t].kind \in {"fire", "manual"} =>
              \A k \in DOMAIN session[t].steps : session[t].steps[k][1] # "advance"
    /\ \A s \in session[t].advanced : sched[s] # None

Ordered ==
  /\ \A t \in Session : RegularSession(t)
  /\ \A t, u \in Session : t # u => Apart(session[t], session[u])
  /\ \A w \in Wf : Whole(w)

-----------------------------------------------------------------------------
(* Sequences of statements.                                                *)
LEMMA TailFacts ==
  ASSUME NEW s \in Seq(Stmt), s # <<>>
  PROVE  /\ Tail(s) \in Seq(Stmt) /\ 1 \in DOMAIN s /\ Head(s) = s[1] /\ Head(s) \in Stmt
         /\ \A k \in DOMAIN Tail(s) : /\ k \in Nat /\ k >= 1 /\ k + 1 \in DOMAIN s
                                      /\ Tail(s)[k] = s[k + 1]
OBVIOUS

LEMMA HasNone == ASSUME NEW op PROVE ~Has(<<>>, op)
BY DEF Has
LEMMA HasOne == ASSUME NEW a, NEW op PROVE Has(<<a>>, op) <=> a[1] = op
<1>1. DOMAIN <<a>> = {1}
  OBVIOUS
<1> QED
  BY <1>1 DEF Has
LEMMA HasTwo ==
  ASSUME NEW a, NEW b, NEW op
  PROVE  Has(<<a, b>>, op) <=> a[1] = op \/ b[1] = op
<1>1. DOMAIN <<a, b>> = {1, 2}
  OBVIOUS
<1> QED
  BY <1>1 DEF Has
LEMMA HasThree ==
  ASSUME NEW a, NEW b, NEW c, NEW op
  PROVE  Has(<<a, b, c>>, op) <=> a[1] = op \/ b[1] = op \/ c[1] = op
<1>1. DOMAIN <<a, b, c>> = {1, 2, 3}
  OBVIOUS
<1> QED
  BY <1>1 DEF Has

LEMMA SaveRests ==
  ASSUME NEW w, NEW s \in SaveRest(w), s # <<>>
  PROVE  /\ Tail(s) \in SaveRest(w) /\ Head(s)[2] = w
         /\ Head(s)[1] = "row" =>
              /\ ~Has(Tail(s), "row") /\ Has(Tail(s), "deleteNodes") /\ Has(Tail(s), "deleteEdges")
         /\ Head(s)[1] = "deleteNodes" =>
              /\ ~Has(s, "row") /\ ~Has(Tail(s), "row")
              /\ ~Has(Tail(s), "deleteNodes") /\ Has(Tail(s), "deleteEdges")
         /\ Head(s)[1] = "deleteEdges" => ~Has(s, "row") /\ ~Has(s, "deleteNodes") /\ Tail(s) = <<>>
         /\ Head(s)[1] \in {"row", "deleteNodes", "deleteEdges"}
<1> DEFINE one == <<"row", w>>
           two == <<"deleteNodes", w>>
           three == <<"deleteEdges", w>>
<1>0. one[1] = "row" /\ two[1] = "deleteNodes" /\ three[1] = "deleteEdges" /\ one[2] = w /\ two[2] = w /\ three[2] = w
  OBVIOUS
<1>r. SaveRest(w) = {<<one, two, three>>, <<two, three>>, <<three>>, <<>>}
  BY DEF SaveRest
<1> HIDE DEF one, two, three
<1>1. CASE s = <<one, two, three>>
  <2>1. Tail(s) = <<two, three>> /\ Head(s) = one
    BY <1>1
  <2>2. \A op : Has(s, op) <=> one[1] = op \/ two[1] = op \/ three[1] = op
    BY <1>1, HasThree
  <2>3. \A op : Has(Tail(s), op) <=> two[1] = op \/ three[1] = op
    <3>1. \A op : Has(<<two, three>>, op) <=> two[1] = op \/ three[1] = op
      BY HasTwo
    <3> HIDE DEF Has
    <3> QED
      BY <2>1, <3>1, Zenon
  <2> QED
    BY <1>0, <1>r, <2>1, <2>2, <2>3
<1>2. CASE s = <<two, three>>
  <2>1. Tail(s) = <<three>> /\ Head(s) = two
    BY <1>2
  <2>2. \A op : Has(s, op) <=> two[1] = op \/ three[1] = op
    BY <1>2, HasTwo
  <2>3. \A op : Has(Tail(s), op) <=> three[1] = op
    BY <2>1, HasOne
  <2> QED
    BY <1>0, <1>r, <2>1, <2>2, <2>3
<1>3. CASE s = <<three>>
  <2>1. Tail(s) = <<>> /\ Head(s) = three
    BY <1>3
  <2>2. \A op : Has(s, op) <=> three[1] = op
    BY <1>3, HasOne
  <2>3. \A op : Has(Tail(s), op) <=> FALSE
    BY <2>1, HasNone
  <2> QED
    BY <1>0, <1>r, <2>1, <2>2, <2>3
<1> QED
  BY <1>r, <1>1, <1>2, <1>3

LEMMA DeleteRests ==
  ASSUME NEW w, NEW s \in DeleteRest(w), s # <<>>
  PROVE  /\ Tail(s) \in DeleteRest(w) /\ Head(s)[2] = w
         /\ Head(s)[1] = "row" =>
              ~Has(s, "deleteNodes") /\ ~Has(s, "deleteEdges") /\ Tail(s) = <<>>
         /\ Head(s)[1] = "deleteNodes" =>
              Has(Tail(s), "row") /\ ~Has(Tail(s), "deleteNodes") /\ ~Has(s, "deleteEdges")
         /\ Head(s)[1] = "deleteEdges" =>
              Has(Tail(s), "row") /\ Has(Tail(s), "deleteNodes") /\ ~Has(Tail(s), "deleteEdges")
         /\ Head(s)[1] \in {"row", "deleteNodes", "deleteEdges"}
<1> DEFINE one == <<"deleteEdges", w>>
           two == <<"deleteNodes", w>>
           three == <<"row", w>>
<1>0. one[1] = "deleteEdges" /\ two[1] = "deleteNodes" /\ three[1] = "row" /\ one[2] = w /\ two[2] = w /\ three[2] = w
  OBVIOUS
<1>r. DeleteRest(w) = {<<one, two, three>>, <<two, three>>, <<three>>, <<>>}
  BY DEF DeleteRest
<1> HIDE DEF one, two, three
<1>1. CASE s = <<one, two, three>>
  <2>1. Tail(s) = <<two, three>> /\ Head(s) = one
    BY <1>1
  <2>2. \A op : Has(s, op) <=> one[1] = op \/ two[1] = op \/ three[1] = op
    BY <1>1, HasThree
  <2>3. \A op : Has(Tail(s), op) <=> two[1] = op \/ three[1] = op
    <3>1. \A op : Has(<<two, three>>, op) <=> two[1] = op \/ three[1] = op
      BY HasTwo
    <3> HIDE DEF Has
    <3> QED
      BY <2>1, <3>1, Zenon
  <2> QED
    BY <1>0, <1>r, <2>1, <2>2, <2>3
<1>2. CASE s = <<two, three>>
  <2>1. Tail(s) = <<three>> /\ Head(s) = two
    BY <1>2
  <2>2. \A op : Has(s, op) <=> two[1] = op \/ three[1] = op
    BY <1>2, HasTwo
  <2>3. \A op : Has(Tail(s), op) <=> three[1] = op
    BY <2>1, HasOne
  <2> QED
    BY <1>0, <1>r, <2>1, <2>2, <2>3
<1>3. CASE s = <<three>>
  <2>1. Tail(s) = <<>> /\ Head(s) = three
    BY <1>3
  <2>2. \A op : Has(s, op) <=> three[1] = op
    BY <1>3, HasOne
  <2>3. \A op : Has(Tail(s), op) <=> FALSE
    BY <2>1, HasNone
  <2> QED
    BY <1>0, <1>r, <2>1, <2>2, <2>3
<1> QED
  BY <1>r, <1>1, <1>2, <1>3

LEMMA ChainedTail ==
  ASSUME NEW s \in Seq(Stmt), s # <<>>, Chained(s)
  PROVE  /\ Chained(Tail(s))
         /\ Ahead(Tail(s), "readEdges") => Head(s) = <<"readNodes", Head(Tail(s))[2]>>
         /\ Ahead(Tail(s), "run") => Head(s) = <<"readEdges", Head(Tail(s))[2]>>
<1>1. Chained(Tail(s))
  <2> SUFFICES ASSUME NEW k \in DOMAIN Tail(s)
               PROVE  /\ Tail(s)[k][1] \in {"readNodes", "readEdges", "run", "advance"}
                      /\ k > 1 /\ Tail(s)[k][1] = "readEdges"
                           => Tail(s)[k - 1] = <<"readNodes", Tail(s)[k][2]>>
                      /\ k > 1 /\ Tail(s)[k][1] = "run"
                           => Tail(s)[k - 1] = <<"readEdges", Tail(s)[k][2]>>
    BY DEF Chained
  <2>1. k \in Nat /\ k >= 1 /\ k + 1 \in DOMAIN s /\ Tail(s)[k] = s[k + 1] /\ k + 1 > 1
    BY TailFacts
  <2>2. k > 1 => Tail(s)[k - 1] = s[k]
    OBVIOUS
  <2>3. (k + 1) - 1 = k
    BY <2>1
  <2> QED
    BY <2>1, <2>2, <2>3 DEF Chained
<1>2. ASSUME Tail(s) # <<>>
      PROVE  2 \in DOMAIN s /\ Head(Tail(s)) = s[2] /\ Head(s) = s[1]
  BY <1>2
<1>3. 2 > 1 /\ 2 - 1 = 1
  OBVIOUS
<1> QED
  BY <1>1, <1>2, <1>3 DEF Ahead, Chained

-----------------------------------------------------------------------------
(* A step that leaves the workflows alone keeps every other transaction.   *)
LEMMA IdleSessionType == IdleSession \in SessionRow
<1>1. <<>> \in Seq(Stmt)
  OBVIOUS
<1> QED
  BY <1>1 DEF IdleSession, SessionRow

LEMMA IdleRegular == Regular(IdleSession) /\ \A q : Apart(IdleSession, q)
<1>1. IdleSession.kind = "idle" /\ IdleSession.steps = <<>> /\ IdleSession.snap = None /\ IdleSession.held = {}
  BY DEF IdleSession
<1>2. \A op : ~Ahead(<<>>, op)
  BY DEF Ahead
<1> DEFINE r == IdleSession
<1>3. r = IdleSession
  OBVIOUS
<1> HIDE DEF r
<1>4. r.kind = "idle" /\ r.steps = <<>> /\ r.snap = None /\ r.held = {}
  BY <1>1 DEF r
<1>5. Planned(r) /\ Grounded(r) /\ Locks(r) /\ Starts(r)
  BY <1>3, <1>4 DEF Planned, Grounded, Locks, Starts
<1>6. Erases(r) /\ HasRead(r)
  BY <1>2, <1>4 DEF Erases, HasRead
<1>7. \A q : Apart(r, q)
  BY <1>4 DEF Apart
<1> QED
  BY <1>5, <1>6, <1>7 DEF r, Regular

LEMMA RegularStays ==
  ASSUME NEW u, NEW q, session'[u] = q, wf' = wf, mixed' = mixed, Regular(q)
  PROVE  RegularSession(u)'
<1> HIDE DEF Ahead, Has
<1>1. Planned(session[u])'
  BY DEF Regular, Planned
<1>2. Grounded(session[u])' /\ Locks(session[u])'
  BY DEF Regular, Grounded, Locks
<1>3. Erases(session[u])'
  BY DEF Regular, Erases
<1>4. HasRead(session[u])'
  BY DEF Regular, HasRead
<1>5. Starts(session[u])'
  BY DEF Regular, Starts
<1> QED
  BY <1>1, <1>2, <1>3, <1>4, <1>5 DEF Regular, RegularSession

Moves(t) ==
  \E r \in SessionRow : /\ session' = [session EXCEPT ![t] = r]
                   /\ Regular(r) /\ \A u \in Session \ {t} : Apart(r, session[u])

LEMMA MovesOrdered ==
  ASSUME ApiTypeOK, Ordered, NEW t \in Session, Moves(t), wf' = wf, mixed' = mixed
  PROVE  Ordered' /\ session' \in [Session -> SessionRow]
<1>1. PICK r \in SessionRow : /\ session' = [session EXCEPT ![t] = r]
                         /\ Regular(r) /\ \A u \in Session \ {t} : Apart(r, session[u])
  BY DEF Moves
<1>2. session' \in [Session -> SessionRow] /\ \A u \in Session : session'[u] = IF u = t THEN r ELSE session[u]
  BY <1>1 DEF ApiTypeOK
<1>3. ASSUME NEW u \in Session PROVE RegularSession(u)'
  <2>1. Regular(session'[u])
    BY <1>1, <1>2 DEF Ordered, RegularSession
  <2> QED
    BY <2>1, RegularStays
<1>4. ASSUME NEW u \in Session, NEW v \in Session, u # v PROVE Apart(session[u], session[v])'
  <2>1. Apart(session'[u], session'[v])
    <3>1. Apart(r, session[u]) => Apart(session[u], r)
      BY DEF Apart
    <3> QED
      BY <1>1, <1>2, <1>4, <3>1 DEF Ordered
  <2> QED
    BY <2>1 DEF Apart
<1>5. \A w \in Wf : Whole(w)'
  BY DEF Ordered, Whole
<1> QED
  BY <1>2, <1>3, <1>4, <1>5 DEF Ordered

LEMMA StatusRests ==
  ASSUME NEW w, NEW s \in StatusRest(w), s # <<>>
  PROVE  /\ Tail(s) = <<>> /\ <<>> \in StatusRest(w) /\ Head(s)[1] = "row" /\ Head(s)[2] = w
         /\ ~Has(<<>>, "row")
<1> DEFINE one == <<"row", w>>
<1>1. s = <<one>> /\ <<>> \in StatusRest(w) /\ one[1] = "row" /\ one[2] = w
  BY DEF StatusRest
<1> HIDE DEF one
<1>2. Tail(s) = <<>> /\ Head(s) = one
  BY <1>1
<1> QED
  BY <1>1, <1>2, HasNone

LEMMA CloneRests ==
  ASSUME NEW w, NEW s \in CloneRest(w), s # <<>>
  PROVE  /\ Tail(s) \in CloneRest(w) /\ Head(s)[2] = w
         /\ Head(s)[1] \in {"readNodes", "readEdges"}
         /\ Head(s)[1] = "readNodes" => Tail(s) = <<<<"readEdges", w>>>>
         /\ Head(s)[1] = "readEdges" => Tail(s) = <<>>
<1> DEFINE one == <<"readNodes", w>>
           two == <<"readEdges", w>>
<1>1. CloneRest(w) = {<<one, two>>, <<two>>, <<>>}
  BY DEF CloneRest
<1>2. one[1] = "readNodes" /\ two[1] = "readEdges" /\ one[2] = w /\ two[2] = w
  OBVIOUS
<1>3. Tail(s) \in CloneRest(w) /\ Head(s)[2] = w /\ Head(s)[1] \in {"readNodes", "readEdges"}
      /\ (Head(s)[1] = "readNodes" => Tail(s) = <<two>>)
      /\ (Head(s)[1] = "readEdges" => Tail(s) = <<>>)
  <2> HIDE DEF one, two
  <2>1. CASE s = <<one, two>>
    <3>1. Tail(s) = <<two>> /\ Head(s) = one
      BY <2>1
    <3> QED
      BY <1>1, <1>2, <3>1
  <2>2. CASE s = <<two>>
    <3>1. Tail(s) = <<>> /\ Head(s) = two
      BY <2>2
    <3> QED
      BY <1>1, <1>2, <3>1
  <2> QED
    BY <1>1, <2>1, <2>2
<1> QED
  BY <1>3

(* Which transactions issue which statements.                              *)
LEMMA Issuers ==
  ASSUME NEW a \in SessionRow, Planned(a), a.steps # <<>>
  PROVE  LET op == Head(a.steps)[1] IN
         /\ op \in {"row", "deleteNodes", "deleteEdges"} =>
              /\ a.kind \in {"save", "delete", "status"}
              /\ op # "row" => a.kind # "status"
              /\ Head(a.steps)[2] = a.w /\ a.w \in Wf
         /\ op \in {"readNodes", "readEdges"} => a.kind \in {"clone", "fire", "manual"}
         /\ op \in {"run", "advance"} => a.kind \in {"fire", "manual"}
<1>1. a.kind \in {"save", "delete", "status", "clone", "fire", "manual"}
  <2>1. a.kind # "idle"
    BY DEF Planned, IdleSession
  <2> QED
    BY <2>1 DEF SessionRow
<1>2. a.steps \in Seq(Stmt)
  BY DEF SessionRow
<1>3. CASE a.kind = "save"
  <2>1. a.steps \in SaveRest(a.w) /\ a.w \in Wf
    BY <1>3 DEF Planned
  <2>2. Head(a.steps)[1] \in {"row", "deleteNodes", "deleteEdges"} /\ Head(a.steps)[2] = a.w
    BY <2>1, SaveRests
  <2> QED
    BY <1>3, <2>1, <2>2
<1>4. CASE a.kind = "delete"
  BY <1>4, DeleteRests DEF Planned
<1>5. CASE a.kind = "status"
  BY <1>5, StatusRests DEF Planned
<1>6. CASE a.kind = "clone"
  <2>1. PICK from : a.steps \in CloneRest(from)
    BY <1>6 DEF Planned
  <2>2. Head(a.steps)[1] \in {"readNodes", "readEdges"}
    BY <2>1, CloneRests
  <2> QED
    BY <1>6, <2>2
<1>7. CASE a.kind \in {"fire", "manual"}
  <2>1. Head(a.steps)[1] \in {"readNodes", "readEdges", "run", "advance"}
    BY <1>2, <1>7, TailFacts DEF Planned, Chained
  <2> QED
    BY <1>7, <2>1
<1> QED
  BY <1>1, <1>3, <1>4, <1>5, <1>6, <1>7

(* A transaction one statement further.                                    *)
LEMMA Further ==
  ASSUME NEW a \in SessionRow, Regular(a), a.steps # <<>>, NEW r,
         r.kind = a.kind, r.w = a.w, r.status = a.status, r.late = a.late,
         r.steps = Tail(a.steps)
  PROVE  Planned(r) /\ Grounded(r) /\ Starts(r)
<1>1. a.steps \in Seq(Stmt)
  BY DEF SessionRow
<1>2. Planned(a) /\ Grounded(a) /\ Starts(a)
  BY DEF Regular
<1>3. a.kind # "idle"
  BY <1>2 DEF Planned, IdleSession
<1>4. a.kind = "save" => Tail(a.steps) \in SaveRest(a.w)
  BY <1>2, SaveRests DEF Planned
<1>5. a.kind = "delete" => Tail(a.steps) \in DeleteRest(a.w)
  BY <1>2, DeleteRests DEF Planned
<1>6. a.kind = "status" => Tail(a.steps) \in StatusRest(a.w)
  BY <1>2, StatusRests DEF Planned
<1>7. ASSUME a.kind = "clone" PROVE \E from \in Wf : Tail(a.steps) \in CloneRest(from)
  <2>1. PICK from \in Wf : a.steps \in CloneRest(from)
    BY <1>2, <1>7 DEF Planned
  <2>2. Tail(a.steps) \in CloneRest(from)
    BY <2>1, CloneRests
  <2> QED
    BY <2>2
<1>8. a.kind \in {"fire", "manual"} => Chained(Tail(a.steps))
  BY <1>1, <1>2, ChainedTail DEF Planned
<1>9. Planned(r)
  BY <1>2, <1>3, <1>4, <1>5, <1>6, <1>7, <1>8 DEF Planned
<1>10. \A k \in DOMAIN Tail(a.steps) : k + 1 \in DOMAIN a.steps /\ Tail(a.steps)[k] = a.steps[k + 1]
  BY <1>1, TailFacts
<1>11. Grounded(r)
  BY <1>2, <1>10 DEF Grounded
<1>12. Starts(r)
  BY <1>2, <1>10 DEF Starts
<1> QED
  BY <1>9, <1>11, <1>12

(* What holds before a statement of t, and what must be shown of its row.  *)
LEMMA Before ==
  ASSUME ApiTypeOK, Ordered, NEW t \in Session, NEW op, At(t, op)
  PROVE  /\ session[t] \in SessionRow /\ Regular(session[t]) /\ session[t].steps # <<>>
         /\ session[t].steps \in Seq(Stmt) /\ Tail(session[t].steps) \in Seq(Stmt)
         /\ Head(session[t].steps)[1] = op /\ Head(session[t].steps) \in Stmt
         /\ \A u \in Session \ {t} : Apart(session[t], session[u])
<1>1. session[t] \in SessionRow /\ session[t].steps # <<>> /\ Head(session[t].steps)[1] = op
  BY DEF ApiTypeOK, At
<1>2. session[t].steps \in Seq(Stmt)
  BY <1>1 DEF SessionRow
<1>3. Tail(session[t].steps) \in Seq(Stmt) /\ Head(session[t].steps) \in Stmt
  BY <1>1, <1>2, TailFacts
<1> QED
  BY <1>1, <1>2, <1>3 DEF Ordered, RegularSession

LEMMA UpdateRowMoves ==
  ASSUME ApiTypeOK, Ordered, NEW t \in Session, UpdateRow(t)
  PROVE  Moves(t)
<1> DEFINE a == session[t]
           w == a.w
           d == [a EXCEPT !.steps = Tail(a.steps)]
           r == [d EXCEPT !.held = d.held \cup {<<"workflows", w>>}]
<1>1. /\ a \in SessionRow /\ Regular(a) /\ a.steps # <<>> /\ Tail(a.steps) \in Seq(Stmt)
      /\ Head(a.steps)[1] = "row" /\ \A u \in Session \ {t} : Apart(a, session[u])
  BY Before DEF UpdateRow
<1>2. a.kind \in {"save", "delete", "status"} /\ Head(a.steps)[2] = w /\ w \in Wf
  BY <1>1, Issuers DEF Regular
<1>3. \A u \in Session \ {t} : <<"workflows", w>> \notin session[u].held
  <2>1. Table(t) = "workflows"
    BY DEF UpdateRow, Table, At
  <2> QED
    BY <1>2, <2>1 DEF UpdateRow, WaitsFor, Writing, On
<1>4. session' = [session EXCEPT ![t] = r]
  <2>1. On(t) = w
    BY <1>2 DEF On
  <2>2. r = [Done(a) EXCEPT !.held = @ \cup {<<"workflows", On(t)>>}]
    BY <2>1 DEF Done
  <2> HIDE DEF r
  <2> QED
    BY <2>2 DEF UpdateRow
<1>5. /\ r.kind = a.kind /\ r.w = a.w /\ r.status = a.status /\ r.late = a.late
      /\ r.steps = Tail(a.steps) /\ r.held = a.held \cup {<<"workflows", w>>}
      /\ r.snap = a.snap /\ r.goneNodes = a.goneNodes /\ r.goneEdges = a.goneEdges
      /\ r.met = a.met
  BY <1>1 DEF SessionRow
<1>6. r \in SessionRow
  <2>1. <<"workflows", w>> \in {"workflows", "nodes", "edges"} \X Wf
    BY <1>2
  <2>2. d \in SessionRow
    BY <1>1 DEF SessionRow
  <2> HIDE DEF d
  <2>3. d.held \cup {<<"workflows", w>>} \in SUBSET ({"workflows", "nodes", "edges"} \X Wf)
    BY <2>1, <2>2 DEF SessionRow
  <2> QED
    BY <2>2, <2>3 DEF SessionRow
<1> HIDE DEF r
<1>7. Planned(r) /\ Grounded(r) /\ Starts(r)
  BY <1>1, <1>5, Further
<1>8. Locks(r)
  BY <1>2, <1>5 DEF Locks
<1>9. a.snap = None
  BY <1>1 DEF Regular, Erases, Ahead
<1>10. Erases(r)
  <2>1. CASE a.kind = "save"
    <3>1. Has(Tail(a.steps), "deleteNodes") /\ Has(Tail(a.steps), "deleteEdges")
      BY <1>1, <2>1, SaveRests DEF Regular, Planned
    <3> QED
      BY <1>5, <1>9, <2>1, <3>1 DEF Erases
  <2>2. CASE a.kind = "delete"
    <3>1. ~Has(a.steps, "deleteNodes") /\ ~Has(a.steps, "deleteEdges")
      BY <1>1, <2>2, DeleteRests DEF Regular, Planned
    <3> QED
      BY <1>1, <1>5, <1>9, <2>2, <3>1 DEF Regular, Erases
  <2>3. CASE a.kind = "status"
    BY <1>5, <1>9, <2>3 DEF Erases
  <2> QED
    BY <1>2, <2>1, <2>2, <2>3
<1>11. HasRead(r)
  <2>1. ~Ahead(r.steps, "readEdges") /\ ~Ahead(r.steps, "run")
    <3>1. r.steps # <<>> => Head(r.steps)[1] \in {"row", "deleteNodes", "deleteEdges"}
      <4>1. CASE a.kind = "save"
        BY <1>5, <1>7, <4>1, SaveRests DEF Planned
      <4>2. CASE a.kind = "delete"
        BY <1>5, <1>7, <4>2, DeleteRests DEF Planned
      <4>3. CASE a.kind = "status"
        BY <1>5, <1>7, <4>3, StatusRests DEF Planned
      <4> QED
        BY <1>2, <4>1, <4>2, <4>3
    <3> QED
      BY <3>1 DEF Ahead
  <2> QED
    BY <1>2, <1>5, <2>1 DEF HasRead
<1>12. \A u \in Session \ {t} : Apart(r, session[u])
  BY <1>1, <1>2, <1>3, <1>5 DEF Apart
<1>13. Regular(r)
  BY <1>7, <1>8, <1>10, <1>11 DEF Regular
<1> QED
  BY <1>4, <1>6, <1>12, <1>13 DEF Moves

(* The rows a transaction would delete now.                                *)
LEMMA RowsOf ==
  ASSUME ApiTypeOK, Ordered, NEW t \in Session, At(t, "deleteNodes") \/ At(t, "deleteEdges")
  PROVE  /\ session[t].kind \in {"save", "delete"} /\ On(t) = session[t].w /\ session[t].w \in Wf
         /\ wf[session[t].w] \in WfRow /\ Rows(t) \in SUBSET Nat
         /\ Rows(t) = IF Ahead(session[t].steps, "deleteNodes") THEN wf[session[t].w].nodes
                                                       ELSE wf[session[t].w].edges
<1>1. PICK op \in {"deleteNodes", "deleteEdges"} : At(t, op)
  OBVIOUS
<1>2. /\ session[t] \in SessionRow /\ Regular(session[t]) /\ session[t].steps # <<>>
      /\ Head(session[t].steps)[1] = op
  BY <1>1, Before
<1>3. session[t].kind \in {"save", "delete"} /\ On(t) = session[t].w /\ session[t].w \in Wf
  BY <1>2, Issuers DEF Regular, On
<1>4. wf[session[t].w] \in WfRow
  BY <1>2, <1>3 DEF ApiTypeOK, Regular, Grounded
<1>5. wf[session[t].w].nodes \in SUBSET Nat /\ wf[session[t].w].edges \in SUBSET Nat
  BY <1>4 DEF WfRow
<1> QED
  BY <1>3, <1>4, <1>5 DEF Rows, At, Ahead

LEMMA WaitMoves ==
  ASSUME ApiTypeOK, Ordered, NEW t \in Session, Wait(t)
  PROVE  Moves(t)
<1> DEFINE a == session[t]
           r == [a EXCEPT !.snap = Rows(t)]
<1>1. PICK op \in {"deleteNodes", "deleteEdges"} : At(t, op)
  BY DEF Wait
<1>2. /\ a \in SessionRow /\ Regular(a) /\ a.steps # <<>> /\ Head(a.steps)[1] = op
      /\ \A u \in Session \ {t} : Apart(a, session[u])
  BY <1>1, Before
<1>3. /\ a.kind \in {"save", "delete"} /\ Rows(t) \in SUBSET Nat
      /\ Rows(t) = IF Ahead(a.steps, "deleteNodes") THEN wf[a.w].nodes ELSE wf[a.w].edges
  BY <1>1, RowsOf
<1>4. session' = [session EXCEPT ![t] = r]
  BY DEF Wait
<1>5. /\ r.kind = a.kind /\ r.w = a.w /\ r.status = a.status /\ r.late = a.late
      /\ r.steps = a.steps /\ r.held = a.held /\ r.snap = Rows(t)
      /\ r.goneNodes = a.goneNodes /\ r.goneEdges = a.goneEdges
      /\ r.met = a.met /\ r.nodes = a.nodes /\ r.edges = a.edges
  BY <1>2 DEF SessionRow
<1>6. r \in SessionRow
  BY <1>2, <1>3 DEF SessionRow
<1> HIDE DEF r
<1>7. Planned(r) /\ Grounded(r) /\ Locks(r) /\ Starts(r)
  BY <1>2, <1>3, <1>5 DEF Regular, Planned, Grounded, Locks, Starts
<1>8. Erases(r)
  BY <1>2, <1>3, <1>5 DEF Regular, Erases, Ahead
<1>9. HasRead(r)
  BY <1>2, <1>3, <1>5 DEF Regular, HasRead
<1>10. \A u \in Session \ {t} : Apart(r, session[u])
  BY <1>2, <1>5 DEF Apart
<1> QED
  BY <1>4, <1>6, <1>7, <1>8, <1>9, <1>10 DEF Moves, Regular

LEMMA DeleteRowsMoves ==
  ASSUME ApiTypeOK, Ordered, NEW t \in Session, DeleteRows(t)
  PROVE  Moves(t)
<1> DEFINE a == session[t]
           gone == IF a.snap = None THEN Rows(t) ELSE Rows(t) \cap a.snap
           lock == IF gone = {} THEN {} ELSE {<<Table(t), On(t)>>}
           d == [a EXCEPT !.steps = Tail(a.steps), !.held = a.held \cup lock, !.snap = None]
           r == IF At(t, "deleteNodes") THEN [d EXCEPT !.goneNodes = gone]
                                        ELSE [d EXCEPT !.goneEdges = gone]
<1>1. PICK op \in {"deleteNodes", "deleteEdges"} : At(t, op)
  BY DEF DeleteRows
<1>2. /\ a \in SessionRow /\ Regular(a) /\ a.steps # <<>> /\ Head(a.steps)[1] = op
      /\ Tail(a.steps) \in Seq(Stmt)
      /\ \A u \in Session \ {t} : Apart(a, session[u])
  BY <1>1, Before
<1>3. /\ a.kind \in {"save", "delete"} /\ On(t) = a.w /\ a.w \in Wf /\ Rows(t) \in SUBSET Nat
      /\ Rows(t) = IF Ahead(a.steps, "deleteNodes") THEN wf[a.w].nodes ELSE wf[a.w].edges
  BY <1>1, RowsOf
<1>4. session' = [session EXCEPT ![t] = r]
  BY DEF DeleteRows, Done
<1>5. Ahead(a.steps, "deleteNodes") = At(t, "deleteNodes")
      /\ (At(t, "deleteNodes") <=> op = "deleteNodes")
  BY <1>1 DEF Ahead, At
<1>6. Table(t) \in {"nodes", "edges"} /\ lock \subseteq {"nodes", "edges"} \X Wf
  BY <1>1, <1>3 DEF Table, At
<1>7. gone \in SUBSET Nat
  BY <1>3
<1>8. a.kind = "save" \/ ~a.met => gone = Rows(t)
  BY <1>2, <1>3 DEF Regular, Erases
<1> HIDE DEF gone, lock
<1>9. d \in SessionRow
  BY <1>2, <1>6 DEF SessionRow
<1>10. /\ d.kind = a.kind /\ d.w = a.w /\ d.status = a.status /\ d.late = a.late
       /\ d.steps = Tail(a.steps) /\ d.held = a.held \cup lock /\ d.snap = None
       /\ d.goneNodes = a.goneNodes /\ d.goneEdges = a.goneEdges
       /\ d.met = a.met /\ d.nodes = a.nodes /\ d.edges = a.edges
  BY <1>2 DEF SessionRow
<1> HIDE DEF d
<1>11. r \in SessionRow
  BY <1>7, <1>9 DEF SessionRow
<1>12. /\ r.kind = a.kind /\ r.w = a.w /\ r.status = a.status /\ r.late = a.late
       /\ r.steps = Tail(a.steps) /\ r.held = a.held \cup lock /\ r.snap = None
       /\ r.met = a.met
       /\ op = "deleteNodes" => r.goneNodes = gone /\ r.goneEdges = a.goneEdges
       /\ op = "deleteEdges" => r.goneEdges = gone /\ r.goneNodes = a.goneNodes
  BY <1>5, <1>9, <1>10 DEF SessionRow
<1> HIDE DEF r
<1>13. Planned(r) /\ Grounded(r) /\ Starts(r)
  BY <1>2, <1>12, Further
<1>14. ASSUME a.kind = "save" PROVE Locks(r) /\ Erases(r)
  <2>1. a.steps \in SaveRest(a.w)
    BY <1>2, <1>14 DEF Regular, Planned
  <2>2. /\ ~Has(a.steps, "row")
        /\ op = "deleteNodes" => ~Has(Tail(a.steps), "deleteNodes") /\ Has(Tail(a.steps), "deleteEdges")
        /\ op = "deleteEdges" => ~Has(a.steps, "deleteNodes")
    BY <1>2, <2>1, SaveRests
  <2>3. Locks(r)
    BY <1>2, <1>12, <1>14, <2>2 DEF Regular, Locks
  <2>4. Erases(r)
    <3>1. CASE op = "deleteNodes"
      BY <1>2, <1>3, <1>5, <1>8, <1>12, <1>14, <2>2, <3>1 DEF Regular, Erases
    <3>2. CASE op = "deleteEdges"
      <4>1. /\ r.goneEdges = wf[r.w].edges /\ r.goneNodes = a.goneNodes
            /\ a.goneNodes = wf[r.w].nodes
        BY <1>2, <1>3, <1>5, <1>8, <1>12, <1>14, <2>2, <3>2 DEF Regular, Erases
      <4> QED
        BY <1>12, <1>14, <4>1 DEF Erases
    <3> QED
      BY <3>1, <3>2
  <2> QED
    BY <2>3, <2>4
<1>15. ASSUME a.kind = "delete" PROVE Locks(r) /\ Erases(r)
  <2>1. a.steps \in DeleteRest(a.w)
    BY <1>2, <1>15 DEF Regular, Planned
  <2>2. /\ Has(Tail(a.steps), "row")
        /\ op = "deleteNodes" => ~Has(Tail(a.steps), "deleteNodes") /\ ~Has(a.steps, "deleteEdges")
        /\ op = "deleteEdges" => Has(Tail(a.steps), "deleteNodes")
    BY <1>2, <2>1, DeleteRests
  <2>3. Locks(r)
    BY <1>12, <2>2 DEF Locks
  <2>4. Erases(r)
    <3>1. CASE op = "deleteEdges"
      BY <1>3, <1>5, <1>8, <1>12, <1>15, <2>2, <3>1 DEF Erases
    <3>2. CASE op = "deleteNodes"
      <4>1. ~a.met => /\ r.goneNodes = wf[r.w].nodes /\ r.goneEdges = a.goneEdges
                      /\ a.goneEdges = wf[r.w].edges
        BY <1>2, <1>3, <1>5, <1>8, <1>12, <1>15, <2>2, <3>2 DEF Regular, Erases
      <4> QED
        BY <1>12, <1>15, <4>1 DEF Erases
    <3> QED
      BY <3>1, <3>2
  <2> QED
    BY <2>3, <2>4
<1>16. Locks(r) /\ Erases(r)
  BY <1>3, <1>14, <1>15
<1>17. HasRead(r)
  <2>1. r.steps # <<>> => Head(r.steps)[1] \in {"row", "deleteNodes", "deleteEdges"}
    <3>1. CASE a.kind = "save"
      BY <1>12, <1>13, <3>1, SaveRests DEF Planned
    <3>2. CASE a.kind = "delete"
      BY <1>12, <1>13, <3>2, DeleteRests DEF Planned
    <3> QED
      BY <1>3, <3>1, <3>2
  <2>2. ~Ahead(r.steps, "readEdges") /\ ~Ahead(r.steps, "run")
    BY <2>1 DEF Ahead
  <2> QED
    BY <1>3, <1>12, <2>2 DEF HasRead
<1>18. \A u \in Session \ {t} : Apart(r, session[u])
  <2>1. \A w : <<"workflows", w>> \notin lock
    BY <1>6
  <2> QED
    BY <1>2, <1>3, <1>12, <2>1 DEF Apart
<1> QED
  BY <1>4, <1>11, <1>13, <1>16, <1>17, <1>18 DEF Moves, Regular

(* A statement that only reads, or runs, leaves what is written alone.     *)
LEMMA Reader ==
  ASSUME ApiTypeOK, Ordered, NEW t \in Session, NEW op \in {"readNodes", "readEdges", "run", "advance"},
         At(t, op), NEW r \in SessionRow, session' = [session EXCEPT ![t] = r],
         r.kind = session[t].kind, r.w = session[t].w, r.status = session[t].status, r.late = session[t].late,
         r.steps = Tail(session[t].steps), r.held = session[t].held, r.snap = session[t].snap, HasRead(r)
  PROVE  Moves(t)
<1> DEFINE a == session[t]
<1>1. /\ a \in SessionRow /\ Regular(a) /\ a.steps # <<>> /\ Head(a.steps)[1] = op
      /\ \A u \in Session \ {t} : Apart(a, session[u])
  BY Before
<1>2. a.kind \in {"clone", "fire", "manual"}
  BY <1>1, Issuers DEF Regular
<1>3. Planned(r) /\ Grounded(r) /\ Starts(r)
  BY <1>1, Further
<1>4. Locks(r)
  BY <1>2 DEF Locks
<1>5. a.snap = None
  BY <1>1 DEF Regular, Erases, Ahead
<1>6. Erases(r)
  BY <1>2, <1>5 DEF Erases
<1>7. \A u \in Session \ {t} : Apart(r, session[u])
  BY <1>1 DEF Apart
<1> QED
  BY <1>3, <1>4, <1>6, <1>7 DEF Regular, Moves

(* After the nodes a copy or a run reads the edges of the same workflow.   *)
LEMMA NextRead ==
  ASSUME ApiTypeOK, Ordered, NEW t \in Session,
         NEW op \in {"readNodes", "readEdges", "run", "advance"}, At(t, op)
  PROVE  LET s == Tail(session[t].steps) IN
         /\ Ahead(s, "readEdges") => op = "readNodes" /\ Head(s)[2] = On(t)
         /\ Ahead(s, "run") => op = "readEdges"
         /\ session[t].kind = "clone" /\ s = <<>> => op = "readEdges"
         /\ op # "advance" => On(t) \in Wf /\ wf[On(t)] \in WfRow
<1> DEFINE a == session[t]
           s == Tail(session[t].steps)
<1>1. /\ a \in SessionRow /\ Regular(a) /\ a.steps # <<>> /\ Head(a.steps)[1] = op
      /\ a.steps \in Seq(Stmt) /\ Head(a.steps) \in Stmt
  BY Before
<1>2. a.kind \in {"clone", "fire", "manual"}
  BY <1>1, Issuers DEF Regular
<1>3. CASE a.kind = "clone"
  <2>1. PICK from \in Wf : a.steps \in CloneRest(from)
    BY <1>1, <1>3 DEF Regular, Planned
  <2>2. /\ On(t) = from /\ op \in {"readNodes", "readEdges"}
        /\ op = "readNodes" => s = <<<<"readEdges", from>>>>
        /\ op = "readEdges" => s = <<>>
    BY <1>1, <2>1, CloneRests DEF On
  <2>3. op = "readNodes" => s # <<>> /\ Head(s) = <<"readEdges", from>>
    <3> DEFINE e == <<"readEdges", from>>
    <3>1. op = "readNodes" => s = <<e>>
      BY <2>2
    <3> HIDE DEF s, e
    <3>2. op = "readNodes" => s # <<>> /\ Head(s) = e
      BY <3>1
    <3> QED
      BY <3>2 DEF e
  <2>4. op = "readNodes" => Head(s)[1] = "readEdges" /\ Head(s)[2] = from
    BY <2>3
  <2>5. wf[On(t)] # None
    BY <1>1, <2>2, TailFacts DEF Regular, Grounded, On
  <2> QED
    BY <2>1, <2>2, <2>3, <2>4, <2>5 DEF Ahead, ApiTypeOK
<1>4. CASE a.kind \in {"fire", "manual"}
  <2>1. Chained(a.steps)
    BY <1>1, <1>4 DEF Regular, Planned
  <2>2. /\ Ahead(s, "readEdges") => Head(a.steps) = <<"readNodes", Head(s)[2]>>
        /\ Ahead(s, "run") => Head(a.steps) = <<"readEdges", Head(s)[2]>>
    BY <1>1, <2>1, ChainedTail
  <2>3. op # "advance" => On(t) \in Wf
    BY <1>1 DEF On, Stmt
  <2>4. op # "advance" => wf[On(t)] # None
    BY <1>1, TailFacts DEF Regular, Grounded, On
  <2> HIDE DEF s
  <2>5. /\ Ahead(s, "readEdges") => op = "readNodes" /\ Head(s)[2] = On(t)
        /\ Ahead(s, "run") => op = "readEdges"
    BY <1>1, <2>2 DEF On
  <2> QED
    BY <1>4, <2>3, <2>4, <2>5 DEF ApiTypeOK, s
<1> QED
  BY <1>2, <1>3, <1>4

LEMMA ReadNodesMoves ==
  ASSUME ApiTypeOK, Ordered, NEW t \in Session, ReadNodes(t)
  PROVE  Moves(t)
<1> DEFINE a == session[t]
           r == [a EXCEPT !.steps = Tail(a.steps), !.nodes = wf[On(t)].nodes, !.met = mixed[On(t)]]
<1>1. a \in SessionRow /\ Tail(a.steps) \in Seq(Stmt)
  BY Before DEF ReadNodes
<1>2. /\ Ahead(Tail(a.steps), "readEdges") => Head(Tail(a.steps))[2] = On(t)
      /\ ~Ahead(Tail(a.steps), "run") /\ ~(a.kind = "clone" /\ Tail(a.steps) = <<>>)
      /\ On(t) \in Wf /\ wf[On(t)] \in WfRow
  BY NextRead DEF ReadNodes
<1>3. session' = [session EXCEPT ![t] = r]
  <2>1. r = [Done(a) EXCEPT !.nodes = wf[On(t)].nodes, !.met = mixed[On(t)]]
    BY DEF Done
  <2> HIDE DEF r
  <2> QED
    BY <2>1 DEF ReadNodes
<1>4. r \in SessionRow
  <2>1. wf[On(t)].nodes \in SUBSET Nat /\ mixed[On(t)] \in BOOLEAN
    BY <1>2 DEF WfRow, ApiTypeOK
  <2> QED
    BY <1>1, <2>1 DEF SessionRow
<1>5. /\ r.kind = a.kind /\ r.w = a.w /\ r.status = a.status /\ r.late = a.late
      /\ r.steps = Tail(a.steps) /\ r.held = a.held /\ r.snap = a.snap
      /\ r.nodes = wf[On(t)].nodes /\ r.met = mixed[On(t)]
  BY <1>1 DEF SessionRow
<1> HIDE DEF r
<1>6. HasRead(r)
  BY <1>2, <1>5 DEF HasRead
<1> QED
  BY <1>3, <1>4, <1>5, <1>6, Reader DEF ReadNodes

LEMMA ReadEdgesMoves ==
  ASSUME ApiTypeOK, Ordered, NEW t \in Session, ReadEdges(t)
  PROVE  Moves(t)
<1> DEFINE a == session[t]
           r == [a EXCEPT !.steps = Tail(a.steps), !.edges = wf[On(t)].edges]
<1>1. /\ a \in SessionRow /\ Tail(a.steps) \in Seq(Stmt) /\ Regular(a) /\ a.steps # <<>>
      /\ Head(a.steps)[1] = "readEdges"
  BY Before DEF ReadEdges
<1>2. ~Ahead(Tail(a.steps), "readEdges") /\ On(t) \in Wf /\ wf[On(t)] \in WfRow
  BY NextRead DEF ReadEdges
<1>3. session' = [session EXCEPT ![t] = r]
  <2>1. r = [Done(a) EXCEPT !.edges = wf[On(t)].edges]
    BY DEF Done
  <2> HIDE DEF r
  <2> QED
    BY <2>1 DEF ReadEdges
<1>4. r \in SessionRow
  <2>1. wf[On(t)].edges \in SUBSET Nat
    BY <1>2 DEF WfRow
  <2> QED
    BY <1>1, <2>1 DEF SessionRow
<1>5. /\ r.kind = a.kind /\ r.w = a.w /\ r.status = a.status /\ r.late = a.late
      /\ r.steps = Tail(a.steps) /\ r.held = a.held /\ r.snap = a.snap
      /\ r.nodes = a.nodes /\ r.edges = wf[On(t)].edges /\ r.met = a.met
  BY <1>1 DEF SessionRow
<1> HIDE DEF r
<1>6. HasRead(r)
  <2>1. ~a.met => a.nodes = wf[On(t)].nodes /\ ~mixed[On(t)]
    BY <1>1 DEF Regular, HasRead, Ahead, On
  <2>2. wf[On(t)] # None
    BY <1>2, ApiNoneAssumption
  <2>3. ~a.met => wf[On(t)].nodes = wf[On(t)].edges /\ Small(wf[On(t)].nodes)
    BY <1>2, <2>1, <2>2 DEF Ordered, Whole
  <2> QED
    BY <1>2, <1>5, <2>1, <2>3 DEF HasRead
<1> QED
  BY <1>3, <1>4, <1>5, <1>6, Reader DEF ReadEdges

LEMMA RunMoves ==
  ASSUME ApiTypeOK, Ordered, NEW t \in Session, Run(t)
  PROVE  Moves(t)
<1> DEFINE a == session[t]
           r == [a EXCEPT !.steps = Tail(a.steps)]
<1>1. a \in SessionRow /\ Tail(a.steps) \in Seq(Stmt)
  BY Before DEF Run
<1>2. /\ ~Ahead(Tail(a.steps), "readEdges") /\ ~Ahead(Tail(a.steps), "run")
      /\ ~(a.kind = "clone" /\ Tail(a.steps) = <<>>)
  BY NextRead DEF Run
<1>3. session' = [session EXCEPT ![t] = r]
  BY DEF Run, Done
<1>4. r \in SessionRow
  BY <1>1 DEF SessionRow
<1>5. /\ r.kind = a.kind /\ r.w = a.w /\ r.status = a.status /\ r.late = a.late
      /\ r.steps = Tail(a.steps) /\ r.held = a.held /\ r.snap = a.snap
  BY <1>1 DEF SessionRow
<1> HIDE DEF r
<1>6. HasRead(r)
  BY <1>2, <1>5 DEF HasRead
<1> QED
  BY <1>3, <1>4, <1>5, <1>6, Reader DEF Run

LEMMA AdvanceMoves ==
  ASSUME ApiTypeOK, Ordered, NEW t \in Session, Advance(t)
  PROVE  Moves(t)
<1> DEFINE a == session[t]
           d == [a EXCEPT !.steps = Tail(a.steps)]
           to == IF sched[On(t)] # None THEN d.advanced \cup {On(t)} ELSE d.advanced
           r == [d EXCEPT !.advanced = to]
<1>1. a \in SessionRow /\ Tail(a.steps) \in Seq(Stmt) /\ On(t) \in Sched
  BY Before DEF Advance, On, Stmt
<1>2. /\ ~Ahead(Tail(a.steps), "readEdges") /\ ~Ahead(Tail(a.steps), "run")
      /\ ~(a.kind = "clone" /\ Tail(a.steps) = <<>>)
  BY NextRead DEF Advance
<1>3. session' = [session EXCEPT ![t] = r]
  BY DEF Advance, Done
<1>4. r \in SessionRow
  <2>1. d \in SessionRow
    BY <1>1 DEF SessionRow
  <2> HIDE DEF d
  <2>2. to \in SUBSET Sched
    BY <1>1, <2>1 DEF SessionRow
  <2> QED
    BY <2>1, <2>2 DEF SessionRow
<1>5. /\ r.kind = a.kind /\ r.w = a.w /\ r.status = a.status /\ r.late = a.late
      /\ r.steps = Tail(a.steps) /\ r.held = a.held /\ r.snap = a.snap
  BY <1>1 DEF SessionRow
<1> HIDE DEF r
<1>6. HasRead(r)
  BY <1>2, <1>5 DEF HasRead
<1> QED
  BY <1>3, <1>4, <1>5, <1>6, Reader DEF Advance

(* Only a run's transaction advances a schedule.                           *)
LEMMA Advancer ==
  ASSUME NEW a \in SessionRow, Planned(a), Has(a.steps, "advance")
  PROVE  a.kind \in {"fire", "manual"}
<1>0. a.kind \in {"idle", "save", "delete", "status", "clone", "fire", "manual"}
  BY DEF SessionRow
<1>1. a.kind # "idle"
  <2>1. IdleSession.steps = <<>>
    BY DEF IdleSession
  <2> QED
    BY <2>1, HasNone DEF Planned
<1> DEFINE w == a.w
           row == <<"row", w>>
           dn == <<"deleteNodes", w>>
           de == <<"deleteEdges", w>>
<1>2. row[1] # "advance" /\ dn[1] # "advance" /\ de[1] # "advance"
  OBVIOUS
<1>3. /\ SaveRest(w) = {<<row, dn, de>>, <<dn, de>>, <<de>>, <<>>}
      /\ DeleteRest(w) = {<<de, dn, row>>, <<dn, row>>, <<row>>, <<>>}
      /\ StatusRest(w) = {<<row>>, <<>>}
  BY DEF SaveRest, DeleteRest, StatusRest
<1> HIDE DEF row, dn, de
<1>4. \A s \in SaveRest(w) \cup DeleteRest(w) \cup StatusRest(w) : ~Has(s, "advance")
  <2>1. ~Has(<<row, dn, de>>, "advance") /\ ~Has(<<de, dn, row>>, "advance")
    BY <1>2, HasThree
  <2>2. ~Has(<<dn, de>>, "advance") /\ ~Has(<<dn, row>>, "advance")
    BY <1>2, HasTwo
  <2>3. ~Has(<<de>>, "advance") /\ ~Has(<<row>>, "advance") /\ ~Has(<<>>, "advance")
    BY <1>2, HasOne, HasNone
  <2> HIDE DEF Has
  <2> QED
    BY <1>3, <2>1, <2>2, <2>3
<1>5. a.kind \notin {"save", "delete", "status"}
  BY <1>4 DEF Planned
<1>6. a.kind # "clone"
  <2> SUFFICES ASSUME NEW from \in Wf, a.steps \in CloneRest(from) PROVE FALSE
    BY DEF Planned
  <2> DEFINE one == <<"readNodes", from>>
             two == <<"readEdges", from>>
  <2>1. CloneRest(from) = {<<one, two>>, <<two>>, <<>>} /\ one[1] # "advance" /\ two[1] # "advance"
    BY DEF CloneRest
  <2> HIDE DEF one, two
  <2>2. ~Has(<<one, two>>, "advance") /\ ~Has(<<two>>, "advance") /\ ~Has(<<>>, "advance")
    BY <2>1, HasTwo, HasOne, HasNone
  <2> HIDE DEF Has
  <2> QED
    BY <2>1, <2>2
<1> QED
  BY <1>0, <1>1, <1>5, <1>6

(* What is left of a list of statements behind its i-th.                   *)
LEMMA RestFacts ==
  ASSUME NEW s \in Seq(Stmt), NEW i \in DOMAIN s
  PROVE  LET rest == SubSeq(s, i + 1, Len(s)) IN
         /\ rest \in Seq(Stmt)
         /\ \A k \in DOMAIN rest : /\ k \in Nat /\ k >= 1 /\ i + k \in DOMAIN s /\ i + k > 1
                                   /\ rest[k] = s[i + k]
         /\ \A k \in DOMAIN rest : k > 1 => k - 1 \in DOMAIN rest /\ rest[k - 1] = s[i + k - 1]
         /\ rest # <<>> => 1 \in DOMAIN rest /\ Head(rest) = rest[1]
<1> DEFINE rest == SubSeq(s, i + 1, Len(s))
<1>1. i \in Nat /\ i >= 1 /\ Len(s) \in Nat /\ i <= Len(s) /\ DOMAIN s = 1 .. Len(s)
  OBVIOUS
<1>2. rest \in Seq(Stmt) /\ Len(rest) = Len(s) - i
  BY <1>1
<1>3. DOMAIN rest = 1 .. (Len(s) - i)
  BY <1>2
<1>4. \A k \in 1 .. (Len(s) - i) : rest[k] = s[i + k]
  BY <1>1
<1> HIDE DEF rest
<1>5. \A k \in DOMAIN rest : /\ k \in Nat /\ k >= 1 /\ i + k \in DOMAIN s /\ i + k > 1
                             /\ rest[k] = s[i + k]
  BY <1>1, <1>3, <1>4
<1>6. \A k \in DOMAIN rest : k > 1 => k - 1 \in DOMAIN rest /\ rest[k - 1] = s[i + k - 1]
  <2> SUFFICES ASSUME NEW k \in DOMAIN rest, k > 1
               PROVE  k - 1 \in DOMAIN rest /\ rest[k - 1] = s[i + k - 1]
    OBVIOUS
  <2>1. k - 1 \in 1 .. (Len(s) - i) /\ i + (k - 1) = i + k - 1
    BY <1>1, <1>3
  <2> QED
    BY <1>3, <1>4, <2>1
<1>7. rest # <<>> => 1 \in DOMAIN rest /\ Head(rest) = rest[1]
  BY <1>2
<1> QED
  BY <1>2, <1>5, <1>6, <1>7 DEF rest

(* A turn goes on behind the schedule that raised.                         *)
LEMMA SkipBegins ==
  ASSUME ApiTypeOK, Ordered, NEW s \in Sched, CronSkips(s)
  PROVE  /\ Cron \in Session /\ wf' = wf /\ mixed' = mixed /\ sched' = sched /\ edits' = edits
         /\ Moves(Cron)
         /\ \E steps \in Seq(Stmt) :
              /\ session' = [session EXCEPT ![Cron] = [session[Cron] EXCEPT !.steps = steps]]
              /\ \A k \in DOMAIN steps : \E j \in DOMAIN session[Cron].steps :
                   steps[k] = session[Cron].steps[j]
<1> DEFINE a == session[Cron]
           list == a.steps
<1>1. Cron \in Session /\ wf' = wf /\ mixed' = mixed /\ sched' = sched /\ edits' = edits
  BY DEF CronSkips, Session
<1>2. PICK i \in DOMAIN list :
        /\ list[i] = <<"advance", s>>
        /\ session' = [session EXCEPT ![Cron].steps = SubSeq(list, i + 1, Len(list))]
  BY DEF CronSkips
<1> DEFINE rest == SubSeq(list, i + 1, Len(list))
           r == [a EXCEPT !.steps = rest]
<1>3. /\ a \in SessionRow /\ list \in Seq(Stmt) /\ Regular(a)
      /\ \A u \in Session \ {Cron} : Apart(a, session[u])
  BY <1>1 DEF ApiTypeOK, SessionRow, Ordered, RegularSession
<1>4. session' = [session EXCEPT ![Cron] = r]
  BY <1>2
<1>5. /\ rest \in Seq(Stmt)
      /\ \A k \in DOMAIN rest : /\ k \in Nat /\ k >= 1 /\ i + k \in DOMAIN list /\ i + k > 1
                                /\ rest[k] = list[i + k]
      /\ \A k \in DOMAIN rest : k > 1 => k - 1 \in DOMAIN rest /\ rest[k - 1] = list[i + k - 1]
      /\ rest # <<>> => 1 \in DOMAIN rest /\ Head(rest) = rest[1]
  BY <1>3, RestFacts
<1> HIDE DEF rest
<1>6. r \in SessionRow
  BY <1>3, <1>5 DEF SessionRow
<1>7. /\ r.kind = a.kind /\ r.w = a.w /\ r.status = a.status /\ r.late = a.late /\ r.met = a.met
      /\ r.steps = rest /\ r.held = a.held /\ r.snap = a.snap
  BY <1>3 DEF SessionRow
<1> HIDE DEF r
<1>8. list[i][1] = "advance"
  BY <1>2
<1>9. a.kind \in {"fire", "manual"} /\ Chained(list)
  <2>1. a.kind \in {"fire", "manual"}
    BY <1>3, <1>8, Advancer DEF Has, Regular
  <2> QED
    BY <1>3, <2>1 DEF Regular, Planned
<1>10. Chained(rest)
  <2> SUFFICES ASSUME NEW k \in DOMAIN rest
               PROVE  /\ rest[k][1] \in {"readNodes", "readEdges", "run", "advance"}
                      /\ k > 1 /\ rest[k][1] = "readEdges" => rest[k - 1] = <<"readNodes", rest[k][2]>>
                      /\ k > 1 /\ rest[k][1] = "run" => rest[k - 1] = <<"readEdges", rest[k][2]>>
    BY DEF Chained
  <2> DEFINE m == i + k
  <2>1. m \in DOMAIN list /\ m > 1 /\ rest[k] = list[m]
    BY <1>5
  <2>2. k > 1 => rest[k - 1] = list[m - 1]
    <3>1. i \in Nat
      BY <1>3
    <3>2. k \in Nat
      BY <1>5
    <3>3. i + (k - 1) = (i + k) - 1
      BY <3>1, <3>2
    <3> QED
      BY <1>5, <3>3, Zenon
  <2> HIDE DEF m, list
  <2>3. /\ list[m][1] \in {"readNodes", "readEdges", "run", "advance"}
        /\ list[m][1] = "readEdges" => list[m - 1] = <<"readNodes", list[m][2]>>
        /\ list[m][1] = "run" => list[m - 1] = <<"readEdges", list[m][2]>>
    BY <1>9, <2>1 DEF Chained
  <2> QED
    BY <2>1, <2>2, <2>3
<1>11. Planned(r) /\ Grounded(r) /\ Starts(r)
  <2>1. Planned(r)
    BY <1>7, <1>9, <1>10 DEF Planned
  <2>2. Grounded(a) /\ Starts(a)
    BY <1>3 DEF Regular
  <2>3. \A k \in DOMAIN rest : \E j \in DOMAIN list : rest[k] = list[j]
    BY <1>5
  <2>4. Grounded(r)
    BY <1>7, <1>9, <2>2, <2>3 DEF Grounded
  <2>5. Starts(r)
    BY <1>7, <2>2, <2>3 DEF Starts
  <2> QED
    BY <2>1, <2>4, <2>5
<1>12. a.snap = None
  <2>1. ~Ahead(list, "deleteNodes") /\ ~Ahead(list, "deleteEdges")
    <3>1. list # <<>> => 1 \in DOMAIN list /\ Head(list) = list[1]
      BY <1>3
    <3> QED
      BY <1>9, <3>1 DEF Ahead, Chained
  <2> QED
    BY <1>3, <2>1 DEF Regular, Erases
<1>13. Locks(r) /\ Erases(r)
  BY <1>7, <1>9, <1>12 DEF Locks, Erases
<1>14. ~Ahead(rest, "readEdges") /\ ~Ahead(rest, "run")
  <2> SUFFICES ASSUME rest # <<>> PROVE Head(rest)[1] # "readEdges" /\ Head(rest)[1] # "run"
    BY DEF Ahead
  <2>1. Head(rest) = list[i + 1] /\ i + 1 \in DOMAIN list /\ i + 1 > 1 /\ (i + 1) - 1 = i
    BY <1>3, <1>5
  <2> QED
    BY <1>8, <1>9, <2>1 DEF Chained
<1>15. HasRead(r)
  BY <1>7, <1>9, <1>14 DEF HasRead
<1>16. \A u \in Session \ {Cron} : Apart(r, session[u])
  BY <1>3, <1>7 DEF Apart
<1>17. Moves(Cron)
  BY <1>4, <1>6, <1>11, <1>13, <1>15, <1>16 DEF Regular, Moves
<1> QED
  BY <1>1, <1>4, <1>5, <1>17 DEF r

-----------------------------------------------------------------------------
(* What a transaction begins with.                                         *)
LEMMA Opening ==
  ASSUME ApiTypeOK, Ordered, NEW t \in Session, NEW r \in SessionRow, session' = [session EXCEPT ![t] = r],
         Planned(r), Grounded(r), Starts(r), r.held = {}, r.snap = None,
         r.kind \in {"save", "delete", "status"} => Has(r.steps, "row"),
         r.kind \in {"save", "delete"} => Has(r.steps, "deleteNodes") /\ Has(r.steps, "deleteEdges"),
         ~Ahead(r.steps, "readEdges"), ~Ahead(r.steps, "run"),
         r.kind = "clone" =>
           r.steps # <<>> /\ \A u \in Session : session[u].kind = "clone" => session[u].w # r.w
  PROVE  Moves(t)
<1>1. Locks(r) /\ Erases(r) /\ HasRead(r)
  BY DEF Locks, Erases, HasRead
<1>2. \A u \in Session \ {t} : Apart(r, session[u])
  BY DEF Apart
<1> QED
  BY <1>1, <1>2 DEF Regular, Moves

LEMMA SaveBegins ==
  ASSUME ApiTypeOK, Ordered, NEW t \in Caller, NEW w \in Wf, Save(t, w)
  PROVE  Moves(t) /\ wf' = wf /\ mixed' = mixed
<1> DEFINE s == SaveSteps(w)
           r == [IdleSession EXCEPT !.kind = "save", !.w = w, !.edit = edits + 1, !.steps = s]
           one == <<"row", w>>
           two == <<"deleteNodes", w>>
           three == <<"deleteEdges", w>>
<1>1. t \in Session /\ session' = [session EXCEPT ![t] = r] /\ wf' = wf /\ mixed' = mixed /\ wf[w] # None
  BY DEF Session, Save, Opens, Exists
<1>2. s = <<one, two, three>> /\ s \in SaveRest(w)
      /\ one \in Stmt /\ two \in Stmt /\ three \in Stmt
  BY DEF SaveSteps, SaveRest, Stmt
<1>3. /\ one[1] = "row" /\ two[1] = "deleteNodes" /\ three[1] = "deleteEdges"
      /\ one[2] = w /\ two[2] = w /\ three[2] = w
  OBVIOUS
<1> HIDE DEF s, one, two, three
<1>4. \A op : Has(s, op) <=> one[1] = op \/ two[1] = op \/ three[1] = op
  BY <1>2, HasThree
<1>5. s \in Seq(Stmt) /\ s # <<>> /\ Head(s) = one
      /\ \A k \in DOMAIN s : s[k][2] = w
  <2>1. \A k \in DOMAIN s : s[k] = one \/ s[k] = two \/ s[k] = three
    BY <1>2
  <2> QED
    BY <1>2, <1>3, <2>1
<1>6. r \in SessionRow
  <2>1. edits + 1 \in Nat
    BY DEF ApiTypeOK
  <2> QED
    BY <1>5, <2>1, IdleSessionType DEF SessionRow
<1>7. r.kind = "save" /\ r.w = w /\ r.steps = s /\ r.held = {} /\ r.snap = None
  BY DEF IdleSession
<1> HIDE DEF r
<1>8. Planned(r) /\ Grounded(r) /\ Starts(r)
  BY <1>1, <1>2, <1>5, <1>7 DEF Planned, Grounded, Starts
<1>9. ~Ahead(r.steps, "readEdges") /\ ~Ahead(r.steps, "run")
  BY <1>3, <1>5, <1>7 DEF Ahead
<1> QED
  BY <1>1, <1>3, <1>4, <1>6, <1>7, <1>8, <1>9, Opening

LEMMA DeleteBegins ==
  ASSUME ApiTypeOK, Ordered, NEW t \in Caller, NEW w \in Wf, Delete(t, w)
  PROVE  Moves(t) /\ wf' = wf /\ mixed' = mixed
<1> DEFINE s == <<<<"deleteEdges", w>>, <<"deleteNodes", w>>, <<"row", w>>>>
           r == [IdleSession EXCEPT !.kind = "delete", !.w = w, !.status = "archived", !.steps = s]
           one == <<"deleteEdges", w>>
           two == <<"deleteNodes", w>>
           three == <<"row", w>>
<1>1. t \in Session /\ session' = [session EXCEPT ![t] = r] /\ wf' = wf /\ mixed' = mixed /\ wf[w] # None
  BY DEF Session, Delete, Opens, Exists
<1>2. s = <<one, two, three>> /\ s \in DeleteRest(w)
      /\ one \in Stmt /\ two \in Stmt /\ three \in Stmt
  BY DEF DeleteRest, Stmt
<1>3. /\ one[1] = "deleteEdges" /\ two[1] = "deleteNodes" /\ three[1] = "row"
      /\ one[2] = w /\ two[2] = w /\ three[2] = w
  OBVIOUS
<1> HIDE DEF s, one, two, three
<1>4. \A op : Has(s, op) <=> one[1] = op \/ two[1] = op \/ three[1] = op
  BY <1>2, HasThree
<1>5. s \in Seq(Stmt) /\ s # <<>> /\ Head(s) = one
      /\ \A k \in DOMAIN s : s[k][2] = w
  <2>1. \A k \in DOMAIN s : s[k] = one \/ s[k] = two \/ s[k] = three
    BY <1>2
  <2> QED
    BY <1>2, <1>3, <2>1
<1>6. r \in SessionRow
  BY <1>5, IdleSessionType DEF SessionRow, Statuses
<1>7. /\ r.kind = "delete" /\ r.w = w /\ r.steps = s /\ r.held = {} /\ r.snap = None
      /\ r.status = "archived"
  BY DEF IdleSession
<1> HIDE DEF r
<1>8. "archived" # None
  BY ApiNoneAssumption DEF Statuses
<1>9. Planned(r) /\ Grounded(r) /\ Starts(r)
  BY <1>1, <1>2, <1>5, <1>7, <1>8 DEF Planned, Grounded, Starts
<1>10. ~Ahead(r.steps, "readEdges") /\ ~Ahead(r.steps, "run")
  BY <1>3, <1>5, <1>7 DEF Ahead
<1> QED
  BY <1>1, <1>3, <1>4, <1>6, <1>7, <1>9, <1>10, Opening

LEMMA StatusBegins ==
  ASSUME ApiTypeOK, Ordered, NEW t \in Caller, NEW w \in Wf,
         NEW to \in {"active", "paused"}, SetStatus(t, w, to)
  PROVE  Moves(t) /\ wf' = wf /\ mixed' = mixed
<1> DEFINE s == <<<<"row", w>>>>
           r == [IdleSession EXCEPT !.kind = "status", !.w = w, !.status = to, !.steps = s]
           one == <<"row", w>>
<1>1. t \in Session /\ session' = [session EXCEPT ![t] = r] /\ wf' = wf /\ mixed' = mixed /\ wf[w] # None
  BY DEF Session, SetStatus, Opens, Exists
<1>2. s = <<one>> /\ s \in StatusRest(w) /\ one \in Stmt /\ one[1] = "row" /\ one[2] = w
  BY DEF StatusRest, Stmt
<1> HIDE DEF s, one
<1>3. Has(s, "row") /\ s \in Seq(Stmt) /\ s # <<>> /\ Head(s) = one
      /\ \A k \in DOMAIN s : s[k][2] = w
  BY <1>2, HasOne
<1>4. r \in SessionRow
  BY <1>3, IdleSessionType DEF SessionRow, Statuses
<1>5. /\ r.kind = "status" /\ r.w = w /\ r.steps = s /\ r.held = {} /\ r.snap = None
      /\ r.status = to
  BY DEF IdleSession
<1> HIDE DEF r
<1>6. to # None
  BY ApiNoneAssumption DEF Statuses
<1>7. Planned(r) /\ Grounded(r) /\ Starts(r)
  BY <1>1, <1>2, <1>3, <1>5, <1>6 DEF Planned, Grounded, Starts
<1>8. ~Ahead(r.steps, "readEdges") /\ ~Ahead(r.steps, "run")
  BY <1>2, <1>3, <1>5 DEF Ahead
<1> QED
  BY <1>1, <1>3, <1>4, <1>5, <1>7, <1>8, Opening

LEMMA CloneBegins ==
  ASSUME ApiTypeOK, Ordered, NEW t \in Caller, NEW from \in Wf, NEW to \in Wf, Clone(t, from, to)
  PROVE  Moves(t) /\ wf' = wf /\ mixed' = mixed
<1> DEFINE s == Load(from)
           r == [IdleSession EXCEPT !.kind = "clone", !.w = to, !.steps = s]
           one == <<"readNodes", from>>
           two == <<"readEdges", from>>
<1>1. /\ t \in Session /\ session' = [session EXCEPT ![t] = r] /\ wf' = wf /\ mixed' = mixed
      /\ wf[from] # None /\ wf[to] = None
      /\ \A u \in Session : session[u].kind = "clone" => session[u].w # to
  BY DEF Session, Clone, Opens, Exists
<1>2. /\ s = <<one, two>> /\ s \in CloneRest(from) /\ one \in Stmt /\ two \in Stmt
      /\ one[1] = "readNodes" /\ one[2] = from /\ two[2] = from
  BY DEF Load, CloneRest, Stmt
<1> HIDE DEF s, one, two
<1>3. s \in Seq(Stmt) /\ s # <<>> /\ Head(s) = one /\ \A k \in DOMAIN s : s[k][2] = from
  <2>1. \A k \in DOMAIN s : s[k] = one \/ s[k] = two
    BY <1>2
  <2> QED
    BY <1>2, <2>1
<1>4. r \in SessionRow
  BY <1>3, IdleSessionType DEF SessionRow
<1>5. r.kind = "clone" /\ r.w = to /\ r.steps = s /\ r.held = {} /\ r.snap = None
  BY DEF IdleSession
<1> HIDE DEF r
<1>6. Planned(r) /\ Grounded(r) /\ Starts(r)
  BY <1>1, <1>2, <1>3, <1>5 DEF Planned, Grounded, Starts
<1>7. ~Ahead(r.steps, "readEdges") /\ ~Ahead(r.steps, "run")
  BY <1>2, <1>3, <1>5 DEF Ahead
<1> QED
  BY <1>1, <1>3, <1>4, <1>5, <1>6, <1>7, Opening

LEMMA RunShape ==
  ASSUME NEW w
  PROVE  /\ Len(RunSteps(w)) = 3 /\ RunSteps(w)[1] = <<"readNodes", w>>
         /\ RunSteps(w)[2] = <<"readEdges", w>> /\ RunSteps(w)[3] = <<"run", w>>
<1> DEFINE one == <<"readNodes", w>>
           two == <<"readEdges", w>>
           three == <<"run", w>>
<1>1. RunSteps(w) = Append(<<one, two>>, three)
  BY DEF RunSteps, Load
<1> HIDE DEF one, two, three
<1>2. <<one, two>> \in Seq({one, two, three})
  OBVIOUS
<1>3. /\ Len(RunSteps(w)) = 3 /\ RunSteps(w)[1] = one
      /\ RunSteps(w)[2] = two /\ RunSteps(w)[3] = three
  BY <1>1, <1>2
<1> QED
  BY <1>3 DEF one, two, three

LEMMA CronShape ==
  ASSUME NEW s
  PROVE  LET w == sched[s].wf IN
         /\ Len(CronSteps(s)) = 4 /\ CronSteps(s)[1] = <<"readNodes", w>>
         /\ CronSteps(s)[2] = <<"readEdges", w>> /\ CronSteps(s)[3] = <<"run", w>>
         /\ CronSteps(s)[4] = <<"advance", s>>
<1> DEFINE w == sched[s].wf
           one == <<"readNodes", w>>
           two == <<"readEdges", w>>
           three == <<"run", w>>
           four == <<"advance", s>>
<1>1. RunSteps(w) = Append(<<one, two>>, three)
  BY DEF RunSteps, Load
<1>2. CronSteps(s) = Append(RunSteps(w), four)
  BY DEF CronSteps
<1> HIDE DEF one, two, three, four
<1>3. <<one, two>> \in Seq({one, two, three, four})
  OBVIOUS
<1>4. /\ Len(CronSteps(s)) = 4 /\ CronSteps(s)[1] = one /\ CronSteps(s)[2] = two
      /\ CronSteps(s)[3] = three /\ CronSteps(s)[4] = four
  <2>1. RunSteps(w) \in Seq({one, two, three, four})
    BY <1>1, <1>3
  <2>2. /\ Len(RunSteps(w)) = 3 /\ RunSteps(w)[1] = one
        /\ RunSteps(w)[2] = two /\ RunSteps(w)[3] = three
    BY <1>1, <1>3
  <2> QED
    BY <1>2, <2>1, <2>2
<1> QED
  BY <1>4 DEF one, two, three, four

(* The k-th statement of programs of n statements each.                    *)
LEMMA Place ==
  ASSUME NEW n \in {3, 4}, NEW m \in Nat, NEW k \in 1 .. n * m
  PROVE  /\ ((k - 1) \div n) + 1 \in 1 .. m /\ ((k - 1) % n) + 1 \in 1 .. n
         /\ ((k - 1) % n) + 1 # 1 =>
              /\ k > 1 /\ k - 1 \in 1 .. n * m
              /\ ((k - 2) \div n) + 1 = ((k - 1) \div n) + 1
              /\ ((k - 2) % n) + 1 = (k - 1) % n
<1>1. CASE n = 3
  BY <1>1
<1>2. CASE n = 4
  BY <1>2
<1> QED
  BY <1>1, <1>2

LEMMA RunProgram ==
  ASSUME NEW list \in Seq(Wf), list # <<>>
  PROVE  LET s == Programs(list, RunSteps) IN
         /\ s \in Seq(Stmt) /\ s # <<>> /\ Chained(s) /\ Head(s)[1] = "readNodes"
         /\ \A k \in DOMAIN s : s[k][1] # "advance" /\ \E i \in DOMAIN list : s[k][2] = list[i]
<1> DEFINE m == Len(list)
           s == Programs(list, RunSteps)
           i(k) == ((k - 1) \div 3) + 1
           j(k) == ((k - 1) % 3) + 1
<1>1. m \in Nat /\ m >= 1 /\ DOMAIN list = 1 .. m
  OBVIOUS
<1>2. s = [k \in 1 .. 3 * m |-> RunSteps(list[i(k)])[j(k)]]
  <2>1. Len(RunSteps(list[1])) = 3
    BY RunShape
  <2> QED
    BY <2>1 DEF Programs
<1> HIDE DEF s, m
<1>3. DOMAIN s = 1 .. 3 * m /\ \A k \in 1 .. 3 * m : s[k] = RunSteps(list[i(k)])[j(k)]
  BY <1>2
<1>4. ASSUME NEW k \in 1 .. 3 * m
      PROVE  /\ i(k) \in DOMAIN list /\ list[i(k)] \in Wf /\ j(k) \in {1, 2, 3}
             /\ j(k) # 1 => k > 1 /\ k - 1 \in 1 .. 3 * m /\ i(k - 1) = i(k) /\ j(k - 1) = j(k) - 1
             /\ j(k) = 1 => s[k] = <<"readNodes", list[i(k)]>>
             /\ j(k) = 2 => s[k] = <<"readEdges", list[i(k)]>>
             /\ j(k) = 3 => s[k] = <<"run", list[i(k)]>>
  <2>1. i(k) \in 1 .. m /\ j(k) \in 1 .. 3
        /\ (j(k) # 1 => k > 1 /\ k - 1 \in 1 .. 3 * m /\ i(k - 1) = i(k) /\ j(k - 1) = j(k) - 1)
    BY <1>1, Place
  <2>2. j(k) \in {1, 2, 3}
    BY <2>1
  <2>3. i(k) \in DOMAIN list /\ list[i(k)] \in Wf
    BY <1>1, <2>1
  <2>4. s[k] = RunSteps(list[i(k)])[j(k)]
    BY <1>3
  <2> HIDE DEF i, j
  <2> QED
    BY <2>1, <2>2, <2>3, <2>4, RunShape
<1> HIDE DEF i, j
<1>5. \A k \in 1 .. 3 * m :
        /\ s[k] \in Stmt /\ s[k][1] # "advance" /\ s[k][2] = list[i(k)]
        /\ s[k][1] \in {"readNodes", "readEdges", "run"}
        /\ s[k][1] = "readEdges" => j(k) = 2
        /\ s[k][1] = "run" => j(k) = 3
  <2> SUFFICES ASSUME NEW k \in 1 .. 3 * m, NEW w, w = list[i(k)]
               PROVE  /\ s[k] \in Stmt /\ s[k][1] # "advance" /\ s[k][2] = w
                      /\ s[k][1] \in {"readNodes", "readEdges", "run"}
                      /\ s[k][1] = "readEdges" => j(k) = 2
                      /\ s[k][1] = "run" => j(k) = 3
    OBVIOUS
  <2>1. /\ w \in Wf /\ j(k) \in {1, 2, 3}
        /\ j(k) = 1 => s[k] = <<"readNodes", w>>
        /\ j(k) = 2 => s[k] = <<"readEdges", w>>
        /\ j(k) = 3 => s[k] = <<"run", w>>
    BY <1>4
  <2>2. s[k] \in Stmt
    <3>1. <<"readNodes", w>> \in Stmt /\ <<"readEdges", w>> \in Stmt /\ <<"run", w>> \in Stmt
      BY <2>1 DEF Stmt
    <3> QED
      BY <2>1, <3>1
  <2>3. s[k][2] = w
    BY <2>1
  <2>4. /\ s[k][1] # "advance" /\ s[k][1] \in {"readNodes", "readEdges", "run"}
        /\ s[k][1] = "readEdges" => j(k) = 2
        /\ s[k][1] = "run" => j(k) = 3
    BY <2>1
  <2> QED
    BY <2>2, <2>3, <2>4
<1>6. s \in Seq(Stmt) /\ s # <<>>
  <2>1. s \in [1 .. 3 * m -> Stmt]
    BY <1>2, <1>5
  <2>2. 3 * m \in Nat /\ 3 * m >= 1
    BY <1>1
  <2> QED
    BY <2>1, <2>2
<1>7. Chained(s)
  <2> SUFFICES ASSUME NEW k \in 1 .. 3 * m
               PROVE  /\ s[k][1] \in {"readNodes", "readEdges", "run", "advance"}
                      /\ k > 1 /\ s[k][1] = "readEdges" => s[k - 1] = <<"readNodes", s[k][2]>>
                      /\ k > 1 /\ s[k][1] = "run" => s[k - 1] = <<"readEdges", s[k][2]>>
    BY <1>3 DEF Chained
  <2>1. s[k][1] = "readEdges" => s[k - 1] = <<"readNodes", s[k][2]>>
    BY <1>4, <1>5
  <2>2. s[k][1] = "run" => s[k - 1] = <<"readEdges", s[k][2]>>
    BY <1>4, <1>5
  <2> QED
    BY <1>5, <2>1, <2>2
<1>8. Head(s)[1] = "readNodes"
  <2>1. 1 \in 1 .. 3 * m /\ j(1) = 1 /\ Head(s) = s[1]
    BY <1>1, <1>6 DEF j
  <2> QED
    BY <1>4, <2>1
<1>9. \A k \in DOMAIN s : s[k][1] # "advance" /\ \E x \in DOMAIN list : s[k][2] = list[x]
  BY <1>3, <1>4, <1>5
<1> QED
  BY <1>6, <1>7, <1>8, <1>9 DEF s

LEMMA CronProgram ==
  ASSUME NEW list \in Seq(Sched), list # <<>>,
         \A i \in DOMAIN list : sched[list[i]].wf \in Wf
  PROVE  LET s == Programs(list, CronSteps) IN
         /\ s \in Seq(Stmt) /\ s # <<>> /\ Chained(s) /\ Head(s)[1] = "readNodes"
         /\ \A k \in DOMAIN s : s[k][1] # "advance" =>
              \E i \in DOMAIN list : s[k][2] = sched[list[i]].wf
<1> DEFINE m == Len(list)
           s == Programs(list, CronSteps)
           i(k) == ((k - 1) \div 4) + 1
           j(k) == ((k - 1) % 4) + 1
<1>1. m \in Nat /\ m >= 1 /\ DOMAIN list = 1 .. m
  OBVIOUS
<1>2. s = [k \in 1 .. 4 * m |-> CronSteps(list[i(k)])[j(k)]]
  <2>1. Len(CronSteps(list[1])) = 4
    BY CronShape
  <2> QED
    BY <2>1 DEF Programs
<1> HIDE DEF s, m
<1>3. DOMAIN s = 1 .. 4 * m /\ \A k \in 1 .. 4 * m : s[k] = CronSteps(list[i(k)])[j(k)]
  BY <1>2
<1>4. ASSUME NEW k \in 1 .. 4 * m
      PROVE  /\ i(k) \in DOMAIN list /\ list[i(k)] \in Sched /\ sched[list[i(k)]].wf \in Wf
             /\ j(k) \in {1, 2, 3, 4}
             /\ j(k) # 1 => k > 1 /\ k - 1 \in 1 .. 4 * m /\ i(k - 1) = i(k) /\ j(k - 1) = j(k) - 1
             /\ j(k) = 1 => s[k] = <<"readNodes", sched[list[i(k)]].wf>>
             /\ j(k) = 2 => s[k] = <<"readEdges", sched[list[i(k)]].wf>>
             /\ j(k) = 3 => s[k] = <<"run", sched[list[i(k)]].wf>>
             /\ j(k) = 4 => s[k] = <<"advance", list[i(k)]>>
  <2>1. i(k) \in 1 .. m /\ j(k) \in 1 .. 4
        /\ (j(k) # 1 => k > 1 /\ k - 1 \in 1 .. 4 * m /\ i(k - 1) = i(k) /\ j(k - 1) = j(k) - 1)
    BY <1>1, Place
  <2>2. j(k) \in {1, 2, 3, 4}
    BY <2>1
  <2>3. i(k) \in DOMAIN list /\ list[i(k)] \in Sched
    BY <1>1, <2>1
  <2>4. s[k] = CronSteps(list[i(k)])[j(k)]
    BY <1>3
  <2> HIDE DEF i, j
  <2> QED
    BY <2>1, <2>2, <2>3, <2>4, CronShape
<1> HIDE DEF i, j
<1>5. \A k \in 1 .. 4 * m :
        /\ s[k] \in Stmt
        /\ s[k][1] # "advance" => s[k][2] = sched[list[i(k)]].wf
        /\ s[k][1] \in {"readNodes", "readEdges", "run", "advance"}
        /\ s[k][1] = "readEdges" => j(k) = 2
        /\ s[k][1] = "run" => j(k) = 3
  <2> SUFFICES ASSUME NEW k \in 1 .. 4 * m, NEW x, x = list[i(k)], NEW w, w = sched[x].wf
               PROVE  /\ s[k] \in Stmt
                      /\ s[k][1] # "advance" => s[k][2] = w
                      /\ s[k][1] \in {"readNodes", "readEdges", "run", "advance"}
                      /\ s[k][1] = "readEdges" => j(k) = 2
                      /\ s[k][1] = "run" => j(k) = 3
    OBVIOUS
  <2>1. /\ x \in Sched /\ w \in Wf /\ j(k) \in {1, 2, 3, 4}
        /\ j(k) = 1 => s[k] = <<"readNodes", w>>
        /\ j(k) = 2 => s[k] = <<"readEdges", w>>
        /\ j(k) = 3 => s[k] = <<"run", w>>
        /\ j(k) = 4 => s[k] = <<"advance", x>>
    BY <1>4
  <2>2. s[k] \in Stmt
    <3>1. /\ <<"readNodes", w>> \in Stmt /\ <<"readEdges", w>> \in Stmt
          /\ <<"run", w>> \in Stmt /\ <<"advance", x>> \in Stmt
      BY <2>1 DEF Stmt
    <3> QED
      BY <2>1, <3>1
  <2>3. s[k][1] # "advance" => s[k][2] = w
    BY <2>1
  <2>4. /\ s[k][1] \in {"readNodes", "readEdges", "run", "advance"}
        /\ s[k][1] = "readEdges" => j(k) = 2
        /\ s[k][1] = "run" => j(k) = 3
    BY <2>1
  <2> QED
    BY <2>2, <2>3, <2>4
<1>6. s \in Seq(Stmt) /\ s # <<>>
  <2>1. s \in [1 .. 4 * m -> Stmt]
    <3>1. \A k \in 1 .. 4 * m : s[k] \in Stmt
      BY <1>5
    <3> QED
      BY <1>2, <3>1
  <2>2. 4 * m \in Nat /\ 4 * m >= 1
    BY <1>1
  <2> QED
    BY <2>1, <2>2
<1>7. Chained(s)
  <2> SUFFICES ASSUME NEW k \in 1 .. 4 * m
               PROVE  /\ s[k][1] \in {"readNodes", "readEdges", "run", "advance"}
                      /\ k > 1 /\ s[k][1] = "readEdges" => s[k - 1] = <<"readNodes", s[k][2]>>
                      /\ k > 1 /\ s[k][1] = "run" => s[k - 1] = <<"readEdges", s[k][2]>>
    BY <1>3 DEF Chained
  <2>1. s[k][1] = "readEdges" => s[k - 1] = <<"readNodes", s[k][2]>>
    BY <1>4, <1>5
  <2>2. ASSUME s[k][1] = "run" PROVE s[k - 1] = <<"readEdges", s[k][2]>>
    <3>1. j(k) = 3 /\ s[k][2] = sched[list[i(k)]].wf
      BY <1>5, <2>2
    <3>2. k - 1 \in 1 .. 4 * m /\ i(k - 1) = i(k) /\ j(k - 1) = 2
      BY <1>4, <3>1
    <3> QED
      BY <1>4, <3>1, <3>2
  <2> QED
    BY <1>5, <2>1, <2>2
<1>8. Head(s)[1] = "readNodes"
  <2>1. 1 \in 1 .. 4 * m /\ j(1) = 1 /\ Head(s) = s[1]
    BY <1>1, <1>6 DEF j
  <2> QED
    BY <1>4, <2>1
<1>9. \A k \in DOMAIN s : s[k][1] # "advance" => \E x \in DOMAIN list : s[k][2] = sched[list[x]].wf
  BY <1>3, <1>4, <1>5
<1> QED
  BY <1>6, <1>7, <1>8, <1>9 DEF s

(* A list of the elements of a finite set.                                 *)
LEMMA Listed ==
  ASSUME NEW S, IsFiniteSet(S), NEW list \in SetToSeqs(S)
  PROVE  list \in Seq(S)
<1>1. Cardinality(S) \in Nat
  BY FS_CardinalityType
<1> QED
  BY <1>1 DEF SetToSeqs

(* A transaction that will run workflows, each of which exists now.        *)
LEMMA FireBegins ==
  ASSUME ApiTypeOK, Ordered, NEW t \in Session, NEW s \in Seq(Stmt), NEW job \in {"fire", "manual"},
         session' = [session EXCEPT ![t] = [IdleSession EXCEPT !.kind = job, !.steps = s]],
         s # <<>>, Chained(s), Head(s)[1] = "readNodes",
         \A k \in DOMAIN s : s[k][1] # "advance" => wf[s[k][2]] # None,
         job = "fire" => \A k \in DOMAIN s : s[k][1] # "advance" => wf[s[k][2]].status = "active"
  PROVE  Moves(t)
<1> DEFINE r == [IdleSession EXCEPT !.kind = job, !.steps = s]
<1>1. r \in SessionRow
  BY IdleSessionType DEF SessionRow
<1>2. r.kind = job /\ r.steps = s /\ r.held = {} /\ r.snap = None
  BY DEF IdleSession
<1>3. session' = [session EXCEPT ![t] = r]
  OBVIOUS
<1> HIDE DEF r
<1>4. Planned(r) /\ Grounded(r) /\ Starts(r)
  BY <1>2 DEF Planned, Grounded, Starts
<1>5. ~Ahead(r.steps, "readEdges") /\ ~Ahead(r.steps, "run")
  BY <1>2 DEF Ahead
<1> QED
  BY <1>1, <1>2, <1>3, <1>4, <1>5, Opening

(* The run of one workflow: the program of a list of one.                  *)
LEMMA OneRun ==
  ASSUME NEW w \in Wf
  PROVE  /\ RunSteps(w) \in Seq(Stmt) /\ RunSteps(w) # <<>> /\ Chained(RunSteps(w))
         /\ Head(RunSteps(w))[1] = "readNodes"
         /\ \A k \in DOMAIN RunSteps(w) : RunSteps(w)[k][2] = w /\ RunSteps(w)[k][1] # "advance"
<1> DEFINE s == RunSteps(w)
           one == <<"readNodes", w>>
           two == <<"readEdges", w>>
           three == <<"run", w>>
<1>1. Len(s) = 3 /\ s[1] = one /\ s[2] = two /\ s[3] = three
  BY RunShape
<1>2. one \in Stmt /\ two \in Stmt /\ three \in Stmt
  BY DEF Stmt
<1>3. /\ one[1] = "readNodes" /\ two[1] = "readEdges" /\ three[1] = "run"
      /\ one[2] = w /\ two[2] = w /\ three[2] = w
  OBVIOUS
<1>4. s \in Seq(Stmt)
  BY <1>2 DEF RunSteps, Load
<1> HIDE DEF s
<1>5. DOMAIN s = {1, 2, 3} /\ s # <<>> /\ Head(s) = s[1]
  BY <1>1, <1>4
<1>6. \A k \in DOMAIN s : s[k][2] = w /\ s[k][1] # "advance"
  BY <1>1, <1>3, <1>5
<1>7. Chained(s)
  BY <1>1, <1>5 DEF Chained
<1> QED
  BY <1>1, <1>3, <1>4, <1>5, <1>6, <1>7 DEF s

LEMMA RequestRuns ==
  ASSUME ApiTypeOK, Ordered, NEW t \in Caller, NEW w \in Wf, Webhook(t, w) \/ Execute(t, w)
  PROVE  Moves(t) /\ wf' = wf /\ mixed' = mixed
<1>1. t \in Session
  BY DEF Session
<1> DEFINE s == RunSteps(w)
<1>o. /\ s \in Seq(Stmt) /\ s # <<>> /\ Chained(s) /\ Head(s)[1] = "readNodes"
      /\ \A k \in DOMAIN s : s[k][2] = w
  BY OneRun
<1>2. CASE Webhook(t, w)
  <2>1. /\ session' = [session EXCEPT ![t] = [IdleSession EXCEPT !.kind = "fire", !.steps = s]]
        /\ wf' = wf /\ mixed' = mixed /\ wf[w] # None /\ wf[w].status = "active"
    BY <1>2 DEF Webhook, Opens, Startable, Exists
  <2> HIDE DEF s
  <2> QED
    BY <1>1, <1>o, <2>1, FireBegins
<1>3. CASE Execute(t, w)
  <2>1. /\ session' = [session EXCEPT ![t] = [IdleSession EXCEPT !.kind = "manual", !.steps = s]]
        /\ wf' = wf /\ mixed' = mixed /\ wf[w] # None
    BY <1>3 DEF Execute, Opens, Exists
  <2> HIDE DEF s
  <2> QED
    BY <1>1, <1>o, <2>1, FireBegins
<1> QED
  BY <1>2, <1>3

LEMMA EventBegins ==
  ASSUME ApiTypeOK, Ordered, EventTurn
  PROVE  Moves(Listener) /\ wf' = wf /\ mixed' = mixed
<1> DEFINE S == {w \in Wf : Startable(w) /\ wf[w].nodes # {}}
<1>1. PICK list \in SetToSeqs(S) :
        /\ list # <<>>
        /\ Opens(Listener, [IdleSession EXCEPT !.kind = "fire", !.steps = Programs(list, RunSteps)])
  BY DEF EventTurn
<1>2. list \in Seq(S)
  <2>1. IsFiniteSet(S)
    BY ApiFiniteAssumption, FS_Subset
  <2> HIDE DEF S
  <2> QED
    BY <2>1, Listed
<1>3. list \in Seq(Wf) /\ \A i \in DOMAIN list : Startable(list[i])
  BY <1>2
<1> DEFINE s == Programs(list, RunSteps)
<1>4. /\ s \in Seq(Stmt) /\ s # <<>> /\ Chained(s) /\ Head(s)[1] = "readNodes"
      /\ \A k \in DOMAIN s : s[k][1] # "advance" /\ \E i \in DOMAIN list : s[k][2] = list[i]
  BY <1>1, <1>3, RunProgram
<1>5. Listener \in Session /\ wf' = wf /\ mixed' = mixed
      /\ session' = [session EXCEPT ![Listener] = [IdleSession EXCEPT !.kind = "fire", !.steps = s]]
  BY <1>1 DEF Session, Opens
<1> HIDE DEF s
<1>6. \A k \in DOMAIN s : wf[s[k][2]] # None /\ wf[s[k][2]].status = "active"
  BY <1>3, <1>4 DEF Startable, Exists
<1> QED
  BY <1>4, <1>5, <1>6, FireBegins

LEMMA CronBegins ==
  ASSUME ApiTypeOK, Ordered, CronTurn
  PROVE  Moves(Cron) /\ wf' = wf /\ mixed' = mixed
<1>1. PICK S \in SUBSET AllDue :
        /\ S # {}
        /\ \E list \in SetToSeqs(S) :
             session' = [session EXCEPT ![Cron] = [IdleSession EXCEPT !.kind = "fire",
                                           !.steps = Programs(list, CronSteps)]]
  BY DEF CronTurn
<1>2. PICK list \in SetToSeqs(S) :
        session' = [session EXCEPT ![Cron] = [IdleSession EXCEPT !.kind = "fire",
                                      !.steps = Programs(list, CronSteps)]]
  BY <1>1
<1>3. IsFiniteSet(S)
  <2>1. S \subseteq Sched
    BY DEF AllDue
  <2> QED
    BY <2>1, ApiFiniteAssumption, FS_Subset
<1>4. list \in Seq(S)
  BY <1>3, Listed
<1>5. list # <<>>
  <2>1. Cardinality(S) \in Nat /\ Cardinality(S) # 0
    BY <1>1, <1>3, FS_CardinalityType, FS_EmptySet
  <2>2. DOMAIN list = 1 .. Cardinality(S)
    BY DEF SetToSeqs
  <2> QED
    BY <2>1, <2>2
<1>6. list \in Seq(Sched) /\ \A i \in DOMAIN list : list[i] \in Sched /\ Due(list[i])
  BY <1>4 DEF AllDue
<1>7. \A i \in DOMAIN list : /\ sched[list[i]].wf \in Wf
                             /\ wf[sched[list[i]].wf] # None
                             /\ wf[sched[list[i]].wf].status = "active"
  BY <1>6 DEF ApiTypeOK, SchedRow, Due, Startable, Exists
<1> DEFINE s == Programs(list, CronSteps)
<1>8. /\ s \in Seq(Stmt) /\ s # <<>> /\ Chained(s) /\ Head(s)[1] = "readNodes"
      /\ \A k \in DOMAIN s : s[k][1] # "advance" =>
           \E i \in DOMAIN list : s[k][2] = sched[list[i]].wf
  BY <1>5, <1>6, <1>7, CronProgram
<1>9. Cron \in Session /\ wf' = wf /\ mixed' = mixed
      /\ session' = [session EXCEPT ![Cron] = [IdleSession EXCEPT !.kind = "fire", !.steps = s]]
  BY <1>2 DEF Session, CronTurn
<1> HIDE DEF s
<1>10. \A k \in DOMAIN s : s[k][1] # "advance" =>
         wf[s[k][2]] # None /\ wf[s[k][2]].status = "active"
  BY <1>7, <1>8
<1> QED
  BY <1>8, <1>9, <1>10, FireBegins

-----------------------------------------------------------------------------
(* Ends, and what a commit does to the others.                             *)
LEMMA IdleMoves ==
  ASSUME ApiTypeOK, Ordered, NEW t \in Session, session' = [session EXCEPT ![t] = IdleSession]
  PROVE  Moves(t)
<1>1. IdleSession \in SessionRow /\ Regular(IdleSession) /\ \A u \in Session \ {t} : Apart(IdleSession, session[u])
  BY IdleSessionType, IdleRegular
<1> QED
  BY <1>1 DEF Moves

LEMMA SaveFirst ==
  ASSUME NEW w, NEW s \in SaveRest(w), Has(s, "row")
  PROVE  /\ Has(s, "deleteNodes") /\ Has(s, "deleteEdges")
         /\ ~Ahead(s, "deleteNodes") /\ ~Ahead(s, "deleteEdges")
<1> DEFINE one == <<"row", w>>
           two == <<"deleteNodes", w>>
           three == <<"deleteEdges", w>>
<1>0. one[1] = "row" /\ two[1] = "deleteNodes" /\ three[1] = "deleteEdges"
  OBVIOUS
<1>r. SaveRest(w) = {<<one, two, three>>, <<two, three>>, <<three>>, <<>>}
  BY DEF SaveRest
<1> HIDE DEF one, two, three
<1>1. s # <<two, three>> /\ s # <<three>> /\ s # <<>>
  BY <1>0, HasNone, HasOne, HasTwo
<1>2. s = <<one, two, three>>
  BY <1>r, <1>1
<1>3. \A op : Has(s, op) <=> one[1] = op \/ two[1] = op \/ three[1] = op
  BY <1>2, HasThree
<1>4. Head(s) = one
  BY <1>2
<1> QED
  BY <1>0, <1>3, <1>4 DEF Ahead

(* A new workflow is of no transaction that has begun.                     *)
LEMMA CreateOrdered ==
  ASSUME ApiTypeOK, Ordered, NEW t \in Caller, NEW w \in Wf, Create(t, w)
  PROVE  /\ Ordered' /\ session' \in [Session -> SessionRow] /\ wf' \in [Wf -> WfRow \cup {None}]
         /\ mixed' \in [Wf -> BOOLEAN]
<1> DEFINE row == [status |-> "draft", nodes |-> {edits + 1}, edges |-> {edits + 1}]
<1>1. row \in WfRow
  BY DEF WfRow, Statuses, ApiTypeOK
<1>2. row # None
  BY <1>1, ApiNoneAssumption
<1>3. row.nodes = row.edges /\ Small(row.nodes)
  BY DEF Small
<1> HIDE DEF row
<1>4. /\ wf' = [wf EXCEPT ![w] = row] /\ session' = session /\ mixed' = mixed /\ wf[w] = None
      /\ \A u \in Session : session[u].kind = "clone" => session[u].w # w
  BY DEF Create, row
<1>5. wf' \in [Wf -> WfRow \cup {None}] /\ wf'[w] = row /\ \A v \in Wf \ {w} : wf'[v] = wf[v]
  BY <1>1, <1>4 DEF ApiTypeOK
<1>6. ASSUME NEW u \in Session PROVE RegularSession(u)'
  <2> DEFINE a == session[u]
  <2>1. a \in SessionRow /\ Regular(a) /\ a.steps \in Seq(Stmt) /\ a.w \in Wf \cup {None}
    BY DEF ApiTypeOK, Ordered, RegularSession, SessionRow
  <2>2. Planned(session[u])'
    BY <1>4, <2>1 DEF Regular, Planned
  <2>3. Locks(session[u])'
    BY <1>4, <2>1 DEF Regular, Locks
  <2>4. a.kind \in {"save", "delete", "status", "clone"} => a.w \in Wf
    BY <2>1 DEF Regular, Planned
  <2>5. \A k \in DOMAIN a.steps : a.steps[k][1] # "advance" =>
          /\ wf[a.steps[k][2]] # None /\ a.steps[k][2] \in Wf /\ a.steps[k][2] # w
          /\ wf'[a.steps[k][2]] = wf[a.steps[k][2]]
    <3> SUFFICES ASSUME NEW k \in DOMAIN a.steps, a.steps[k][1] # "advance"
                 PROVE  /\ wf[a.steps[k][2]] # None /\ a.steps[k][2] \in Wf
                        /\ a.steps[k][2] # w /\ wf'[a.steps[k][2]] = wf[a.steps[k][2]]
      OBVIOUS
    <3>1. a.steps[k] \in Stmt
      BY <2>1
    <3>2. a.steps[k][2] \in Wf
      BY <3>1 DEF Stmt
    <3>3. wf[a.steps[k][2]] # None
      BY <2>1 DEF Regular, Grounded
    <3> QED
      BY <1>4, <1>5, <3>2, <3>3
  <2>6. a.kind \in {"save", "delete", "status"} => wf'[a.w] = wf[a.w] /\ wf[a.w] # None
    BY <1>4, <1>5, <2>1, <2>4 DEF Regular, Grounded
  <2>7. a.kind = "clone" => wf'[a.w] = wf[a.w]
    BY <1>4, <1>5, <2>4
  <2>8. Grounded(session[u])'
    BY <1>4, <2>1, <2>5, <2>6, <2>7 DEF Regular, Grounded
  <2>9. Erases(session[u])'
    BY <1>4, <2>1, <2>6 DEF Regular, Erases
  <2>10. Ahead(a.steps, "readEdges") => wf'[Head(a.steps)[2]] = wf[Head(a.steps)[2]]
    BY <2>1, <2>5, TailFacts DEF Ahead
  <2>11. HasRead(session[u])'
    BY <1>4, <2>1, <2>10 DEF Regular, HasRead
  <2>12. \A k \in DOMAIN a.steps : a.steps[k][1] = "run" => wf'[a.steps[k][2]] = wf[a.steps[k][2]]
    BY <2>5
  <2>13. Starts(session[u])'
    BY <1>4, <2>1, <2>12 DEF Regular, Starts
  <2> QED
    BY <2>2, <2>3, <2>8, <2>9, <2>11, <2>13 DEF Regular, RegularSession
<1>7. \A u, v \in Session : u # v => Apart(session[u], session[v])'
  BY <1>4 DEF Ordered, Apart
<1>8. \A v \in Wf : Whole(v)'
  BY <1>3, <1>4, <1>5 DEF Ordered, Whole
<1> QED
  BY <1>4, <1>5, <1>6, <1>7, <1>8 DEF Ordered, ApiTypeOK

(* What a commit leaves of its workflow.                                   *)
LEMMA Leaves ==
  ASSUME ApiTypeOK, Ordered, NEW t \in Session, CommitWf(t)
  PROVE  LET w == session[t].w
             k == session[t].kind IN
         /\ w \in Wf /\ session[t] \in SessionRow /\ Regular(session[t]) /\ session[t].steps = <<>>
         /\ k \in {"save", "delete", "status", "clone"}
         /\ k # "clone" => wf[w] # None /\ wf[w] \in WfRow /\ <<"workflows", w>> \in session[t].held
         /\ k = "clone" => wf[w] = None
         /\ k \in {"delete", "status"} => session[t].status # None
         /\ Left(t, w) \in WfRow /\ Left(t, w) # None
         /\ k = "status" => Left(t, w).nodes = wf[w].nodes /\ Left(t, w).edges = wf[w].edges
         /\ k = "save" => /\ Left(t, w).status = wf[w].status
                          /\ Left(t, w).nodes = {session[t].edit} /\ Left(t, w).edges = {session[t].edit}
         /\ k = "delete" /\ ~session[t].met => Left(t, w).nodes = {} /\ Left(t, w).edges = {}
         /\ k = "clone" /\ ~session[t].met =>
              Left(t, w).nodes = Left(t, w).edges /\ Small(Left(t, w).nodes)
<1> DEFINE r == session[t]
           w == r.w
           row == Left(t, w)
<1>1. r \in SessionRow /\ Regular(r) /\ r.steps = <<>> /\ r.kind \in {"save", "delete", "status", "clone"}
  BY DEF CommitWf, ApiTypeOK, Ordered, RegularSession
<1>2. w \in Wf
  BY <1>1 DEF Regular, Planned
<1>3. r.kind # "clone" => wf[w] # None /\ wf[w] \in WfRow
  BY <1>1, <1>2 DEF Regular, Grounded, ApiTypeOK
<1>4. r.kind # "clone" => <<"workflows", w>> \in r.held
  BY <1>1, HasNone DEF Regular, Locks
<1>5. r.kind = "clone" => wf[w] = None
  BY <1>1 DEF Regular, Grounded
<1>6. r.kind \in {"delete", "status"} => r.status # None /\ r.status \in Statuses
  BY <1>1 DEF Regular, Planned, SessionRow
<1>7. r.kind = "save" \/ (r.kind = "delete" /\ ~r.met) =>
        r.goneNodes = wf[w].nodes /\ r.goneEdges = wf[w].edges
  BY <1>1, HasNone DEF Regular, Erases
<1>8. /\ r.edit \in Nat /\ r.goneNodes \in SUBSET Nat /\ r.goneEdges \in SUBSET Nat
      /\ r.nodes \in SUBSET Nat /\ r.edges \in SUBSET Nat
  BY <1>1 DEF SessionRow
<1>9. CASE r.kind = "save"
  <2>1. row = [wf[w] EXCEPT !.nodes = (wf[w].nodes \ r.goneNodes) \cup {r.edit},
                            !.edges = (wf[w].edges \ r.goneEdges) \cup {r.edit}]
    BY <1>9 DEF Left
  <2>2. row \in WfRow /\ row.status = wf[w].status /\ row.nodes = {r.edit} /\ row.edges = {r.edit}
    <3>1. /\ (wf[w].nodes \ r.goneNodes) \cup {r.edit} = {r.edit}
          /\ (wf[w].edges \ r.goneEdges) \cup {r.edit} = {r.edit}
      BY <1>7, <1>9
    <3>2. row = [wf[w] EXCEPT !.nodes = {r.edit}, !.edges = {r.edit}]
      BY <2>1, <3>1
    <3> HIDE DEF row
    <3> QED
      BY <1>3, <1>8, <1>9, <3>2 DEF WfRow
  <2> HIDE DEF row
  <2>3. row # None
    BY <2>2, ApiNoneAssumption
  <2> QED
    BY <1>1, <1>2, <1>3, <1>4, <1>9, <2>2, <2>3 DEF row
<1>10. CASE r.kind = "delete"
  <2>1. row = [status |-> r.status, nodes |-> wf[w].nodes \ r.goneNodes,
               edges |-> wf[w].edges \ r.goneEdges]
    BY <1>10 DEF Left
  <2>2. row \in WfRow /\ (~r.met => row.nodes = {} /\ row.edges = {})
    BY <1>3, <1>6, <1>7, <1>8, <1>10, <2>1 DEF WfRow
  <2> HIDE DEF row
  <2>3. row # None
    BY <2>2, ApiNoneAssumption
  <2> QED
    BY <1>1, <1>2, <1>3, <1>4, <1>6, <1>10, <2>2, <2>3 DEF row
<1>11. CASE r.kind = "status"
  <2>1. row = [wf[w] EXCEPT !.status = r.status]
    BY <1>11 DEF Left
  <2>2. row \in WfRow /\ row.nodes = wf[w].nodes /\ row.edges = wf[w].edges
    BY <1>3, <1>6, <1>11, <2>1 DEF WfRow
  <2> HIDE DEF row
  <2>3. row # None
    BY <2>2, ApiNoneAssumption
  <2> QED
    BY <1>1, <1>2, <1>3, <1>4, <1>6, <1>11, <2>2, <2>3 DEF row
<1>12. CASE r.kind = "clone"
  <2>1. row = [status |-> "draft", nodes |-> r.nodes, edges |-> r.edges]
    BY <1>12 DEF Left
  <2>2. row \in WfRow /\ row.nodes = r.nodes /\ row.edges = r.edges
    BY <1>8, <2>1 DEF WfRow, Statuses
  <2> HIDE DEF row
  <2>3. row # None
    BY <2>2, ApiNoneAssumption
  <2>4. ~r.met => row.nodes = row.edges /\ Small(row.nodes)
    BY <1>1, <1>12, <2>2 DEF Regular, HasRead
  <2> QED
    BY <1>1, <1>2, <1>5, <1>12, <2>2, <2>3, <2>4 DEF row
<1> QED
  BY <1>1, <1>9, <1>10, <1>11, <1>12

(* Another transaction u when t commits.                                   *)
LEMMA CommitRegular ==
  ASSUME ApiTypeOK, Ordered, NEW t \in Session, CommitWf(t), NEW u \in Session, u # t
  PROVE  /\ RegularSession(u)' /\ session'[u] \in SessionRow
         /\ session'[u].held = session[u].held /\ session'[u].kind = session[u].kind /\ session'[u].w = session[u].w
<1> DEFINE a == session[u]
           w == session[t].w
           k == session[t].kind
           met == a.met \/ (k \in {"save", "delete"} /\ Meets(u, w))
           late == IF session[t].status # None /\ w \in ToStart(u) THEN a.late \cup {w} ELSE a.late
           q == [a EXCEPT !.met = met, !.late = late]
<1>1. /\ w \in Wf /\ k \in {"save", "delete", "status", "clone"}
      /\ k # "clone" => wf[w] # None /\ <<"workflows", w>> \in session[t].held
      /\ k = "clone" => wf[w] = None
      /\ k \in {"delete", "status"} => session[t].status # None
      /\ Left(t, w) \in WfRow /\ Left(t, w) # None
      /\ k = "status" => Left(t, w).nodes = wf[w].nodes /\ Left(t, w).edges = wf[w].edges
      /\ k = "save" => Left(t, w).status = wf[w].status
  BY Leaves
<1>2. /\ wf'[w] = Left(t, w) /\ (k = "status" => mixed'[w] = mixed[w])
      /\ \A v \in Wf \ {w} : wf'[v] = wf[v] /\ mixed'[v] = mixed[v]
  BY <1>1 DEF CommitWf, ApiTypeOK
<1>3. session'[u] = q
  BY DEF CommitWf
<1>4. a \in SessionRow /\ Regular(a) /\ a.steps \in Seq(Stmt) /\ Apart(session[t], a)
  BY DEF ApiTypeOK, Ordered, RegularSession, SessionRow
<1>5. a.kind \in {"save", "delete", "status", "clone"} => a.w \in Wf
  BY <1>4 DEF Regular, Planned
<1>6. a.kind = "clone" => a.w # w
  BY <1>1, <1>4 DEF Regular, Grounded, Apart
<1>7. \A j \in DOMAIN a.steps : a.steps[j][1] # "advance" =>
        a.steps[j][2] \in Wf /\ wf[a.steps[j][2]] # None
  <2> SUFFICES ASSUME NEW j \in DOMAIN a.steps, a.steps[j][1] # "advance"
               PROVE  a.steps[j][2] \in Wf /\ wf[a.steps[j][2]] # None
    OBVIOUS
  <2>1. a.steps[j] \in Stmt
    BY <1>4
  <2> QED
    BY <1>4, <2>1 DEF Stmt, Regular, Grounded
<1>8. \A v \in Wf : wf[v] # None => wf'[v] # None
  BY <1>1, <1>2
<1>9. ToStart(u) \subseteq Wf
  BY <1>7 DEF ToStart
<1> HIDE DEF met, late
<1>10. met \in BOOLEAN /\ late \in SUBSET Wf
  BY <1>1, <1>4, <1>9 DEF met, late, SessionRow
<1>11. /\ q.kind = a.kind /\ q.w = a.w /\ q.status = a.status /\ q.steps = a.steps
       /\ q.held = a.held /\ q.snap = a.snap /\ q.goneNodes = a.goneNodes
       /\ q.goneEdges = a.goneEdges /\ q.nodes = a.nodes /\ q.edges = a.edges
       /\ q.met = met /\ q.late = late
  BY <1>4 DEF SessionRow
<1>12. q \in SessionRow
  BY <1>4, <1>10 DEF SessionRow
<1>13. a.kind = "idle" => q = IdleSession
  <2>1. SUFFICES ASSUME a.kind = "idle" PROVE q = IdleSession
    OBVIOUS
  <2>2. a = IdleSession
    BY <1>4, <2>1 DEF Regular, Planned
  <2>3. a.steps = <<>> /\ a.met = FALSE /\ a.late = {}
    BY <2>2 DEF IdleSession
  <2>4. met = FALSE
    BY <2>1, <2>3 DEF met, Meets, At
  <2>5. late = {}
    BY <2>3 DEF late, ToStart
  <2>6. q = [IdleSession EXCEPT !.met = FALSE, !.late = {}]
    BY <2>2, <2>4, <2>5
  <2> HIDE DEF q
  <2> QED
    BY <2>6 DEF IdleSession
<1> HIDE DEF q
<1>14. Planned(session[u])'
  <2>1. Planned(q)
    BY <1>4, <1>11, <1>13 DEF Regular, Planned
  <2> QED
    BY <1>3, <2>1 DEF Planned
<1>15. Grounded(session[u])'
  BY <1>2, <1>3, <1>4, <1>5, <1>6, <1>7, <1>8, <1>11 DEF Regular, Grounded
<1>16. Locks(session[u])'
  BY <1>3, <1>4, <1>11 DEF Regular, Locks
<1>17. Erases(session[u])'
  <2>1. CASE a.kind = "save" /\ a.w = w
    <3>1. wf[w] # None /\ a.steps \in SaveRest(w)
      BY <1>4, <2>1 DEF Regular, Grounded, Planned
    <3>2. Has(a.steps, "row")
      BY <1>1, <1>4, <2>1, <3>1 DEF Regular, Locks, Apart
    <3>3. /\ Has(a.steps, "deleteNodes") /\ Has(a.steps, "deleteEdges")
          /\ ~Ahead(a.steps, "deleteNodes") /\ ~Ahead(a.steps, "deleteEdges")
      BY <3>1, <3>2, SaveFirst
    <3>4. a.snap = None
      BY <1>4, <3>3 DEF Regular, Erases
    <3> QED
      BY <1>3, <1>11, <3>3, <3>4 DEF Erases
  <2>2. CASE a.kind = "delete" /\ a.w = w
    <3>1. wf[w] # None
      BY <1>4, <2>2 DEF Regular, Grounded
    <3>2. k \in {"save", "delete"} => met
      BY <2>2 DEF met, Meets
    <3>3. ~met => ~a.met /\ wf'[w].nodes = wf[w].nodes /\ wf'[w].edges = wf[w].edges
      BY <1>1, <1>2, <3>1, <3>2 DEF met
    <3> QED
      BY <1>3, <1>4, <1>11, <2>2, <3>3 DEF Regular, Erases
  <2>3. CASE a.kind \in {"save", "delete"} /\ a.w # w
    <3>1. wf'[a.w] = wf[a.w] /\ (~met => ~a.met)
      BY <1>2, <1>5, <2>3 DEF met
    <3> QED
      BY <1>3, <1>4, <1>11, <3>1 DEF Regular, Erases
  <2>4. CASE a.kind \notin {"save", "delete"}
    BY <1>3, <1>4, <1>11, <2>4 DEF Regular, Erases
  <2> QED
    BY <2>1, <2>2, <2>3, <2>4
<1>18. HasRead(session[u])'
  <2> DEFINE x == Head(a.steps)[2]
  <2>1. Ahead(a.steps, "readEdges") => x \in Wf /\ wf[x] # None /\ At(u, "readEdges") /\ On(u) = x
    BY <1>4, <1>7, TailFacts DEF Ahead, At, On
  <2>2. Ahead(a.steps, "readEdges") /\ ~met => wf'[x].nodes = wf[x].nodes /\ mixed'[x] = mixed[x]
    <3>1. SUFFICES ASSUME Ahead(a.steps, "readEdges"), ~met, x = w
                   PROVE  wf'[x].nodes = wf[x].nodes /\ mixed'[x] = mixed[x]
      BY <1>2, <2>1
    <3>2. k = "status"
      BY <1>1, <2>1, <3>1 DEF met, Meets
    <3> QED
      BY <1>1, <1>2, <3>1, <3>2
  <2>3. ~met => ~a.met
    BY DEF met
  <2> QED
    BY <1>3, <1>4, <1>11, <2>2, <2>3 DEF Regular, HasRead
<1>19. Starts(session[u])'
  <2>1. ASSUME a.kind = "fire", NEW j \in DOMAIN a.steps, a.steps[j][1] = "run"
        PROVE  wf'[a.steps[j][2]].status = "active" \/ a.steps[j][2] \in late
    <3> DEFINE x == a.steps[j][2]
    <3>1. wf[x].status = "active" \/ x \in a.late
      BY <1>4, <2>1 DEF Regular, Starts
    <3>2. x \in Wf /\ wf[x] # None
      BY <1>7, <2>1
    <3>3. CASE x # w
      BY <1>2, <3>1, <3>2, <3>3 DEF late
    <3>4. CASE x = w /\ k = "save"
      BY <1>1, <1>2, <3>1, <3>4 DEF late
    <3>5. CASE x = w /\ k \in {"delete", "status"}
      <4>1. w \in ToStart(u)
        BY <2>1, <3>5 DEF ToStart
      <4> QED
        BY <1>1, <3>5, <4>1 DEF late
    <3> QED
      BY <1>1, <3>2, <3>3, <3>4, <3>5
  <2> QED
    BY <1>3, <1>11, <2>1 DEF Starts
<1> QED
  BY <1>3, <1>11, <1>12, <1>14, <1>15, <1>16, <1>17, <1>18, <1>19 DEF Regular, RegularSession

LEMMA CommitOrdered ==
  ASSUME ApiTypeOK, Ordered, NEW t \in Session, CommitWf(t)
  PROVE  /\ Ordered' /\ session' \in [Session -> SessionRow] /\ wf' \in [Wf -> WfRow \cup {None}]
         /\ mixed' \in [Wf -> BOOLEAN]
<1> DEFINE w == session[t].w
           k == session[t].kind
           row == Left(t, w)
<1>1. /\ w \in Wf /\ k \in {"save", "delete", "status", "clone"}
      /\ row \in WfRow
      /\ k = "status" => wf[w] # None /\ row.nodes = wf[w].nodes /\ row.edges = wf[w].edges
      /\ k = "save" => row.nodes = {session[t].edit} /\ row.edges = {session[t].edit}
      /\ k = "delete" /\ ~session[t].met => row.nodes = {} /\ row.edges = {}
      /\ k = "clone" /\ ~session[t].met => row.nodes = row.edges /\ Small(row.nodes)
  BY Leaves
<1>2. session'[t] = IdleSession /\ DOMAIN session' = Session
  BY DEF CommitWf
<1>3. RegularSession(t)' /\ session'[t] \in SessionRow
  <2>1. Regular(IdleSession)'
    <3>1. IdleSession.kind = "idle" /\ IdleSession.steps = <<>> /\ IdleSession.snap = None
      BY DEF IdleSession
    <3>2. \A op : ~Ahead(<<>>, op)
      BY DEF Ahead
    <3>3. Planned(IdleSession)' /\ Grounded(IdleSession)' /\ Locks(IdleSession)' /\ Starts(IdleSession)'
      BY <3>1 DEF Planned, Grounded, Locks, Starts
    <3>4. Erases(IdleSession)' /\ HasRead(IdleSession)'
      BY <3>1, <3>2 DEF Erases, HasRead
    <3> QED
      BY <3>3, <3>4 DEF Regular
  <2> QED
    BY <1>2, <2>1, IdleSessionType DEF RegularSession
<1>4. \A u \in Session : RegularSession(u)' /\ session'[u] \in SessionRow
  BY <1>3, CommitRegular
<1>5. session' \in [Session -> SessionRow]
  <2>1. session' = [u \in Session |-> session'[u]]
    BY DEF CommitWf
  <2> QED
    BY <1>4, <2>1
<1>6. ASSUME NEW u \in Session, NEW v \in Session, u # v PROVE Apart(session[u], session[v])'
  <2>1. Apart(session'[u], session'[v])
    <3>1. IdleSession.held = {} /\ IdleSession.kind = "idle"
      BY DEF IdleSession
    <3>2. CASE u = t \/ v = t
      BY <1>2, <3>1, <3>2 DEF Apart
    <3>3. CASE u # t /\ v # t
      <4>1. /\ session'[u].held = session[u].held /\ session'[u].kind = session[u].kind /\ session'[u].w = session[u].w
            /\ session'[v].held = session[v].held /\ session'[v].kind = session[v].kind /\ session'[v].w = session[v].w
        BY <3>3, CommitRegular
      <4> QED
        BY <1>6, <4>1 DEF Ordered, Apart
    <3> QED
      BY <3>2, <3>3
  <2> QED
    BY <2>1 DEF Apart
<1>7. /\ wf' \in [Wf -> WfRow \cup {None}] /\ wf'[w] = row
      /\ \A v \in Wf \ {w} : wf'[v] = wf[v] /\ mixed'[v] = mixed[v]
  BY <1>1 DEF CommitWf, ApiTypeOK
<1> DEFINE m == CASE k = "save" -> FALSE [] k = "status" -> mixed[w]
                  [] OTHER -> mixed[w] \/ session[t].met
<1>8. mixed' = [mixed EXCEPT ![w] = m]
  BY DEF CommitWf
<1>9. m \in BOOLEAN
  <2>1. mixed[w] \in BOOLEAN
    BY <1>1 DEF ApiTypeOK
  <2> QED
    BY <1>1, <2>1
<1>10. mixed' \in [Wf -> BOOLEAN] /\ mixed'[w] = m
  BY <1>1, <1>8, <1>9 DEF ApiTypeOK
<1>11. ASSUME NEW v \in Wf PROVE Whole(v)'
  <2>1. CASE v # w
    BY <1>7, <2>1 DEF Ordered, Whole
  <2>2. CASE v = w
    <3>1. CASE k = "save"
      BY <1>1, <1>7, <2>2, <3>1 DEF Whole, Small
    <3>2. CASE k = "status"
      BY <1>1, <1>7, <1>10, <2>2, <3>2 DEF Ordered, Whole
    <3>3. CASE k = "delete" \/ k = "clone"
      <4>1. ~mixed'[w] => ~session[t].met
        BY <1>10, <3>3
      <4> QED
        BY <1>1, <1>7, <2>2, <3>3, <4>1 DEF Whole, Small
    <3> QED
      BY <1>1, <3>1, <3>2, <3>3
  <2> QED
    BY <2>1, <2>2
<1> QED
  BY <1>4, <1>5, <1>6, <1>7, <1>10, <1>11 DEF Ordered

-----------------------------------------------------------------------------
(* Every action.                                                           *)
LEMMA StepOrdered ==
  ASSUME ApiTypeOK, Ordered, NEW t \in Session, ApiStep(t) \/ Fail(t)
  PROVE  /\ Ordered' /\ session' \in [Session -> SessionRow] /\ wf' \in [Wf -> WfRow \cup {None}]
         /\ mixed' \in [Wf -> BOOLEAN]
<1>1. CASE CommitWf(t)
  BY <1>1, CommitOrdered
<1>2. ASSUME ~CommitWf(t) PROVE Moves(t) /\ wf' = wf /\ mixed' = mixed
  <2>1. CASE UpdateRow(t)
    BY <2>1, UpdateRowMoves DEF UpdateRow
  <2>2. CASE Wait(t)
    BY <2>2, WaitMoves DEF Wait
  <2>3. CASE DeleteRows(t)
    BY <2>3, DeleteRowsMoves DEF DeleteRows
  <2>4. CASE ReadNodes(t)
    BY <2>4, ReadNodesMoves DEF ReadNodes
  <2>5. CASE ReadEdges(t)
    BY <2>5, ReadEdgesMoves DEF ReadEdges
  <2>6. CASE Run(t)
    BY <2>6, RunMoves DEF Run
  <2>7. CASE Advance(t)
    BY <2>7, AdvanceMoves DEF Advance
  <2>8. CASE CommitRun(t)
    BY <2>8, IdleMoves DEF CommitRun
  <2>9. CASE Deadlock(t)
    BY <2>9, IdleMoves DEF Deadlock, RollBack
  <2>10. CASE Fail(t)
    BY <2>10, IdleMoves DEF Fail, RollBack
  <2> QED
    BY <1>2, <2>1, <2>2, <2>3, <2>4, <2>5, <2>6, <2>7, <2>8, <2>9, <2>10 DEF ApiStep
<1>3. ASSUME Moves(t), wf' = wf, mixed' = mixed
      PROVE  /\ Ordered' /\ session' \in [Session -> SessionRow] /\ wf' \in [Wf -> WfRow \cup {None}]
             /\ mixed' \in [Wf -> BOOLEAN]
  BY <1>3, MovesOrdered DEF ApiTypeOK
<1> QED
  BY <1>1, <1>2, <1>3

LEMMA RestOrdered ==
  ASSUME ApiTypeOK, Ordered, wf' = wf, mixed' = mixed, session' = session
  PROVE  /\ Ordered' /\ session' \in [Session -> SessionRow] /\ wf' \in [Wf -> WfRow \cup {None}]
         /\ mixed' \in [Wf -> BOOLEAN]
<1>1. \A u \in Session : RegularSession(u)'
  BY RegularStays DEF Ordered, RegularSession
<1>2. \A u, v \in Session : u # v => Apart(session[u], session[v])'
  BY DEF Ordered, Apart
<1>3. \A w \in Wf : Whole(w)'
  BY DEF Ordered, Whole
<1> QED
  BY <1>1, <1>2, <1>3 DEF Ordered, ApiTypeOK

LEMMA RequestOrdered ==
  ASSUME ApiTypeOK, Ordered, NEW t \in Caller, NEW w \in Wf,
         \/ Create(t, w) \/ Save(t, w) \/ Delete(t, w)
         \/ \E s \in {"active", "paused"} : SetStatus(t, w, s)
         \/ \E to \in Wf : Clone(t, w, to)
         \/ Webhook(t, w) \/ Execute(t, w)
  PROVE  /\ Ordered' /\ session' \in [Session -> SessionRow] /\ wf' \in [Wf -> WfRow \cup {None}]
         /\ mixed' \in [Wf -> BOOLEAN]
<1>1. CASE Create(t, w)
  BY <1>1, CreateOrdered
<1>2. ASSUME ~Create(t, w) PROVE Moves(t) /\ wf' = wf /\ mixed' = mixed
  BY <1>2, SaveBegins, DeleteBegins, StatusBegins, CloneBegins, RequestRuns
<1>3. ASSUME Moves(t), wf' = wf, mixed' = mixed
      PROVE  /\ Ordered' /\ session' \in [Session -> SessionRow] /\ wf' \in [Wf -> WfRow \cup {None}]
             /\ mixed' \in [Wf -> BOOLEAN]
  BY <1>3, MovesOrdered DEF ApiTypeOK, Session
<1> QED
  BY <1>1, <1>2, <1>3

LEMMA NextOrdered ==
  ASSUME ApiTypeOK, Ordered, [ApiNext]_apiVars
  PROVE  /\ Ordered' /\ session' \in [Session -> SessionRow] /\ wf' \in [Wf -> WfRow \cup {None}]
         /\ mixed' \in [Wf -> BOOLEAN]
<1>1. ASSUME NEW t \in Session, Moves(t), wf' = wf, mixed' = mixed
      PROVE  /\ Ordered' /\ session' \in [Session -> SessionRow] /\ wf' \in [Wf -> WfRow \cup {None}]
             /\ mixed' \in [Wf -> BOOLEAN]
  BY <1>1, MovesOrdered DEF ApiTypeOK
<1>2. CASE \E t \in Caller, w \in Wf :
             \/ Create(t, w) \/ Save(t, w) \/ Delete(t, w)
             \/ \E s \in {"active", "paused"} : SetStatus(t, w, s)
             \/ \E to \in Wf : Clone(t, w, to)
             \/ Webhook(t, w) \/ Execute(t, w)
  BY <1>2, RequestOrdered
<1>3. CASE \E w \in Wf, s \in Sched : CreateSchedule(w, s)
  BY <1>3, RestOrdered DEF CreateSchedule
<1>4. CASE \E s \in Sched : DeleteSchedule(s) \/ Tick(s)
  BY <1>4, RestOrdered DEF DeleteSchedule, Tick
<1>9. CASE \E s \in Sched : CronSkips(s)
  BY <1>1, <1>9, SkipBegins
<1>5. CASE EventTurn
  BY <1>1, <1>5, EventBegins DEF Session
<1>6. CASE CronTurn
  BY <1>1, <1>6, CronBegins DEF Session
<1>7. CASE \E t \in Session : ApiStep(t) \/ Fail(t)
  BY <1>7, StepOrdered
<1>8. CASE UNCHANGED apiVars
  BY <1>8, RestOrdered DEF apiVars
<1> QED
  BY <1>2, <1>3, <1>4, <1>5, <1>6, <1>7, <1>8, <1>9 DEF ApiNext

LEMMA KeptOne ==
  ASSUME ApiTypeOK, Kept, NEW t \in Session, NEW r, session' = [session EXCEPT ![t] = r], sched' = sched,
         t # Cron => /\ r.advanced = {}
                     /\ r.kind \in {"fire", "manual"} =>
                          \A k \in DOMAIN r.steps : r.steps[k][1] # "advance",
         \A s \in r.advanced : sched[s] # None
  PROVE  Kept'
<1>1. \A u \in Session : session'[u] = IF u = t THEN r ELSE session[u]
  BY DEF ApiTypeOK
<1> QED
  BY <1>1 DEF Kept

(* One statement further, and no schedule advanced.                        *)
LEMMA KeptStep ==
  ASSUME ApiTypeOK, Kept, NEW t \in Session, NEW r, session' = [session EXCEPT ![t] = r], sched' = sched,
         session[t].steps # <<>>, r.kind = session[t].kind, r.steps = Tail(session[t].steps),
         r.advanced = session[t].advanced
  PROVE  Kept'
<1>1. session[t].steps \in Seq(Stmt)
  BY DEF ApiTypeOK, SessionRow
<1>2. \A k \in DOMAIN r.steps : k + 1 \in DOMAIN session[t].steps /\ r.steps[k] = session[t].steps[k + 1]
  BY <1>1, TailFacts
<1>3. t # Cron => /\ r.advanced = {}
                  /\ r.kind \in {"fire", "manual"} =>
                       \A k \in DOMAIN r.steps : r.steps[k][1] # "advance"
  BY <1>2 DEF Kept
<1>4. \A s \in r.advanced : sched[s] # None
  BY DEF Kept
<1> QED
  BY <1>3, <1>4, KeptOne

LEMMA KeptBegins ==
  ASSUME ApiTypeOK, Kept, NEW t \in Caller, NEW w \in Wf,
         \/ Save(t, w) \/ Delete(t, w)
         \/ \E s \in {"active", "paused"} : SetStatus(t, w, s)
         \/ \E to \in Wf : Clone(t, w, to)
         \/ Webhook(t, w) \/ Execute(t, w)
  PROVE  Kept'
<1>1. t \in Session
  BY DEF Session
<1>2. ASSUME NEW r, Opens(t, r), r.advanced = {},
             r.kind \in {"fire", "manual"} =>
               \A k \in DOMAIN r.steps : r.steps[k][1] # "advance"
      PROVE  Kept'
  <2>1. session' = [session EXCEPT ![t] = r] /\ sched' = sched
    BY <1>2 DEF Opens
  <2> QED
    BY <1>1, <1>2, <2>1, KeptOne
<1>3. ASSUME Save(t, w) PROVE Kept'
  <2> DEFINE r == [IdleSession EXCEPT !.kind = "save", !.w = w, !.edit = edits + 1,
                                 !.steps = SaveSteps(w)]
  <2>1. Opens(t, r) /\ r.advanced = {} /\ r.kind = "save"
    BY <1>3 DEF Save, IdleSession
  <2> HIDE DEF r
  <2> QED
    BY <1>2, <2>1
<1>4. ASSUME Delete(t, w) PROVE Kept'
  <2> DEFINE r == [IdleSession EXCEPT !.kind = "delete", !.w = w, !.status = "archived",
                     !.steps = <<<<"deleteEdges", w>>, <<"deleteNodes", w>>, <<"row", w>>>>]
  <2>1. Opens(t, r) /\ r.advanced = {} /\ r.kind = "delete"
    BY <1>4 DEF Delete, IdleSession
  <2> HIDE DEF r
  <2> QED
    BY <1>2, <2>1
<1>5. ASSUME NEW s, SetStatus(t, w, s) PROVE Kept'
  <2> DEFINE r == [IdleSession EXCEPT !.kind = "status", !.w = w, !.status = s,
                                 !.steps = <<<<"row", w>>>>]
  <2>1. Opens(t, r) /\ r.advanced = {} /\ r.kind = "status"
    BY <1>5 DEF SetStatus, IdleSession
  <2> HIDE DEF r
  <2> QED
    BY <1>2, <2>1
<1>6. ASSUME NEW to, Clone(t, w, to) PROVE Kept'
  <2> DEFINE r == [IdleSession EXCEPT !.kind = "clone", !.w = to, !.steps = Load(w)]
  <2>1. Opens(t, r) /\ r.advanced = {} /\ r.kind = "clone"
    BY <1>6 DEF Clone, IdleSession
  <2> HIDE DEF r
  <2> QED
    BY <1>2, <2>1
<1>7. ASSUME Webhook(t, w) PROVE Kept'
  <2> DEFINE r == [IdleSession EXCEPT !.kind = "fire", !.steps = RunSteps(w)]
  <2>1. Opens(t, r) /\ r.advanced = {} /\ r.steps = RunSteps(w)
    BY <1>7 DEF Webhook, IdleSession
  <2> HIDE DEF r
  <2> QED
    BY <1>2, <2>1, OneRun
<1>8. ASSUME Execute(t, w) PROVE Kept'
  <2> DEFINE r == [IdleSession EXCEPT !.kind = "manual", !.steps = RunSteps(w)]
  <2>1. Opens(t, r) /\ r.advanced = {} /\ r.steps = RunSteps(w)
    BY <1>8 DEF Execute, IdleSession
  <2> HIDE DEF r
  <2> QED
    BY <1>2, <2>1, OneRun
<1> QED
  BY <1>3, <1>4, <1>5, <1>6, <1>7, <1>8

LEMMA KeptEvaluators ==
  ASSUME ApiTypeOK, Kept, EventTurn \/ CronTurn
  PROVE  Kept'
<1>1. CASE EventTurn
  <2> DEFINE S == {w \in Wf : Startable(w) /\ wf[w].nodes # {}}
  <2>1. PICK list \in SetToSeqs(S) :
          /\ list # <<>>
          /\ Opens(Listener, [IdleSession EXCEPT !.kind = "fire", !.steps = Programs(list, RunSteps)])
    BY <1>1 DEF EventTurn
  <2>2. list \in Seq(S)
    <3>1. IsFiniteSet(S)
      BY ApiFiniteAssumption, FS_Subset
    <3> HIDE DEF S
    <3> QED
      BY <3>1, Listed
  <2>3. list \in Seq(Wf)
    BY <2>2
  <2> DEFINE s == Programs(list, RunSteps)
             r == [IdleSession EXCEPT !.kind = "fire", !.steps = s]
  <2>4. \A k \in DOMAIN s : s[k][1] # "advance"
    BY <2>1, <2>3, RunProgram
  <2>5. Listener \in Session /\ session' = [session EXCEPT ![Listener] = r] /\ sched' = sched
    BY <2>1 DEF Session, Opens
  <2> HIDE DEF s
  <2>6. r.steps = s /\ r.advanced = {}
    BY DEF IdleSession
  <2> HIDE DEF r
  <2> QED
    BY <2>4, <2>5, <2>6, KeptOne
<1>2. CASE CronTurn
  <2>1. PICK list :
          session' = [session EXCEPT ![Cron] = [IdleSession EXCEPT !.kind = "fire",
                                        !.steps = Programs(list, CronSteps)]]
    BY <1>2 DEF CronTurn
  <2> DEFINE r == [IdleSession EXCEPT !.kind = "fire", !.steps = Programs(list, CronSteps)]
  <2>2. Cron \in Session /\ session' = [session EXCEPT ![Cron] = r] /\ sched' = sched /\ r.advanced = {}
    BY <1>2, <2>1 DEF Session, CronTurn, IdleSession
  <2> HIDE DEF r
  <2> QED
    BY <2>2, KeptOne
<1> QED
  BY <1>1, <1>2

LEMMA KeptNext ==
  ASSUME ApiTypeOK, Ordered, Kept, [ApiNext]_apiVars
  PROVE  Kept'
<1>1. ASSUME NEW t \in Session, session' = [session EXCEPT ![t] = IdleSession], sched' = sched PROVE Kept'
  <2>1. IdleSession.advanced = {} /\ IdleSession.kind = "idle"
    BY DEF IdleSession
  <2> QED
    BY <1>1, <2>1, KeptOne
<1>2. ASSUME session' = session, \A s \in Sched : sched[s] # None /\ s \in session[Cron].advanced => sched'[s] # None
      PROVE  Kept'
  <2>1. \A t \in Session : session[t].advanced \subseteq Sched
    BY DEF ApiTypeOK, SessionRow
  <2> QED
    BY <1>2, <2>1 DEF Kept
<1>3. ASSUME NEW t \in Session, UpdateRow(t) PROVE Kept'
  <2> DEFINE r == [Done(session[t]) EXCEPT !.held = Done(session[t]).held \cup {<<"workflows", On(t)>>}]
  <2>1. session' = [session EXCEPT ![t] = r] /\ sched' = sched /\ session[t].steps # <<>> /\ session[t] \in SessionRow
    BY <1>3 DEF UpdateRow, At, ApiTypeOK
  <2>2. r.kind = session[t].kind /\ r.steps = Tail(session[t].steps) /\ r.advanced = session[t].advanced
    BY <2>1 DEF Done, SessionRow
  <2> HIDE DEF r
  <2> QED
    BY <2>1, <2>2, KeptStep
<1>4. ASSUME NEW t \in Session, Wait(t) PROVE Kept'
  <2> DEFINE r == [session[t] EXCEPT !.snap = Rows(t)]
  <2>1. session' = [session EXCEPT ![t] = r] /\ sched' = sched /\ session[t] \in SessionRow
    BY <1>4 DEF Wait, ApiTypeOK
  <2>2. r.kind = session[t].kind /\ r.steps = session[t].steps /\ r.advanced = session[t].advanced
    BY <2>1 DEF SessionRow
  <2> HIDE DEF r
  <2> QED
    BY <2>1, <2>2, KeptOne DEF Kept
<1>5. ASSUME NEW t \in Session, DeleteRows(t) PROVE Kept'
  <2> DEFINE gone == IF session[t].snap = None THEN Rows(t) ELSE Rows(t) \cap session[t].snap
             lock == IF gone = {} THEN {} ELSE {<<Table(t), On(t)>>}
             d == [Done(session[t]) EXCEPT !.held = Done(session[t]).held \cup lock, !.snap = None]
             r == IF At(t, "deleteNodes") THEN [d EXCEPT !.goneNodes = gone]
                                          ELSE [d EXCEPT !.goneEdges = gone]
  <2>1. session' = [session EXCEPT ![t] = r] /\ sched' = sched /\ session[t].steps # <<>> /\ session[t] \in SessionRow
    BY <1>5 DEF DeleteRows, At, ApiTypeOK
  <2> HIDE DEF gone, lock
  <2>2. d.kind = session[t].kind /\ d.steps = Tail(session[t].steps) /\ d.advanced = session[t].advanced
        /\ d = [d EXCEPT !.kind = d.kind]
    BY <2>1 DEF Done, SessionRow
  <2>3. /\ [d EXCEPT !.goneNodes = gone].kind = d.kind
        /\ [d EXCEPT !.goneNodes = gone].steps = d.steps
        /\ [d EXCEPT !.goneNodes = gone].advanced = d.advanced
        /\ [d EXCEPT !.goneEdges = gone].kind = d.kind
        /\ [d EXCEPT !.goneEdges = gone].steps = d.steps
        /\ [d EXCEPT !.goneEdges = gone].advanced = d.advanced
    BY <2>1 DEF Done, SessionRow
  <2> HIDE DEF d
  <2>4. r.kind = session[t].kind /\ r.steps = Tail(session[t].steps) /\ r.advanced = session[t].advanced
    BY <2>2, <2>3
  <2> HIDE DEF r
  <2> QED
    BY <2>1, <2>4, KeptStep
<1>6. ASSUME NEW t \in Session, ReadNodes(t) \/ ReadEdges(t) \/ Run(t) PROVE Kept'
  <2>1. PICK r : /\ session' = [session EXCEPT ![t] = r] /\ r.kind = session[t].kind
                 /\ r.steps = Tail(session[t].steps) /\ r.advanced = session[t].advanced
    <3> DEFINE r1 == [Done(session[t]) EXCEPT !.nodes = wf[On(t)].nodes, !.met = mixed[On(t)]]
               r2 == [Done(session[t]) EXCEPT !.edges = wf[On(t)].edges]
               r3 == Done(session[t])
    <3>1. /\ ReadNodes(t) => session' = [session EXCEPT ![t] = r1]
          /\ ReadEdges(t) => session' = [session EXCEPT ![t] = r2]
          /\ Run(t) => session' = [session EXCEPT ![t] = r3]
      BY DEF ReadNodes, ReadEdges, Run
    <3>2. session[t] \in SessionRow
      BY DEF ApiTypeOK
    <3>3. r1.kind = session[t].kind /\ r1.steps = Tail(session[t].steps) /\ r1.advanced = session[t].advanced
      BY <3>2 DEF Done, SessionRow
    <3>4. r2.kind = session[t].kind /\ r2.steps = Tail(session[t].steps) /\ r2.advanced = session[t].advanced
      BY <3>2 DEF Done, SessionRow
    <3>5. r3.kind = session[t].kind /\ r3.steps = Tail(session[t].steps) /\ r3.advanced = session[t].advanced
      BY <3>2 DEF Done, SessionRow
    <3> HIDE DEF r1, r2, r3
    <3> QED
      BY <1>6, <3>1, <3>3, <3>4, <3>5
  <2>2. sched' = sched /\ session[t].steps # <<>>
    BY <1>6 DEF ReadNodes, ReadEdges, Run, At
  <2> QED
    BY <2>1, <2>2, KeptStep
<1>7. ASSUME NEW t \in Session, Advance(t) PROVE Kept'
  <2> DEFINE d == Done(session[t])
             to == IF sched[On(t)] # None THEN d.advanced \cup {On(t)} ELSE d.advanced
             r == [d EXCEPT !.advanced = to]
  <2>1. session' = [session EXCEPT ![t] = r] /\ sched' = sched
    BY <1>7 DEF Advance
  <2>2. /\ session[t] \in SessionRow /\ Regular(session[t]) /\ session[t].steps # <<>>
        /\ session[t].steps \in Seq(Stmt) /\ Head(session[t].steps)[1] = "advance"
    BY <1>7, Before DEF Advance
  <2>3. t = Cron
    <3>1. session[t].kind \in {"fire", "manual"}
      BY <2>2, Issuers DEF Regular
    <3> QED
      BY <2>2, <3>1, TailFacts DEF Kept
  <2>4. r.advanced = to /\ d.advanced = session[t].advanced
    BY <2>2 DEF Done, SessionRow
  <2>5. \A s \in r.advanced : sched[s] # None
    BY <2>4 DEF Kept
  <2> HIDE DEF r
  <2> QED
    BY <2>1, <2>3, <2>5, KeptOne
<1>8. ASSUME NEW t \in Session, CommitWf(t) PROVE Kept'
  <2>1. ASSUME NEW u \in Session
        PROVE  \/ session'[u] = IdleSession
               \/ /\ session'[u].advanced = session[u].advanced /\ session'[u].kind = session[u].kind
                  /\ session'[u].steps = session[u].steps
    <3> DEFINE met == session[u].met \/ (session[t].kind \in {"save", "delete"} /\ Meets(u, session[t].w))
               late == IF session[t].status # None /\ session[t].w \in ToStart(u)
                         THEN session[u].late \cup {session[t].w} ELSE session[u].late
               q == [session[u] EXCEPT !.met = met, !.late = late]
    <3>1. session'[u] = IdleSession \/ session'[u] = q
      BY <1>8 DEF CommitWf
    <3> HIDE DEF met, late
    <3>2. q.advanced = session[u].advanced /\ q.kind = session[u].kind /\ q.steps = session[u].steps
      BY DEF ApiTypeOK, SessionRow
    <3> HIDE DEF q
    <3> QED
      BY <3>1, <3>2
  <2>2. IdleSession.advanced = {} /\ IdleSession.kind = "idle"
    BY DEF IdleSession
  <2>3. sched' = sched
    BY <1>8 DEF CommitWf
  <2> QED
    BY <2>1, <2>2, <2>3 DEF Kept
<1>9. ASSUME NEW t \in Session, CommitRun(t) PROVE Kept'
  <2>1. /\ session' = [session EXCEPT ![t] = IdleSession]
        /\ sched' = [s \in Sched |-> IF s \in session[t].advanced THEN [sched[s] EXCEPT !.due = FALSE]
                                                            ELSE sched[s]]
    BY <1>9 DEF CommitRun
  <2>2. ASSUME NEW s \in Sched, sched[s] # None PROVE sched'[s] # None
    <3>1. sched[s] \in SchedRow
      BY <2>2 DEF ApiTypeOK
    <3>2. [sched[s] EXCEPT !.due = FALSE] \in SchedRow
      BY <3>1 DEF SchedRow
    <3>3. [sched[s] EXCEPT !.due = FALSE] # None
      BY <3>2, ApiNoneAssumption
    <3> QED
      BY <2>1, <2>2, <3>3
  <2>3. IdleSession.advanced = {} /\ IdleSession.kind = "idle"
    BY DEF IdleSession
  <2>4. \A u \in Session : session[u].advanced \subseteq Sched
    BY DEF ApiTypeOK, SessionRow
  <2>5. \A u \in Session : session'[u] = IF u = t THEN IdleSession ELSE session[u]
    BY <2>1 DEF ApiTypeOK
  <2> QED
    BY <2>2, <2>3, <2>4, <2>5 DEF Kept
<1>10. ASSUME NEW t \in Session, ApiStep(t) \/ Fail(t) PROVE Kept'
  <2>1. Deadlock(t) \/ Fail(t) => Kept'
    BY <1>1 DEF Deadlock, Fail, RollBack
  <2> QED
    BY <1>3, <1>4, <1>5, <1>6, <1>7, <1>8, <1>9, <1>10, <2>1 DEF ApiStep
<1>11. ASSUME NEW t \in Caller, NEW w \in Wf, Create(t, w) PROVE Kept'
  BY <1>2, <1>11 DEF Create
<1>12. ASSUME NEW w \in Wf, NEW s \in Sched, CreateSchedule(w, s) PROVE Kept'
  <2>1. session' = session /\ \A x \in Sched \ {s} : sched'[x] = sched[x]
    BY <1>12 DEF CreateSchedule, ApiTypeOK
  <2>2. sched[s] = None
    BY <1>12 DEF CreateSchedule
  <2> QED
    BY <1>2, <2>1, <2>2
<1>13. ASSUME NEW s \in Sched, DeleteSchedule(s) PROVE Kept'
  <2>1. session' = session /\ s \notin session[Cron].advanced /\ \A x \in Sched \ {s} : sched'[x] = sched[x]
    BY <1>13 DEF DeleteSchedule, ApiTypeOK
  <2> QED
    BY <1>2, <2>1
<1>14. ASSUME NEW s \in Sched, Tick(s) PROVE Kept'
  <2>1. session' = session /\ sched[s] \in SchedRow
    BY <1>14 DEF Tick, ApiTypeOK
  <2>2. [sched[s] EXCEPT !.due = TRUE] \in SchedRow
    BY <2>1 DEF SchedRow
  <2>3. [sched[s] EXCEPT !.due = TRUE] # None
    BY <2>2, ApiNoneAssumption
  <2>4. sched' = [sched EXCEPT ![s] = [sched[s] EXCEPT !.due = TRUE]]
    BY <1>14 DEF Tick
  <2>5. \A x \in Sched : sched[x] # None => sched'[x] # None
    BY <2>3, <2>4 DEF ApiTypeOK
  <2> QED
    BY <1>2, <2>1, <2>5
<1>15. UNCHANGED apiVars => Kept'
  BY <1>2 DEF apiVars
<1>16. ASSUME NEW s \in Sched, CronSkips(s) PROVE Kept'
  <2>1. PICK steps \in Seq(Stmt) :
          /\ session' = [session EXCEPT ![Cron] = [session[Cron] EXCEPT !.steps = steps]]
          /\ \A k \in DOMAIN steps : \E j \in DOMAIN session[Cron].steps :
               steps[k] = session[Cron].steps[j]
    BY <1>16, SkipBegins
  <2> DEFINE r == [session[Cron] EXCEPT !.steps = steps]
  <2>2. Cron \in Session /\ sched' = sched /\ session' = [session EXCEPT ![Cron] = r]
    BY <1>16, <2>1, SkipBegins
  <2>3. r.advanced = session[Cron].advanced
    BY <2>2 DEF ApiTypeOK, SessionRow
  <2> HIDE DEF r
  <2> QED
    BY <2>2, <2>3, KeptOne DEF Kept
<1> QED
  BY <1>10, <1>11, <1>12, <1>13, <1>14, <1>15, <1>16, KeptBegins, KeptEvaluators DEF ApiNext

LEMMA NextRest ==
  ASSUME ApiTypeOK, Kept, [ApiNext]_apiVars
  PROVE  sched' \in [Sched -> SchedRow \cup {None}] /\ edits' \in Nat
<1>1. edits + 1 \in Nat /\ edits \in Nat
  BY DEF ApiTypeOK
<1>2. ASSUME sched' = sched, edits' = edits \/ edits' = edits + 1
      PROVE  sched' \in [Sched -> SchedRow \cup {None}] /\ edits' \in Nat
  BY <1>1, <1>2 DEF ApiTypeOK
<1>3. ASSUME NEW t \in Caller, NEW w \in Wf,
             \/ Create(t, w) \/ Save(t, w) \/ Delete(t, w)
             \/ \E s \in {"active", "paused"} : SetStatus(t, w, s)
             \/ \E to \in Wf : Clone(t, w, to)
             \/ Webhook(t, w) \/ Execute(t, w)
      PROVE  sched' = sched /\ (edits' = edits \/ edits' = edits + 1)
  BY <1>3 DEF Create, Save, Delete, SetStatus, Clone, Webhook, Execute, Opens
<1>4. ASSUME NEW w \in Wf, NEW s \in Sched, CreateSchedule(w, s)
      PROVE  sched' \in [Sched -> SchedRow \cup {None}] /\ edits' \in Nat
  BY <1>1, <1>4 DEF CreateSchedule, SchedRow, ApiTypeOK
<1>5. ASSUME NEW s \in Sched, DeleteSchedule(s)
      PROVE  sched' \in [Sched -> SchedRow \cup {None}] /\ edits' \in Nat
  BY <1>1, <1>5 DEF DeleteSchedule, ApiTypeOK
<1>6. ASSUME NEW s \in Sched, Tick(s)
      PROVE  sched' \in [Sched -> SchedRow \cup {None}] /\ edits' \in Nat
  <2>1. sched[s] \in SchedRow
    BY <1>6 DEF Tick, ApiTypeOK
  <2>2. [sched[s] EXCEPT !.due = TRUE] \in SchedRow
    BY <2>1 DEF SchedRow
  <2>3. sched' = [sched EXCEPT ![s] = [sched[s] EXCEPT !.due = TRUE]] /\ edits' = edits
    BY <1>6 DEF Tick
  <2> QED
    BY <1>1, <2>2, <2>3 DEF ApiTypeOK
<1>7. ASSUME NEW t \in Session, CommitRun(t)
      PROVE  sched' \in [Sched -> SchedRow \cup {None}] /\ edits' \in Nat
  <2>1. session[t].advanced \subseteq Sched
    BY DEF ApiTypeOK, SessionRow
  <2>2. ASSUME NEW s \in session[t].advanced
        PROVE  [sched[s] EXCEPT !.due = FALSE] \in SchedRow
    <3>1. sched[s] \in SchedRow
      BY <2>1, <2>2 DEF ApiTypeOK, Kept
    <3> QED
      BY <3>1 DEF SchedRow
  <2>3. /\ edits' = edits
        /\ sched' = [s \in Sched |-> IF s \in session[t].advanced THEN [sched[s] EXCEPT !.due = FALSE]
                                                            ELSE sched[s]]
    BY <1>7 DEF CommitRun
  <2> QED
    BY <1>1, <2>2, <2>3 DEF ApiTypeOK
<1>8. ASSUME NEW t \in Session, ApiStep(t) \/ Fail(t), ~CommitRun(t)
      PROVE  sched' = sched /\ edits' = edits
  BY <1>8 DEF ApiStep, Fail, RollBack, UpdateRow, Wait, DeleteRows, ReadNodes, ReadEdges,
              Run, Advance, CommitWf, Deadlock
<1>9. EventTurn => sched' = sched /\ edits' = edits
  BY DEF EventTurn, Opens
<1>10. CronTurn => sched' = sched /\ edits' = edits
  BY DEF CronTurn
<1>11. UNCHANGED apiVars => sched' = sched /\ edits' = edits
  BY DEF apiVars
<1>12. ASSUME NEW s \in Sched, CronSkips(s) PROVE sched' = sched /\ edits' = edits
  BY <1>12 DEF CronSkips
<1> QED
  BY <1>2, <1>3, <1>4, <1>5, <1>6, <1>7, <1>8, <1>9, <1>10, <1>11, <1>12 DEF ApiNext

-----------------------------------------------------------------------------
LEMMA InitOrdered == ApiInit => ApiTypeOK /\ Ordered /\ Kept
<1> SUFFICES ASSUME ApiInit PROVE ApiTypeOK /\ Ordered /\ Kept
  OBVIOUS
<1> DEFINE row == [status |-> "active", nodes |-> {1}, edges |-> {1}]
<1>1. row \in WfRow /\ row.nodes = row.edges /\ Small(row.nodes)
  BY DEF WfRow, Statuses, Small
<1> HIDE DEF row
<1>2. /\ wf = [w \in Wf |-> IF w \in Existing THEN row ELSE None]
      /\ session = [t \in Session |-> IdleSession]
  BY DEF ApiInit, row
<1>3. ApiTypeOK
  BY <1>1, <1>2, IdleSessionType DEF ApiInit, ApiTypeOK
<1>4. \A t \in Session : RegularSession(t)
  BY <1>2, IdleRegular DEF RegularSession
<1>5. \A t, u \in Session : t # u => Apart(session[t], session[u])
  BY <1>2, IdleRegular
<1>6. \A w \in Wf : Whole(w)
  BY <1>1, <1>2 DEF Whole
<1>7. Kept
  <2>1. IdleSession.advanced = {} /\ IdleSession.kind = "idle"
    BY DEF IdleSession
  <2> QED
    BY <1>2, <2>1 DEF Kept
<1> QED
  BY <1>3, <1>4, <1>5, <1>6, <1>7 DEF Ordered

LEMMA Safe == ApiSpec => [](ApiTypeOK /\ Ordered /\ Kept)
<1>1. ApiTypeOK /\ Ordered /\ Kept /\ [ApiNext]_apiVars => (ApiTypeOK /\ Ordered /\ Kept)'
  BY NextOrdered, KeptNext, NextRest DEF ApiTypeOK
<1> QED
  BY InitOrdered, <1>1, PTL DEF ApiSpec

(* The states of the model are of the declared types.                      *)
THEOREM ApiTypeCorrect == ApiSpec => []ApiTypeOK
BY Safe, PTL

(* Saves, deletions and copies that overlap leave the nodes and the edges  *)
(* of one save.                                                            *)
THEOREM GraphCorrect == ApiSpec => []GraphIsWhole
<1>1. ApiTypeOK /\ Ordered => GraphIsWhole
  <2> SUFFICES ASSUME ApiTypeOK, Ordered, NEW w \in Wf, wf[w] # None, ~mixed[w]
               PROVE  wf[w].nodes = wf[w].edges /\ Cardinality(wf[w].nodes) <= 1
    BY DEF GraphIsWhole
  <2>1. wf[w].nodes = wf[w].edges /\ Small(wf[w].nodes)
    BY DEF Ordered, Whole
  <2>2. ASSUME NEW S, Small(S) PROVE Cardinality(S) <= 1
    <3>1. Cardinality({}) = 0 /\ \A x : Cardinality({x}) = 1
      BY FS_EmptySet, FS_Singleton
    <3>2. CASE S = {}
      BY <3>1, <3>2
    <3>3. ASSUME NEW x \in S, S = {x} PROVE Cardinality(S) <= 1
      BY <3>1, <3>3
    <3> QED
      BY <2>2, <3>2, <3>3 DEF Small
  <2> QED
    BY <2>1, <2>2
<1> QED
  BY <1>1, Safe, PTL

(* A run walks over the nodes and the edges of one save.                   *)
THEOREM RunCorrect == ApiSpec => RunIsOfOneGraph
<1>1. ApiTypeOK /\ Ordered => \A t \in Session : Run(t) => session[t].nodes = session[t].edges \/ session[t].met
  BY DEF Ordered, RegularSession, Regular, HasRead, Run, At, Ahead
<1>2. ApiTypeOK /\ Ordered =>
        [\A t \in Session : Run(t) => session[t].nodes = session[t].edges \/ session[t].met]_apiVars
  BY <1>1
<1> QED
  BY <1>2, Safe, PTL DEF RunIsOfOneGraph

(* What starts by itself was active when it was chosen.                    *)
THEOREM StartCorrect == ApiSpec => LateStartNeedsChoice
<1>1. ASSUME ApiTypeOK, Ordered, NEW t \in Session, Run(t), session[t].kind = "fire"
      PROVE  wf[On(t)].status = "active" \/ On(t) \in session[t].late
  <2>1. session[t].steps \in Seq(Stmt) /\ session[t].steps # <<>> /\ Head(session[t].steps)[1] = "run"
    BY <1>1, Before DEF Run
  <2> QED
    BY <1>1, <2>1, TailFacts DEF Ordered, RegularSession, Regular, Starts, On
<1>2. ApiTypeOK /\ Ordered =>
        [\A t \in Session : Run(t) /\ session[t].kind = "fire" =>
           wf[On(t)].status = "active" \/ On(t) \in session[t].late]_apiVars
  BY <1>1
<1> QED
  BY <1>2, Safe, PTL DEF LateStartNeedsChoice

-----------------------------------------------------------------------------
(* Playbook.                                                               *)

(* Where an execution begins.                                              *)
Roots(e) == Triggers(runs[e].wf)

(* What a walk on the stack remembers of its execution's calls: a call     *)
(* still to come of the node it is at was lost if it was carried out.      *)
Recalls(f) ==
  ~runs[f.exec].again =>
    \A c \in done : c[1] = f.exec =>
      /\ c[2] \in f.visited
      /\ c[2] = f.node /\ c[3] >= f.call => c \in unsure

(* One that has no context gets as far as its first node.                  *)
Unsaved(f) ==
  ~f.saved => f.node \in Roots(f.exec) \cup {None}
              /\ \A k \in DOMAIN f.queue : f.queue[k] \in Roots(f.exec)

(* How deep it is.                                                         *)
Deep(f) ==
  \/ \E a \in runs[f.exec].above \cup {f.exec} : runs[a].resumed
  \/ Cardinality(runs[f.exec].above) <= f.depth

FrameOK(f) ==
  /\ f.exec \in DOMAIN runs /\ runs[f.exec].status = "running"
  /\ f.node # None => f.node \in f.visited
  /\ f.call >= 1 /\ (f.node # None /\ kind[f.node] \in DeskWrites => f.call = 1)
  /\ runs[f.exec].dry => f.dry \/ (~f.saved /\ runs[f.exec].again)
  /\ Recalls(f) /\ Unsaved(f) /\ Deep(f)

FrameAt(j) == FrameOK(stack[j])

RunOK(e) ==
  /\ runs[e].dry => ~runs[e].saved
  /\ runs[e].at # None => runs[e].saved
  /\ runs[e].status = "waiting" =>
       /\ runs[e].at # None
       /\ ~runs[e].again => \A c \in done : c[1] = e => c[2] \in runs[e].visited
  /\ runs[e].above \subseteq DOMAIN runs
  /\ \A a \in runs[e].above : runs[a].dry => runs[a].again
  /\ Cardinality(runs[e].above) > MaxDepth => \E a \in runs[e].above : runs[a].resumed

(* Each call was one of a write, and in a dry run there was a reason.      *)
DoneOK(c) ==
  /\ kind[c[2]] \in Writes /\ c[3] >= 1
  /\ runs[c[1]].dry => kind[c[2]] \in DeskWrites \/ Restarted(c[1], c[2])

Walked ==
  /\ \A j \in DOMAIN stack : FrameAt(j)
  /\ \A j, k \in DOMAIN stack : j # k => stack[j].exec # stack[k].exec
  /\ \A e \in DOMAIN runs : RunOK(e)
  /\ \A c \in done : DoneOK(c)
  /\ RepeatNeedsLostAnswer

-----------------------------------------------------------------------------
(* The stack: its top is replaced, or taken off.                           *)
LEMMA TopReplaced ==
  ASSUME NEW S, NEW s \in Seq(S), s # <<>>, NEW f \in S, NEW u, u = <<f>> \o Tail(s)
  PROVE  /\ u \in Seq(S) /\ DOMAIN u = DOMAIN s /\ 1 \in DOMAIN u
         /\ u[1] = f /\ \A j \in DOMAIN s : j # 1 => u[j] = s[j]
OBVIOUS

LEMMA TailOf ==
  ASSUME NEW S, NEW s \in Seq(S), s # <<>>
  PROVE  Tail(s) \in Seq(S) /\ Len(Tail(s)) = Len(s) - 1 /\ \A j \in 1 .. Len(s) - 1 : Tail(s)[j] = s[j + 1]
<1>1. Len(s) \in Nat /\ Len(s) # 0
  OBVIOUS
<1>2. Tail(s) \in Seq(S)
  OBVIOUS
<1>3. Len(Tail(s)) = Len(s) - 1
  BY <1>1
<1>4. \A j \in 1 .. Len(s) - 1 : Tail(s)[j] = s[j + 1]
  BY <1>1
<1> QED
  BY <1>2, <1>3, <1>4

LEMMA PutOn ==
  ASSUME NEW S, NEW s \in Seq(S), NEW f \in S
  PROVE  /\ <<f>> \o s \in Seq(S) /\ Len(<<f>> \o s) = Len(s) + 1
         /\ (<<f>> \o s)[1] = f
         /\ \A j \in 2 .. Len(s) + 1 : (<<f>> \o s)[j] = s[j - 1]
<1>1. <<f>> \o s \in Seq(S)
  OBVIOUS
<1>2. Len(<<f>> \o s) = Len(s) + 1
  OBVIOUS
<1>3. (<<f>> \o s)[1] = f
  OBVIOUS
<1>4. \A j \in 2 .. Len(s) + 1 : (<<f>> \o s)[j] = s[j - 1]
  OBVIOUS
<1> QED
  BY <1>1, <1>2, <1>3, <1>4

LEMMA Alone ==
  ASSUME NEW S, NEW f \in S
  PROVE  <<f>> \in Seq(S) /\ DOMAIN <<f>> = {1} /\ <<f>>[1] = f
OBVIOUS

LEMMA TopTaken ==
  ASSUME NEW S, NEW s \in Seq(S), s # <<>>, Len(s) # 1
  PROVE  /\ 2 \in DOMAIN s /\ s[2] \in S
         /\ \A g \in S : LET u == <<g>> \o Tail(Tail(s)) IN
              /\ u \in Seq(S) /\ u[1] = g
              /\ \A j \in DOMAIN u : /\ j \in Nat /\ j >= 1 /\ j + 1 \in DOMAIN s
                                     /\ j # 1 => u[j] = s[j + 1]
<1>0. Len(s) \in Nat /\ DOMAIN s = 1 .. Len(s) /\ Len(s) # 0
  OBVIOUS
<1>1. Len(s) > 1
  BY <1>0
<1>2. Tail(s) \in Seq(S) /\ Len(Tail(s)) = Len(s) - 1 /\ \A j \in 1 .. Len(s) - 1 : Tail(s)[j] = s[j + 1]
  BY TailOf
<1>3. Tail(s) # <<>>
  <2>1. Len(Tail(s)) > 0
    BY <1>0, <1>1, <1>2
  <2>2. \A t : Len(t) > 0 => t # <<>>
    OBVIOUS
  <2> QED
    BY <2>1, <2>2
<1> DEFINE v == Tail(Tail(s))
<1>4. v \in Seq(S) /\ Len(v) = Len(s) - 2 /\ \A j \in 1 .. Len(s) - 2 : v[j] = Tail(s)[j + 1]
  <2>1. v \in Seq(S) /\ Len(v) = Len(Tail(s)) - 1 /\ \A j \in 1 .. Len(Tail(s)) - 1 : v[j] = Tail(s)[j + 1]
    BY <1>2, <1>3, TailOf
  <2> HIDE DEF v
  <2> QED
    BY <1>0, <1>2, <2>1
<1> HIDE DEF v
<1>5. \A j \in 1 .. Len(s) - 2 : v[j] = s[j + 2]
  BY <1>0, <1>2, <1>4
<1>6. ASSUME NEW g \in S
      PROVE  LET u == <<g>> \o v IN
              /\ u \in Seq(S) /\ u[1] = g
              /\ \A j \in DOMAIN u : /\ j \in Nat /\ j >= 1 /\ j + 1 \in DOMAIN s
                                     /\ j # 1 => u[j] = s[j + 1]
  <2> DEFINE u == <<g>> \o v
  <2>1. u \in Seq(S) /\ Len(u) = Len(v) + 1 /\ u[1] = g /\ \A j \in 2 .. Len(v) + 1 : u[j] = v[j - 1]
    BY <1>4, PutOn
  <2> HIDE DEF u
  <2>2. DOMAIN u = 1 .. Len(s) - 1
    BY <1>0, <1>1, <1>4, <2>1
  <2>3. \A j \in DOMAIN u : j # 1 => u[j] = s[j + 1]
    BY <1>0, <1>4, <1>5, <2>1, <2>2
  <2>4. u \in Seq(S) /\ u[1] = g /\ \A j \in DOMAIN u : j \in Nat /\ j >= 1 /\ j + 1 \in DOMAIN s
    BY <1>0, <2>1, <2>2
  <2>5. /\ u \in Seq(S) /\ u[1] = g
        /\ \A j \in DOMAIN u : /\ j \in Nat /\ j >= 1 /\ j + 1 \in DOMAIN s
                               /\ j # 1 => u[j] = s[j + 1]
    BY <2>3, <2>4
  <2> QED
    BY <2>5 DEF u
<1>7. 2 \in DOMAIN s /\ s[2] \in S
  BY <1>0, <1>1
<1> QED
  BY <1>6, <1>7 DEF v

LEMMA TopPut ==
  ASSUME NEW S, NEW s \in Seq(S), NEW f \in S, NEW u, u = <<f>> \o s
  PROVE  /\ u \in Seq(S) /\ u[1] = f
         /\ \A j \in DOMAIN u : j \in Nat /\ j >= 1 /\ (j # 1 => j - 1 \in DOMAIN s /\ u[j] = s[j - 1])
OBVIOUS

LEMMA TopIs ==
  ASSUME WalkTypeOK, stack # <<>>
  PROVE  Top \in FrameRow /\ Top = stack[1] /\ 1 \in DOMAIN stack
<1> USE DEF WalkTypeOK, Top
<1> HIDE DEF FrameRow
<1> QED
  OBVIOUS

(* An order of some of the nodes.                                          *)
LEMMA Ordering ==
  ASSUME NEW S, S \subseteq WfNode, NEW q \in Orders(S)
  PROVE  q \in Seq(S) /\ q \in Seq(WfNode)
<1>1. IsFiniteSet(S)
  BY WalkAssumption, FS_Subset
<1>2. q \in Seq(S)
  BY <1>1, Listed DEF Orders
<1> QED
  BY <1>2

LEMMA Targeted == ASSUME NEW n, NEW b PROVE Targets(n, b) \subseteq WfNode
BY WalkAssumption DEF Targets
LEMMA Rooted == ASSUME NEW w PROVE Triggers(w) \subseteq WfNode
BY DEF Triggers

-----------------------------------------------------------------------------
(* Types.                                                                  *)
LEMMA ContinueTypes ==
  ASSUME WalkTypeOK, stack # <<>>, NEW f \in FrameRow, Continue(f)
  PROVE  stack' \in Seq(FrameRow)
<1>1. stack \in Seq(FrameRow)
  BY DEF WalkTypeOK
<1> QED
  BY <1>1, TopReplaced DEF Continue

(* A row of the executions is written.                                     *)
LEMMA Rewritten ==
  ASSUME runs \in Seq(RunRow), NEW e, NEW row \in RunRow, runs' = [runs EXCEPT ![e] = row]
  PROVE  runs' \in Seq(RunRow) /\ DOMAIN runs' = DOMAIN runs
<1> HIDE DEF RunRow
<1>1. runs \in [1 .. Len(runs) -> RunRow] /\ Len(runs) \in Nat
  OBVIOUS
<1>2. runs' \in [1 .. Len(runs) -> RunRow]
  BY <1>1
<1>3. runs' \in Seq(RunRow)
  BY <1>1, <1>2
<1> QED
  BY <1>3

LEMMA EndTypes ==
  ASSUME WalkTypeOK, stack # <<>>, NEW row \in RunRow, End(row)
  PROVE  stack' \in Seq(FrameRow) /\ runs' \in Seq(RunRow) /\ DOMAIN runs' = DOMAIN runs
<1>1. stack \in Seq(FrameRow) /\ runs \in Seq(RunRow)
  BY DEF WalkTypeOK
<1>2. stack' \in Seq(FrameRow)
  <2>1. CASE Len(stack) = 1
    BY <2>1 DEF End
  <2>2. CASE Len(stack) # 1
    <3>1. stack[2] \in FrameRow
      BY <1>1, <2>2, TopTaken
    <3>2. [stack[2] EXCEPT !.result = row.status] \in FrameRow
      BY <3>1 DEF FrameRow, RunRow
    <3>3. stack' = <<[stack[2] EXCEPT !.result = row.status]>> \o Tail(Tail(stack))
      BY <2>2 DEF End
    <3> QED
      BY <1>1, <2>2, <3>2, <3>3, TopTaken
  <2> QED
    BY <2>1, <2>2
<1>3. runs' = [runs EXCEPT ![Top.exec] = row]
  BY DEF End
<1> QED
  BY <1>1, <1>2, <1>3, Rewritten

LEMMA LeftFrame ==
  ASSUME NEW f \in FrameRow, NEW q \in Seq(WfNode), NEW cs \in Seq(SUBSET WfNode)
  PROVE  /\ Leave(f) \in FrameRow
         /\ [f EXCEPT !.attempt = @ + 1, !.call = 1, !.result = None] \in FrameRow
         /\ [Leave(f) EXCEPT !.queue = @ \o q] \in FrameRow
         /\ [Leave(f) EXCEPT !.catches = cs, !.queue = @ \o q] \in FrameRow
<1>1. f.queue \o q \in Seq(WfNode)
  BY DEF FrameRow
<1>2. Leave(f) \in FrameRow /\ Leave(f).queue = f.queue
  BY DEF FrameRow, Leave
<1>3. [f EXCEPT !.attempt = @ + 1, !.call = 1, !.result = None] \in FrameRow
  <2>1. f.attempt + 1 \in Nat /\ 1 \in Nat
    BY DEF FrameRow
  <2>2. \A a, c \in Nat : [f EXCEPT !.attempt = a, !.call = c, !.result = None] \in FrameRow
    BY DEF FrameRow
  <2> QED
    BY <2>1, <2>2
<1>4. \A g \in FrameRow, r \in Seq(WfNode) : [g EXCEPT !.queue = r] \in FrameRow
  BY DEF FrameRow
<1>5. \A g \in FrameRow, r \in Seq(WfNode) : [g EXCEPT !.catches = cs, !.queue = r] \in FrameRow
  BY DEF FrameRow
<1> HIDE DEF FrameRow, Leave
<1> QED
  BY <1>1, <1>2, <1>3, <1>4, <1>5

LEMMA FrameFields ==
  ASSUME NEW f \in FrameRow
  PROVE  /\ \A q \in Seq(WfNode) : [f EXCEPT !.queue = q] \in FrameRow
         /\ \A q \in Seq(WfNode), v \in SUBSET WfNode :
              [f EXCEPT !.queue = q, !.visited = v] \in FrameRow
         /\ \A c \in Nat : [f EXCEPT !.call = c] \in FrameRow
BY DEF FrameRow

(* A node is taken from the queue.                                         *)
LEMMA Taken ==
  ASSUME NEW f \in FrameRow, f.queue # <<>>, f = Top
  PROVE  /\ Head(f.queue) \in WfNode /\ Head(f.queue) = f.queue[1] /\ 1 \in DOMAIN f.queue
         /\ [f EXCEPT !.queue = Tail(@)] \in FrameRow
         /\ Visited(Head(f.queue)) \in FrameRow
         /\ \A k \in DOMAIN Tail(f.queue) : k + 1 \in DOMAIN f.queue /\ Tail(f.queue)[k] = f.queue[k + 1]
<1>1. f.queue \in Seq(WfNode) /\ f.visited \in SUBSET WfNode
  BY DEF FrameRow
<1>2. Head(f.queue) \in WfNode /\ Head(f.queue) = f.queue[1] /\ 1 \in DOMAIN f.queue
  BY <1>1
<1>3. Tail(f.queue) \in Seq(WfNode)
  BY <1>1
<1>4. \A k \in DOMAIN Tail(f.queue) : k + 1 \in DOMAIN f.queue /\ Tail(f.queue)[k] = f.queue[k + 1]
  BY <1>1
<1>5. f.visited \cup {Head(f.queue)} \in SUBSET WfNode
  BY <1>1, <1>2
<1> QED
  BY <1>2, <1>3, <1>4, <1>5, FrameFields DEF Visited

LEMMA EndedRow ==
  ASSUME WalkTypeOK, stack # <<>>, NEW s \in Ends, Top.exec \in DOMAIN runs
  PROVE  [runs[Top.exec] EXCEPT !.status = s, !.visited = Top.visited] \in RunRow
<1>1. runs[Top.exec] \in RunRow
  <2> HIDE DEF RunRow
  <2> QED
    BY DEF WalkTypeOK
<1>2. Top.visited \subseteq WfNode
  BY TopIs DEF FrameRow
<1> QED
  BY <1>1, <1>2 DEF RunRow

(* How a node ends: its walk begins it again, ends, or goes on.            *)
LEMMA Settled ==
  ASSUME WalkTypeOK, stack # <<>>, NEW result, NEW branch, Settle(result, branch)
  PROVE  \/ /\ result = "failed" /\ runs' = runs
            /\ Continue([Top EXCEPT !.attempt = @ + 1, !.call = 1, !.result = None])
         \/ \E s \in {"failed", "success"} : Ended(s)
         \/ /\ Top.saved /\ runs' = runs
            /\ \E q \in Seq(WfNode) :
                 \/ Continue([Leave(Top) EXCEPT !.queue = @ \o q])
                 \/ \E cs \in Seq(SUBSET WfNode) :
                      Continue([Leave(Top) EXCEPT !.catches = cs, !.queue = @ \o q])
<1>1. Top \in FrameRow
  BY TopIs
<1> DEFINE f == Leave(Top) n == Top.node
<1>2. f.catches = Top.catches
  BY <1>1 DEF Leave, FrameRow
<1>3. CASE result = "failed" /\ Top.attempt < Retry[n]
  BY <1>3 DEF Settle
<1>4. CASE ~(result = "failed" /\ Top.attempt < Retry[n]) /\ ~Top.saved
  BY <1>4 DEF Settle
<1>5. CASE ~(result = "failed" /\ Top.attempt < Retry[n]) /\ Top.saved
           /\ result = "failed" /\ OnError[n] # "continue"
  <2>1. CASE f.catches = <<>>
    BY <1>5, <2>1 DEF Settle
  <2>2. CASE f.catches # <<>>
    <3>1. PICK q \in Orders({m \in Head(f.catches) : Unseen(f, m)}) :
             Continue([f EXCEPT !.catches = Tail(@), !.queue = @ \o q])
      BY <1>5, <2>2 DEF Settle
    <3>2. Head(f.catches) \subseteq WfNode
      BY <1>1, <1>2, <2>2 DEF FrameRow
    <3>3. q \in Seq(WfNode)
      BY <3>2, Ordering
    <3>4. runs' = runs
      BY <1>5, <2>2 DEF Settle
    <3>5. Tail(f.catches) \in Seq(SUBSET WfNode)
      BY <1>1, <1>2, <2>2 DEF FrameRow
    <3> QED
      BY <1>5, <3>1, <3>3, <3>4, <3>5
  <2> QED
    BY <2>1, <2>2
<1>6. CASE ~(result = "failed" /\ Top.attempt < Retry[n]) /\ Top.saved
           /\ ~(result = "failed" /\ OnError[n] # "continue")
  <2>1. CASE kind[n] = "stop"
    BY <1>6, <2>1 DEF Settle
  <2>2. CASE kind[n] # "stop"
    <3>1. PICK q \in Orders({m \in Targets(n, branch) : Unseen(f, m)}) :
             Continue([f EXCEPT !.queue = @ \o q])
      BY <1>6, <2>2 DEF Settle
    <3>2. q \in Seq(WfNode)
      BY Targeted, Ordering
    <3>4. runs' = runs
      BY <1>6, <2>2 DEF Settle
    <3> QED
      BY <1>6, <3>1, <3>2, <3>4
  <2> QED
    BY <2>1, <2>2
<1> QED
  BY <1>3, <1>4, <1>5, <1>6

(* What a walk's step does to the calls.                                   *)
Same == done' = done /\ repeated' = repeated /\ unsure' = unsure

LEMMA SettleTypes ==
  ASSUME WalkTypeOK, stack # <<>>, Top.exec \in DOMAIN runs,
         NEW result, NEW branch, Settle(result, branch)
  PROVE  stack' \in Seq(FrameRow) /\ runs' \in Seq(RunRow) /\ DOMAIN runs' = DOMAIN runs
<1>1. Top \in FrameRow
  BY TopIs
<1>2. runs \in Seq(RunRow)
  BY DEF WalkTypeOK
<1>3. ASSUME runs' = runs, Continue([Top EXCEPT !.attempt = @ + 1, !.call = 1, !.result = None])
      PROVE  stack' \in Seq(FrameRow)
  <2>1. <<>> \in Seq(WfNode) /\ <<>> \in Seq(SUBSET WfNode)
    OBVIOUS
  <2>2. [Top EXCEPT !.attempt = @ + 1, !.call = 1, !.result = None] \in FrameRow
    BY <1>1, <2>1, LeftFrame
  <2> QED
    BY <1>3, <2>2, ContinueTypes
<1>4. ASSUME NEW s \in {"failed", "success"}, Ended(s)
      PROVE  stack' \in Seq(FrameRow) /\ runs' \in Seq(RunRow) /\ DOMAIN runs' = DOMAIN runs
  <2>1. s \in Ends
    BY DEF Ends
  <2> QED
    BY <1>4, <2>1, EndTypes, EndedRow DEF Ended
<1>5. ASSUME NEW q \in Seq(WfNode), Continue([Leave(Top) EXCEPT !.queue = @ \o q])
      PROVE  stack' \in Seq(FrameRow)
  <2>1. <<>> \in Seq(SUBSET WfNode)
    OBVIOUS
  <2>2. [Leave(Top) EXCEPT !.queue = @ \o q] \in FrameRow
    BY <1>1, <2>1, LeftFrame
  <2> QED
    BY <1>5, <2>2, ContinueTypes
<1>6. ASSUME NEW q \in Seq(WfNode), NEW cs \in Seq(SUBSET WfNode),
             Continue([Leave(Top) EXCEPT !.catches = cs, !.queue = @ \o q])
      PROVE  stack' \in Seq(FrameRow)
  <2>2. [Leave(Top) EXCEPT !.catches = cs, !.queue = @ \o q] \in FrameRow
    BY <1>1, LeftFrame
  <2> QED
    BY <1>6, <2>2, ContinueTypes
<1> QED
  BY <1>2, <1>3, <1>4, <1>5, <1>6, Settled

LEMMA NewFrame ==
  ASSUME NEW e \in Nat, NEW q \in Seq(WfNode), NEW v \in SUBSET WfNode, NEW d \in Nat,
         NEW dry \in BOOLEAN, NEW saved \in BOOLEAN
  PROVE  Frame(e, q, v, d, dry, saved) \in FrameRow
BY DEF Frame, FrameRow

LEMMA NewRun ==
  ASSUME NEW w \in Workflow, NEW dry \in BOOLEAN, NEW above \in SUBSET Nat
  PROVE  NewRow(w, dry, above) \in RunRow
BY DEF NewRow, RunRow, Ends

(* The executions, one more.                                               *)
LEMMA Added ==
  ASSUME runs \in Seq(RunRow), NEW r \in RunRow, runs' = Append(runs, r)
  PROVE  /\ runs' \in Seq(RunRow) /\ DOMAIN runs' = DOMAIN runs \cup {Len(runs) + 1}
         /\ Len(runs) + 1 \notin DOMAIN runs /\ Len(runs) + 1 \in Nat /\ DOMAIN runs \subseteq Nat
         /\ runs'[Len(runs) + 1] = r /\ \A e \in DOMAIN runs : runs'[e] = runs[e]
<1> HIDE DEF RunRow
<1>1. Len(runs) \in Nat /\ DOMAIN runs = 1 .. Len(runs)
  OBVIOUS
<1>2. runs' \in Seq(RunRow) /\ Len(runs') = Len(runs) + 1 /\ runs'[Len(runs) + 1] = r
  OBVIOUS
<1>3. DOMAIN runs' = 1 .. Len(runs) + 1
  BY <1>1, <1>2
<1>4. \A e \in DOMAIN runs : runs'[e] = runs[e]
  BY <1>1
<1> QED
  BY <1>1, <1>2, <1>3, <1>4

(* The walk of a step: what it needs of the invariant.                     *)
Walks == WalkTypeOK /\ Walked

LEMMA TopOK ==
  ASSUME Walks, stack # <<>>
  PROVE  Top \in FrameRow /\ FrameOK(Top) /\ Top.exec \in DOMAIN runs
BY TopIs DEF Walks, Walked, FrameAt, FrameOK

LEMMA TypesNext == ASSUME Walks, WalkNext PROVE WalkTypeOK'
<1> USE DEF Walks
<1>1. /\ runs \in Seq(RunRow) /\ stack \in Seq(FrameRow) /\ DOMAIN runs \subseteq Nat
      /\ kind \in [WfNode -> NodeTypes] /\ errors \in Nat
      /\ done \subseteq (DOMAIN runs) \X WfNode \X Nat
      /\ repeated \subseteq done /\ unsure \subseteq (DOMAIN runs) \X WfNode \X Nat
  <2> HIDE DEF RunRow, FrameRow
  <2>1. runs \in Seq(RunRow)
    BY DEF WalkTypeOK
  <2>2. DOMAIN runs \subseteq Nat
    BY <2>1
  <2> QED
    BY <2>2 DEF WalkTypeOK
<1>2. ASSUME NEW D, D = DOMAIN runs', DOMAIN runs \subseteq D, Same, kind' = kind, errors' \in Nat,
             runs' \in Seq(RunRow), stack' \in Seq(FrameRow)
      PROVE  WalkTypeOK'
  BY <1>1, <1>2 DEF WalkTypeOK, Same
<1>3. ASSUME stack # <<>>, Same, kind' = kind, errors' \in Nat, NEW r, NEW b, Settle(r, b)
      PROVE  WalkTypeOK'
  BY <1>2, <1>3, TopOK, SettleTypes
<1>4. ASSUME stack # <<>>, Same, kind' = kind, errors' = errors, NEW f \in FrameRow, Continue(f),
             runs' = runs
      PROVE  WalkTypeOK'
  BY <1>1, <1>2, <1>4, ContinueTypes
<1> USE DEF calls
<1>5. CASE Drop
  <2> DEFINE f == [Top EXCEPT !.queue = Tail(@)]
  <2>1. f \in FrameRow
    BY <1>5, TopOK, Taken DEF Drop
  <2> QED
    BY <1>4, <1>5, <2>1 DEF Drop, Same
<1>6. CASE Try
  <2> DEFINE n == Head(Top.queue)
  <2>1. Top \in FrameRow /\ Top.queue # <<>>
    BY <1>6, TopOK DEF Try
  <2>2. n \in WfNode /\ Visited(n) \in FrameRow
    BY <2>1, Taken
  <2>3. PICK q \in Orders({m \in Targets(n, "try") : Unseen(Visited(n), m)}) :
          Continue([Visited(n) EXCEPT !.queue = @ \o q,
             !.catches = <<{d.to : d \in {c \in Edge : c.from = n /\ c.on = "catch"}}>> \o @])
    BY <1>6 DEF Try
  <2>4. q \in Seq(WfNode)
    BY Targeted, Ordering
  <2> DEFINE cs == <<{d.to : d \in {c \in Edge : c.from = n /\ c.on = "catch"}}>> \o Visited(n).catches
  <2>5. cs \in Seq(SUBSET WfNode)
    <3>1. {d.to : d \in {c \in Edge : c.from = n /\ c.on = "catch"}} \in SUBSET WfNode
      BY WalkAssumption
    <3>2. Visited(n).catches \in Seq(SUBSET WfNode)
      BY <2>2 DEF FrameRow
    <3> QED
      BY <3>1, <3>2
  <2>6. Visited(n).queue \o q \in Seq(WfNode)
    BY <2>2, <2>4 DEF FrameRow
  <2>7. [Visited(n) EXCEPT !.queue = @ \o q, !.catches = cs] \in FrameRow
    <3> HIDE DEF cs
    <3> QED
      BY <2>2, <2>5, <2>6 DEF FrameRow
  <2> QED
    BY <1>4, <1>6, <2>3, <2>7 DEF Try, Same
<1>7. CASE Visit
  <2> DEFINE n == Head(Top.queue)
  <2>1. Top \in FrameRow /\ Top.queue # <<>>
    BY <1>7, TopOK DEF Visit
  <2>2. n \in WfNode /\ Visited(n) \in FrameRow
    BY <2>1, Taken
  <2>3. [Visited(n) EXCEPT !.node = n, !.attempt = 0, !.call = 1] \in FrameRow
    BY <2>2 DEF FrameRow
  <2> QED
    BY <1>4, <1>7, <2>3 DEF Visit, Same
<1>8. CASE FinishWalk
  <2>1. stack # <<>> /\ Ended("success") /\ "success" \in Ends
    BY <1>8 DEF FinishWalk, Ends
  <2>2. stack' \in Seq(FrameRow) /\ runs' \in Seq(RunRow) /\ DOMAIN runs' = DOMAIN runs
    BY <2>1, TopOK, EndedRow, EndTypes DEF Ended
  <2> QED
    BY <1>1, <1>2, <1>8, <2>2 DEF FinishWalk, Same
<1>9. CASE SkipDry
  BY <1>1, <1>3, <1>9 DEF SkipDry, Executing, Same
<1>10. CASE Compute
  BY <1>1, <1>3, <1>10 DEF Compute, Executing, Same
<1>11. CASE Branch
  BY <1>1, <1>3, <1>11 DEF Branch, Executing, Same
<1>12. ASSUME NEW o \in Outcomes, Call(o) PROVE WalkTypeOK'
  <2>1. stack # <<>> /\ Top \in FrameRow /\ Top.exec \in DOMAIN runs /\ Top.node \in WfNode
    BY <1>12, TopOK DEF Call, Executing, FrameRow
  <2>2. stack' \in Seq(FrameRow) /\ runs' \in Seq(RunRow) /\ DOMAIN runs' = DOMAIN runs
    <3>1. CASE Result(kind[Top.node], Top.call, o) = "next"
      <4>1. [Top EXCEPT !.call = @ + 1] \in FrameRow
        <5>1. Top.call + 1 \in Nat
          BY <2>1 DEF FrameRow
        <5> QED
          BY <2>1, <5>1, FrameFields
      <4> QED
        BY <1>1, <1>12, <2>1, <3>1, <4>1, ContinueTypes DEF Call
    <3>2. CASE Result(kind[Top.node], Top.call, o) # "next"
      BY <1>12, <2>1, <3>2, SettleTypes DEF Call
    <3> QED
      BY <3>1, <3>2
  <2> DEFINE c == <<Top.exec, Top.node, Top.call>>
  <2>3. c \in (DOMAIN runs) \X WfNode \X Nat
    BY <2>1 DEF FrameRow
  <2>4. /\ done' \in {done, done \cup {c}} /\ unsure' \in {unsure, unsure \cup {c}}
        /\ repeated' \in {repeated, repeated \cup {c}} /\ done \subseteq done'
        /\ repeated' = repeated \cup {c} => c \in done \/ repeated' = repeated
        /\ errors' \in Nat /\ kind' = kind
    BY <1>1, <1>12 DEF Call
  <2> HIDE DEF c
  <2>5. /\ done' \subseteq (DOMAIN runs') \X WfNode \X Nat
        /\ repeated' \subseteq done' /\ unsure' \subseteq (DOMAIN runs') \X WfNode \X Nat
    BY <1>1, <2>2, <2>3, <2>4
  <2> QED
    BY <1>1, <2>2, <2>4, <2>5 DEF WalkTypeOK
<1>13. CASE PauseWalk
  <2>1. /\ stack # <<>> /\ Top \in FrameRow /\ Top.exec \in DOMAIN runs /\ Top.node \in WfNode
        /\ runs[Top.exec] \in RunRow
    <3> HIDE DEF RunRow
    <3> QED
      BY <1>1, <1>13, TopOK DEF PauseWalk, Executing, FrameRow
  <2>2. ASSUME Top.saved PROVE WalkTypeOK'
    <3> DEFINE row == [runs[Top.exec] EXCEPT !.status = "waiting", !.at = Top.node, !.saved = TRUE,
                                     !.visited = Top.visited]
    <3>1. row \in RunRow
      BY <2>1 DEF RunRow, Ends, FrameRow
    <3>2. End(row)
      BY <1>13, <2>2 DEF PauseWalk
    <3> HIDE DEF row
    <3> QED
      BY <1>1, <1>2, <1>13, <2>1, <3>1, <3>2, EndTypes DEF PauseWalk, Same
  <2>3. ASSUME ~Top.saved PROVE WalkTypeOK'
    <3>1. Ended("failed") /\ "failed" \in Ends
      BY <1>13, <2>3 DEF PauseWalk, Ends
    <3> QED
      BY <1>1, <1>2, <1>13, <2>1, <3>1, EndTypes, EndedRow DEF PauseWalk, Same, Ended
  <2> QED
    BY <2>2, <2>3
<1>14. CASE EnterSub
  <2>1. /\ stack # <<>> /\ Top \in FrameRow /\ Top.exec \in DOMAIN runs /\ Top.node \in WfNode
        /\ runs[Top.exec] \in RunRow
    <3> HIDE DEF RunRow
    <3> QED
      BY <1>1, <1>14, TopOK DEF EnterSub, Executing, FrameRow
  <2> DEFINE w == Calls[Top.node] above == runs[Top.exec].above \cup {Top.exec}
  <2>2. w \in Workflow /\ above \in SUBSET Nat
    BY <1>1, <2>1, WalkAssumption DEF RunRow
  <2>3. NewRow(w, FALSE, above) \in RunRow
    BY <2>2, NewRun
  <2>4. runs' = Append(runs, NewRow(w, FALSE, above))
    BY <1>14 DEF EnterSub
  <2>5. PICK q \in Orders(Triggers(w)) :
           stack' = <<Frame(Len(runs) + 1, q, {}, Inner(Top), FALSE, TRUE)>> \o stack
    BY <1>14 DEF EnterSub
  <2>6. q \in Seq(WfNode) /\ Inner(Top) \in Nat
    BY <2>1, Rooted, Ordering DEF Inner, FrameRow
  <2> HIDE DEF w, above
  <2>7. runs' \in Seq(RunRow) /\ DOMAIN runs \subseteq DOMAIN runs' /\ Len(runs) + 1 \in Nat
    BY <1>1, <2>3, <2>4, Added
  <2>8. Frame(Len(runs) + 1, q, {}, Inner(Top), FALSE, TRUE) \in FrameRow
    BY <2>6, <2>7, NewFrame
  <2> DEFINE f == Frame(Len(runs) + 1, q, {}, Inner(Top), FALSE, TRUE)
  <2>9. stack' \in Seq(FrameRow)
    <3> HIDE DEF f
    <3> QED
      BY <1>1, <2>5, <2>8, PutOn DEF f
  <2> QED
    BY <1>1, <1>2, <1>14, <2>7, <2>9 DEF EnterSub, Same
<1>15. CASE TooDeep
  BY <1>1, <1>3, <1>15 DEF TooDeep, Executing, Same
<1>16. CASE LeaveSub
  BY <1>1, <1>3, <1>16 DEF LeaveSub, Executing, Same
<1>17. ASSUME NEW w \in Workflow, NEW dry \in BOOLEAN, StartRun(w, dry) PROVE WalkTypeOK'
  <2>1. NewRow(w, dry, {}) \in RunRow
    BY NewRun
  <2>2. runs' = Append(runs, NewRow(w, dry, {}))
    BY <1>17 DEF StartRun
  <2>3. PICK q \in Orders(Triggers(w)) : stack' = <<Frame(Len(runs) + 1, q, {}, 0, dry, TRUE)>>
    BY <1>17 DEF StartRun
  <2>4. q \in Seq(WfNode)
    BY Rooted, Ordering
  <2>5. runs' \in Seq(RunRow) /\ DOMAIN runs \subseteq DOMAIN runs' /\ Len(runs) + 1 \in Nat
    BY <1>1, <2>1, <2>2, Added
  <2>6. Frame(Len(runs) + 1, q, {}, 0, dry, TRUE) \in FrameRow
    BY <2>4, <2>5, NewFrame
  <2>7. stack' \in Seq(FrameRow)
    BY <2>3, <2>6, Alone
  <2> QED
    BY <1>1, <1>2, <1>17, <2>5, <2>7 DEF StartRun, Same
<1>18. ASSUME NEW e \in DOMAIN runs, ResumeRun(e) PROVE WalkTypeOK'
  <2>1. runs[e] \in RunRow
    <3> HIDE DEF RunRow
    <3> QED
      BY <1>1
  <2> DEFINE row == [runs[e] EXCEPT !.status = "running", !.at = None, !.resumed = TRUE,
                                    !.again = @ \/ runs[e].status # "waiting"]
  <2>2. row \in RunRow
    BY <2>1 DEF RunRow, Ends
  <2>3. runs' = [runs EXCEPT ![e] = row]
    BY <1>18 DEF ResumeRun
  <2>4. \E q \in Seq(WfNode), v \in SUBSET WfNode :
          stack' = <<Frame(e, q, v, 0, FALSE, runs[e].saved)>>
    <3>1. CASE runs[e].at # None
      <4>1. PICK q \in Orders(Targets(runs[e].at, None)) :
              stack' = <<Frame(e, q, Restored(runs[e]), 0, FALSE, runs[e].saved)>>
        BY <1>18, <3>1 DEF ResumeRun
      <4>2. q \in Seq(WfNode) /\ Restored(runs[e]) \in SUBSET WfNode
        BY <2>1, Targeted, Ordering DEF Restored, RunRow
      <4> QED
        BY <4>1, <4>2
    <3>2. CASE runs[e].at = None
      <4>1. PICK q \in Orders(Triggers(runs[e].wf)) :
              stack' = <<Frame(e, q, {}, 0, FALSE, runs[e].saved)>>
        BY <1>18, <3>2 DEF ResumeRun
      <4>2. q \in Seq(WfNode)
        BY Rooted, Ordering
      <4> QED
        BY <4>1, <4>2
    <3> QED
      BY <3>1, <3>2
  <2>5. PICK q \in Seq(WfNode), v \in SUBSET WfNode :
          stack' = <<Frame(e, q, v, 0, FALSE, runs[e].saved)>>
    BY <2>4
  <2>6. Frame(e, q, v, 0, FALSE, runs[e].saved) \in FrameRow
    BY <1>1, <2>1, NewFrame DEF RunRow
  <2>7. stack' \in Seq(FrameRow)
    BY <2>5, <2>6, Alone
  <2> HIDE DEF row
  <2>8. runs' \in Seq(RunRow) /\ DOMAIN runs' = DOMAIN runs
    BY <1>1, <2>2, <2>3, Rewritten
  <2> QED
    BY <1>1, <1>2, <1>18, <2>7, <2>8 DEF ResumeRun, Same
<1>19. ASSUME NEW e \in DOMAIN runs, RejectRun(e) PROVE WalkTypeOK'
  <2>1. runs[e] \in RunRow
    <3> HIDE DEF RunRow
    <3> QED
      BY <1>1
  <2>2. [runs[e] EXCEPT !.status = "rejected"] \in RunRow
    BY <2>1 DEF RunRow, Ends
  <2>3. runs' = [runs EXCEPT ![e] = [runs[e] EXCEPT !.status = "rejected"]]
    BY <1>19 DEF RejectRun
  <2>4. runs' \in Seq(RunRow) /\ DOMAIN runs' = DOMAIN runs
    BY <1>1, <2>2, <2>3, Rewritten
  <2> QED
    BY <1>1, <1>2, <1>19, <2>4 DEF RejectRun, Same
<1> QED
  BY <1>5, <1>6, <1>7, <1>8, <1>9, <1>10, <1>11, <1>12, <1>13, <1>14, <1>15, <1>16, <1>17,
     <1>18, <1>19 DEF WalkNext, WalkStep

-----------------------------------------------------------------------------
(* What is written stays, but for the flags that are set.                  *)
Steady ==
  /\ kind' = kind /\ unsure \subseteq unsure'
  /\ \A e \in DOMAIN runs :
       /\ e \in DOMAIN runs' /\ runs'[e].wf = runs[e].wf /\ runs'[e].dry = runs[e].dry
       /\ runs'[e].above = runs[e].above
       /\ (runs[e].resumed => runs'[e].resumed) /\ (runs[e].again => runs'[e].again)

LEMMA FrameKept ==
  ASSUME Walks, Steady, NEW f \in FrameRow, FrameOK(f), runs'[f.exec].status = "running",
         \A c \in done' : c[1] = f.exec => c \in done
  PROVE  FrameOK(f)'
<1> USE DEF FrameOK
<1>1. f.exec \in DOMAIN runs
  OBVIOUS
<1>2. Recalls(f)'
  BY <1>1 DEF Steady, Recalls
<1>3. Unsaved(f)'
  <2>1. Triggers(runs[f.exec].wf)' = Triggers(runs[f.exec].wf)
    BY <1>1 DEF Steady, Triggers
  <2> QED
    BY <1>1, <2>1 DEF Unsaved, Roots
<1>4. runs[f.exec].above \subseteq DOMAIN runs
  BY DEF Walks, Walked, RunOK
<1>5. Deep(f)'
  BY <1>1, <1>4 DEF Steady, Deep
<1> QED
  BY <1>1, <1>2, <1>3, <1>5 DEF Steady

LEMMA FrameNow ==
  ASSUME NEW j, NEW f, f = stack'[j], FrameOK(f)'
  PROVE  FrameAt(j)'
BY DEF FrameAt, FrameOK, Recalls, Unsaved, Deep, Roots

LEMMA RunKept ==
  ASSUME Walks, Steady, NEW e \in DOMAIN runs,
         runs'[e].saved = runs[e].saved, runs'[e].at = runs[e].at,
         runs'[e].status = "waiting" => /\ runs[e].status = "waiting" /\ runs'[e].visited = runs[e].visited
                                        /\ \A c \in done' : c[1] = e => c \in done
  PROVE  RunOK(e)'
<1>1. RunOK(e) /\ \A a \in runs[e].above : a \in DOMAIN runs
  BY DEF Walks, Walked, RunOK
<1> QED
  BY <1>1 DEF RunOK, Steady

LEMMA CallsKept ==
  ASSUME Walks, Steady, NEW c \in done
  PROVE  DoneOK(c)' /\ (c \in repeated => c \in unsure' \/ runs'[c[1]].again)
<1>1. DoneOK(c) /\ c[1] \in DOMAIN runs /\ (c \in repeated => c \in unsure \/ runs[c[1]].again)
  BY DEF Walks, Walked, WalkTypeOK, RepeatNeedsLostAnswer
<1> QED
  BY <1>1 DEF DoneOK, Steady, Restarted, Triggers

(* The calls of the top walk, if any.                                      *)
Carries ==
  /\ done \subseteq done' /\ \A c \in done' \ done : c[1] = Top.exec /\ DoneOK(c)'
  /\ \A c \in repeated' \ repeated : c \in unsure' \/ runs'[c[1]].again

LEMMA CallsOK ==
  ASSUME Walks, Steady, Carries
  PROVE  (\A c \in done' : DoneOK(c)') /\ RepeatNeedsLostAnswer'
<1>1. repeated \subseteq done
  BY DEF Walks, WalkTypeOK
<1> QED
  BY <1>1, CallsKept DEF Carries, RepeatNeedsLostAnswer

LEMMA SameCalls ==
  ASSUME done' = done, repeated' = repeated
  PROVE  Carries
BY DEF Carries

(* The walk goes on.                                                       *)
LEMMA ContinueOK ==
  ASSUME Walks, stack # <<>>, kind' = kind, unsure \subseteq unsure', runs' = runs, Carries,
         NEW f \in FrameRow, Continue(f), f.exec = Top.exec, FrameOK(f)'
  PROVE  Walked'
<1>1. Steady
  BY DEF Steady
<1>2. stack \in Seq(FrameRow)
  BY DEF Walks, WalkTypeOK
<1>3. stack' = <<f>> \o Tail(stack)
  BY DEF Continue
<1>4. DOMAIN stack' = DOMAIN stack /\ 1 \in DOMAIN stack /\ stack'[1] = f
      /\ \A j \in DOMAIN stack : j # 1 => stack'[j] = stack[j]
  BY <1>2, <1>3, TopReplaced
<1>5. Top = stack[1]
  BY TopIs DEF Walks
<1>6. \A j, k \in DOMAIN stack : j # k => stack[j].exec # stack[k].exec
  BY DEF Walks, Walked
<1>7. \A j, k \in DOMAIN stack' : j # k => stack'[j].exec # stack'[k].exec
  BY <1>4, <1>5, <1>6
<1>8. ASSUME NEW j \in DOMAIN stack' PROVE FrameAt(j)'
  <2>1. CASE j = 1
    BY <1>4, <2>1, FrameNow
  <2>2. CASE j # 1
    <3>1. stack'[j] = stack[j] /\ j \in DOMAIN stack
      BY <1>4, <2>2
    <3>2. PICK g \in FrameRow : g = stack[j]
      BY <1>2, <3>1
    <3>3. FrameOK(g) /\ g.exec # Top.exec
      BY <1>4, <1>5, <1>6, <2>2, <3>1, <3>2 DEF Walks, Walked, FrameAt
    <3>4. runs'[g.exec].status = "running"
      BY <3>3 DEF FrameOK
    <3>5. \A c \in done' : c[1] = g.exec => c \in done
      BY <3>3 DEF Carries
    <3>6. FrameOK(g)'
      BY <1>1, <3>3, <3>4, <3>5, FrameKept
    <3> QED
      BY <3>1, <3>2, <3>6, FrameNow
  <2> QED
    BY <2>1, <2>2
<1>9. ASSUME NEW e \in DOMAIN runs' PROVE RunOK(e)'
  <2>1. e \in DOMAIN runs /\ runs'[e] = runs[e]
    OBVIOUS
  <2>2. runs[Top.exec].status = "running"
    BY TopOK DEF FrameOK
  <2>3. runs[e].status = "waiting" => \A c \in done' : c[1] = e => c \in done
    BY <2>2 DEF Carries
  <2> QED
    BY <1>1, <2>1, <2>3, RunKept
<1> QED
  BY <1>1, <1>7, <1>8, <1>9, CallsOK DEF Walked

(* The walk ends.                                                          *)
LEMMA EndOK ==
  ASSUME Walks, stack # <<>>, kind' = kind, unsure \subseteq unsure', Carries, NEW row, End(row),
         row.wf = runs[Top.exec].wf, row.dry = runs[Top.exec].dry,
         row.above = runs[Top.exec].above, row.resumed = runs[Top.exec].resumed,
         row.again = runs[Top.exec].again, row \in RunRow,
         row.dry => ~row.saved, row.at # None => row.saved,
         row.status = "waiting" =>
           /\ row.at # None
           /\ ~row.again => \A c \in done' : c[1] = Top.exec => c[2] \in row.visited
  PROVE  Walked'
<1>0. runs \in Seq(RunRow) /\ Top.exec \in DOMAIN runs /\ stack \in Seq(FrameRow) /\ Top = stack[1]
  BY TopOK, TopIs DEF Walks, WalkTypeOK
<1>1. runs' = [runs EXCEPT ![Top.exec] = row]
  BY DEF End
<1>2. DOMAIN runs' = DOMAIN runs /\ runs'[Top.exec] = row
      /\ \A e \in DOMAIN runs : e # Top.exec => runs'[e] = runs[e]
  BY <1>0, <1>1
<1>3. Steady
  BY <1>2 DEF Steady
<1>4. \A j, k \in DOMAIN stack : j # k => stack[j].exec # stack[k].exec
  BY DEF Walks, Walked
<1>5. ASSUME NEW j \in DOMAIN stack'
      PROVE  /\ j \in Nat /\ j >= 1 /\ j + 1 \in DOMAIN stack
             /\ stack'[j] \in FrameRow
             /\ stack'[j].exec = stack[j + 1].exec /\ FrameAt(j)'
  <2>1. CASE Len(stack) = 1
    <3>1. stack' = <<>>
      BY <2>1 DEF End
    <3> QED
      BY <3>1
  <2>2. CASE Len(stack) # 1
    <3> DEFINE g == [stack[2] EXCEPT !.result = row.status]
    <3>1. stack' = <<g>> \o Tail(Tail(stack))
      BY <2>2 DEF End
    <3>2. 2 \in DOMAIN stack /\ stack[2] \in FrameRow
      BY <1>0, <2>2, TopTaken
    <3>3. g \in FrameRow /\ g.exec = stack[2].exec /\ (FrameOK(stack[2]) => FrameOK(g))
      <4>1. row.status \in Ends
        BY DEF RunRow
      <4>2. /\ g \in FrameRow /\ g.exec = stack[2].exec /\ g.node = stack[2].node
            /\ g.visited = stack[2].visited /\ g.call = stack[2].call /\ g.dry = stack[2].dry
            /\ g.saved = stack[2].saved /\ g.queue = stack[2].queue /\ g.depth = stack[2].depth
        BY <3>2, <4>1 DEF FrameRow
      <4> HIDE DEF g
      <4> QED
        BY <4>2 DEF FrameOK, Recalls, Unsaved, Deep
    <3> HIDE DEF g
    <3>4. /\ j \in Nat /\ j >= 1 /\ j + 1 \in DOMAIN stack
          /\ stack'[1] = g /\ (j # 1 => stack'[j] = stack[j + 1])
      <4>1. \A h \in FrameRow : LET u == <<h>> \o Tail(Tail(stack)) IN
              /\ u \in Seq(FrameRow) /\ u[1] = h
              /\ \A i \in DOMAIN u : /\ i \in Nat /\ i >= 1 /\ i + 1 \in DOMAIN stack
                                     /\ i # 1 => u[i] = stack[i + 1]
        <5>1. stack \in Seq(FrameRow) /\ stack # <<>> /\ Len(stack) # 1
          BY <1>0, <2>2
        <5>2. ASSUME NEW h \in FrameRow
              PROVE  LET u == <<h>> \o Tail(Tail(stack)) IN
                     /\ u \in Seq(FrameRow) /\ u[1] = h
                     /\ \A i \in DOMAIN u : /\ i \in Nat /\ i >= 1 /\ i + 1 \in DOMAIN stack
                                            /\ i # 1 => u[i] = stack[i + 1]
          BY <5>1, TopTaken
        <5> QED
          BY <5>2
      <4> DEFINE u == <<g>> \o Tail(Tail(stack))
      <4>2. /\ u[1] = g
            /\ \A i \in DOMAIN u : /\ i \in Nat /\ i >= 1 /\ i + 1 \in DOMAIN stack
                                   /\ i # 1 => u[i] = stack[i + 1]
        BY <3>3, <4>1
      <4>3. stack' = u
        BY <3>1
      <4> HIDE DEF u
      <4> QED
        BY <4>2, <4>3
    <3>5. /\ stack'[j] \in FrameRow /\ stack'[j].exec = stack[j + 1].exec
          /\ FrameOK(stack'[j])
      <4>1. FrameOK(stack[2]) /\ FrameOK(stack[j + 1])
        BY <3>2, <3>4 DEF Walks, Walked, FrameAt
      <4>2. CASE j = 1
        BY <3>3, <3>4, <4>1, <4>2
      <4>3. CASE j # 1
        <5>1. stack[j + 1] \in FrameRow
          BY <1>0, <3>4
        <5> QED
          BY <3>4, <4>1, <4>3, <5>1
      <4> QED
        BY <4>2, <4>3
    <3>6. PICK h \in FrameRow : h = stack'[j]
      BY <3>5
    <3>7. h.exec # Top.exec
      <4>1. 1 \in DOMAIN stack /\ j + 1 # 1
        BY <3>4, TopIs DEF Walks
      <4> QED
        BY <1>0, <1>4, <3>4, <3>5, <3>6, <4>1
    <3>8. FrameOK(h)
      BY <3>5, <3>6
    <3>9. FrameOK(h)'
      <4>1. runs'[h.exec].status = "running"
        BY <1>2, <3>7, <3>8 DEF FrameOK
      <4>2. \A c \in done' : c[1] = h.exec => c \in done
        BY <3>7 DEF Carries
      <4> QED
        BY <1>3, <3>8, <4>1, <4>2, FrameKept
    <3> QED
      BY <3>4, <3>5, <3>6, <3>9, FrameNow
  <2> QED
    BY <2>1, <2>2
<1>6. \A j, k \in DOMAIN stack' : j # k => stack'[j].exec # stack'[k].exec
  <2> SUFFICES ASSUME NEW j \in DOMAIN stack', NEW k \in DOMAIN stack', j # k
               PROVE  stack'[j].exec # stack'[k].exec
    OBVIOUS
  <2>1. j + 1 \in DOMAIN stack /\ k + 1 \in DOMAIN stack /\ j + 1 # k + 1
    BY <1>5
  <2> QED
    BY <1>4, <1>5, <2>1
<1>7. ASSUME NEW e \in DOMAIN runs' PROVE RunOK(e)'
  <2>1. CASE e # Top.exec
    <3>1. \A c \in done' : c[1] = e => c \in done
      BY <2>1 DEF Carries
    <3> QED
      BY <1>2, <1>3, <2>1, <3>1, RunKept
  <2>2. CASE e = Top.exec
    <3>1. RunOK(e) /\ \A a \in runs[e].above : a \in DOMAIN runs
      BY <1>2 DEF Walks, Walked, RunOK
    <3> QED
      BY <1>2, <1>3, <2>2, <3>1 DEF RunOK, Steady
  <2> QED
    BY <2>1, <2>2
<1> QED
  BY <1>3, <1>5, <1>6, <1>7, CallsOK DEF Walked

(* The top of the stack, a step later.                                     *)
LEMMA FrameMoved ==
  ASSUME Walks, stack # <<>>, kind' = kind, unsure \subseteq unsure', runs' = runs,
         NEW f \in FrameRow, f.exec = Top.exec, f.dry = Top.dry, f.saved = Top.saved,
         f.depth = Top.depth, f.call >= 1,
         f.node # None => f.node \in f.visited /\ (kind[f.node] \in DeskWrites => f.call = 1),
         ~f.saved => f.node \in Roots(f.exec) \cup {None}
                     /\ \A k \in DOMAIN f.queue : f.queue[k] \in Roots(f.exec),
         ~runs[f.exec].again =>
           \A c \in done' : c[1] = f.exec =>
             c[2] \in f.visited /\ (c[2] = f.node /\ c[3] >= f.call => c \in unsure')
  PROVE  FrameOK(f)'
<1>1. FrameOK(Top)
  BY TopOK
<1>2. Recalls(f)'
  BY DEF Recalls
<1>3. Unsaved(f)'
  <2>1. Roots(f.exec)' = Roots(f.exec)
    BY DEF Roots, Triggers
  <2> QED
    BY <2>1 DEF Unsaved
<1>4. Deep(f)'
  BY <1>1 DEF FrameOK, Deep
<1> QED
  BY <1>1, <1>2, <1>3, <1>4 DEF FrameOK

(* A row as a walk leaves it.                                              *)
LEMMA EndedOK ==
  ASSUME Walks, stack # <<>>, kind' = kind, unsure \subseteq unsure', Carries,
         NEW s \in {"failed", "success"}, Ended(s)
  PROVE  Walked'
<1> DEFINE row == [runs[Top.exec] EXCEPT !.status = s, !.visited = Top.visited]
<1>1. s \in Ends /\ Top.exec \in DOMAIN runs
  BY TopOK DEF Ends
<1>2. row \in RunRow
  BY <1>1, EndedRow DEF Walks
<1>3. runs[Top.exec] \in RunRow
  <2> HIDE DEF RunRow
  <2> QED
    BY <1>1 DEF Walks, WalkTypeOK
<1>4. /\ row.wf = runs[Top.exec].wf /\ row.dry = runs[Top.exec].dry
      /\ row.above = runs[Top.exec].above /\ row.resumed = runs[Top.exec].resumed
      /\ row.again = runs[Top.exec].again /\ row.saved = runs[Top.exec].saved
      /\ row.at = runs[Top.exec].at /\ row.status = s
  BY <1>3 DEF RunRow
<1>5. End(row)
  BY DEF Ended
<1>6. RunOK(Top.exec)
  BY <1>1 DEF Walks, Walked
<1> HIDE DEF row
<1> QED
  BY <1>2, <1>4, <1>5, <1>6, EndOK DEF RunOK

LEMMA SettleOK ==
  ASSUME Walks, stack # <<>>, kind' = kind, unsure \subseteq unsure', Carries, Top.node # None,
         NEW result, NEW branch, Settle(result, branch),
         ~runs[Top.exec].again => \A c \in done' : c[1] = Top.exec =>
           /\ c[2] \in Top.visited
           /\ result = "failed" /\ c[2] = Top.node => c \in unsure'
  PROVE  Walked'
<1>1. Top \in FrameRow /\ FrameOK(Top) /\ Top.visited \subseteq WfNode
  BY TopOK DEF FrameRow
<1>2. ASSUME result = "failed", runs' = runs,
             Continue([Top EXCEPT !.attempt = @ + 1, !.call = 1, !.result = None])
      PROVE  Walked'
  <2>1. [Top EXCEPT !.attempt = @ + 1, !.call = 1, !.result = None] \in FrameRow
    <3>1. <<>> \in Seq(WfNode) /\ <<>> \in Seq(SUBSET WfNode)
      OBVIOUS
    <3> QED
      BY <1>1, <3>1, LeftFrame
  <2>2. PICK f \in FrameRow : f = [Top EXCEPT !.attempt = @ + 1, !.call = 1, !.result = None]
    BY <2>1
  <2>3. /\ f.exec = Top.exec /\ f.dry = Top.dry /\ f.saved = Top.saved /\ f.depth = Top.depth
        /\ f.call = 1 /\ f.node = Top.node /\ f.visited = Top.visited /\ f.queue = Top.queue
    BY <1>1, <2>2 DEF FrameRow
  <2>4. FrameOK(f)'
    BY <1>1, <1>2, <2>3, FrameMoved DEF FrameOK, Unsaved
  <2> QED
    BY <1>2, <2>2, <2>3, <2>4, ContinueOK
<1>3. ASSUME Top.saved, runs' = runs, NEW f \in FrameRow, Continue(f),
             f.exec = Top.exec, f.dry = Top.dry, f.saved = Top.saved, f.depth = Top.depth,
             f.call = Top.call, f.node = None, f.visited = Top.visited
      PROVE  Walked'
  <2>1. FrameOK(f)'
    BY <1>1, <1>3, FrameMoved, WalkNoneAssumption DEF FrameOK
  <2> QED
    BY <1>3, <2>1, ContinueOK
<1>4. ASSUME Top.saved, runs' = runs, NEW q \in Seq(WfNode),
             Continue([Leave(Top) EXCEPT !.queue = @ \o q])
      PROVE  Walked'
  <2>1. [Leave(Top) EXCEPT !.queue = @ \o q] \in FrameRow
    <3>1. <<>> \in Seq(SUBSET WfNode)
      OBVIOUS
    <3> QED
      BY <1>1, <3>1, LeftFrame
  <2>2. PICK f \in FrameRow : f = [Leave(Top) EXCEPT !.queue = @ \o q]
    BY <2>1
  <2>3. /\ f.exec = Top.exec /\ f.dry = Top.dry /\ f.saved = Top.saved /\ f.depth = Top.depth
        /\ f.call = Top.call /\ f.node = None /\ f.visited = Top.visited
    BY <1>1, <2>2 DEF FrameRow, Leave
  <2> QED
    BY <1>3, <1>4, <2>2, <2>3
<1>5. ASSUME Top.saved, runs' = runs, NEW q \in Seq(WfNode), NEW cs \in Seq(SUBSET WfNode),
             Continue([Leave(Top) EXCEPT !.catches = cs, !.queue = @ \o q])
      PROVE  Walked'
  <2>1. [Leave(Top) EXCEPT !.catches = cs, !.queue = @ \o q] \in FrameRow
    BY <1>1, LeftFrame
  <2>2. PICK f \in FrameRow : f = [Leave(Top) EXCEPT !.catches = cs, !.queue = @ \o q]
    BY <2>1
  <2>3. /\ f.exec = Top.exec /\ f.dry = Top.dry /\ f.saved = Top.saved /\ f.depth = Top.depth
        /\ f.call = Top.call /\ f.node = None /\ f.visited = Top.visited
    BY <1>1, <2>2 DEF FrameRow, Leave
  <2> QED
    BY <1>3, <1>5, <2>2, <2>3
<1>6. ASSUME NEW s \in {"failed", "success"}, Ended(s) PROVE Walked'
  BY <1>6, EndedOK
<1> QED
  BY <1>2, <1>4, <1>5, <1>6, Settled DEF Walks

(* A node that makes no call of its own.                                   *)
LEMMA QuietOK ==
  ASSUME Walks, stack # <<>>, kind' = kind, Same, Top.node # None, kind[Top.node] \notin Writes,
         NEW result, NEW branch, Settle(result, branch)
  PROVE  Walked'
<1>1. FrameOK(Top)
  BY TopOK
<1>2. \A c \in done : kind[c[2]] \in Writes
  BY DEF Walks, Walked, DoneOK
<1>3. Carries
  BY SameCalls DEF Same
<1> QED
  BY <1>1, <1>2, <1>3, SettleOK DEF Same, FrameOK, Recalls

(* A walk begins on top of the others.                                     *)
LEMMA BegunOK ==
  ASSUME Walks, Steady, Same, NEW f \in FrameRow, stack'[1] = f, FrameOK(f)',
         \A j \in DOMAIN stack' : /\ j \in Nat /\ j >= 1
                                  /\ j # 1 => j - 1 \in DOMAIN stack /\ stack'[j] = stack[j - 1],
         \A j \in DOMAIN stack : stack[j].exec # f.exec
                                 /\ runs'[stack[j].exec].status = "running",
         \A e \in DOMAIN runs' : RunOK(e)'
  PROVE  Walked'
<1>1. stack \in Seq(FrameRow)
  BY DEF Walks, WalkTypeOK
<1>2. \A j, k \in DOMAIN stack : j # k => stack[j].exec # stack[k].exec
  BY DEF Walks, Walked
<1>3. ASSUME NEW j \in DOMAIN stack' PROVE FrameAt(j)'
  <2>1. CASE j = 1
    BY <2>1, FrameNow
  <2>2. CASE j # 1
    <3>1. j - 1 \in DOMAIN stack /\ stack'[j] = stack[j - 1]
      BY <2>2
    <3>2. PICK g \in FrameRow : g = stack[j - 1]
      BY <1>1, <3>1
    <3>3. FrameOK(g)
      BY <3>1, <3>2 DEF Walks, Walked, FrameAt
    <3>4. FrameOK(g)'
      BY <3>1, <3>2, <3>3, FrameKept DEF Same
    <3> QED
      BY <3>1, <3>2, <3>4, FrameNow
  <2> QED
    BY <2>1, <2>2
<1>4. \A j, k \in DOMAIN stack' : j # k => stack'[j].exec # stack'[k].exec
  <2> SUFFICES ASSUME NEW j \in DOMAIN stack', NEW k \in DOMAIN stack', j # k, k # 1
               PROVE  stack'[j].exec # stack'[k].exec
    OBVIOUS
  <2>1. k - 1 \in DOMAIN stack /\ stack'[k] = stack[k - 1] /\ j \in Nat /\ k \in Nat
    OBVIOUS
  <2>2. CASE j = 1
    BY <2>1, <2>2
  <2>3. CASE j # 1
    <3>1. j - 1 \in DOMAIN stack /\ stack'[j] = stack[j - 1] /\ j - 1 # k - 1
      BY <2>1, <2>3
    <3> QED
      BY <1>2, <2>1, <3>1
  <2> QED
    BY <2>2, <2>3
<1>5. Carries
  BY SameCalls DEF Same
<1> QED
  BY <1>3, <1>4, <1>5, CallsOK DEF Walked

LEMMA AboveFinite ==
  ASSUME runs \in Seq(RunRow), NEW S, S \subseteq DOMAIN runs, NEW e
  PROVE  /\ Cardinality(S) \in Nat /\ Cardinality(S \cup {e}) \in Nat
         /\ Cardinality(S \cup {e}) <= Cardinality(S) + 1
<1>1. Len(runs) \in Nat /\ DOMAIN runs = 1 .. Len(runs)
  <2> HIDE DEF RunRow
  <2> QED
    OBVIOUS
<1>2. IsFiniteSet(S)
  <2>1. IsFiniteSet(1 .. Len(runs))
    BY <1>1, FS_Interval
  <2> QED
    BY <1>1, <2>1, FS_Subset
<1>3. /\ IsFiniteSet(S \cup {e})
      /\ Cardinality(S \cup {e}) = IF e \in S THEN Cardinality(S) ELSE Cardinality(S) + 1
  BY <1>2, FS_AddElement
<1>4. Cardinality(S) \in Nat /\ Cardinality(S \cup {e}) \in Nat
  BY <1>2, <1>3, FS_CardinalityType
<1> QED
  BY <1>3, <1>4

LEMMA StartOK ==
  ASSUME Walks, NEW w \in Workflow, NEW dry \in BOOLEAN, StartRun(w, dry)
  PROVE  Walked'
<1>1. runs \in Seq(RunRow) /\ stack = <<>> /\ Same /\ kind' = kind
  BY DEF StartRun, Walks, WalkTypeOK, calls, Same
<1> DEFINE r == NewRow(w, dry, {}) n == Len(runs) + 1
<1>2. r \in RunRow /\ runs' = Append(runs, r)
  BY NewRun DEF StartRun
<1>3. PICK q \in Orders(Triggers(w)) : stack' = <<Frame(n, q, {}, 0, dry, TRUE)>>
  BY DEF StartRun
<1>4. q \in Seq(WfNode)
  BY Rooted, Ordering
<1>5. /\ r.wf = w /\ r.dry = dry /\ r.above = {} /\ r.resumed = FALSE /\ r.again = FALSE
      /\ r.status = "running" /\ r.at = None /\ r.saved = FALSE /\ r.visited = {}
  BY DEF NewRow
<1> HIDE DEF r
<1>6. /\ DOMAIN runs' = DOMAIN runs \cup {n} /\ n \notin DOMAIN runs /\ n \in Nat
      /\ runs'[n] = r /\ \A e \in DOMAIN runs : runs'[e] = runs[e]
  BY <1>1, <1>2, Added
<1> HIDE DEF n
<1>7. Steady
  BY <1>1, <1>6 DEF Steady, Same
<1>8. PICK f \in FrameRow : f = Frame(n, q, {}, 0, dry, TRUE)
  BY <1>4, <1>6, NewFrame
<1>9. /\ f.exec = n /\ f.visited = {} /\ f.node = None /\ f.call = 1 /\ f.depth = 0
      /\ f.dry = dry /\ f.saved = TRUE
  BY <1>8 DEF Frame
<1>10. done' = done /\ \A c \in done : c[1] # n
  BY <1>1, <1>6 DEF Same, Walks, WalkTypeOK
<1>11. Cardinality({}) = 0
  BY FS_EmptySet
<1>12. FrameOK(f)'
  <2>1. Recalls(f)'
    BY <1>9, <1>10 DEF Recalls
  <2>2. Deep(f)'
    <3>1. runs'[f.exec].above = {}
      BY <1>5, <1>6, <1>9
    <3>2. Cardinality(runs'[f.exec].above) <= f.depth
      BY <1>9, <1>11, <3>1
    <3> QED
      BY <3>2 DEF Deep
  <2>3. Unsaved(f)'
    BY <1>9 DEF Unsaved
  <2> QED
    BY <1>5, <1>6, <1>9, <2>1, <2>2, <2>3 DEF FrameOK
<1>13. ASSUME NEW e \in DOMAIN runs' PROVE RunOK(e)'
  <2>1. CASE e = n
    BY <1>5, <1>6, <1>11, <2>1, WalkAssumption DEF RunOK
  <2>2. CASE e # n
    BY <1>1, <1>6, <1>7, <2>2, RunKept DEF Same
  <2> QED
    BY <2>1, <2>2
<1>14. stack' = <<f>>
  BY <1>3, <1>8
<1>15. DOMAIN stack' = {1} /\ stack'[1] = f
  BY <1>14, Alone
<1> QED
  BY <1>1, <1>7, <1>12, <1>13, <1>15, BegunOK

LEMMA ResumeOK ==
  ASSUME Walks, NEW e \in DOMAIN runs, ResumeRun(e)
  PROVE  Walked'
<1>1. runs \in Seq(RunRow) /\ stack = <<>> /\ Same /\ kind' = kind
  BY DEF ResumeRun, Walks, WalkTypeOK, calls, Same
<1>2. runs[e] \in RunRow /\ e \in Nat
  <2> HIDE DEF RunRow
  <2> QED
    BY <1>1
<1> DEFINE row == [runs[e] EXCEPT !.status = "running", !.at = None, !.resumed = TRUE,
                                  !.again = @ \/ runs[e].status # "waiting"]
<1>3. runs' = [runs EXCEPT ![e] = row]
  BY DEF ResumeRun
<1>4. /\ row.wf = runs[e].wf /\ row.dry = runs[e].dry /\ row.above = runs[e].above
      /\ row.resumed = TRUE /\ row.again = (runs[e].again \/ runs[e].status # "waiting")
      /\ row.status = "running" /\ row.at = None /\ row.saved = runs[e].saved
  BY <1>2 DEF RunRow
<1> HIDE DEF row
<1>5. DOMAIN runs' = DOMAIN runs /\ runs'[e] = row
      /\ \A d \in DOMAIN runs : d # e => runs'[d] = runs[d]
  BY <1>1, <1>3
<1>6. Steady
  BY <1>1, <1>4, <1>5 DEF Steady, Same
<1>7. RunOK(e)
  BY DEF Walks, Walked
<1>8. \E q \in Seq(WfNode), v \in SUBSET WfNode :
        /\ stack' = <<Frame(e, q, v, 0, FALSE, runs[e].saved)>>
        /\ runs[e].at # None => v = runs[e].visited
        /\ runs[e].at = None => \A k \in DOMAIN q : q[k] \in Triggers(runs[e].wf)
  <2>1. CASE runs[e].at # None
    <3>1. PICK q \in Orders(Targets(runs[e].at, None)) :
            stack' = <<Frame(e, q, Restored(runs[e]), 0, FALSE, runs[e].saved)>>
      BY <2>1 DEF ResumeRun
    <3>2. q \in Seq(WfNode) /\ Restored(runs[e]) \in SUBSET WfNode /\ Restored(runs[e]) = runs[e].visited
      BY <1>2, Targeted, Ordering DEF Restored, RunRow
    <3> QED
      BY <2>1, <3>1, <3>2
  <2>2. CASE runs[e].at = None
    <3>1. PICK q \in Orders(Triggers(runs[e].wf)) :
            stack' = <<Frame(e, q, {}, 0, FALSE, runs[e].saved)>>
      BY <2>2 DEF ResumeRun
    <3>2. q \in Seq(WfNode) /\ q \in Seq(Triggers(runs[e].wf))
      BY Rooted, Ordering
    <3>3. \A k \in DOMAIN q : q[k] \in Triggers(runs[e].wf)
      BY <3>2
    <3>4. {} \in SUBSET WfNode
      OBVIOUS
    <3> QED
      BY <2>2, <3>1, <3>2, <3>3, <3>4
  <2> QED
    BY <2>1, <2>2
<1>9. PICK q \in Seq(WfNode), v \in SUBSET WfNode :
        /\ stack' = <<Frame(e, q, v, 0, FALSE, runs[e].saved)>>
        /\ runs[e].at # None => v = runs[e].visited
        /\ runs[e].at = None => \A k \in DOMAIN q : q[k] \in Triggers(runs[e].wf)
  BY <1>8
<1>10. PICK f \in FrameRow : f = Frame(e, q, v, 0, FALSE, runs[e].saved)
  BY <1>2, NewFrame DEF RunRow
<1>11. /\ f.exec = e /\ f.visited = v /\ f.node = None /\ f.call = 1 /\ f.depth = 0
       /\ f.dry = FALSE /\ f.saved = runs[e].saved /\ f.queue = q
  BY <1>10 DEF Frame
<1>12. FrameOK(f)'
  <2>1. Recalls(f)'
    <3> SUFFICES ASSUME ~row.again, NEW c \in done, c[1] = e PROVE c[2] \in v /\ c[2] # None
      BY <1>1, <1>5, <1>11 DEF Recalls, Same
    <3>1. runs[e].status = "waiting" /\ ~runs[e].again
      BY <1>4
    <3>2. c[2] \in WfNode
      BY DEF Walks, WalkTypeOK
    <3> QED
      BY <1>7, <1>9, <3>1, <3>2, WalkNoneAssumption DEF RunOK
  <2>2. Unsaved(f)'
    <3>1. Roots(e)' = Triggers(runs[e].wf)
      <4>1. runs'[e].wf = runs[e].wf
        BY <1>4, <1>5
      <4>2. Roots(e)' = Triggers(runs'[e].wf)
        BY <1>1 DEF Roots, Triggers
      <4> QED
        BY <4>1, <4>2
    <3> QED
      BY <1>7, <1>9, <1>11, <3>1 DEF Unsaved, RunOK
  <2>3. Deep(f)'
    BY <1>4, <1>5, <1>11 DEF Deep
  <2>4. runs[e].dry => ~f.saved /\ row.again
    BY <1>4, <1>7, <1>11 DEF RunOK
  <2> QED
    BY <1>4, <1>5, <1>11, <2>1, <2>2, <2>3, <2>4 DEF FrameOK
<1>13. ASSUME NEW d \in DOMAIN runs' PROVE RunOK(d)'
  <2>1. CASE d = e
    <3>1. \A a \in runs[e].above : a \in DOMAIN runs
      BY <1>7 DEF RunOK
    <3> QED
      BY <1>4, <1>5, <1>6, <1>7, <2>1, <3>1 DEF RunOK, Steady
  <2>2. CASE d # e
    BY <1>1, <1>5, <1>6, <2>2, RunKept DEF Same
  <2> QED
    BY <2>1, <2>2
<1>14. stack' = <<f>>
  BY <1>9, <1>10
<1>15. DOMAIN stack' = {1} /\ stack'[1] = f
  BY <1>14, Alone
<1> QED
  BY <1>1, <1>6, <1>12, <1>13, <1>15, BegunOK

LEMMA EnterOK ==
  ASSUME Walks, EnterSub
  PROVE  Walked'
<1>1. /\ runs \in Seq(RunRow) /\ stack \in Seq(FrameRow) /\ stack # <<>> /\ Same /\ kind' = kind
      /\ Top.depth < MaxDepth /\ kind[Top.node] = "sub_workflow" /\ ~Skipped /\ Top.node # None
  BY DEF EnterSub, Walks, WalkTypeOK, calls, Same, Executing
<1>2. Top \in FrameRow /\ FrameOK(Top) /\ Top.exec \in DOMAIN runs
  BY <1>1, TopOK
<1>3. Top.node \in WfNode /\ Top.depth \in Nat
  BY <1>1, <1>2 DEF FrameRow
<1> DEFINE w == Calls[Top.node] old == runs[Top.exec].above above == old \cup {Top.exec}
           r == NewRow(w, FALSE, above) n == Len(runs) + 1
<1>4. RunOK(Top.exec) /\ old \subseteq DOMAIN runs
  BY <1>2 DEF Walks, Walked, RunOK
<1>5. w \in Workflow /\ above \in SUBSET Nat /\ above \subseteq DOMAIN runs
  <2>1. DOMAIN runs \subseteq Nat
    BY <1>1
  <2> QED
    BY <1>2, <1>3, <1>4, <2>1, WalkAssumption
<1>6. r \in RunRow /\ runs' = Append(runs, r)
  BY <1>5, NewRun DEF EnterSub
<1>7. PICK q \in Orders(Triggers(w)) : stack' = <<Frame(n, q, {}, Inner(Top), FALSE, TRUE)>> \o stack
  BY DEF EnterSub
<1>8. q \in Seq(WfNode) /\ Inner(Top) = Top.depth + 1
  BY Rooted, Ordering DEF Inner
<1>9. /\ r.wf = w /\ r.dry = FALSE /\ r.above = above /\ r.resumed = FALSE /\ r.again = FALSE
      /\ r.status = "running" /\ r.at = None /\ r.saved = FALSE /\ r.visited = {}
  BY DEF NewRow
<1>10. Cardinality(old) \in Nat /\ Cardinality(above) \in Nat /\ Cardinality(above) <= Cardinality(old) + 1
  BY <1>1, <1>4, AboveFinite
<1>11. (\E a \in above : runs[a].resumed) \/ Cardinality(above) <= Top.depth + 1
  <2>1. (\E a \in above : runs[a].resumed) \/ Cardinality(old) <= Top.depth
    BY <1>2 DEF FrameOK, Deep
  <2> HIDE DEF above, old
  <2> QED
    BY <1>3, <1>10, <2>1
<1>12. \A a \in above : runs[a].dry => runs[a].again
  <2>1. \A a \in old : runs[a].dry => runs[a].again
    BY <1>4 DEF RunOK
  <2>2. runs[Top.exec].dry => runs[Top.exec].again
    BY <1>1, <1>2 DEF FrameOK, Skipped, SideEffects
  <2> QED
    BY <2>1, <2>2
<1> HIDE DEF r, w, above, old
<1>13. /\ DOMAIN runs' = DOMAIN runs \cup {n} /\ n \notin DOMAIN runs /\ n \in Nat
       /\ runs'[n] = r /\ \A e \in DOMAIN runs : runs'[e] = runs[e]
  BY <1>1, <1>6, Added
<1> HIDE DEF n
<1>14. Steady
  BY <1>1, <1>13 DEF Steady, Same
<1>15. PICK f \in FrameRow : f = Frame(n, q, {}, Inner(Top), FALSE, TRUE)
  <2>1. Inner(Top) \in Nat /\ {} \in SUBSET WfNode /\ FALSE \in BOOLEAN /\ TRUE \in BOOLEAN
    BY <1>3, <1>8
  <2> QED
    BY <1>8, <1>13, <2>1, NewFrame
<1>16. /\ f.exec = n /\ f.visited = {} /\ f.node = None /\ f.call = 1 /\ f.depth = Top.depth + 1
       /\ f.dry = FALSE /\ f.saved = TRUE
  BY <1>8, <1>15 DEF Frame
<1>17. done' = done /\ \A c \in done : c[1] # n
  BY <1>1, <1>13 DEF Same, Walks, WalkTypeOK
<1>18. FrameOK(f)'
  <2>1. Deep(f)'
    BY <1>5, <1>9, <1>11, <1>13, <1>16 DEF Deep
  <2> QED
    BY <1>9, <1>13, <1>16, <1>17, <2>1 DEF FrameOK, Recalls, Unsaved
<1>19. ASSUME NEW e \in DOMAIN runs' PROVE RunOK(e)'
  <2>1. CASE e = n
    <3>1. Cardinality(above) > MaxDepth => \E a \in above : runs[a].resumed
      BY <1>1, <1>3, <1>10, <1>11, WalkAssumption
    <3>2. \A a \in above : a \in DOMAIN runs /\ runs'[a] = runs[a]
      BY <1>5, <1>13
    <3> QED
      BY <1>9, <1>12, <1>13, <2>1, <3>1, <3>2 DEF RunOK
  <2>2. CASE e # n
    BY <1>1, <1>13, <1>14, <2>2, RunKept DEF Same
  <2> QED
    BY <2>1, <2>2
<1>20. stack' = <<f>> \o stack
  BY <1>7, <1>15
<1>21. /\ stack'[1] = f
       /\ \A j \in DOMAIN stack' : j \in Nat /\ j >= 1 /\ (j # 1 => j - 1 \in DOMAIN stack
                                                            /\ stack'[j] = stack[j - 1])
  BY <1>1, <1>20, TopPut
<1>22. \A j \in DOMAIN stack : stack[j].exec # f.exec /\ runs'[stack[j].exec].status = "running"
  BY <1>13, <1>16 DEF Walks, Walked, FrameAt, FrameOK
<1> QED
  BY <1>14, <1>1, <1>18, <1>19, <1>21, <1>22, BegunOK

-----------------------------------------------------------------------------
(* What a call leads to: only a ticket desk's is tried again, and only     *)
(* when it was not answered well; the others' calls are numbered 1 and 2.  *)
LEMMA Failing ==
  ASSUME NEW k \in Reads \cup Writes, NEW i, NEW o \in Outcomes
  PROVE  /\ Result(k, i, o) = "failed" => k \in DeskWrites /\ o # "ok"
         /\ Result(k, i, o) = "next" => k \notin DeskWrites
BY DEF Result, Reads, Writes, Lookups, DeskReads, Quiet, DeskWrites, FreshdeskWrites, OnedeskWrites,
       LookupResult, QuietResult, CloseResult, EscalateResult, NotifyResult, MailResult,
       FreshdeskResult, OnedeskResult, Raises, Outcomes

LEMMA Harmless ==
  ASSUME NEW k, k \in Writes \ SideEffects PROVE k \in DeskWrites
BY DEF Writes, SideEffects, Quiet, DeskWrites, FreshdeskWrites, OnedeskWrites

LEMMA SettleSteady ==
  ASSUME Walks, stack # <<>>, kind' = kind, unsure \subseteq unsure',
         NEW result, NEW branch, Settle(result, branch)
  PROVE  Steady
<1>1. CASE runs' = runs
  BY <1>1 DEF Steady
<1>2. ASSUME NEW s \in {"failed", "success"}, Ended(s) PROVE Steady
  <2> DEFINE row == [runs[Top.exec] EXCEPT !.status = s, !.visited = Top.visited]
  <2>1. Top.exec \in DOMAIN runs /\ runs \in Seq(RunRow)
    BY TopOK DEF Walks, WalkTypeOK
  <2>2. runs[Top.exec] \in RunRow
    <3> HIDE DEF RunRow
    <3> QED
      BY <2>1
  <2>3. /\ row.wf = runs[Top.exec].wf /\ row.dry = runs[Top.exec].dry
        /\ row.above = runs[Top.exec].above /\ row.resumed = runs[Top.exec].resumed
        /\ row.again = runs[Top.exec].again
    BY <2>2 DEF RunRow
  <2>4. runs' = [runs EXCEPT ![Top.exec] = row]
    BY <1>2 DEF Ended, End
  <2> HIDE DEF row
  <2>5. DOMAIN runs' = DOMAIN runs /\ runs'[Top.exec] = row
        /\ \A d \in DOMAIN runs : d # Top.exec => runs'[d] = runs[d]
    BY <2>1, <2>4
  <2> QED
    BY <2>3, <2>5 DEF Steady
<1> QED
  BY <1>1, <1>2, Settled DEF Walks

LEMMA CallOK ==
  ASSUME Walks, NEW o \in Outcomes, Call(o)
  PROVE  Walked'
<1> DEFINE n == Top.node c == <<Top.exec, n, Top.call>> r == Result(kind[n], Top.call, o)
<1>1. /\ stack # <<>> /\ n # None /\ kind[n] \in Reads \cup Writes /\ ~Skipped /\ kind' = kind
  BY DEF Call, Executing
<1>2. Top \in FrameRow /\ FrameOK(Top) /\ Top.exec \in DOMAIN runs /\ n \in Top.visited
  BY <1>1, TopOK DEF FrameOK
<1>3. c[1] = Top.exec /\ c[2] = n /\ c[3] = Top.call /\ Top.call \in Nat
  BY <1>2 DEF FrameRow
<1>4. /\ done' = IF kind[n] \in Writes /\ Carried(o) THEN done \cup {c} ELSE done
      /\ repeated' = IF kind[n] \in Writes /\ Carried(o) /\ c \in done
                     THEN repeated \cup {c} ELSE repeated
      /\ unsure' = IF o = "lost" THEN unsure \cup {c} ELSE unsure
      /\ IF r = "next" THEN Continue([Top EXCEPT !.call = @ + 1]) /\ UNCHANGED runs
                       ELSE Settle(r, None)
  BY DEF Call
<1>5. /\ r = "failed" => kind[n] \in DeskWrites /\ o # "ok"
      /\ r = "next" => kind[n] \notin DeskWrites
  BY <1>1, Failing
<1>6. Steady
  <2>1. CASE r = "next"
    BY <1>1, <1>4, <2>1 DEF Steady
  <2>2. CASE r # "next"
    BY <1>1, <1>4, <2>2, SettleSteady
  <2> QED
    BY <2>1, <2>2
<1> HIDE DEF c, r
<1>7. unsure \subseteq unsure' /\ done \subseteq done' /\ done' \subseteq done \cup {c}
      /\ repeated' \subseteq repeated \cup {c}
  BY <1>4
<1>8. ASSUME NEW d \in done' \ done PROVE d[1] = Top.exec /\ DoneOK(d)'
  <2>1. kind[n] \in Writes /\ d = c
    BY <1>4, <1>8
  <2>2. ASSUME runs[Top.exec].dry PROVE kind[n] \in DeskWrites \/ Restarted(Top.exec, n)
    <3>1. CASE Top.dry
      BY <1>1, <2>1, <3>1, Harmless DEF Skipped
    <3>2. CASE ~Top.dry
      <4>1. ~Top.saved /\ runs[Top.exec].again
        BY <1>2, <2>2, <3>2 DEF FrameOK
      <4>2. n \in Triggers(runs[Top.exec].wf)
        BY <1>1, <1>2, <4>1 DEF FrameOK, Unsaved, Roots
      <4> QED
        BY <4>1, <4>2 DEF Restarted
    <3> QED
      BY <3>1, <3>2
  <2>3. d[1] = Top.exec /\ d[2] = n /\ d[3] >= 1
    BY <1>2, <1>3, <2>1 DEF FrameOK
  <2>4. runs[d[1]].dry => kind[d[2]] \in DeskWrites \/ Restarted(d[1], d[2])
    BY <2>2, <2>3
  <2>5. Restarted(d[1], d[2]) => Restarted(d[1], d[2])'
    BY <1>2, <1>6, <2>3 DEF Restarted, Steady, Triggers
  <2>6. runs'[d[1]].dry = runs[d[1]].dry /\ kind' = kind
    BY <1>2, <1>6, <2>3 DEF Steady
  <2> QED
    BY <2>1, <2>3, <2>4, <2>5, <2>6 DEF DoneOK
<1>9. ~runs[Top.exec].again => \A d \in done' : d[1] = Top.exec =>
        /\ d[2] \in Top.visited
        /\ d # c /\ d[2] = n /\ d[3] >= Top.call => d \in unsure
  <2>1. ~runs[Top.exec].again => \A d \in done : d[1] = Top.exec =>
          /\ d[2] \in Top.visited
          /\ d[2] = n /\ d[3] >= Top.call => d \in unsure
    BY <1>2 DEF FrameOK, Recalls
  <2> QED
    BY <1>2, <1>3, <1>7, <2>1
<1>10. ASSUME c \in repeated' \ repeated PROVE c \in unsure' \/ runs'[c[1]].again
  <2>1. c \in done
    BY <1>4, <1>10
  <2>2. c \in unsure \/ runs[Top.exec].again
    BY <1>2, <1>3, <2>1 DEF FrameOK, Recalls
  <2> QED
    BY <1>2, <1>3, <1>6, <1>7, <2>2 DEF Steady
<1>11. Carries
  BY <1>3, <1>7, <1>8, <1>10 DEF Carries
<1>12. CASE r = "next"
  <2>1. [Top EXCEPT !.call = @ + 1] \in FrameRow
    <3>1. Top.call + 1 \in Nat
      BY <1>3
    <3> QED
      BY <1>2, <3>1, FrameFields
  <2>2. PICK f \in FrameRow : f = [Top EXCEPT !.call = @ + 1]
    BY <2>1
  <2>3. /\ f.exec = Top.exec /\ f.dry = Top.dry /\ f.saved = Top.saved /\ f.depth = Top.depth
        /\ f.call = Top.call + 1 /\ f.node = n /\ f.visited = Top.visited /\ f.queue = Top.queue
    BY <1>2, <2>2 DEF FrameRow
  <2>4. runs' = runs
    BY <1>4, <1>12
  <2>5. ~runs[f.exec].again =>
          \A d \in done' : d[1] = f.exec =>
            d[2] \in f.visited /\ (d[2] = f.node /\ d[3] >= f.call => d \in unsure')
    <3>1. \A d \in done' : d[3] \in Nat
      BY <1>3, <1>7 DEF Walks, WalkTypeOK
    <3> QED
      BY <1>3, <1>7, <1>9, <2>3, <3>1
  <2>6. ~f.saved => f.node \in Roots(f.exec) \cup {None}
                    /\ \A k \in DOMAIN f.queue : f.queue[k] \in Roots(f.exec)
    BY <1>2, <2>3 DEF FrameOK, Unsaved
  <2>7. f.call >= 1 /\ (f.node # None => f.node \in f.visited /\ (kind[f.node] \in DeskWrites => f.call = 1))
    BY <1>2, <1>3, <1>5, <1>12, <2>3 DEF FrameOK
  <2>8. FrameOK(f)'
    BY <1>1, <1>7, <2>3, <2>4, <2>5, <2>6, <2>7, FrameMoved
  <2> QED
    BY <1>1, <1>4, <1>7, <1>11, <1>12, <2>2, <2>3, <2>4, <2>8, ContinueOK
<1>13. CASE r # "next"
  <2>1. Settle(r, None)
    BY <1>4, <1>13
  <2>2. ASSUME ~runs[Top.exec].again, NEW d \in done', d[1] = Top.exec, r = "failed", d[2] = n
        PROVE  d \in unsure'
    <3>1. Top.call = 1
      BY <1>1, <1>2, <1>5, <2>2 DEF FrameOK
    <3>2. CASE d = c /\ d \notin done
      <4>1. Carried(o) /\ o # "ok"
        BY <1>4, <1>5, <2>2, <3>2
      <4> QED
        BY <1>4, <3>2, <4>1 DEF Carried
    <3>3. CASE d \in done
      <4>1. d[3] \in Nat
        BY <3>3 DEF Walks, WalkTypeOK
      <4>2. d[3] >= 1
        BY <3>3 DEF Walks, Walked, DoneOK
      <4>3. d \in unsure
        BY <1>2, <2>2, <3>1, <3>3, <4>1, <4>2 DEF FrameOK, Recalls
      <4> QED
        BY <1>7, <4>3
    <3> QED
      BY <1>7, <3>2, <3>3
  <2> QED
    BY <1>1, <1>7, <1>9, <1>11, <2>1, <2>2, SettleOK
<1> QED
  BY <1>12, <1>13

-----------------------------------------------------------------------------
LEMMA PauseOK ==
  ASSUME Walks, PauseWalk
  PROVE  Walked'
<1>1. /\ stack # <<>> /\ Same /\ kind' = kind /\ ~Skipped /\ kind[Top.node] \in Pauses /\ Top.node # None
  BY DEF PauseWalk, calls, Same, Executing
<1>2. Top \in FrameRow /\ FrameOK(Top) /\ Top.exec \in DOMAIN runs /\ Top.node \in WfNode
      /\ Top.visited \in SUBSET WfNode
  BY <1>1, TopOK DEF FrameRow
<1>3. Carries /\ unsure \subseteq unsure'
  BY <1>1, SameCalls DEF Same
<1>4. CASE ~Top.saved
  <2>1. Ended("failed")
    BY <1>4 DEF PauseWalk
  <2> QED
    BY <1>1, <1>3, <2>1, EndedOK
<1>5. CASE Top.saved
  <2> DEFINE row == [runs[Top.exec] EXCEPT !.status = "waiting", !.at = Top.node, !.saved = TRUE,
                                   !.visited = Top.visited]
  <2>1. runs[Top.exec] \in RunRow
    <3> HIDE DEF RunRow
    <3> QED
      BY <1>2 DEF Walks, WalkTypeOK
  <2>2. row \in RunRow
    BY <1>2, <2>1 DEF RunRow, Ends
  <2>3. /\ row.wf = runs[Top.exec].wf /\ row.dry = runs[Top.exec].dry
        /\ row.above = runs[Top.exec].above /\ row.resumed = runs[Top.exec].resumed
        /\ row.again = runs[Top.exec].again /\ row.saved = TRUE /\ row.at = Top.node
        /\ row.visited = Top.visited
    BY <2>1 DEF RunRow
  <2>4. End(row)
    BY <1>5 DEF PauseWalk
  <2> HIDE DEF row
  <2>5. ~row.dry
    BY <1>1, <1>2, <1>5, <2>3 DEF FrameOK, Skipped, Pauses, SideEffects
  <2>6. ~row.again => \A c \in done' : c[1] = Top.exec => c[2] \in row.visited
    BY <1>1, <1>2, <2>3 DEF FrameOK, Recalls, Same
  <2> QED
    BY <1>1, <1>3, <2>2, <2>3, <2>4, <2>5, <2>6, EndOK
<1> QED
  BY <1>4, <1>5

LEMMA RejectOK ==
  ASSUME Walks, NEW e \in DOMAIN runs, RejectRun(e)
  PROVE  Walked'
<1>1. /\ runs \in Seq(RunRow) /\ stack' = stack /\ Same /\ kind' = kind /\ runs[e].status = "waiting"
      /\ runs' = [runs EXCEPT ![e].status = "rejected"]
  BY DEF RejectRun, Walks, WalkTypeOK, calls, Same
<1>2. runs[e] \in RunRow
  <2> HIDE DEF RunRow
  <2> QED
    BY <1>1
<1> DEFINE row == [runs[e] EXCEPT !.status = "rejected"]
<1>3. runs' = [runs EXCEPT ![e] = row]
  BY <1>1
<1>4. /\ row.wf = runs[e].wf /\ row.dry = runs[e].dry /\ row.above = runs[e].above
      /\ row.resumed = runs[e].resumed /\ row.again = runs[e].again
      /\ row.status = "rejected" /\ row.at = runs[e].at /\ row.saved = runs[e].saved
  BY <1>2 DEF RunRow
<1> HIDE DEF row
<1>5. DOMAIN runs' = DOMAIN runs /\ runs'[e] = row
      /\ \A d \in DOMAIN runs : d # e => runs'[d] = runs[d]
  BY <1>1, <1>3
<1>6. Steady
  BY <1>1, <1>4, <1>5 DEF Steady, Same
<1>7. ASSUME NEW j \in DOMAIN stack' PROVE FrameAt(j)'
  <2>1. PICK f \in FrameRow : f = stack[j]
    BY <1>1 DEF Walks, WalkTypeOK
  <2>2. FrameOK(f)
    BY <1>1, <2>1 DEF Walks, Walked, FrameAt
  <2>3. runs'[f.exec].status = "running" /\ done' = done
    BY <1>1, <1>5, <2>2 DEF FrameOK, Same
  <2> QED
    BY <1>1, <1>6, <2>1, <2>2, <2>3, FrameKept, FrameNow
<1>8. ASSUME NEW d \in DOMAIN runs' PROVE RunOK(d)'
  BY <1>1, <1>4, <1>5, <1>6, RunKept DEF Same
<1>9. Carries
  BY <1>1, SameCalls DEF Same
<1> QED
  BY <1>1, <1>6, <1>7, <1>8, <1>9, CallsOK DEF Walked, Walks

LEMMA Silent ==
  ASSUME NEW k, k \in Local \cup {"stop", "try_catch", "sub_workflow"} \cup Branching
  PROVE  k \notin Writes
BY DEF Local, Branching, Writes, Quiet, DeskWrites, FreshdeskWrites, OnedeskWrites

LEMMA Topped ==
  ASSUME NEW s, NEW g, NEW u, s \in Seq(FrameRow), s # <<>>, u = <<g>> \o Tail(s), u \in Seq(FrameRow)
  PROVE  u[1] = g /\ 1 \in DOMAIN u
<1>1. Tail(s) \in Seq(FrameRow)
  OBVIOUS
<1> QED
  BY <1>1

LEMMA DoneNodes == ASSUME Walks, NEW c \in done PROVE c[2] # None
BY WalkNoneAssumption DEF Walks, WalkTypeOK

LEMMA WalkedNext == ASSUME Walks, WalkNext PROVE Walked'
<1> USE DEF calls
<1>1. CASE Drop
  <2>1. /\ stack # <<>> /\ Top.node = None /\ Top.queue # <<>> /\ Same /\ kind' = kind /\ runs' = runs
    BY <1>1 DEF Drop, Same
  <2>2. Top \in FrameRow /\ FrameOK(Top)
    BY <2>1, TopOK
  <2>3. [Top EXCEPT !.queue = Tail(@)] \in FrameRow
    BY <2>1, <2>2, Taken
  <2>4. PICK f \in FrameRow : f = [Top EXCEPT !.queue = Tail(@)]
    BY <2>3
  <2>5. /\ f.exec = Top.exec /\ f.dry = Top.dry /\ f.saved = Top.saved /\ f.depth = Top.depth
        /\ f.call = Top.call /\ f.node = None /\ f.visited = Top.visited /\ f.queue = Tail(Top.queue)
    BY <2>1, <2>2, <2>4 DEF FrameRow
  <2>6. ~f.saved => \A k \in DOMAIN f.queue : f.queue[k] \in Roots(f.exec)
    <3>1. \A k \in DOMAIN Tail(Top.queue) :
            k + 1 \in DOMAIN Top.queue /\ Tail(Top.queue)[k] = Top.queue[k + 1]
      BY <2>1, <2>2, Taken
    <3>2. ~Top.saved => \A k \in DOMAIN Top.queue : Top.queue[k] \in Roots(Top.exec)
      BY <2>2 DEF FrameOK, Unsaved
    <3> QED
      BY <2>5, <3>1, <3>2
  <2>7. FrameOK(f)'
    BY <2>1, <2>2, <2>5, <2>6, FrameMoved DEF FrameOK, Recalls, Same
  <2> QED
    BY <1>1, <2>1, <2>4, <2>5, <2>7, SameCalls, ContinueOK DEF Drop, Same
<1>2. CASE Try
  <2> DEFINE n == Head(Top.queue)
  <2>1. /\ stack # <<>> /\ Top.node = None /\ Top.queue # <<>> /\ Same /\ kind' = kind /\ runs' = runs
        /\ Top.saved
    BY <1>2 DEF Try, Same
  <2>2. Top \in FrameRow /\ FrameOK(Top)
    BY <2>1, TopOK
  <2>3. PICK q \in Orders({m \in Targets(n, "try") : Unseen(Visited(n), m)}) :
          Continue([Visited(n) EXCEPT !.queue = @ \o q,
             !.catches = <<{d.to : d \in {c \in Edge : c.from = n /\ c.on = "catch"}}>> \o @])
    BY <1>2 DEF Try
  <2> DEFINE g == [Visited(n) EXCEPT !.queue = @ \o q,
             !.catches = <<{d.to : d \in {c \in Edge : c.from = n /\ c.on = "catch"}}>> \o @]
  <2>4. stack' = <<g>> \o Tail(stack)
    BY <2>3 DEF Continue
  <2>5. g \in FrameRow
    <3>1. stack' \in Seq(FrameRow) /\ stack \in Seq(FrameRow)
      BY TypesNext DEF Walks, WalkTypeOK
    <3> HIDE DEF g
    <3>2. stack'[1] = g /\ 1 \in DOMAIN stack'
      BY <2>1, <2>4, <3>1, Topped
    <3> QED
      BY <3>1, <3>2
  <2>6. PICK f \in FrameRow : f = g
    BY <2>5
  <2>7. /\ f.exec = Top.exec /\ f.dry = Top.dry /\ f.saved = Top.saved /\ f.depth = Top.depth
        /\ f.call = Top.call /\ f.node = None /\ f.visited = Top.visited \cup {n}
    BY <2>1, <2>2, <2>6 DEF FrameRow, Visited
  <2>8. Continue(f)
    BY <2>3, <2>6
  <2> HIDE DEF g
  <2>9. FrameOK(f)'
    BY <2>1, <2>2, <2>7, FrameMoved, DoneNodes DEF FrameOK, Recalls, Same
  <2> QED
    BY <2>1, <2>7, <2>8, <2>9, SameCalls, ContinueOK DEF Same
<1>3. CASE Visit
  <2> DEFINE n == Head(Top.queue)
  <2>1. /\ stack # <<>> /\ Top.node = None /\ Top.queue # <<>> /\ Same /\ kind' = kind /\ runs' = runs
        /\ n \notin Top.visited
        /\ Continue([Visited(n) EXCEPT !.node = n, !.attempt = 0, !.call = 1])
    BY <1>3 DEF Visit, Same, Unseen
  <2>2. Top \in FrameRow /\ FrameOK(Top)
    BY <2>1, TopOK
  <2>3. n \in WfNode /\ n = Top.queue[1] /\ 1 \in DOMAIN Top.queue /\ Visited(n) \in FrameRow
        /\ \A k \in DOMAIN Tail(Top.queue) :
             k + 1 \in DOMAIN Top.queue /\ Tail(Top.queue)[k] = Top.queue[k + 1]
    BY <2>1, <2>2, Taken
  <2>4. [Visited(n) EXCEPT !.node = n, !.attempt = 0, !.call = 1] \in FrameRow
    BY <2>3 DEF FrameRow
  <2>5. PICK f \in FrameRow : f = [Visited(n) EXCEPT !.node = n, !.attempt = 0, !.call = 1]
    BY <2>4
  <2>6. /\ f.exec = Top.exec /\ f.dry = Top.dry /\ f.saved = Top.saved /\ f.depth = Top.depth
        /\ f.call = 1 /\ f.node = n /\ f.visited = Top.visited \cup {n} /\ f.queue = Tail(Top.queue)
    BY <2>1, <2>2, <2>5 DEF FrameRow, Visited
  <2>7. ~f.saved => n \in Roots(f.exec) /\ \A k \in DOMAIN f.queue : f.queue[k] \in Roots(f.exec)
    BY <2>2, <2>3, <2>6 DEF FrameOK, Unsaved
  <2>8. FrameOK(f)'
    <3>1. ~runs[f.exec].again => \A c \in done' : c[1] = f.exec =>
            c[2] \in f.visited /\ c[2] # f.node
      BY <2>1, <2>2, <2>6 DEF FrameOK, Recalls, Same
    <3>2. unsure \subseteq unsure' /\ f.call >= 1 /\ f.node \in f.visited
      BY <2>1, <2>6 DEF Same
    <3> QED
      BY <2>1, <2>6, <2>7, <3>1, <3>2, FrameMoved
  <2> QED
    BY <2>1, <2>5, <2>6, <2>8, SameCalls, ContinueOK DEF Same
<1>4. CASE FinishWalk
  <2>1. stack # <<>> /\ Same /\ kind' = kind /\ Ended("success")
    BY <1>4 DEF FinishWalk, Same
  <2> QED
    BY <2>1, SameCalls, EndedOK DEF Same
<1>5. CASE SkipDry
  <2>1. stack # <<>> /\ Same /\ kind' = kind /\ Top.node # None /\ Settle("skipped_dry_run", None)
    BY <1>5 DEF SkipDry, Executing, Same
  <2>2. FrameOK(Top)
    BY <2>1, TopOK
  <2> QED
    BY <2>1, <2>2, SameCalls, SettleOK DEF FrameOK, Recalls, Same
<1>6. CASE Compute
  <2>1. stack # <<>> /\ Same /\ kind' = kind /\ Top.node # None /\ kind[Top.node] \notin Writes
        /\ (Settle("success", None) \/ Settle("failed", None))
    BY <1>6, Silent DEF Compute, Executing, Same
  <2> QED
    BY <2>1, QuietOK
<1>7. CASE Branch
  <2>1. stack # <<>> /\ Same /\ kind' = kind /\ Top.node # None /\ kind[Top.node] \notin Writes
        /\ \E b \in {"true", "false"} : Settle("success", b)
    BY <1>7, Silent DEF Branch, Executing, Same
  <2> QED
    BY <2>1, QuietOK
<1>8. CASE TooDeep
  <2>1. stack # <<>> /\ Same /\ kind' = kind /\ Top.node # None /\ kind[Top.node] \notin Writes
        /\ Settle("failed", None)
    BY <1>8, Silent DEF TooDeep, Executing, Same
  <2> QED
    BY <2>1, QuietOK
<1>9. CASE LeaveSub
  <2>1. stack # <<>> /\ Same /\ kind' = kind /\ Top.node # None /\ kind[Top.node] \notin Writes
        /\ Settle(SubStatus(Top.result), None)
    BY <1>9, Silent DEF LeaveSub, Executing, Same
  <2> QED
    BY <2>1, QuietOK
<1> QED
  BY <1>1, <1>2, <1>3, <1>4, <1>5, <1>6, <1>7, <1>8, <1>9, CallOK, PauseOK, EnterOK, StartOK,
     ResumeOK, RejectOK DEF WalkNext, WalkStep

LEMMA WalkedInit == WalkInit => Walks
<1> SUFFICES ASSUME WalkInit PROVE Walks
  OBVIOUS
<1>1. kind \in [WfNode -> NodeTypes] /\ DOMAIN runs = {} /\ DOMAIN stack = {} /\ 0 \in Nat
  BY WalkAssumption DEF WalkInit
<1>2. runs \in Seq(RunRow) /\ stack \in Seq(FrameRow)
  BY DEF WalkInit
<1> QED
  BY <1>1, <1>2 DEF WalkInit, Walks, WalkTypeOK, Walked, RepeatNeedsLostAnswer

LEMMA WalksAlways == WalkSpec => []Walks
<1>1. ASSUME Walks, UNCHANGED walkVars PROVE Walks'
  <2>1. /\ kind' = kind /\ runs' = runs /\ stack' = stack /\ done' = done /\ repeated' = repeated
        /\ unsure' = unsure /\ errors' = errors
    BY <1>1 DEF walkVars
  <2>2. WalkTypeOK'
    BY <1>1, <2>1 DEF Walks, WalkTypeOK
  <2>3. Steady /\ Carries
    BY <2>1, SameCalls DEF Steady
  <2>4. ASSUME NEW j \in DOMAIN stack' PROVE FrameAt(j)'
    <3>1. stack[j] \in FrameRow /\ FrameOK(stack[j])
      <4> HIDE DEF FrameRow
      <4>1. stack \in Seq(FrameRow) /\ j \in DOMAIN stack
        BY <1>1, <2>1 DEF Walks, WalkTypeOK
      <4> QED
        BY <1>1, <4>1 DEF Walks, Walked, FrameAt
    <3>2. PICK f \in FrameRow : f = stack[j]
      BY <3>1
    <3>3. runs'[f.exec].status = "running"
      BY <2>1, <3>1, <3>2 DEF FrameOK
    <3>4. FrameOK(f)'
      BY <1>1, <2>1, <2>3, <3>1, <3>2, <3>3, FrameKept
    <3> QED
      BY <2>1, <3>2, <3>4, FrameNow
  <2>5. ASSUME NEW e \in DOMAIN runs' PROVE RunOK(e)'
    BY <1>1, <2>1, <2>3, RunKept
  <2>6. \A j, k \in DOMAIN stack' : j # k => stack'[j].exec # stack'[k].exec
    BY <1>1, <2>1 DEF Walks, Walked
  <2>7. Walked'
    BY <1>1, <2>3, <2>4, <2>5, <2>6, CallsOK DEF Walked
  <2> QED
    BY <2>2, <2>7 DEF Walks
<1>2. ASSUME Walks, WalkNext PROVE Walks'
  BY <1>2, TypesNext, WalkedNext DEF Walks
<1> QED
  BY <1>1, <1>2, WalkedInit, PTL DEF WalkSpec

(* The walks, the executions and the calls are of the declared types.      *)
THEOREM WalkTypeCorrect == WalkSpec => []WalkTypeOK
<1>1. Walks => WalkTypeOK
  BY DEF Walks
<1> QED
  BY <1>1, WalksAlways, PTL

(* A dry run carries nothing out but the desks' nodes and what a           *)
(* resumption begins with.                                                 *)
THEOREM DryRunCorrect == WalkSpec => []DryRunTouchesOnlyDesks
<1>1. Walks => DryRunTouchesOnlyDesks
  BY DEF Walks, Walked, DoneOK, RunOK, DryRunTouchesOnlyDesks
<1> QED
  BY <1>1, WalksAlways, PTL

(* A call is repeated only after a lost answer or a resumption of what was *)
(* not waiting.                                                            *)
THEOREM RepeatCorrect == WalkSpec => []RepeatNeedsLostAnswer
<1>1. Walks => RepeatNeedsLostAnswer
  BY DEF Walks, Walked
<1> QED
  BY <1>1, WalksAlways, PTL

(* Sub-workflows go deeper than the limit only below a resumption.         *)
THEOREM ChainCorrect == WalkSpec => []ChainNeedsPause
<1>1. Walks => ChainNeedsPause
  BY DEF Walks, Walked, RunOK, ChainNeedsPause
<1> QED
  BY <1>1, WalksAlways, PTL

-----------------------------------------------------------------------------
USE WorkflowAssumption, BoundAssumption, NoneAssumption

RowSeen(r, e) == IF r.exec[e] # None THEN r.exec[e] ELSE exec[e]

(* The transaction has what its next statement reads.                      *)
Placed(r) ==
  /\ r.list # {} => r.answer \in {"approved", "rejected", "received"}
  /\ \A k \in r.list : ticket[k] # None
  /\ r.pc \in {"reject", "read", "resume"} => r.on # None /\ RowSeen(r, r.on) # None
  /\ r.pc = "resume" => r.copy # None
  /\ r.pc = "run" => r.on # None /\ r.exec[r.on] # None

(* A ticket it wrote has an execution, and keeps it.                       *)
Owned(r) ==
  \A k \in Ticket : r.ticket[k] # None =>
    /\ RowSeen(r, r.ticket[k].exec) # None
    /\ ticket[k] # None =>
         r.ticket[k].exec = ticket[k].exec /\ r.ticket[k].node = ticket[k].node

(* What it has answered it resumes, or has resumed.                        *)
Answered(r) ==
  \A k \in Ticket : r.ticket[k] # None /\ ticket[k] # None =>
    \/ r.exec[ticket[k].exec] # None
    \/ r.pc \in {"reject", "read", "resume"} /\ r.on = ticket[k].exec

(* A pause it wrote waits for a ticket it inserted.                        *)
Asked(r) ==
  \A e \in Exec : r.exec[e] # None /\ r.exec[e].status \in Waiting =>
    LET k == r.exec[e].asked IN
    /\ k # None /\ ticket[k] = None /\ r.ticket[k] # None
    /\ r.ticket[k].exec = e /\ r.ticket[k].node = r.exec[e].at
    /\ r.ticket[k].status = "pending"

Sound(r) == Placed(r) /\ Owned(r) /\ Answered(r) /\ Asked(r)

TicketsLocked ==
  \A t, u \in Tx, k \in Ticket :
    t # u /\ tx[t].ticket[k] # None => tx[u].ticket[k] = None

TicketsOwned == \A k \in Ticket : ticket[k] # None => exec[ticket[k].exec] # None

IInv ==
  /\ TypeOK
  /\ \A t \in Tx : Sound(tx[t])
  /\ TicketsLocked /\ TicketsOwned
  /\ WaitsForAnswer
-----------------------------------------------------------------------------
LEMMA RowTypes ==
  ASSUME TypeOK, NEW t \in Tx
  PROVE  /\ tx[t] \in TxType
         /\ \A e \in Exec : ExecSeen(t, e) \in ExecRow \cup {None}
         /\ \A k \in Ticket : ticket[k] # None => ticket[k] \in TicketRow
  BY DEF TypeOK, TxType, ExecSeen

LEMMA SeenIsRowSeen ==
  ASSUME NEW t \in Tx, NEW e \in Exec
  PROVE  ExecSeen(t, e) = RowSeen(tx[t], e)
  BY DEF ExecSeen, RowSeen

LEMMA IdleSound == IdleTx \in TxType /\ Sound(IdleTx)
<1>1. IdleTx \in TxType
  BY DEF IdleTx, TxType
<1>2. Placed(IdleTx) /\ Owned(IdleTx) /\ Answered(IdleTx) /\ Asked(IdleTx)
  BY DEF IdleTx, Placed, Owned, Answered, Asked
<1>3. QED BY <1>1, <1>2 DEF Sound

LEMMA InvInit == Init => IInv
<1> SUFFICES ASSUME Init PROVE IInv
  OBVIOUS
<1>1. TypeOK
  <2>1. tx \in [Tx -> TxType]
    BY IdleSound DEF Init
  <2>2. performed \in [Exec -> [Node -> 0..2]]
    BY DEF Init
  <2>3. inputs \in 0..MaxInputs /\ aborts \in 0..MaxAborts
    BY DEF Init
  <2>4. QED BY <2>1, <2>2, <2>3 DEF Init, TypeOK
<1>2. \A t \in Tx : tx[t] = IdleTx
  BY DEF Init
<1>3. TicketsLocked
  BY <1>2 DEF TicketsLocked, IdleTx
<1>4. TicketsOwned /\ WaitsForAnswer
  BY DEF Init, TicketsOwned, WaitsForAnswer
<1>5. QED BY <1>1, <1>2, <1>3, <1>4, IdleSound DEF IInv

(* A step of one transaction that commits nothing.                         *)
LEMMA StepKeeps ==
  ASSUME IInv, NEW t \in Tx, NEW r \in TxType,
         tx' = [tx EXCEPT ![t] = r],
         UNCHANGED <<exec, ticket>>,
         performed' \in [Exec -> [Node -> 0..2]],
         redecided' \in BOOLEAN, manual' \in BOOLEAN,
         inputs' \in 0..MaxInputs, aborts' \in 0..MaxAborts,
         Sound(r),
         \A k \in Ticket : r.ticket[k] # None => tx[t].ticket[k] # None \/ TicketFree(t, k)
  PROVE  IInv'
<1>1. TypeOK'
  BY DEF IInv, TypeOK
<1>2. tx'[t] = r /\ \A u \in Tx : u # t => tx'[u] = tx[u]
  BY DEF IInv, TypeOK
<1>3. \A u \in Tx : Sound(tx[u])'
  <2>1. \A u \in Tx : Sound(tx'[u])
    BY <1>2 DEF IInv
  <2> SUFFICES ASSUME NEW u \in Tx PROVE Sound(tx[u])'
    OBVIOUS
  <2>2. \A e : RowSeen(tx'[u], e) = RowSeen(tx[u], e)'
    BY DEF RowSeen
  <2>3. Sound(tx'[u])
    BY <2>1
  <2>4. Placed(tx[u])' /\ Owned(tx[u])'
    BY <2>2, <2>3 DEF Sound, Placed, Owned
  <2>5. Answered(tx[u])'
    BY <2>3 DEF Sound, Answered
  <2>6. Asked(tx[u])'
    BY <2>3 DEF Sound, Asked
  <2>7. QED BY <2>4, <2>5, <2>6 DEF Sound
<1>4. TicketsLocked'
  BY <1>2 DEF IInv, TicketsLocked, TicketFree
<1>5. TicketsOwned' /\ WaitsForAnswer'
  BY DEF IInv, TicketsOwned, WaitsForAnswer
<1>6. QED BY <1>1, <1>3, <1>4, <1>5 DEF IInv

(* The ticket it marks belongs to the execution it goes on to resume.     *)
LEMMA MarkKeeps ==
  ASSUME IInv, NEW t \in Tx, NEW k \in Ticket, Mark(t, k)
  PROVE  IInv'
<1> DEFINE row == [ticket[k] EXCEPT !.status = tx[t].answer]
           r == [tx[t] EXCEPT !.pc = IF tx[t].answer = "rejected" THEN "reject" ELSE "read",
                              !.list = @ \ {k}, !.on = ticket[k].exec, !.ticket[k] = row]
<1>1. Sound(tx[t]) /\ tx[t] \in TxType
  BY RowTypes DEF IInv
<1>2. ticket[k] # None /\ ticket[k] \in TicketRow
      /\ tx[t].answer \in {"approved", "rejected", "received"}
  BY <1>1, RowTypes DEF Mark, Sound, Placed, IInv
<1>3. row \in TicketRow /\ row.exec = ticket[k].exec /\ row.node = ticket[k].node
  BY <1>1, <1>2 DEF TicketRow, TxType
<1> HIDE DEF row
<1>4. /\ r \in TxType
      /\ r.pc \in {"reject", "read"} /\ r.on = ticket[k].exec
      /\ r.exec = tx[t].exec /\ r.list \subseteq tx[t].list /\ r.answer = tx[t].answer
      /\ r.ticket = [tx[t].ticket EXCEPT ![k] = row]
  BY <1>1, <1>2, <1>3 DEF TxType, TicketRow
<1>5. tx' = [tx EXCEPT ![t] = r]
  BY <1>1 DEF Mark, row, IInv, TypeOK, TxType
<1> HIDE DEF r
<1>6. /\ r.ticket[k] = row
      /\ \A j \in Ticket : j # k => r.ticket[j] = tx[t].ticket[j]
      /\ \A e \in Exec : RowSeen(r, e) = RowSeen(tx[t], e)
  BY <1>1, <1>4 DEF TxType, RowSeen
<1>7. exec[ticket[k].exec] # None /\ ticket[k].exec \in Exec
  BY <1>2 DEF IInv, TicketsOwned, TicketRow
<1>8. Placed(r)
  BY <1>1, <1>2, <1>4, <1>7 DEF Placed, Sound, RowSeen
<1>9. Owned(r)
  <2> SUFFICES ASSUME NEW j \in Ticket, r.ticket[j] # None
               PROVE  /\ RowSeen(r, r.ticket[j].exec) # None
                      /\ ticket[j] # None => r.ticket[j].exec = ticket[j].exec
                                             /\ r.ticket[j].node = ticket[j].node
    BY DEF Owned
  <2>1. CASE j = k
    BY <1>3, <1>6, <1>7, <2>1 DEF RowSeen
  <2>2. CASE j # k
    BY <1>1, <1>4, <1>6, <2>2 DEF Sound, Owned, RowSeen
  <2>3. QED BY <2>1, <2>2
<1>10. Answered(r)
  <2> SUFFICES ASSUME NEW j \in Ticket, r.ticket[j] # None, ticket[j] # None
               PROVE  r.exec[ticket[j].exec] # None \/ r.on = ticket[j].exec
    BY <1>4 DEF Answered
  <2>1. CASE j # k
    BY <1>1, <1>4, <1>6, <2>1 DEF Sound, Answered, Mark
  <2>2. QED BY <1>4, <2>1
<1>11. Asked(r)
  BY <1>1, <1>2, <1>4, <1>6 DEF Sound, Asked
<1>12. QED
  <2>1. Sound(r)
    BY <1>8, <1>9, <1>10, <1>11 DEF Sound
  <2>2. \A j \in Ticket : r.ticket[j] # None => tx[t].ticket[j] # None \/ TicketFree(t, j)
    BY <1>6 DEF Mark
  <2>3. redecided' \in BOOLEAN
    BY DEF Mark
  <2>4. QED BY <1>4, <1>5, <2>1, <2>2, <2>3, StepKeeps DEF Mark, IInv, TypeOK

-----------------------------------------------------------------------------
(* Nothing it writes concerns tickets; its row of the execution it is on   *)
(* is written, and does not wait.                                          *)
LEMMA WriteKeeps ==
  ASSUME IInv, NEW t \in Tx, NEW r \in TxType, NEW e \in Exec, NEW row \in ExecRow,
         tx' = [tx EXCEPT ![t] = r],
         UNCHANGED <<exec, ticket, performed, history>>,
         tx[t].on = e,
         r.ticket = tx[t].ticket, r.exec = [tx[t].exec EXCEPT ![e] = row],
         r.on = e, r.answer = tx[t].answer, r.list = tx[t].list,
         row.status \notin Waiting,
         r.pc \in {"run", "mark", "commit"}
  PROVE  IInv'
<1>1. Sound(tx[t]) /\ tx[t] \in TxType
  BY RowTypes DEF IInv
<1>2. /\ r.exec[e] = row /\ row # None
      /\ \A f \in Exec : f # e => r.exec[f] = tx[t].exec[f]
      /\ \A f \in Exec : RowSeen(tx[t], f) # None => RowSeen(r, f) # None
  <2>1. r.exec[e] = row /\ \A f \in Exec : f # e => r.exec[f] = tx[t].exec[f]
    BY <1>1 DEF TxType
  <2>2. QED BY <2>1 DEF RowSeen
<1>3. \A k \in Ticket : /\ tx[t].ticket[k] # None => tx[t].ticket[k].exec \in Exec
                        /\ ticket[k] # None => ticket[k].exec \in Exec
  BY <1>1 DEF IInv, TypeOK, TxType, TicketRow
<1>4. Placed(r)
  BY <1>1, <1>2 DEF Sound, Placed
<1>5. Owned(r)
  BY <1>1, <1>2, <1>3 DEF Sound, Owned
<1>6. Answered(r)
  BY <1>1, <1>2, <1>3 DEF Sound, Answered
<1>7. Asked(r)
  BY <1>1, <1>2 DEF Sound, Asked
<1>8. QED BY <1>4, <1>5, <1>6, <1>7, StepKeeps DEF Sound, IInv, TypeOK, history

LEMMA RejectKeeps ==
  ASSUME IInv, NEW t \in Tx, Reject(t)
  PROVE  IInv'
<1> DEFINE e == tx[t].on
           row == [ExecSeen(t, e) EXCEPT !.status = "rejected"]
           r == [tx[t] EXCEPT !.pc = "commit", !.exec[e] = row]
<1>1. Sound(tx[t]) /\ tx[t] \in TxType
  BY RowTypes DEF IInv
<1>2. e \in Exec /\ ExecSeen(t, e) \in ExecRow
  BY <1>1, RowTypes, SeenIsRowSeen DEF Reject, Sound, Placed, TxType, IInv
<1>3. row \in ExecRow /\ row.status = "rejected"
  BY <1>2 DEF ExecRow
<1> HIDE DEF row
<1>4. r \in TxType /\ r.pc = "commit" /\ r.exec = [tx[t].exec EXCEPT ![e] = row]
      /\ r.ticket = tx[t].ticket /\ r.on = e /\ r.answer = tx[t].answer /\ r.list = tx[t].list
  BY <1>1, <1>2, <1>3 DEF TxType
<1>5. tx' = [tx EXCEPT ![t] = r]
  BY <1>1 DEF Reject, row, IInv, TypeOK, TxType
<1> HIDE DEF r
<1>6. UNCHANGED <<exec, ticket, performed, history>> /\ row.status \notin Waiting /\ e = tx[t].on
  BY <1>3 DEF Reject, Waiting
<1> HIDE DEF e
<1>7. QED BY <1>2, <1>3, <1>4, <1>5, <1>6, WriteKeeps

LEMMA ReadKeeps ==
  ASSUME IInv, NEW t \in Tx, Read(t)
  PROVE  IInv'
<1> DEFINE r == [tx[t] EXCEPT !.pc = "resume", !.copy = ExecSeen(t, tx[t].on)]
<1>1. Sound(tx[t]) /\ tx[t] \in TxType
  BY RowTypes DEF IInv
<1>2. /\ tx[t].on \in Exec /\ ExecSeen(t, tx[t].on) \in ExecRow
      /\ RowSeen(tx[t], tx[t].on) = ExecSeen(t, tx[t].on)
  BY <1>1, RowTypes, SeenIsRowSeen DEF Read, Sound, Placed, TxType, IInv
<1>3. /\ r \in TxType /\ r.pc = "resume" /\ r.copy # None
      /\ r.exec = tx[t].exec /\ r.ticket = tx[t].ticket
      /\ r.on = tx[t].on /\ r.answer = tx[t].answer /\ r.list = tx[t].list
  BY <1>1, <1>2 DEF TxType
<1>4. tx' = [tx EXCEPT ![t] = r]
  BY <1>1 DEF Read, IInv, TypeOK, TxType
<1> HIDE DEF r
<1>5. Sound(r)
  <2>1. \A e : RowSeen(r, e) = RowSeen(tx[t], e)
    BY <1>3 DEF RowSeen
  <2>2. Placed(r)
    BY <1>1, <1>2, <1>3, <2>1 DEF Sound, Placed
  <2>3. Owned(r)
    BY <1>1, <1>3, <2>1 DEF Sound, Owned
  <2>4. Answered(r)
    BY <1>1, <1>3 DEF Read, Sound, Answered
  <2>5. Asked(r)
    BY <1>1, <1>3 DEF Sound, Asked
  <2>6. QED BY <2>2, <2>3, <2>4, <2>5 DEF Sound
<1>6. QED BY <1>3, <1>4, <1>5, StepKeeps DEF Read, IInv, TypeOK, history

LEMMA ResumeKeeps ==
  ASSUME IInv, NEW t \in Tx, Resume(t)
  PROVE  IInv'
<1> DEFINE e == tx[t].on
           copy == tx[t].copy
           row == [ExecSeen(t, e) EXCEPT !.status = "running", !.at = None]
           todo == IF copy.at = None THEN Trigger ELSE Succ[copy.at] \ copy.seen
           seen == IF copy.at = None THEN {} ELSE copy.seen
           r == [tx[t] EXCEPT !.pc = "run", !.copy = None, !.todo = todo, !.seen = seen,
                              !.exec[e] = row]
<1>1. Sound(tx[t]) /\ tx[t] \in TxType
  BY RowTypes DEF IInv
<1>2. e \in Exec /\ ExecSeen(t, e) \in ExecRow /\ copy \in ExecRow
  BY <1>1, RowTypes, SeenIsRowSeen DEF Resume, Sound, Placed, TxType, IInv
<1>3. row \in ExecRow /\ row.status = "running"
  BY <1>2 DEF ExecRow
<1>4. todo \in SUBSET Node /\ seen \in SUBSET Node
  BY <1>2 DEF ExecRow
<1> HIDE DEF row, todo, seen
<1>5. r \in TxType /\ r.pc = "run" /\ r.exec = [tx[t].exec EXCEPT ![e] = row]
      /\ r.ticket = tx[t].ticket /\ r.on = e /\ r.answer = tx[t].answer /\ r.list = tx[t].list
  BY <1>1, <1>2, <1>3, <1>4 DEF TxType
<1>6. tx' = [tx EXCEPT ![t] = r]
  BY <1>1 DEF Resume, row, todo, seen, IInv, TypeOK, TxType
<1> HIDE DEF r
<1>7. UNCHANGED <<exec, ticket, performed, history>> /\ row.status \notin Waiting /\ e = tx[t].on
  BY <1>3 DEF Resume, Waiting
<1> HIDE DEF e
<1>8. QED BY <1>2, <1>3, <1>5, <1>6, <1>7, WriteKeeps

-----------------------------------------------------------------------------
(* The walk.                                                               *)
LEMMA OnTheWalk ==
  ASSUME IInv, NEW t \in Tx, tx[t].pc = "run"
  PROVE  /\ Sound(tx[t]) /\ tx[t] \in TxType
         /\ tx[t].on \in Exec /\ tx[t].exec[tx[t].on] \in ExecRow
         /\ After(t) \in {"mark", "commit"}
<1>1. Sound(tx[t]) /\ tx[t] \in TxType
  BY RowTypes DEF IInv
<1>2. QED BY <1>1 DEF Sound, Placed, TxType, After

LEMMA PerformKeeps ==
  ASSUME IInv, NEW t \in Tx, NEW n \in Node, Perform(t, n)
  PROVE  IInv'
<1> PICK next \in Branches(n) :
      tx' = [tx EXCEPT ![t].seen = @ \cup {n},
                       ![t].todo = (@ \cup next) \ (tx[t].seen \cup {n})]
  BY DEF Perform
<1> DEFINE todo == (tx[t].todo \cup next) \ (tx[t].seen \cup {n})
           r == [tx[t] EXCEPT !.seen = @ \cup {n}, !.todo = todo]
<1>1. Sound(tx[t]) /\ tx[t] \in TxType
  BY RowTypes DEF IInv
<1>2. next \in SUBSET Node
  BY DEF Branches
<1>3. todo \in SUBSET Node
  BY <1>1, <1>2 DEF TxType
<1> HIDE DEF todo
<1>4. /\ r \in TxType /\ r.pc = tx[t].pc /\ r.copy = tx[t].copy
      /\ r.exec = tx[t].exec /\ r.ticket = tx[t].ticket
      /\ r.on = tx[t].on /\ r.answer = tx[t].answer /\ r.list = tx[t].list
  BY <1>1, <1>3 DEF TxType
<1>5. tx' = [tx EXCEPT ![t] = r]
  BY <1>1 DEF todo, IInv, TypeOK, TxType
<1> HIDE DEF r
<1>6. Sound(r)
  <2>1. \A e : RowSeen(r, e) = RowSeen(tx[t], e)
    BY <1>4 DEF RowSeen
  <2>2. Placed(r) /\ Owned(r)
    BY <1>1, <1>4, <2>1 DEF Sound, Placed, Owned
  <2>3. Answered(r)
    BY <1>1, <1>4 DEF Sound, Answered
  <2>4. Asked(r)
    BY <1>1, <1>4 DEF Sound, Asked
  <2>5. QED BY <2>2, <2>3, <2>4 DEF Sound
<1>7. performed' \in [Exec -> [Node -> 0..2]]
  <2>1. performed \in [Exec -> [Node -> 0..2]]
    BY DEF IInv, TypeOK
  <2>2. \A x \in 0..2 : (IF x = 2 THEN 2 ELSE x + 1) \in 0..2
    OBVIOUS
  <2>3. QED BY <2>1, <2>2 DEF Perform
<1>8. QED BY <1>4, <1>5, <1>6, <1>7, StepKeeps DEF Perform, IInv, TypeOK, history

LEMMA FailKeeps ==
  ASSUME IInv, NEW t \in Tx, NEW n \in Node, NodeFails(t, n)
  PROVE  IInv'
<1> DEFINE e == tx[t].on
           row == [tx[t].exec[e] EXCEPT !.status = "failed"]
           r == [tx[t] EXCEPT !.pc = After(t), !.todo = {}, !.seen = {}, !.exec[e] = row]
<1>1. tx[t].pc = "run" /\ UNCHANGED <<exec, ticket, performed, history>>
  BY DEF NodeFails, Runs
<1>2. /\ tx[t] \in TxType /\ e \in Exec /\ tx[t].exec[e] \in ExecRow
      /\ After(t) \in {"mark", "commit"}
  BY <1>1, OnTheWalk
<1>3. row \in ExecRow /\ row.status \notin Waiting /\ e = tx[t].on
  BY <1>2 DEF ExecRow, Waiting
<1> HIDE DEF row
<1>4. r \in TxType /\ r.pc = After(t) /\ r.exec = [tx[t].exec EXCEPT ![e] = row]
      /\ r.ticket = tx[t].ticket /\ r.on = e /\ r.answer = tx[t].answer
      /\ r.list = tx[t].list
  BY <1>2, <1>3 DEF TxType
<1>5. tx' = [tx EXCEPT ![t] = r]
  BY <1>2 DEF NodeFails, row, IInv, TypeOK, TxType
<1> HIDE DEF r, e
<1>6. r.pc \in {"run", "mark", "commit"} /\ r \in TxType /\ e \in Exec
  BY <1>2, <1>4
<1>7. /\ r.exec = [tx[t].exec EXCEPT ![e] = row] /\ r.ticket = tx[t].ticket
      /\ r.on = e /\ r.answer = tx[t].answer /\ r.list = tx[t].list
  BY <1>4
<1>8. QED BY <1>1, <1>3, <1>5, <1>6, <1>7, WriteKeeps

LEMMA FinishKeeps ==
  ASSUME IInv, NEW t \in Tx, Finish(t)
  PROVE  IInv'
<1> DEFINE e == tx[t].on
           row == [tx[t].exec[e] EXCEPT !.status = "success"]
           r == [tx[t] EXCEPT !.pc = After(t), !.seen = {}, !.exec[e] = row]
<1>1. tx[t].pc = "run" /\ UNCHANGED <<exec, ticket, performed, history>>
  BY DEF Finish
<1>2. /\ tx[t] \in TxType /\ e \in Exec /\ tx[t].exec[e] \in ExecRow
      /\ After(t) \in {"mark", "commit"}
  BY <1>1, OnTheWalk
<1>3. row \in ExecRow /\ row.status \notin Waiting /\ e = tx[t].on
  BY <1>2 DEF ExecRow, Waiting
<1> HIDE DEF row
<1>4. r \in TxType /\ r.pc = After(t) /\ r.exec = [tx[t].exec EXCEPT ![e] = row]
      /\ r.ticket = tx[t].ticket /\ r.on = e /\ r.answer = tx[t].answer
      /\ r.list = tx[t].list
  BY <1>2, <1>3 DEF TxType
<1>5. tx' = [tx EXCEPT ![t] = r]
  BY <1>2 DEF Finish, row, IInv, TypeOK, TxType
<1> HIDE DEF r, e
<1>6. r.pc \in {"run", "mark", "commit"} /\ r \in TxType /\ e \in Exec
  BY <1>2, <1>4
<1>7. /\ r.exec = [tx[t].exec EXCEPT ![e] = row] /\ r.ticket = tx[t].ticket
      /\ r.on = e /\ r.answer = tx[t].answer /\ r.list = tx[t].list
  BY <1>4
<1>8. QED BY <1>1, <1>3, <1>5, <1>6, <1>7, WriteKeeps

(* The pause takes the first unused ticket.                                *)
LEMMA PauseKeeps ==
  ASSUME IInv, NEW t \in Tx, NEW n \in Node, Pause(t, n)
  PROVE  IInv'
<1> DEFINE e == tx[t].on
           new == [exec |-> e, node |-> n, status |-> "pending"]
           row(k) == [status |-> IF Kind[n] = "gate" THEN "waiting_approval" ELSE "waiting_event",
                      at |-> n, seen |-> tx[t].seen \cup {n}, asked |-> k]
<1>1. PICK k \in Ticket :
        /\ Fresh(k)
        /\ tx' = [tx EXCEPT ![t].pc = After(t), ![t].todo = {}, ![t].seen = {},
                            ![t].ticket[k] = new, ![t].exec[e] = row(k)]
  BY DEF Pause
<1> DEFINE w == row(k)
           r == [tx[t] EXCEPT !.pc = After(t), !.todo = {}, !.seen = {},
                              !.ticket[k] = new, !.exec[e] = w]
<1>2. tx[t].pc = "run" /\ UNCHANGED <<exec, ticket, performed, history>>
  BY DEF Pause, Runs
<1>3. /\ Sound(tx[t]) /\ tx[t] \in TxType /\ e \in Exec /\ tx[t].exec[e] \in ExecRow
      /\ After(t) \in {"mark", "commit"}
  BY <1>2, OnTheWalk
<1>4. new \in TicketRow /\ new # None
      /\ new.exec = e /\ new.node = n /\ new.status = "pending"
  BY <1>3 DEF TicketRow
<1>5. w \in ExecRow /\ w # None /\ w.asked = k /\ w.at = n
  BY <1>3 DEF ExecRow, TxType
<1> HIDE DEF new, row
<1>6. /\ r \in TxType /\ r.pc = After(t) /\ r.on = e
      /\ r.answer = tx[t].answer /\ r.list = tx[t].list
      /\ r.exec = [tx[t].exec EXCEPT ![e] = w]
      /\ r.ticket = [tx[t].ticket EXCEPT ![k] = new]
  BY <1>3, <1>4, <1>5 DEF TxType
<1>7. tx' = [tx EXCEPT ![t] = r]
  BY <1>1, <1>3 DEF IInv, TypeOK, TxType
<1> HIDE DEF r, w
<1>8. /\ r.exec[e] = w /\ \A f \in Exec : f # e => r.exec[f] = tx[t].exec[f]
      /\ r.ticket[k] = new /\ \A j \in Ticket : j # k => r.ticket[j] = tx[t].ticket[j]
  BY <1>3, <1>6 DEF TxType
<1>9. ticket[k] = None /\ \A u \in Tx : tx[u].ticket[k] = None
  BY <1>1 DEF Fresh
<1>10. \A j \in Ticket : /\ tx[t].ticket[j] # None => tx[t].ticket[j].exec \in Exec
                         /\ ticket[j] # None => ticket[j].exec \in Exec
  BY <1>3 DEF IInv, TypeOK, TxType, TicketRow
<1>11. Placed(r)
  BY <1>3, <1>6 DEF Sound, Placed
<1>12. Owned(r)
  <2> SUFFICES ASSUME NEW j \in Ticket, r.ticket[j] # None
               PROVE  /\ RowSeen(r, r.ticket[j].exec) # None
                      /\ ticket[j] # None => r.ticket[j].exec = ticket[j].exec
                                             /\ r.ticket[j].node = ticket[j].node
    BY DEF Owned
  <2>1. CASE j = k
    BY <1>4, <1>5, <1>8, <1>9, <2>1 DEF RowSeen
  <2>2. CASE j # k
    BY <1>3, <1>5, <1>8, <1>10, <2>2 DEF Sound, Owned, RowSeen
  <2>3. QED BY <2>1, <2>2
<1>13. Answered(r)
  BY <1>2, <1>3, <1>5, <1>8, <1>9, <1>10 DEF Sound, Answered
<1>14. Asked(r)
  <2> SUFFICES ASSUME NEW f \in Exec, r.exec[f] # None, r.exec[f].status \in Waiting
               PROVE  LET j == r.exec[f].asked IN
                      /\ j # None /\ ticket[j] = None /\ r.ticket[j] # None
                      /\ r.ticket[j].exec = f /\ r.ticket[j].node = r.exec[f].at
                      /\ r.ticket[j].status = "pending"
    BY DEF Asked
  <2>1. CASE f = e
    BY <1>4, <1>5, <1>8, <1>9, <2>1
  <2>2. CASE f # e
    <3>1. /\ r.exec[f] = tx[t].exec[f] /\ tx[t].exec[f].asked \in Ticket
          /\ tx[t].ticket[tx[t].exec[f].asked] # None
      BY <1>3, <1>8, <2>2 DEF Sound, Asked, TxType, ExecRow
    <3>2. tx[t].exec[f].asked # k
      BY <1>9, <3>1
    <3>3. QED BY <1>3, <1>8, <2>2, <3>1, <3>2 DEF Sound, Asked
  <2>3. QED BY <2>1, <2>2
<1>15. \A j \in Ticket : r.ticket[j] # None => tx[t].ticket[j] # None \/ TicketFree(t, j)
  BY <1>8, <1>9 DEF TicketFree
<1>16. QED
  <2>1. Sound(r)
    BY <1>11, <1>12, <1>13, <1>14 DEF Sound
  <2>2. QED BY <1>2, <1>6, <1>7, <1>15, <2>1, StepKeeps DEF IInv, TypeOK, history

-----------------------------------------------------------------------------
(* Inputs and failures begin or end a transaction; a decision is on a      *)
(* pending ticket, a resumption on an execution.                           *)
LEMMA BeginKeeps ==
  ASSUME IInv, NEW t \in Tx, NEW r \in TxType,
         tx' = [tx EXCEPT ![t] = r], UNCHANGED <<exec, ticket, performed, redecided>>,
         manual' \in BOOLEAN, inputs' \in 0..MaxInputs, aborts' \in 0..MaxAborts,
         r.ticket = [k \in Ticket |-> None],
         Placed(r), Asked(r)
  PROVE  IInv'
<1>1. \A k \in Ticket : r.ticket[k] = None
  OBVIOUS
<1>2. Owned(r) /\ Answered(r)
  BY <1>1 DEF Owned, Answered
<1>3. Sound(r)
  BY <1>2 DEF Sound
<1>4. QED BY <1>1, <1>3, StepKeeps DEF IInv, TypeOK

LEMMA CountInput ==
  ASSUME IInv, NEW t \in Tx, Begins(t)
  PROVE  inputs' \in 0..MaxInputs
  BY DEF Begins, IInv, TypeOK

LEMMA StartKeeps ==
  ASSUME IInv, NEW t \in Tx, NEW e \in Exec, Start(t, e)
  PROVE  IInv'
<1> DEFINE row == [status |-> "running", at |-> None, seen |-> {}, asked |-> None]
           rows == [IdleTx.exec EXCEPT ![e] = row]
           r == [IdleTx EXCEPT !.pc = "run", !.on = e, !.todo = Trigger, !.exec[e] = row]
<1>1. row \in ExecRow /\ row.status \notin Waiting /\ row # None
  BY DEF ExecRow, Waiting
<1> HIDE DEF row
<1>2. r \in TxType /\ r.pc = "run" /\ r.on = e /\ r.list = {}
      /\ r.ticket = [k \in Ticket |-> None] /\ r.exec[e] = row
      /\ \A f \in Exec : f # e => r.exec[f] = None
  BY <1>1 DEF IdleTx, TxType
<1>3. tx' = [tx EXCEPT ![t] = r]
  BY DEF Start, row
<1> HIDE DEF r
<1>4. Placed(r) /\ Asked(r)
  BY <1>1, <1>2 DEF Placed, Asked
<1>5. QED BY <1>2, <1>3, <1>4, CountInput, BeginKeeps DEF Start, IInv, TypeOK

LEMMA DecideKeeps ==
  ASSUME IInv, NEW t \in Tx, NEW L \in SUBSET Ticket,
         NEW answer \in {"approved", "rejected", "received"},
         \A k \in L : ticket[k] # None, Begins(t),
         tx' = [tx EXCEPT ![t] = [IdleTx EXCEPT !.pc = "mark", !.list = L, !.answer = answer]],
         UNCHANGED <<exec, ticket, performed, redecided, manual, aborts>>
  PROVE  IInv'
<1> DEFINE r == [IdleTx EXCEPT !.pc = "mark", !.list = L, !.answer = answer]
<1>1. r \in TxType /\ r.pc = "mark" /\ r.list = L /\ r.answer = answer
      /\ r.ticket = [k \in Ticket |-> None] /\ r.exec = [e \in Exec |-> None]
  BY DEF IdleTx, TxType
<1> HIDE DEF r
<1>2. Placed(r) /\ Asked(r)
  BY <1>1 DEF Placed, Asked
<1>3. tx' = [tx EXCEPT ![t] = r]
  BY DEF r
<1>4. QED BY <1>1, <1>2, <1>3, CountInput, BeginKeeps DEF IInv, TypeOK

LEMMA ResumeByHandKeeps ==
  ASSUME IInv, NEW t \in Tx, NEW e \in Exec, ResumeByHand(t, e)
  PROVE  IInv'
<1> DEFINE r == [IdleTx EXCEPT !.pc = "read", !.on = e]
<1>1. r \in TxType /\ r.pc = "read" /\ r.list = {} /\ r.on = e
      /\ r.ticket = [k \in Ticket |-> None] /\ r.exec = [f \in Exec |-> None]
  BY DEF IdleTx, TxType
<1>2. tx' = [tx EXCEPT ![t] = r]
  BY DEF ResumeByHand
<1> HIDE DEF r
<1>3. Placed(r) /\ Asked(r)
  BY <1>1 DEF ResumeByHand, Placed, Asked, RowSeen
<1>4. QED BY <1>1, <1>2, <1>3, CountInput, BeginKeeps DEF ResumeByHand, IInv, TypeOK

LEMMA AbortKeeps ==
  ASSUME IInv, NEW t \in Tx, Abort(t)
  PROVE  IInv'
<1>1. IdleTx \in TxType /\ Placed(IdleTx) /\ Asked(IdleTx)
  BY IdleSound DEF Sound
<1>2. IdleTx.ticket = [k \in Ticket |-> None]
  BY DEF IdleTx
<1>3. aborts' \in 0..MaxAborts
  BY DEF Abort, IInv, TypeOK
<1>4. QED BY <1>1, <1>2, <1>3, BeginKeeps DEF Abort, IInv, TypeOK

LEMMA InputKeeps ==
  ASSUME IInv, Input
  PROVE  IInv'
<1>1. ASSUME NEW t \in Tx, NEW k \in Ticket, NEW a \in {"approved", "rejected"}, Decide(t, k, a)
      PROVE  IInv'
  <2>1. {k} \in SUBSET Ticket /\ \A j \in {k} : ticket[j] # None
    BY <1>1 DEF Decide, Pending
  <2>2. a \in {"approved", "rejected", "received"}
    OBVIOUS
  <2>3. /\ Begins(t)
        /\ tx' = [tx EXCEPT ![t] = [IdleTx EXCEPT !.pc = "mark", !.list = {k}, !.answer = a]]
        /\ UNCHANGED <<exec, ticket, performed, redecided, manual, aborts>>
    BY <1>1 DEF Decide
  <2>4. QED BY <2>1, <2>2, <2>3, DecideKeeps
<1>2. ASSUME NEW L \in SUBSET Ticket, Event(L)
      PROVE  IInv'
  <2>1. Evaluator \in Tx
    BY DEF Tx
  <2>2. QED BY <1>2, <2>1, DecideKeeps DEF Event, Pending
<1>3. QED BY <1>1, <1>2, StartKeeps, ResumeByHandKeeps DEF Input

-----------------------------------------------------------------------------
(* A commit: an execution it leaves waiting waits for a ticket of its own; *)
(* one that waited before has not been answered by it.                     *)
LEMMA CommitKeeps ==
  ASSUME IInv, NEW t \in Tx, Commit(t)
  PROVE  IInv'
<1>1. /\ Sound(tx[t]) /\ tx[t] \in TxType /\ tx[t].pc = "commit"
      /\ \A e \in Exec : exec'[e] = RowSeen(tx[t], e)
      /\ \A k \in Ticket : ticket'[k] = TicketSeen(t, k)
      /\ tx'[t] = IdleTx /\ \A u \in Tx : u # t => tx'[u] = tx[u]
  BY RowTypes, SeenIsRowSeen DEF Commit, IInv, TypeOK
<1>2. TypeOK'
  <2>1. exec' \in [Exec -> ExecRow \cup {None}]
    BY RowTypes DEF Commit, IInv
  <2>2. ticket' \in [Ticket -> TicketRow \cup {None}]
    BY DEF Commit, TicketSeen, IInv, TypeOK, TxType
  <2>3. QED BY <2>1, <2>2, IdleSound DEF Commit, IInv, TypeOK, history
<1>3. /\ \A e \in Exec : exec[e] # None => exec'[e] # None
      /\ \A k \in Ticket : ticket[k] # None =>
           /\ ticket'[k] # None
           /\ ticket'[k].exec = ticket[k].exec /\ ticket'[k].node = ticket[k].node
      /\ \A k \in Ticket : ticket'[k] # None => ticket'[k] \in TicketRow
      /\ \A k \in Ticket : ticket[k] # None => ticket[k].exec \in Exec
  <2>1. \A e \in Exec : exec[e] # None => exec'[e] # None
    BY <1>1 DEF RowSeen
  <2>2. \A k \in Ticket : ticket[k] # None =>
           /\ ticket'[k] # None
           /\ ticket'[k].exec = ticket[k].exec /\ ticket'[k].node = ticket[k].node
    BY <1>1 DEF TicketSeen, Sound, Owned
  <2>3. \A k \in Ticket : ticket'[k] # None => ticket'[k] \in TicketRow
    BY <1>2 DEF TypeOK
  <2>4. \A k \in Ticket : ticket[k] # None => ticket[k].exec \in Exec
    BY DEF IInv, TypeOK, TicketRow
  <2>5. QED BY <2>1, <2>2, <2>3, <2>4
<1>4. TicketsLocked'
  <2>1. \A k \in Ticket : tx'[t].ticket[k] = None
    BY <1>1 DEF IdleTx
  <2>2. QED BY <1>1, <2>1 DEF IInv, TicketsLocked
<1>5. TicketsOwned'
  <2> SUFFICES ASSUME NEW k \in Ticket, ticket'[k] # None PROVE exec'[ticket'[k].exec] # None
    BY DEF TicketsOwned
  <2>1. ticket'[k].exec \in Exec
    BY <1>3 DEF TicketRow
  <2>2. CASE tx[t].ticket[k] # None
    BY <1>1, <2>1, <2>2 DEF TicketSeen, Sound, Owned
  <2>3. CASE tx[t].ticket[k] = None
    BY <1>1, <1>3, <2>1, <2>3 DEF TicketSeen, IInv, TicketsOwned
  <2>4. QED BY <2>2, <2>3
<1>6. WaitsForAnswer'
  <2> SUFFICES ASSUME NEW e \in Exec, exec'[e] # None, exec'[e].status \in Waiting
               PROVE  /\ exec'[e].asked # None /\ ticket'[exec'[e].asked] # None
                      /\ ticket'[exec'[e].asked].exec = e
                      /\ ticket'[exec'[e].asked].node = exec'[e].at
                      /\ ticket'[exec'[e].asked].status \in {"pending", "expired"}
    BY DEF WaitsForAnswer
  <2> DEFINE k == exec'[e].asked
  <2>1. exec'[e] \in ExecRow
    BY <1>2 DEF TypeOK
  <2>2. k \in Ticket \cup {None}
    BY <2>1 DEF ExecRow
  <2>3. CASE tx[t].exec[e] # None
    <3>1. exec'[e] = tx[t].exec[e]
      BY <1>1, <2>3 DEF RowSeen
    <3>2. /\ k # None /\ tx[t].ticket[k] # None
          /\ tx[t].ticket[k].exec = e /\ tx[t].ticket[k].node = exec'[e].at
          /\ tx[t].ticket[k].status = "pending"
      BY <1>1, <2>3, <3>1 DEF Sound, Asked
    <3>3. ticket'[k] = tx[t].ticket[k]
      BY <1>1, <2>2, <3>2 DEF TicketSeen
    <3>4. QED BY <3>2, <3>3
  <2>4. CASE tx[t].exec[e] = None
    <3>1. exec'[e] = exec[e]
      BY <1>1, <2>4 DEF RowSeen
    <3>2. /\ k # None /\ ticket[k] # None
          /\ ticket[k].exec = e /\ ticket[k].node = exec[e].at
          /\ ticket[k].status \in {"pending", "expired"}
      BY <3>1 DEF IInv, WaitsForAnswer
    <3>3. tx[t].ticket[k] = None
      BY <1>1, <2>2, <2>4, <3>2 DEF Sound, Answered
    <3>4. ticket'[k] = ticket[k]
      BY <1>1, <2>2, <3>2, <3>3 DEF TicketSeen
    <3>5. QED BY <3>1, <3>2, <3>4
  <2>5. QED BY <2>3, <2>4
<1>7. \A u \in Tx : Sound(tx[u])'
  <2> SUFFICES ASSUME NEW u \in Tx PROVE Sound(tx[u])'
    OBVIOUS
  <2>1. CASE u = t
    <3>1. tx'[u] = IdleTx
      BY <1>1, <2>1
    <3>2. Placed(tx[u])' /\ Owned(tx[u])' /\ Answered(tx[u])' /\ Asked(tx[u])'
      BY <3>1 DEF IdleTx, Placed, Owned, Answered, Asked
    <3>3. QED BY <3>2 DEF Sound
  <2>2. CASE u # t
    <3>1. tx'[u] = tx[u] /\ Sound(tx[u]) /\ tx[u] \in TxType
      BY <1>1, <2>2, RowTypes DEF IInv
    <3>2. \A e \in Exec : RowSeen(tx[u], e) # None => RowSeen(tx[u], e)' # None
      BY <1>3, <3>1 DEF RowSeen
    <3>3. \A k \in Ticket : tx[u].ticket[k] # None => ticket'[k] = ticket[k]
      BY <1>1, <2>2 DEF IInv, TicketsLocked, TicketSeen
    <3>4. \A k \in Ticket : tx[u].ticket[k] # None => tx[u].ticket[k].exec \in Exec
      BY <3>1 DEF TxType, TicketRow
    <3>5. Placed(tx[u])'
      BY <1>3, <3>1, <3>2 DEF Sound, Placed, TxType
    <3>6. Owned(tx[u])'
      BY <3>1, <3>2, <3>3, <3>4 DEF Sound, Owned
    <3>7. Answered(tx[u])'
      BY <3>1, <3>3 DEF Sound, Answered
    <3>8. Asked(tx[u])'
      <4> SUFFICES ASSUME NEW e \in Exec, tx[u].exec[e] # None, tx[u].exec[e].status \in Waiting
                   PROVE  LET k == tx[u].exec[e].asked IN
                          /\ k # None /\ ticket'[k] = None /\ tx[u].ticket[k] # None
                          /\ tx[u].ticket[k].exec = e /\ tx[u].ticket[k].node = tx[u].exec[e].at
                          /\ tx[u].ticket[k].status = "pending"
        BY <3>1 DEF Asked
      <4>1. tx[u].exec[e].asked \in Ticket \cup {None}
        BY <3>1 DEF TxType, ExecRow
      <4>2. QED BY <3>1, <3>3, <4>1 DEF Sound, Asked
    <3>9. QED BY <3>5, <3>6, <3>7, <3>8 DEF Sound
  <2>3. QED BY <2>1, <2>2
<1>8. QED BY <1>2, <1>4, <1>5, <1>6, <1>7 DEF IInv

LEMMA ExpireKeeps ==
  ASSUME IInv, NEW k \in Ticket, Expire(k)
  PROVE  IInv'
<1>1. /\ ticket[k] # None /\ ticket[k] \in TicketRow /\ \A t \in Tx : tx[t].ticket[k] = None
      /\ UNCHANGED <<exec, tx, performed, history>>
  BY DEF Expire, IInv, TypeOK
<1>2. /\ ticket'[k] = [ticket[k] EXCEPT !.status = "expired"]
      /\ ticket' \in [Ticket -> TicketRow \cup {None}]
      /\ \A j \in Ticket : j # k => ticket'[j] = ticket[j]
  BY <1>1 DEF Expire, IInv, TypeOK, TicketRow
<1>3. /\ ticket'[k] # None /\ ticket'[k].status = "expired"
      /\ ticket'[k].exec = ticket[k].exec /\ ticket'[k].node = ticket[k].node
  BY <1>1, <1>2 DEF TicketRow
<1>4. TypeOK'
  BY <1>1, <1>2 DEF IInv, TypeOK, history
<1>5. TicketsLocked' /\ TicketsOwned'
  <2>1. TicketsLocked'
    BY <1>1 DEF IInv, TicketsLocked
  <2>2. TicketsOwned'
    BY <1>1, <1>2, <1>3 DEF IInv, TicketsOwned
  <2>3. QED BY <2>1, <2>2
<1>6. WaitsForAnswer'
  <2> SUFFICES ASSUME NEW e \in Exec, exec[e] # None, exec[e].status \in Waiting
               PROVE  /\ exec[e].asked # None /\ ticket'[exec[e].asked] # None
                      /\ ticket'[exec[e].asked].exec = e
                      /\ ticket'[exec[e].asked].node = exec[e].at
                      /\ ticket'[exec[e].asked].status \in {"pending", "expired"}
    BY <1>1 DEF WaitsForAnswer
  <2>1. exec[e].asked \in Ticket \cup {None}
    BY DEF IInv, TypeOK, ExecRow
  <2>2. QED BY <1>2, <1>3, <2>1 DEF IInv, WaitsForAnswer
<1>7. \A t \in Tx : Sound(tx[t])'
  <2> SUFFICES ASSUME NEW t \in Tx PROVE Sound(tx[t])'
    OBVIOUS
  <2>1. Sound(tx[t]) /\ tx[t] \in TxType /\ tx'[t] = tx[t]
    BY <1>1, RowTypes DEF IInv
  <2>2. \A e : RowSeen(tx[t], e)' = RowSeen(tx[t], e)
    BY <1>1 DEF RowSeen
  <2>3. \A j \in Ticket : /\ ticket[j] # None <=> ticket'[j] # None
                          /\ tx[t].ticket[j] # None => ticket'[j] = ticket[j]
    BY <1>1, <1>2, <1>3
  <2>4. Placed(tx[t])'
    BY <2>1, <2>2, <2>3 DEF Sound, Placed, TxType
  <2>5. Owned(tx[t])'
    BY <2>1, <2>2, <2>3 DEF Sound, Owned
  <2>6. Answered(tx[t])'
    BY <2>1, <2>3 DEF Sound, Answered
  <2>7. Asked(tx[t])'
    <3> SUFFICES ASSUME NEW e \in Exec, tx[t].exec[e] # None, tx[t].exec[e].status \in Waiting
                 PROVE  LET j == tx[t].exec[e].asked IN
                        /\ j # None /\ ticket'[j] = None /\ tx[t].ticket[j] # None
                        /\ tx[t].ticket[j].exec = e /\ tx[t].ticket[j].node = tx[t].exec[e].at
                        /\ tx[t].ticket[j].status = "pending"
      BY <2>1 DEF Asked
    <3>1. tx[t].exec[e].asked \in Ticket \cup {None}
      BY <2>1 DEF TxType, ExecRow
    <3>2. QED BY <2>1, <2>3, <3>1 DEF Sound, Asked
  <2>8. QED BY <2>4, <2>5, <2>6, <2>7 DEF Sound
<1>8. QED BY <1>4, <1>5, <1>6, <1>7 DEF IInv

-----------------------------------------------------------------------------
LEMMA InvNext == IInv /\ [Next]_vars => IInv'
<1> SUFFICES ASSUME IInv, [Next]_vars PROVE IInv'
  OBVIOUS
<1>1. CASE Input
  BY <1>1, InputKeeps
<1>2. ASSUME NEW t \in Tx, Step(t) PROVE IInv'
  <2>1. ASSUME NEW k \in Ticket, Mark(t, k) PROVE IInv'
    BY <2>1, MarkKeeps
  <2>2. CASE Reject(t)
    BY <2>2, RejectKeeps
  <2>3. CASE Read(t)
    BY <2>3, ReadKeeps
  <2>4. CASE Resume(t)
    BY <2>4, ResumeKeeps
  <2>5. ASSUME NEW n \in Node, Perform(t, n) \/ Pause(t, n) PROVE IInv'
    BY <2>5, PerformKeeps, PauseKeeps
  <2>6. CASE Finish(t)
    BY <2>6, FinishKeeps
  <2>7. CASE Commit(t)
    BY <2>7, CommitKeeps
  <2>8. QED BY <1>2, <2>1, <2>2, <2>3, <2>4, <2>5, <2>6, <2>7 DEF Step
<1>3. ASSUME NEW t \in Tx, Abort(t) \/ \E n \in Node : NodeFails(t, n) PROVE IInv'
  BY <1>3, AbortKeeps, FailKeeps
<1>4. ASSUME NEW k \in Ticket, Expire(k) PROVE IInv'
  BY <1>4, ExpireKeeps
<1>5. CASE UNCHANGED vars
  <2>1. /\ UNCHANGED <<exec, ticket, tx, performed, redecided, manual, inputs, aborts>>
    BY <1>5 DEF vars, history
  <2>2. TypeOK' /\ TicketsLocked' /\ TicketsOwned' /\ WaitsForAnswer'
    BY <2>1 DEF IInv, TypeOK, TicketsLocked, TicketsOwned, WaitsForAnswer
  <2>3. ASSUME NEW t \in Tx PROVE Sound(tx[t])'
    <3>1. tx'[t] = tx[t] /\ Sound(tx[t]) /\ UNCHANGED <<exec, ticket>>
      BY <2>1 DEF IInv
    <3>2. \A e : RowSeen(tx[t], e)' = RowSeen(tx[t], e)
      BY <3>1 DEF RowSeen
    <3>3. Placed(tx[t])' /\ Owned(tx[t])'
      BY <3>1, <3>2 DEF Sound, Placed, Owned
    <3>4. Answered(tx[t])'
      BY <3>1 DEF Sound, Answered
    <3>5. Asked(tx[t])'
      BY <3>1 DEF Sound, Asked
    <3>6. QED BY <3>3, <3>4, <3>5 DEF Sound
  <2>4. QED BY <2>2, <2>3 DEF IInv
<1>6. QED BY <1>1, <1>2, <1>3, <1>4, <1>5 DEF Next

(* What every open transaction has written fits what is committed, in      *)
(* every reachable state of main.py's executions.                          *)
THEOREM InductiveInvariant == Spec => []IInv
  BY InvInit, InvNext, PTL DEF Spec

(* Rows and transactions keep their types.                                 *)
THEOREM TypeCorrect == Spec => []TypeOK
<1>1. IInv => TypeOK
  BY DEF IInv
<1>2. QED BY <1>1, InductiveInvariant, PTL

(* Nobody waits for an answer that has been given: a decision or an event  *)
(* is committed together with the resumption it causes (main.py:3087-3126, *)
(* 1837-1855).                                                             *)
THEOREM WaitingIsAsking == Spec => []WaitsForAnswer
<1>1. IInv => WaitsForAnswer
  BY DEF IInv
<1>2. QED BY <1>1, InductiveInvariant, PTL
-----------------------------------------------------------------------------
(* That a node acts twice only with a cause is proved on top of IInv.  As  *)
(* long as there is no cause (Calm), a transaction touches a committed     *)
(* execution only after it has marked the one pending ticket the execution *)
(* waits for; so nobody else touches it, and what its row says was visited *)
(* when it paused is still all that was done when it resumes.              *)
Calm == aborts = 0 /\ ~manual /\ ~redecided

(* What a transaction has, calm or not.                                    *)
Shaped(r) ==
  /\ r.pc = "idle" => r = IdleTx
  /\ \A k \in r.list : r.ticket[k] = None
  /\ r.pc = "run" => r.todo \cap r.seen = {} /\ r.exec[r.on].status = "running"

ExecsLocked ==
  \A t, u \in Tx, e \in Exec :
    t # u /\ tx[t].exec[e] # None => tx[u].exec[e] = None

(* It has marked the ticket the committed row of e waits for.              *)
Holds(r, e) == exec[e].asked # None /\ r.ticket[exec[e].asked] # None

(* A ticket it has marked was pending.                                     *)
MarkedPending(r) ==
  \A k \in Ticket : r.ticket[k] # None /\ ticket[k] # None =>
    ticket[k].status = "pending" /\ r.ticket[k].status # "pending"

(* A pending ticket is the one its execution waits for.                    *)
AwaitedBy(row, k) == row # None /\ row.asked = k /\ row.status \in Waiting

NewAwaited(r) ==
  \A k \in Ticket : r.ticket[k] # None /\ r.ticket[k].status = "pending" =>
    AwaitedBy(r.exec[r.ticket[k].exec], k)

Awaited ==
  \A k \in Ticket : ticket[k] # None /\ ticket[k].status = "pending" =>
    AwaitedBy(exec[ticket[k].exec], k)

(* It touches a committed execution only if it has marked its ticket.      *)
Entitled(r) ==
  /\ \A e \in Exec : r.exec[e] # None /\ exec[e] # None => Holds(r, e)
  /\ r.pc \in {"reject", "read", "resume"} =>
       /\ r.exec[r.on] = None /\ exec[r.on] # None
       /\ exec[r.on].status \in Waiting /\ Holds(r, r.on)
  /\ r.pc = "resume" => r.copy = exec[r.on]

Acted(e) == {n \in Node : performed[e][n] > 0}

(* The walk and the pause it wrote know what was done.                     *)
Remembers(r) ==
  /\ r.pc = "run" => Acted(r.on) \subseteq r.seen
  /\ \A e \in Exec : r.exec[e] # None /\ r.exec[e].status \in Waiting =>
       Acted(e) \subseteq r.exec[e].seen

Proper(r) == MarkedPending(r) /\ NewAwaited(r) /\ Entitled(r) /\ Remembers(r)

(* So does the committed row of an execution nobody is writing.            *)
Recorded ==
  \A e \in Exec : (\A t \in Tx : tx[t].exec[e] = None) =>
    /\ exec[e] = None => Acted(e) = {}
    /\ exec[e] # None /\ exec[e].status \in Waiting => Acted(e) \subseteq exec[e].seen

Once == \A e \in Exec, n \in Node : performed[e][n] <= 1

Orderly ==
  /\ \A t \in Tx : Shaped(tx[t])
  /\ ExecsLocked
  /\ Calm => /\ \A t \in Tx : Proper(tx[t])
             /\ Awaited /\ Recorded /\ Once
-----------------------------------------------------------------------------
LEMMA IdleProper == Shaped(IdleTx) /\ Proper(IdleTx)
<1>1. Shaped(IdleTx)
  BY DEF IdleTx, Shaped
<1>2. MarkedPending(IdleTx) /\ NewAwaited(IdleTx)
  BY DEF IdleTx, MarkedPending, NewAwaited
<1>3. Entitled(IdleTx) /\ Remembers(IdleTx)
  BY DEF IdleTx, Entitled, Remembers
<1>4. QED BY <1>1, <1>2, <1>3 DEF Proper

LEMMA OrderlyInit == Init => Orderly
<1> SUFFICES ASSUME Init PROVE Orderly
  OBVIOUS
<1>1. \A t \in Tx : tx[t] = IdleTx
  BY DEF Init
<1>2. ExecsLocked
  BY <1>1 DEF ExecsLocked, IdleTx
<1>3. \A e \in Exec, n \in Node : performed[e][n] = 0
  BY DEF Init
<1>4. Awaited
  BY DEF Init, Awaited
<1>5. Recorded
  BY <1>3 DEF Init, Recorded, Acted
<1>6. Once
  BY <1>3 DEF Once
<1>7. QED BY <1>1, <1>2, <1>4, <1>5, <1>6, IdleProper DEF Orderly

(* A step of one transaction that commits nothing and performs nothing.    *)
LEMMA StepOrderly ==
  ASSUME Orderly, NEW t \in Tx, NEW r, tx'[t] = r,
         \A u \in Tx : u # t => tx'[u] = tx[u],
         UNCHANGED <<exec, ticket, performed>>,
         Shaped(r),
         \A e \in Exec : r.exec[e] # None => tx[t].exec[e] # None \/ ExecFree(t, e),
         Calm' => /\ Calm /\ Proper(r)
                  /\ \A e \in Exec : tx[t].exec[e] # None => r.exec[e] # None
  PROVE  Orderly'
<1>1. \A u \in Tx : Shaped(tx[u])'
  BY DEF Orderly, Shaped
<1>2. ExecsLocked'
  BY DEF Orderly, ExecsLocked, ExecFree
<1>3. ASSUME Calm' PROVE (\A u \in Tx : Proper(tx[u])') /\ Awaited' /\ Recorded' /\ Once'
  <2>1. /\ \A u \in Tx : Proper(tx'[u])
        /\ \A e \in Exec : tx[t].exec[e] # None => tx'[t].exec[e] # None
        /\ Awaited /\ Recorded /\ Once
    BY <1>3 DEF Orderly
  <2>2. \A e : Acted(e)' = Acted(e)
    BY DEF Acted
  <2>3. ASSUME NEW u \in Tx PROVE Proper(tx[u])'
    <3>1. Proper(tx'[u])
      BY <2>1
    <3>2. MarkedPending(tx[u])' /\ NewAwaited(tx[u])'
      BY <3>1 DEF Proper, MarkedPending, NewAwaited, AwaitedBy
    <3>3. Entitled(tx[u])'
      BY <3>1 DEF Proper, Entitled, Holds
    <3>4. Remembers(tx[u])'
      BY <2>2, <3>1 DEF Proper, Remembers
    <3>5. QED BY <3>2, <3>3, <3>4 DEF Proper
  <2>4. Awaited' /\ Once'
    BY <2>1 DEF Awaited, AwaitedBy, Once
  <2>5. Recorded'
    <3> SUFFICES ASSUME NEW e \in Exec, \A u \in Tx : tx'[u].exec[e] = None
                 PROVE  /\ exec[e] = None => Acted(e) = {}
                        /\ exec[e] # None /\ exec[e].status \in Waiting =>
                             Acted(e) \subseteq exec[e].seen
      BY <2>2 DEF Recorded
    <3>1. \A u \in Tx : tx[u].exec[e] = None
      BY <2>1
    <3>2. QED BY <2>1, <3>1 DEF Recorded
  <2>6. QED BY <2>3, <2>4, <2>5
<1>4. QED BY <1>1, <1>2, <1>3 DEF Orderly

-----------------------------------------------------------------------------
(* What a step leaves of the transactions that do not take it.             *)
Others(t) == \A u \in Tx : u # t => tx'[u] = tx[u]

(* The marked ticket was pending, so its execution waits for it and this   *)
(* transaction has not touched it.                                         *)
LEMMA MarkOrderly ==
  ASSUME IInv, Orderly, NEW t \in Tx, NEW k \in Ticket, Mark(t, k)
  PROVE  Orderly'
<1> DEFINE r == tx'[t]
           e == ticket[k].exec
           row == [ticket[k] EXCEPT !.status = tx[t].answer]
           m == [tx[t] EXCEPT !.pc = IF tx[t].answer = "rejected" THEN "reject" ELSE "read",
                              !.list = @ \ {k}, !.on = e, !.ticket[k] = row]
<1>1. Sound(tx[t]) /\ tx[t] \in TxType /\ Shaped(tx[t])
  BY RowTypes DEF IInv, Orderly
<1>2. ticket[k] # None /\ ticket[k] \in TicketRow
      /\ tx[t].answer \in {"approved", "rejected", "received"}
  BY <1>1, RowTypes DEF Mark, Sound, Placed, IInv
<1>3. row \in TicketRow /\ row.exec = e /\ row.node = ticket[k].node
      /\ row.status = tx[t].answer /\ row # None /\ e \in Exec
  BY <1>1, <1>2 DEF TicketRow, TxType
<1> HIDE DEF row
<1>4. /\ r.pc \in {"reject", "read"} /\ r.on = e
      /\ r.exec = tx[t].exec /\ r.list = tx[t].list \ {k}
      /\ r.ticket[k] = row
      /\ \A j \in Ticket : j # k => r.ticket[j] = tx[t].ticket[j]
      /\ Others(t)
  <2>1. /\ m.pc \in {"reject", "read"} /\ m.on = e
        /\ m.exec = tx[t].exec /\ m.list = tx[t].list \ {k}
        /\ m.ticket = [tx[t].ticket EXCEPT ![k] = row]
    BY <1>1 DEF TxType
  <2>2. tx' = [tx EXCEPT ![t] = m]
    BY <1>1 DEF Mark, row, IInv, TypeOK, TxType
  <2> HIDE DEF m
  <2>3. r = m /\ Others(t)
    BY <2>2 DEF IInv, TypeOK, Others
  <2>4. tx[t].ticket \in [Ticket -> TicketRow \cup {None}]
    BY <1>1 DEF TxType
  <2>5. QED BY <2>1, <2>3, <2>4
<1>5. /\ UNCHANGED <<exec, ticket, performed, manual, aborts>>
      /\ redecided' = (redecided \/ ticket[k].status # "pending")
      /\ k \in tx[t].list /\ tx[t].list \subseteq Ticket
  BY <1>1 DEF Mark, TxType
<1> HIDE DEF r
<1>6. Shaped(r)
  BY <1>1, <1>4, <1>5 DEF Shaped
<1>7. ASSUME Calm' PROVE Calm /\ Proper(r)
  <2>1. Calm /\ ticket[k].status = "pending"
    BY <1>5, <1>7, <1>2 DEF Calm, IInv, TypeOK
  <2>2. Proper(tx[t]) /\ Awaited
    BY <2>1 DEF Orderly
  <2>3. exec[e] # None /\ exec[e].asked = k /\ exec[e].status \in Waiting
    BY <1>2, <2>1, <2>2 DEF Awaited, AwaitedBy
  <2>4. tx[t].exec[e] = None
    BY <1>1, <1>3, <1>5, <2>2, <2>3 DEF Proper, Entitled, Holds, Shaped
  <2>5. MarkedPending(r)
    BY <1>2, <1>3, <1>4, <2>1, <2>2 DEF Proper, MarkedPending
  <2>6. NewAwaited(r)
    BY <1>2, <1>3, <1>4, <2>2 DEF Proper, NewAwaited
  <2>7. \A f \in Exec : Holds(tx[t], f) /\ exec[f] # None => Holds(r, f)
    <3>1. \A f \in Exec : exec[f] # None => exec[f].asked \in Ticket \cup {None}
      BY DEF IInv, TypeOK, ExecRow
    <3>2. QED BY <1>3, <1>4, <3>1 DEF Holds
  <2>8. Holds(r, e)
    BY <1>3, <1>4, <2>3 DEF Holds
  <2>9. Entitled(r)
    BY <1>4, <2>2, <2>3, <2>4, <2>7, <2>8 DEF Proper, Entitled
  <2>10. Remembers(r)
    BY <1>4, <2>2 DEF Proper, Remembers
  <2>11. QED BY <2>1, <2>5, <2>6, <2>9, <2>10 DEF Proper
<1>8. QED BY <1>4, <1>5, <1>6, <1>7, StepOrderly DEF r, Others

(* Nothing it writes concerns tickets; its row of the execution it is on   *)
(* is written, and does not wait.                                          *)
LEMMA WriteOrderly ==
  ASSUME Orderly, NEW t \in Tx, tx[t] \in TxType,
         NEW r, NEW e \in Exec, NEW row \in ExecRow,
         tx'[t] = r, Others(t),
         UNCHANGED <<exec, ticket, performed, history>>,
         tx[t].on = e, tx[t].pc \in {"reject", "resume", "run"},
         tx[t].pc = "run" => tx[t].exec[e] # None,
         tx[t].exec[e] # None \/ ExecFree(t, e),
         r.ticket = tx[t].ticket, r.exec = [tx[t].exec EXCEPT ![e] = row],
         r.on = e, r.list = tx[t].list,
         row.status \notin Waiting,
         r.pc \in {"run", "mark", "commit"},
         r.pc = "run" =>
           /\ row.status = "running" /\ r.todo \cap r.seen = {}
           /\ Calm => Acted(e) \subseteq r.seen
  PROVE  Orderly'
<1>1. /\ r.exec[e] = row /\ row # None
      /\ \A f \in Exec : f # e => r.exec[f] = tx[t].exec[f]
  BY DEF TxType
<1>2. Shaped(r)
  BY <1>1 DEF Orderly, Shaped
<1>3. ASSUME Calm' PROVE Calm /\ Proper(r)
  <2>1. Calm
    BY <1>3 DEF Calm, history
  <2>2. Proper(tx[t]) /\ Shaped(tx[t])
    BY <2>1 DEF Orderly
  <2>3. MarkedPending(r)
    BY <2>2 DEF Proper, MarkedPending
  <2>4. ~(tx[t].exec[e] # None /\ tx[t].exec[e].status \in Waiting)
    BY <2>2 DEF Proper, Entitled, Shaped, Waiting
  <2>5. NewAwaited(r)
    <3> SUFFICES ASSUME NEW k \in Ticket, r.ticket[k] # None, r.ticket[k].status = "pending"
                 PROVE  AwaitedBy(r.exec[r.ticket[k].exec], k)
      BY DEF NewAwaited
    <3>1. AwaitedBy(tx[t].exec[r.ticket[k].exec], k)
      BY <2>2 DEF Proper, NewAwaited
    <3>2. r.ticket[k].exec # e
      BY <2>4, <3>1 DEF AwaitedBy
    <3>3. r.ticket[k].exec \in Exec
      BY DEF TxType, TicketRow
    <3>4. QED BY <1>1, <3>1, <3>2, <3>3
  <2>6. exec[e] # None => Holds(r, e)
    BY <2>2 DEF Proper, Entitled, Holds
  <2>7. Entitled(r)
    BY <1>1, <2>2, <2>6 DEF Proper, Entitled, Holds
  <2>8. Remembers(r)
    BY <1>1, <2>1, <2>2 DEF Proper, Remembers
  <2>9. QED BY <2>1, <2>3, <2>5, <2>7, <2>8 DEF Proper
<1>4. /\ \A f \in Exec : r.exec[f] # None => tx[t].exec[f] # None \/ ExecFree(t, f)
      /\ \A f \in Exec : tx[t].exec[f] # None => r.exec[f] # None
  BY <1>1
<1>5. QED BY <1>2, <1>3, <1>4, StepOrderly DEF Others

LEMMA RejectOrderly ==
  ASSUME IInv, Orderly, NEW t \in Tx, Reject(t)
  PROVE  Orderly'
<1> DEFINE e == tx[t].on
           row == [ExecSeen(t, e) EXCEPT !.status = "rejected"]
<1>1. Sound(tx[t]) /\ tx[t] \in TxType
  BY RowTypes DEF IInv
<1>2. e \in Exec /\ ExecSeen(t, e) \in ExecRow
  BY <1>1, RowTypes, SeenIsRowSeen DEF Reject, Sound, Placed, TxType, IInv
<1>3. row \in ExecRow /\ row.status \notin Waiting
  BY <1>2 DEF ExecRow, Waiting
<1> HIDE DEF row
<1>4. /\ tx'[t].pc = "commit" /\ tx'[t].exec = [tx[t].exec EXCEPT ![e] = row]
      /\ tx'[t].ticket = tx[t].ticket /\ tx'[t].on = e /\ tx'[t].list = tx[t].list
      /\ Others(t)
  BY <1>1 DEF Reject, row, IInv, TypeOK, TxType, Others
<1>5. /\ UNCHANGED <<exec, ticket, performed, history>>
      /\ tx[t].pc = "reject" /\ ExecFree(t, e) /\ e = tx[t].on
  BY DEF Reject
<1> HIDE DEF e
<1>6. QED BY <1>1, <1>2, <1>3, <1>4, <1>5, WriteOrderly

LEMMA ReadOrderly ==
  ASSUME IInv, Orderly, NEW t \in Tx, Read(t)
  PROVE  Orderly'
<1> DEFINE r == tx'[t]
<1>1. Sound(tx[t]) /\ tx[t] \in TxType /\ Shaped(tx[t])
  BY RowTypes DEF IInv, Orderly
<1>2. tx[t].on \in Exec
  BY <1>1 DEF Read, Sound, Placed, TxType
<1>3. /\ r.pc = "resume" /\ r.copy = ExecSeen(t, tx[t].on)
      /\ r.exec = tx[t].exec /\ r.ticket = tx[t].ticket
      /\ r.on = tx[t].on /\ r.list = tx[t].list
      /\ Others(t)
  BY <1>1 DEF Read, IInv, TypeOK, TxType, Others
<1>4. UNCHANGED <<exec, ticket, performed, history>> /\ tx[t].pc = "read"
  BY DEF Read
<1> HIDE DEF r
<1>5. Shaped(r)
  BY <1>1, <1>3 DEF Shaped
<1>6. ASSUME Calm' PROVE Calm /\ Proper(r)
  <2>1. Calm /\ Proper(tx[t])
    BY <1>4, <1>6 DEF Calm, history, Orderly
  <2>2. MarkedPending(r) /\ NewAwaited(r)
    BY <1>3, <2>1 DEF Proper, MarkedPending, NewAwaited
  <2>3. Entitled(r)
    BY <1>3, <1>4, <2>1 DEF Proper, Entitled, Holds, ExecSeen
  <2>4. Remembers(r)
    BY <1>3, <2>1 DEF Proper, Remembers
  <2>5. QED BY <2>1, <2>2, <2>3, <2>4 DEF Proper
<1>7. QED BY <1>3, <1>4, <1>5, <1>6, StepOrderly DEF r, Others

(* Nobody is writing the execution it is entitled to: its row tells all    *)
(* that was done.                                                          *)
LEMMA ResumeOrderly ==
  ASSUME IInv, Orderly, NEW t \in Tx, Resume(t)
  PROVE  Orderly'
<1> DEFINE e == tx[t].on
           copy == tx[t].copy
           row == [ExecSeen(t, e) EXCEPT !.status = "running", !.at = None]
           todo == IF copy.at = None THEN Trigger ELSE Succ[copy.at] \ copy.seen
           seen == IF copy.at = None THEN {} ELSE copy.seen
<1>1. Sound(tx[t]) /\ tx[t] \in TxType
  BY RowTypes DEF IInv
<1>2. e \in Exec /\ ExecSeen(t, e) \in ExecRow /\ copy \in ExecRow
  BY <1>1, RowTypes, SeenIsRowSeen DEF Resume, Sound, Placed, TxType, IInv
<1>3. row \in ExecRow /\ row.status = "running"
  BY <1>2 DEF ExecRow
<1>4. todo \cap seen = {}
  OBVIOUS
<1>5. UNCHANGED <<exec, ticket, performed, history>> /\ tx[t].pc = "resume" /\ ExecFree(t, e)
  BY DEF Resume
<1>6. ASSUME Calm PROVE Acted(e) \subseteq seen
  <2>1. Entitled(tx[t]) /\ Recorded
    BY <1>6 DEF Orderly, Proper
  <2>2. /\ copy = exec[e] /\ exec[e] # None /\ exec[e].status \in Waiting
        /\ tx[t].exec[e] = None
    BY <1>5, <2>1 DEF Entitled
  <2>3. copy.at # None
    <3>1. exec[e].asked \in Ticket /\ ticket[exec[e].asked] \in TicketRow
          /\ ticket[exec[e].asked].node = exec[e].at
      BY <1>2, <2>2 DEF IInv, WaitsForAnswer, TypeOK, ExecRow
    <3>2. QED BY <2>2, <3>1 DEF TicketRow
  <2>4. \A u \in Tx : tx[u].exec[e] = None
    BY <1>5, <2>2 DEF ExecFree
  <2>5. Acted(e) \subseteq exec[e].seen
    BY <1>2, <2>1, <2>2, <2>4 DEF Recorded
  <2>6. QED BY <2>2, <2>3, <2>5
<1> HIDE DEF row, todo, seen
<1>7. /\ tx'[t].pc = "run" /\ tx'[t].exec = [tx[t].exec EXCEPT ![e] = row]
      /\ tx'[t].ticket = tx[t].ticket /\ tx'[t].on = e /\ tx'[t].list = tx[t].list
      /\ tx'[t].todo = todo /\ tx'[t].seen = seen
      /\ Others(t)
  BY <1>1 DEF Resume, row, todo, seen, IInv, TypeOK, TxType, Others
<1>8. row.status \notin Waiting /\ e = tx[t].on
  BY <1>3 DEF Waiting
<1> HIDE DEF e
<1>9. QED BY <1>1, <1>2, <1>3, <1>4, <1>5, <1>6, <1>7, <1>8, WriteOrderly

-----------------------------------------------------------------------------
(* The walk acts on a node that it has not visited, so that has not acted, *)
(* for an execution nobody else writes.                                    *)
LEMMA PerformOrderly ==
  ASSUME IInv, Orderly, NEW t \in Tx, NEW n \in Node, Perform(t, n)
  PROVE  Orderly'
<1> DEFINE e == tx[t].on
           r == tx'[t]
           Now(f) == {m \in Node : performed'[f][m] > 0}
<1>1. tx[t].pc = "run" /\ n \in tx[t].todo /\ UNCHANGED <<exec, ticket, history>>
  BY DEF Perform, Runs
<1>2. Shaped(tx[t]) /\ tx[t] \in TxType /\ e \in Exec /\ tx[t].exec[e] \in ExecRow
  BY <1>1, OnTheWalk DEF Orderly
<1>3. /\ r.pc = "run" /\ r.on = e /\ r.list = tx[t].list
      /\ r.exec = tx[t].exec /\ r.ticket = tx[t].ticket
      /\ r.seen = tx[t].seen \cup {n} /\ r.todo \cap r.seen = {}
      /\ Others(t)
  BY <1>1, <1>2 DEF Perform, IInv, TypeOK, TxType, Others
<1>4. /\ performed'[e][n] = IF performed[e][n] = 2 THEN 2 ELSE performed[e][n] + 1
      /\ \A f \in Exec, m \in Node : f # e \/ m # n => performed'[f][m] = performed[f][m]
      /\ \A f \in Exec, m \in Node : performed[f][m] \in 0..2
  BY <1>2 DEF Perform, IInv, TypeOK
<1> HIDE DEF r
<1>5. \A u \in Tx : Shaped(tx[u])'
  <2>1. Shaped(r)
    BY <1>1, <1>2, <1>3 DEF Shaped
  <2>2. \A u \in Tx : Shaped(tx'[u])
    BY <1>3, <2>1 DEF r, Orderly, Others
  <2>3. QED BY <2>2 DEF Shaped
<1>6. \A u \in Tx : tx'[u].exec = tx[u].exec /\ tx'[u].ticket = tx[u].ticket
  BY <1>3 DEF r, Others
<1>7. ExecsLocked'
  BY <1>6 DEF Orderly, ExecsLocked
<1>8. ASSUME Calm' PROVE (\A u \in Tx : Proper(tx[u])') /\ Awaited' /\ Recorded' /\ Once'
  <2>1. (\A u \in Tx : Proper(tx[u])) /\ Awaited /\ Recorded /\ Once
    BY <1>1, <1>8 DEF Calm, history, Orderly
  <2>2. n \notin Acted(e) /\ performed[e][n] = 0
    <3>1. n \notin Acted(e)
      BY <1>1, <1>2, <2>1 DEF Proper, Remembers, Shaped
    <3>2. QED BY <1>2, <1>4, <3>1 DEF Acted
  <2>3. Once'
    BY <1>4, <2>1, <2>2 DEF Once
  <2>4. Now(e) \subseteq Acted(e) \cup {n} /\ \A f \in Exec : f # e => Now(f) = Acted(f)
    BY <1>2, <1>4 DEF Acted
  <2> HIDE DEF Now
  <2>5. Awaited'
    BY <1>1, <2>1 DEF Awaited, AwaitedBy
  <2>6. Recorded'
    <3> SUFFICES ASSUME NEW f \in Exec, \A u \in Tx : tx'[u].exec[f] = None
                 PROVE  /\ exec[f] = None => Now(f) = {}
                        /\ exec[f] # None /\ exec[f].status \in Waiting =>
                             Now(f) \subseteq exec[f].seen
      BY <1>1 DEF Recorded, Acted, Now
    <3>1. \A u \in Tx : tx[u].exec[f] = None
      BY <1>6
    <3>2. f # e
      BY <1>2, <3>1
    <3>3. QED BY <2>1, <2>4, <3>1, <3>2 DEF Recorded
  <2>7. ASSUME NEW u \in Tx PROVE Proper(tx[u])'
    <3>1. Proper(tx[u]) /\ tx[u] \in TxType /\ Sound(tx[u])
      BY <2>1, RowTypes DEF IInv
    <3>2. MarkedPending(tx[u])' /\ NewAwaited(tx[u])'
      BY <1>1, <1>6, <3>1 DEF Proper, MarkedPending, NewAwaited
    <3>3. tx'[u].pc = tx[u].pc /\ tx'[u].on = tx[u].on /\ (u # t => tx'[u] = tx[u])
      BY <1>1, <1>3 DEF r, Others
    <3>4. Entitled(tx[u])'
      <4>1. u = t => tx'[u].pc = "run"
        BY <1>3 DEF r
      <4>2. QED BY <1>1, <1>6, <3>1, <3>3, <4>1 DEF Proper, Entitled, Holds
    <3>5. Remembers(tx[u])'
      <4>1. \A f \in Exec : tx[u].exec[f] # None /\ tx[u].exec[f].status \in Waiting => f # e
        <5>1. tx[t].exec[e].status \notin Waiting
          BY <1>1, <1>2 DEF Shaped, Waiting
        <5>2. u # t => tx[u].exec[e] = None
          BY <1>2 DEF Orderly, ExecsLocked
        <5>3. QED BY <5>1, <5>2
      <4>2. \A f \in Exec : tx'[u].exec[f] # None /\ tx'[u].exec[f].status \in Waiting =>
              Now(f) \subseteq tx'[u].exec[f].seen
        BY <1>6, <2>4, <3>1, <4>1 DEF Proper, Remembers
      <4>3. tx'[u].pc = "run" => Now(tx'[u].on) \subseteq tx'[u].seen
        <5>1. CASE u = t
          BY <1>1, <1>3, <2>4, <3>1, <5>1 DEF r, Proper, Remembers
        <5>2. CASE u # t
          <6>1. tx[u].pc = "run" => tx[u].on \in Exec /\ tx[u].on # e
            BY <1>2, <3>1, <5>2 DEF Sound, Placed, TxType, Orderly, ExecsLocked
          <6>2. QED BY <2>4, <3>1, <3>3, <5>2, <6>1 DEF Proper, Remembers
        <5>3. QED BY <5>1, <5>2
      <4>4. QED BY <4>2, <4>3 DEF Remembers, Acted, Now
    <3>6. QED BY <3>2, <3>4, <3>5 DEF Proper
  <2>8. QED BY <2>3, <2>5, <2>6, <2>7
<1>9. QED BY <1>5, <1>7, <1>8 DEF Orderly

(* A walk that fails or finishes.                                          *)
LEMMA EndOrderly ==
  ASSUME IInv, Orderly, NEW t \in Tx, NEW s \in {"failed", "success"},
         tx[t].pc = "run", UNCHANGED <<exec, ticket, performed, history>>,
         Others(t),
         tx'[t].pc = After(t), tx'[t].on = tx[t].on, tx'[t].list = tx[t].list,
         tx'[t].ticket = tx[t].ticket,
         tx'[t].exec = [tx[t].exec EXCEPT ![tx[t].on] =
                          [tx[t].exec[tx[t].on] EXCEPT !.status = s]]
  PROVE  Orderly'
<1> DEFINE e == tx[t].on
           row == [tx[t].exec[e] EXCEPT !.status = s]
<1>1. /\ tx[t] \in TxType /\ e \in Exec /\ tx[t].exec[e] \in ExecRow
      /\ After(t) \in {"mark", "commit"}
  BY OnTheWalk
<1>2. row \in ExecRow /\ row.status \notin Waiting /\ e = tx[t].on
  BY <1>1 DEF ExecRow, Waiting
<1>3. tx[t].exec[e] # None
  BY <1>1
<1>4. tx'[t].exec = [tx[t].exec EXCEPT ![e] = row]
  OBVIOUS
<1> HIDE DEF row, e
<1>5. tx'[t].on = e /\ tx'[t].pc # "run" /\ tx'[t].pc \in {"run", "mark", "commit"}
  BY <1>1, <1>2
<1>6. QED BY <1>1, <1>2, <1>3, <1>4, <1>5, WriteOrderly

LEMMA FailOrderly ==
  ASSUME IInv, Orderly, NEW t \in Tx, NEW n \in Node, NodeFails(t, n)
  PROVE  Orderly'
<1>1. tx[t].pc = "run" /\ UNCHANGED <<exec, ticket, performed, history>>
  BY DEF NodeFails, Runs
<1>2. tx[t] \in TxType /\ tx[t].on \in Exec
  BY <1>1, OnTheWalk
<1>3. /\ Others(t)
      /\ tx'[t].pc = After(t) /\ tx'[t].on = tx[t].on /\ tx'[t].list = tx[t].list
      /\ tx'[t].ticket = tx[t].ticket
      /\ tx'[t].exec = [tx[t].exec EXCEPT ![tx[t].on] =
                          [tx[t].exec[tx[t].on] EXCEPT !.status = "failed"]]
  BY <1>2 DEF NodeFails, IInv, TypeOK, TxType, Others
<1>4. QED BY <1>1, <1>3, EndOrderly

LEMMA FinishOrderly ==
  ASSUME IInv, Orderly, NEW t \in Tx, Finish(t)
  PROVE  Orderly'
<1>1. tx[t].pc = "run" /\ UNCHANGED <<exec, ticket, performed, history>>
  BY DEF Finish
<1>2. tx[t] \in TxType /\ tx[t].on \in Exec
  BY <1>1, OnTheWalk
<1>3. /\ Others(t)
      /\ tx'[t].pc = After(t) /\ tx'[t].on = tx[t].on /\ tx'[t].list = tx[t].list
      /\ tx'[t].ticket = tx[t].ticket
      /\ tx'[t].exec = [tx[t].exec EXCEPT ![tx[t].on] =
                          [tx[t].exec[tx[t].on] EXCEPT !.status = "success"]]
  BY <1>2 DEF Finish, IInv, TypeOK, TxType, Others
<1>4. QED BY <1>1, <1>3, EndOrderly

(* The pause saves what was visited, and asks with a ticket of its own.    *)
LEMMA PauseOrderly ==
  ASSUME IInv, Orderly, NEW t \in Tx, NEW n \in Node, Pause(t, n)
  PROVE  Orderly'
<1> DEFINE e == tx[t].on
           r == tx'[t]
           new == [exec |-> e, node |-> n, status |-> "pending"]
           row(k) == [status |-> IF Kind[n] = "gate" THEN "waiting_approval" ELSE "waiting_event",
                      at |-> n, seen |-> tx[t].seen \cup {n}, asked |-> k]
<1>1. PICK k \in Ticket :
        /\ Fresh(k)
        /\ tx' = [tx EXCEPT ![t].pc = After(t), ![t].todo = {}, ![t].seen = {},
                            ![t].ticket[k] = new, ![t].exec[e] = row(k)]
  BY DEF Pause
<1> DEFINE w == row(k)
<1>2. tx[t].pc = "run" /\ UNCHANGED <<exec, ticket, performed, history>>
  BY DEF Pause, Runs
<1>3. /\ tx[t] \in TxType /\ Shaped(tx[t]) /\ e \in Exec /\ tx[t].exec[e] \in ExecRow
      /\ After(t) \in {"mark", "commit"}
  BY <1>2, OnTheWalk DEF Orderly
<1>4. new \in TicketRow /\ new # None /\ new.exec = e /\ new.status = "pending"
  BY <1>3 DEF TicketRow
<1>5. /\ w \in ExecRow /\ w # None /\ w.asked = k /\ w.status \in Waiting
      /\ w.seen = tx[t].seen \cup {n}
  BY <1>3 DEF ExecRow, TxType, Waiting
<1> HIDE DEF new, row
<1>6. /\ r.pc = After(t) /\ r.on = e /\ r.list = tx[t].list
      /\ r.exec[e] = w /\ \A f \in Exec : f # e => r.exec[f] = tx[t].exec[f]
      /\ r.ticket[k] = new /\ \A j \in Ticket : j # k => r.ticket[j] = tx[t].ticket[j]
      /\ Others(t)
  BY <1>1, <1>3 DEF IInv, TypeOK, TxType, Others
<1>7. /\ ticket[k] = None /\ \A u \in Tx : tx[u].ticket[k] = None
      /\ \A j \in tx[t].list : j \in Ticket /\ ticket[j] # None
  BY <1>1, <1>3 DEF Fresh, IInv, Sound, Placed, TxType
<1> HIDE DEF r, w
<1>8. Shaped(r)
  BY <1>3, <1>6, <1>7 DEF Shaped
<1>9. ASSUME Calm' PROVE Calm /\ Proper(r)
  <2>1. Calm /\ Proper(tx[t])
    BY <1>2, <1>9 DEF Calm, history, Orderly
  <2>2. MarkedPending(r)
    BY <1>6, <1>7, <2>1 DEF Proper, MarkedPending
  <2>3. NewAwaited(r)
    <3> SUFFICES ASSUME NEW j \in Ticket, r.ticket[j] # None, r.ticket[j].status = "pending"
                 PROVE  AwaitedBy(r.exec[r.ticket[j].exec], j)
      BY DEF NewAwaited
    <3>1. CASE j = k
      BY <1>4, <1>5, <1>6, <3>1 DEF AwaitedBy
    <3>2. CASE j # k
      <4>1. AwaitedBy(tx[t].exec[r.ticket[j].exec], j)
        BY <1>6, <2>1, <3>2 DEF Proper, NewAwaited
      <4>2. r.ticket[j].exec # e
        BY <1>2, <1>3, <4>1 DEF AwaitedBy, Shaped, Waiting
      <4>3. r.ticket[j].exec \in Exec
        BY <1>3, <1>6, <3>2 DEF TxType, TicketRow
      <4>4. QED BY <1>6, <4>1, <4>2, <4>3
    <3>3. QED BY <3>1, <3>2
  <2>4. Entitled(r)
    <3>1. \A f \in Exec : exec[f] # None => exec[f].asked \in Ticket \cup {None}
      BY DEF IInv, TypeOK, ExecRow
    <3>2. \A f \in Exec : Holds(tx[t], f) /\ exec[f] # None => Holds(r, f)
      BY <1>6, <1>7, <3>1 DEF Holds
    <3>3. tx[t].exec[e] # None
      BY <1>3
    <3>4. \A f \in Exec : r.exec[f] # None => tx[t].exec[f] # None
      BY <1>6, <3>3
    <3>5. QED BY <1>3, <1>6, <2>1, <3>2, <3>4 DEF Proper, Entitled
  <2>5. Remembers(r)
    BY <1>2, <1>3, <1>5, <1>6, <2>1 DEF Proper, Remembers
  <2>6. QED BY <2>1, <2>2, <2>3, <2>4, <2>5 DEF Proper
<1>10. /\ \A f \in Exec : r.exec[f] # None => tx[t].exec[f] # None
       /\ \A f \in Exec : tx[t].exec[f] # None => r.exec[f] # None
  BY <1>3, <1>5, <1>6
<1>11. QED BY <1>2, <1>6, <1>8, <1>9, <1>10, StepOrderly DEF r, Others

-----------------------------------------------------------------------------
(* An input, or a failure, after which this transaction has written        *)
(* nothing that was committed.                                             *)
LEMMA StartOrderly ==
  ASSUME IInv, Orderly, NEW t \in Tx, NEW e \in Exec, Start(t, e)
  PROVE  Orderly'
<1> DEFINE row == [status |-> "running", at |-> None, seen |-> {}, asked |-> None]
           r == [IdleTx EXCEPT !.pc = "run", !.on = e, !.todo = Trigger, !.exec[e] = row]
<1>1. row.status = "running" /\ row # None
  BY DEF ExecRow
<1>2. tx' = [tx EXCEPT ![t] = r]
  BY DEF Start
<1>3. /\ tx[t] = IdleTx /\ exec[e] = None /\ ExecFree(t, e)
      /\ UNCHANGED <<exec, ticket, performed, redecided, manual, aborts>>
  BY DEF Start, Begins, Orderly, Shaped
<1> HIDE DEF row
<1>4. /\ r.pc = "run" /\ r.on = e /\ r.list = {} /\ r.seen = {}
      /\ \A k \in Ticket : r.ticket[k] = None
      /\ r.exec[e] = row /\ \A f \in Exec : f # e => r.exec[f] = None
  BY DEF IdleTx
<1> HIDE DEF r
<1>5. tx'[t] = r /\ Others(t) /\ \A f \in Exec : tx[t].exec[f] = None
  BY <1>2, <1>3 DEF Others, IInv, TypeOK, IdleTx
<1>6. Shaped(r)
  BY <1>1, <1>4 DEF Shaped
<1>7. ASSUME Calm' PROVE Calm /\ Proper(r)
  <2>1. Calm
    BY <1>3, <1>7 DEF Calm
  <2>2. MarkedPending(r) /\ NewAwaited(r)
    BY <1>4 DEF MarkedPending, NewAwaited
  <2>3. Entitled(r)
    BY <1>3, <1>4 DEF Entitled
  <2>4. Acted(e) = {}
    BY <1>3, <1>5, <2>1 DEF Orderly, Recorded, ExecFree
  <2>5. Remembers(r)
    BY <1>1, <1>4, <2>4 DEF Remembers, Waiting
  <2>6. QED BY <2>1, <2>2, <2>3, <2>5 DEF Proper
<1>8. \A f \in Exec : r.exec[f] # None => tx[t].exec[f] # None \/ ExecFree(t, f)
  BY <1>3, <1>4
<1>9. QED BY <1>3, <1>5, <1>6, <1>7, <1>8, StepOrderly DEF Others

LEMMA DecideOrderly ==
  ASSUME IInv, Orderly, NEW t \in Tx, NEW L \in SUBSET Ticket,
         NEW answer, Begins(t),
         tx' = [tx EXCEPT ![t] = [IdleTx EXCEPT !.pc = "mark", !.list = L, !.answer = answer]],
         UNCHANGED <<exec, ticket, performed, redecided, manual, aborts>>
  PROVE  Orderly'
<1> DEFINE r == [IdleTx EXCEPT !.pc = "mark", !.list = L, !.answer = answer]
<1>1. /\ r.pc = "mark" /\ r.list = L
      /\ \A k \in Ticket : r.ticket[k] = None
      /\ \A e \in Exec : r.exec[e] = None
  BY DEF IdleTx
<1>2. tx' = [tx EXCEPT ![t] = r]
  OBVIOUS
<1> HIDE DEF r
<1>3. tx'[t] = r /\ Others(t) /\ \A e \in Exec : tx[t].exec[e] = None
  BY <1>2 DEF Others, IInv, TypeOK, IdleTx, Begins, Orderly, Shaped
<1>4. Shaped(r)
  BY <1>1 DEF Shaped
<1>5. Proper(r)
  BY <1>1 DEF Proper, MarkedPending, NewAwaited, Entitled, Remembers
<1>6. Calm' => Calm
  BY DEF Calm
<1>7. QED BY <1>1, <1>3, <1>4, <1>5, <1>6, StepOrderly DEF Others

LEMMA ResumeByHandOrderly ==
  ASSUME IInv, Orderly, NEW t \in Tx, NEW e \in Exec, ResumeByHand(t, e)
  PROVE  Orderly'
<1> DEFINE r == [IdleTx EXCEPT !.pc = "read", !.on = e]
<1>1. r.pc = "read" /\ r.list = {} /\ \A f \in Exec : r.exec[f] = None
  BY DEF IdleTx
<1>2. /\ tx' = [tx EXCEPT ![t] = r] /\ manual'
      /\ UNCHANGED <<exec, ticket, performed>>
  BY DEF ResumeByHand
<1> HIDE DEF r
<1>3. tx'[t] = r /\ \A u \in Tx : u # t => tx'[u] = tx[u]
  BY <1>2 DEF IInv, TypeOK
<1>4. Shaped(r) /\ ~Calm'
  BY <1>1, <1>2 DEF Shaped, Calm
<1>5. QED BY <1>1, <1>2, <1>3, <1>4, StepOrderly

LEMMA AbortOrderly ==
  ASSUME IInv, Orderly, NEW t \in Tx, Abort(t)
  PROVE  Orderly'
<1>1. tx'[t] = IdleTx /\ \A u \in Tx : u # t => tx'[u] = tx[u]
  BY DEF Abort, IInv, TypeOK
<1>2. UNCHANGED <<exec, ticket, performed>> /\ ~Calm'
  BY DEF Abort, Calm, IInv, TypeOK
<1>3. \A e \in Exec : IdleTx.exec[e] = None
  BY DEF IdleTx
<1>4. QED BY <1>1, <1>2, <1>3, IdleProper, StepOrderly

-----------------------------------------------------------------------------
(* A commit changes the rows of an execution only if it has marked its     *)
(* ticket, so nobody else is entitled to that execution.                   *)
LEMMA CommitOrderly ==
  ASSUME IInv, Orderly, NEW t \in Tx, Commit(t)
  PROVE  Orderly'
<1>1. /\ tx[t] \in TxType
      /\ \A e \in Exec : exec'[e] = RowSeen(tx[t], e)
      /\ \A k \in Ticket : ticket'[k] = TicketSeen(t, k)
      /\ tx'[t] = IdleTx /\ \A u \in Tx : u # t => tx'[u] = tx[u]
      /\ UNCHANGED <<performed, history>>
  BY RowTypes, SeenIsRowSeen DEF Commit, IInv, TypeOK
<1>2. \A u \in Tx : Shaped(tx[u])'
  <2>1. \A u \in Tx : Shaped(tx'[u])
    BY <1>1, IdleProper DEF Orderly
  <2>2. QED BY <2>1 DEF Shaped
<1>3. \A e \in Exec : tx'[t].exec[e] = None
  BY <1>1 DEF IdleTx
<1>4. ExecsLocked'
  BY <1>1, <1>3 DEF Orderly, ExecsLocked
<1>5. \A e : Acted(e)' = Acted(e)
  BY <1>1 DEF Acted
<1>6. \A e \in Exec : exec[e] # None => exec[e].asked \in Ticket \cup {None}
  BY DEF IInv, TypeOK, ExecRow
<1>7. ASSUME Calm' PROVE (\A u \in Tx : Proper(tx[u])') /\ Awaited' /\ Recorded' /\ Once'
  <2>1. (\A u \in Tx : Proper(tx[u])) /\ Awaited /\ Recorded /\ Once
    BY <1>1, <1>7 DEF Calm, history, Orderly
  <2>2. Once'
    BY <1>1, <2>1 DEF Once
  <2>3. Awaited'
    <3> SUFFICES ASSUME NEW k \in Ticket, ticket'[k] # None, ticket'[k].status = "pending"
                 PROVE  AwaitedBy(exec'[ticket'[k].exec], k)
      BY DEF Awaited, AwaitedBy
    <3>1. CASE tx[t].ticket[k] # None
      <4>1. ticket'[k] = tx[t].ticket[k] /\ ticket'[k].exec \in Exec
        BY <1>1, <3>1 DEF TicketSeen, TxType, TicketRow
      <4>2. AwaitedBy(tx[t].exec[ticket'[k].exec], k)
        BY <2>1, <3>1, <4>1 DEF Proper, NewAwaited
      <4>3. QED BY <1>1, <4>1, <4>2 DEF RowSeen, AwaitedBy
    <3>2. CASE tx[t].ticket[k] = None
      <4>1. ticket'[k] = ticket[k] /\ ticket[k].exec \in Exec
        BY <1>1, <3>2 DEF TicketSeen, IInv, TypeOK, TicketRow
      <4>2. AwaitedBy(exec[ticket[k].exec], k)
        BY <2>1, <4>1 DEF Awaited
      <4>3. tx[t].exec[ticket[k].exec] = None
        BY <2>1, <3>2, <4>1, <4>2 DEF AwaitedBy, Proper, Entitled, Holds
      <4>4. QED BY <1>1, <4>1, <4>2, <4>3 DEF RowSeen
    <3>3. QED BY <3>1, <3>2
  <2>4. Recorded'
    <3> SUFFICES ASSUME NEW e \in Exec, \A u \in Tx : tx'[u].exec[e] = None
                 PROVE  /\ exec'[e] = None => Acted(e) = {}
                        /\ exec'[e] # None /\ exec'[e].status \in Waiting =>
                             Acted(e) \subseteq exec'[e].seen
      BY <1>5 DEF Recorded
    <3>1. CASE tx[t].exec[e] # None
      BY <1>1, <2>1, <3>1 DEF RowSeen, Proper, Remembers
    <3>2. CASE tx[t].exec[e] = None
      <4>1. \A u \in Tx : tx[u].exec[e] = None
        BY <1>1, <3>2
      <4>2. exec'[e] = exec[e]
        BY <1>1, <3>2 DEF RowSeen
      <4>3. QED BY <2>1, <4>1, <4>2 DEF Recorded
    <3>3. QED BY <3>1, <3>2
  <2>5. ASSUME NEW u \in Tx PROVE Proper(tx[u])'
    <3>1. CASE u = t
      <4>1. tx'[u] = IdleTx
        BY <1>1, <3>1
      <4>2. MarkedPending(tx[u])' /\ NewAwaited(tx[u])'
        BY <4>1 DEF IdleTx, MarkedPending, NewAwaited
      <4>3. Entitled(tx[u])' /\ Remembers(tx[u])'
        BY <4>1 DEF IdleTx, Entitled, Remembers
      <4>4. QED BY <4>2, <4>3 DEF Proper
    <3>2. CASE u # t
      <4>1. tx'[u] = tx[u] /\ Proper(tx[u]) /\ tx[u] \in TxType /\ Sound(tx[u])
        BY <1>1, <2>1, <3>2, RowTypes DEF IInv
      <4>2. \A k \in Ticket : tx[u].ticket[k] # None =>
              tx[t].ticket[k] = None /\ ticket'[k] = ticket[k]
        BY <1>1, <3>2 DEF IInv, TicketsLocked, TicketSeen
      <4>3. \A e \in Exec : tx[u].exec[e] # None => exec'[e] = exec[e]
        BY <1>1, <3>2 DEF Orderly, ExecsLocked, RowSeen
      <4>4. \A e \in Exec : exec[e] # None /\ Holds(tx[u], e) => exec'[e] = exec[e]
        <5> SUFFICES ASSUME NEW e \in Exec, exec[e] # None, Holds(tx[u], e)
                     PROVE  exec'[e] = exec[e]
          OBVIOUS
        <5>1. tx[t].ticket[exec[e].asked] = None
          BY <1>6, <4>2 DEF Holds
        <5>2. tx[t].exec[e] = None
          BY <2>1, <5>1 DEF Proper, Entitled, Holds
        <5>3. QED BY <1>1, <5>2 DEF RowSeen
      <4>5. MarkedPending(tx[u])' /\ NewAwaited(tx[u])'
        BY <4>1, <4>2 DEF Proper, MarkedPending, NewAwaited, AwaitedBy
      <4>6. Entitled(tx[u])'
        <5>1. \A e \in Exec : tx[u].exec[e] # None /\ exec'[e] # None => Holds(tx[u], e)'
          BY <4>1, <4>3 DEF Proper, Entitled, Holds
        <5>2. tx[u].pc \in {"reject", "read", "resume"} => tx[u].on \in Exec
          BY <4>1 DEF Sound, Placed, TxType
        <5>3. tx[u].pc \in {"reject", "read", "resume"} =>
                exec[tx[u].on] # None /\ Holds(tx[u], tx[u].on)
          BY <4>1 DEF Proper, Entitled
        <5>4. tx[u].pc \in {"reject", "read", "resume"} => exec'[tx[u].on] = exec[tx[u].on]
          BY <4>4, <5>2, <5>3
        <5>5. QED BY <4>1, <5>1, <5>4 DEF Proper, Entitled, Holds
      <4>7. Remembers(tx[u])'
        BY <1>5, <4>1 DEF Proper, Remembers
      <4>8. QED BY <4>5, <4>6, <4>7 DEF Proper
    <3>3. QED BY <3>1, <3>2
  <2>6. QED BY <2>2, <2>3, <2>4, <2>5
<1>8. QED BY <1>2, <1>4, <1>7 DEF Orderly

(* A ticket that runs out is one no transaction has marked.                *)
LEMMA ExpireOrderly ==
  ASSUME IInv, Orderly, NEW k \in Ticket, Expire(k)
  PROVE  Orderly'
<1>1. /\ \A t \in Tx : tx[t].ticket[k] = None
      /\ UNCHANGED <<exec, tx, performed, history>>
      /\ \A j \in Ticket : j # k => ticket'[j] = ticket[j]
  BY DEF Expire, IInv, TypeOK
<1>2. ticket'[k].status = "expired"
  BY DEF Expire, IInv, TypeOK, TicketRow
<1>3. (\A t \in Tx : Shaped(tx[t])') /\ ExecsLocked'
  BY <1>1 DEF Orderly, Shaped, ExecsLocked
<1>4. ASSUME Calm' PROVE (\A t \in Tx : Proper(tx[t])') /\ Awaited' /\ Recorded' /\ Once'
  <2>1. (\A t \in Tx : Proper(tx[t])) /\ Awaited /\ Recorded /\ Once
    BY <1>1, <1>4 DEF Calm, history, Orderly
  <2>2. \A e : Acted(e)' = Acted(e)
    BY <1>1 DEF Acted
  <2>3. Once' /\ Recorded'
    BY <1>1, <2>1, <2>2 DEF Once, Recorded
  <2>4. Awaited'
    BY <1>1, <1>2, <2>1 DEF Awaited, AwaitedBy
  <2>5. ASSUME NEW t \in Tx PROVE Proper(tx[t])'
    <3>1. Proper(tx[t]) /\ tx'[t] = tx[t]
      BY <1>1, <2>1
    <3>2. MarkedPending(tx[t])'
      BY <1>1, <3>1 DEF Proper, MarkedPending
    <3>3. NewAwaited(tx[t])'
      BY <3>1 DEF Proper, NewAwaited, AwaitedBy
    <3>4. Entitled(tx[t])'
      BY <1>1, <3>1 DEF Proper, Entitled, Holds
    <3>5. Remembers(tx[t])'
      BY <2>2, <3>1 DEF Proper, Remembers
    <3>6. QED BY <3>2, <3>3, <3>4, <3>5 DEF Proper
  <2>6. QED BY <2>3, <2>4, <2>5
<1>5. QED BY <1>3, <1>4 DEF Orderly

-----------------------------------------------------------------------------
LEMMA InputOrderly ==
  ASSUME IInv, Orderly, Input
  PROVE  Orderly'
<1>1. ASSUME NEW t \in Tx, NEW k \in Ticket, NEW a \in {"approved", "rejected"}, Decide(t, k, a)
      PROVE  Orderly'
  <2>1. {k} \in SUBSET Ticket
    OBVIOUS
  <2>2. /\ Begins(t)
        /\ tx' = [tx EXCEPT ![t] = [IdleTx EXCEPT !.pc = "mark", !.list = {k}, !.answer = a]]
        /\ UNCHANGED <<exec, ticket, performed, redecided, manual, aborts>>
    BY <1>1 DEF Decide
  <2>3. QED BY <2>1, <2>2, DecideOrderly
<1>2. ASSUME NEW L \in SUBSET Ticket, Event(L)
      PROVE  Orderly'
  <2>1. Evaluator \in Tx
    BY DEF Tx
  <2>2. QED BY <1>2, <2>1, DecideOrderly DEF Event
<1>3. QED BY <1>1, <1>2, StartOrderly, ResumeByHandOrderly DEF Input

LEMMA OrderlyNext == IInv /\ Orderly /\ [Next]_vars => Orderly'
<1> SUFFICES ASSUME IInv, Orderly, [Next]_vars PROVE Orderly'
  OBVIOUS
<1>1. CASE Input
  BY <1>1, InputOrderly
<1>2. ASSUME NEW t \in Tx, Step(t) PROVE Orderly'
  <2>1. ASSUME NEW k \in Ticket, Mark(t, k) PROVE Orderly'
    BY <2>1, MarkOrderly
  <2>2. CASE Reject(t)
    BY <2>2, RejectOrderly
  <2>3. CASE Read(t)
    BY <2>3, ReadOrderly
  <2>4. CASE Resume(t)
    BY <2>4, ResumeOrderly
  <2>5. ASSUME NEW n \in Node, Perform(t, n) \/ Pause(t, n) PROVE Orderly'
    BY <2>5, PerformOrderly, PauseOrderly
  <2>6. CASE Finish(t)
    BY <2>6, FinishOrderly
  <2>7. CASE Commit(t)
    BY <2>7, CommitOrderly
  <2>8. QED BY <1>2, <2>1, <2>2, <2>3, <2>4, <2>5, <2>6, <2>7 DEF Step
<1>3. ASSUME NEW t \in Tx, Abort(t) \/ \E n \in Node : NodeFails(t, n) PROVE Orderly'
  BY <1>3, AbortOrderly, FailOrderly
<1>4. ASSUME NEW k \in Ticket, Expire(k) PROVE Orderly'
  BY <1>4, ExpireOrderly
<1>5. CASE UNCHANGED vars
  <2>1. /\ UNCHANGED <<exec, ticket, tx, performed, redecided, manual, aborts>>
    BY <1>5 DEF vars, history
  <2>2. (\A t \in Tx : Shaped(tx[t])') /\ ExecsLocked'
    BY <2>1 DEF Orderly, Shaped, ExecsLocked
  <2>3. ASSUME Calm' PROVE (\A t \in Tx : Proper(tx[t])') /\ Awaited' /\ Recorded' /\ Once'
    <3>1. (\A t \in Tx : Proper(tx[t])) /\ Awaited /\ Recorded /\ Once
      BY <2>1, <2>3 DEF Calm, Orderly
    <3>2. \A e : Acted(e)' = Acted(e)
      BY <2>1 DEF Acted
    <3>3. Awaited' /\ Recorded' /\ Once'
      BY <2>1, <3>1, <3>2 DEF Awaited, AwaitedBy, Recorded, Once
    <3>4. ASSUME NEW t \in Tx PROVE Proper(tx[t])'
      <4>1. tx'[t] = tx[t] /\ Proper(tx[t]) /\ UNCHANGED <<exec, ticket>>
        BY <2>1, <3>1
      <4>2. MarkedPending(tx[t])' /\ NewAwaited(tx[t])'
        BY <4>1 DEF Proper, MarkedPending, NewAwaited, AwaitedBy
      <4>3. Entitled(tx[t])'
        BY <4>1 DEF Proper, Entitled, Holds
      <4>4. Remembers(tx[t])'
        BY <3>2, <4>1 DEF Proper, Remembers
      <4>5. QED BY <4>2, <4>3, <4>4 DEF Proper
    <3>5. QED BY <3>3, <3>4
  <2>4. QED BY <2>2, <2>3 DEF Orderly
<1>6. QED BY <1>1, <1>2, <1>3, <1>4, <1>5 DEF Next

(* A node acts twice for one execution only if a transaction failed, some- *)
(* body resumed by hand, or a ticket was decided that was not pending any  *)
(* more: the visited nodes, the saved place and the row locks of           *)
(* run_workflow and its resumption see to the rest (main.py:1578-1597,     *)
(* 1837-1855).                                                             *)
THEOREM RepeatsHaveCause == Spec => []RepeatedActionNeedsCause
<1>1. Init => Orderly
  BY OrderlyInit
<1>2. Orderly /\ IInv => RepeatedActionNeedsCause
  <2> SUFFICES ASSUME Orderly, IInv, NEW e \in Exec, NEW n \in Node, performed[e][n] > 1
               PROVE  aborts > 0 \/ manual \/ redecided
    BY DEF RepeatedActionNeedsCause
  <2>1. ~Once
    <3>1. performed[e][n] \in 0..2
      BY DEF IInv, TypeOK
    <3>2. QED BY <3>1 DEF Once
  <2>2. ~Calm
    BY <2>1 DEF Orderly
  <2>3. QED BY <2>2 DEF Calm, IInv, TypeOK
<1>3. QED BY <1>1, <1>2, InductiveInvariant, OrderlyNext, PTL DEF Spec
=============================================================================
