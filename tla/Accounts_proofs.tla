--------------------------- MODULE Accounts_proofs ----------------------------
(***************************************************************************)
(* Proofs about Accounts, for any accounts, tenants, tokens, signatures,   *)
(* requests and bodies: types, the two records of a user's tenants, the    *)
(* rotation of tokens and the guard against locking oneself out.           *)
(*                                                                         *)
(* Three facts make the properties inductive.  A token and the one it was  *)
(* obtained with have one owner (Lineage), so a cascade takes both; a user *)
(* outlives no primary tenant (PrimaryLives); and a request that disables  *)
(* or deletes names somebody else, on the word of an administrator who was *)
(* found to be one (Careful).                                              *)
(***************************************************************************)
EXTENDS Accounts, TLAPS

Tokens == live \cup revoked

Lineage ==
  \A h \in Tokens : parent[h] # None =>
    parent[h] \in Tokens /\ owner[parent[h]] = owner[h]

Prudent(h) ==
  /\ h.op = "update" /\ h.flag = "no" => h.actor # h.target
  /\ h.op = "update" => h.rank \in {"super_admin", "customer_admin"}
  /\ h.op = "delete" => h.actor # h.target /\ h.rank = "super_admin"
  /\ h.op = "register" => h.target \in User /\ h.role \in Role
Careful == \A r \in Request : Prudent(req[r])

PrimaryLives == \A u \in users : primary[u] \in tenants \cup {None}

IInv == TypeOK /\ PrimaryLives /\ Lineage /\ Careful /\ PrimaryAssigned /\ RotationIsAtomic
-----------------------------------------------------------------------------
LEMMA InitInv == Init => IInv
<1> SUFFICES ASSUME Init PROVE IInv
  OBVIOUS
<1> USE DEF Init
<1>1. New \in Held
  BY DEF New, Held, PC, Op
<1>2. live = {} \/ live \in SUBSET Token
  OBVIOUS
<1>3. TypeOK
  <2>1. role \in [User -> Role] /\ primary \in [User -> Tenant \cup {None}]
    BY InitAssumption
  <2>2. owner \in [Token -> User] /\ \A k \in Token : owner[k] \in users
    BY InitAssumption
  <2> QED
    BY <1>1, <2>1, <2>2, InitAssumption DEF TypeOK
<1>4. Lineage /\ RotationIsAtomic
  BY NoneAssumption DEF Lineage, Tokens, RotationIsAtomic
<1>5. Careful
  BY DEF Careful, Prudent, New
<1>6. PrimaryAssigned /\ PrimaryLives
  BY InitAssumption DEF PrimaryAssigned, PrimaryLives
<1> QED
  BY <1>3, <1>4, <1>5, <1>6 DEF IInv

(* A step that only notes in req[r] what a statement returned.             *)
LEMMA HoldOnly ==
  ASSUME IInv, NEW r \in Request, NEW h \in Held, Prudent(h), Hold(r, h),
         UNCHANGED <<started, tenants, userVars, tokenVars, sigVars>>
  PROVE  IInv'
<1>1. req' \in [Request -> Held] /\ Careful'
  BY DEF IInv, TypeOK, Hold, Careful
<1>2. TypeOK'
  BY <1>1 DEF IInv, TypeOK, userVars, tokenVars, sigVars
<1> QED
  BY <1>1, <1>2 DEF IInv, Lineage, Tokens, PrimaryAssigned, PrimaryLives,
                    RotationIsAtomic, userVars, tokenVars, sigVars

(* A commit ends its request.                                              *)
LEMMA HoldOver ==
  ASSUME IInv, NEW r \in Request, Hold(r, Over)
  PROVE  req' \in [Request -> Held] /\ Careful'
<1>1. Over \in Held /\ Prudent(Over)
  BY DEF Over, New, Held, PC, Op, Prudent
<1> QED
  BY <1>1 DEF IInv, TypeOK, Hold, Careful

LEMMA ReadSteps ==
  ASSUME IInv, NEW r \in Request,
         LoginRead(r) \/ RefreshRead(r) \/ RefreshRotate(r) \/ RegisterRead(r)
           \/ UpdateRead(r) \/ ToggleRead(r) \/ UpdateDelete(r) \/ DeleteRead(r)
           \/ CreateSignature(r) \/ UpdateSignature(r) \/ DeleteSignature(r)
           \/ Abort(r)
  PROVE  IInv'
<1> USE DEF Held, PC, Op, Prudent
<1>0. req[r] \in Held /\ Prudent(req[r])
  BY DEF IInv, TypeOK, Careful
<1>1. CASE LoginRead(r)
  <2>1. PICK u \in User : Hold(r, [New EXCEPT !.pc = "read", !.op = "login", !.target = u])
    BY <1>1 DEF LoginRead
  <2> DEFINE h == [New EXCEPT !.pc = "read", !.op = "login", !.target = u]
  <2>2. h \in Held /\ Prudent(h)
    BY DEF New
  <2> HIDE DEF h
  <2> QED
    BY <1>1, <2>1, <2>2, HoldOnly DEF LoginRead, h
<1>2. CASE RefreshRead(r)
  <2>1. PICK k \in live : Hold(r, [New EXCEPT !.pc = "read", !.op = "refresh", !.token = k])
    BY <1>2 DEF RefreshRead
  <2> DEFINE h == [New EXCEPT !.pc = "read", !.op = "refresh", !.token = k]
  <2>2. h \in Held /\ Prudent(h)
    BY DEF New, IInv, TypeOK
  <2> HIDE DEF h
  <2> QED
    BY <1>2, <2>1, <2>2, HoldOnly DEF RefreshRead, h
<1>3. CASE RefreshRotate(r)
  <2> DEFINE h == [req[r] EXCEPT !.pc = "writing"]
  <2>2. h \in Held /\ Prudent(h)
    BY <1>0
  <2> HIDE DEF h
  <2> QED
    BY <1>3, <2>2, HoldOnly DEF RefreshRotate, h
<1>4. CASE RegisterRead(r)
  <2>1. PICK a \in User, u \in User \ users, c \in Bodies :
          /\ c.role # None
          /\ Hold(r, [New EXCEPT !.pc = "read", !.op = "register", !.actor = a,
                        !.rank = role[a], !.target = u, !.list = c.list, !.role = c.role])
    BY <1>4 DEF RegisterRead
  <2> DEFINE h == [New EXCEPT !.pc = "read", !.op = "register", !.actor = a,
                     !.rank = role[a], !.target = u, !.list = c.list, !.role = c.role]
  <2>3. role[a] \in Role
    BY DEF IInv, TypeOK
  <2>2. h \in Held /\ Prudent(h)
    BY <2>1, <2>3, BodyAssumption DEF New
  <2> HIDE DEF h
  <2> QED
    BY <1>4, <2>1, <2>2, HoldOnly DEF RegisterRead, h
<1>5. CASE UpdateRead(r)
  <2>1. PICK a \in User, u \in User, c \in Bodies :
          /\ ~(c.flag = "no" /\ a = u)
          /\ CanManage(a, u)
          /\ Hold(r, [New EXCEPT !.pc = "read", !.op = "update", !.actor = a,
                        !.rank = role[a], !.target = u,
                        !.list = c.list, !.role = c.role, !.flag = c.flag])
    BY <1>5 DEF UpdateRead
  <2>5. role[a] \in {"super_admin", "customer_admin"}
    BY <2>1 DEF CanManage, SuperAdmin, CustomerAdmin
  <2> DEFINE h == [New EXCEPT !.pc = "read", !.op = "update", !.actor = a,
                        !.rank = role[a], !.target = u,
                     !.list = c.list, !.role = c.role, !.flag = c.flag]
  <2>2. h \in Held /\ Prudent(h)
    BY <2>1, <2>5, BodyAssumption DEF New, Role
  <2> HIDE DEF h
  <2> QED
    BY <1>5, <2>1, <2>2, HoldOnly DEF UpdateRead, h
<1>6. CASE ToggleRead(r)
  <2>1. PICK a \in User, u \in User :
          /\ a # u
          /\ CanManage(a, u)
          /\ Hold(r, [New EXCEPT !.pc = "read", !.op = "update", !.actor = a,
                        !.rank = role[a], !.target = u, !.flag = IF u \in active THEN "no" ELSE "yes"])
    BY <1>6 DEF ToggleRead
  <2>5. role[a] \in {"super_admin", "customer_admin"}
    BY <2>1 DEF CanManage, SuperAdmin, CustomerAdmin
  <2> DEFINE h == [New EXCEPT !.pc = "read", !.op = "update", !.actor = a,
                     !.rank = role[a], !.target = u, !.flag = IF u \in active THEN "no" ELSE "yes"]
  <2>2. h \in Held /\ Prudent(h)
    BY <2>1, <2>5 DEF New, Role
  <2>3. Hold(r, h)
    BY <2>1
  <2>4. UNCHANGED <<started, tenants, userVars, tokenVars, sigVars>>
    BY <1>6 DEF ToggleRead
  <2> HIDE DEF h
  <2> QED
    BY <2>2, <2>3, <2>4, HoldOnly
<1>7. CASE UpdateDelete(r)
  <2> DEFINE h == [req[r] EXCEPT !.pc = "writing", !.seen = Assigned(req[r].target)]
  <2>1. Assigned(req[r].target) \in SUBSET (Tenant \cup Signature)
    BY DEF Assigned
  <2>2. Prudent(h)
    BY <1>0
  <2>3. h \in Held
    BY <1>0, <2>1
  <2> HIDE DEF h
  <2> QED
    BY <1>7, <2>2, <2>3, HoldOnly DEF UpdateDelete, h
<1>8. CASE DeleteRead(r)
  <2>1. PICK a \in User, u \in User :
          /\ u \in users \ {a}
          /\ SuperAdmin(a)
          /\ Hold(r, [New EXCEPT !.pc = "read", !.op = "delete", !.actor = a,
                                 !.rank = role[a], !.target = u])
    BY <1>8 DEF DeleteRead
  <2> DEFINE h == [New EXCEPT !.pc = "read", !.op = "delete", !.actor = a,
                     !.rank = role[a], !.target = u]
  <2>2. h \in Held /\ Prudent(h)
    BY <2>1 DEF New, Role, SuperAdmin
  <2>3. Hold(r, h)
    BY <2>1
  <2>4. UNCHANGED <<started, tenants, userVars, tokenVars, sigVars>>
    BY <1>8 DEF DeleteRead
  <2> HIDE DEF h
  <2> QED
    BY <2>2, <2>3, <2>4, HoldOnly
<1>9. CASE CreateSignature(r)
  <2>1. PICK u \in User, f \in {"yes", "keep"} :
          Hold(r, [New EXCEPT !.pc = "read", !.op = "create_sig", !.target = u,
                     !.flag = f, !.seen = IF f = "yes" THEN Signatures(u) ELSE {}])
    BY <1>9 DEF CreateSignature
  <2> DEFINE h == [New EXCEPT !.pc = "read", !.op = "create_sig", !.target = u,
                     !.flag = f, !.seen = IF f = "yes" THEN Signatures(u) ELSE {}]
  <2>2. h \in Held /\ Prudent(h)
    BY DEF New, Signatures
  <2>3. Hold(r, h)
    BY <2>1
  <2>4. UNCHANGED <<started, tenants, userVars, tokenVars, sigVars>>
    BY <1>9 DEF CreateSignature
  <2> HIDE DEF h
  <2> QED
    BY <2>2, <2>3, <2>4, HoldOnly
<1>10. CASE UpdateSignature(r)
  <2>1. PICK u \in User, s \in Signature, f \in {"yes", "no"} :
          Hold(r, [New EXCEPT !.pc = "read", !.op = "update_sig", !.target = u,
                     !.sig = s, !.flag = f,
                     !.seen = IF f = "yes" THEN Signatures(u) ELSE {}])
    BY <1>10 DEF UpdateSignature
  <2> DEFINE h == [New EXCEPT !.pc = "read", !.op = "update_sig", !.target = u,
                     !.sig = s, !.flag = f,
                     !.seen = IF f = "yes" THEN Signatures(u) ELSE {}]
  <2>2. h \in Held /\ Prudent(h)
    BY DEF New, Signatures
  <2>3. Hold(r, h)
    BY <2>1
  <2>4. UNCHANGED <<started, tenants, userVars, tokenVars, sigVars>>
    BY <1>10 DEF UpdateSignature
  <2> HIDE DEF h
  <2> QED
    BY <2>2, <2>3, <2>4, HoldOnly
<1>11. CASE DeleteSignature(r)
  <2>1. PICK a \in sigs :
          Hold(r, [New EXCEPT !.pc = "read", !.op = "delete_sig",
                              !.target = a[1], !.sig = a[2]])
    BY <1>11 DEF DeleteSignature
  <2> DEFINE h == [New EXCEPT !.pc = "read", !.op = "delete_sig",
                              !.target = a[1], !.sig = a[2]]
  <2>2. a[1] \in User /\ a[2] \in Signature
    BY DEF IInv, TypeOK
  <2>3. h \in Held /\ Prudent(h)
    BY <2>2 DEF New
  <2> HIDE DEF h
  <2> QED
    BY <1>11, <2>1, <2>3, HoldOnly DEF DeleteSignature, h
<1>12. CASE Abort(r)
  <2>1. Over \in Held /\ Prudent(Over)
    BY DEF Over, New
  <2> QED
    BY <1>12, <2>1, HoldOnly DEF Abort
<1> QED
  BY <1>1, <1>2, <1>3, <1>4, <1>5, <1>6, <1>7, <1>8, <1>9, <1>10, <1>11, <1>12

-----------------------------------------------------------------------------
LEMMA LoginStep ==
  ASSUME IInv, NEW r \in Request, LoginCommit(r)
  PROVE  IInv'
<1>1. PICK k \in Token : Insert(k, req[r].target, None) /\ live' = live \cup {k}
  BY DEF LoginCommit
<1>2. UNCHANGED <<started, tenants, userVars, revoked, sigVars>> /\ Hold(r, Over)
  BY DEF LoginCommit
<1>3. req' \in [Request -> Held] /\ Careful'
  BY <1>2, HoldOver
<1>4. k \notin Tokens /\ Tokens' = Tokens \cup {k} /\ req[r].target \in users
  BY <1>1, <1>2 DEF Insert, Tokens
<1>5. /\ owner' = [owner EXCEPT ![k] = req[r].target]
      /\ parent' = [parent EXCEPT ![k] = None]
  BY <1>1 DEF Insert
<1>6. TypeOK'
  BY <1>1, <1>2, <1>3, <1>4, <1>5 DEF IInv, TypeOK, Tokens, userVars, sigVars
<1>7. Lineage'
  BY <1>4, <1>5, NoneAssumption DEF IInv, TypeOK, Lineage, Tokens
<1>8. RotationIsAtomic'
  <2>1. \A h \in Tokens : parent[h] # k
    BY <1>4, NoneAssumption DEF IInv, Lineage
  <2>2. \A h \in Tokens : parent'[h] = parent[h]
    BY <1>4, <1>5 DEF IInv, TypeOK, Tokens
  <2>3. parent'[k] = None
    BY <1>5 DEF IInv, TypeOK
  <2> QED
    BY <1>1, <1>2, <1>4, <2>1, <2>2, <2>3, NoneAssumption
       DEF IInv, TypeOK, RotationIsAtomic, Tokens
<1>9. PrimaryAssigned' /\ PrimaryLives'
  BY <1>2 DEF IInv, PrimaryAssigned, PrimaryLives, userVars
<1> QED
  BY <1>3, <1>6, <1>7, <1>8, <1>9 DEF IInv

LEMMA RefreshStep ==
  ASSUME IInv, NEW r \in Request, RefreshCommit(r)
  PROVE  IInv'
<1> DEFINE t == req[r].token
<1>1. PICK k \in Token : /\ Insert(k, owner[t], t)
                         /\ live' = (live \ {t}) \cup {k}
  BY DEF RefreshCommit
<1>2. /\ UNCHANGED <<started, tenants, userVars, sigVars>> /\ Hold(r, Over)
      /\ t \in Tokens /\ revoked' = revoked \cup {t}
  BY DEF RefreshCommit, Tokens
<1>3. req' \in [Request -> Held] /\ Careful'
  BY <1>2, HoldOver
<1>4. /\ k \notin Tokens /\ t # k /\ t \in Token
      /\ Tokens' = Tokens \cup {k} /\ owner[t] \in users
  BY <1>1, <1>2 DEF Insert, Tokens, IInv, TypeOK
<1>5. /\ owner' = [owner EXCEPT ![k] = owner[t]]
      /\ parent' = [parent EXCEPT ![k] = t]
  BY <1>1 DEF Insert
<1> HIDE DEF t
<1>6. TypeOK'
  BY <1>1, <1>2, <1>3, <1>4, <1>5 DEF IInv, TypeOK, Tokens, userVars, sigVars
<1>7. Lineage'
  BY <1>2, <1>4, <1>5, NoneAssumption DEF IInv, TypeOK, Lineage, Tokens
<1>8. RotationIsAtomic'
  <2>1. \A h \in Tokens : parent[h] # k
    BY <1>4, NoneAssumption DEF IInv, Lineage
  <2>2. \A h \in Tokens : parent'[h] = parent[h]
    BY <1>4, <1>5 DEF IInv, TypeOK, Tokens
  <2>3. parent'[k] = t
    BY <1>5 DEF IInv, TypeOK
  <2> QED
    BY <1>1, <1>2, <1>4, <2>1, <2>2, <2>3
       DEF IInv, TypeOK, RotationIsAtomic, Tokens
<1>9. PrimaryAssigned' /\ PrimaryLives'
  BY <1>2 DEF IInv, PrimaryAssigned, PrimaryLives, userVars
<1> QED
  BY <1>3, <1>6, <1>7, <1>8, <1>9 DEF IInv

(* What rows of gone users leave of the tokens and the signatures.         *)
LEMMA CascadeKeeps ==
  ASSUME IInv, NEW gone, Cascade(gone), UNCHANGED owner
  PROVE  Lineage' /\ RotationIsAtomic'
<1>1. Tokens' = {k \in Tokens : owner[k] \notin gone}
  BY DEF Cascade, Tokens
<1>2. \A k \in Tokens' : parent'[k] = parent[k]
  BY <1>1 DEF Cascade, IInv, TypeOK, Tokens
<1>3. \A k \in Tokens' : parent[k] # None => parent[k] \in Tokens'
  BY <1>1 DEF IInv, Lineage
<1>4. Lineage'
  BY <1>1, <1>2, <1>3 DEF IInv, Lineage
<1>5. ASSUME NEW k \in Tokens'
      PROVE  k \in revoked' <=> \E h \in Tokens' : parent'[h] = k
  <2>1. k \in revoked' <=> k \in revoked
    BY <1>1 DEF Cascade
  <2>2. k \in revoked <=> \E h \in Tokens : parent[h] = k
    BY <1>1 DEF IInv, RotationIsAtomic, Tokens
  <2>3. \A h \in Tokens : parent[h] = k => h \in Tokens'
    <3>1. k # None
      BY <1>1, NoneAssumption DEF IInv, TypeOK, Tokens
    <3> QED
      BY <1>1, <3>1 DEF IInv, Lineage
  <2> QED
    BY <1>1, <1>2, <2>1, <2>2, <2>3
<1> QED
  BY <1>4, <1>5 DEF RotationIsAtomic, Tokens

LEMMA SessionSteps ==
  ASSUME IInv, NEW r \in Request, SessionStep(r)
  PROVE  IInv'
BY ReadSteps, LoginStep, RefreshStep DEF SessionStep

LEMMA UnchangedTokens ==
  ASSUME IInv, UNCHANGED tokenVars
  PROVE  Lineage' /\ RotationIsAtomic'
BY DEF IInv, Lineage, RotationIsAtomic, Tokens, tokenVars

LEMMA RegisterStep ==
  ASSUME IInv, NEW r \in Request, RegisterCommit(r)
  PROVE  IInv'
<1> DEFINE u == req[r].target  l == req[r].list
<1>1. /\ u \notin users /\ Hold(r, Over)
      /\ \A a \in Rows(u, l) : a[2] \in tenants
      /\ users' = users \cup {u} /\ active' = active \cup {u}
      /\ role' = [role EXCEPT ![u] = req[r].role]
      /\ primary' = [primary EXCEPT ![u] = First(l)]
      /\ assigned' = assigned \cup Rows(u, l)
      /\ UNCHANGED <<started, tenants, tokenVars, sigVars>>
  BY DEF RegisterCommit
<1>2. req' \in [Request -> Held] /\ Careful'
  BY <1>1, HoldOver
<1>3. req[r] \in Held /\ u \in User /\ req[r].role \in Role
  BY DEF IInv, TypeOK, Careful, Prudent, RegisterCommit, Holding
<1>4. l = None \/ l \in Seq(Tenant)
  BY <1>3, BodyAssumption DEF Held
<1> HIDE DEF u, l
<1>5. First(l) \in Tenant \cup {None} /\ Rows(u, l) \subseteq {u} \X tenants
  BY <1>1, <1>4 DEF First, Rows, Elements
<1>6. First(l) # None => <<u, First(l)>> \in Rows(u, l)
  BY <1>4 DEF First, Rows, Elements
<1>7. TypeOK' /\ PrimaryLives'
  <2>1. TypeOK'
    BY <1>1, <1>2, <1>3, <1>5 DEF IInv, TypeOK, tokenVars, sigVars
  <2>2. First(l) \in tenants \cup {None}
    BY <1>5, <1>6
  <2> QED
    BY <1>1, <1>3, <2>1, <2>2 DEF IInv, TypeOK, PrimaryLives
<1>8. PrimaryAssigned'
  <2>1. \A v \in users : primary'[v] = primary[v]
    BY <1>1 DEF IInv, TypeOK
  <2>2. primary'[u] = First(l)
    BY <1>1, <1>3 DEF IInv, TypeOK
  <2>3. started => \A v \in users : primary'[v] # None => <<v, primary'[v]>> \in assigned'
    BY <1>1, <2>1 DEF IInv, PrimaryAssigned
  <2>4. primary'[u] # None => <<u, primary'[u]>> \in assigned'
    BY <1>1, <1>6, <2>2
  <2> QED
    BY <1>1, <2>3, <2>4 DEF PrimaryAssigned
<1> QED
  BY <1>1, <1>2, <1>7, <1>8, UnchangedTokens DEF IInv

LEMMA SetFieldsType ==
  ASSUME IInv, NEW u \in users, NEW x \in Role \cup {None}, NEW f, SetFields(u, x, f)
  PROVE  role' \in [User -> Role] /\ active' \subseteq users
BY DEF IInv, TypeOK, SetFields

LEMMA UpdateStep ==
  ASSUME IInv, NEW r \in Request, UpdateCommit(r)
  PROVE  IInv'
<1>1. req' \in [Request -> Held] /\ Careful'
  BY HoldOver DEF UpdateCommit
<1>2. req[r].role \in Role \cup {None}
  BY DEF IInv, TypeOK, Held
<1>3. role' \in [User -> Role] /\ active' \subseteq users
  BY <1>2, SetFieldsType DEF UpdateCommit
<1>4. UNCHANGED <<started, tenants, users, primary, assigned, tokenVars, sigVars>>
  BY DEF UpdateCommit
<1>5. TypeOK'
  BY <1>1, <1>3, <1>4 DEF IInv, TypeOK, tokenVars, sigVars
<1> QED
  BY <1>1, <1>4, <1>5, UnchangedTokens DEF IInv, PrimaryAssigned, PrimaryLives

LEMMA ReplaceStep ==
  ASSUME IInv, NEW r \in Request, ReplaceCommit(r)
  PROVE  IInv'
<1> DEFINE u == req[r].target  l == req[r].list  old == {u} \X req[r].seen
<1>1. /\ u \in users /\ Elements(l) \subseteq tenants
      /\ SetFields(u, req[r].role, req[r].flag)
      /\ assigned' = (assigned \ old) \cup Rows(u, l)
      /\ primary' = [primary EXCEPT ![u] = First(l)]
      /\ UNCHANGED <<started, tenants, users, tokenVars, sigVars>>
  BY DEF ReplaceCommit, Replacing
<1>2. req' \in [Request -> Held] /\ Careful'
  <2> DEFINE row(q) == IF q = r THEN Over
                       ELSE IF Holding(q, "update", "writing") /\ req[q].target = u
                            THEN [req[q] EXCEPT !.seen = @ \ req[r].seen] ELSE req[q]
  <2>1. req' = [q \in Request |-> row(q)]
    BY DEF ReplaceCommit, Replacing
  <2>2. Over \in Held /\ Prudent(Over)
    BY DEF Over, New, Held, PC, Op, Prudent
  <2>3. ASSUME NEW q \in Request PROVE row(q) \in Held /\ Prudent(row(q))
    <3>1. req[q] \in Held /\ Prudent(req[q])
      BY DEF IInv, TypeOK, Careful
    <3>2. [req[q] EXCEPT !.seen = @ \ req[r].seen] \in Held
      BY <3>1 DEF Held
    <3>3. Prudent([req[q] EXCEPT !.seen = @ \ req[r].seen])
      BY <3>1 DEF Held, Prudent
    <3> QED
      BY <2>2, <3>1, <3>2, <3>3
  <2> HIDE DEF row
  <2> QED
    BY <2>1, <2>3 DEF Careful
<1>3. req[r] \in Held
  BY DEF IInv, TypeOK
<1>4. l = None \/ l \in Seq(Tenant)
  BY <1>3, BodyAssumption DEF Held
<1>5. role' \in [User -> Role] /\ active' \subseteq users
  BY <1>1, <1>3, SetFieldsType DEF Held
<1> HIDE DEF u, l
<1>6. First(l) \in Tenant \cup {None} /\ Rows(u, l) \subseteq {u} \X tenants
  BY <1>1, <1>4 DEF First, Rows
<1>7. First(l) # None => <<u, First(l)>> \in Rows(u, l)
  BY <1>4 DEF First, Rows, Elements
<1>8. TypeOK' /\ PrimaryLives'
  <2>1. TypeOK'
    BY <1>1, <1>2, <1>5, <1>6 DEF IInv, TypeOK, tokenVars, sigVars
  <2>2. First(l) \in tenants \cup {None}
    BY <1>6, <1>7
  <2> QED
    BY <1>1, <2>1, <2>2 DEF IInv, TypeOK, PrimaryLives
<1>9. PrimaryAssigned'
  BY <1>1, <1>7 DEF IInv, TypeOK, PrimaryAssigned
<1> QED
  BY <1>1, <1>2, <1>8, <1>9, UnchangedTokens DEF IInv

LEMMA DeleteStep ==
  ASSUME IInv, NEW r \in Request, DeleteCommit(r)
  PROVE  IInv'
<1> DEFINE gone == {req[r].target}
<1>1. /\ Cascade(gone) /\ assigned' = {a \in assigned : a[1] # req[r].target}
      /\ Hold(r, Over)
      /\ UNCHANGED <<started, tenants, role, primary, owner>>
  BY DEF DeleteCommit
<1>2. req' \in [Request -> Held] /\ Careful'
  BY <1>1, HoldOver
<1>3. Lineage' /\ RotationIsAtomic'
  BY <1>1, CascadeKeeps
<1>4. TypeOK'
  BY <1>1, <1>2 DEF IInv, TypeOK, Cascade
<1>5. PrimaryAssigned' /\ PrimaryLives'
  BY <1>1 DEF IInv, TypeOK, Cascade, PrimaryAssigned, PrimaryLives
<1> QED
  BY <1>2, <1>3, <1>4, <1>5 DEF IInv

LEMMA DeleteTenantStep ==
  ASSUME IInv, NEW t \in Tenant, DeleteTenant(t)
  PROVE  IInv'
<1> DEFINE gone == {u \in users : primary[u] = t}
<1>1. /\ Cascade(gone) /\ tenants' = tenants \ {t}
      /\ assigned' = {a \in assigned : a[2] # t /\ primary[a[1]] # t}
      /\ UNCHANGED <<started, role, primary, owner, req>>
  BY DEF DeleteTenant
<1>2. Lineage' /\ RotationIsAtomic'
  BY <1>1, CascadeKeeps
<1>3. TypeOK'
  BY <1>1 DEF IInv, TypeOK, Cascade
<1>4. PrimaryAssigned' /\ PrimaryLives'
  BY <1>1 DEF IInv, TypeOK, Cascade, PrimaryAssigned, PrimaryLives
<1>5. Careful'
  BY <1>1 DEF IInv, Careful
<1> QED
  BY <1>2, <1>3, <1>4, <1>5 DEF IInv

LEMMA SignatureSteps ==
  ASSUME IInv, NEW r \in Request,
         CreateSignatureCommit(r) \/ UpdateSignatureCommit(r) \/ DeleteSignatureCommit(r)
  PROVE  IInv'
<1>1. /\ UNCHANGED <<started, tenants, userVars, tokenVars>> /\ Hold(r, Over)
  BY DEF CreateSignatureCommit, UpdateSignatureCommit, DeleteSignatureCommit
<1>2. req' \in [Request -> Held] /\ Careful'
  BY <1>1, HoldOver
<1>3. sigs' \subseteq users \X Signature /\ default' \subseteq Signature
  <2>1. CASE CreateSignatureCommit(r)
    BY <2>1 DEF IInv, TypeOK, CreateSignatureCommit
  <2>2. CASE UpdateSignatureCommit(r)
    BY <2>2 DEF IInv, TypeOK, UpdateSignatureCommit
  <2>3. CASE DeleteSignatureCommit(r)
    BY <2>3 DEF IInv, TypeOK, DeleteSignatureCommit
  <2> QED
    BY <2>1, <2>2, <2>3
<1>4. TypeOK'
  BY <1>1, <1>2, <1>3 DEF IInv, TypeOK, userVars, tokenVars
<1> QED
  BY <1>1, <1>2, <1>4, UnchangedTokens DEF IInv, PrimaryAssigned, PrimaryLives, userVars

LEMMA ServerSteps ==
  ASSUME IInv, StartUp \/ Restart
  PROVE  IInv'
<1>1. CASE StartUp
  <2>1. /\ assigned' = assigned \cup {a \in users \X Tenant : primary[a[1]] = a[2]}
        /\ started' /\ UNCHANGED <<tenants, users, active, role, primary, tokenVars, sigVars, req>>
    BY <1>1 DEF StartUp
  <2>2. TypeOK'
    <3>1. assigned' \subseteq users \X tenants
      BY <2>1, NoneAssumption DEF IInv, TypeOK, PrimaryLives
    <3> QED
      BY <2>1, <3>1 DEF IInv, TypeOK, tokenVars, sigVars
  <2>3. PrimaryAssigned' /\ PrimaryLives'
    BY <2>1 DEF IInv, TypeOK, PrimaryAssigned, PrimaryLives
  <2>4. Careful'
    BY <2>1 DEF IInv, Careful
  <2> QED
    BY <2>1, <2>2, <2>3, <2>4, UnchangedTokens DEF IInv
<1>2. CASE Restart
  <2>1. Over \in Held /\ Prudent(Over)
    BY DEF Over, New, Held, PC, Op, Prudent
  <2>2. req' \in [Request -> Held] /\ Careful'
    BY <1>2, <2>1 DEF IInv, TypeOK, Careful, Restart
  <2>3. TypeOK' /\ PrimaryAssigned' /\ PrimaryLives'
    BY <1>2, <2>2 DEF IInv, TypeOK, PrimaryAssigned, PrimaryLives, Restart, userVars, tokenVars, sigVars
  <2> QED
    BY <1>2, <2>2, <2>3, UnchangedTokens DEF IInv, Restart
<1> QED
  BY <1>1, <1>2

LEMMA StepInv == IInv /\ [Next]_vars => IInv'
<1> SUFFICES ASSUME IInv, [Next]_vars PROVE IInv'
  OBVIOUS
<1>1. CASE StartUp \/ Restart
  BY <1>1, ServerSteps
<1>2. ASSUME NEW t \in Tenant, DeleteTenant(t) PROVE IInv'
  BY <1>2, DeleteTenantStep
<1>3. ASSUME NEW r \in Request, SessionStep(r) PROVE IInv'
  BY <1>3, SessionSteps
<1>4. ASSUME NEW r \in Request, UserStep(r) PROVE IInv'
  BY <1>4, ReadSteps, RegisterStep, UpdateStep, ReplaceStep, DeleteStep DEF UserStep
<1>5. ASSUME NEW r \in Request, SignatureStep(r) PROVE IInv'
  BY <1>5, ReadSteps, SignatureSteps DEF SignatureStep
<1>6. ASSUME NEW r \in Request, Abort(r) PROVE IInv'
  BY <1>6, ReadSteps
<1>7. CASE UNCHANGED vars
  BY <1>7 DEF vars, userVars, tokenVars, sigVars, IInv, TypeOK, Lineage, Tokens, Careful,
              PrimaryAssigned, PrimaryLives, RotationIsAtomic
<1> QED
  BY <1>1, <1>2, <1>3, <1>4, <1>5, <1>6, <1>7 DEF Next

(* IInv is an invariant.                                                   *)
THEOREM InductiveInvariant == Spec => []IInv
BY InitInv, StepInv, PTL DEF Spec

(* Columns and requests keep their types, and rows refer to rows that      *)
(* exist: every cascade of auth/routes.py and of the schema is complete.   *)
THEOREM TypeCorrect == Spec => []TypeOK
BY InductiveInvariant, PTL DEF IInv

(* users.tenant_id is among the user's user_tenants in a running service   *)
(* (_sync_user_tenants, register, delete_tenant).                          *)
THEOREM PrimaryCorrect == Spec => []PrimaryAssigned
BY InductiveInvariant, PTL DEF IInv

(* A refresh token is revoked exactly when it has a successor (refresh).   *)
THEOREM RotationCorrect == Spec => []RotationIsAtomic
BY InductiveInvariant, PTL DEF IInv
-----------------------------------------------------------------------------
(* An update of u takes the standing of an administrator from u alone.     *)
LEMMA FieldsOfOne ==
  ASSUME IInv, NEW u \in users, NEW x, NEW f, SetFields(u, x, f), UNCHANGED users
  PROVE  /\ Admins \ {u} \subseteq Admins'
         /\ u \in Admins /\ u \notin Admins' => x # None \/ f = "no"
BY DEF IInv, TypeOK, SetFields, Admins

LEMMA AdminStep ==
  ASSUME IInv, Next, Admins # {}, Admins' = {}, UNCHANGED tenants
  PROVE  \E r \in Request :
           /\ req[r].pc # "done" /\ req'[r].pc = "done"
           /\ \/ req[r].rank = "super_admin" /\ req[r].actor \notin Admins
              \/ req[r].rank = "customer_admin" /\ req[r].op = "update"
              \/ req[r].actor = req[r].target /\ req[r].role # None
<1>1. CASE UNCHANGED <<users, active, role>>
  BY <1>1 DEF Admins
<1>2. ASSUME NEW r \in Request, RegisterCommit(r) PROVE FALSE
  BY <1>2 DEF RegisterCommit, Admins, IInv, TypeOK
<1>3. ASSUME NEW r \in Request, UpdateCommit(r) \/ ReplaceCommit(r)
      PROVE  /\ req[r].pc # "done" /\ req'[r].pc = "done"
             /\ \/ req[r].rank = "super_admin" /\ req[r].actor \notin Admins
                \/ req[r].rank = "customer_admin" /\ req[r].op = "update"
                \/ req[r].actor = req[r].target /\ req[r].role # None
  <2> DEFINE u == req[r].target
  <2>1. /\ u \in users /\ UNCHANGED users
        /\ SetFields(u, req[r].role, req[r].flag)
        /\ req[r].pc # "done" /\ req[r].op = "update"
    BY <1>3 DEF UpdateCommit, ReplaceCommit, Replacing, Holding
  <2>2. req'[r] = Over
    BY <1>3 DEF UpdateCommit, ReplaceCommit, Replacing, Hold, IInv, TypeOK
  <2>3. Prudent(req[r])
    BY DEF IInv, Careful
  <2>4. Admins \subseteq {u} /\ (u \in Admins => req[r].role # None \/ req[r].flag = "no")
    BY <2>1, FieldsOfOne
  <2> HIDE DEF u
  <2>5. req[r].actor \in Admins => req[r].actor = u /\ req[r].role # None
    BY <2>1, <2>3, <2>4 DEF Prudent, u
  <2> QED
    BY <2>1, <2>2, <2>3, <2>5 DEF Over, New, Prudent, u
<1>4. ASSUME NEW r \in Request, DeleteCommit(r)
      PROVE  /\ req[r].pc # "done" /\ req'[r].pc = "done"
             /\ req[r].rank = "super_admin" /\ req[r].actor \notin Admins
  <2>1. /\ req[r].op = "delete" /\ req[r].pc # "done"
        /\ users' = users \ {req[r].target} /\ active' = active \ {req[r].target}
        /\ role' = role /\ req' = [req EXCEPT ![r] = Over]
    BY <1>4 DEF DeleteCommit, Cascade, Hold, Holding
  <2>2. Prudent(req[r])
    BY DEF IInv, Careful
  <2> QED
    BY <2>1, <2>2 DEF Prudent, Admins, Over, New, IInv, TypeOK
<1>5. ASSUME NEW t \in Tenant, DeleteTenant(t) PROVE FALSE
  BY <1>5 DEF DeleteTenant
<1>6. CASE StartUp \/ Restart
  BY <1>1, <1>6 DEF StartUp, Restart, userVars
<1>7. ASSUME NEW r \in Request, SessionStep(r) \/ SignatureStep(r) \/ Abort(r)
      PROVE  UNCHANGED <<users, active, role>>
  BY <1>7 DEF SessionStep, SignatureStep, Abort, LoginRead, LoginCommit, RefreshRead,
       RefreshRotate, RefreshCommit, CreateSignature, CreateSignatureCommit,
       UpdateSignature, UpdateSignatureCommit, DeleteSignature, DeleteSignatureCommit,
       userVars
<1>8. ASSUME NEW r \in Request,
             RegisterRead(r) \/ UpdateRead(r) \/ ToggleRead(r) \/ UpdateDelete(r)
               \/ DeleteRead(r)
      PROVE  UNCHANGED <<users, active, role>>
  BY <1>8 DEF RegisterRead, UpdateRead, ToggleRead, UpdateDelete, DeleteRead, userVars
<1> QED
  BY <1>1, <1>2, <1>3, <1>4, <1>5, <1>6, <1>7, <1>8 DEF Next, UserStep

(* The last active super_admin is lost with a tenant, by a request whose   *)
(* actor was found to be super_admin and no longer is one, by a change of  *)
(* one's own role, or by an update of a customer_admin, whose target's     *)
(* role nobody checks (toggle_user_status, update_user, delete_user).      *)
THEOREM LastAdminCorrect == Spec => LastAdminLeaves
<1>1. IInv /\ [Next]_vars =>
        [ Admins # {} /\ Admins' = {} =>
            \/ tenants' # tenants
            \/ \E r \in Request :
                 /\ req[r].pc # "done" /\ req'[r].pc = "done"
                 /\ \/ req[r].rank = "super_admin" /\ req[r].actor \notin Admins
                    \/ req[r].rank = "customer_admin" /\ req[r].op = "update"
                    \/ req[r].actor = req[r].target /\ req[r].role # None ]_vars
  BY AdminStep
<1> QED
  BY <1>1, InductiveInvariant, PTL DEF Spec, LastAdminLeaves
=============================================================================
