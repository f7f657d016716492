------------------------------- MODULE Accounts -------------------------------
(***************************************************************************)
(* Accounts of the authentication service (auth/routes.py): users, the     *)
(* tenants they are assigned to, refresh tokens and mail signatures.       *)
(*                                                                         *)
(* A request is one READ COMMITTED transaction.  Its reads come first and  *)
(* what they returned is kept in req[r]; its writes and the commit are one *)
(* step, except where another request can tell them apart: the DELETE of   *)
(* the old assignments and the UPDATE of the other signatures see the rows *)
(* committed when the statement started (seen), and the revocation of a    *)
(* token keeps its row locked until the commit.  A refused request changes *)
(* nothing and is not a step.                                              *)
(***************************************************************************)
EXTENDS Integers, Sequences, FiniteSets, TLC

CONSTANTS
  User,         \* accounts by e-mail address, registered or not
  Tenant,
  Token,        \* refresh tokens by hash
  Signature,
  Request,      \* requests ever sent, each served once
  Bodies,       \* bodies of registrations and updates in this instance
  InitRoles,    \* roles the accounts may start with
  InitUsers,    \* accounts that exist when the service is upgraded
  InitPrimary,  \* their users.tenant_id
  None          \* SQL NULL, an absent field

Role == {"super_admin", "customer_admin", "analyst"}
Elements(list) == {list[i] : i \in DOMAIN list}

(* A body carries tenant_ids (a list without repetitions), role and        *)
(* is_active; an absent field is None or "keep".                           *)
ASSUME BodyAssumption ==
  \A c \in Bodies :
    /\ DOMAIN c = {"list", "role", "flag"}
    /\ c.list # None => /\ c.list \in Seq(Tenant)
                       /\ \A i, j \in DOMAIN c.list : c.list[i] = c.list[j] => i = j
    /\ c.role \in Role \cup {None}
    /\ c.flag \in {"yes", "no", "keep"}
ASSUME InitAssumption == /\ InitUsers \subseteq User
                         /\ InitRoles \subseteq [User -> Role]
                         /\ InitPrimary \in [User -> Tenant \cup {None}]
ASSUME NoneAssumption == None \notin User \cup Tenant \cup Token \cup Signature

VARIABLES
  started,   \* the lifespan handler has run
  tenants,   \* rows of tenants
  users,     \* rows of users
  active,    \* users.is_active
  role,      \* users.role
  primary,   \* users.tenant_id
  assigned,  \* rows <<user, tenant>> of user_tenants
  live,      \* refresh_tokens with revoked = FALSE
  revoked,   \* refresh_tokens with revoked = TRUE
  owner,     \* owner[k]: the user of token k
  parent,    \* parent[k]: the token k was obtained with, None after a login
  sigs,      \* rows <<user, signature>> of user_signatures
  default,   \* signatures with is_default_new = TRUE
  req

userVars == <<users, active, role, primary, assigned>>
tokenVars == <<live, revoked, owner, parent>>
sigVars == <<sigs, default>>
vars == <<started, tenants, userVars, tokenVars, sigVars, req>>

Op == {"none", "login", "refresh", "register", "update", "delete",
       "create_sig", "update_sig", "delete_sig"}
PC == {"new", "read", "writing", "done"}
(* What a request holds between two statements.  rank is the role its      *)
(* actor was found in, flag is is_active of an update or is_default_new of *)
(* a signature, "keep" when absent.                                        *)
Held == [pc : PC, op : Op, actor : User \cup {None}, rank : Role \cup {None},
         target : User \cup {None},
         list : {c.list : c \in Bodies} \cup {None}, role : Role \cup {None},
         flag : {"yes", "no", "keep"},
         token : Token \cup {None}, sig : Signature \cup {None},
         seen : SUBSET (Tenant \cup Signature)]
New == [pc |-> "new", op |-> "none", actor |-> None, rank |-> None, target |-> None,
        list |-> None, role |-> None, flag |-> "keep", token |-> None,
        sig |-> None, seen |-> {}]
Over == [New EXCEPT !.pc = "done"]

Assigned(u) == {t \in Tenant : <<u, t>> \in assigned}
Signatures(u) == {s \in Signature : <<u, s>> \in sigs}
Signer(u) == u \in users /\ u \in active

(* An upgrade: the accounts predate the junction table, a session may be   *)
(* open, and the lifespan handler has not run yet.                         *)
Init ==
  /\ started = FALSE
  /\ tenants = Tenant
  /\ users = InitUsers
  /\ active = InitUsers
  /\ role \in InitRoles
  /\ primary = InitPrimary
  /\ assigned = {}
  /\ live \in {l \in SUBSET Token : Cardinality(l) < 2}
  /\ revoked = {}
  /\ owner \in [Token -> InitUsers]
  /\ \A k1, k2 \in Token : k1 \notin live => owner[k1] = owner[k2] \/ k2 \in live
  /\ parent = [k \in Token |-> None]
  /\ sigs = {}
  /\ default = {}
  /\ req = [r \in Request |-> New]

Begins(r) == started /\ req[r].pc = "new"
Hold(r, held) == req' = [req EXCEPT ![r] = held]
Holding(r, op, pc) == req[r].op = op /\ req[r].pc = pc

(* Startup copies users.tenant_id into the junction table.                 *)
StartUp ==
  /\ ~started
  /\ started' = TRUE
  /\ assigned' = assigned \cup {a \in users \X Tenant : primary[a[1]] = a[2]}
  /\ UNCHANGED <<tenants, users, active, role, primary, tokenVars, sigVars, req>>

(* The process dies: PostgreSQL rolls its open transactions back.          *)
Restart ==
  /\ started
  /\ started' = FALSE
  /\ req' = [r \in Request |-> IF req[r].pc = "new" THEN req[r] ELSE Over]
  /\ UNCHANGED <<tenants, userVars, tokenVars, sigVars>>

(* A constraint violation, a deadlock or a lost connection rolls back.     *)
Abort(r) ==
  /\ req[r].pc \in {"read", "writing"}
  /\ Hold(r, Over)
  /\ UNCHANGED <<started, tenants, userVars, tokenVars, sigVars>>

(* ---- sessions --------------------------------------------------------- *)
LoginRead(r) ==
  /\ Begins(r)
  /\ \E u \in User :
       /\ Signer(u)
       /\ Hold(r, [New EXCEPT !.pc = "read", !.op = "login", !.target = u])
  /\ UNCHANGED <<started, tenants, userVars, tokenVars, sigVars>>

(* The hash of a new token is UNIQUE and its user must exist.              *)
Insert(k, u, from) ==
  /\ u \in users
  /\ k \notin live \cup revoked
  /\ owner' = [owner EXCEPT ![k] = u]
  /\ parent' = [parent EXCEPT ![k] = from]

LoginCommit(r) ==
  /\ Holding(r, "login", "read")
  /\ \E k \in Token : /\ Insert(k, req[r].target, None)
                      /\ live' = live \cup {k}
  /\ Hold(r, Over)
  /\ UNCHANGED <<started, tenants, userVars, revoked, sigVars>>

(* The token is looked up without a lock.                                  *)
RefreshRead(r) ==
  /\ Begins(r)
  /\ \E k \in live :
       Hold(r, [New EXCEPT !.pc = "read", !.op = "refresh", !.token = k])
  /\ UNCHANGED <<started, tenants, userVars, tokenVars, sigVars>>

(* Mutant: the revocation is committed before the user is looked at.       *)
RefreshRotateEarly(r) ==
  /\ Holding(r, "refresh", "read")
  /\ req[r].token \in live
  /\ live' = live \ {req[r].token}
  /\ revoked' = revoked \cup {req[r].token}
  /\ Hold(r, [req[r] EXCEPT !.pc = "writing"])
  /\ UNCHANGED <<started, tenants, userVars, owner, parent, sigVars>>

(* UPDATE ... SET revoked waits for a request that has updated the row;    *)
(* then the user is read.  An inactive user gets 401: Abort.               *)
RefreshRotate(r) ==
  /\ Holding(r, "refresh", "read")
  /\ \A q \in Request : ~(Holding(q, "refresh", "writing")
                          /\ req[q].token = req[r].token)
  /\ req[r].token \in live \cup revoked
  /\ Signer(owner[req[r].token])
  /\ Hold(r, [req[r] EXCEPT !.pc = "writing"])
  /\ UNCHANGED <<started, tenants, userVars, tokenVars, sigVars>>

RefreshCommit(r) ==
  /\ Holding(r, "refresh", "writing")
  /\ req[r].token \in live \cup revoked
  /\ \E k \in Token : /\ Insert(k, owner[req[r].token], req[r].token)
                      /\ live' = (live \ {req[r].token}) \cup {k}
  /\ revoked' = revoked \cup {req[r].token}
  /\ Hold(r, Over)
  /\ UNCHANGED <<started, tenants, userVars, sigVars>>

(* ---- user management -------------------------------------------------- *)
(* The tenants of an account, with the legacy column as a fallback.        *)
Managed(u) == IF Assigned(u) = {} /\ primary[u] # None THEN {primary[u]}
                                                       ELSE Assigned(u)
SuperAdmin(a) == Signer(a) /\ role[a] = "super_admin"
CustomerAdmin(a) == Signer(a) /\ role[a] = "customer_admin"
CanManage(a, u) == \/ SuperAdmin(a)
                   \/ CustomerAdmin(a) /\ Managed(a) \cap Managed(u) # {}
MayGive(a, list, newRole) ==
  \/ SuperAdmin(a)
  \/ /\ CustomerAdmin(a)
     /\ newRole \in {"analyst", None}
     /\ list # None => Elements(list) \subseteq Managed(a)

RegisterRead(r) ==
  /\ Begins(r)
  /\ \E a \in User, u \in User \ users, c \in Bodies :
       /\ c.role # None
       /\ MayGive(a, c.list, c.role)
       /\ Hold(r, [New EXCEPT !.pc = "read", !.op = "register", !.actor = a,
                     !.rank = role[a], !.target = u, !.list = c.list, !.role = c.role])
  /\ UNCHANGED <<started, tenants, userVars, tokenVars, sigVars>>

(* The first tenant of a list becomes users.tenant_id.                     *)
First(list) == IF list \in {None, <<>>} THEN None ELSE list[1]
Rows(u, list) == IF list = None THEN {} ELSE {u} \X Elements(list)

RegisterCommit(r) ==
  LET u == req[r].target  l == req[r].list IN
  /\ Holding(r, "register", "read")
  /\ u \notin users
  /\ \A a \in Rows(u, l) : a[2] \in tenants
  /\ users' = users \cup {u}
  /\ active' = active \cup {u}
  /\ role' = [role EXCEPT ![u] = req[r].role]
  /\ primary' = [primary EXCEPT ![u] = First(l)]
  /\ assigned' = assigned \cup Rows(u, l)
  /\ Hold(r, Over)
  /\ UNCHANGED <<started, tenants, tokenVars, sigVars>>

(* One request may set the tenants, the role and is_active together.       *)
UpdateRead(r) ==
  /\ Begins(r)
  /\ \E a, u \in User, c \in Bodies :
       /\ u \in users
       /\ CanManage(a, u)
       /\ MayGive(a, c.list, c.role)
       /\ ~(c.flag = "no" /\ a = u)
       /\ Hold(r, [New EXCEPT !.pc = "read", !.op = "update", !.actor = a,
                     !.rank = role[a], !.target = u,
                     !.list = c.list, !.role = c.role, !.flag = c.flag])
  /\ UNCHANGED <<started, tenants, userVars, tokenVars, sigVars>>

(* Mutant: the guard against deactivating oneself is dropped.              *)
ToggleReadAny(r) ==
  /\ Begins(r)
  /\ \E a, u \in User :
       /\ u \in users
       /\ CanManage(a, u)
       /\ Hold(r, [New EXCEPT !.pc = "read", !.op = "update", !.actor = a,
                     !.rank = role[a], !.target = u, !.flag = IF u \in active THEN "no" ELSE "yes"])
  /\ UNCHANGED <<started, tenants, userVars, tokenVars, sigVars>>

(* toggle_user_status decides on the is_active it read.                    *)
ToggleRead(r) ==
  /\ Begins(r)
  /\ \E a, u \in User :
       /\ u \in users
       /\ CanManage(a, u)
       /\ a # u
       /\ Hold(r, [New EXCEPT !.pc = "read", !.op = "update", !.actor = a,
                     !.rank = role[a], !.target = u, !.flag = IF u \in active THEN "no" ELSE "yes"])
  /\ UNCHANGED <<started, tenants, userVars, tokenVars, sigVars>>

(* _sync_user_tenants: the DELETE sees the rows committed by now.          *)
UpdateDelete(r) ==
  /\ Holding(r, "update", "read")
  /\ req[r].list # None
  /\ Hold(r, [req[r] EXCEPT !.pc = "writing", !.seen = Assigned(req[r].target)])
  /\ UNCHANGED <<started, tenants, userVars, tokenVars, sigVars>>

SetFields(u, newRole, flag) ==
  /\ role' = IF newRole = None THEN role ELSE [role EXCEPT ![u] = newRole]
  /\ active' = IF flag = "yes" THEN active \cup {u}
               ELSE IF flag = "no" THEN active \ {u} ELSE active

UpdateCommit(r) ==
  LET u == req[r].target IN
  /\ Holding(r, "update", "read")
  /\ req[r].list = None
  /\ u \in users
  /\ SetFields(u, req[r].role, req[r].flag)
  /\ Hold(r, Over)
  /\ UNCHANGED <<started, tenants, users, primary, assigned, tokenVars, sigVars>>

(* The new rows must not be there (UNIQUE).  The rows this DELETE removed  *)
(* are gone for a DELETE that started meanwhile and waited for them.       *)
Replacing(r) ==
  LET u == req[r].target  l == req[r].list  old == {u} \X req[r].seen IN
  /\ Holding(r, "update", "writing")
  /\ u \in users
  /\ Elements(l) \subseteq tenants
  /\ (assigned \ old) \cap Rows(u, l) = {}
  /\ SetFields(u, req[r].role, req[r].flag)
  /\ assigned' = (assigned \ old) \cup Rows(u, l)
  /\ req' = [q \in Request |->
       IF q = r THEN Over
       ELSE IF Holding(q, "update", "writing") /\ req[q].target = u
            THEN [req[q] EXCEPT !.seen = @ \ req[r].seen] ELSE req[q]]

(* Mutant: the primary tenant is only written when it was empty.           *)
ReplaceCommitKeeping(r) ==
  /\ Replacing(r)
  /\ primary' = [primary EXCEPT ![req[r].target] =
                   IF @ = None THEN First(req[r].list) ELSE @]
  /\ UNCHANGED <<started, tenants, users, tokenVars, sigVars>>

ReplaceCommit(r) ==
  /\ Replacing(r)
  /\ primary' = [primary EXCEPT ![req[r].target] = First(req[r].list)]
  /\ UNCHANGED <<started, tenants, users, tokenVars, sigVars>>

DeleteRead(r) ==
  /\ Begins(r)
  /\ \E a, u \in User :
       /\ SuperAdmin(a)
       /\ u \in users \ {a}
       /\ Hold(r, [New EXCEPT !.pc = "read", !.op = "delete", !.actor = a,
                              !.rank = role[a], !.target = u])
  /\ UNCHANGED <<started, tenants, userVars, tokenVars, sigVars>>

(* ON DELETE CASCADE: assignments, tokens and signatures go with a user.   *)
Cascade(gone) ==
  /\ users' = users \ gone
  /\ active' = active \ gone
  /\ live' = {k \in live : owner[k] \notin gone}
  /\ revoked' = {k \in revoked : owner[k] \notin gone}
  /\ parent' = [k \in Token |-> IF owner[k] \in gone THEN None ELSE parent[k]]
  /\ sigs' = {s \in sigs : s[1] \notin gone}
  /\ default' = {s \in default : \A u \in gone : <<u, s>> \notin sigs}

DeleteCommit(r) ==
  /\ Holding(r, "delete", "read")
  /\ req[r].target \in users
  /\ Cascade({req[r].target})
  /\ assigned' = {a \in assigned : a[1] # req[r].target}
  /\ Hold(r, Over)
  /\ UNCHANGED <<started, tenants, role, primary, owner>>

(* The tenant service deletes a tenant: users.tenant_id and user_tenants   *)
(* both cascade, so users with that primary tenant are deleted as well.    *)
DeleteTenant(t) ==
  /\ t \in tenants
  /\ tenants' = tenants \ {t}
  /\ Cascade({u \in users : primary[u] = t})
  /\ assigned' = {a \in assigned : a[2] # t /\ primary[a[1]] # t}
  /\ UNCHANGED <<started, role, primary, owner, req>>

(* ---- signatures ------------------------------------------------------- *)
(* The UPDATE that takes the flag from the others sees what is committed.  *)
CreateSignature(r) ==
  /\ Begins(r)
  /\ \E u \in User, f \in {"yes", "keep"} :
       /\ Signer(u)
       /\ Hold(r, [New EXCEPT !.pc = "read", !.op = "create_sig", !.target = u,
                     !.flag = f, !.seen = IF f = "yes" THEN Signatures(u) ELSE {}])
  /\ UNCHANGED <<started, tenants, userVars, tokenVars, sigVars>>

CreateSignatureCommit(r) ==
  /\ Holding(r, "create_sig", "read")
  /\ req[r].target \in users
  /\ \E s \in Signature :
       /\ \A u \in User : <<u, s>> \notin sigs
       /\ sigs' = sigs \cup {<<req[r].target, s>>}
       /\ default' = (default \ req[r].seen)
                       \cup (IF req[r].flag = "yes" THEN {s} ELSE {})
  /\ Hold(r, Over)
  /\ UNCHANGED <<started, tenants, userVars, tokenVars>>

UpdateSignature(r) ==
  /\ Begins(r)
  /\ \E u \in User, s \in Signature, f \in {"yes", "no"} :
       /\ Signer(u)
       /\ <<u, s>> \in sigs
       /\ Hold(r, [New EXCEPT !.pc = "read", !.op = "update_sig", !.target = u,
                     !.sig = s, !.flag = f,
                     !.seen = IF f = "yes" THEN Signatures(u) ELSE {}])
  /\ UNCHANGED <<started, tenants, userVars, tokenVars, sigVars>>

UpdateSignatureCommit(r) ==
  /\ Holding(r, "update_sig", "read")
  /\ <<req[r].target, req[r].sig>> \in sigs
  /\ default' = (default \ (req[r].seen \cup {req[r].sig}))
                  \cup (IF req[r].flag = "yes" THEN {req[r].sig} ELSE {})
  /\ Hold(r, Over)
  /\ UNCHANGED <<started, tenants, userVars, tokenVars, sigs>>

DeleteSignature(r) ==
  /\ Begins(r)
  /\ \E a \in sigs :
       /\ Signer(a[1])
       /\ Hold(r, [New EXCEPT !.pc = "read", !.op = "delete_sig",
                              !.target = a[1], !.sig = a[2]])
  /\ UNCHANGED <<started, tenants, userVars, tokenVars, sigVars>>

DeleteSignatureCommit(r) ==
  /\ Holding(r, "delete_sig", "read")
  /\ sigs' = sigs \ {<<req[r].target, req[r].sig>>}
  /\ default' = default \ {req[r].sig}
  /\ Hold(r, Over)
  /\ UNCHANGED <<started, tenants, userVars, tokenVars>>

SessionStep(r) == LoginRead(r) \/ LoginCommit(r) \/ RefreshRead(r)
                  \/ RefreshRotate(r) \/ RefreshCommit(r)
UserStep(r) == RegisterRead(r) \/ RegisterCommit(r) \/ UpdateRead(r)
               \/ ToggleRead(r) \/ UpdateDelete(r) \/ UpdateCommit(r)
               \/ ReplaceCommit(r) \/ DeleteRead(r) \/ DeleteCommit(r)
SignatureStep(r) == CreateSignature(r) \/ CreateSignatureCommit(r)
                    \/ UpdateSignature(r) \/ UpdateSignatureCommit(r)
                    \/ DeleteSignature(r) \/ DeleteSignatureCommit(r)

Next ==
  \/ StartUp \/ Restart
  \/ \E t \in Tenant : DeleteTenant(t)
  \/ \E r \in Request : SessionStep(r) \/ UserStep(r) \/ SignatureStep(r) \/ Abort(r)

Spec == Init /\ [][Next]_vars

(* ---- properties ------------------------------------------------------- *)
(* Rows refer to rows that exist and a request holds what its columns can. *)
TypeOK ==
  /\ started \in BOOLEAN
  /\ tenants \subseteq Tenant
  /\ users \subseteq User /\ active \subseteq users
  /\ role \in [User -> Role]
  /\ primary \in [User -> Tenant \cup {None}]
  /\ assigned \subseteq users \X tenants
  /\ live \subseteq Token /\ revoked \subseteq Token /\ live \cap revoked = {}
  /\ owner \in [Token -> User]
  /\ \A k \in live \cup revoked : owner[k] \in users
  /\ parent \in [Token -> Token \cup {None}]
  /\ sigs \subseteq users \X Signature
  /\ default \subseteq Signature
  /\ req \in [Request -> Held]

(* A running service finds the primary tenant of an account among its      *)
(* assignments, however updates, registrations and deletions interleave:   *)
(* the listing filters by either of them, the permission check by one.     *)
PrimaryAssigned ==
  started => \A u \in users : primary[u] # None => <<u, primary[u]>> \in assigned

(* Rotation is all or nothing: a token is revoked exactly when a successor *)
(* was handed out, so a refused refresh costs nobody the session, and no   *)
(* token is usable next to one it was exchanged for.  A token refreshed    *)
(* twice at once has two successors: the lookup takes no lock.             *)
RotationIsAtomic ==
  \A k \in live \cup revoked :
    k \in revoked <=> \E h \in live \cup revoked : parent[h] = k

(* "Cannot deactivate your own account" does not always leave a            *)
(* super_admin.  The last active one is lost with his primary tenant, by   *)
(* one who changed his own role, by one found to be super_admin who is no  *)
(* more when his request commits, or by the update of a customer_admin:    *)
(* the routes ask for a tenant in common and not for the target's role.    *)
(* No other request of a super_admin in office, and neither a registration *)
(* nor a deletion by anybody else, leaves none.                            *)
Admins == {a \in users : a \in active /\ role[a] = "super_admin"}
LastAdminLeaves ==
  [][ Admins # {} /\ Admins' = {} =>
        \/ tenants' # tenants
        \/ \E r \in Request :
             /\ req[r].pc # "done" /\ req'[r].pc = "done"
             /\ \/ req[r].rank = "super_admin" /\ req[r].actor \notin Admins
                \/ req[r].rank = "customer_admin" /\ req[r].op = "update"
                \/ req[r].actor = req[r].target /\ req[r].role # None ]_vars

=============================================================================
