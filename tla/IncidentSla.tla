----------------------------- MODULE IncidentSla -----------------------------
(***************************************************************************)
(* SLA clocks of the incident service: the columns of public.incidents     *)
(* that record a first response and a breach, the request handlers that    *)
(* write them (incidents/routes.py, incidents/mailing.py), and the breach  *)
(* checker each of the service's worker processes runs in the background   *)
(* (incidents/sla.py).                                                     *)
(*                                                                         *)
(* A clock is a pair <<incident, sla>>.  The Boolean columns of a row are  *)
(* the sets of clocks for which they are TRUE.  What a checker writes is   *)
(* invisible to the others until it commits, so it is kept in txn[c]; the  *)
(* rows it selected FOR UPDATE are txn[c].held.  Mail cannot be rolled     *)
(* back: mails changes at once.                                            *)
(***************************************************************************)
EXTENDS Integers, FiniteSets

CONSTANTS
  Incident,     \* incidents of all tenants, by id
  Handler,      \* requests being served concurrently
  Checker,      \* one background checker per worker process
  Severity,
  TargetMin,    \* TargetMin[sla][severity]: minutes allowed, 0 turns it off
  Covered,      \* incidents whose tenant has a row in sla_configs
  Requestable,  \* statuses the requests of this instance ask for
  None,         \* SQL NULL
  Time,         \* the minutes at which anything happens
  MaxAborts     \* bound on rolled-back checker cycles

Sla == {"first_response", "resolution"}
Clock == Incident \X Sla
Mail == {"warning", "breach"}
Closed == {"resolved", "false_positive"}
Status == Closed \cup {"new", "triaging", "ai triaging", "in_progress",
                       "escalated", "sent to customer",
                       "customer response received"}

ASSUME TargetAssumption == TargetMin \in [Sla -> [Severity -> Nat]]
ASSUME CoveredAssumption == Covered \subseteq Incident
ASSUME RequestableAssumption == Requestable \subseteq Status
ASSUME NoneAssumption == /\ None \notin Nat
                         /\ None \notin Incident \cup Status \cup Severity
ASSUME BoundAssumption == Time \subseteq Nat /\ 0 \in Time /\ MaxAborts \in Nat

VARIABLES
  now,            \* minutes, by the database's and the service's clock
  status,         \* status[i], None before the incident exists
  severity,
  created,        \* created[i]: created_at
  firstResponse,  \* firstResponse[i]: first_response_at
  breached,       \* clocks with sla_*_breached = TRUE
  notified,       \* clocks with sla_*_notified = TRUE
  warned,         \* clocks with sla_*_warning_sent = TRUE
  breachEvents,   \* breachEvents[p]: sla_breach rows committed for clock p
  mails,          \* mails[p][kind]: messages handed to the SMTP server
  txn,            \* txn[c]: the open transaction of checker c
  request,        \* request[h]: what handler h holds between two statements
  aborts          \* rolled-back checker cycles so far

rowVars == <<status, severity, created, firstResponse>>
slaVars == <<breached, notified, warned, breachEvents>>
vars == <<now, rowVars, slaVars, mails, txn, request, aborts>>

Exists(i) == status[i] # None
(* Mutant: the checker's SELECT without FOR UPDATE.                         *)
LockedNever(i) == FALSE
Locked(i) == \E c \in Checker : i \in txn[c].held

(* The target a clock runs against, and how much of it is used up at t.    *)
Target(p) == TargetMin[p[2]][severity[p[1]]]
Elapsed(p, t) == t - created[p[1]]
Overdue(p, t) == Target(p) > 0 /\ Elapsed(p, t) >= Target(p)
Approaching(p, t) ==
  /\ Target(p) > 0
  /\ 4 * Elapsed(p, t) >= 3 * Target(p)
  /\ Elapsed(p, t) < Target(p)

NoTxn == [held |-> {}, at |-> 0, todo |-> {}, cur |-> None,
          breached |-> {}, notified |-> {}, warned |-> {}]
NoRequest == [pc |-> "idle", inc |-> None, new |-> None, first |-> FALSE, at |-> 0]

Init ==
  /\ now = 0
  /\ status = [i \in Incident |-> None]
  /\ severity \in [Incident -> Severity]
  /\ created = [i \in Incident |-> 0]
  /\ firstResponse = [i \in Incident |-> None]
  /\ breached = {}
  /\ notified = {}
  /\ warned = {}
  /\ breachEvents = [p \in Clock |-> 0]
  /\ mails = [p \in Clock |-> [k \in Mail |-> 0]]
  /\ txn = [c \in Checker |-> NoTxn]
  /\ request = [h \in Handler |-> NoRequest]
  /\ aborts = 0

Tick ==
  /\ now' \in {t \in Time : t > now}
  /\ UNCHANGED <<rowVars, slaVars, mails, txn, request, aborts>>

-----------------------------------------------------------------------------
(* Request handlers.                                                       *)

(* INSERT of a manual incident; one created in another status than new is  *)
(* answered at once.                                                       *)
Create(i, s, v) ==
  /\ ~Exists(i)
  /\ status' = [status EXCEPT ![i] = s]
  /\ severity' = [severity EXCEPT ![i] = v]
  /\ created' = [created EXCEPT ![i] = now]
  /\ firstResponse' =
       [firstResponse EXCEPT ![i] = IF s = "new" THEN None ELSE now]
  /\ UNCHANGED <<now, slaVars, mails, txn, request, aborts>>

(* SET status = s, first_response_at = CASE WHEN ... : evaluated on the    *)
(* row as the UPDATE finds it.  NOW() is t, the start of the transaction.  *)
SetStatus(i, s, t) ==
  /\ status' = [status EXCEPT ![i] = s]
  /\ firstResponse' =
       IF status[i] = "new" /\ s # "new" /\ firstResponse[i] = None
       THEN [firstResponse EXCEPT ![i] = t] ELSE firstResponse

(* check_first_response: the breach is looked for only by the caller whose *)
(* UPDATE found first_response_at NULL.  Note > here and >= in Overdue.    *)
CheckFirstResponse(i, t) ==
  LET p == <<i, "first_response">>
      late == i \in Covered /\ Elapsed(p, t) > Target(p)
  IN IF firstResponse[i] # None
     THEN UNCHANGED <<firstResponse, breached, breachEvents>>
     ELSE /\ ~Locked(i)
          /\ firstResponse' = [firstResponse EXCEPT ![i] = t]
          /\ breached' = IF late THEN breached \cup {p} ELSE breached
          /\ breachEvents' = IF late THEN [breachEvents EXCEPT ![p] = @ + 1]
                             ELSE breachEvents

(* PATCH /{id}/status, first transaction: the old status is read ...       *)
StatusRead(h, i, s) ==
  /\ request[h].pc = "idle"
  /\ Exists(i)
  /\ request' = [request EXCEPT ![h] =
       [pc |-> "read", inc |-> i, new |-> s,
        first |-> status[i] = "new" /\ s # "new", at |-> now]]
  /\ UNCHANGED <<now, rowVars, slaVars, mails, txn, aborts>>

(* ... and the row is updated, waiting for a checker that holds it.        *)
StatusWrite(h) ==
  /\ request[h].pc = "read"
  /\ ~Locked(request[h].inc)
  /\ SetStatus(request[h].inc, request[h].new, request[h].at)
  /\ request' = [request EXCEPT ![h].pc = "written", ![h].at = 0]
  /\ UNCHANGED <<now, severity, created, slaVars, mails, txn, aborts>>

(* Second transaction: events, and the first-response check if the status  *)
(* read by the first one was new.                                          *)
StatusRecord(h) ==
  /\ request[h].pc = "written"
  /\ IF request[h].first THEN CheckFirstResponse(request[h].inc, now)
     ELSE UNCHANGED <<firstResponse, breached, breachEvents>>
  /\ request' = [request EXCEPT ![h] = NoRequest]
  /\ UNCHANGED <<now, status, severity, created, notified, warned, mails,
                 txn, aborts>>

(* A handler dies between its transactions, or the second one fails: the   *)
(* exception is logged and the request ends.                               *)
RequestDies(h) ==
  /\ request[h].pc # "idle"
  /\ request' = [request EXCEPT ![h] = NoRequest]
  /\ UNCHANGED <<now, rowVars, slaVars, mails, txn, aborts>>

(* PATCH /{id}: status, severity or both in one UPDATE, no event.          *)
Patch(i, s, v) ==
  /\ Exists(i)
  /\ ~Locked(i)
  /\ IF s # None THEN SetStatus(i, s, now) ELSE UNCHANGED <<status, firstResponse>>
  /\ severity' = IF v # None THEN [severity EXCEPT ![i] = v] ELSE severity
  /\ UNCHANGED <<now, created, slaVars, mails, txn, request, aborts>>

(* POST /{id}/analyze: after the AI service accepted the job the row is    *)
(* moved whatever its status is by then.                                   *)
Analyze(i) ==
  /\ Exists(i)
  /\ ~Locked(i)
  /\ status' = [status EXCEPT ![i] = "ai triaging"]
  /\ UNCHANGED <<now, severity, created, firstResponse, slaVars, mails, txn,
                 request, aborts>>

(* send_incident_email: the row is moved and committed, then a second      *)
(* session checks the first response.                                      *)
SendToCustomer(h, i) ==
  /\ request[h].pc = "idle"
  /\ Exists(i)
  /\ ~Locked(i)
  /\ status' = [status EXCEPT ![i] = "sent to customer"]
  /\ request' = [request EXCEPT ![h] =
       [pc |-> "written", inc |-> i, new |-> "sent to customer",
        first |-> TRUE, at |-> 0]]
  /\ UNCHANGED <<now, severity, created, firstResponse, slaVars, mails, txn,
                 aborts>>

(* send_analyst_reply: in a transaction that began before the mail was     *)
(* sent, at some t, the old status is read ...                             *)
ReplyRead(h, i) ==
  /\ request[h].pc = "idle"
  /\ Exists(i)
  /\ \E t \in {u \in Time : created[i] <= u /\ u <= now} :
       request' = [request EXCEPT ![h] =
         [pc |-> "replied", inc |-> i, new |-> "sent to customer",
          first |-> status[i] = "new", at |-> t]]
  /\ UNCHANGED <<now, rowVars, slaVars, mails, txn, aborts>>

(* ... then the row is moved and the first response checked.               *)
ReplyWrite(h) ==
  /\ request[h].pc = "replied"
  /\ ~Locked(request[h].inc)
  /\ status' = [status EXCEPT ![request[h].inc] = "sent to customer"]
  /\ IF request[h].first THEN CheckFirstResponse(request[h].inc, request[h].at)
     ELSE UNCHANGED <<firstResponse, breached, breachEvents>>
  /\ request' = [request EXCEPT ![h] = NoRequest]
  /\ UNCHANGED <<now, severity, created, notified, warned, mails, txn, aborts>>

(* push_to_freshservice, _servicenow and _freshdesk, after the ticket was  *)
(* created there: first_response_at = COALESCE(first_response_at, NOW()).  *)
ItsmPush(i) ==
  /\ Exists(i)
  /\ ~Locked(i)
  /\ status' = [status EXCEPT ![i] = "sent to customer"]
  /\ firstResponse' = IF firstResponse[i] = None
                      THEN [firstResponse EXCEPT ![i] = now] ELSE firstResponse
  /\ UNCHANGED <<now, severity, created, slaVars, mails, txn, request, aborts>>

-----------------------------------------------------------------------------
(* The breach checker: one transaction per cycle.                          *)

(* Mutants: no SKIP LOCKED, and a list of statuses that forgets one.        *)
SelectableLockedToo == {i \in Incident : Exists(i) /\ status[i] \notin Closed}
SelectableUnsent ==
  {i \in Incident : /\ Exists(i) /\ ~Locked(i)
                    /\ status[i] \notin Closed \cup {"sent to customer"}}

(* Rows the SELECT returns: FOR UPDATE SKIP LOCKED.                        *)
Selectable == {i \in Incident : Exists(i) /\ status[i] \notin Closed /\ ~Locked(i)}

Scan(c) ==
  /\ txn[c].held = {}
  /\ Selectable # {}
  /\ txn' = [txn EXCEPT ![c] = [NoTxn EXCEPT !.held = Selectable, !.at = now,
                                             !.todo = Selectable \cap Covered]]
  /\ UNCHANGED <<now, rowVars, slaVars, mails, request, aborts>>

(* A message that was refused by the SMTP server is logged and forgotten.  *)
MaybeMail(p, kind) ==
  \E n \in {0, 1} : mails' = [mails EXCEPT ![p][kind] = @ + n]

(* The branches for one clock; t is the transaction with the loop advanced.*)
FlagBreach(c, p, t) ==
  /\ p \notin breached /\ Overdue(p, t.at)
  /\ txn' = [txn EXCEPT ![c] = [t EXCEPT !.breached = @ \cup {p},
                                         !.notified = @ \cup {p}]]
  /\ IF p \in notified THEN UNCHANGED mails ELSE MaybeMail(p, "breach")

(* Mutant: the resolution warning without the "not breached" test.         *)
WarnBreachedToo(c, p, t) ==
  /\ p \notin warned /\ Approaching(p, t.at)
  /\ txn' = [txn EXCEPT ![c] = [t EXCEPT !.warned = @ \cup {p}]]
  /\ MaybeMail(p, "warning")

Warn(c, p, t) ==
  /\ p \notin warned /\ Approaching(p, t.at)
  /\ p[2] = "resolution" => p \notin breached
  /\ txn' = [txn EXCEPT ![c] = [t EXCEPT !.warned = @ \cup {p}]]
  /\ MaybeMail(p, "warning")

NothingDue(c, p, t) ==
  /\ ~(p \notin breached /\ Overdue(p, t.at))
  /\ ~( /\ p \notin warned /\ Approaching(p, t.at)
        /\ p[2] = "resolution" => p \notin breached )
  /\ txn' = [txn EXCEPT ![c] = t]
  /\ UNCHANGED mails

CheckClock(c, p, t) ==
  \/ FlagBreach(c, p, t)
  \/ Warn(c, p, t)
  \/ NothingDue(c, p, t)

(* The body of the loop for one incident: first response, then resolution. *)
CheckFirst(c, i) ==
  LET t == [txn[c] EXCEPT !.todo = @ \ {i}, !.cur = i]
  IN /\ txn[c].cur = None /\ i \in txn[c].todo
     /\ IF firstResponse[i] = None THEN CheckClock(c, <<i, "first_response">>, t)
        ELSE txn' = [txn EXCEPT ![c] = t] /\ UNCHANGED mails
     /\ UNCHANGED <<now, rowVars, slaVars, request, aborts>>

CheckResolution(c) ==
  /\ txn[c].cur # None
  /\ CheckClock(c, <<txn[c].cur, "resolution">>, [txn[c] EXCEPT !.cur = None])
  /\ UNCHANGED <<now, rowVars, slaVars, request, aborts>>

(* Mutant: sla_*_warning_sent is never set.                                *)
CommitWithoutWarned(c) ==
  /\ txn[c].held # {} /\ txn[c].todo = {} /\ txn[c].cur = None
  /\ breached' = breached \cup txn[c].breached
  /\ notified' = notified \cup txn[c].notified
  /\ breachEvents' = [p \in Clock |-> IF p \in txn[c].breached
                                      THEN breachEvents[p] + 1
                                      ELSE breachEvents[p]]
  /\ txn' = [txn EXCEPT ![c] = NoTxn]
  /\ UNCHANGED <<now, rowVars, warned, mails, request, aborts>>

Commit(c) ==
  /\ txn[c].held # {} /\ txn[c].todo = {} /\ txn[c].cur = None
  /\ breached' = breached \cup txn[c].breached
  /\ notified' = notified \cup txn[c].notified
  /\ warned' = warned \cup txn[c].warned
  /\ breachEvents' = [p \in Clock |-> IF p \in txn[c].breached
                                      THEN breachEvents[p] + 1
                                      ELSE breachEvents[p]]
  /\ txn' = [txn EXCEPT ![c] = NoTxn]
  /\ UNCHANGED <<now, rowVars, mails, request, aborts>>

(* A database error or the death of the process: PostgreSQL rolls the      *)
(* transaction back and frees its rows.                                    *)
Abort(c) ==
  /\ txn[c].held # {}
  /\ aborts < MaxAborts
  /\ aborts' = aborts + 1
  /\ txn' = [txn EXCEPT ![c] = NoTxn]
  /\ UNCHANGED <<now, rowVars, slaVars, mails, request>>

-----------------------------------------------------------------------------
CheckerStep(c) ==
  \/ Scan(c)
  \/ \E i \in Incident : CheckFirst(c, i)
  \/ CheckResolution(c)
  \/ Commit(c)

HandlerStep(h) ==
  \/ \E i \in Incident, s \in Requestable : StatusRead(h, i, s)
  \/ StatusWrite(h)
  \/ StatusRecord(h)
  \/ RequestDies(h)
  \/ \E i \in Incident : SendToCustomer(h, i) \/ ReplyRead(h, i)
  \/ ReplyWrite(h)

RowStep(i) ==
  \/ \E s \in Requestable, v \in Severity : Create(i, s, v)
  \/ \E s \in Requestable \cup {None}, v \in Severity \cup {None} : Patch(i, s, v)
  \/ Analyze(i)
  \/ ItsmPush(i)

Next ==
  \/ Tick
  \/ \E h \in Handler : HandlerStep(h)
  \/ \E i \in Incident : RowStep(i)
  \/ \E c \in Checker : CheckerStep(c) \/ Abort(c)

Spec == Init /\ [][Next]_vars

(* The checker loops for ever, sleeping 60 seconds between cycles.         *)
FairSpec == Spec /\ \A c \in Checker : WF_vars(CheckerStep(c))

-----------------------------------------------------------------------------
TypeOK ==
  /\ now \in Time
  /\ status \in [Incident -> Status \cup {None}]
  /\ severity \in [Incident -> Severity]
  /\ created \in [Incident -> Time]
  /\ firstResponse \in [Incident -> Time \cup {None}]
  /\ breached \subseteq Clock
  /\ notified \subseteq Clock
  /\ warned \subseteq Clock
  /\ breachEvents \in [Clock -> Nat]
  /\ mails \in [Clock -> [Mail -> Nat]]
  /\ txn \in [Checker -> [held : SUBSET Incident, at : Time,
                          todo : SUBSET Incident, cur : Incident \cup {None},
                          breached : SUBSET Clock, notified : SUBSET Clock,
                          warned : SUBSET Clock]]
  /\ request \in [Handler -> {NoRequest} \cup
                     [pc : {"read", "written", "replied"}, inc : Incident,
                      new : Status, first : BOOLEAN, at : Time]]
  /\ aborts \in 0..MaxAborts

(* A breach flag and the sla_breach events behind it agree: no flag        *)
(* without an event, no event without the flag, one event for a resolution *)
(* breach whatever the two checkers do, and at most two for a first        *)
(* response (the checker's and check_first_response's).                    *)
BreachEventsAgree ==
  \A p \in Clock :
    /\ p \in breached <=> breachEvents[p] > 0
    /\ breachEvents[p] <= (IF p[2] = "resolution" THEN 1 ELSE 2)

(* An analyst gets the breach mail of a clock, and its warning, once: a    *)
(* second copy takes a cycle that was rolled back after the message left.  *)
RepeatedMailNeedsRollback ==
  \A p \in Clock, k \in Mail : mails[p][k] <= 1 + aborts

(* The verdicts of the checkers and of the requests, whatever the order of *)
(* their reads, waits and commits, are those of SlaLedger: each is reached *)
(* in one step, about the row as that step finds it, which is open, not    *)
(* flagged yet and past a target its severity of that moment has.          *)
Ledger == INSTANCE SlaLedger WITH New <- "new"
LedgerSpec == Ledger!Spec

(* A first-response flag appears only on an incident that is still         *)
(* unanswered and past the target of the severity it has at that moment; a *)
(* resolution flag only on an open one past its target: the checker never  *)
(* commits a verdict about a row that was answered, closed or re-rated     *)
(* since it looked.                                                        *)
FlagOnlyWhenOverdue ==
  [][\A p \in breached' \ breached :
       /\ Elapsed(p, now) >= Target(p)
       /\ p[2] = "first_response" => firstResponse[p[1]] = None
       /\ p[2] = "resolution" => status[p[1]] \notin Closed]_vars

(* A resolution warning is never mailed once the breach is on record, even *)
(* if a lower severity makes the clock look unexpired again.               *)
NoResolutionWarningAfterBreach ==
  [][\A i \in Incident :
       mails[<<i, "resolution">>]["warning"] # mails'[<<i, "resolution">>]["warning"]
       => <<i, "resolution">> \notin breached /\ status[i] \notin Closed]_vars

(* An open incident past its resolution target is flagged, unless it is    *)
(* closed or re-rated first.                                               *)
ResolutionDue(i) ==
  /\ Exists(i) /\ i \in Covered /\ status[i] \notin Closed
  /\ Overdue(<<i, "resolution">>, now)
OverdueIsFlagged ==
  \A i \in Incident :
    ResolutionDue(i) ~> (~ResolutionDue(i) \/ <<i, "resolution">> \in breached)
=============================================================================
