-------------------------- MODULE IncidentSla_proofs --------------------------
(***************************************************************************)
(* Proofs about IncidentSla, for any sets of incidents, requests, checkers *)
(* and severities, any targets and any bounds.  The inductive invariant    *)
(* IInv says what row locks buy: the rows of two open transactions are     *)
(* disjoint, and a row in one of them keeps the values the verdicts staged *)
(* there were based on.                                                    *)
(***************************************************************************)
EXTENDS IncidentSla, TLAPS

USE TargetAssumption, CoveredAssumption, RequestableAssumption,
    NoneAssumption, BoundAssumption

Txn == [held : SUBSET Incident, at : Time, todo : SUBSET Incident,
        cur : Incident \cup {None}, breached : SUBSET Clock,
        notified : SUBSET Clock, warned : SUBSET Clock]

Request == [pc : {"read", "written", "replied"}, inc : Incident,
            new : Status, first : BOOLEAN, at : Time]

(* Two transactions never hold the same row.                               *)
LocksExclusive ==
  \A c, d \in Checker : c # d => txn[c].held \cap txn[d].held = {}

Staged(c) == txn[c].breached \cup txn[c].notified \cup txn[c].warned

(* A transaction works only on rows it holds, one clock at a time.         *)
StagedInOrder ==
  \A c \in Checker :
    /\ txn[c].todo \subseteq txn[c].held
    /\ txn[c].cur # None => txn[c].cur \in txn[c].held \ txn[c].todo
    /\ \A p \in Staged(c) :
         /\ p[1] \in txn[c].held \ txn[c].todo
         /\ p[2] = "resolution" => p[1] # txn[c].cur

(* A held row is open, and its clock runs since before the cycle began.    *)
HeldIsOpen ==
  \A c \in Checker :
    /\ txn[c].at <= now
    /\ \A i \in txn[c].held : status[i] \notin Closed \cup {None}

(* A staged verdict is still true of the committed row.                    *)
StagedIsDue ==
  \A c \in Checker : \A p \in txn[c].breached :
    /\ p \notin breached
    /\ p[2] = "first_response" => firstResponse[p[1]] = None
    /\ Elapsed(p, txn[c].at) >= Target(p)

(* Flags and events agree; a second first_response event comes only with   *)
(* the first response itself.                                              *)
EventCount ==
  \A p \in Clock :
    /\ p \in breached <=> breachEvents[p] > 0
    /\ breachEvents[p] <= 2
    /\ p[2] = "resolution" => breachEvents[p] <= 1
    /\ firstResponse[p[1]] = None => breachEvents[p] <= 1

(* A message that is on no committed and no staged flag was sent by a      *)
(* cycle that was rolled back.                                             *)
MailCount ==
  \A p \in Clock :
    /\ mails[p]["breach"] <= aborts + 1
    /\ mails[p]["warning"] <= aborts + 1
    /\ (p \notin notified /\ \A c \in Checker : p \notin txn[c].notified)
         => mails[p]["breach"] <= aborts
    /\ (p \notin warned /\ \A c \in Checker : p \notin txn[c].warned)
         => mails[p]["warning"] <= aborts

(* Only incidents that exist are answered and asked about.                 *)
Existing ==
  /\ \A i \in Incident : status[i] = None => firstResponse[i] = None
  /\ \A h \in Handler : request[h].pc # "idle" => status[request[h].inc] # None

(* The transaction of a request began in the past.                         *)
RequestsBegan == \A h \in Handler : request[h].at \in 0..now

IInv == /\ TypeOK
        /\ Existing
        /\ RequestsBegan
        /\ LocksExclusive
        /\ StagedInOrder
        /\ HeldIsOpen
        /\ StagedIsDue
        /\ EventCount
        /\ MailCount

-----------------------------------------------------------------------------
(* Types.                                                                  *)

(* What check_first_response leaves behind is well typed.                  *)
LEMMA CheckFirstResponseType ==
  ASSUME TypeOK, NEW i \in Incident, NEW t \in Time, CheckFirstResponse(i, t)
  PROVE  /\ firstResponse' \in [Incident -> Time \cup {None}]
         /\ breached' \subseteq Clock
         /\ breachEvents' \in [Clock -> Nat]
<1> DEFINE p == <<i, "first_response">>
<1>1. p \in Clock
  BY DEF Clock, Sla
<1>2. CASE firstResponse[i] # None
  BY <1>2 DEF TypeOK, CheckFirstResponse
<1>3. CASE firstResponse[i] = None
  <2>1. firstResponse' = [firstResponse EXCEPT ![i] = t]
    BY <1>3 DEF CheckFirstResponse
  <2>2. breached' = breached \/ breached' = breached \cup {p}
    BY <1>3 DEF CheckFirstResponse
  <2>3. breachEvents' = breachEvents \/ breachEvents' = [breachEvents EXCEPT ![p] = @ + 1]
    BY <1>3 DEF CheckFirstResponse
  <2> HIDE DEF p
  <2>4. QED BY <1>1, <2>1, <2>2, <2>3 DEF TypeOK
<1>4. QED BY <1>2, <1>3

(* A message more or less keeps the counts natural numbers.                *)
LEMMA MaybeMailType ==
  ASSUME TypeOK, NEW p \in Clock, NEW kind \in Mail, MaybeMail(p, kind)
  PROVE  mails' \in [Clock -> [Mail -> Nat]]
<1>1. PICK n \in {0, 1} : mails' = [mails EXCEPT ![p][kind] = @ + n]
  BY DEF MaybeMail
<1>2. mails[p] \in [Mail -> Nat] /\ mails[p][kind] + n \in Nat
  BY DEF TypeOK
<1>3. [mails[p] EXCEPT ![kind] = @ + n] \in [Mail -> Nat]
  BY <1>2
<1>4. QED BY <1>1, <1>3 DEF TypeOK

(* A step on one clock leaves a well-typed transaction and mail count.     *)
LEMMA CheckClockType ==
  ASSUME TypeOK, NEW c \in Checker, NEW p \in Clock, NEW t \in Txn,
         CheckClock(c, p, t)
  PROVE  txn' \in [Checker -> Txn] /\ mails' \in [Clock -> [Mail -> Nat]]
<1>1. CASE FlagBreach(c, p, t)
  <2>1. [t EXCEPT !.breached = @ \cup {p}, !.notified = @ \cup {p}] \in Txn
    BY DEF Txn
  <2>2. txn' \in [Checker -> Txn]
    BY <1>1, <2>1 DEF FlagBreach, TypeOK, Txn
  <2>3. mails' \in [Clock -> [Mail -> Nat]]
    BY <1>1, MaybeMailType DEF FlagBreach, TypeOK, Mail
  <2>4. QED BY <2>2, <2>3
<1>2. CASE Warn(c, p, t)
  <2>1. [t EXCEPT !.warned = @ \cup {p}] \in Txn
    BY DEF Txn
  <2>2. txn' \in [Checker -> Txn]
    BY <1>2, <2>1 DEF Warn, TypeOK, Txn
  <2>3. mails' \in [Clock -> [Mail -> Nat]]
    BY <1>2, MaybeMailType DEF Warn, TypeOK, Mail
  <2>4. QED BY <2>2, <2>3
<1>3. CASE NothingDue(c, p, t)
  BY <1>3 DEF NothingDue, TypeOK, Txn
<1>4. QED BY <1>1, <1>2, <1>3 DEF CheckClock

LEMMA NoTxnType == NoTxn \in Txn
  BY DEF NoTxn, Txn

(* A handler that is not idle is about an incident.                        *)
LEMMA RequestIncident ==
  ASSUME TypeOK, NEW h \in Handler, request[h].pc # "idle"
  PROVE  request[h] \in Request /\ request[h].inc \in Incident
<1>1. request[h] # NoRequest
  BY DEF NoRequest
<1>2. request[h] \in Request
  BY <1>1 DEF TypeOK, Request
<1>3. QED BY <1>2 DEF Request

LEMMA ZeroIsTime == 0 \in Time
  BY BoundAssumption

(* Instants are numbers.                                                   *)
LEMMA TimeIsInt == \A t \in Time : t \in Int
  BY BoundAssumption

LEMMA TypeInit == Init => TypeOK
  <1> SUFFICES ASSUME Init PROVE TypeOK
    OBVIOUS
  <1>1. txn \in [Checker -> Txn]
    BY NoTxnType DEF Init
  <1>2. QED BY <1>1 DEF Init, TypeOK, Txn, NoRequest, Mail

LEMMA TypeNext == TypeOK /\ [Next]_vars => TypeOK'
<1> SUFFICES ASSUME TypeOK, [Next]_vars PROVE TypeOK'
  OBVIOUS
<1> USE DEF rowVars, slaVars
<1>1. CASE Tick
  BY <1>1 DEF Tick, TypeOK
<1>2. ASSUME NEW h \in Handler, HandlerStep(h) PROVE TypeOK'
  <2>1. ASSUME NEW i \in Incident, NEW s \in Requestable, StatusRead(h, i, s)
        PROVE TypeOK'
    BY <2>1 DEF StatusRead, TypeOK
  <2>2. CASE StatusWrite(h)
    <3>1. request[h] \in Request
      BY <2>2 DEF StatusWrite, TypeOK, NoRequest, Request
    <3>2. /\ status' \in [Incident -> Status \cup {None}]
          /\ firstResponse' \in [Incident -> Time \cup {None}]
      BY <2>2, <3>1 DEF StatusWrite, SetStatus, TypeOK, Request
    <3>3. request' \in [Handler -> {NoRequest} \cup Request]
      <4>1. [request[h] EXCEPT !.pc = "written", !.at = 0] \in Request
        BY <3>1, ZeroIsTime DEF Request
      <4>2. request' = [request EXCEPT ![h] = [request[h] EXCEPT !.pc = "written", !.at = 0]]
        BY <2>2, <3>1 DEF StatusWrite, TypeOK, Request
      <4>3. QED BY <4>1, <4>2 DEF TypeOK, Request
    <3>4. QED BY <2>2, <3>2, <3>3 DEF StatusWrite, TypeOK, Request
  <2>3. CASE StatusRecord(h)
    <3>1. request' \in [Handler -> {NoRequest} \cup Request]
      BY <2>3 DEF StatusRecord, TypeOK, Request
    <3>2. request[h].inc \in Incident /\ now \in Time
      BY <2>3 DEF StatusRecord, TypeOK, NoRequest
    <3>3. /\ firstResponse' \in [Incident -> Time \cup {None}]
          /\ breached' \subseteq Clock
          /\ breachEvents' \in [Clock -> Nat]
      BY <2>3, <3>2, CheckFirstResponseType DEF StatusRecord, TypeOK
    <3>4. QED BY <2>3, <3>1, <3>3 DEF StatusRecord, TypeOK, Request
  <2>4. CASE RequestDies(h)
    BY <2>4 DEF RequestDies, TypeOK
  <2>5. ASSUME NEW i \in Incident, SendToCustomer(h, i) PROVE TypeOK'
    <3>1. request' \in [Handler -> {NoRequest} \cup Request]
      <4> DEFINE r == [pc |-> "written", inc |-> i, new |-> "sent to customer",
                       first |-> TRUE, at |-> 0]
      <4>1. r \in Request
        BY ZeroIsTime DEF Request, Status
      <4>2. request' = [request EXCEPT ![h] = r]
        BY <2>5 DEF SendToCustomer
      <4> HIDE DEF r
      <4>3. QED BY <4>1, <4>2 DEF TypeOK, Request
    <3>2. status' \in [Incident -> Status \cup {None}]
      BY <2>5 DEF SendToCustomer, TypeOK, Status
    <3>3. QED BY <2>5, <3>1, <3>2 DEF SendToCustomer, TypeOK, Request
  <2>6. ASSUME NEW i \in Incident, ReplyRead(h, i) PROVE TypeOK'
    <3>1. PICK t \in {u \in Time : created[i] <= u /\ u <= now} :
            request' = [request EXCEPT ![h] =
              [pc |-> "replied", inc |-> i, new |-> "sent to customer",
               first |-> status[i] = "new", at |-> t]]
      BY <2>6 DEF ReplyRead
    <3>2. t \in Time
      OBVIOUS
    <3>3. request' \in [Handler -> {NoRequest} \cup Request]
      BY <3>1, <3>2 DEF TypeOK, Status, Request
    <3>4. QED BY <2>6, <3>3 DEF ReplyRead, TypeOK, Request
  <2>7. CASE ReplyWrite(h)
    <3>1. request' \in [Handler -> {NoRequest} \cup Request]
      BY <2>7 DEF ReplyWrite, TypeOK, Request
    <3>2. request[h].inc \in Incident /\ request[h].at \in Time
      BY <2>7, RequestIncident DEF ReplyWrite, Request
    <3>3. /\ firstResponse' \in [Incident -> Time \cup {None}]
          /\ breached' \subseteq Clock
          /\ breachEvents' \in [Clock -> Nat]
      BY <2>7, <3>2, CheckFirstResponseType DEF ReplyWrite, TypeOK
    <3>4. status' \in [Incident -> Status \cup {None}]
      BY <2>7 DEF ReplyWrite, TypeOK, Status
    <3>5. QED BY <2>7, <3>1, <3>3, <3>4 DEF ReplyWrite, TypeOK, Request
  <2>8. QED BY <1>2, <2>1, <2>2, <2>3, <2>4, <2>5, <2>6, <2>7 DEF HandlerStep
<1>3. ASSUME NEW i \in Incident, RowStep(i) PROVE TypeOK'
  <2>1. ASSUME NEW s \in Requestable, NEW v \in Severity, Create(i, s, v)
        PROVE TypeOK'
    BY <2>1 DEF Create, TypeOK
  <2>2. ASSUME NEW s \in Requestable \cup {None}, NEW v \in Severity \cup {None},
               Patch(i, s, v)
        PROVE TypeOK'
    <3>1. now \in Time /\ s \in Status \cup {None}
      BY <2>2 DEF TypeOK
    <3>2. /\ status' \in [Incident -> Status \cup {None}]
          /\ firstResponse' \in [Incident -> Time \cup {None}]
      <4>1. CASE s = None
        BY <2>2, <4>1 DEF Patch, TypeOK
      <4>2. CASE s # None
        <5>1. SetStatus(i, s, now) /\ s \in Status
          BY <2>2, <3>1, <4>2 DEF Patch
        <5>2. QED BY <3>1, <5>1 DEF SetStatus, TypeOK
      <4>3. QED BY <4>1, <4>2
    <3>3. severity' \in [Incident -> Severity]
      BY <2>2 DEF Patch, TypeOK
    <3>4. QED BY <2>2, <3>2, <3>3 DEF Patch, TypeOK
  <2>3. CASE Analyze(i)
    BY <2>3 DEF Analyze, TypeOK, Status
  <2>4. CASE ItsmPush(i)
    BY <2>4 DEF ItsmPush, TypeOK, Status
  <2>5. QED BY <1>3, <2>1, <2>2, <2>3, <2>4 DEF RowStep
<1>4. ASSUME NEW c \in Checker, CheckerStep(c) \/ Abort(c) PROVE TypeOK'
  <2> txn[c] \in Txn
    BY DEF TypeOK, Txn
  <2>1. CASE Scan(c)
    BY <2>1 DEF Scan, TypeOK, NoTxn, Selectable
  <2>2. ASSUME NEW i \in Incident, CheckFirst(c, i) PROVE TypeOK'
    <3> DEFINE t == [txn[c] EXCEPT !.todo = @ \ {i}, !.cur = i]
    <3>1. t \in Txn
      BY DEF Txn
    <3>2. <<i, "first_response">> \in Clock
      BY DEF Clock, Sla
    <3>3. txn' \in [Checker -> Txn] /\ mails' \in [Clock -> [Mail -> Nat]]
      <4>1. CASE firstResponse[i] = None
        BY <2>2, <3>1, <3>2, <4>1, CheckClockType DEF CheckFirst
      <4>2. CASE firstResponse[i] # None
        <5>1. txn' = [txn EXCEPT ![c] = t] /\ mails' = mails
          BY <2>2, <4>2 DEF CheckFirst
        <5>2. QED BY <3>1, <5>1 DEF TypeOK, Txn
      <4>3. QED BY <4>1, <4>2
    <3>4. QED BY <2>2, <3>3 DEF CheckFirst, TypeOK, Txn
  <2>3. CASE CheckResolution(c)
    <3>1. [txn[c] EXCEPT !.cur = None] \in Txn
      BY DEF Txn
    <3>2. <<txn[c].cur, "resolution">> \in Clock
      BY <2>3 DEF CheckResolution, Clock, Sla, Txn
    <3>3. txn' \in [Checker -> Txn] /\ mails' \in [Clock -> [Mail -> Nat]]
      BY <2>3, <3>1, <3>2, CheckClockType DEF CheckResolution
    <3>4. QED BY <2>3, <3>3 DEF CheckResolution, TypeOK, Txn
  <2>4. CASE Commit(c)
    BY <2>4, NoTxnType DEF Commit, TypeOK, Txn
  <2>5. CASE Abort(c)
    BY <2>5, NoTxnType DEF Abort, TypeOK, Txn
  <2>6. QED BY <1>4, <2>1, <2>2, <2>3, <2>4, <2>5 DEF CheckerStep
<1>5. CASE UNCHANGED vars
  BY <1>5 DEF vars, TypeOK
<1>6. QED BY <1>1, <1>2, <1>3, <1>4, <1>5 DEF Next

(* Every column, counter and transaction keeps its type.                   *)
THEOREM TypeCorrect == Spec => []TypeOK
  BY TypeInit, TypeNext, PTL DEF Spec
-----------------------------------------------------------------------------
(* The inductive invariant.                                                *)

(* A statement that touches only row i, which no checker holds, disturbs   *)
(* no staged verdict; it may answer the incident but not take it back.     *)
WritesRow(i) ==
  /\ ~Locked(i)
  /\ \A j \in Incident \ {i} :
       /\ status'[j] = status[j] /\ severity'[j] = severity[j]
       /\ created'[j] = created[j] /\ firstResponse'[j] = firstResponse[j]
  /\ firstResponse'[i] = None => firstResponse[i] = None
  /\ UNCHANGED <<now, slaVars, mails, txn, aborts>>

Kept == LocksExclusive /\ StagedInOrder /\ HeldIsOpen /\ StagedIsDue
        /\ EventCount /\ MailCount

LEMMA RowKept ==
  ASSUME IInv, NEW i \in Incident, WritesRow(i)
  PROVE  Kept'
<1> USE DEF WritesRow, slaVars, IInv
<1>1. LocksExclusive' /\ StagedInOrder' /\ MailCount'
  BY DEF LocksExclusive, StagedInOrder, Staged, MailCount
<1>2. HeldIsOpen'
  BY DEF HeldIsOpen, Locked, TypeOK
<1>3. StagedIsDue'
  <2> SUFFICES ASSUME NEW c \in Checker, NEW p \in txn[c].breached
               PROVE  /\ p \notin breached
                      /\ p[2] = "first_response" => firstResponse'[p[1]] = None
                      /\ (Elapsed(p, txn[c].at) >= Target(p))'
    BY DEF StagedIsDue
  <2>1. p[1] \in txn[c].held
    BY DEF StagedInOrder, Staged
  <2>2. p[1] \in Incident \ {i}
    BY <2>1 DEF Locked, TypeOK
  <2>3. QED BY <2>2 DEF StagedIsDue, Elapsed, Target
<1>4. EventCount'
  <2> SUFFICES ASSUME NEW p \in Clock, firstResponse'[p[1]] = None
               PROVE  firstResponse[p[1]] = None
    BY DEF EventCount
  <2>1. p[1] \in Incident
    BY DEF Clock
  <2>2. QED BY <2>1
<1>5. QED BY <1>1, <1>2, <1>3, <1>4 DEF Kept

(* The first-response check of a request: a row a checker holds is waited  *)
(* for, so none of its staged verdicts is about the row that is answered.  *)
LEMMA RecordKept ==
  ASSUME IInv, NEW i \in Incident, NEW t \in Time, CheckFirstResponse(i, t),
         \A j \in Incident : status'[j] = status[j] \/ (j = i /\ ~Locked(i)),
         UNCHANGED <<now, severity, created, notified, warned, mails, txn, aborts>>
  PROVE  Kept'
<1> DEFINE p == <<i, "first_response">>
<1> USE DEF IInv
<1>0. HeldIsOpen'
  <2>1. \A c \in Checker : \A j \in txn[c].held : status'[j] = status[j]
    BY DEF Locked, TypeOK
  <2>2. QED BY <2>1 DEF HeldIsOpen
<1>1. CASE firstResponse[i] # None
  BY <1>0, <1>1 DEF CheckFirstResponse, Kept, LocksExclusive, StagedInOrder, Staged,
              StagedIsDue, Elapsed, Target, EventCount, MailCount
<1>2. CASE firstResponse[i] = None
  <2>1. /\ ~Locked(i)
        /\ firstResponse' = [firstResponse EXCEPT ![i] = t]
        /\ \/ breached' = breached /\ breachEvents' = breachEvents
           \/ /\ breached' = breached \cup {p}
              /\ breachEvents' = [breachEvents EXCEPT ![p] = @ + 1]
    BY <1>2 DEF CheckFirstResponse
  <2>2. p \in Clock /\ p[1] = i /\ p[2] = "first_response"
    BY DEF Clock, Sla
  <2>3. t \in Nat /\ t # None
    BY BoundAssumption
  <2> HIDE DEF p
  <2>4. LocksExclusive' /\ StagedInOrder' /\ MailCount'
    BY DEF LocksExclusive, StagedInOrder, Staged, MailCount
  <2>5. StagedIsDue'
    <3> SUFFICES ASSUME NEW c \in Checker, NEW q \in txn[c].breached
                 PROVE  /\ q \notin breached'
                        /\ q[2] = "first_response" => firstResponse'[q[1]] = None
                        /\ (Elapsed(q, txn[c].at) >= Target(q))'
      BY DEF StagedIsDue
    <3>1. q[1] \in txn[c].held
      BY DEF StagedInOrder, Staged
    <3>2. q[1] \in Incident /\ q[1] # i
      BY <2>1, <3>1 DEF Locked, TypeOK
    <3>3. QED BY <2>1, <2>2, <3>2 DEF StagedIsDue, Elapsed, Target, TypeOK
  <2>6. EventCount'
    <3> SUFFICES ASSUME NEW q \in Clock
                 PROVE  /\ q \in breached' <=> breachEvents'[q] > 0
                        /\ breachEvents'[q] <= 2
                        /\ q[2] = "resolution" => breachEvents'[q] <= 1
                        /\ firstResponse'[q[1]] = None => breachEvents'[q] <= 1
      BY DEF EventCount
    <3>1. /\ breachEvents[q] \in Nat /\ breachEvents[p] \in Nat
          /\ breachEvents[p] <= 1
      BY <1>2, <2>2 DEF EventCount, TypeOK
    <3>2. CASE q = p
      BY <2>1, <2>2, <2>3, <3>1, <3>2 DEF EventCount, TypeOK
    <3>3. CASE q # p
      <4>1. breachEvents'[q] = breachEvents[q] /\ (q \in breached' <=> q \in breached)
        BY <2>1, <3>3 DEF TypeOK
      <4>2. firstResponse'[q[1]] = None => firstResponse[q[1]] = None
        BY <1>2, <2>1 DEF TypeOK
      <4>3. QED BY <4>1, <4>2 DEF EventCount
    <3>4. QED BY <3>2, <3>3
  <2>7. QED BY <1>0, <2>4, <2>5, <2>6 DEF Kept
<1>3. QED BY <1>1, <1>2

(* A cycle that begins takes rows nobody holds and stages nothing.         *)
LEMMA ScanKept ==
  ASSUME IInv, NEW c \in Checker, Scan(c)
  PROVE  Kept'
<1> USE DEF IInv, rowVars, slaVars
<1> DEFINE n == [NoTxn EXCEPT !.held = Selectable, !.at = now,
                              !.todo = Selectable \cap Covered]
<1>1. /\ n.held = Selectable /\ n.at = now /\ n.todo \subseteq Selectable
      /\ n.cur = None /\ n.breached = {} /\ n.notified = {} /\ n.warned = {}
  BY DEF NoTxn
<1>2. txn' = [txn EXCEPT ![c] = n] /\ txn[c].held = {}
  BY DEF Scan
<1> HIDE DEF n
<1>3. txn'[c] = n /\ \A d \in Checker \ {c} : txn'[d] = txn[d]
  BY <1>2 DEF TypeOK
<1>4. Staged(c) = {}
  BY <1>2 DEF StagedInOrder
<1>5. UNCHANGED <<now, rowVars, slaVars, mails, aborts>>
  BY DEF Scan
<1>6. LocksExclusive'
  <2>1. \A d \in Checker : Selectable \cap txn[d].held = {}
    BY DEF Selectable, Locked
  <2>2. QED BY <1>1, <1>3, <2>1 DEF LocksExclusive
<1>7. StagedInOrder'
  BY <1>1, <1>3 DEF StagedInOrder, Staged
<1>8. HeldIsOpen'
  BY <1>1, <1>3, <1>5 DEF HeldIsOpen, Selectable, Exists, TypeOK
<1>9. StagedIsDue'
  BY <1>1, <1>3, <1>5 DEF StagedIsDue, Elapsed, Target
<1>10. EventCount'
  BY <1>5 DEF EventCount
<1>11. MailCount'
  BY <1>1, <1>3, <1>4, <1>5 DEF MailCount, Staged
<1>12. QED BY <1>6, <1>7, <1>8, <1>9, <1>10, <1>11 DEF Kept

(* The verdict on one clock of a held row: t is the transaction with the   *)
(* loop advanced past p, which nothing was staged for yet.                 *)
LEMMA ClockKept ==
  ASSUME IInv, NEW c \in Checker, NEW p \in Clock, NEW t \in Txn,
         t.held = txn[c].held, t.at = txn[c].at, t.todo \subseteq t.held,
         t.breached = txn[c].breached, t.notified = txn[c].notified,
         t.warned = txn[c].warned,
         t.cur # None => t.cur \in t.held \ t.todo,
         p[1] \in t.held \ t.todo, p \notin Staged(c),
         \A q \in Staged(c) \cup {p} :
           /\ q[1] \in t.held \ t.todo
           /\ q[2] = "resolution" => q[1] # t.cur,
         p[2] = "first_response" => firstResponse[p[1]] = None,
         CheckClock(c, p, t),
         UNCHANGED <<now, rowVars, slaVars, request, aborts>>
  PROVE  Kept'
<1> USE DEF IInv, rowVars, slaVars
<1>1. PICK s \in Txn :
        /\ txn' = [txn EXCEPT ![c] = s]
        /\ s.held = t.held /\ s.at = t.at /\ s.todo = t.todo /\ s.cur = t.cur
        /\ \/ /\ s.breached = t.breached \cup {p}
              /\ s.notified = t.notified \cup {p} /\ s.warned = t.warned
              /\ p \notin breached /\ Overdue(p, t.at)
              /\ \/ p \in notified /\ mails' = mails
                 \/ p \notin notified /\ MaybeMail(p, "breach")
           \/ /\ s.breached = t.breached /\ s.notified = t.notified
              /\ s.warned = t.warned \cup {p}
              /\ p \notin warned /\ MaybeMail(p, "warning")
           \/ /\ s.breached = t.breached /\ s.notified = t.notified
              /\ s.warned = t.warned /\ mails' = mails
  <2>1. CASE FlagBreach(c, p, t)
    <3> DEFINE s == [t EXCEPT !.breached = @ \cup {p}, !.notified = @ \cup {p}]
    <3>1. s \in Txn
      BY DEF Txn
    <3>2. /\ s.held = t.held /\ s.at = t.at /\ s.todo = t.todo /\ s.cur = t.cur
          /\ s.breached = t.breached \cup {p}
          /\ s.notified = t.notified \cup {p} /\ s.warned = t.warned
      BY DEF Txn
    <3>3. txn' = [txn EXCEPT ![c] = s] /\ p \notin breached /\ Overdue(p, t.at)
      BY <2>1 DEF FlagBreach
    <3>4. \/ p \in notified /\ mails' = mails
          \/ p \notin notified /\ MaybeMail(p, "breach")
      BY <2>1 DEF FlagBreach
    <3> HIDE DEF s
    <3>5. QED BY <3>1, <3>2, <3>3, <3>4
  <2>2. CASE Warn(c, p, t)
    <3> DEFINE s == [t EXCEPT !.warned = @ \cup {p}]
    <3>1. s \in Txn
      BY DEF Txn
    <3>2. /\ s.held = t.held /\ s.at = t.at /\ s.todo = t.todo /\ s.cur = t.cur
          /\ s.breached = t.breached /\ s.notified = t.notified
          /\ s.warned = t.warned \cup {p}
      BY DEF Txn
    <3>3. /\ txn' = [txn EXCEPT ![c] = s]
          /\ p \notin warned /\ MaybeMail(p, "warning")
      BY <2>2 DEF Warn
    <3> HIDE DEF s
    <3>4. QED BY <3>1, <3>2, <3>3
  <2>3. CASE NothingDue(c, p, t)
    <3>1. txn' = [txn EXCEPT ![c] = t] /\ mails' = mails
      BY <2>3 DEF NothingDue
    <3>2. QED BY <3>1
  <2>4. QED BY <2>1, <2>2, <2>3 DEF CheckClock
<1>2. txn'[c] = s /\ \A d \in Checker \ {c} : txn'[d] = txn[d]
  BY <1>1 DEF TypeOK
<1>3. LocksExclusive'
  BY <1>1, <1>2 DEF LocksExclusive
<1>4. StagedInOrder'
  <2>1. ASSUME NEW d \in Checker
        PROVE  /\ txn'[d].todo \subseteq txn'[d].held
               /\ txn'[d].cur # None => txn'[d].cur \in txn'[d].held \ txn'[d].todo
               /\ \A q \in Staged(d)' : /\ q[1] \in txn'[d].held \ txn'[d].todo
                                        /\ q[2] = "resolution" => q[1] # txn'[d].cur
    <3>1. CASE d = c
      <4>1. Staged(c)' \subseteq Staged(c) \cup {p}
        BY <1>1, <1>2 DEF Staged
      <4>2. QED BY <1>1, <1>2, <3>1, <4>1
    <3>2. CASE d # c
      BY <1>2, <3>2 DEF StagedInOrder, Staged
    <3>3. QED BY <3>1, <3>2
  <2>2. QED BY <2>1 DEF StagedInOrder
<1>5. HeldIsOpen'
  BY <1>1, <1>2 DEF HeldIsOpen
<1>6. StagedIsDue'
  <2> SUFFICES ASSUME NEW d \in Checker, NEW q \in txn'[d].breached
               PROVE  /\ q \notin breached
                      /\ q[2] = "first_response" => firstResponse[q[1]] = None
                      /\ Elapsed(q, txn'[d].at) >= Target(q)
    BY DEF StagedIsDue, Elapsed, Target
  <2>1. CASE q \in txn[d].breached
    BY <1>1, <1>2, <2>1 DEF StagedIsDue
  <2>2. CASE q \notin txn[d].breached
    BY <1>1, <1>2, <2>2 DEF Overdue
  <2>3. QED BY <2>1, <2>2
<1>7. EventCount'
  BY DEF EventCount
<1>8. MailCount'
  <2>1. \A d \in Checker : p \notin Staged(d)
    <3> SUFFICES ASSUME NEW d \in Checker, d # c, p \in Staged(d) PROVE FALSE
      OBVIOUS
    <3>1. p[1] \in txn[d].held /\ p[1] \in txn[c].held
      BY DEF StagedInOrder
    <3>2. QED BY <3>1 DEF LocksExclusive
  <2>2. /\ mails[p] \in [Mail -> Nat] /\ mails \in [Clock -> [Mail -> Nat]]
        /\ aborts \in Nat /\ "breach" \in Mail /\ "warning" \in Mail
    BY DEF TypeOK, Mail
  <2> SUFFICES ASSUME NEW q \in Clock
               PROVE  /\ mails'[q]["breach"] <= aborts + 1
                      /\ mails'[q]["warning"] <= aborts + 1
                      /\ (q \notin notified /\ \A d \in Checker : q \notin txn'[d].notified)
                           => mails'[q]["breach"] <= aborts
                      /\ (q \notin warned /\ \A d \in Checker : q \notin txn'[d].warned)
                           => mails'[q]["warning"] <= aborts
    BY DEF MailCount
  <2>3. /\ (q \notin notified /\ \A d \in Checker : q \notin txn'[d].notified)
             => (q \notin notified /\ \A d \in Checker : q \notin txn[d].notified)
        /\ (q \notin warned /\ \A d \in Checker : q \notin txn'[d].warned)
             => (q \notin warned /\ \A d \in Checker : q \notin txn[d].warned)
    BY <1>1, <1>2
  <2>4. CASE mails'[q] = mails[q]
    BY <2>3, <2>4 DEF MailCount
  <2>5. CASE mails'[q] # mails[q]
    <3>1. PICK k \in Mail, n \in {0, 1} : mails' = [mails EXCEPT ![p][k] = @ + n]
      BY <1>1, <2>2, <2>5 DEF MaybeMail
    <3>2. q = p
      BY <2>2, <2>5, <3>1
    <3>3. CASE s.breached = t.breached \cup {p} /\ p \notin notified
               /\ s.notified = t.notified \cup {p} /\ MaybeMail(p, "breach")
      <4>1. PICK m \in {0, 1} : mails' = [mails EXCEPT ![p]["breach"] = @ + m]
        BY <3>3 DEF MaybeMail
      <4>2. /\ mails'[p]["breach"] = mails[p]["breach"] + m
            /\ mails'[p]["warning"] = mails[p]["warning"]
        BY <2>2, <4>1
      <4>3. mails[p]["breach"] <= aborts /\ p \in txn'[c].notified
        BY <1>2, <2>1, <3>3 DEF MailCount, Staged
      <4>4. QED BY <2>2, <2>3, <3>2, <4>2, <4>3 DEF MailCount
    <3>4. CASE p \notin warned /\ s.warned = t.warned \cup {p} /\ MaybeMail(p, "warning")
      <4>1. PICK m \in {0, 1} : mails' = [mails EXCEPT ![p]["warning"] = @ + m]
        BY <3>4 DEF MaybeMail
      <4>2. /\ mails'[p]["warning"] = mails[p]["warning"] + m
            /\ mails'[p]["breach"] = mails[p]["breach"]
        BY <2>2, <4>1
      <4>3. mails[p]["warning"] <= aborts /\ p \in txn'[c].warned
        BY <1>2, <2>1, <3>4 DEF MailCount, Staged
      <4>4. QED BY <2>2, <2>3, <3>2, <4>2, <4>3 DEF MailCount
    <3>5. QED BY <1>1, <2>5, <3>3, <3>4
  <2>6. QED BY <2>4, <2>5
<1>9. QED BY <1>3, <1>4, <1>5, <1>6, <1>7, <1>8 DEF Kept

(* A commit publishes verdicts that are still due, on rows of its own.     *)
LEMMA CommitKept ==
  ASSUME IInv, NEW c \in Checker, Commit(c)
  PROVE  Kept'
<1> USE DEF IInv, rowVars
<1>1. /\ txn'[c] = NoTxn /\ \A d \in Checker \ {c} : txn'[d] = txn[d]
      /\ breached' = breached \cup txn[c].breached
      /\ notified' = notified \cup txn[c].notified
      /\ warned' = warned \cup txn[c].warned
      /\ UNCHANGED <<now, rowVars, mails, aborts>>
  BY DEF Commit, TypeOK
<1>2. /\ NoTxn.held = {} /\ NoTxn.at = 0 /\ NoTxn.todo = {} /\ NoTxn.cur = None
      /\ NoTxn.breached = {} /\ NoTxn.notified = {} /\ NoTxn.warned = {}
  BY DEF NoTxn
<1>3. LocksExclusive'
  BY <1>1, <1>2 DEF LocksExclusive
<1>4. StagedInOrder'
  BY <1>1, <1>2 DEF StagedInOrder, Staged
<1>5. HeldIsOpen'
  BY <1>1, <1>2 DEF HeldIsOpen, TypeOK
<1>6. StagedIsDue'
  <2> SUFFICES ASSUME NEW d \in Checker, NEW q \in txn'[d].breached
               PROVE  /\ q \notin breached'
                      /\ q[2] = "first_response" => firstResponse[q[1]] = None
                      /\ Elapsed(q, txn'[d].at) >= Target(q)
    BY <1>1 DEF StagedIsDue, Elapsed, Target
  <2>1. d # c /\ txn'[d] = txn[d]
    BY <1>1, <1>2
  <2>2. q \notin txn[c].breached
    <3> SUFFICES ASSUME q \in txn[c].breached PROVE FALSE
      OBVIOUS
    <3>1. q[1] \in txn[c].held /\ q[1] \in txn[d].held
      BY <2>1 DEF StagedInOrder, Staged
    <3>2. QED BY <2>1, <3>1 DEF LocksExclusive
  <2>3. QED BY <1>1, <2>1, <2>2 DEF StagedIsDue
<1>7. EventCount'
  <2> SUFFICES ASSUME NEW q \in Clock
               PROVE  /\ q \in breached' <=> breachEvents'[q] > 0
                      /\ breachEvents'[q] <= 2
                      /\ q[2] = "resolution" => breachEvents'[q] <= 1
                      /\ firstResponse[q[1]] = None => breachEvents'[q] <= 1
    BY <1>1 DEF EventCount
  <2>1. breachEvents'[q] = IF q \in txn[c].breached THEN breachEvents[q] + 1
                           ELSE breachEvents[q]
    BY DEF Commit
  <2>2. breachEvents[q] \in Nat
    BY DEF TypeOK
  <2>3. CASE q \in txn[c].breached
    <3>1. q \notin breached
      BY <2>3 DEF StagedIsDue
    <3>2. breachEvents[q] = 0
      BY <2>2, <3>1 DEF EventCount
    <3>3. QED BY <1>1, <2>1, <2>3, <3>2
  <2>4. CASE q \notin txn[c].breached
    BY <1>1, <2>1, <2>4 DEF EventCount
  <2>5. QED BY <2>3, <2>4
<1>8. MailCount'
  BY <1>1, <1>2 DEF MailCount
<1>9. QED BY <1>3, <1>4, <1>5, <1>6, <1>7, <1>8 DEF Kept

(* A rolled-back cycle explains one more copy of every message.            *)
LEMMA AbortKept ==
  ASSUME IInv, NEW c \in Checker, Abort(c)
  PROVE  Kept'
<1> USE DEF IInv, rowVars, slaVars
<1>1. /\ txn'[c] = NoTxn /\ \A d \in Checker \ {c} : txn'[d] = txn[d]
      /\ UNCHANGED <<now, rowVars, slaVars, mails>> /\ aborts' = aborts + 1
  BY DEF Abort, TypeOK
<1>2. /\ NoTxn.held = {} /\ NoTxn.at = 0 /\ NoTxn.todo = {} /\ NoTxn.cur = None
      /\ NoTxn.breached = {} /\ NoTxn.notified = {} /\ NoTxn.warned = {}
  BY DEF NoTxn
<1>3. LocksExclusive'
  BY <1>1, <1>2 DEF LocksExclusive
<1>4. StagedInOrder'
  BY <1>1, <1>2 DEF StagedInOrder, Staged
<1>5. HeldIsOpen'
  BY <1>1, <1>2 DEF HeldIsOpen, TypeOK
<1>6. StagedIsDue'
  BY <1>1, <1>2 DEF StagedIsDue, Elapsed, Target
<1>7. EventCount'
  BY <1>1 DEF EventCount
<1>8. MailCount'
  <2>1. \A p \in Clock : mails[p]["breach"] \in Nat /\ mails[p]["warning"] \in Nat
    BY DEF TypeOK, Mail
  <2>2. aborts \in Nat
    BY DEF TypeOK
  <2>3. QED BY <1>1, <2>1, <2>2 DEF MailCount
<1>9. QED BY <1>3, <1>4, <1>5, <1>6, <1>7, <1>8 DEF Kept

LEMMA KeptInit == Init => Existing /\ Kept
<1> SUFFICES ASSUME Init PROVE Existing /\ Kept
  OBVIOUS
<1>1. \A c \in Checker : txn[c] = NoTxn
  BY DEF Init
<1>2. /\ NoTxn.held = {} /\ NoTxn.at = 0 /\ NoTxn.todo = {} /\ NoTxn.cur = None
      /\ NoTxn.breached = {} /\ NoTxn.notified = {} /\ NoTxn.warned = {}
  BY DEF NoTxn
<1>3. Existing
  BY DEF Init, Existing, NoRequest
<1>4. LocksExclusive /\ StagedInOrder /\ HeldIsOpen /\ StagedIsDue
  BY <1>1, <1>2 DEF Init, LocksExclusive, StagedInOrder, Staged, HeldIsOpen, StagedIsDue
<1>5. EventCount /\ MailCount
  BY DEF Init, EventCount, MailCount, Mail
<1>6. QED BY <1>3, <1>4, <1>5 DEF Kept

LEMMA BeganNext == TypeOK /\ RequestsBegan /\ [Next]_vars => RequestsBegan'
<1> SUFFICES ASSUME TypeOK, RequestsBegan, [Next]_vars PROVE RequestsBegan'
  OBVIOUS
<1> USE DEF rowVars, slaVars
<1>0. TypeOK' /\ now \in Nat
  BY TypeNext DEF TypeOK
<1>1. now' \in Nat /\ now' >= now
  <2>1. CASE Tick
    BY <1>0, <2>1 DEF Tick
  <2>2. CASE ~Tick
    <3>1. now' = now
      BY <2>2 DEF Next, HandlerStep, RowStep, CheckerStep, vars,
         StatusRead, StatusWrite, StatusRecord, RequestDies, SendToCustomer,
         ReplyRead, ReplyWrite, Create, Patch, Analyze, ItsmPush, Scan,
         CheckFirst, CheckResolution, Commit, Abort
    <3>2. QED BY <1>0, <3>1
  <2>3. QED BY <2>1, <2>2
<1> DEFINE Old(g) == request'[g] = request[g] \/ request'[g].at \in 0..now
<1>2. \A g \in Handler : Old(g)
  <2>1. ASSUME request' = request PROVE \A g \in Handler : Old(g)
    BY <2>1
  <2>2. ASSUME NEW h \in Handler, HandlerStep(h) PROVE \A g \in Handler : Old(g)
    <3>1. CASE StatusWrite(h)
      <4>1. request[h] \in Request
        BY <3>1, RequestIncident DEF StatusWrite
      <4>2. request' = [request EXCEPT ![h] = [request[h] EXCEPT !.pc = "written", !.at = 0]]
        BY <3>1, <4>1 DEF StatusWrite, TypeOK, Request
      <4>3. [request[h] EXCEPT !.pc = "written", !.at = 0].at = 0 /\ 0 \in 0..now
        BY <1>0, <4>1 DEF Request
      <4>4. request'[h].at = 0 /\ \A g \in Handler \ {h} : request'[g] = request[g]
        BY <4>2, <4>3 DEF TypeOK
      <4>5. QED BY <4>3, <4>4
    <3>2. CASE StatusRecord(h) \/ RequestDies(h) \/ ReplyWrite(h)
      <4>1. request' = [request EXCEPT ![h] = NoRequest]
        BY <3>2 DEF StatusRecord, RequestDies, ReplyWrite
      <4>2. NoRequest.at = 0 /\ 0 \in 0..now
        BY <1>0 DEF NoRequest
      <4>3. request'[h].at = 0 /\ \A g \in Handler \ {h} : request'[g] = request[g]
        BY <4>1, <4>2 DEF TypeOK
      <4>4. QED BY <4>2, <4>3
    <3>3. ASSUME NEW i \in Incident, NEW s \in Requestable, StatusRead(h, i, s)
          PROVE  \A g \in Handler : Old(g)
      <4>1. request'[h].at = now /\ \A g \in Handler \ {h} : request'[g] = request[g]
        BY <3>3 DEF StatusRead, TypeOK
      <4>2. QED BY <1>0, <4>1
    <3>4. ASSUME NEW i \in Incident, SendToCustomer(h, i)
          PROVE  \A g \in Handler : Old(g)
      <4>1. request'[h].at = 0 /\ \A g \in Handler \ {h} : request'[g] = request[g]
        BY <3>4 DEF SendToCustomer, TypeOK
      <4>2. QED BY <1>0, <4>1
    <3>5. ASSUME NEW i \in Incident, ReplyRead(h, i)
          PROVE  \A g \in Handler : Old(g)
      <4>1. PICK t \in {u \in Time : created[i] <= u /\ u <= now} :
              request' = [request EXCEPT ![h] =
                [pc |-> "replied", inc |-> i, new |-> "sent to customer",
                 first |-> status[i] = "new", at |-> t]]
        BY <3>5 DEF ReplyRead
      <4>2. request'[h].at = t /\ \A g \in Handler \ {h} : request'[g] = request[g]
        BY <4>1 DEF TypeOK
      <4>3. t \in Time /\ t <= now
        OBVIOUS
      <4>4. QED BY <4>2, <4>3
    <3> HIDE DEF Old
    <3>6. QED BY <2>2, <3>1, <3>2, <3>3, <3>4, <3>5 DEF HandlerStep
  <2> HIDE DEF Old
  <2>3. QED BY <2>1, <2>2 DEF Next, RowStep, CheckerStep, vars, Tick, Create,
                Patch, Analyze, ItsmPush, Scan, CheckFirst, CheckResolution,
                Commit, Abort
<1>3. QED BY <1>0, <1>1, <1>2 DEF RequestsBegan

LEMMA ExistingNext == IInv /\ [Next]_vars => Existing'
<1> SUFFICES ASSUME IInv, [Next]_vars PROVE Existing'
  OBVIOUS
<1> USE DEF IInv, rowVars, slaVars, Existing
<1>1. CASE Tick
  BY <1>1 DEF Tick
<1>2. ASSUME NEW h \in Handler, HandlerStep(h) PROVE Existing'
  <2>1. ASSUME NEW i \in Incident, NEW s \in Requestable, StatusRead(h, i, s)
        PROVE Existing'
    <3>1. \A g \in Handler : request'[g] = request[g] \/ request'[g].inc = i
      BY <2>1 DEF StatusRead, TypeOK
    <3>2. QED BY <2>1, <3>1 DEF StatusRead, Exists, TypeOK
  <2>2. CASE StatusWrite(h)
    <3>1. request[h] \in Request
      BY <2>2 DEF StatusWrite, TypeOK, NoRequest, Request
    <3>2. request[h].new # None /\ now # None
      BY <3>1 DEF Request, TypeOK
    <3>3. \A g \in Handler : request'[g].inc = request[g].inc
                             /\ (request'[g].pc # "idle" => request[g].pc # "idle")
      BY <2>2, <3>1 DEF StatusWrite, TypeOK, Request
    <3>4. QED BY <2>2, <3>1, <3>2, <3>3 DEF StatusWrite, SetStatus, TypeOK, Request
  <2>3. CASE StatusRecord(h)
    <3>1. request[h].inc \in Incident /\ status[request[h].inc] # None
      BY <2>3 DEF StatusRecord, TypeOK, NoRequest
    <3>2. \A i \in Incident \ {request[h].inc} : firstResponse'[i] = firstResponse[i]
      BY <2>3, <3>1 DEF StatusRecord, CheckFirstResponse, TypeOK
    <3>3. QED BY <2>3, <3>1, <3>2 DEF StatusRecord, NoRequest, TypeOK
  <2>4. CASE RequestDies(h)
    BY <2>4 DEF RequestDies, NoRequest, TypeOK
  <2>5. ASSUME NEW i \in Incident, SendToCustomer(h, i) PROVE Existing'
    <3>1. \A g \in Handler : request'[g] = request[g] \/ request'[g].inc = i
      BY <2>5 DEF SendToCustomer, TypeOK
    <3>2. /\ status[i] # None /\ firstResponse' = firstResponse
          /\ status' = [status EXCEPT ![i] = "sent to customer"]
      BY <2>5 DEF SendToCustomer, Exists
    <3>3. "sent to customer" # None
      BY DEF Status
    <3>4. \A g \in Handler : request[g].pc # "idle" => request[g].inc \in Incident
      BY DEF TypeOK, NoRequest
    <3>5. \A j \in Incident : status[j] # None => status'[j] # None
      BY <3>2, <3>3 DEF TypeOK
    <3>6. status'[i] # None
      BY <3>2, <3>5
    <3>7. \A j \in Incident : status'[j] = None => firstResponse'[j] = None
      BY <3>2, <3>5
    <3>8. ASSUME NEW g \in Handler, request'[g].pc # "idle"
          PROVE  status'[request'[g].inc] # None
      <4>1. CASE request'[g] = request[g]
        BY <3>4, <3>5, <3>8, <4>1
      <4>2. CASE request'[g].inc = i
        BY <3>6, <4>2
      <4>3. QED BY <3>1, <4>1, <4>2
    <3>9. QED BY <3>7, <3>8
  <2>6. ASSUME NEW i \in Incident, ReplyRead(h, i) PROVE Existing'
    <3>0. PICK t \in {u \in Time : created[i] <= u /\ u <= now} :
            request' = [request EXCEPT ![h] =
              [pc |-> "replied", inc |-> i, new |-> "sent to customer",
               first |-> status[i] = "new", at |-> t]]
      BY <2>6 DEF ReplyRead
    <3>1. \A g \in Handler : request'[g] = request[g] \/ request'[g].inc = i
      BY <3>0 DEF TypeOK
    <3>2. QED BY <2>6, <3>1 DEF ReplyRead, Exists, TypeOK
  <2>7. CASE ReplyWrite(h)
    <3>1. request[h].inc \in Incident /\ status[request[h].inc] # None
      BY <2>7, RequestIncident DEF ReplyWrite
    <3>2. "sent to customer" # None
      BY DEF Status
    <3>3. /\ \A i \in Incident \ {request[h].inc} :
               firstResponse'[i] = firstResponse[i] /\ status'[i] = status[i]
          /\ status'[request[h].inc] # None
      BY <2>7, <3>1, <3>2 DEF ReplyWrite, CheckFirstResponse, TypeOK
    <3>4. \A g \in Handler : request'[g] = request[g] \/ request'[g].pc = "idle"
      BY <2>7 DEF ReplyWrite, NoRequest, TypeOK
    <3>5. \A g \in Handler : request[g].pc # "idle" => request[g].inc \in Incident
      BY DEF TypeOK, NoRequest
    <3>6. QED BY <3>1, <3>3, <3>4, <3>5
  <2>8. QED BY <1>2, <2>1, <2>2, <2>3, <2>4, <2>5, <2>6, <2>7 DEF HandlerStep
<1>3. ASSUME NEW i \in Incident, RowStep(i) PROVE Existing'
  <2>1. ASSUME NEW s \in Requestable, NEW v \in Severity, Create(i, s, v)
        PROVE Existing'
    <3>1. /\ status' = [status EXCEPT ![i] = s] /\ s # None /\ request' = request
          /\ \A j \in Incident \ {i} : firstResponse'[j] = firstResponse[j]
      BY <2>1 DEF Create, TypeOK
    <3>2. \A g \in Handler : request[g].pc # "idle" => request[g].inc \in Incident
      BY DEF TypeOK, NoRequest
    <3>3. QED BY <3>1, <3>2 DEF TypeOK
  <2>2. ASSUME NEW s \in Requestable \cup {None}, NEW v \in Severity \cup {None},
               Patch(i, s, v)
        PROVE Existing'
    <3>1. /\ request' = request /\ status[i] # None
          /\ status' = status \/ (status' = [status EXCEPT ![i] = s] /\ s # None)
          /\ \A j \in Incident \ {i} : firstResponse'[j] = firstResponse[j]
      BY <2>2 DEF Patch, SetStatus, Exists, TypeOK
    <3>2. \A g \in Handler : request[g].pc # "idle" => request[g].inc \in Incident
      BY DEF TypeOK, NoRequest
    <3>3. QED BY <3>1, <3>2 DEF TypeOK
  <2>3. CASE Analyze(i)
    <3>1. "ai triaging" # None
      BY DEF Status
    <3>2. \A g \in Handler : request[g].pc # "idle" => request[g].inc \in Incident
      BY DEF TypeOK, NoRequest
    <3>3. QED BY <2>3, <3>1, <3>2 DEF Analyze, Exists, TypeOK
  <2>4. CASE ItsmPush(i)
    <3>1. "sent to customer" # None
      BY DEF Status
    <3>2. \A g \in Handler : request[g].pc # "idle" => request[g].inc \in Incident
      BY DEF TypeOK, NoRequest
    <3>3. /\ request' = request /\ status[i] # None /\ status'[i] # None
          /\ \A j \in Incident \ {i} :
               firstResponse'[j] = firstResponse[j] /\ status'[j] = status[j]
      BY <2>4, <3>1 DEF ItsmPush, Exists, TypeOK
    <3>4. QED BY <3>2, <3>3
  <2>5. QED BY <1>3, <2>1, <2>2, <2>3, <2>4 DEF RowStep
<1>4. ASSUME NEW c \in Checker, CheckerStep(c) \/ Abort(c) PROVE Existing'
  BY <1>4 DEF CheckerStep, Scan, CheckFirst, CheckResolution, Commit, Abort
<1>5. CASE UNCHANGED vars
  BY <1>5 DEF vars
<1>6. QED BY <1>1, <1>2, <1>3, <1>4, <1>5 DEF Next

(* Every step keeps the inductive invariant: a request waits for a row     *)
(* that is held, so its statement writes a free row (RowKept, RecordKept); *)
(* a checker moves one clock at a time.                                    *)
LEMMA InvNext == IInv /\ [Next]_vars => IInv'
<1> SUFFICES ASSUME IInv, [Next]_vars PROVE IInv'
  OBVIOUS
<1>1. TypeOK' /\ Existing' /\ RequestsBegan'
  BY TypeNext, ExistingNext, BeganNext DEF IInv
<1> SUFFICES Kept'
  BY <1>1 DEF IInv, Kept
<1> USE DEF rowVars, slaVars
<1> TypeOK /\ Existing /\ RequestsBegan
  BY DEF IInv
<1>2. Kept
  BY DEF IInv, Kept
<1>3. ASSUME UNCHANGED <<rowVars, slaVars, mails, txn, aborts>>,
             now' \in Nat, now' >= now
      PROVE  Kept'
  <2>1. LocksExclusive' /\ StagedInOrder' /\ StagedIsDue' /\ EventCount' /\ MailCount'
    BY <1>2, <1>3 DEF Kept, LocksExclusive, StagedInOrder, Staged, StagedIsDue,
                      Elapsed, Target, EventCount, MailCount
  <2>2. now \in Nat /\ \A c \in Checker : txn[c].at \in Nat
    BY <1>2 DEF Kept, TypeOK
  <2>3. HeldIsOpen'
    BY <1>2, <1>3, <2>2 DEF Kept, HeldIsOpen
  <2>4. QED BY <2>1, <2>3 DEF Kept
<1>4. now \in Nat
  BY DEF TypeOK
<1>5. CASE Tick
  BY <1>3, <1>4, <1>5 DEF Tick
<1>6. ASSUME NEW h \in Handler, HandlerStep(h) PROVE Kept'
  <2>1. CASE UNCHANGED <<now, rowVars, slaVars, mails, txn, aborts>>
    BY <1>3, <1>4, <2>1
  <2>2. CASE StatusWrite(h)
    <3> DEFINE i == request[h].inc
    <3>1. i \in Incident
      BY <2>2 DEF StatusWrite, TypeOK, NoRequest
    <3>2. WritesRow(i)
      BY <2>2, <3>1, <1>4 DEF StatusWrite, SetStatus, WritesRow, TypeOK
    <3>3. QED BY <3>1, <3>2, RowKept
  <2>3. CASE StatusRecord(h)
    <3>1. request[h].inc \in Incident /\ now \in Time
      BY <2>3 DEF StatusRecord, TypeOK, NoRequest
    <3>2. CASE request[h].first
      BY <2>3, <3>1, <3>2, RecordKept DEF StatusRecord
    <3>3. CASE ~request[h].first
      BY <1>3, <1>4, <2>3, <3>3 DEF StatusRecord
    <3>4. QED BY <3>2, <3>3
  <2>4. ASSUME NEW i \in Incident, SendToCustomer(h, i) PROVE Kept'
    <3>1. WritesRow(i)
      BY <2>4 DEF SendToCustomer, WritesRow, TypeOK
    <3>2. QED BY <3>1, RowKept
  <2>5. CASE ReplyWrite(h)
    <3> DEFINE i == request[h].inc
    <3>1. i \in Incident /\ request[h].at \in Time
      BY <2>5, RequestIncident DEF ReplyWrite, Request
    <3>2. CASE request[h].first
      <4>1. \A j \in Incident : status'[j] = status[j] \/ (j = i /\ ~Locked(i))
        BY <2>5 DEF ReplyWrite, TypeOK
      <4>2. QED BY <2>5, <3>1, <3>2, <4>1, RecordKept DEF ReplyWrite
    <3>3. CASE ~request[h].first
      <4>1. WritesRow(i)
        BY <2>5, <3>1, <3>3 DEF ReplyWrite, WritesRow, TypeOK
      <4>2. QED BY <3>1, <4>1, RowKept
    <3>4. QED BY <3>2, <3>3
  <2>6. QED BY <1>6, <2>1, <2>2, <2>3, <2>4, <2>5
           DEF HandlerStep, StatusRead, ReplyRead, RequestDies
<1>7. ASSUME NEW i \in Incident, RowStep(i) PROVE Kept'
  <2>1. ASSUME NEW s \in Requestable, NEW v \in Severity, Create(i, s, v)
        PROVE Kept'
    <3>1. ~Locked(i)
      BY <1>2, <2>1 DEF Kept, HeldIsOpen, Locked, Create, Exists
    <3>2. firstResponse[i] = None
      BY <2>1 DEF Existing, Create, Exists
    <3>3. WritesRow(i)
      BY <2>1, <3>1, <3>2 DEF Create, WritesRow, TypeOK
    <3>4. QED BY <3>3, RowKept
  <2>2. ASSUME NEW s \in Requestable \cup {None}, NEW v \in Severity \cup {None},
               Patch(i, s, v)
        PROVE Kept'
    <3>1. WritesRow(i)
      BY <1>4, <2>2 DEF Patch, SetStatus, WritesRow, TypeOK
    <3>2. QED BY <3>1, RowKept
  <2>3. CASE Analyze(i)
    <3>1. WritesRow(i)
      BY <2>3 DEF Analyze, WritesRow, TypeOK
    <3>2. QED BY <3>1, RowKept
  <2>4. CASE ItsmPush(i)
    <3>1. WritesRow(i)
      BY <2>4, <1>4 DEF ItsmPush, WritesRow, TypeOK
    <3>2. QED BY <3>1, RowKept
  <2>5. QED BY <1>7, <2>1, <2>2, <2>3, <2>4 DEF RowStep
<1>8. ASSUME NEW c \in Checker, CheckerStep(c) \/ Abort(c) PROVE Kept'
  <2> txn[c] \in Txn
    BY DEF TypeOK, Txn
  <2>1. ASSUME NEW i \in Incident, CheckFirst(c, i) PROVE Kept'
    <3> DEFINE t == [txn[c] EXCEPT !.todo = @ \ {i}, !.cur = i]
               p == <<i, "first_response">>
    <3>1. /\ t \in Txn /\ t.held = txn[c].held /\ t.at = txn[c].at
          /\ t.todo = txn[c].todo \ {i} /\ t.cur = i
          /\ t.breached = txn[c].breached /\ t.notified = txn[c].notified
          /\ t.warned = txn[c].warned
      BY DEF Txn
    <3>2. p \in Clock /\ p[1] = i /\ p[2] = "first_response"
      BY DEF Clock, Sla
    <3>3. i \in txn[c].todo /\ UNCHANGED <<now, rowVars, slaVars, request, aborts>>
      BY <2>1 DEF CheckFirst
    <3>4. /\ txn[c].todo \subseteq txn[c].held
          /\ \A q \in Staged(c) : q[1] \in txn[c].held \ txn[c].todo
      BY <1>2 DEF Kept, StagedInOrder
    <3>5. \/ firstResponse[i] = None /\ CheckClock(c, p, t)
          \/ txn' = [txn EXCEPT ![c] = t] /\ mails' = mails
      BY <2>1 DEF CheckFirst
    <3> HIDE DEF t, p
    <3>6. CASE firstResponse[i] = None /\ CheckClock(c, p, t)
      <4>1. t.cur \in t.held \ t.todo /\ p[1] \in t.held \ t.todo /\ p \notin Staged(c)
        BY <3>1, <3>2, <3>3, <3>4
      <4>2. \A q \in Staged(c) \cup {p} : /\ q[1] \in t.held \ t.todo
                                          /\ q[2] = "resolution" => q[1] # t.cur
        BY <3>1, <3>2, <3>3, <3>4
      <4>3. QED BY <3>1, <3>2, <3>3, <3>4, <3>6, <4>1, <4>2, ClockKept
    <3>7. CASE txn' = [txn EXCEPT ![c] = t] /\ mails' = mails
      <4>1. txn'[c] = t /\ \A d \in Checker \ {c} : txn'[d] = txn[d]
        BY <3>7 DEF TypeOK
      <4>2. LocksExclusive' /\ HeldIsOpen' /\ StagedIsDue' /\ EventCount' /\ MailCount'
        BY <1>2, <3>1, <3>3, <3>7, <4>1 DEF Kept, LocksExclusive, HeldIsOpen,
           StagedIsDue, Elapsed, Target, EventCount, MailCount
      <4>3. Staged(c)' = Staged(c)
        BY <3>1, <4>1 DEF Staged
      <4>4. StagedInOrder'
        BY <1>2, <3>1, <3>3, <3>4, <4>1, <4>3 DEF Kept, StagedInOrder, Staged
      <4>5. QED BY <4>2, <4>4 DEF Kept
    <3>8. QED BY <3>5, <3>6, <3>7
  <2>2. CASE CheckResolution(c)
    <3> DEFINE t == [txn[c] EXCEPT !.cur = None]
               p == <<txn[c].cur, "resolution">>
    <3>1. /\ t \in Txn /\ t.held = txn[c].held /\ t.at = txn[c].at
          /\ t.todo = txn[c].todo /\ t.cur = None
          /\ t.breached = txn[c].breached /\ t.notified = txn[c].notified
          /\ t.warned = txn[c].warned
      BY DEF Txn
    <3>2. p \in Clock /\ p[1] = txn[c].cur /\ p[2] = "resolution"
      BY <2>2 DEF CheckResolution, Clock, Sla, Txn
    <3>3. txn[c].cur # None /\ CheckClock(c, p, t)
          /\ UNCHANGED <<now, rowVars, slaVars, request, aborts>>
      BY <2>2 DEF CheckResolution
    <3>4. /\ txn[c].todo \subseteq txn[c].held
          /\ txn[c].cur \in txn[c].held \ txn[c].todo
          /\ \A q \in Staged(c) : /\ q[1] \in txn[c].held \ txn[c].todo
                                  /\ q[2] = "resolution" => q[1] # txn[c].cur
      BY <1>2, <3>3 DEF Kept, StagedInOrder
    <3> HIDE DEF t, p
    <3>5. \A q \in Staged(c) \cup {p} : /\ q[1] \in t.held \ t.todo
                                        /\ q[2] = "resolution" => q[1] # t.cur
      <4>1. p[1] # None
        BY <3>2, <3>3
      <4>2. \A q \in Staged(c) : q[1] # None
        BY <3>4 DEF TypeOK
      <4>3. QED BY <3>1, <3>2, <3>4, <4>1, <4>2
    <3>6. p \notin Staged(c) /\ p[1] \in t.held \ t.todo
      BY <3>1, <3>2, <3>4
    <3>7. QED BY <3>1, <3>2, <3>3, <3>4, <3>5, <3>6, ClockKept
  <2>3. QED BY <1>8, <2>1, <2>2, ScanKept, CommitKept, AbortKept DEF CheckerStep
<1>9. CASE UNCHANGED vars
  BY <1>3, <1>4, <1>9 DEF vars
<1>10. QED BY <1>5, <1>6, <1>7, <1>8, <1>9 DEF Next

(* Every reachable state satisfies the strengthening: staged verdicts are  *)
(* true of the rows a cycle of sla_breach_checker holds.                   *)
THEOREM InductiveInvariant == Spec => []IInv
<1>1. Init => IInv
  <2>1. Init => RequestsBegan
    BY DEF Init, RequestsBegan, NoRequest
  <2>2. QED BY <2>1, TypeInit, KeptInit DEF IInv, Kept
<1>2. QED BY <1>1, InvNext, PTL DEF Spec

-----------------------------------------------------------------------------
(* What follows from the inductive invariant.                              *)

(* Flags and breach events agree, in every reachable state.                *)
THEOREM BreachEventsCorrect == Spec => []BreachEventsAgree
<1>1. IInv => BreachEventsAgree
  <2> SUFFICES ASSUME IInv, NEW p \in Clock
               PROVE  /\ p \in breached <=> breachEvents[p] > 0
                      /\ breachEvents[p] <= (IF p[2] = "resolution" THEN 1 ELSE 2)
    BY DEF BreachEventsAgree
  <2>1. QED BY DEF IInv, EventCount
<1>2. QED BY <1>1, InductiveInvariant, PTL

(* The number of copies of a message is bounded by the rolled-back cycles. *)
THEOREM RepeatedMailCorrect == Spec => []RepeatedMailNeedsRollback
<1>1. IInv => RepeatedMailNeedsRollback
  <2> SUFFICES ASSUME IInv, NEW p \in Clock, NEW k \in Mail
               PROVE  mails[p][k] <= 1 + aborts
    BY DEF RepeatedMailNeedsRollback
  <2>1. mails[p][k] <= aborts + 1
    BY DEF IInv, MailCount, Mail
  <2>2. aborts \in Nat /\ mails[p][k] \in Nat
    BY DEF IInv, TypeOK
  <2>3. QED BY <2>1, <2>2
<1>2. QED BY <1>1, InductiveInvariant, PTL

LEMMA FlagStep ==
  ASSUME IInv, [Next]_vars, NEW p \in breached' \ breached
  PROVE  /\ Elapsed(p, now) >= Target(p)
         /\ p[2] = "first_response" => firstResponse[p[1]] = None
         /\ p[2] = "resolution" => status[p[1]] \notin Closed
<1> DEFINE Due == /\ Elapsed(p, now) >= Target(p)
                  /\ p[2] = "first_response" => firstResponse[p[1]] = None
                  /\ p[2] = "resolution" => status[p[1]] \notin Closed
<1> USE DEF slaVars
<1>1. ASSUME NEW c \in Checker, Commit(c) PROVE Due
  <2>1. p \in txn[c].breached
    BY <1>1 DEF Commit
  <2>2. p \in Clock /\ p[1] \in Incident /\ p[1] \in txn[c].held
    BY <2>1 DEF IInv, TypeOK, StagedInOrder, Staged, Clock
  <2>3. /\ p[2] = "first_response" => firstResponse[p[1]] = None
        /\ Elapsed(p, txn[c].at) >= Target(p)
        /\ txn[c].at <= now /\ status[p[1]] \notin Closed
    BY <2>1, <2>2 DEF IInv, StagedIsDue, HeldIsOpen
  <2>4. /\ created[p[1]] \in Time /\ now \in Time /\ txn[c].at \in Time
        /\ Target(p) \in Nat
    <3>1. TypeOK
      BY DEF IInv
    <3>2. created[p[1]] \in Time /\ now \in Time /\ txn[c].at \in Time
      BY <2>2, <3>1 DEF TypeOK
    <3>3. Target(p) \in Nat
      BY <2>2, <3>1 DEF TypeOK, Target, Clock
    <3>4. QED BY <3>2, <3>3
  <2>5. created[p[1]] \in Int /\ now \in Int /\ txn[c].at \in Int
    BY <2>4, TimeIsInt
  <2>6. QED BY <2>3, <2>4, <2>5 DEF Elapsed
<1>2. ASSUME NEW h \in Handler, StatusRecord(h) \/ ReplyWrite(h),
             breached' # breached
      PROVE  Due
  <2> DEFINE i == request[h].inc
             q == <<i, "first_response">>
  <2>1. i \in Incident
    BY <1>2, RequestIncident DEF StatusRecord, ReplyWrite, IInv
  <2>2. PICK t \in {now, request[h].at} : CheckFirstResponse(i, t)
    BY <1>2 DEF StatusRecord, ReplyWrite
  <2>3. firstResponse[i] = None
    BY <2>2 DEF CheckFirstResponse
  <2>4. breached' = breached \/ (breached' = breached \cup {q} /\ Elapsed(q, t) > Target(q))
    BY <2>2, <2>3 DEF CheckFirstResponse
  <2>5. p = q /\ Elapsed(q, t) > Target(q)
    BY <2>4
  <2>6. q \in Clock /\ q[1] = i /\ q[2] = "first_response"
    BY <2>1 DEF Clock, Sla
  <2>7. /\ created[i] \in Int /\ Target(q) \in Int
        /\ t \in Int /\ now \in Int /\ t <= now
    <3>1. TypeOK /\ RequestsBegan
      BY DEF IInv
    <3>2. created[i] \in Time /\ now \in Time
      BY <2>1, <3>1 DEF TypeOK
    <3>3. Target(q) \in Nat
      BY <2>6, <3>1 DEF TypeOK, Target, Clock
    <3>4. request[h].at \in Time /\ request[h].at <= now
      BY <3>1, ZeroIsTime DEF TypeOK, NoRequest, RequestsBegan
    <3>5. t \in Time /\ t <= now
      BY <3>2, <3>4, TimeIsInt
    <3>6. created[i] \in Int /\ now \in Int
      BY <3>2, TimeIsInt
    <3>7. t \in Int
      BY <3>5, TimeIsInt
    <3>8. QED BY <3>3, <3>5, <3>6, <3>7
  <2>8. Elapsed(q, now) >= Target(q)
    BY <2>5, <2>6, <2>7 DEF Elapsed
  <2>9. QED BY <2>3, <2>5, <2>6, <2>8
<1>3. CASE UNCHANGED breached
  BY <1>3
<1>4. QED BY <1>1, <1>2, <1>3 DEF Next, Tick, HandlerStep, StatusRead, StatusWrite,
  RequestDies, SendToCustomer, ReplyRead, RowStep, Create, Patch, Analyze, ItsmPush,
  CheckerStep, Scan, CheckFirst, CheckResolution, Abort, vars

(* A verdict reaches the row only while it is true of the row.             *)
THEOREM FlagsAreDue == Spec => FlagOnlyWhenOverdue
<1>1. IInv /\ [Next]_vars
      => [\A p \in breached' \ breached :
            /\ Elapsed(p, now) >= Target(p)
            /\ p[2] = "first_response" => firstResponse[p[1]] = None
            /\ p[2] = "resolution" => status[p[1]] \notin Closed]_vars
  BY FlagStep
<1>2. QED BY <1>1, InductiveInvariant, PTL DEF Spec, FlagOnlyWhenOverdue

LEMMA WarningStep ==
  ASSUME IInv, [Next]_vars, NEW i \in Incident,
         mails[<<i, "resolution">>]["warning"] # mails'[<<i, "resolution">>]["warning"]
  PROVE  <<i, "resolution">> \notin breached /\ status[i] \notin Closed
<1> DEFINE p == <<i, "resolution">>
           Silent == <<i, "resolution">> \notin breached /\ status[i] \notin Closed
<1>1. mails # mails'
  OBVIOUS
<1>2. p \in Clock /\ mails \in [Clock -> [Mail -> Nat]]
  BY DEF Clock, Sla, IInv, TypeOK
<1>3. ASSUME NEW c \in Checker, NEW q \in Clock, NEW t \in Txn, CheckClock(c, q, t),
             q[1] \in txn[c].held
      PROVE  q = p => Silent
  <2> SUFFICES ASSUME q = p PROVE Silent
    OBVIOUS
  <2>1. status[i] \notin Closed
    BY <1>3 DEF IInv, HeldIsOpen
  <2>2. CASE FlagBreach(c, q, t)
    <3>1. \E n \in {0, 1} : mails' = [mails EXCEPT ![p]["breach"] = @ + n]
      BY <1>1, <2>2 DEF FlagBreach, MaybeMail
    <3>2. mails'[p]["warning"] = mails[p]["warning"]
      BY <1>2, <3>1
    <3>3. QED BY <3>2
  <2>3. CASE Warn(c, q, t)
    BY <2>1, <2>3 DEF Warn
  <2>4. CASE NothingDue(c, q, t)
    BY <1>1, <2>4 DEF NothingDue
  <2>5. QED BY <1>3, <2>2, <2>3, <2>4 DEF CheckClock
<1>4. ASSUME NEW c \in Checker, NEW q \in Clock, NEW t \in Txn, CheckClock(c, q, t)
      PROVE  q = p
  <2>1. \E k \in Mail, n \in {0, 1} : mails' = [mails EXCEPT ![q][k] = @ + n]
    BY <1>1, <1>4 DEF CheckClock, FlagBreach, Warn, NothingDue, MaybeMail, Mail
  <2>2. QED BY <1>2, <2>1
<1>5. ASSUME NEW c \in Checker, NEW j \in Incident, CheckFirst(c, j) PROVE FALSE
  <2> DEFINE t == [txn[c] EXCEPT !.todo = @ \ {j}, !.cur = j]
  <2>1. t \in Txn /\ <<j, "first_response">> \in Clock
    <3>1. txn[c] \in Txn
      BY DEF IInv, TypeOK, Txn
    <3>2. QED BY <3>1 DEF Txn, Clock, Sla
  <2>2. CheckClock(c, <<j, "first_response">>, t)
    BY <1>1, <1>5 DEF CheckFirst
  <2>3. <<j, "first_response">> = p
    BY <1>4, <2>1, <2>2
  <2>4. QED BY <2>3
<1>6. ASSUME NEW c \in Checker, CheckResolution(c) PROVE Silent
  <2> DEFINE t == [txn[c] EXCEPT !.cur = None]
             q == <<txn[c].cur, "resolution">>
  <2>1. t \in Txn
    <3>1. txn[c] \in Txn
      BY DEF IInv, TypeOK, Txn
    <3>2. QED BY <3>1 DEF Txn
  <2>2. q \in Clock /\ q[1] \in txn[c].held /\ CheckClock(c, q, t)
    BY <1>6 DEF CheckResolution, IInv, TypeOK, StagedInOrder, Clock, Sla
  <2>3. QED BY <1>3, <1>4, <2>1, <2>2
<1>7. CASE UNCHANGED mails
  BY <1>1, <1>7
<1>8. QED BY <1>5, <1>6, <1>7 DEF Next, Tick, HandlerStep, StatusRead, StatusWrite,
  StatusRecord, RequestDies, SendToCustomer, ReplyRead, ReplyWrite, RowStep, Create,
  Patch, Analyze, ItsmPush, CheckerStep, Scan, Commit, Abort, vars

(* No resolution warning follows the breach it warns of.                   *)
THEOREM WarningsPrecedeBreach == Spec => NoResolutionWarningAfterBreach
<1>1. IInv /\ [Next]_vars
      => [\A i \in Incident :
            mails[<<i, "resolution">>]["warning"] # mails'[<<i, "resolution">>]["warning"]
            => <<i, "resolution">> \notin breached /\ status[i] \notin Closed]_vars
  BY WarningStep
<1>2. QED BY <1>1, InductiveInvariant, PTL DEF Spec, NoResolutionWarningAfterBreach

-----------------------------------------------------------------------------
(* The ledger implemented.                                                 *)

(* What a reader sees of a clock began in the past: no row is younger than *)
(* now, and a request whose transaction dates the answer was begun after   *)
(* the row was there.                                                      *)
Dated ==
  /\ \A i \in Incident : created[i] <= now
  /\ \A h \in Handler : request[h].pc \in {"read", "replied"}
                          => created[request[h].inc] <= request[h].at

(* A cycle judges incidents whose tenant has targets, and only by targets  *)
(* that are not turned off.                                                *)
ByTarget ==
  \A c \in Checker :
    /\ txn[c].todo \subseteq Covered
    /\ txn[c].cur \in Covered \cup {None}
    /\ \A p \in txn[c].breached : p[1] \in Covered /\ Target(p) > 0

LInv == IInv /\ Dated /\ ByTarget

LEMMA LedgerInit == Init => Dated /\ ByTarget
  BY BoundAssumption DEF Init, Dated, ByTarget, NoRequest, NoTxn

(* The only step that dates a row creates it, and nobody asks about it yet.*)
LEMMA DatedNext == LInv /\ [Next]_vars => Dated'
<1> SUFFICES ASSUME LInv, [Next]_vars PROVE Dated'
  OBVIOUS
<1> USE DEF rowVars, slaVars
<1>0. TypeOK /\ Existing /\ Dated
  BY DEF LInv, IInv
<1>1. /\ now \in Int /\ now' \in Int /\ now <= now'
      /\ \A i \in Incident : created[i] \in Int
  <2>1. now \in Time /\ now' \in Time
    BY <1>0, TypeNext DEF TypeOK
  <2>2. \A i \in Incident : created[i] \in Int
    BY <1>0, TimeIsInt DEF TypeOK
  <2>3. now' = now \/ now' > now
    BY DEF Next, Tick, HandlerStep, StatusRead, StatusWrite, StatusRecord, RequestDies,
      SendToCustomer, ReplyRead, ReplyWrite, RowStep, Create, Patch, Analyze, ItsmPush,
      CheckerStep, Scan, CheckFirst, CheckResolution, Commit, Abort, vars
  <2>4. QED BY <2>1, <2>2, <2>3, TimeIsInt
<1>2. ASSUME UNCHANGED <<created, request>> PROVE Dated'
  BY <1>0, <1>1, <1>2 DEF Dated
<1>3. ASSUME NEW h \in Handler, UNCHANGED created, NEW r,
             request' = [request EXCEPT ![h] = r],
             r.pc \in {"read", "replied"} => created[r.inc] <= r.at
      PROVE  Dated'
  <2>1. \A i \in Incident : created'[i] <= now'
    BY <1>0, <1>1, <1>3 DEF Dated
  <2>2. ASSUME NEW g \in Handler, request'[g].pc \in {"read", "replied"}
        PROVE  created'[request'[g].inc] <= request'[g].at
    <3>1. CASE g = h
      BY <1>0, <1>3, <2>2, <3>1 DEF TypeOK
    <3>2. CASE g # h
      BY <1>0, <1>3, <2>2, <3>2 DEF TypeOK, Dated
    <3>3. QED BY <3>1, <3>2
  <2>3. QED BY <2>1, <2>2 DEF Dated
<1>4. ASSUME NEW h \in Handler, HandlerStep(h) PROVE Dated'
  <2>1. ASSUME NEW i \in Incident, NEW s \in Requestable, StatusRead(h, i, s) PROVE Dated'
    <3> DEFINE r == [pc |-> "read", inc |-> i, new |-> s,
                     first |-> status[i] = "new" /\ s # "new", at |-> now]
    <3>1. created[r.inc] <= r.at
      BY <1>0 DEF Dated
    <3>2. request' = [request EXCEPT ![h] = r] /\ UNCHANGED created
      BY <2>1 DEF StatusRead
    <3> HIDE DEF r
    <3>3. QED BY <1>3, <3>1, <3>2
  <2>2. CASE StatusWrite(h)
    <3> DEFINE r == [request[h] EXCEPT !.pc = "written", !.at = 0]
    <3>1. r.pc = "written"
      <4>1. request[h] \in Request
        BY <1>0, <2>2, RequestIncident DEF StatusWrite
      <4>2. QED BY <4>1 DEF Request
    <3>2. request' = [request EXCEPT ![h] = r] /\ UNCHANGED created
      BY <2>2 DEF StatusWrite
    <3> HIDE DEF r
    <3>3. QED BY <1>3, <3>1, <3>2
  <2>3. CASE StatusRecord(h) \/ RequestDies(h) \/ ReplyWrite(h)
    <3>1. request' = [request EXCEPT ![h] = NoRequest] /\ UNCHANGED created
      BY <2>3 DEF StatusRecord, RequestDies, ReplyWrite
    <3>2. NoRequest.pc = "idle"
      BY DEF NoRequest
    <3>3. QED BY <1>3, <3>1, <3>2
  <2>4. ASSUME NEW i \in Incident, SendToCustomer(h, i) PROVE Dated'
    <3> DEFINE r == [pc |-> "written", inc |-> i, new |-> "sent to customer",
                     first |-> TRUE, at |-> 0]
    <3>1. r.pc = "written"
      OBVIOUS
    <3>2. request' = [request EXCEPT ![h] = r] /\ UNCHANGED created
      BY <2>4 DEF SendToCustomer
    <3> HIDE DEF r
    <3>3. QED BY <1>3, <3>1, <3>2
  <2>5. ASSUME NEW i \in Incident, ReplyRead(h, i) PROVE Dated'
    <3>1. PICK t \in {u \in Time : created[i] <= u /\ u <= now} :
            request' = [request EXCEPT ![h] =
              [pc |-> "replied", inc |-> i, new |-> "sent to customer",
               first |-> status[i] = "new", at |-> t]]
      BY <2>5 DEF ReplyRead
    <3> DEFINE r == [pc |-> "replied", inc |-> i, new |-> "sent to customer",
                     first |-> status[i] = "new", at |-> t]
    <3>2. created[r.inc] <= r.at
      OBVIOUS
    <3>3. request' = [request EXCEPT ![h] = r] /\ UNCHANGED created
      BY <2>5, <3>1 DEF ReplyRead
    <3> HIDE DEF r
    <3>4. QED BY <1>3, <3>2, <3>3
  <2>6. QED BY <1>4, <2>1, <2>2, <2>3, <2>4, <2>5 DEF HandlerStep
<1>5. ASSUME NEW i \in Incident, RowStep(i) PROVE Dated'
  <2>1. ASSUME NEW s \in Requestable, NEW v \in Severity, Create(i, s, v) PROVE Dated'
    <3>1. /\ created' = [created EXCEPT ![i] = now] /\ UNCHANGED <<now, request>>
          /\ status[i] = None
      BY <2>1 DEF Create, Exists
    <3>2. \A j \in Incident : created'[j] <= now'
      BY <1>0, <1>1, <3>1 DEF Dated, TypeOK
    <3>3. ASSUME NEW h \in Handler, request[h].pc \in {"read", "replied"}
          PROVE  created'[request[h].inc] <= request[h].at
      <4>1. request[h].inc \in Incident /\ request[h].inc # i
        BY <1>0, <3>1, <3>3, RequestIncident DEF Existing
      <4>2. QED BY <1>0, <3>1, <3>3, <4>1 DEF Dated, TypeOK
    <3>4. QED BY <3>1, <3>2, <3>3 DEF Dated
  <2>2. QED BY <1>2, <1>5, <2>1 DEF RowStep, Patch, Analyze, ItsmPush
<1>6. QED BY <1>2, <1>4, <1>5 DEF Next, Tick, CheckerStep, Scan, CheckFirst,
        CheckResolution, Commit, Abort, vars

(* The severity of a held row, and so the target its verdict was reached   *)
(* by, does not change.                                                    *)
LEMMA HeldTarget ==
  ASSUME IInv, [Next]_vars, NEW c \in Checker, NEW i \in txn[c].held
  PROVE  severity'[i] = severity[i]
<1> USE DEF rowVars, slaVars
<1>1. /\ TypeOK /\ i \in Incident /\ Locked(i) /\ Exists(i)
  BY DEF IInv, TypeOK, Locked, HeldIsOpen, Exists
<1>2. ASSUME NEW j \in Incident, RowStep(j) PROVE severity'[i] = severity[i]
  BY <1>1, <1>2 DEF RowStep, Create, Patch, Analyze, ItsmPush, TypeOK
<1>3. QED BY <1>2 DEF Next, Tick, HandlerStep, StatusRead, StatusWrite, StatusRecord,
  RequestDies, SendToCustomer, ReplyRead, ReplyWrite, CheckerStep, Scan, CheckFirst,
  CheckResolution, Commit, Abort, vars

(* The verdict on one clock of a covered row is by a target that counts.   *)
LEMMA ClockByTarget ==
  ASSUME LInv, NEW c \in Checker, NEW p \in Clock, NEW t \in Txn,
         CheckClock(c, p, t), p[1] \in Covered,
         t.todo \subseteq Covered, t.cur \in Covered \cup {None},
         t.breached = txn[c].breached, UNCHANGED severity
  PROVE  ByTarget'
<1>1. PICK s \in Txn : /\ txn' = [txn EXCEPT ![c] = s]
                       /\ s.todo = t.todo /\ s.cur = t.cur
                       /\ \/ s.breached = t.breached
                          \/ s.breached = t.breached \cup {p} /\ Target(p) > 0
  <2>1. CASE FlagBreach(c, p, t)
    <3> DEFINE s == [t EXCEPT !.breached = @ \cup {p}, !.notified = @ \cup {p}]
    <3>1. s \in Txn /\ s.todo = t.todo /\ s.cur = t.cur /\ s.breached = t.breached \cup {p}
      BY DEF Txn
    <3>2. txn' = [txn EXCEPT ![c] = s] /\ Target(p) > 0
      BY <2>1 DEF FlagBreach, Overdue
    <3> HIDE DEF s
    <3>3. QED BY <3>1, <3>2
  <2>2. CASE Warn(c, p, t)
    <3> DEFINE s == [t EXCEPT !.warned = @ \cup {p}]
    <3>1. s \in Txn /\ s.todo = t.todo /\ s.cur = t.cur /\ s.breached = t.breached
      BY DEF Txn
    <3>2. txn' = [txn EXCEPT ![c] = s]
      BY <2>2 DEF Warn
    <3> HIDE DEF s
    <3>3. QED BY <3>1, <3>2
  <2>3. CASE NothingDue(c, p, t)
    <3>1. txn' = [txn EXCEPT ![c] = t]
      BY <2>3 DEF NothingDue
    <3>2. QED BY <3>1
  <2>4. QED BY <2>1, <2>2, <2>3 DEF CheckClock
<1>2. txn'[c] = s /\ \A d \in Checker \ {c} : txn'[d] = txn[d]
  BY <1>1 DEF LInv, IInv, TypeOK
<1>3. QED BY <1>1, <1>2 DEF LInv, ByTarget, Target

LEMMA ByTargetNext == LInv /\ [Next]_vars => ByTarget'
<1> SUFFICES ASSUME LInv, [Next]_vars PROVE ByTarget'
  OBVIOUS
<1> USE DEF rowVars, slaVars
<1>0. TypeOK /\ IInv /\ ByTarget
  BY DEF LInv, IInv
<1>1. ASSUME NEW c \in Checker, txn'[c] = txn[c]
      PROVE  /\ txn'[c].todo \subseteq Covered
             /\ txn'[c].cur \in Covered \cup {None}
             /\ \A p \in txn'[c].breached : p[1] \in Covered /\ Target(p)' > 0
  <2>1. ASSUME NEW p \in txn[c].breached PROVE severity'[p[1]] = severity[p[1]]
    <3>1. p[1] \in txn[c].held
      BY DEF LInv, IInv, StagedInOrder, Staged
    <3>2. QED BY <1>0, <3>1, HeldTarget
  <2>2. QED BY <1>0, <1>1, <2>1 DEF ByTarget, Target
<1>2. CASE UNCHANGED txn
  BY <1>1, <1>2 DEF ByTarget
<1>3. ASSUME NEW c \in Checker, NEW t, txn' = [txn EXCEPT ![c] = t],
             t.todo \subseteq Covered, t.cur \in Covered \cup {None},
             t.breached = {} \/ (t.breached = txn[c].breached /\ UNCHANGED severity)
      PROVE  ByTarget'
  <2>1. txn'[c] = t /\ \A d \in Checker \ {c} : txn'[d] = txn[d]
    BY <1>0, <1>3 DEF TypeOK
  <2>2. \A p \in t.breached : p[1] \in Covered /\ Target(p)' > 0
    BY <1>0, <1>3 DEF ByTarget, Target
  <2>3. QED BY <1>1, <1>3, <2>1, <2>2 DEF ByTarget
<1>4. ASSUME NEW c \in Checker, CheckerStep(c) \/ Abort(c) PROVE ByTarget'
  <2> txn[c] \in Txn
    BY <1>0 DEF TypeOK, Txn
  <2>1. CASE Scan(c)
    <3> DEFINE t == [NoTxn EXCEPT !.held = Selectable, !.at = now,
                                  !.todo = Selectable \cap Covered]
    <3>1. t.todo \subseteq Covered /\ t.cur = None /\ t.breached = {}
      BY DEF NoTxn
    <3>2. txn' = [txn EXCEPT ![c] = t]
      BY <2>1 DEF Scan
    <3> HIDE DEF t
    <3>3. QED BY <1>3, <3>1, <3>2
  <2>2. ASSUME NEW i \in Incident, CheckFirst(c, i) PROVE ByTarget'
    <3> DEFINE t == [txn[c] EXCEPT !.todo = @ \ {i}, !.cur = i]
               p == <<i, "first_response">>
    <3>1. /\ t \in Txn /\ t.todo = txn[c].todo \ {i} /\ t.cur = i
          /\ t.breached = txn[c].breached
      BY DEF Txn
    <3>2. p \in Clock /\ p[1] = i
      BY DEF Clock, Sla
    <3>3. i \in Covered /\ t.todo \subseteq Covered /\ UNCHANGED severity
      BY <1>0, <2>2, <3>1 DEF CheckFirst, ByTarget
    <3>4. CheckClock(c, p, t) \/ txn' = [txn EXCEPT ![c] = t]
      BY <2>2 DEF CheckFirst
    <3> HIDE DEF t, p
    <3>5. QED BY <1>3, <3>1, <3>2, <3>3, <3>4, ClockByTarget
  <2>3. CASE CheckResolution(c)
    <3> DEFINE t == [txn[c] EXCEPT !.cur = None]
               p == <<txn[c].cur, "resolution">>
    <3>1. t \in Txn /\ t.todo = txn[c].todo /\ t.cur = None /\ t.breached = txn[c].breached
      BY DEF Txn
    <3>2. /\ CheckClock(c, p, t) /\ UNCHANGED severity /\ txn[c].cur # None
          /\ txn[c].todo \subseteq Covered /\ txn[c].cur \in Covered
      BY <1>0, <2>3 DEF CheckResolution, ByTarget
    <3>3. p \in Clock /\ p[1] = txn[c].cur
      BY <3>2, CoveredAssumption DEF Clock, Sla
    <3> HIDE DEF t, p
    <3>4. QED BY <3>1, <3>2, <3>3, ClockByTarget
  <2>4. CASE Commit(c) \/ Abort(c)
    <3>1. NoTxn.todo = {} /\ NoTxn.cur = None /\ NoTxn.breached = {}
      BY DEF NoTxn
    <3>2. txn' = [txn EXCEPT ![c] = NoTxn]
      BY <2>4 DEF Commit, Abort
    <3>3. QED BY <1>3, <3>1, <3>2
  <2>5. QED BY <1>4, <2>1, <2>2, <2>3, <2>4 DEF CheckerStep
<1>5. QED BY <1>2, <1>4 DEF Next, Tick, HandlerStep, StatusRead, StatusWrite, StatusRecord,
  RequestDies, SendToCustomer, ReplyRead, ReplyWrite, RowStep, Create, Patch, Analyze,
  ItsmPush, vars

THEOREM LedgerInvariant == Spec => []LInv
<1>1. Init /\ IInv => LInv
  BY LedgerInit DEF LInv
<1>2. LInv /\ [Next]_vars /\ IInv' => LInv'
  BY DatedNext, ByTargetNext DEF LInv
<1>3. QED BY <1>1, <1>2, InductiveInvariant, PTL DEF Spec

-----------------------------------------------------------------------------
(* The simulation.                                                         *)

LEMMA LedgerClock == Ledger!Clock = Clock
  BY DEF Ledger!Clock, Clock, Sla

(* The first-response check of a request is the ledger's answer, or        *)
(* nothing; the answer it writes is dated t.                               *)
LEMMA LedgerAnswer ==
  ASSUME LInv, NEW i \in Incident, NEW t \in Time, created[i] <= t, t <= now,
         CheckFirstResponse(i, t)
  PROVE  Ledger!Answer(i) \/ UNCHANGED <<firstResponse, breached, breachEvents>>
<1> DEFINE p == <<i, "first_response">>
<1>1. CASE firstResponse[i] # None
  BY <1>1 DEF CheckFirstResponse
<1>2. CASE firstResponse[i] = None
  <2>1. firstResponse' = [firstResponse EXCEPT ![i] = t]
    BY <1>2 DEF CheckFirstResponse
  <2>2. \/ UNCHANGED <<breached, breachEvents>>
        \/ /\ i \in Covered /\ Elapsed(p, t) > Target(p)
           /\ breached' = breached \cup {p}
           /\ breachEvents' = [breachEvents EXCEPT ![p] = @ + 1]
    BY <1>2 DEF CheckFirstResponse
  <2>3. Ledger!Elapsed(p, t) = Elapsed(p, t) /\ Ledger!Target(p) = Target(p)
    BY DEF Ledger!Elapsed, Elapsed, Ledger!Target, Target
  <2>4. \/ UNCHANGED <<breached, breachEvents>>
        \/ /\ i \in Covered /\ Ledger!Elapsed(p, t) > Ledger!Target(p)
           /\ breached' = breached \cup {p}
           /\ breachEvents' = [breachEvents EXCEPT ![p] = @ + 1]
    BY <2>2, <2>3
  <2>5. QED BY <1>2, <2>1, <2>4 DEF Ledger!Answer
<1>3. QED BY <1>1, <1>2

(* The UPDATE of a status request answers an incident at most; it records  *)
(* no breach.                                                              *)
LEMMA LedgerSetStatus ==
  ASSUME LInv, NEW i \in Incident, NEW t \in Time, created[i] <= t, t <= now,
         NEW s \in Status, SetStatus(i, s, t), UNCHANGED <<breached, breachEvents>>
  PROVE  Ledger!Answer(i) \/ UNCHANGED <<firstResponse, breached, breachEvents>>
<1>1. CASE firstResponse' = firstResponse
  BY <1>1
<1>2. CASE firstResponse' # firstResponse
  <2>1. firstResponse[i] = None /\ firstResponse' = [firstResponse EXCEPT ![i] = t]
    BY <1>2 DEF SetStatus
  <2>2. QED BY <2>1 DEF Ledger!Answer
<1>3. QED BY <1>1, <1>2

(* A step that sets some of status, severity and answer of one incident.   *)
LEMMA LedgerHandle ==
  ASSUME TypeOK, NEW i \in Incident, Exists(i),
         NEW s \in Status, NEW v \in Severity,
         status' = [status EXCEPT ![i] = s],
         severity' = [severity EXCEPT ![i] = v],
         Ledger!Answer(i) \/ UNCHANGED <<firstResponse, breached, breachEvents>>,
         UNCHANGED <<now, created>>
  PROVE  Ledger!Next
<1>1. Ledger!Handle(i)
  BY DEF Ledger!Handle, Exists
<1>2. QED BY <1>1 DEF Ledger!Next

(* Columns a statement leaves alone are set to what they are.              *)
LEMMA Unset ==
  ASSUME TypeOK, NEW i \in Incident, Exists(i)
  PROVE  /\ status[i] \in Status /\ status = [status EXCEPT ![i] = status[i]]
         /\ severity[i] \in Severity /\ severity = [severity EXCEPT ![i] = severity[i]]
  BY DEF TypeOK, Exists

(* The verdicts of a cycle become visible in one step, and are due then.   *)
LEMMA LedgerJudge ==
  ASSUME LInv, NEW c \in Checker, Commit(c)
  PROVE  Ledger!Judge
<1> DEFINE d == txn[c].breached
<1>1. /\ breached' = breached \cup d
      /\ breachEvents' = [p \in Ledger!Clock |-> IF p \in d THEN breachEvents[p] + 1
                                                 ELSE breachEvents[p]]
      /\ UNCHANGED <<now, status, severity, created, firstResponse>>
  BY LedgerClock DEF Commit, rowVars
<1>2. ASSUME NEW p \in d PROVE p \in Ledger!Due
  <2>0. /\ TypeOK /\ StagedInOrder /\ HeldIsOpen /\ StagedIsDue /\ ByTarget
        /\ txn[c] \in Txn
    BY DEF LInv, IInv, TypeOK, Txn
  <2>1. p \in Clock /\ p[1] \in Incident /\ p[1] \in txn[c].held
    BY <2>0 DEF Txn, StagedInOrder, Staged, Clock
  <2>2. status[p[1]] \notin Closed \cup {None} /\ txn[c].at <= now
    BY <2>0, <2>1 DEF HeldIsOpen
  <2>3. /\ p \notin breached
        /\ p[2] = "first_response" => firstResponse[p[1]] = None
        /\ Elapsed(p, txn[c].at) >= Target(p)
    BY <2>0 DEF StagedIsDue
  <2>4. p[1] \in Covered /\ Target(p) > 0
    BY <2>0 DEF ByTarget
  <2>5. /\ created[p[1]] \in Int /\ now \in Int /\ txn[c].at \in Int
        /\ Target(p) \in Int
    <3>1. created[p[1]] \in Time /\ now \in Time /\ txn[c].at \in Time
      BY <2>0, <2>1 DEF TypeOK
    <3>2. TypeOK
      BY <2>0
    <3>3. Target(p) \in Nat
      BY <2>1, <3>2 DEF TypeOK, Target, Clock
    <3>4. created[p[1]] \in Int /\ now \in Int /\ txn[c].at \in Int
      BY <3>1, TimeIsInt
    <3>5. QED BY <3>3, <3>4
  <2>6. Elapsed(p, now) >= Target(p)
    BY <2>2, <2>3, <2>5 DEF Elapsed
  <2>7. Ledger!Elapsed(p, now) = Elapsed(p, now) /\ Ledger!Target(p) = Target(p)
    BY DEF Ledger!Elapsed, Elapsed, Ledger!Target, Target
  <2>8. Ledger!Target(p) > 0 /\ Ledger!Elapsed(p, now) >= Ledger!Target(p)
    BY <2>4, <2>6, <2>7
  <2>9. QED BY <2>1, <2>2, <2>3, <2>4, <2>8, LedgerClock DEF Ledger!Due
<1>3. d \in SUBSET Ledger!Due
  BY <1>2
<1> HIDE DEF d
<1>4. QED BY <1>1, <1>3 DEF Ledger!Judge

LEMMA LedgerStep == LInv /\ [Next]_vars => [Ledger!Next]_Ledger!vars
<1> SUFFICES ASSUME LInv, [Next]_vars PROVE Ledger!Next \/ UNCHANGED Ledger!vars
  OBVIOUS
<1> USE DEF rowVars, slaVars
<1>0. /\ TypeOK /\ Dated /\ Existing /\ RequestsBegan /\ now \in Time /\ now <= now
      /\ IInv
  <2>1. TypeOK /\ Dated /\ Existing /\ RequestsBegan /\ now \in Time /\ IInv
    BY DEF LInv, IInv, TypeOK
  <2>2. now \in Int
    BY <2>1, TimeIsInt
  <2>3. QED BY <2>1, <2>2
<1>1. ASSUME UNCHANGED <<now, rowVars, breached, breachEvents>>
      PROVE  UNCHANGED Ledger!vars
  BY <1>1 DEF Ledger!vars
<1>2. CASE Tick
  <2>1. Ledger!Pass
    BY <1>2 DEF Tick, Ledger!Pass
  <2>2. QED BY <2>1 DEF Ledger!Next
<1>3. ASSUME NEW h \in Handler, HandlerStep(h)
      PROVE  Ledger!Next \/ UNCHANGED Ledger!vars
  <2> DEFINE i == request[h].inc
  <2>0. ASSUME request[h].pc # "idle"
        PROVE  /\ i \in Incident /\ Exists(i) /\ request[h].at \in Time
               /\ request[h].at <= now /\ request[h].new \in Status
    <3>1. request[h] \in Request /\ i \in Incident
      BY <1>0, <2>0, RequestIncident
    <3>2. request[h].at \in 0..now
      BY <1>0 DEF RequestsBegan
    <3>3. Exists(i)
      BY <1>0, <2>0 DEF Existing, Exists
    <3>4. QED BY <3>1, <3>2, <3>3 DEF Request
  <2>1. CASE UNCHANGED <<now, rowVars, breached, breachEvents>>
    BY <1>1, <2>1
  <2>2. CASE StatusWrite(h)
    <3>1. request[h].pc = "read"
      BY <2>2 DEF StatusWrite
    <3>2. created[i] <= request[h].at
      BY <1>0, <3>1 DEF Dated
    <3>3. /\ SetStatus(i, request[h].new, request[h].at)
          /\ UNCHANGED <<now, severity, created, breached, breachEvents>>
      BY <2>2 DEF StatusWrite
    <3>4. status' = [status EXCEPT ![i] = request[h].new]
      BY <3>3 DEF SetStatus
    <3>5. Ledger!Answer(i) \/ UNCHANGED <<firstResponse, breached, breachEvents>>
      BY <2>0, <3>1, <3>2, <3>3, LedgerSetStatus
    <3>6. QED BY <1>0, <2>0, <3>1, <3>3, <3>4, <3>5, Unset, LedgerHandle
  <2>3. CASE StatusRecord(h)
    <3>1. /\ request[h].pc # "idle"
          /\ UNCHANGED <<now, status, severity, created>>
          /\ \/ CheckFirstResponse(i, now)
             \/ UNCHANGED <<firstResponse, breached, breachEvents>>
      BY <2>3 DEF StatusRecord
    <3>2. created[i] <= now
      BY <1>0, <2>0, <3>1 DEF Dated
    <3>3. Ledger!Answer(i) \/ UNCHANGED <<firstResponse, breached, breachEvents>>
      BY <1>0, <2>0, <3>1, <3>2, LedgerAnswer
    <3>4. QED BY <1>0, <2>0, <3>1, <3>3, Unset, LedgerHandle
  <2>4. ASSUME NEW j \in Incident, SendToCustomer(h, j) PROVE Ledger!Next
    <3>1. /\ Exists(j) /\ status' = [status EXCEPT ![j] = "sent to customer"]
          /\ UNCHANGED <<now, severity, created, firstResponse, breached, breachEvents>>
      BY <2>4 DEF SendToCustomer
    <3>2. "sent to customer" \in Status
      BY DEF Status
    <3>3. QED BY <1>0, <3>1, <3>2, Unset, LedgerHandle
  <2>5. CASE ReplyWrite(h)
    <3>1. /\ request[h].pc = "replied"
          /\ status' = [status EXCEPT ![i] = "sent to customer"]
          /\ UNCHANGED <<now, severity, created>>
          /\ \/ CheckFirstResponse(i, request[h].at)
             \/ UNCHANGED <<firstResponse, breached, breachEvents>>
      BY <2>5 DEF ReplyWrite
    <3>2. created[i] <= request[h].at
      BY <1>0, <3>1 DEF Dated
    <3>3. Ledger!Answer(i) \/ UNCHANGED <<firstResponse, breached, breachEvents>>
      BY <2>0, <3>1, <3>2, LedgerAnswer
    <3>4. "sent to customer" \in Status
      BY DEF Status
    <3>5. QED BY <1>0, <2>0, <3>1, <3>3, <3>4, Unset, LedgerHandle
  <2>6. QED BY <1>3, <2>1, <2>2, <2>3, <2>4, <2>5
           DEF HandlerStep, StatusRead, ReplyRead, RequestDies
<1>4. ASSUME NEW i \in Incident, RowStep(i) PROVE Ledger!Next
  <2>0. created[i] <= now
    BY <1>0 DEF Dated
  <2>1. ASSUME NEW s \in Requestable, NEW v \in Severity, Create(i, s, v)
        PROVE  Ledger!Next
    <3>1. s \in Status /\ status[i] = None
      BY <2>1, RequestableAssumption DEF Create, Exists
    <3>2. Ledger!Open(i)
      BY <2>1, <3>1 DEF Create, Ledger!Open
    <3>3. QED BY <3>2 DEF Ledger!Next
  <2>2. ASSUME NEW s \in Requestable \cup {None}, NEW v \in Severity \cup {None},
               Patch(i, s, v)
        PROVE  Ledger!Next
    <3>1. Exists(i) /\ UNCHANGED <<now, created, breached, breachEvents>>
      BY <2>2 DEF Patch
    <3>2. PICK w \in Severity : severity' = [severity EXCEPT ![i] = w]
      BY <1>0, <2>2, <3>1, Unset DEF Patch
    <3>3. CASE s = None
      <4>1. UNCHANGED <<status, firstResponse>>
        BY <2>2, <3>3 DEF Patch
      <4>2. QED BY <1>0, <3>1, <3>2, <4>1, Unset, LedgerHandle
    <3>4. CASE s # None
      <4>1. s \in Status /\ SetStatus(i, s, now)
        BY <2>2, <3>4, RequestableAssumption DEF Patch
      <4>2. Ledger!Answer(i) \/ UNCHANGED <<firstResponse, breached, breachEvents>>
        BY <1>0, <2>0, <3>1, <4>1, LedgerSetStatus
      <4>3. status' = [status EXCEPT ![i] = s]
        BY <4>1 DEF SetStatus
      <4>4. QED BY <1>0, <3>1, <3>2, <4>1, <4>2, <4>3, LedgerHandle
    <3>5. QED BY <3>3, <3>4
  <2>3. CASE Analyze(i)
    <3>1. /\ Exists(i) /\ status' = [status EXCEPT ![i] = "ai triaging"]
          /\ UNCHANGED <<now, severity, created, firstResponse, breached, breachEvents>>
      BY <2>3 DEF Analyze
    <3>2. "ai triaging" \in Status
      BY DEF Status
    <3>3. QED BY <1>0, <3>1, <3>2, Unset, LedgerHandle
  <2>4. CASE ItsmPush(i)
    <3>1. /\ Exists(i) /\ status' = [status EXCEPT ![i] = "sent to customer"]
          /\ UNCHANGED <<now, severity, created, breached, breachEvents>>
          /\ \/ firstResponse' = firstResponse
             \/ /\ firstResponse[i] = None
                /\ firstResponse' = [firstResponse EXCEPT ![i] = now]
      BY <2>4 DEF ItsmPush
    <3>2. Ledger!Answer(i) \/ UNCHANGED <<firstResponse, breached, breachEvents>>
      BY <1>0, <2>0, <3>1 DEF Ledger!Answer
    <3>3. "sent to customer" \in Status
      BY DEF Status
    <3>4. QED BY <1>0, <3>1, <3>2, <3>3, Unset, LedgerHandle
  <2>5. QED BY <1>4, <2>1, <2>2, <2>3, <2>4 DEF RowStep
<1>5. ASSUME NEW c \in Checker, CheckerStep(c) \/ Abort(c)
      PROVE  Ledger!Next \/ UNCHANGED Ledger!vars
  <2>1. CASE Commit(c)
    BY <2>1, LedgerJudge DEF Ledger!Next
  <2>2. CASE UNCHANGED <<now, rowVars, breached, breachEvents>>
    BY <1>1, <2>2
  <2>3. QED BY <1>5, <2>1, <2>2 DEF CheckerStep, Scan, CheckFirst, CheckResolution, Abort
<1>6. CASE UNCHANGED vars
  BY <1>1, <1>6 DEF vars
<1>7. QED BY <1>2, <1>3, <1>4, <1>5, <1>6 DEF Next

(* The clocks of the incident service, with the transactions, row locks    *)
(* and requests of incidents/sla.py, routes.py and mailing.py, implement   *)
(* the ledger: what a reader sees of the rows and their timeline is what   *)
(* verdicts reached in one step would have left.                           *)
THEOREM SlaImplementsLedger == Spec => LedgerSpec
<1>1. Init => Ledger!Init
  BY LedgerClock DEF Init, Ledger!Init
<1>2. QED BY <1>1, LedgerStep, LedgerInvariant, PTL DEF Spec, LedgerSpec, Ledger!Spec
=============================================================================
