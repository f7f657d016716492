------------------------------ MODULE Escalation ------------------------------
(***************************************************************************)
(* Customer mail and its escalation (incident-service, mailing.py): a mail *)
(* to a level of the customer's team starts a timer; the escalation worker *)
(* of each process mails the next level when it runs out; the inbound      *)
(* poller of each process stops it when the customer answers.              *)
(*                                                                         *)
(* The worker selects the due rows FOR UPDATE SKIP LOCKED and walks over   *)
(* them, but send_incident_email commits the same session, so after the    *)
(* first row of a batch the others are no longer locked and their copy may *)
(* be stale.  A timer is abstracted to none (next_escalation_check_at is   *)
(* NULL), armed (in the future) and due (in the past).                     *)
(***************************************************************************)
EXTENDS Integers, FiniteSets

CONSTANTS
  Incident,
  Worker,      \* escalation workers, one per process
  Poller,      \* inbound mail pollers, one per process
  Request,     \* POST /{id}/send-email requests in progress
  MaxLevel,    \* levels the customer's team has
  Timed,       \* levels with an escalation time
  Settable,    \* statuses the requests of this instance ask for
  None,
  MaxSends,    \* bound on manual sends
  MaxCrashes   \* bound on failures of a background task

Level == 1..MaxLevel

ASSUME LevelAssumption == MaxLevel \in Nat /\ Timed \subseteq Level
ASSUME BoundAssumption == MaxSends \in Nat /\ MaxCrashes \in Nat
ASSUME NoneAssumption == None \notin Incident \X (0..MaxLevel)

(* new stands for every status the mail code does not tell apart.          *)
Status == {"new", "sent to customer", "customer response received",
           "resolved", "false_positive"}
ASSUME SettableAssumption == Settable \subseteq Status

Row == Incident \X (0..MaxLevel)   \* <<id, escalation_level>>

VARIABLES
  status,
  level,      \* level[i]: escalation_level
  timer,      \* timer[i]: next_escalation_check_at
  mailed,     \* mailed[i]: levels some mail went out to
  escalated,  \* escalated[i]: levels the worker mailed
  mailbox,    \* incidents with an UNSEEN reply on the IMAP server
  worker,     \* worker[w]: what the worker's coroutine holds
  poller,     \* poller[p]: replies found, then fetched, by the poller
  request,    \* request[q]: the row a manual send is about to record
  sends, crashes

rowVars == <<status, level, timer>>
mailVars == <<mailed, escalated, mailbox>>
vars == <<rowVars, mailVars, worker, poller, request, sends, crashes>>

IdleWorker == [pc |-> "loop", held |-> {}, batch |-> {}, cur |-> None]
IdlePoller == [found |-> {}, fetched |-> {}]

(* Mutant: the rows are selected without FOR UPDATE.                       *)
LockedNever(i) == FALSE
Locked(i) == \E w \in Worker : i \in worker[w].held
LockedByOther(w, i) == \E v \in Worker \ {w} : i \in worker[v].held

Init ==
  /\ status = [i \in Incident |-> "new"]
  /\ level = [i \in Incident |-> 0]
  /\ timer = [i \in Incident |-> "none"]
  /\ mailed = [i \in Incident |-> {}]
  /\ escalated = [i \in Incident |-> {}]
  /\ mailbox = {}
  /\ worker = [w \in Worker |-> IdleWorker]
  /\ poller = [p \in Poller |-> IdlePoller]
  /\ request = [q \in Request |-> None]
  /\ sends = 0
  /\ crashes = 0

(* next_escalation_check_at passes.                                        *)
TimerRunsOut(i) ==
  /\ timer[i] = "armed"
  /\ timer' = [timer EXCEPT ![i] = "due"]
  /\ UNCHANGED <<status, level, mailVars, worker, poller, request, sends, crashes>>

(* The UPDATE of send_incident_email, after the SMTP server took the mail. *)
RecordMail(i, l) ==
  /\ status' = [status EXCEPT ![i] = "sent to customer"]
  /\ level' = [level EXCEPT ![i] = l]
  /\ timer' = [timer EXCEPT ![i] = IF l \in Timed THEN "armed" ELSE "none"]

-----------------------------------------------------------------------------
(* The escalation worker.                                                  *)

(* One SELECT: ids and levels are copied, the rows stay locked.            *)
(* Mutant: FOR SHARE, which two workers hold at once, for FOR UPDATE SKIP   *)
(* LOCKED.                                                                 *)
DueShared(w) == {i \in Incident : timer[i] = "due" /\ status[i] # "resolved"}
Due(w) == {i \in Incident : /\ timer[i] = "due" /\ status[i] # "resolved"
                            /\ ~LockedByOther(w, i)}

Select(w) ==
  /\ worker[w] = IdleWorker
  /\ Due(w) # {}
  /\ worker' = [worker EXCEPT ![w] =
       [IdleWorker EXCEPT !.held = Due(w),
                          !.batch = {<<i, level[i]>> : i \in Due(w)}]]
  /\ UNCHANGED <<rowVars, mailVars, poller, request, sends, crashes>>

(* The next row of the batch; its status is not looked at again.           *)
Deliver(w, r) ==
  /\ worker[w].pc = "loop" /\ r \in worker[w].batch
  /\ r[2] + 1 \in Level
  /\ mailed' = [mailed EXCEPT ![r[1]] = @ \cup {r[2] + 1}]
  /\ escalated' = [escalated EXCEPT ![r[1]] = @ \cup {r[2] + 1}]
  /\ worker' = [worker EXCEPT ![w].pc = "sent", ![w].batch = @ \ {r},
                              ![w].cur = <<r[1], r[2] + 1>>]
  /\ UNCHANGED <<rowVars, mailbox, poller, request, sends, crashes>>

(* Mutants: a mail the server refused is recorded as sent; a failure       *)
(* leaves the timer running.                                               *)
RefuseAsSent(w, r) ==
  /\ worker[w].pc = "loop" /\ r \in worker[w].batch
  /\ worker' = [worker EXCEPT ![w].pc = "sent", ![w].batch = @ \ {r},
                              ![w].cur = <<r[1], r[2] + 1>>]
  /\ UNCHANGED <<rowVars, mailVars, poller, request, sends, crashes>>
RefuseKeepsTimer(w, r) ==
  /\ worker[w].pc = "loop" /\ r \in worker[w].batch
  /\ worker' = [worker EXCEPT ![w].batch = @ \ {r}, ![w].held = {}]
  /\ UNCHANGED <<rowVars, mailVars, poller, request, sends, crashes>>

(* No such level, nobody to write to, no configuration or an SMTP error.   *)
Refuse(w, r) ==
  /\ worker[w].pc = "loop" /\ r \in worker[w].batch
  /\ worker' = [worker EXCEPT ![w].pc = "clear", ![w].batch = @ \ {r},
                              ![w].cur = r]
  /\ UNCHANGED <<rowVars, mailVars, poller, request, sends, crashes>>

(* UPDATE and COMMIT: every row of the batch is unlocked, not only this.   *)
Committed(w) == [worker EXCEPT ![w].pc = "loop", ![w].held = {}, ![w].cur = None]

RecordEscalation(w) ==
  /\ worker[w].pc = "sent"
  /\ ~LockedByOther(w, worker[w].cur[1])
  /\ RecordMail(worker[w].cur[1], worker[w].cur[2])
  /\ worker' = Committed(w)
  /\ UNCHANGED <<mailVars, poller, request, sends, crashes>>

ClearTimer(w) ==
  /\ worker[w].pc = "clear"
  /\ ~LockedByOther(w, worker[w].cur[1])
  /\ timer' = [timer EXCEPT ![worker[w].cur[1]] = "none"]
  /\ worker' = Committed(w)
  /\ UNCHANGED <<status, level, mailVars, poller, request, sends, crashes>>

(* An exception, or the death of the process: the batch is dropped, the    *)
(* transaction rolled back, a mail that went out stays out.                *)
WorkerFails(w) ==
  /\ worker[w] # IdleWorker
  /\ crashes < MaxCrashes
  /\ crashes' = crashes + 1
  /\ worker' = [worker EXCEPT ![w] = IdleWorker]
  /\ UNCHANGED <<rowVars, mailVars, poller, request, sends>>

-----------------------------------------------------------------------------
(* Requests.                                                               *)

(* POST /{id}/send-email: the mail goes out before the row is written.     *)
SendEmail(q, i, l) ==
  /\ request[q] = None
  /\ sends < MaxSends
  /\ sends' = sends + 1
  /\ mailed' = [mailed EXCEPT ![i] = @ \cup {l}]
  /\ request' = [request EXCEPT ![q] = <<i, l>>]
  /\ UNCHANGED <<rowVars, escalated, mailbox, worker, poller, crashes>>

RecordSend(q) ==
  /\ request[q] # None
  /\ ~Locked(request[q][1])
  /\ RecordMail(request[q][1], request[q][2])
  /\ request' = [request EXCEPT ![q] = None]
  /\ UNCHANGED <<mailVars, worker, poller, sends, crashes>>

(* POST /{id}/reply: the timer is left as it is.                           *)
AnalystReply(i) ==
  /\ ~Locked(i)
  /\ status' = [status EXCEPT ![i] = "sent to customer"]
  /\ UNCHANGED <<level, timer, mailVars, worker, poller, request, sends, crashes>>

(* PATCH /{id}/status and PATCH /{id}: the timer is left as it is.         *)
SetStatus(i, s) ==
  /\ ~Locked(i)
  /\ status' = [status EXCEPT ![i] = s]
  /\ UNCHANGED <<level, timer, mailVars, worker, poller, request, sends, crashes>>

-----------------------------------------------------------------------------
(* Replies.                                                                *)

CustomerReplies(i) ==
  /\ mailed[i] # {} /\ i \notin mailbox
  /\ mailbox' = mailbox \cup {i}
  /\ UNCHANGED <<rowVars, mailed, escalated, worker, poller, request, sends, crashes>>

(* search UNSEEN ...                                                       *)
PollSearch(p) ==
  /\ poller[p] = IdlePoller
  /\ mailbox # {}
  /\ poller' = [poller EXCEPT ![p].found = mailbox]
  /\ UNCHANGED <<rowVars, mailVars, worker, request, sends, crashes>>

(* ... then fetch, which marks the messages seen whoever else found them.  *)
PollFetch(p) ==
  /\ poller[p].found # {}
  /\ poller' = [poller EXCEPT ![p] = [found |-> {}, fetched |-> poller[p].found]]
  /\ mailbox' = mailbox \ poller[p].found
  /\ UNCHANGED <<rowVars, mailed, escalated, worker, request, sends, crashes>>

(* One reply, committed: the status moves and the timer is cleared.        *)
RecordReply(p, i) ==
  /\ i \in poller[p].fetched
  /\ ~Locked(i)
  /\ status' = [status EXCEPT ![i] = "customer response received"]
  /\ timer' = [timer EXCEPT ![i] = "none"]
  /\ poller' = [poller EXCEPT ![p].fetched = @ \ {i}]
  /\ UNCHANGED <<level, mailVars, worker, request, sends, crashes>>

(* The fetched messages are seen and forgotten.                            *)
PollerFails(p) ==
  /\ poller[p] # IdlePoller
  /\ crashes < MaxCrashes
  /\ crashes' = crashes + 1
  /\ poller' = [poller EXCEPT ![p] = IdlePoller]
  /\ UNCHANGED <<rowVars, mailVars, worker, request, sends>>

-----------------------------------------------------------------------------
WorkerStep(w) ==
  \/ Select(w)
  \/ \E r \in worker[w].batch : Deliver(w, r) \/ Refuse(w, r)
  \/ RecordEscalation(w)
  \/ ClearTimer(w)

PollerStep(p) ==
  \/ PollSearch(p)
  \/ PollFetch(p)
  \/ \E i \in Incident : RecordReply(p, i)

RequestStep(q) ==
  \/ \E i \in Incident, l \in Level : SendEmail(q, i, l)
  \/ RecordSend(q)

Environment(i) ==
  \/ TimerRunsOut(i)
  \/ AnalystReply(i)
  \/ \E s \in Settable : SetStatus(i, s)
  \/ CustomerReplies(i)

Next ==
  \/ \E w \in Worker : WorkerStep(w) \/ WorkerFails(w)
  \/ \E p \in Poller : PollerStep(p) \/ PollerFails(p)
  \/ \E q \in Request : RequestStep(q)
  \/ \E i \in Incident : Environment(i)

Spec == Init /\ [][Next]_vars

(* The workers loop for ever, sleeping a minute between two cycles.        *)
FairSpec == Spec /\ \A w \in Worker : WF_vars(WorkerStep(w))

-----------------------------------------------------------------------------
TypeOK ==
  /\ status \in [Incident -> Status]
  /\ level \in [Incident -> 0..MaxLevel]
  /\ timer \in [Incident -> {"none", "armed", "due"}]
  /\ mailed \in [Incident -> SUBSET Level]
  /\ escalated \in [Incident -> SUBSET Level]
  /\ mailbox \subseteq Incident
  /\ worker \in [Worker -> [pc : {"loop", "sent", "clear"},
                            held : SUBSET Incident, batch : SUBSET Row,
                            cur : Row \cup {None}]]
  /\ poller \in [Poller -> [found : SUBSET Incident, fetched : SUBSET Incident]]
  /\ request \in [Request -> (Incident \X Level) \cup {None}]
  /\ sends \in 0..MaxSends
  /\ crashes \in 0..MaxCrashes

(* As long as a row of the batch is locked, the worker's copy of it is the *)
(* row: still due, not resolved, at the level that was read.               *)
LockedCopyIsCurrent ==
  \A w \in Worker : \A r \in worker[w].batch :
    r[1] \in worker[w].held =>
      /\ level[r[1]] = r[2]
      /\ timer[r[1]] = "due"
      /\ status[r[1]] # "resolved"

(* A worker that has to wait for another worker's row holds none itself,   *)
(* so two workers never wait for each other although a batch locks many    *)
(* rows in no particular order.                                            *)
HoldersNeverWait ==
  \A w \in Worker :
    worker[w].pc # "loop" /\ worker[w].held # {}
      => ~LockedByOther(w, worker[w].cur[1])

(* Nobody is escalated to over the heads of the level below, and a running *)
(* timer is the timer of a level that was mailed.                          *)
EscalationClimbs ==
  \A i \in Incident :
    /\ \A l \in escalated[i] : l > 1 /\ l - 1 \in mailed[i]
    /\ timer[i] # "none" => level[i] \in mailed[i] \cap Timed

(* An overdue timer is dealt with: the next level is mailed or the timer   *)
(* is cleared, however the workers interleave.                             *)
OverdueIsHandled ==
  \A i \in Incident :
    (timer[i] = "due" /\ status[i] # "resolved")
      ~> (timer[i] # "due" \/ status[i] = "resolved")

(* The comment at mailing.py:780, "locking them to prevent double          *)
(* escalation": a level is mailed from the level the row is at.            *)
EscalatesFromCurrentLevel ==
  [][\A w \in Worker : \A r \in worker[w].batch :
       Deliver(w, r) => level[r[1]] = r[2]]_vars
=============================================================================
