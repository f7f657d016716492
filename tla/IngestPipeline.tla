---------------------------- MODULE IngestPipeline ----------------------------
(***************************************************************************)
(* From the vendor's console to the incidents table: the poll of an XSIAM  *)
(* connector (ingestion-service, scheduler.py and connectors/xsiam.py),    *)
(* the Redis fingerprints and queue, and the normalization worker          *)
(* (normalization-service, worker.py), with the analysts who change the    *)
(* same rows.                                                              *)
(*                                                                         *)
(* One connector is polled by one job at a time (max_instances=1) and one  *)
(* worker empties the queue.  An incident's version is what the pipeline   *)
(* looks at: its modification time, its alert count and its status.  Two   *)
(* modifications of one incident have different times.  The queue is kept  *)
(* per incident: items of different incidents may overtake each other      *)
(* here, which allows more behaviours than the one Redis list does.        *)
(***************************************************************************)
EXTENDS Integers, Sequences, FiniteSets

CONSTANTS
  Incident,
  Reported,    \* statuses the vendor's incidents take
  Settable,    \* statuses the analysts set
  PageSize,    \* incidents in the answer of the vendor (max_total)
  None,
  MaxTime,     \* bound on the clock
  MaxAlerts,   \* bound on the alerts of an incident
  Watched,     \* incidents that get alerts, and whose arrival is watched
  MaxFaults    \* bound on failures and expiries

ASSUME BoundAssumption ==
  MaxTime \in Nat \ {0} /\ MaxAlerts \in Nat /\ MaxFaults \in Nat /\ PageSize \in Nat

Time == 0..MaxTime
Status == {"new", "triaging", "in_progress", "resolved", "false_positive"}
Closed == {"resolved", "false_positive"}
Version == [mod : 1..MaxTime, alerts : 0..MaxAlerts, status : Reported]
Fingerprint == [mod : 1..MaxTime, alerts : 0..MaxAlerts]
Row == [mod : 1..MaxTime, status : Status]

ASSUME StatusAssumption == Settable \subseteq Status
ASSUME NoneAssumption == None \notin Version /\ None \notin Fingerprint /\ None \notin Row

VARIABLES
  now,
  vendor,     \* vendor[i]: the incident in the vendor's console
  lastPoll,   \* last_poll:<connector>, 0 when there is none
  poll,       \* the running poll and the incidents it fetched
  dedup,      \* dedup[i]: the fingerprint in Redis
  queue,      \* queue[i]: versions on soc:raw_incidents:queue
  hand,       \* hand[i]: the version the worker popped
  row,        \* row[i]: the incidents table
  missed,     \* incidents an answer of the vendor left out
  dropped,    \* incidents of which an item was lost or the row deleted
  faults

pollVars == <<lastPoll, poll, dedup, queue, missed>>
vars == <<now, vendor, pollVars, hand, row, dropped, faults>>

IdlePoll == [pc |-> "idle", batch |-> [i \in Incident |-> None]]

Init ==
  /\ now = 1
  /\ vendor = [i \in Incident |-> None]
  /\ lastPoll = 0
  /\ poll = IdlePoll
  /\ dedup = [i \in Incident |-> None]
  /\ queue = [i \in Incident |-> <<>>]
  /\ hand = [i \in Incident |-> None]
  /\ row = [i \in Incident |-> None]
  /\ missed = {}
  /\ dropped = {}
  /\ faults = 0

Tick ==
  /\ now < MaxTime
  /\ now' = now + 1
  /\ UNCHANGED <<vendor, pollVars, hand, row, dropped, faults>>

-----------------------------------------------------------------------------
(* The vendor.                                                             *)

(* A new incident, or a change the modification time tells.                *)
Modify(i, a, s) ==
  /\ a > 0 => i \in Watched
  /\ vendor[i] # None => vendor[i].mod < now
  /\ vendor' = [vendor EXCEPT ![i] = [mod |-> now, alerts |-> a, status |-> s]]
  /\ UNCHANGED <<now, pollVars, hand, row, dropped, faults>>

(* An alert is stitched in and the modification time stays.                *)
Stitch(i) ==
  /\ i \in Watched
  /\ vendor[i] # None /\ vendor[i].alerts < MaxAlerts
  /\ vendor' = [vendor EXCEPT ![i].alerts = @ + 1]
  /\ UNCHANGED <<now, pollVars, hand, row, dropped, faults>>

-----------------------------------------------------------------------------
(* The poll: fetch, enqueue, then move last_poll.                          *)

(* modification_time gte since.                                            *)
Visible == {i \in Incident : vendor[i] # None /\ vendor[i].mod >= lastPoll}

(* The newest PageSize of them, ties broken any way.                       *)
Pages == {p \in SUBSET Visible :
            /\ \/ p = Visible
               \/ Cardinality(p) = PageSize /\ PageSize < Cardinality(Visible)
            /\ PageSize >= Cardinality(p)
            /\ \A i \in p, j \in Visible \ p : vendor[i].mod >= vendor[j].mod}

PollFetch ==
  /\ poll.pc = "idle"
  /\ \E p \in Pages :
       /\ poll' = [pc |-> "fetched",
                   batch |-> [i \in Incident |-> IF i \in p THEN vendor[i] ELSE None]]
       /\ missed' = missed \cup (Visible \ p)
  /\ UNCHANGED <<now, vendor, lastPoll, dedup, queue, hand, row, dropped, faults>>

(* No credentials, or an answer without a reply: an empty list, no error.  *)
PollEmpty ==
  /\ poll.pc = "idle"
  /\ faults < MaxFaults
  /\ faults' = faults + 1
  /\ poll' = [IdlePoll EXCEPT !.pc = "fetched"]
  /\ missed' = missed \cup Visible
  /\ UNCHANGED <<now, vendor, lastPoll, dedup, queue, hand, row, dropped>>

(* Mutant: both the time and the alerts must have grown.                   *)
NewsOfBoth(i, v) ==
  dedup[i] = None \/ (v.mod > dedup[i].mod /\ v.alerts > dedup[i].alerts)

(* Enqueued again if modified later or if alerts were stitched in.         *)
News(i, v) ==
  \/ dedup[i] = None
  \/ v.mod > dedup[i].mod
  \/ v.alerts > dedup[i].alerts

Fresh == {i \in Incident : poll.batch[i] # None /\ News(i, poll.batch[i])}

(* MULTI ... EXEC: fingerprints and items together.                        *)
Enqueue ==
  /\ poll.pc = "fetched"
  /\ poll' = [IdlePoll EXCEPT !.pc = "enqueued"]
  /\ dedup' = [i \in Incident |->
       IF i \in Fresh THEN [mod |-> poll.batch[i].mod, alerts |-> poll.batch[i].alerts]
                      ELSE dedup[i]]
  /\ queue' = [i \in Incident |->
       IF i \in Fresh THEN Append(queue[i], poll.batch[i]) ELSE queue[i]]
  /\ UNCHANGED <<now, vendor, lastPoll, hand, missed, row, dropped, faults>>

(* last_poll is the time at the end of the poll.                           *)
MarkPolled ==
  /\ poll.pc = "enqueued"
  /\ lastPoll' = now
  /\ poll' = IdlePoll
  /\ UNCHANGED <<now, vendor, dedup, queue, hand, missed, row, dropped, faults>>

(* Mutant: the fingerprints are written before the items are pushed.       *)
PollFailsHalfway ==
  /\ poll.pc # "idle"
  /\ faults < MaxFaults
  /\ faults' = faults + 1
  /\ poll' = IdlePoll
  /\ dedup' = [i \in Incident |->
       IF i \in Fresh THEN [mod |-> poll.batch[i].mod, alerts |-> poll.batch[i].alerts]
                      ELSE dedup[i]]
  /\ UNCHANGED <<now, vendor, lastPoll, queue, hand, missed, row, dropped>>

(* An exception or a crash before last_poll is set: the next poll fetches  *)
(* from the same time again.                                               *)
PollFails ==
  /\ poll.pc # "idle"
  /\ faults < MaxFaults
  /\ faults' = faults + 1
  /\ poll' = IdlePoll
  /\ UNCHANGED <<now, vendor, lastPoll, dedup, queue, missed, hand, row, dropped>>

(* The fingerprint lives seven days.                                       *)
Expire(i) ==
  /\ dedup[i] # None
  /\ faults < MaxFaults
  /\ faults' = faults + 1
  /\ dedup' = [dedup EXCEPT ![i] = None]
  /\ UNCHANGED <<now, vendor, lastPoll, poll, queue, hand, missed, row, dropped>>

-----------------------------------------------------------------------------
(* The normalization worker.                                               *)

WorkerIdle == \A i \in Incident : hand[i] = None

(* Mutant: items are pushed on the side they are popped from.              *)
PopNewest(i) ==
  /\ WorkerIdle
  /\ queue[i] # <<>>
  /\ hand' = [hand EXCEPT ![i] = queue[i][Len(queue[i])]]
  /\ queue' = [queue EXCEPT ![i] = SubSeq(@, 1, Len(@) - 1)]
  /\ UNCHANGED <<now, vendor, lastPoll, poll, dedup, missed, row, dropped, faults>>

(* BLPOP: the oldest item.                                                 *)
Pop(i) ==
  /\ WorkerIdle
  /\ queue[i] # <<>>
  /\ hand' = [hand EXCEPT ![i] = Head(queue[i])]
  /\ queue' = [queue EXCEPT ![i] = Tail(@)]
  /\ UNCHANGED <<now, vendor, lastPoll, poll, dedup, missed, row, dropped, faults>>

(* _normalize_status: what the table does not name is new.                 *)
Normalized(s) ==
  CASE s = "under_investigation" -> "triaging"
    [] s = "resolved" -> "resolved"
    [] OTHER -> "new"

(* INSERT ... ON CONFLICT DO UPDATE: a closed incident stays as it is.     *)
Upserted(i) ==
  [mod |-> hand[i].mod,
   status |-> IF row[i] # None /\ row[i].status \in Closed
              THEN row[i].status ELSE Normalized(hand[i].status)]

Upsert(i) ==
  /\ hand[i] # None
  /\ row' = [row EXCEPT ![i] = Upserted(i)]
  /\ hand' = [hand EXCEPT ![i] = None]
  /\ UNCHANGED <<now, vendor, pollVars, dropped, faults>>

(* An exception, or the death of the worker: BLPOP took the item off.      *)
LoseItem(i) ==
  /\ hand[i] # None
  /\ faults < MaxFaults
  /\ faults' = faults + 1
  /\ hand' = [hand EXCEPT ![i] = None]
  /\ dropped' = dropped \cup {i}
  /\ UNCHANGED <<now, vendor, pollVars, row>>

-----------------------------------------------------------------------------
(* The analysts.                                                           *)

SetStatus(i, s) ==
  /\ row[i] # None
  /\ row' = [row EXCEPT ![i].status = s]
  /\ UNCHANGED <<now, vendor, pollVars, hand, dropped, faults>>

DeleteIncident(i) ==
  /\ row[i] # None
  /\ row' = [row EXCEPT ![i] = None]
  /\ dropped' = dropped \cup {i}
  /\ UNCHANGED <<now, vendor, pollVars, hand, faults>>

-----------------------------------------------------------------------------
PollStep == PollFetch \/ Enqueue \/ MarkPolled
WorkerStep == \E i \in Incident : Pop(i) \/ Upsert(i)
Faulty ==
  \/ PollEmpty
  \/ PollFails
  \/ \E i \in Incident : Expire(i) \/ LoseItem(i)
Vendor ==
  \E i \in Incident : Stitch(i) \/ \E a \in 0..MaxAlerts, s \in Reported : Modify(i, a, s)
Analyst ==
  \E i \in Incident : DeleteIncident(i) \/ \E s \in Settable : SetStatus(i, s)

Next == Tick \/ PollStep \/ WorkerStep \/ Faulty \/ Vendor \/ Analyst

Spec == Init /\ [][Next]_vars

(* The job runs at every interval and the worker loops for ever.           *)
FairSpec == Spec /\ WF_vars(PollStep) /\ WF_vars(WorkerStep)

-----------------------------------------------------------------------------
(* The variables keep their types: the fingerprints, batches and items are *)
(* versions of the vendor's incidents, and a row has a status of ours.     *)
TypeOK ==
  /\ now \in 1..MaxTime
  /\ vendor \in [Incident -> Version \cup {None}]
  /\ lastPoll \in Time
  /\ poll \in [pc : {"idle", "fetched", "enqueued"},
               batch : [Incident -> Version \cup {None}]]
  /\ dedup \in [Incident -> Fingerprint \cup {None}]
  /\ queue \in [Incident -> Seq(Version)]
  /\ hand \in [Incident -> Version \cup {None}]
  /\ row \in [Incident -> Row \cup {None}]
  /\ missed \subseteq Incident
  /\ dropped \subseteq Incident
  /\ faults \in 0..MaxFaults

(* The newest version of i the pipeline holds: behind it in the queue, in  *)
(* the worker's hand or already in the table.                              *)
Newest(i) ==
  IF queue[i] # <<>> THEN queue[i][Len(queue[i])].mod
  ELSE IF hand[i] # None THEN hand[i].mod
  ELSE IF row[i] # None THEN row[i].mod
  ELSE 0

(* A fingerprint, which makes the next polls skip the version, stands for  *)
(* a version that is still on its way or stored, unless an item was lost   *)
(* or an analyst deleted the row (scheduler.py:148-151).                   *)
NothingForgotten ==
  \A i \in Incident \ dropped : dedup[i] # None => dedup[i].mod = Newest(i)

(* The upsert does not compare times, so it is the queue that must keep an *)
(* older version from overwriting a newer one; and a newer version does    *)
(* not undo the closing of an incident (worker.py:88-104).                 *)
RowAdvances ==
  [][\A i \in Incident : (row[i] # None /\ row'[i] # None) =>
       /\ row'[i].mod >= row[i].mod
       /\ (row'[i].mod > row[i].mod /\ row[i].status \in Closed)
            => row'[i].status = row[i].status]_vars

(* What the table promises, whatever polls, expiries, losses and analysts  *)
(* interleave: a row only takes over a copy of its own incident that is    *)
(* not older than what it shows, and a closed one keeps its status         *)
(* (scheduler.py:95-153, worker.py:71-129).  A step of the pipeline is a   *)
(* step of Mirror or none.                                                 *)
Copies == [i \in Incident |->
  ({poll.batch[i], hand[i]} \cup {queue[i][k] : k \in 1..Len(queue[i])}) \ {None}]
Table == INSTANCE Mirror WITH copies <- Copies,
                              Normal <- [s \in Reported |-> Normalized(s)]
MirrorSpec == Table!Spec

(* What the vendor shows when no poll is running reaches the table in its  *)
(* version or a later one, whatever polls fail and fingerprints expire,    *)
(* unless an answer had no room for it or its item is lost                 *)
(* (scheduler.py:156-184, worker.py:149-198).                              *)
VisibleIsStored ==
  \A i \in Watched : \A t \in 1..MaxTime :
    (poll.pc = "idle" /\ i \in Visible /\ vendor[i].mod = t)
      ~> (i \in missed \cup dropped \/ (row[i] # None /\ row[i].mod >= t))
=============================================================================
