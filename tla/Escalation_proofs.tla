-------------------------- MODULE Escalation_proofs --------------------------
(***************************************************************************)
(* Proofs about Escalation, for any incidents, workers, pollers, requests, *)
(* levels and bounds.  The inductive invariant IInv adds to the properties *)
(* what makes them hold: locked rows are exclusive, a worker that still    *)
(* holds its rows has not left them, and every level that is remembered    *)
(* anywhere, in a row, a batch or a request, was mailed.                   *)
(***************************************************************************)
EXTENDS Escalation, TLAPS

USE LevelAssumption, BoundAssumption, NoneAssumption

WorkerType == [pc : {"loop", "sent", "clear"}, held : SUBSET Incident,
               batch : SUBSET Row, cur : Row \cup {None}]
PollerType == [found : SUBSET Incident, fetched : SUBSET Incident]

(* Two workers never hold the same row.                                    *)
LocksExclusive ==
  \A w, v \in Worker : w # v => worker[w].held \cap worker[v].held = {}

(* A worker that holds rows is still within the first row of its batch.    *)
WithinBatch ==
  \A w \in Worker :
    /\ worker[w].pc # "loop" => worker[w].cur # None
    /\ worker[w].held # {} =>
         /\ \A r \in worker[w].batch : r[1] \in worker[w].held
         /\ worker[w].pc # "loop" => worker[w].cur[1] \in worker[w].held

(* Every level that is remembered was mailed.                              *)
LevelsMailed ==
  /\ \A w \in Worker :
       /\ \A r \in worker[w].batch : r[2] \in mailed[r[1]]
       /\ worker[w].pc = "sent" => worker[w].cur[2] \in mailed[worker[w].cur[1]]
  /\ \A q \in Request : request[q] # None => request[q][2] \in mailed[request[q][1]]

IInv == /\ TypeOK
        /\ LocksExclusive
        /\ WithinBatch
        /\ LockedCopyIsCurrent
        /\ LevelsMailed
        /\ EscalationClimbs

LEMMA IdleTypes == IdleWorker \in WorkerType /\ IdlePoller \in PollerType
  BY DEF IdleWorker, IdlePoller, WorkerType, PollerType

LEMMA InvInit == Init => IInv
<1> SUFFICES ASSUME Init PROVE IInv
  OBVIOUS
<1> USE DEF Init
<1>1. TypeOK
  <2>1. worker \in [Worker -> WorkerType] /\ poller \in [Poller -> PollerType]
    BY IdleTypes
  <2>2. QED BY <2>1 DEF TypeOK, WorkerType, PollerType, Status
<1>2. LocksExclusive /\ WithinBatch /\ LockedCopyIsCurrent /\ LevelsMailed
  BY DEF LocksExclusive, WithinBatch, LockedCopyIsCurrent, LevelsMailed, IdleWorker
<1>3. EscalationClimbs
  BY DEF EscalationClimbs
<1>4. QED BY <1>1, <1>2, <1>3 DEF IInv

-----------------------------------------------------------------------------
(* A statement that writes row i waits until nobody, or nobody else, holds *)
(* it: the copies that are still locked stay current.                      *)
LEMMA WriteKeepsCopies ==
  ASSUME IInv, NEW i \in Incident,
         \A j \in Incident \ {i} : /\ status'[j] = status[j]
                                   /\ level'[j] = level[j]
                                   /\ timer'[j] = timer[j],
         \A w \in Worker : /\ worker'[w].held \subseteq worker[w].held \ {i}
                           /\ worker'[w].batch \subseteq worker[w].batch
  PROVE  LockedCopyIsCurrent'
<1> SUFFICES ASSUME NEW w \in Worker, NEW r \in worker'[w].batch,
                    r[1] \in worker'[w].held
             PROVE  /\ level'[r[1]] = r[2]
                    /\ timer'[r[1]] = "due"
                    /\ status'[r[1]] # "resolved"
  BY DEF LockedCopyIsCurrent
<1>1. r \in worker[w].batch /\ r[1] \in worker[w].held /\ r[1] # i
  OBVIOUS
<1>2. r[1] \in Incident
  BY <1>1 DEF IInv, TypeOK
<1>3. QED BY <1>1, <1>2 DEF IInv, LockedCopyIsCurrent

(* The same statement as seen by the other parts of the invariant, when no *)
(* worker moves: a request or a poller writes the row.                     *)
LEMMA OutsideWrite ==
  ASSUME IInv, NEW i \in Incident, ~Locked(i), worker' = worker,
         \A j \in Incident \ {i} : /\ status'[j] = status[j]
                                   /\ level'[j] = level[j]
                                   /\ timer'[j] = timer[j]
  PROVE  LocksExclusive' /\ WithinBatch' /\ LockedCopyIsCurrent'
<1>1. LocksExclusive' /\ WithinBatch'
  BY DEF IInv, LocksExclusive, WithinBatch
<1>2. \A w \in Worker : worker'[w].held \subseteq worker[w].held \ {i}
  BY DEF Locked
<1>3. LockedCopyIsCurrent'
  BY <1>2, WriteKeepsCopies
<1>4. QED BY <1>1, <1>3

(* Once a level is mailed, recording it keeps timers on mailed levels.     *)
LEMMA RecordMailClimbs ==
  ASSUME IInv, NEW i \in Incident, NEW l \in Level, l \in mailed[i],
         RecordMail(i, l), UNCHANGED mailVars
  PROVE  /\ EscalationClimbs'
         /\ status' \in [Incident -> Status]
         /\ level' \in [Incident -> 0..MaxLevel]
         /\ timer' \in [Incident -> {"none", "armed", "due"}]
         /\ \A j \in Incident \ {i} : /\ status'[j] = status[j]
                                      /\ level'[j] = level[j]
                                      /\ timer'[j] = timer[j]
<1>0. l \in 0..MaxLevel
  BY DEF Level
<1> USE DEF IInv, TypeOK, RecordMail, mailVars
<1>1. /\ status' \in [Incident -> Status]
      /\ level' \in [Incident -> 0..MaxLevel]
      /\ timer' \in [Incident -> {"none", "armed", "due"}]
  <2>1. status' \in [Incident -> Status]
    BY DEF Status
  <2>2. level' \in [Incident -> 0..MaxLevel]
    BY <1>0
  <2>3. timer' \in [Incident -> {"none", "armed", "due"}]
    OBVIOUS
  <2>4. QED BY <2>1, <2>2, <2>3
<1>2. \A j \in Incident \ {i} : /\ status'[j] = status[j]
                                /\ level'[j] = level[j]
                                /\ timer'[j] = timer[j]
  OBVIOUS
<1>3. level'[i] = l /\ (timer'[i] # "none" => l \in Timed)
  OBVIOUS
<1>4. EscalationClimbs'
  BY <1>2, <1>3 DEF EscalationClimbs
<1>5. QED BY <1>1, <1>2, <1>4

-----------------------------------------------------------------------------
(* One lemma per group of actions.                                         *)

LEMMA SelectKeeps ==
  ASSUME IInv, NEW w \in Worker, Select(w)
  PROVE  IInv'
<1> USE DEF IInv, rowVars, mailVars
<1> DEFINE n == [IdleWorker EXCEPT !.held = Due(w),
                                   !.batch = {<<i, level[i]>> : i \in Due(w)}]
<1>1. /\ n.pc = "loop" /\ n.held = Due(w) /\ n.cur = None
      /\ n.batch = {<<i, level[i]>> : i \in Due(w)}
  BY DEF IdleWorker
<1>2. worker' = [worker EXCEPT ![w] = n]
      /\ UNCHANGED <<rowVars, mailVars, poller, request, sends, crashes>>
  BY DEF Select
<1>3. Due(w) \subseteq Incident /\ n.batch \subseteq Row
  BY <1>1 DEF Due, Row, TypeOK
<1>4. n \in WorkerType
  BY <1>3 DEF IdleWorker, WorkerType
<1> HIDE DEF n
<1>5. worker'[w] = n /\ \A v \in Worker \ {w} : worker'[v] = worker[v]
  BY <1>2 DEF TypeOK
<1>6. TypeOK'
  BY <1>2, <1>4 DEF TypeOK, WorkerType
<1>7. LocksExclusive'
  <2>1. \A v \in Worker \ {w} : Due(w) \cap worker[v].held = {}
    BY DEF Due, LockedByOther
  <2>2. QED BY <1>1, <1>5, <2>1 DEF LocksExclusive
<1>8. WithinBatch'
  BY <1>1, <1>5 DEF WithinBatch
<1>9. LockedCopyIsCurrent'
  BY <1>1, <1>2, <1>5 DEF LockedCopyIsCurrent, Due
<1>10. LevelsMailed'
  <2>1. \A i \in Due(w) : level[i] \in mailed[i]
    BY DEF Due, EscalationClimbs
  <2>2. QED BY <1>1, <1>2, <1>5, <2>1 DEF LevelsMailed
<1>11. EscalationClimbs'
  BY <1>2 DEF EscalationClimbs
<1>12. QED BY <1>6, <1>7, <1>8, <1>9, <1>10, <1>11

(* The worker leaves row r of its batch with cur in hand.                  *)
LEMMA AttemptKeeps ==
  ASSUME IInv, NEW w \in Worker, NEW r \in worker[w].batch,
         Deliver(w, r) \/ Refuse(w, r)
  PROVE  IInv'
<1> USE DEF IInv, rowVars, mailVars
<1>1. /\ r \in Row /\ r[1] \in Incident /\ r[2] \in 0..MaxLevel
      /\ r[2] \in mailed[r[1]]
      /\ worker[w] \in WorkerType /\ worker \in [Worker -> WorkerType]
  BY DEF TypeOK, WorkerType, Row, LevelsMailed
<1>2. PICK s \in WorkerType :
        /\ worker' = [worker EXCEPT ![w] = s]
        /\ s.held = worker[w].held /\ s.batch = worker[w].batch \ {r}
        /\ s.cur \in Row /\ s.cur[1] = r[1]
        /\ \/ s.pc = "clear" /\ mailed' = mailed /\ escalated' = escalated
           \/ /\ s.pc = "sent" /\ s.cur[2] = r[2] + 1 /\ r[2] + 1 \in Level
              /\ mailed' = [mailed EXCEPT ![r[1]] = @ \cup {r[2] + 1}]
              /\ escalated' = [escalated EXCEPT ![r[1]] = @ \cup {r[2] + 1}]
  <2>1. CASE Deliver(w, r)
    <3> DEFINE c == <<r[1], r[2] + 1>>
               s == [worker[w] EXCEPT !.pc = "sent", !.batch = @ \ {r}, !.cur = c]
    <3>1. c \in Row /\ c[1] = r[1] /\ c[2] = r[2] + 1
      BY <1>1, <2>1 DEF Deliver, Level, Row
    <3> HIDE DEF c
    <3>2. s \in WorkerType /\ s.pc = "sent" /\ s.held = worker[w].held
          /\ s.batch = worker[w].batch \ {r} /\ s.cur = c
      BY <1>1, <3>1 DEF WorkerType
    <3>3. worker' = [worker EXCEPT ![w] = s]
      BY <2>1, <1>1 DEF Deliver, WorkerType, c
    <3> HIDE DEF s
    <3>4. QED BY <2>1, <3>1, <3>2, <3>3 DEF Deliver
  <2>2. CASE Refuse(w, r)
    <3> DEFINE s == [worker[w] EXCEPT !.pc = "clear", !.batch = @ \ {r}, !.cur = r]
    <3>1. s \in WorkerType /\ s.pc = "clear" /\ s.held = worker[w].held
          /\ s.batch = worker[w].batch \ {r} /\ s.cur = r
      BY <1>1 DEF WorkerType
    <3>2. worker' = [worker EXCEPT ![w] = s]
      BY <2>2, <1>1 DEF Refuse, WorkerType
    <3> HIDE DEF s
    <3>3. QED BY <1>1, <2>2, <3>1, <3>2 DEF Refuse
  <2>3. QED BY <2>1, <2>2
<1>3. /\ UNCHANGED <<rowVars, mailbox, poller, request, sends, crashes>>
      /\ worker[w].pc = "loop"
  BY DEF Deliver, Refuse
<1>4. worker'[w] = s /\ \A v \in Worker \ {w} : worker'[v] = worker[v]
  BY <1>1, <1>2
<1>5. \A i \in Incident : mailed[i] \subseteq mailed'[i]
  BY <1>1, <1>2 DEF TypeOK
<1>6. TypeOK'
  <2>1. worker' \in [Worker -> WorkerType]
    BY <1>1, <1>2
  <2>2. mailed' \in [Incident -> SUBSET Level] /\ escalated' \in [Incident -> SUBSET Level]
    BY <1>1, <1>2 DEF TypeOK
  <2>3. QED BY <1>3, <2>1, <2>2 DEF TypeOK, WorkerType
<1>7. LocksExclusive'
  BY <1>2, <1>4 DEF LocksExclusive
<1>8. WithinBatch'
  <2>1. s.cur # None
    BY <1>2 DEF Row
  <2>2. ASSUME NEW v \in Worker
        PROVE  /\ worker'[v].pc # "loop" => worker'[v].cur # None
               /\ worker'[v].held # {} =>
                    /\ \A x \in worker'[v].batch : x[1] \in worker'[v].held
                    /\ worker'[v].pc # "loop" => worker'[v].cur[1] \in worker'[v].held
    <3>1. CASE v = w
      BY <1>2, <1>4, <2>1, <3>1 DEF WithinBatch
    <3>2. CASE v # w
      BY <1>4, <3>2 DEF WithinBatch
    <3>3. QED BY <3>1, <3>2
  <2>3. QED BY <2>2 DEF WithinBatch
<1>9. LockedCopyIsCurrent'
  BY <1>2, <1>3, <1>4 DEF LockedCopyIsCurrent
<1>10. LevelsMailed'
  <2>1. ASSUME NEW v \in Worker, NEW x \in worker'[v].batch
        PROVE  x[2] \in mailed'[x[1]]
    <3>1. x \in worker[v].batch
      BY <1>2, <1>4
    <3>2. x[1] \in Incident
      BY <3>1 DEF TypeOK, Row
    <3>3. QED BY <1>5, <3>1, <3>2 DEF LevelsMailed
  <2>2. ASSUME NEW v \in Worker, worker'[v].pc = "sent"
        PROVE  worker'[v].cur[2] \in mailed'[worker'[v].cur[1]]
    <3>1. CASE v = w
      BY <1>1, <1>2, <1>4, <2>2, <3>1 DEF TypeOK
    <3>2. CASE v # w
      <4>1. worker[v].cur # None /\ worker[v].cur \in Row \cup {None}
        BY <1>4, <2>2, <3>2 DEF WithinBatch, TypeOK
      <4>2. worker[v].cur[1] \in Incident
        BY <4>1 DEF Row
      <4>3. QED BY <1>4, <1>5, <2>2, <3>2, <4>2 DEF LevelsMailed
    <3>3. QED BY <3>1, <3>2
  <2>3. ASSUME NEW q \in Request, request'[q] # None
        PROVE  request'[q][2] \in mailed'[request'[q][1]]
    <3>1. request[q] \in Incident \X Level
      BY <1>3, <2>3 DEF TypeOK
    <3>2. QED BY <1>3, <1>5, <2>3, <3>1 DEF LevelsMailed
  <2>4. QED BY <2>1, <2>2, <2>3 DEF LevelsMailed
<1>11. EscalationClimbs'
  <2>1. ASSUME NEW i \in Incident, NEW l \in escalated'[i]
        PROVE  l > 1 /\ l - 1 \in mailed'[i]
    <3>1. CASE l \in escalated[i]
      BY <1>5, <2>1, <3>1 DEF EscalationClimbs
    <3>2. CASE l \notin escalated[i]
      <4>1. i = r[1] /\ l = r[2] + 1
        BY <1>1, <1>2, <2>1, <3>2 DEF TypeOK
      <4>2. r[2] \in Level
        BY <1>1 DEF TypeOK
      <4>3. QED BY <1>1, <1>5, <4>1, <4>2 DEF Level
    <3>3. QED BY <3>1, <3>2
  <2>2. \A i \in Incident : timer'[i] # "none" => level'[i] \in mailed'[i] \cap Timed
    BY <1>3, <1>5 DEF EscalationClimbs
  <2>3. QED BY <2>1, <2>2 DEF EscalationClimbs
<1>12. QED BY <1>6, <1>7, <1>8, <1>9, <1>10, <1>11

(* UPDATE and COMMIT of the row in hand: all rows of the batch are freed.  *)
LEMMA CommittedFacts ==
  ASSUME TypeOK, NEW w \in Worker, worker' = Committed(w)
  PROVE  /\ worker' \in [Worker -> WorkerType]
         /\ worker'[w].pc = "loop" /\ worker'[w].held = {}
         /\ worker'[w].batch = worker[w].batch
         /\ \A v \in Worker \ {w} : worker'[v] = worker[v]
<1> DEFINE s == [worker[w] EXCEPT !.pc = "loop", !.held = {}, !.cur = None]
<1>1. worker \in [Worker -> WorkerType] /\ worker[w] \in WorkerType
  BY DEF TypeOK, WorkerType
<1>2. s \in WorkerType /\ s.pc = "loop" /\ s.held = {} /\ s.batch = worker[w].batch
  BY <1>1 DEF WorkerType
<1>3. worker' = [worker EXCEPT ![w] = s]
  BY <1>1 DEF Committed, WorkerType
<1> HIDE DEF s
<1>4. QED BY <1>1, <1>2, <1>3

LEMMA CommitKeeps ==
  ASSUME IInv, NEW w \in Worker, RecordEscalation(w) \/ ClearTimer(w)
  PROVE  IInv'
<1> USE DEF IInv
<1> DEFINE i == worker[w].cur[1]
           l == worker[w].cur[2]
<1>1. worker[w].pc # "loop" /\ ~LockedByOther(w, i) /\ worker' = Committed(w)
      /\ UNCHANGED <<mailVars, poller, request, sends, crashes>>
  BY DEF RecordEscalation, ClearTimer
<1>2. i \in Incident /\ l \in 0..MaxLevel
  <2>1. worker[w].cur \in Row
    BY <1>1 DEF WithinBatch, TypeOK
  <2>2. QED BY <2>1 DEF Row
<1>3. /\ EscalationClimbs'
      /\ status' \in [Incident -> Status]
      /\ level' \in [Incident -> 0..MaxLevel]
      /\ timer' \in [Incident -> {"none", "armed", "due"}]
      /\ \A j \in Incident \ {i} : /\ status'[j] = status[j]
                                   /\ level'[j] = level[j]
                                   /\ timer'[j] = timer[j]
  <2>1. CASE RecordEscalation(w)
    <3>1. l \in mailed[i] /\ RecordMail(i, l)
      BY <2>1 DEF RecordEscalation, LevelsMailed
    <3>2. l \in Level
      BY <1>2, <3>1 DEF TypeOK
    <3> HIDE DEF i, l
    <3>3. QED BY <1>1, <1>2, <3>1, <3>2, RecordMailClimbs
  <2>2. CASE ClearTimer(w)
    <3>1. timer' = [timer EXCEPT ![i] = "none"] /\ UNCHANGED <<status, level, mailVars>>
      BY <2>2 DEF ClearTimer
    <3> HIDE DEF i
    <3>2. QED BY <1>2, <3>1 DEF TypeOK, EscalationClimbs, mailVars
  <2>3. QED BY <2>1, <2>2
<1>4. /\ worker' \in [Worker -> WorkerType]
      /\ worker'[w].pc = "loop" /\ worker'[w].held = {}
      /\ worker'[w].batch = worker[w].batch
      /\ \A v \in Worker \ {w} : worker'[v] = worker[v]
  BY <1>1, CommittedFacts
<1> HIDE DEF l
<1>5. TypeOK'
  BY <1>1, <1>3, <1>4 DEF TypeOK, WorkerType, mailVars
<1>6. LocksExclusive' /\ WithinBatch'
  BY <1>4 DEF LocksExclusive, WithinBatch
<1>7. LockedCopyIsCurrent'
  <2>1. \A v \in Worker : /\ worker'[v].held \subseteq worker[v].held \ {i}
                          /\ worker'[v].batch \subseteq worker[v].batch
    BY <1>1, <1>4 DEF LockedByOther
  <2> HIDE DEF i
  <2>2. QED BY <1>2, <1>3, <2>1, WriteKeepsCopies
<1>8. LevelsMailed'
  <2>1. \A v \in Worker : worker'[v].batch = worker[v].batch
    BY <1>4
  <2>2. \A v \in Worker : worker'[v].pc = "sent" => worker'[v] = worker[v]
    BY <1>4
  <2>3. QED BY <1>1, <2>1, <2>2 DEF LevelsMailed, mailVars
<1>9. QED BY <1>3, <1>5, <1>6, <1>7, <1>8

LEMMA WorkerFailsKeeps ==
  ASSUME IInv, NEW w \in Worker, WorkerFails(w)
  PROVE  IInv'
<1> USE DEF IInv, rowVars, mailVars
<1>1. /\ worker' = [worker EXCEPT ![w] = IdleWorker] /\ crashes < MaxCrashes
      /\ crashes' = crashes + 1
      /\ UNCHANGED <<rowVars, mailVars, poller, request, sends>>
  BY DEF WorkerFails
<1>2. worker'[w] = IdleWorker /\ \A v \in Worker \ {w} : worker'[v] = worker[v]
  BY <1>1 DEF TypeOK
<1>3. IdleWorker.held = {} /\ IdleWorker.batch = {} /\ IdleWorker.pc = "loop"
  BY DEF IdleWorker
<1>4. TypeOK'
  BY <1>1, IdleTypes DEF TypeOK, WorkerType
<1>5. LocksExclusive' /\ WithinBatch'
  BY <1>2, <1>3 DEF LocksExclusive, WithinBatch
<1>6. LockedCopyIsCurrent' /\ LevelsMailed' /\ EscalationClimbs'
  BY <1>1, <1>2, <1>3 DEF LockedCopyIsCurrent, LevelsMailed, EscalationClimbs
<1>7. QED BY <1>4, <1>5, <1>6

LEMMA PollerKeeps ==
  ASSUME IInv, NEW p \in Poller, PollerStep(p) \/ PollerFails(p)
  PROVE  IInv'
<1> USE DEF IInv, rowVars, mailVars
<1>1. poller[p] \in PollerType /\ poller \in [Poller -> PollerType]
  BY DEF TypeOK, PollerType
<1>2. ASSUME UNCHANGED <<rowVars, mailed, escalated, worker, request>>, TypeOK'
      PROVE  IInv'
  BY <1>2 DEF LocksExclusive, WithinBatch, LockedCopyIsCurrent, LevelsMailed,
              EscalationClimbs
<1>3. CASE PollSearch(p)
  <2>1. poller' \in [Poller -> PollerType]
    BY <1>1, <1>3 DEF PollSearch, TypeOK, PollerType
  <2>2. TypeOK'
    BY <1>3, <2>1 DEF PollSearch, TypeOK, PollerType
  <2>3. QED BY <1>2, <1>3, <2>2 DEF PollSearch
<1>4. CASE PollFetch(p)
  <2>1. [found |-> {}, fetched |-> poller[p].found] \in PollerType
    BY <1>1 DEF PollerType
  <2>2. TypeOK'
    BY <1>1, <1>4, <2>1 DEF PollFetch, TypeOK, PollerType
  <2>3. QED BY <1>2, <1>4, <2>2 DEF PollFetch
<1>5. ASSUME NEW i \in Incident, RecordReply(p, i) PROVE IInv'
  <2>1. poller' \in [Poller -> PollerType]
    BY <1>1, <1>5 DEF RecordReply, PollerType
  <2>2. /\ status' = [status EXCEPT ![i] = "customer response received"]
        /\ timer' = [timer EXCEPT ![i] = "none"] /\ ~Locked(i)
        /\ UNCHANGED <<level, mailVars, worker, request, sends, crashes>>
    BY <1>5 DEF RecordReply
  <2>3. TypeOK'
    BY <2>1, <2>2 DEF TypeOK, PollerType, Status
  <2>4. LocksExclusive' /\ WithinBatch' /\ LockedCopyIsCurrent'
    BY <2>2, OutsideWrite DEF TypeOK
  <2>5. LevelsMailed' /\ EscalationClimbs'
    BY <2>2 DEF LevelsMailed, EscalationClimbs, TypeOK
  <2>6. QED BY <2>3, <2>4, <2>5
<1>6. CASE PollerFails(p)
  <2>1. TypeOK'
    BY <1>1, <1>6, IdleTypes DEF PollerFails, TypeOK, PollerType
  <2>2. QED BY <1>2, <1>6, <2>1 DEF PollerFails
<1>7. QED BY <1>3, <1>4, <1>5, <1>6 DEF PollerStep

LEMMA RequestKeeps ==
  ASSUME IInv, NEW q \in Request, RequestStep(q)
  PROVE  IInv'
<1> USE DEF IInv, rowVars, mailVars
<1>1. ASSUME NEW i \in Incident, NEW l \in Level, SendEmail(q, i, l) PROVE IInv'
  <2>1. /\ mailed' = [mailed EXCEPT ![i] = @ \cup {l}]
        /\ request' = [request EXCEPT ![q] = <<i, l>>]
        /\ sends < MaxSends /\ sends' = sends + 1
        /\ UNCHANGED <<rowVars, escalated, mailbox, worker, poller, crashes>>
    BY <1>1 DEF SendEmail
  <2>2. \A j \in Incident : mailed[j] \subseteq mailed'[j]
    BY <2>1 DEF TypeOK
  <2>3. TypeOK'
    BY <2>1 DEF TypeOK
  <2>4. LocksExclusive' /\ WithinBatch' /\ LockedCopyIsCurrent'
    BY <2>1 DEF LocksExclusive, WithinBatch, LockedCopyIsCurrent
  <2>5. LevelsMailed'
    <3>1. ASSUME NEW v \in Worker
          PROVE  /\ \A x \in worker[v].batch : x[2] \in mailed'[x[1]]
                 /\ worker[v].pc = "sent" => worker[v].cur[2] \in mailed'[worker[v].cur[1]]
      <4>1. \A x \in worker[v].batch : x[1] \in Incident
        BY DEF TypeOK, Row
      <4>2. worker[v].pc = "sent" => worker[v].cur \in Row
        BY DEF TypeOK, WithinBatch
      <4>3. worker[v].pc = "sent" => worker[v].cur[1] \in Incident
        BY <4>2 DEF Row
      <4>4. QED BY <2>2, <4>1, <4>3 DEF LevelsMailed
    <3>2. ASSUME NEW u \in Request, request'[u] # None
          PROVE  request'[u][2] \in mailed'[request'[u][1]]
      <4>1. CASE u = q
        BY <2>1, <4>1 DEF TypeOK
      <4>2. CASE u # q
        BY <2>1, <2>2, <3>2, <4>2 DEF TypeOK, LevelsMailed
      <4>3. QED BY <4>1, <4>2
    <3>3. QED BY <2>1, <3>1, <3>2 DEF LevelsMailed
  <2>6. EscalationClimbs'
    BY <2>1, <2>2 DEF EscalationClimbs
  <2>7. QED BY <2>3, <2>4, <2>5, <2>6
<1>2. CASE RecordSend(q)
  <2> DEFINE i == request[q][1]
             l == request[q][2]
  <2>1. i \in Incident /\ l \in Level /\ l \in mailed[i] /\ ~Locked(i)
        /\ RecordMail(i, l) /\ request' = [request EXCEPT ![q] = None]
        /\ UNCHANGED <<mailVars, worker, poller, sends, crashes>>
    BY <1>2 DEF RecordSend, TypeOK, LevelsMailed
  <2> HIDE DEF i, l
  <2>2. /\ EscalationClimbs'
        /\ status' \in [Incident -> Status]
        /\ level' \in [Incident -> 0..MaxLevel]
        /\ timer' \in [Incident -> {"none", "armed", "due"}]
        /\ \A j \in Incident \ {i} : /\ status'[j] = status[j]
                                     /\ level'[j] = level[j]
                                     /\ timer'[j] = timer[j]
    BY <2>1, RecordMailClimbs
  <2>3. TypeOK'
    BY <2>1, <2>2 DEF TypeOK
  <2>4. LocksExclusive' /\ WithinBatch' /\ LockedCopyIsCurrent'
    BY <2>1, <2>2, OutsideWrite
  <2>5. LevelsMailed'
    BY <2>1 DEF LevelsMailed, TypeOK
  <2>6. QED BY <2>2, <2>3, <2>4, <2>5
<1>3. QED BY <1>1, <1>2 DEF RequestStep

LEMMA EnvironmentKeeps ==
  ASSUME IInv, NEW i \in Incident, Environment(i)
  PROVE  IInv'
<1> USE DEF IInv, rowVars, mailVars
<1>1. CASE TimerRunsOut(i)
  <2>1. /\ timer[i] = "armed" /\ timer' = [timer EXCEPT ![i] = "due"]
        /\ UNCHANGED <<status, level, mailVars, worker, poller, request, sends, crashes>>
    BY <1>1 DEF TimerRunsOut
  <2>2. TypeOK'
    BY <2>1 DEF TypeOK
  <2>3. LockedCopyIsCurrent'
    BY <2>1 DEF LockedCopyIsCurrent, TypeOK
  <2>4. QED BY <2>1, <2>2, <2>3 DEF LocksExclusive, WithinBatch, LevelsMailed,
                                    EscalationClimbs, TypeOK
<1>2. ASSUME NEW s \in Status, ~Locked(i), status' = [status EXCEPT ![i] = s],
             UNCHANGED <<level, timer, mailVars, worker, poller, request, sends, crashes>>
      PROVE  IInv'
  <2>1. TypeOK'
    BY <1>2 DEF TypeOK
  <2>2. LocksExclusive' /\ WithinBatch' /\ LockedCopyIsCurrent'
    BY <1>2, OutsideWrite DEF TypeOK
  <2>3. QED BY <1>2, <2>1, <2>2 DEF LevelsMailed, EscalationClimbs
<1>3. CASE CustomerReplies(i)
  <2>1. TypeOK'
    BY <1>3 DEF CustomerReplies, TypeOK
  <2>2. QED BY <1>3, <2>1 DEF CustomerReplies, LocksExclusive, WithinBatch,
               LockedCopyIsCurrent, LevelsMailed, EscalationClimbs
<1>4. CASE AnalystReply(i)
  <2>1. "sent to customer" \in Status
    BY DEF Status
  <2>2. QED BY <1>2, <1>4, <2>1 DEF AnalystReply
<1>5. QED BY <1>1, <1>2, <1>3, <1>4, SettableAssumption DEF Environment, SetStatus

LEMMA InvNext == IInv /\ [Next]_vars => IInv'
<1> SUFFICES ASSUME IInv, [Next]_vars PROVE IInv'
  OBVIOUS
<1>1. ASSUME NEW w \in Worker, WorkerStep(w) \/ WorkerFails(w) PROVE IInv'
  BY <1>1, SelectKeeps, AttemptKeeps, CommitKeeps, WorkerFailsKeeps DEF WorkerStep
<1>2. ASSUME NEW p \in Poller, PollerStep(p) \/ PollerFails(p) PROVE IInv'
  BY <1>2, PollerKeeps
<1>3. ASSUME NEW q \in Request, RequestStep(q) PROVE IInv'
  BY <1>3, RequestKeeps
<1>4. ASSUME NEW i \in Incident, Environment(i) PROVE IInv'
  BY <1>4, EnvironmentKeeps
<1>5. CASE UNCHANGED vars
  BY <1>5 DEF vars, rowVars, mailVars, IInv, TypeOK, LocksExclusive, WithinBatch,
              LockedCopyIsCurrent, LevelsMailed, EscalationClimbs
<1>6. QED BY <1>1, <1>2, <1>3, <1>4, <1>5 DEF Next

(* Every reachable state satisfies the strengthening: the types, disjoint  *)
(* batches, and what the rows of escalation_worker remember of mails sent. *)
THEOREM InductiveInvariant == Spec => []IInv
  BY InvInit, InvNext, PTL DEF Spec

-----------------------------------------------------------------------------
(* Rows, mailbox, workers, pollers and requests keep their types.          *)
THEOREM TypeCorrect == Spec => []TypeOK
<1>1. IInv => TypeOK
  BY DEF IInv
<1>2. QED BY <1>1, InductiveInvariant, PTL

(* The copy a worker has of a row it still holds is the row.               *)
THEOREM LockedCopiesCurrent == Spec => []LockedCopyIsCurrent
<1>1. IInv => LockedCopyIsCurrent
  BY DEF IInv
<1>2. QED BY <1>1, InductiveInvariant, PTL

(* No worker waits for a row while it holds rows of its own.               *)
THEOREM NoLockCycle == Spec => []HoldersNeverWait
<1>1. IInv => HoldersNeverWait
  <2> SUFFICES ASSUME IInv, NEW w \in Worker, worker[w].pc # "loop",
                      worker[w].held # {}, NEW v \in Worker \ {w},
                      worker[w].cur[1] \in worker[v].held
               PROVE  FALSE
    BY DEF HoldersNeverWait, LockedByOther
  <2>1. worker[w].cur[1] \in worker[w].held
    BY DEF IInv, WithinBatch
  <2>2. QED BY <2>1 DEF IInv, LocksExclusive
<1>2. QED BY <1>1, InductiveInvariant, PTL

(* Escalation climbs one mailed level at a time.                           *)
THEOREM ClimbsCorrect == Spec => []EscalationClimbs
<1>1. IInv => EscalationClimbs
  BY DEF IInv
<1>2. QED BY <1>1, InductiveInvariant, PTL
=============================================================================
