------------------------ MODULE IngestPipeline_proofs ------------------------
(***************************************************************************)
(* Proofs about IngestPipeline, for any incidents, page size and bounds.   *)
(* The upsert overwrites a row without comparing times, so that a row only *)
(* advances is a fact about the whole pipeline: along row, hand, queue,    *)
(* fetched batch and vendor, modification times never decrease (Ordered).  *)
(***************************************************************************)
EXTENDS IngestPipeline, TLAPS, SequenceTheorems

USE BoundAssumption, StatusAssumption, NoneAssumption

(* Nothing the pipeline holds of i downstream of the fetch is newer than t. *)
UpTo(i, t) ==
  /\ \A k \in 1..Len(queue[i]) : queue[i][k].mod <= t
  /\ hand[i] # None => hand[i].mod <= t
  /\ row[i] # None => row[i].mod <= t

(* The pipeline's part up to the queue is in the order of modification.    *)
InOrder(i) ==
  /\ \A j, k \in 1..Len(queue[i]) : j <= k => queue[i][j].mod <= queue[i][k].mod
  /\ \A k \in 1..Len(queue[i]) :
       /\ hand[i] # None => hand[i].mod <= queue[i][k].mod
       /\ row[i] # None => row[i].mod <= queue[i][k].mod
  /\ hand[i] # None /\ row[i] # None => row[i].mod <= hand[i].mod

(* The fetch and the vendor are ahead of it.                               *)
Behind(i) ==
  /\ poll.batch[i] # None =>
       /\ vendor[i] # None
       /\ poll.batch[i].mod <= vendor[i].mod
       /\ UpTo(i, poll.batch[i].mod)
  /\ vendor[i] = None => queue[i] = <<>> /\ hand[i] = None /\ row[i] = None
  /\ vendor[i] # None => UpTo(i, vendor[i].mod)

Ordered == \A i \in Incident : InOrder(i) /\ Behind(i)

IInv == TypeOK /\ Ordered /\ NothingForgotten

-----------------------------------------------------------------------------
LEMMA Types ==
  ASSUME TypeOK, NEW i \in Incident
  PROVE  /\ vendor[i] # None => vendor[i] \in Version
         /\ poll.batch[i] # None => poll.batch[i] \in Version
         /\ hand[i] # None => hand[i] \in Version
         /\ row[i] # None => row[i] \in Row
         /\ dedup[i] # None => dedup[i] \in Fingerprint
         /\ queue[i] \in Seq(Version)
         /\ Len(queue[i]) \in Nat
         /\ \A k \in 1..Len(queue[i]) : queue[i][k] \in Version
<1>1. queue[i] \in Seq(Version)
  BY DEF TypeOK
<1>2. Len(queue[i]) \in Nat /\ \A k \in 1..Len(queue[i]) : queue[i][k] \in Version
  BY <1>1, LenProperties, ElementOfSeq
<1>3. QED BY <1>1, <1>2 DEF TypeOK

(* What Append and Head and Tail do to the two ends of a queue.            *)
LEMMA PushEnd ==
  ASSUME NEW S, NEW s \in Seq(S), NEW e \in S
  PROVE  /\ Append(s, e) \in Seq(S) /\ Append(s, e) # <<>>
         /\ Append(s, e)[Len(Append(s, e))] = e
         /\ \A k \in 1..Len(Append(s, e)) :
              \/ k = Len(Append(s, e)) /\ Append(s, e)[k] = e
              \/ k \in 1..Len(s) /\ Append(s, e)[k] = s[k]
<1>1. Len(s) \in Nat /\ Append(s, e) \in Seq(S) /\ Len(Append(s, e)) = Len(s) + 1
  BY AppendProperties
<1>2. Append(s, e)[Len(s) + 1] = e /\ \A k \in 1..Len(s) : Append(s, e)[k] = s[k]
  BY AppendProperties
<1>3. Append(s, e) # <<>>
  BY <1>1
<1>4. QED BY <1>1, <1>2, <1>3

LEMMA PopEnd ==
  ASSUME NEW S, NEW s \in Seq(S), s # <<>>
  PROVE  /\ Tail(s) \in Seq(S)
         /\ 1 \in 1..Len(s) /\ Head(s) = s[1] /\ Head(s) \in S
         /\ \A k \in 1..Len(Tail(s)) : k + 1 \in 1..Len(s) /\ Tail(s)[k] = s[k + 1]
         /\ Tail(s) = <<>> => s[Len(s)] = Head(s)
         /\ Tail(s) # <<>> => s[Len(s)] = Tail(s)[Len(Tail(s))]
<1>1. /\ Len(s) \in Nat \ {0} /\ Tail(s) \in Seq(S) /\ Head(s) \in S
      /\ Head(s) = s[1] /\ Len(Tail(s)) = Len(s) - 1
      /\ \A k \in 1..Len(Tail(s)) : Tail(s)[k] = s[k + 1]
  BY HeadTailProperties, EmptySeq
<1> DEFINE t == Tail(s)
           n == Len(t)
<1>2. Len(s) = n + 1 /\ n \in Nat
  BY <1>1
<1>3. \A k \in 1..n : k + 1 \in 1..Len(s) /\ t[k] = s[k + 1]
  <2> HIDE DEF n
  <2>1. \A k \in 1..n : k + 1 \in 1..Len(s)
    BY <1>2
  <2>2. QED BY <1>1, <2>1 DEF n
<1>4. t = <<>> => n = 0
  BY EmptySeq
<1>5. t # <<>> => n \in 1..n
  <2>1. t # <<>> => n # 0
    BY <1>1, EmptySeq
  <2> HIDE DEF n
  <2>2. QED BY <1>2, <2>1
<1> HIDE DEF n
<1>6. n = 0 => s[Len(s)] = Head(s)
  BY <1>1, <1>2
<1>7. n \in 1..n => s[Len(s)] = t[n]
  BY <1>2, <1>3
<1>8. 1 \in 1..Len(s)
  BY <1>2
<1>9. QED BY <1>1, <1>3, <1>4, <1>5, <1>6, <1>7, <1>8 DEF n

LEMMA IdleType == IdlePoll.batch \in [Incident -> Version \cup {None}]
  BY DEF IdlePoll

LEMMA InvInit == Init => IInv
<1> SUFFICES ASSUME Init PROVE IInv
  OBVIOUS
<1>1. TypeOK
  <2>1. \A i \in Incident : queue[i] \in Seq(Version)
    BY EmptySeq DEF Init
  <2>2. QED BY <2>1, IdleType DEF Init, TypeOK, IdlePoll, Time
<1>2. Ordered
  BY DEF Init, Ordered, InOrder, Behind, UpTo, IdlePoll
<1>3. NothingForgotten
  BY DEF Init, NothingForgotten
<1>4. QED BY <1>1, <1>2, <1>3 DEF IInv

-----------------------------------------------------------------------------
(* The vendor moves ahead of everything that was fetched.                  *)
LEMMA VendorKeeps ==
  ASSUME IInv, Vendor
  PROVE  IInv'
<1> PICK i \in Incident : Stitch(i) \/ \E a \in 0..MaxAlerts, s \in Reported : Modify(i, a, s)
  BY DEF Vendor
<1> DEFINE Ahead ==
      /\ UNCHANGED <<now, lastPoll, poll, dedup, queue, missed, hand, row, dropped, faults>>
      /\ vendor' \in [Incident -> Version \cup {None}]
      /\ \A j \in Incident : j # i => vendor'[j] = vendor[j]
      /\ vendor'[i] # None
      /\ vendor[i] # None => vendor[i].mod <= vendor'[i].mod
<1>1. Ahead
  <2>1. CASE Stitch(i)
    <3>1. [vendor[i] EXCEPT !.alerts = @ + 1] \in Version
      BY <2>1, Types DEF Stitch, IInv, Version
    <3>2. vendor' = [vendor EXCEPT ![i] = [vendor[i] EXCEPT !.alerts = @ + 1]]
      BY <2>1 DEF Stitch
    <3>3. [vendor[i] EXCEPT !.alerts = @ + 1].mod = vendor[i].mod /\ vendor[i].mod \in Int
      BY <2>1, Types DEF Stitch, IInv, Version
    <3> DEFINE v == [vendor[i] EXCEPT !.alerts = @ + 1]
    <3>4. vendor' = [vendor EXCEPT ![i] = v] /\ v \in Version /\ (vendor[i] # None => vendor[i].mod <= v.mod)
      BY <3>1, <3>2, <3>3
    <3> HIDE DEF v
    <3>5. QED BY <2>1, <3>4 DEF Stitch, IInv, TypeOK, pollVars
  <2>2. ASSUME NEW a \in 0..MaxAlerts, NEW s \in Reported, Modify(i, a, s)
        PROVE  Ahead
    <3>1. [mod |-> now, alerts |-> a, status |-> s] \in Version
      BY DEF IInv, TypeOK, Version
    <3>2. vendor[i] # None => vendor[i].mod <= now
      BY <2>2, Types DEF Modify, IInv, TypeOK, Version
    <3>3. QED BY <2>2, <3>1, <3>2 DEF Modify, IInv, TypeOK, pollVars
  <2>3. QED BY <2>1, <2>2
<1>2. TypeOK'
  BY <1>1 DEF IInv, TypeOK
<1>3. Ordered'
  <2> SUFFICES ASSUME NEW j \in Incident PROVE InOrder(j)' /\ Behind(j)'
    BY DEF Ordered
  <2>1. InOrder(j)'
    BY <1>1 DEF IInv, Ordered, InOrder
  <2>2. CASE j # i
    <3>1. Behind(j)
      BY DEF IInv, Ordered
    <3>2. vendor'[j] = vendor[j] /\ UNCHANGED <<poll, queue, hand, row>>
      BY <1>1, <2>2
    <3> HIDE DEF Ahead
    <3>3. /\ vendor[j] # None => UpTo(j, vendor[j].mod)'
          /\ poll.batch[j] # None => UpTo(j, poll.batch[j].mod)'
      <4>1. /\ vendor[j] # None => UpTo(j, vendor[j].mod)
            /\ poll.batch[j] # None => UpTo(j, poll.batch[j].mod)
        BY <3>1 DEF Behind
      <4>2. QED BY <3>2, <4>1 DEF UpTo
    <3>4. QED BY <2>1, <3>1, <3>2, <3>3 DEF Behind
  <2>3. CASE j = i /\ vendor[i] # None
    <3>1. vendor'[i].mod \in Int /\ vendor[i].mod \in Int
      BY <1>1, <1>2, <2>3, Types DEF IInv, TypeOK, Version
    <3>2. /\ \A k \in 1..Len(queue[i]) : queue[i][k].mod \in Int
          /\ hand[i] # None => hand[i].mod \in Int
          /\ row[i] # None => row[i].mod \in Int
          /\ poll.batch[i] # None => poll.batch[i].mod \in Int
      BY Types DEF IInv, Version, Row
    <3>3. Behind(i)
      BY DEF IInv, Ordered
    <3>4. UpTo(i, vendor[i].mod)
      BY <2>3, <3>3 DEF Behind
    <3>5. UpTo(i, vendor[i].mod)' /\ UpTo(i, vendor'[i].mod)
      BY <1>1, <2>3, <3>1, <3>2, <3>4 DEF UpTo
    <3>6. poll.batch[i] # None => poll.batch[i].mod <= vendor'[i].mod /\ UpTo(i, poll.batch[i].mod)'
      BY <1>1, <2>3, <3>1, <3>2, <3>3 DEF Behind, UpTo
    <3>7. QED BY <1>1, <2>1, <2>3, <3>5, <3>6 DEF Behind
  <2>4. CASE j = i /\ vendor[i] = None
    <3>1. queue[i] = <<>> /\ hand[i] = None /\ row[i] = None /\ poll.batch[i] = None
      BY <2>4 DEF IInv, Ordered, Behind
    <3>2. \A k \in 1..Len(queue[i]) : FALSE
      BY <3>1, EmptySeq
    <3>3. QED BY <1>1, <2>1, <2>4, <3>1, <3>2 DEF Behind, UpTo
  <2>5. QED BY <2>1, <2>2, <2>3, <2>4
<1>4. NothingForgotten'
  BY <1>1 DEF IInv, NothingForgotten, Newest
<1>5. QED BY <1>2, <1>3, <1>4 DEF IInv

(* Steps that only move the clock, the phase of the poll, last_poll or the *)
(* fingerprints' lifetime.                                                 *)
LEMMA QuietKeeps ==
  ASSUME IInv, TypeOK',
         UNCHANGED <<vendor, queue, hand, row>>,
         dropped \subseteq dropped',
         \A i \in Incident : poll'.batch[i] \in {None, poll.batch[i], vendor[i]},
         \A i \in Incident : dedup'[i] \in {None, dedup[i]}
  PROVE  IInv'
<1>1. Ordered'
  <2> SUFFICES ASSUME NEW i \in Incident PROVE InOrder(i)' /\ Behind(i)'
    BY DEF Ordered
  <2>1. InOrder(i) /\ Behind(i)
    BY DEF IInv, Ordered
  <2>2. vendor[i] # None => vendor[i].mod \in Int
    BY Types DEF IInv, Version
  <2>3. QED BY <2>1, <2>2 DEF InOrder, Behind, UpTo
<1>2. NothingForgotten'
  BY DEF IInv, NothingForgotten, Newest
<1>3. QED BY <1>1, <1>2 DEF IInv

LEMMA PollKeeps ==
  ASSUME IInv, Tick \/ PollFetch \/ PollEmpty \/ MarkPolled \/ PollFails
  PROVE  IInv'
<1> USE DEF IInv, TypeOK, pollVars
<1>1. CASE Tick
  BY <1>1, QuietKeeps DEF Tick
<1>2. CASE PollFetch
  <2>1. PICK p \in Pages :
          /\ poll' = [pc |-> "fetched",
                      batch |-> [i \in Incident |-> IF i \in p THEN vendor[i] ELSE None]]
          /\ missed' = missed \cup (Visible \ p)
    BY <1>2 DEF PollFetch
  <2>2. missed' \subseteq Incident
    BY <2>1 DEF Visible
  <2>3. TypeOK'
    BY <1>2, <2>1, <2>2 DEF PollFetch
  <2>4. \A i \in Incident : poll'.batch[i] \in {None, poll.batch[i], vendor[i]}
    BY <2>1
  <2>5. QED BY <1>2, <2>3, <2>4, QuietKeeps DEF PollFetch
<1>3. CASE PollEmpty
  <2>1. TypeOK'
    <3>1. poll' = [pc |-> "fetched", batch |-> IdlePoll.batch]
      BY <1>3 DEF PollEmpty, IdlePoll
    <3>2. missed' \subseteq Incident /\ faults' \in 0..MaxFaults
      BY <1>3 DEF PollEmpty, Visible
    <3>3. QED BY <1>3, <3>1, <3>2, IdleType DEF PollEmpty
  <2>2. \A i \in Incident : poll'.batch[i] = None
    BY <1>3 DEF PollEmpty, IdlePoll
  <2>3. QED BY <1>3, <2>1, <2>2, QuietKeeps DEF PollEmpty
<1>4. CASE MarkPolled
  BY <1>4, QuietKeeps, IdleType DEF MarkPolled, IdlePoll, Time
<1>5. CASE PollFails
  BY <1>5, QuietKeeps, IdleType DEF PollFails, IdlePoll
<1>6. QED BY <1>1, <1>2, <1>3, <1>4, <1>5

LEMMA ExpireKeeps ==
  ASSUME IInv, NEW i \in Incident, Expire(i)
  PROVE  IInv'
  BY QuietKeeps DEF IInv, TypeOK, Expire

-----------------------------------------------------------------------------
(* Fingerprints and items are written together, newest last.               *)
LEMMA EnqueueKeeps ==
  ASSUME IInv, Enqueue
  PROVE  IInv'
<1>1. ASSUME NEW i \in Incident, i \in Fresh
      PROVE  /\ poll.batch[i] \in Version
             /\ dedup'[i] = [mod |-> poll.batch[i].mod, alerts |-> poll.batch[i].alerts]
             /\ queue'[i] \in Seq(Version)
             /\ queue'[i] # <<>>
             /\ queue'[i][Len(queue'[i])] = poll.batch[i]
             /\ \A k \in 1..Len(queue'[i]) :
                  \/ k = Len(queue'[i]) /\ queue'[i][k] = poll.batch[i]
                  \/ k \in 1..Len(queue[i]) /\ queue'[i][k] = queue[i][k]
  <2>1. poll.batch[i] \in Version /\ queue[i] \in Seq(Version)
    BY <1>1, Types DEF Fresh, IInv
  <2>2. queue'[i] = Append(queue[i], poll.batch[i])
    BY <1>1 DEF Enqueue
  <2>3. QED BY <1>1, <2>1, <2>2, PushEnd DEF Enqueue
<1>1a. ASSUME NEW i \in Incident, i \notin Fresh
      PROVE  queue'[i] = queue[i] /\ dedup'[i] = dedup[i]
  BY <1>1a DEF Enqueue
<1>2. TypeOK'
  <2>1. queue' \in [Incident -> Seq(Version)]
    BY <1>1a, <1>1 DEF Enqueue, IInv, TypeOK
  <2>2. dedup' \in [Incident -> Fingerprint \cup {None}]
    <3>1. ASSUME NEW i \in Incident PROVE dedup'[i] \in Fingerprint \cup {None}
      <4>1. CASE i \in Fresh
        <5>1. /\ poll.batch[i] \in Version
              /\ dedup'[i] = [mod |-> poll.batch[i].mod, alerts |-> poll.batch[i].alerts]
          BY <1>1, <4>1
        <5>2. QED BY <5>1 DEF Version, Fingerprint
      <4>2. CASE i \notin Fresh
        BY <1>1a, <4>2 DEF IInv, TypeOK
      <4>3. QED BY <4>1, <4>2
    <3>2. QED BY <3>1 DEF Enqueue
  <2>3. QED BY <2>1, <2>2, IdleType DEF Enqueue, IInv, TypeOK, IdlePoll
<1>3. Ordered'
  <2> SUFFICES ASSUME NEW i \in Incident PROVE InOrder(i)' /\ Behind(i)'
    BY DEF Ordered
  <2>1. InOrder(i) /\ Behind(i)
    BY DEF IInv, Ordered
  <2>2. /\ UNCHANGED <<vendor, hand, row>>
        /\ poll'.batch[i] = None
    BY DEF Enqueue, IdlePoll
  <2>3. CASE i \notin Fresh
    BY <1>1a, <2>1, <2>2, <2>3 DEF InOrder, Behind, UpTo
  <2>4. CASE i \in Fresh
    <3> DEFINE b == poll.batch[i]
    <3>1. b # None /\ vendor[i] # None /\ b.mod <= vendor[i].mod /\ UpTo(i, b.mod)
      BY <2>1, <2>4 DEF Fresh, Behind
    <3>2. /\ b.mod \in Int /\ vendor[i].mod \in Int
          /\ \A k \in 1..Len(queue[i]) : queue[i][k].mod \in Int
      <4>1. b \in Version /\ vendor[i] \in Version
        BY <3>1, Types DEF IInv
      <4>2. \A k \in 1..Len(queue[i]) : queue[i][k] \in Version
        BY Types DEF IInv
      <4> HIDE DEF b
      <4>3. QED BY <4>1, <4>2 DEF Version
    <3>3. Len(queue[i]) \in Nat /\ Len(queue'[i]) \in Nat
      BY <1>1, <2>4, Types, LenProperties DEF IInv
    <3>4. \A k \in 1..Len(queue'[i]) :
            \/ k = Len(queue'[i]) /\ queue'[i][k] = b
            \/ k \in 1..Len(queue[i]) /\ queue'[i][k] = queue[i][k]
      BY <1>1, <2>4
    <3> HIDE DEF b
    <3>5. \A j, k \in 1..Len(queue'[i]) : j <= k => queue'[i][j].mod <= queue'[i][k].mod
      <4> SUFFICES ASSUME NEW j \in 1..Len(queue'[i]), NEW k \in 1..Len(queue'[i]), j <= k
                   PROVE  queue'[i][j].mod <= queue'[i][k].mod
        OBVIOUS
      <4>1. CASE k = Len(queue'[i]) /\ queue'[i][k] = b
        BY <3>1, <3>2, <3>4, <4>1 DEF UpTo
      <4>2. CASE k \in 1..Len(queue[i]) /\ queue'[i][k] = queue[i][k]
        <5>1. CASE j = Len(queue'[i])
          <6>1. j = k
            BY <3>3, <5>1
          <6>2. QED BY <3>2, <4>2, <6>1
        <5>2. CASE j \in 1..Len(queue[i]) /\ queue'[i][j] = queue[i][j]
          BY <2>1, <4>2, <5>2 DEF InOrder
        <5>3. QED BY <3>4, <5>1, <5>2
      <4>3. QED BY <3>4, <4>1, <4>2
    <3>6. \A k \in 1..Len(queue'[i]) :
            /\ hand[i] # None => hand[i].mod <= queue'[i][k].mod
            /\ row[i] # None => row[i].mod <= queue'[i][k].mod
      BY <2>1, <3>1, <3>4 DEF InOrder, UpTo
    <3>7. InOrder(i)'
      BY <2>1, <2>2, <3>5, <3>6 DEF InOrder
    <3>8. UpTo(i, vendor[i].mod)'
      <4>1. UpTo(i, vendor[i].mod)
        BY <2>1, <3>1 DEF Behind
      <4>2. QED BY <2>2, <3>1, <3>4, <4>1 DEF UpTo
    <3>9. QED BY <2>2, <3>1, <3>7, <3>8 DEF Behind
  <2>5. QED BY <2>3, <2>4
<1>4. NothingForgotten'
  <2> SUFFICES ASSUME NEW i \in Incident, i \notin dropped', dedup'[i] # None
               PROVE  dedup'[i].mod = Newest(i)'
    BY DEF NothingForgotten
  <2>1. UNCHANGED <<hand, row, dropped>>
    BY DEF Enqueue
  <2>2. CASE i \notin Fresh
    BY <1>1a, <2>1, <2>2 DEF IInv, NothingForgotten, Newest
  <2>3. CASE i \in Fresh
    <3>1. /\ dedup'[i] = [mod |-> poll.batch[i].mod, alerts |-> poll.batch[i].alerts]
          /\ queue'[i] # <<>>
          /\ queue'[i][Len(queue'[i])] = poll.batch[i]
      BY <1>1, <2>3
    <3>2. QED BY <3>1 DEF Newest
  <2>4. QED BY <2>2, <2>3
<1>5. QED BY <1>2, <1>3, <1>4 DEF IInv

-----------------------------------------------------------------------------
(* The oldest item moves to the hand; the newest stays the newest.         *)
LEMMA PopKeeps ==
  ASSUME IInv, NEW i \in Incident, Pop(i)
  PROVE  IInv'
<1>1. /\ queue[i] # <<>>
      /\ 1 \in 1..Len(queue[i]) /\ Head(queue[i]) = queue[i][1]
      /\ Head(queue[i]) \in Version /\ Tail(queue[i]) \in Seq(Version)
      /\ \A k \in 1..Len(Tail(queue[i])) :
           k + 1 \in 1..Len(queue[i]) /\ Tail(queue[i])[k] = queue[i][k + 1]
      /\ Tail(queue[i]) = <<>> => queue[i][Len(queue[i])] = Head(queue[i])
      /\ Tail(queue[i]) # <<>>
           => queue[i][Len(queue[i])] = Tail(queue[i])[Len(Tail(queue[i]))]
  <2>1. queue[i] \in Seq(Version) /\ queue[i] # <<>>
    BY Types DEF Pop, IInv
  <2>2. QED BY <2>1, PopEnd
<1>2. /\ hand[i] = None /\ hand'[i] = queue[i][1]
      /\ queue'[i] = Tail(queue[i])
      /\ \A j \in Incident : j # i => hand'[j] = hand[j] /\ queue'[j] = queue[j]
      /\ UNCHANGED <<now, vendor, lastPoll, poll, dedup, row, dropped, faults>>
  BY <1>1 DEF Pop, WorkerIdle, IInv, TypeOK
<1>3. TypeOK'
  BY <1>1, <1>2 DEF Pop, IInv, TypeOK
<1>4. Ordered'
  <2> SUFFICES ASSUME NEW j \in Incident PROVE InOrder(j)' /\ Behind(j)'
    BY DEF Ordered
  <2>1. InOrder(j) /\ Behind(j)
    BY DEF IInv, Ordered
  <2>2. CASE j # i
    BY <1>2, <2>1, <2>2 DEF InOrder, Behind, UpTo
  <2>3. CASE j = i
    <3>1. \A k \in 1..Len(queue'[i]) :
            k + 1 \in 1..Len(queue[i]) /\ queue'[i][k] = queue[i][k + 1]
      BY <1>1, <1>2
    <3>2. 1 \in 1..Len(queue[i])
      BY <1>1
    <3>3. /\ \A k \in 1..Len(queue[i]) : queue[i][k].mod \in Int
          /\ row[i] # None => row[i].mod \in Int
      BY Types DEF IInv, Version, Row
    <3>4. InOrder(i)'
      <4>1. \A k, l \in 1..Len(queue'[i]) : k <= l => queue'[i][k].mod <= queue'[i][l].mod
        BY <1>1, <1>2, <2>1, <2>3, <3>1 DEF InOrder
      <4>2. \A k \in 1..Len(queue'[i]) :
              /\ hand'[i].mod <= queue'[i][k].mod
              /\ row[i] # None => row[i].mod <= queue'[i][k].mod
        BY <1>1, <1>2, <2>1, <2>3, <3>1, <3>2 DEF InOrder
      <4>3. row[i] # None => row[i].mod <= hand'[i].mod
        BY <1>2, <2>1, <2>3, <3>2 DEF InOrder
      <4>4. QED BY <1>2, <4>1, <4>2, <4>3 DEF InOrder
    <3>5. ASSUME NEW t, UpTo(i, t) PROVE UpTo(i, t)'
      BY <1>2, <3>1, <3>2, <3>5 DEF UpTo
    <3>6. Behind(i)'
      <4>1. vendor[i] # None
        BY <1>1, <2>1, <2>3 DEF Behind
      <4>2. /\ UpTo(i, vendor[i].mod)'
            /\ poll.batch[i] # None => UpTo(i, poll.batch[i].mod)'
        BY <1>2, <2>1, <2>3, <3>5, <4>1 DEF Behind
      <4>3. QED BY <1>2, <2>1, <2>3, <4>1, <4>2 DEF Behind, UpTo
    <3>7. QED BY <2>3, <3>4, <3>6
  <2>4. QED BY <2>2, <2>3
<1>5. NothingForgotten'
  <2>1. Newest(i)' = Newest(i)
    <3>1. Newest(i) = queue[i][Len(queue[i])].mod
      BY <1>1 DEF Newest
    <3>2. hand'[i] = Head(queue[i]) /\ hand'[i] # None
      BY <1>1, <1>2
    <3>3. CASE queue'[i] = <<>>
      BY <1>1, <1>2, <3>1, <3>2, <3>3 DEF Newest
    <3>4. CASE queue'[i] # <<>>
      BY <1>1, <1>2, <3>1, <3>4 DEF Newest
    <3>5. QED BY <3>3, <3>4
  <2>2. \A j \in Incident : Newest(j)' = Newest(j)
    BY <1>2, <2>1 DEF Newest
  <2>3. QED BY <1>2, <2>2 DEF IInv, NothingForgotten
<1>6. QED BY <1>3, <1>4, <1>5 DEF IInv

(* Steps that change the hand and the row of i, the row never getting      *)
(* newer than what was in the hand or the row.                             *)
LEMMA RowKeeps ==
  ASSUME IInv, TypeOK', NEW i \in Incident,
         UNCHANGED <<vendor, poll, dedup, queue>>,
         \A j \in Incident : j # i => hand'[j] = hand[j] /\ row'[j] = row[j],
         hand'[i] \in {None, hand[i]},
         row'[i] # None =>
           \/ row[i] # None /\ row'[i].mod = row[i].mod
           \/ hand[i] # None /\ row'[i].mod = hand[i].mod /\ hand'[i] = None,
         dropped \subseteq dropped',
         i \notin dropped' => Newest(i)' = Newest(i)
  PROVE  IInv'
<1>1. Ordered'
  <2> SUFFICES ASSUME NEW j \in Incident PROVE InOrder(j)' /\ Behind(j)'
    BY DEF Ordered
  <2>1. InOrder(j) /\ Behind(j)
    BY DEF IInv, Ordered
  <2>2. CASE j # i
    BY <2>1, <2>2 DEF InOrder, Behind, UpTo
  <2>3. CASE j = i
    <3>1. InOrder(i)'
      BY <2>1, <2>3 DEF InOrder
    <3>2. ASSUME NEW t, UpTo(i, t) PROVE UpTo(i, t)'
      BY <3>2 DEF UpTo
    <3>3. Behind(i)'
      <4>1. /\ vendor[i] # None => UpTo(i, vendor[i].mod)'
            /\ poll.batch[i] # None => UpTo(i, poll.batch[i].mod)'
        BY <2>1, <2>3, <3>2 DEF Behind
      <4>2. vendor[i] = None => hand'[i] = None /\ row'[i] = None
        BY <2>1, <2>3 DEF Behind
      <4>3. QED BY <2>1, <2>3, <4>1, <4>2 DEF Behind, UpTo
    <3>4. QED BY <2>3, <3>1, <3>3
  <2>4. QED BY <2>2, <2>3
<1>2. NothingForgotten'
  <2>1. \A j \in Incident : j \notin dropped' => Newest(j)' = Newest(j)
    BY DEF Newest
  <2>2. QED BY <2>1 DEF IInv, NothingForgotten
<1>3. QED BY <1>1, <1>2 DEF IInv

LEMMA UpsertKeeps ==
  ASSUME IInv, NEW i \in Incident, Upsert(i)
  PROVE  IInv'
<1>1. Upserted(i) \in Row /\ Upserted(i).mod = hand[i].mod /\ Upserted(i) # None
  <2>1. hand[i] \in Version /\ (row[i] # None => row[i] \in Row)
    BY Types DEF Upsert, IInv
  <2>2. Normalized(hand[i].status) \in Status
    BY DEF Normalized, Status
  <2>3. QED BY <2>1, <2>2 DEF Upserted, Row, Version
<1>2. TypeOK'
  BY <1>1 DEF Upsert, IInv, TypeOK, pollVars
<1>3. row'[i] = Upserted(i) /\ hand'[i] = None /\ hand[i] # None
  BY DEF Upsert, IInv, TypeOK
<1>4. Newest(i)' = Newest(i)
  BY <1>1, <1>3 DEF Upsert, Newest, pollVars
<1>5. QED BY <1>1, <1>2, <1>3, <1>4, RowKeeps DEF Upsert, pollVars, IInv, TypeOK

LEMMA OthersKeep ==
  ASSUME IInv, NEW i \in Incident,
         LoseItem(i) \/ DeleteIncident(i) \/ \E s \in Settable : SetStatus(i, s)
  PROVE  IInv'
<1>1. CASE LoseItem(i)
  <2>1. TypeOK'
    BY <1>1 DEF LoseItem, IInv, TypeOK, pollVars
  <2>2. QED BY <1>1, <2>1, RowKeeps, Types DEF LoseItem, pollVars, IInv, TypeOK
<1>2. CASE DeleteIncident(i)
  <2>1. TypeOK'
    BY <1>2 DEF DeleteIncident, IInv, TypeOK, pollVars
  <2>2. QED BY <1>2, <2>1, RowKeeps DEF DeleteIncident, pollVars, IInv, TypeOK
<1>3. ASSUME NEW s \in Settable, SetStatus(i, s) PROVE IInv'
  <2>1. [row[i] EXCEPT !.status = s] \in Row /\ [row[i] EXCEPT !.status = s].mod = row[i].mod
    BY <1>3, Types DEF SetStatus, IInv, Row
  <2>2. row' = [row EXCEPT ![i] = [row[i] EXCEPT !.status = s]]
    BY <1>3 DEF SetStatus
  <2>3. row'[i] = [row[i] EXCEPT !.status = s] /\ row'[i] # None
    BY <2>1, <2>2 DEF IInv, TypeOK
  <2>4. TypeOK'
    BY <1>3, <2>1, <2>2 DEF SetStatus, IInv, TypeOK, pollVars
  <2>5. Newest(i)' = Newest(i)
    BY <1>3, <2>1, <2>3 DEF SetStatus, Newest, pollVars
  <2>6. QED
    BY <1>3, <2>1, <2>2, <2>3, <2>4, <2>5, RowKeeps DEF SetStatus, pollVars, IInv, TypeOK
<1>4. QED BY <1>1, <1>2, <1>3

LEMMA InvNext == IInv /\ [Next]_vars => IInv'
<1> SUFFICES ASSUME IInv, [Next]_vars PROVE IInv'
  OBVIOUS
<1>1. CASE Tick \/ PollStep
  BY <1>1, PollKeeps, EnqueueKeeps DEF PollStep
<1>2. CASE WorkerStep
  BY <1>2, PopKeeps, UpsertKeeps DEF WorkerStep
<1>3. CASE Faulty
  BY <1>3, PollKeeps, ExpireKeeps, OthersKeep DEF Faulty
<1>4. CASE Vendor
  BY <1>4, VendorKeeps
<1>5. CASE Analyst
  BY <1>5, OthersKeep DEF Analyst
<1>6. CASE UNCHANGED vars
  BY <1>6 DEF vars, pollVars, IInv, TypeOK, Ordered, InOrder, Behind, UpTo,
              NothingForgotten, Newest
<1>7. QED BY <1>1, <1>2, <1>3, <1>4, <1>5, <1>6 DEF Next

(* From the vendor to the table, times are in order in every reachable     *)
(* state: the invariant of the pipeline.                                   *)
THEOREM InductiveInvariant == Spec => []IInv
  BY InvInit, InvNext, PTL DEF Spec

-----------------------------------------------------------------------------
(* Fingerprints, batches, items and rows keep their types.                 *)
THEOREM TypeCorrect == Spec => []TypeOK
<1>1. IInv => TypeOK
  BY DEF IInv
<1>2. QED BY <1>1, InductiveInvariant, PTL

(* A fingerprinted version is on its way, stored, or was lost or deleted.  *)
THEOREM FingerprintsHonest == Spec => []NothingForgotten
<1>1. IInv => NothingForgotten
  BY DEF IInv
<1>2. QED BY <1>1, InductiveInvariant, PTL

(* No upsert replaces a version by an older one, and a newer one does not  *)
(* reopen a closed incident.                                               *)
THEOREM RowsAdvance == Spec => RowAdvances
<1> DEFINE A == \A i \in Incident : (row[i] # None /\ row'[i] # None) =>
                  /\ row'[i].mod >= row[i].mod
                  /\ (row'[i].mod > row[i].mod /\ row[i].status \in Closed)
                       => row'[i].status = row[i].status
<1>1. IInv /\ [Next]_vars => [A]_vars
  <2> SUFFICES ASSUME IInv, Next, NEW i \in Incident, row[i] # None, row'[i] # None
               PROVE  /\ row'[i].mod >= row[i].mod
                      /\ (row'[i].mod > row[i].mod /\ row[i].status \in Closed)
                           => row'[i].status = row[i].status
    OBVIOUS
  <2>1. row[i].mod \in Int
    BY Types DEF IInv, Row
  <2>2. CASE row'[i] = row[i]
    BY <2>1, <2>2
  <2>3. CASE row'[i] # row[i]
    <3>1. PICK j \in Incident : Upsert(j) \/ DeleteIncident(j) \/ \E s \in Settable : SetStatus(j, s)
      BY <2>3 DEF Next, Tick, PollStep, PollFetch, Enqueue, MarkPolled, WorkerStep, Pop,
                  Faulty, PollEmpty, PollFails, Expire, LoseItem, Vendor, Stitch, Modify,
                  Analyst, pollVars
    <3>2. j = i
      BY <2>3, <3>1 DEF Upsert, DeleteIncident, SetStatus, IInv, TypeOK
    <3>3. CASE Upsert(i)
      <4>1. row'[i] = Upserted(i) /\ hand[i] # None
        BY <3>3 DEF Upsert, IInv, TypeOK
      <4>2. hand[i].mod >= row[i].mod
        BY <2>1, <4>1, Types DEF IInv, Ordered, InOrder, Version
      <4>3. QED BY <4>1, <4>2 DEF Upserted
    <3>4. CASE DeleteIncident(i)
      BY <3>4 DEF DeleteIncident, IInv, TypeOK
    <3>5. ASSUME NEW s \in Settable, SetStatus(i, s) PROVE row'[i].mod = row[i].mod
      <4>1. row' = [row EXCEPT ![i] = [row[i] EXCEPT !.status = s]] /\ row[i] \in Row
        BY <3>5, Types DEF SetStatus, IInv
      <4>2. QED BY <4>1 DEF IInv, TypeOK, Row
    <3>6. QED BY <2>1, <3>1, <3>2, <3>3, <3>4, <3>5
  <2>4. QED BY <2>2, <2>3
<1>2. QED BY <1>1, InductiveInvariant, PTL DEF Spec, RowAdvances

-----------------------------------------------------------------------------
(* The pipeline implements Mirror.                                         *)

(* Only a poll that fetched and has not enqueued yet holds copies.         *)
BatchInFlight == poll.pc # "fetched" => \A i \in Incident : poll.batch[i] = None

LEMMA BatchInit == Init => BatchInFlight
  BY DEF Init, BatchInFlight, IdlePoll

LEMMA BatchNext == BatchInFlight /\ [Next]_vars => BatchInFlight'
<1> SUFFICES ASSUME BatchInFlight, [Next]_vars PROVE BatchInFlight'
  OBVIOUS
<1>1. CASE poll' = poll
  BY <1>1 DEF BatchInFlight
<1>2. CASE poll' # poll
  <2>1. PollFetch \/ PollEmpty \/ Enqueue \/ MarkPolled \/ PollFails
    BY <1>2 DEF Next, vars, pollVars, Tick, PollStep, WorkerStep, Pop, Upsert, Faulty,
                Expire, LoseItem, Vendor, Stitch, Modify, Analyst, SetStatus, DeleteIncident
  <2>2. CASE PollFetch \/ PollEmpty
    BY <2>2 DEF PollFetch, PollEmpty, BatchInFlight, IdlePoll
  <2>3. CASE Enqueue \/ MarkPolled \/ PollFails
    BY <2>3 DEF Enqueue, MarkPolled, PollFails, BatchInFlight, IdlePoll
  <2>4. QED BY <2>1, <2>2, <2>3
<1>3. QED BY <1>1, <1>2

LEMMA BatchAlways == Spec => []BatchInFlight
  BY BatchInit, BatchNext, PTL DEF Spec

(* The elements of a queue, and the copies behind the abstract variable.   *)
LEMMA CopiesType == TypeOK => Copies \in [Incident -> SUBSET Version]
<1> SUFFICES ASSUME TypeOK PROVE Copies \in [Incident -> SUBSET Version]
  OBVIOUS
<1>1. ASSUME NEW i \in Incident PROVE Copies[i] \subseteq Version
  BY Types DEF Copies
<1>2. QED BY <1>1 DEF Copies

(* A step that only drops copies.                                          *)
LEMMA DiscardStep ==
  ASSUME TypeOK, UNCHANGED <<vendor, row>>,
         \A i \in Incident : Copies'[i] \subseteq Copies[i]
  PROVE  Table!Discard
<1>1. \A i \in Incident : Copies'[i] \in SUBSET Version
  BY CopiesType
<1>2. Copies' = [i \in Incident |-> Copies'[i]]
  BY DEF Copies
<1>3. Copies' \in [Incident -> SUBSET Version]
  BY <1>1, <1>2
<1>4. QED BY <1>3 DEF Table!Discard

LEMMA QuietRefines ==
  ASSUME TypeOK, Tick \/ MarkPolled \/ PollEmpty \/ PollFails \/ (\E i \in Incident : Expire(i))
  PROVE  Table!Discard
<1>1. UNCHANGED <<vendor, row, queue, hand>>
  BY DEF Tick, MarkPolled, PollEmpty, PollFails, Expire, pollVars
<1>2. \A i \in Incident : poll'.batch[i] \in {None, poll.batch[i]}
  BY DEF Tick, MarkPolled, PollEmpty, PollFails, Expire, pollVars, IdlePoll
<1>3. \A i \in Incident : Copies'[i] \subseteq Copies[i]
  BY <1>1, <1>2 DEF Copies
<1>4. QED BY <1>1, <1>3, DiscardStep

LEMMA FetchRefines ==
  ASSUME BatchInFlight, PollFetch
  PROVE  Table!Copy
<1>1. PICK p \in Pages :
        poll' = [pc |-> "fetched",
                 batch |-> [i \in Incident |-> IF i \in p THEN vendor[i] ELSE None]]
  BY DEF PollFetch
<1>2. p \in SUBSET {i \in Incident : vendor[i] # None}
  BY DEF Pages, Visible
<1>3. UNCHANGED <<vendor, row, queue, hand>> /\ \A i \in Incident : poll.batch[i] = None
  BY DEF PollFetch, BatchInFlight
<1>4. ASSUME NEW i \in Incident
      PROVE  Copies'[i] = IF i \in p THEN Copies[i] \cup {vendor[i]} ELSE Copies[i]
  <2>1. poll'.batch[i] = IF i \in p THEN vendor[i] ELSE None
    BY <1>1
  <2>2. i \in p => vendor[i] # None
    BY <1>2
  <2>3. QED BY <1>3, <2>1, <2>2 DEF Copies
<1>5. Copies' = [i \in Incident |-> IF i \in p THEN Copies[i] \cup {vendor[i]} ELSE Copies[i]]
  BY <1>4 DEF Copies
<1>6. QED BY <1>2, <1>3, <1>5 DEF Table!Copy

LEMMA QueueRefines ==
  ASSUME TypeOK, Enqueue \/ \E i \in Incident : Pop(i) \/ LoseItem(i)
  PROVE  Table!Discard
<1>1. CASE Enqueue
  <2>1. UNCHANGED <<vendor, row, hand>>
    BY <1>1 DEF Enqueue
  <2>2. ASSUME NEW i \in Incident PROVE Copies'[i] \subseteq Copies[i]
    <3>1. poll'.batch[i] = None
      BY <1>1 DEF Enqueue, IdlePoll
    <3>2. CASE i \notin Fresh
      <4>1. queue'[i] = queue[i]
        BY <1>1, <3>2 DEF Enqueue
      <4>2. QED BY <2>1, <3>1, <4>1 DEF Copies
    <3>3. CASE i \in Fresh
      <4>1. poll.batch[i] \in Version /\ queue[i] \in Seq(Version)
        BY <3>3, Types DEF Fresh
      <4>2. queue'[i] = Append(queue[i], poll.batch[i])
        BY <1>1, <3>3 DEF Enqueue
      <4>3. \A k \in 1..Len(queue'[i]) :
              queue'[i][k] = poll.batch[i] \/ \E l \in 1..Len(queue[i]) : queue'[i][k] = queue[i][l]
        BY <4>1, <4>2, PushEnd
      <4>4. QED BY <2>1, <3>1, <4>3 DEF Copies
    <3>4. QED BY <3>2, <3>3
  <2>3. QED BY <2>1, <2>2, DiscardStep
<1>2. ASSUME NEW i \in Incident, Pop(i) PROVE Table!Discard
  <2>1. UNCHANGED <<vendor, row, poll>>
    BY <1>2 DEF Pop
  <2>2. /\ hand'[i] = Head(queue[i]) /\ queue'[i] = Tail(queue[i])
        /\ \A j \in Incident : j # i => hand'[j] = hand[j] /\ queue'[j] = queue[j]
    BY <1>2 DEF Pop, TypeOK
  <2>3. /\ 1 \in 1..Len(queue[i]) /\ hand'[i] = queue[i][1]
        /\ \A k \in 1..Len(queue'[i]) :
             k + 1 \in 1..Len(queue[i]) /\ queue'[i][k] = queue[i][k + 1]
    <3>1. queue[i] \in Seq(Version) /\ queue[i] # <<>>
      BY <1>2, Types DEF Pop
    <3>2. QED BY <2>2, <3>1, PopEnd
  <2>4. Copies'[i] \subseteq Copies[i]
    BY <2>1, <2>3 DEF Copies
  <2>5. \A j \in Incident : j # i => Copies'[j] = Copies[j]
    BY <2>1, <2>2 DEF Copies
  <2>6. QED BY <2>1, <2>4, <2>5, DiscardStep
<1>3. ASSUME NEW i \in Incident, LoseItem(i) PROVE Table!Discard
  <2>1. UNCHANGED <<vendor, row, poll, queue>>
    BY <1>3 DEF LoseItem, pollVars
  <2>2. \A j \in Incident : hand'[j] \in {None, hand[j]}
    BY <1>3 DEF LoseItem, TypeOK
  <2>3. \A j \in Incident : Copies'[j] \subseteq Copies[j]
    BY <2>1, <2>2 DEF Copies
  <2>4. QED BY <2>1, <2>3, DiscardStep
<1>4. QED BY <1>1, <1>2, <1>3

LEMMA UpsertRefines ==
  ASSUME IInv, NEW i \in Incident, Upsert(i)
  PROVE  Table!Store(i)
<1> DEFINE others == ({poll.batch[i]} \cup {queue[i][k] : k \in 1..Len(queue[i])}) \ {None}
<1>1. /\ UNCHANGED <<vendor, poll, queue>>
      /\ hand[i] # None /\ row' = [row EXCEPT ![i] = Upserted(i)]
      /\ hand' = [hand EXCEPT ![i] = None]
  BY DEF Upsert, pollVars
<1>2. Copies[i] = others \cup {hand[i]} /\ Copies'[i] = others
  <2>1. hand'[i] = None
    BY <1>1 DEF IInv, TypeOK
  <2>2. QED BY <1>1, <2>1 DEF Copies
<1>3. \A j \in Incident : j # i => Copies'[j] = Copies[j]
  <2>1. \A j \in Incident : j # i => hand'[j] = hand[j]
    BY <1>1
  <2>2. QED BY <1>1, <2>1 DEF Copies
<1> HIDE DEF others
<1>4. Copies' = [Copies EXCEPT ![i] = others]
  <2>1. /\ Copies = [j \in Incident |-> Copies[j]]
        /\ Copies' = [j \in Incident |-> Copies'[j]]
    BY DEF Copies
  <2>2. QED BY <1>2, <1>3, <2>1
<1>5. others \in {Copies[i], Copies[i] \ {hand[i]}}
  <2>1. CASE hand[i] \in others
    BY <1>2, <2>1
  <2>2. CASE hand[i] \notin others
    BY <1>2, <2>2
  <2>3. QED BY <2>1, <2>2
<1>6. row[i] # None => hand[i].mod >= row[i].mod
  BY <1>1, Types DEF IInv, Ordered, InOrder, Version, Row
<1>7. hand[i] \in Version
  BY <1>1, Types DEF IInv
<1>8. [s \in Reported |-> Normalized(s)][hand[i].status] = Normalized(hand[i].status)
  BY <1>7 DEF Version
<1>9. Upserted(i) =
        [mod |-> hand[i].mod,
         status |-> IF row[i] # None /\ row[i].status \in Closed THEN row[i].status
                    ELSE [s \in Reported |-> Normalized(s)][hand[i].status]]
  BY <1>8 DEF Upserted
<1>10. hand[i] \in Copies[i]
  BY <1>2
<1>11. QED BY <1>1, <1>4, <1>5, <1>6, <1>9, <1>10 DEF Table!Store

LEMMA VendorRefines ==
  ASSUME IInv, Vendor
  PROVE  \E i \in Incident : Table!Show(i)
<1>1. UNCHANGED <<poll, queue, hand, row>>
  BY DEF Vendor, Stitch, Modify, pollVars
<1>2. Copies' = Copies
  BY <1>1 DEF Copies
<1>3. PICK i \in Incident : Stitch(i) \/ \E a \in 0..MaxAlerts, s \in Reported : Modify(i, a, s)
  BY DEF Vendor
<1>4. CASE Stitch(i)
  <2> DEFINE v == [vendor[i] EXCEPT !.alerts = @ + 1]
  <2>1. vendor[i] \in Version /\ vendor[i].alerts < MaxAlerts
    BY <1>4, Types DEF Stitch, IInv
  <2>2. v \in Version /\ v.mod >= vendor[i].mod
    BY <2>1 DEF Version
  <2>3. vendor' = [vendor EXCEPT ![i] = v]
    BY <1>4 DEF Stitch
  <2> HIDE DEF v
  <2>4. QED BY <1>1, <1>2, <2>2, <2>3 DEF Table!Show
<1>5. ASSUME NEW a \in 0..MaxAlerts, NEW s \in Reported, Modify(i, a, s)
      PROVE  Table!Show(i)
  <2> DEFINE v == [mod |-> now, alerts |-> a, status |-> s]
  <2>1. v \in Version
    BY DEF IInv, TypeOK, Version
  <2>2. vendor[i] # None => v.mod >= vendor[i].mod
    BY <1>5, Types DEF Modify, IInv, TypeOK, Version
  <2>3. vendor' = [vendor EXCEPT ![i] = v]
    BY <1>5 DEF Modify
  <2> HIDE DEF v
  <2>4. QED BY <1>1, <1>2, <2>1, <2>2, <2>3 DEF Table!Show
<1>6. QED BY <1>3, <1>4, <1>5

LEMMA AnalystRefines ==
  ASSUME Analyst
  PROVE  \E i \in Incident : Table!Delete(i) \/ \E s \in Settable : Table!SetStatus(i, s)
<1>1. UNCHANGED <<vendor, poll, queue, hand>>
  BY DEF Analyst, SetStatus, DeleteIncident, pollVars
<1>2. Copies' = Copies
  BY <1>1 DEF Copies
<1>3. QED BY <1>1, <1>2 DEF Analyst, SetStatus, DeleteIncident, Table!Delete, Table!SetStatus

(* Polls, fingerprints, queue and worker keep what Mirror says of the      *)
(* incidents table: every step is a step of Mirror or leaves vendor,       *)
(* copies and rows alone.                                                  *)
THEOREM PipelineImplementsMirror == Spec => MirrorSpec
<1>1. Init => Table!Init
  <2> SUFFICES ASSUME Init PROVE Table!Init
    OBVIOUS
  <2>1. \A i \in Incident : Copies[i] = {}
    BY EmptySeq DEF Init, IdlePoll, Copies
  <2>2. Copies = [i \in Incident |-> {}]
    BY <2>1 DEF Copies
  <2>3. QED BY <2>2 DEF Init, Table!Init
<1>2. IInv /\ BatchInFlight /\ [Next]_vars => [Table!Next]_(Table!vars)
  <2> SUFFICES ASSUME IInv, BatchInFlight, [Next]_vars
               PROVE  Table!Next \/ UNCHANGED Table!vars
    OBVIOUS
  <2>1. TypeOK
    BY DEF IInv
  <2>2. CASE Tick \/ MarkPolled \/ PollEmpty \/ PollFails \/ \E i \in Incident : Expire(i)
    BY <2>1, <2>2, QuietRefines DEF Table!Next
  <2>3. CASE PollFetch
    BY <2>3, FetchRefines DEF Table!Next
  <2>4. CASE Enqueue \/ \E i \in Incident : Pop(i) \/ LoseItem(i)
    BY <2>1, <2>4, QueueRefines DEF Table!Next
  <2>5. CASE \E i \in Incident : Upsert(i)
    BY <2>5, UpsertRefines DEF Table!Next
  <2>6. CASE Vendor
    BY <2>6, VendorRefines DEF Table!Next
  <2>7. CASE Analyst
    BY <2>7, AnalystRefines DEF Table!Next
  <2>8. CASE UNCHANGED vars
    BY <2>8 DEF vars, pollVars, Copies, Table!vars
  <2>9. QED
    BY <2>2, <2>3, <2>4, <2>5, <2>6, <2>7, <2>8 DEF Next, PollStep, WorkerStep, Faulty
<1>3. QED
  BY <1>1, <1>2, InductiveInvariant, BatchAlways, PTL DEF Spec, MirrorSpec, Table!Spec
=============================================================================
