-------------------------------- MODULE Mirror --------------------------------
(***************************************************************************)
(* What the ingestion pipeline promises about the incidents table, said    *)
(* without polls, fingerprints, queue and worker: copies are taken of the  *)
(* vendor's incidents, copies may get lost or be taken twice, and a row    *)
(* only ever takes over a copy of its own incident that is not older than  *)
(* what it shows.  A row somebody closed keeps its status.                 *)
(***************************************************************************)
EXTENDS Integers

CONSTANTS
  Incident,
  Version,        \* what the vendor may show of an incident, with its time mod
  Settable,       \* statuses the analysts set
  Closed,         \* statuses a copy does not undo
  Normal,         \* Normal[s]: the status a row gets from the vendor's s
  None

VARIABLES
  vendor,   \* vendor[i]: the incident in the vendor's console
  copies,   \* copies[i]: versions of it taken and not stored yet
  row       \* row[i]: the incidents table

vars == <<vendor, copies, row>>

Init ==
  /\ vendor = [i \in Incident |-> None]
  /\ copies = [i \in Incident |-> {}]
  /\ row = [i \in Incident |-> None]

(* The vendor's incidents change by themselves, never back in time.        *)
Show(i) ==
  /\ \E v \in Version :
       /\ vendor[i] # None => v.mod >= vendor[i].mod
       /\ vendor' = [vendor EXCEPT ![i] = v]
  /\ UNCHANGED <<copies, row>>

(* Copies are made of some incidents at once.                              *)
Copy ==
  /\ \E p \in SUBSET {i \in Incident : vendor[i] # None} :
       copies' = [i \in Incident |->
                    IF i \in p THEN copies[i] \cup {vendor[i]} ELSE copies[i]]
  /\ UNCHANGED <<vendor, row>>

(* Known ones are put aside, and some are lost.                            *)
Discard ==
  /\ copies' \in [Incident -> SUBSET Version]
  /\ \A i \in Incident : copies'[i] \subseteq copies[i]
  /\ UNCHANGED <<vendor, row>>

(* A copy is stored; another copy of the same version may be left.         *)
Store(i) ==
  /\ \E v \in copies[i] :
       /\ row[i] # None => v.mod >= row[i].mod
       /\ row' = [row EXCEPT ![i] =
            [mod |-> v.mod,
             status |-> IF row[i] # None /\ row[i].status \in Closed
                        THEN row[i].status ELSE Normal[v.status]]]
       /\ \E c \in {copies[i], copies[i] \ {v}} : copies' = [copies EXCEPT ![i] = c]
  /\ UNCHANGED vendor

(* The analysts.                                                           *)
SetStatus(i, s) ==
  /\ row[i] # None
  /\ row' = [row EXCEPT ![i].status = s]
  /\ UNCHANGED <<vendor, copies>>

Delete(i) ==
  /\ row[i] # None
  /\ row' = [row EXCEPT ![i] = None]
  /\ UNCHANGED <<vendor, copies>>

Next ==
  \/ Copy
  \/ Discard
  \/ \E i \in Incident :
       \/ Show(i)
       \/ Store(i)
       \/ Delete(i)
       \/ \E s \in Settable : SetStatus(i, s)

Spec == Init /\ [][Next]_vars
=============================================================================
