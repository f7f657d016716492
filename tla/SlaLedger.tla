------------------------------ MODULE SlaLedger ------------------------------
(***************************************************************************)
(* What a reader of the incidents and their timeline may take the SLA      *)
(* flags for, said without background checkers, transactions, row locks    *)
(* and requests under way: time passes, incidents are opened and handled,  *)
(* and every verdict on a clock is reached in one step, about the row as   *)
(* that very step finds it.  Nothing promises that a verdict is reached.   *)
(***************************************************************************)
EXTENDS Integers

CONSTANTS
  Incident,
  Severity,
  Status,
  New,          \* the status of an incident nobody has answered
  Closed,       \* statuses in which no clock runs
  TargetMin,    \* TargetMin[sla][severity]: minutes allowed, 0 turns it off
  Covered,      \* incidents whose tenant has targets
  Time,
  None

VARIABLES
  now,
  status,         \* status[i], None before the incident exists
  severity,
  created,
  firstResponse,  \* firstResponse[i]: when it was answered, or None
  breached,       \* clocks that carry a breach flag
  breachEvents    \* breachEvents[p]: breaches of p on the timeline

vars == <<now, status, severity, created, firstResponse, breached, breachEvents>>

Clock == Incident \X {"first_response", "resolution"}
Target(p) == TargetMin[p[2]][severity[p[1]]]
Elapsed(p, t) == t - created[p[1]]

Init ==
  /\ now = 0
  /\ status = [i \in Incident |-> None]
  /\ severity \in [Incident -> Severity]
  /\ created = [i \in Incident |-> 0]
  /\ firstResponse = [i \in Incident |-> None]
  /\ breached = {}
  /\ breachEvents = [p \in Clock |-> 0]

Pass ==
  /\ now' \in {t \in Time : t > now}
  /\ UNCHANGED <<status, severity, created, firstResponse, breached, breachEvents>>

(* An incident opened in another status than new is answered already.      *)
Open(i) ==
  /\ status[i] = None
  /\ \E s \in Status, v \in Severity :
       /\ status' = [status EXCEPT ![i] = s]
       /\ severity' = [severity EXCEPT ![i] = v]
       /\ firstResponse' = [firstResponse EXCEPT ![i] = IF s = New THEN None ELSE now]
  /\ created' = [created EXCEPT ![i] = now]
  /\ UNCHANGED <<now, breached, breachEvents>>

(* The one answer of an incident, given at some time since it was opened.  *)
(* An answer that came too late may be put on record with it, also if the  *)
(* clock was flagged before.                                               *)
Answer(i) ==
  LET p == <<i, "first_response">>
  IN /\ firstResponse[i] = None
     /\ \E t \in Time :
          /\ created[i] <= t /\ t <= now
          /\ firstResponse' = [firstResponse EXCEPT ![i] = t]
          /\ \/ UNCHANGED <<breached, breachEvents>>
             \/ /\ i \in Covered /\ Elapsed(p, t) > Target(p)
                /\ breached' = breached \cup {p}
                /\ breachEvents' = [breachEvents EXCEPT ![p] = @ + 1]

(* Analysts and other services move, rate and answer an incident.          *)
Handle(i) ==
  /\ status[i] # None
  /\ \E s \in Status : status' = [status EXCEPT ![i] = s]
  /\ \E v \in Severity : severity' = [severity EXCEPT ![i] = v]
  /\ Answer(i) \/ UNCHANGED <<firstResponse, breached, breachEvents>>
  /\ UNCHANGED <<now, created>>

(* Clocks that run now, are not flagged yet and have used up their target. *)
Due ==
  {p \in Clock : /\ status[p[1]] \notin Closed \cup {None}
                 /\ p[1] \in Covered /\ p \notin breached
                 /\ Target(p) > 0 /\ Elapsed(p, now) >= Target(p)
                 /\ p[2] = "first_response" => firstResponse[p[1]] = None}

(* Some of them are flagged at once, with one event each.                  *)
Judge ==
  /\ \E d \in SUBSET Due :
       /\ breached' = breached \cup d
       /\ breachEvents' = [p \in Clock |-> IF p \in d THEN breachEvents[p] + 1
                                           ELSE breachEvents[p]]
  /\ UNCHANGED <<now, status, severity, created, firstResponse>>

Next ==
  \/ Pass
  \/ Judge
  \/ \E i \in Incident : Open(i) \/ Handle(i)

Spec == Init /\ [][Next]_vars
=============================================================================
