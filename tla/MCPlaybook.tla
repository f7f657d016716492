------------------------------ MODULE MCPlaybook ------------------------------
EXTENDS Playbook

(* a: trigger, then by the condition over the gate or the try node to a    *)
(* write, to a itself, and back.  b: a desk write that is reached from the *)
(* trigger and from a lookup, stop; or it has no trigger.                  *)
MCWorkflow == {"a", "b"}
MCNode == {"t", "i", "g", "y", "w", "m", "s", "u", "l", "d", "x"}
MCOf == [n \in MCNode |-> IF n \in {"u", "l", "d", "x"} THEN "b" ELSE "a"]
(* The catch branch is reached when the write fails: at Freshdesk.         *)
MCTyping ==
  {[t |-> "trigger", i |-> "if_condition", g |-> "approval_gate", y |-> "try_catch",
    w |-> p[1], m |-> p[2], s |-> "sub_workflow", l |-> "geoip_lookup",
    u |-> IF p[1] = "close_incident" THEN "add_tags" ELSE "trigger",
    d |-> "onedesk_create_item", x |-> "stop"] :
     p \in ({"freshdesk_create_ticket"} \X {"send_notification", "escalate_incident", "send_email"})
           \cup {<<"change_status", "send_notification">>, <<"close_incident", "escalate_incident">>}}
E(a, b, o) == [from |-> a, to |-> b, on |-> o]
MCEdge == {E("t", "i", None), E("i", "g", "true"), E("i", "y", "false"),
           E("g", "w", None), E("y", "w", "try"), E("y", "m", "catch"),
           E("w", "s", None), E("s", "i", None),
           E("u", "l", None), E("u", "d", None), E("l", "d", None), E("d", "x", None)}
MCRetry == [n \in MCNode |-> IF n = "w" THEN 1 ELSE 0]
MCOnError == [n \in MCNode |-> IF n = "s" THEN "continue" ELSE "stop"]
MCCalls == [n \in MCNode |-> "a"]
=============================================================================
