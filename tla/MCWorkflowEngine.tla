--------------------------- MODULE MCWorkflowEngine ---------------------------
(* Instances of WorkflowEngine for TLC.                                    *)
EXTENDS WorkflowEngine, TLC

CONSTANTS e1, e2, q1, q2, ev, a, b, c, g, h, w

(* a leads to a wait for an event, to an approval, to both or to neither;  *)
(* after either c follows, which leads back to a.                          *)
MCNode == {a, w, g, c}
MCKind == (a :> "if") @@ (w :> "wait") @@ (g :> "gate") @@ (c :> "action")
MCSucc == (a :> {w, g}) @@ (w :> {c}) @@ (g :> {c}) @@ (c :> {a})

(* g -> b -> h -> c: two gates in a row.                                   *)
MCNodeGates == {g, b, h, c}
MCKindGates == (g :> "gate") @@ (b :> "action") @@ (h :> "gate") @@ (c :> "action")
MCSuccGates == (g :> {b}) @@ (b :> {h}) @@ (h :> {c}) @@ (c :> {})
=============================================================================
