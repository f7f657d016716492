------------------------------ MODULE MCAccounts ------------------------------
(* Instances of Accounts for TLC: a super_admin without a tenant, a second *)
(* account that administers its primary tenant, and a free address.        *)
EXTENDS Accounts

CONSTANTS u1, u2, u3, a, b, k1, k2, k3, s1, s2, r1, r2, r3

Body(l, x, f) == [list |-> l, role |-> x, flag |-> f]
MCBodies == {Body(l, None, "keep") : l \in {<<>>, <<a>>, <<b, a>>}}
              \cup {Body(<<b>>, None, "no"), Body(<<b>>, "analyst", "keep"),
                    Body(None, "customer_admin", "keep")}
MCRoles == {[u \in User |-> CASE u = u1 -> "super_admin"
                              [] u = u2 -> x
                              [] OTHER -> "analyst"] :
              x \in {"super_admin", "customer_admin"}}
MCPrimary == [u \in User |-> IF u = u2 THEN a ELSE None]
MCSymmetry == Permutations({r1, r2, r3})
  \cup Permutations({k1, k2, k3})
                \cup Permutations({s1, s2})
=============================================================================
