---------------------------- MODULE MCDashboard ----------------------------
EXTENDS Dashboard

Inc(sev, status, age, touched, wait) ==
    [sev |-> sev, status |-> status, age |-> age, touched |-> touched,
     wait |-> wait, owned |-> TRUE]
\* A healthy tenant, but for what its newest incidents hide, and one without any.
Busy == [incidents |-> <<Inc("high", "resolved", 9, 1, 0), Inc("low", "new", 1, 0, 1),
                         Inc("critical", "new", 9, 0, 0)>>,
         critical |-> 0, high |-> 1, connected |-> 100, risk |-> 20, bulk |-> 40]
Empty == [incidents |-> <<>>, critical |-> 0, high |-> 0, connected |-> 100,
          risk |-> 0, bulk |-> 0]
Contents == {[t \in Tenant |-> IF t = Bundled THEN Busy ELSE Empty]}
Clients == {[r \in Req |-> IF r = "r1" THEN p[1] ELSE p[2]] :
              p \in {<<"posture", "users">>, <<"threats", "summary">>, <<"surface", "query">>,
                     <<"tactics", "summary">>, <<"list", "alerts">>}}
=============================================================================
