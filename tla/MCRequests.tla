----------------------------- MODULE MCRequests -----------------------------
(***************************************************************************)
(* One triple of alice.  The first escalation names its cluster and bob;   *)
(* the second, in another namespace, refers to the ClusterConfig and lets  *)
(* the requesting group itself approve unless the ClusterConfig forbids    *)
(* it.  Either may be edited into the other's specification.  Bob has no   *)
(* groups in his token and none in a cluster that could request, so what   *)
(* he requests for alice is judged by her groups there.                    *)
(***************************************************************************)
EXTENDS Requests, TLC

CONSTANTS k1, alice, bob, r1, r2, d1

MCKeyOf == [n \in Names |-> k1]
MCOwnerOf == [k \in Keys |-> alice]
MCApproversOf == [k \in Keys |-> Callers]
MCClusterOf == [k \in Keys |-> "prod"]
MCGroupOf == [k \in Keys |-> "admin"]

MCContained == [r \in {"prod-config"} |-> {"prod"}]
MCTokenGroups == [c \in Callers |-> IF c = alice THEN {<<"dev">>} ELSE {}]
MCClusterGroups ==
    [cluster \in {"prod", "hub"} |->
        [c \in Callers |-> IF c = alice THEN {<<"oidc:", "dev">>}
                                        ELSE {<<"oidc:", "lead">>}]]
MCDomainOf == [c \in Callers |-> IF c = alice THEN "dev.org" ELSE "lead.org"]

Named ==
    [namespace |-> "a", clusters |-> {"prod"}, refs |-> {},
     allowed |-> {<<"oidc:", "dev">>}, escalated |-> "admin", users |-> {bob},
     groups |-> {}, blockSelf |-> "unset", domains |-> {}, deny |-> {"p"}]
Referred ==
    [namespace |-> "b", clusters |-> {}, refs |-> {"prod-config"},
     allowed |-> {<<"dev">>}, escalated |-> "admin", users |-> {},
     groups |-> {<<"dev">>}, blockSelf |-> "no", domains |-> {}, deny |-> {}]
Open ==
    [namespace |-> "b", clusters |-> {"prod"}, refs |-> {},
     allowed |-> {<<"dev">>}, escalated |-> "admin", users |-> {},
     groups |-> {<<"dev">>, <<"lead">>}, blockSelf |-> "unset", domains |-> {},
     deny |-> {"q"}]

MCEscalationSpecs == {Named, Referred, Open}
MCFirstSpecs == [e \in Escalations |-> IF e = 1 THEN Named ELSE Open]
RefsOnly == [e \in Escalations |-> Referred]

MCConfigSlots == {<<"b", "prod">>}
MCConfigSpecs == {[blockSelf |-> TRUE, domains |-> {}],
                  [blockSelf |-> FALSE, domains |-> {"lead.org"}]}
MCFirstConfigs == [slot \in ConfigSlots |-> [blockSelf |-> TRUE, domains |-> {}]]

HandlerSymmetry == Permutations(Requesters)
=============================================================================
