--------------------------- MODULE MCAuthorizer ---------------------------
(***************************************************************************)
(* Small instances of Authorizer: one user, one group on one cluster, two  *)
(* requests and two deny policies.                                         *)
(***************************************************************************)
EXTENDS Authorizer

CONSTANTS alice, bob, k1, r1, d1

MCKeyOf == [n \in Names |-> k1]
MCOwnerOf == [k \in Keys |-> alice]
MCApproversOf == [k \in Keys |-> {bob}]
MCClusterOf == [k \in Keys |-> "prod"]
MCGroupOf == [k \in Keys |-> "admins"]
MCTenantOf == [c \in Clusters |-> "acme"]

Secret(name) ==
    [verb |-> "get", group |-> "", resource |-> "secrets", subresource |-> "",
     namespace |-> "prod", name |-> name]

\* Two secrets; the first has the name of its resource.
MCAttributes == {Secret("secrets"), Secret("prod-db")}

\* Admins may get the first secret and, as the cluster prefixes them, the other.
MCPermits ==
    {<<NoPrefix, "admins", Secret("secrets")>>, <<"oidc:", "admins", Secret("prod-db")>>}

\* Only the first.
MCPermitsFirst == {<<NoPrefix, "admins", Secret("secrets")>>}

MCGlobs == {<<"prod-*", "prod-db">>, <<"secrets", "secrets">>}

Rule(names) ==
    [verbs |-> {Any}, apiGroups |-> {""}, resources |-> {"secrets"},
     subresources |-> {}, namespaces |-> {Any}, resourceNames |-> names]

\* A policy of the tenant, for some names, and one of a session, for all.
MCPolicies ==
    {[appliesTo |-> [clusters |-> {}, tenants |-> {"acme"}, sessions |-> {}],
      rules |-> {Rule({"prod-*"})}],
     [appliesTo |-> [clusters |-> {"prod"}, tenants |-> {}, sessions |-> {1}],
      rules |-> {Rule({})}]}
===========================================================================
