----------------------------- MODULE DenyPolicy -----------------------------
(***************************************************************************)
(* The deny policy evaluator (pkg/policy/deny.go).                         *)
(*                                                                         *)
(* A policy has a scope and rules.  The lists of a policy are sets here,   *)
(* and the policies a set: their order and precedence decide nothing but   *)
(* the name in the answer.  A nil appliesTo and one with three empty lists *)
(* match the same actions and are one value.                               *)
(***************************************************************************)

CONSTANTS
    Any,     \* the wildcard "*"
    Globs    \* the pairs <<pattern, value>> that filepath.Match accepts

contains(list, v) == v \in list \/ Any \in list

matchAny(patterns, v) ==
    \/ Any \in patterns
    \/ \E p \in patterns : <<p, v>> \in Globs

scopeMatches(s, act) ==
    /\ s.clusters = {} \/ contains(s.clusters, act.cluster)
    /\ s.tenants = {}  \/ contains(s.tenants, act.tenant)
    /\ s.sessions = {} \/ contains(s.sessions, act.session)

\* An empty list of subresources, namespaces or resource names matches all.
ruleMatches(r, a) ==
    /\ contains(r.verbs, a.verb)
    /\ contains(r.apiGroups, a.group)
    /\ contains(r.resources, a.resource)
    /\ r.subresources = {}  \/ contains(r.subresources, a.subresource)
    /\ r.namespaces = {}    \/ matchAny(r.namespaces, a.namespace)
    /\ r.resourceNames = {} \/ matchAny(r.resourceNames, a.name)

\* act: the attributes of the request with its cluster, tenant and session.
Denies(pol, act) ==
    scopeMatches(pol.appliesTo, act) /\ \E r \in pol.rules : ruleMatches(r, act.attributes)

Match(policies, act) == \E pol \in policies : Denies(pol, act)
=============================================================================
