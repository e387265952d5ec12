----------------------------- MODULE Escalations -----------------------------
(***************************************************************************)
(* BreakglassEscalation objects: the lookups of the escalation manager,    *)
(* the groups of a caller and the check whether one escalation lets a      *)
(* caller approve.                                                         *)
(*                                                                         *)
(* A group is a sequence of name parts, its OIDC prefixes first, so that   *)
(* stripping takes off a part.  Contained[r] are the clusters whose name   *)
(* occurs in the reference r (strings.Contains), r itself included.        *)
(* Abstracted: an e-mail address is a caller and his domain.               *)
(***************************************************************************)
EXTENDS Naturals, Sequences

CONSTANTS
    Escalations,    \* BreakglassEscalation objects, in list order
    Contained,      \* clusters contained in a clusterConfigRef
    OIDCPrefixes,   \* the configured prefixes
    TokenGroups,    \* groups in the token of a caller
    ClusterGroups,  \* groups of a user according to a cluster
    HubCluster,     \* the cluster asked when the caller names none
    DomainOf,       \* domain of a caller's e-mail address
    Indexed,        \* field selectors on escalations are answered
    NoObject        \* no such object

----------------------------------------------------------------------------
(***************************************************************************)
(* Groups.                                                                 *)
(***************************************************************************)

\* stripOIDCPrefixes: one prefix of each group.
Stripped(G) ==
    {IF g # <<>> /\ Head(g) \in OIDCPrefixes THEN Tail(g) ELSE g : g \in G}

\* GetUserGroups: what the cluster says of the impersonated user.
GetUserGroups(u, cluster) == Stripped(ClusterGroups[cluster][u])

\* The groups that count when caller c asks on behalf of user u: those of the
\* caller's token, and if it has none those the cluster reports of the user.
UserGroups(c, u, cluster) ==
    Stripped(IF TokenGroups[c] # {} THEN TokenGroups[c]
                                    ELSE GetUserGroups(u, cluster))

\* The groups of an approver; those of the token are not stripped.
ApproverGroups(c, cluster) ==
    IF TokenGroups[c] # {} THEN TokenGroups[c] ELSE GetUserGroups(c, cluster)

----------------------------------------------------------------------------
(***************************************************************************)
(* The lookups of the escalation manager among the escalations E, a        *)
(* function from names to specifications.  When a field selector is        *)
(* answered and finds something, only that is looked at.                   *)
(***************************************************************************)

MatchesCluster(spec, cluster) ==
    cluster \in spec.clusters \/ \E r \in spec.refs : cluster \in Contained[r]

MatchesGroups(spec, groups) == Stripped(spec.allowed) \cap groups # {}

Candidates(E, cluster) ==
    LET found == {e \in Escalations : cluster \in E[e].clusters \cup E[e].refs}
    IN  IF Indexed /\ found # {} THEN found ELSE Escalations

GetClusterBreakglassEscalations(E, cluster) ==
    {e \in Candidates(E, cluster) : MatchesCluster(E[e], cluster)}

GetClusterGroupBreakglassEscalations(E, cluster, groups) ==
    {e \in Candidates(E, cluster) :
        MatchesCluster(E[e], cluster) /\ MatchesGroups(E[e], groups)}

\* Mutant: the groups of the escalation are compared as they are written.
GetWrittenGroupEscalations(E, groups) ==
    {e \in Escalations : E[e].allowed \cap groups # {}}

\* The index holds the groups as they are written in the escalation.
GetGroupBreakglassEscalations(E, groups) ==
    LET found == {e \in Escalations :
                    E[e].allowed \cap groups \cap Stripped(E[e].allowed) # {}}
    IN  IF Indexed /\ found # {} THEN found
                                 ELSE {e \in Escalations : MatchesGroups(E[e], groups)}

----------------------------------------------------------------------------
(***************************************************************************)
(* One escalation in isSessionApprover, with the ClusterConfig found in    *)
(* its namespace (NoObject when there is none or it cannot be read).       *)
(***************************************************************************)

\* Mutant: the setting of the ClusterConfig is ignored.
BlocksSelfByEscalation(spec, config) == spec.blockSelf = "yes"

BlocksSelf(spec, config) ==
    IF spec.blockSelf # "unset" THEN spec.blockSelf = "yes"
                                ELSE config # NoObject /\ config.blockSelf

AllowedDomains(spec, config) ==
    IF spec.domains = {} /\ config # NoObject THEN config.domains ELSE spec.domains

\* Caller c may approve a session of user u in the cluster.
Admits(spec, config, c, u, cluster) ==
    /\ ~(BlocksSelf(spec, config) /\ c = u)
    /\ \/ AllowedDomains(spec, config) = {}
       \/ DomainOf[c] \in AllowedDomains(spec, config)
    /\ \/ c \in spec.users
       \/ ApproverGroups(c, cluster) \cap spec.groups # {}
==============================================================================
