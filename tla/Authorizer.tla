----------------------------- MODULE Authorizer -----------------------------
(***************************************************************************)
(* The authorization webhook: handleAuthorize decides a                    *)
(* SubjectAccessReview from the sessions of its user, the deny policies    *)
(* and the permissions on the target cluster, while the rest of the        *)
(* service (SessionLifecycle) and the administrators go on.                *)
(*                                                                         *)
(* A review writes nothing, so reviews do not influence each other and one *)
(* at a time is enough.  A step is one call to the hub's API server or to  *)
(* the target cluster; calls that only fill in the reason of the answer    *)
(* are left out unless they can fail.                                      *)
(*                                                                         *)
(* Abstracted: the reason, the metrics, and the order in which the         *)
(* prefixed groups are tried (it decides which of them is reported).       *)
(***************************************************************************)
EXTENDS SessionLifecycle, DenyPolicy

CONSTANTS
    Users,          \* the callers whose requests are reviewed
    Clusters,       \* target clusters
    ClusterOf,      \* the cluster of a triple
    GroupOf,        \* the group of a triple
    TenantOf,       \* spec.tenant of the cluster's ClusterConfig
    NoTenant,       \* the tenant when the ClusterConfig cannot be read
    Prefixes,       \* the configured OIDC prefixes of groups
    NoPrefix,       \* a group without prefix
    Authenticated,  \* system:authenticated, which every user is in
    Attributes,     \* resource attributes of the reviews
    NonResource,    \* those of a review without resource attributes
    Permits,        \* <<prefix, group, attributes>> the target's RBAC allows
    Policies        \* the deny policies administrators may put in force

ASSUME AuthorizerAssumption ==
    /\ Users \subseteq Callers
    /\ ClusterOf \in [Keys -> Clusters]
    /\ NonResource \notin Attributes

VARIABLES
    policies,   \* the deny policies in force
    review      \* the review being decided, or the last answer

avars == <<vars, policies, review>>

\* sessions: those read at the start, todo: those whose policies are still to
\* be evaluated, via: the session an allowed session SAR belongs to.  The
\* rest is history: blind: a policy list or the tenant could not be read;
\* standing: the policies in force all the time; at, before: the time and the
\* revoked sessions when the review arrived.
NoReview ==
    [pc |-> "done", outcome |-> "none", user |-> None, cluster |-> None,
     attributes |-> NonResource, sessions |-> {}, tenant |-> NoTenant,
     todo |-> {}, via |-> NoName, blind |-> FALSE, standing |-> {},
     at |-> Unset, before |-> {}]

AInit == Init /\ policies \in SUBSET Policies /\ review = NoReview

----------------------------------------------------------------------------

\* An answer without access, and one with.
Refuse(outcome) == review' = [NoReview EXCEPT !.outcome = outcome]

Allow == review' = [review EXCEPT !.pc = "done", !.outcome = "allowed", !.todo = {}]

Elsewhere == UNCHANGED <<vars, policies>>

\* Mutant: a session counts unless it was rejected.
GrantingSessionsUnlessRejected(u, c) ==
    {n \in stored : /\ OwnerOf[KeyOf[n]] = u /\ ClusterOf[KeyOf[n]] = c
                    /\ ~IsSessionRetained(status[n], now)
                    /\ status[n].rejectedAt = Unset}

\* The sessions of the user and cluster that getSessions keeps.
GrantingSessions(u, c) ==
    {n \in stored : /\ OwnerOf[KeyOf[n]] = u /\ ClusterOf[KeyOf[n]] = c
                    /\ GrantsAccess(status[n], now)}

\* A review of user u for attributes a, with the tenant that was read.
Arrived(u, c, a, t) ==
    [pc         |-> IF a = NonResource THEN "rbac" ELSE "global",
     outcome    |-> "none",
     user       |-> u,
     cluster    |-> c,
     attributes |-> a,
     sessions   |-> GrantingSessions(u, c),
     tenant     |-> t,
     todo       |-> {},
     via        |-> NoName,
     blind      |-> (t # TenantOf[c]),
     standing   |-> policies,
     at         |-> now,
     before     |-> revoked]

\* A review arrives; the sessions and (as far as possible) the tenant are read.
Arrive(u, c, a) ==
    /\ review.pc = "done"
    /\ review' \in {Arrived(u, c, a, t) : t \in {TenantOf[c], NoTenant}}
    /\ Elsewhere

\* The action that is compared with the policies, for a session or for none.
Action(rv, session) ==
    [attributes |-> rv.attributes, cluster |-> rv.cluster,
     tenant |-> rv.tenant, session |-> session]

\* Go on to the sessions in todo, or to the RBAC check.
Proceed(todo, blind) ==
    review' = [review EXCEPT !.pc = IF todo = {} THEN "rbac" ELSE "session",
                             !.todo = todo, !.blind = blind]

\* Mutant: the policies are not evaluated for the sessions.
EvalGlobalOnly ==
    /\ review.pc = "global"
    /\ IF Match(policies, Action(review, NoName))
         THEN Refuse("denied")
         ELSE Proceed({}, review.blind)
    /\ Elsewhere

\* Phase 1.  When the policies cannot be listed the review goes on.
EvalGlobal ==
    /\ review.pc = "global"
    /\ IF Match(policies, Action(review, NoName))
         THEN Refuse("denied")
         ELSE Proceed(review.sessions, review.blind)
    /\ Elsewhere

EvalGlobalFails ==
    /\ review.pc = "global"
    /\ Proceed(review.sessions, TRUE)
    /\ Elsewhere

\* Phase 2: the policies again, for each session.
EvalSession(n) ==
    /\ review.pc = "session" /\ IsFirst(n, review.todo)
    /\ IF Match(policies, Action(review, n))
         THEN Refuse("denied")
         ELSE Proceed(review.todo \ {n}, review.blind)
    /\ Elsewhere

EvalSessionFails(n) ==
    /\ review.pc = "session" /\ IsFirst(n, review.todo)
    /\ Proceed(review.todo \ {n}, TRUE)
    /\ Elsewhere

----------------------------------------------------------------------------
(***************************************************************************)
(* The target cluster.                                                     *)
(***************************************************************************)

PlainGroup(n) == GroupOf[KeyOf[n]]

\* The attributes CanGroupsDo asks about: the name is that of the resource.
AskedAttributes(a) == [a EXCEPT !.name = a.resource]

\* The impersonated user is in the groups of all sessions and authenticated.
CanGroupsDo(sessions, a) ==
    \E g \in {PlainGroup(n) : n \in sessions} \cup {Authenticated} :
        <<NoPrefix, g, AskedAttributes(a)>> \in Permits

RBACAllows ==
    /\ review.pc = "rbac" /\ review.attributes # NonResource
    /\ CanGroupsDo(review.sessions, review.attributes)
    /\ Allow
    /\ Elsewhere

\* RBAC says no, or the cluster's REST config is not there.
RBACRefuses ==
    /\ review.pc = "rbac"
    /\ review' = [review EXCEPT !.pc = "via"]
    /\ Elsewhere

\* A review without resource attributes, or any other error: 500.
RBACFails ==
    /\ review.pc = "rbac"
    /\ Refuse("error")
    /\ Elsewhere

\* A SAR for each session with the plain and the prefixed groups.
SessionPermits(n, a) ==
    \E p \in Prefixes \cup {NoPrefix} : <<p, PlainGroup(n), a>> \in Permits

SessionSARAllows(n) ==
    /\ review.pc = "via" /\ review.attributes # NonResource
    /\ n \in review.sessions
    /\ SessionPermits(n, review.attributes)
    /\ review' = [review EXCEPT !.pc = "reread", !.via = n]
    /\ Elsewhere

\* No SAR allows it, SARs fail, or there is no REST config.
SessionSARsRefuse ==
    /\ review.pc = "via"
    /\ review' = [review EXCEPT !.pc = "reread"]
    /\ Elsewhere

\* The sessions and escalations are read again, for the reason of a refusal;
\* the decision was made before.
Answer ==
    /\ review.pc = "reread" /\ review.attributes # NonResource
    /\ IF review.via = NoName THEN Refuse("denied") ELSE Allow
    /\ Elsewhere

\* A read fails (before the policies or here), the handler runs into the
\* missing resource attributes, or the caller gives up: no 200.
ReviewFails ==
    /\ review.pc \in {"global", "reread"}
    /\ Refuse("error")
    /\ Elsewhere

ReviewStep ==
    \/ \E u \in Users, c \in Clusters, a \in Attributes \cup {NonResource} : Arrive(u, c, a)
    \/ EvalGlobal \/ EvalGlobalFails
    \/ \E n \in Names : EvalSession(n) \/ EvalSessionFails(n) \/ SessionSARAllows(n)
    \/ RBACAllows \/ RBACRefuses \/ RBACFails
    \/ SessionSARsRefuse
    \/ Answer
    \/ ReviewFails

\* An administrator creates or deletes a policy.
ChangePolicy(p) ==
    /\ policies' = IF p \in policies THEN policies \ {p} ELSE policies \cup {p}
    /\ review' = [review EXCEPT !.standing = @ \cap policies']
    /\ UNCHANGED vars

\* A step of the rest of the service; a crash takes the review with it.
ServiceStep ==
    /\ Next
    /\ review' = IF Crash THEN NoReview ELSE review
    /\ UNCHANGED policies

ANext == ServiceStep \/ ReviewStep \/ \E p \in Policies : ChangePolicy(p)

ASpec == AInit /\ [][ANext]_avars

----------------------------------------------------------------------------
(***************************************************************************)
(* Properties.                                                             *)
(***************************************************************************)

Reviews ==
    [pc         : {"done", "global", "session", "rbac", "via", "reread"},
     outcome    : {"none", "allowed", "denied", "error"},
     user       : Users \cup {None},
     cluster    : Clusters \cup {None},
     attributes : Attributes \cup {NonResource},
     sessions   : SUBSET Names,
     tenant     : {TenantOf[c] : c \in Clusters} \cup {NoTenant},
     todo       : SUBSET Names,
     via        : Names \cup {NoName},
     blind      : BOOLEAN,
     standing   : SUBSET Policies,
     at         : Nat,
     before     : SUBSET Names]

AuthorizerTypeOK ==
    /\ policies \subseteq Policies
    /\ review \in Reviews
    /\ review.standing \subseteq policies
    /\ review.todo \subseteq review.sessions

\* Session n entitled the user of review rv when it arrived: it is a session
\* of that user on that cluster that nobody had ended, and it was approved, by
\* an approver, less than maxValidFor earlier.
Entitles(n, rv) ==
    /\ OwnerOf[KeyOf[n]] = rv.user /\ ClusterOf[KeyOf[n]] = rv.cluster
    /\ n \notin rv.before
    /\ \E a \in approvals :
          /\ a.name = n /\ a.by \in ApproversOf[KeyOf[n]]
          /\ a.at <= rv.at /\ rv.at < a.at + ValidFor

\* What the target's RBAC allows session n, with and without a prefix, about
\* the request or about what CanGroupsDo makes of it.
Covers(n, a) ==
    \/ SessionPermits(n, a)
    \/ <<NoPrefix, PlainGroup(n), AskedAttributes(a)>> \in Permits

\* What the webhook allows, the target's RBAC allows to everyone, or to the
\* group of a session that an approver had approved and that nobody had ended
\* when the request arrived, whatever handlers, the cleanup routine and
\* crashes do to the sessions before and during the review.
AllowedThroughApproval ==
    review.outcome = "allowed" =>
        \/ <<NoPrefix, Authenticated, AskedAttributes(review.attributes)>> \in Permits
        \/ \E n \in review.sessions : Entitles(n, review) /\ Covers(n, review.attributes)

\* A request is not allowed if a policy that was in force from its arrival to
\* the answer denies it, globally or for any of the user's sessions, although
\* the policies are listed anew for each session.  Excepted are reviews during
\* which the policies or the tenant could not be read: they go on without.
DenyPrevails ==
    review.outcome = "allowed" /\ ~review.blind =>
        \A n \in review.sessions \cup {NoName} :
            ~Match(review.standing, Action(review, n))

\* "Checks if operations defined in access review could be performed if user
\* belongs to given groups": the webhook allows what the target's RBAC allows.
AllowsWhatRBACAllows ==
    review.outcome = "allowed" =>
        \/ <<NoPrefix, Authenticated, review.attributes>> \in Permits
        \/ \E n \in review.sessions : SessionPermits(n, review.attributes)

----------------------------------------------------------------------------
(***************************************************************************)
(* The inductive invariant behind AllowedThroughApproval and DenyPrevails  *)
(* (proved in Authorizer_proofs).                                          *)
(***************************************************************************)

SessionsEntitle == \A n \in review.sessions : Entitles(n, review)

ViaPermits ==
    review.via # NoName =>
        review.via \in review.sessions /\ SessionPermits(review.via, review.attributes)

\* No standing policy denies what has been evaluated so far.
NotDenied ==
    ~review.blind /\ review.attributes # NonResource /\ review.pc # "global" =>
        \A n \in (review.sessions \ review.todo) \cup {NoName} :
            ~Match(review.standing, Action(review, n))

ReviewPhases ==
    /\ review.pc # "session" => review.todo = {}
    /\ review.outcome = "allowed" => review.attributes # NonResource /\ review.pc = "done"

ReviewInv ==
    SessionsEntitle /\ ViaPermits /\ NotDenied /\ ReviewPhases /\ AllowedThroughApproval
=============================================================================
