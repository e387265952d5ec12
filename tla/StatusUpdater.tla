---------------------------- MODULE StatusUpdater ----------------------------
(***************************************************************************)
(* The loop that expands the approver groups of the BreakglassEscalations  *)
(* into members and writes them to their status, and the Keycloak resolver *)
(* with its cache (escalation_status_updater.go).                          *)
(*                                                                         *)
(* One goroutine runs the loop; Keycloak, the administrators who edit the  *)
(* escalations and the clock run beside it.  A step is one call to the API *)
(* server or to Keycloak with the local computation next to it; a cache    *)
(* entry is written in the step that received the answer.                  *)
(*                                                                         *)
(* A cache entry carries the ticks left until it expires; it still counts  *)
(* at the instant of its expiry (left = 0) and not after it (left = Gone). *)
(* The order in which the groups of an escalation are resolved is left     *)
(* open.  Abstracted: the token request is part of the search; the error   *)
(* texts; the static groups that stand in for Keycloak in end-to-end tests *)
(* (no client secret).                                                     *)
(***************************************************************************)
EXTENDS Integers

CONSTANTS
    Escalations,   \* BreakglassEscalation objects, in list order
    Groups,        \* approver groups
    Accounts,      \* Keycloak accounts
    Identities,    \* names in the status
    IdentityOf,    \* the e-mail (else the user name) of an account, trimmed and
                   \*   in lower case; Blank when nothing is left
    Blank,
    None,          \* no object, no entry
    Unknown,       \* a group Keycloak does not know
    Configured,    \* Keycloak is configured and not disabled
    FirstGroups,   \* the escalations and Keycloak's groups at the start
    FirstMembers,
    TTL,           \* the time to live of a cache entry, in ticks
    MaxChanges,    \* bound on the changes made to groups and escalations
    MaxFaults      \* bound on failed calls and restarts

ASSUME UpdaterAssumption ==
    /\ Escalations \subseteq Nat \ {0}
    /\ IdentityOf \in [Accounts -> Identities \cup {Blank}]
    /\ Blank \notin Identities
    /\ \A S \in SUBSET Identities : S # None
    /\ FirstGroups \in [Escalations -> (SUBSET Groups) \cup {None}]
    /\ FirstMembers \in [Groups -> (SUBSET Accounts) \cup {Unknown}]
    /\ Configured \in BOOLEAN
    /\ TTL \in Nat
    /\ MaxChanges \in Nat
    /\ MaxFaults \in Nat

NoEscalation == 0
Gone == -1

\* Mutant: blank names are kept.
NormalizedWithBlanks(S) == {IdentityOf[a] : a \in S}

\* normalizeMembers: duplicates and blanks are dropped.
Normalized(S) == {IdentityOf[a] : a \in S} \ {Blank}

\* What the resolver makes of Keycloak's answer about a group.
AnswerOf(m) == IF m = Unknown THEN {} ELSE Normalized(m)

VARIABLES
    approvers,   \* the stored escalations: None, or their approver groups
    members,     \* status.approverGroupMembers
    resolution,  \* status.groupResolutionStatus
    keycloak,    \* the accounts in each group
    cache,       \* the resolver's cache
    updater,     \* the local state of the loop
    fresh,       \* listed items whose resourceVersion is still the stored one
    changes,     \* changes so far
    faults,      \* faults so far
    age,         \* history: ticks since a group changed, up to TTL + 1
    told         \* history: every answer Keycloak ever had for a group

vars == <<approvers, members, resolution, keycloak, cache, updater, fresh,
          changes, faults, age, told>>

MemberMaps == [Groups -> (SUBSET Identities) \cup {None}]
ResolutionMaps == [Groups -> {"", "ok", "error"}]

\* A listed item: what the loop reads of it.
Items == [groups : (SUBSET Groups) \cup {None}, members : MemberMaps,
          resolution : ResolutionMaps]

NoMembers == [g \in Groups |-> None]
NoResolution == [g \in Groups |-> ""]
EmptyCache == [g \in Groups |-> [answer |-> {}, left |-> Gone]]

\* next: between two escalations; group: between two groups of item; members:
\* the search found the group.  copy and outcome are the status being built.
UpdaterStates ==
    [pc      : {"list", "next", "group", "members"},
     todo    : SUBSET Escalations,
     snap    : [Escalations -> Items \cup {None}],
     item    : Escalations \cup {NoEscalation},
     groups  : SUBSET Groups,
     group   : Groups \cup {None},
     copy    : MemberMaps,
     outcome : ResolutionMaps,
     changed : BOOLEAN]

StartedUpdater ==
    [pc |-> "list", todo |-> {}, snap |-> [e \in Escalations |-> None],
     item |-> NoEscalation, groups |-> {}, group |-> None, copy |-> NoMembers,
     outcome |-> NoResolution, changed |-> FALSE]

Init ==
    /\ approvers = FirstGroups
    /\ members = [e \in Escalations |-> NoMembers]
    /\ resolution = [e \in Escalations |-> NoResolution]
    /\ keycloak = FirstMembers
    /\ cache = EmptyCache
    /\ updater = StartedUpdater
    /\ fresh = {}
    /\ changes = 0
    /\ faults = 0
    /\ age = [g \in Groups |-> TTL + 1]
    /\ told = [g \in Groups |-> {AnswerOf(FirstMembers[g])}]

Stored == {e \in Escalations : approvers[e] # None}

IsFirst(e, S) == e \in S /\ \A d \in S : e <= d

----------------------------------------------------------------------------
(***************************************************************************)
(* The cache.                                                              *)
(***************************************************************************)

Hits(g) == cache[g].left # Gone

\* Mutant: a lookup that finds nothing extends the former entry.
CachedIfAny(g, answer) ==
    cache' = [cache EXCEPT ![g] =
                [answer |-> IF answer = {} THEN cache[g].answer ELSE answer,
                 left   |-> TTL]]

Cached(g, answer) ==
    cache' = [cache EXCEPT ![g] = [answer |-> answer, left |-> TTL]]

Older(n) == IF n = Gone THEN Gone ELSE n - 1

Tick ==
    /\ cache' = [g \in Groups |-> [cache[g] EXCEPT !.left = Older(@)]]
    /\ age' = [g \in Groups |-> IF age[g] > TTL THEN age[g] ELSE age[g] + 1]
    /\ UNCHANGED <<approvers, members, resolution, keycloak, updater, fresh,
                   changes, faults, told>>

----------------------------------------------------------------------------
(***************************************************************************)
(* runOnce.                                                                *)
(***************************************************************************)

Objects == <<approvers, keycloak, changes, age, told>>
Status == <<members, resolution>>

List ==
    /\ updater.pc = "list"
    /\ updater' = [StartedUpdater EXCEPT
         !.pc   = "next",
         !.todo = Stored,
         !.snap = [e \in Escalations |->
                     [groups |-> approvers[e], members |-> members[e],
                      resolution |-> resolution[e]]]]
    /\ fresh' = Stored
    /\ UNCHANGED <<Objects, Status, cache, faults>>

EndRound ==
    /\ updater.pc = "next"
    /\ updater.todo = {}
    /\ updater' = StartedUpdater
    /\ fresh' = {}
    /\ UNCHANGED <<Objects, Status, cache, faults>>

\* An escalation without approver groups is skipped.
Take(e) ==
    LET snap == updater.snap[e] IN
    /\ updater.pc = "next"
    /\ IsFirst(e, updater.todo)
    /\ updater' = IF snap.groups = {}
                  THEN [updater EXCEPT !.todo = @ \ {e}]
                  ELSE [updater EXCEPT !.pc      = "group",
                                       !.todo    = @ \ {e},
                                       !.item    = e,
                                       !.groups  = snap.groups,
                                       !.copy    = snap.members,
                                       !.outcome = snap.resolution]
    /\ UNCHANGED <<Objects, Status, cache, fresh, faults>>

\* equalStringSlices: no entry and an empty one are equal.
SameMembers(a, b) == a = b \/ {a, b} = {None, {}}

\* Mutant: the last group alone decides whether the status is written.
WithAnswerLastDecides(g, answer) ==
    LET same == SameMembers(answer, updater.copy[g]) IN
    [updater EXCEPT !.pc         = "group",
                    !.groups     = @ \ {g},
                    !.group      = None,
                    !.outcome[g] = "ok",
                    !.copy[g]    = IF same THEN @ ELSE answer,
                    !.changed    = ~same]

\* Group g was resolved: the copy changes only if its members do.
WithAnswer(g, answer) ==
    LET same == SameMembers(answer, updater.copy[g]) IN
    [updater EXCEPT !.pc         = "group",
                    !.groups     = @ \ {g},
                    !.group      = None,
                    !.outcome[g] = "ok",
                    !.copy[g]    = IF same THEN @ ELSE answer,
                    !.changed    = IF same THEN @ ELSE TRUE]

\* Mutant: members that could not be read are none.
WithErrorErasing(g) ==
    [updater EXCEPT !.pc         = "group",
                    !.groups     = @ \ {g},
                    !.group      = None,
                    !.outcome[g] = "error",
                    !.copy[g]    = {},
                    !.changed    = TRUE]

\* Group g was not resolved: the error is noted in the copy.
WithError(g) ==
    [updater EXCEPT !.pc         = "group",
                    !.groups     = @ \ {g},
                    !.group      = None,
                    !.outcome[g] = "error"]

\* Members answers without Keycloak: it is not configured, or a cache hit.
ResolveLocally(g) ==
    /\ updater.pc = "group"
    /\ g \in updater.groups
    /\ Configured => Hits(g)
    /\ updater' = WithAnswer(g, IF Configured THEN cache[g].answer ELSE {})
    /\ UNCHANGED <<Objects, Status, cache, fresh, faults>>

\* Members asks for a token and searches the group: unknown is an answer.
Search(g) ==
    /\ updater.pc = "group"
    /\ g \in updater.groups
    /\ Configured /\ ~Hits(g)
    /\ IF keycloak[g] = Unknown
       THEN Cached(g, {}) /\ updater' = WithAnswer(g, {})
       ELSE /\ updater' = [updater EXCEPT !.pc = "members", !.group = g]
            /\ UNCHANGED cache
    /\ UNCHANGED <<Objects, Status, fresh, faults>>

\* It lists the members of the group it found; a group deleted since is an
\* error.
ListMembers(g) ==
    /\ updater.pc = "members"
    /\ g = updater.group
    /\ IF keycloak[g] = Unknown
       THEN updater' = WithError(g) /\ UNCHANGED cache
       ELSE /\ Cached(g, AnswerOf(keycloak[g]))
            /\ updater' = WithAnswer(g, AnswerOf(keycloak[g]))
    /\ UNCHANGED <<Objects, Status, fresh, faults>>

\* Keycloak fails or times out.
KeycloakFails(g) ==
    /\ \/ updater.pc = "group" /\ g \in updater.groups /\ Configured /\ ~Hits(g)
       \/ updater.pc = "members" /\ g = updater.group
    /\ faults < MaxFaults
    /\ faults' = faults + 1
    /\ updater' = WithError(g)
    /\ UNCHANGED <<Objects, Status, cache, fresh>>

NextItem ==
    updater' = [StartedUpdater EXCEPT !.pc = "next", !.todo = updater.todo,
                                      !.snap = updater.snap]

\* The optimistic lock of Status().Update.
Unchanged(e) == e \in fresh

\* All groups are done; the status is written if the members of one changed.
Write(e) ==
    /\ updater.pc = "group"
    /\ updater.groups = {}
    /\ e = updater.item
    /\ IF updater.changed /\ Unchanged(e)
       THEN /\ members' = [members EXCEPT ![e] = updater.copy]
            /\ resolution' = [resolution EXCEPT ![e] = updater.outcome]
            /\ fresh' = fresh \ {e}
       ELSE UNCHANGED <<members, resolution, fresh>>
    /\ NextItem
    /\ UNCHANGED <<Objects, cache, faults>>

\* The update fails for another reason: it is only logged.
WriteFails ==
    /\ updater.pc = "group"
    /\ updater.groups = {}
    /\ updater.changed
    /\ faults < MaxFaults
    /\ faults' = faults + 1
    /\ NextItem
    /\ UNCHANGED <<Objects, Status, cache, fresh>>

\* The program restarts with an empty cache.
Restart ==
    /\ faults < MaxFaults
    /\ faults' = faults + 1
    /\ updater' = StartedUpdater
    /\ cache' = EmptyCache
    /\ fresh' = {}
    /\ UNCHANGED <<Objects, Status>>

----------------------------------------------------------------------------
(***************************************************************************)
(* Keycloak and the escalations change.                                    *)
(***************************************************************************)

Change == changes < MaxChanges /\ changes' = changes + 1

SetGroup(g, m) ==
    /\ Change
    /\ keycloak[g] # m
    /\ keycloak' = [keycloak EXCEPT ![g] = m]
    /\ age' = [age EXCEPT ![g] = 0]
    /\ told' = [told EXCEPT ![g] = @ \cup {AnswerOf(m)}]
    /\ UNCHANGED <<approvers, Status, cache, updater, fresh, faults>>

\* An edit keeps the status of the object.
EditEscalation(e, G) ==
    /\ Change
    /\ approvers[e] \notin {None, G}
    /\ approvers' = [approvers EXCEPT ![e] = G]
    /\ fresh' = fresh \ {e}
    /\ UNCHANGED <<Status, keycloak, cache, updater, faults, age, told>>

DeleteEscalation(e) ==
    /\ Change
    /\ approvers[e] # None
    /\ approvers' = [approvers EXCEPT ![e] = None]
    /\ members' = [members EXCEPT ![e] = NoMembers]
    /\ resolution' = [resolution EXCEPT ![e] = NoResolution]
    /\ fresh' = fresh \ {e}
    /\ UNCHANGED <<keycloak, cache, updater, faults, age, told>>

CreateEscalation(e, G) ==
    /\ Change
    /\ approvers[e] = None
    /\ approvers' = [approvers EXCEPT ![e] = G]
    /\ UNCHANGED <<Status, keycloak, cache, updater, fresh, faults, age, told>>

Update ==
    \/ List
    \/ EndRound
    \/ \E e \in Escalations : Take(e) \/ Write(e)
    \/ \E g \in Groups : ResolveLocally(g) \/ Search(g) \/ ListMembers(g)

Next ==
    \/ Update
    \/ \E g \in Groups : KeycloakFails(g)
    \/ WriteFails
    \/ Restart
    \/ Tick
    \/ \E g \in Groups : \E m \in (SUBSET Accounts) \cup {Unknown} :
         SetGroup(g, m)
    \/ \E e \in Escalations :
        \/ DeleteEscalation(e)
        \/ \E G \in SUBSET Groups : EditEscalation(e, G) \/ CreateEscalation(e, G)

\* The ticker fires every five minutes and every call returns or times out;
\* time passes.
Fairness == WF_vars(Update) /\ WF_vars(Tick)

Spec == Init /\ [][Next]_vars /\ Fairness

----------------------------------------------------------------------------
(***************************************************************************)
(* Properties.                                                             *)
(***************************************************************************)

TypeOK ==
    /\ approvers \in [Escalations -> (SUBSET Groups) \cup {None}]
    /\ members \in [Escalations -> MemberMaps]
    /\ resolution \in [Escalations -> ResolutionMaps]
    /\ keycloak \in [Groups -> (SUBSET Accounts) \cup {Unknown}]
    /\ cache \in [Groups -> [answer : SUBSET Identities, left : Gone..TTL]]
    /\ updater \in UpdaterStates
    /\ fresh \subseteq Escalations
    /\ changes \in 0..MaxChanges
    /\ faults \in 0..MaxFaults
    /\ age \in [Groups -> 0..(TTL + 1)]
    /\ told \in [Groups -> SUBSET (SUBSET Identities)]

\* A cached answer lags behind Keycloak by the time to live and no more: once a
\* group has been left alone for longer than that, an entry that still counts
\* holds its members, the empty answer about an unknown group included
\* (kcCache.get, kcCache.set).
CacheLagIsBounded ==
    \A g \in Groups :
        Hits(g) /\ age[g] > TTL => cache[g].answer = AnswerOf(keycloak[g])

\* What the status says of the members of a group was true of that very group
\* at some time, an "ok" without members included: failed lookups, expired
\* entries, conflicts and restarts never invent members or erase them (runOnce,
\* Members).
MembersWereTold ==
    \A e \in Escalations : \A g \in Groups :
        /\ members[e][g] # None => members[e][g] \in told[g]
        /\ resolution[e][g] = "ok" /\ members[e][g] = None => {} \in told[g]

\* When Keycloak and the escalations stop changing, every approver group's
\* members in the status become the current ones and stay so, in spite of the
\* cache, of updates refused after an edit and of restarts (Start, runOnce).
EventuallySynced ==
    <>[](\A e \in Stored : \A g \in approvers[e] :
           SameMembers(members[e][g], AnswerOf(keycloak[g])))
==============================================================================
