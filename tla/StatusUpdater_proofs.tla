------------------------ MODULE StatusUpdater_proofs ------------------------
(***************************************************************************)
(* Proofs about StatusUpdater, for any escalations, groups and accounts,   *)
(* any time to live and any number of changes and faults.                  *)
(***************************************************************************)
EXTENDS StatusUpdater, TLAPS

\* What the loop reads of a stored escalation.
StoredItems == [groups : SUBSET Groups, members : MemberMaps, resolution : ResolutionMaps]

Typed == TypeOK /\ \A e \in updater.todo : updater.snap[e] \in StoredItems

-----------------------------------------------------------------------------
(***************************************************************************)
(* Type correctness.                                                       *)
(***************************************************************************)

\* What the resolver makes of Keycloak's answer is a set of identities.
LEMMA AnswerType ==
    ASSUME NEW m \in (SUBSET Accounts) \cup {Unknown}
    PROVE  AnswerOf(m) \in SUBSET Identities
  BY UpdaterAssumption DEF AnswerOf, Normalized

\* The start of a round.
LEMMA StartedType == StartedUpdater \in UpdaterStates
  BY DEF StartedUpdater, UpdaterStates, NoMembers, NoResolution, MemberMaps, ResolutionMaps

\* Between two escalations.
LEMMA NextItemIs ==
    ASSUME updater \in UpdaterStates, NextItem
    PROVE  /\ updater' \in UpdaterStates
           /\ updater'.todo = updater.todo /\ updater'.snap = updater.snap
           /\ updater'.copy = NoMembers /\ updater'.outcome = NoResolution
<1>1. StartedUpdater.copy = NoMembers /\ StartedUpdater.outcome = NoResolution
  BY DEF StartedUpdater
<1> QED
  BY <1>1, StartedType DEF NextItem, UpdaterStates

\* A group that was resolved.
LEMMA WithAnswerIs ==
    ASSUME updater \in UpdaterStates, NEW g \in Groups, NEW answer \in SUBSET Identities
    PROVE  LET u == WithAnswer(g, answer) IN
           /\ u \in UpdaterStates /\ u.todo = updater.todo /\ u.snap = updater.snap
           /\ u.outcome = [updater.outcome EXCEPT ![g] = "ok"]
           /\ u.copy = [updater.copy EXCEPT ![g] =
                          IF SameMembers(answer, updater.copy[g])
                          THEN updater.copy[g] ELSE answer]
<1> DEFINE same == SameMembers(answer, updater.copy[g])
           u == WithAnswer(g, answer)
           o == [updater.outcome EXCEPT ![g] = "ok"]
           c == [updater.copy EXCEPT ![g] = IF same THEN updater.copy[g] ELSE answer]
           b == IF same THEN updater.changed ELSE TRUE
<1>1. o \in ResolutionMaps
  BY DEF UpdaterStates, ResolutionMaps
<1>2. c \in MemberMaps
  BY DEF UpdaterStates, MemberMaps
<1>3. b \in BOOLEAN
  BY DEF UpdaterStates
<1>4. u = [updater EXCEPT !.pc = "group", !.groups = updater.groups \ {g}, !.group = None,
                          !.outcome = o, !.copy = c, !.changed = b]
  BY DEF WithAnswer, UpdaterStates
<1> HIDE DEF o, c, b, u, same
<1>5. /\ u \in UpdaterStates /\ u.todo = updater.todo /\ u.snap = updater.snap
      /\ u.outcome = o /\ u.copy = c
  BY <1>1, <1>2, <1>3, <1>4 DEF UpdaterStates
<1> QED
  BY <1>5 DEF o, c, u, same

\* A group that was not.
LEMMA WithErrorIs ==
    ASSUME updater \in UpdaterStates, NEW g \in Groups
    PROVE  LET u == WithError(g) IN
           /\ u \in UpdaterStates /\ u.todo = updater.todo /\ u.snap = updater.snap
           /\ u.outcome = [updater.outcome EXCEPT ![g] = "error"]
           /\ u.copy = updater.copy
<1> DEFINE o == [updater.outcome EXCEPT ![g] = "error"]
           u == WithError(g)
<1>1. o \in ResolutionMaps
  BY DEF UpdaterStates, ResolutionMaps
<1>2. u = [updater EXCEPT !.pc = "group", !.groups = updater.groups \ {g}, !.group = None,
                          !.outcome = o]
  BY DEF WithError, UpdaterStates
<1> HIDE DEF o, u
<1>3. /\ u \in UpdaterStates /\ u.todo = updater.todo /\ u.snap = updater.snap
      /\ u.outcome = o /\ u.copy = updater.copy
  BY <1>1, <1>2 DEF UpdaterStates
<1> QED
  BY <1>3 DEF o, u

\* An escalation that is taken up: its copy is what was listed.
LEMMA TakeIs ==
    ASSUME Typed, NEW e \in Escalations, Take(e)
    PROVE  /\ updater' \in UpdaterStates
           /\ updater'.todo \subseteq updater.todo /\ updater'.snap = updater.snap
           /\ \/ updater'.copy = updater.copy /\ updater'.outcome = updater.outcome
              \/ /\ e \in updater.todo
                 /\ updater'.copy = updater.snap[e].members
                 /\ updater'.outcome = updater.snap[e].resolution
<1>1. updater \in UpdaterStates /\ e \in updater.todo /\ updater.snap[e] \in StoredItems
  BY DEF Typed, TypeOK, Take, IsFirst
<1>2. /\ updater.snap[e].groups \in SUBSET Groups
      /\ updater.snap[e].members \in MemberMaps
      /\ updater.snap[e].resolution \in ResolutionMaps
  BY <1>1 DEF StoredItems
<1> QED
  BY <1>1, <1>2 DEF Take, UpdaterStates

\* The list.
LEMMA ListIs ==
    ASSUME Typed, List
    PROVE  /\ updater' \in UpdaterStates
           /\ \A e \in updater'.todo :
                /\ e \in Escalations /\ updater'.snap[e] \in StoredItems
                /\ updater'.snap[e].members = members[e]
                /\ updater'.snap[e].resolution = resolution[e]
           /\ updater'.copy = NoMembers /\ updater'.outcome = NoResolution
<1> DEFINE snap == [e \in Escalations |-> [groups |-> approvers[e], members |-> members[e],
                                           resolution |-> resolution[e]]]
<1>1. snap \in [Escalations -> Items]
  BY DEF Typed, TypeOK, Items
<1>2. \A e \in Stored : e \in Escalations /\ approvers[e] \in SUBSET Groups
  BY DEF Typed, TypeOK, Stored
<1>3. \A e \in Stored : /\ snap[e] \in StoredItems /\ snap[e].members = members[e]
                        /\ snap[e].resolution = resolution[e]
  BY <1>2 DEF Typed, TypeOK, StoredItems
<1>4. StartedUpdater.copy = NoMembers /\ StartedUpdater.outcome = NoResolution
  BY DEF StartedUpdater
<1>5. updater' = [StartedUpdater EXCEPT !.pc = "next", !.todo = Stored, !.snap = snap]
  BY DEF List
<1> HIDE DEF snap
<1>6. /\ updater' \in UpdaterStates /\ updater'.todo = Stored /\ updater'.snap = snap
      /\ updater'.copy = StartedUpdater.copy /\ updater'.outcome = StartedUpdater.outcome
  BY <1>1, <1>2, <1>5, StartedType DEF UpdaterStates
<1> QED
  BY <1>2, <1>3, <1>4, <1>6
\* Caching an answer.
LEMMA CachedType ==
    ASSUME TypeOK, NEW g \in Groups, NEW answer \in SUBSET Identities, Cached(g, answer)
    PROVE  cache' \in [Groups -> [answer : SUBSET Identities, left : Gone..TTL]]
<1>1. TTL \in Gone..TTL
  BY UpdaterAssumption DEF Gone
<1> QED
  BY <1>1 DEF TypeOK, Cached

\* The loop and its failures.
LEMMA TypedUpdate ==
    ASSUME Typed,
           Update \/ WriteFails \/ Restart \/ \E g \in Groups : KeycloakFails(g)
    PROVE  Typed'
<1>t. TypeOK /\ updater \in UpdaterStates
  BY DEF Typed, TypeOK
<1>k. \A g \in Groups : AnswerOf(keycloak[g]) \in SUBSET Identities
  BY <1>t, AnswerType DEF TypeOK
<1>c. \A g \in Groups : cache[g].answer \in SUBSET Identities
  BY <1>t DEF TypeOK
<1>a. ASSUME NEW g \in Groups, NEW answer \in SUBSET Identities
      PROVE  /\ WithAnswer(g, answer) \in UpdaterStates
             /\ WithAnswer(g, answer).todo = updater.todo
             /\ WithAnswer(g, answer).snap = updater.snap
  BY <1>t, WithAnswerIs
<1>e. ASSUME NEW g \in Groups
      PROVE  /\ WithError(g) \in UpdaterStates /\ WithError(g).todo = updater.todo
             /\ WithError(g).snap = updater.snap
  BY <1>t, WithErrorIs
<1>0. ASSUME updater' \in UpdaterStates,
             \/ updater'.todo \subseteq updater.todo /\ updater'.snap = updater.snap
             \/ \A e \in updater'.todo : updater'.snap[e] \in StoredItems,
             UNCHANGED <<Objects, members, resolution, cache, faults>>,
             fresh' \subseteq Escalations
      PROVE  Typed'
  BY <1>0 DEF Typed, TypeOK, Objects
<1>1. ASSUME List PROVE Typed'
  <2>1. /\ fresh' \subseteq Escalations
        /\ UNCHANGED <<Objects, members, resolution, cache, faults>>
    BY <1>1 DEF List, Stored, Status
  <2> QED
    BY <1>0, <1>1, <2>1, ListIs
<1>2. ASSUME EndRound PROVE Typed'
  <2>1. /\ fresh' \subseteq Escalations /\ updater' = StartedUpdater
        /\ UNCHANGED <<Objects, members, resolution, cache, faults>>
    BY <1>2 DEF EndRound, Status
  <2>2. StartedUpdater.todo = {}
    BY DEF StartedUpdater
  <2> QED
    BY <1>0, <2>1, <2>2, StartedType
<1>3. ASSUME NEW e \in Escalations, Take(e) PROVE Typed'
  <2>1. UNCHANGED <<Objects, members, resolution, cache, faults, fresh>>
    BY <1>3 DEF Take, Status
  <2>2. fresh' \subseteq Escalations
    BY <1>t, <2>1 DEF TypeOK
  <2> QED
    BY <1>0, <1>3, <2>1, <2>2, TakeIs
<1>4. ASSUME NEW e \in Escalations, Write(e) PROVE Typed'
  <2>1. NextItem /\ UNCHANGED <<Objects, cache, faults>> /\ fresh' \subseteq Escalations
    BY <1>4, <1>t DEF Write, TypeOK
  <2>2. /\ updater' \in UpdaterStates /\ updater'.todo = updater.todo
        /\ updater'.snap = updater.snap
    BY <1>t, <2>1, NextItemIs
  <2>3. updater.copy \in MemberMaps /\ updater.outcome \in ResolutionMaps
    BY <1>t DEF UpdaterStates
  <2>4. /\ members' \in [Escalations -> MemberMaps]
        /\ resolution' \in [Escalations -> ResolutionMaps]
    BY <1>4, <1>t, <2>3 DEF Write, TypeOK
  <2> QED
    BY <2>1, <2>2, <2>4 DEF Typed, TypeOK, Objects
<1>5. ASSUME NEW g \in Groups, ResolveLocally(g) PROVE Typed'
  <2>1. PICK answer \in SUBSET Identities : updater' = WithAnswer(g, answer)
    BY <1>5, <1>c DEF ResolveLocally
  <2>2. /\ updater' \in UpdaterStates /\ updater'.todo = updater.todo
        /\ updater'.snap = updater.snap
    BY <1>a, <2>1
  <2>3. UNCHANGED <<Objects, members, resolution, cache, faults, fresh>>
    BY <1>5 DEF ResolveLocally, Status
  <2>4. fresh' \subseteq Escalations
    BY <1>t, <2>3 DEF TypeOK
  <2> QED
    BY <1>0, <2>2, <2>3, <2>4
<1>6. ASSUME NEW g \in Groups, Search(g) \/ ListMembers(g) PROVE Typed'
  <2>1. UNCHANGED <<Objects, members, resolution, fresh, faults>>
    BY <1>6 DEF Search, ListMembers, Status
  <2>2. \/ \E answer \in SUBSET Identities :
             Cached(g, answer) /\ updater' = WithAnswer(g, answer)
        \/ updater' = WithError(g) /\ UNCHANGED cache
        \/ updater' = [updater EXCEPT !.pc = "members", !.group = g] /\ UNCHANGED cache
    BY <1>6, <1>k DEF Search, ListMembers
  <2>3. cache' \in [Groups -> [answer : SUBSET Identities, left : Gone..TTL]]
    BY <1>t, <2>2, CachedType DEF TypeOK
  <2>4. ASSUME updater' = [updater EXCEPT !.pc = "members", !.group = g]
        PROVE  /\ updater' \in UpdaterStates /\ updater'.todo = updater.todo
               /\ updater'.snap = updater.snap
    BY <1>t, <2>4 DEF UpdaterStates
  <2>5. /\ updater' \in UpdaterStates /\ updater'.todo = updater.todo
        /\ updater'.snap = updater.snap
    BY <1>a, <1>e, <2>2, <2>4
  <2> QED
    BY <2>1, <2>3, <2>5 DEF Typed, TypeOK, Objects
<1>7. ASSUME (\E g \in Groups : KeycloakFails(g)) \/ WriteFails PROVE Typed'
  <2>1. /\ UNCHANGED <<Objects, members, resolution, cache, fresh>>
        /\ faults < MaxFaults /\ faults' = faults + 1
        /\ NextItem \/ \E g \in Groups : updater' = WithError(g)
    BY <1>7 DEF KeycloakFails, WriteFails, Status
  <2>2. faults' \in 0..MaxFaults
    BY <1>t, <2>1, UpdaterAssumption DEF TypeOK
  <2>3. /\ updater' \in UpdaterStates /\ updater'.todo = updater.todo
        /\ updater'.snap = updater.snap
    BY <1>t, <1>e, <2>1, NextItemIs
  <2> QED
    BY <2>1, <2>2, <2>3 DEF Typed, TypeOK, Objects
<1>8. ASSUME Restart PROVE Typed'
  <2>1. /\ UNCHANGED <<Objects, members, resolution>> /\ fresh' = {}
        /\ faults < MaxFaults /\ faults' = faults + 1
        /\ updater' = StartedUpdater /\ cache' = EmptyCache
    BY <1>8 DEF Restart, Status
  <2>2. faults' \in 0..MaxFaults
    BY <1>t, <2>1, UpdaterAssumption DEF TypeOK
  <2>3. EmptyCache \in [Groups -> [answer : SUBSET Identities, left : Gone..TTL]]
    BY UpdaterAssumption DEF EmptyCache, Gone
  <2>4. StartedUpdater.todo = {}
    BY DEF StartedUpdater
  <2> QED
    BY <2>1, <2>2, <2>3, <2>4, StartedType DEF Typed, TypeOK, Objects
<1> QED
  BY <1>1, <1>2, <1>3, <1>4, <1>5, <1>6, <1>7, <1>8 DEF Update

\* Keycloak, the administrators and the clock.
LEMMA TypedOthers ==
    ASSUME Typed,
           \/ Tick
           \/ \E g \in Groups : \E m \in (SUBSET Accounts) \cup {Unknown} : SetGroup(g, m)
           \/ \E e \in Escalations :
               \/ DeleteEscalation(e)
               \/ \E G \in SUBSET Groups : EditEscalation(e, G) \/ CreateEscalation(e, G)
    PROVE  Typed'
<1>t. TypeOK
  BY DEF Typed
<1>1. ASSUME changes < MaxChanges, changes' = changes + 1 PROVE changes' \in 0..MaxChanges
  BY <1>1, <1>t, UpdaterAssumption DEF TypeOK
<1>2. CASE Tick
  <2>1. \A n \in Gone..TTL : Older(n) \in Gone..TTL
    BY UpdaterAssumption DEF Older, Gone
  <2>2. cache' \in [Groups -> [answer : SUBSET Identities, left : Gone..TTL]]
    BY <1>2, <1>t, <2>1 DEF Tick, TypeOK
  <2>3. \A n \in 0..(TTL + 1) : (IF n > TTL THEN n ELSE n + 1) \in 0..(TTL + 1)
    BY UpdaterAssumption
  <2>4. age' \in [Groups -> 0..(TTL + 1)]
    BY <1>2, <1>t, <2>3 DEF Tick, TypeOK
  <2> QED
    BY <1>2, <2>2, <2>4 DEF Tick, Typed, TypeOK
<1>3. ASSUME NEW g \in Groups, NEW m \in (SUBSET Accounts) \cup {Unknown}, SetGroup(g, m)
      PROVE  Typed'
  <2>1. 0 \in 0..(TTL + 1) /\ AnswerOf(m) \in SUBSET Identities
    BY UpdaterAssumption, AnswerType
  <2>2. /\ keycloak' \in [Groups -> (SUBSET Accounts) \cup {Unknown}]
        /\ age' \in [Groups -> 0..(TTL + 1)]
        /\ told' \in [Groups -> SUBSET (SUBSET Identities)]
    BY <1>3, <1>t, <2>1 DEF SetGroup, TypeOK
  <2>3. changes' \in 0..MaxChanges
    BY <1>1, <1>3 DEF SetGroup, Change
  <2> QED
    BY <1>3, <2>2, <2>3 DEF SetGroup, Typed, TypeOK, Status
<1>4. ASSUME NEW e \in Escalations, DeleteEscalation(e) PROVE Typed'
  <2>1. NoMembers \in MemberMaps /\ NoResolution \in ResolutionMaps
    BY DEF NoMembers, NoResolution, MemberMaps, ResolutionMaps
  <2>2. changes' \in 0..MaxChanges
    BY <1>1, <1>4 DEF DeleteEscalation, Change
  <2> QED
    BY <1>4, <2>1, <2>2 DEF DeleteEscalation, Typed, TypeOK
<1>5. ASSUME NEW e \in Escalations, NEW G \in SUBSET Groups,
             EditEscalation(e, G) \/ CreateEscalation(e, G)
      PROVE  Typed'
  <2>1. changes' \in 0..MaxChanges
    BY <1>1, <1>5 DEF EditEscalation, CreateEscalation, Change
  <2> QED
    BY <1>5, <2>1 DEF EditEscalation, CreateEscalation, Typed, TypeOK, Status
<1> QED
  BY <1>2, <1>3, <1>4, <1>5

\* Types at the start.
LEMMA TypedInit == Init => Typed
<1> SUFFICES ASSUME Init PROVE Typed
  OBVIOUS
<1>1. StartedUpdater.todo = {}
  BY DEF StartedUpdater
<1>2. /\ NoMembers \in MemberMaps /\ NoResolution \in ResolutionMaps
      /\ EmptyCache \in [Groups -> [answer : SUBSET Identities, left : Gone..TTL]]
  BY UpdaterAssumption DEF NoMembers, NoResolution, MemberMaps, ResolutionMaps, EmptyCache, Gone
<1>3. TTL + 1 \in 0..(TTL + 1) /\ 0 \in 0..MaxChanges /\ 0 \in 0..MaxFaults
  BY UpdaterAssumption
<1>4. \A g \in Groups : AnswerOf(FirstMembers[g]) \in SUBSET Identities
  BY UpdaterAssumption, AnswerType
<1> QED
  BY <1>1, <1>2, <1>3, <1>4, StartedType, UpdaterAssumption DEF Init, Typed, TypeOK

\* Every step keeps the types.
LEMMA TypedNext == Typed /\ [Next]_vars => Typed'
<1> SUFFICES ASSUME Typed, [Next]_vars PROVE Typed'
  OBVIOUS
<1>1. CASE UNCHANGED vars
  BY <1>1 DEF vars, Typed, TypeOK
<1> QED
  BY <1>1, TypedUpdate, TypedOthers DEF Next

\* The loop, the resolver's cache and the histories keep their types.
THEOREM UpdaterTyped == Spec => []TypeOK
<1>1. Typed => TypeOK
  BY DEF Typed
<1> QED
  BY <1>1, TypedInit, TypedNext, PTL DEF Spec
-----------------------------------------------------------------------------
(***************************************************************************)
(* The lag of the cache.                                                   *)
(***************************************************************************)

\* An entry that counts is right, or the group changed so recently that the
\* entry will be gone before the group has been left alone for longer than TTL.
LagInv ==
    \A g \in Groups : Hits(g) =>
        cache[g].answer = AnswerOf(keycloak[g]) \/ age[g] + cache[g].left <= TTL

\* A right answer is cached.
LEMMA LagCached ==
    ASSUME Typed, LagInv, NEW g \in Groups, Cached(g, AnswerOf(keycloak[g])),
           UNCHANGED <<keycloak, age>>
    PROVE  LagInv'
<1>1. /\ cache'[g].answer = AnswerOf(keycloak[g])
      /\ \A f \in Groups : f # g => cache'[f] = cache[f]
  BY DEF Cached, Typed, TypeOK
<1>2. AnswerOf(keycloak[g])' = AnswerOf(keycloak[g])
  BY DEF AnswerOf, Normalized
<1> QED
  BY <1>1, <1>2 DEF LagInv, Hits, AnswerOf, Normalized

\* Every step keeps the bound.
LEMMA LagNext == Typed /\ LagInv /\ [Next]_vars => LagInv'
<1> SUFFICES ASSUME Typed, LagInv, [Next]_vars PROVE LagInv'
  OBVIOUS
<1>t. /\ cache \in [Groups -> [answer : SUBSET Identities, left : Gone..TTL]]
      /\ age \in [Groups -> 0..(TTL + 1)] /\ TTL \in Nat
      /\ keycloak \in [Groups -> (SUBSET Accounts) \cup {Unknown}]
  BY UpdaterAssumption DEF Typed, TypeOK
<1>1. ASSUME UNCHANGED <<cache, keycloak, age>> PROVE LagInv'
  BY <1>1 DEF LagInv, Hits, AnswerOf, Normalized
<1>2. ASSUME NEW g \in Groups, Search(g) \/ ListMembers(g) PROVE LagInv'
  <2>1. UNCHANGED <<keycloak, age>>
        /\ (Cached(g, AnswerOf(keycloak[g])) \/ UNCHANGED cache)
    BY <1>2 DEF Search, ListMembers, Objects, AnswerOf
  <2> QED
    BY <1>1, <2>1, LagCached
<1>3. CASE Restart
  BY <1>3 DEF Restart, LagInv, Hits, EmptyCache
<1>4. CASE Tick
  <2> SUFFICES ASSUME NEW g \in Groups, Hits(g)'
               PROVE  \/ cache'[g].answer = AnswerOf(keycloak[g])
                      \/ age'[g] + cache'[g].left <= TTL
    BY <1>4 DEF LagInv, Tick, AnswerOf, Normalized
  <2>1. /\ cache'[g].answer = cache[g].answer /\ cache'[g].left = Older(cache[g].left)
        /\ age'[g] = IF age[g] > TTL THEN age[g] ELSE age[g] + 1
    BY <1>4, <1>t DEF Tick
  <2>2. /\ cache[g].left \in Int /\ age[g] \in Int /\ TTL \in Int
        /\ cache[g].left # Gone /\ cache[g].left >= 0
        /\ cache'[g].left = cache[g].left - 1
    BY <1>t, <2>1 DEF Hits, Older, Gone
  <2>3. cache[g].answer = AnswerOf(keycloak[g]) \/ age[g] + cache[g].left <= TTL
    BY <2>2 DEF LagInv, Hits
  <2> QED
    BY <2>1, <2>2, <2>3
<1>5. ASSUME NEW g \in Groups, NEW m, SetGroup(g, m) PROVE LagInv'
  <2>1. /\ cache' = cache /\ age'[g] = 0
        /\ \A f \in Groups : f # g => age'[f] = age[f] /\ keycloak'[f] = keycloak[f]
    BY <1>5, <1>t DEF SetGroup
  <2>2. \A f \in Groups : cache[f].left <= TTL /\ cache[f].left \in Int
    BY <1>t DEF Gone
  <2>3. 0 + cache[g].left <= TTL
    BY <2>2
  <2> QED
    BY <2>1, <2>3 DEF LagInv, Hits, AnswerOf, Normalized
<1>6. ASSUME \/ List \/ EndRound \/ WriteFails \/ UNCHANGED vars
             \/ \E e \in Escalations : Take(e) \/ Write(e) \/ DeleteEscalation(e)
             \/ \E g \in Groups : ResolveLocally(g) \/ KeycloakFails(g)
             \/ \E e \in Escalations, G \in SUBSET Groups :
                  EditEscalation(e, G) \/ CreateEscalation(e, G)
      PROVE  UNCHANGED <<cache, keycloak, age>>
  BY <1>6 DEF List, EndRound, WriteFails, Take, Write, DeleteEscalation, ResolveLocally,
              KeycloakFails, EditEscalation, CreateEscalation, vars, Objects
<1> QED
  BY <1>1, <1>2, <1>3, <1>4, <1>5, <1>6 DEF Next, Update

\* For every time to live, an answer that still counts lags behind Keycloak by
\* no more than that (kcCache.get, kcCache.set).
THEOREM LagSafe == Spec => []CacheLagIsBounded
<1>1. Init => LagInv
  BY DEF Init, LagInv, Hits, EmptyCache
<1>2. Typed /\ LagInv => CacheLagIsBounded
  <2> SUFFICES ASSUME Typed, LagInv, NEW g \in Groups, Hits(g), age[g] > TTL
               PROVE  cache[g].answer = AnswerOf(keycloak[g])
    BY DEF CacheLagIsBounded
  <2>1. cache[g].left \in Nat /\ age[g] \in Nat /\ TTL \in Nat
    BY UpdaterAssumption DEF Typed, TypeOK, Hits, Gone
  <2>2. ~(age[g] + cache[g].left <= TTL)
    BY <2>1
  <2> QED
    BY <2>2 DEF LagInv
<1> QED
  BY <1>1, <1>2, TypedInit, TypedNext, LagNext, PTL DEF Spec
-----------------------------------------------------------------------------
(***************************************************************************)
(* Members are told, never made up.                                        *)
(***************************************************************************)

\* A status of members m and resolution r says what is in t.
Says(m, r, t) ==
    \A g \in Groups : /\ m[g] # None => m[g] \in t[g]
                      /\ r[g] = "ok" /\ m[g] = None => {} \in t[g]

\* Nothing in the API server, on its way there or in the cache says more than
\* Keycloak told.
ToldInv ==
    /\ \A e \in Escalations : Says(members[e], resolution[e], told)
    /\ \A e \in updater.todo :
         Says(updater.snap[e].members, updater.snap[e].resolution, told)
    /\ Says(updater.copy, updater.outcome, told)
    /\ \A g \in Groups : AnswerOf(keycloak[g]) \in told[g]
    /\ \A g \in Groups : Hits(g) => cache[g].answer \in told[g]

\* An empty status says nothing.
LEMMA NothingSaid == ASSUME NEW t PROVE Says(NoMembers, NoResolution, t)
  BY DEF Says, NoMembers, NoResolution

\* A resolved group adds its answer, also when it makes no difference.
LEMMA AnswerSaid ==
    ASSUME NEW m \in MemberMaps, NEW r \in ResolutionMaps, NEW t, Says(m, r, t),
           NEW g \in Groups, NEW a \in SUBSET Identities, a \in t[g]
    PROVE  Says([m EXCEPT ![g] = IF SameMembers(a, m[g]) THEN m[g] ELSE a],
                [r EXCEPT ![g] = "ok"], t)
<1>1. a # None
  BY UpdaterAssumption
<1>2. SameMembers(a, m[g]) /\ m[g] = None => a = {}
  BY <1>1 DEF SameMembers
<1> QED
  BY <1>1, <1>2 DEF Says, MemberMaps, ResolutionMaps

\* A failed lookup adds nothing.
LEMMA ErrorSaid ==
    ASSUME NEW m, NEW r \in ResolutionMaps, NEW t, Says(m, r, t), NEW g \in Groups
    PROVE  Says(m, [r EXCEPT ![g] = "error"], t)
  BY DEF Says, ResolutionMaps

\* What is said stays said.
LEMMA SaysMore ==
    ASSUME NEW m, NEW r, NEW t, NEW u, Says(m, r, t), \A g \in Groups : t[g] \subseteq u[g]
    PROVE  Says(m, r, u)
  BY DEF Says

\* A step of the loop that writes no status and caches nothing new.
LEMMA ToldStep ==
    ASSUME ToldInv, UNCHANGED <<members, resolution, keycloak, told>>,
           \/ updater'.todo \subseteq updater.todo /\ updater'.snap = updater.snap
           \/ \A e \in updater'.todo :
                Says(updater'.snap[e].members, updater'.snap[e].resolution, told),
           Says(updater'.copy, updater'.outcome, told),
           \A g \in Groups : Hits(g)' => \/ cache'[g] = cache[g] /\ Hits(g)
                                         \/ cache'[g].answer \in told[g]
    PROVE  ToldInv'
  BY DEF ToldInv, Says, AnswerOf, Normalized

\* The loop and its failures.
LEMMA ToldUpdate ==
    ASSUME Configured, Typed, ToldInv,
           Update \/ WriteFails \/ Restart \/ \E g \in Groups : KeycloakFails(g)
    PROVE  ToldInv'
<1>t. /\ updater \in UpdaterStates /\ updater.copy \in MemberMaps
      /\ updater.outcome \in ResolutionMaps
      /\ \A g \in Groups : cache[g].answer \in SUBSET Identities
      /\ \A g \in Groups : AnswerOf(keycloak[g]) \in SUBSET Identities
  <2>1. \A g \in Groups : AnswerOf(keycloak[g]) \in SUBSET Identities
    BY AnswerType DEF Typed, TypeOK
  <2> QED
    BY <2>1 DEF Typed, TypeOK, UpdaterStates
<1>s. Says(updater.copy, updater.outcome, told)
  BY DEF ToldInv
<1>0. ASSUME cache' = cache PROVE \A g \in Groups : Hits(g)' => cache'[g] = cache[g] /\ Hits(g)
  BY <1>0 DEF Hits
<1>a. ASSUME NEW g \in Groups, NEW a \in SUBSET Identities, a \in told[g],
             updater' = WithAnswer(g, a)
      PROVE  /\ updater'.todo = updater.todo /\ updater'.snap = updater.snap
             /\ Says(updater'.copy, updater'.outcome, told)
  <2> DEFINE c == [updater.copy EXCEPT ![g] = IF SameMembers(a, updater.copy[g])
                                              THEN updater.copy[g] ELSE a]
             o == [updater.outcome EXCEPT ![g] = "ok"]
  <2>1. Says(c, o, told)
    BY <1>t, <1>s, <1>a, AnswerSaid
  <2>2. /\ updater'.todo = updater.todo /\ updater'.snap = updater.snap
        /\ updater'.copy = c /\ updater'.outcome = o
    BY <1>t, <1>a, WithAnswerIs
  <2> QED
    BY <2>1, <2>2
<1>e. ASSUME NEW g \in Groups, updater' = WithError(g)
      PROVE  /\ updater'.todo = updater.todo /\ updater'.snap = updater.snap
             /\ Says(updater'.copy, updater'.outcome, told)
  <2>1. Says(updater.copy, [updater.outcome EXCEPT ![g] = "error"], told)
    BY <1>t, <1>s, ErrorSaid
  <2>2. /\ updater'.todo = updater.todo /\ updater'.snap = updater.snap
        /\ updater'.copy = updater.copy
        /\ updater'.outcome = [updater.outcome EXCEPT ![g] = "error"]
    BY <1>t, <1>e, WithErrorIs
  <2> QED
    BY <2>1, <2>2
<1>1. ASSUME List PROVE ToldInv'
  <2>1. UNCHANGED <<members, resolution, keycloak, told, cache>>
    BY <1>1 DEF List, Objects, Status
  <2>2. \A e \in updater'.todo :
          Says(updater'.snap[e].members, updater'.snap[e].resolution, told)
    BY <1>1, ListIs DEF ToldInv
  <2>3. Says(updater'.copy, updater'.outcome, told)
    BY <1>1, ListIs, NothingSaid
  <2> QED
    BY <1>0, <2>1, <2>2, <2>3, ToldStep
<1>2. ASSUME EndRound \/ Restart PROVE ToldInv'
  <2>1. /\ UNCHANGED <<members, resolution, keycloak, told>>
        /\ updater' = StartedUpdater
        /\ cache' = cache \/ cache' = EmptyCache
    BY <1>2 DEF EndRound, Restart, Objects, Status
  <2>2. /\ StartedUpdater.todo = {} /\ StartedUpdater.copy = NoMembers
        /\ StartedUpdater.outcome = NoResolution
    BY DEF StartedUpdater
  <2>3. Says(updater'.copy, updater'.outcome, told)
    BY <2>1, <2>2, NothingSaid
  <2>4. cache' = EmptyCache => \A g \in Groups : ~Hits(g)'
    BY DEF Hits, EmptyCache
  <2>5. updater'.todo = {}
    BY <2>1, <2>2
  <2> QED
    BY <1>0, <2>1, <2>3, <2>4, <2>5, ToldStep
<1>3. ASSUME NEW e \in Escalations, Take(e) PROVE ToldInv'
  <2>1. UNCHANGED <<members, resolution, keycloak, told, cache>>
    BY <1>3 DEF Take, Objects, Status
  <2>2. Says(updater'.copy, updater'.outcome, told)
    BY <1>3, <1>s, TakeIs DEF ToldInv
  <2>3. updater'.todo \subseteq updater.todo /\ updater'.snap = updater.snap
    BY <1>3, TakeIs
  <2> QED
    BY <1>0, <2>1, <2>2, <2>3, ToldStep
<1>4. ASSUME NEW e \in Escalations, Write(e) PROVE ToldInv'
  <2>1. /\ NextItem /\ UNCHANGED <<keycloak, told, cache>>
        /\ \/ UNCHANGED <<members, resolution>>
           \/ /\ members' = [members EXCEPT ![e] = updater.copy]
              /\ resolution' = [resolution EXCEPT ![e] = updater.outcome]
    BY <1>4 DEF Write, Objects
  <2>2. \A d \in Escalations : \/ members'[d] = members[d] /\ resolution'[d] = resolution[d]
                               \/ members'[d] = updater.copy /\ resolution'[d] = updater.outcome
    BY <2>1 DEF Typed, TypeOK
  <2>3. \A d \in Escalations : Says(members'[d], resolution'[d], told)
    BY <1>s, <2>2 DEF ToldInv
  <2>4. /\ updater'.todo = updater.todo /\ updater'.snap = updater.snap
        /\ Says(updater'.copy, updater'.outcome, told)
    BY <1>t, <2>1, NextItemIs, NothingSaid
  <2> QED
    BY <2>1, <2>3, <2>4 DEF ToldInv, Says, Hits, AnswerOf, Normalized
<1>5. ASSUME NEW g \in Groups, ResolveLocally(g) PROVE ToldInv'
  <2>1. UNCHANGED <<members, resolution, keycloak, told, cache>>
    BY <1>5 DEF ResolveLocally, Objects, Status
  <2>2. updater' = WithAnswer(g, cache[g].answer) /\ cache[g].answer \in told[g]
    BY <1>5 DEF ResolveLocally, ToldInv
  <2>3. /\ updater'.todo = updater.todo /\ updater'.snap = updater.snap
        /\ Says(updater'.copy, updater'.outcome, told)
    BY <1>a, <1>t, <2>2
  <2> QED
    BY <1>0, <2>1, <2>3, ToldStep
<1>6. ASSUME NEW g \in Groups, Search(g) \/ ListMembers(g) PROVE ToldInv'
  <2> DEFINE a == AnswerOf(keycloak[g])
  <2>1. /\ UNCHANGED <<members, resolution, keycloak, told>>
        /\ \/ Cached(g, a) /\ updater' = WithAnswer(g, a)
           \/ updater' = WithError(g) /\ UNCHANGED cache
           \/ updater' = [updater EXCEPT !.pc = "members", !.group = g] /\ UNCHANGED cache
    BY <1>6 DEF Search, ListMembers, Objects, Status, AnswerOf
  <2>2. a \in SUBSET Identities /\ a \in told[g]
    BY <1>t DEF ToldInv
  <2> HIDE DEF a
  <2>3. ASSUME updater' = [updater EXCEPT !.pc = "members", !.group = g]
        PROVE  /\ updater'.todo = updater.todo /\ updater'.snap = updater.snap
               /\ Says(updater'.copy, updater'.outcome, told)
    BY <1>t, <1>s, <2>3 DEF UpdaterStates
  <2>4. /\ updater'.todo = updater.todo /\ updater'.snap = updater.snap
        /\ Says(updater'.copy, updater'.outcome, told)
    BY <1>a, <1>e, <2>1, <2>2, <2>3
  <2>5. ASSUME Cached(g, a)
        PROVE  \A f \in Groups : Hits(f)' => \/ cache'[f] = cache[f] /\ Hits(f)
                                             \/ cache'[f].answer \in told[f]
    BY <2>2, <2>5 DEF Cached, Hits, Typed, TypeOK
  <2> QED
    BY <1>0, <2>1, <2>4, <2>5, ToldStep
<1>7. ASSUME (\E g \in Groups : KeycloakFails(g)) \/ WriteFails PROVE ToldInv'
  <2>1. /\ UNCHANGED <<members, resolution, keycloak, told, cache>>
        /\ NextItem \/ \E g \in Groups : updater' = WithError(g)
    BY <1>7 DEF KeycloakFails, WriteFails, Objects, Status
  <2>2. /\ updater'.todo = updater.todo /\ updater'.snap = updater.snap
        /\ Says(updater'.copy, updater'.outcome, told)
    BY <1>t, <1>e, <2>1, NextItemIs, NothingSaid
  <2> QED
    BY <1>0, <2>1, <2>2, ToldStep
<1> QED
  BY <1>1, <1>2, <1>3, <1>4, <1>5, <1>6, <1>7 DEF Update

\* Keycloak, the administrators and the clock.
LEMMA ToldOthers ==
    ASSUME Typed, ToldInv,
           \/ Tick
           \/ \E g \in Groups : \E m \in (SUBSET Accounts) \cup {Unknown} : SetGroup(g, m)
           \/ \E e \in Escalations :
               \/ DeleteEscalation(e)
               \/ \E G \in SUBSET Groups : EditEscalation(e, G) \/ CreateEscalation(e, G)
    PROVE  ToldInv'
<1>1. CASE Tick
  <2>1. \A g \in Groups : cache'[g].answer = cache[g].answer /\ (Hits(g)' => Hits(g))
    BY <1>1 DEF Tick, Hits, Older, Typed, TypeOK
  <2> QED
    BY <1>1, <2>1 DEF Tick, ToldInv, Says, AnswerOf, Normalized
<1>2. ASSUME NEW g \in Groups, NEW m, SetGroup(g, m) PROVE ToldInv'
  <2>1. /\ UNCHANGED <<members, resolution, updater, cache>>
        /\ \A f \in Groups : told[f] \subseteq told'[f]
        /\ keycloak'[g] = m /\ AnswerOf(m) \in told'[g]
        /\ \A f \in Groups : f # g => keycloak'[f] = keycloak[f]
    BY <1>2 DEF SetGroup, Status, Typed, TypeOK
  <2>2. /\ \A e \in Escalations : Says(members'[e], resolution'[e], told')
        /\ \A e \in updater'.todo :
             Says(updater'.snap[e].members, updater'.snap[e].resolution, told')
        /\ Says(updater'.copy, updater'.outcome, told')
    BY <2>1, SaysMore DEF ToldInv
  <2>3. \A f \in Groups : AnswerOf(keycloak'[f]) \in told'[f]
    BY <2>1 DEF ToldInv
  <2> QED
    BY <2>1, <2>2, <2>3 DEF ToldInv, Says, Hits, AnswerOf, Normalized
<1>3. ASSUME NEW e \in Escalations, DeleteEscalation(e) PROVE ToldInv'
  <2>1. /\ UNCHANGED <<updater, cache, keycloak, told>>
        /\ members'[e] = NoMembers /\ resolution'[e] = NoResolution
        /\ \A d \in Escalations : d # e =>
             members'[d] = members[d] /\ resolution'[d] = resolution[d]
    BY <1>3 DEF DeleteEscalation, Typed, TypeOK
  <2>2. \A d \in Escalations : Says(members'[d], resolution'[d], told)
    BY <2>1, NothingSaid DEF ToldInv
  <2> QED
    BY <2>1, <2>2 DEF ToldInv, Says, Hits, AnswerOf, Normalized
<1>4. ASSUME NEW e \in Escalations, NEW G \in SUBSET Groups,
             EditEscalation(e, G) \/ CreateEscalation(e, G)
      PROVE  ToldInv'
  BY <1>4 DEF EditEscalation, CreateEscalation, Status, ToldInv, Says, Hits, AnswerOf, Normalized
<1> QED
  BY <1>1, <1>2, <1>3, <1>4

\* With Keycloak configured, the members in a status were members of that group
\* at some time, and "ok" without members was an answer: no failure, conflict or
\* restart makes members up or erases them (runOnce, Members).
THEOREM MembersSafe == ASSUME Configured PROVE Spec => []MembersWereTold
<1>1. Init => ToldInv
  <2> SUFFICES ASSUME Init PROVE ToldInv
    OBVIOUS
  <2>1. /\ StartedUpdater.todo = {} /\ StartedUpdater.copy = NoMembers
        /\ StartedUpdater.outcome = NoResolution
    BY DEF StartedUpdater
  <2>2. \A g \in Groups : ~Hits(g)
    BY DEF Init, Hits, EmptyCache
  <2> QED
    BY <2>1, <2>2, NothingSaid DEF Init, ToldInv
<1>2. Typed /\ ToldInv /\ [Next]_vars => ToldInv'
  <2> SUFFICES ASSUME Typed, ToldInv, [Next]_vars PROVE ToldInv'
    OBVIOUS
  <2>1. CASE UNCHANGED vars
    BY <2>1 DEF vars, ToldInv, Says, Hits, AnswerOf, Normalized
  <2> QED
    BY <2>1, ToldUpdate, ToldOthers DEF Next
<1>3. ToldInv => MembersWereTold
  BY DEF ToldInv, Says, MembersWereTold
<1> QED
  BY <1>1, <1>2, <1>3, TypedInit, TypedNext, PTL DEF Spec
=============================================================================
