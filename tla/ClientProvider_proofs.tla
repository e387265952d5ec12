------------------------ MODULE ClientProvider_proofs ------------------------
(***************************************************************************)
(* The cache for any number of namespaces, names, secrets, callers and     *)
(* changes: it never mixes the objects of two names, and after Invalidate  *)
(* it serves what is current unless an older call stores late.             *)
(*                                                                         *)
(* Both rest on what a caller carries from one lock section to the next:   *)
(* a ClusterConfig that was stored under the slot it will be kept under    *)
(* and a REST configuration made from it (Sound), and, unless the name     *)
(* changed under the call, the current ones (Current).                     *)
(***************************************************************************)
EXTENDS ClientProvider, TLAPS

\* REST configuration r was made from objects that name n had.
Backed(n, r) ==
    \E ns \in Namespaces : \E spec \in had.specs[<<ns, n>>] :
        \E kubeconfig \in had.secrets[spec.secret] :
            r = RESTConfig(spec, kubeconfig)

ObjectsRecorded ==
    /\ \A k \in Slots : configs[k] # None => configs[k] \in had.specs[k]
    /\ \A s \in Secrets : secrets[s] # None => secrets[s] \in had.secrets[s]

\* What a caller in state st holds was stored.
Sound(st) ==
    /\ st.pc # "idle" => st.slot \in Keys
    /\ st.pc = "list" =>
         IF st.op = "in" THEN st.slot \in Slots ELSE st.slot[1] = NoNamespace
    /\ st.pc \in {"keep", "secret"} =>
         st.slot \in Slots /\ st.spec \in had.specs[st.slot]
    /\ st.pc = "secret" => st.op = "rest"
    /\ st.pc = "store" => Backed(st.slot[2], st.config)

\* What a caller in state st will put into rest is current.
Current(st) ==
    /\ st.pc \in {"keep", "secret"} /\ st.op # "in" =>
         IsFirst(st.slot[1], st.slot[2]) /\ configs[st.slot] = st.spec
    /\ st.pc = "store" => IsCurrent(st.slot[2], st.config)

Inv ==
    /\ TypeOK
    /\ ObjectsRecorded
    /\ \A c \in Callers : Sound(caller[c])
    /\ \A c \in Callers \ late : Current(caller[c])
    /\ CachedWasStored
    /\ InvalidatedIsCurrent

----------------------------------------------------------------------------

\* The keys of the cache and the slots of the API server.
LEMMA KeyFacts ==
  /\ \A k \in Slots : k \in Keys
  /\ \A k \in Keys : k[1] \in Namespaces \cup {NoNamespace} /\ k[2] \in Names
  /\ \A k \in Slots : k[1] \in Namespaces /\ k[2] \in Names
  /\ \A k \in Keys : k = <<k[1], k[2]>>
  /\ \A ns \in Namespaces, n \in Names :
       <<ns, n>> \in Slots /\ <<ns, n>>[1] = ns /\ <<ns, n>>[2] = n
  /\ \A n \in Names :
       /\ <<NoNamespace, n>> \in Keys
       /\ <<NoNamespace, n>>[1] = NoNamespace
       /\ <<NoNamespace, n>>[2] = n
  /\ NoNamespace \notin Namespaces
  BY ProviderAssumption DEF Keys, Slots, NoNamespace

\* A REST configuration made from a ClusterConfig and a kubeconfig is one.
LEMMA RESTConfigTyped ==
  ASSUME NEW spec \in Specs, NEW kubeconfig \in Kubeconfigs
  PROVE  RESTConfig(spec, kubeconfig) \in RESTConfigs
<1>1. /\ kubeconfig.host \in {"loopback", "remote"}
      /\ kubeconfig.credential \in Credentials
  BY ProviderAssumption
<1> QED
  BY <1>1 DEF RESTConfig, RESTConfigs, RewrittenHost, Specs

\* A step of one caller that leaves the objects alone keeps the invariant when
\* the caller's new state and the maps it leaves behind are in order.
LEMMA CallerStep ==
  ASSUME Inv, NEW c \in Callers, NEW st \in CallerStates,
         UNCHANGED Objects, Goto(c, st),
         late' \in SUBSET late, late \ {c} \subseteq late',
         Sound(st), c \notin late' => Current(st),
         data' \in [Keys -> Specs \cup {None}],
         rest' \in [Names -> RESTConfigs \cup {None}],
         stale' \subseteq Names,
         \A k \in Keys : data'[k] # None => k \in Slots /\ data'[k] \in had.specs[k],
         \A n \in Names : rest'[n] # None => Backed(n, rest'[n]),
         \A n \in Names \ stale' : rest'[n] # None => IsCurrent(n, rest'[n])
  PROVE  Inv'
<1>1. configs' = configs /\ secrets' = secrets /\ changes' = changes /\ had' = had
  BY DEF Objects
<1>2. \A d \in Callers : caller'[d] = IF d = c THEN st ELSE caller[d]
  BY DEF Goto, Inv, TypeOK
<1>3. TypeOK'
  BY <1>1 DEF Inv, TypeOK, Goto
<1>4. ObjectsRecorded'
  BY <1>1 DEF Inv, ObjectsRecorded
<1>7. (\A d \in Callers : Sound(caller[d]))'
  <2> SUFFICES ASSUME NEW d \in Callers PROVE Sound(caller[d])'
    BY <1>1 DEF Goto
  <2>1. Sound(caller'[d])
    BY <1>2 DEF Inv
  <2> QED
    BY <1>1, <2>1 DEF Sound, Backed
<1>8. (\A d \in Callers \ late : Current(caller[d]))'
  <2> SUFFICES ASSUME NEW d \in Callers, d \notin late'
               PROVE  Current(caller[d])'
    BY <1>1 DEF Goto
  <2>1. Current(caller'[d])
    BY <1>2 DEF Inv
  <2> QED
    BY <1>1, <2>1 DEF Current, IsFirst, IsCurrent, Holds
<1>9. CachedWasStored'
  BY <1>1 DEF CachedWasStored, Backed
<1>10. InvalidatedIsCurrent'
  BY <1>1 DEF InvalidatedIsCurrent, IsCurrent, IsFirst, Holds
<1> QED
  BY <1>3, <1>4, <1>7, <1>8, <1>9, <1>10 DEF Inv

\* CallerStep for the steps that touch neither map.
LEMMA CallerMoves ==
  ASSUME Inv, NEW c \in Callers, NEW st \in CallerStates,
         UNCHANGED <<Objects, data, rest, stale>>, Goto(c, st),
         late' \in SUBSET late, late \ {c} \subseteq late',
         Sound(st), c \notin late' => Current(st)
  PROVE  Inv'
<1>1. /\ data \in [Keys -> Specs \cup {None}]
      /\ rest \in [Names -> RESTConfigs \cup {None}]
      /\ stale \subseteq Names
  BY DEF Inv, TypeOK
<1>2. /\ \A k \in Keys : data[k] # None => k \in Slots /\ data[k] \in had.specs[k]
      /\ \A n \in Names : rest[n] # None => Backed(n, rest[n])
  BY DEF Inv, CachedWasStored, Backed
<1>3. \A n \in Names \ stale : rest[n] # None => IsCurrent(n, rest[n])
  BY DEF Inv, InvalidatedIsCurrent
<1>4. UNCHANGED Objects /\ data' = data /\ rest' = rest /\ stale' = stale
  OBVIOUS
<1> QED
  BY <1>1, <1>2, <1>3, <1>4, CallerStep

----------------------------------------------------------------------------

\* An idle caller holds nothing.
LEMMA IdleIsFine ==
  IdleCaller \in CallerStates /\ Sound(IdleCaller) /\ Current(IdleCaller)
  BY DEF IdleCaller, CallerStates, Sound, Current

\* A call that misses the cache (GetRESTConfig and the two Get functions).
LEMMA MissKeepsInv ==
  ASSUME Inv, NEW c \in Callers, NEW op \in {"rest", "across", "in"},
         NEW k \in Keys,
         IF op = "in" THEN k \in Slots ELSE k[1] = NoNamespace,
         Goto(c, [IdleCaller EXCEPT !.pc = "list", !.op = op, !.slot = k]),
         late' = late \ {c},
         UNCHANGED <<Objects, data, rest, stale>>
  PROVE  Inv'
<1> DEFINE st == [IdleCaller EXCEPT !.pc = "list", !.op = op, !.slot = k]
<1>1. st \in CallerStates /\ st.pc = "list" /\ st.op = op /\ st.slot = k
  BY DEF IdleCaller, CallerStates
<1>2. Goto(c, st)
  OBVIOUS
<1> HIDE DEF st
<1>3. Sound(st) /\ Current(st)
  BY <1>1 DEF Sound, Current
<1> QED
  BY <1>1, <1>2, <1>3, CallerMoves

\* The list of the ClusterConfigs: nothing is ever cached under the empty
\* namespace, so the first listed item is taken (GetAcrossAllNamespaces).
LEMMA ListedKeepsInv ==
  ASSUME Inv, NEW c \in Callers, NEW ns \in Namespaces, Listed(c, ns)
  PROVE  Inv'
<1> DEFINE k == caller[c].slot
           st == [caller[c] EXCEPT
                    !.pc   = "keep",
                    !.slot = IF data[k] # None THEN k ELSE <<ns, k[2]>>,
                    !.spec = IF data[k] # None THEN data[k]
                                               ELSE configs[<<ns, k[2]>>]]
<1>1. /\ caller[c] \in CallerStates
      /\ caller[c].pc = "list" /\ caller[c].op # "in"
      /\ IsFirst(ns, k[2])
      /\ Goto(c, st)
      /\ UNCHANGED <<Objects, data, rest, stale>> /\ late' = late
  BY DEF Listed, Inv, TypeOK
<1>2. k \in Keys /\ k[2] \in Names
  BY <1>1, KeyFacts DEF Inv, Sound
<1>3. <<ns, k[2]>> \in Slots /\ <<ns, k[2]>>[1] = ns /\ <<ns, k[2]>>[2] = k[2]
  BY <1>2, KeyFacts
<1>4. st \in CallerStates /\ st.pc = "keep" /\ st.op = caller[c].op
  BY <1>1, <1>2, <1>3, KeyFacts DEF CallerStates, Inv, TypeOK
<1>5. /\ data[k] # None => st.slot = k /\ st.spec = data[k]
      /\ data[k] = None => st.slot = <<ns, k[2]>> /\ st.spec = configs[<<ns, k[2]>>]
  BY <1>1 DEF CallerStates
<1> HIDE DEF st
<1>6. configs[<<ns, k[2]>>] # None
  BY <1>1 DEF IsFirst, Holds
<1>7. Sound(st)
  <2>1. st.slot \in Slots /\ st.spec \in had.specs[st.slot]
    BY <1>2, <1>3, <1>5, <1>6 DEF Inv, CachedWasStored, ObjectsRecorded
  <2> QED
    BY <1>4, <2>1, KeyFacts DEF Sound
<1>8. ASSUME c \notin late PROVE Current(st)
  <2>1. data[k] = None
    <3> SUFFICES ASSUME data[k] # None PROVE FALSE
      OBVIOUS
    <3>1. k \in Slots
      BY <1>2 DEF Inv, CachedWasStored
    <3>2. k[1] = NoNamespace
      BY <1>1, <1>2 DEF Inv, Sound
    <3> QED
      BY <3>1, <3>2, KeyFacts
  <2> QED
    BY <1>1, <1>3, <1>4, <1>5, <2>1 DEF Current
<1> QED
  BY <1>1, <1>4, <1>7, <1>8, CallerMoves

\* The read of one ClusterConfig (GetInNamespace).
LEMMA GotKeepsInv ==
  ASSUME Inv, NEW c \in Callers, Got(c)
  PROVE  Inv'
<1> DEFINE k  == caller[c].slot
           st == [caller[c] EXCEPT !.pc = "keep", !.spec = configs[k]]
<1>1. /\ caller[c] \in CallerStates
      /\ caller[c].pc = "list" /\ caller[c].op = "in"
      /\ configs[k] # None
      /\ Goto(c, st)
      /\ UNCHANGED <<Objects, data, rest, stale>> /\ late' = late
  BY DEF Got, Holds, Inv, TypeOK
<1>2. k \in Slots /\ k \in Keys
  BY <1>1, KeyFacts DEF Inv, Sound
<1>3. configs[k] \in Specs /\ configs[k] \in had.specs[k]
  BY <1>1, <1>2 DEF Inv, TypeOK, ObjectsRecorded
<1>4. /\ st \in CallerStates /\ st.pc = "keep" /\ st.op = "in"
      /\ st.slot = k /\ st.spec = configs[k]
  BY <1>1, <1>2, <1>3 DEF CallerStates
<1> HIDE DEF st
<1>5. Sound(st) /\ Current(st)
  BY <1>2, <1>3, <1>4 DEF Sound, Current
<1> QED
  BY <1>1, <1>4, <1>5, CallerMoves

\* The second lock section of the two Get functions.
LEMMA KeepKeepsInv ==
  ASSUME Inv, NEW c \in Callers, Keep(c)
  PROVE  Inv'
<1> DEFINE k  == caller[c].slot
           st == IF caller[c].op = "rest" THEN [caller[c] EXCEPT !.pc = "secret"]
                                          ELSE IdleCaller
<1>1. /\ caller[c] \in CallerStates
      /\ caller[c].pc = "keep"
      /\ data' = [data EXCEPT ![k] = caller[c].spec]
      /\ Goto(c, st)
      /\ UNCHANGED Objects /\ rest' = rest /\ stale' = stale /\ late' = late
  BY DEF Keep, Inv, TypeOK
<1>2. k \in Slots /\ k \in Keys /\ caller[c].spec \in had.specs[k]
  BY <1>1, KeyFacts DEF Inv, Sound
<1>3. st \in CallerStates /\ Sound(st) /\ (c \notin late => Current(st))
  <2>1. CASE caller[c].op = "rest"
    <3>1. /\ st \in CallerStates /\ st.pc = "secret" /\ st.op = "rest"
          /\ st.slot = k /\ st.spec = caller[c].spec
      BY <1>1, <2>1 DEF CallerStates
    <3> HIDE DEF st
    <3>2. Sound(st)
      BY <1>2, <3>1 DEF Sound
    <3>3. c \notin late => Current(caller[c])
      BY DEF Inv
    <3> QED
      BY <1>1, <2>1, <3>1, <3>2, <3>3 DEF Current
  <2>2. CASE caller[c].op # "rest"
    BY <2>2, IdleIsFine
  <2> QED
    BY <2>1, <2>2
<1> HIDE DEF st
<1>4. /\ data' \in [Keys -> Specs \cup {None}]
      /\ \A j \in Keys : data'[j] # None => j \in Slots /\ data'[j] \in had.specs[j]
  BY <1>1, <1>2 DEF Inv, TypeOK, CallerStates, CachedWasStored
<1>5. /\ rest \in [Names -> RESTConfigs \cup {None}]
      /\ stale \subseteq Names
      /\ \A n \in Names : rest[n] # None => Backed(n, rest[n])
  BY DEF Inv, TypeOK, CachedWasStored, Backed
<1>6. \A n \in Names \ stale : rest[n] # None => IsCurrent(n, rest[n])
  BY DEF Inv, InvalidatedIsCurrent
<1> QED
  BY <1>1, <1>3, <1>4, <1>5, <1>6, CallerStep

\* The secret that the held ClusterConfig refers to is read (GetRESTConfig).
LEMMA ReadSecretKeepsInv ==
  ASSUME Inv, NEW c \in Callers, ReadSecret(c)
  PROVE  Inv'
<1> DEFINE k  == caller[c].slot
           sp == caller[c].spec
           r  == RESTConfig(sp, secrets[sp.secret])
           st == [caller[c] EXCEPT !.pc = "store", !.config = r]
<1>1. /\ caller[c] \in CallerStates
      /\ caller[c].pc = "secret"
      /\ secrets[sp.secret] # None
      /\ Goto(c, st)
      /\ UNCHANGED <<Objects, data, rest, stale>> /\ late' = late
  BY DEF ReadSecret, Inv, TypeOK
<1>2. /\ k \in Slots /\ k \in Keys
      /\ sp \in had.specs[k]
      /\ caller[c].op = "rest"
  BY <1>1, KeyFacts DEF Inv, Sound
<1>3. sp \in Specs /\ sp.secret \in Secrets
  BY <1>2 DEF Inv, TypeOK, Specs
<1>4. secrets[sp.secret] \in Kubeconfigs /\ secrets[sp.secret] \in had.secrets[sp.secret]
  BY <1>1, <1>3 DEF Inv, TypeOK, ObjectsRecorded
<1>5. r \in RESTConfigs
  BY <1>3, <1>4, RESTConfigTyped
<1>6. Backed(k[2], r)
  BY <1>2, <1>4, KeyFacts DEF Backed
<1>7. ASSUME c \notin late PROVE IsCurrent(k[2], r)
  <2>1. IsFirst(k[1], k[2]) /\ configs[k] = sp
    BY <1>1, <1>2, <1>7 DEF Inv, Current
  <2> QED
    BY <1>1, <1>2, <2>1, KeyFacts DEF IsCurrent
<1> HIDE DEF r
<1>8. st \in CallerStates /\ st.pc = "store" /\ st.slot = k /\ st.config = r
  BY <1>1, <1>5 DEF CallerStates
<1> HIDE DEF st
<1>9. Sound(st) /\ (c \notin late => Current(st))
  BY <1>2, <1>6, <1>7, <1>8 DEF Sound, Current
<1> QED
  BY <1>1, <1>8, <1>9, CallerMoves

\* The last lock section of GetRESTConfig.
LEMMA StoreRESTKeepsInv ==
  ASSUME Inv, NEW c \in Callers, StoreREST(c)
  PROVE  Inv'
<1> DEFINE n == caller[c].slot[2]
           r == caller[c].config
<1>1. /\ caller[c] \in CallerStates
      /\ caller[c].pc = "store"
      /\ rest' = [rest EXCEPT ![n] = r]
      /\ Goto(c, IdleCaller)
      /\ stale' = IF c \in late THEN stale \cup {n} ELSE stale \ {n}
      /\ UNCHANGED Objects /\ data' = data /\ late' = late
  BY DEF StoreREST, Inv, TypeOK
<1>2. n \in Names /\ Backed(n, r)
  BY <1>1, KeyFacts DEF Inv, Sound
<1>3. c \notin late => IsCurrent(n, r)
  BY <1>1 DEF Inv, Current
<1>4. /\ data \in [Keys -> Specs \cup {None}]
      /\ rest' \in [Names -> RESTConfigs \cup {None}]
      /\ stale' \subseteq Names
  BY <1>1, <1>2 DEF Inv, TypeOK, CallerStates
<1>5. /\ \A k \in Keys : data[k] # None => k \in Slots /\ data[k] \in had.specs[k]
      /\ \A m \in Names : rest[m] # None => Backed(m, rest[m])
  BY DEF Inv, CachedWasStored, Backed
<1>6. \A m \in Names : rest'[m] = IF m = n THEN r ELSE rest[m]
  BY <1>1, <1>2 DEF Inv, TypeOK
<1>7. \A m \in Names : rest'[m] # None => Backed(m, rest'[m])
  BY <1>2, <1>5, <1>6
<1>8. \A m \in Names \ stale' : rest'[m] # None => IsCurrent(m, rest'[m])
  BY <1>1, <1>3, <1>6 DEF Inv, InvalidatedIsCurrent
<1> QED
  BY <1>1, <1>4, <1>5, <1>7, <1>8, IdleIsFine, CallerStep

\* A call that ends with an error.
LEMMA FailKeepsInv ==
  ASSUME Inv, NEW c \in Callers, Fail(c)
  PROVE  Inv'
  BY IdleIsFine, CallerMoves DEF Fail

\* Invalidate removes what is cached for a name.
LEMMA InvalidateKeepsInv ==
  ASSUME Inv, NEW n \in Names, Invalidate(n)
  PROVE  Inv'
<1>1. /\ configs' = configs /\ secrets' = secrets /\ changes' = changes
      /\ had' = had /\ caller' = caller /\ late' = late
      /\ stale' = stale \ {n}
  BY DEF Invalidate, Objects
<1>2. data' \in [Keys -> Specs \cup {None}] /\ rest' \in [Names -> RESTConfigs \cup {None}]
  BY DEF Invalidate, Inv, TypeOK
<1>3. \A k \in Keys : data'[k] # None => data'[k] = data[k]
  BY DEF Invalidate
<1>4. \A m \in Names : rest'[m] # None => m # n /\ rest'[m] = rest[m]
  BY DEF Invalidate, Inv, TypeOK
<1>5. TypeOK'
  BY <1>1, <1>2 DEF Inv, TypeOK
<1>6. ObjectsRecorded'
  BY <1>1 DEF Inv, ObjectsRecorded
<1>7. (\A c \in Callers : Sound(caller[c]))'
  BY <1>1 DEF Inv, Sound, Backed
<1>8. (\A c \in Callers \ late : Current(caller[c]))'
  BY <1>1 DEF Inv, Current, IsFirst, IsCurrent, Holds
<1>9. CachedWasStored'
  BY <1>1, <1>3, <1>4 DEF Inv, CachedWasStored
<1>10. InvalidatedIsCurrent'
  BY <1>1, <1>4 DEF Inv, InvalidatedIsCurrent, IsCurrent, IsFirst, Holds
<1> QED
  BY <1>5, <1>6, <1>7, <1>8, <1>9, <1>10 DEF Inv

----------------------------------------------------------------------------

\* A change that affects the names N only keeps the invariant: what the other
\* names stand for is as before, and the history only grows.
LEMMA ChangeStep ==
  ASSUME Inv, NEW N \in SUBSET Names, Affects(N),
         configs' \in [Slots -> Specs \cup {None}],
         secrets' \in [Secrets -> Kubeconfigs \cup {None}],
         had' \in [specs : [Slots -> SUBSET Specs],
                   secrets : [Secrets -> SUBSET Kubeconfigs]],
         \A k \in Slots : had.specs[k] \subseteq had'.specs[k],
         \A s \in Secrets : had.secrets[s] \subseteq had'.secrets[s],
         ObjectsRecorded',
         \A k \in Slots : k[2] \notin N => configs'[k] = configs[k],
         \A k \in Slots : k[2] \notin N /\ IsFirst(k[1], k[2]) =>
           secrets'[configs[k].secret] = secrets[configs[k].secret]
  PROVE  Inv'
<1> DEFINE BackedNow(n, r) ==
             \E ns \in Namespaces : \E spec \in had'.specs[<<ns, n>>] :
               \E kubeconfig \in had'.secrets[spec.secret] :
                 r = RESTConfig(spec, kubeconfig)
           CurrentNow(n, r) ==
             \E ns \in Namespaces :
               /\ IsFirst(ns, n)'
               /\ secrets'[configs'[<<ns, n>>].secret] # None
               /\ r = RESTConfig(configs'[<<ns, n>>],
                                 secrets'[configs'[<<ns, n>>].secret])
<1>1. /\ data' = data /\ rest' = rest /\ caller' = caller
      /\ stale' = stale \cup N
      /\ late' = late \cup {c \in Callers : Underway(c, N)}
  BY DEF Affects
<1>2. TypeOK'
  <2>1. \A m \in Nat : \A i \in 0..m : i < m => i + 1 \in 0..m
    OBVIOUS
  <2>2. changes' \in 0..MaxChanges
    BY <2>1, ProviderAssumption DEF Affects, Inv, TypeOK
  <2> QED
    BY <1>1, <2>2 DEF Inv, TypeOK
<1>3. ASSUME NEW n \in Names, NEW r, Backed(n, r)
      PROVE  BackedNow(n, r)
  <2>0. PICK ns \in Namespaces : \E spec \in had.specs[<<ns, n>>] :
          \E kubeconfig \in had.secrets[spec.secret] : r = RESTConfig(spec, kubeconfig)
    BY <1>3 DEF Backed
  <2>1. PICK spec \in had.specs[<<ns, n>>] :
          \E kubeconfig \in had.secrets[spec.secret] : r = RESTConfig(spec, kubeconfig)
    BY <2>0
  <2>2. <<ns, n>> \in Slots /\ spec \in had'.specs[<<ns, n>>]
    BY <2>1, KeyFacts
  <2>3. spec.secret \in Secrets
    BY <2>1, <2>2 DEF Inv, TypeOK, Specs
  <2> QED
    BY <2>1, <2>2, <2>3
<1>4. ASSUME NEW ns \in Namespaces, NEW n \in Names \ N, IsFirst(ns, n)
      PROVE  IsFirst(ns, n)' /\ configs'[<<ns, n>>] = configs[<<ns, n>>]
  BY <1>4, KeyFacts DEF IsFirst, Holds
<1>5. ASSUME NEW n \in Names \ N, NEW r, IsCurrent(n, r)
      PROVE  CurrentNow(n, r)
  <2>1. PICK ns \in Namespaces :
          /\ IsFirst(ns, n)
          /\ secrets[configs[<<ns, n>>].secret] # None
          /\ r = RESTConfig(configs[<<ns, n>>], secrets[configs[<<ns, n>>].secret])
    BY <1>5 DEF IsCurrent
  <2>2. <<ns, n>> \in Slots /\ <<ns, n>>[1] = ns /\ <<ns, n>>[2] = n
    BY KeyFacts
  <2>3. secrets'[configs[<<ns, n>>].secret] = secrets[configs[<<ns, n>>].secret]
    BY <2>1, <2>2
  <2> QED
    BY <1>4, <2>1, <2>3
<1> HIDE DEF BackedNow, CurrentNow
<1>6. ASSUME NEW c \in Callers
      PROVE  Sound(caller[c])'
  <2>1. Sound(caller[c])
    BY DEF Inv
  <2>2. caller[c].pc \in {"keep", "secret"} => caller[c].spec \in had'.specs[caller[c].slot]
    BY <2>1 DEF Sound
  <2>3. caller[c].pc = "store" => BackedNow(caller[c].slot[2], caller[c].config)
    BY <1>3, <2>1, KeyFacts DEF Sound
  <2> QED
    BY <1>1, <2>1, <2>2, <2>3 DEF Sound, Backed, BackedNow
<1>7. ASSUME NEW c \in Callers, c \notin late'
      PROVE  Current(caller[c])'
  <2>1. Current(caller[c]) /\ Sound(caller[c])
    BY <1>1, <1>7 DEF Inv
  <2>2. caller[c].pc # "idle" =>
          caller[c].slot \in Keys /\ caller[c].slot[2] \in Names \ N
    BY <1>1, <1>7, <2>1, KeyFacts DEF Sound, Underway
  <2>3. CASE caller[c].pc \in {"keep", "secret"} /\ caller[c].op # "in"
    <3> DEFINE k == caller[c].slot
    <3>1. /\ k \in Slots /\ k[1] \in Namespaces /\ k[2] \in Names \ N
          /\ k = <<k[1], k[2]>>
          /\ IsFirst(k[1], k[2]) /\ configs[k] = caller[c].spec
      BY <2>1, <2>2, <2>3, KeyFacts DEF Sound, Current
    <3>2. IsFirst(k[1], k[2])' /\ configs'[k] = configs[k]
      BY <1>1, <1>4, <3>1 DEF IsFirst, Holds
    <3> QED
      BY <1>1, <2>3, <3>1, <3>2 DEF Current
  <2>4. CASE caller[c].pc = "store"
    <3>1. IsCurrent(caller[c].slot[2], caller[c].config)
      BY <2>1, <2>4 DEF Current
    <3>2. CurrentNow(caller[c].slot[2], caller[c].config)
      BY <1>5, <2>2, <2>4, <3>1
    <3> QED
      BY <1>1, <2>4, <3>2 DEF Current, CurrentNow, IsCurrent, IsFirst, Holds
  <2> QED
    BY <1>1, <2>3, <2>4 DEF Current
<1>8. CachedWasStored'
  <2>1. ASSUME NEW k \in Keys, data[k] # None
        PROVE  k \in Slots /\ data[k] \in had'.specs[k]
    BY <2>1 DEF Inv, CachedWasStored
  <2>2. ASSUME NEW n \in Names, rest[n] # None
        PROVE  \E ns \in Namespaces : \E spec \in had'.specs[<<ns, n>>] :
                 \E kubeconfig \in had'.secrets[spec.secret] :
                   rest[n] = RESTConfig(spec, kubeconfig)
    <3>1. Backed(n, rest[n])
      BY <2>2 DEF Inv, CachedWasStored, Backed
    <3>2. BackedNow(n, rest[n])
      BY <1>3, <3>1
    <3> QED
      BY <3>2 DEF BackedNow
  <2> QED
    BY <1>1, <2>1, <2>2 DEF CachedWasStored
<1>9. InvalidatedIsCurrent'
  <2> SUFFICES ASSUME NEW n \in Names, n \notin stale', rest'[n] # None
               PROVE  IsCurrent(n, rest[n])'
    BY DEF InvalidatedIsCurrent
  <2>1. n \notin N /\ IsCurrent(n, rest[n])
    BY <1>1 DEF Inv, InvalidatedIsCurrent
  <2>2. CurrentNow(n, rest[n])
    BY <1>5, <2>1
  <2> QED
    BY <1>1, <2>2 DEF CurrentNow, IsCurrent, IsFirst, Holds
<1> QED
  BY <1>2, <1>6, <1>7, <1>8, <1>9 DEF Inv

\* A ClusterConfig is created, edited or deleted.
LEMMA ConfigChangeKeepsInv ==
  ASSUME Inv, NEW k \in Slots,
         DeleteConfig(k) \/ \E spec \in Specs : SetConfig(k, spec)
  PROVE  Inv'
<1>1. /\ k[2] \in Names
      /\ Affects({k[2]})
      /\ secrets' = secrets
      /\ had'.secrets = had.secrets
      /\ \A j \in Slots : j # k => configs'[j] = configs[j] /\ had'.specs[j] = had.specs[j]
  <2>1. k[2] \in Names
    BY KeyFacts
  <2>2. configs \in [Slots -> Specs \cup {None}] /\ had.specs \in [Slots -> SUBSET Specs]
    BY DEF Inv, TypeOK
  <2>3. CASE DeleteConfig(k)
    BY <2>1, <2>2, <2>3 DEF DeleteConfig
  <2>4. ASSUME NEW spec \in Specs, SetConfig(k, spec)
        PROVE  <1>1!2 /\ <1>1!3 /\ <1>1!4 /\ <1>1!5
    <3>1. had'.specs = [had.specs EXCEPT ![k] = @ \cup {spec}] /\ had'.secrets = had.secrets
      BY <2>4 DEF SetConfig, Inv, TypeOK
    <3> QED
      BY <2>2, <2>4, <3>1 DEF SetConfig
  <2> QED
    BY <2>1, <2>3, <2>4
<1>2. /\ configs' \in [Slots -> Specs \cup {None}]
      /\ had' \in [specs : [Slots -> SUBSET Specs],
                   secrets : [Secrets -> SUBSET Kubeconfigs]]
      /\ had.specs[k] \subseteq had'.specs[k]
      /\ configs'[k] # None => configs'[k] \in had'.specs[k]
  <2>1. CASE DeleteConfig(k)
    BY <2>1 DEF DeleteConfig, Inv, TypeOK
  <2>2. ASSUME NEW spec \in Specs, SetConfig(k, spec)
        PROVE  <1>2!1 /\ <1>2!2 /\ <1>2!3 /\ <1>2!4
    BY <2>2 DEF SetConfig, Inv, TypeOK
  <2> QED
    BY <2>1, <2>2
<1>3. \A j \in Slots : had.specs[j] \subseteq had'.specs[j]
  BY <1>1, <1>2
<1>4. ObjectsRecorded'
  BY <1>1, <1>2 DEF ObjectsRecorded, Inv
<1>5. secrets' \in [Secrets -> Kubeconfigs \cup {None}]
  BY <1>1 DEF Inv, TypeOK
<1>6. \A j \in Slots : j[2] \notin {k[2]} => configs'[j] = configs[j]
  BY <1>1
<1>7. \A s \in Secrets : had.secrets[s] \subseteq had'.secrets[s]
  BY <1>1
<1>8. {k[2]} \in SUBSET Names
  BY <1>1
<1> QED
  BY <1>1, <1>2, <1>3, <1>4, <1>5, <1>6, <1>7, <1>8, ChangeStep

\* A kubeconfig is replaced or becomes unusable.
LEMMA SecretChangeKeepsInv ==
  ASSUME Inv, NEW s \in Secrets,
         BreakSecret(s) \/ \E kubeconfig \in Kubeconfigs : SetSecret(s, kubeconfig)
  PROVE  Inv'
<1>1. /\ Affects(NamesUsing(s))
      /\ configs' = configs
      /\ had'.specs = had.specs
      /\ \A t \in Secrets : t # s =>
           secrets'[t] = secrets[t] /\ had'.secrets[t] = had.secrets[t]
  BY DEF BreakSecret, SetSecret, Inv, TypeOK
<1>2. /\ secrets' \in [Secrets -> Kubeconfigs \cup {None}]
      /\ had' \in [specs : [Slots -> SUBSET Specs],
                   secrets : [Secrets -> SUBSET Kubeconfigs]]
      /\ had.secrets[s] \subseteq had'.secrets[s]
      /\ secrets'[s] # None => secrets'[s] \in had'.secrets[s]
  <2>1. CASE BreakSecret(s)
    BY <2>1 DEF BreakSecret, Inv, TypeOK
  <2>2. ASSUME NEW kubeconfig \in Kubeconfigs, SetSecret(s, kubeconfig)
        PROVE  <1>2!1 /\ <1>2!2 /\ <1>2!3 /\ <1>2!4
    BY <2>2 DEF SetSecret, Inv, TypeOK
  <2> QED
    BY <2>1, <2>2
<1>3. NamesUsing(s) \in SUBSET Names
  BY DEF NamesUsing
<1>4. ObjectsRecorded'
  BY <1>1, <1>2 DEF ObjectsRecorded, Inv
<1>5. configs' \in [Slots -> Specs \cup {None}]
  BY <1>1 DEF Inv, TypeOK
<1>6. ASSUME NEW k \in Slots, k[2] \notin NamesUsing(s), IsFirst(k[1], k[2])
      PROVE  secrets'[configs[k].secret] = secrets[configs[k].secret]
  <2>1. k[1] \in Namespaces /\ k[2] \in Names /\ k = <<k[1], k[2]>>
    BY KeyFacts
  <2>2. configs[k] # None /\ configs[k].secret # s
    BY <1>6, <2>1 DEF NamesUsing, IsFirst, Holds
  <2>3. configs[k].secret \in Secrets
    BY <2>2 DEF Inv, TypeOK, Specs
  <2> QED
    BY <1>1, <2>2, <2>3
<1>7. /\ \A k \in Slots : had.specs[k] \subseteq had'.specs[k]
      /\ \A t \in Secrets : had.secrets[t] \subseteq had'.secrets[t]
  BY <1>1, <1>2
<1> HIDE DEF NamesUsing
<1> QED
  BY <1>1, <1>2, <1>3, <1>4, <1>5, <1>6, <1>7, ChangeStep

----------------------------------------------------------------------------

\* The start of the program: nothing is cached and nobody calls.
LEMMA InitInv == Init => Inv
<1> SUFFICES ASSUME Init PROVE Inv
  OBVIOUS
<1>1. \A c \in Callers : caller[c] = IdleCaller
  BY DEF Init
<1>2. TypeOK
  <2>1. \A m \in Nat : 0 \in 0..m
    OBVIOUS
  <2>2. changes \in 0..MaxChanges
    BY <2>1, ProviderAssumption, Zenon DEF Init
  <2>3. caller \in [Callers -> CallerStates]
    BY IdleIsFine DEF Init
  <2>4. had \in [specs : [Slots -> SUBSET Specs],
                 secrets : [Secrets -> SUBSET Kubeconfigs]]
    BY StartAssumption DEF Init
  <2> QED
    BY <2>2, <2>3, <2>4, StartAssumption DEF Init, TypeOK
<1>3. ObjectsRecorded
  BY DEF Init, ObjectsRecorded
<1>4. CachedWasStored /\ InvalidatedIsCurrent
  BY DEF Init, CachedWasStored, InvalidatedIsCurrent
<1> QED
  BY <1>1, <1>2, <1>3, <1>4, IdleIsFine DEF Inv

\* The inductive step, one case per action.
LEMMA StepKeepsInv == Inv /\ [Next]_vars => Inv'
<1> SUFFICES ASSUME Inv, [Next]_vars PROVE Inv'
  OBVIOUS
<1>1. ASSUME NEW c \in Callers, NEW n \in Names, RESTMiss(c, n)
      PROVE  Inv'
  BY <1>1, KeyFacts, MissKeepsInv DEF RESTMiss
<1>2. ASSUME NEW c \in Callers, NEW n \in Names, AcrossMiss(c, n)
      PROVE  Inv'
  BY <1>2, KeyFacts, MissKeepsInv DEF AcrossMiss, Call
<1>3. ASSUME NEW c \in Callers, NEW k \in Slots, InNamespaceMiss(c, k)
      PROVE  Inv'
  BY <1>3, KeyFacts, MissKeepsInv DEF InNamespaceMiss, Call
<1>4. ASSUME NEW c \in Callers,
             \/ \E ns \in Namespaces : Listed(c, ns)
             \/ Got(c) \/ Keep(c) \/ ReadSecret(c) \/ StoreREST(c) \/ Fail(c)
      PROVE  Inv'
  BY <1>4, ListedKeepsInv, GotKeepsInv, KeepKeepsInv, ReadSecretKeepsInv,
     StoreRESTKeepsInv, FailKeepsInv
<1>5. ASSUME NEW n \in Names, Invalidate(n)
      PROVE  Inv'
  BY <1>5, InvalidateKeepsInv
<1>6. ASSUME NEW k \in Slots,
             DeleteConfig(k) \/ \E spec \in Specs : SetConfig(k, spec)
      PROVE  Inv'
  BY <1>6, ConfigChangeKeepsInv
<1>7. ASSUME NEW s \in Secrets,
             \/ BreakSecret(s)
             \/ \E kubeconfig \in Kubeconfigs : SetSecret(s, kubeconfig)
      PROVE  Inv'
  BY <1>7, SecretChangeKeepsInv
<1>8. CASE UNCHANGED vars
  <2> USE <1>8 DEF vars
  <2>1. TypeOK' /\ ObjectsRecorded'
    BY DEF Inv, TypeOK, ObjectsRecorded
  <2>2. (\A c \in Callers : Sound(caller[c]))'
    BY DEF Inv, Sound, Backed
  <2>3. (\A c \in Callers \ late : Current(caller[c]))'
    BY DEF Inv, Current, IsCurrent, IsFirst, Holds
  <2>4. CachedWasStored'
    BY DEF Inv, CachedWasStored
  <2>5. InvalidatedIsCurrent'
    BY DEF Inv, InvalidatedIsCurrent, IsCurrent, IsFirst, Holds
  <2> QED
    BY <2>1, <2>2, <2>3, <2>4, <2>5 DEF Inv
<1> QED
  BY <1>1, <1>2, <1>3, <1>4, <1>5, <1>6, <1>7, <1>8 DEF Next

\* The invariant of the provider's callers, maps and history.
LEMMA Invariance == Spec => []Inv
  BY InitInv, StepKeepsInv, PTL DEF Spec

\* The provider's state always has its type: in particular what reaches rest is
\* a REST configuration with a rewritten host (GetRESTConfig).
THEOREM ProviderTyped == Spec => []TypeOK
<1>1. Inv => TypeOK
  BY DEF Inv
<1> QED
  BY <1>1, Invariance, PTL

\* No cached entry mixes the objects of two names, whatever the callers and the
\* changes interleave (GetAcrossAllNamespaces, GetInNamespace, GetRESTConfig).
THEOREM NamesAreNotMixed == Spec => []CachedWasStored
<1>1. Inv => CachedWasStored
  BY DEF Inv
<1> QED
  BY <1>1, Invariance, PTL

\* After Invalidate the cached REST configuration of a name is the current one,
\* unless a call that was under way during the change stores it (Invalidate).
THEOREM InvalidateWorks == Spec => []InvalidatedIsCurrent
<1>1. Inv => InvalidatedIsCurrent
  BY DEF Inv
<1> QED
  BY <1>1, Invariance, PTL
==============================================================================
