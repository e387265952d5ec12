--------------------------- MODULE ClientProvider ---------------------------
(***************************************************************************)
(* The cache of ClusterConfig objects and REST configurations              *)
(* (pkg/cluster/cache.go) that the webhook and the session controller      *)
(* share, the API server it is filled from, and Invalidate.                *)
(*                                                                         *)
(* The two maps are read and written in short lock sections; between them  *)
(* a caller lists the ClusterConfigs and reads a secret without the lock.  *)
(* A step of the model is one lock section or one call to the API server.  *)
(*                                                                         *)
(* Abstracted: a ClusterConfig is the secret it refers to and its rate     *)
(* limits; a kubeconfig is its host and its credential.  A secret that is  *)
(* gone, lacks the key or does not parse is Missing: all three end the     *)
(* call with an error.                                                     *)
(***************************************************************************)
EXTENDS Naturals

CONSTANTS
    Namespaces,    \* in list order
    Names,         \* ClusterConfig names
    Secrets,       \* secrets a ClusterConfig may refer to
    Limits,        \* values of QPS and Burst
    Credentials,   \* credentials in a kubeconfig
    Kubeconfigs,   \* kubeconfigs a secret may hold
    Callers,       \* goroutines that use the provider at a time
    None,          \* no entry, no object
    FirstConfigs,  \* the ClusterConfigs and the secrets when the program
    FirstSecrets,  \*   starts
    MaxChanges     \* bound on the changes made to objects

ASSUME ProviderAssumption ==
    /\ Namespaces \subseteq Nat \ {0}
    /\ Kubeconfigs \subseteq [host : {"loopback", "remote"},
                               credential : Credentials]
    /\ MaxChanges \in Nat

NoNamespace == 0

Specs == [secret : Secrets, limits : Limits]

RESTConfigs ==
    [host : {"service", "remote"}, credential : Credentials, limits : Limits]

Slots == Namespaces \X Names

ASSUME StartAssumption ==
    /\ None \notin Specs
    /\ None \notin Kubeconfigs
    /\ None \notin RESTConfigs
    /\ FirstConfigs \in [Slots -> Specs \cup {None}]
    /\ FirstSecrets \in [Secrets -> Kubeconfigs \cup {None}]

\* cacheKey: GetAcrossAllNamespaces looks under the empty namespace.
Keys == (Namespaces \cup {NoNamespace}) \X Names

VARIABLES
    configs,   \* the ClusterConfigs in the API server
    secrets,   \* the kubeconfigs in the API server
    data,      \* the provider's ClusterConfigs
    rest,      \* the provider's REST configurations
    caller,    \* the local state of the callers
    changes,   \* changes to objects so far
    had,       \* history: what each slot and each secret ever held
    stale,     \* history: names changed, or cached late, since Invalidate
    late       \* history: callers under way when their name changed

vars == <<configs, secrets, data, rest, caller, changes, had, stale, late>>

\* list: missed the cache, about to list or get; keep: has a ClusterConfig to
\* put into data; secret: about to read the secret; store: has a REST
\* configuration to put into rest.
CallerStates ==
    [pc     : {"idle", "list", "keep", "secret", "store"},
     op     : {"rest", "across", "in"},
     slot   : Keys \cup {None},
     spec   : Specs \cup {None},
     config : RESTConfigs \cup {None}]

IdleCaller ==
    [pc |-> "idle", op |-> "across", slot |-> None, spec |-> None,
     config |-> None]

Init ==
    /\ configs = FirstConfigs
    /\ secrets = FirstSecrets
    /\ data = [k \in Keys |-> None]
    /\ rest = [n \in Names |-> None]
    /\ caller = [c \in Callers |-> IdleCaller]
    /\ changes = 0
    /\ had = [specs   |-> [k \in Slots |-> {FirstConfigs[k]} \ {None}],
              secrets |-> [s \in Secrets |-> {FirstSecrets[s]} \ {None}]]
    /\ stale = {}
    /\ late = {}

----------------------------------------------------------------------------
(***************************************************************************)
(* What a complete fetch makes of the objects.                             *)
(***************************************************************************)

Holds(k) == configs[k] # None

\* The namespace of the first listed ClusterConfig of the name.
IsFirst(ns, n) ==
    /\ Holds(<<ns, n>>)
    /\ \A m \in Namespaces : Holds(<<m, n>>) => ns <= m

\* Mutant: the host of the kubeconfig is used as it is.
HostAsGiven(host) == host

\* A loopback endpoint is replaced by the in-cluster service.
RewrittenHost(host) == IF host = "loopback" THEN "service" ELSE host

RESTConfig(spec, kubeconfig) ==
    [host       |-> RewrittenHost(kubeconfig.host),
     credential |-> kubeconfig.credential,
     limits     |-> spec.limits]

\* The REST configuration c is what name n stands for now.
IsCurrent(n, c) ==
    \E ns \in Namespaces :
        /\ IsFirst(ns, n)
        /\ LET spec == configs[<<ns, n>>] IN
           /\ secrets[spec.secret] # None
           /\ c = RESTConfig(spec, secrets[spec.secret])

\* The names whose REST configuration depends on secret s.
NamesUsing(s) ==
    {n \in Names : \E ns \in Namespaces :
                       IsFirst(ns, n) /\ configs[<<ns, n>>].secret = s}

----------------------------------------------------------------------------
(***************************************************************************)
(* GetAcrossAllNamespaces, GetInNamespace and GetRESTConfig.               *)
(***************************************************************************)

Objects == <<configs, secrets, changes, had>>

Goto(c, state) == caller' = [caller EXCEPT ![c] = state]

\* A REST configuration that is cached is returned: nothing to do.
RESTMiss(c, n) ==
    /\ caller[c].pc = "idle"
    /\ rest[n] = None
    /\ Goto(c, [IdleCaller EXCEPT !.pc = "list", !.op = "rest",
                                  !.slot = <<NoNamespace, n>>])
    /\ late' = late \ {c}
    /\ UNCHANGED <<Objects, data, rest, stale>>

Call(c, op, k) ==
    /\ caller[c].pc = "idle"
    /\ data[k] = None
    /\ Goto(c, [IdleCaller EXCEPT !.pc = "list", !.op = op, !.slot = k])
    /\ late' = late \ {c}
    /\ UNCHANGED <<Objects, data, rest, stale>>

\* Called for the configuration itself by the webhook and the controller.
AcrossMiss(c, n) == Call(c, "across", <<NoNamespace, n>>)

InNamespaceMiss(c, k) == Call(c, "in", k)

\* Mutant: the entry is kept under the key that was looked up.
ListedUnderLookup(c, ns) ==
    LET n == caller[c].slot[2] IN
    /\ caller[c].pc = "list"
    /\ caller[c].op # "in"
    /\ IsFirst(ns, n)
    /\ Goto(c, [caller[c] EXCEPT !.pc = "keep", !.spec = configs[<<ns, n>>]])
    /\ UNCHANGED <<Objects, data, rest, stale, late>>

\* GetAcrossAllNamespaces.  An entry under the key of the empty namespace would
\* be used; otherwise the first listed item of the name is taken, under the key
\* of its own namespace.
Listed(c, ns) ==
    LET k == caller[c].slot IN
    /\ caller[c].pc = "list"
    /\ caller[c].op # "in"
    /\ IsFirst(ns, k[2])
    /\ Goto(c, [caller[c] EXCEPT
                  !.pc   = "keep",
                  !.slot = IF data[k] # None THEN k ELSE <<ns, k[2]>>,
                  !.spec = IF data[k] # None THEN data[k]
                                             ELSE configs[<<ns, k[2]>>]])
    /\ UNCHANGED <<Objects, data, rest, stale, late>>

Got(c) ==
    /\ caller[c].pc = "list"
    /\ caller[c].op = "in"
    /\ Holds(caller[c].slot)
    /\ Goto(c, [caller[c] EXCEPT !.pc = "keep", !.spec = configs[caller[c].slot]])
    /\ UNCHANGED <<Objects, data, rest, stale, late>>

\* The second lock section of the two Get functions.
Keep(c) ==
    /\ caller[c].pc = "keep"
    /\ data' = [data EXCEPT ![caller[c].slot] = caller[c].spec]
    /\ Goto(c, IF caller[c].op = "rest" THEN [caller[c] EXCEPT !.pc = "secret"]
                                        ELSE IdleCaller)
    /\ UNCHANGED <<Objects, rest, stale, late>>

ReadSecret(c) ==
    /\ caller[c].pc = "secret"
    /\ secrets[caller[c].spec.secret] # None
    /\ Goto(c, [caller[c] EXCEPT
                  !.pc = "store",
                  !.config = RESTConfig(caller[c].spec,
                                        secrets[caller[c].spec.secret])])
    /\ UNCHANGED <<Objects, data, rest, stale, late>>

\* The last lock section of GetRESTConfig.
StoreREST(c) ==
    LET n == caller[c].slot[2] IN
    /\ caller[c].pc = "store"
    /\ rest' = [rest EXCEPT ![n] = caller[c].config]
    /\ Goto(c, IdleCaller)
    /\ stale' = IF c \in late THEN stale \cup {n} ELSE stale \ {n}
    /\ UNCHANGED <<Objects, data, late>>

\* Any call to the API server may fail, the object may be gone, the secret
\* unusable: the caller gets an error and nothing is cached.
Fail(c) ==
    /\ caller[c].pc \in {"list", "secret"}
    /\ Goto(c, IdleCaller)
    /\ UNCHANGED <<Objects, data, rest, stale, late>>

\* Mutant: only the ClusterConfigs are removed.
InvalidateData(n) ==
    /\ data' = [k \in Keys |-> IF k[2] = n THEN None ELSE data[k]]
    /\ stale' = stale \ {n}
    /\ UNCHANGED <<Objects, rest, caller, late>>

\* Both maps, in one lock section.
Invalidate(n) ==
    /\ data' = [k \in Keys |-> IF k[2] = n THEN None ELSE data[k]]
    /\ rest' = [rest EXCEPT ![n] = None]
    /\ stale' = stale \ {n}
    /\ UNCHANGED <<Objects, caller, late>>

----------------------------------------------------------------------------
(***************************************************************************)
(* The operators of the clusters change the objects.                       *)
(***************************************************************************)

Underway(c, N) == caller[c].pc # "idle" /\ caller[c].slot[2] \in N

Affects(N) ==
    /\ changes < MaxChanges
    /\ changes' = changes + 1
    /\ stale' = stale \cup N
    /\ late' = late \cup {c \in Callers : Underway(c, N)}
    /\ UNCHANGED <<data, rest, caller>>

SetConfig(k, spec) ==
    /\ configs[k] # spec
    /\ configs' = [configs EXCEPT ![k] = spec]
    /\ had' = [had EXCEPT !.specs[k] = @ \cup {spec}]
    /\ Affects({k[2]})
    /\ UNCHANGED secrets

DeleteConfig(k) ==
    /\ Holds(k)
    /\ configs' = [configs EXCEPT ![k] = None]
    /\ Affects({k[2]})
    /\ UNCHANGED <<secrets, had>>

\* A new kubeconfig: the credential is rotated, the cluster moves.
SetSecret(s, kubeconfig) ==
    /\ secrets[s] # kubeconfig
    /\ secrets' = [secrets EXCEPT ![s] = kubeconfig]
    /\ had' = [had EXCEPT !.secrets[s] = @ \cup {kubeconfig}]
    /\ Affects(NamesUsing(s))
    /\ UNCHANGED configs

BreakSecret(s) ==
    /\ secrets[s] # None
    /\ secrets' = [secrets EXCEPT ![s] = None]
    /\ Affects(NamesUsing(s))
    /\ UNCHANGED <<configs, had>>

Next ==
    \/ \E c \in Callers :
        \/ \E n \in Names : RESTMiss(c, n) \/ AcrossMiss(c, n)
        \/ \E k \in Slots : InNamespaceMiss(c, k)
        \/ \E ns \in Namespaces : Listed(c, ns)
        \/ Got(c)
        \/ Keep(c)
        \/ ReadSecret(c)
        \/ StoreREST(c)
        \/ Fail(c)
    \/ \E n \in Names : Invalidate(n)
    \/ \E k \in Slots :
        \/ \E spec \in Specs : SetConfig(k, spec)
        \/ DeleteConfig(k)
    \/ \E s \in Secrets :
        \/ \E kubeconfig \in Kubeconfigs : SetSecret(s, kubeconfig)
        \/ BreakSecret(s)

Spec == Init /\ [][Next]_vars

----------------------------------------------------------------------------
(***************************************************************************)
(* Properties.                                                             *)
(***************************************************************************)

TypeOK ==
    /\ configs \in [Slots -> Specs \cup {None}]
    /\ secrets \in [Secrets -> Kubeconfigs \cup {None}]
    /\ data \in [Keys -> Specs \cup {None}]
    /\ rest \in [Names -> RESTConfigs \cup {None}]
    /\ caller \in [Callers -> CallerStates]
    /\ changes \in 0..MaxChanges
    /\ had \in [specs : [Slots -> SUBSET Specs],
                secrets : [Secrets -> SUBSET Kubeconfigs]]
    /\ stale \subseteq Names
    /\ late \subseteq Callers

\* A cached ClusterConfig was once stored under exactly its key, and a cached
\* REST configuration of a name combines a ClusterConfig of that name with a
\* kubeconfig of the secret it refers to: whatever the callers interleave, no
\* request reaches a cluster with the credentials of another one (cacheKey,
\* GetAcrossAllNamespaces, GetInNamespace, GetRESTConfig).
CachedWasStored ==
    /\ \A k \in Keys : data[k] # None => k \in Slots /\ data[k] \in had.specs[k]
    /\ \A n \in Names : rest[n] # None =>
         \E ns \in Namespaces : \E spec \in had.specs[<<ns, n>>] :
           \E kubeconfig \in had.secrets[spec.secret] :
             rest[n] = RESTConfig(spec, kubeconfig)

\* What Invalidate gives the update hooks that are to call it: once the last
\* change to a name was followed by Invalidate, its REST configuration is either
\* not cached or the current one, unless a caller that was under way during the
\* change stores it afterwards.
InvalidatedIsCurrent ==
    \A n \in Names \ stale : rest[n] # None => IsCurrent(n, rest[n])
============================================================================
