------------------------------ MODULE Requests ------------------------------
(***************************************************************************)
(* The session controller together with the objects it takes its decisions *)
(* from: how a request selects its escalation before it goes on as in      *)
(* SessionLifecycle, and how a decision finds out whether the caller is an *)
(* approver (isSessionApprover) before it writes.  Escalations and         *)
(* ClusterConfigs may be edited at any time.                               *)
(*                                                                         *)
(* SessionLifecycle's ApproversOf is here every caller that an escalation  *)
(* may ever admit; who is an approver is read from the objects.            *)
(*                                                                         *)
(* Not modelled: the deletion of an escalation (the garbage collector of   *)
(* the API server then removes its sessions) and the mandatory reason (a   *)
(* request without it changes nothing).                                    *)
(***************************************************************************)
EXTENDS SessionLifecycle, Escalations

CONSTANTS
    ClusterOf,       \* the cluster of a triple
    GroupOf,         \* the group of a triple
    EscalationSpecs, \* specifications an escalation may have
    ConfigSpecs,     \* specifications a ClusterConfig may have
    ConfigSlots,     \* namespace and name of the ClusterConfigs
    FirstSpecs,      \* the objects at the start
    FirstConfigs,
    MaxEdits,        \* bound on the edits of escalations and ClusterConfigs
    MaxFailures      \* bound on calls that fail without a reason in the model

ASSUME RequestsAssumption ==
    /\ \A spec \in EscalationSpecs : spec.blockSelf \in {"yes", "no", "unset"}
    /\ FirstSpecs \in [Escalations -> EscalationSpecs]
    /\ FirstConfigs \in [ConfigSlots -> ConfigSpecs \cup {NoObject}]
    /\ NoObject \notin ConfigSpecs
    /\ MaxEdits \in Nat
    /\ MaxFailures \in Nat

VARIABLES
    specs,       \* the escalations in the API server
    configs,     \* the ClusterConfigs in the API server
    selection,   \* what a request selected: None, or its escalation
    origin,      \* the selection a session was created from
    authority,   \* the approver check of a decision
    warrants,    \* history: the approvals and what they were allowed by
    edits,       \* edits so far
    failures     \* failures so far

objects == <<specs, configs, edits>>
checks == <<selection, origin, authority, warrants>>
rvars == <<vars, objects, checks, failures>>

\* unchecked: isSessionApprover is to list the escalations; checking: between
\* two of them; granted: the caller may go on.
NoAuthority == [pc |-> "none", todo |-> {}, snap |-> None, warrant |-> None]
Granted == [NoAuthority EXCEPT !.pc = "granted"]
Unchecked == [NoAuthority EXCEPT !.pc = "unchecked"]

RInit ==
    /\ Init
    /\ specs = FirstSpecs
    /\ configs = FirstConfigs
    /\ selection = [h \in Requesters |-> None]
    /\ origin = [n \in Names |-> None]
    /\ authority = [h \in Deciders |-> NoAuthority]
    /\ warrants = {}
    /\ edits = 0
    /\ failures = 0

----------------------------------------------------------------------------
(***************************************************************************)
(* POST /breakglassSessions.                                               *)
(***************************************************************************)

\* The escalations through which caller c may ask for triple k.  The user of the
\* triple is the one named in the request; nothing ties him to the caller.
Possible(c, k) ==
    {e \in GetClusterGroupBreakglassEscalations(
               specs, ClusterOf[k], UserGroups(c, OwnerOf[k], ClusterOf[k])) :
        specs[e].escalated = GroupOf[k]}

\* The first of them is selected; the deny policies of all are attached.
Select(h, c, k, e) ==
    /\ handler[h].pc = "idle" /\ selection[h] = None
    /\ IsFirst(e, Possible(c, k))
    /\ selection' = [selection EXCEPT ![h] =
         [key |-> k, caller |-> c, spec |-> specs[e],
          deny |-> UNION {specs[d].deny : d \in Possible(c, k)}]]
    /\ UNCHANGED <<vars, objects, origin, authority, warrants, failures>>

\* An active session of the triple: 409.
Refuse(h) ==
    /\ handler[h].pc = "idle" /\ selection[h] # None
    /\ ActiveSessions(selection[h].key) # {}
    /\ selection' = [selection EXCEPT ![h] = None]
    /\ UNCHANGED <<vars, objects, origin, authority, warrants, failures>>

SelectedCheck(h) ==
    /\ selection[h] # None
    /\ RequestCheck(h, selection[h].key)
    /\ UNCHANGED <<objects, checks, failures>>

SelectedCreate(h, n) ==
    /\ RequestCreate(h, n)
    /\ origin' = [origin EXCEPT ![n] = selection[h]]
    /\ UNCHANGED <<objects, selection, authority, warrants, failures>>

\* The handler takes the first of allowed.clusters to count the request: it
\* panics when the escalation has clusterConfigRefs only.
CountsRequest(h) == selection[h].spec.clusters # {}

SelectedRead(h, n) ==
    /\ RequestRead(h, n)
    /\ CountsRequest(h)
    /\ UNCHANGED <<objects, checks, failures>>

SelectedWrite(h) ==
    /\ RequestWrite(h)
    /\ selection' = [selection EXCEPT ![h] = None]
    /\ UNCHANGED <<objects, origin, authority, warrants, failures>>

----------------------------------------------------------------------------
(***************************************************************************)
(* The decisions.                                                          *)
(***************************************************************************)

\* isSessionApprover is asked, except for the owner's own withdraw, drop and
\* reject.
ReadFor(h, c, n) ==
    \/ /\ ReadApprove(h, c, n) \/ ReadCancel(h, c, n)
       /\ authority' = [authority EXCEPT ![h] = Unchecked]
    \/ /\ ReadReject(h, c, n)
       /\ authority' = [authority EXCEPT ![h] =
            IF IsOwner(c, n) /\ IsSessionPendingApproval(status[n])
            THEN Granted ELSE Unchecked]
    \/ /\ ReadWithdraw(h, c, n) \/ ReadDrop(h, c, n)
       /\ authority' = [authority EXCEPT ![h] = Granted]

SelectedRule(h, c, n) ==
    /\ ReadFor(h, c, n)
    /\ UNCHANGED <<objects, selection, origin, warrants, failures>>

\* The escalations of the cluster that grant the session's group are listed.
ListEscalations(h) ==
    LET k == handler[h].key IN
    /\ authority[h].pc = "unchecked"
    /\ authority' = [authority EXCEPT ![h] =
         [pc |-> "checking",
          todo |-> {e \in GetClusterBreakglassEscalations(specs, ClusterOf[k]) :
                      specs[e].escalated = GroupOf[k]},
          snap |-> specs, warrant |-> None]]
    /\ UNCHANGED <<vars, objects, selection, origin, warrants, failures>>

\* The check of escalation e with the ClusterConfig that was read for it.
Evaluated(h, e, config) ==
    LET a == authority[h]
        k == handler[h].key IN
    IF Admits(a.snap[e], config, handler[h].by, OwnerOf[k], ClusterOf[k])
    THEN [a EXCEPT !.pc = "granted", !.snap = None, !.todo = {},
                   !.warrant = [spec |-> a.snap[e], config |-> config]]
    ELSE [a EXCEPT !.todo = @ \ {e}]

ConfigOf(h, e) ==
    LET slot == <<authority[h].snap[e].namespace, ClusterOf[handler[h].key]>>
    IN  IF slot \in ConfigSlots THEN configs[slot] ELSE NoObject

Evaluate(h, e) ==
    /\ authority[h].pc = "checking"
    /\ IsFirst(e, authority[h].todo)
    /\ authority' = [authority EXCEPT ![h] = Evaluated(h, e, ConfigOf(h, e))]
    /\ UNCHANGED <<vars, objects, selection, origin, warrants, failures>>

\* A ClusterConfig that cannot be read counts as absent.
EvaluateUnread(h, e) ==
    /\ authority[h].pc = "checking"
    /\ IsFirst(e, authority[h].todo)
    /\ ConfigOf(h, e) # NoObject
    /\ failures < MaxFailures
    /\ failures' = failures + 1
    /\ authority' = [authority EXCEPT ![h] = Evaluated(h, e, NoObject)]
    /\ UNCHANGED <<vars, objects, selection, origin, warrants>>

MayWrite(h) == authority[h].pc = "granted"

GrantedApprove(h) ==
    /\ MayWrite(h)
    /\ Approve(h)
    /\ warrants' = warrants \cup
         {[name |-> handler[h].name, by |-> handler[h].by,
           warrant |-> authority[h].warrant]}
    /\ authority' = [authority EXCEPT ![h] = NoAuthority]
    /\ UNCHANGED <<objects, selection, origin, failures>>

GrantedEnd(h) ==
    /\ MayWrite(h)
    /\ End(h)
    /\ authority' = [authority EXCEPT ![h] = NoAuthority]
    /\ UNCHANGED <<objects, selection, origin, warrants, failures>>

----------------------------------------------------------------------------
(***************************************************************************)
(* Calls that end early.                                                   *)
(***************************************************************************)

\* The panic is recovered by the HTTP server.
Panics(h) == h \in Requesters /\ handler[h].pc = "created" /\ ~CountsRequest(h)

\* The status update is refused, or has no object to go to.
Refused(h) ==
    \/ handler[h].pc = "holding" /\ ~Unchanged(h)
    \/ handler[h].pc = "created" /\ ActiveSessions(handler[h].key) = {}

\* No escalation admits the caller: 401.
Denied(h) ==
    h \in Deciders /\ authority[h].pc = "checking" /\ authority[h].todo = {}

Stop(h) ==
    /\ Fail(h)
    /\ selection' = [g \in Requesters |-> IF g = h THEN None ELSE selection[g]]
    /\ authority' = [g \in Deciders |-> IF g = h THEN NoAuthority
                                                 ELSE authority[g]]
    /\ UNCHANGED <<objects, origin, warrants>>

StopForCause(h) ==
    /\ Panics(h) \/ Refused(h) \/ Denied(h)
    /\ Stop(h)
    /\ UNCHANGED failures

StopForFailure(h) ==
    /\ failures < MaxFailures
    /\ failures' = failures + 1
    /\ Stop(h)

RestartAll ==
    /\ Crash
    /\ selection' = [h \in Requesters |-> None]
    /\ authority' = [h \in Deciders |-> NoAuthority]
    /\ UNCHANGED <<objects, origin, warrants, failures>>

\* The cleanup routine and the clock.
Background ==
    /\ \/ CleanerStep \/ CleanerListFault
       \/ \E n \in Names : CleanerItemFault(n)
       \/ Tick
    /\ UNCHANGED <<objects, checks, failures>>

----------------------------------------------------------------------------
(***************************************************************************)
(* Edits.                                                                  *)
(***************************************************************************)

EditEscalation(e, spec) ==
    /\ edits < MaxEdits
    /\ edits' = edits + 1
    /\ specs[e] # spec
    /\ specs' = [specs EXCEPT ![e] = spec]
    /\ UNCHANGED <<vars, configs, checks, failures>>

EditClusterConfig(slot, config) ==
    /\ edits < MaxEdits
    /\ edits' = edits + 1
    /\ configs[slot] # config
    /\ configs' = [configs EXCEPT ![slot] = config]
    /\ UNCHANGED <<vars, specs, checks, failures>>

RNext ==
    \/ \E h \in Requesters :
        \/ \E c \in Callers, k \in Keys, e \in Escalations : Select(h, c, k, e)
        \/ Refuse(h)
        \/ SelectedCheck(h)
        \/ \E n \in Names : SelectedCreate(h, n) \/ SelectedRead(h, n)
        \/ SelectedWrite(h)
    \/ \E h \in Deciders :
        \/ \E c \in Callers, n \in Names : SelectedRule(h, c, n)
        \/ ListEscalations(h)
        \/ \E e \in Escalations : Evaluate(h, e) \/ EvaluateUnread(h, e)
        \/ GrantedApprove(h)
        \/ GrantedEnd(h)
    \/ \E h \in Handlers : StopForCause(h) \/ StopForFailure(h)
    \/ RestartAll
    \/ Background
    \/ \E e \in Escalations, spec \in EscalationSpecs : EditEscalation(e, spec)
    \/ \E slot \in ConfigSlots, config \in ConfigSpecs \cup {NoObject} :
         EditClusterConfig(slot, config)

RSpec == RInit /\ [][RNext]_rvars

----------------------------------------------------------------------------
(***************************************************************************)
(* Properties.                                                             *)
(***************************************************************************)

\* A request was made through an escalation for the cluster and the group, and
\* carries its deny policies.  The escalation allows, prefixed or not, a group in
\* the caller's token or, if he has none there, a group of the user the session is
\* for: the caller himself need not have one then.
Eligible(sel, k) ==
    LET g == UserGroups(sel.caller, OwnerOf[k], ClusterOf[k]) IN
    /\ sel.key = k
    /\ sel.spec.escalated = GroupOf[k]
    /\ \/ ClusterOf[k] \in sel.spec.clusters
       \/ \E r \in sel.spec.refs : ClusterOf[k] \in Contained[r]
    /\ \E a \in sel.spec.allowed : a \in g \/ Tail(a) \in g
    /\ sel.spec.deny \subseteq sel.deny

\* An escalation and a ClusterConfig let caller c approve: he is named by the
\* escalation, himself or by a group, from a domain it accepts, and if the
\* session is his own neither of the two forbids it, the escalation first.
Warrants(w, c, k) ==
    /\ w.spec.escalated = GroupOf[k]
    /\ c \in w.spec.users \/ w.spec.groups \cap ApproverGroups(c, ClusterOf[k]) # {}
    /\ w.spec.domains # {} => DomainOf[c] \in w.spec.domains
    /\ w.spec.domains = {} /\ w.config # NoObject =>
         w.config.domains = {} \/ DomainOf[c] \in w.config.domains
    /\ c = OwnerOf[k] =>
         CASE w.spec.blockSelf = "yes" -> FALSE
           [] w.spec.blockSelf = "no"  -> TRUE
           [] OTHER -> w.config = NoObject \/ ~w.config.blockSelf

\* Behind every session that authorizes there is an eligible request and, by the
\* approver its status names, a warranted approval of that very session, however
\* edits of escalations and ClusterConfigs fall between the reads of a request
\* or of isSessionApprover, and whichever requests race.
AccessIsWarranted ==
    \A n \in Names : Grants(n) =>
        /\ Eligible(origin[n], KeyOf[n])
        /\ \E w \in warrants : /\ w.name = n
                               /\ w.by = status[n].approver
                               /\ Warrants(w.warrant, w.by, KeyOf[n])

\* With one request for a triple at a time the session that a request looks up
\* by its triple and makes Pending is the one it created itself, and not one left
\* behind by a request that failed, or made by somebody else through another
\* escalation.
WritesItsOwn ==
    \A h \in Requesters :
        handler[h].pc = "holding" => origin[handler[h].name] = selection[h]

\* handleGetEscalations: what the API offers to a caller.
Offered(c) == GetGroupBreakglassEscalations(specs, UserGroups(c, c, HubCluster))

\* Whatever a caller with groups in his token may request is offered to him: the
\* two handlers resolve groups and normalize escalations in the same way.
RequestableIsOffered ==
    \A c \in Callers, k \in Keys : TokenGroups[c] # {} => Possible(c, k) \subseteq Offered(c)
=============================================================================
