------------------------ MODULE ClusterConfigChecker ------------------------
(***************************************************************************)
(* The loop that validates the ClusterConfig objects                       *)
(* (cluster_config_checker.go) and the administrators who change the       *)
(* objects, the secrets and the clusters under it.                         *)
(*                                                                         *)
(* A step is one call to the API server, or to the checked cluster.  The   *)
(* checker works on the items of one list; fresh holds those of them whose *)
(* resourceVersion is still the stored one, alive those that have not been *)
(* deleted since, also if they were created again: events refer to an      *)
(* object by UID.  ClusterConfig has a status subresource: a full Update   *)
(* stores the spec and drops the status, a Status().Update stores the      *)
(* status and drops the spec; both are refused when the resourceVersion is *)
(* old.  A full Update that changes nothing leaves the resourceVersion     *)
(* alone.  The event is created by a call of its own after the update.     *)
(*                                                                         *)
(* Abstracted: a secret is usable, or it is missing, lacks the key or does *)
(* not parse (unusable, the same outcome in all three cases); messages and *)
(* metrics are left out.                                                   *)
(***************************************************************************)
EXTENDS Naturals

CONSTANTS
    Configs,     \* ClusterConfig objects (namespace and name), in list order
    Secrets,     \* secrets a ClusterConfig may refer to
    NoRef,       \* a kubeconfigSecretRef without name or namespace
    None,        \* no object, no report
    MaxChanges,  \* bound on the changes administrators make
    MaxFaults    \* bound on failed calls and restarts

ASSUME CheckerAssumption ==
    /\ Configs \subseteq Nat \ {0}
    /\ NoRef \notin Secrets
    /\ None \notin Secrets \cup {NoRef}
    /\ MaxChanges \in Nat
    /\ MaxFaults \in Nat

NoConfig == 0
Specs == Secrets \cup {NoRef}
Verdicts == {"Ready", "Failed"}
Phases == Verdicts \cup {""}

VARIABLES
    spec,        \* the stored objects: None, or what they refer to
    phase,       \* their status.phase
    usable,      \* secrets that hold a kubeconfig that parses
    reachable,   \* secrets whose cluster answers
    checker,     \* the local state of the checker
    fresh,       \* listed items whose resourceVersion is still the stored one
    alive,       \* listed items that have not been deleted since
    changes,     \* changes so far
    faults,      \* faults so far
    accepted,    \* history: the item as it was stored when its update was accepted
    report       \* history: the last event about the stored object

vars == <<spec, phase, usable, reachable, checker, fresh, alive, changes,
          faults, accepted, report>>

\* next: between two items; probe: has a parsed kubeconfig; update and status:
\* about to call Update and Status().Update with a verdict; event: one of them
\* was accepted, the event is to be created.
CheckerStates ==
    [pc      : {"list", "next", "probe", "update", "status", "event"},
     todo    : SUBSET Configs,
     snap    : [Configs -> Specs \cup {None}],
     item    : Configs \cup {NoConfig},
     verdict : Phases]

StartedChecker ==
    [pc |-> "list", todo |-> {}, snap |-> [k \in Configs |-> None],
     item |-> NoConfig, verdict |-> ""]

\* on: the reference the verdict is about; was: the one stored at the update.
Reports == [verdict : Phases, on : Specs \cup {None}, was : Specs \cup {None}]
NoReport == [verdict |-> "", on |-> None, was |-> None]

Init ==
    /\ spec = [k \in Configs |-> None]
    /\ phase = [k \in Configs |-> ""]
    /\ usable = {}
    /\ reachable = {}
    /\ checker = StartedChecker
    /\ fresh = {}
    /\ alive = {}
    /\ changes = 0
    /\ faults = 0
    /\ accepted = None
    /\ report = [k \in Configs |-> NoReport]

Stored == {k \in Configs : spec[k] # None}

IsFirst(k, S) == k \in S /\ \A j \in S : k <= j

----------------------------------------------------------------------------
(***************************************************************************)
(* Administrators.  Nothing validates what they write: the validating      *)
(* webhook of ClusterConfig is set up without its validator.               *)
(***************************************************************************)

Change == changes < MaxChanges /\ changes' = changes + 1

Writes(k, s) ==
    /\ Change
    /\ spec' = [spec EXCEPT ![k] = s]
    /\ fresh' = fresh \ {k}
    /\ UNCHANGED <<usable, reachable, checker, faults, accepted>>

Create(k, s) ==
    /\ spec[k] = None
    /\ Writes(k, s)
    /\ UNCHANGED <<phase, alive, report>>

EditConfig(k, s) ==
    /\ spec[k] \notin {None, s}
    /\ Writes(k, s)
    /\ UNCHANGED <<phase, alive, report>>

DeleteConfig(k) ==
    /\ spec[k] # None
    /\ Writes(k, None)
    /\ phase' = [phase EXCEPT ![k] = ""]
    /\ alive' = alive \ {k}
    /\ report' = [report EXCEPT ![k] = NoReport]

Toggled(s, S) == IF s \in S THEN S \ {s} ELSE S \cup {s}

\* A secret is written or removed, or a cluster comes up or goes down.
ChangeWorld(s) ==
    /\ Change
    /\ \/ usable' = Toggled(s, usable) /\ UNCHANGED reachable
       \/ reachable' = Toggled(s, reachable) /\ UNCHANGED usable
    /\ UNCHANGED <<spec, phase, checker, fresh, alive, faults, accepted, report>>

----------------------------------------------------------------------------
(***************************************************************************)
(* runOnce.                                                                *)
(***************************************************************************)

World == <<usable, reachable, changes>>
Objects == <<spec, phase, fresh, alive, accepted, report>>

List ==
    /\ checker.pc = "list"
    /\ checker' = [StartedChecker EXCEPT !.pc = "next", !.todo = Stored,
                                         !.snap = spec]
    /\ fresh' = Stored
    /\ alive' = Stored
    /\ UNCHANGED <<World, spec, phase, faults, accepted, report>>

\* The last item is done: the loop waits for the next tick.
EndRound ==
    /\ checker.pc = "next"
    /\ checker.todo = {}
    /\ checker' = StartedChecker
    /\ fresh' = {}
    /\ alive' = {}
    /\ UNCHANGED <<World, spec, phase, faults, accepted, report>>

Skip(k) ==
    /\ checker.pc = "next"
    /\ IsFirst(k, checker.todo)
    /\ checker.snap[k] = NoRef
    /\ checker' = [checker EXCEPT !.todo = @ \ {k}]
    /\ UNCHANGED <<World, Objects, faults>>

\* Item k goes on to be written with verdict v, or to be probed.
Take(k, pc, v) ==
    /\ checker.pc = "next"
    /\ IsFirst(k, checker.todo)
    /\ checker.snap[k] # NoRef
    /\ checker' = [checker EXCEPT !.todo = @ \ {k}, !.item = k,
                                  !.pc = pc, !.verdict = v]

\* The secret is read: unusable is a verdict, otherwise the cluster is asked.
ReadSecret(k) ==
    /\ IF checker.snap[k] \in usable THEN Take(k, "probe", "")
                                     ELSE Take(k, "update", "Failed")
    /\ UNCHANGED <<World, Objects, faults>>

\* Mutant: an answer of any kind counts as reachable.
ProbeAlwaysReady ==
    /\ checker.pc = "probe"
    /\ checker' = [checker EXCEPT !.pc = "update", !.verdict = "Ready"]
    /\ UNCHANGED <<World, Objects, faults>>

\* Mutant: the verdict on a reachable cluster is forgotten.
ProbeSilent ==
    /\ checker.pc = "probe"
    /\ checker' = [checker EXCEPT
         !.pc      = "update",
         !.verdict = IF checker.snap[checker.item] \in reachable
                     THEN "" ELSE "Failed"]
    /\ UNCHANGED <<World, Objects, faults>>

Probe ==
    /\ checker.pc = "probe"
    /\ checker' = [checker EXCEPT
         !.pc      = "update",
         !.verdict = IF checker.snap[checker.item] \in reachable
                     THEN "Ready" ELSE "Failed"]
    /\ UNCHANGED <<World, Objects, faults>>

----------------------------------------------------------------------------
(***************************************************************************)
(* setStatusAndEvent.                                                      *)
(***************************************************************************)

\* Mutant: an update goes through whatever its resourceVersion.
IsStored(k) == k \in Stored

\* The optimistic lock.
Unchanged(k) == k \in fresh

\* An update of item k was accepted: the event is next.
Accepts(k) ==
    /\ checker' = [checker EXCEPT !.pc = "event"]
    /\ accepted' = spec[k]

\* The whole object is written as it was listed; its status is dropped.
FullUpdate(k) ==
    /\ checker.pc = "update"
    /\ k = checker.item
    /\ Unchanged(k)
    /\ spec' = [spec EXCEPT ![k] = checker.snap[k]]
    /\ Accepts(k)
    /\ UNCHANGED <<World, phase, fresh, alive, faults, report>>

\* A conflict.
RefusedUpdate(k) ==
    /\ checker.pc = "update"
    /\ k = checker.item
    /\ ~Unchanged(k)
    /\ checker' = [checker EXCEPT !.pc = "status"]
    /\ UNCHANGED <<World, Objects, faults>>

StatusUpdate(k) ==
    /\ checker.pc = "status"
    /\ k = checker.item
    /\ Unchanged(k)
    /\ phase' = [phase EXCEPT ![k] = checker.verdict]
    /\ fresh' = fresh \ {k}
    /\ Accepts(k)
    /\ UNCHANGED <<World, spec, alive, faults, report>>

\* The next item.
Proceed ==
    /\ checker' = [checker EXCEPT !.pc = "next", !.item = NoConfig,
                                  !.verdict = ""]
    /\ accepted' = None

\* No event: the item waits for the next round.
RefusedStatusUpdate(k) ==
    /\ checker.pc = "status"
    /\ k = checker.item
    /\ ~Unchanged(k)
    /\ Proceed
    /\ UNCHANGED <<World, spec, phase, fresh, alive, faults, report>>

\* The event is about the object that was listed, whatever became of it.  One
\* that was deleted meanwhile leaves an event about no stored object.
EmitEvent(k) ==
    /\ checker.pc = "event"
    /\ k = checker.item
    /\ report' = IF k \in alive
                 THEN [report EXCEPT ![k] = [verdict |-> checker.verdict,
                                             on      |-> checker.snap[k],
                                             was     |-> accepted]]
                 ELSE report
    /\ Proceed
    /\ UNCHANGED <<World, spec, phase, fresh, alive, faults>>

----------------------------------------------------------------------------
(***************************************************************************)
(* Failures.                                                               *)
(***************************************************************************)

Fault == faults < MaxFaults /\ faults' = faults + 1

\* A secret that cannot be read and a cluster that does not answer are
\* verdicts; a failed Update is followed by Status().Update.
FailedCall ==
    /\ Fault
    /\ \/ \E k \in Configs : Take(k, "update", "Failed")
       \/ /\ checker.pc = "probe"
          /\ checker' = [checker EXCEPT !.pc = "update", !.verdict = "Failed"]
       \/ /\ checker.pc = "update"
          /\ checker' = [checker EXCEPT !.pc = "status"]
    /\ UNCHANGED <<World, Objects>>

\* A failed Status().Update gives the item up; an event that cannot be created
\* is only logged.
LostCall ==
    /\ Fault
    /\ checker.pc \in {"status", "event"}
    /\ Proceed
    /\ UNCHANGED <<World, spec, phase, fresh, alive, report>>

\* The program restarts: the loop begins with a new list.
Restart ==
    /\ Fault
    /\ checker.pc # "list"
    /\ checker' = StartedChecker
    /\ fresh' = {}
    /\ alive' = {}
    /\ accepted' = None
    /\ UNCHANGED <<World, spec, phase, report>>

----------------------------------------------------------------------------

Check ==
    \/ List
    \/ EndRound
    \/ Probe
    \/ \E k \in Configs :
        \/ Skip(k)
        \/ ReadSecret(k)
        \/ FullUpdate(k)
        \/ RefusedUpdate(k)
        \/ StatusUpdate(k)
        \/ RefusedStatusUpdate(k)
        \/ EmitEvent(k)

Next ==
    \/ Check
    \/ FailedCall
    \/ LostCall
    \/ Restart
    \/ \E k \in Configs :
        \/ DeleteConfig(k)
        \/ \E s \in Specs : Create(k, s) \/ EditConfig(k, s)
    \/ \E s \in Secrets : ChangeWorld(s)

\* The ticker fires every ten minutes and each call returns or times out, so
\* the loop never stops for good.
Fairness == WF_vars(Check)

Spec == Init /\ [][Next]_vars /\ Fairness

----------------------------------------------------------------------------
(***************************************************************************)
(* Properties.                                                             *)
(***************************************************************************)

\* Types; an update always has an object and a verdict, and so has its event.
TypeOK ==
    /\ spec \in [Configs -> Specs \cup {None}]
    /\ phase \in [Configs -> Phases]
    /\ usable \subseteq Secrets
    /\ reachable \subseteq Secrets
    /\ checker \in CheckerStates
    /\ checker.pc \in {"probe", "update", "status", "event"} => checker.item \in Configs
    /\ checker.pc \in {"update", "status", "event"} => checker.verdict \in Verdicts
    /\ fresh \subseteq Configs
    /\ alive \subseteq Configs
    /\ changes \in 0..MaxChanges
    /\ faults \in 0..MaxFaults
    /\ accepted \in Specs \cup {None}
    /\ report \in [Configs -> Reports]

\* The verdict in an event is on the secret that the object referred to when the
\* update before the event was accepted: an object edited between the list and
\* the update gets no event on its former secret.  One edited between the update
\* and the event does, since the event is a call of its own (setStatusAndEvent,
\* K8sEventRecorder.Event), and keeps it until a later round.
EventsTellOfAccepted == \A k \in Configs : report[k].on = report[k].was

\* The checker never takes back an administrator's edit, though it writes whole
\* objects as it listed them (the full Update of setStatusAndEvent).
CheckerKeepsSpecs == [][checker' # checker => spec' = spec]_vars

Verdict(k) ==
    IF spec[k] \in usable /\ spec[k] \in reachable THEN "Ready" ELSE "Failed"

\* When nothing changes any more, the last event of every ClusterConfig with a
\* reference becomes the right one and stays so, in spite of conflicts, lost
\* events and restarts (Start, runOnce).
EventuallyReported ==
    <>[](\A k \in Configs : spec[k] \in Secrets =>
            report[k].on = spec[k] /\ report[k].verdict = Verdict(k))

\* cluster_config_checker.go:159: "persist status: try full Update first, ...
\* fallback to status update": once an update was accepted the phase of the
\* object, if it is still there, is the verdict.
PhaseIsStored ==
    checker.pc = "event" /\ checker.item \in alive =>
        phase[checker.item] = checker.verdict
============================================================================
