--------------------- MODULE ClusterConfigChecker_proofs ---------------------
(***************************************************************************)
(* The checker for any number of ClusterConfigs, secrets, changes and      *)
(* faults: it writes whole objects as it listed them and still never takes *)
(* back an edit, and its events tell of the object as it was stored when   *)
(* their update was accepted.                                              *)
(*                                                                         *)
(* The argument is the optimistic lock: an item whose resourceVersion is   *)
(* still the stored one was listed as it is stored (FreshIsStored).  Every *)
(* change of an object takes it out of fresh, and only fresh items are     *)
(* accepted.  Whatever is edited after that, the event still tells of the  *)
(* accepted object (AcceptedWasListed).                                    *)
(***************************************************************************)
EXTENDS ClusterConfigChecker, TLAPS

FreshIsStored == \A k \in fresh : checker.snap[k] = spec[k]

AcceptedWasListed ==
    checker.pc = "event" => accepted = checker.snap[checker.item]

Inv == TypeOK /\ FreshIsStored /\ AcceptedWasListed /\ EventsTellOfAccepted

\* The program starts in a state of the right types.
LEMMA InitTyped == Init => TypeOK
<1> SUFFICES ASSUME Init PROVE TypeOK
  OBVIOUS
<1>0. \A m \in Nat : 0 \in 0..m
  OBVIOUS
<1>1. changes \in 0..MaxChanges /\ faults \in 0..MaxFaults
  BY <1>0, CheckerAssumption, Zenon DEF Init
<1> USE DEF Init
<1>2. report \in [Configs -> Reports]
  BY DEF NoReport, Reports, Phases
<1>3. checker \in CheckerStates /\ checker.pc = "list"
  BY DEF CheckerStates, StartedChecker, Phases, NoConfig
<1>4. spec \in [Configs -> Specs \cup {None}] /\ phase \in [Configs -> Phases]
  BY DEF Phases
<1> QED
  BY <1>1, <1>2, <1>3, <1>4 DEF TypeOK

\* An item that is taken up to be probed or to be written is an object.
LEMMA TakeTyped ==
  ASSUME TypeOK, NEW k \in Configs, NEW p \in {"probe", "update"}, NEW v \in Phases,
         Take(k, p, v)
  PROVE  /\ checker' \in CheckerStates
         /\ checker'.item = k /\ checker'.pc = p /\ checker'.verdict = v
         /\ checker'.snap = checker.snap
  BY DEF TypeOK, CheckerStates, Take

\* In particular when its secret is read.
LEMMA ReadTyped ==
  ASSUME TypeOK, NEW k \in Configs, ReadSecret(k)
  PROVE  /\ checker' \in CheckerStates
         /\ checker'.item \in Configs
         /\ checker'.pc = "probe" \/ (checker'.pc = "update" /\ checker'.verdict = "Failed")
<1>1. "" \in Phases /\ "Failed" \in Phases
  BY DEF Phases, Verdicts
<1>2. CASE Take(k, "probe", "")
  BY <1>1, <1>2, TakeTyped
<1>3. CASE Take(k, "update", "Failed")
  BY <1>1, <1>3, TakeTyped
<1> QED
  BY <1>2, <1>3 DEF ReadSecret

\* The steps of the loop (runOnce, setStatusAndEvent) keep the types.
LEMMA CheckTyped == TypeOK /\ Check => TypeOK'
<1> SUFFICES ASSUME TypeOK, Check PROVE TypeOK'
  OBVIOUS
<1> USE CheckerAssumption
    DEF TypeOK, CheckerStates, Phases, Verdicts, Specs, NoConfig, World, Objects
<1>1. CASE List
  BY <1>1 DEF List, StartedChecker, Stored
<1>2. CASE EndRound
  BY <1>2 DEF EndRound, StartedChecker
<1>3. CASE Probe
  BY <1>3 DEF Probe
<1>4. ASSUME NEW k \in Configs, Skip(k)
      PROVE  TypeOK'
  BY <1>4 DEF Skip
<1>5. ASSUME NEW k \in Configs, ReadSecret(k)
      PROVE  TypeOK'
  BY <1>5, ReadTyped DEF ReadSecret
<1>6. ASSUME NEW k \in Configs, FullUpdate(k)
      PROVE  TypeOK'
  BY <1>6 DEF FullUpdate, Accepts
<1>7. ASSUME NEW k \in Configs, RefusedUpdate(k)
      PROVE  TypeOK'
  BY <1>7 DEF RefusedUpdate
<1>8. ASSUME NEW k \in Configs, StatusUpdate(k)
      PROVE  TypeOK'
  BY <1>8 DEF StatusUpdate, Accepts
<1>9. ASSUME NEW k \in Configs, RefusedStatusUpdate(k)
      PROVE  TypeOK'
  BY <1>9 DEF RefusedStatusUpdate, Proceed
<1>10. ASSUME NEW k \in Configs, EmitEvent(k)
       PROVE  TypeOK'
  <2>1. report' \in [Configs -> Reports]
    BY <1>10 DEF EmitEvent, Reports
  <2> QED
    BY <1>10, <2>1 DEF EmitEvent, Proceed
<1> QED
  BY <1>1, <1>2, <1>3, <1>4, <1>5, <1>6, <1>7, <1>8, <1>9, <1>10 DEF Check

\* So do faults, restarts and the administrators.
LEMMA StepTyped == TypeOK /\ [Next]_vars => TypeOK'
<1> SUFFICES ASSUME TypeOK, [Next]_vars PROVE TypeOK'
  OBVIOUS
<1>1. CASE Check
  BY <1>1, CheckTyped
<1>a. \A m \in Nat : \A i \in 0..m : i < m => i + 1 \in 0..m
  OBVIOUS
<1>b. Fault => faults' \in 0..MaxFaults
  BY <1>a, CheckerAssumption DEF TypeOK, Fault
<1>c. Change => changes' \in 0..MaxChanges
  BY <1>a, CheckerAssumption DEF TypeOK, Change
<1> USE DEF TypeOK, World, Objects
<1>2. CASE FailedCall
  <2>1. /\ checker' \in CheckerStates
        /\ checker'.pc \in {"update", "status"}
        /\ checker'.item \in Configs
        /\ checker'.verdict \in Verdicts
    <3>1. CASE \E k \in Configs : Take(k, "update", "Failed")
      BY <3>1, TakeTyped DEF Phases, Verdicts
    <3>2. CASE checker.pc \in {"probe", "update"}
               /\ ~\E k \in Configs : Take(k, "update", "Failed")
      BY <1>2, <3>2 DEF FailedCall, CheckerStates, Phases, Verdicts
    <3> QED
      BY <1>2, <3>1, <3>2 DEF FailedCall
  <2> QED
    BY <1>2, <1>b, <2>1 DEF FailedCall
<1>3. CASE LostCall
  <2>1. checker' \in CheckerStates /\ checker'.pc = "next"
    BY <1>3 DEF LostCall, Proceed, CheckerStates, Phases, NoConfig
  <2> QED
    BY <1>3, <1>b, <2>1 DEF LostCall, Proceed
<1>4. CASE Restart
  <2>1. checker' \in CheckerStates /\ checker'.pc = "list"
    BY <1>4 DEF Restart, StartedChecker, CheckerStates, Phases, NoConfig
  <2> QED
    BY <1>4, <1>b, <2>1 DEF Restart
<1>5. ASSUME NEW k \in Configs, NEW s \in Specs \cup {None}, Writes(k, s),
             phase' \in [Configs -> Phases], alive' \subseteq Configs,
             report' \in [Configs -> Reports]
      PROVE  TypeOK'
  BY <1>5, <1>c DEF Writes
<1>6. ASSUME NEW k \in Configs, DeleteConfig(k)
      PROVE  TypeOK'
  <2>1. report' \in [Configs -> Reports] /\ phase' \in [Configs -> Phases]
    BY <1>6 DEF DeleteConfig, NoReport, Reports, Phases
  <2> QED
    BY <1>5, <1>6, <2>1 DEF DeleteConfig
<1>7. ASSUME NEW k \in Configs, NEW s \in Specs, Create(k, s) \/ EditConfig(k, s)
      PROVE  TypeOK'
  BY <1>5, <1>7 DEF Create, EditConfig
<1>8. ASSUME NEW s \in Secrets, ChangeWorld(s)
      PROVE  TypeOK'
  <2>1. usable' \subseteq Secrets /\ reachable' \subseteq Secrets
    BY <1>8 DEF ChangeWorld, Toggled
  <2> QED
    BY <1>8, <1>c, <2>1 DEF ChangeWorld
<1>9. CASE UNCHANGED vars
  BY <1>9 DEF vars
<1> QED
  BY <1>1, <1>2, <1>3, <1>4, <1>6, <1>7, <1>8, <1>9 DEF Next

\* A step that leaves the objects and the events alone.
Quiet == spec' = spec /\ report' = report

\* What a step does to the objects, the list and the events: the list is given
\* up; there is a new list; the item or the world changes and the list does not;
\* a fresh item is accepted, its specification being written back; the event of
\* the accepted item is created; or somebody else changes one object.
LEMMA Steps ==
  ASSUME TypeOK, [Next]_vars
  PROVE  \/ Quiet /\ fresh' = {} /\ checker'.pc # "event"
         \/ Quiet /\ checker'.snap = spec /\ checker'.pc # "event"
         \/ Quiet /\ fresh' = fresh /\ checker'.snap = checker.snap
            /\ (checker'.pc # "event" \/ (checker' = checker /\ accepted' = accepted))
         \/ \E k \in fresh :
              /\ spec' = spec \/ spec' = [spec EXCEPT ![k] = checker.snap[k]]
              /\ report' = report
              /\ fresh' \subseteq fresh
              /\ checker'.snap = checker.snap /\ checker'.item = k
              /\ accepted' = spec[k]
         \/ \E k \in Configs :
              /\ spec' = spec
              /\ checker.pc = "event" /\ checker.item = k
              /\ \A j \in Configs \ {k} : report'[j] = report[j]
              /\ \/ report'[k] = report[k]
                 \/ report'[k].on = checker.snap[k] /\ report'[k].was = accepted
              /\ fresh' = fresh
              /\ checker'.snap = checker.snap /\ checker'.pc # "event"
         \/ \E k \in Configs :
              /\ \A j \in Configs \ {k} : spec'[j] = spec[j]
              /\ report' = report \/ report' = [report EXCEPT ![k] = NoReport]
              /\ fresh' = fresh \ {k}
              /\ checker' = checker /\ accepted' = accepted
<1> USE DEF TypeOK, CheckerStates, World, Objects, Quiet
<1>1. CASE List
  BY <1>1 DEF List, StartedChecker
<1>2. CASE EndRound \/ Restart
  <2>1. checker'.pc = "list"
    <3> HIDE DEF CheckerStates
    <3>1. StartedChecker.pc = "list"
      BY DEF StartedChecker
    <3>2. checker' = StartedChecker
      BY <1>2 DEF EndRound, Restart
    <3> QED
      BY <3>1, <3>2
  <2> QED
    BY <1>2, <2>1 DEF EndRound, Restart
<1>3. ASSUME Probe \/ FailedCall \/ LostCall
      PROVE  Quiet /\ fresh' = fresh /\ checker'.snap = checker.snap
             /\ checker'.pc # "event"
  <2>1. ASSUME NEW k \in Configs, Take(k, "update", "Failed")
        PROVE  checker'.snap = checker.snap /\ checker'.pc # "event"
    BY <2>1, TakeTyped DEF Phases, Verdicts
  <2> QED
    BY <1>3, <2>1 DEF Probe, FailedCall, LostCall, Proceed
<1>4. ASSUME NEW k \in Configs, Skip(k) \/ ReadSecret(k)
      PROVE  Quiet /\ fresh' = fresh /\ checker'.snap = checker.snap
             /\ checker'.pc # "event"
  <2>1. ASSUME Take(k, "probe", "") \/ Take(k, "update", "Failed")
        PROVE  checker'.snap = checker.snap /\ checker'.pc # "event"
    BY <2>1, TakeTyped DEF Phases, Verdicts
  <2> QED
    BY <1>4, <2>1 DEF Skip, ReadSecret
<1>5. ASSUME NEW k \in Configs, RefusedUpdate(k) \/ RefusedStatusUpdate(k)
      PROVE  Quiet /\ fresh' = fresh /\ checker'.snap = checker.snap
             /\ checker'.pc # "event"
  BY <1>5 DEF RefusedUpdate, RefusedStatusUpdate, Proceed
<1>6. ASSUME NEW k \in Configs, FullUpdate(k)
      PROVE  /\ k \in fresh
             /\ spec' = [spec EXCEPT ![k] = checker.snap[k]]
             /\ report' = report
             /\ fresh' \subseteq fresh
             /\ checker'.snap = checker.snap /\ checker'.item = k
             /\ accepted' = spec[k]
  BY <1>6 DEF FullUpdate, Unchanged, Accepts
<1>7. ASSUME NEW k \in Configs, StatusUpdate(k)
      PROVE  /\ k \in fresh
             /\ spec' = spec
             /\ report' = report
             /\ fresh' \subseteq fresh
             /\ checker'.snap = checker.snap /\ checker'.item = k
             /\ accepted' = spec[k]
  BY <1>7 DEF StatusUpdate, Unchanged, Accepts
<1>8. ASSUME NEW k \in Configs, EmitEvent(k)
      PROVE  /\ spec' = spec
             /\ checker.pc = "event" /\ checker.item = k
             /\ \A j \in Configs \ {k} : report'[j] = report[j]
             /\ \/ report'[k] = report[k]
                \/ report'[k].on = checker.snap[k] /\ report'[k].was = accepted
             /\ fresh' = fresh
             /\ checker'.snap = checker.snap /\ checker'.pc # "event"
  <2>1. checker'.snap = checker.snap /\ checker'.pc # "event"
    BY <1>8 DEF EmitEvent, Proceed
  <2> QED
    BY <1>8, <2>1 DEF EmitEvent
<1>9. ASSUME NEW k \in Configs, NEW s, Writes(k, s)
      PROVE  /\ \A j \in Configs \ {k} : spec'[j] = spec[j]
             /\ fresh' = fresh \ {k}
             /\ checker' = checker /\ accepted' = accepted
  BY <1>9 DEF Writes
<1>10. ASSUME NEW k \in Configs, DeleteConfig(k)
       PROVE  Writes(k, None) /\ report' = [report EXCEPT ![k] = NoReport]
  BY <1>10 DEF DeleteConfig
<1>11. ASSUME NEW k \in Configs, NEW s \in Specs, Create(k, s) \/ EditConfig(k, s)
       PROVE  Writes(k, s) /\ report' = report
  BY <1>11 DEF Create, EditConfig
<1>12. ASSUME (\E s \in Secrets : ChangeWorld(s)) \/ UNCHANGED vars
       PROVE  Quiet /\ fresh' = fresh /\ checker' = checker /\ accepted' = accepted
  BY <1>12 DEF ChangeWorld, vars
<1> HIDE DEF TypeOK, CheckerStates, World, Objects
<1> QED
  BY <1>1, <1>2, <1>3, <1>4, <1>5, <1>6, <1>7, <1>8, <1>9, <1>10, <1>11, <1>12
  DEF Next, Check

\* No event tells of nothing.
LEMMA NothingReported == NoReport.on = NoReport.was
  BY DEF NoReport

\* The inductive step.
LEMMA StepKeepsInv == Inv /\ [Next]_vars => Inv'
<1> SUFFICES ASSUME Inv, [Next]_vars PROVE Inv'
  OBVIOUS
<1>0. TypeOK /\ TypeOK'
  BY StepTyped DEF Inv
<1> DEFINE Goal == FreshIsStored' /\ AcceptedWasListed' /\ EventsTellOfAccepted'
<1> SUFFICES Goal
  BY <1>0 DEF Inv
<1> USE DEF Inv, FreshIsStored, AcceptedWasListed, EventsTellOfAccepted, Quiet
<1>1. CASE Quiet /\ fresh' = {} /\ checker'.pc # "event"
  BY <1>1
<1>2. CASE Quiet /\ checker'.snap = spec /\ checker'.pc # "event"
  BY <1>2
<1>3. CASE Quiet /\ fresh' = fresh /\ checker'.snap = checker.snap
           /\ (checker'.pc # "event" \/ (checker' = checker /\ accepted' = accepted))
  BY <1>3
<1>4. ASSUME NEW k \in fresh,
             spec' = spec \/ spec' = [spec EXCEPT ![k] = checker.snap[k]],
             report' = report, fresh' \subseteq fresh,
             checker'.snap = checker.snap, checker'.item = k, accepted' = spec[k]
      PROVE  Goal
  <2>1. spec' = spec
    BY <1>0, <1>4 DEF TypeOK
  <2> QED
    BY <1>4, <2>1
<1>5. ASSUME NEW k \in Configs, spec' = spec, checker.pc = "event", checker.item = k,
             \A j \in Configs \ {k} : report'[j] = report[j],
             \/ report'[k] = report[k]
             \/ report'[k].on = checker.snap[k] /\ report'[k].was = accepted,
             fresh' = fresh, checker'.snap = checker.snap, checker'.pc # "event"
      PROVE  Goal
  BY <1>5
<1>6. ASSUME NEW k \in Configs,
             \A j \in Configs \ {k} : spec'[j] = spec[j],
             report' = report \/ report' = [report EXCEPT ![k] = NoReport],
             fresh' = fresh \ {k}, checker' = checker, accepted' = accepted
      PROVE  Goal
  <2>1. \A j \in Configs : report'[j] = report[j] \/ report'[j] = NoReport
    BY <1>0, <1>6 DEF TypeOK
  <2>2. EventsTellOfAccepted'
    BY <2>1, NothingReported
  <2>3. fresh \subseteq Configs
    BY <1>0 DEF TypeOK
  <2> QED
    BY <1>6, <2>2, <2>3
<1> QED
  BY <1>0, <1>1, <1>2, <1>3, <1>4, <1>5, <1>6, Steps

\* Every state has the types, and in every state a fresh item is as stored, an
\* accepted one was as listed, and an event tells of the accepted object.
LEMMA Invariance == Spec => []Inv
<1>0. StartedChecker.pc = "list"
  BY DEF StartedChecker
<1>1. Init => FreshIsStored /\ AcceptedWasListed
  BY <1>0 DEF Init, FreshIsStored, AcceptedWasListed
<1>2. Init => EventsTellOfAccepted
  BY NothingReported DEF Init, EventsTellOfAccepted
<1>3. Init => Inv
  BY <1>1, <1>2, InitTyped DEF Inv
<1> QED
  BY <1>3, StepKeepsInv, PTL DEF Spec

\* The state of the checker and of the objects always has its type: every
\* update and event has an object and a verdict (runOnce, setStatusAndEvent).
THEOREM CheckerTyped == Spec => []TypeOK
<1>1. Inv => TypeOK
  BY DEF Inv
<1> QED
  BY <1>1, Invariance, PTL

\* An event tells of the object as it was stored when the update before it was
\* accepted, however edits, deletions and re-creations fall between the list,
\* the updates and the event (setStatusAndEvent, K8sEventRecorder.Event).
THEOREM EventsAreOnAccepted == Spec => []EventsTellOfAccepted
<1>1. Inv => EventsTellOfAccepted
  BY DEF Inv
<1> QED
  BY <1>1, Invariance, PTL

\* The full Update of setStatusAndEvent never takes back an edit.
THEOREM EditsAreKept == Spec => CheckerKeepsSpecs
<1>1. Inv /\ [Next]_vars => [checker' # checker => spec' = spec]_vars
  <2> SUFFICES ASSUME Inv, [Next]_vars, checker' # checker
               PROVE  spec' = spec
    OBVIOUS
  <2>1. ASSUME NEW k \in fresh, spec' = [spec EXCEPT ![k] = checker.snap[k]]
        PROVE  spec' = spec
    BY <2>1 DEF Inv, TypeOK, FreshIsStored
  <2> QED
    BY <2>1, Steps DEF Inv, Quiet
<1> QED
  BY <1>1, Invariance, PTL DEF Spec, CheckerKeepsSpecs
==============================================================================
