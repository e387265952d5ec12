-------------------------- MODULE Requests_proofs --------------------------
(***************************************************************************)
(* Proofs about Requests, for any escalations, ClusterConfigs and edits of *)
(* them, and any number of sessions and concurrent handlers: access rests  *)
(* on an eligible request and a warranted approval.                        *)
(*                                                                         *)
(* The steps of Requests are steps of SessionLifecycle, so its invariants  *)
(* carry over.  RequestInv follows an eligible selection to the session    *)
(* that is created from it, and a warrant from the list of escalations     *)
(* through the check of one of them to the approval.  OwnInv is about      *)
(* requests that do not race.                                              *)
(***************************************************************************)
EXTENDS Requests, SessionContract_proofs

USE DEF Unset

\* A request that will create a session selected an escalation for its triple.
SelectionInv ==
    /\ selection = [h \in Requesters |-> selection[h]]
    /\ \A h \in Requesters :
        /\ selection[h] # None =>
             selection[h].key \in Keys /\ Eligible(selection[h], selection[h].key)
        /\ handler[h].pc \in {"checked", "created"} =>
             selection[h] # None /\ handler[h].key = selection[h].key

\* Sessions were created from such a selection.
OriginInv ==
    /\ origin = [n \in Names |-> origin[n]]
    /\ \A n \in created \ LegacyNames : Eligible(origin[n], KeyOf[n])

Authority(pc, todo, snap, warrant) ==
    [pc |-> pc, todo |-> todo, snap |-> snap, warrant |-> warrant]

\* The escalations still to be checked are for the group of the session, and a
\* decision that goes on to approve has a warrant for that session.
AuthorityInv ==
    /\ specs \in [Escalations -> EscalationSpecs]
    /\ authority = [h \in Deciders |-> authority[h]]
    /\ \A h \in Deciders :
        /\ authority[h] = Authority(authority[h].pc, authority[h].todo,
                                    authority[h].snap, authority[h].warrant)
        /\ authority[h].pc = "checking" =>
             \A e \in authority[h].todo :
               /\ authority[h].snap[e] \in EscalationSpecs
               /\ authority[h].snap[e].escalated = GroupOf[handler[h].key]
        /\ authority[h].pc = "granted" /\ handler[h].op = "approve" =>
             Warrants(authority[h].warrant, handler[h].by, handler[h].key)
        /\ handler[h].pc = "holding" => handler[h].key = KeyOf[handler[h].name]

\* Every approval has its warrant.
WarrantInv ==
    \A a \in approvals : \E w \in warrants :
        w.name = a.name /\ w.by = a.by /\ Warrants(w.warrant, w.by, KeyOf[w.name])

RequestInv == SelectionInv /\ OriginInv /\ AuthorityInv /\ WarrantInv

-----------------------------------------------------------------------------
(***************************************************************************)
(* What a step of SessionLifecycle does to the handlers.                   *)
(***************************************************************************)

\* What RequestInv sees of handler h is the same after the step.
Same(h) ==
    /\ handler'[h].pc = handler[h].pc /\ handler'[h].key = handler[h].key
    /\ handler'[h].op = handler[h].op /\ handler'[h].by = handler[h].by
    /\ handler'[h].name = handler[h].name

\* Invalidating copies is not seen.
LEMMA InvalidatedSame ==
    ASSUME Typed, NEW n, NEW h \in Handlers
    PROVE  /\ Invalidated(n)[h].pc = handler[h].pc
           /\ Invalidated(n)[h].key = handler[h].key
           /\ Invalidated(n)[h].op = handler[h].op
           /\ Invalidated(n)[h].by = handler[h].by
           /\ Invalidated(n)[h].name = handler[h].name
  BY DEF Typed, TypeOK, Invalidated, HandlerStates

\* A handler's write is seen at that handler only, which is then idle.
LEMMA UpdateSame ==
    ASSUME Typed, NEW h \in Handlers, NEW s, Update(h, s)
    PROVE  /\ handler'[h].pc = "idle" /\ handler'[h].op = "request"
           /\ \A g \in Handlers : g # h => Same(g)
<1>1. handler'[h] = IdleHandler
  BY DEF Update, Invalidated
<1>2. \A g \in Handlers : g # h => handler'[g] = Invalidated(handler[h].name)[g]
  BY DEF Update
<1>3. \A g \in Handlers : g # h => Same(g)
  BY <1>2, InvalidatedSame DEF Same
<1> QED
  BY <1>1, <1>3 DEF IdleHandler

\* So is a read, after which the handler holds the session.
LEMMA HoldSame ==
    ASSUME Typed, NEW h \in Handlers, NEW op, NEW c, NEW n, Hold(h, op, c, n)
    PROVE  /\ handler'[h].pc = "holding" /\ handler'[h].op = op
           /\ handler'[h].key = KeyOf[n] /\ handler'[h].name = n
           /\ \A g \in Handlers : g # h => Same(g)
  BY DEF Hold, Same, Typed, TypeOK

\* The cleanup routine and the clock are not seen, and neither approve nor create.
LEMMA BackgroundSame ==
    ASSUME Typed, Background
    PROVE  /\ \A h \in Handlers : Same(h)
           /\ UNCHANGED <<created, approvals, objects, checks>>
<1>1. UNCHANGED <<created, approvals, objects, checks>>
  BY DEF Background, CleanerStep, CleanerListFault, CleanerItemFault, Tick, ListPending,
         ListApproved, ListCleanup, ExpirePending, SkipPending, ExpireApproved,
         SkipApproved, ExpireUpdate, ExpireConflict, Delete, HistoryUnchanged
<1>2. handler' = handler \/ \E n \in Names : handler' = Invalidated(n)
  BY DEF Background, CleanerStep, CleanerListFault, CleanerItemFault, Tick, ListPending,
         ListApproved, ListCleanup, ExpirePending, SkipPending, ExpireApproved,
         SkipApproved, ExpireUpdate, ExpireConflict, Delete, CleanerWrites
<1> QED
  BY <1>1, <1>2, InvalidatedSame DEF Same

-----------------------------------------------------------------------------
(***************************************************************************)
(* Requests implements SessionLifecycle.                                   *)
(***************************************************************************)

\* Every step of Requests is one of SessionLifecycle or a stutter.
LEMMA StepsOfLifecycle == SelectionInv /\ [RNext]_rvars => [Next]_vars
<1> SUFFICES ASSUME SelectionInv, [RNext]_rvars PROVE [Next]_vars
  OBVIOUS
<1>1. ASSUME NEW h \in Requesters,
             \/ SelectedCheck(h) \/ SelectedWrite(h)
             \/ \E n \in Names : SelectedCreate(h, n) \/ SelectedRead(h, n)
      PROVE  Next
  BY <1>1 DEF SelectionInv, SelectedCheck, SelectedWrite, SelectedCreate, SelectedRead,
              RequesterStep, Next
<1>2. ASSUME NEW h \in Deciders,
             \/ \E c \in Callers, n \in Names : SelectedRule(h, c, n)
             \/ GrantedApprove(h) \/ GrantedEnd(h)
      PROVE  Next
  BY <1>2 DEF SelectedRule, ReadFor, GrantedApprove, GrantedEnd, DeciderStep, Next
<1>3. ASSUME NEW h \in Handlers, StopForCause(h) \/ StopForFailure(h) PROVE Next
  BY <1>3 DEF StopForCause, StopForFailure, Stop, RequesterStep, DeciderStep, Next, Handlers
<1>4. CASE RestartAll \/ Background
  BY <1>4 DEF RestartAll, Background, Next
<1>5. ASSUME NEW h \in Requesters,
             Refuse(h) \/ \E c \in Callers, k \in Keys, e \in Escalations : Select(h, c, k, e)
      PROVE  UNCHANGED vars
  BY <1>5 DEF Refuse, Select
<1>6. ASSUME NEW h \in Deciders,
             ListEscalations(h) \/ \E e \in Escalations : Evaluate(h, e) \/ EvaluateUnread(h, e)
      PROVE  UNCHANGED vars
  BY <1>6 DEF ListEscalations, Evaluate, EvaluateUnread
<1>7. ASSUME \/ UNCHANGED rvars
             \/ \E e \in Escalations, spec \in EscalationSpecs : EditEscalation(e, spec)
             \/ \E slot \in ConfigSlots, config \in ConfigSpecs \cup {NoObject} :
                  EditClusterConfig(slot, config)
      PROVE  UNCHANGED vars
  BY <1>7 DEF rvars, EditEscalation, EditClusterConfig
<1> QED
  BY <1>1, <1>2, <1>3, <1>4, <1>5, <1>6, <1>7 DEF RNext
-----------------------------------------------------------------------------
(***************************************************************************)
(* Requests.                                                               *)
(***************************************************************************)

\* What a request selects is eligible: the lookup compares stripped groups, the
\* escalation names them with or without prefix.
LEMMA PossibleIsEligible ==
    ASSUME NEW c, NEW k, NEW e \in Possible(c, k), NEW D, specs[e].deny \subseteq D
    PROVE  Eligible([key |-> k, caller |-> c, spec |-> specs[e], deny |-> D], k)
<1>1. /\ specs[e].escalated = GroupOf[k]
      /\ MatchesCluster(specs[e], ClusterOf[k])
      /\ MatchesGroups(specs[e], UserGroups(c, OwnerOf[k], ClusterOf[k]))
  BY DEF Possible, GetClusterGroupBreakglassEscalations
<1>2. \E a \in specs[e].allowed :
         \/ a \in UserGroups(c, OwnerOf[k], ClusterOf[k])
         \/ Tail(a) \in UserGroups(c, OwnerOf[k], ClusterOf[k])
  BY <1>1 DEF MatchesGroups, Stripped
<1> QED
  BY <1>1, <1>2 DEF Eligible, MatchesCluster

\* Steps that leave the selections alone and lead no request on.
LEMMA SelectionKept ==
    ASSUME SelectionInv, selection' = selection,
           \A h \in Requesters : Same(h) \/ handler'[h].pc \notin {"checked", "created"}
    PROVE  SelectionInv'
  BY DEF SelectionInv, Same

\* Steps after which a request has nothing selected and does not go on.
LEMMA SelectionDropped ==
    ASSUME SelectionInv,
           selection' = [g \in Requesters |-> selection'[g]],
           \A h \in Requesters :
             \/ selection'[h] = selection[h] /\ Same(h)
             \/ selection'[h] = None /\ handler'[h].pc \notin {"checked", "created"}
    PROVE  SelectionInv'
  BY DEF SelectionInv, Same

\* Every step keeps the selections eligible.
LEMMA SelectionNext ==
    ASSUME Typed, SelectionInv, [RNext]_rvars
    PROVE  SelectionInv'
<1>d. \A h \in Deciders : h \in Handlers /\ h \notin Requesters
  BY LifecycleAssumption DEF Handlers
<1>r. \A h \in Requesters : h \in Handlers
  BY DEF Handlers
<1>h. handler \in [Handlers -> HandlerStates]
  BY DEF Typed, TypeOK
<1>0. ASSUME UNCHANGED <<handler, selection>> PROVE SelectionInv'
  BY <1>0 DEF SelectionInv
<1>1. ASSUME NEW h \in Requesters, NEW c \in Callers, NEW k \in Keys,
             NEW e \in Escalations, Select(h, c, k, e)
      PROVE  SelectionInv'
  <2> DEFINE D == UNION {specs[d].deny : d \in Possible(c, k)}
             sel == [key |-> k, caller |-> c, spec |-> specs[e], deny |-> D]
  <2>1. e \in Possible(c, k) /\ specs[e].deny \subseteq D
    BY <1>1 DEF Select, IsFirst
  <2>2. Eligible(sel, k)
    BY <2>1, PossibleIsEligible
  <2>3. sel.key = k
    OBVIOUS
  <2>4. selection' = [selection EXCEPT ![h] = sel] /\ handler' = handler
        /\ handler[h].pc = "idle"
    BY <1>1 DEF Select, vars
  <2> HIDE DEF sel
  <2> QED
    BY <2>2, <2>3, <2>4 DEF SelectionInv
<1>2. ASSUME NEW h \in Requesters, Refuse(h) PROVE SelectionInv'
  BY <1>2 DEF Refuse, SelectionInv, vars
<1>3. ASSUME NEW h \in Requesters, SelectedCheck(h) PROVE SelectionInv'
  <2>1. /\ selection' = selection /\ selection[h] # None
        /\ handler'[h].key = selection[h].key
        /\ \A g \in Requesters : g # h => Same(g)
    BY <1>3, <1>h, <1>r DEF SelectedCheck, RequestCheck, checks, IdleHandler, Same
  <2> QED
    BY <2>1 DEF SelectionInv, Same
<1>4. ASSUME NEW h \in Requesters, NEW n \in Names, SelectedCreate(h, n) PROVE SelectionInv'
  <2>1. /\ selection' = selection /\ handler[h].pc = "checked"
        /\ handler'[h].key = handler[h].key
        /\ \A g \in Requesters : g # h => Same(g)
    BY <1>4, <1>h, <1>r DEF SelectedCreate, RequestCreate, Same, HandlerStates
  <2> QED
    BY <2>1 DEF SelectionInv, Same
<1>5. ASSUME NEW h \in Requesters, NEW n \in Names, SelectedRead(h, n) PROVE SelectionInv'
  <2>1. selection' = selection /\ Hold(h, "request", None, n)
    BY <1>5 DEF SelectedRead, RequestRead, checks
  <2> QED
    BY <2>1, <1>r, HoldSame, SelectionKept
<1>6. ASSUME NEW h \in Requesters, SelectedWrite(h) PROVE SelectionInv'
  <2>1. selection' = [selection EXCEPT ![h] = None] /\ Update(h, PendingStatus(now))
    BY <1>6 DEF SelectedWrite, RequestWrite
  <2>2. /\ handler'[h].pc = "idle"
        /\ \A g \in Requesters : g # h => Same(g)
    BY <2>1, <1>r, UpdateSame
  <2> QED
    BY <2>1, <2>2 DEF SelectionInv, Same
<1>7. ASSUME NEW h \in Deciders, NEW c \in Callers, NEW n \in Names, SelectedRule(h, c, n)
      PROVE  SelectionInv'
  <2>1. selection' = selection /\ \E op \in Ops : Hold(h, op, c, n)
    BY <1>7 DEF SelectedRule, ReadFor, ReadApprove, ReadReject, ReadWithdraw, ReadDrop,
                ReadCancel, Ops
  <2> QED
    BY <2>1, <1>r, <1>d, HoldSame, SelectionKept
<1>8. ASSUME NEW h \in Deciders, GrantedApprove(h) \/ GrantedEnd(h) PROVE SelectionInv'
  <2>1. selection' = selection /\ \E s : Update(h, s)
    BY <1>8 DEF GrantedApprove, GrantedEnd, Approve, End
  <2> QED
    BY <2>1, <1>r, <1>d, UpdateSame, SelectionKept
<1>9. ASSUME NEW h \in Handlers, StopForCause(h) \/ StopForFailure(h) PROVE SelectionInv'
  <2>1. /\ selection' = [g \in Requesters |-> IF g = h THEN None ELSE selection[g]]
        /\ handler' = [handler EXCEPT ![h] = IdleHandler]
    BY <1>9 DEF StopForCause, StopForFailure, Stop, Fail
  <2> QED
    BY <2>1, <1>r, <1>h, SelectionDropped DEF Same, IdleHandler
<1>10. CASE RestartAll
  BY <1>10, <1>r, SelectionDropped DEF RestartAll, Crash, IdleHandler
<1>11. CASE Background
  BY <1>11, <1>r, BackgroundSame, SelectionKept DEF checks
<1>12. ASSUME NEW h \in Deciders,
              ListEscalations(h) \/ \E e \in Escalations : Evaluate(h, e) \/ EvaluateUnread(h, e)
       PROVE  SelectionInv'
  BY <1>0, <1>12 DEF ListEscalations, Evaluate, EvaluateUnread, vars
<1>13. ASSUME \/ UNCHANGED rvars
              \/ \E e \in Escalations, spec \in EscalationSpecs : EditEscalation(e, spec)
              \/ \E slot \in ConfigSlots, config \in ConfigSpecs \cup {NoObject} :
                   EditClusterConfig(slot, config)
       PROVE  SelectionInv'
  BY <1>0, <1>13 DEF rvars, EditEscalation, EditClusterConfig, vars, checks
<1> QED
  BY <1>1, <1>2, <1>3, <1>4, <1>5, <1>6, <1>7, <1>8, <1>9, <1>10, <1>11, <1>12, <1>13
     DEF RNext

\* Only a creation gives a session its origin.
LEMMA OriginNext ==
    ASSUME Typed, SelectionInv, OriginInv, [RNext]_rvars
    PROVE  OriginInv'
<1>1. CASE UNCHANGED <<created, origin>>
  BY <1>1 DEF OriginInv
<1>2. ASSUME NEW h \in Requesters, NEW n \in Names, SelectedCreate(h, n) PROVE OriginInv'
  <2>1. /\ origin' = [origin EXCEPT ![n] = selection[h]]
        /\ created' = created \cup {n} /\ n \notin created
        /\ handler[h].pc = "checked" /\ KeyOf[n] = handler[h].key
    BY <1>2 DEF SelectedCreate, RequestCreate
  <2>2. Eligible(selection[h], KeyOf[n])
    BY <2>1 DEF SelectionInv
  <2>3. created \subseteq Names
    BY DEF Typed, TypeOK
  <2> QED
    BY <2>1, <2>2, <2>3 DEF OriginInv
<1>3. ASSUME NEW h \in Requesters,
             \/ SelectedCheck(h) \/ SelectedWrite(h) \/ Refuse(h)
             \/ \E n \in Names : SelectedRead(h, n)
             \/ \E c \in Callers, k \in Keys, e \in Escalations : Select(h, c, k, e)
      PROVE  UNCHANGED <<created, origin>>
  BY <1>3 DEF SelectedCheck, SelectedWrite, Refuse, SelectedRead, Select, RequestCheck,
              RequestRead, RequestWrite, Hold, Update, checks, vars
<1>4. ASSUME NEW h \in Deciders,
             \/ \E c \in Callers, n \in Names : SelectedRule(h, c, n)
             \/ GrantedApprove(h) \/ GrantedEnd(h) \/ ListEscalations(h)
             \/ \E e \in Escalations : Evaluate(h, e) \/ EvaluateUnread(h, e)
      PROVE  UNCHANGED <<created, origin>>
  BY <1>4 DEF SelectedRule, ReadFor, ReadApprove, ReadReject, ReadWithdraw, ReadDrop,
              ReadCancel, Hold, GrantedApprove, GrantedEnd, Approve, End, Update,
              ListEscalations, Evaluate, EvaluateUnread, vars
<1>5. ASSUME NEW h \in Handlers, StopForCause(h) \/ StopForFailure(h)
      PROVE  UNCHANGED <<created, origin>>
  BY <1>5 DEF StopForCause, StopForFailure, Stop, Fail
<1>6. CASE RestartAll \/ Background
  BY <1>1, <1>6, BackgroundSame DEF RestartAll, Crash, checks
<1>7. ASSUME \/ UNCHANGED rvars
             \/ \E e \in Escalations, spec \in EscalationSpecs : EditEscalation(e, spec)
             \/ \E slot \in ConfigSlots, config \in ConfigSpecs \cup {NoObject} :
                  EditClusterConfig(slot, config)
      PROVE  UNCHANGED <<created, origin>>
  BY <1>7 DEF rvars, EditEscalation, EditClusterConfig, vars, checks
<1> QED
  BY <1>1, <1>2, <1>3, <1>4, <1>5, <1>6, <1>7 DEF RNext
-----------------------------------------------------------------------------
(***************************************************************************)
(* Decisions.                                                              *)
(***************************************************************************)

\* An escalation that admits the approver warrants the approval: the override of
\* the escalation comes before the setting of the ClusterConfig.
LEMMA AdmittedIsWarranted ==
    ASSUME NEW spec \in EscalationSpecs, NEW config, NEW c, NEW k,
           spec.escalated = GroupOf[k],
           Admits(spec, config, c, OwnerOf[k], ClusterOf[k])
    PROVE  Warrants([spec |-> spec, config |-> config], c, k)
<1>1. spec.blockSelf \in {"yes", "no", "unset"}
  BY RequestsAssumption
<1>2. c = OwnerOf[k] =>
        CASE spec.blockSelf = "yes" -> FALSE
          [] spec.blockSelf = "no"  -> TRUE
          [] OTHER -> config = NoObject \/ ~config.blockSelf
  BY <1>1 DEF Admits, BlocksSelf
<1>3. /\ spec.domains # {} => DomainOf[c] \in spec.domains
      /\ spec.domains = {} /\ config # NoObject =>
           config.domains = {} \/ DomainOf[c] \in config.domains
  BY DEF Admits, AllowedDomains
<1>4. c \in spec.users \/ spec.groups \cap ApproverGroups(c, ClusterOf[k]) # {}
  BY DEF Admits
<1> QED
  BY <1>2, <1>3, <1>4 DEF Warrants

\* The checks that are not under way satisfy the invariant for any handler.
LEMMA NotGranted ==
    /\ NoAuthority = Authority("none", {}, None, None)
    /\ Granted = Authority("granted", {}, None, None)
    /\ Unchecked = Authority("unchecked", {}, None, None)
  BY DEF NoAuthority, Granted, Unchecked, Authority

\* What a step must satisfy at the handler it is about; the others are the same.
LEMMA AuthorityStep ==
    ASSUME AuthorityInv, NEW h \in Deciders, NEW a, specs' = specs,
           authority' = [authority EXCEPT ![h] = a],
           \A g \in Deciders : g # h => Same(g),
           a = Authority(a.pc, a.todo, a.snap, a.warrant),
           a.pc = "checking" => \A e \in a.todo :
              a.snap[e] \in EscalationSpecs /\ a.snap[e].escalated = GroupOf[handler'[h].key],
           a.pc = "granted" /\ handler'[h].op = "approve" =>
              Warrants(a.warrant, handler'[h].by, handler'[h].key),
           handler'[h].pc = "holding" => handler'[h].key = KeyOf[handler'[h].name]
    PROVE  AuthorityInv'
<1>1. authority'[h] = a /\ \A g \in Deciders : g # h => authority'[g] = authority[g]
  BY DEF AuthorityInv
<1> QED
  BY <1>1 DEF AuthorityInv, Same

\* Steps of others.
LEMMA AuthorityKept ==
    ASSUME AuthorityInv, specs' \in [Escalations -> EscalationSpecs],
           authority' = authority, \A g \in Deciders : Same(g)
    PROVE  AuthorityInv'
  BY DEF AuthorityInv, Same

\* The check of one escalation.
LEMMA AuthorityEvaluated ==
    ASSUME AuthorityInv, NEW h \in Deciders, NEW e, NEW config,
           authority[h].pc = "checking", e \in authority[h].todo,
           UNCHANGED <<specs, handler>>,
           authority' = [authority EXCEPT ![h] = Evaluated(h, e, config)]
    PROVE  AuthorityInv'
<1> DEFINE a == authority[h]
           k == handler[h].key
           w == [spec |-> a.snap[e], config |-> config]
<1>1. a = Authority(a.pc, a.todo, a.snap, a.warrant)
  BY DEF AuthorityInv
<1>2. a.snap[e] \in EscalationSpecs /\ a.snap[e].escalated = GroupOf[k]
  BY DEF AuthorityInv
<1>3. \A g \in Deciders : Same(g)
  BY DEF Same
<1>4. handler[h].pc = "holding" => handler[h].key = KeyOf[handler[h].name]
  BY DEF AuthorityInv
<1>5. CASE Admits(a.snap[e], config, handler[h].by, OwnerOf[k], ClusterOf[k])
  <2>1. Evaluated(h, e, config) = Authority("granted", {}, None, w)
    BY <1>1, <1>5 DEF Evaluated, Authority
  <2>2. Warrants(w, handler[h].by, k)
    BY <1>2, <1>5, AdmittedIsWarranted
  <2> DEFINE b == Authority("granted", {}, None, w)
  <2>3. b.pc = "granted" /\ b.warrant = w /\ b = Authority(b.pc, b.todo, b.snap, b.warrant)
    BY DEF Authority
  <2>4. authority' = [authority EXCEPT ![h] = b]
    BY <2>1
  <2> HIDE DEF b, w
  <2> QED
    BY <1>3, <1>4, <2>2, <2>3, <2>4, AuthorityStep
<1>6. CASE ~Admits(a.snap[e], config, handler[h].by, OwnerOf[k], ClusterOf[k])
  <2> DEFINE b == Authority("checking", a.todo \ {e}, a.snap, a.warrant)
  <2>1. Evaluated(h, e, config) = b
    BY <1>1, <1>6 DEF Evaluated, Authority
  <2>2. /\ b.pc = "checking" /\ b.todo \subseteq a.todo /\ b.snap = a.snap
        /\ b = Authority(b.pc, b.todo, b.snap, b.warrant)
    BY DEF Authority
  <2>3. \A d \in a.todo : a.snap[d] \in EscalationSpecs /\ a.snap[d].escalated = GroupOf[k]
    BY DEF AuthorityInv
  <2>4. authority' = [authority EXCEPT ![h] = b]
    BY <2>1
  <2> HIDE DEF b
  <2> QED
    BY <1>3, <1>4, <2>2, <2>3, <2>4, AuthorityStep
<1> QED
  BY <1>5, <1>6
\* Every step keeps what the approver checks rest on.
LEMMA AuthorityNext ==
    ASSUME Typed, AuthorityInv, [RNext]_rvars
    PROVE  AuthorityInv'
<1>d. \A h \in Deciders : h \in Handlers /\ h \notin Requesters
  BY LifecycleAssumption DEF Handlers
<1>h. handler \in [Handlers -> HandlerStates]
  BY DEF Typed, TypeOK
<1>s. specs \in [Escalations -> EscalationSpecs]
  BY DEF AuthorityInv
<1>r. \A pc, todo, snap, warrant : LET a == Authority(pc, todo, snap, warrant) IN
        a.pc = pc /\ a.todo = todo /\ a.snap = snap /\ a.warrant = warrant
  BY DEF Authority
<1>1. ASSUME NEW h \in Deciders, NEW c \in Callers, NEW n \in Names, SelectedRule(h, c, n)
      PROVE  AuthorityInv'
  <2>1. specs' = specs
    BY <1>1 DEF SelectedRule, objects
  <2>2. PICK op \in Ops, a \in {Unchecked, Granted} :
           /\ op = "approve" => a = Unchecked
           /\ Hold(h, op, c, n)
           /\ authority' = [authority EXCEPT ![h] = a]
    BY <1>1 DEF SelectedRule, ReadFor, ReadApprove, ReadReject, ReadWithdraw, ReadDrop,
                ReadCancel, Ops
  <2>3. /\ handler'[h].op = op /\ handler'[h].key = KeyOf[n] /\ handler'[h].name = n
        /\ \A g \in Deciders : g # h => Same(g)
    BY <2>2, <1>d, HoldSame
  <2>4. /\ a = Authority(a.pc, a.todo, a.snap, a.warrant)
        /\ a.pc # "checking" /\ (a.pc = "granted" => a # Unchecked)
    BY <2>2, <1>r, NotGranted
  <2> QED
    BY <2>1, <2>2, <2>3, <2>4, AuthorityStep
<1>2. ASSUME NEW h \in Deciders, ListEscalations(h) PROVE AuthorityInv'
  <2> DEFINE k == handler[h].key
             todo == {e \in GetClusterBreakglassEscalations(specs, ClusterOf[k]) :
                        specs[e].escalated = GroupOf[k]}
             a == Authority("checking", todo, specs, None)
  <2>1. /\ authority' = [authority EXCEPT ![h] = a]
        /\ specs' = specs /\ handler' = handler
    BY <1>2 DEF ListEscalations, Authority, objects, vars
  <2>2. \A e \in todo : e \in Escalations /\ specs[e].escalated = GroupOf[k]
    BY DEF GetClusterBreakglassEscalations, Candidates
  <2>3. \A e \in todo : specs[e] \in EscalationSpecs
    BY <2>2, <1>s
  <2>4. a.pc = "checking" /\ a.todo = todo /\ a.snap = specs
        /\ a = Authority(a.pc, a.todo, a.snap, a.warrant)
    BY DEF Authority
  <2>5. /\ \A g \in Deciders : Same(g)
        /\ handler[h].pc = "holding" => handler[h].key = KeyOf[handler[h].name]
    BY <2>1 DEF Same, AuthorityInv
  <2> HIDE DEF a, todo
  <2> QED
    BY <2>1, <2>2, <2>3, <2>4, <2>5, AuthorityStep
<1>3. ASSUME NEW h \in Deciders, NEW e \in Escalations, Evaluate(h, e) \/ EvaluateUnread(h, e)
      PROVE  AuthorityInv'
  <2>1. /\ authority[h].pc = "checking" /\ e \in authority[h].todo
        /\ UNCHANGED <<specs, handler>>
        /\ \E config : authority' = [authority EXCEPT ![h] = Evaluated(h, e, config)]
    BY <1>3 DEF Evaluate, EvaluateUnread, IsFirst, objects, vars
  <2> QED
    BY <2>1, AuthorityEvaluated
<1>4. ASSUME NEW h \in Deciders, GrantedApprove(h) \/ GrantedEnd(h) PROVE AuthorityInv'
  <2>1. /\ specs' = specs /\ authority' = [authority EXCEPT ![h] = NoAuthority]
        /\ \E s : Update(h, s)
    BY <1>4 DEF GrantedApprove, GrantedEnd, Approve, End, objects
  <2>2. /\ handler'[h].pc = "idle" /\ \A g \in Deciders : g # h => Same(g)
    BY <2>1, <1>d, UpdateSame
  <2>3. /\ NoAuthority.pc = "none"
        /\ NoAuthority = Authority(NoAuthority.pc, NoAuthority.todo, NoAuthority.snap,
                                   NoAuthority.warrant)
    BY <1>r, NotGranted
  <2> QED
    BY <2>1, <2>2, <2>3, AuthorityStep
<1>5. ASSUME NEW h \in Handlers, StopForCause(h) \/ StopForFailure(h) PROVE AuthorityInv'
  <2>1. /\ authority' = [g \in Deciders |-> IF g = h THEN NoAuthority ELSE authority[g]]
        /\ handler' = [handler EXCEPT ![h] = IdleHandler]
        /\ specs' = specs
    BY <1>5 DEF StopForCause, StopForFailure, Stop, Fail, objects
  <2>2. /\ NoAuthority.pc = "none"
        /\ NoAuthority = Authority(NoAuthority.pc, NoAuthority.todo, NoAuthority.snap,
                                   NoAuthority.warrant)
    BY <1>r, NotGranted
  <2>3. handler'[h].pc = "idle" /\ \A g \in Deciders : g # h => handler'[g] = handler[g]
    BY <2>1, <1>h, <1>d DEF IdleHandler
  <2> QED
    BY <2>1, <2>2, <2>3 DEF AuthorityInv
<1>6. CASE RestartAll
  <2>1. /\ authority' = [h \in Deciders |-> NoAuthority]
        /\ specs' = specs /\ \A h \in Deciders : handler'[h].pc = "idle"
    BY <1>6, <1>d DEF RestartAll, Crash, objects, IdleHandler
  <2>2. /\ NoAuthority.pc = "none"
        /\ NoAuthority = Authority(NoAuthority.pc, NoAuthority.todo, NoAuthority.snap,
                                   NoAuthority.warrant)
    BY <1>r, NotGranted
  <2> QED
    BY <2>1, <2>2 DEF AuthorityInv
<1>7. CASE Background
  BY <1>7, <1>d, <1>s, BackgroundSame, AuthorityKept DEF checks, objects
<1>8. ASSUME NEW h \in Requesters,
             \/ SelectedCheck(h) \/ SelectedWrite(h) \/ Refuse(h)
             \/ \E n \in Names : SelectedCreate(h, n) \/ SelectedRead(h, n)
             \/ \E c \in Callers, k \in Keys, e \in Escalations : Select(h, c, k, e)
      PROVE  AuthorityInv'
  <2>1. specs' = specs /\ authority' = authority
    BY <1>8 DEF SelectedCheck, SelectedWrite, Refuse, SelectedCreate, SelectedRead, Select,
                checks, objects
  <2>2. \/ handler' = handler \/ SelectedWrite(h) \/ SelectedCheck(h)
        \/ \E n \in Names : SelectedCreate(h, n) \/ SelectedRead(h, n)
    BY <1>8 DEF Refuse, Select, vars
  <2>3. h \in Handlers
    BY DEF Handlers
  <2>4. \A g \in Handlers : g # h => Same(g)
    <3>1. SelectedWrite(h) => Update(h, PendingStatus(now))
      BY DEF SelectedWrite, RequestWrite
    <3>2. \A n \in Names : SelectedRead(h, n) => Hold(h, "request", None, n)
      BY DEF SelectedRead, RequestRead
    <3>3. ASSUME SelectedCheck(h) \/ \E n \in Names : SelectedCreate(h, n)
          PROVE  \A g \in Handlers : g # h => handler'[g] = handler[g]
      BY <3>3, <1>h DEF SelectedCheck, SelectedCreate, RequestCheck, RequestCreate
    <3> QED
      BY <2>2, <2>3, <3>1, <3>2, <3>3, UpdateSame, HoldSame DEF Same
  <2> QED
    BY <2>1, <2>4, <1>d, <1>s, AuthorityKept
<1>9. ASSUME NEW e \in Escalations, NEW spec \in EscalationSpecs, EditEscalation(e, spec)
      PROVE  AuthorityInv'
  BY <1>9, <1>s, AuthorityKept DEF EditEscalation, Same, vars, checks
<1>10. ASSUME \/ UNCHANGED rvars
              \/ \E slot \in ConfigSlots, config \in ConfigSpecs \cup {NoObject} :
                   EditClusterConfig(slot, config)
       PROVE  AuthorityInv'
  BY <1>10, <1>s, AuthorityKept DEF rvars, EditClusterConfig, Same, vars, checks, objects
<1> QED
  BY <1>1, <1>2, <1>3, <1>4, <1>5, <1>6, <1>7, <1>8, <1>9, <1>10 DEF RNext
\* An approval is recorded with its warrant.
LEMMA WarrantNext ==
    ASSUME Typed, AuthorityInv, WarrantInv, [RNext]_rvars
    PROVE  WarrantInv'
<1>1. CASE UNCHANGED <<approvals, warrants>>
  BY <1>1 DEF WarrantInv
<1>2. ASSUME NEW h \in Deciders, GrantedApprove(h) PROVE WarrantInv'
  <2> DEFINE hd == handler[h]
             w == [name |-> hd.name, by |-> hd.by, warrant |-> authority[h].warrant]
  <2>1. /\ authority[h].pc = "granted" /\ hd.pc = "holding" /\ hd.op = "approve"
        /\ approvals' = approvals \cup {[name |-> hd.name, by |-> hd.by, at |-> now]}
        /\ warrants' = warrants \cup {w}
    BY <1>2 DEF GrantedApprove, MayWrite, Approve
  <2>2. Warrants(authority[h].warrant, hd.by, hd.key) /\ hd.key = KeyOf[hd.name]
    BY <2>1 DEF AuthorityInv
  <2>3. Warrants(w.warrant, w.by, KeyOf[w.name]) /\ w.name = hd.name /\ w.by = hd.by
    BY <2>2
  <2>4. ASSUME NEW a \in approvals'
        PROVE  \E v \in warrants' :
                 v.name = a.name /\ v.by = a.by /\ Warrants(v.warrant, v.by, KeyOf[v.name])
    <3>1. CASE a \in approvals
      BY <2>1, <3>1 DEF WarrantInv
    <3>2. CASE a = [name |-> hd.name, by |-> hd.by, at |-> now]
      BY <2>1, <2>3, <3>2
    <3> QED
      BY <2>1, <3>1, <3>2
  <2> QED
    BY <2>4 DEF WarrantInv
<1>3. ASSUME NEW h \in Requesters,
             \/ SelectedCheck(h) \/ SelectedWrite(h) \/ Refuse(h)
             \/ \E n \in Names : SelectedCreate(h, n) \/ SelectedRead(h, n)
             \/ \E c \in Callers, k \in Keys, e \in Escalations : Select(h, c, k, e)
      PROVE  UNCHANGED <<approvals, warrants>>
  BY <1>3 DEF SelectedCheck, SelectedWrite, Refuse, SelectedCreate, SelectedRead, Select,
              RequestCheck, RequestCreate, RequestRead, RequestWrite, Hold, checks, vars
<1>4. ASSUME NEW h \in Deciders,
             \/ \E c \in Callers, n \in Names : SelectedRule(h, c, n)
             \/ GrantedEnd(h) \/ ListEscalations(h)
             \/ \E e \in Escalations : Evaluate(h, e) \/ EvaluateUnread(h, e)
      PROVE  UNCHANGED <<approvals, warrants>>
  BY <1>4 DEF SelectedRule, ReadFor, ReadApprove, ReadReject, ReadWithdraw, ReadDrop,
              ReadCancel, Hold, GrantedEnd, End, ListEscalations, Evaluate,
              EvaluateUnread, vars
<1>5. ASSUME NEW h \in Handlers, StopForCause(h) \/ StopForFailure(h)
      PROVE  UNCHANGED <<approvals, warrants>>
  BY <1>5 DEF StopForCause, StopForFailure, Stop, Fail
<1>6. CASE RestartAll \/ Background
  BY <1>1, <1>6, BackgroundSame DEF RestartAll, Crash, HistoryUnchanged, checks
<1>7. ASSUME \/ UNCHANGED rvars
             \/ \E e \in Escalations, spec \in EscalationSpecs : EditEscalation(e, spec)
             \/ \E slot \in ConfigSlots, config \in ConfigSpecs \cup {NoObject} :
                  EditClusterConfig(slot, config)
      PROVE  UNCHANGED <<approvals, warrants>>
  BY <1>7 DEF rvars, EditEscalation, EditClusterConfig, vars, checks
<1> QED
  BY <1>1, <1>2, <1>3, <1>4, <1>5, <1>6, <1>7 DEF RNext

-----------------------------------------------------------------------------
(***************************************************************************)
(* The theorems.                                                           *)
(***************************************************************************)

\* The initial states satisfy the invariant.
LEMMA RequestInit == RInit => Init /\ RequestInv
<1> SUFFICES ASSUME RInit PROVE RequestInv
  BY DEF RInit
<1>1. SelectionInv
  BY DEF RInit, Init, SelectionInv, IdleHandler, Handlers
<1>2. OriginInv
  BY DEF RInit, Init, OriginInv
<1>3. AuthorityInv
  <2>1. /\ specs \in [Escalations -> EscalationSpecs]
        /\ authority = [h \in Deciders |-> NoAuthority]
        /\ \A h \in Deciders : handler[h].pc = "idle"
    BY RequestsAssumption DEF RInit, Init, IdleHandler, Handlers
  <2>2. NoAuthority.pc = "none" /\ NoAuthority =
          Authority(NoAuthority.pc, NoAuthority.todo, NoAuthority.snap, NoAuthority.warrant)
    BY DEF NoAuthority, Authority
  <2> QED
    BY <2>1, <2>2 DEF AuthorityInv
<1>4. WarrantInv
  BY DEF RInit, Init, WarrantInv
<1> QED
  BY <1>1, <1>2, <1>3, <1>4 DEF RequestInv

\* The invariants of SessionLifecycle and RequestInv hold together.
LEMMA RequestInvariance == RSpec => Spec /\ []ContractInv /\ []RequestInv
<1>1. RequestInv /\ [RNext]_rvars => [Next]_vars
  BY StepsOfLifecycle DEF RequestInv
<1>2. ContractInv /\ RequestInv /\ [RNext]_rvars => RequestInv'
  BY SelectionNext, OriginNext, AuthorityNext, WarrantNext DEF RequestInv, ContractInv
<1>3. Init => ContractInv
  <2> SUFFICES ASSUME Init PROVE PendingInv /\ ApprovalsAreOfCreated
    BY TypedInit, AccessInit, RevocationInit DEF ContractInv
  <2> QED
    BY DEF Init, PendingInv, ApprovalsAreOfCreated, EmptyStatus, IdleHandler
<1>4. ContractInv /\ [Next]_vars => ContractInv'
  BY TypedNext, AccessNext, RevocationNext, PendingNext, ApprovalsNext DEF ContractInv
<1> QED
  BY <1>1, <1>2, <1>3, <1>4, RequestInit, PTL DEF RSpec, Spec

\* The controller with its lookups and its approver check keeps the contract
\* about access: the refinement of SessionLifecycle carries over.
THEOREM RequestsKeepContract == RSpec => Spec /\ KeepsContract
  BY RequestInvariance, ContractKept, PTL

\* When every session was created by a request, access rests on an eligible
\* request, by the groups in the caller's token or else those of the user it names,
\* and on a warranted approval of that session by the approver its status names,
\* whatever is edited between the reads (isSessionApprover, the selection of the
\* escalation by a request).
THEOREM WarrantSafe ==
    ASSUME LegacyNames = {} PROVE RSpec => []AccessIsWarranted
<1>1. ContractInv /\ AccessWasApproved /\ RequestInv => AccessIsWarranted
  <2> SUFFICES ASSUME ContractInv, AccessWasApproved, RequestInv,
                      NEW n \in Names, Grants(n)
               PROVE  /\ Eligible(origin[n], KeyOf[n])
                      /\ \E w \in warrants :
                           /\ w.name = n /\ w.by = status[n].approver
                           /\ Warrants(w.warrant, w.by, KeyOf[n])
    BY DEF AccessIsWarranted
  <2>1. PICK a \in approvals : a.name = n /\ a.by = status[n].approver
    BY DEF AccessWasApproved
  <2>2. n \in created
    BY <2>1 DEF ContractInv, ApprovalsAreOfCreated
  <2>3. Eligible(origin[n], KeyOf[n])
    BY <2>2 DEF RequestInv, OriginInv
  <2>4. PICK w \in warrants :
          w.name = a.name /\ w.by = a.by /\ Warrants(w.warrant, w.by, KeyOf[w.name])
    BY DEF RequestInv, WarrantInv
  <2> QED
    BY <2>1, <2>3, <2>4
<1> QED
  BY <1>1, RequestInvariance, AccessSafe, PTL

-----------------------------------------------------------------------------
(***************************************************************************)
(* What the API offers.                                                    *)
(***************************************************************************)

\* A caller with groups in the token has the same groups for both handlers.
LEMMA TokenDecides ==
    ASSUME NEW c, NEW u, NEW x, NEW v, NEW y, TokenGroups[c] # {}
    PROVE  UserGroups(c, u, x) = UserGroups(c, v, y)
  BY DEF UserGroups

\* Whatever may be requested is offered, unless an index on the written groups
\* answers for escalations whose groups are written with a prefix.
THEOREM OfferIsComplete ==
    ASSUME ~Indexed \/ \A spec \in EscalationSpecs : Stripped(spec.allowed) \subseteq spec.allowed
    PROVE  RSpec => []RequestableIsOffered
<1>1. RequestInv => RequestableIsOffered
  <2> SUFFICES ASSUME RequestInv, NEW c \in Callers, NEW k \in Keys, TokenGroups[c] # {},
                      NEW e \in Possible(c, k)
               PROVE  e \in Offered(c)
    BY DEF RequestableIsOffered
  <2> DEFINE G == UserGroups(c, c, HubCluster)
  <2>1. e \in Escalations /\ MatchesGroups(specs[e], G)
    BY TokenDecides DEF Possible, GetClusterGroupBreakglassEscalations, Candidates
  <2>2. specs[e] \in EscalationSpecs
    BY <2>1 DEF RequestInv, AuthorityInv
  <2>3. Indexed => specs[e].allowed \cap G \cap Stripped(specs[e].allowed) # {}
    BY <2>1, <2>2 DEF MatchesGroups
  <2> HIDE DEF G
  <2> QED
    BY <2>1, <2>3 DEF Offered, GetGroupBreakglassEscalations, G
<1> QED
  BY <1>1, RequestInvariance, PTL

-----------------------------------------------------------------------------
(***************************************************************************)
(* Requests for one triple that do not overlap.  A request looks its new   *)
(* session up by triple; RequesterInv of SessionContract_proofs says that  *)
(* no other session of the triple is active then, and OwnInv which request *)
(* the one it finds comes from.                                            *)
(***************************************************************************)

\* The active sessions of the triple of a request that has created its object,
\* and the session it has looked up, come from the request's own selection.
OwnInv ==
    \A h \in Requesters :
        /\ handler[h].pc = "created" =>
              \A n \in ActiveSessions(handler[h].key) : origin[n] = selection[h]
        /\ handler[h].pc = "holding" => origin[handler[h].name] = selection[h]

\* What a step does to a requester and his selection, and that only a creation
\* gives an origin, to a new session.
LEMMA RequesterMoves ==
    ASSUME Typed, SelectionInv, OriginInv, [RNext]_rvars, NEW h \in Requesters
    PROVE  /\ \/ handler'[h].pc \in {"idle", "checked"}
              \/ Same(h) /\ selection'[h] = selection[h]
              \/ \E n \in Names : SelectedCreate(h, n) \/ SelectedRead(h, n)
           /\ \A n \in created : origin'[n] = origin[n]
<1>d. \A g \in Deciders : g \in Handlers /\ g # h
  BY LifecycleAssumption DEF Handlers
<1>r. h \in Handlers /\ \A g \in Requesters : g \in Handlers
  BY DEF Handlers
<1>h. handler \in [Handlers -> HandlerStates] /\ created \subseteq Names
  BY DEF Typed, TypeOK
<1> DEFINE Moves == \/ handler'[h].pc \in {"idle", "checked"}
                    \/ Same(h) /\ selection'[h] = selection[h]
                    \/ \E n \in Names : SelectedCreate(h, n) \/ SelectedRead(h, n)
           Kept == \A n \in created : origin'[n] = origin[n]
<1>0. ASSUME UNCHANGED <<handler, selection, origin>> PROVE Moves /\ Kept
  BY <1>0 DEF Same
<1>1. ASSUME NEW g \in Requesters, 
             Refuse(g) \/ \E c \in Callers, k \in Keys, e \in Escalations : Select(g, c, k, e)
      PROVE  Moves /\ Kept
  <2>1. /\ handler' = handler /\ origin' = origin /\ handler[g].pc = "idle"
        /\ g # h => selection'[h] = selection[h]
    BY <1>1 DEF Refuse, Select, SelectionInv, vars
  <2> QED
    BY <2>1 DEF Same
<1>2. ASSUME NEW g \in Requesters, SelectedCheck(g) PROVE Moves /\ Kept
  <2>1. /\ selection' = selection /\ origin' = origin
        /\ IF g = h THEN handler'[h].pc = "checked" ELSE Same(h)
    BY <1>2, <1>h, <1>r DEF SelectedCheck, RequestCheck, checks, IdleHandler, Same
  <2> QED
    BY <2>1
<1>3. ASSUME NEW g \in Requesters, NEW n \in Names, SelectedCreate(g, n) PROVE Moves /\ Kept
  <2>1. /\ selection' = selection
        /\ g # h => Same(h)
    BY <1>3, <1>h, <1>r DEF SelectedCreate, RequestCreate, Same
  <2>2. Kept
    BY <1>3, <1>h DEF SelectedCreate, RequestCreate, OriginInv
  <2> QED
    BY <1>3, <2>1, <2>2
<1>4. ASSUME NEW g \in Requesters, NEW n \in Names, SelectedRead(g, n) PROVE Moves /\ Kept
  <2>1. selection' = selection /\ origin' = origin /\ Hold(g, "request", None, n)
    BY <1>4 DEF SelectedRead, RequestRead, checks
  <2>2. g # h => Same(h)
    BY <1>r, <2>1, HoldSame
  <2> QED
    BY <1>4, <2>1, <2>2
<1>5. ASSUME NEW g \in Requesters, SelectedWrite(g) PROVE Moves /\ Kept
  <2>1. /\ selection' = [selection EXCEPT ![g] = None] /\ origin' = origin
        /\ Update(g, PendingStatus(now))
    BY <1>5 DEF SelectedWrite, RequestWrite
  <2>2. IF g = h THEN handler'[h].pc = "idle" ELSE Same(h)
    BY <2>1, <1>r, UpdateSame
  <2>3. g # h => selection'[h] = selection[h]
    BY <2>1 DEF SelectionInv
  <2> QED
    BY <2>1, <2>2, <2>3
<1>6. ASSUME NEW g \in Deciders, NEW c \in Callers, NEW n \in Names, SelectedRule(g, c, n)
      PROVE  Moves /\ Kept
  <2>1. UNCHANGED <<selection, origin>> /\ \E op \in Ops : Hold(g, op, c, n)
    BY <1>6 DEF SelectedRule, ReadFor, ReadApprove, ReadReject, ReadWithdraw, ReadDrop,
                ReadCancel, Ops
  <2>2. Same(h)
    BY <1>d, <1>r, <2>1, HoldSame
  <2> QED
    BY <2>1, <2>2
<1>7. ASSUME NEW g \in Deciders, GrantedApprove(g) \/ GrantedEnd(g) PROVE Moves /\ Kept
  <2>1. UNCHANGED <<selection, origin>> /\ \E s : Update(g, s)
    BY <1>7 DEF GrantedApprove, GrantedEnd, Approve, End
  <2>2. Same(h)
    BY <1>d, <1>r, <2>1, UpdateSame
  <2> QED
    BY <2>1, <2>2
<1>8. ASSUME NEW g \in Handlers, StopForCause(g) \/ StopForFailure(g) PROVE Moves /\ Kept
  <2>1. /\ selection' = [f \in Requesters |-> IF f = g THEN None ELSE selection[f]]
        /\ handler' = [handler EXCEPT ![g] = IdleHandler] /\ origin' = origin
    BY <1>8 DEF StopForCause, StopForFailure, Stop, Fail
  <2> QED
    BY <2>1, <1>r, <1>h DEF Same, IdleHandler
<1>9. ASSUME RestartAll PROVE Moves /\ Kept
  BY <1>9, <1>r DEF RestartAll, Crash, IdleHandler
<1>10. ASSUME Background PROVE Moves /\ Kept
  BY <1>10, <1>r, BackgroundSame DEF checks
<1>11. ASSUME NEW g \in Deciders,
              ListEscalations(g) \/ \E e \in Escalations : Evaluate(g, e) \/ EvaluateUnread(g, e)
       PROVE  Moves /\ Kept
  BY <1>0, <1>11 DEF ListEscalations, Evaluate, EvaluateUnread, vars
<1>12. ASSUME \/ UNCHANGED rvars
              \/ \E e \in Escalations, spec \in EscalationSpecs : EditEscalation(e, spec)
              \/ \E slot \in ConfigSlots, config \in ConfigSpecs \cup {NoObject} :
                   EditClusterConfig(slot, config)
       PROVE  Moves /\ Kept
  BY <1>0, <1>12 DEF rvars, EditEscalation, EditClusterConfig, vars, checks
<1> HIDE DEF Moves, Kept
<1>13. Moves /\ Kept
  BY <1>1, <1>2, <1>3, <1>4, <1>5, <1>6, <1>7, <1>8, <1>9, <1>10, <1>11, <1>12 DEF RNext
<1> QED
  BY <1>13 DEF Moves, Kept

\* Every step keeps OwnInv while requests for a triple do not overlap.
LEMMA OwnNext ==
    StateInv /\ RequestInv /\ Sequential /\ OwnInv /\ [RNext]_rvars => OwnInv'
<1> SUFFICES ASSUME StateInv, RequestInv, Sequential, OwnInv, [RNext]_rvars,
                    NEW h \in Requesters
             PROVE  /\ handler'[h].pc = "created" =>
                          \A n \in stored' :
                             KeyOf[n] = handler'[h].key /\ IsSessionActive(status'[n], now') =>
                                origin'[n] = selection'[h]
                    /\ handler'[h].pc = "holding" => origin'[handler'[h].name] = selection'[h]
  BY DEF OwnInv, ActiveSessions
<1>i. Typed /\ SelectionInv /\ OriginInv /\ RequesterInv
  BY DEF StateInv, RequestInv
<1>t. /\ handler \in [Handlers -> HandlerStates] /\ h \in Handlers
      /\ stored \subseteq created /\ created \subseteq Names
  BY <1>i DEF Typed, TypeOK, Handlers
<1>n. [Next]_vars /\ \A n \in Names : StatusMoves(n)
  <2>1. [Next]_vars
    BY <1>i, StepsOfLifecycle
  <2> QED
    BY <2>1, StepMovesStatus DEF StateInv
<1>o. \A n \in created : origin'[n] = origin[n]
  BY <1>i, RequesterMoves
<1>1. CASE handler'[h].pc \in {"idle", "checked"}
  BY <1>1
<1>2. CASE Same(h) /\ selection'[h] = selection[h]
  <2>1. ASSUME handler'[h].pc = "created", NEW n \in stored', KeyOf[n] = handler'[h].key,
               IsSessionActive(status'[n], now')
        PROVE  origin'[n] = selection'[h]
    <3>1. n \in ActiveSessions(handler[h].key)
      BY <1>i, <1>n, <1>2, <2>1, NothingAppears DEF Same
    <3>2. origin[n] = selection[h] /\ n \in created
      BY <1>t, <1>2, <2>1, <3>1 DEF OwnInv, Same, ActiveSessions
    <3> QED
      BY <1>o, <1>2, <3>2
  <2>2. ASSUME handler'[h].pc = "holding" PROVE origin'[handler'[h].name] = selection'[h]
    <3>1. handler[h].name \in created
      BY <1>i, <1>t, <1>2, <2>2 DEF Same, Typed, HoldersReadASession
    <3> QED
      BY <1>o, <1>2, <2>2, <3>1 DEF OwnInv, Same
  <2> QED
    BY <2>1, <2>2
<1>3. ASSUME NEW m \in Names, SelectedCreate(h, m)
      PROVE  /\ handler'[h].pc = "created"
             /\ \A n \in stored' :
                   KeyOf[n] = handler'[h].key /\ IsSessionActive(status'[n], now') =>
                      origin'[n] = selection'[h]
  <2>1. /\ handler[h].pc = "checked" /\ handler' = [handler EXCEPT ![h].pc = "created"]
        /\ stored' = stored \cup {m} /\ UNCHANGED <<now, status, selection>>
        /\ origin' = [origin EXCEPT ![m] = selection[h]]
    BY <1>3 DEF SelectedCreate, RequestCreate
  <2>2. handler'[h].pc = "created" /\ handler'[h].key = handler[h].key
    BY <1>t, <2>1 DEF HandlerStates
  <2>3. ActiveSessions(handler[h].key) = {}
    BY <1>i, <2>1 DEF RequesterInv
  <2>4. origin'[m] = selection[h]
    BY <1>i, <2>1 DEF OriginInv
  <2> QED
    BY <2>1, <2>2, <2>3, <2>4 DEF ActiveSessions
<1>4. ASSUME NEW m \in Names, SelectedRead(h, m)
      PROVE  /\ handler'[h].pc = "holding"
             /\ origin'[handler'[h].name] = selection'[h]
  <2>1. /\ handler[h].pc = "created" /\ m \in ActiveSessions(handler[h].key)
        /\ Hold(h, "request", None, m) /\ UNCHANGED <<selection, origin>>
    BY <1>4 DEF SelectedRead, RequestRead, IsFirst, checks
  <2>2. handler'[h].pc = "holding" /\ handler'[h].name = m
    BY <1>i, <1>t, <2>1, HoldSame
  <2> QED
    BY <2>1, <2>2 DEF OwnInv
<1> QED
  BY <1>i, <1>1, <1>2, <1>3, <1>4, RequesterMoves

\* Requests that do not overlap write to the session they created and to no
\* other: the lookup by triple of the request handler finds just that one.
THEOREM RequestsWriteTheirOwn == RSpec /\ []Sequential => []WritesItsOwn
<1>1. RInit => OwnInv
  BY DEF RInit, Init, OwnInv, IdleHandler, Handlers
<1>2. OwnInv => WritesItsOwn
  BY DEF OwnInv, WritesItsOwn
<1> QED
  BY <1>1, <1>2, OwnNext, RequestInvariance, StateInvariance, PTL DEF RSpec

\* In the composed system, too, a session is decided once and only an Approved
\* one authorizes.
THEOREM RequestsKeepStates ==
    RSpec /\ []Sequential => []GrantsOnlyWhenApproved /\ DecidedOnce
  BY RequestInvariance, ShownAsApproved, DecidedOnlyOnce, PTL
=============================================================================
