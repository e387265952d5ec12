----------------------- MODULE SessionLifecycle_proofs -----------------------
(***************************************************************************)
(* Proofs about SessionLifecycle, for any names, triples, callers, numbers *)
(* of concurrent handlers, durations, faults and times.                    *)
(***************************************************************************)
EXTENDS SessionLifecycle, TLAPS

USE DEF Unset

-----------------------------------------------------------------------------
(***************************************************************************)
(* Type correctness.                                                       *)
(***************************************************************************)

\* The empty status is a status.
LEMMA EmptyStatusType == EmptyStatus \in Statuses
  BY DEF EmptyStatus, Statuses, States, ConditionTypes, Reasons

\* So is the one of a new request.
LEMMA PendingStatusType ==
    ASSUME NEW t \in Nat
    PROVE  PendingStatus(t) \in Statuses
<1>1. t + ApprovalTimeout \in Nat /\ t + RetainFor \in Nat
  BY DurationAssumption
<1> QED
  BY EmptyStatusType, <1>1 DEF PendingStatus, Statuses, States, ConditionTypes

\* So are the two statuses the cleaner writes ...
LEMMA CleanerStatuses ==
    ASSUME NEW s \in Statuses
    PROVE  ExpiredStatus(s) \in Statuses /\ TimedOutStatus(s) \in Statuses
  BY DEF ExpiredStatus, TimedOutStatus, Statuses, States, ConditionTypes, Reasons

\* ... and those the operations of the session controller write.
LEMMA WrittenStatuses ==
    ASSUME NEW s \in Statuses, NEW c \in Callers, NEW t \in Nat
    PROVE  /\ ApprovedStatus(s, c, t) \in Statuses
           /\ RejectedStatus(s, c, t) \in Statuses
           /\ WithdrawnStatus(s, t) \in Statuses
           /\ DroppedStatus(s, t) \in Statuses
           /\ CanceledStatus(s, c, t) \in Statuses
<1>3. ApprovedStatus(s, c, t) \in Statuses
  <2>1. t + ValidFor \in Nat /\ t + RetainFor \in Nat
    BY DurationAssumption
  <2> QED
    BY <2>1 DEF ApprovedStatus, Statuses, States, ConditionTypes
<1>4. RejectedStatus(s, c, t) \in Statuses
  BY DEF RejectedStatus, Statuses, States, ConditionTypes, Reasons
<1>5. WithdrawnStatus(s, t) \in Statuses
  BY DEF WithdrawnStatus, Statuses, States, ConditionTypes, Reasons
<1>6. ASSUME NEW r \in Reasons PROVE EndedStatus(s, r, t) \in Statuses
  BY DEF EndedStatus, Statuses, States, ConditionTypes, Reasons
<1>7. DroppedStatus(s, t) \in Statuses
  BY <1>5, <1>6 DEF DroppedStatus, Reasons
<1>8. CanceledStatus(s, c, t) \in Statuses
  BY DEF CanceledStatus, EndedStatus, Statuses, States, ConditionTypes, Reasons
<1> QED
  BY <1>3, <1>4, <1>5, <1>7, <1>8

\* The local states that the steps of handlers and cleaner lead to.
LEMMA IdleHandlerType == IdleHandler \in HandlerStates
  BY EmptyStatusType DEF IdleHandler, HandlerStates, Ops, NoName

\* Losing the resourceVersion keeps a handler a handler.
LEMMA InvalidatedType ==
    ASSUME TypeOK, NEW n
    PROVE  Invalidated(n) \in [Handlers -> HandlerStates]
  BY DEF TypeOK, Invalidated, HandlerStates

\* The cleaner as it starts.
LEMMA StartedCleanerType == StartedCleaner \in CleanerStates
  BY EmptyStatusType DEF StartedCleaner, NoSnap, CleanerStates

\* The program counters of the cleaner.
Phases == {"listPending", "pending", "listApproved", "approved", "updating",
           "listCleanup", "cleanup"}

\* The cleaner after a list ...
LEMMA ListedType ==
    ASSUME TypeOK, NEW todo \in SUBSET Names, NEW pc \in Phases, NEW next \in Phases
    PROVE  Listed(todo, pc, next) \in CleanerStates
<1>1. [n \in Names |-> IF n \in todo THEN status[n] ELSE EmptyStatus]
        \in [Names -> Statuses]
  BY EmptyStatusType DEF TypeOK
<1> QED
  BY <1>1 DEF Listed, Phases, CleanerStates

\* ... after an item ...
LEMMA FinishedType ==
    ASSUME TypeOK, NEW n \in Names, NEW pc \in Phases, NEW next \in Phases
    PROVE  Finished(n, pc, next) \in CleanerStates
  BY EmptyStatusType DEF TypeOK, Finished, Phases, CleanerStates

\* ... after a failed update: there are at most two retries ...
LEMMA RetriedType ==
    ASSUME TypeOK, NEW n \in Names
    PROVE  RetriedCleaner(n) \in CleanerStates
<1>1. Finished(n, "approved", "listCleanup") \in CleanerStates
  BY FinishedType DEF Phases
<1>2. ExpiredStatus(status[n]) \in Statuses
  BY CleanerStatuses DEF TypeOK
<1>3. ASSUME n \in stored, cleaner.retries < 2
      PROVE  [cleaner EXCEPT !.snap[n] = ExpiredStatus(status[n]),
                             !.fresh = @ \cup {n},
                             !.retries = @ + 1] \in CleanerStates
  <2>1. cleaner.retries + 1 \in 0..2
    BY <1>3 DEF TypeOK, CleanerStates
  <2>2. [cleaner.snap EXCEPT ![n] = ExpiredStatus(status[n])] \in [Names -> Statuses]
    BY <1>2 DEF TypeOK, CleanerStates
  <2> QED
    BY <2>1, <2>2 DEF TypeOK, CleanerStates
<1> QED
  BY <1>1, <1>3 DEF RetriedCleaner

\* ... when it is about to mark a listed session Expired ...
LEMMA ExpiringType ==
    ASSUME TypeOK, NEW n \in Names, NEW fresh \in SUBSET Names
    PROVE  [cleaner EXCEPT !.pc = "updating", !.snap[n] = ExpiredStatus(@),
                           !.fresh = fresh] \in CleanerStates
<1>1. ExpiredStatus(cleaner.snap[n]) \in Statuses
  BY CleanerStatuses DEF TypeOK, CleanerStates
<1>2. [cleaner.snap EXCEPT ![n] = ExpiredStatus(cleaner.snap[n])] \in [Names -> Statuses]
  BY <1>1 DEF TypeOK, CleanerStates
<1> QED
  BY <1>2 DEF TypeOK, CleanerStates

\* ... and after a failed call.
LEMMA FailedType ==
    ASSUME TypeOK, NEW n \in Names, cleaner.pc \notin DOMAIN NextList
    PROVE  FailedCleaner(n) \subseteq CleanerStates
<1>1. cleaner.pc \in {"pending", "approved", "updating", "cleanup"}
  BY DEF TypeOK, CleanerStates, NextList
<1>2. [cleaner EXCEPT !.pc = "updating", !.snap[n] = ExpiredStatus(@)] \in CleanerStates
  <2>1. ExpiredStatus(cleaner.snap[n]) \in Statuses
    BY CleanerStatuses DEF TypeOK, CleanerStates
  <2>2. [cleaner.snap EXCEPT ![n] = ExpiredStatus(cleaner.snap[n])] \in [Names -> Statuses]
    BY <2>1 DEF TypeOK, CleanerStates
  <2> QED
    BY <2>2 DEF TypeOK, CleanerStates
<1>3. RetriedCleaner(n) \in CleanerStates
  BY RetriedType
<1>4. /\ Finished(n, "pending", "listApproved") \in CleanerStates
      /\ Finished(n, "approved", "listCleanup") \in CleanerStates
      /\ Finished(n, "cleanup", "listPending") \in CleanerStates
  BY FinishedType DEF Phases
<1> QED
  BY <1>1, <1>2, <1>3, <1>4 DEF FailedCleaner

\* A handler that writes a status keeps the types.
LEMMA UpdateType ==
    ASSUME TypeOK, NEW h \in Handlers, handler[h].pc = "holding",
           handler[h].name \in Names,
           NEW s \in Statuses, Update(h, s)
    PROVE  /\ now' = now /\ stored' = stored /\ owned' = owned
           /\ created' = created /\ faults' = faults
           /\ status' \in [Names -> Statuses]
           /\ handler' \in [Handlers -> HandlerStates]
           /\ cleaner' \in CleanerStates
<1> DEFINE n == handler[h].name
<1>1. Invalidated(n) \in [Handlers -> HandlerStates]
  BY InvalidatedType
<1>2. handler' \in [Handlers -> HandlerStates]
  BY <1>1, IdleHandlerType DEF Update
<1>3. cleaner' \in CleanerStates
  BY DEF Update, TypeOK, CleanerStates
<1>4. status' \in [Names -> Statuses]
  BY DEF Update, TypeOK
<1> QED
  BY <1>2, <1>3, <1>4 DEF Update

\* So does one that reads the object it will write.
LEMMA HoldType ==
    ASSUME TypeOK, NEW h \in Handlers, NEW op \in Ops,
           NEW c \in Callers \cup {None}, NEW n \in Names, Hold(h, op, c, n)
    PROVE  TypeOK'
<1>1. [pc |-> "holding", op |-> op, key |-> KeyOf[n], by |-> c, name |-> n,
       copy |-> status[n], current |-> TRUE] \in HandlerStates
  BY LifecycleAssumption DEF TypeOK, HandlerStates
<1>2. handler' \in [Handlers -> HandlerStates]
  BY <1>1 DEF Hold, TypeOK
<1> QED
  BY <1>2 DEF Hold, TypeOK

\* The two invariants are proved together: that an approval in the history is
\* one of a caller needs the second.
Typed == TypeOK /\ HoldersReadASession

\* The initial states have the types.
LEMMA TypedInit == Init => Typed
<1> SUFFICES ASSUME Init PROVE Typed
  OBVIOUS
<1>1. status \in [Names -> Statuses]
  BY EmptyStatusType DEF Init
<1>2. handler \in [Handlers -> HandlerStates]
  BY IdleHandlerType DEF Init
<1>3. cleaner \in CleanerStates
  BY StartedCleanerType DEF Init
<1>4. HoldersReadASession
  BY DEF Init, HoldersReadASession, IdleHandler
<1> QED
  BY <1>1, <1>2, <1>3, <1>4, LifecycleAssumption DEF Init, Typed, TypeOK

\* Steps of a request handler.
LEMMA TypedRequester ==
    ASSUME Typed, NEW h \in Requesters, RequesterStep(h)
    PROVE  Typed'
<1> USE DEF Typed
<1>h. h \in Handlers
  BY DEF Handlers
<1>1. ASSUME NEW k \in Keys, RequestCheck(h, k) PROVE Typed'
  <2> DEFINE checked == [IdleHandler EXCEPT !.pc = "checked", !.key = k]
  <2>1. checked \in HandlerStates /\ handler' = [handler EXCEPT ![h] = checked]
    BY <1>1, IdleHandlerType DEF RequestCheck, HandlerStates
  <2> HIDE DEF checked
  <2>2. handler' \in [Handlers -> HandlerStates]
    BY <2>1 DEF TypeOK
  <2>3. HoldersReadASession'
    BY <1>1 DEF RequestCheck, HoldersReadASession, TypeOK, IdleHandler
  <2> QED
    BY <1>1, <2>2, <2>3 DEF RequestCheck, TypeOK
<1>2. ASSUME NEW n \in Names, RequestCreate(h, n) PROVE Typed'
  <2>1. handler' \in [Handlers -> HandlerStates]
    BY <1>2, <1>h DEF RequestCreate, TypeOK, HandlerStates
  <2>2. HoldersReadASession'
    BY <1>2, <1>h DEF RequestCreate, HoldersReadASession, TypeOK, HandlerStates
  <2> QED
    BY <1>2, <2>1, <2>2 DEF RequestCreate, TypeOK
<1>3. ASSUME NEW n \in Names, RequestRead(h, n) PROVE Typed'
  <2>1. n \in created
    BY <1>3 DEF RequestRead, IsFirst, ActiveSessions, TypeOK
  <2>2. TypeOK'
    BY <1>h, <1>3, HoldType DEF RequestRead, Ops
  <2>3. HoldersReadASession'
    BY <1>3, <2>1 DEF RequestRead, Hold, HoldersReadASession, TypeOK
  <2> QED
    BY <2>2, <2>3
<1>4. ASSUME RequestWrite(h) PROVE Typed'
  <2>1. handler[h].pc = "holding" /\ handler[h].name \in Names
    BY <1>4, <1>h DEF RequestWrite, HoldersReadASession, TypeOK
  <2>2. PendingStatus(now) \in Statuses
    BY PendingStatusType DEF TypeOK
  <2>3. TypeOK'
    BY <1>4, <1>h, <2>1, <2>2, UpdateType DEF RequestWrite, TypeOK
  <2>4. HoldersReadASession'
    BY <1>4 DEF RequestWrite, Update, Invalidated, IdleHandler, HoldersReadASession, TypeOK, HandlerStates
  <2> QED
    BY <2>3, <2>4
<1>5. ASSUME Fail(h) PROVE Typed'
  BY <1>5, IdleHandlerType DEF Fail, TypeOK, HoldersReadASession, IdleHandler
<1> QED
  BY <1>1, <1>2, <1>3, <1>4, <1>5 DEF RequesterStep

\* Steps of a handler that serves another operation.
LEMMA TypedDecider ==
    ASSUME Typed, NEW h \in Deciders, DeciderStep(h)
    PROVE  Typed'
<1> USE DEF Typed
<1>h. h \in Handlers
  BY DEF Handlers
<1>1. ASSUME NEW op \in Ops, NEW c \in Callers, NEW n \in Names,
             n \in stored, Hold(h, op, c, n)
      PROVE  Typed'
  <2>1. TypeOK'
    BY <1>h, <1>1, HoldType
  <2>2. HoldersReadASession'
    BY <1>1 DEF Hold, HoldersReadASession, TypeOK
  <2> QED
    BY <2>1, <2>2
<1>2. ASSUME NEW c \in Callers, NEW n \in Names,
             \/ ReadApprove(h, c, n)  \/ ReadReject(h, c, n)
             \/ ReadWithdraw(h, c, n) \/ ReadDrop(h, c, n) \/ ReadCancel(h, c, n)
      PROVE  Typed'
  <2>1. n \in stored /\ \E op \in Ops : Hold(h, op, c, n)
    BY <1>2 DEF ReadApprove, ReadReject, ReadWithdraw, ReadDrop, ReadCancel, Ops
  <2> QED
    BY <1>1, <2>1
<1>3. ASSUME NEW s \in Statuses, handler[h].pc = "holding", Update(h, s),
             approvals' \subseteq [name : Names, by : Callers, at : Nat],
             revoked' \subseteq created
      PROVE  Typed'
  <2>1. handler[h].name \in Names
    BY <1>3, <1>h DEF HoldersReadASession, TypeOK
  <2>2. TypeOK'
    BY <1>3, <1>h, <2>1, UpdateType DEF TypeOK
  <2>3. HoldersReadASession'
    BY <1>3 DEF Update, Invalidated, IdleHandler, HoldersReadASession, TypeOK, HandlerStates
  <2> QED
    BY <2>2, <2>3
<1>4. ASSUME Approve(h) PROVE Typed'
  <2>1. /\ handler[h].copy \in Statuses /\ handler[h].by \in Callers
        /\ handler[h].name \in Names /\ now \in Nat
    BY <1>4, <1>h DEF Approve, HoldersReadASession, TypeOK, HandlerStates
  <2>2. ApprovedStatus(handler[h].copy, handler[h].by, now) \in Statuses
    BY <2>1, WrittenStatuses
  <2>3. approvals' \subseteq [name : Names, by : Callers, at : Nat]
    BY <1>4, <2>1 DEF Approve, TypeOK
  <2> QED
    BY <1>3, <1>4, <2>2, <2>3 DEF Approve, TypeOK
<1>5. ASSUME End(h) PROVE Typed'
  <2>1. /\ handler[h].copy \in Statuses /\ handler[h].by \in Callers
        /\ handler[h].name \in created /\ now \in Nat
    BY <1>5, <1>h DEF End, HoldersReadASession, TypeOK, HandlerStates
  <2>2. EndingStatus(handler[h], now) \in Statuses
    BY <1>5, <2>1, WrittenStatuses DEF End, EndingStatus
  <2>3. revoked' \subseteq created
    BY <1>5, <2>1 DEF End, TypeOK
  <2> QED
    BY <1>3, <1>5, <2>2, <2>3 DEF End, TypeOK
<1>6. ASSUME Fail(h) PROVE Typed'
  BY <1>6, IdleHandlerType DEF Fail, TypeOK, HoldersReadASession, IdleHandler
<1> QED
  BY <1>2, <1>4, <1>5, <1>6 DEF DeciderStep

\* A step of the cleaner that only moves its own state, and one that writes.
LEMMA TypedCleanerMoves ==
    ASSUME Typed, cleaner' \in CleanerStates, faults' \in Nat,
           UNCHANGED <<now, stored, status, owned, created, handler, approvals, revoked>>
    PROVE  Typed'
  BY DEF Typed, TypeOK, HoldersReadASession

\* A write or a deletion by the cleaner.
LEMMA TypedCleanerWrites ==
    ASSUME Typed, NEW n \in Names, NEW s \in Statuses, CleanerWrites(n, s),
           cleaner' \in CleanerStates, stored' \subseteq stored,
           UNCHANGED <<now, owned, created, faults, approvals, revoked>>
    PROVE  Typed'
<1>1. handler' \in [Handlers -> HandlerStates]
  BY InvalidatedType DEF CleanerWrites, Typed
<1>2. HoldersReadASession'
  BY DEF CleanerWrites, Invalidated, Typed, HoldersReadASession, TypeOK, HandlerStates
<1>3. status' \in [Names -> Statuses]
  BY DEF CleanerWrites, Typed, TypeOK
<1> QED
  BY <1>1, <1>2, <1>3 DEF Typed, TypeOK

\* Steps of the cleanup routine, its faults included.
LEMMA TypedCleaner ==
    ASSUME Typed, CleanerStep \/ CleanerListFault \/ \E n \in Names : CleanerItemFault(n)
    PROVE  Typed'
<1> USE DEF Typed
<1>1. ASSUME ListPending \/ ListApproved \/ ListCleanup PROVE Typed'
  <2>1. \E todo \in SUBSET Names, pc \in Phases, next \in Phases :
            cleaner' = Listed(todo, pc, next)
    <3>1. \A P \in SUBSET stored : P \in SUBSET Names
      BY DEF TypeOK
    <3> QED
      BY <1>1, <3>1 DEF ListPending, ListApproved, ListCleanup, Phases
  <2>2. cleaner' \in CleanerStates
    BY <2>1, ListedType
  <2> QED
    BY <1>1, <2>2, TypedCleanerMoves
       DEF ListPending, ListApproved, ListCleanup, HistoryUnchanged, TypeOK
<1>2. ASSUME NEW n \in Names, SkipPending(n) \/ SkipApproved(n) PROVE Typed'
  <2>1. cleaner' \in CleanerStates
    BY <1>2, FinishedType DEF SkipPending, SkipApproved, Phases
  <2> QED
    BY <1>2, <2>1, TypedCleanerMoves DEF SkipPending, SkipApproved, HistoryUnchanged, TypeOK
<1>3. ASSUME NEW n \in Names, ExpirePending(n) PROVE Typed'
  <2>1. cleaner' \in CleanerStates
    BY <1>3, FinishedType DEF ExpirePending, Phases
  <2>2. TimedOutStatus(cleaner.snap[n]) \in Statuses
    BY CleanerStatuses DEF TypeOK, CleanerStates
  <2> QED
    BY <1>3, <2>1, <2>2, TypedCleanerWrites DEF ExpirePending, HistoryUnchanged, TypeOK
<1>4. ASSUME NEW n \in Names, ExpireApproved(n) PROVE Typed'
  <2>1. cleaner' \in CleanerStates
    BY <1>4, ExpiringType DEF ExpireApproved, RefetchVersion, TypeOK, CleanerStates
  <2> QED
    BY <1>4, <2>1, TypedCleanerMoves DEF ExpireApproved, HistoryUnchanged, TypeOK
<1>5. ASSUME NEW n \in Names, ExpireUpdate(n) PROVE Typed'
  <2>1. cleaner' \in CleanerStates
    BY <1>5, FinishedType DEF ExpireUpdate, Phases
  <2>2. cleaner.snap[n] \in Statuses
    BY DEF TypeOK, CleanerStates
  <2> QED
    BY <1>5, <2>1, <2>2, TypedCleanerWrites DEF ExpireUpdate, HistoryUnchanged, TypeOK
<1>6. ASSUME NEW n \in Names, ExpireConflict(n) PROVE Typed'
  BY <1>6, RetriedType, TypedCleanerMoves DEF ExpireConflict, HistoryUnchanged, TypeOK
<1>7. ASSUME NEW n \in Names, Delete(n) PROVE Typed'
  <2>1. cleaner' \in CleanerStates
    BY <1>7, FinishedType DEF Delete, Phases
  <2>2. CleanerWrites(n, EmptyStatus) /\ stored' \subseteq stored
    BY <1>7 DEF Delete, CleanerWrites
  <2> QED
    BY <1>7, <2>1, <2>2, EmptyStatusType, TypedCleanerWrites DEF Delete, HistoryUnchanged
<1>8. ASSUME CleanerListFault PROVE Typed'
  <2>1. NextList[cleaner.pc] \in Phases
    BY <1>8 DEF CleanerListFault, NextList, Phases
  <2>2. cleaner' \in CleanerStates
    BY <1>8, <2>1 DEF CleanerListFault, TypeOK, CleanerStates, Phases
  <2> QED
    BY <1>8, <2>2, TypedCleanerMoves DEF CleanerListFault, HistoryUnchanged, TypeOK
<1>9. ASSUME NEW n \in Names, CleanerItemFault(n) PROVE Typed'
  <2>1. cleaner' \in CleanerStates
    BY <1>9, FailedType DEF CleanerItemFault
  <2> QED
    BY <1>9, <2>1, TypedCleanerMoves DEF CleanerItemFault, HistoryUnchanged, TypeOK
<1> QED
  BY <1>1, <1>2, <1>3, <1>4, <1>5, <1>6, <1>7, <1>8, <1>9 DEF CleanerStep

\* Every step keeps the types.
LEMMA TypedNext == Typed /\ [Next]_vars => Typed'
<1> SUFFICES ASSUME Typed, [Next]_vars PROVE Typed'
  OBVIOUS
<1>1. CASE \E h \in Requesters : RequesterStep(h)
  BY <1>1, TypedRequester
<1>2. CASE \E h \in Deciders : DeciderStep(h)
  BY <1>2, TypedDecider
<1>3. CASE CleanerStep \/ CleanerListFault \/ \E n \in Names : CleanerItemFault(n)
  BY <1>3, TypedCleaner
<1>4. CASE Crash
  BY <1>4, IdleHandlerType, StartedCleanerType
     DEF Crash, HistoryUnchanged, Typed, TypeOK, HoldersReadASession, IdleHandler
<1>5. CASE Tick
  BY <1>5 DEF Tick, HistoryUnchanged, Typed, TypeOK, HoldersReadASession
<1>6. CASE UNCHANGED vars
  BY <1>6 DEF vars, Typed, TypeOK, HoldersReadASession
<1> QED
  BY <1>1, <1>2, <1>3, <1>4, <1>5, <1>6 DEF Next

\* Objects, handlers, cleaner and history keep their types; in particular the
\* retry loop of ExpireApprovedSessions makes at most three attempts and every
\* recorded approval is one of a caller of the API.
THEOREM TypeCorrect == Spec => []TypeOK
<1>1. Typed => TypeOK
  BY DEF Typed
<1> QED
  BY TypedInit, TypedNext, <1>1, PTL DEF Spec

-----------------------------------------------------------------------------
(***************************************************************************)
(* Access was approved.                                                    *)
(***************************************************************************)

\* Approvals are never forgotten and time moves on.
LEMMA JustifiedLater ==
    ASSUME NEW s, NEW n, NEW A \in SUBSET [name : Names, by : Callers, at : Nat],
           NEW B, A \subseteq B, NEW t \in Nat, NEW u \in Nat, t <= u,
           Justified(s, n, A, t)
    PROVE  Justified(s, n, B, u)
  BY DEF Justified

\* A written status is justified if the one it was computed from is.
LEMMA JustifiedWrites ==
    ASSUME NEW s \in Statuses, NEW n \in Names, NEW A, NEW t \in Nat \ {0},
           NEW c \in Callers, Justified(s, n, A, t)
    PROVE  /\ Justified(RejectedStatus(s, c, t), n, A, t)
           /\ Justified(WithdrawnStatus(s, t), n, A, t)
           /\ Justified(DroppedStatus(s, t), n, A, t)
           /\ Justified(CanceledStatus(s, c, t), n, A, t)
<1>1. Justified(WithdrawnStatus(s, t), n, A, t)
  BY DEF Justified, WithdrawnStatus, Statuses
<1>2. \A r : Justified(EndedStatus(s, r, t), n, A, t)
  BY DEF Justified, EndedStatus, Statuses
<1>3. Justified(CanceledStatus(s, c, t), n, A, t)
  BY DEF Justified, CanceledStatus, EndedStatus, Statuses
<1>4. Justified(RejectedStatus(s, c, t), n, A, t)
  BY DEF Justified, RejectedStatus, Statuses
<1> QED
  BY <1>1, <1>2, <1>3, <1>4 DEF DroppedStatus

\* The same for the statuses the cleaner computes.
LEMMA JustifiedCleanerWrites ==
    ASSUME NEW s \in Statuses, NEW n, NEW A, NEW t, Justified(s, n, A, t)
    PROVE  /\ Justified(TimedOutStatus(s), n, A, t)
           /\ Justified(ExpiredStatus(s), n, A, t)
  BY DEF Justified, TimedOutStatus, ExpiredStatus, Statuses

\* A status without an expiry needs no approval.
LEMMA JustifiedFresh ==
    ASSUME NEW n, NEW A, NEW t \in Nat
    PROVE  /\ Justified(EmptyStatus, n, A, t)
           /\ Justified(PendingStatus(t), n, A, t)
<1>1. Justified(EmptyStatus, n, A, t)
  BY DEF Justified, EmptyStatus
<1>2. PendingStatus(t).expiresAt = Unset
  BY EmptyStatusType DEF PendingStatus, EmptyStatus, Statuses
<1> QED
  BY <1>1, <1>2 DEF Justified

\* An approval that is in the history justifies the status it writes.
LEMMA JustifiedApproval ==
    ASSUME NEW s \in Statuses, NEW n \in Names, NEW A, NEW t \in Nat,
           NEW c \in Callers, c \in ApproversOf[KeyOf[n]],
           [name |-> n, by |-> c, at |-> t] \in A
    PROVE  Justified(ApprovedStatus(s, c, t), n, A, t)
<1>1. /\ ApprovedStatus(s, c, t).expiresAt = t + ValidFor
      /\ ApprovedStatus(s, c, t).approver = c
  BY DEF ApprovedStatus, Statuses
<1> QED
  BY <1>1 DEF Justified

\* What a step has to satisfy to keep AccessInv: a status, listed or stored, is
\* kept, copied or justified, and a handler keeps what it holds or reads anew.
LEMMA AccessStep ==
    ASSUME Typed, Typed', AccessInv,
           now <= now', approvals \subseteq approvals',
           \A n \in Names : \/ status'[n] = status[n]
                            \/ Justified(status'[n], n, approvals', now'),
           \A n \in Names : \/ cleaner'.snap[n] = cleaner.snap[n]
                            \/ cleaner'.snap[n] = status[n]
                            \/ Justified(cleaner'.snap[n], n, approvals', now'),
           \A h \in Handlers : handler'[h].pc = "holding" =>
              \/ /\ handler[h].pc = "holding"
                 /\ handler'[h].name = handler[h].name
                 /\ handler'[h].copy = handler[h].copy
                 /\ handler'[h].op = handler[h].op
                 /\ handler'[h].by = handler[h].by
              \/ /\ handler'[h].name \in Names
                 /\ handler'[h].copy = status[handler'[h].name]
                 /\ handler'[h].op = "approve" =>
                       handler'[h].by \in ApproversOf[KeyOf[handler'[h].name]]
    PROVE  AccessInv'
<1>1. now \in Nat /\ now' \in Nat
      /\ approvals \in SUBSET [name : Names, by : Callers, at : Nat]
  BY DEF Typed, TypeOK
<1>2. \A s, n : Justified(s, n, approvals, now) => Justified(s, n, approvals', now')
  BY <1>1, JustifiedLater
<1>3. \A n \in Names : Justified(status'[n], n, approvals', now')
  BY <1>2 DEF AccessInv
<1>4. \A n \in Names : Justified(cleaner'.snap[n], n, approvals', now')
  BY <1>2 DEF AccessInv
<1>5. ASSUME NEW h \in Handlers, handler'[h].pc = "holding"
      PROVE  /\ Justified(handler'[h].copy, handler'[h].name, approvals', now')
             /\ handler'[h].op = "approve" =>
                   handler'[h].by \in ApproversOf[KeyOf[handler'[h].name]]
  BY <1>2, <1>5 DEF AccessInv
<1> QED
  BY <1>3, <1>4, <1>5 DEF AccessInv

\* A write that invalidates copies leaves the rest of a handler alone.
LEMMA InvalidatedKeeps ==
    ASSUME TypeOK, NEW n, NEW h \in Handlers
    PROVE  /\ Invalidated(n)[h].pc = handler[h].pc
           /\ Invalidated(n)[h].name = handler[h].name
           /\ Invalidated(n)[h].copy = handler[h].copy
           /\ Invalidated(n)[h].op = handler[h].op
           /\ Invalidated(n)[h].by = handler[h].by
           /\ Invalidated(n)[h].current =>
                 handler[h].current /\ handler[h].name # n
  BY DEF TypeOK, Invalidated, HandlerStates

\* The read of an object to be written.
LEMMA AccessHold ==
    ASSUME Typed, Typed', AccessInv, NEW h \in Handlers, NEW op, NEW c,
           NEW n \in Names, op = "approve" => c \in ApproversOf[KeyOf[n]],
           Hold(h, op, c, n)
    PROVE  AccessInv'
<1>1. now \in Nat /\ now' = now /\ approvals' = approvals /\ status' = status
      /\ cleaner' = cleaner
  BY DEF Hold, Typed, TypeOK
<1>2. \A g \in Handlers : g # h => handler'[g] = handler[g]
  BY DEF Hold, Typed, TypeOK
<1>3. /\ handler'[h].name = n /\ handler'[h].copy = status[n]
      /\ handler'[h].op = op /\ handler'[h].by = c
  BY DEF Hold, Typed, TypeOK
<1> QED
  BY <1>1, <1>2, <1>3, AccessStep

\* A handler writes a justified status.
LEMMA AccessUpdate ==
    ASSUME Typed, Typed', AccessInv, NEW h \in Handlers, NEW s, Update(h, s),
           approvals \subseteq approvals', handler[h].pc = "holding",
           Justified(s, handler[h].name, approvals', now)
    PROVE  AccessInv'
<1>1. now \in Nat /\ now' = now /\ cleaner'.snap = cleaner.snap
  BY DEF Update, Typed, TypeOK, CleanerStates
<1>2. \A m \in Names : \/ status'[m] = status[m]
                       \/ Justified(status'[m], m, approvals', now')
  BY <1>1 DEF Update, Typed, TypeOK
<1>3. handler'[h].pc # "holding"
  BY DEF Update, IdleHandler, Typed, TypeOK, Invalidated
<1>4. \A g \in Handlers : g # h => handler'[g] = Invalidated(handler[h].name)[g]
  BY DEF Update
<1>5. \A g \in Handlers : handler'[g].pc = "holding" =>
         /\ handler[g].pc = "holding"
         /\ handler'[g].name = handler[g].name
         /\ handler'[g].copy = handler[g].copy
         /\ handler'[g].op = handler[g].op
         /\ handler'[g].by = handler[g].by
  BY <1>3, <1>4, InvalidatedKeeps DEF Typed
<1> QED
  BY <1>1, <1>2, <1>5, AccessStep

\* The handlers.
LEMMA AccessHandlers ==
    ASSUME Typed, Typed', AccessInv, NEW h \in Handlers,
           RequesterStep(h) \/ DeciderStep(h)
    PROVE  AccessInv'
<1>t. now \in Nat \ {0}
  BY DEF Typed, TypeOK
<1>1. ASSUME NEW n \in Names, RequestRead(h, n) PROVE AccessInv'
  BY <1>1, AccessHold DEF RequestRead
<1>2. ASSUME RequestWrite(h) PROVE AccessInv'
  <2>1. Justified(PendingStatus(now), handler[h].name, approvals', now)
    BY <1>t, JustifiedFresh
  <2> QED
    BY <1>2, <2>1, AccessUpdate DEF RequestWrite
<1>3. ASSUME (\E k \in Keys : RequestCheck(h, k)) \/ (\E n \in Names : RequestCreate(h, n)) \/ Fail(h)
      PROVE  AccessInv'
  <2>1. /\ now' = now /\ approvals' = approvals /\ status' = status /\ cleaner' = cleaner
        /\ \A g \in Handlers : g # h => handler'[g] = handler[g]
    BY <1>3 DEF RequestCheck, RequestCreate, Fail, Typed, TypeOK
  <2>2. handler'[h].pc # "holding"
    <3>1. \A k \in Keys : RequestCheck(h, k) => handler'[h].pc = "checked"
      BY DEF RequestCheck, Typed, TypeOK, IdleHandler
    <3>2. \A n \in Names : RequestCreate(h, n) => handler'[h].pc = "created"
      BY DEF RequestCreate, Typed, TypeOK, HandlerStates
    <3>3. Fail(h) => handler'[h].pc = "idle"
      BY DEF Fail, Typed, TypeOK, IdleHandler
    <3> QED
      BY <1>3, <3>1, <3>2, <3>3
  <2> QED
    BY <1>t, <2>1, <2>2, AccessStep
<1>4. ASSUME NEW c \in Callers, NEW n \in Names,
             \/ ReadApprove(h, c, n)  \/ ReadReject(h, c, n)
             \/ ReadWithdraw(h, c, n) \/ ReadDrop(h, c, n) \/ ReadCancel(h, c, n)
      PROVE  AccessInv'
  <2>1. \E op \in Ops : /\ op = "approve" => c \in ApproversOf[KeyOf[n]]
                        /\ Hold(h, op, c, n)
    BY <1>4 DEF ReadApprove, ReadReject, ReadWithdraw, ReadDrop, ReadCancel, Ops,
                IsSessionApprover
  <2> QED
    BY <2>1, AccessHold
<1>5. ASSUME Approve(h) PROVE AccessInv'
  <2>1. /\ handler[h].copy \in Statuses /\ handler[h].by \in Callers
        /\ handler[h].name \in Names /\ handler[h].pc = "holding"
        /\ handler[h].by \in ApproversOf[KeyOf[handler[h].name]]
    BY <1>5 DEF Approve, Typed, HoldersReadASession, TypeOK, HandlerStates, AccessInv
  <2>2. [name |-> handler[h].name, by |-> handler[h].by, at |-> now] \in approvals'
    BY <1>5 DEF Approve
  <2>3. Justified(ApprovedStatus(handler[h].copy, handler[h].by, now),
                  handler[h].name, approvals', now)
    BY <1>t, <2>1, <2>2, JustifiedApproval
  <2> QED
    BY <1>5, <2>1, <2>3, AccessUpdate DEF Approve
<1>6. ASSUME End(h) PROVE AccessInv'
  <2>1. /\ handler[h].copy \in Statuses /\ handler[h].by \in Callers
        /\ handler[h].name \in Names /\ handler[h].pc = "holding"
        /\ Justified(handler[h].copy, handler[h].name, approvals, now)
    BY <1>6 DEF End, Typed, HoldersReadASession, TypeOK, HandlerStates, AccessInv
  <2>2. Justified(EndingStatus(handler[h], now), handler[h].name, approvals, now)
    BY <1>t, <1>6, <2>1, JustifiedWrites DEF End, EndingStatus
  <2> QED
    BY <1>6, <2>1, <2>2, AccessUpdate DEF End
<1> QED
  BY <1>1, <1>2, <1>3, <1>4, <1>5, <1>6 DEF RequesterStep, DeciderStep

\* The cleanup routine when it changes nothing but its own state ...
LEMMA AccessCleanerMoves ==
    ASSUME Typed, Typed', AccessInv,
           UNCHANGED <<now, status, handler, approvals>>,
           \A n \in Names : \/ cleaner'.snap[n] = cleaner.snap[n]
                            \/ cleaner'.snap[n] = status[n]
                            \/ Justified(cleaner'.snap[n], n, approvals, now)
    PROVE  AccessInv'
<1>1. now \in Nat
  BY DEF Typed, TypeOK
<1> QED
  BY <1>1, AccessStep

\* ... and when it writes.
LEMMA AccessCleanerWrites ==
    ASSUME Typed, Typed', AccessInv, NEW n \in Names, NEW s, CleanerWrites(n, s),
           UNCHANGED <<now, approvals>>, Justified(s, n, approvals, now),
           \A m \in Names : \/ cleaner'.snap[m] = cleaner.snap[m]
                            \/ Justified(cleaner'.snap[m], m, approvals, now)
    PROVE  AccessInv'
<1>1. now \in Nat
  BY DEF Typed, TypeOK
<1>2. \A m \in Names : \/ status'[m] = status[m]
                       \/ Justified(status'[m], m, approvals', now')
  BY DEF CleanerWrites, Typed, TypeOK
<1>3. \A g \in Handlers :
         /\ handler'[g].pc = handler[g].pc
         /\ handler'[g].name = handler[g].name
         /\ handler'[g].copy = handler[g].copy
         /\ handler'[g].op = handler[g].op
         /\ handler'[g].by = handler[g].by
  BY InvalidatedKeeps DEF CleanerWrites, Typed
<1> QED
  BY <1>1, <1>2, <1>3, AccessStep

\* The statuses that the routine holds after each of its moves.
LEMMA AccessSnaps ==
    ASSUME Typed, AccessInv, NEW n \in Names
    PROVE  /\ \A todo, pc, next : \A m \in Names :
                 \/ Listed(todo, pc, next).snap[m] = status[m]
                 \/ Justified(Listed(todo, pc, next).snap[m], m, approvals, now)
           /\ \A pc, next : \A m \in Names :
                 \/ Finished(n, pc, next).snap[m] = cleaner.snap[m]
                 \/ Justified(Finished(n, pc, next).snap[m], m, approvals, now)
           /\ \A m \in Names :
                 \/ RetriedCleaner(n).snap[m] = cleaner.snap[m]
                 \/ Justified(RetriedCleaner(n).snap[m], m, approvals, now)
           /\ \A m \in Names : LET snap == [cleaner.snap EXCEPT ![n] = ExpiredStatus(@)] IN
                 snap[m] = cleaner.snap[m] \/ Justified(snap[m], m, approvals, now)
<1>t. /\ now \in Nat /\ status \in [Names -> Statuses]
      /\ cleaner.snap \in [Names -> Statuses]
  BY DEF Typed, TypeOK, CleanerStates
<1>e. \A m \in Names : Justified(EmptyStatus, m, approvals, now)
  BY <1>t, JustifiedFresh
<1>1. \A todo, pc, next : \A m \in Names :
         \/ Listed(todo, pc, next).snap[m] = status[m]
         \/ Justified(Listed(todo, pc, next).snap[m], m, approvals, now)
  BY <1>e DEF Listed
<1>2. \A pc, next : \A m \in Names :
         \/ Finished(n, pc, next).snap[m] = cleaner.snap[m]
         \/ Justified(Finished(n, pc, next).snap[m], m, approvals, now)
  BY <1>t, <1>e DEF Finished
<1>3. /\ Justified(ExpiredStatus(status[n]), n, approvals, now)
      /\ Justified(ExpiredStatus(cleaner.snap[n]), n, approvals, now)
  BY <1>t, JustifiedCleanerWrites DEF AccessInv
<1>4. \A m \in Names :
         \/ RetriedCleaner(n).snap[m] = cleaner.snap[m]
         \/ Justified(RetriedCleaner(n).snap[m], m, approvals, now)
  <2>1. CASE n \in stored /\ cleaner.retries < 2
    <3>1. RetriedCleaner(n).snap = [cleaner.snap EXCEPT ![n] = ExpiredStatus(status[n])]
      BY <2>1 DEF RetriedCleaner, Typed, TypeOK, CleanerStates
    <3> QED
      BY <1>t, <1>3, <3>1
  <2>2. CASE ~(n \in stored /\ cleaner.retries < 2)
    BY <1>2, <2>2 DEF RetriedCleaner
  <2> QED
    BY <2>1, <2>2
<1>5. \A m \in Names : LET snap == [cleaner.snap EXCEPT ![n] = ExpiredStatus(@)] IN
         snap[m] = cleaner.snap[m] \/ Justified(snap[m], m, approvals, now)
  BY <1>t, <1>3
<1> QED
  BY <1>1, <1>2, <1>4, <1>5

\* The cleanup routine and its faults.
LEMMA AccessCleaner ==
    ASSUME Typed, Typed', AccessInv,
           CleanerStep \/ CleanerListFault \/ \E n \in Names : CleanerItemFault(n)
    PROVE  AccessInv'
<1>t. /\ now \in Nat /\ status \in [Names -> Statuses]
      /\ cleaner.snap \in [Names -> Statuses]
  BY DEF Typed, TypeOK, CleanerStates
<1>1. ASSUME ListPending \/ ListApproved \/ ListCleanup PROVE AccessInv'
  <2>1. \E todo, pc, next : cleaner' = Listed(todo, pc, next)
    BY <1>1 DEF ListPending, ListApproved, ListCleanup
  <2>2. \A m \in Names : \/ cleaner'.snap[m] = status[m]
                         \/ Justified(cleaner'.snap[m], m, approvals, now)
    <3>1. \A todo, pc, next : \A m \in Names :
             \/ Listed(todo, pc, next).snap[m] = status[m]
             \/ Justified(Listed(todo, pc, next).snap[m], m, approvals, now)
      BY AccessSnaps
    <3> QED
      BY <2>1, <3>1
  <2> QED
    BY <1>1, <2>2, AccessCleanerMoves
       DEF ListPending, ListApproved, ListCleanup, HistoryUnchanged
<1>2. ASSUME NEW n \in Names, NEW pc, NEW next, cleaner' = Finished(n, pc, next)
      PROVE  \A m \in Names : \/ cleaner'.snap[m] = cleaner.snap[m]
                              \/ Justified(cleaner'.snap[m], m, approvals, now)
  BY <1>2, AccessSnaps
<1>3. ASSUME NEW n \in Names, SkipPending(n) \/ SkipApproved(n) PROVE AccessInv'
  <2>1. \E pc, next : cleaner' = Finished(n, pc, next)
    BY <1>3 DEF SkipPending, SkipApproved
  <2> QED
    BY <1>2, <1>3, <2>1, AccessCleanerMoves DEF SkipPending, SkipApproved, HistoryUnchanged
<1>4. ASSUME NEW n \in Names, ExpirePending(n) PROVE AccessInv'
  <2>1. Justified(TimedOutStatus(cleaner.snap[n]), n, approvals, now)
    BY <1>t, JustifiedCleanerWrites DEF AccessInv
  <2> QED
    BY <1>2, <1>4, <2>1, AccessCleanerWrites DEF ExpirePending, HistoryUnchanged
<1>5. ASSUME NEW n \in Names, NEW c \in CleanerStates,
             c.snap = [cleaner.snap EXCEPT ![n] = ExpiredStatus(@)]
      PROVE  \A m \in Names : \/ c.snap[m] = cleaner.snap[m]
                              \/ Justified(c.snap[m], m, approvals, now)
  BY <1>5, AccessSnaps
<1>6. ASSUME NEW n \in Names, ExpireApproved(n) PROVE AccessInv'
  <2>1. cleaner' \in CleanerStates
        /\ cleaner'.snap = [cleaner.snap EXCEPT ![n] = ExpiredStatus(@)]
    BY <1>6 DEF ExpireApproved, Typed, TypeOK, CleanerStates
  <2> QED
    BY <1>5, <1>6, <2>1, AccessCleanerMoves DEF ExpireApproved, HistoryUnchanged
<1>7. ASSUME NEW n \in Names, ExpireUpdate(n) PROVE AccessInv'
  <2>1. Justified(cleaner.snap[n], n, approvals, now)
    BY DEF AccessInv
  <2> QED
    BY <1>2, <1>7, <2>1, AccessCleanerWrites DEF ExpireUpdate, HistoryUnchanged
<1>8. ASSUME NEW n \in Names, ExpireConflict(n) PROVE AccessInv'
  BY <1>8, AccessSnaps, AccessCleanerMoves DEF ExpireConflict, HistoryUnchanged
<1>9. ASSUME NEW n \in Names, Delete(n) PROVE AccessInv'
  <2>1. Justified(EmptyStatus, n, approvals, now)
    BY <1>t, JustifiedFresh
  <2>2. CleanerWrites(n, EmptyStatus)
    BY <1>9 DEF Delete, CleanerWrites
  <2> QED
    BY <1>2, <1>9, <2>1, <2>2, AccessCleanerWrites DEF Delete, HistoryUnchanged
<1>10. ASSUME CleanerListFault PROVE AccessInv'
  <2>1. cleaner'.snap = cleaner.snap
    BY <1>10 DEF CleanerListFault, Typed, TypeOK, CleanerStates
  <2> QED
    BY <1>10, <2>1, AccessCleanerMoves DEF CleanerListFault, HistoryUnchanged
<1>11. ASSUME NEW n \in Names, CleanerItemFault(n) PROVE AccessInv'
  <2>1. \/ \E pc, next : cleaner' = Finished(n, pc, next)
        \/ cleaner' = RetriedCleaner(n)
        \/ cleaner' = [cleaner EXCEPT !.pc = "updating", !.snap[n] = ExpiredStatus(@)]
    <3>1. cleaner.pc \in {"pending", "approved", "updating", "cleanup"}
      BY <1>11 DEF CleanerItemFault, Typed, TypeOK, CleanerStates, NextList
    <3> QED
      BY <1>11, <3>1 DEF CleanerItemFault, FailedCleaner
  <2>2. cleaner' = [cleaner EXCEPT !.pc = "updating", !.snap[n] = ExpiredStatus(@)] =>
           cleaner'.snap = [cleaner.snap EXCEPT ![n] = ExpiredStatus(@)]
    BY DEF Typed, TypeOK, CleanerStates
  <2>3. \A m \in Names : \/ cleaner'.snap[m] = cleaner.snap[m]
                         \/ Justified(cleaner'.snap[m], m, approvals, now)
    BY <1>2, <1>5, <2>1, <2>2, AccessSnaps DEF Typed, TypeOK
  <2> QED
    BY <1>11, <2>3, AccessCleanerMoves DEF CleanerItemFault, HistoryUnchanged
<1> QED
  BY <1>1, <1>3, <1>4, <1>6, <1>7, <1>8, <1>9, <1>10, <1>11 DEF CleanerStep

\* Nothing is approved at the start and nothing grants access.
LEMMA AccessInit == Init => AccessInv
<1> SUFFICES ASSUME Init PROVE AccessInv
  OBVIOUS
<1>1. \A n \in Names : Justified(EmptyStatus, n, approvals, now)
  BY JustifiedFresh DEF Init
<1> QED
  BY <1>1 DEF Init, AccessInv, StartedCleaner, NoSnap, IdleHandler

\* Every step keeps the stored statuses and the copies in flight justified.
LEMMA AccessNext == Typed /\ Typed' /\ AccessInv /\ [Next]_vars => AccessInv'
<1> SUFFICES ASSUME Typed, Typed', AccessInv, [Next]_vars PROVE AccessInv'
  OBVIOUS
<1>t. now \in Nat
  BY DEF Typed, TypeOK
<1>1. CASE \/ \E h \in Requesters : RequesterStep(h)
           \/ \E h \in Deciders : DeciderStep(h)
  BY <1>1, AccessHandlers DEF Handlers
<1>2. CASE CleanerStep \/ CleanerListFault \/ \E n \in Names : CleanerItemFault(n)
  BY <1>2, AccessCleaner
<1>3. CASE Crash
  <2>1. \A n \in Names : Justified(EmptyStatus, n, approvals, now)
    BY <1>t, JustifiedFresh
  <2>2. /\ \A n \in Names : cleaner'.snap[n] = EmptyStatus
        /\ \A h \in Handlers : handler'[h].pc # "holding"
    BY <1>3 DEF Crash, StartedCleaner, NoSnap, IdleHandler
  <2> QED
    BY <1>t, <1>3, <2>1, <2>2, AccessStep DEF Crash, HistoryUnchanged
<1>4. CASE Tick
  <2>1. now <= now'
    BY <1>t, <1>4 DEF Tick
  <2> QED
    BY <1>4, <2>1, AccessStep DEF Tick, HistoryUnchanged
<1>5. CASE UNCHANGED vars
  BY <1>5 DEF vars, AccessInv
<1> QED
  BY <1>1, <1>2, <1>3, <1>4, <1>5 DEF Next

\* Whatever requests, decisions, the cleanup routine and crashes do, a session
\* for which the webhook's getSessions returns true was approved, by the
\* approver its status names, less than maxValidFor ago.
THEOREM AccessSafe == Spec => []AccessWasApproved
<1>1. Init => Typed /\ AccessInv
  BY TypedInit, AccessInit
<1>2. (Typed /\ AccessInv) /\ [Next]_vars => (Typed /\ AccessInv)'
  BY TypedNext, AccessNext
<1>3. Typed /\ AccessInv => AccessWasApproved
  <2> SUFFICES ASSUME Typed, AccessInv, NEW n \in Names, Grants(n)
               PROVE  \E a \in approvals :
                         /\ a.name = n
                         /\ a.by = status[n].approver
                         /\ a.by \in ApproversOf[KeyOf[n]]
                         /\ a.at <= now /\ now < a.at + ValidFor
    BY DEF AccessWasApproved
  <2>1. PICK a \in approvals : /\ a.name = n
                               /\ a.by = status[n].approver
                               /\ a.by \in ApproversOf[KeyOf[n]]
                               /\ a.at <= now
                               /\ status[n].expiresAt = a.at + ValidFor
    BY DEF AccessInv, Justified, Grants, GrantsAccess
  <2>2. now < a.at + ValidFor
    BY <2>1, DurationAssumption DEF Grants, GrantsAccess, Typed, TypeOK, Statuses
  <2> QED
    BY <2>1, <2>2
<1> QED
  BY <1>1, <1>2, <1>3, PTL DEF Spec

-----------------------------------------------------------------------------
(***************************************************************************)
(* Revocation is final.                                                    *)
(***************************************************************************)

\* Time does not bring a status back.
LEMMA DeadLater ==
    ASSUME NEW s \in Statuses, NEW t \in Nat, NEW u \in Nat, t <= u
    PROVE  /\ IsSessionExpired(s, t) => IsSessionExpired(s, u)
           /\ IsDead(s, t) => IsDead(s, u)
  BY DEF IsSessionExpired, IsDead, Statuses

\* What a user writes to end a session is dead and not Pending.
LEMMA EndingIsDead ==
    ASSUME Typed, NEW h \in Handlers, End(h)
    PROVE  /\ EndingStatus(handler[h], now).state # "Pending"
           /\ IsDead(EndingStatus(handler[h], now), now)
<1> DEFINE s == handler[h].copy
<1>1. s \in Statuses /\ now # 0
  BY DEF Typed, TypeOK, HandlerStates
<1> HIDE DEF s
<1>2. \A c : RejectedStatus(s, c, now).state = "Rejected" /\ RejectedStatus(s, c, now).rejectedAt = now
  BY <1>1 DEF RejectedStatus, Statuses
<1>3. WithdrawnStatus(s, now).state = "Withdrawn" /\ WithdrawnStatus(s, now).rejectedAt = now
  BY <1>1 DEF WithdrawnStatus, Statuses
<1>4. \A r : EndedStatus(s, r, now).state = "Expired" /\ EndedStatus(s, r, now).rejectedAt = now
  BY <1>1 DEF EndedStatus, Statuses
<1>5. \A c : /\ CanceledStatus(s, c, now).state = "Expired"
             /\ CanceledStatus(s, c, now).rejectedAt = now
  BY <1>1 DEF CanceledStatus, EndedStatus, Statuses
<1>6. DroppedStatus(s, now).state # "Pending" /\ DroppedStatus(s, now).rejectedAt = now
  BY <1>3, <1>4 DEF DroppedStatus
<1>7. /\ EndingStatus(handler[h], now).state # "Pending"
      /\ EndingStatus(handler[h], now).rejectedAt = now
  <2>1. handler[h].op \in {"reject", "withdraw", "drop", "cancel"}
    BY DEF End
  <2> QED
    BY <2>1, <1>2, <1>3, <1>5, <1>6 DEF EndingStatus, s
<1> QED
  BY <1>1, <1>7 DEF IsDead

\* The cleaner's transitions keep the times, hence what is dead.
LEMMA CleanerStatusTimes ==
    ASSUME NEW s \in Statuses
    PROVE  /\ TimedOutStatus(s).state = "ApprovalTimeout"
           /\ TimedOutStatus(s).rejectedAt = s.rejectedAt
           /\ TimedOutStatus(s).expiresAt = s.expiresAt
           /\ TimedOutStatus(s).retainedUntil = s.retainedUntil
           /\ ExpiredStatus(s).state = "Expired"
           /\ ExpiredStatus(s).rejectedAt = s.rejectedAt
           /\ ExpiredStatus(s).expiresAt = s.expiresAt
           /\ ExpiredStatus(s).retainedUntil = s.retainedUntil
  BY DEF TimedOutStatus, ExpiredStatus, Statuses

\* The read of an object that is not revoked, or is not to be revived.
LEMMA RevocationHold ==
    ASSUME Typed, RevocationInv, NEW h \in Handlers, NEW op, NEW c, NEW n \in Names,
           op \in {"approve", "request"} => n \notin revoked, Hold(h, op, c, n)
    PROVE  RevocationInv'
<1>1. UNCHANGED <<now, stored, status, cleaner, revoked>>
  BY DEF Hold
<1>2. \A g \in Handlers : g # h => handler'[g] = handler[g]
  BY DEF Hold, Typed, TypeOK
<1>3. handler'[h].name = n /\ handler'[h].op = op
  BY DEF Hold, Typed, TypeOK
<1>4. RevokedStaysDead'
  BY <1>1, <1>2, <1>3 DEF RevocationInv, RevokedStaysDead
<1>5. CleanerKeepsDead'
  BY <1>1 DEF RevocationInv, CleanerKeepsDead
<1> QED
  BY <1>4, <1>5 DEF RevocationInv

\* The write of a handler: dead if the session is revoked.
LEMMA RevocationUpdate ==
    ASSUME Typed, RevocationInv, NEW h \in Handlers, NEW s, Update(h, s),
           revoked' \subseteq revoked \cup {handler[h].name},
           handler[h].name \in revoked' => s.state # "Pending" /\ IsDead(s, now)
    PROVE  RevocationInv'
<1> DEFINE n == handler[h].name
<1>1. /\ now' = now /\ stored' = stored
      /\ \A m \in Names : m # n => status'[m] = status[m]
      /\ n \in Names => status'[n] = s
  BY DEF Update, Typed, TypeOK
<1>2. /\ cleaner'.pc = cleaner.pc /\ cleaner'.todo = cleaner.todo
      /\ cleaner'.snap = cleaner.snap /\ cleaner'.fresh = cleaner.fresh \ {n}
  BY DEF Update, Typed, TypeOK, CleanerStates
<1>3. ~handler'[h].current
  BY DEF Update, IdleHandler, Typed, TypeOK, Invalidated
<1>4. \A g \in Handlers : handler'[g].current =>
         /\ handler[g].current /\ handler[g].name # n
         /\ handler'[g].op = handler[g].op /\ handler'[g].name = handler[g].name
  <2>1. \A g \in Handlers : g # h => handler'[g] = Invalidated(n)[g]
    BY DEF Update
  <2> QED
    BY <1>3, <2>1, InvalidatedKeeps DEF Typed
<1>5. stored \subseteq Names /\ cleaner.todo \subseteq Names
  BY DEF Typed, TypeOK, CleanerStates
<1> HIDE DEF n
<1>6. RevokedStaysDead'
  <2>1. ASSUME NEW m \in revoked' \cap stored'
        PROVE  status'[m].state # "Pending" /\ IsDead(status'[m], now')
    <3>1. m \in Names
      BY <1>1, <1>5
    <3>2. CASE m = n
      BY <1>1, <3>1, <3>2 DEF n
    <3>3. CASE m # n
      BY <1>1, <3>1, <3>3 DEF n, RevocationInv, RevokedStaysDead
    <3> QED
      BY <3>2, <3>3
  <2>2. ASSUME NEW g \in Handlers, handler'[g].current,
               handler'[g].op \in {"approve", "request"}
        PROVE  handler'[g].name \notin revoked'
    BY <1>4, <2>2 DEF n, RevocationInv, RevokedStaysDead
  <2> QED
    BY <2>1, <2>2 DEF RevokedStaysDead
<1>7. CleanerKeepsDead'
  BY <1>1, <1>2, <1>5 DEF RevocationInv, CleanerKeepsDead, IsFirst
<1> QED
  BY <1>6, <1>7 DEF RevocationInv

\* Steps of the handlers.
LEMMA RevocationHandlers ==
    ASSUME Typed, RevocationInv, NEW h \in Handlers, RequesterStep(h) \/ DeciderStep(h)
    PROVE  RevocationInv'
<1>1. ASSUME NEW n \in Names, RequestRead(h, n) PROVE RevocationInv'
  <2>1. n \in stored /\ ~IsDead(status[n], now)
    BY <1>1 DEF RequestRead, IsFirst, ActiveSessions, IsSessionActive, IsDead
  <2>2. n \notin revoked
    BY <2>1 DEF RevocationInv, RevokedStaysDead
  <2> QED
    BY <1>1, <2>2, RevocationHold DEF RequestRead
<1>2. ASSUME RequestWrite(h) \/ Approve(h) PROVE RevocationInv'
  <2>1. handler[h].op \in {"approve", "request"} /\ revoked' = revoked
    BY <1>2 DEF RequestWrite, Approve
  <2>2. handler[h].name \notin revoked'
    BY <1>2, <2>1 DEF RequestWrite, Approve, Update, Unchanged, RevocationInv, RevokedStaysDead
  <2>3. \E s : Update(h, s)
    BY <1>2 DEF RequestWrite, Approve
  <2> QED
    BY <2>1, <2>2, <2>3, RevocationUpdate
<1>3. ASSUME End(h) PROVE RevocationInv'
  <2>1. Update(h, EndingStatus(handler[h], now)) /\ revoked' = revoked \cup {handler[h].name}
    BY <1>3 DEF End
  <2> QED
    BY <1>3, <2>1, EndingIsDead, RevocationUpdate
<1>4. ASSUME NEW c \in Callers, NEW n \in Names, ReadApprove(h, c, n) PROVE RevocationInv'
  <2>1. n \notin revoked
    BY <1>4 DEF ReadApprove, RevocationInv, RevokedStaysDead
  <2> QED
    BY <1>4, <2>1, RevocationHold DEF ReadApprove
<1>5. ASSUME NEW c \in Callers, NEW n \in Names,
             \/ ReadReject(h, c, n) \/ ReadWithdraw(h, c, n)
             \/ ReadDrop(h, c, n)   \/ ReadCancel(h, c, n)
      PROVE  RevocationInv'
  <2>1. \E op \in {"reject", "withdraw", "drop", "cancel"} : Hold(h, op, c, n)
    BY <1>5 DEF ReadReject, ReadWithdraw, ReadDrop, ReadCancel
  <2> QED
    BY <2>1, RevocationHold
<1>6. ASSUME (\E k \in Keys : RequestCheck(h, k)) \/ Fail(h) \/ \E n \in Names : RequestCreate(h, n)
      PROVE  RevocationInv'
  <2>1. /\ UNCHANGED <<now, status, cleaner, revoked>>
        /\ \A g \in Handlers : g # h => handler'[g] = handler[g]
    BY <1>6 DEF RequestCheck, RequestCreate, Fail, Typed, TypeOK
  <2>2. \/ ~handler'[h].current
        \/ /\ handler'[h].current = handler[h].current
           /\ handler'[h].op = handler[h].op /\ handler'[h].name = handler[h].name
    <3>1. \A k \in Keys : RequestCheck(h, k) => ~handler'[h].current
      BY DEF RequestCheck, Typed, TypeOK, IdleHandler
    <3>2. \A n \in Names : RequestCreate(h, n) =>
             /\ handler'[h].current = handler[h].current
             /\ handler'[h].op = handler[h].op /\ handler'[h].name = handler[h].name
      BY DEF RequestCreate, Typed, TypeOK, HandlerStates
    <3>3. Fail(h) => ~handler'[h].current
      BY DEF Fail, Typed, TypeOK, IdleHandler
    <3> QED
      BY <1>6, <3>1, <3>2, <3>3
  <2>3. revoked \cap stored' \subseteq revoked \cap stored
    <3>1. \A n \in Names : RequestCreate(h, n) => n \notin revoked /\ stored' = stored \cup {n}
      BY DEF RequestCreate, Typed, TypeOK
    <3> QED
      BY <1>6, <3>1 DEF RequestCheck, Fail
  <2>4. RevokedStaysDead'
    BY <2>1, <2>2, <2>3 DEF RevocationInv, RevokedStaysDead
  <2>5. CleanerKeepsDead'
    BY <2>1 DEF RevocationInv, CleanerKeepsDead
  <2> QED
    BY <2>4, <2>5 DEF RevocationInv
<1> QED
  BY <1>1, <1>2, <1>3, <1>4, <1>5, <1>6 DEF RequesterStep, DeciderStep

\* The cleanup routine when it changes nothing but its own state ...
LEMMA RevocationCleanerMoves ==
    ASSUME RevocationInv, UNCHANGED <<now, stored, status, handler, revoked>>,
           CleanerKeepsDead'
    PROVE  RevocationInv'
  BY DEF RevocationInv, RevokedStaysDead

\* ... and when it writes or deletes.
LEMMA RevocationCleanerWrites ==
    ASSUME Typed, RevocationInv, NEW n \in Names, NEW s, CleanerWrites(n, s),
           UNCHANGED <<now, revoked>>, stored' \subseteq stored,
           n \in revoked \cap stored' => s.state # "Pending" /\ IsDead(s, now),
           CleanerKeepsDead'
    PROVE  RevocationInv'
<1>1. /\ \A m \in Names : m # n => status'[m] = status[m]
      /\ status'[n] = s /\ stored \subseteq Names
  BY DEF CleanerWrites, Typed, TypeOK
<1>2. \A m \in revoked' \cap stored' : status'[m].state # "Pending" /\ IsDead(status'[m], now')
  BY <1>1 DEF RevocationInv, RevokedStaysDead
<1>3. \A g \in Handlers :
         handler'[g].current /\ handler'[g].op \in {"approve", "request"} =>
             handler'[g].name \notin revoked'
  BY InvalidatedKeeps DEF CleanerWrites, Typed, RevocationInv, RevokedStaysDead
<1> QED
  BY <1>2, <1>3 DEF RevocationInv, RevokedStaysDead

\* A list of sessions is what is stored, and no update is under way.
LEMMA ListedKeepsDead ==
    ASSUME NEW todo \in SUBSET Names, NEW pc, NEW next, status' = status,
           pc # "updating", next \notin {"pending", "updating"},
           cleaner' = Listed(todo, pc, next)
    PROVE  CleanerKeepsDead'
  BY DEF CleanerKeepsDead, Listed

\* The items that remain are as they were.
LEMMA FinishedKeepsDead ==
    ASSUME Typed, CleanerKeepsDead, NEW n \in Names, NEW pc, NEW next,
           pc # "updating", next \notin {"pending", "updating"},
           pc = "pending" => cleaner.pc = "pending",
           \A m \in Names : m # n => status'[m] = status[m],
           cleaner' = Finished(n, pc, next)
    PROVE  CleanerKeepsDead'
<1>1. /\ cleaner'.pc \in {pc, next} /\ cleaner'.todo = cleaner.todo \ {n}
      /\ cleaner'.fresh = cleaner.fresh \ {n}
      /\ \A m \in Names : m # n => cleaner'.snap[m] = cleaner.snap[m]
  BY DEF Finished, Typed, TypeOK, CleanerStates
<1>2. cleaner.todo \subseteq Names
  BY DEF Typed, TypeOK, CleanerStates
<1> QED
  BY <1>1, <1>2 DEF CleanerKeepsDead

\* Names are listed in order, so the routine works on one item at a time.
LEMMA FirstIsUnique ==
    ASSUME NEW S \in SUBSET Names, NEW m, NEW n, IsFirst(m, S), IsFirst(n, S)
    PROVE  m = n
<1>1. m \in Nat /\ n \in Nat /\ m <= n /\ n <= m
  BY LifecycleAssumption DEF IsFirst
<1> QED
  BY <1>1

\* The retry writes the times it read again.
LEMMA RetriedKeepsDead ==
    ASSUME Typed, CleanerKeepsDead, NEW n \in Names, IsFirst(n, cleaner.todo),
           cleaner.pc = "updating", status' = status, cleaner' = RetriedCleaner(n)
    PROVE  CleanerKeepsDead'
<1>1. CASE n \in stored /\ cleaner.retries < 2
  <2>1. /\ cleaner'.pc = cleaner.pc /\ cleaner'.todo = cleaner.todo
        /\ cleaner'.snap[n] = ExpiredStatus(status[n])
    BY <1>1 DEF RetriedCleaner, Typed, TypeOK, CleanerStates
  <2>2. status[n] \in Statuses /\ cleaner.todo \in SUBSET Names
    BY DEF Typed, TypeOK, CleanerStates
  <2> QED
    BY <2>1, <2>2, CleanerStatusTimes, FirstIsUnique DEF CleanerKeepsDead
<1>2. CASE ~(n \in stored /\ cleaner.retries < 2)
  BY <1>2, FinishedKeepsDead DEF RetriedCleaner
<1> QED
  BY <1>1, <1>2

\* A listed session about to be marked Expired has expired.
LEMMA ExpiringKeepsDead ==
    ASSUME Typed, NEW n \in Names, IsFirst(n, cleaner.todo), now' = now,
           IsSessionExpired(cleaner.snap[n], now),
           cleaner'.pc = "updating", cleaner'.todo = cleaner.todo,
           cleaner'.snap = [cleaner.snap EXCEPT ![n] = ExpiredStatus(@)]
    PROVE  CleanerKeepsDead'
<1>1. /\ cleaner.snap \in [Names -> Statuses] /\ cleaner.todo \in SUBSET Names
  BY DEF Typed, TypeOK, CleanerStates
<1>2. cleaner'.snap[n] = ExpiredStatus(cleaner.snap[n])
  BY <1>1
<1>3. /\ cleaner'.snap[n].state = "Expired"
      /\ cleaner'.snap[n].expiresAt = cleaner.snap[n].expiresAt
  BY <1>1, <1>2, CleanerStatusTimes
<1>4. IsSessionExpired(cleaner'.snap[n], now')
  BY <1>3 DEF IsSessionExpired
<1> QED
  BY <1>1, <1>3, <1>4, FirstIsUnique DEF CleanerKeepsDead

\* Steps of the cleanup routine, its faults included.
LEMMA RevocationCleaner ==
    ASSUME Typed, RevocationInv,
           CleanerStep \/ CleanerListFault \/ \E n \in Names : CleanerItemFault(n)
    PROVE  RevocationInv'
<1>t. /\ now \in Nat /\ status \in [Names -> Statuses] /\ stored \subseteq Names
      /\ cleaner.snap \in [Names -> Statuses] /\ cleaner.todo \in SUBSET Names
  BY DEF Typed, TypeOK, CleanerStates
<1>k. CleanerKeepsDead
  BY DEF RevocationInv
<1>1. ASSUME ListPending \/ ListApproved \/ ListCleanup PROVE RevocationInv'
  <2>1. \E todo \in SUBSET Names :
           \/ cleaner' = Listed(todo, "pending", "listApproved")
           \/ cleaner' = Listed(todo, "approved", "listCleanup")
           \/ cleaner' = Listed(todo, "cleanup", "listPending")
    <3>1. \A P \in SUBSET stored : P \in SUBSET Names
      BY <1>t
    <3> QED
      BY <1>1, <3>1 DEF ListPending, ListApproved, ListCleanup
  <2>2. CleanerKeepsDead'
    BY <1>1, <2>1, ListedKeepsDead DEF ListPending, ListApproved, ListCleanup
  <2> QED
    BY <1>1, <2>2, RevocationCleanerMoves
       DEF ListPending, ListApproved, ListCleanup, HistoryUnchanged
<1>2. ASSUME NEW n \in Names, SkipPending(n) \/ SkipApproved(n) PROVE RevocationInv'
  <2>1. CleanerKeepsDead'
    BY <1>2, <1>k, FinishedKeepsDead DEF SkipPending, SkipApproved
  <2> QED
    BY <1>2, <2>1, RevocationCleanerMoves DEF SkipPending, SkipApproved, HistoryUnchanged
<1>3. ASSUME NEW n \in Names, ExpirePending(n) PROVE RevocationInv'
  <2>1. \A m \in Names : m # n => status'[m] = status[m]
    BY <1>3, <1>t DEF ExpirePending, CleanerWrites
  <2>2. CleanerKeepsDead'
    BY <1>3, <1>k, <2>1, FinishedKeepsDead DEF ExpirePending
  <2>3. cleaner.snap[n] = status[n]
    BY <1>3, <1>k DEF ExpirePending, UnchangedItem, IsFirst, CleanerKeepsDead
  <2>4. /\ TimedOutStatus(cleaner.snap[n]).state = "ApprovalTimeout"
        /\ TimedOutStatus(cleaner.snap[n]).rejectedAt = status[n].rejectedAt
        /\ TimedOutStatus(cleaner.snap[n]).expiresAt = status[n].expiresAt
    BY <1>t, <2>3, CleanerStatusTimes
  <2>5. n \in revoked \cap stored =>
           /\ TimedOutStatus(cleaner.snap[n]).state # "Pending"
           /\ IsDead(TimedOutStatus(cleaner.snap[n]), now)
    BY <2>4 DEF RevocationInv, RevokedStaysDead, IsDead, IsSessionExpired
  <2> QED
    BY <1>3, <2>2, <2>5, RevocationCleanerWrites DEF ExpirePending, HistoryUnchanged
<1>4. ASSUME NEW n \in Names, ExpireApproved(n) PROVE RevocationInv'
  <2>1. /\ cleaner'.pc = "updating" /\ cleaner'.todo = cleaner.todo
        /\ cleaner'.snap = [cleaner.snap EXCEPT ![n] = ExpiredStatus(@)]
    BY <1>4 DEF ExpireApproved, Typed, TypeOK, CleanerStates
  <2>2. CleanerKeepsDead'
    BY <1>4, <2>1, ExpiringKeepsDead DEF ExpireApproved
  <2> QED
    BY <1>4, <2>2, RevocationCleanerMoves DEF ExpireApproved, HistoryUnchanged
<1>5. ASSUME NEW n \in Names, ExpireUpdate(n) PROVE RevocationInv'
  <2>1. \A m \in Names : m # n => status'[m] = status[m]
    BY <1>5, <1>t DEF ExpireUpdate, CleanerWrites
  <2>2. CleanerKeepsDead'
    BY <1>5, <1>k, <2>1, FinishedKeepsDead DEF ExpireUpdate
  <2>3. /\ cleaner.snap[n].state = "Expired"
        /\ \/ IsSessionExpired(cleaner.snap[n], now)
           \/ /\ cleaner.snap[n].rejectedAt = status[n].rejectedAt
              /\ cleaner.snap[n].expiresAt = status[n].expiresAt
    BY <1>5, <1>k DEF ExpireUpdate, UnchangedItem, CleanerKeepsDead
  <2>4. n \in revoked \cap stored =>
           cleaner.snap[n].state # "Pending" /\ IsDead(cleaner.snap[n], now)
    BY <2>3 DEF RevocationInv, RevokedStaysDead, IsDead, IsSessionExpired
  <2> QED
    BY <1>5, <2>2, <2>4, RevocationCleanerWrites DEF ExpireUpdate, HistoryUnchanged
<1>6. ASSUME NEW n \in Names, ExpireConflict(n) PROVE RevocationInv'
  <2>1. CleanerKeepsDead'
    BY <1>6, <1>k, RetriedKeepsDead DEF ExpireConflict
  <2> QED
    BY <1>6, <2>1, RevocationCleanerMoves DEF ExpireConflict, HistoryUnchanged
<1>7. ASSUME NEW n \in Names, Delete(n) PROVE RevocationInv'
  <2>1. \A m \in Names : m # n => status'[m] = status[m]
    BY <1>7, <1>t DEF Delete
  <2>2. CleanerKeepsDead'
    BY <1>7, <1>k, <2>1, FinishedKeepsDead DEF Delete
  <2>3. CleanerWrites(n, EmptyStatus) /\ stored' \subseteq stored /\ n \notin stored'
    BY <1>7 DEF Delete, CleanerWrites
  <2> QED
    BY <1>7, <2>2, <2>3, RevocationCleanerWrites DEF Delete, HistoryUnchanged
<1>8. ASSUME CleanerListFault PROVE RevocationInv'
  <2>1. cleaner'.pc \notin {"pending", "updating"}
    BY <1>8 DEF CleanerListFault, NextList, Typed, TypeOK, CleanerStates
  <2>2. CleanerKeepsDead'
    BY <2>1 DEF CleanerKeepsDead
  <2> QED
    BY <1>8, <2>2, RevocationCleanerMoves DEF CleanerListFault, HistoryUnchanged
<1>9. ASSUME NEW n \in Names, CleanerItemFault(n) PROVE RevocationInv'
  <2>1. status' = status /\ now' = now /\ IsFirst(n, cleaner.todo)
    BY <1>9 DEF CleanerItemFault
  <2>2. CleanerKeepsDead'
    <3>1. CASE cleaner.pc = "pending" /\ cleaner' = Finished(n, "pending", "listApproved")
      BY <1>k, <2>1, <3>1, FinishedKeepsDead
    <3>2. CASE /\ cleaner.pc = "approved"
               /\ cleaner' = [cleaner EXCEPT !.pc = "updating", !.snap[n] = ExpiredStatus(@)]
      <4>1. /\ cleaner'.pc = "updating" /\ cleaner'.todo = cleaner.todo
            /\ cleaner'.snap = [cleaner.snap EXCEPT ![n] = ExpiredStatus(@)]
        BY <3>2 DEF Typed, TypeOK, CleanerStates
      <4>2. IsSessionExpired(cleaner.snap[n], now)
        BY <1>9, <3>2 DEF CleanerItemFault
      <4> QED
        BY <2>1, <4>1, <4>2, ExpiringKeepsDead
    <3>3. CASE cleaner.pc = "updating" /\ cleaner' = RetriedCleaner(n)
      BY <1>k, <2>1, <3>3, RetriedKeepsDead
    <3>4. CASE \/ cleaner' = Finished(n, "approved", "listCleanup")
               \/ cleaner' = Finished(n, "cleanup", "listPending")
      BY <1>k, <2>1, <3>4, FinishedKeepsDead
    <3>5. cleaner.pc \in {"pending", "approved", "updating", "cleanup"}
      BY <1>9 DEF CleanerItemFault, Typed, TypeOK, CleanerStates, NextList
    <3> QED
      BY <1>9, <3>1, <3>2, <3>3, <3>4, <3>5 DEF CleanerItemFault, FailedCleaner
  <2> QED
    BY <1>9, <2>2, RevocationCleanerMoves DEF CleanerItemFault, HistoryUnchanged
<1> QED
  BY <1>1, <1>2, <1>3, <1>4, <1>5, <1>6, <1>7, <1>8, <1>9 DEF CleanerStep

\* Nothing is revoked at the start.
LEMMA RevocationInit == Init => RevocationInv
  BY DEF Init, RevocationInv, RevokedStaysDead, CleanerKeepsDead, IdleHandler, StartedCleaner

\* Every step keeps revoked sessions dead.
LEMMA RevocationNext == Typed /\ RevocationInv /\ [Next]_vars => RevocationInv'
<1> SUFFICES ASSUME Typed, RevocationInv, [Next]_vars PROVE RevocationInv'
  OBVIOUS
<1>1. CASE \/ \E h \in Requesters : RequesterStep(h)
           \/ \E h \in Deciders : DeciderStep(h)
  BY <1>1, RevocationHandlers DEF Handlers
<1>2. CASE CleanerStep \/ CleanerListFault \/ \E n \in Names : CleanerItemFault(n)
  BY <1>2, RevocationCleaner
<1>3. CASE Crash
  BY <1>3 DEF Crash, HistoryUnchanged, RevocationInv, RevokedStaysDead, CleanerKeepsDead,
              IdleHandler, StartedCleaner
<1>4. CASE Tick
  <2>1. /\ now \in Nat /\ now' \in Nat /\ now <= now'
        /\ UNCHANGED <<stored, status, handler, cleaner, revoked>>
    BY <1>4 DEF Tick, HistoryUnchanged, Typed, TypeOK
  <2>2. /\ \A n \in stored : status[n] \in Statuses
        /\ \A n \in Names : cleaner.snap[n] \in Statuses
    BY DEF Typed, TypeOK, CleanerStates
  <2>3. RevokedStaysDead'
    BY <2>1, <2>2, DeadLater DEF RevocationInv, RevokedStaysDead
  <2>4. CleanerKeepsDead'
    BY <2>1, <2>2, DeadLater DEF RevocationInv, CleanerKeepsDead
  <2> QED
    BY <2>3, <2>4 DEF RevocationInv
<1>5. CASE UNCHANGED vars
  BY <1>5 DEF vars, RevocationInv, RevokedStaysDead, CleanerKeepsDead
<1> QED
  BY <1>1, <1>2, <1>3, <1>4, <1>5 DEF Next

\* A session that was rejected, withdrawn, dropped or cancelled never again
\* makes the webhook authorize, whatever the cleaner, racing requests and other
\* deciders do with copies they read before.
THEOREM RevocationSafe == Spec => []RevocationIsFinal
<1>1. Init => Typed /\ RevocationInv
  BY TypedInit, RevocationInit
<1>2. (Typed /\ RevocationInv) /\ [Next]_vars => (Typed /\ RevocationInv)'
  BY TypedNext, RevocationNext
<1>3. Typed /\ RevocationInv => RevocationIsFinal
  <2> SUFFICES ASSUME Typed, RevocationInv, NEW n \in revoked, Grants(n)
               PROVE  FALSE
    BY DEF RevocationIsFinal
  <2>1. IsDead(status[n], now) /\ status[n] \in Statuses /\ now \in Nat
    BY DEF Grants, RevocationInv, RevokedStaysDead, Typed, TypeOK
  <2> QED
    BY <2>1 DEF Grants, GrantsAccess, IsDead, IsSessionExpired, Statuses
<1> QED
  BY <1>1, <1>2, <1>3, PTL DEF Spec
-----------------------------------------------------------------------------
(***************************************************************************)
(* Sessions that are being requested are not removed as orphans.           *)
(***************************************************************************)

\* A copy under the stored resourceVersion is the stored status.
CurrentIsStored ==
    \A h \in Handlers : handler[h].current => handler[h].copy = status[handler[h].name]

\* Requested sessions have an owner, and those listed for removal a retention,
\* which no write in the meantime takes away.
RetentionInv ==
    /\ created \ LegacyNames \subseteq owned
    /\ cleaner.pc = "cleanup" =>
         \A n \in cleaner.todo \ LegacyNames : status[n].retainedUntil # Unset

\* The handlers when object n is written or deleted.
LEMMA CurrentWrite ==
    ASSUME Typed, CurrentIsStored, NEW n, NEW s,
           status' = [status EXCEPT ![n] = s],
           \A h \in Handlers : ~handler'[h].current \/ handler'[h] = Invalidated(n)[h]
    PROVE  CurrentIsStored'
<1> SUFFICES ASSUME NEW h \in Handlers, handler'[h].current
             PROVE  handler'[h].copy = status'[handler'[h].name]
  BY DEF CurrentIsStored
<1>1. /\ handler'[h].copy = handler[h].copy /\ handler'[h].name = handler[h].name
      /\ handler[h].current /\ handler[h].name # n
  BY InvalidatedKeeps DEF Typed
<1> QED
  BY <1>1 DEF CurrentIsStored, Typed, TypeOK

\* Every step keeps current copies current.
LEMMA CurrentNext == Typed /\ CurrentIsStored /\ [Next]_vars => CurrentIsStored'
<1> SUFFICES ASSUME Typed, CurrentIsStored, [Next]_vars PROVE CurrentIsStored'
  OBVIOUS
<1>h. handler \in [Handlers -> HandlerStates]
  BY DEF Typed, TypeOK
<1>1. ASSUME UNCHANGED <<status, handler>> PROVE CurrentIsStored'
  BY <1>1 DEF CurrentIsStored
<1>2. ASSUME NEW h \in Handlers, NEW s, Update(h, s) PROVE CurrentIsStored'
  <2>1. \A g \in Handlers : ~handler'[g].current \/ handler'[g] = Invalidated(handler[h].name)[g]
    BY <1>2, <1>h DEF Update, IdleHandler, Invalidated
  <2>2. status' = [status EXCEPT ![handler[h].name] = s]
    BY <1>2 DEF Update
  <2> QED
    BY <2>1, <2>2, CurrentWrite
<1>3. ASSUME NEW h \in Handlers, NEW op, NEW c, NEW n, Hold(h, op, c, n) PROVE CurrentIsStored'
  BY <1>3, <1>h DEF Hold, CurrentIsStored
<1>4. ASSUME NEW h \in Handlers,
             \/ Fail(h) \/ (\E k \in Keys : RequestCheck(h, k))
             \/ \E n \in Names : RequestCreate(h, n)
      PROVE  CurrentIsStored'
  <2>1. status' = status /\ \A g \in Handlers : g # h => handler'[g] = handler[g]
    BY <1>4, <1>h DEF Fail, RequestCheck, RequestCreate
  <2>2. Fail(h) => ~handler'[h].current
    BY <1>h DEF Fail, IdleHandler
  <2>3. \A k \in Keys : RequestCheck(h, k) => ~handler'[h].current
    BY <1>h DEF RequestCheck, IdleHandler
  <2>4. \A n \in Names : RequestCreate(h, n) =>
           /\ handler'[h].current = handler[h].current
           /\ handler'[h].copy = handler[h].copy /\ handler'[h].name = handler[h].name
    BY <1>h DEF RequestCreate, HandlerStates
  <2> QED
    BY <1>4, <2>1, <2>2, <2>3, <2>4 DEF CurrentIsStored
<1>5. ASSUME NEW h \in Requesters, RequesterStep(h) PROVE CurrentIsStored'
  BY <1>2, <1>3, <1>4, <1>5 DEF RequesterStep, RequestRead, RequestWrite, Handlers
<1>6. ASSUME NEW h \in Deciders, DeciderStep(h) PROVE CurrentIsStored'
  BY <1>2, <1>3, <1>4, <1>6 DEF DeciderStep, ReadApprove, ReadReject, ReadWithdraw, ReadDrop,
                                ReadCancel, Approve, End, Handlers
<1>7. ASSUME NEW n \in Names, ExpirePending(n) \/ ExpireUpdate(n) \/ Delete(n)
      PROVE  CurrentIsStored'
  <2>1. handler' = Invalidated(n) /\ \E s : status' = [status EXCEPT ![n] = s]
    BY <1>7 DEF ExpirePending, ExpireUpdate, Delete, CleanerWrites
  <2> QED
    BY <2>1, CurrentWrite
<1>8. CASE CleanerStep
  BY <1>1, <1>7, <1>8 DEF CleanerStep, ListPending, ListApproved, ListCleanup, SkipPending,
                          ExpireApproved, SkipApproved, ExpireConflict
<1>9. CASE CleanerListFault \/ Tick \/ UNCHANGED vars \/ \E n \in Names : CleanerItemFault(n)
  BY <1>1, <1>9 DEF CleanerListFault, CleanerItemFault, Tick, vars
<1>10. CASE Crash
  BY <1>10 DEF Crash, CurrentIsStored, IdleHandler
<1> QED
  BY <1>5, <1>6, <1>8, <1>9, <1>10 DEF Next

\* What handlers write has a retention if what they read had one.
LEMMA WrittenRetention ==
    ASSUME Typed, NEW h \in Handlers, NEW s, Update(h, s),
           \/ s = PendingStatus(now) \/ s = ApprovedStatus(handler[h].copy, handler[h].by, now)
           \/ s = EndingStatus(handler[h], now)
              /\ handler[h].op \in {"reject", "withdraw", "drop", "cancel"},
           handler[h].copy.retainedUntil # Unset
    PROVE  s.retainedUntil # Unset
<1> DEFINE r == handler[h].copy
<1>1. r \in Statuses /\ now \in Nat /\ now # 0 /\ now + RetainFor # 0
  BY DurationAssumption DEF Typed, TypeOK, HandlerStates
<1>2. PendingStatus(now).retainedUntil # Unset
  BY <1>1 DEF PendingStatus, EmptyStatus
<1> HIDE DEF r
<1>3. \A c : /\ ApprovedStatus(r, c, now).retainedUntil # Unset
             /\ RejectedStatus(r, c, now).retainedUntil = r.retainedUntil
             /\ CanceledStatus(r, c, now).retainedUntil = r.retainedUntil
  BY <1>1 DEF ApprovedStatus, RejectedStatus, CanceledStatus, EndedStatus, Statuses
<1>4. /\ WithdrawnStatus(r, now).retainedUntil = r.retainedUntil
      /\ \A x : EndedStatus(r, x, now).retainedUntil = r.retainedUntil
  BY <1>1 DEF WithdrawnStatus, EndedStatus, Statuses
<1>5. DroppedStatus(r, now).retainedUntil = r.retainedUntil
  BY <1>4 DEF DroppedStatus
<1>6. handler[h].op \in {"reject", "withdraw", "drop", "cancel"} =>
        EndingStatus(handler[h], now).retainedUntil = r.retainedUntil
  BY <1>3, <1>4, <1>5 DEF EndingStatus, r
<1> QED
  BY <1>2, <1>3, <1>6 DEF r

\* The routine does not come to the removals from an item of another phase.
LEMMA CleanerGoesOn ==
    ASSUME Typed, NEW n
    PROVE  /\ Finished(n, "pending", "listApproved").pc # "cleanup"
           /\ Finished(n, "approved", "listCleanup").pc # "cleanup"
           /\ cleaner.pc # "cleanup" => RetriedCleaner(n).pc # "cleanup"
<1>1. cleaner \in CleanerStates
  BY DEF Typed, TypeOK
<1>2. /\ Finished(n, "pending", "listApproved").pc # "cleanup"
      /\ Finished(n, "approved", "listCleanup").pc # "cleanup"
  BY DEF Finished
<1>3. [cleaner EXCEPT !.snap[n] = ExpiredStatus(status[n]), !.fresh = @ \cup {n},
                      !.retries = @ + 1].pc = cleaner.pc
  BY <1>1 DEF CleanerStates
<1> QED
  BY <1>2, <1>3 DEF RetriedCleaner

\* Every step keeps owners and retentions.
LEMMA RetentionNext ==
    Typed /\ CurrentIsStored /\ RetentionInv /\ [Next]_vars => RetentionInv'
<1> SUFFICES ASSUME Typed, CurrentIsStored, RetentionInv, [Next]_vars PROVE RetentionInv'
  OBVIOUS
<1>t. /\ status \in [Names -> Statuses] /\ stored \subseteq created /\ created \subseteq Names
      /\ cleaner \in CleanerStates /\ cleaner.todo \subseteq Names
  BY DEF Typed, TypeOK, CleanerStates
<1>1. ASSUME UNCHANGED <<created, owned, status>>,
             cleaner'.pc = "cleanup" => cleaner.pc = "cleanup" /\ cleaner'.todo \subseteq cleaner.todo
      PROVE  RetentionInv'
  BY <1>1 DEF RetentionInv
<1>2. ASSUME NEW h \in Handlers, NEW s, Update(h, s),
             handler[h].copy.retainedUntil # Unset => s.retainedUntil # Unset
      PROVE  RetentionInv'
  <2>1. /\ UNCHANGED <<created, owned>> /\ handler[h].current
        /\ cleaner'.pc = cleaner.pc /\ cleaner'.todo = cleaner.todo
        /\ \A m \in Names : status'[m] = IF m = handler[h].name THEN s ELSE status[m]
    BY <1>2, <1>t DEF Update, Unchanged, CleanerStates
  <2>2. handler[h].copy = status[handler[h].name]
    BY <2>1 DEF CurrentIsStored
  <2> QED
    BY <1>2, <1>t, <2>1, <2>2 DEF RetentionInv
<1>3. ASSUME NEW h \in Handlers, RequestWrite(h) \/ Approve(h) \/ End(h) PROVE RetentionInv'
  <2>1. PICK s : /\ Update(h, s)
                 /\ \/ s = PendingStatus(now)
                    \/ s = ApprovedStatus(handler[h].copy, handler[h].by, now)
                    \/ s = EndingStatus(handler[h], now)
                       /\ handler[h].op \in {"reject", "withdraw", "drop", "cancel"}
    BY <1>3 DEF RequestWrite, Approve, End
  <2>2. handler[h].copy.retainedUntil # Unset => s.retainedUntil # Unset
    BY <2>1, WrittenRetention
  <2> QED
    BY <1>2, <2>1, <2>2
<1>4. ASSUME NEW h \in Requesters, RequesterStep(h) PROVE RetentionInv'
  <2>1. ASSUME NEW n \in Names, RequestCreate(h, n) PROVE RetentionInv'
    BY <2>1 DEF RequestCreate, RetentionInv
  <2> QED
    BY <1>1, <1>3, <1>4, <2>1 DEF RequesterStep, RequestCheck, RequestRead, Hold, Fail, Handlers
<1>5. ASSUME NEW h \in Deciders, DeciderStep(h) PROVE RetentionInv'
  BY <1>1, <1>3, <1>5 DEF DeciderStep, ReadApprove, ReadReject, ReadWithdraw, ReadDrop,
                          ReadCancel, Hold, Fail, Handlers
<1>6. ASSUME UNCHANGED <<created, owned>>, cleaner'.pc # "cleanup" PROVE RetentionInv'
  BY <1>6 DEF RetentionInv
<1>7. CASE ListCleanup
  <2>1. \A n \in stored \ LegacyNames : Deletable(n) => status[n].retainedUntil # Unset
    BY <1>t DEF RetentionInv, Deletable, IsPastRetention
  <2>2. cleaner'.todo = {n \in stored : Deletable(n)} /\ UNCHANGED <<created, owned, status>>
    BY <1>7 DEF ListCleanup, Listed
  <2> QED
    BY <2>1, <2>2 DEF RetentionInv
<1>8. ASSUME NEW n \in Names, Delete(n) PROVE RetentionInv'
  <2>1. /\ UNCHANGED <<created, owned>> /\ cleaner.pc = "cleanup"
        /\ cleaner'.todo = cleaner.todo \ {n}
        /\ \A m \in Names : m # n => status'[m] = status[m]
    BY <1>8, <1>t DEF Delete, Finished
  <2> QED
    BY <1>t, <2>1 DEF RetentionInv
<1>9. ASSUME NEW n \in Names,
             \/ ExpirePending(n) \/ SkipPending(n) \/ ExpireApproved(n)
             \/ SkipApproved(n) \/ ExpireUpdate(n) \/ ExpireConflict(n)
      PROVE  RetentionInv'
  <2>1. UNCHANGED <<created, owned>>
    BY <1>9 DEF ExpirePending, SkipPending, ExpireApproved, SkipApproved, ExpireUpdate,
                ExpireConflict
  <2>2. cleaner'.pc # "cleanup"
    <3>1. CASE ExpirePending(n) \/ SkipPending(n) \/ SkipApproved(n) \/ ExpireUpdate(n)
      BY <3>1, CleanerGoesOn DEF ExpirePending, SkipPending, SkipApproved, ExpireUpdate
    <3>2. CASE ExpireApproved(n)
      BY <3>2, <1>t DEF ExpireApproved, CleanerStates
    <3>3. CASE ExpireConflict(n)
      BY <3>3, CleanerGoesOn DEF ExpireConflict
    <3> QED
      BY <1>9, <3>1, <3>2, <3>3
  <2> QED
    BY <1>6, <2>1, <2>2
<1>10. CASE ListPending \/ ListApproved \/ Crash \/ CleanerListFault
  <2>1. UNCHANGED <<created, owned>>
    BY <1>10 DEF ListPending, ListApproved, Crash, CleanerListFault
  <2>2. cleaner'.pc # "cleanup"
    <3>1. CASE ListPending \/ ListApproved \/ Crash
      BY <3>1 DEF ListPending, ListApproved, Crash, Listed, StartedCleaner
    <3>2. CASE CleanerListFault
      <4>1. /\ cleaner.pc \in {"listPending", "listApproved", "listCleanup"}
            /\ cleaner'.pc = NextList[cleaner.pc]
        BY <3>2, <1>t DEF CleanerListFault, NextList, CleanerStates
      <4> QED
        BY <4>1 DEF NextList
    <3> QED
      BY <1>10, <3>1, <3>2
  <2> QED
    BY <1>6, <2>1, <2>2
<1>11. ASSUME NEW n \in Names, CleanerItemFault(n) PROVE RetentionInv'
  <2>1. UNCHANGED <<created, owned, status>>
    BY <1>11 DEF CleanerItemFault
  <2>2. cleaner'.pc = "cleanup" => cleaner.pc = "cleanup" /\ cleaner'.todo \subseteq cleaner.todo
    <3>1. CASE cleaner.pc = "cleanup"
      BY <1>11, <3>1 DEF CleanerItemFault, FailedCleaner, Finished
    <3>2. CASE cleaner.pc \in {"pending", "approved", "updating"}
      <4>1. CASE cleaner.pc = "pending"
        BY <1>11, <4>1, CleanerGoesOn DEF CleanerItemFault, FailedCleaner
      <4>2. CASE cleaner.pc = "approved"
        BY <1>11, <1>t, <4>2 DEF CleanerItemFault, FailedCleaner, CleanerStates
      <4>3. CASE cleaner.pc = "updating"
        BY <1>11, <4>3, CleanerGoesOn DEF CleanerItemFault, FailedCleaner
      <4> QED
        BY <3>2, <4>1, <4>2, <4>3
    <3>3. cleaner.pc \notin {"listPending", "listApproved", "listCleanup"}
      BY <1>11 DEF CleanerItemFault, NextList
    <3> QED
      BY <1>t, <3>1, <3>2, <3>3 DEF CleanerStates
  <2> QED
    BY <1>1, <2>1, <2>2
<1>12. CASE Tick \/ UNCHANGED vars
  BY <1>1, <1>12 DEF Tick, vars
<1> QED
  BY <1>4, <1>5, <1>7, <1>8, <1>9, <1>10, <1>11, <1>12 DEF Next, CleanerStep

\* No session that a request created is removed before its first status was
\* written, nor one that lost its retention since it was listed (the orphan rule
\* of markCleanupExpiredSession).
THEOREM OrphanRuleSafe == Spec => RequestedIsNotOrphaned
<1> DEFINE Inv == Typed /\ CurrentIsStored /\ RetentionInv
<1>1. Init => Inv
  BY TypedInit DEF Init, CurrentIsStored, RetentionInv, IdleHandler, StartedCleaner
<1>2. Inv /\ [Next]_vars => Inv'
  BY TypedNext, CurrentNext, RetentionNext
<1>3. Inv /\ [Next]_vars =>
        [\A n \in Names \ LegacyNames :
            n \in stored \ stored' => status[n].retainedUntil # Unset]_vars
  <2> SUFFICES ASSUME Inv, Next, NEW n \in Names \ LegacyNames, n \in stored \ stored'
               PROVE  status[n].retainedUntil # Unset
    BY DEF vars
  <2>1. \E m \in Names : Delete(m)
    <3>1. \A h \in Requesters : RequesterStep(h) => stored \subseteq stored'
      BY DEF RequesterStep, RequestCheck, RequestCreate, RequestRead, RequestWrite, Hold,
             Update, Fail
    <3>2. \A h \in Deciders : DeciderStep(h) => stored \subseteq stored'
      BY DEF DeciderStep, ReadApprove, ReadReject, ReadWithdraw, ReadDrop, ReadCancel, Hold,
             Approve, End, Update, Fail
    <3>3. CleanerStep => stored' = stored \/ \E m \in Names : Delete(m)
      BY DEF CleanerStep, ListPending, ListApproved, ListCleanup, ExpirePending, SkipPending,
             ExpireApproved, SkipApproved, ExpireUpdate, ExpireConflict
    <3>4. CleanerListFault \/ Crash \/ Tick \/ (\E m \in Names : CleanerItemFault(m)) =>
             stored' = stored
      BY DEF CleanerListFault, Crash, Tick, CleanerItemFault
    <3> QED
      BY <3>1, <3>2, <3>3, <3>4 DEF Next
  <2>2. Delete(n) /\ n \in cleaner.todo
    BY <2>1 DEF Delete, IsFirst
  <2> QED
    BY <2>2 DEF Delete, RetentionInv
<1> HIDE DEF Inv
<1> QED
  BY <1>1, <1>2, <1>3, PTL DEF Spec, RequestedIsNotOrphaned
=============================================================================
