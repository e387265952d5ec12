----------------------- MODULE SessionContract_proofs -----------------------
(***************************************************************************)
(* SessionLifecycle implements AccessContract for any number of sessions,  *)
(* handlers and faults: every step that changes the access of a session is *)
(* a step of the contract.                                                 *)
(*                                                                         *)
(* On top of the invariants of SessionLifecycle_proofs this needs that an  *)
(* approval meets a session without access: a handler whose copy is still  *)
(* the stored one and that will approve has a Pending session, and Pending *)
(* sessions have no expiry (PendingInv); and that a name that was never    *)
(* used has no approval (ApprovalsAreOfCreated).                           *)
(*                                                                         *)
(* The last two parts are about the states of sessions, which the contract *)
(* does not mention: what they promise when requests do not race, and when *)
(* they do.                                                                *)
(***************************************************************************)
EXTENDS SessionContract, SessionLifecycle_proofs, FiniteSetTheorems

USE DEF Unset

PendingInv ==
    /\ \A n \in Names : status[n].state = "Pending" => status[n].expiresAt = Unset
    /\ \A h \in Handlers : handler[h].current /\ handler[h].op = "approve" =>
          handler[h].name \in Names /\ status[handler[h].name].state = "Pending"

ApprovalsAreOfCreated == \A a \in approvals : a.name \in created

-----------------------------------------------------------------------------

\* A write to object n keeps PendingInv if it does not make a session with an
\* expiry Pending: every copy of n in flight becomes stale.
LEMMA PendingWrite ==
    ASSUME Typed, PendingInv, NEW n, NEW s,
           status' = [status EXCEPT ![n] = s],
           s.state = "Pending" => s.expiresAt = Unset,
           \A g \in Handlers : handler'[g].current =>
              /\ handler[g].current /\ handler[g].name # n
              /\ handler'[g].op = handler[g].op /\ handler'[g].name = handler[g].name
    PROVE  PendingInv'
<1>1. \A m \in Names : status'[m] = IF m = n THEN s ELSE status[m]
  BY DEF Typed, TypeOK
<1> QED
  BY <1>1 DEF PendingInv

\* A step that leaves the statuses alone.
LEMMA PendingRead ==
    ASSUME PendingInv, status' = status,
           \A g \in Handlers : handler'[g].current =>
              \/ /\ handler[g].current
                 /\ handler'[g].op = handler[g].op /\ handler'[g].name = handler[g].name
              \/ handler'[g].op = "approve" =>
                    handler'[g].name \in Names /\ status[handler'[g].name].state = "Pending"
    PROVE  PendingInv'
  BY DEF PendingInv

\* The handlers after one of them wrote.
LEMMA UpdateInvalidates ==
    ASSUME Typed, NEW h \in Handlers, NEW s, Update(h, s)
    PROVE  /\ status' = [status EXCEPT ![handler[h].name] = s]
           /\ \A g \in Handlers : handler'[g].current =>
                 /\ handler[g].current /\ handler[g].name # handler[h].name
                 /\ handler'[g].op = handler[g].op /\ handler'[g].name = handler[g].name
<1>1. ~handler'[h].current
  BY DEF Update, IdleHandler, Typed, TypeOK, Invalidated
<1>2. \A g \in Handlers : g # h => handler'[g] = Invalidated(handler[h].name)[g]
  BY DEF Update
<1>3. \A g \in Handlers : g # h =>
         /\ handler'[g].current => handler[g].current /\ handler[g].name # handler[h].name
         /\ handler'[g].op = handler[g].op /\ handler'[g].name = handler[g].name
  BY <1>2, InvalidatedKeeps DEF Typed
<1> QED
  BY <1>1, <1>3 DEF Update

\* A handler's write keeps PendingInv under the same condition.
LEMMA PendingUpdate ==
    ASSUME Typed, PendingInv, NEW h \in Handlers, NEW s, Update(h, s),
           s.state = "Pending" => s.expiresAt = Unset
    PROVE  PendingInv'
<1> DEFINE n == handler[h].name
<1>1. /\ status' = [status EXCEPT ![n] = s]
      /\ \A g \in Handlers : handler'[g].current =>
            /\ handler[g].current /\ handler[g].name # n
            /\ handler'[g].op = handler[g].op /\ handler'[g].name = handler[g].name
  BY UpdateInvalidates
<1> HIDE DEF n
<1> QED
  BY <1>1, PendingWrite

\* Only a request writes Pending, and without an expiry.
LEMMA WrittenStates ==
    ASSUME NEW s \in Statuses, NEW c, NEW t \in Nat
    PROVE  /\ PendingStatus(t).expiresAt = Unset
           /\ ApprovedStatus(s, c, t).state = "Approved"
           /\ ApprovedStatus(s, c, t).expiresAt = t + ValidFor
           /\ ApprovedStatus(s, c, t).retainedUntil = t + RetainFor
           /\ ApprovedStatus(s, c, t).rejectedAt = Unset
<1>1. PendingStatus(t).expiresAt = Unset
  BY EmptyStatusType DEF PendingStatus, EmptyStatus, Statuses
<1>2. /\ ApprovedStatus(s, c, t).state = "Approved"
      /\ ApprovedStatus(s, c, t).expiresAt = t + ValidFor
      /\ ApprovedStatus(s, c, t).retainedUntil = t + RetainFor
      /\ ApprovedStatus(s, c, t).rejectedAt = Unset
  BY DEF ApprovedStatus, Statuses
<1> QED
  BY <1>1, <1>2

\* Steps of the handlers.
LEMMA PendingHandlers ==
    ASSUME Typed, PendingInv, NEW h \in Handlers, RequesterStep(h) \/ DeciderStep(h)
    PROVE  PendingInv'
<1>t. now \in Nat /\ handler[h].copy \in Statuses
  BY DEF Typed, TypeOK, HandlerStates
<1>1. ASSUME NEW op, NEW c, NEW n \in Names, Hold(h, op, c, n),
             op = "approve" => status[n].state = "Pending"
      PROVE  PendingInv'
  <2>1. /\ status' = status
        /\ \A g \in Handlers : g # h => handler'[g] = handler[g]
        /\ handler'[h].op = op /\ handler'[h].name = n
    BY <1>1 DEF Hold, Typed, TypeOK
  <2> QED
    BY <1>1, <2>1, PendingRead
<1>2. ASSUME NEW n \in Names, RequestRead(h, n) PROVE PendingInv'
  BY <1>1, <1>2 DEF RequestRead
<1>3. ASSUME NEW c \in Callers, NEW n \in Names,
             \/ ReadApprove(h, c, n)  \/ ReadReject(h, c, n)
             \/ ReadWithdraw(h, c, n) \/ ReadDrop(h, c, n) \/ ReadCancel(h, c, n)
      PROVE  PendingInv'
  <2>1. \E op \in Ops : /\ op = "approve" => status[n].state = "Pending"
                        /\ Hold(h, op, c, n)
    BY <1>3 DEF ReadApprove, ReadReject, ReadWithdraw, ReadDrop, ReadCancel, Ops
  <2> QED
    BY <1>1, <2>1
<1>4. ASSUME RequestWrite(h) PROVE PendingInv'
  <2>1. PendingStatus(now).expiresAt = Unset
    BY <1>t, WrittenStates
  <2>2. Update(h, PendingStatus(now))
    BY <1>4 DEF RequestWrite
  <2> QED
    BY <2>1, <2>2, PendingUpdate
<1>5. ASSUME Approve(h) PROVE PendingInv'
  <2>1. ApprovedStatus(handler[h].copy, handler[h].by, now).state # "Pending"
    BY <1>t, WrittenStates
  <2>2. Update(h, ApprovedStatus(handler[h].copy, handler[h].by, now))
    BY <1>5 DEF Approve
  <2> QED
    BY <2>1, <2>2, PendingUpdate
<1>6. ASSUME End(h) PROVE PendingInv'
  <2>1. EndingStatus(handler[h], now).state # "Pending"
    BY <1>6, EndingIsDead
  <2>2. Update(h, EndingStatus(handler[h], now))
    BY <1>6 DEF End
  <2> QED
    BY <2>1, <2>2, PendingUpdate
<1>7. ASSUME (\E k \in Keys : RequestCheck(h, k)) \/ Fail(h) \/ \E n \in Names : RequestCreate(h, n)
      PROVE  PendingInv'
  <2>1. /\ status' = status
        /\ \A g \in Handlers : g # h => handler'[g] = handler[g]
    BY <1>7 DEF RequestCheck, RequestCreate, Fail, Typed, TypeOK
  <2>2. \/ ~handler'[h].current
        \/ /\ handler'[h].current = handler[h].current
           /\ handler'[h].op = handler[h].op /\ handler'[h].name = handler[h].name
    <3>1. \A k \in Keys : RequestCheck(h, k) => ~handler'[h].current
      BY DEF RequestCheck, Typed, TypeOK, IdleHandler
    <3>2. \A n \in Names : RequestCreate(h, n) =>
             /\ handler'[h].current = handler[h].current
             /\ handler'[h].op = handler[h].op /\ handler'[h].name = handler[h].name
      BY DEF RequestCreate, Typed, TypeOK, HandlerStates
    <3>3. Fail(h) => ~handler'[h].current
      BY DEF Fail, Typed, TypeOK, IdleHandler
    <3> QED
      BY <1>7, <3>1, <3>2, <3>3
  <2> QED
    BY <2>1, <2>2, PendingRead
<1> QED
  BY <1>2, <1>3, <1>4, <1>5, <1>6, <1>7 DEF RequesterStep, DeciderStep

\* Every step keeps PendingInv.
LEMMA PendingNext == Typed /\ RevocationInv /\ PendingInv /\ [Next]_vars => PendingInv'
<1> SUFFICES ASSUME Typed, RevocationInv, PendingInv, [Next]_vars PROVE PendingInv'
  OBVIOUS
<1>1. CASE \/ \E h \in Requesters : RequesterStep(h)
           \/ \E h \in Deciders : DeciderStep(h)
  BY <1>1, PendingHandlers DEF Handlers
<1>2. CASE status' = status /\ handler' = handler
  BY <1>2, PendingRead
<1>3. ASSUME NEW n \in Names, NEW s, CleanerWrites(n, s), s.state # "Pending"
      PROVE  PendingInv'
  <2>1. \A g \in Handlers :
           /\ handler'[g].current => handler[g].current /\ handler[g].name # n
           /\ handler'[g].op = handler[g].op /\ handler'[g].name = handler[g].name
    BY <1>3, InvalidatedKeeps DEF CleanerWrites, Typed
  <2> QED
    BY <1>3, <2>1, PendingWrite DEF CleanerWrites
<1>4. ASSUME NEW n \in Names, ExpirePending(n) PROVE PendingInv'
  <2>1. cleaner.snap[n] \in Statuses
    BY DEF Typed, TypeOK, CleanerStates
  <2>2. TimedOutStatus(cleaner.snap[n]).state # "Pending"
    BY <2>1, CleanerStatusTimes
  <2> QED
    BY <1>3, <1>4, <2>2 DEF ExpirePending
<1>5. ASSUME NEW n \in Names, ExpireUpdate(n) PROVE PendingInv'
  <2>1. cleaner.snap[n].state = "Expired"
    BY <1>5 DEF ExpireUpdate, RevocationInv, CleanerKeepsDead
  <2> QED
    BY <1>3, <1>5, <2>1 DEF ExpireUpdate
<1>6. ASSUME NEW n \in Names, Delete(n) PROVE PendingInv'
  <2>1. CleanerWrites(n, EmptyStatus) /\ EmptyStatus.state # "Pending"
    BY <1>6 DEF Delete, CleanerWrites, EmptyStatus
  <2> QED
    BY <1>3, <2>1
<1>7. CASE Crash
  <2>1. status' = status /\ \A g \in Handlers : ~handler'[g].current
    BY <1>7 DEF Crash, IdleHandler
  <2> QED
    BY <2>1, PendingRead
<1>8. ASSUME NEW n \in Names,
             \/ SkipPending(n) \/ ExpireApproved(n) \/ SkipApproved(n)
             \/ ExpireConflict(n) \/ CleanerItemFault(n)
      PROVE  status' = status /\ handler' = handler
  BY <1>8 DEF SkipPending, ExpireApproved, SkipApproved, ExpireConflict, CleanerItemFault
<1>9. ASSUME ListPending \/ ListApproved \/ ListCleanup \/ CleanerListFault \/ Tick
             \/ UNCHANGED vars
      PROVE  status' = status /\ handler' = handler
  BY <1>9 DEF ListPending, ListApproved, ListCleanup, CleanerListFault, Tick, vars
<1> QED
  BY <1>1, <1>2, <1>4, <1>5, <1>6, <1>7, <1>8, <1>9 DEF Next, CleanerStep

\* Approvals are recorded for sessions that exist or existed.
LEMMA ApprovalsNext ==
    Typed /\ ApprovalsAreOfCreated /\ [Next]_vars => ApprovalsAreOfCreated'
<1> SUFFICES ASSUME Typed, ApprovalsAreOfCreated, [Next]_vars
             PROVE  ApprovalsAreOfCreated'
  OBVIOUS
<1>1. ASSUME NEW h \in Deciders, Approve(h) PROVE ApprovalsAreOfCreated'
  <2>1. /\ handler[h].name \in created
        /\ approvals' = approvals \cup
             {[name |-> handler[h].name, by |-> handler[h].by, at |-> now]}
        /\ created' = created
    BY <1>1 DEF Approve, Update, Typed, HoldersReadASession, Handlers
  <2> QED
    BY <2>1 DEF ApprovalsAreOfCreated
<1>2. CASE approvals' = approvals /\ created \subseteq created'
  BY <1>2 DEF ApprovalsAreOfCreated
<1>3. ASSUME NEW h \in Requesters, RequesterStep(h)
      PROVE  approvals' = approvals /\ created \subseteq created'
  BY <1>3 DEF RequesterStep, RequestCheck, RequestCreate, RequestRead, Hold,
              RequestWrite, Update, Fail
<1>4. ASSUME NEW h \in Deciders, DeciderStep(h), ~Approve(h)
      PROVE  approvals' = approvals /\ created \subseteq created'
  BY <1>4 DEF DeciderStep, ReadApprove, ReadReject, ReadWithdraw, ReadDrop,
              ReadCancel, Hold, End, Update, Fail
<1>5. ASSUME CleanerStep
      PROVE  approvals' = approvals /\ created \subseteq created'
  BY <1>5 DEF CleanerStep, ListPending, ListApproved, ListCleanup, ExpirePending,
              SkipPending, ExpireApproved, SkipApproved, ExpireUpdate,
              ExpireConflict, Delete, HistoryUnchanged
<1>6. ASSUME CleanerListFault \/ (\E n \in Names : CleanerItemFault(n)) \/ Crash
             \/ Tick \/ UNCHANGED vars
      PROVE  approvals' = approvals /\ created \subseteq created'
  BY <1>6 DEF CleanerListFault, CleanerItemFault, Crash, Tick, HistoryUnchanged, vars
<1> QED
  BY <1>1, <1>2, <1>3, <1>4, <1>5, <1>6 DEF Next

-----------------------------------------------------------------------------
(***************************************************************************)
(* The steps of the contract.                                              *)
(***************************************************************************)

ContractInv ==
    Typed /\ AccessInv /\ RevocationInv /\ PendingInv /\ ApprovalsAreOfCreated

\* Access as the contract sees it, name by name.
LEMMA UntilAt ==
    /\ \A m \in Names : Until[m] = IF Grants(m) THEN status[m].expiresAt ELSE 0
    /\ \A m \in Names : Until'[m] = IF Grants(m)' THEN status'[m].expiresAt ELSE 0
  BY DEF Until

\* A step that changes the access of n only, to v.
LEMMA UntilExcept ==
    ASSUME NEW n \in Names, NEW v, Until'[n] = v,
           \A m \in Names : m # n => Until'[m] = Until[m]
    PROVE  Until' = [Until EXCEPT ![n] = v]
  BY DEF Until

\* A step that changes no access.
LEMMA UntilSame ==
    ASSUME \A m \in Names : Until'[m] = Until[m]
    PROVE  Until' = Until
  BY DEF Until

\* A name keeps its access while its object and the clock stay as they are.
LEMMA UntilKept ==
    ASSUME NEW m \in Names, status'[m] = status[m], now' = now,
           m \in stored' <=> m \in stored
    PROVE  Until'[m] = Until[m]
<1>1. Grants(m)' <=> Grants(m)
  BY Zenon DEF Grants
<1> QED
  BY <1>1, UntilAt

\* A step that takes the access of n, if it has any, and touches no other.
LEMMA LoseStep ==
    ASSUME Typed, NEW n \in Names, NEW s, status' = [status EXCEPT ![n] = s],
           now' = now, revoked' = revoked,
           stored' \ {n} = stored \ {n},
           n \in stored' => ~GrantsAccess(s, now)
    PROVE  Contract!Lose(n)
<1>1. status'[n] = s
  BY DEF Typed, TypeOK
<1>2. Until'[n] = 0
  BY <1>1, UntilAt DEF Grants
<1>3. \A m \in Names : m # n => status'[m] = status[m] /\ (m \in stored' <=> m \in stored)
  BY DEF Typed, TypeOK
<1>4. \A m \in Names : m # n => Until'[m] = Until[m]
  BY <1>3, UntilKept
<1>5. Until' = [Until EXCEPT ![n] = 0]
  BY <1>2, <1>4, UntilExcept
<1> QED
  BY <1>5 DEF Contract!Lose, Contract!NoAccess

\* The status a request writes, and those that end a session, do not grant.
LEMMA DeadDoesNotGrant ==
    ASSUME NEW s, NEW t \in Nat,
           \/ s.expiresAt = Unset \/ s.rejectedAt # Unset
           \/ s.expiresAt \in Nat /\ IsSessionExpired(s, t)
    PROVE  ~GrantsAccess(s, t)
  BY DEF GrantsAccess, IsSessionExpired

\* The write of an approval gives access, for maxValidFor.
LEMMA ApproveGives ==
    ASSUME ContractInv, NEW h \in Handlers, Approve(h)
    PROVE  Contract!CNext
<1> DEFINE n == handler[h].name
           s == ApprovedStatus(handler[h].copy, handler[h].by, now)
<1>1. /\ handler[h].copy \in Statuses /\ now \in Nat \ {0}
      /\ n \in Names /\ status \in [Names -> Statuses]
  BY DEF Approve, ContractInv, Typed, HoldersReadASession, TypeOK, HandlerStates
<1>2. /\ handler[h].current /\ handler[h].op = "approve"
      /\ status' = [status EXCEPT ![n] = s]
      /\ now' = now /\ stored' = stored /\ revoked' = revoked
  BY DEF Approve, Update, Unchanged
<1>3. /\ s.expiresAt = now + ValidFor /\ s.retainedUntil = now + RetainFor
      /\ s.rejectedAt = Unset
  BY <1>1, WrittenStates
<1>4. n \notin revoked
  BY <1>2 DEF ContractInv, RevocationInv, RevokedStaysDead
<1>5. status[n].expiresAt = Unset
  BY <1>1, <1>2 DEF ContractInv, PendingInv
<1> HIDE DEF n, s
<1>6. Until[n] = 0
  BY <1>1, <1>5, UntilAt DEF Grants, GrantsAccess
<1>7. GrantsAccess(s, now)
  BY <1>1, <1>3, DurationAssumption DEF GrantsAccess, IsSessionRetained
<1>8. CASE n \in stored
  <2>1. status'[n] = s
    BY <1>1, <1>2
  <2>2. Until'[n] = now + ValidFor
    BY <1>1, <1>2, <1>3, <1>7, <1>8, <2>1, UntilAt DEF Grants
  <2>3. \A m \in Names : m # n => Until'[m] = Until[m]
    BY <1>1, <1>2, UntilKept
  <2>4. Until' = [Until EXCEPT ![n] = now + ValidFor]
    BY <1>1, <2>2, <2>3, UntilExcept
  <2>5. Contract!Give(n)
    BY <1>2, <1>4, <1>6, <2>4 DEF Contract!Give, Contract!NoAccess
  <2> QED
    BY <1>1, <2>5 DEF Contract!CNext
<1>9. CASE n \notin stored
  <2>1. Contract!Lose(n)
    BY <1>1, <1>2, <1>9, LoseStep DEF ContractInv
  <2> QED
    BY <1>1, <2>1 DEF Contract!CNext
<1> QED
  BY <1>8, <1>9

\* The write that ends a session revokes its access.
LEMMA EndRevokes ==
    ASSUME ContractInv, NEW h \in Handlers, End(h)
    PROVE  Contract!CNext
<1> DEFINE n == handler[h].name
           s == EndingStatus(handler[h], now)
<1>1. now \in Nat \ {0} /\ n \in Names /\ status \in [Names -> Statuses]
  BY DEF End, ContractInv, Typed, HoldersReadASession, TypeOK
<1>2. /\ status' = [status EXCEPT ![n] = s]
      /\ now' = now /\ stored' = stored /\ revoked' = revoked \cup {n}
  BY DEF End, Update
<1>3. s.rejectedAt # Unset \/ IsSessionExpired(s, now)
  BY EndingIsDead DEF ContractInv, IsDead
<1>4. s \in Statuses
  <2>1. /\ handler[h].copy \in Statuses /\ handler[h].by \in Callers
        /\ handler[h].op \in {"reject", "withdraw", "drop", "cancel"}
    BY DEF End, ContractInv, Typed, HoldersReadASession, TypeOK, HandlerStates
  <2> QED
    BY <1>1, <2>1, WrittenStatuses DEF EndingStatus
<1>5. ~GrantsAccess(s, now)
  BY <1>1, <1>3, <1>4, DeadDoesNotGrant DEF Statuses
<1> HIDE DEF n, s
<1>6. Until'[n] = 0
  <2>1. status'[n] = s
    BY <1>1, <1>2
  <2> QED
    BY <1>1, <1>2, <1>5, <2>1, UntilAt DEF Grants
<1>7. \A m \in Names : m # n => Until'[m] = Until[m]
  BY <1>1, <1>2, UntilKept
<1>8. Contract!Revoke(n)
  BY <1>1, <1>2, <1>6, <1>7, UntilExcept DEF Contract!Revoke, Contract!NoAccess
<1> QED
  BY <1>1, <1>8 DEF Contract!CNext

\* A request writes a status without access; the object it creates has none.
LEMMA RequestKeeps ==
    ASSUME ContractInv, NEW h \in Handlers,
           RequestWrite(h) \/ \E n \in Names : RequestCreate(h, n)
    PROVE  Contract!CNext \/ UNCHANGED <<now, Until, revoked>>
<1>t. now \in Nat /\ status \in [Names -> Statuses]
  BY DEF ContractInv, Typed, TypeOK
<1>1. CASE RequestWrite(h)
  <2>1. handler[h].name \in Names /\ handler[h].copy \in Statuses
    BY <1>1 DEF RequestWrite, ContractInv, Typed, HoldersReadASession, TypeOK, HandlerStates
  <2>2. ~GrantsAccess(PendingStatus(now), now)
    BY <1>t, <2>1, WrittenStates, DeadDoesNotGrant
  <2>3. /\ status' = [status EXCEPT ![handler[h].name] = PendingStatus(now)]
        /\ now' = now /\ stored' = stored /\ revoked' = revoked
    BY <1>1 DEF RequestWrite, Update
  <2>4. Contract!Lose(handler[h].name)
    BY <2>1, <2>2, <2>3, LoseStep DEF ContractInv
  <2> QED
    BY <2>1, <2>4 DEF Contract!CNext
<1>2. ASSUME NEW n \in Names, RequestCreate(h, n)
      PROVE  UNCHANGED <<now, Until, revoked>>
  <2>1. /\ n \notin created /\ stored' = stored \cup {n}
        /\ status' = status /\ now' = now /\ revoked' = revoked
    BY <1>2 DEF RequestCreate
  <2>2. ~GrantsAccess(status[n], now)
    <3>1. ~(status[n].rejectedAt = Unset /\ status[n].expiresAt # Unset)
      BY <2>1 DEF ContractInv, AccessInv, Justified, ApprovalsAreOfCreated
    <3> QED
      BY <3>1 DEF GrantsAccess
  <2>3. Until'[n] = Until[n]
    BY <2>1, <2>2, UntilAt DEF Grants
  <2>4. \A m \in Names : m # n => Until'[m] = Until[m]
    BY <2>1, UntilKept
  <2>5. Until' = Until
    BY <2>3, <2>4, UntilSame
  <2> QED
    BY <2>1, <2>5
<1> QED
  BY <1>1, <1>2

\* What the cleaner writes has the stored times, or grants nothing.
LEMMA CleanerKeeps ==
    ASSUME ContractInv, NEW n \in Names,
           ExpirePending(n) \/ ExpireUpdate(n) \/ Delete(n)
    PROVE  Contract!CNext \/ UNCHANGED <<now, Until, revoked>>
<1>t. /\ now \in Nat /\ status \in [Names -> Statuses]
      /\ cleaner.snap[n] \in Statuses
  BY DEF ContractInv, Typed, TypeOK, CleanerStates
<1>1. ASSUME NEW s, status' = [status EXCEPT ![n] = s],
             UNCHANGED <<now, stored, revoked>>,
             s.rejectedAt = status[n].rejectedAt, s.expiresAt = status[n].expiresAt,
             s.retainedUntil = status[n].retainedUntil
      PROVE  UNCHANGED <<now, Until, revoked>>
  <2>1. status'[n] = s /\ \A m \in Names : m # n => status'[m] = status[m]
    BY <1>t, <1>1
  <2>2. Until'[n] = Until[n]
    BY <1>1, <2>1, UntilAt DEF Grants, GrantsAccess, IsSessionRetained
  <2>3. \A m \in Names : m # n => Until'[m] = Until[m]
    BY <1>1, <2>1, UntilKept
  <2> QED
    BY <1>1, <2>2, <2>3, UntilSame
<1>2. CASE ExpirePending(n)
  <2>1. cleaner.snap[n] = status[n]
    BY <1>2 DEF ExpirePending, UnchangedItem, IsFirst, ContractInv, RevocationInv,
                CleanerKeepsDead
  <2> DEFINE s == TimedOutStatus(cleaner.snap[n])
  <2>2. /\ s.rejectedAt = status[n].rejectedAt /\ s.expiresAt = status[n].expiresAt
        /\ s.retainedUntil = status[n].retainedUntil
    BY <1>t, <2>1, CleanerStatusTimes
  <2>3. status' = [status EXCEPT ![n] = s] /\ UNCHANGED <<now, stored, revoked>>
    BY <1>2 DEF ExpirePending, CleanerWrites, HistoryUnchanged
  <2> HIDE DEF s
  <2> QED
    BY <1>1, <2>2, <2>3
<1>3. CASE ExpireUpdate(n)
  <2> DEFINE s == cleaner.snap[n]
  <2>1. status' = [status EXCEPT ![n] = s] /\ UNCHANGED <<now, stored, revoked>>
    BY <1>3 DEF ExpireUpdate, CleanerWrites, HistoryUnchanged
  <2>2. \/ IsSessionExpired(s, now)
        \/ /\ s.rejectedAt = status[n].rejectedAt /\ s.expiresAt = status[n].expiresAt
           /\ s.retainedUntil = status[n].retainedUntil
    BY <1>3 DEF ExpireUpdate, UnchangedItem, ContractInv, RevocationInv, CleanerKeepsDead
  <2>3. s.expiresAt \in Nat
    BY <1>t DEF Statuses
  <2> HIDE DEF s
  <2>4. CASE IsSessionExpired(s, now)
    <3>1. ~GrantsAccess(s, now)
      BY <1>t, <2>3, <2>4, DeadDoesNotGrant
    <3>2. Contract!Lose(n)
      BY <2>1, <3>1, LoseStep DEF ContractInv
    <3> QED
      BY <3>2 DEF Contract!CNext
  <2> QED
    BY <1>1, <2>1, <2>2, <2>4
<1>4. CASE Delete(n)
  <2>1. /\ status' = [status EXCEPT ![n] = EmptyStatus] /\ now' = now
        /\ stored' = stored \ {n} /\ revoked' = revoked
    BY <1>4 DEF Delete, HistoryUnchanged
  <2>2. Contract!Lose(n)
    BY <2>1, LoseStep DEF ContractInv
  <2> QED
    BY <2>2 DEF Contract!CNext
<1> QED
  BY <1>2, <1>3, <1>4

\* Access ends with time, it does not begin.
LEMMA TickPasses ==
    ASSUME ContractInv, Tick
    PROVE  Contract!CNext
<1>1. /\ now \in Nat /\ now' = now + 1 /\ stored' = stored /\ status' = status
      /\ revoked' = revoked /\ status \in [Names -> Statuses]
  BY DEF ContractInv, Typed, TypeOK, Tick, HistoryUnchanged
<1>2. ASSUME NEW n \in Names
      PROVE  /\ Until'[n] \in Nat
             /\ Until'[n] # 0 => Until'[n] = Until[n] /\ now' < Until'[n]
  <2>1. /\ status[n].expiresAt \in Nat /\ status[n].retainedUntil \in Nat
    BY <1>1 DEF Statuses
  <2>2. GrantsAccess(status[n], now + 1) =>
          GrantsAccess(status[n], now) /\ now + 1 < status[n].expiresAt
    BY <1>1, <2>1 DEF GrantsAccess, IsSessionRetained
  <2>3. Grants(n)' => Grants(n) /\ now' < status[n].expiresAt
    BY <1>1, <2>2 DEF Grants
  <2> QED
    BY <1>1, <2>1, <2>3, UntilAt
<1>3. Until' \in [Names -> Nat]
  BY <1>2 DEF Until
<1>4. Contract!Pass
  BY <1>1, <1>2, <1>3 DEF Contract!Pass, Contract!NoAccess
<1> QED
  BY <1>4 DEF Contract!CNext

\* Every step is one of the contract or changes nothing that it sees.
LEMMA StepsOfContract ==
    ContractInv /\ [Next]_vars => [Contract!CNext]_(Contract!cvars)
<1> SUFFICES ASSUME ContractInv, [Next]_vars
             PROVE  Contract!CNext \/ UNCHANGED <<now, Until, revoked>>
  BY DEF Contract!cvars
<1>1. CASE UNCHANGED <<now, stored, status, revoked>>
  BY <1>1, UntilKept, UntilSame
<1>2. ASSUME NEW h \in Requesters, RequesterStep(h)
      PROVE  \/ UNCHANGED <<now, stored, status, revoked>>
             \/ RequestWrite(h) \/ \E n \in Names : RequestCreate(h, n)
  BY <1>2 DEF RequesterStep, RequestCheck, RequestRead, Hold, Fail
<1>3. ASSUME NEW h \in Deciders, DeciderStep(h)
      PROVE  \/ UNCHANGED <<now, stored, status, revoked>>
             \/ Approve(h) \/ End(h)
  BY <1>3 DEF DeciderStep, ReadApprove, ReadReject, ReadWithdraw, ReadDrop,
              ReadCancel, Hold, Fail
<1>4. ASSUME CleanerStep
      PROVE  \/ UNCHANGED <<now, stored, status, revoked>>
             \/ \E n \in Names : ExpirePending(n) \/ ExpireUpdate(n) \/ Delete(n)
  BY <1>4 DEF CleanerStep, ListPending, ListApproved, ListCleanup, SkipPending,
              ExpireApproved, SkipApproved, ExpireConflict, HistoryUnchanged
<1>5. ASSUME \/ CleanerListFault \/ Crash \/ UNCHANGED vars
             \/ \E n \in Names : CleanerItemFault(n)
      PROVE  UNCHANGED <<now, stored, status, revoked>>
  BY <1>5 DEF CleanerListFault, CleanerItemFault, Crash, HistoryUnchanged, vars
<1>6. ASSUME NEW h \in Handlers,
             \/ RequestWrite(h) \/ Approve(h) \/ End(h)
             \/ \E n \in Names : RequestCreate(h, n)
      PROVE  Contract!CNext \/ UNCHANGED <<now, Until, revoked>>
  BY <1>6, RequestKeeps, ApproveGives, EndRevokes
<1> QED
  BY <1>1, <1>2, <1>3, <1>4, <1>5, <1>6, CleanerKeeps, TickPasses DEF Next, Handlers

\* The invariants hold together.
LEMMA ContractInvariance == Spec => []ContractInv
<1>1. Init => ContractInv
  <2> SUFFICES ASSUME Init PROVE PendingInv /\ ApprovalsAreOfCreated
    BY TypedInit, AccessInit, RevocationInit DEF ContractInv
  <2> QED
    BY DEF Init, PendingInv, ApprovalsAreOfCreated, EmptyStatus, IdleHandler
<1>2. ContractInv /\ [Next]_vars => ContractInv'
  BY TypedNext, AccessNext, RevocationNext, PendingNext, ApprovalsNext DEF ContractInv
<1> QED
  BY <1>1, <1>2, PTL DEF Spec

\* The handlers and the cleanup routine keep the contract about access: only an
\* approval gives it, once and for maxValidFor, and what a user ended stays
\* without (approve, the four ending handlers, ExpireApprovedSessions).
THEOREM ContractKept == Spec => KeepsContract
<1>1. Spec => []ContractInv
  BY ContractInvariance
<1>2. Init => Contract!CInit
  <2> SUFFICES ASSUME Init PROVE Contract!CInit
    OBVIOUS
  <2>1. \A n \in Names : ~Grants(n)
    BY DEF Init, Grants, GrantsAccess, EmptyStatus
  <2>2. Until = [n \in Names |-> 0]
    BY <2>1 DEF Until
  <2> QED
    BY <2>2 DEF Init, Contract!CInit, Contract!NoAccess
<1> QED
  BY <1>1, <1>2, StepsOfContract, PTL DEF Spec, KeepsContract, Contract!CSpec

\* Whoever writes, a session that keeps its access keeps the end of it: the
\* contract gives access only to a session without, so ExpiresAt does not move.
THEOREM WindowSafe == Spec => WindowNeverMoves
<1>1. ContractInv /\ [Next]_vars =>
        [\A n \in Names :
           Grants(n) /\ Grants(n)' => status'[n].expiresAt = status[n].expiresAt]_vars
  <2> SUFFICES ASSUME ContractInv, [Next]_vars, NEW n \in Names, Grants(n), Grants(n)'
               PROVE  status'[n].expiresAt = status[n].expiresAt
    OBVIOUS
  <2>1. /\ Until[n] = status[n].expiresAt /\ Until[n] # 0
        /\ Until'[n] = status'[n].expiresAt /\ Until'[n] # 0
    BY UntilAt DEF Grants, GrantsAccess
  <2>2. Contract!CNext \/ Until' = Until
    BY StepsOfContract DEF Contract!cvars
  <2>3. ASSUME NEW m \in Names, Contract!Give(m) \/ Contract!Lose(m) \/ Contract!Revoke(m)
        PROVE  Until'[n] = Until[n]
    <3>1. \A v : Until' = [Until EXCEPT ![m] = v] =>
                   Until'[m] = v /\ (m # n => Until'[n] = Until[n])
      BY DEF Until
    <3>2. CASE Contract!Give(m)
      <4>1. Until[m] = 0 /\ Until' = [Until EXCEPT ![m] = now + ValidFor]
        BY <3>2 DEF Contract!Give, Contract!NoAccess
      <4> QED
        BY <2>1, <3>1, <4>1
    <3>3. CASE Contract!Lose(m) \/ Contract!Revoke(m)
      <4>1. Until' = [Until EXCEPT ![m] = 0]
        BY <3>3 DEF Contract!Lose, Contract!Revoke, Contract!NoAccess
      <4> QED
        BY <2>1, <3>1, <4>1
    <3> QED
      BY <2>3, <3>2, <3>3
  <2>4. CASE Contract!Pass
    BY <2>1, <2>4 DEF Contract!Pass, Contract!NoAccess
  <2> QED
    BY <2>1, <2>2, <2>3, <2>4 DEF Contract!CNext
<1> QED
  BY <1>1, ContractInvariance, PTL DEF Spec, WindowNeverMoves

-----------------------------------------------------------------------------
(***************************************************************************)
(* States, when requests for one triple do not overlap (Sequential).       *)
(*                                                                         *)
(* Without overlap a request writes only the object it created, because    *)
(* its first look found no active session and nobody else makes one active *)
(* (RequesterInv).  Hence every write is made on the status the writer     *)
(* decided upon (HandlerInv, CurrentIsStored), except for the cleaner's    *)
(* writes under a version it read later, where it is enough that the       *)
(* session was decided before it was listed and is dead (CleanerInv).  So  *)
(* every status evolves as MayBecome says and its state agrees with its    *)
(* times (StatusInv).                                                      *)
(***************************************************************************)

Undecided == {"", "Pending", "ApprovalTimeout"}

\* The state and the times of a status tell the same story.
Coherent(s) ==
    /\ s.state = "" => s = EmptyStatus
    /\ s.state \in Undecided <=> IsSessionPendingApproval(s)
    /\ s.state \in Undecided => s.expiresAt = Unset
    /\ s.state = "Approved" => s.approvedAt # Unset

StatusInv ==
    /\ \A n \in Names :
          /\ Coherent(status[n])
          /\ status[n].state \notin Undecided \cup {"Approved"} => IsDead(status[n], now)
    /\ \A n \in Names \ stored : status[n] = EmptyStatus

\* The status that an operation accepts.
Suits(op, s) ==
    /\ op = "request" => s = EmptyStatus
    /\ op \in {"approve", "reject"} => s.state = "Pending"
    /\ op = "withdraw" => IsSessionPendingApproval(s)
    /\ op = "cancel" => IsRunning(s)

HandlerInv ==
    \A h \in Handlers :
        /\ handler[h].current => handler[h].pc = "holding" /\ handler[h].name \in stored
        /\ handler[h].pc = "holding" =>
              /\ Suits(handler[h].op, handler[h].copy)
              /\ handler[h].key = KeyOf[handler[h].name]

RequesterInv ==
    \A h \in Requesters :
        /\ handler[h].pc = "checked" => ActiveSessions(handler[h].key) = {}
        /\ handler[h].pc = "created" =>
              \A n \in ActiveSessions(handler[h].key) : status[n] = EmptyStatus

\* A listed status s that the cleaner may write over the stored status r.
StandsFor(s, r) ==
    /\ ~IsSessionPendingApproval(s)
    /\ r.state \in {"Approved", "Expired", "Withdrawn"}
    /\ r.rejectedAt # Unset \/ r.expiresAt = s.expiresAt

CleanerInv ==
    /\ cleaner.pc \in {"pending", "approved", "updating"} => cleaner.todo \subseteq stored
    /\ cleaner.pc \in {"approved", "updating"} =>
          \A n \in cleaner.todo : StandsFor(cleaner.snap[n], status[n])
    /\ cleaner.pc = "updating" =>
          \A n \in Names : IsFirst(n, cleaner.todo) =>
              IsDead(cleaner.snap[n], now) /\ IsDead(status[n], now)

\* How status s may change to r at time t.
Evolves(s, r, t) ==
    /\ Coherent(r)
    /\ r.state \in {s.state} \cup MayBecome(s.state)
    /\ r.state \notin Undecided \cup {"Approved"} => IsDead(r, t)
    /\ IsDead(s, t) => IsDead(r, t)

-----------------------------------------------------------------------------

\* The request's write.
LEMMA RequestEvolves ==
    ASSUME NEW t \in Nat
    PROVE  Evolves(EmptyStatus, PendingStatus(t), t)
<1> DEFINE r == PendingStatus(t)
<1>1. /\ r.state = "Pending" /\ r.approvedAt = Unset /\ r.rejectedAt = Unset
      /\ r.expiresAt = Unset
  BY DEF PendingStatus, EmptyStatus
<1>2. EmptyStatus.state = "" /\ EmptyStatus.rejectedAt = Unset /\ EmptyStatus.expiresAt = Unset
  BY DEF EmptyStatus
<1> HIDE DEF r
<1>3. Coherent(r)
  BY <1>1 DEF Coherent, Undecided, IsSessionPendingApproval
<1>4. "Pending" \in MayBecome("")
  BY DEF MayBecome
<1> QED
  BY <1>1, <1>2, <1>3, <1>4 DEF Evolves, Undecided, IsDead, IsSessionExpired, r

\* An approval's.
LEMMA ApprovalEvolves ==
    ASSUME NEW s \in Statuses, Coherent(s), s.state = "Pending", NEW c, NEW t \in Nat \ {0}
    PROVE  Evolves(s, ApprovedStatus(s, c, t), t)
<1> DEFINE r == ApprovedStatus(s, c, t)
<1>1. r.state = "Approved" /\ r.approvedAt = t
  BY DEF ApprovedStatus, Statuses
<1> HIDE DEF r
<1>2. Coherent(r)
  BY <1>1 DEF Coherent, Undecided, IsSessionPendingApproval
<1>3. ~IsDead(s, t)
  BY DEF Coherent, Undecided, IsSessionPendingApproval, IsDead, IsSessionExpired
<1>4. "Approved" \in MayBecome("Pending")
  BY DEF MayBecome
<1> QED
  BY <1>1, <1>2, <1>3, <1>4 DEF Evolves, r

\* A write that sets RejectedAt ends the session.
LEMMA EndEvolves ==
    ASSUME NEW s, NEW r, NEW t \in Nat \ {0}, r.rejectedAt = t,
           r.state \in {"Rejected", "Withdrawn", "Expired"}, r.state \in {s.state} \cup MayBecome(s.state)
    PROVE  Evolves(s, r, t)
  BY DEF Evolves, Coherent, Undecided, IsSessionPendingApproval, IsDead

\* The states of what users write to end a session.
LEMMA EndingStates ==
    ASSUME NEW s \in Statuses, NEW c, NEW t
    PROVE  /\ RejectedStatus(s, c, t).state = "Rejected" /\ RejectedStatus(s, c, t).rejectedAt = t
           /\ WithdrawnStatus(s, t).state = "Withdrawn" /\ WithdrawnStatus(s, t).rejectedAt = t
           /\ CanceledStatus(s, c, t).state = "Expired" /\ CanceledStatus(s, c, t).rejectedAt = t
           /\ DroppedStatus(s, t).state = (IF IsRunning(s) THEN "Expired" ELSE "Withdrawn")
           /\ DroppedStatus(s, t).rejectedAt = t
<1>1. RejectedStatus(s, c, t).state = "Rejected" /\ RejectedStatus(s, c, t).rejectedAt = t
  BY DEF RejectedStatus, Statuses
<1>2. WithdrawnStatus(s, t).state = "Withdrawn" /\ WithdrawnStatus(s, t).rejectedAt = t
  BY DEF WithdrawnStatus, Statuses
<1>3. CanceledStatus(s, c, t).state = "Expired" /\ CanceledStatus(s, c, t).rejectedAt = t
  BY DEF CanceledStatus, EndedStatus, Statuses
<1>4. \A x : EndedStatus(s, x, t).state = "Expired" /\ EndedStatus(s, x, t).rejectedAt = t
  BY DEF EndedStatus, Statuses
<1> QED
  BY <1>1, <1>2, <1>3, <1>4 DEF DroppedStatus

\* Reject, withdraw, drop and cancel.
LEMMA EndingEvolves ==
    ASSUME NEW hd \in HandlerStates, NEW t \in Nat \ {0},
           hd.op \in {"reject", "withdraw", "drop", "cancel"},
           Coherent(hd.copy), Suits(hd.op, hd.copy)
    PROVE  Evolves(hd.copy, EndingStatus(hd, t), t) /\ EndingStatus(hd, t).rejectedAt = t
<1> DEFINE s == hd.copy
<1>1. s \in Statuses /\ s.state \in States
  BY DEF HandlerStates, Statuses
<1>2. CASE hd.op = "reject"
  <2>1. EndingStatus(hd, t) = RejectedStatus(s, hd.by, t)
    BY <1>2 DEF EndingStatus
  <2>2. s.state = "Pending" /\ "Rejected" \in MayBecome("Pending")
    BY <1>2 DEF Suits, MayBecome
  <2> QED
    BY <1>1, <2>1, <2>2, EndingStates, EndEvolves
<1>3. CASE hd.op = "withdraw"
  <2>1. EndingStatus(hd, t) = WithdrawnStatus(s, t)
    BY <1>3 DEF EndingStatus
  <2>2. s.state \in Undecided
    BY <1>3 DEF Suits, Coherent
  <2>3. \A u \in Undecided : "Withdrawn" \in MayBecome(u)
    BY DEF Undecided, MayBecome
  <2> QED
    BY <1>1, <2>1, <2>2, <2>3, EndingStates, EndEvolves
<1>4. CASE hd.op = "drop"
  <2>1. EndingStatus(hd, t) = DroppedStatus(s, t)
    BY <1>4 DEF EndingStatus
  <2>2. CASE IsRunning(s)
    <3>1. "Expired" \in MayBecome(s.state)
      BY <2>2 DEF IsRunning, MayBecome
    <3> QED
      BY <1>1, <2>1, <2>2, <3>1, EndingStates, EndEvolves
  <2>3. CASE ~IsRunning(s)
    <3>1. s.state # "Approved"
      BY <2>3 DEF IsRunning, Coherent
    <3>2. \A u \in States \ {"Approved", "Withdrawn"} : "Withdrawn" \in MayBecome(u)
      BY DEF States, MayBecome
    <3> QED
      BY <1>1, <2>1, <2>3, <3>1, <3>2, EndingStates, EndEvolves
  <2> QED
    BY <2>2, <2>3
<1>5. CASE hd.op = "cancel"
  <2>1. EndingStatus(hd, t) = CanceledStatus(s, hd.by, t)
    BY <1>5 DEF EndingStatus
  <2>2. "Expired" \in MayBecome(s.state)
    BY <1>5 DEF Suits, IsRunning, MayBecome
  <2> QED
    BY <1>1, <2>1, <2>2, EndingStates, EndEvolves
<1> QED
  BY <1>2, <1>3, <1>4, <1>5

\* A write of a handler is accepted only on the status it read, so the status
\* evolves; it reopens nothing that was decided, and only a request leaves a
\* session without status active.
LEMMA HandlerWrites ==
    ASSUME Typed, CurrentIsStored, StatusInv, HandlerInv, NEW h \in Handlers,
           RequestWrite(h) \/ Approve(h) \/ End(h)
    PROVE  \E r : /\ Update(h, r)
                  /\ Evolves(status[handler[h].name], r, now)
                  /\ status[handler[h].name].state \notin Undecided => r.rejectedAt # Unset
                  /\ status[handler[h].name] = EmptyStatus /\ ~IsDead(r, now) => RequestWrite(h)
<1> DEFINE hd == handler[h]
           s  == status[hd.name]
<1>1. hd \in HandlerStates /\ now \in Nat \ {0}
  BY DEF Typed, TypeOK
<1>2. hd.current /\ hd.pc = "holding"
  BY DEF RequestWrite, Approve, End, Update, Unchanged
<1>3. hd.name \in stored /\ hd.copy = s /\ Suits(hd.op, hd.copy)
  BY <1>2 DEF CurrentIsStored, HandlerInv
<1>4. hd.name \in Names
  BY <1>3 DEF Typed, TypeOK
<1>5. Coherent(s) /\ s \in Statuses
  BY <1>4 DEF StatusInv, Typed, TypeOK
<1> HIDE DEF s
<1>6. CASE RequestWrite(h)
  <2>1. hd.op = "request" /\ Update(h, PendingStatus(now))
    BY <1>6 DEF RequestWrite
  <2>2. s = EmptyStatus
    BY <1>3, <2>1 DEF Suits
  <2>3. EmptyStatus.state \in Undecided
    BY DEF EmptyStatus, Undecided
  <2> QED
    BY <1>1, <1>6, <2>1, <2>2, <2>3, RequestEvolves DEF s
<1>7. CASE Approve(h)
  <2>1. hd.op = "approve" /\ Update(h, ApprovedStatus(s, hd.by, now))
    BY <1>3, <1>7 DEF Approve
  <2>2. s.state = "Pending"
    BY <1>3, <2>1 DEF Suits
  <2>3. EmptyStatus.state # "Pending"
    BY DEF EmptyStatus
  <2>4. s.state \in Undecided /\ s # EmptyStatus
    BY <2>2, <2>3 DEF Undecided
  <2> QED
    BY <1>1, <1>5, <2>1, <2>2, <2>4, ApprovalEvolves DEF s
<1>8. CASE End(h)
  <2>1. /\ hd.op \in {"reject", "withdraw", "drop", "cancel"}
        /\ Update(h, EndingStatus(hd, now))
    BY <1>8 DEF End
  <2>2. Evolves(s, EndingStatus(hd, now), now) /\ EndingStatus(hd, now).rejectedAt # Unset
    BY <1>1, <1>3, <1>5, <2>1, EndingEvolves
  <2> QED
    BY <2>1, <2>2 DEF IsDead, s
<1> QED
  BY <1>6, <1>7, <1>8

\* So does the status that the cleaner writes over a stored one, which has a
\* status, and which it does not bring back.
LEMMA CleanerWritesEvolve ==
    ASSUME Typed, RevocationInv, StatusInv, CleanerInv, NEW n \in Names,
           ExpirePending(n) \/ ExpireUpdate(n)
    PROVE  /\ n \in stored /\ status[n] # EmptyStatus
           /\ \E r : CleanerWrites(n, r) /\ Evolves(status[n], r, now)
<1> DEFINE s == status[n]
           r == cleaner.snap[n]
<1>1. s \in Statuses /\ r \in Statuses /\ now \in Nat /\ Coherent(s) /\ n \in cleaner.todo
  BY DEF Typed, TypeOK, CleanerStates, StatusInv, ExpirePending, ExpireUpdate, IsFirst
<1>2. n \in stored
  BY <1>1 DEF ExpirePending, ExpireUpdate, CleanerInv
<1>3. EmptyStatus.timeoutAt = Unset /\ EmptyStatus.state = ""
  BY DEF EmptyStatus
<1>4. CASE ExpirePending(n)
  <2>1. r = s /\ CleanerWrites(n, TimedOutStatus(r)) /\ IsSessionApprovalTimedOut(r, now)
    BY <1>4 DEF ExpirePending, UnchangedItem, IsFirst, RevocationInv, CleanerKeepsDead
  <2> HIDE DEF r, s
  <2>2. s # EmptyStatus /\ s.state \in Undecided \ {""}
    BY <1>1, <1>3, <2>1 DEF IsSessionApprovalTimedOut, Coherent
  <2> DEFINE w == TimedOutStatus(r)
  <2>3. /\ w.state = "ApprovalTimeout" /\ w.rejectedAt = s.rejectedAt
        /\ w.expiresAt = s.expiresAt /\ w.approvedAt = s.approvedAt
    BY <1>1, <2>1 DEF TimedOutStatus, Statuses
  <2> HIDE DEF w
  <2>4. Coherent(w)
    BY <1>1, <2>2, <2>3 DEF Coherent, Undecided, IsSessionPendingApproval
  <2>5. "ApprovalTimeout" \in MayBecome("Pending")
    BY DEF MayBecome
  <2>6. Evolves(s, w, now)
    BY <2>2, <2>3, <2>4, <2>5 DEF Evolves, Undecided, IsDead, IsSessionExpired
  <2> QED
    BY <1>2, <2>1, <2>2, <2>6 DEF w, s
<1>5. CASE ExpireUpdate(n)
  <2>1. CleanerWrites(n, r) /\ IsDead(r, now) /\ StandsFor(r, s) /\ r.state = "Expired"
    BY <1>1, <1>5 DEF ExpireUpdate, CleanerInv, RevocationInv, CleanerKeepsDead
  <2> HIDE DEF r, s
  <2>2. Coherent(r)
    BY <2>1 DEF Coherent, StandsFor, Undecided
  <2>3. \A u \in {"Approved", "Withdrawn"} : "Expired" \in MayBecome(u)
    BY DEF MayBecome
  <2>4. Evolves(s, r, now)
    BY <2>1, <2>2, <2>3 DEF Evolves, StandsFor
  <2>5. s # EmptyStatus
    BY <1>3, <2>1 DEF StandsFor
  <2> QED
    BY <1>2, <2>1, <2>4, <2>5 DEF s
<1> QED
  BY <1>4, <1>5

\* How the status of n changes in a step.
StatusMoves(n) ==
    \/ status'[n] = status[n] /\ (n \in stored => n \in stored')
    \/ n \in stored \ stored' /\ status'[n] = EmptyStatus
    \/ /\ n \in stored \cap stored' /\ now' = now
       /\ Evolves(status[n], status'[n], now)
       /\ status[n] = EmptyStatus /\ ~IsDead(status'[n], now) =>
             \E h \in Requesters : handler[h].pc = "holding" /\ handler[h].key = KeyOf[n]

\* Every step moves every status in one of these ways.
LEMMA StepMovesStatus ==
    ASSUME Typed, RevocationInv, CurrentIsStored, StatusInv, HandlerInv, CleanerInv,
           [Next]_vars, NEW n \in Names
    PROVE  StatusMoves(n)
<1>t. status \in [Names -> Statuses] /\ stored \subseteq Names
  BY DEF Typed, TypeOK
<1>1. ASSUME UNCHANGED status, stored \subseteq stored' PROVE StatusMoves(n)
  BY <1>1 DEF StatusMoves
<1>2. ASSUME NEW h \in Handlers, Approve(h) \/ End(h) \/ (RequestWrite(h) /\ h \in Requesters)
      PROVE  StatusMoves(n)
  <2>1. PICK r : /\ Update(h, r)
                 /\ Evolves(status[handler[h].name], r, now)
                 /\ status[handler[h].name] = EmptyStatus /\ ~IsDead(r, now) => RequestWrite(h)
    BY <1>2, HandlerWrites
  <2>2. /\ handler[h].pc = "holding" /\ handler[h].current
    BY <1>2 DEF Approve, End, RequestWrite, Update, Unchanged
  <2>3. /\ handler[h].name \in stored /\ handler[h].key = KeyOf[handler[h].name]
    BY <2>2 DEF HandlerInv
  <2>4. RequestWrite(h) => h \in Requesters
    BY <1>2 DEF Approve, End, RequestWrite
  <2>5. /\ now' = now /\ stored' = stored
        /\ status'[n] = IF n = handler[h].name THEN r ELSE status[n]
    BY <1>t, <2>1 DEF Update
  <2> QED
    BY <2>1, <2>2, <2>3, <2>4, <2>5 DEF StatusMoves
<1>3. ASSUME NEW m \in Names, ExpirePending(m) \/ ExpireUpdate(m) PROVE StatusMoves(n)
  <2>1. PICK r : CleanerWrites(m, r) /\ Evolves(status[m], r, now)
    BY <1>3, CleanerWritesEvolve
  <2>2. m \in stored /\ status[m] # EmptyStatus
    BY <1>3, CleanerWritesEvolve
  <2>3. /\ now' = now /\ stored' = stored
        /\ status'[n] = IF n = m THEN r ELSE status[n]
    BY <1>3, <1>t, <2>1 DEF ExpirePending, ExpireUpdate, CleanerWrites
  <2> QED
    BY <2>1, <2>2, <2>3 DEF StatusMoves
<1>4. ASSUME NEW m \in Names, Delete(m) PROVE StatusMoves(n)
  <2>1. /\ stored' = stored \ {m}
        /\ status'[n] = IF n = m THEN EmptyStatus ELSE status[n]
    BY <1>4, <1>t DEF Delete
  <2>2. n \notin stored => status[n] = EmptyStatus
    BY DEF StatusInv
  <2> QED
    BY <2>1, <2>2 DEF StatusMoves
<1>5. ASSUME NEW h \in Requesters, RequesterStep(h) PROVE StatusMoves(n)
  BY <1>1, <1>2, <1>5 DEF RequesterStep, RequestCheck, RequestCreate, RequestRead, Hold, Fail, Handlers
<1>6. ASSUME NEW h \in Deciders, DeciderStep(h) PROVE StatusMoves(n)
  BY <1>1, <1>2, <1>6 DEF DeciderStep, ReadApprove, ReadReject, ReadWithdraw, ReadDrop,
                          ReadCancel, Hold, Fail, Handlers
<1>7. CASE CleanerStep
  BY <1>1, <1>3, <1>4, <1>7 DEF CleanerStep, ListPending, ListApproved, ListCleanup, SkipPending,
                                ExpireApproved, SkipApproved, ExpireConflict
<1>8. CASE CleanerListFault \/ Crash \/ Tick \/ UNCHANGED vars \/ \E m \in Names : CleanerItemFault(m)
  BY <1>1, <1>8 DEF CleanerListFault, CleanerItemFault, Crash, Tick, vars
<1> QED
  BY <1>5, <1>6, <1>7, <1>8 DEF Next

\* What else is needed of a step: time goes on, and only RequestCreate adds an
\* object.
LEMMA StepKeepsTime ==
    ASSUME Typed, [Next]_vars
    PROVE  /\ now \in Nat /\ now' \in Nat /\ now <= now'
           /\ \A n \in stored' \ stored : \E h \in Requesters : RequestCreate(h, n)
<1>t. now \in Nat
  BY DEF Typed, TypeOK
<1>1. \A h \in Requesters : RequesterStep(h) =>
        now' = now /\ (stored' = stored \/ \E n \in Names : RequestCreate(h, n))
  BY DEF RequesterStep, RequestCheck, RequestCreate, RequestRead, RequestWrite, Hold, Update, Fail
<1>2. \A h \in Requesters, n \in Names : RequestCreate(h, n) => stored' = stored \cup {n}
  BY DEF RequestCreate
<1>3. \A h \in Deciders : DeciderStep(h) => now' = now /\ stored' = stored
  BY DEF DeciderStep, ReadApprove, ReadReject, ReadWithdraw, ReadDrop, ReadCancel, Hold,
         Approve, End, Update, Fail
<1>4. CleanerStep => now' = now /\ stored' \subseteq stored
  BY DEF CleanerStep, ListPending, ListApproved, ListCleanup, ExpirePending, SkipPending,
         ExpireApproved, SkipApproved, ExpireUpdate, ExpireConflict, Delete
<1>5. CleanerListFault \/ Crash \/ UNCHANGED vars \/ (\E m \in Names : CleanerItemFault(m)) =>
        now' = now /\ stored' = stored
  BY DEF CleanerListFault, CleanerItemFault, Crash, vars
<1>6. Tick => now' = now + 1 /\ stored' = stored
  BY DEF Tick
<1>7. \/ now' = now \/ now' = now + 1
  BY <1>1, <1>3, <1>4, <1>5, <1>6 DEF Next
<1>8. ASSUME NEW n \in stored' \ stored PROVE \E h \in Requesters : RequestCreate(h, n)
  BY <1>1, <1>2, <1>3, <1>4, <1>5, <1>6, <1>8 DEF Next
<1> QED
  BY <1>t, <1>7, <1>8

\* Statuses stay coherent, and dead when they are shown as ended.
LEMMA StatusNext ==
    ASSUME Typed, StatusInv, [Next]_vars, \A n \in Names : StatusMoves(n)
    PROVE  StatusInv'
<1>t. \A n \in Names : status[n] \in Statuses
  BY DEF Typed, TypeOK
<1>1. now \in Nat /\ now' \in Nat /\ now <= now'
  BY StepKeepsTime
<1>2. Coherent(EmptyStatus) /\ EmptyStatus.state = "" /\ "" \in Undecided
  BY DEF Coherent, EmptyStatus, Undecided, IsSessionPendingApproval
<1>3. ASSUME NEW n \in Names
      PROVE  /\ Coherent(status'[n])
             /\ status'[n].state \notin Undecided \cup {"Approved"} => IsDead(status'[n], now')
  <2>1. CASE status'[n] = status[n]
    BY <1>t, <1>1, <2>1, DeadLater DEF StatusInv
  <2>2. CASE status'[n] = EmptyStatus
    BY <1>2, <2>2
  <2>3. CASE Evolves(status[n], status'[n], now) /\ now' = now
    BY <2>3 DEF Evolves
  <2> QED
    BY <2>1, <2>2, <2>3 DEF StatusMoves
<1>4. ASSUME NEW n \in Names \ stored' PROVE status'[n] = EmptyStatus
  BY <1>4 DEF StatusMoves, StatusInv
<1> QED
  BY <1>3, <1>4 DEF StatusInv

\* No session comes back to life.
LEMMA NothingRevives ==
    ASSUME Typed, [Next]_vars, NEW n \in stored \cap stored', StatusMoves(n),
           IsSessionActive(status'[n], now')
    PROVE  IsSessionActive(status[n], now)
<1>1. now \in Nat /\ now' \in Nat /\ now <= now'
  BY StepKeepsTime
<1>2. status[n] \in Statuses
  BY DEF Typed, TypeOK
<1>3. ~IsDead(status'[n], now')
  BY DEF IsSessionActive, IsDead
<1>4. CASE status'[n] = status[n]
  BY <1>1, <1>2, <1>3, <1>4, DeadLater DEF IsSessionActive, IsDead
<1>5. CASE Evolves(status[n], status'[n], now) /\ now' = now
  BY <1>3, <1>5 DEF Evolves, IsSessionActive, IsDead
<1> QED
  BY <1>4, <1>5 DEF StatusMoves

-----------------------------------------------------------------------------

\* How a handler changes in a step: it stops, keeps its copy (which stays
\* current only if the object is still there), or takes a step of its own.
HandlerMoves(h) ==
    \/ handler'[h] = IdleHandler
    \/ /\ handler'[h].pc = handler[h].pc /\ handler'[h].op = handler[h].op
       /\ handler'[h].key = handler[h].key /\ handler'[h].name = handler[h].name
       /\ handler'[h].copy = handler[h].copy
       /\ handler'[h].current =>
             handler[h].current /\ (handler[h].name \in stored => handler[h].name \in stored')
    \/ \E k \in Keys : h \in Requesters /\ RequestCheck(h, k)
    \/ \E n \in Names : h \in Requesters /\ RequestCreate(h, n)
    \/ /\ handler'[h].pc = "holding" /\ handler'[h].name \in stored /\ stored' = stored
       /\ handler'[h].key = KeyOf[handler'[h].name]
       /\ Suits(handler'[h].op, status[handler'[h].name])
       /\ handler'[h].copy = status[handler'[h].name]

\* The handlers after object n was written or, if it is gone, deleted.
LEMMA InvalidatedMoves ==
    ASSUME Typed, NEW n, NEW h \in Handlers, handler'[h] = Invalidated(n)[h],
           stored \ {n} \subseteq stored'
    PROVE  HandlerMoves(h)
<1>1. handler[h] \in HandlerStates
  BY DEF Typed, TypeOK
<1>2. CASE handler[h].name = n
  <2>1. handler'[h] = [handler[h] EXCEPT !.current = FALSE]
    BY <1>2 DEF Invalidated
  <2>2. /\ handler'[h].pc = handler[h].pc /\ handler'[h].op = handler[h].op
        /\ handler'[h].key = handler[h].key /\ handler'[h].name = handler[h].name
        /\ handler'[h].copy = handler[h].copy /\ ~handler'[h].current
    BY <1>1, <2>1 DEF HandlerStates
  <2> QED
    BY <2>2 DEF HandlerMoves
<1>3. CASE handler[h].name # n
  <2>1. handler'[h] = handler[h]
    BY <1>3 DEF Invalidated
  <2> QED
    BY <1>3, <2>1 DEF HandlerMoves
<1> QED
  BY <1>2, <1>3

\* Every step moves every handler in one of these ways.
LEMMA StepMovesHandlers ==
    ASSUME Typed, StatusInv, RequesterInv, [Next]_vars, NEW h \in Handlers
    PROVE  HandlerMoves(h)
<1>t. handler \in [Handlers -> HandlerStates]
  BY DEF Typed, TypeOK
<1>1. ASSUME handler'[h] = handler[h], stored' = stored \/ stored \subseteq stored'
      PROVE  HandlerMoves(h)
  BY <1>1 DEF HandlerMoves
<1>2. ASSUME NEW g \in Handlers, NEW s, Update(g, s) PROVE HandlerMoves(h)
  <2>1. CASE g = h
    BY <1>2, <1>t, <2>1 DEF Update, HandlerMoves, Invalidated
  <2>2. CASE g # h
    <3>1. handler'[h] = Invalidated(handler[g].name)[h] /\ stored' = stored
      BY <1>2, <2>2 DEF Update
    <3> QED
      BY <3>1, InvalidatedMoves
  <2> QED
    BY <2>1, <2>2
<1>3. ASSUME NEW g \in Handlers, NEW op, NEW c, NEW n \in stored, Hold(g, op, c, n),
             Suits(op, status[n])
      PROVE  HandlerMoves(h)
  <2>1. CASE g = h
    <3>1. /\ handler'[h].pc = "holding" /\ handler'[h].name = n /\ handler'[h].op = op
          /\ handler'[h].key = KeyOf[n] /\ handler'[h].copy = status[n] /\ stored' = stored
      BY <1>3, <1>t, <2>1 DEF Hold
    <3> QED
      BY <1>3, <3>1 DEF HandlerMoves
  <2>2. CASE g # h
    BY <1>1, <1>3, <2>2 DEF Hold
  <2> QED
    BY <2>1, <2>2
<1>4. ASSUME NEW g \in Handlers, Fail(g) PROVE HandlerMoves(h)
  <2>1. stored' = stored /\ handler'[h] = IF g = h THEN IdleHandler ELSE handler[h]
    BY <1>4, <1>t DEF Fail
  <2> QED
    BY <1>1, <2>1 DEF HandlerMoves
<1>5. ASSUME NEW g \in Requesters,
             (\E k \in Keys : RequestCheck(g, k)) \/ \E n \in Names : RequestCreate(g, n)
      PROVE  HandlerMoves(h)
  <2>1. CASE g = h
    BY <1>5, <2>1 DEF HandlerMoves
  <2>2. CASE g # h
    <3>1. handler'[h] = handler[h] /\ stored \subseteq stored'
      BY <1>5, <1>t, <2>2 DEF RequestCheck, RequestCreate
    <3> QED
      BY <1>1, <3>1
  <2> QED
    BY <2>1, <2>2
<1>6. ASSUME NEW g \in Requesters, NEW n \in Names, RequestRead(g, n) PROVE HandlerMoves(h)
  <2>1. n \in stored /\ status[n] = EmptyStatus
    BY <1>6 DEF RequestRead, IsFirst, RequesterInv, ActiveSessions
  <2>2. Suits("request", status[n])
    BY <2>1 DEF Suits
  <2> QED
    BY <1>3, <1>6, <2>1, <2>2 DEF RequestRead, Handlers
<1>7. ASSUME NEW g \in Deciders, NEW c \in Callers, NEW n \in Names,
             \/ ReadApprove(g, c, n)  \/ ReadReject(g, c, n)
             \/ ReadWithdraw(g, c, n) \/ ReadDrop(g, c, n) \/ ReadCancel(g, c, n)
      PROVE  HandlerMoves(h)
  <2>1. \E op \in Ops : n \in stored /\ Suits(op, status[n]) /\ Hold(g, op, c, n)
    BY <1>7 DEF ReadApprove, ReadReject, ReadWithdraw, ReadDrop, ReadCancel, Ops, Suits
  <2> QED
    BY <1>3, <2>1 DEF Handlers
<1>8. ASSUME NEW g \in Requesters, RequesterStep(g) PROVE HandlerMoves(h)
  BY <1>2, <1>4, <1>5, <1>6, <1>8 DEF RequesterStep, RequestWrite, Handlers
<1>9. ASSUME NEW g \in Deciders, DeciderStep(g) PROVE HandlerMoves(h)
  BY <1>2, <1>4, <1>7, <1>9 DEF DeciderStep, Approve, End, Handlers
<1>10. ASSUME NEW n \in Names, ExpirePending(n) \/ ExpireUpdate(n) \/ Delete(n)
       PROVE  HandlerMoves(h)
  <2>1. handler' = Invalidated(n) /\ stored \ {n} \subseteq stored'
    BY <1>10 DEF ExpirePending, ExpireUpdate, Delete, CleanerWrites
  <2> QED
    BY <2>1, InvalidatedMoves
<1>11. CASE CleanerStep
  BY <1>1, <1>10, <1>11 DEF CleanerStep, ListPending, ListApproved, ListCleanup, SkipPending,
                            ExpireApproved, SkipApproved, ExpireConflict
<1>12. CASE CleanerListFault \/ Tick \/ UNCHANGED vars \/ \E n \in Names : CleanerItemFault(n)
  BY <1>1, <1>12 DEF CleanerListFault, CleanerItemFault, Tick, vars
<1>13. CASE Crash
  BY <1>13 DEF Crash, HandlerMoves
<1> QED
  BY <1>8, <1>9, <1>11, <1>12, <1>13 DEF Next

\* What a handler holds suits its operation.
LEMMA HandlerNext ==
    ASSUME Typed, HandlerInv, \A h \in Handlers : HandlerMoves(h)
    PROVE  HandlerInv'
<1> SUFFICES ASSUME NEW h \in Handlers
             PROVE  /\ handler'[h].current => handler'[h].pc = "holding" /\ handler'[h].name \in stored'
                    /\ handler'[h].pc = "holding" =>
                          /\ Suits(handler'[h].op, handler'[h].copy)
                          /\ handler'[h].key = KeyOf[handler'[h].name]
  BY DEF HandlerInv
<1>t. handler \in [Handlers -> HandlerStates]
  BY DEF Typed, TypeOK
<1>1. CASE handler'[h] = IdleHandler
  BY <1>1 DEF IdleHandler
<1>2. ASSUME NEW k \in Keys, RequestCheck(h, k) PROVE handler'[h].pc = "checked" /\ ~handler'[h].current
  BY <1>2, <1>t DEF RequestCheck, IdleHandler
<1>3. ASSUME NEW n \in Names, RequestCreate(h, n)
      PROVE  handler'[h].pc = "created" /\ ~handler'[h].current
  <2>1. handler'[h] = [handler[h] EXCEPT !.pc = "created"] /\ handler[h].pc = "checked"
    BY <1>3, <1>t DEF RequestCreate
  <2>2. ~handler[h].current /\ handler[h] \in HandlerStates
    BY <1>t, <2>1 DEF HandlerInv
  <2> QED
    BY <2>1, <2>2 DEF HandlerStates
<1> QED
  BY <1>1, <1>2, <1>3 DEF HandlerMoves, HandlerInv

-----------------------------------------------------------------------------

\* While a request is under way no session of its triple becomes active, but for
\* the object it creates itself.
LEMMA NothingAppears ==
    ASSUME Typed, Sequential, [Next]_vars, \A n \in Names : StatusMoves(n),
           NEW h \in Requesters, handler[h].pc \in {"checked", "created"},
           handler'[h].pc = handler[h].pc,
           NEW n \in stored', KeyOf[n] = handler[h].key, IsSessionActive(status'[n], now')
    PROVE  n \in ActiveSessions(handler[h].key)
<1>t. handler \in [Handlers -> HandlerStates] /\ h \in Handlers /\ stored \subseteq Names
  BY DEF Typed, TypeOK, Handlers
<1>1. ASSUME NEW g \in Requesters, RequestCreate(g, n) PROVE FALSE
  <2>1. handler[g].pc = "checked" /\ handler[g].key = KeyOf[n]
    BY <1>1 DEF RequestCreate
  <2>2. g = h
    BY <2>1 DEF Sequential
  <2>3. handler'[h].pc = "created"
    BY <1>1, <1>t, <2>2 DEF RequestCreate, HandlerStates
  <2> QED
    BY <2>1, <2>2, <2>3
<1>2. n \in stored
  BY <1>1, StepKeepsTime
<1> QED
  BY <1>t, <1>2, NothingRevives DEF ActiveSessions

\* What the handler found is still so, up to the object it created.
LEMMA RequesterNext ==
    ASSUME Typed, Sequential, StatusInv, RequesterInv, [Next]_vars,
           \A n \in Names : StatusMoves(n), \A h \in Handlers : HandlerMoves(h)
    PROVE  RequesterInv'
<1> SUFFICES ASSUME NEW h \in Requesters, NEW n \in stored', KeyOf[n] = handler'[h].key,
                    IsSessionActive(status'[n], now'), handler'[h].pc \in {"checked", "created"}
             PROVE  handler'[h].pc = "created" /\ status'[n] = EmptyStatus
  BY DEF RequesterInv, ActiveSessions
<1>t. /\ handler \in [Handlers -> HandlerStates] /\ h \in Handlers
      /\ stored \subseteq created /\ created \subseteq Names
  BY DEF Typed, TypeOK, Handlers
<1>a. n \in stored => IsSessionActive(status[n], now)
  BY <1>t, NothingRevives
<1>1. ASSUME NEW k \in Keys, RequestCheck(h, k) PROVE FALSE
  <2>1. handler'[h].key = k /\ ActiveSessions(k) = {} /\ UNCHANGED <<now, stored, status>>
    BY <1>1, <1>t DEF RequestCheck, IdleHandler
  <2> QED
    BY <1>a, <2>1 DEF ActiveSessions
<1>2. ASSUME NEW m \in Names, RequestCreate(h, m)
      PROVE  handler'[h].pc = "created" /\ status'[n] = EmptyStatus
  <2>1. /\ handler[h].pc = "checked" /\ handler'[h] = [handler[h] EXCEPT !.pc = "created"]
        /\ m \notin created /\ stored' = stored \cup {m} /\ UNCHANGED status
    BY <1>2, <1>t DEF RequestCreate
  <2>2. handler'[h].pc = "created" /\ handler'[h].key = handler[h].key
    BY <1>t, <2>1 DEF HandlerStates
  <2>3. n = m
    BY <1>a, <2>1, <2>2 DEF RequesterInv, ActiveSessions
  <2> QED
    BY <1>t, <2>1, <2>2, <2>3 DEF StatusInv
<1>3. ASSUME handler'[h].pc = handler[h].pc, handler'[h].key = handler[h].key
      PROVE  handler'[h].pc = "created" /\ status'[n] = EmptyStatus
  <2>1. n \in ActiveSessions(handler[h].key)
    BY <1>3, NothingAppears
  <2>2. handler'[h].pc = "created" /\ status[n] = EmptyStatus
    BY <1>3, <2>1 DEF RequesterInv
  <2>3. ~\E g \in Requesters : handler[g].pc = "holding" /\ handler[g].key = KeyOf[n]
    BY <1>3, <2>2 DEF Sequential
  <2>4. StatusMoves(n) /\ n \in stored
    BY <1>t, <2>1 DEF ActiveSessions
  <2> QED
    BY <2>2, <2>3, <2>4 DEF StatusMoves, IsDead, IsSessionActive
<1>4. handler'[h] # IdleHandler
  BY DEF IdleHandler
<1> QED
  BY <1>t, <1>1, <1>2, <1>3, <1>4 DEF HandlerMoves

\* No triple has two active sessions.
OneActive ==
    \A m, n \in stored :
        /\ KeyOf[m] = KeyOf[n]
        /\ IsSessionActive(status[m], now) /\ IsSessionActive(status[n], now)
        => m = n

\* A request adds a session only when it has found none.
LEMMA OneActiveNext ==
    ASSUME Typed, RequesterInv, OneActive, [Next]_vars, \A n \in Names : StatusMoves(n)
    PROVE  OneActive'
<1>t. stored \subseteq Names /\ stored \subseteq created
  BY DEF Typed, TypeOK
<1>1. \A n \in stored \cap stored' :
        IsSessionActive(status'[n], now') => IsSessionActive(status[n], now)
  BY <1>t, NothingRevives
<1>2. ASSUME NEW m \in stored' \ stored, NEW n \in stored', KeyOf[m] = KeyOf[n],
             IsSessionActive(status'[n], now')
      PROVE  m = n
  <2>1. PICK h \in Requesters : RequestCreate(h, m)
    BY StepKeepsTime
  <2>2. /\ stored' = stored \cup {m} /\ handler[h].pc = "checked" /\ handler[h].key = KeyOf[m]
    BY <2>1 DEF RequestCreate
  <2>3. ActiveSessions(KeyOf[m]) = {}
    BY <2>2 DEF RequesterInv
  <2> QED
    BY <1>1, <1>2, <2>2, <2>3 DEF ActiveSessions
<1> QED
  BY <1>1, <1>2 DEF OneActive

-----------------------------------------------------------------------------

\* The cleaner's items while others work.
LEMMA CleanerWaits ==
    ASSUME Typed, CleanerInv, now' \in Nat, now <= now', stored \subseteq stored',
           cleaner'.pc = cleaner.pc, cleaner'.todo = cleaner.todo, cleaner'.snap = cleaner.snap,
           \A n \in Names : \/ status'[n] = status[n]
                            \/ /\ now' = now /\ Evolves(status[n], status'[n], now)
                               /\ status[n].state \notin Undecided => status'[n].rejectedAt # Unset
    PROVE  CleanerInv'
<1>t. /\ now \in Nat /\ cleaner.todo \subseteq Names
      /\ \A n \in Names : status[n] \in Statuses /\ cleaner.snap[n] \in Statuses
  BY DEF Typed, TypeOK, CleanerStates
<1>1. ASSUME NEW n \in cleaner.todo, cleaner.pc \in {"approved", "updating"}
      PROVE  StandsFor(cleaner.snap[n], status'[n])
  <2>1. StandsFor(cleaner.snap[n], status[n])
    BY <1>1 DEF CleanerInv
  <2>2. CASE status'[n] = status[n]
    BY <2>1, <2>2
  <2>3. CASE /\ Evolves(status[n], status'[n], now)
             /\ status[n].state \notin Undecided => status'[n].rejectedAt # Unset
    <3>1. status'[n].rejectedAt # Unset
      BY <2>1, <2>3 DEF StandsFor, Undecided
    <3>2. \A u \in {"Approved", "Expired", "Withdrawn"} :
             MayBecome(u) \subseteq {"Approved", "Expired", "Withdrawn"}
      BY DEF MayBecome
    <3> QED
      BY <2>1, <2>3, <3>1, <3>2 DEF StandsFor, Evolves
  <2> QED
    BY <1>1, <1>t, <2>2, <2>3
<1>2. ASSUME NEW n \in Names, IsFirst(n, cleaner.todo), cleaner.pc = "updating"
      PROVE  IsDead(cleaner.snap[n], now') /\ IsDead(status'[n], now')
  <2>1. IsDead(cleaner.snap[n], now) /\ IsDead(status[n], now)
    BY <1>2 DEF CleanerInv
  <2> QED
    BY <1>t, <2>1, DeadLater DEF Evolves
<1> QED
  BY <1>1, <1>2 DEF CleanerInv

\* The items that remain when one is finished.
LEMMA CleanerFinishes ==
    ASSUME Typed, CleanerInv, NEW n \in Names, NEW pc, NEW next,
           cleaner' = Finished(n, pc, next), next \notin {"pending", "approved", "updating"},
           \/ pc = "pending" /\ cleaner.pc = "pending"
           \/ pc = "approved" /\ cleaner.pc \in {"approved", "updating"},
           stored' = stored,
           \A m \in Names : m # n => status'[m] = status[m]
    PROVE  CleanerInv'
<1>1. /\ cleaner'.pc \in {pc, next} /\ cleaner'.todo = cleaner.todo \ {n}
      /\ \A m \in Names : m # n => cleaner'.snap[m] = cleaner.snap[m]
  BY DEF Finished, Typed, TypeOK, CleanerStates
<1>2. cleaner.todo \subseteq Names
  BY DEF Typed, TypeOK, CleanerStates
<1> QED
  BY <1>1, <1>2 DEF CleanerInv

\* A listed session about to be marked Expired is dead, and so is the stored one.
LEMMA CleanerExpires ==
    ASSUME Typed, CleanerInv, NEW n \in Names, IsFirst(n, cleaner.todo),
           UNCHANGED <<now, stored, status>>, cleaner.pc = "approved",
           IsSessionExpired(cleaner.snap[n], now),
           cleaner'.pc = "updating", cleaner'.todo = cleaner.todo,
           cleaner'.snap = [cleaner.snap EXCEPT ![n] = ExpiredStatus(@)]
    PROVE  CleanerInv'
<1>t. cleaner.snap \in [Names -> Statuses] /\ cleaner.todo \in SUBSET Names /\ n \in cleaner.todo
  BY DEF Typed, TypeOK, CleanerStates, IsFirst
<1> DEFINE s == cleaner.snap[n]
           x == ExpiredStatus(s)
<1>1. cleaner'.snap[n] = x /\ \A m \in Names : m # n => cleaner'.snap[m] = cleaner.snap[m]
  BY <1>t
<1>2. s \in Statuses /\ StandsFor(s, status[n])
  BY <1>t DEF CleanerInv
<1> HIDE DEF s
<1>3. x.approvedAt = s.approvedAt /\ x.rejectedAt = s.rejectedAt /\ x.expiresAt = s.expiresAt
  BY <1>2 DEF ExpiredStatus, Statuses
<1> HIDE DEF x
<1>4. StandsFor(x, status[n])
  BY <1>2, <1>3 DEF StandsFor, IsSessionPendingApproval
<1>5. IsDead(x, now) /\ IsDead(status[n], now)
  BY <1>2, <1>3 DEF StandsFor, IsDead, IsSessionExpired, s
<1>6. \A m \in cleaner.todo : StandsFor(cleaner'.snap[m], status[m])
  BY <1>t, <1>1, <1>4 DEF CleanerInv
<1>7. \A m \in Names : IsFirst(m, cleaner.todo) => m = n
  BY <1>t, FirstIsUnique
<1> QED
  BY <1>1, <1>5, <1>6, <1>7 DEF CleanerInv

\* The retry loop does not evaluate its condition again, but the session it
\* reads again is still dead.
LEMMA CleanerRetries ==
    ASSUME Typed, StatusInv, CleanerInv, NEW n \in Names, IsFirst(n, cleaner.todo),
           UNCHANGED <<now, stored, status>>, cleaner.pc = "updating",
           cleaner' = RetriedCleaner(n)
    PROVE  CleanerInv'
<1>t. /\ cleaner.snap \in [Names -> Statuses] /\ cleaner.todo \in SUBSET Names
      /\ n \in cleaner.todo /\ status[n] \in Statuses
  BY DEF Typed, TypeOK, CleanerStates, IsFirst
<1>1. CASE n \in stored /\ cleaner.retries < 2
  <2> DEFINE s == status[n]
             x == ExpiredStatus(s)
  <2>1. /\ cleaner'.pc = cleaner.pc /\ cleaner'.todo = cleaner.todo
        /\ cleaner'.snap[n] = x
        /\ \A m \in Names : m # n => cleaner'.snap[m] = cleaner.snap[m]
    BY <1>1 DEF RetriedCleaner, Typed, TypeOK, CleanerStates
  <2>2. s \in Statuses /\ Coherent(s) /\ StandsFor(cleaner.snap[n], s) /\ IsDead(s, now)
    BY <1>t DEF CleanerInv, StatusInv
  <2> HIDE DEF s
  <2>3. x.approvedAt = s.approvedAt /\ x.rejectedAt = s.rejectedAt /\ x.expiresAt = s.expiresAt
    BY <2>2 DEF ExpiredStatus, Statuses
  <2> HIDE DEF x
  <2>4. StandsFor(x, s)
    BY <2>2, <2>3 DEF StandsFor, IsSessionPendingApproval, Coherent, Undecided
  <2>5. IsDead(x, now)
    BY <2>2, <2>3 DEF IsDead, IsSessionExpired
  <2>6. \A m \in cleaner.todo : StandsFor(cleaner'.snap[m], status[m])
    BY <1>t, <2>1, <2>4 DEF CleanerInv, s
  <2>7. \A m \in Names : IsFirst(m, cleaner.todo) => m = n
    BY <1>t, FirstIsUnique
  <2> QED
    BY <2>1, <2>2, <2>5, <2>6, <2>7 DEF CleanerInv, s
<1>2. CASE ~(n \in stored /\ cleaner.retries < 2)
  BY <1>2, CleanerFinishes DEF RetriedCleaner
<1> QED
  BY <1>1, <1>2

\* Every step keeps what the cleaner relies on.
LEMMA CleanerNext ==
    ASSUME Typed, CurrentIsStored, StatusInv, HandlerInv, CleanerInv, [Next]_vars
    PROVE  CleanerInv'
<1>t. /\ now \in Nat /\ now' \in Nat /\ now <= now' /\ stored \subseteq Names
      /\ status \in [Names -> Statuses] /\ cleaner \in CleanerStates
  BY StepKeepsTime DEF Typed, TypeOK
<1>1. ASSUME UNCHANGED <<status, cleaner>>, stored \subseteq stored' PROVE CleanerInv'
  BY <1>1, <1>t, CleanerWaits
<1>2. ASSUME NEW h \in Handlers, RequestWrite(h) \/ Approve(h) \/ End(h) PROVE CleanerInv'
  <2>1. PICK r : /\ Update(h, r)
                 /\ Evolves(status[handler[h].name], r, now)
                 /\ status[handler[h].name].state \notin Undecided => r.rejectedAt # Unset
    BY <1>2, HandlerWrites
  <2>2. /\ now' = now /\ stored' = stored
        /\ cleaner'.pc = cleaner.pc /\ cleaner'.todo = cleaner.todo
        /\ cleaner'.snap = cleaner.snap
    BY <1>t, <2>1 DEF Update, CleanerStates
  <2>3. \A n \in Names : status'[n] = IF n = handler[h].name THEN r ELSE status[n]
    BY <1>t, <2>1 DEF Update
  <2> QED
    BY <1>t, <2>1, <2>2, <2>3, CleanerWaits
<1>3. ASSUME NEW h \in Requesters, RequesterStep(h) PROVE CleanerInv'
  BY <1>1, <1>2, <1>3 DEF RequesterStep, RequestCheck, RequestCreate, RequestRead, Hold, Fail, Handlers
<1>4. ASSUME NEW h \in Deciders, DeciderStep(h) PROVE CleanerInv'
  BY <1>1, <1>2, <1>4 DEF DeciderStep, ReadApprove, ReadReject, ReadWithdraw, ReadDrop,
                          ReadCancel, Hold, Fail, Handlers
<1>5. ASSUME cleaner'.pc \notin {"pending", "approved", "updating"} PROVE CleanerInv'
  BY <1>5 DEF CleanerInv
<1>6. CASE ListPending \/ ListCleanup
  <2>1. CASE ListPending
    BY <2>1 DEF ListPending, Listed, CleanerInv
  <2>2. CASE ListCleanup
    BY <1>5, <2>2 DEF ListCleanup, Listed
  <2> QED
    BY <1>6, <2>1, <2>2
<1>7. CASE ListApproved
  <2>1. /\ cleaner'.pc \in {"approved", "listCleanup"} /\ UNCHANGED <<stored, status>>
        /\ cleaner'.todo = {n \in stored : status[n].state = "Approved"}
        /\ \A n \in cleaner'.todo : cleaner'.snap[n] = status[n]
    BY <1>7, <1>t DEF ListApproved, Listed
  <2>2. ASSUME NEW n \in stored, status[n].state = "Approved"
        PROVE  StandsFor(status[n], status[n])
    BY <2>2, <1>t DEF StandsFor, StatusInv, Coherent, Undecided
  <2> QED
    BY <2>1, <2>2 DEF CleanerInv
<1>8. ASSUME NEW n \in Names,
             \/ SkipPending(n) \/ SkipApproved(n) \/ ExpirePending(n) \/ ExpireUpdate(n)
             \/ Delete(n)
      PROVE  CleanerInv'
  <2>1. \A m \in Names : m # n => status'[m] = status[m]
    BY <1>8, <1>t DEF SkipPending, SkipApproved, ExpirePending, ExpireUpdate, Delete, CleanerWrites
  <2>2. CASE SkipPending(n) \/ ExpirePending(n)
    BY <2>1, <2>2, CleanerFinishes DEF SkipPending, ExpirePending
  <2>3. CASE SkipApproved(n) \/ ExpireUpdate(n)
    BY <2>1, <2>3, CleanerFinishes DEF SkipApproved, ExpireUpdate
  <2>4. CASE Delete(n)
    BY <1>5, <2>4 DEF Delete, Finished
  <2> QED
    BY <1>8, <2>2, <2>3, <2>4
<1>9. ASSUME NEW n \in Names, ExpireApproved(n) PROVE CleanerInv'
  <2>1. /\ cleaner'.pc = "updating" /\ cleaner'.todo = cleaner.todo
        /\ cleaner'.snap = [cleaner.snap EXCEPT ![n] = ExpiredStatus(@)]
    BY <1>9, <1>t DEF ExpireApproved, CleanerStates
  <2> QED
    BY <1>9, <2>1, CleanerExpires DEF ExpireApproved
<1>10. ASSUME NEW n \in Names, ExpireConflict(n) PROVE CleanerInv'
  BY <1>10, CleanerRetries DEF ExpireConflict
<1>11. ASSUME NEW n \in Names, CleanerItemFault(n) PROVE CleanerInv'
  <2>1. UNCHANGED <<now, stored, status>> /\ IsFirst(n, cleaner.todo)
    BY <1>11 DEF CleanerItemFault
  <2>2. CASE cleaner.pc = "pending"
    BY <1>11, <2>1, <2>2, CleanerFinishes DEF CleanerItemFault, FailedCleaner
  <2>3. CASE cleaner.pc = "approved"
    <3>1. /\ cleaner'.pc = "updating" /\ cleaner'.todo = cleaner.todo
          /\ cleaner'.snap = [cleaner.snap EXCEPT ![n] = ExpiredStatus(@)]
      BY <1>11, <1>t, <2>3 DEF CleanerItemFault, FailedCleaner, CleanerStates
    <3>2. IsSessionExpired(cleaner.snap[n], now)
      BY <1>11, <2>3 DEF CleanerItemFault
    <3> QED
      BY <2>1, <2>3, <3>1, <3>2, CleanerExpires
  <2>4. CASE cleaner.pc = "updating"
    <3>1. \/ cleaner' = RetriedCleaner(n)
          \/ cleaner' = Finished(n, "approved", "listCleanup")
      BY <1>11, <2>4 DEF CleanerItemFault, FailedCleaner
    <3> QED
      BY <2>1, <2>4, <3>1, CleanerRetries, CleanerFinishes
  <2>5. CASE cleaner.pc = "cleanup"
    BY <1>5, <1>11, <2>5 DEF CleanerItemFault, FailedCleaner, Finished
  <2>6. cleaner.pc \in {"pending", "approved", "updating", "cleanup"}
    BY <1>11, <1>t DEF CleanerItemFault, CleanerStates, NextList
  <2> QED
    BY <2>2, <2>3, <2>4, <2>5, <2>6
<1>12. CASE CleanerListFault
  <2>1. /\ cleaner.pc \in {"listPending", "listApproved", "listCleanup"}
        /\ cleaner'.pc = NextList[cleaner.pc]
    BY <1>12, <1>t DEF CleanerListFault, NextList, CleanerStates
  <2> QED
    BY <1>5, <2>1 DEF NextList
<1>13. CASE Crash
  BY <1>5, <1>13 DEF Crash, StartedCleaner
<1>14. CASE Tick \/ UNCHANGED vars
  BY <1>1, <1>14 DEF Tick, vars
<1> QED
  BY <1>3, <1>4, <1>6, <1>7, <1>8, <1>9, <1>10, <1>11, <1>12, <1>13, <1>14 DEF Next, CleanerStep

-----------------------------------------------------------------------------
(***************************************************************************)
(* The results.                                                            *)
(***************************************************************************)

StateInv ==
    /\ Typed /\ RevocationInv /\ CurrentIsStored
    /\ StatusInv /\ HandlerInv /\ RequesterInv /\ CleanerInv

\* It holds at the start ...
LEMMA StateInit == Init => StateInv
<1> SUFFICES ASSUME Init PROVE StateInv
  OBVIOUS
<1>1. Typed /\ RevocationInv
  BY TypedInit, RevocationInit
<1>2. Coherent(EmptyStatus) /\ EmptyStatus.state \in Undecided
  BY DEF Coherent, EmptyStatus, Undecided, IsSessionPendingApproval
<1>3. StatusInv
  BY <1>2 DEF Init, StatusInv
<1>4. CurrentIsStored /\ HandlerInv /\ RequesterInv
  BY DEF Init, CurrentIsStored, HandlerInv, RequesterInv, IdleHandler, Handlers
<1>5. CleanerInv
  BY DEF Init, CleanerInv, StartedCleaner
<1> QED
  BY <1>1, <1>3, <1>4, <1>5 DEF StateInv

\* ... and every step keeps it while requests for a triple do not overlap.
LEMMA StateNext == StateInv /\ Sequential /\ [Next]_vars => StateInv'
<1> SUFFICES ASSUME StateInv, Sequential, [Next]_vars PROVE StateInv'
  OBVIOUS
<1>1. Typed' /\ RevocationInv' /\ CurrentIsStored'
  BY TypedNext, RevocationNext, CurrentNext DEF StateInv
<1>2. \A n \in Names : StatusMoves(n)
  BY StepMovesStatus DEF StateInv
<1>3. \A h \in Handlers : HandlerMoves(h)
  BY StepMovesHandlers DEF StateInv
<1>4. StatusInv' /\ HandlerInv'
  BY <1>2, <1>3, StatusNext, HandlerNext DEF StateInv
<1>5. RequesterInv'
  BY <1>2, <1>3, RequesterNext DEF StateInv
<1>6. CleanerInv'
  BY CleanerNext DEF StateInv
<1> QED
  BY <1>1, <1>4, <1>5, <1>6 DEF StateInv

\* So it holds throughout.
LEMMA StateInvariance == Spec /\ []Sequential => []StateInv
  BY StateInit, StateNext, PTL DEF Spec

\* If requests for a triple do not overlap, the webhook authorizes only for
\* sessions that are shown as Approved, whatever deciders, cleaner (its stale
\* writes and its retry loop included), crashes and the clock do.
THEOREM ShownAsApproved == Spec /\ []Sequential => []GrantsOnlyWhenApproved
<1>1. StateInv => GrantsOnlyWhenApproved
  <2> SUFFICES ASSUME StateInv, NEW n \in Names, Grants(n) PROVE status[n].state = "Approved"
    BY DEF GrantsOnlyWhenApproved
  <2>1. /\ status[n] \in Statuses /\ now \in Nat /\ Coherent(status[n])
        /\ status[n].state \notin Undecided \cup {"Approved"} => IsDead(status[n], now)
    BY DEF StateInv, StatusInv, Typed, TypeOK
  <2>2. /\ status[n].rejectedAt = Unset /\ status[n].expiresAt # Unset /\ status[n].expiresAt > now
    BY DEF Grants, GrantsAccess
  <2>3. ~IsDead(status[n], now)
    BY <2>1, <2>2 DEF IsDead, IsSessionExpired, Statuses
  <2> QED
    BY <2>1, <2>2, <2>3 DEF Coherent
<1> QED
  BY <1>1, StateInvariance, PTL

\* Under the same condition a session is decided once: approvals, rejections and
\* timeouts find it Pending, and it becomes Pending once (setSessionStatus, the
\* cleanup routine).
THEOREM DecidedOnlyOnce == Spec /\ []Sequential => DecidedOnce
<1>1. StateInv /\ [Next]_vars =>
        [\A n \in stored \cap stored' :
            status'[n].state \in {status[n].state} \cup MayBecome(status[n].state)]_vars
  <2> SUFFICES ASSUME StateInv, [Next]_vars, NEW n \in stored \cap stored'
               PROVE  status'[n].state \in {status[n].state} \cup MayBecome(status[n].state)
    OBVIOUS
  <2>1. n \in Names
    BY DEF StateInv, Typed, TypeOK
  <2>2. StatusMoves(n)
    BY <2>1, StepMovesStatus DEF StateInv
  <2> QED
    BY <2>2 DEF StatusMoves, Evolves
<1> QED
  BY <1>1, StateInvariance, PTL DEF Spec, DecidedOnce

\* In particular nothing becomes Pending again, which racing requests break.
THEOREM PendingOnlyOnce == Spec /\ []Sequential => NeverBackToPending
<1>1. StateInv /\ [Next]_vars =>
        [\A n \in stored :
            status[n].state \notin {"", "Pending"} => status'[n].state # "Pending"]_vars
  <2> SUFFICES ASSUME StateInv, [Next]_vars, NEW n \in stored,
                      status[n].state \notin {"", "Pending"}
               PROVE  status'[n].state # "Pending"
    OBVIOUS
  <2>1. n \in Names /\ status[n] \in Statuses
    BY DEF StateInv, Typed, TypeOK
  <2>2. StatusMoves(n)
    BY <2>1, StepMovesStatus DEF StateInv
  <2>3. EmptyStatus.state # "Pending"
    BY DEF EmptyStatus
  <2>4. \A u \in States \ {"", "Pending"} : "Pending" \notin MayBecome(u)
    BY DEF States, MayBecome
  <2>5. status[n].state \in States
    BY <2>1 DEF Statuses
  <2> QED
    BY <2>2, <2>3, <2>4, <2>5 DEF StatusMoves, Evolves
<1> QED
  BY <1>1, StateInvariance, PTL DEF Spec, NeverBackToPending

\* At most one session of a triple is active, if this is so of the objects found
\* at the start: also after requests that failed half way and after crashes.
THEOREM OneSessionAtATime ==
    ASSUME \A m, n \in LegacyNames : KeyOf[m] = KeyOf[n] => m = n
    PROVE  Spec /\ []Sequential => []SingleActiveSession
<1>1. Init => OneActive
  BY DEF Init, OneActive
<1>2. StateInv /\ OneActive /\ [Next]_vars => OneActive'
  <2> SUFFICES ASSUME StateInv, OneActive, [Next]_vars PROVE OneActive'
    OBVIOUS
  <2>1. \A n \in Names : StatusMoves(n)
    BY StepMovesStatus DEF StateInv
  <2> QED
    BY <2>1, OneActiveNext DEF StateInv
<1>3. OneActive => SingleActiveSession
  <2> SUFFICES ASSUME OneActive, NEW k \in Keys PROVE Cardinality(ActiveSessions(k)) <= 1
    BY DEF SingleActiveSession
  <2>1. CASE ActiveSessions(k) = {}
    BY <2>1, FS_EmptySet
  <2>2. ASSUME NEW m \in ActiveSessions(k) PROVE Cardinality(ActiveSessions(k)) <= 1
    <3>1. ActiveSessions(k) = {m}
      BY <2>2 DEF OneActive, ActiveSessions
    <3>2. Cardinality({m}) = 1
      BY FS_Singleton
    <3> QED
      BY <3>1, <3>2
  <2> QED
    BY <2>1, <2>2
<1> QED
  BY <1>1, <1>2, <1>3, StateInvariance, PTL DEF Spec

-----------------------------------------------------------------------------
(***************************************************************************)
(* States, whatever requests do.                                           *)
(*                                                                         *)
(* A racing request may write over a session that it did not create, so a  *)
(* status need not evolve as MayBecome says.  What is left of Coherent is  *)
(* Plausible, which every operation establishes whatever it writes over;   *)
(* the cleaner, which keeps the times of the status it listed, preserves   *)
(* it.                                                                     *)
(***************************************************************************)

\* A status that has not been decided, by its state or by its times, has no
\* expiry, and one that was turned down says when.
Plausible(s) ==
    /\ IsSessionPendingApproval(s) \/ s.state \in Undecided => s.expiresAt = Unset
    /\ s.state \in {"Rejected", "Withdrawn"} => s.rejectedAt # Unset

PlausibleInv == \A n \in Names : Plausible(status[n]) /\ Plausible(cleaner.snap[n])

\* The statuses without a history, and what the operations write.
LEMMA PlausibleFresh ==
    ASSUME NEW s \in Statuses, NEW c, NEW t \in Nat \ {0}
    PROVE  /\ Plausible(EmptyStatus)
           /\ Plausible(PendingStatus(t))
           /\ Plausible(ApprovedStatus(s, c, t))
<1>1. Plausible(EmptyStatus)
  BY DEF Plausible, EmptyStatus
<1>2. PendingStatus(t).expiresAt = Unset /\ PendingStatus(t).state = "Pending"
  BY DEF PendingStatus, EmptyStatus
<1>3. /\ ApprovedStatus(s, c, t).approvedAt = t
      /\ ApprovedStatus(s, c, t).state = "Approved"
  BY DEF ApprovedStatus, Statuses
<1> QED
  BY <1>1, <1>2, <1>3 DEF Plausible, Undecided, IsSessionPendingApproval

\* What users write to end a session.
LEMMA PlausibleEnding ==
    ASSUME NEW hd \in HandlerStates, NEW t \in Nat \ {0},
           hd.op \in {"reject", "withdraw", "drop", "cancel"}
    PROVE  Plausible(EndingStatus(hd, t))
<1> DEFINE r == EndingStatus(hd, t)
<1>1. hd.copy \in Statuses
  BY DEF HandlerStates
<1>2. r.state \in {"Rejected", "Withdrawn", "Expired"} /\ r.rejectedAt = t
  BY <1>1, EndingStates DEF EndingStatus
<1> QED
  BY <1>2 DEF Plausible, Undecided, IsSessionPendingApproval

\* What the cleaner makes of the status it listed.
LEMMA PlausibleCleaner ==
    ASSUME NEW s \in Statuses, Plausible(s)
    PROVE  /\ Plausible(ExpiredStatus(s))
           /\ IsSessionPendingApproval(s) => Plausible(TimedOutStatus(s))
<1>1. /\ ExpiredStatus(s).state = "Expired" /\ ExpiredStatus(s).expiresAt = s.expiresAt
      /\ ExpiredStatus(s).approvedAt = s.approvedAt /\ ExpiredStatus(s).rejectedAt = s.rejectedAt
  BY DEF ExpiredStatus, Statuses
<1>2. /\ TimedOutStatus(s).state = "ApprovalTimeout" /\ TimedOutStatus(s).expiresAt = s.expiresAt
  BY DEF TimedOutStatus, Statuses
<1> QED
  BY <1>1, <1>2 DEF Plausible, Undecided, IsSessionPendingApproval

\* The statuses that the routine holds after a step.
LEMMA PlausibleSnaps ==
    ASSUME Typed, PlausibleInv, [Next]_vars, NEW m \in Names
    PROVE  Plausible(cleaner'.snap[m])
<1>t. /\ status \in [Names -> Statuses] /\ cleaner \in CleanerStates
      /\ cleaner.snap \in [Names -> Statuses]
  BY DEF Typed, TypeOK, CleanerStates
<1>e. /\ Plausible(EmptyStatus) /\ Plausible(status[m]) /\ Plausible(cleaner.snap[m])
      /\ Plausible(ExpiredStatus(status[m])) /\ Plausible(ExpiredStatus(cleaner.snap[m]))
  BY <1>t, PlausibleCleaner DEF PlausibleInv, Plausible, EmptyStatus
<1>1. ASSUME cleaner'.snap = cleaner.snap PROVE Plausible(cleaner'.snap[m])
  BY <1>e, <1>1
<1>2. ASSUME NEW todo, NEW pc, NEW next, cleaner' = Listed(todo, pc, next)
      PROVE  Plausible(cleaner'.snap[m])
  BY <1>e, <1>2 DEF Listed
<1>3. ASSUME NEW n \in Names, NEW pc, NEW next, cleaner' = Finished(n, pc, next)
      PROVE  Plausible(cleaner'.snap[m])
  BY <1>t, <1>e, <1>3 DEF Finished
<1>4. ASSUME NEW n \in Names, cleaner' = RetriedCleaner(n)
      PROVE  Plausible(cleaner'.snap[m])
  <2>1. CASE n \in stored /\ cleaner.retries < 2
    <3>1. cleaner'.snap = [cleaner.snap EXCEPT ![n] = ExpiredStatus(status[n])]
      BY <1>t, <1>4, <2>1 DEF RetriedCleaner, CleanerStates
    <3> QED
      BY <1>t, <1>e, <3>1
  <2>2. CASE ~(n \in stored /\ cleaner.retries < 2)
    BY <1>3, <1>4, <2>2 DEF RetriedCleaner
  <2> QED
    BY <2>1, <2>2
<1>5. ASSUME NEW n \in Names, cleaner'.snap = [cleaner.snap EXCEPT ![n] = ExpiredStatus(@)]
      PROVE  Plausible(cleaner'.snap[m])
  BY <1>t, <1>e, <1>5
<1>6. ASSUME NEW h \in Requesters, RequesterStep(h) PROVE Plausible(cleaner'.snap[m])
  <2>1. cleaner'.snap = cleaner.snap
    BY <1>6, <1>t DEF RequesterStep, RequestCheck, RequestCreate, RequestRead, Hold,
                      RequestWrite, Update, Fail, CleanerStates
  <2> QED
    BY <1>1, <2>1
<1>7. ASSUME NEW h \in Deciders, DeciderStep(h) PROVE Plausible(cleaner'.snap[m])
  <2>1. cleaner'.snap = cleaner.snap
    BY <1>7, <1>t DEF DeciderStep, ReadApprove, ReadReject, ReadWithdraw, ReadDrop,
                      ReadCancel, Hold, Approve, End, Update, Fail, CleanerStates
  <2> QED
    BY <1>1, <2>1
<1>8. CASE CleanerStep
  <2>1. ASSUME NEW n \in Names, ExpireApproved(n) PROVE Plausible(cleaner'.snap[m])
    <3>1. cleaner'.snap = [cleaner.snap EXCEPT ![n] = ExpiredStatus(@)]
      BY <1>t, <2>1 DEF ExpireApproved, CleanerStates
    <3> QED
      BY <1>5, <3>1
  <2>2. ASSUME NEW n \in Names, SkipPending(n) \/ SkipApproved(n) \/ ExpirePending(n)
                                \/ ExpireUpdate(n) \/ Delete(n)
        PROVE  Plausible(cleaner'.snap[m])
    <3>1. \E pc, next : cleaner' = Finished(n, pc, next)
      BY <2>2 DEF SkipPending, SkipApproved, ExpirePending, ExpireUpdate, Delete
    <3> QED
      BY <1>3, <3>1
  <2>3. ASSUME ListPending \/ ListApproved \/ ListCleanup PROVE Plausible(cleaner'.snap[m])
    <3>1. \E todo, pc, next : cleaner' = Listed(todo, pc, next)
      BY <2>3 DEF ListPending, ListApproved, ListCleanup
    <3> QED
      BY <1>2, <3>1
  <2>4. ASSUME NEW n \in Names, ExpireConflict(n) PROVE Plausible(cleaner'.snap[m])
    BY <1>4, <2>4 DEF ExpireConflict
  <2> QED
    BY <1>8, <2>1, <2>2, <2>3, <2>4 DEF CleanerStep
<1>9. ASSUME NEW n \in Names, CleanerItemFault(n) PROVE Plausible(cleaner'.snap[m])
  <2>1. \/ \E pc, next : cleaner' = Finished(n, pc, next)
        \/ cleaner' = RetriedCleaner(n)
        \/ cleaner' = [cleaner EXCEPT !.pc = "updating", !.snap[n] = ExpiredStatus(@)]
    <3>1. cleaner.pc \in {"pending", "approved", "updating", "cleanup"}
      BY <1>9, <1>t DEF CleanerItemFault, CleanerStates, NextList
    <3> QED
      BY <1>9, <3>1 DEF CleanerItemFault, FailedCleaner
  <2>2. cleaner' = [cleaner EXCEPT !.pc = "updating", !.snap[n] = ExpiredStatus(@)] =>
           cleaner'.snap = [cleaner.snap EXCEPT ![n] = ExpiredStatus(@)]
    BY <1>t DEF CleanerStates
  <2> QED
    BY <1>3, <1>4, <1>5, <2>1, <2>2
<1>10. CASE CleanerListFault \/ Tick \/ UNCHANGED vars
  <2>1. cleaner'.snap = cleaner.snap
    BY <1>10, <1>t DEF CleanerListFault, Tick, vars, CleanerStates
  <2> QED
    BY <1>1, <2>1
<1>11. CASE Crash
  BY <1>11, <1>e DEF Crash, StartedCleaner, NoSnap
<1> QED
  BY <1>6, <1>7, <1>8, <1>9, <1>10, <1>11 DEF Next

\* The stored statuses after a step.
LEMMA PlausibleStatuses ==
    ASSUME Typed, PlausibleInv, [Next]_vars, NEW m \in Names
    PROVE  Plausible(status'[m])
<1>t. /\ now \in Nat \ {0} /\ status \in [Names -> Statuses]
      /\ cleaner.snap \in [Names -> Statuses] /\ handler \in [Handlers -> HandlerStates]
  BY DEF Typed, TypeOK, CleanerStates
<1>1. ASSUME status' = status PROVE Plausible(status'[m])
  BY <1>1 DEF PlausibleInv
<1>2. ASSUME NEW n, NEW s, status' = [status EXCEPT ![n] = s], Plausible(s)
      PROVE  Plausible(status'[m])
  BY <1>t, <1>2 DEF PlausibleInv
<1>3. ASSUME NEW h \in Handlers, RequestWrite(h) \/ Approve(h) \/ End(h)
      PROVE  Plausible(status'[m])
  <2>1. handler[h] \in HandlerStates /\ handler[h].copy \in Statuses
    BY <1>t DEF HandlerStates
  <2>2. \E s : status' = [status EXCEPT ![handler[h].name] = s] /\ Plausible(s)
    BY <1>t, <1>3, <2>1, PlausibleFresh, PlausibleEnding DEF RequestWrite, Approve, End, Update
  <2> QED
    BY <1>2, <2>2
<1>4. ASSUME NEW n \in Names, ExpirePending(n) \/ ExpireUpdate(n) \/ Delete(n)
      PROVE  Plausible(status'[m])
  <2>1. cleaner.snap[n] \in Statuses /\ Plausible(cleaner.snap[n]) /\ Plausible(EmptyStatus)
    BY <1>t DEF PlausibleInv, Plausible, EmptyStatus
  <2>2. \E s : status' = [status EXCEPT ![n] = s] /\ Plausible(s)
    BY <1>4, <2>1, PlausibleCleaner DEF ExpirePending, ExpireUpdate, Delete, CleanerWrites,
                                        IsSessionApprovalTimedOut
  <2> QED
    BY <1>2, <2>2
<1>5. ASSUME NEW h \in Requesters, RequesterStep(h) PROVE Plausible(status'[m])
  BY <1>1, <1>3, <1>5 DEF RequesterStep, RequestCheck, RequestCreate, RequestRead, Hold, Fail, Handlers
<1>6. ASSUME NEW h \in Deciders, DeciderStep(h) PROVE Plausible(status'[m])
  BY <1>1, <1>3, <1>6 DEF DeciderStep, ReadApprove, ReadReject, ReadWithdraw, ReadDrop,
                          ReadCancel, Hold, Fail, Handlers
<1>7. CASE CleanerStep
  BY <1>1, <1>4, <1>7 DEF CleanerStep, ListPending, ListApproved, ListCleanup, SkipPending,
                          ExpireApproved, SkipApproved, ExpireConflict
<1>8. CASE CleanerListFault \/ Crash \/ Tick \/ UNCHANGED vars \/ \E n \in Names : CleanerItemFault(n)
  BY <1>1, <1>8 DEF CleanerListFault, CleanerItemFault, Crash, Tick, vars
<1> QED
  BY <1>5, <1>6, <1>7, <1>8 DEF Next

\* Racing requests, decisions, cleanup and crashes included: a session whose
\* stored state is undecided, Rejected or Withdrawn never passes the webhook's
\* getSessions, although that looks at the times only.
THEOREM RacesGrantNothing == Spec => []UndecidedNeverGrants
<1>1. Init => PlausibleInv
  <2>1. Plausible(EmptyStatus)
    BY DEF Plausible, EmptyStatus
  <2> QED
    BY <2>1 DEF Init, PlausibleInv, StartedCleaner, NoSnap
<1>2. Typed /\ PlausibleInv /\ [Next]_vars => PlausibleInv'
  BY PlausibleSnaps, PlausibleStatuses DEF PlausibleInv
<1>3. Typed /\ PlausibleInv => UndecidedNeverGrants
  <2> SUFFICES ASSUME Typed, PlausibleInv, NEW n \in Names, Grants(n)
               PROVE  status[n].state \in {"Approved", "Expired"}
    BY DEF UndecidedNeverGrants
  <2>1. status[n].state \in States
    BY DEF Typed, TypeOK, Statuses
  <2> QED
    BY <2>1 DEF PlausibleInv, Plausible, Undecided, States, Grants, GrantsAccess
<1>4. Spec => []Typed
  BY TypedInit, TypedNext, PTL DEF Spec
<1> QED
  BY <1>1, <1>2, <1>3, <1>4, PTL DEF Spec
=============================================================================
