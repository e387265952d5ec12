-------------------------- MODULE SessionLifecycle --------------------------
(***************************************************************************)
(* The life of BreakglassSession objects: the HTTP handlers of the session *)
(* controller, the background cleanup routine, the Kubernetes API server   *)
(* that stores the objects, and the clock.                                 *)
(*                                                                         *)
(* Every handler runs in a goroutine of its own and the cleanup routine in *)
(* another; they share nothing but the API server.  A step of the model is *)
(* one call to the API server with the local computation next to it.       *)
(*                                                                         *)
(* API server (external): reads are linearizable (the client is uncached); *)
(* a status update carries the resourceVersion of the object it was built  *)
(* from and is refused when the object was written or deleted since; a     *)
(* delete carries no precondition; a list is sorted by name.  Instead of a *)
(* version number the model keeps, for each copy of an object in flight,   *)
(* whether the copy's resourceVersion is still the stored one.             *)
(***************************************************************************)
EXTENDS Session, FiniteSets

CONSTANTS
    Names,         \* object names the API server may generate, in list order
    LegacyNames,   \* objects present at start without an owner reference
    Keys,          \* (cluster, user, group) triples that may be requested
    KeyOf,         \* the triple in the spec of the object of that name
    OwnerOf,       \* the session user of a triple
    ApproversOf,   \* the callers isSessionApprover accepts for a triple
    Requesters,    \* HTTP handlers that may serve a session request at a time
    Deciders,      \* HTTP handlers that may serve the other operations
    MaxTime,       \* bound on the clock
    MaxFaults      \* bound on crashes and on API errors the cleaner meets

ASSUME LifecycleAssumption ==
    /\ Names \subseteq Nat \ {0}
    /\ LegacyNames \subseteq Names
    /\ Requesters \cap Deciders = {}
    /\ None \notin Keys
    /\ KeyOf \in [Names -> Keys]
    /\ OwnerOf \in [Keys -> Callers]
    /\ ApproversOf \in [Keys -> SUBSET Callers]
    /\ MaxTime \in Nat
    /\ MaxFaults \in Nat

Handlers == Requesters \cup Deciders

VARIABLES
    now,         \* the clock
    stored,      \* names of the objects in the API server
    status,      \* their status
    owned,       \* those with an owner reference to their escalation
    created,     \* every name used so far: generated names do not repeat
    handler,     \* the local state of the HTTP handlers
    cleaner,     \* the local state of the cleanup routine
    faults,      \* faults so far
    approvals,   \* history: the approvals written, by whom and when
    revoked      \* history: sessions a user rejected, withdrew or ended

vars == <<now, stored, status, owned, created, handler, cleaner, faults,
          approvals, revoked>>

NoName == 0

Ops == {"request", "approve", "reject", "withdraw", "drop", "cancel"}

\* checked: found no active session; created: object created, status not yet
\* written; holding: has read the object it will write the status of.
HandlerStates ==
    [pc      : {"idle", "checked", "created", "holding"},
     op      : Ops,
     key     : Keys \cup {None},
     by      : Callers \cup {None},
     name    : Names \cup {NoName},
     copy    : Statuses,
     current : BOOLEAN]

IdleHandler ==
    [pc |-> "idle", op |-> "request", key |-> None, by |-> None,
     name |-> NoName, copy |-> EmptyStatus, current |-> FALSE]

\* snap holds the listed items of todo, fresh those whose resourceVersion is
\* still the stored one; retries counts failed updates of the current item.
CleanerStates ==
    [pc      : {"listPending", "pending", "listApproved", "approved",
                "updating", "listCleanup", "cleanup"},
     todo    : SUBSET Names,
     snap    : [Names -> Statuses],
     fresh   : SUBSET Names,
     retries : 0..2]

NoSnap == [n \in Names |-> EmptyStatus]

StartedCleaner ==
    [pc |-> "listPending", todo |-> {}, snap |-> NoSnap, fresh |-> {},
     retries |-> 0]

Init ==
    /\ now = 1
    /\ stored = LegacyNames
    /\ status = [n \in Names |-> EmptyStatus]
    /\ owned = {}
    /\ created = LegacyNames
    /\ handler = [h \in Handlers |-> IdleHandler]
    /\ cleaner = StartedCleaner
    /\ faults = 0
    /\ approvals = {}
    /\ revoked = {}

IsFirst(n, S) == n \in S /\ \A m \in S : n <= m

----------------------------------------------------------------------------
(***************************************************************************)
(* The API server.                                                         *)
(***************************************************************************)

\* The handlers after a write to, or a deletion of, object n.
Invalidated(n) ==
    [h \in Handlers |-> IF handler[h].name = n
                        THEN [handler[h] EXCEPT !.current = FALSE]
                        ELSE handler[h]]

\* Mutant: the update is accepted whatever its resourceVersion.
StillStored(h) == handler[h].name \in stored

\* The optimistic lock of Status().Update for a handler's copy ...
Unchanged(h) == handler[h].current

\* ... and for the cleaner's copy of n.
UnchangedItem(n) == n \in cleaner.fresh

\* Handler h writes status s and answers its caller.
Update(h, s) ==
    LET n == handler[h].name IN
    /\ Unchanged(h)
    /\ status' = [status EXCEPT ![n] = s]
    /\ handler' = [Invalidated(n) EXCEPT ![h] = IdleHandler]
    /\ cleaner' = [cleaner EXCEPT !.fresh = @ \ {n}]
    /\ UNCHANGED <<now, stored, owned, created, faults>>

\* Handler h reads object n and goes on to write it on behalf of caller c.
Hold(h, op, c, n) ==
    /\ handler' = [handler EXCEPT ![h] =
                     [pc |-> "holding", op |-> op, key |-> KeyOf[n], by |-> c,
                      name |-> n, copy |-> status[n], current |-> TRUE]]
    /\ UNCHANGED <<now, stored, status, owned, created, cleaner, faults,
                   approvals, revoked>>

----------------------------------------------------------------------------
(***************************************************************************)
(* POST /breakglassSessions.  The handler looks for an active session of   *)
(* the triple, creates an object, looks again for an active session of the *)
(* triple (the generated name is not handed back) and writes its status.   *)
(***************************************************************************)

ActiveSessions(k) ==
    {n \in stored : KeyOf[n] = k /\ IsSessionActive(status[n], now)}

\* Mutant: only an approved session is answered with 409 Conflict.
RequestCheckApproved(h, k) ==
    /\ handler[h].pc = "idle"
    /\ \A n \in ActiveSessions(k) : status[n].approvedAt = Unset
    /\ handler' = [handler EXCEPT ![h] =
                     [IdleHandler EXCEPT !.pc = "checked", !.key = k]]
    /\ UNCHANGED <<now, stored, status, owned, created, cleaner, faults,
                   approvals, revoked>>

\* Any active session of the triple is answered with 409 Conflict.
RequestCheck(h, k) ==
    /\ handler[h].pc = "idle"
    /\ ActiveSessions(k) = {}
    /\ handler' = [handler EXCEPT ![h] =
                     [IdleHandler EXCEPT !.pc = "checked", !.key = k]]
    /\ UNCHANGED <<now, stored, status, owned, created, cleaner, faults,
                   approvals, revoked>>

\* Mutant: the owner reference is forgotten.
RequestCreateUnowned(h, n) ==
    /\ handler[h].pc = "checked"
    /\ n \notin created
    /\ KeyOf[n] = handler[h].key
    /\ stored' = stored \cup {n}
    /\ created' = created \cup {n}
    /\ handler' = [handler EXCEPT ![h].pc = "created"]
    /\ UNCHANGED <<now, status, owned, cleaner, faults, approvals, revoked>>

\* The object is created with an owner reference and an empty status.
RequestCreate(h, n) ==
    /\ handler[h].pc = "checked"
    /\ n \notin created
    /\ KeyOf[n] = handler[h].key
    /\ stored' = stored \cup {n}
    /\ owned' = owned \cup {n}
    /\ created' = created \cup {n}
    /\ handler' = [handler EXCEPT ![h].pc = "created"]
    /\ UNCHANGED <<now, status, cleaner, faults, approvals, revoked>>

\* getActiveBreakglassSession returns the first active session of the list.
\* When it finds none the update that follows has no name and fails: Fail(h).
RequestRead(h, n) ==
    /\ handler[h].pc = "created"
    /\ IsFirst(n, ActiveSessions(handler[h].key))
    /\ Hold(h, "request", None, n)

RequestWrite(h) ==
    /\ handler[h].pc = "holding" /\ handler[h].op = "request"
    /\ Update(h, PendingStatus(now))
    /\ UNCHANGED <<approvals, revoked>>

----------------------------------------------------------------------------
(***************************************************************************)
(* POST /breakglassSessions/:name/{approve,reject,withdraw,drop,cancel}.   *)
(* Each handler reads the object, checks it and the caller, and writes the *)
(* new status.  A check that fails answers 4xx and changes nothing, so it  *)
(* is a guard of the read.  The times it writes are those of the write.    *)
(***************************************************************************)

IsOwner(c, n) == c = OwnerOf[KeyOf[n]]

\* Mutant: the owner always counts as an approver.
IsSessionApproverOrOwner(c, n) == c \in ApproversOf[KeyOf[n]] \/ IsOwner(c, n)

IsSessionApprover(c, n) == c \in ApproversOf[KeyOf[n]]

\* Mutant: an approved session can be approved again.
ReadApproveAgain(h, c, n) ==
    /\ handler[h].pc = "idle" /\ n \in stored
    /\ status[n].state \in {"Pending", "Approved"}
    /\ IsSessionApprover(c, n)
    /\ Hold(h, "approve", c, n)

ReadApprove(h, c, n) ==
    /\ handler[h].pc = "idle" /\ n \in stored
    /\ status[n].lastCondition # "Approved"
    /\ status[n].state = "Pending"
    /\ IsSessionApprover(c, n)
    /\ Hold(h, "approve", c, n)

ReadReject(h, c, n) ==
    /\ handler[h].pc = "idle" /\ n \in stored
    /\ status[n].lastCondition # "Rejected"
    /\ status[n].state = "Pending"
    /\ \/ IsOwner(c, n) /\ IsSessionPendingApproval(status[n])
       \/ IsSessionApprover(c, n)
    /\ Hold(h, "reject", c, n)

ReadWithdraw(h, c, n) ==
    /\ handler[h].pc = "idle" /\ n \in stored
    /\ IsOwner(c, n)
    /\ IsSessionPendingApproval(status[n])
    /\ Hold(h, "withdraw", c, n)

\* Drop asks for the owner only: it accepts a session in any state.
ReadDrop(h, c, n) ==
    /\ handler[h].pc = "idle" /\ n \in stored
    /\ IsOwner(c, n)
    /\ Hold(h, "drop", c, n)

ReadCancel(h, c, n) ==
    /\ handler[h].pc = "idle" /\ n \in stored
    /\ IsSessionApprover(c, n)
    /\ IsRunning(status[n])
    /\ Hold(h, "cancel", c, n)

Approve(h) ==
    LET hd == handler[h] IN
    /\ hd.pc = "holding" /\ hd.op = "approve"
    /\ Update(h, ApprovedStatus(hd.copy, hd.by, now))
    /\ approvals' = approvals \cup {[name |-> hd.name, by |-> hd.by, at |-> now]}
    /\ UNCHANGED revoked

\* The four ways in which a user ends a request or a session.
EndingStatus(hd, t) ==
    CASE hd.op = "reject"   -> RejectedStatus(hd.copy, hd.by, t)
      [] hd.op = "withdraw" -> WithdrawnStatus(hd.copy, t)
      [] hd.op = "drop"     -> DroppedStatus(hd.copy, t)
      [] hd.op = "cancel"   -> CanceledStatus(hd.copy, hd.by, t)

End(h) ==
    LET hd == handler[h] IN
    /\ hd.pc = "holding" /\ hd.op \in {"reject", "withdraw", "drop", "cancel"}
    /\ Update(h, EndingStatus(hd, now))
    /\ revoked' = revoked \cup {hd.name}
    /\ UNCHANGED approvals

\* A call of the handler fails (a conflict, an object that is gone, an error
\* of the API server, a client that went away): it answers 5xx and stops.
Fail(h) ==
    /\ handler[h].pc # "idle"
    /\ handler' = [handler EXCEPT ![h] = IdleHandler]
    /\ UNCHANGED <<now, stored, status, owned, created, cleaner, faults,
                   approvals, revoked>>

----------------------------------------------------------------------------
(***************************************************************************)
(* The cleanup routine: ExpirePendingSessions, ExpireApprovedSessions and  *)
(* markCleanupExpiredSession, in this order, again and again.  Each lists  *)
(* the sessions and then works on its items one by one.  Items whose loop  *)
(* body does nothing whatever the clock says are left out of todo.         *)
(***************************************************************************)

\* The routine after it listed the items in todo.
Listed(todo, pc, next) ==
    [pc      |-> IF todo = {} THEN next ELSE pc,
     todo    |-> todo,
     snap    |-> [n \in Names |-> IF n \in todo THEN status[n] ELSE EmptyStatus],
     fresh   |-> todo,
     retries |-> 0]

\* The routine after it finished with item n.
Finished(n, pc, next) ==
    [pc      |-> IF cleaner.todo = {n} THEN next ELSE pc,
     todo    |-> cleaner.todo \ {n},
     snap    |-> [cleaner.snap EXCEPT ![n] = EmptyStatus],
     fresh   |-> cleaner.fresh \ {n},
     retries |-> 0]

\* The cleaner writes status s to object n.
CleanerWrites(n, s) ==
    /\ status' = [status EXCEPT ![n] = s]
    /\ handler' = Invalidated(n)

HistoryUnchanged == UNCHANGED <<approvals, revoked>>

MayTimeOut(s) == IsSessionPendingApproval(s) /\ s.timeoutAt # Unset

ListPending ==
    /\ cleaner.pc = "listPending"
    /\ cleaner' = Listed({n \in stored : MayTimeOut(status[n])},
                         "pending", "listApproved")
    /\ UNCHANGED <<now, stored, status, owned, created, handler, faults>>
    /\ HistoryUnchanged

\* The item is timed out and the update is accepted.
ExpirePending(n) ==
    /\ cleaner.pc = "pending" /\ IsFirst(n, cleaner.todo)
    /\ IsSessionApprovalTimedOut(cleaner.snap[n], now)
    /\ UnchangedItem(n)
    /\ CleanerWrites(n, TimedOutStatus(cleaner.snap[n]))
    /\ cleaner' = Finished(n, "pending", "listApproved")
    /\ UNCHANGED <<now, stored, owned, created, faults>>
    /\ HistoryUnchanged

\* The item is not timed out, or the update meets a conflict: no retry.
SkipPending(n) ==
    /\ cleaner.pc = "pending" /\ IsFirst(n, cleaner.todo)
    /\ \/ ~IsSessionApprovalTimedOut(cleaner.snap[n], now)
       \/ ~UnchangedItem(n)
    /\ cleaner' = Finished(n, "pending", "listApproved")
    /\ UNCHANGED <<now, stored, status, owned, created, handler, faults>>
    /\ HistoryUnchanged

ListApproved ==
    /\ cleaner.pc = "listApproved"
    /\ cleaner' = Listed({n \in stored : status[n].state = "Approved"},
                         "approved", "listCleanup")
    /\ UNCHANGED <<now, stored, status, owned, created, handler, faults>>
    /\ HistoryUnchanged

\* The resourceVersion is read again, the listed status is not: if the object
\* is still there the update below will write the listed status over whatever
\* was stored in between.
RefetchVersion(n) == IF n \in stored THEN cleaner.fresh \cup {n} ELSE cleaner.fresh

ExpireApproved(n) ==
    /\ cleaner.pc = "approved" /\ IsFirst(n, cleaner.todo)
    /\ IsSessionExpired(cleaner.snap[n], now)
    /\ cleaner' = [cleaner EXCEPT !.pc = "updating",
                                  !.snap[n] = ExpiredStatus(@),
                                  !.fresh = RefetchVersion(n)]
    /\ UNCHANGED <<now, stored, status, owned, created, handler, faults>>
    /\ HistoryUnchanged

SkipApproved(n) ==
    /\ cleaner.pc = "approved" /\ IsFirst(n, cleaner.todo)
    /\ ~IsSessionExpired(cleaner.snap[n], now)
    /\ cleaner' = Finished(n, "approved", "listCleanup")
    /\ UNCHANGED <<now, stored, status, owned, created, handler, faults>>
    /\ HistoryUnchanged

ExpireUpdate(n) ==
    /\ cleaner.pc = "updating" /\ IsFirst(n, cleaner.todo)
    /\ UnchangedItem(n)
    /\ CleanerWrites(n, cleaner.snap[n])
    /\ cleaner' = Finished(n, "approved", "listCleanup")
    /\ UNCHANGED <<now, stored, owned, created, faults>>
    /\ HistoryUnchanged

\* Mutant: one attempt too many.
RetriedCleanerOnceMore(n) ==
    IF n \in stored /\ cleaner.retries < 3
      THEN [cleaner EXCEPT !.snap[n] = ExpiredStatus(status[n]),
                           !.fresh = @ \cup {n},
                           !.retries = @ + 1]
      ELSE Finished(n, "approved", "listCleanup")

\* After a failed update the object is read again and the transition applied
\* to it; a third failure, or an object that is gone, ends the item (the full
\* update that follows cannot change the status: it is a subresource).
RetriedCleaner(n) ==
    IF n \in stored /\ cleaner.retries < 2
      THEN [cleaner EXCEPT !.snap[n] = ExpiredStatus(status[n]),
                           !.fresh = @ \cup {n},
                           !.retries = @ + 1]
      ELSE Finished(n, "approved", "listCleanup")

ExpireConflict(n) ==
    /\ cleaner.pc = "updating" /\ IsFirst(n, cleaner.todo)
    /\ ~UnchangedItem(n)
    /\ cleaner' = RetriedCleaner(n)
    /\ UNCHANGED <<now, stored, status, owned, created, handler, faults>>
    /\ HistoryUnchanged

\* The time against which retention is compared is taken once, after the list.
Deletable(n) ==
    \/ IsPastRetention(status[n], now)
    \/ n \notin owned /\ IsDeletableOrphan(status[n])

\* Mutant: only orphans are removed.
ListCleanupOrphans ==
    /\ cleaner.pc = "listCleanup"
    /\ cleaner' = Listed({n \in stored : n \notin owned /\ Deletable(n)},
                         "cleanup", "listPending")
    /\ UNCHANGED <<now, stored, status, owned, created, handler, faults>>
    /\ HistoryUnchanged

ListCleanup ==
    /\ cleaner.pc = "listCleanup"
    /\ cleaner' = Listed({n \in stored : Deletable(n)}, "cleanup", "listPending")
    /\ UNCHANGED <<now, stored, status, owned, created, handler, faults>>
    /\ HistoryUnchanged

Delete(n) ==
    /\ cleaner.pc = "cleanup" /\ IsFirst(n, cleaner.todo)
    /\ stored' = stored \ {n}
    /\ status' = [status EXCEPT ![n] = EmptyStatus]
    /\ handler' = Invalidated(n)
    /\ cleaner' = Finished(n, "cleanup", "listPending")
    /\ UNCHANGED <<now, owned, created, faults>>
    /\ HistoryUnchanged

CleanerStep ==
    \/ ListPending
    \/ ListApproved
    \/ ListCleanup
    \/ \E n \in Names : \/ ExpirePending(n)  \/ SkipPending(n)
                        \/ ExpireApproved(n) \/ SkipApproved(n)
                        \/ ExpireUpdate(n)   \/ ExpireConflict(n)
                        \/ Delete(n)

----------------------------------------------------------------------------
(***************************************************************************)
(* Faults and time.                                                        *)
(***************************************************************************)

\* The list that follows one that fails.
NextList ==
    [listPending |-> "listApproved", listApproved |-> "listCleanup",
     listCleanup |-> "listPending"]

\* An API call of the routine fails: a failed list ends its phase, a failed
\* update or delete its item; a failed refetch leaves the listed version, and
\* in the retry loop it ends the item.
FailedCleaner(n) ==
    CASE cleaner.pc = "pending"  -> {Finished(n, "pending", "listApproved")}
      [] cleaner.pc = "approved" -> {[cleaner EXCEPT !.pc = "updating",
                                                     !.snap[n] = ExpiredStatus(@)]}
      [] cleaner.pc = "updating" -> {RetriedCleaner(n),
                                     Finished(n, "approved", "listCleanup")}
      [] cleaner.pc = "cleanup"  -> {Finished(n, "cleanup", "listPending")}

CleanerItemFault(n) ==
    /\ faults < MaxFaults
    /\ cleaner.pc \notin DOMAIN NextList /\ IsFirst(n, cleaner.todo)
    /\ cleaner.pc = "approved" => IsSessionExpired(cleaner.snap[n], now)
    /\ cleaner' \in FailedCleaner(n)
    /\ faults' = faults + 1
    /\ UNCHANGED <<now, stored, status, owned, created, handler>>
    /\ HistoryUnchanged

CleanerListFault ==
    /\ faults < MaxFaults
    /\ cleaner.pc \in DOMAIN NextList
    /\ cleaner' = [cleaner EXCEPT !.pc = NextList[@]]
    /\ faults' = faults + 1
    /\ UNCHANGED <<now, stored, status, owned, created, handler>>
    /\ HistoryUnchanged

\* The process dies and is restarted: what is not in the API server is lost.
Crash ==
    /\ faults < MaxFaults
    /\ handler' = [h \in Handlers |-> IdleHandler]
    /\ cleaner' = StartedCleaner
    /\ faults' = faults + 1
    /\ UNCHANGED <<now, stored, status, owned, created>>
    /\ HistoryUnchanged

Tick ==
    /\ now < MaxTime
    /\ now' = now + 1
    /\ UNCHANGED <<stored, status, owned, created, handler, cleaner, faults>>
    /\ HistoryUnchanged

RequesterStep(h) ==
    \/ \E k \in Keys : RequestCheck(h, k)
    \/ \E n \in Names : RequestCreate(h, n) \/ RequestRead(h, n)
    \/ RequestWrite(h)
    \/ Fail(h)

DeciderStep(h) ==
    \/ \E c \in Callers, n \in Names :
          \/ ReadApprove(h, c, n)  \/ ReadReject(h, c, n)
          \/ ReadWithdraw(h, c, n) \/ ReadDrop(h, c, n) \/ ReadCancel(h, c, n)
    \/ Approve(h) \/ End(h)
    \/ Fail(h)

Next ==
    \/ \E h \in Requesters : RequesterStep(h)
    \/ \E h \in Deciders : DeciderStep(h)
    \/ CleanerStep
    \/ CleanerListFault
    \/ \E n \in Names : CleanerItemFault(n)
    \/ Crash
    \/ Tick

Spec == Init /\ [][Next]_vars

\* The cleanup goroutine is never left out forever; callers may stop calling.
FairSpec == Spec /\ WF_vars(CleanerStep)

----------------------------------------------------------------------------
(***************************************************************************)
(* Properties.                                                             *)
(***************************************************************************)

TypeOK ==
    /\ now \in Nat \ {0}
    /\ stored \subseteq created
    /\ status \in [Names -> Statuses]
    /\ owned \subseteq created
    /\ created \subseteq Names
    /\ handler \in [Handlers -> HandlerStates]
    /\ cleaner \in CleanerStates
    /\ faults \in Nat
    /\ approvals \subseteq [name : Names, by : Callers, at : Nat]
    /\ revoked \subseteq created

\* A handler that is about to write a status has read a session, and on behalf
\* of a caller unless it serves a request.
HoldersReadASession ==
    \A h \in Handlers : handler[h].pc = "holding" =>
        /\ handler[h].name \in created
        /\ handler[h].op # "request" => handler[h].by \in Callers

Grants(n) == n \in stored /\ GrantsAccess(status[n], now)

\* A session for which the webhook would authorize was approved, by the caller
\* its status names, who is an approver of its triple, and less than maxValidFor
\* ago: no interleaving of requests, decisions, cleanup and crashes makes up
\* access or prolongs it.
AccessWasApproved ==
    \A n \in Names : Grants(n) =>
        \E a \in approvals :
            /\ a.name = n
            /\ a.by = status[n].approver
            /\ a.by \in ApproversOf[KeyOf[n]]
            /\ a.at <= now /\ now < a.at + ValidFor

\* Once a reject, withdraw, drop or cancel has answered 200 the session never
\* authorizes again, although the cleaner may write a status that it listed
\* before (ExpireApprovedSessions) and a racing request may rewrite the status
\* of a session it did not create.
RevocationIsFinal == \A n \in revoked : ~Grants(n)

\* Requests for one triple do not overlap; requests for different triples may,
\* and so may decisions, cleanup, crashes and the clock.
Sequential ==
    \A g, h \in Requesters :
        handler[g].pc # "idle" /\ handler[h].pc # "idle" /\ handler[g].key = handler[h].key
            => g = h

\* The webhook does not look at State; with one request at a time it still only
\* authorizes for sessions that the API and the UI show as Approved: the cleaner,
\* whose retry loop does not evaluate its condition again, never marks a session
\* Expired or ApprovalTimeout while it grants access.  Racing requests break it
\* (a session goes back to Pending and is approved again under the retry).
GrantsOnlyWhenApproved == \A n \in Names : Grants(n) => status[n].state = "Approved"

\* Requests that race do not do worse than that: a session shown as requested,
\* rejected, withdrawn or timed out never authorizes, whoever wrote that state
\* over what; of the others only an Expired one may.
UndecidedNeverGrants ==
    \A n \in Names : Grants(n) => status[n].state \in {"Approved", "Expired"}

\* Access ends when it was said to end: a step that leaves a session granting
\* does not move ExpiresAt.  (Two approvals of one request would.)
WindowNeverMoves ==
    [][\A n \in Names :
          Grants(n) /\ Grants(n)' => status'[n].expiresAt = status[n].expiresAt]_vars

\* The cleaner removes no session between its creation and the write of its
\* first status: the owner reference keeps the orphan rule away from it.
RequestedIsNotOrphaned ==
    [][\A n \in Names \ LegacyNames :
          n \in stored \ stored' => status[n].retainedUntil # Unset]_vars

\* With one request at a time a triple has at most one active session, also
\* after failed requests and crashes.
SingleActiveSession == \A k \in Keys : Cardinality(ActiveSessions(k)) <= 1

\* What the handlers and the cleaner make of a session in a state.  Drop asks for
\* no state, so it turns what was rejected, has expired or timed out, or never
\* got a status, into Withdrawn; and the cleaner may write the Approved status it
\* listed, as Expired, over two drops.  docs/advanced-features.md:244 has none of
\* these moves, and session_controller_test.go:936 wants ended sessions left alone.
MayBecome(state) ==
    CASE state = "" -> {"Pending", "Withdrawn"}
      [] state = "Pending" -> {"Approved", "Rejected", "Withdrawn", "ApprovalTimeout"}
      [] state \in {"Approved", "Withdrawn"} -> {"Expired"}
      [] state \in {"Rejected", "Expired", "ApprovalTimeout"} -> {"Withdrawn"}

\* With one request at a time a session is decided once: only a Pending one is
\* approved, rejected or timed out, none becomes Pending again, and an Approved
\* one only expires, however stale the copies of deciders and cleaner are
\* (setSessionStatus, the cleanup routine).  What has ended may still become
\* Withdrawn, by drop, and Expired after that, by the cleaner.
DecidedOnce ==
    [][\A n \in stored \cap stored' :
          status'[n].state \in {status[n].state} \cup MayBecome(status[n].state)]_vars

\* A pending session whose TimeoutAt has passed does not stay Pending.
PendingTimesOut ==
    \A n \in Names :
        (n \in stored /\ status[n].state = "Pending" /\ now > status[n].timeoutAt)
            ~> (n \notin stored \/ status[n].state # "Pending")

\* An approved session whose ExpiresAt has passed does not stay Approved.
ApprovedExpires ==
    \A n \in Names :
        (n \in stored /\ status[n].state = "Approved" /\ now > status[n].expiresAt)
            ~> (n \notin stored \/ status[n].state # "Approved")

\* A session whose RetainedUntil has passed is removed, and so is an object
\* without an owner reference that never got a status; the exception is a
\* session whose retention a late approval extends.
RetentionEnds ==
    \A n \in Names :
        (n \in stored /\ Deletable(n)) ~> (n \notin stored \/ ~Deletable(n))

----------------------------------------------------------------------------
(***************************************************************************)
(* The inductive invariants behind AccessWasApproved and RevocationIsFinal *)
(* (proved in SessionLifecycle_proofs).                                    *)
(***************************************************************************)

\* Whoever wrote it, a status of n that could grant access carries the expiry
\* of an approval of n by an approver, among the approvals A until time t.
Justified(s, n, A, t) ==
    s.rejectedAt = Unset /\ s.expiresAt # Unset =>
        \E a \in A :
            /\ a.name = n
            /\ a.by = s.approver
            /\ a.by \in ApproversOf[KeyOf[n]]
            /\ a.at <= t
            /\ s.expiresAt = a.at + ValidFor

\* This is so of the stored statuses and of every copy in flight, stale or not.
AccessInv ==
    /\ \A n \in Names : /\ Justified(status[n], n, approvals, now)
                        /\ Justified(cleaner.snap[n], n, approvals, now)
    /\ \A h \in Handlers : handler[h].pc = "holding" =>
          /\ Justified(handler[h].copy, handler[h].name, approvals, now)
          /\ handler[h].op = "approve" =>
                handler[h].by \in ApproversOf[KeyOf[handler[h].name]]

\* A status that does not grant access at time t and will not later.
IsDead(s, t) == s.rejectedAt # Unset \/ IsSessionExpired(s, t)

\* Nobody can bring a revoked session back: it is dead and not Pending, and a
\* handler about to approve it or to make it Pending has a stale copy.
RevokedStaysDead ==
    /\ \A n \in revoked \cap stored : status[n].state # "Pending" /\ IsDead(status[n], now)
    /\ \A h \in Handlers :
          handler[h].current /\ handler[h].op \in {"approve", "request"} =>
              handler[h].name \notin revoked

\* What the cleaner is about to write would keep a revoked session dead: in
\* ExpirePendingSessions its accepted copies are the stored statuses; in
\* ExpireApprovedSessions the listed status, written under a version read
\* later, has expired, and a refetched one has the stored times.
CleanerKeepsDead ==
    /\ cleaner.pc = "pending" =>
          \A n \in cleaner.todo \cap cleaner.fresh : cleaner.snap[n] = status[n]
    /\ cleaner.pc = "updating" =>
          \A n \in Names : IsFirst(n, cleaner.todo) =>
              /\ cleaner.snap[n].state = "Expired"
              /\ \/ IsSessionExpired(cleaner.snap[n], now)
                 \/ n \in cleaner.fresh =>
                       /\ cleaner.snap[n].rejectedAt = status[n].rejectedAt
                       /\ cleaner.snap[n].expiresAt = status[n].expiresAt
                       /\ cleaner.snap[n].retainedUntil = status[n].retainedUntil

RevocationInv == RevokedStaysDead /\ CleanerKeepsDead

----------------------------------------------------------------------------
(***************************************************************************)
(* What comments and tests of the repository say and the code does not do. *)
(***************************************************************************)

\* "Compute retained-until at creation so sessions always expose when they
\* will be cleaned up": a session without RetainedUntil is being requested.
RetentionIsExposed ==
    \A n \in stored \ LegacyNames : status[n].retainedUntil = Unset =>
        \E h \in Requesters : handler[h].pc # "idle" /\ handler[h].key = KeyOf[n]

\* "Once a session reaches a terminal state the system must not allow
\* transitions back to non-terminal states": nothing becomes Pending again.
NeverBackToPending ==
    [][\A n \in stored :
          status[n].state \notin {"", "Pending"} => status'[n].state # "Pending"]_vars
============================================================================
