------------------------------ MODULE Session ------------------------------
(***************************************************************************)
(* The status of a BreakglassSession: its fields, the predicates the code  *)
(* evaluates on it and the status that each operation writes.              *)
(*                                                                         *)
(* A time is a natural number and Unset (0) is the zero metav1.Time; the   *)
(* clock starts at 1.  time.Now().After(x) is now > x, x.After(now) is     *)
(* x > now.  An operation calls time.Now() several times in a row; the     *)
(* model gives these calls the same value.                                 *)
(*                                                                         *)
(* Abstracted: of the Conditions only the type of the last one is read by  *)
(* the code and kept here; Approvers, ApprovalReason and the messages are  *)
(* never read back by it and left out.                                     *)
(***************************************************************************)
EXTENDS Naturals

CONSTANTS
    Callers,          \* identities (e-mail addresses) that call the API
    None,             \* no caller, no key
    ValidFor,         \* spec.maxValidFor (default 1h)
    RetainFor,        \* spec.retainFor (default 30 days)
    ApprovalTimeout   \* the approval timeout (1h)

ASSUME DurationAssumption ==
    /\ ValidFor \in Nat \ {0}
    /\ RetainFor \in Nat \ {0}
    /\ ApprovalTimeout \in Nat \ {0}

ASSUME NoneAssumption == None \notin Callers

Unset == 0

\* SessionState*; "" is the state of a session whose status was never written.
States == {"", "Pending", "Approved", "Rejected", "Expired", "Withdrawn",
           "ApprovalTimeout"}

\* SessionConditionType*; "" when the list of conditions is empty.
ConditionTypes == {"", "Idle", "Approved", "Rejected", "Expired", "Canceled"}

Reasons == {"", "rejected", "withdrawn", "dropped", "canceled", "timeExpired"}

Statuses ==
    [state         : States,
     approvedAt    : Nat,
     rejectedAt    : Nat,
     expiresAt     : Nat,
     timeoutAt     : Nat,
     retainedUntil : Nat,
     lastCondition : ConditionTypes,
     reasonEnded   : Reasons,
     approver      : Callers \cup {None}]

EmptyStatus ==
    [state |-> "", approvedAt |-> Unset, rejectedAt |-> Unset,
     expiresAt |-> Unset, timeoutAt |-> Unset, retainedUntil |-> Unset,
     lastCondition |-> "", reasonEnded |-> "", approver |-> None]

----------------------------------------------------------------------------
(***************************************************************************)
(* Predicates.                                                             *)
(***************************************************************************)

IsSessionPendingApproval(s) == s.approvedAt = Unset /\ s.rejectedAt = Unset

IsSessionApprovalTimedOut(s, now) ==
    /\ IsSessionPendingApproval(s)
    /\ s.timeoutAt # Unset
    /\ now > s.timeoutAt

\* Mutant: any session that was approved counts as expired.
IsSessionExpiredOnceApproved(s, now) == s.expiresAt # Unset

IsSessionExpired(s, now) == s.expiresAt # Unset /\ now > s.expiresAt

IsSessionActive(s, now) == ~IsSessionExpired(s, now) /\ s.rejectedAt = Unset

\* True once the retention is over (and when it was never set).
IsSessionRetained(s, now) == now > s.retainedUntil

\* The filter of the webhook's getSessions: only such a session authorizes.
GrantsAccess(s, now) ==
    /\ ~IsSessionRetained(s, now)
    /\ s.rejectedAt = Unset
    /\ s.expiresAt # Unset
    /\ s.expiresAt > now

\* An approved session that drop and cancel end at once.
IsRunning(s) == s.state = "Approved" /\ s.approvedAt # Unset

\* The two conditions under which markCleanupExpiredSession deletes.
IsPastRetention(s, now) == s.retainedUntil # Unset /\ now > s.retainedUntil

IsDeletableOrphan(s) == s.retainedUntil = Unset /\ s.state # "Pending"

----------------------------------------------------------------------------
(***************************************************************************)
(* The status each operation writes, from the status it read, the caller   *)
(* and the time.                                                           *)
(***************************************************************************)

\* The request handler replaces the whole status.
PendingStatus(t) ==
    [EmptyStatus EXCEPT !.state         = "Pending",
                        !.timeoutAt     = t + ApprovalTimeout,
                        !.retainedUntil = t + RetainFor,
                        !.lastCondition = "Idle"]

\* Mutant: the validity is counted from the end of the approval timeout.
ApprovedStatusFromTimeout(s, by, t) ==
    [s EXCEPT !.state         = "Approved",
              !.rejectedAt    = Unset,
              !.approvedAt    = t,
              !.expiresAt     = s.timeoutAt + ValidFor,
              !.retainedUntil = t + RetainFor,
              !.timeoutAt     = Unset,
              !.lastCondition = "Approved",
              !.approver      = by]

ApprovedStatus(s, by, t) ==
    [s EXCEPT !.state         = "Approved",
              !.rejectedAt    = Unset,
              !.approvedAt    = t,
              !.expiresAt     = t + ValidFor,
              !.retainedUntil = t + RetainFor,
              !.timeoutAt     = Unset,
              !.lastCondition = "Approved",
              !.approver      = by]

RejectedStatus(s, by, t) ==
    [s EXCEPT !.state         = "Rejected",
              !.approvedAt    = Unset,
              !.expiresAt     = Unset,
              !.timeoutAt     = Unset,
              !.rejectedAt    = t,
              !.reasonEnded   = "rejected",
              !.lastCondition = "Rejected",
              !.approver      = by]

\* TimeoutAt and RetainedUntil are kept.
WithdrawnStatus(s, t) ==
    [s EXCEPT !.state         = "Withdrawn",
              !.approvedAt    = Unset,
              !.expiresAt     = Unset,
              !.rejectedAt    = t,
              !.reasonEnded   = "withdrawn",
              !.lastCondition = "Canceled",
              !.approver      = None]

EndedStatus(s, reason, t) ==
    [s EXCEPT !.state         = "Expired",
              !.expiresAt     = t,
              !.rejectedAt    = t,
              !.reasonEnded   = reason,
              !.lastCondition = "Expired"]

DroppedStatus(s, t) ==
    IF IsRunning(s) THEN EndedStatus(s, "dropped", t) ELSE WithdrawnStatus(s, t)

CanceledStatus(s, by, t) == [EndedStatus(s, "canceled", t) EXCEPT !.approver = by]

\* The cleaner's two transitions.  Neither sets RejectedAt.

\* Mutant: only the condition is appended.
TimedOutStatusConditionOnly(s) == [s EXCEPT !.lastCondition = "Expired"]

TimedOutStatus(s) ==
    [s EXCEPT !.state         = "ApprovalTimeout",
              !.lastCondition = "Expired"]

\* Mutant: the state is not changed.
ExpiredStatusReasonOnly(s) ==
    [s EXCEPT !.reasonEnded = "timeExpired", !.lastCondition = "Expired"]

ExpiredStatus(s) ==
    [s EXCEPT !.state         = "Expired",
              !.reasonEnded   = "timeExpired",
              !.lastCondition = "Expired"]
============================================================================
