-------------------------- MODULE Authorizer_proofs --------------------------
(***************************************************************************)
(* Proofs about Authorizer, for any number of sessions, groups, prefixes,  *)
(* requests and policies, on top of those about SessionLifecycle.          *)
(***************************************************************************)
EXTENDS Authorizer, SessionLifecycle_proofs

USE DEF Unset, NoName

\* Reviews and policy changes are stutters of the session lifecycle.
LEMMA ServiceRefines == ASpec => Spec
<1>1. AInit => Init
  BY DEF AInit
<1>2. [ANext]_avars => [Next]_vars
  <2> SUFFICES ASSUME [ANext]_avars PROVE [Next]_vars
    OBVIOUS
  <2>1. CASE ServiceStep
    BY <2>1 DEF ServiceStep
  <2>2. CASE ReviewStep
    <3>1. UNCHANGED vars
      BY <2>2 DEF ReviewStep, Arrive, EvalGlobal, EvalGlobalFails, EvalSession,
                  EvalSessionFails, SessionSARAllows, RBACAllows, RBACRefuses,
                  RBACFails, SessionSARsRefuse, Answer, ReviewFails, Elsewhere
    <3> QED
      BY <3>1
  <2>3. CASE \E p \in Policies : ChangePolicy(p)
    BY <2>3 DEF ChangePolicy
  <2>4. CASE UNCHANGED avars
    BY <2>4 DEF avars
  <2> QED
    BY <2>1, <2>2, <2>3, <2>4 DEF ANext
<1> QED
  BY <1>1, <1>2, PTL DEF ASpec, Spec

\* The history of approvals only grows.
LEMMA ApprovalsGrow == Next => approvals \subseteq approvals'
<1> SUFFICES ASSUME Next PROVE approvals \subseteq approvals'
  OBVIOUS
<1>1. ASSUME NEW h \in Requesters, RequesterStep(h) PROVE approvals \subseteq approvals'
  BY <1>1 DEF RequesterStep, RequestCheck, RequestCreate, RequestRead, RequestWrite,
              Hold, Fail
<1>2. ASSUME NEW h \in Deciders, DeciderStep(h) PROVE approvals \subseteq approvals'
  BY <1>2 DEF DeciderStep, ReadApprove, ReadReject, ReadWithdraw, ReadDrop,
              ReadCancel, Hold, Approve, End, Fail
<1>3. CASE CleanerStep
  BY <1>3 DEF CleanerStep, ListPending, ListApproved, ListCleanup, ExpirePending,
              SkipPending, ExpireApproved, SkipApproved, ExpireUpdate, ExpireConflict,
              Delete, HistoryUnchanged
<1>4. CASE CleanerListFault \/ Crash \/ Tick \/ \E n \in Names : CleanerItemFault(n)
  BY <1>4 DEF CleanerListFault, Crash, Tick, CleanerItemFault, HistoryUnchanged
<1> QED
  BY <1>1, <1>2, <1>3, <1>4 DEF Next

-----------------------------------------------------------------------------
(***************************************************************************)
(* Type correctness.                                                       *)
(***************************************************************************)

\* No review is a review.
LEMMA NoReviewType == NoReview \in Reviews
  BY DEF NoReview, Reviews

\* Every step keeps the review a review, its remaining sessions among those
\* read, and its standing policies in force.
LEMMA AuthorizerTypeNext ==
    TypeOK /\ AuthorizerTypeOK /\ [ANext]_avars => AuthorizerTypeOK'
<1> SUFFICES ASSUME TypeOK, AuthorizerTypeOK, [ANext]_avars
             PROVE  AuthorizerTypeOK'
  OBVIOUS
<1> USE DEF AuthorizerTypeOK
<1>0. ASSUME NEW o \in {"denied", "error"}, Refuse(o), Elsewhere PROVE AuthorizerTypeOK'
  BY <1>0 DEF Refuse, Elsewhere, NoReview, Reviews
<1>1. CASE ServiceStep
  BY <1>1, NoReviewType DEF ServiceStep, NoReview
<1>2. ASSUME NEW u \in Users, NEW c \in Clusters, NEW a \in Attributes \cup {NonResource},
             Arrive(u, c, a)
      PROVE  AuthorizerTypeOK'
  <2>1. GrantingSessions(u, c) \subseteq Names
    BY DEF GrantingSessions, TypeOK
  <2>2. now \in Nat /\ revoked \subseteq Names
    BY DEF TypeOK
  <2>3. PICK t \in {TenantOf[c], NoTenant} : review' = Arrived(u, c, a, t)
    BY <1>2 DEF Arrive
  <2>4. policies' = policies
    BY <1>2 DEF Arrive, Elsewhere
  <2>5. t \in {TenantOf[d] : d \in Clusters} \cup {NoTenant}
    OBVIOUS
  <2>6. Arrived(u, c, a, t) \in Reviews
    BY <2>1, <2>2, <2>5 DEF Arrived, Reviews
  <2>7. /\ Arrived(u, c, a, t).standing = policies
        /\ Arrived(u, c, a, t).todo = {}
    BY DEF Arrived
  <2> QED
    BY <2>3, <2>4, <2>6, <2>7
<1>3. ASSUME NEW todo \in SUBSET review.sessions, NEW b \in BOOLEAN, Proceed(todo, b), Elsewhere
      PROVE  AuthorizerTypeOK'
  BY <1>3 DEF Proceed, Elsewhere, Reviews
<1>4. CASE EvalGlobal \/ EvalGlobalFails
  <2>1. review.blind \in BOOLEAN
    BY DEF Reviews
  <2> QED
    BY <1>0, <1>3, <1>4, <2>1 DEF EvalGlobal, EvalGlobalFails
<1>5. ASSUME NEW n \in Names, EvalSession(n) \/ EvalSessionFails(n)
      PROVE  AuthorizerTypeOK'
  <2>1. review.blind \in BOOLEAN
    BY DEF Reviews
  <2> QED
    BY <1>0, <1>3, <1>5, <2>1 DEF EvalSession, EvalSessionFails
<1>6. ASSUME Allow, Elsewhere PROVE AuthorizerTypeOK'
  BY <1>6 DEF Allow, Elsewhere, Reviews
<1>7. ASSUME NEW n \in Names, SessionSARAllows(n) PROVE AuthorizerTypeOK'
  BY <1>7 DEF SessionSARAllows, Elsewhere, Reviews
<1>8. CASE RBACAllows \/ RBACFails \/ Answer \/ ReviewFails
  BY <1>0, <1>6, <1>8 DEF RBACAllows, RBACFails, Answer, ReviewFails
<1>9. CASE RBACRefuses \/ SessionSARsRefuse
  BY <1>9 DEF RBACRefuses, SessionSARsRefuse, Elsewhere, Reviews
<1>10. ASSUME NEW p \in Policies, ChangePolicy(p) PROVE AuthorizerTypeOK'
  BY <1>10 DEF ChangePolicy, Reviews
<1>11. CASE UNCHANGED avars
  BY <1>11 DEF avars
<1> QED
  BY <1>1, <1>2, <1>4, <1>5, <1>7, <1>8, <1>9, <1>10, <1>11 DEF ANext, ReviewStep

\* The type invariant of the authorizer, and that of the service below it.
THEOREM AuthorizerTypeCorrect == ASpec => []AuthorizerTypeOK
<1>1. AInit => AuthorizerTypeOK
  BY NoReviewType DEF AInit, AuthorizerTypeOK, NoReview
<1>2. ASpec => []TypeOK
  BY ServiceRefines, TypeCorrect, PTL
<1> QED
  BY <1>1, <1>2, AuthorizerTypeNext, PTL DEF ASpec

-----------------------------------------------------------------------------
(***************************************************************************)
(* The decision.                                                           *)
(***************************************************************************)

\* A session that getSessions keeps entitles its user: it grants access now,
\* so it was approved and nobody has ended it.
LEMMA GrantingEntitles ==
    ASSUME TypeOK, AccessWasApproved, RevocationIsFinal,
           NEW rv, NEW n \in GrantingSessions(rv.user, rv.cluster),
           rv.at = now, rv.before = revoked
    PROVE  Entitles(n, rv)
<1>1. n \in Names /\ Grants(n)
  BY DEF GrantingSessions, Grants, TypeOK
<1>2. n \notin revoked
  BY <1>1 DEF RevocationIsFinal
<1>3. \E a \in approvals : /\ a.name = n /\ a.by \in ApproversOf[KeyOf[n]]
                          /\ a.at <= now /\ now < a.at + ValidFor
  BY <1>1 DEF AccessWasApproved
<1> QED
  BY <1>2, <1>3 DEF Entitles, GrantingSessions

\* A review that is refused, or gone, satisfies the invariant.
LEMMA RefusedInv ==
    ASSUME \/ review' = NoReview
           \/ \E o \in {"denied", "error"} : Refuse(o)
    PROVE  ReviewInv'
<1>1. /\ review'.sessions = {} /\ review'.via = NoName /\ review'.todo = {}
      /\ review'.attributes = NonResource /\ review'.outcome # "allowed"
  BY DEF Refuse, NoReview
<1> QED
  BY <1>1 DEF ReviewInv, SessionsEntitle, ViaPermits, NotDenied, ReviewPhases,
              AllowedThroughApproval

\* The steps of a review after its arrival leave alone what it is about.
SameReview ==
    /\ review'.user = review.user
    /\ review'.cluster = review.cluster
    /\ review'.attributes = review.attributes
    /\ review'.sessions = review.sessions
    /\ review'.tenant = review.tenant
    /\ review'.at = review.at
    /\ review'.before = review.before
    /\ review'.standing \subseteq review.standing

\* Then the sessions go on to entitle, and what was not denied is not denied.
LEMMA SameReviewKeeps ==
    ASSUME SameReview, approvals \subseteq approvals'
    PROVE  /\ \A n : Entitles(n, review) => Entitles(n, review)'
           /\ SessionsEntitle => SessionsEntitle'
           /\ \A n : ~Match(review.standing, Action(review, n)) =>
                      ~Match(review.standing, Action(review, n))'
<1>1. \A n : Entitles(n, review) => Entitles(n, review)'
  BY DEF SameReview, Entitles
<1>2. \A n : Action(review, n)' = Action(review, n)
  BY DEF SameReview, Action
<1>3. ASSUME NEW n, ~Match(review.standing, Action(review, n))
      PROVE  ~Match(review.standing, Action(review, n))'
  <2>1. Match(review.standing, Action(review, n))' = Match(review'.standing, Action(review, n))
    BY <1>2
  <2>2. Match(review'.standing, Action(review, n)) => Match(review.standing, Action(review, n))
    BY DEF SameReview, Match
  <2> QED
    BY <1>3, <2>1, <2>2
<1> QED
  BY <1>1, <1>3 DEF SessionsEntitle, SameReview

\* A step that changes nothing else about the review but its standing policies.
LEMMA SameReviewInv ==
    ASSUME ReviewInv, SameReview, approvals \subseteq approvals',
           review'.pc = review.pc, review'.outcome = review.outcome,
           review'.todo = review.todo, review'.via = review.via,
           review'.blind = review.blind
    PROVE  ReviewInv'
<1> USE DEF SameReview
<1>1. SessionsEntitle' /\ ViaPermits' /\ ReviewPhases'
  BY SameReviewKeeps DEF ReviewInv, ViaPermits, ReviewPhases, SessionPermits, PlainGroup
<1>2. NotDenied'
  BY SameReviewKeeps DEF ReviewInv, NotDenied
<1>3. AllowedThroughApproval'
  BY SameReviewKeeps DEF ReviewInv, AllowedThroughApproval, Covers, SessionPermits,
                         PlainGroup, AskedAttributes
<1> QED
  BY <1>1, <1>2, <1>3 DEF ReviewInv

\* A review that arrives: its sessions grant access now.
LEMMA ArriveInv ==
    ASSUME TypeOK, AccessWasApproved, RevocationIsFinal,
           NEW u, NEW c, NEW a, Arrive(u, c, a)
    PROVE  ReviewInv'
<1>1. PICK t \in {TenantOf[c], NoTenant} : review' = Arrived(u, c, a, t)
  BY DEF Arrive
<1>2. approvals' = approvals
  BY DEF Arrive, Elsewhere, vars
<1>3. /\ review'.user = u /\ review'.cluster = c /\ review'.at = now
      /\ review'.before = revoked /\ review'.sessions = GrantingSessions(u, c)
      /\ review'.via = NoName /\ review'.todo = {} /\ review'.outcome = "none"
      /\ review'.attributes = a
      /\ review'.pc = "global" \/ a = NonResource
      /\ review'.pc # "session"
  BY <1>1 DEF Arrived
<1>4. SessionsEntitle'
  <2>1. ASSUME NEW n \in GrantingSessions(u, c) PROVE Entitles(n, review')
    BY <1>3, GrantingEntitles
  <2>2. ASSUME NEW n, Entitles(n, review') PROVE Entitles(n, review)'
    BY <1>2, <2>2 DEF Entitles
  <2> QED
    BY <1>3, <2>1, <2>2 DEF SessionsEntitle
<1> QED
  BY <1>3, <1>4 DEF ReviewInv, ViaPermits, NotDenied, ReviewPhases, AllowedThroughApproval

\* An evaluation of the policies for m that found no match, or failed: the
\* policies in force include the standing ones.
LEMMA EvaluatedInv ==
    ASSUME AuthorizerTypeOK, ReviewInv, Elsewhere,
           NEW m \in Names \cup {NoName}, NEW todo \in SUBSET review.sessions,
           NEW b \in BOOLEAN, Proceed(todo, b),
           b \/ (b = review.blind /\ ~Match(policies, Action(review, m))),
           review.pc = "global"  => m = NoName /\ todo = review.sessions,
           review.pc = "session" => todo = review.todo \ {m},
           review.pc \in {"global", "session"}
    PROVE  ReviewInv'
<1>1. /\ SameReview
      /\ review'.standing = review.standing /\ review'.via = review.via
      /\ review'.outcome = review.outcome /\ review'.todo = todo /\ review'.blind = b
      /\ review'.pc = IF todo = {} THEN "rbac" ELSE "session"
  BY DEF Proceed, SameReview, AuthorizerTypeOK, Reviews
<1>2. approvals \subseteq approvals'
  BY DEF Elsewhere, vars
<1>3. SessionsEntitle'
  BY <1>1, <1>2, SameReviewKeeps DEF ReviewInv
<1>4. ViaPermits'
  BY <1>1 DEF SameReview, ReviewInv, ViaPermits, SessionPermits, PlainGroup
<1>5. review.outcome # "allowed"
  BY DEF ReviewInv, ReviewPhases
<1>6. ReviewPhases' /\ AllowedThroughApproval'
  BY <1>1, <1>5 DEF ReviewPhases, AllowedThroughApproval
<1>7. NotDenied'
  <2> SUFFICES ASSUME ~b, review.attributes # NonResource,
                      NEW n \in (review.sessions \ todo) \cup {NoName}
               PROVE  ~Match(review.standing, Action(review, n))'
    BY <1>1 DEF NotDenied, SameReview
  <2>1. ~Match(review.standing, Action(review, m))
    BY DEF AuthorizerTypeOK, Match
  <2>2. ~Match(review.standing, Action(review, n))
    BY <2>1 DEF ReviewInv, NotDenied
  <2> QED
    BY <1>1, <1>2, <2>2, SameReviewKeeps
<1> QED
  BY <1>3, <1>4, <1>6, <1>7 DEF ReviewInv

\* A step to the RBAC check's successors that allows nothing yet.
LEMMA MovedInv ==
    ASSUME AuthorizerTypeOK, ReviewInv, Elsewhere, SameReview,
           review.pc \in {"rbac", "via"}, review'.pc \in {"via", "reread"},
           review'.outcome = review.outcome, review'.todo = review.todo,
           review'.blind = review.blind, ViaPermits'
    PROVE  ReviewInv'
<1>1. approvals \subseteq approvals'
  BY DEF Elsewhere, vars
<1>2. review.outcome # "allowed" /\ review.todo = {}
  BY DEF ReviewInv, ReviewPhases
<1>3. SessionsEntitle'
  BY <1>1, SameReviewKeeps DEF ReviewInv
<1>4. NotDenied'
  BY <1>1, SameReviewKeeps DEF ReviewInv, NotDenied, SameReview
<1> QED
  BY <1>2, <1>3, <1>4 DEF ReviewInv, ReviewPhases, AllowedThroughApproval

\* An allowed review: by RBAC for the groups of its sessions or for everyone,
\* or by the SAR of a session.
LEMMA AllowInv ==
    ASSUME AuthorizerTypeOK, ReviewInv, Elsewhere, Allow,
           review.pc \in {"rbac", "reread"}, review.attributes # NonResource,
           \/ CanGroupsDo(review.sessions, review.attributes)
           \/ review.via # NoName
    PROVE  ReviewInv'
<1>1. /\ SameReview
      /\ review'.standing = review.standing /\ review'.via = review.via
      /\ review'.outcome = "allowed" /\ review'.todo = {} /\ review'.pc = "done"
      /\ review'.blind = review.blind
  BY DEF Allow, SameReview, AuthorizerTypeOK, Reviews
<1>2. approvals \subseteq approvals'
  BY DEF Elsewhere, vars
<1>3. SessionsEntitle'
  BY <1>1, <1>2, SameReviewKeeps DEF ReviewInv
<1>4. ViaPermits'
  BY <1>1 DEF SameReview, ReviewInv, ViaPermits, SessionPermits, PlainGroup
<1>5. NotDenied'
  BY <1>1, <1>2, SameReviewKeeps DEF ReviewInv, NotDenied, ReviewPhases, SameReview
<1>6. \/ <<NoPrefix, Authenticated, AskedAttributes(review.attributes)>> \in Permits
      \/ \E n \in review.sessions : Covers(n, review.attributes)
  BY DEF CanGroupsDo, Covers, ReviewInv, ViaPermits
<1>7. AllowedThroughApproval'
  BY <1>1, <1>3, <1>6 DEF AllowedThroughApproval, SessionsEntitle, SameReview, Covers,
                          SessionPermits, PlainGroup, AskedAttributes
<1> QED
  BY <1>1, <1>3, <1>4, <1>5, <1>7 DEF ReviewInv, ReviewPhases, SameReview

\* Every step preserves the invariant.
LEMMA ReviewNext ==
    /\ TypeOK /\ AccessWasApproved /\ RevocationIsFinal
    /\ AuthorizerTypeOK /\ ReviewInv /\ [ANext]_avars
    => ReviewInv'
<1> SUFFICES ASSUME TypeOK, AccessWasApproved, RevocationIsFinal,
                    AuthorizerTypeOK, ReviewInv, [ANext]_avars
             PROVE  ReviewInv'
  OBVIOUS
<1>0. review.blind \in BOOLEAN
  BY DEF AuthorizerTypeOK, Reviews
<1>1. ASSUME review' = review, approvals \subseteq approvals' PROVE ReviewInv'
  BY <1>1, SameReviewInv DEF SameReview
<1>2. CASE ServiceStep
  <2>1. CASE Crash
    <3>1. review' = NoReview
      BY <1>2, <2>1 DEF ServiceStep
    <3> QED
      BY <3>1, RefusedInv
  <2>2. CASE ~Crash
    BY <1>1, <1>2, <2>2, ApprovalsGrow DEF ServiceStep
  <2> QED
    BY <2>1, <2>2
<1>3. ASSUME NEW u, NEW c, NEW a, Arrive(u, c, a) PROVE ReviewInv'
  BY <1>3, ArriveInv
<1>4. ASSUME NEW o \in {"denied", "error"}, Refuse(o) PROVE ReviewInv'
  BY <1>4, RefusedInv
<1>5. CASE EvalGlobal \/ EvalGlobalFails
  BY <1>0, <1>4, <1>5, EvaluatedInv DEF EvalGlobal, EvalGlobalFails
<1>6. ASSUME NEW n \in Names, EvalSession(n) \/ EvalSessionFails(n) PROVE ReviewInv'
  <2>1. review.todo \ {n} \in SUBSET review.sessions
    BY DEF AuthorizerTypeOK
  <2> QED
    BY <1>0, <1>4, <1>6, <2>1, EvaluatedInv DEF EvalSession, EvalSessionFails
<1>7. CASE RBACAllows
  BY <1>7, AllowInv DEF RBACAllows
<1>8. CASE RBACRefuses \/ SessionSARsRefuse
  <2>1. /\ SameReview /\ Elsewhere /\ review.pc \in {"rbac", "via"}
        /\ review'.pc \in {"via", "reread"}
        /\ review'.outcome = review.outcome /\ review'.todo = review.todo
        /\ review'.blind = review.blind /\ review'.via = review.via
    BY <1>8 DEF RBACRefuses, SessionSARsRefuse, SameReview, AuthorizerTypeOK, Reviews
  <2>2. ViaPermits'
    BY <2>1 DEF SameReview, ReviewInv, ViaPermits, SessionPermits, PlainGroup
  <2> QED
    BY <2>1, <2>2, MovedInv
<1>9. ASSUME NEW n \in Names, SessionSARAllows(n) PROVE ReviewInv'
  <2>1. /\ SameReview /\ Elsewhere /\ review.pc = "via" /\ review'.pc = "reread"
        /\ review'.outcome = review.outcome /\ review'.todo = review.todo
        /\ review'.blind = review.blind /\ review'.via = n
    BY <1>9 DEF SessionSARAllows, SameReview, AuthorizerTypeOK, Reviews
  <2>2. ViaPermits'
    BY <1>9, <2>1 DEF SessionSARAllows, SameReview, ViaPermits, SessionPermits, PlainGroup
  <2> QED
    BY <2>1, <2>2, MovedInv
<1>10. CASE RBACFails \/ Answer \/ ReviewFails
  BY <1>4, <1>10, AllowInv DEF RBACFails, Answer, ReviewFails
<1>11. ASSUME NEW p \in Policies, ChangePolicy(p) PROVE ReviewInv'
  <2>1. /\ SameReview /\ review'.pc = review.pc /\ review'.outcome = review.outcome
        /\ review'.todo = review.todo /\ review'.via = review.via
        /\ review'.blind = review.blind
    BY <1>11 DEF ChangePolicy, SameReview, AuthorizerTypeOK, Reviews
  <2>2. approvals \subseteq approvals'
    BY <1>11 DEF ChangePolicy, vars
  <2> QED
    BY <2>1, <2>2, SameReviewInv
<1>12. CASE UNCHANGED avars
  BY <1>1, <1>12 DEF avars, vars
<1> QED
  BY <1>2, <1>3, <1>5, <1>6, <1>7, <1>8, <1>9, <1>10, <1>11, <1>12 DEF ANext, ReviewStep

\* The invariant holds throughout.
LEMMA ReviewAlways == ASpec => []ReviewInv
<1>1. AInit => ReviewInv
  BY DEF AInit, NoReview, ReviewInv, SessionsEntitle, ViaPermits, NotDenied, ReviewPhases,
         AllowedThroughApproval
<1>2. ASpec => [](TypeOK /\ AccessWasApproved /\ RevocationIsFinal)
  BY ServiceRefines, TypeCorrect, AccessSafe, RevocationSafe, PTL
<1> QED
  BY <1>1, <1>2, AuthorizerTypeCorrect, ReviewNext, PTL DEF ASpec

\* The webhook allows only what RBAC allows everyone or the group of a session
\* that was approved and not ended when the request arrived (handleAuthorize,
\* with every other handler, the cleanup routine and crashes running).
THEOREM AuthorizerSafe == ASpec => []AllowedThroughApproval
<1>1. ReviewInv => AllowedThroughApproval
  BY DEF ReviewInv
<1> QED
  BY <1>1, ReviewAlways, PTL

\* A policy in force during the whole review is never overridden, unless the
\* webhook could not read the policies or the tenant (the two phases of deny
\* evaluation in handleAuthorize).
THEOREM DenySafe == ASpec => []DenyPrevails
<1>1. ReviewInv => DenyPrevails
  BY DEF ReviewInv, NotDenied, ReviewPhases, DenyPrevails
<1> QED
  BY <1>1, ReviewAlways, PTL
==============================================================================
