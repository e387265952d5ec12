--------------------------- MODULE AccessContract ---------------------------
(***************************************************************************)
(* What breakglass promises about access, whatever it takes to keep it:    *)
(* a session gives access from an approval until a time fixed by that      *)
(* approval, it may lose access earlier, and never gets it back once a     *)
(* user has ended it.                                                      *)
(***************************************************************************)
EXTENDS Naturals

CONSTANTS
    Sessions,
    ValidFor     \* how long an approval lasts

NoAccess == 0

VARIABLES
    now,
    until,       \* when the access of a session ends, NoAccess if it has none
    revoked      \* sessions a user rejected, withdrew, dropped or canceled

cvars == <<now, until, revoked>>

CInit ==
    /\ now = 1
    /\ until = [n \in Sessions |-> NoAccess]
    /\ revoked = {}

Give(n) ==
    /\ n \notin revoked
    /\ until[n] = NoAccess
    /\ until' = [until EXCEPT ![n] = now + ValidFor]
    /\ UNCHANGED <<now, revoked>>

Lose(n) ==
    /\ until' = [until EXCEPT ![n] = NoAccess]
    /\ UNCHANGED <<now, revoked>>

Revoke(n) ==
    /\ until' = [until EXCEPT ![n] = NoAccess]
    /\ revoked' = revoked \cup {n}
    /\ UNCHANGED now

\* Access ends at its time at the latest.
Pass ==
    /\ now' = now + 1
    /\ until' \in [Sessions -> Nat]
    /\ \A n \in Sessions :
         until'[n] # NoAccess => until'[n] = until[n] /\ now' < until'[n]
    /\ UNCHANGED revoked

CNext ==
    \/ \E n \in Sessions : Give(n) \/ Lose(n) \/ Revoke(n)
    \/ Pass

CSpec == CInit /\ [][CNext]_cvars

----------------------------------------------------------------------------

\* Access is never longer than an approval lasts, and a session that a user has
\* ended has none (GrantsAccess, the handlers that end sessions).
Promise ==
    \A n \in Sessions :
        /\ until[n] # NoAccess => now < until[n] /\ until[n] <= now + ValidFor
        /\ n \in revoked => until[n] = NoAccess
=============================================================================
