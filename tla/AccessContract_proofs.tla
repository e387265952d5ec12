------------------------ MODULE AccessContract_proofs ------------------------
(***************************************************************************)
(* What AccessContract promises a reader who only knows its steps.         *)
(***************************************************************************)
EXTENDS AccessContract, TLAPS

CTypeOK == now \in Nat /\ until \in [Sessions -> Nat]

\* Whoever follows the contract keeps the promise: access lasts no longer than
\* an approval and a session that a user has ended has none.
THEOREM PromiseKept ==
    ASSUME ValidFor \in Nat \ {0}
    PROVE  CSpec => []Promise
<1> USE DEF NoAccess
<1>1. CInit => CTypeOK /\ Promise
  BY DEF CInit, CTypeOK, Promise
<1>2. CTypeOK /\ Promise /\ [CNext]_cvars => CTypeOK' /\ Promise'
  <2> SUFFICES ASSUME CTypeOK, Promise, [CNext]_cvars
               PROVE  CTypeOK' /\ Promise'
    OBVIOUS
  <2>1. ASSUME NEW n \in Sessions, Give(n)
        PROVE  CTypeOK' /\ Promise'
    BY <2>1 DEF Give, CTypeOK, Promise
  <2>2. ASSUME NEW n \in Sessions, Lose(n) \/ Revoke(n)
        PROVE  CTypeOK' /\ Promise'
    BY <2>2 DEF Lose, Revoke, CTypeOK, Promise
  <2>3. CASE Pass
    BY <2>3 DEF Pass, CTypeOK, Promise
  <2>4. CASE UNCHANGED cvars
    BY <2>4 DEF cvars, CTypeOK, Promise
  <2> QED
    BY <2>1, <2>2, <2>3, <2>4 DEF CNext
<1> QED
  BY <1>1, <1>2, PTL DEF CSpec
==============================================================================
