------------------------ MODULE MCSessionLifecycle ------------------------
(***************************************************************************)
(* Small instances of SessionLifecycle: one triple, its owner and one      *)
(* approver.                                                               *)
(***************************************************************************)
EXTENDS SessionContract, TLC

CONSTANTS k1, alice, bob, r1, r2, d1, d2

MCKeyOf == [n \in Names |-> k1]
MCOwnerOf == [k \in Keys |-> alice]
MCApproversOf == [k \in Keys |-> {bob}]

HandlerSymmetry == Permutations(Requesters) \cup Permutations(Deciders)
===========================================================================
