--------------------------- MODULE MCStatusUpdater ---------------------------
(***************************************************************************)
(* Two escalations, the second with a group of the first; one account has  *)
(* no name at all.                                                         *)
(***************************************************************************)
EXTENDS StatusUpdater

MCIdentityOf == [a \in Accounts |-> IF a = "nameless" THEN Blank ELSE a]

MCFirstGroups == [e \in Escalations |-> IF e = 1 THEN {"g1", "g2"} ELSE {"g1"}]

MCFirstMembers == [g \in Groups |-> IF g = "g1" THEN {"alice"} ELSE Unknown]
==============================================================================
