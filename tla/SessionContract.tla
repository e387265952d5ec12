--------------------------- MODULE SessionContract ---------------------------
(***************************************************************************)
(* SessionLifecycle keeps the contract about access: a session has access  *)
(* while the webhook would authorize for it, until its ExpiresAt.          *)
(***************************************************************************)
EXTENDS SessionLifecycle

\* The refinement mapping.
Until == [n \in Names |-> IF Grants(n) THEN status[n].expiresAt ELSE 0]

Contract == INSTANCE AccessContract WITH Sessions <- Names, until <- Until

\* Every step of the handlers, of the cleanup routine and of the clock, with the
\* stale copies they write, is a step of the contract or changes no access: only
\* the write of an approval gives access, for maxValidFor, to a session that has
\* none and that no user has ended; nothing else gives, prolongs or revives it.
KeepsContract == Contract!CSpec
==============================================================================
