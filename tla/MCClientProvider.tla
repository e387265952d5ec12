-------------------------- MODULE MCClientProvider --------------------------
(***************************************************************************)
(* Two namespaces, two names, two secrets and two callers.  At the start   *)
(* one name exists in the second namespace only, so that a change may put  *)
(* another object of that name in front of it; either secret may come to   *)
(* serve both names.                                                       *)
(***************************************************************************)
EXTENDS ClientProvider, TLC

MCNamespaces == {1, 2}

MCKubeconfigs == {[host |-> "loopback", credential |-> "old"],
                  [host |-> "remote", credential |-> "new"]}

MCFirstConfigs ==
    [k \in Slots |-> CASE k = <<2, "n1">> -> [secret |-> "s1", limits |-> "low"]
                       [] k = <<1, "n2">> -> [secret |-> "s2", limits |-> "low"]
                       [] OTHER -> None]

MCFirstSecrets ==
    [s \in Secrets |-> [host |-> "loopback", credential |-> "old"]]

Symmetric == Permutations(Callers)
============================================================================
