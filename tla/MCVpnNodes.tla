----------------------------- MODULE MCVpnNodes -----------------------------
(* VpnNodes on small instances.                                             *)
EXTENDS VpnNodes, TLC

CONSTANTS n1, n2, n3, k1, k2

NoPorts     == [c \in Creds |-> {}]
SharedPorts == [c \in Creds |-> Ports]
OwnPorts    == (k1 :> {1}) @@ (k2 :> {2})

Symmetric == Permutations(Names)
=============================================================================
