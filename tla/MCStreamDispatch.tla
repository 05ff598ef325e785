-------------------------- MODULE MCStreamDispatch --------------------------
(* StreamDispatch on small instances.                                       *)
EXTENDS StreamDispatch, TLC

CONSTANTS e1, e2, c1, c2, r1, r2, r3, m1, m2, m3

TwoVpns == [e \in Engines |-> e]
OneVpn  == [e \in Engines |-> "vpn"]

Symmetric == Permutations(Requests) \cup Permutations(Managers)
=============================================================================
