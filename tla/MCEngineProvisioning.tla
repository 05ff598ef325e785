------------------------ MODULE MCEngineProvisioning ------------------------
(* EngineProvisioning for TLC.                                             *)
EXTENDS EngineProvisioning

CONSTANTS s1, s2, s3, n1, n2, p1, p2, p3

\* Specs, nodes and ports are interchangeable.
Symmetric == Permutations(Specs) \cup Permutations(Nodes) \cup Permutations(Ports)
=============================================================================
