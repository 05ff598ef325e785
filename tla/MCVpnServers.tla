---------------------------- MODULE MCVpnServers ----------------------------
(* VpnServers on small instances: two servers of the provider the nodes use  *)
(* and one of Proton.                                                       *)
EXTENDS VpnServers, TLC

CONSTANTS s1, s2, s3, n1, n2

TwoAndOne  == (s1 :> "mullvad") @@ (s2 :> "mullvad") @@ (s3 :> "protonvpn")
Downloads  == {[mullvad |-> {s1, s2}], [mullvad |-> {s2}, protonvpn |-> {s3}]}
Sidecar    == {{s3}}
Symmetric  == Permutations(Nodes)

\* The clock and quarantine run with one node, until it has its candidates, and
\* one version of the file; two nodes with one version, no pins, no refresh under
\* way and a last sync that got through its sources; a second version with one
\* node and no pins.
Bounded ==
    LET busy  == {n \in Nodes : node[n].pc # "none"}
        timed == now > 0 \/ \E s \in Servers : until[s] > 0
    IN  /\ timed => \A n \in busy : node[n].pc \in {"query", "stat"}
        /\ Cardinality(busy) > 1 =>
              /\ ~timed /\ pinned = {} /\ resolved = {}
              /\ file.ver < MaxVersion /\ refresh.pc = "idle"
              /\ imported # None => imported.marked = {Source(s) : s \in imported.seen}
        /\ file.ver = MaxVersion => ~timed /\ pinned = {}

\* Provisions one after the other.
OneAtATime == Cardinality({n \in Nodes : node[n].pc \notin {"none", "up"}}) <= 1
=============================================================================
