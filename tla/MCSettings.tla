----------------------------- MODULE MCSettings -----------------------------
(* Settings on small instances: requests with one payload for each way the   *)
(* store and the live config treat a value.                                 *)
EXTENDS Settings, TLC

CONSTANTS h1, h2, k1, k2, k3, e1, e2

Payload(cat, set, creds) == [cat |-> cat, set |-> set, creds |-> creds, apply |-> TRUE]

Timeout(v)   == Payload("proxy_settings", [upstream_read_timeout |-> v], Absent)
Proxy(v, m)  == Payload("proxy_settings", [proxy_prebuffer_seconds |-> v, stream_mode |-> m], Absent)
Replicas(v)  == Payload("engine_settings", [min_replicas |-> v], Absent)
Buffer(v)    == Payload("engine_config", [buffer_time |-> v], Absent)
Network(v)   == Payload("orchestrator_settings", [docker_network |-> v], Absent)
Vpn(v, list) == Payload("vpn_settings", [enabled |-> v, api_port |-> 9000], list)
Port(v)      == Payload("vpn_settings", [api_port |-> v], Absent)

\* A request for one category, an import, an update of all settings, and the
\* credentials, one of them without an id, through both servers.
AllRequests ==
    [all |-> {{Network(0), Vpn(1, {k1, k3})}}, import |-> {{Buffer(5), Timeout(0)}},
     category |-> {Proxy(90, 3)}, orchAll |-> {{Replicas(0)}}, orchCategory |-> {Buffer(20)},
     add |-> {k2}, delete |-> {k1}]

NoRequests == [all |-> {}, import |-> {}, category |-> {}, orchAll |-> {}, orchCategory |-> {},
         add |-> {}, delete |-> {}]

ZeroTimeout   == [NoRequests EXCEPT !.category = {Timeout(0), Timeout(20)}]
NoName        == [NoRequests EXCEPT !.category = {Vpn(1, {k1, k3})}]
OneCredential == [NoRequests EXCEPT !.category = {Vpn(1, Absent)}, !.add = {k1}, !.delete = {k1}]

\* Payloads of which the store and the config take different things.
StrayKey   == [NoRequests EXCEPT !.category = {Payload("engine_settings", [buffer_time |-> 20], Absent)}]
TruthyFlag == [NoRequests EXCEPT !.category = {Vpn(2, Absent)}]
PortZero   == [NoRequests EXCEPT !.category = {Port(0)}]
ModeCase   == [NoRequests EXCEPT !.category = {Proxy(6, 2)}]
Fraction   == [NoRequests EXCEPT !.category = {Proxy(5, 1)}]
NullList   == [NoRequests EXCEPT !.category = {Vpn(1, {k1}), Vpn(1, Null)}]

Symmetric == Permutations(Handlers)
=============================================================================
