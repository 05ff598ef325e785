--------------------------- MODULE SettingsFields ---------------------------
(* Settings that persistence/settings.go stores and config/config.go applies: *)
(*   upstream_read_timeout     a number whose zero stands for the default     *)
(*   proxy_prebuffer_seconds   a range; stored with its fraction and used     *)
(*                             without it (counted in halves of a second)     *)
(*   stream_mode               one of several names: 0 "TS", 1 "HLS", 2 "hls" *)
(*                             in another case, 3 some other name             *)
(*   min_replicas              a number that is taken as it is                *)
(*   buffer_time               a number with a floor                          *)
(*   docker_network            a name, empty (0) or not (1); an empty one is  *)
(*                             replaced by the detected one (2) at startup    *)
(*   enabled                   a flag; 2 is a true value that is no boolean   *)
(*   api_port                  a number that is stored as it is and used only *)
(*                             when it is positive                            *)
(* Left out are numbers written as strings, lists of names, and fractions of  *)
(* a timeout, which the store cuts off and the live config keeps.             *)
EXTENDS Integers

CatOf == [ upstream_read_timeout   |-> "proxy_settings",
           proxy_prebuffer_seconds |-> "proxy_settings",
           stream_mode             |-> "proxy_settings",
           min_replicas            |-> "engine_settings",
           buffer_time             |-> "engine_config",
           docker_network          |-> "orchestrator_settings",
           enabled                 |-> "vpn_settings",
           api_port                |-> "vpn_settings" ]

Fields      == DOMAIN CatOf
Categories  == {CatOf[f] : f \in Fields}
FieldsOf(c) == {f \in Fields : CatOf[f] = c}

\* defaultCategories: what ensureRow writes and loadCache starts from.
Default == [ upstream_read_timeout |-> 90,  proxy_prebuffer_seconds |-> 6,
             stream_mode           |-> 0,   min_replicas            |-> 2,
             buffer_time           |-> 30,  docker_network          |-> 0,
             enabled               |-> 0,   api_port                |-> 8001 ]

\* Mutant: the prebuffer is not clamped from above.
normalizeProxySettingsUnclamped(m) ==
    [m EXCEPT !.upstream_read_timeout = IF @ = 0 THEN 90 ELSE @,
              !.proxy_prebuffer_seconds = IF @ < 0 THEN 0 ELSE @,
              !.stream_mode = IF @ \in {0, 1} THEN @ ELSE 0]

\* normalizeProxySettings: a timeout of 0 becomes the working value, the
\* prebuffer is clamped to 30 seconds, an unknown mode becomes "TS".
normalizeProxySettings(m) ==
    [m EXCEPT !.upstream_read_timeout = IF @ = 0 THEN 90 ELSE @,
              !.proxy_prebuffer_seconds = IF @ < 0 THEN 0 ELSE IF @ > 60 THEN 60 ELSE @,
              !.stream_mode = IF @ \in {0, 1} THEN @ ELSE 0]

\* normalizeEngineConfig: a buffer below 10 seconds becomes 30.
normalizeEngineConfig(m) == [m EXCEPT !.buffer_time = IF @ < 10 THEN 30 ELSE @]

\* normalizeVPNSettings: every truthy value of a flag is stored as true.  A port
\* is stored whatever it is.
normalizeVPNSettings(m) == [m EXCEPT !.enabled = IF @ = 0 THEN 0 ELSE 1]

\* normalizeEngineSettings and normalizeOrchestratorSettings drop the keys that
\* belong to another category or to nobody.
Kept(c, set) == FieldsOf(c) \cap DOMAIN set

Normalized(m) == normalizeProxySettings(normalizeEngineConfig(normalizeVPNSettings(m)))

\* The categories after the payload's keys have been merged into one of them.
\* (A normalizer changes nothing in what has been normalized before.)
Merge(m, c, set) == Normalized([f \in Fields |-> IF f \in Kept(c, set) THEN set[f] ELSE m[f]])

\* loadCache: a stored zero does not override a positive default.
Reload(m) == [f \in Fields |-> IF m[f] = 0 /\ Default[f] > 0 THEN Default[f] ELSE m[f]]

\* toInt: whole seconds, towards zero.
toInt(v) == IF v < 0 THEN v + ((-v) % 2) ELSE v - (v % 2)

\* What the live config makes of a value: it is not normalized, but seconds lose
\* their fraction and names of modes their case, a flag is taken only from a
\* JSON boolean, and a port only if it is positive.
TakenValue(f, v, old) ==
    CASE f = "proxy_prebuffer_seconds" -> toInt(v)
      [] f = "stream_mode"             -> IF v = 2 THEN 1 ELSE v
      [] f = "enabled"                 -> IF v \in {0, 1} THEN v ELSE old
      [] f = "api_port"                -> IF v > 0 THEN v ELSE old
      [] OTHER                         -> v

\* The live config with some keys of a payload.
Taken(live, set, keys) ==
    [f \in Fields |-> IF f \in keys \cap DOMAIN set THEN TakenValue(f, set[f], live[f]) ELSE live[f]]

ApplySettings(live, set) == Taken(live, set, FieldsOf("proxy_settings"))

\* ApplyEngineSettings also takes the keys of engine_config.
ApplyEngineSettings(live, set) ==
    Taken(live, set, FieldsOf("engine_settings") \cup FieldsOf("engine_config"))

ApplyOrchestratorSettings(live, set) == Taken(live, set, FieldsOf("orchestrator_settings"))

ApplyEngineConfig(live, set) == Taken(live, set, FieldsOf("engine_config"))

ApplyVPNSettings(live, set) == Taken(live, set, FieldsOf("vpn_settings"))

\* The function that a handler calls for a category.
Apply(live, c, set) ==
    CASE c = "proxy_settings"        -> ApplySettings(live, set)
      [] c = "engine_settings"       -> ApplyEngineSettings(live, set)
      [] c = "orchestrator_settings" -> ApplyOrchestratorSettings(live, set)
      [] c = "engine_config"         -> ApplyEngineConfig(live, set)
      [] c = "vpn_settings"          -> ApplyVPNSettings(live, set)
=============================================================================
