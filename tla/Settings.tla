------------------------------ MODULE Settings ------------------------------
(* The settings store (persistence/settings.go), the live config            *)
(* (config/config.go), the handlers that change them                        *)
(* (api/management.go, api/orchestrator.go), the push of engine settings     *)
(* (controlplane/engine/settings_push.go) and the startup that loads them    *)
(* (cmd/main.go).                                                           *)
(*                                                                          *)
(* A handler works through a list of payloads.  For each one it calls Save,  *)
(* which holds the store's mutex from the merge to the update of the cache   *)
(* and writes to the database in up to two transactions; then it applies the *)
(* payload to the live config, which it reads and stores in two steps, and   *)
(* configures the credential manager.  The process may die between any two   *)
(* steps.                                                                   *)
EXTENDS SettingsFields, Sequences, FiniteSets

CONSTANTS
    Handlers,      \* request goroutines
    Creds,         \* VPN credentials: the objects of a list
    Nameless,      \* those without an id
    Engines,       \* healthy managed engines
    Requests,      \* what clients may send to each kind of handler
    MaxEvents,     \* bound: requests and crashes per behaviour
    Faults,        \* subset of {"rowFails", "credsFail", "pushFails"}
    Absent, Null   \* a payload without "credentials"; "credentials": null

CredLists == (SUBSET Creds) \cup {Null}

Payloads == (UNION (Requests.all \cup Requests.import \cup Requests.orchAll))
            \cup Requests.category \cup Requests.orchCategory

\* What a JSON body may hold: some of the fields, of whatever category, and for
\* vpn_settings a list of credentials or null.
WellTyped(p) ==
    /\ p.cat \in Categories
    /\ DOMAIN p.set \subseteq Fields
    /\ \A f \in DOMAIN p.set : /\ p.set[f] \in Int
                               /\ f = "docker_network" => p.set[f] \in {0, 1}
                               /\ f = "stream_mode" => p.set[f] \in 0..3
    /\ p.creds = Absent \/ (p.cat = "vpn_settings" /\ p.creds \in CredLists)
    /\ p.apply

ASSUME RequestsAssumption ==
    /\ \A p \in Payloads : WellTyped(p)
    /\ \A body \in Requests.all \cup Requests.import \cup Requests.orchAll : IsFiniteSet(body)
    /\ Requests.add \subseteq Creds /\ Nameless \subseteq Creds
    /\ Null # Absent /\ \A S \in SUBSET Creds : S # Null /\ S # Absent
    /\ Null \notin Handlers

VARIABLES
    row,           \* runtime_settings: the five JSON columns
    table,         \* vpn_credentials
    cache,         \* SettingsStore.cache
    cachedCreds,   \* cache["vpn_settings"]["credentials"]: a set of ids or Null
    lock,          \* SettingsStore.mu: the handler that holds it, or Null
    live,          \* config.C
    pool,          \* CredentialManager: the ids it was configured with
    handler,       \* what each handler is doing
    pushes,        \* PushEngineConfig goroutines: [no, val, left]
    engine,        \* the live buffer of each engine
    up,            \* the process is running
    since,         \* what has happened since the last start (Events)
    events         \* requests and crashes so far

store   == <<row, table, cache, cachedCreds, lock>>
runtime == <<live, pool, pushes, engine>>
vars    == <<store, runtime, handler, up, since, events>>

(* since records the events after which the copies of the settings need not  *)
(* agree: two handlers or two pushes were active at once; Save has warned     *)
(* that the credentials could not be written; a push has failed; a handler    *)
(* of the orchestrator API, which knows neither the credential manager nor    *)
(* the engines, has changed the credentials or the engine config.             *)
Events == {"overlap", "credsFail", "pushFails", "unaware"}

Idle == [pc |-> "idle", surface |-> "mg", todo |-> <<>>, no |-> 0,
         merged |-> Default, creds |-> Null, old |-> Default]

AsSet(list) == IF list = Null THEN {} ELSE list

Active     == {h \in Handlers : handler[h].pc # "idle"}
Current(h) == Head(handler[h].todo)

\* The handler is done with its payload and takes the next one.
Advance(h) ==
    LET me == handler[h]
    IN  handler' = [handler EXCEPT ![h] =
            IF Len(me.todo) = 1 THEN Idle
            ELSE [Idle EXCEPT !.pc = "lock", !.surface = me.surface, !.no = me.no, !.todo = Tail(me.todo)]]
-----------------------------------------------------------------------------
\* A request comes in: the payloads that its handler will work through.
Accept(h, surface, payloads) ==
    /\ up
    /\ payloads # <<>>
    /\ handler[h].pc = "idle"
    /\ events < MaxEvents
    /\ events' = events + 1
    /\ handler' = [handler EXCEPT ![h] = [Idle EXCEPT !.pc = "lock", !.surface = surface,
                                                      !.todo = payloads, !.no = events + 1]]
    /\ since' = IF Active # {} THEN since \cup {"overlap"} ELSE since
    /\ UNCHANGED <<store, runtime, up>>

\* An update of all settings takes the categories in the order of a Go map.
Orders(body) == {t \in [1 .. Cardinality(body) -> body] : {t[i] : i \in DOMAIN t} = body}

mgHandleUpdateAllSettings(h) ==
    \E body \in Requests.all : \E t \in Orders(body) : Accept(h, "mg", t)

\* An import takes what it wants from the archive in a fixed order.
ImportOrder == [engine_config |-> 1, proxy_settings |-> 2, engine_settings |-> 3]

mgHandleImportSettings(h) ==
    \E body \in Requests.import :
        \E t \in Orders({p \in body : p.cat \in DOMAIN ImportOrder}) :
            /\ \A i, j \in DOMAIN t : i < j => ImportOrder[t[i].cat] < ImportOrder[t[j].cat]
            /\ Accept(h, "mg", t)

mgHandleSetSettingsCategory(h) == \E p \in Requests.category : Accept(h, "mg", <<p>>)

mgHandleSetProxyConfig(h) ==
    \E p \in {p \in Requests.category : p.cat = "proxy_settings"} : Accept(h, "mg", <<p>>)

\* The same settings through the orchestrator API.
handleUpdateSettings(h) ==
    \E body \in Requests.orchAll : \E t \in Orders(body) : Accept(h, "orch", t)

handleUpdateSettingsCategory(h) == \E p \in Requests.orchCategory : Accept(h, "orch", <<p>>)

\* The credential handlers read the whole category ...
VpnPayload(creds) ==
    [cat |-> "vpn_settings", set |-> [f \in FieldsOf("vpn_settings") |-> cache[f]],
     creds |-> creds, apply |-> FALSE]

\* ... and append to its list,
mgHandleAddVPNCredential(h) ==
    \E k \in Requests.add :
        lock = Null /\ Accept(h, "mg", <<VpnPayload(AsSet(cachedCreds) \cup {k})>>)

handleAddVPNCredential(h) ==
    \E k \in Requests.add :
        lock = Null /\ Accept(h, "orch", <<VpnPayload(AsSet(cachedCreds) \cup {k})>>)

\* or filter it, if it has a credential with that id.  What is left of a list of one is a
\* nil slice: JSON null.
Without(k) == IF cachedCreds = {k} THEN Null ELSE cachedCreds \ {k}

mgHandleDeleteVPNCredential(h) ==
    \E k \in (Requests.delete \cap AsSet(cachedCreds)) \ Nameless :
        lock = Null /\ Accept(h, "mg", <<VpnPayload(Without(k))>>)

handleDeleteVPNCredential(h) ==
    \E k \in (Requests.delete \cap AsSet(cachedCreds)) \ Nameless :
        lock = Null /\ Accept(h, "orch", <<VpnPayload(Without(k))>>)
-----------------------------------------------------------------------------
(* SettingsStore.Save *)

\* Mutant: the copy of the cache is taken before the mutex.
SaveMergeUnlocked(h) ==
    /\ handler[h].pc = "lock"
    /\ lock' = h
    /\ handler' = [handler EXCEPT ![h].pc = "row",
           ![h].merged = Merge(cache, Current(h).cat, Current(h).set),
           ![h].creds = IF Current(h).creds = Absent THEN cachedCreds ELSE Current(h).creds]
    /\ UNCHANGED <<row, table, cache, cachedCreds, runtime, up, since, events>>

\* Under the mutex, the payload is merged into a copy of the cache.
SaveMerge(h) ==
    /\ handler[h].pc = "lock"
    /\ lock = Null
    /\ lock' = h
    /\ handler' = [handler EXCEPT ![h].pc = "row",
           ![h].merged = Merge(cache, Current(h).cat, Current(h).set),
           ![h].creds = IF Current(h).creds = Absent THEN cachedCreds ELSE Current(h).creds]
    /\ UNCHANGED <<row, table, cache, cachedCreds, runtime, up, since, events>>

\* Mutant: a row that could not be written is only logged, like the credentials.
SaveRowUnchecked(h) ==
    /\ handler[h].pc = "row"
    /\ \/ row' = [f \in Fields |-> IF CatOf[f] = Current(h).cat THEN handler[h].merged[f] ELSE row[f]]
       \/ "rowFails" \in Faults /\ UNCHANGED row
    /\ handler' = [handler EXCEPT ![h].pc =
          IF Current(h).cat = "vpn_settings" /\ handler[h].creds # Null THEN "creds" ELSE "cache"]
    /\ UNCHANGED <<lock, table, cache, cachedCreds, runtime, up, since, events>>

\* The row is updated, or Save returns the error and nothing has changed.
\* Credentials are written only for a list, not for null.
SaveRow(h) ==
    /\ handler[h].pc = "row"
    /\ \/ /\ row' = [f \in Fields |-> IF CatOf[f] = Current(h).cat THEN handler[h].merged[f] ELSE row[f]]
          /\ handler' = [handler EXCEPT ![h].pc =
                IF Current(h).cat = "vpn_settings" /\ handler[h].creds # Null THEN "creds" ELSE "cache"]
          /\ UNCHANGED lock
       \/ /\ "rowFails" \in Faults
          /\ lock' = Null
          /\ Advance(h)
          /\ UNCHANGED row
    /\ UNCHANGED <<table, cache, cachedCreds, runtime, up, since, events>>

\* One transaction replaces the table; its failure is only logged.  Credentials
\* without an id are skipped, and nobody is told.
SaveCredentials(h) ==
    /\ handler[h].pc = "creds"
    /\ handler' = [handler EXCEPT ![h].pc = "cache"]
    /\ \/ /\ table' = handler[h].creds \ Nameless
          /\ UNCHANGED since
       \/ /\ "credsFail" \in Faults
          /\ since' = since \cup {"credsFail"}
          /\ UNCHANGED table
    /\ UNCHANGED <<row, cache, cachedCreds, lock, runtime, up, events>>

\* The cache takes the merged category and the mutex is released.
SaveCache(h) ==
    /\ handler[h].pc = "cache"
    /\ cache' = [f \in Fields |-> IF CatOf[f] = Current(h).cat THEN handler[h].merged[f] ELSE cache[f]]
    /\ cachedCreds' = IF Current(h).cat = "vpn_settings" THEN handler[h].creds ELSE cachedCreds
    /\ lock' = Null
    /\ handler' = [handler EXCEPT ![h].pc = IF Current(h).apply THEN "load" ELSE "configure",
                                   ![h].merged = Default, ![h].creds = Null]
    /\ UNCHANGED <<row, table, runtime, up, since, events>>
-----------------------------------------------------------------------------
(* The handlers after Save *)

\* config.Apply...: C.Load, a modified copy,
ApplyLoad(h) ==
    /\ handler[h].pc = "load"
    /\ handler' = [handler EXCEPT ![h].pc = "store", ![h].old = live]
    /\ UNCHANGED <<store, runtime, up, since, events>>

\* Mutant: the handler saves and applies engine_config without a push.
ApplyStoreNoPush(h) ==
    LET p == Current(h)
    IN  /\ handler[h].pc = "store"
        /\ live' = Apply(handler[h].old, p.cat, p.set)
        /\ pushes' = pushes
        /\ UNCHANGED since
        /\ IF p.creds \in {Absent, Null} THEN Advance(h)
           ELSE handler' = [handler EXCEPT ![h].pc = "configure"]
        /\ UNCHANGED <<store, pool, engine, up, events>>

\* C.Store.  A management handler that has saved engine_config starts a push.
ApplyStore(h) ==
    LET p    == Current(h)
        push == p.cat = "engine_config" /\ "buffer_time" \in DOMAIN p.set
    IN  /\ handler[h].pc = "store"
        /\ live' = Apply(handler[h].old, p.cat, p.set)
        /\ pushes' = IF push /\ handler[h].surface = "mg"
                     THEN pushes \cup {[no |-> handler[h].no, val |-> p.set["buffer_time"], left |-> Engines]}
                     ELSE pushes
        /\ since' = since \cup (IF pushes # {} /\ pushes' # pushes THEN {"overlap"} ELSE {})
                          \cup (IF push /\ handler[h].surface # "mg" THEN {"unaware"} ELSE {})
        /\ IF p.creds \in {Absent, Null} THEN Advance(h)
           ELSE handler' = [handler EXCEPT ![h].pc = "configure"]
        /\ UNCHANGED <<store, pool, engine, up, events>>

\* The credential manager takes the list of the payload.
Configure(h) ==
    /\ handler[h].pc = "configure"
    /\ IF handler[h].surface = "mg"
       THEN pool' = AsSet(Current(h).creds) /\ UNCHANGED since
       ELSE since' = since \cup {"unaware"} /\ UNCHANGED pool
    /\ Advance(h)
    /\ UNCHANGED <<store, live, pushes, engine, up, events>>

\* PushEngineConfig patches the engines one after the other.
PushOne(p, e) ==
    /\ e \in p.left
    /\ \/ engine' = [engine EXCEPT ![e] = p.val] /\ UNCHANGED since
       \/ /\ "pushFails" \in Faults
          /\ since' = since \cup {"pushFails"}
          /\ UNCHANGED engine
    /\ pushes' = (pushes \ {p}) \cup
           (IF p.left = {e} THEN {} ELSE {[p EXCEPT !.left = @ \ {e}]})
    /\ UNCHANGED <<store, live, pool, handler, up, events>>
-----------------------------------------------------------------------------
\* The process dies.  What it kept in memory is gone.
Crash ==
    /\ up
    /\ events < MaxEvents
    /\ events' = events + 1
    /\ up' = FALSE
    /\ lock' = Null
    /\ cache' = Default /\ cachedCreds' = Null
    /\ live' = Default /\ pool' = {}
    /\ handler' = [h \in Handlers |-> Idle]
    /\ pushes' = {}
    /\ since' = {}
    /\ UNCHANGED <<row, table, engine>>

\* loadCache
loadedCreds == IF table = {} THEN Null ELSE table

\* Mutant: startup leaves engine_config out.
StartPartial ==
    /\ ~up
    /\ up' = TRUE
    /\ cache' = Reload(row)
    /\ cachedCreds' = loadedCreds
    /\ \E network \in {0, 2} :
          live' = [Taken(live, cache', Fields \ FieldsOf("engine_config"))
                      EXCEPT !.docker_network = IF @ = 0 THEN network ELSE @]
    /\ pool' = AsSet(loadedCreds)
    /\ engine' = [e \in Engines |-> live'.buffer_time]
    /\ UNCHANGED <<row, table, lock, handler, pushes, since, events>>

\* NewSettingsStore loads the cache, every category is applied to the config of
\* the environment, an empty network name is replaced by the detected one (2),
\* the credential manager is configured.  The engines of the last process have
\* been removed, new ones start with the live config.
Start ==
    /\ ~up
    /\ up' = TRUE
    /\ cache' = Reload(row)
    /\ cachedCreds' = loadedCreds
    /\ \E network \in {0, 2} :
          live' = [Taken(live, cache', Fields) EXCEPT !.docker_network = IF @ = 0 THEN network ELSE @]
    /\ pool' = AsSet(loadedCreds)
    /\ engine' = [e \in Engines |-> live'.buffer_time]
    /\ UNCHANGED <<row, table, lock, handler, pushes, since, events>>

Init ==
    /\ row = Default /\ table = {}        \* ensureRow
    /\ cache = Default /\ cachedCreds = Null
    /\ lock = Null
    /\ live = Default /\ pool = {}
    /\ handler = [h \in Handlers |-> Idle]
    /\ pushes = {}
    /\ engine = [e \in Engines |-> Default.buffer_time]
    /\ up = FALSE
    /\ since = {}
    /\ events = 0

Save(h) == SaveMerge(h) \/ SaveRow(h) \/ SaveCredentials(h) \/ SaveCache(h)

Update(h) ==
    \/ mgHandleUpdateAllSettings(h) \/ mgHandleImportSettings(h)
    \/ mgHandleSetSettingsCategory(h) \/ mgHandleSetProxyConfig(h)
    \/ handleUpdateSettings(h) \/ handleUpdateSettingsCategory(h)

Credential(h) ==
    \/ mgHandleAddVPNCredential(h) \/ mgHandleDeleteVPNCredential(h)
    \/ handleAddVPNCredential(h) \/ handleDeleteVPNCredential(h)

Next ==
    \/ \E h \in Handlers :
          \/ Update(h) \/ Credential(h) \/ Save(h)
          \/ ApplyLoad(h) \/ ApplyStore(h) \/ Configure(h)
    \/ \E p \in pushes, e \in Engines : PushOne(p, e)
    \/ Crash \/ Start

Spec == Init /\ [][Next]_vars
-----------------------------------------------------------------------------
\* The stored settings keep the ranges that the normalizers promise, whatever
\* was merged, reloaded or imported; the rest has its type.
TypeOK ==
    /\ \A m \in {row, cache} : /\ m \in [Fields -> Int]
                               /\ m.upstream_read_timeout # 0
                               /\ m.proxy_prebuffer_seconds \in 0..60
                               /\ m.stream_mode \in {0, 1}
                               /\ m.buffer_time >= 10
                               /\ m.docker_network \in {0, 1} /\ m.enabled \in {0, 1}
    /\ live \in [Fields -> Int]
    /\ table \subseteq Creds /\ pool \subseteq Creds /\ cachedCreds \in CredLists
    /\ lock \in Handlers \cup {Null}
    /\ \A h \in Handlers : handler[h].pc \in
          {"idle", "lock", "row", "creds", "cache", "load", "store", "configure"}
    /\ engine \in [Engines -> Int]
    /\ since \subseteq Events

\* What Save has put into the cache is what a restart would load: the row, and
\* of a list of credentials, unless the warning was logged, exactly those that
\* have an id.  The others, and a list that was replaced by null, differ (see
\* CredentialsPersist).
CacheIsDurable ==
    up /\ lock = Null =>
        /\ Reload(cache) = Reload(row)
        /\ "credsFail" \notin since /\ cachedCreds # Null => table = cachedCreds \ Nameless

\* "Save ... persists it atomically to DB + cache" (settings.go:65): with no
\* Save under way and no warning logged, the table holds the cached list.
CredentialsPersist ==
    up /\ lock = Null /\ "credsFail" \notin since => table = AsSet(cachedCreds)

\* With requests that did not overlap, once they are answered the runtime
\* follows the store: every live field normalizes to the stored one (an empty
\* network name aside, which startup fills in), and the credential manager
\* has the stored credentials.
RuntimeFollowsStore ==
    up /\ Active = {} /\ "overlap" \notin since =>
        /\ \A f \in Fields : \/ Normalized(live)[f] = cache[f]
                             \/ f = "docker_network" /\ cache[f] = 0
        /\ "unaware" \notin since => pool = AsSet(cachedCreds)

\* When no push is under way, none has failed and none has overlapped another,
\* every engine has the buffer that the live config has.
EnginesFollowConfig ==
    up /\ Active = {} /\ pushes = {} /\ since \cap {"overlap", "pushFails", "unaware"} = {} =>
        \A e \in Engines : engine[e] = live.buffer_time

\* "so a UI save of 0 (field not rendered) can't override the working default"
\* (settings.go): no timeout that the runtime uses is zero.
ZeroNeverWorks == live.upstream_read_timeout > 0

\* What a credential handler may have read from the cache: the default port, or
\* one that a request has brought.
Given(f) == {Default[f]} \cup {p.set[f] : p \in {q \in Payloads : f \in DOMAIN q.set}}

OwnSets == {set \in [FieldsOf("vpn_settings") -> {0, 1} \cup Given("api_port")] :
               set["enabled"] \in {0, 1} /\ set["api_port"] \in Given("api_port")}

\* The durable settings change by whole Saves, one after the other, each on the
\* result of the one before it, and never by a failed Save or a crash.
Register == INSTANCE SettingsRegister WITH
    value  <- Reload(row),
    Writes <- {[cat |-> p.cat, set |-> p.set] : p \in Payloads}
              \cup [cat : {"vpn_settings"}, set : OwnSets]

StoreIsRegister == Register!Spec
=============================================================================
