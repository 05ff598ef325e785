--------------------------- MODULE SettingsProofs ---------------------------
(* Proofs about Settings, for any number of handlers, engines, credentials   *)
(* and requests: what is stored keeps its ranges, the cache is what a        *)
(* restart would load, the store implements SettingsRegister, and the        *)
(* runtime follows the store.                                               *)
EXTENDS Settings, FiniteSetTheorems, SequenceTheorems, TLAPS

USE RequestsAssumption DEF store, runtime

-----------------------------------------------------------------------------
(* The operators on settings, field by field.                               *)

\* What the normalizers make of the value of a field, and what loadCache does.
NormVal(f, v) ==
    CASE f = "upstream_read_timeout"   -> IF v = 0 THEN 90 ELSE v
      [] f = "proxy_prebuffer_seconds" -> IF v < 0 THEN 0 ELSE IF v > 60 THEN 60 ELSE v
      [] f = "stream_mode"             -> IF v \in {0, 1} THEN v ELSE 0
      [] f = "buffer_time"             -> IF v < 10 THEN 30 ELSE v
      [] f = "enabled"                 -> IF v = 0 THEN 0 ELSE 1
      [] OTHER                         -> v

ReloadVal(f, v) == IF v = 0 /\ Default[f] > 0 THEN Default[f] ELSE v

\* The eight fields.
LEMMA FieldsAre ==
    Fields = {"upstream_read_timeout", "proxy_prebuffer_seconds", "stream_mode", "min_replicas",
              "buffer_time", "docker_network", "enabled", "api_port"}
BY DEF Fields, CatOf

\* The defaults are integers.
LEMMA DefaultType == Default \in [Fields -> Int]
BY FieldsAre DEF Default

\* The normalizers work on each field by itself.
LEMMA NormalizedPointwise ==
    ASSUME NEW m \in [Fields -> Int]
    PROVE  /\ Normalized(m) \in [Fields -> Int]
           /\ \A f \in Fields : Normalized(m)[f] = NormVal(f, m[f])
<1> DEFINE v == normalizeVPNSettings(m)
           c == normalizeEngineConfig(v)
<1>1. /\ v \in [Fields -> Int]
      /\ \A f \in Fields : v[f] = IF f = "enabled" THEN NormVal(f, m[f]) ELSE m[f]
    BY FieldsAre DEF normalizeVPNSettings, NormVal
<1> HIDE DEF v
<1>2. /\ c \in [Fields -> Int]
      /\ \A f \in Fields : c[f] = IF f \in {"enabled", "buffer_time"} THEN NormVal(f, m[f]) ELSE m[f]
    BY <1>1, FieldsAre DEF normalizeEngineConfig, NormVal
<1> HIDE DEF c
<1> DEFINE t == IF c["upstream_read_timeout"] = 0 THEN 90 ELSE c["upstream_read_timeout"]
           b == IF c["proxy_prebuffer_seconds"] < 0 THEN 0
                ELSE IF c["proxy_prebuffer_seconds"] > 60 THEN 60 ELSE c["proxy_prebuffer_seconds"]
           s == IF c["stream_mode"] \in {0, 1} THEN c["stream_mode"] ELSE 0
           u == [c EXCEPT !.upstream_read_timeout = t]
           w == [u EXCEPT !.proxy_prebuffer_seconds = b]
           n == [w EXCEPT !.stream_mode = s]
<1>3. /\ t \in Int /\ t = NormVal("upstream_read_timeout", m["upstream_read_timeout"])
      /\ b \in Int /\ b = NormVal("proxy_prebuffer_seconds", m["proxy_prebuffer_seconds"])
      /\ s \in Int /\ s = NormVal("stream_mode", m["stream_mode"])
    BY <1>2, FieldsAre DEF NormVal
<1>4. normalizeProxySettings(c) = n
    BY <1>2, FieldsAre DEF normalizeProxySettings
<1> HIDE DEF t, b, s
<1>5. /\ u \in [Fields -> Int]
      /\ \A f \in Fields : u[f] = IF f = "upstream_read_timeout" THEN t ELSE c[f]
    BY <1>2, <1>3, FieldsAre
<1> HIDE DEF u
<1>6. /\ w \in [Fields -> Int]
      /\ \A f \in Fields : w[f] = IF f = "proxy_prebuffer_seconds" THEN b ELSE u[f]
    BY <1>3, <1>5, FieldsAre
<1> HIDE DEF w
<1>7. /\ n \in [Fields -> Int]
      /\ \A f \in Fields : n[f] = IF f = "stream_mode" THEN s ELSE w[f]
    BY <1>3, <1>6, FieldsAre
<1> HIDE DEF n
<1>8. ASSUME NEW f \in Fields PROVE n[f] = NormVal(f, m[f])
    <2>1. CASE f = "upstream_read_timeout"
        BY <2>1, <1>3, <1>5, <1>6, <1>7
    <2>2. CASE f = "proxy_prebuffer_seconds"
        BY <2>2, <1>3, <1>6, <1>7
    <2>3. CASE f = "stream_mode"
        BY <2>3, <1>3, <1>7
    <2>4. CASE f \in {"enabled", "buffer_time"}
        BY <2>4, <1>2, <1>5, <1>6, <1>7
    <2>5. CASE f \in {"min_replicas", "docker_network", "api_port"}
        BY <2>5, <1>2, <1>5, <1>6, <1>7 DEF NormVal
    <2> QED
        BY <2>1, <2>2, <2>3, <2>4, <2>5, FieldsAre
<1> QED
    BY <1>4, <1>7, <1>8 DEF Normalized, c, v

\* The normalizers and loadCache do nothing the second time, and loadCache leaves
\* normalized what was normalized.
LEMMA ValuesSettle ==
    ASSUME NEW f \in Fields, NEW v \in Int
    PROVE  /\ NormVal(f, v) \in Int /\ NormVal(f, NormVal(f, v)) = NormVal(f, v)
           /\ ReloadVal(f, v) \in Int /\ ReloadVal(f, ReloadVal(f, v)) = ReloadVal(f, v)
           /\ NormVal(f, v) = v => NormVal(f, ReloadVal(f, v)) = ReloadVal(f, v)
BY FieldsAre DEF NormVal, ReloadVal, Default

\* loadCache and the merge, field by field.
LEMMA ReloadPointwise ==
    ASSUME NEW m \in [Fields -> Int]
    PROVE  /\ Reload(m) \in [Fields -> Int]
           /\ \A f \in Fields : Reload(m)[f] = ReloadVal(f, m[f])
BY DefaultType DEF Reload, ReloadVal

\* The keys that a payload sets are integers of the fields.
SetType(set) == DOMAIN set \subseteq Fields /\ \A f \in DOMAIN set : set[f] \in Int

LEMMA MergePointwise ==
    ASSUME NEW m \in [Fields -> Int], NEW c, NEW set, SetType(set)
    PROVE  /\ Merge(m, c, set) \in [Fields -> Int]
           /\ \A f \in Fields :
                 Merge(m, c, set)[f] = NormVal(f, IF f \in Kept(c, set) THEN set[f] ELSE m[f])
<1> DEFINE w == [f \in Fields |-> IF f \in Kept(c, set) THEN set[f] ELSE m[f]]
<1>1. w \in [Fields -> Int]
    BY DEF SetType, Kept
<1>2. \A f \in Fields : w[f] = IF f \in Kept(c, set) THEN set[f] ELSE m[f]
    OBVIOUS
<1> HIDE DEF w
<1>3. /\ Normalized(w) \in [Fields -> Int]
      /\ \A f \in Fields : Normalized(w)[f] = NormVal(f, w[f])
    BY <1>1, NormalizedPointwise
<1>4. Merge(m, c, set) = Normalized(w)
    BY DEF Merge, w
<1> QED
    BY <1>2, <1>3, <1>4

\* Settings that the normalizers would not change.
Normal(m) == m \in [Fields -> Int] /\ \A f \in Fields : NormVal(f, m[f]) = m[f]

LEMMA DefaultNormal == Normal(Default)
BY FieldsAre DEF Normal, NormVal, Default

LEMMA ReloadNormal == ASSUME NEW m, Normal(m) PROVE Normal(Reload(m))
BY ReloadPointwise, ValuesSettle DEF Normal

LEMMA MergeNormal ==
    ASSUME NEW m \in [Fields -> Int], NEW c, NEW set, SetType(set)
    PROVE  Normal(Merge(m, c, set))
<1>1. \A f \in Fields : (IF f \in Kept(c, set) THEN set[f] ELSE m[f]) \in Int
    BY DEF SetType, Kept
<1> QED
    BY <1>1, MergePointwise, ValuesSettle DEF Normal
-----------------------------------------------------------------------------
(* Types and the discipline of the mutex.                                   *)

\* What the normalizers make of the default and of what requests have brought.
From(f) == {NormVal(f, v) : v \in Given(f)}

\* Settings as they may be stored, and the payloads that a handler may have.
Stored(m) ==
    /\ Normal(m)
    /\ m["docker_network"] \in {0, 1}
    /\ m["api_port"] \in From("api_port")
    /\ m["proxy_prebuffer_seconds"] \in From("proxy_prebuffer_seconds")

OwnPayloads == [cat : {"vpn_settings"}, set : OwnSets,
                creds : CredLists, apply : {FALSE}]
Allowed     == Payloads \cup OwnPayloads

PayloadType(p) ==
    /\ p.cat \in Categories
    /\ SetType(p.set)
    /\ "docker_network" \in DOMAIN p.set => p.set["docker_network"] \in {0, 1}
    /\ \A f \in {"api_port", "proxy_prebuffer_seconds"} \cap DOMAIN p.set : p.set[f] \in Given(f)
    /\ p.creds = Absent \/ (p.cat = "vpn_settings" /\ p.creds \in CredLists)

PCs      == {"idle", "lock", "row", "creds", "cache", "load", "store", "configure"}
Holding  == {"row", "creds", "cache"}
Task     == [pc : PCs, surface : {"mg", "orch"}, todo : Seq(Allowed), no : Int,
             merged : [Fields -> Int], creds : CredLists, old : [Fields -> Int]]
PushType == [no : Int, val : Int, left : SUBSET Engines]

HandlerInv ==
    /\ handler \in [Handlers -> Task]
    /\ \A h \in Handlers : handler[h].pc # "idle" => handler[h].todo # <<>>

\* The mutex is held exactly from the merge to the update of the cache, and a
\* process that is down runs no handler.
LockInv ==
    /\ lock \in Handlers \cup {Null}
    /\ \A h \in Handlers : handler[h].pc \in Holding <=> lock = h
    /\ ~up => Active = {}

ValueInv ==
    /\ Stored(row) /\ Stored(cache)
    /\ \A h \in Handlers : /\ handler[h].pc \in Holding => Stored(handler[h].merged)
                           /\ handler[h].pc = "creds" => handler[h].creds # Null
                           /\ handler[h].pc = "configure" => Current(h).creds # Absent
    /\ live \in [Fields -> Int]
    /\ table \subseteq Creds /\ pool \subseteq Creds /\ cachedCreds \in CredLists
    /\ engine \in [Engines -> Int]
    /\ pushes \subseteq PushType
    /\ since \subseteq Events
    /\ up \in BOOLEAN /\ events \in Int

TypeInv == HandlerInv /\ LockInv /\ ValueInv

\* The fields of vpn_settings.
LEMMA VpnFields == FieldsOf("vpn_settings") = {"enabled", "api_port"}
BY DEF FieldsOf, Fields, CatOf

\* What is given are integers, and a port is stored as it is given.
LEMMA GivenType ==
    /\ \A f \in Fields : Given(f) \subseteq Int
    /\ From("api_port") = Given("api_port")
<1>1. \A f \in Fields : Given(f) \subseteq Int
    BY DefaultType DEF Given, WellTyped
<1>2. \A v : NormVal("api_port", v) = v
    BY DEF NormVal
<1> QED
    BY <1>1, <1>2 DEF From

\* Every payload that a handler works on has the type of one.
LEMMA AllowedType == \A p \in Allowed : PayloadType(p)
<1>1. ASSUME NEW p \in Payloads PROVE PayloadType(p)
    BY <1>1 DEF PayloadType, WellTyped, SetType, Given
<1>2. ASSUME NEW p \in OwnPayloads PROVE PayloadType(p)
    <2>1. "vpn_settings" \in Categories
        BY FieldsAre DEF Categories, CatOf
    <2>2. /\ p.cat = "vpn_settings" /\ p.creds \in CredLists
          /\ DOMAIN p.set = {"enabled", "api_port"}
          /\ p.set["enabled"] \in {0, 1} /\ p.set["api_port"] \in Given("api_port")
        BY <1>2, VpnFields DEF OwnPayloads, OwnSets
    <2>3. Given("api_port") \subseteq Int
        BY GivenType, FieldsAre
    <2> QED
        BY <2>1, <2>2, <2>3, FieldsAre DEF PayloadType, SetType
<1> QED
    BY <1>1, <1>2 DEF Allowed

\* Only what a handler makes itself is not applied to the live config.
LEMMA OwnApply == \A p \in Allowed : ~p.apply => p \in OwnPayloads /\ p.creds \in CredLists /\ p.creds # Absent
BY DEF Allowed, OwnPayloads, WellTyped, CredLists

\* Storable settings stay storable, and have the ranges that TypeOK names.
LEMMA StoredRanges ==
    ASSUME NEW m, Stored(m)
    PROVE  /\ m \in [Fields -> Int]
           /\ m.upstream_read_timeout # 0
           /\ m.proxy_prebuffer_seconds \in 0..60
           /\ m.stream_mode \in {0, 1}
           /\ m.buffer_time >= 10
           /\ m.docker_network \in {0, 1} /\ m.enabled \in {0, 1}
BY FieldsAre DEF Stored, Normal, NormVal

LEMMA StoredDefault == Stored(Default)
<1>1. \A f \in Fields : Default[f] \in From(f)
    BY DefaultNormal DEF Normal, From, Given
<1> QED
    BY <1>1, DefaultNormal, FieldsAre DEF Stored, Default

LEMMA StoredReload == ASSUME NEW m, Stored(m) PROVE Stored(Reload(m))
<1>1. Normal(Reload(m)) /\ m \in [Fields -> Int]
    BY ReloadNormal DEF Stored, Normal
<1>2. \A f \in Fields : Reload(m)[f] = m[f] \/ Reload(m)[f] = Default[f]
    BY <1>1, ReloadPointwise DEF ReloadVal
<1> QED
    BY <1>1, <1>2, StoredDefault, FieldsAre DEF Stored

LEMMA StoredMerge ==
    ASSUME NEW m, Stored(m), NEW p, PayloadType(p)
    PROVE  Stored(Merge(m, p.cat, p.set))
<1>1. m \in [Fields -> Int] /\ SetType(p.set)
    BY DEF Stored, Normal, PayloadType
<1>2. Normal(Merge(m, p.cat, p.set))
    BY <1>1, MergeNormal
<1>3. Merge(m, p.cat, p.set)["docker_network"] \in {0, 1}
    BY <1>1, MergePointwise, FieldsAre DEF NormVal, Kept, Stored, PayloadType
<1>4. ASSUME NEW f \in {"api_port", "proxy_prebuffer_seconds"}
      PROVE  Merge(m, p.cat, p.set)[f] \in From(f)
    <2>1. f \in Fields /\ m[f] \in From(f) /\ NormVal(f, m[f]) = m[f]
        BY FieldsAre DEF Stored, Normal
    <2>2. f \in Kept(p.cat, p.set) => NormVal(f, p.set[f]) \in From(f)
        BY DEF PayloadType, Kept, From
    <2> QED
        BY <1>1, <2>1, <2>2, MergePointwise
<1> QED
    BY <1>2, <1>3, <1>4 DEF Stored

\* One category of m, the others of n: storable when both are.
Mix(m, n, c) == [f \in Fields |-> IF CatOf[f] = c THEN m[f] ELSE n[f]]

LEMMA StoredMix ==
    ASSUME NEW m, NEW n, Stored(m), Stored(n), NEW c
    PROVE  Stored(Mix(m, n, c))
<1>1. Mix(m, n, c) \in [Fields -> Int] /\ \A f \in Fields : Mix(m, n, c)[f] \in {m[f], n[f]}
    BY DEF Stored, Normal, Mix
<1> QED
    BY <1>1, FieldsAre DEF Stored, Normal

\* The list of a request for several categories.
LEMMA OrdersType ==
    ASSUME NEW body, IsFiniteSet(body), NEW t \in Orders(body)
    PROVE  t \in Seq(body)
<1>1. Cardinality(body) \in Nat
    BY FS_CardinalityType
<1> QED
    BY <1>1 DEF Orders

\* A task that a handler may start with.
LEMMA IdleType == Idle \in Task /\ Idle.pc = "idle"
<1>1. <<>> \in Seq(Allowed)
    OBVIOUS
<1> QED
    BY <1>1, DefaultType DEF Idle, Task, PCs, CredLists

\* What the handlers of requests have in common: the payloads are those of one
\* request, or one that the handler made from the cached vpn_settings.
Fresh(p) == p \in OwnPayloads /\ p.set = [f \in FieldsOf("vpn_settings") |-> cache[f]]

LEMMA Accepted ==
    ASSUME TypeInv, NEW h \in Handlers, Update(h) \/ Credential(h)
    PROVE  \E surface \in {"mg", "orch"}, t \in Seq(Allowed) :
              /\ Accept(h, surface, t)
              /\ t \in Seq(Payloads) \/ \E p : Fresh(p) /\ t = <<p>>
<1>1. Seq(Payloads) \subseteq Seq(Allowed)
    BY DEF Allowed
<1>2. ASSUME NEW body \in Requests.all \cup Requests.orchAll, NEW t \in Orders(body)
      PROVE  t \in Seq(Payloads)
    <2>1. body \subseteq Payloads /\ IsFiniteSet(body)
        BY DEF Payloads
    <2> QED
        BY <2>1, OrdersType
<1>3. ASSUME NEW body \in Requests.import,
             NEW t \in Orders({p \in body : p.cat \in DOMAIN ImportOrder})
      PROVE  t \in Seq(Payloads)
    <2> DEFINE wanted == {p \in body : p.cat \in DOMAIN ImportOrder}
    <2>1. wanted \subseteq Payloads /\ IsFiniteSet(wanted)
        BY FS_Subset DEF Payloads
    <2> HIDE DEF wanted
    <2> QED
        BY <2>1, OrdersType DEF wanted
<1>4. ASSUME NEW p \in Payloads PROVE <<p>> \in Seq(Payloads)
    BY <1>4
<1>5. ASSUME NEW creds \in CredLists
      PROVE  Fresh(VpnPayload(creds)) /\ <<VpnPayload(creds)>> \in Seq(Allowed)
    <2>1. [f \in FieldsOf("vpn_settings") |-> cache[f]] \in OwnSets
        <3>1. cache["enabled"] \in {0, 1} /\ cache["api_port"] \in Given("api_port")
            BY StoredRanges, GivenType DEF TypeInv, ValueInv, Stored
        <3> QED
            BY <3>1, VpnFields DEF OwnSets
    <2>2. VpnPayload(creds) \in OwnPayloads
        BY <2>1 DEF VpnPayload, OwnPayloads
    <2> QED
        BY <2>2 DEF Fresh, VpnPayload, Allowed
<1>6. cachedCreds \in CredLists
    BY DEF TypeInv, ValueInv
<1>7. \A k \in Requests.add : AsSet(cachedCreds) \cup {k} \in CredLists
    BY <1>6 DEF AsSet, CredLists
<1>8. \A k \in AsSet(cachedCreds) : Without(k) \in CredLists
    BY <1>6 DEF AsSet, CredLists, Without
<1>9. CASE mgHandleUpdateAllSettings(h)
    BY <1>9, <1>1, <1>2 DEF mgHandleUpdateAllSettings
<1>10. CASE mgHandleImportSettings(h)
    BY <1>10, <1>1, <1>3 DEF mgHandleImportSettings
<1>11. CASE mgHandleSetSettingsCategory(h)
    BY <1>11, <1>1, <1>4 DEF mgHandleSetSettingsCategory, Payloads
<1>12. CASE mgHandleSetProxyConfig(h)
    BY <1>12, <1>1, <1>4 DEF mgHandleSetProxyConfig, Payloads
<1>13. CASE handleUpdateSettings(h)
    BY <1>13, <1>1, <1>2 DEF handleUpdateSettings
<1>14. CASE handleUpdateSettingsCategory(h)
    BY <1>14, <1>1, <1>4 DEF handleUpdateSettingsCategory, Payloads
<1>15. CASE mgHandleAddVPNCredential(h)
    BY <1>15, <1>5, <1>7 DEF mgHandleAddVPNCredential
<1>16. CASE handleAddVPNCredential(h)
    BY <1>16, <1>5, <1>7 DEF handleAddVPNCredential
<1>17. CASE mgHandleDeleteVPNCredential(h)
    BY <1>17, <1>5, <1>8 DEF mgHandleDeleteVPNCredential
<1>18. CASE handleDeleteVPNCredential(h)
    BY <1>18, <1>5, <1>8 DEF handleDeleteVPNCredential
<1> QED
    BY <1>9, <1>10, <1>11, <1>12, <1>13, <1>14, <1>15, <1>16, <1>17, <1>18 DEF Update, Credential

\* What is left of a list that has more than one element.
LEMMA TailOf ==
    ASSUME NEW S, NEW s \in Seq(S), s # <<>>
    PROVE  Head(s) \in S /\ Tail(s) \in Seq(S) /\ (Len(s) # 1 => Tail(s) # <<>>)
<1>1. Head(s) \in S /\ Tail(s) \in Seq(S) /\ Len(Tail(s)) = Len(s) - 1 /\ Len(s) \in Nat
    BY HeadTailProperties, LenProperties
<1>2. ASSUME Tail(s) = <<>> PROVE Len(s) = 1
    <2>1. Len(<<>>) = 0
        OBVIOUS
    <2>2. Len(Tail(s)) = Len(<<>>)
        BY <1>2, Zenon
    <2> QED
        BY <2>1, <2>2, <1>1
<1> QED
    BY <1>1, <1>2

\* A handler that is done with a payload is idle or at the next one.
LEMMA Advanced ==
    ASSUME HandlerInv, NEW h \in Handlers, handler[h].pc # "idle", Advance(h)
    PROVE  /\ handler' \in [Handlers -> Task]
           /\ \A g \in Handlers : g # h => handler'[g] = handler[g]
           /\ \/ handler'[h] = Idle
              \/ /\ handler'[h].pc = "lock"
                 /\ handler'[h].todo = Tail(handler[h].todo)
                 /\ handler'[h].todo # <<>>
<1> DEFINE me   == handler[h]
           next == [Idle EXCEPT !.pc = "lock", !.surface = me.surface, !.no = me.no, !.todo = Tail(me.todo)]
<1>1. me \in Task /\ me.todo \in Seq(Allowed) /\ me.todo # <<>>
    BY DEF HandlerInv, Task
<1>2. Tail(me.todo) \in Seq(Allowed) /\ (Len(me.todo) # 1 => Tail(me.todo) # <<>>)
    BY <1>1, TailOf
<1>3. next \in Task /\ next.pc = "lock" /\ next.todo = Tail(me.todo)
    BY <1>1, <1>2, IdleType DEF Task, PCs
<1> HIDE DEF next
<1>4. handler' = [handler EXCEPT ![h] = IF Len(me.todo) = 1 THEN Idle ELSE next]
    BY DEF Advance, next
<1>5. CASE Len(me.todo) = 1
    BY <1>4, <1>5, IdleType DEF HandlerInv
<1>6. CASE Len(me.todo) # 1
    BY <1>2, <1>3, <1>4, <1>6 DEF HandlerInv
<1> QED
    BY <1>5, <1>6

\* A step of one handler that keeps its list and goes on to another point.
LEMMA Moved ==
    ASSUME HandlerInv, NEW h \in Handlers, NEW r \in Task, handler' = [handler EXCEPT ![h] = r],
           r.pc # "idle" => r.todo # <<>>
    PROVE  /\ HandlerInv'
           /\ handler'[h] = r
           /\ \A g \in Handlers : g # h => handler'[g] = handler[g]
BY DEF HandlerInv

\* The payload at the head of a handler's list is one that it may have.
LEMMA CurrentType ==
    ASSUME HandlerInv, NEW h \in Handlers, handler[h].pc # "idle"
    PROVE  Current(h) \in Allowed /\ PayloadType(Current(h))
<1>1. handler[h].todo \in Seq(Allowed) /\ handler[h].todo # <<>>
    BY DEF HandlerInv, Task
<1>2. Head(handler[h].todo) \in Allowed
    BY <1>1, TailOf
<1> QED
    BY <1>2, AllowedType DEF Current

LEMMA TypeInit == Init => TypeInv
<1> SUFFICES ASSUME Init PROVE TypeInv
    OBVIOUS
<1>1. HandlerInv
    BY IdleType DEF Init, HandlerInv
<1>2. LockInv
    BY IdleType DEF Init, LockInv, Active, Holding
<1>3. ValueInv
    <2>1. Stored(row) /\ Stored(cache) /\ live \in [Fields -> Int] /\ engine \in [Engines -> Int]
        BY StoredDefault, DefaultType, FieldsAre DEF Init
    <2>2. \A h \in Handlers : handler[h].pc = "idle" /\ "idle" \notin Holding
        BY IdleType DEF Init, Holding
    <2>3. up \in BOOLEAN
        BY DEF Init
    <2>4. /\ table \subseteq Creds /\ pool \subseteq Creds /\ cachedCreds \in CredLists
          /\ pushes \subseteq PushType /\ since \subseteq Events /\ events \in Int
        BY DEF Init, CredLists
    <2> QED
        BY <2>1, <2>2, <2>3, <2>4 DEF ValueInv
<1> QED
    BY <1>1, <1>2, <1>3 DEF TypeInv
-----------------------------------------------------------------------------
(* What each step does to the handlers.                                     *)

Others(h) == \A g \in Handlers : g # h => handler'[g] = handler[g]

\* The handler goes to pc and keeps its list.
Goes(h, pc) ==
    /\ HandlerInv' /\ Others(h)
    /\ handler'[h].pc = pc /\ handler'[h].todo = handler[h].todo
    /\ handler'[h].surface = handler[h].surface

\* The handler is done with its payload.
Done(h) ==
    /\ HandlerInv' /\ Others(h)
    /\ \/ handler'[h].pc = "idle"
       \/ handler'[h].pc = "lock" /\ handler'[h].todo = Tail(handler[h].todo)

LEMMA AdvanceDone ==
    ASSUME HandlerInv, NEW h \in Handlers, handler[h].pc # "idle", Advance(h)
    PROVE  Done(h)
BY Advanced, IdleType DEF HandlerInv, Done, Others

LEMMA AcceptEffect ==
    ASSUME HandlerInv, events \in Int, NEW h \in Handlers, NEW surface \in {"mg", "orch"},
           NEW t \in Seq(Allowed), Accept(h, surface, t)
    PROVE  /\ HandlerInv' /\ Others(h)
           /\ handler'[h].pc = "lock" /\ handler'[h].todo = t
<1> DEFINE n == events + 1
           r == [Idle EXCEPT !.pc = "lock", !.surface = surface, !.todo = t, !.no = n]
<1>0. n \in Int
    OBVIOUS
<1> HIDE DEF n
<1>1. r \in Task /\ r.pc = "lock" /\ r.todo = t
    BY <1>0, IdleType DEF Task, PCs
<1>2. t # <<>> /\ handler' = [handler EXCEPT ![h] = r]
    BY DEF Accept, n
<1> HIDE DEF r
<1> QED
    BY <1>1, <1>2, Moved DEF Others

LEMMA MergeEffect ==
    ASSUME TypeInv, NEW h \in Handlers, SaveMerge(h)
    PROVE  /\ Goes(h, "row")
           /\ handler'[h].merged = Merge(cache, Current(h).cat, Current(h).set)
           /\ handler'[h].creds = IF Current(h).creds = Absent THEN cachedCreds ELSE Current(h).creds
           /\ Stored(handler'[h].merged)
<1> DEFINE p == Current(h)
           m == Merge(cache, p.cat, p.set)
           c == IF p.creds = Absent THEN cachedCreds ELSE p.creds
           r == [handler[h] EXCEPT !.pc = "row", !.merged = m, !.creds = c]
<1>1. handler[h] \in Task /\ handler[h].pc = "lock" /\ handler[h].todo # <<>>
    BY DEF TypeInv, HandlerInv, SaveMerge
<1>2. PayloadType(p)
    BY <1>1, CurrentType DEF TypeInv
<1>3. Stored(m)
    BY <1>2, StoredMerge DEF TypeInv, ValueInv
<1>4. m \in [Fields -> Int]
    BY <1>3 DEF Stored, Normal
<1>5. c \in CredLists
    BY <1>2 DEF PayloadType, TypeInv, ValueInv
<1>6. handler' = [handler EXCEPT ![h] = r]
    BY DEF SaveMerge
<1> HIDE DEF m, c
<1>7. /\ r \in Task /\ r.pc = "row" /\ r.todo = handler[h].todo /\ r.surface = handler[h].surface
      /\ r.merged = m /\ r.creds = c
    BY <1>1, <1>4, <1>5 DEF Task, PCs
<1> HIDE DEF r
<1>8. /\ HandlerInv' /\ handler'[h] = r /\ \A g \in Handlers : g # h => handler'[g] = handler[g]
    BY <1>1, <1>6, <1>7, Moved DEF TypeInv
<1>9. Goes(h, "row") /\ handler'[h].merged = m /\ handler'[h].creds = c
    BY <1>7, <1>8 DEF Goes, Others
<1> QED
    BY <1>3, <1>9 DEF m, c

\* A step that changes only the handler's pc.
LEMMA PcEffect ==
    ASSUME HandlerInv, NEW h \in Handlers, handler[h].pc # "idle", NEW pc \in PCs,
           handler' = [handler EXCEPT ![h].pc = pc]
    PROVE  /\ Goes(h, pc)
           /\ handler'[h].merged = handler[h].merged /\ handler'[h].creds = handler[h].creds
<1> DEFINE r == [handler[h] EXCEPT !.pc = pc]
<1>1. handler[h] \in Task /\ handler[h].todo # <<>>
    BY DEF HandlerInv
<1>2. /\ r \in Task /\ r.pc = pc /\ r.todo = handler[h].todo /\ r.surface = handler[h].surface
      /\ r.merged = handler[h].merged /\ r.creds = handler[h].creds
    BY <1>1 DEF Task
<1>3. handler' = [handler EXCEPT ![h] = r]
    OBVIOUS
<1> HIDE DEF r
<1>4. /\ HandlerInv' /\ handler'[h] = r /\ \A g \in Handlers : g # h => handler'[g] = handler[g]
    BY <1>1, <1>2, <1>3, Moved
<1> QED
    BY <1>2, <1>4 DEF Goes, Others

LEMMA CacheEffect ==
    ASSUME HandlerInv, NEW h \in Handlers, SaveCache(h)
    PROVE  Goes(h, IF Current(h).apply THEN "load" ELSE "configure")
<1> DEFINE pc == IF Current(h).apply THEN "load" ELSE "configure"
           r  == [handler[h] EXCEPT !.pc = pc, !.merged = Default, !.creds = Null]
<1>1. handler[h] \in Task /\ handler[h].pc = "cache" /\ handler[h].todo # <<>>
    BY DEF HandlerInv, SaveCache
<1>2. pc \in PCs
    BY DEF PCs
<1>3. handler' = [handler EXCEPT ![h] = r]
    BY DEF SaveCache
<1> HIDE DEF pc
<1>4. r \in Task /\ r.pc = pc /\ r.todo = handler[h].todo /\ r.surface = handler[h].surface
    BY <1>1, <1>2, DefaultType DEF Task, CredLists
<1> HIDE DEF r
<1>5. /\ HandlerInv' /\ handler'[h] = r /\ \A g \in Handlers : g # h => handler'[g] = handler[g]
    BY <1>1, <1>3, <1>4, Moved
<1> QED
    BY <1>4, <1>5 DEF Goes, Others, pc

LEMMA LoadEffect ==
    ASSUME TypeInv, NEW h \in Handlers, ApplyLoad(h)
    PROVE  Goes(h, "store") /\ handler'[h].old = live
<1> DEFINE r == [handler[h] EXCEPT !.pc = "store", !.old = live]
<1>1. handler[h] \in Task /\ handler[h].pc = "load" /\ handler[h].todo # <<>> /\ live \in [Fields -> Int]
    BY DEF TypeInv, HandlerInv, ValueInv, ApplyLoad
<1>2. handler' = [handler EXCEPT ![h] = r]
    BY DEF ApplyLoad
<1>3. /\ r \in Task /\ r.pc = "store" /\ r.todo = handler[h].todo /\ r.surface = handler[h].surface
      /\ r.old = live
    BY <1>1 DEF Task, PCs
<1> HIDE DEF r
<1>4. /\ HandlerInv' /\ handler'[h] = r /\ \A g \in Handlers : g # h => handler'[g] = handler[g]
    BY <1>1, <1>2, <1>3, Moved DEF TypeInv
<1> QED
    BY <1>3, <1>4 DEF Goes, Others

\* A row that could not be written ends the Save; one that was written leads to
\* the credentials or to the cache.
LEMMA RowEffect ==
    ASSUME HandlerInv, NEW h \in Handlers, SaveRow(h)
    PROVE  \/ /\ row' = Mix(handler[h].merged, row, Current(h).cat)
              /\ UNCHANGED lock
              /\ handler'[h].merged = handler[h].merged /\ handler'[h].creds = handler[h].creds
              /\ IF Current(h).cat = "vpn_settings" /\ handler[h].creds # Null
                 THEN Goes(h, "creds") ELSE Goes(h, "cache")
           \/ UNCHANGED row /\ lock' = Null /\ Done(h)
<1>1. handler[h].pc = "row"
    BY DEF SaveRow
<1>2. CASE lock' = Null /\ Advance(h) /\ UNCHANGED row
    BY <1>1, <1>2, AdvanceDone
<1> DEFINE pc == IF Current(h).cat = "vpn_settings" /\ handler[h].creds # Null THEN "creds" ELSE "cache"
<1>3. CASE /\ row' = Mix(handler[h].merged, row, Current(h).cat)
           /\ handler' = [handler EXCEPT ![h].pc = pc]
           /\ UNCHANGED lock
    <2>1. pc \in PCs
        BY DEF PCs
    <2> HIDE DEF pc
    <2>2. /\ Goes(h, pc)
          /\ handler'[h].merged = handler[h].merged /\ handler'[h].creds = handler[h].creds
        BY <1>1, <1>3, <2>1, PcEffect
    <2> QED
        BY <1>3, <2>2 DEF pc
<1> QED
    BY <1>2, <1>3 DEF SaveRow, Mix

LEMMA StoreEffect ==
    ASSUME HandlerInv, NEW h \in Handlers, ApplyStore(h)
    PROVE  \/ Current(h).creds \in {Absent, Null} /\ Done(h)
           \/ Current(h).creds \notin {Absent, Null} /\ Goes(h, "configure")
<1>1. handler[h].pc = "store" /\ "configure" \in PCs
    BY DEF ApplyStore, PCs
<1>2. CASE Current(h).creds \in {Absent, Null}
    BY <1>1, <1>2, AdvanceDone DEF ApplyStore
<1>3. CASE Current(h).creds \notin {Absent, Null}
    <2>1. handler' = [handler EXCEPT ![h].pc = "configure"]
        BY <1>3 DEF ApplyStore
    <2> QED
        BY <1>1, <1>3, <2>1, PcEffect
<1> QED
    BY <1>2, <1>3

\* The live config keeps its type, whatever is taken from a payload
LEMMA TakenType ==
    ASSUME NEW m \in [Fields -> Int], NEW set, SetType(set), NEW keys
    PROVE  Taken(m, set, keys) \in [Fields -> Int]
<1>1. ASSUME NEW v \in Int PROVE toInt(v) \in Int
    BY DEF toInt
<1>2. ASSUME NEW f \in Fields, NEW v \in Int, NEW old \in Int PROVE TakenValue(f, v, old) \in Int
    BY <1>1 DEF TakenValue
<1> QED
    BY <1>2 DEF Taken, SetType

\* or applied to it.
LEMMA ApplyType ==
    ASSUME NEW m \in [Fields -> Int], NEW p, PayloadType(p)
    PROVE  Apply(m, p.cat, p.set) \in [Fields -> Int]
<1>1. ASSUME NEW keys PROVE Taken(m, p.set, keys) \in [Fields -> Int]
    BY TakenType DEF PayloadType
<1>2. p.cat \in {"proxy_settings", "engine_settings", "orchestrator_settings",
                 "engine_config", "vpn_settings"}
    BY FieldsAre DEF PayloadType, Categories, CatOf
<1> QED
    BY <1>1, <1>2 DEF Apply, ApplySettings, ApplyEngineSettings, ApplyOrchestratorSettings,
                      ApplyEngineConfig, ApplyVPNSettings
-----------------------------------------------------------------------------
(* Types: the inductive step.                                               *)

\* Only a running process has handlers at work.
LEMMA ActiveMeansUp ==
    ASSUME LockInv, NEW h \in Handlers, handler[h].pc # "idle" PROVE up
BY DEF LockInv, Active

LEMMA TypeStep == TypeInv /\ [Next]_vars => TypeInv'
<1> SUFFICES ASSUME TypeInv, [Next]_vars PROVE TypeInv'
    OBVIOUS
<1> USE DEF Holding
<1>1. ASSUME NEW h \in Handlers, Update(h) \/ Credential(h) PROVE TypeInv'
    <2>1. PICK surface \in {"mg", "orch"}, t \in Seq(Allowed) : Accept(h, surface, t)
        BY <1>1, Accepted
    <2>2. HandlerInv' /\ Others(h) /\ handler'[h].pc = "lock" /\ handler[h].pc = "idle" /\ up
        BY <2>1, AcceptEffect DEF TypeInv, ValueInv, Accept
    <2>3. LockInv'
        BY <2>1, <2>2 DEF TypeInv, LockInv, Accept, Others
    <2>4. ValueInv'
        BY <2>1, <2>2 DEF TypeInv, ValueInv, Accept, Others, Events, Current
    <2> QED
        BY <2>2, <2>3, <2>4 DEF TypeInv
<1>2. ASSUME NEW h \in Handlers, SaveMerge(h) PROVE TypeInv'
    <2>1. /\ HandlerInv' /\ Others(h) /\ handler'[h].pc = "row" /\ Stored(handler'[h].merged)
          /\ handler[h].pc = "lock" /\ up
        BY <1>2, MergeEffect, ActiveMeansUp DEF Goes, SaveMerge, TypeInv
    <2>2. LockInv'
        BY <1>2, <2>1 DEF TypeInv, LockInv, SaveMerge, Others
    <2>3. ValueInv'
        BY <1>2, <2>1 DEF TypeInv, ValueInv, SaveMerge, Others, Current
    <2> QED
        BY <2>1, <2>2, <2>3 DEF TypeInv
<1>3. ASSUME NEW h \in Handlers, SaveRow(h) PROVE TypeInv'
    <2>1. handler[h].pc = "row" /\ up /\ Stored(handler[h].merged) /\ lock = h
        BY <1>3, ActiveMeansUp DEF SaveRow, TypeInv, ValueInv, LockInv
    <2>2. CASE /\ row' = Mix(handler[h].merged, row, Current(h).cat)
               /\ UNCHANGED lock
               /\ handler'[h].merged = handler[h].merged /\ handler'[h].creds = handler[h].creds
               /\ IF Current(h).cat = "vpn_settings" /\ handler[h].creds # Null
                  THEN Goes(h, "creds") ELSE Goes(h, "cache")
        <3>1. Stored(row')
            BY <2>1, <2>2, StoredMix DEF TypeInv, ValueInv
        <3>2. /\ HandlerInv' /\ Others(h) /\ handler'[h].pc \in {"creds", "cache"}
              /\ handler'[h].pc = "creds" => handler'[h].creds # Null
            BY <2>2 DEF Goes
        <3>3. LockInv'
            BY <1>3, <2>1, <2>2, <3>2 DEF TypeInv, LockInv, SaveRow, Others
        <3>4. ValueInv'
            BY <1>3, <2>1, <2>2, <3>1, <3>2 DEF TypeInv, ValueInv, SaveRow, Others, Current
        <3> QED
            BY <3>2, <3>3, <3>4 DEF TypeInv
    <2>3. CASE UNCHANGED row /\ lock' = Null /\ Done(h)
        <3>1. HandlerInv' /\ Others(h) /\ handler'[h].pc \in {"idle", "lock"}
            BY <2>3 DEF Done
        <3>2. LockInv'
            BY <1>3, <2>1, <2>3, <3>1 DEF TypeInv, LockInv, SaveRow, Others
        <3>3. ValueInv'
            BY <1>3, <2>3, <3>1 DEF TypeInv, ValueInv, SaveRow, Others, Current
        <3> QED
            BY <3>1, <3>2, <3>3 DEF TypeInv
    <2> QED
        BY <1>3, <2>2, <2>3, RowEffect DEF TypeInv
<1>4. ASSUME NEW h \in Handlers, SaveCredentials(h) PROVE TypeInv'
    <2>1. /\ handler[h].pc = "creds" /\ up /\ Stored(handler[h].merged)
          /\ handler[h].creds \in SUBSET Creds
          /\ handler' = [handler EXCEPT ![h].pc = "cache"]
        BY <1>4, ActiveMeansUp DEF SaveCredentials, TypeInv, ValueInv, HandlerInv, Task, CredLists
    <2>2. /\ HandlerInv' /\ Others(h) /\ handler'[h].pc = "cache"
          /\ handler'[h].merged = handler[h].merged
        BY <2>1, PcEffect DEF TypeInv, Goes, PCs
    <2>3. LockInv'
        BY <1>4, <2>1, <2>2 DEF TypeInv, LockInv, SaveCredentials, Others
    <2>4. ValueInv'
        BY <1>4, <2>1, <2>2 DEF TypeInv, ValueInv, SaveCredentials, Others, Events, Current
    <2> QED
        BY <2>2, <2>3, <2>4 DEF TypeInv
<1>5. ASSUME NEW h \in Handlers, SaveCache(h) PROVE TypeInv'
    <2>1. /\ handler[h].pc = "cache" /\ up /\ Stored(handler[h].merged)
          /\ handler[h].creds \in CredLists /\ lock = h
        BY <1>5, ActiveMeansUp DEF SaveCache, TypeInv, ValueInv, HandlerInv, LockInv, Task
    <2>2. /\ HandlerInv' /\ Others(h) /\ handler'[h].pc \in {"load", "configure"}
          /\ handler'[h].pc = "configure" => ~Current(h).apply
          /\ handler'[h].todo = handler[h].todo
        BY <1>5, CacheEffect DEF TypeInv, Goes
    <2>7. handler'[h].pc = "configure" => Current(h)'.creds # Absent
        BY <2>1, <2>2, CurrentType, OwnApply DEF TypeInv, Current
    <2>3. cache' = Mix(handler[h].merged, cache, Current(h).cat)
        BY <1>5 DEF SaveCache, Mix
    <2>4. Stored(cache')
        BY <2>1, <2>3, StoredMix DEF TypeInv, ValueInv
    <2>5. LockInv'
        BY <1>5, <2>1, <2>2 DEF TypeInv, LockInv, SaveCache, Others
    <2>6. ValueInv'
        BY <1>5, <2>1, <2>2, <2>4, <2>7 DEF TypeInv, ValueInv, SaveCache, Others, Current
    <2> QED
        BY <2>2, <2>5, <2>6 DEF TypeInv
<1>6. ASSUME NEW h \in Handlers, ApplyLoad(h) PROVE TypeInv'
    <2>1. /\ HandlerInv' /\ Others(h) /\ handler'[h].pc = "store"
          /\ handler[h].pc = "load" /\ up
        BY <1>6, LoadEffect, ActiveMeansUp DEF Goes, ApplyLoad, TypeInv
    <2>2. LockInv'
        BY <1>6, <2>1 DEF TypeInv, LockInv, ApplyLoad, Others
    <2>3. ValueInv'
        BY <1>6, <2>1 DEF TypeInv, ValueInv, ApplyLoad, Others, Current
    <2> QED
        BY <2>1, <2>2, <2>3 DEF TypeInv
<1>7. ASSUME NEW h \in Handlers, ApplyStore(h) PROVE TypeInv'
    <2>1. /\ HandlerInv' /\ Others(h) /\ handler'[h].pc \in {"idle", "lock", "configure"}
          /\ handler[h].pc = "store" /\ up
          /\ handler'[h].pc = "configure" =>
                Current(h).creds # Absent /\ handler'[h].todo = handler[h].todo
        BY <1>7, StoreEffect, ActiveMeansUp DEF Goes, Done, ApplyStore, TypeInv
    <2>2. PayloadType(Current(h)) /\ handler[h].old \in [Fields -> Int] /\ handler[h].no \in Int
        BY <2>1, CurrentType DEF TypeInv, HandlerInv, Task
    <2>3. live' \in [Fields -> Int]
        BY <1>7, <2>2, ApplyType DEF ApplyStore
    <2>4. pushes' \subseteq PushType
        BY <1>7, <2>2 DEF ApplyStore, PushType, TypeInv, ValueInv, PayloadType, SetType
    <2>5. since' \subseteq Events
        BY <1>7 DEF ApplyStore, Events, TypeInv, ValueInv
    <2>6. LockInv'
        BY <1>7, <2>1 DEF TypeInv, LockInv, ApplyStore, Others
    <2>7. ValueInv'
        BY <1>7, <2>1, <2>3, <2>4, <2>5 DEF TypeInv, ValueInv, ApplyStore, Others, Current
    <2> QED
        BY <2>1, <2>6, <2>7 DEF TypeInv
<1>8. ASSUME NEW h \in Handlers, Configure(h) PROVE TypeInv'
    <2>1. /\ HandlerInv' /\ Others(h) /\ handler'[h].pc \in {"idle", "lock"}
          /\ handler[h].pc = "configure" /\ up
        BY <1>8, AdvanceDone, ActiveMeansUp DEF Done, Configure, TypeInv
    <2>2. AsSet(Current(h).creds) \subseteq Creds
        BY <2>1, CurrentType DEF TypeInv, ValueInv, PayloadType, AsSet, CredLists
    <2>3. LockInv'
        BY <1>8, <2>1 DEF TypeInv, LockInv, Configure, Others
    <2>4. ValueInv'
        BY <1>8, <2>1, <2>2 DEF TypeInv, ValueInv, Configure, Others, Events, Current
    <2> QED
        BY <2>1, <2>3, <2>4 DEF TypeInv
<1>9. ASSUME NEW p \in pushes, NEW e \in Engines, PushOne(p, e) PROVE TypeInv'
    <2>1. p \in PushType /\ [p EXCEPT !.left = @ \ {e}] \in PushType
        BY DEF PushType, TypeInv, ValueInv
    <2>2. pushes' \subseteq PushType
        BY <1>9, <2>1 DEF PushOne, TypeInv, ValueInv
    <2>3. engine' \in [Engines -> Int] /\ since' \subseteq Events
        BY <1>9, <2>1 DEF PushOne, PushType, Events, TypeInv, ValueInv
    <2>4. HandlerInv' /\ LockInv'
        BY <1>9 DEF PushOne, TypeInv, HandlerInv, LockInv, Active
    <2>5. ValueInv'
        BY <1>9, <2>2, <2>3 DEF PushOne, TypeInv, ValueInv, Current
    <2> QED
        BY <2>4, <2>5 DEF TypeInv
<1>10. CASE Crash
    <2>1. HandlerInv' /\ \A h \in Handlers : handler'[h].pc = "idle"
        BY <1>10, IdleType DEF Crash, HandlerInv
    <2>2. LockInv'
        BY <1>10, <2>1 DEF Crash, LockInv, Active
    <2>3. up' \in BOOLEAN
        BY <1>10 DEF Crash
    <2>4. ValueInv'
        BY <1>10, <2>1, <2>3, StoredDefault, DefaultType DEF Crash, TypeInv, ValueInv, CredLists
    <2> QED
        BY <2>1, <2>2, <2>4 DEF TypeInv
<1>11. CASE Start
    <2>1. Stored(cache') /\ cache' \in [Fields -> Int]
        BY <1>11, StoredReload DEF Start, TypeInv, ValueInv, Stored, Normal
    <2>2. live' \in [Fields -> Int]
        <3> DEFINE taken == Taken(live, cache', Fields)
        <3>1. taken \in [Fields -> Int]
            BY <2>1, TakenType DEF TypeInv, ValueInv, SetType
        <3> HIDE DEF taken
        <3> QED
            BY <1>11, <3>1, FieldsAre DEF Start, taken
    <2>3. engine' \in [Engines -> Int]
        BY <1>11, <2>2, FieldsAre DEF Start
    <2>4. cachedCreds' \in CredLists /\ pool' \subseteq Creds
        BY <1>11 DEF Start, loadedCreds, AsSet, CredLists, TypeInv, ValueInv
    <2>5. up' \in BOOLEAN
        BY <1>11 DEF Start
    <2>6. HandlerInv' /\ LockInv'
        BY <1>11 DEF Start, TypeInv, HandlerInv, LockInv
    <2>7. ValueInv'
        BY <1>11, <2>1, <2>2, <2>3, <2>4, <2>5 DEF Start, TypeInv, ValueInv, Current
    <2> QED
        BY <2>6, <2>7 DEF TypeInv
<1>12. CASE UNCHANGED vars
    <2>1. HandlerInv' /\ LockInv'
        BY <1>12 DEF vars, TypeInv, HandlerInv, LockInv, Active
    <2>2. ValueInv'
        BY <1>12 DEF vars, TypeInv, ValueInv, Current
    <2> QED
        BY <2>1, <2>2 DEF TypeInv
<1> QED
    BY <1>1, <1>2, <1>3, <1>4, <1>5, <1>6, <1>7, <1>8, <1>9, <1>10, <1>11, <1>12 DEF Next, Save

\* What is stored keeps the ranges that the normalizers promise, whatever the
\* requests carry and however Saves, crashes and restarts follow each other.
THEOREM SettingsTypeCorrect == Spec => []TypeOK
<1>1. TypeInv => TypeOK
    <2> SUFFICES ASSUME TypeInv PROVE TypeOK
        OBVIOUS
    <2>1. \A m \in {row, cache} : /\ m \in [Fields -> Int]
                                  /\ m.upstream_read_timeout # 0
                                  /\ m.proxy_prebuffer_seconds \in 0..60
                                  /\ m.stream_mode \in {0, 1}
                                  /\ m.buffer_time >= 10
                                  /\ m.docker_network \in {0, 1} /\ m.enabled \in {0, 1}
        BY StoredRanges DEF TypeInv, ValueInv
    <2>2. \A h \in Handlers : handler[h].pc \in PCs
        BY DEF TypeInv, HandlerInv, Task
    <2> QED
        BY <2>1, <2>2 DEF TypeOK, TypeInv, ValueInv, LockInv, PCs
<1> QED
    BY <1>1, TypeInit, TypeStep, PTL DEF Spec
-----------------------------------------------------------------------------
(* Durability.                                                              *)

\* Field by field, a restart would load the same from m and from n.
SameLoaded(m, n, f) == ReloadVal(f, m[f]) = ReloadVal(f, n[f])

\* Of a list of credentials, those with an id are in the table.
Tabled(list) == list # Null => table = list \ Nameless

\* A Save merges into the cache that it found, and the row, the table and the
\* cache differ only in what the Save under way has written so far.
SaveInv(h) ==
    LET me == handler[h]
        p  == Current(h)
    IN  /\ me.merged = Merge(cache, p.cat, p.set)
        /\ me.creds = IF p.creds = Absent THEN cachedCreds ELSE p.creds
        /\ \A f \in Fields :
              IF me.pc # "row" /\ CatOf[f] = p.cat THEN row[f] = me.merged[f]
              ELSE SameLoaded(row, cache, f)
        /\ me.pc = "creds" => p.cat = "vpn_settings"
        /\ "credsFail" \notin since =>
              IF me.pc = "cache" /\ p.cat = "vpn_settings" THEN Tabled(me.creds) ELSE Tabled(cachedCreds)

RestInv ==
    /\ \A f \in Fields : SameLoaded(row, cache, f)
    /\ "credsFail" \notin since => Tabled(cachedCreds)

DurableInv ==
    /\ table \cap Nameless = {}
    /\ up => IF lock = Null THEN RestInv ELSE SaveInv(lock)

LEMMA DurableInit == Init => DurableInv
BY DEF Init, DurableInv

\* A step that leaves the store alone, and the handler that holds its mutex.
LEMMA DurableFrame ==
    ASSUME TypeInv, DurableInv, NEW h \in Handlers, Others(h), UNCHANGED <<store, up>>, lock # h, up,
           since' \subseteq since \cup {"overlap", "unaware", "pushFails"},
           since \subseteq since'
    PROVE  DurableInv'
<1>1. CASE lock = Null
    BY <1>1 DEF DurableInv, RestInv, SameLoaded, Tabled
<1>2. CASE lock # Null
    <2>1. lock \in Handlers /\ handler'[lock] = handler[lock]
        BY <1>2 DEF TypeInv, LockInv, Others
    <2>2. SaveInv(lock)
        BY <1>2 DEF DurableInv
    <2>3. SaveInv(lock)'
        BY <2>1, <2>2 DEF SaveInv, Current, SameLoaded, Tabled
    <2> QED
        BY <1>2, <2>3 DEF DurableInv
<1> QED
    BY <1>1, <1>2

LEMMA DurableStep == TypeInv /\ TypeInv' /\ DurableInv /\ [Next]_vars => DurableInv'
<1> SUFFICES ASSUME TypeInv, TypeInv', DurableInv, [Next]_vars PROVE DurableInv'
    OBVIOUS
<1> USE DEF Tabled
<1>1. ASSUME NEW h \in Handlers, Update(h) \/ Credential(h) PROVE DurableInv'
    <2>1. PICK surface \in {"mg", "orch"}, t \in Seq(Allowed) : Accept(h, surface, t)
        BY <1>1, Accepted
    <2>2. Others(h) /\ lock # h /\ up
        BY <2>1, AcceptEffect DEF TypeInv, ValueInv, LockInv, Accept, Holding
    <2> QED
        BY <2>1, <2>2, DurableFrame DEF Accept
<1>2. ASSUME NEW h \in Handlers, SaveMerge(h) PROVE DurableInv'
    <2>1. /\ Goes(h, "row")
          /\ handler'[h].merged = Merge(cache, Current(h).cat, Current(h).set)
          /\ handler'[h].creds = IF Current(h).creds = Absent THEN cachedCreds ELSE Current(h).creds
          /\ up /\ h # Null
        BY <1>2, MergeEffect, ActiveMeansUp DEF SaveMerge, TypeInv
    <2>2. RestInv
        BY <1>2, <2>1 DEF DurableInv, SaveMerge
    <2>3. SaveInv(h)'
        BY <1>2, <2>1, <2>2 DEF SaveInv, RestInv, SaveMerge, Current, SameLoaded, Goes
    <2> QED
        BY <1>2, <2>1, <2>3 DEF DurableInv, SaveMerge
<1>3. ASSUME NEW h \in Handlers, SaveRow(h) PROVE DurableInv'
    <2>1. handler[h].pc = "row" /\ up /\ lock = h /\ h # Null
        BY <1>3, ActiveMeansUp DEF SaveRow, TypeInv, LockInv, Holding
    <2>2. SaveInv(h)
        BY <2>1 DEF DurableInv
    <2>3. CASE /\ row' = Mix(handler[h].merged, row, Current(h).cat)
               /\ UNCHANGED lock
               /\ handler'[h].merged = handler[h].merged /\ handler'[h].creds = handler[h].creds
               /\ IF Current(h).cat = "vpn_settings" /\ handler[h].creds # Null
                  THEN Goes(h, "creds") ELSE Goes(h, "cache")
        <3>1. /\ Current(h)' = Current(h) /\ handler'[h].pc \in {"creds", "cache"}
              /\ handler'[h].pc = "creds" <=> Current(h).cat = "vpn_settings" /\ handler[h].creds # Null
            BY <2>3 DEF Goes, Current
        <3>2. \A f \in Fields : row'[f] = IF CatOf[f] = Current(h).cat THEN handler[h].merged[f] ELSE row[f]
            BY <2>3 DEF Mix
        <3>3. SaveInv(h)'
            BY <1>3, <2>1, <2>2, <2>3, <3>1, <3>2 DEF SaveInv, SaveRow, SameLoaded
        <3> QED
            BY <1>3, <2>1, <2>3, <3>3 DEF DurableInv, SaveRow
    <2>4. CASE UNCHANGED row /\ lock' = Null
        <3>1. RestInv'
            BY <1>3, <2>1, <2>2, <2>4 DEF SaveInv, RestInv, SaveRow, SameLoaded
        <3> QED
            BY <1>3, <2>4, <3>1 DEF DurableInv, SaveRow
    <2> QED
        BY <1>3, <2>3, <2>4, RowEffect DEF TypeInv
<1>4. ASSUME NEW h \in Handlers, SaveCredentials(h) PROVE DurableInv'
    <2>1. /\ handler[h].pc = "creds" /\ up /\ lock = h /\ h # Null
          /\ handler' = [handler EXCEPT ![h].pc = "cache"]
        BY <1>4, ActiveMeansUp DEF SaveCredentials, TypeInv, LockInv, Holding
    <2>2. /\ Goes(h, "cache")
          /\ handler'[h].merged = handler[h].merged /\ handler'[h].creds = handler[h].creds
        BY <2>1, PcEffect DEF TypeInv, PCs
    <2>3. SaveInv(h)
        BY <2>1 DEF DurableInv
    <2>4. SaveInv(h)'
        BY <1>4, <2>1, <2>2, <2>3 DEF SaveInv, SaveCredentials, Goes, Current, SameLoaded
    <2> QED
        BY <1>4, <2>1, <2>4 DEF DurableInv, SaveCredentials
<1>5. ASSUME NEW h \in Handlers, SaveCache(h) PROVE DurableInv'
    <2>1. handler[h].pc = "cache" /\ up /\ lock = h /\ h # Null
        BY <1>5, ActiveMeansUp DEF SaveCache, TypeInv, LockInv, Holding
    <2>2. SaveInv(h)
        BY <2>1 DEF DurableInv
    <2>3. RestInv'
        BY <1>5, <2>1, <2>2 DEF SaveInv, RestInv, SaveCache, SameLoaded
    <2> QED
        BY <1>5, <2>3 DEF DurableInv, SaveCache
<1>6. ASSUME NEW h \in Handlers, ApplyLoad(h) PROVE DurableInv'
    <2>1. Others(h) /\ up /\ lock # h
        BY <1>6, LoadEffect, ActiveMeansUp DEF Goes, ApplyLoad, TypeInv, LockInv, Holding
    <2> QED
        BY <1>6, <2>1, DurableFrame DEF ApplyLoad
<1>7. ASSUME NEW h \in Handlers, ApplyStore(h) PROVE DurableInv'
    <2>1. Others(h) /\ up /\ lock # h
        BY <1>7, StoreEffect, ActiveMeansUp DEF Goes, Done, ApplyStore, TypeInv, LockInv, Holding
    <2>2. since \subseteq since' /\ since' \subseteq since \cup {"overlap", "unaware", "pushFails"}
        BY <1>7 DEF ApplyStore
    <2> QED
        BY <1>7, <2>1, <2>2, DurableFrame DEF ApplyStore
<1>8. ASSUME NEW h \in Handlers, Configure(h) PROVE DurableInv'
    <2>1. Others(h) /\ up /\ lock # h
        BY <1>8, AdvanceDone, ActiveMeansUp DEF Done, Configure, TypeInv, LockInv, Holding
    <2>2. since \subseteq since' /\ since' \subseteq since \cup {"overlap", "unaware", "pushFails"}
        BY <1>8 DEF Configure
    <2> QED
        BY <1>8, <2>1, <2>2, DurableFrame DEF Configure
<1>9. ASSUME NEW p \in pushes, NEW e \in Engines, PushOne(p, e) PROVE DurableInv'
    BY <1>9 DEF PushOne, DurableInv, RestInv, SaveInv, Current, SameLoaded
<1>10. CASE Crash
    BY <1>10 DEF Crash, DurableInv
<1>11. CASE Start
    <2>1. lock' = Null
        BY <1>11 DEF Start, TypeInv, LockInv, Active, Holding
    <2>2. \A f \in Fields : SameLoaded(row', cache', f)
        BY <1>11, ReloadPointwise, ValuesSettle DEF Start, SameLoaded, TypeInv, ValueInv, Stored, Normal
    <2>3. Tabled(cachedCreds)'
        BY <1>11 DEF Start, loadedCreds, DurableInv
    <2>4. table' = table
        BY <1>11 DEF Start
    <2> QED
        BY <2>1, <2>2, <2>3, <2>4 DEF DurableInv, RestInv
<1>12. CASE UNCHANGED vars
    BY <1>12 DEF vars, DurableInv, RestInv, SaveInv, Current, SameLoaded
<1> QED
    BY <1>1, <1>2, <1>3, <1>4, <1>5, <1>6, <1>7, <1>8, <1>9, <1>10, <1>11, <1>12 DEF Next, Save

\* The cache is what a restart would load, whichever of its writes a Save
\* fails in and wherever the process dies.
THEOREM CacheDurable == Spec => []CacheIsDurable
<1>1. TypeInv /\ DurableInv => CacheIsDurable
    <2> SUFFICES ASSUME TypeInv, DurableInv, up, lock = Null
                 PROVE  /\ Reload(cache) = Reload(row)
                        /\ "credsFail" \notin since /\ cachedCreds # Null => table = cachedCreds \ Nameless
        BY DEF CacheIsDurable
    <2>1. RestInv
        BY DEF DurableInv
    <2>2. \A m \in {cache, row} : /\ Reload(m) \in [Fields -> Int]
                                  /\ \A f \in Fields : Reload(m)[f] = ReloadVal(f, m[f])
        BY ReloadPointwise DEF TypeInv, ValueInv, Stored, Normal
    <2> QED
        BY <2>1, <2>2 DEF RestInv, SameLoaded, Tabled
<1> QED
    BY <1>1, TypeInit, TypeStep, DurableInit, DurableStep, PTL DEF Spec
-----------------------------------------------------------------------------
(* The store implements SettingsRegister.                                   *)

\* SettingsRegister uses the operators of SettingsFields too.
LEMMA SameOperators ==
    /\ Register!Default = Default
    /\ \A m : Register!Reload(m) = Reload(m)
    /\ \A m, c, set : Register!Merge(m, c, set) = Merge(m, c, set)
<1>1. Register!CatOf = CatOf /\ Register!Default = Default
    BY DEF Register!CatOf, CatOf, Register!Default, Default
<1>2. Register!Fields = Fields
    BY <1>1 DEF Register!Fields, Fields
<1>3. \A m : Register!Reload(m) = Reload(m)
    BY <1>1, <1>2 DEF Register!Reload, Reload
<1>4. \A c, set : Register!Kept(c, set) = Kept(c, set)
    BY <1>1, <1>2 DEF Register!Kept, Kept, Register!FieldsOf, FieldsOf
<1>5. \A m : Register!Normalized(m) = Normalized(m)
    BY DEF Register!Normalized, Normalized, Register!normalizeProxySettings, normalizeProxySettings,
           Register!normalizeEngineConfig, normalizeEngineConfig,
           Register!normalizeVPNSettings, normalizeVPNSettings
<1>6. \A m, c, set : Register!Merge(m, c, set) = Merge(m, c, set)
    BY <1>2, <1>4, <1>5 DEF Register!Merge, Merge
<1> QED
    BY <1>1, <1>3, <1>6

\* The merge of a payload into what was loaded, written over the row.
LEMMA WrittenRow ==
    ASSUME Stored(row), Stored(cache), \A f \in Fields : SameLoaded(row, cache, f),
           NEW p, PayloadType(p),
           row' = Mix(Merge(cache, p.cat, p.set), row, p.cat)
    PROVE  Reload(row') = Reload(Merge(Reload(row), p.cat, p.set))
<1> DEFINE mc == Merge(cache, p.cat, p.set)
           lr == Reload(row)
           ml == Merge(lr, p.cat, p.set)
<1>1. /\ row \in [Fields -> Int] /\ cache \in [Fields -> Int] /\ SetType(p.set)
      /\ \A f \in Fields : NormVal(f, row[f]) = row[f] /\ NormVal(f, cache[f]) = cache[f]
    BY DEF Stored, Normal, PayloadType
<1>2. lr \in [Fields -> Int] /\ \A f \in Fields : lr[f] = ReloadVal(f, row[f])
    BY <1>1, ReloadPointwise
<1>3. mc \in [Fields -> Int]
      /\ \A f \in Fields : mc[f] = NormVal(f, IF f \in Kept(p.cat, p.set) THEN p.set[f] ELSE cache[f])
    BY <1>1, MergePointwise
<1>4. row' \in [Fields -> Int]
      /\ \A f \in Fields : row'[f] = IF CatOf[f] = p.cat THEN mc[f] ELSE row[f]
    BY <1>1, <1>3 DEF Mix
<1> HIDE DEF lr, mc
<1>5. ml \in [Fields -> Int]
      /\ \A f \in Fields : ml[f] = NormVal(f, IF f \in Kept(p.cat, p.set) THEN p.set[f] ELSE lr[f])
    BY <1>1, <1>2, MergePointwise
<1> HIDE DEF ml
<1>6. ASSUME NEW f \in Fields PROVE ReloadVal(f, row'[f]) = ReloadVal(f, ml[f])
    <2>1. f \in Kept(p.cat, p.set) => CatOf[f] = p.cat
        BY DEF Kept, FieldsOf
    <2>2. NormVal(f, ReloadVal(f, row[f])) = ReloadVal(f, row[f])
        BY <1>1, ValuesSettle
    <2>3. ReloadVal(f, ReloadVal(f, row[f])) = ReloadVal(f, row[f])
        BY <1>1, ValuesSettle
    <2>4. CASE f \in Kept(p.cat, p.set)
        BY <2>1, <2>4, <1>3, <1>4, <1>5
    <2>5. CASE f \notin Kept(p.cat, p.set)
        <3>1. ml[f] = ReloadVal(f, row[f])
            BY <2>2, <2>5, <1>2, <1>5
        <3>2. row'[f] \in {row[f], cache[f]}
            BY <2>5, <1>1, <1>3, <1>4
        <3> QED
            BY <2>3, <3>1, <3>2 DEF SameLoaded
    <2> QED
        BY <2>4, <2>5
<1>7. Reload(row') \in [Fields -> Int] /\ \A f \in Fields : Reload(row')[f] = ReloadVal(f, row'[f])
    BY <1>4, ReloadPointwise
<1>8. Reload(ml) \in [Fields -> Int] /\ \A f \in Fields : Reload(ml)[f] = ReloadVal(f, ml[f])
    BY <1>5, ReloadPointwise
<1>9. Reload(row') = Reload(ml)
    BY <1>6, <1>7, <1>8
<1> QED
    BY <1>9 DEF ml, lr

\* Every step of the program writes the register as one Save does, or leaves it.
LEMMA RegisterStep ==
    ASSUME TypeInv, DurableInv, [Next]_vars
    PROVE  [Register!Next]_(Reload(row))
<1> SUFFICES Register!Next \/ UNCHANGED row
    BY DEF Reload
<1>1. ASSUME NEW h \in Handlers, SaveRow(h) PROVE Register!Next \/ UNCHANGED row
    <2>1. handler[h].pc = "row" /\ up /\ lock = h /\ h # Null
        BY <1>1, ActiveMeansUp DEF SaveRow, TypeInv, LockInv, Holding
    <2>2. SaveInv(h)
        BY <2>1 DEF DurableInv
    <2> DEFINE p == Current(h)
               w == [cat |-> p.cat, set |-> p.set]
    <2>3. p \in Allowed /\ PayloadType(p)
        BY <2>1, CurrentType DEF TypeInv
    <2>4. CASE row' = Mix(handler[h].merged, row, Current(h).cat)
        <3>1. Reload(row') = Reload(Merge(Reload(row), p.cat, p.set))
            <4>1. Stored(row) /\ Stored(cache)
                BY DEF TypeInv, ValueInv
            <4>2. \A f \in Fields : SameLoaded(row, cache, f)
                BY <2>1, <2>2 DEF SaveInv
            <4>3. row' = Mix(Merge(cache, p.cat, p.set), row, p.cat)
                BY <2>2, <2>4 DEF SaveInv
            <4> HIDE DEF p
            <4> QED
                BY <2>3, <4>1, <4>2, <4>3, WrittenRow
        <3>2. \/ w \in {[cat |-> q.cat, set |-> q.set] : q \in Payloads}
              \/ w \in [cat : {"vpn_settings"}, set : OwnSets]
            BY <2>3 DEF Allowed, OwnPayloads
        <3> HIDE DEF p
        <3>3. w.cat = p.cat /\ w.set = p.set
            OBVIOUS
        <3> HIDE DEF w
        <3>4. Register!Write(w)
            BY <3>1, <3>3, SameOperators DEF Register!Write
        <3> QED
            BY <3>2, <3>4 DEF Register!Next
    <2> QED
        BY <1>1, <2>4, RowEffect DEF TypeInv
<1>2. ASSUME NEW h \in Handlers, Update(h) \/ Credential(h) PROVE UNCHANGED row
    BY <1>2, Accepted DEF Accept
<1>3. ASSUME NEW h \in Handlers,
             \/ SaveMerge(h) \/ SaveCredentials(h) \/ SaveCache(h)
             \/ ApplyLoad(h) \/ ApplyStore(h) \/ Configure(h)
      PROVE  UNCHANGED row
    BY <1>3 DEF SaveMerge, SaveCredentials, SaveCache, ApplyLoad, ApplyStore, Configure
<1>4. ASSUME NEW p \in pushes, NEW e \in Engines, PushOne(p, e) PROVE UNCHANGED row
    BY <1>4 DEF PushOne
<1>5. CASE Crash \/ Start
    BY <1>5 DEF Crash, Start
<1>6. CASE UNCHANGED vars
    BY <1>6 DEF vars
<1> QED
    BY <1>1, <1>2, <1>3, <1>4, <1>5, <1>6 DEF Next, Save

\* The durable settings change by whole Saves, one after the other, each on the
\* result of the one before it: the store implements SettingsRegister, with what
\* the next start would load as the value of the register.
THEOREM StoreImplementsRegister == Spec => StoreIsRegister
<1>1. Init => Register!Init
    BY SameOperators DEF Init, Register!Init
<1>2. TypeInv /\ DurableInv /\ [Next]_vars => [Register!Next]_(Reload(row))
    BY RegisterStep
<1> QED
    BY <1>1, <1>2, TypeInit, TypeStep, DurableInit, DurableStep, PTL
       DEF Spec, StoreIsRegister, Register!Spec
-----------------------------------------------------------------------------
(* The runtime.  What is saved and what is applied may differ in six ways:    *)
(* ApplyEngineSettings takes engine_config's keys, which the store drops;     *)
(* ApplyVPNSettings ignores a flag that is no boolean, which the store takes  *)
(* as true, and a port that is not positive, which the store keeps;           *)
(* ApplySettings cuts off a fraction, which the store keeps, and accepts a    *)
(* mode in another case, which the store replaces by the default; the         *)
(* credential manager is not configured with a null list.                     *)

OwnKeys  == \A p \in Payloads : p.cat = "engine_settings" => "buffer_time" \notin DOMAIN p.set
Booleans == \A p \in Payloads : "enabled" \in DOMAIN p.set => p.set["enabled"] \in {0, 1}
Positive == \A p \in Payloads : "api_port" \in DOMAIN p.set => p.set["api_port"] > 0
Whole    == \A p \in Payloads : "proxy_prebuffer_seconds" \in DOMAIN p.set =>
                toInt(p.set["proxy_prebuffer_seconds"]) = p.set["proxy_prebuffer_seconds"]
Cased    == \A p \in Payloads : "stream_mode" \in DOMAIN p.set => p.set["stream_mode"] # 2
Lists    == \A p \in Payloads : p.creds # Null

\* As long as no two requests overlap, there is one handler at work, and the
\* config that it has loaded is still the live one.
SoloInv ==
    up /\ "overlap" \notin since =>
        /\ \A g, h \in Active : g = h
        /\ \A h \in Handlers : handler[h].pc = "store" => handler[h].old = live

\* A step of the handler h, of no other and not of a new one.
LEMMA SoloFrame ==
    ASSUME SoloInv, NEW h \in Handlers, Others(h), handler[h].pc # "idle", up' = up, since \subseteq since'
    PROVE  "overlap" \notin since' /\ up' =>
              /\ \A g \in Handlers : g # h => handler[g].pc = "idle" /\ handler'[g].pc = "idle"
              /\ \A f, g \in Active' : f = g
BY DEF SoloInv, Others, Active

LEMMA SoloStep == TypeInv /\ SoloInv /\ [Next]_vars => SoloInv'
<1> SUFFICES ASSUME TypeInv, SoloInv, [Next]_vars, up', "overlap" \notin since'
             PROVE  /\ \A g, h \in Active' : g = h
                    /\ \A h \in Handlers : handler'[h].pc = "store" => handler'[h].old = live'
    BY DEF SoloInv
<1> DEFINE Goal == /\ \A g, h \in Active' : g = h
                   /\ \A h \in Handlers : handler'[h].pc = "store" => handler'[h].old = live'
<1>1. ASSUME NEW h \in Handlers, Update(h) \/ Credential(h) PROVE Goal
    <2>1. PICK surface \in {"mg", "orch"}, t \in Seq(Allowed) : Accept(h, surface, t)
        BY <1>1, Accepted
    <2>2. Others(h) /\ handler'[h].pc = "lock"
        BY <2>1, AcceptEffect DEF TypeInv, ValueInv
    <2>3. Active = {}
        BY <2>1 DEF Accept
    <2> QED
        BY <2>1, <2>2, <2>3 DEF Others, Active
<1>2. ASSUME NEW h \in Handlers, Others(h), handler[h].pc # "idle", up' = up, since \subseteq since',
             handler'[h].pc = "store" => handler'[h].old = live'
      PROVE  Goal
    BY <1>2, SoloFrame
<1>3. ASSUME NEW h \in Handlers, Save(h) PROVE Goal
    <2>1. CASE SaveMerge(h)
        BY <1>2, <2>1, MergeEffect DEF Goes, SaveMerge
    <2>2. CASE SaveRow(h)
        <3>1. Others(h) /\ handler'[h].pc # "store"
            BY <2>2, RowEffect DEF Goes, Done, TypeInv
        <3> QED
            BY <1>2, <2>2, <3>1 DEF SaveRow
    <2>3. CASE SaveCredentials(h)
        <3>1. Goes(h, "cache")
            BY <2>3, PcEffect DEF SaveCredentials, TypeInv, PCs
        <3> QED
            BY <1>2, <2>3, <3>1 DEF Goes, SaveCredentials
    <2>4. CASE SaveCache(h)
        <3>1. Others(h) /\ handler'[h].pc # "store"
            BY <2>4, CacheEffect DEF Goes, TypeInv
        <3> QED
            BY <1>2, <2>4, <3>1 DEF SaveCache
    <2> QED
        BY <1>3, <2>1, <2>2, <2>3, <2>4 DEF Save
<1>4. ASSUME NEW h \in Handlers, ApplyLoad(h) PROVE Goal
    BY <1>2, <1>4, LoadEffect DEF Goes, ApplyLoad
<1>5. ASSUME NEW h \in Handlers, ApplyStore(h) PROVE Goal
    <2>1. Others(h) /\ handler'[h].pc # "store"
        BY <1>5, StoreEffect DEF Goes, Done, TypeInv
    <2>2. since \subseteq since'
        BY <1>5 DEF ApplyStore
    <2> QED
        BY <1>2, <1>5, <2>1, <2>2 DEF ApplyStore
<1>6. ASSUME NEW h \in Handlers, Configure(h) PROVE Goal
    <2>1. Others(h) /\ handler'[h].pc # "store"
        BY <1>6, AdvanceDone DEF Configure, Done, TypeInv
    <2>2. since \subseteq since'
        BY <1>6 DEF Configure
    <2> QED
        BY <1>2, <1>6, <2>1, <2>2 DEF Configure
<1>7. ASSUME NEW p \in pushes, NEW e \in Engines, PushOne(p, e) PROVE Goal
    BY <1>7 DEF PushOne, SoloInv, Active
<1>8. CASE Crash
    BY <1>8 DEF Crash
<1>9. CASE Start
    <2>1. \A h \in Handlers : handler'[h].pc = "idle"
        BY <1>9 DEF Start, TypeInv, LockInv, Active
    <2> QED
        BY <2>1 DEF Active
<1>10. CASE UNCHANGED vars
    BY <1>10 DEF vars, SoloInv, Active
<1> QED
    BY <1>1, <1>3, <1>4, <1>5, <1>6, <1>7, <1>8, <1>9, <1>10 DEF Next

\* What Apply takes from a payload: the buffer only from engine_config, ...
LEMMA BufferApplied ==
    ASSUME OwnKeys, NEW m \in [Fields -> Int], NEW p \in Allowed
    PROVE  Apply(m, p.cat, p.set)["buffer_time"] =
              IF p.cat = "engine_config" /\ "buffer_time" \in DOMAIN p.set
              THEN p.set["buffer_time"] ELSE m["buffer_time"]
<1>1. PayloadType(p) /\ (p.cat = "engine_settings" => "buffer_time" \notin DOMAIN p.set)
    BY AllowedType DEF Allowed, OwnPayloads, OwnKeys
<1>2. p.cat \in {"proxy_settings", "engine_settings", "orchestrator_settings",
                 "engine_config", "vpn_settings"}
    BY <1>1, FieldsAre DEF PayloadType, Categories, CatOf
<1>3. \A c : "buffer_time" \in FieldsOf(c) <=> c = "engine_config"
    BY FieldsAre DEF FieldsOf, CatOf
<1>4. ASSUME NEW keys
      PROVE  Taken(m, p.set, keys)["buffer_time"] =
                IF "buffer_time" \in keys /\ "buffer_time" \in DOMAIN p.set
                THEN p.set["buffer_time"] ELSE m["buffer_time"]
    BY FieldsAre DEF Taken, TakenValue
<1> QED
    BY <1>1, <1>2, <1>3, <1>4
       DEF Apply, ApplySettings, ApplyEngineSettings, ApplyOrchestratorSettings,
           ApplyEngineConfig, ApplyVPNSettings

\* One push at most is under way, it carries the live value, and the engines
\* that it has done have that value.
PushInv ==
    /\ ~up => pushes = {}
    /\ up /\ since \cap {"overlap", "pushFails", "unaware"} = {} =>
          /\ \A q, r \in pushes : q = r
          /\ \A q \in pushes : /\ q.val = live["buffer_time"]
                               /\ \A e \in Engines \ q.left : engine[e] = live["buffer_time"]
          /\ pushes = {} => \A e \in Engines : engine[e] = live["buffer_time"]

LEMMA PushStep ==
    ASSUME OwnKeys
    PROVE  TypeInv /\ SoloInv /\ PushInv /\ [Next]_vars => PushInv'
<1> SUFFICES ASSUME TypeInv, SoloInv, PushInv, [Next]_vars PROVE PushInv'
    OBVIOUS
<1> DEFINE bad == {"overlap", "pushFails", "unaware"}
<1>1. ASSUME UNCHANGED <<pushes, engine, up>>, live' = live, since \subseteq since' PROVE PushInv'
    BY <1>1 DEF PushInv
<1>2. ASSUME NEW h \in Handlers, Update(h) \/ Credential(h) PROVE PushInv'
    <2>1. PICK surface \in {"mg", "orch"}, t \in Seq(Allowed) : Accept(h, surface, t)
        BY <1>2, Accepted
    <2> QED
        BY <1>1, <2>1 DEF Accept
<1>3. ASSUME NEW h \in Handlers, Save(h) \/ ApplyLoad(h) \/ Configure(h) PROVE PushInv'
    <2>1. UNCHANGED <<pushes, engine, up>> /\ live' = live /\ since \subseteq since'
        BY <1>3 DEF Save, SaveMerge, SaveRow, SaveCredentials, SaveCache, ApplyLoad, Configure
    <2> QED
        BY <1>1, <2>1
<1>4. ASSUME NEW h \in Handlers, ApplyStore(h) PROVE PushInv'
    <2> DEFINE p    == Current(h)
               push == p.cat = "engine_config" /\ "buffer_time" \in DOMAIN p.set
               new  == [no |-> handler[h].no, val |-> p.set["buffer_time"], left |-> Engines]
    <2>1. up /\ p \in Allowed /\ handler[h].pc = "store"
        BY <1>4, ActiveMeansUp, CurrentType DEF TypeInv, ApplyStore
    <2>2. up' = up /\ UNCHANGED engine
        BY <1>4 DEF ApplyStore
    <2>3. SUFFICES ASSUME since' \cap bad = {}
                   PROVE  /\ \A q, r \in pushes' : q = r
                          /\ \A q \in pushes' : /\ q.val = live'["buffer_time"]
                                                /\ \A e \in Engines \ q.left : engine[e] = live'["buffer_time"]
                          /\ pushes' = {} => \A e \in Engines : engine[e] = live'["buffer_time"]
        BY <2>1, <2>2 DEF PushInv
    <2>4. since \cap bad = {}
        BY <1>4, <2>3 DEF ApplyStore
    <2>5. live' = Apply(live, p.cat, p.set) /\ live \in [Fields -> Int]
        BY <1>4, <2>1, <2>4 DEF ApplyStore, SoloInv, TypeInv, ValueInv
    <2>6. live'["buffer_time"] = IF push THEN p.set["buffer_time"] ELSE live["buffer_time"]
        BY <2>1, <2>5, BufferApplied
    <2>7. CASE ~push
        BY <1>4, <2>1, <2>4, <2>6, <2>7 DEF ApplyStore, PushInv
    <2>8. CASE push
        <3>1. handler[h].surface = "mg" /\ pushes' = pushes \cup {new}
            BY <1>4, <2>3, <2>8 DEF ApplyStore
        <3>2. pushes = {} \/ pushes' = pushes
            BY <1>4, <2>3 DEF ApplyStore
        <3>3. new.val = live'["buffer_time"] /\ new.left = Engines
            BY <2>6, <2>8
        <3> HIDE DEF new
        <3>4. pushes' = {new}
            BY <2>1, <2>4, <3>1, <3>2 DEF PushInv
        <3> QED
            BY <3>3, <3>4
    <2> QED
        BY <2>7, <2>8
<1>5. ASSUME NEW p \in pushes, NEW e \in Engines, PushOne(p, e) PROVE PushInv'
    <2> DEFINE rest == [p EXCEPT !.left = @ \ {e}]
    <2>1. up /\ up' = up /\ live' = live /\ p \in PushType
        BY <1>5 DEF PushInv, PushOne, TypeInv, ValueInv
    <2>2. rest.val = p.val /\ rest.left = p.left \ {e}
        BY <2>1 DEF PushType
    <2>3. SUFFICES ASSUME since' \cap bad = {}
                   PROVE  /\ \A q, r \in pushes' : q = r
                          /\ \A q \in pushes' : /\ q.val = live["buffer_time"]
                                                /\ \A d \in Engines \ q.left : engine'[d] = live["buffer_time"]
                          /\ pushes' = {} => \A d \in Engines : engine'[d] = live["buffer_time"]
        BY <2>1 DEF PushInv
    <2>4. since \cap bad = {} /\ engine' = [engine EXCEPT ![e] = p.val]
        BY <1>5, <2>3 DEF PushOne
    <2>5. /\ p.val = live["buffer_time"] /\ pushes = {p}
          /\ \A d \in Engines \ p.left : engine[d] = live["buffer_time"]
        BY <2>1, <2>4 DEF PushInv
    <2>6. \A d \in Engines : d = e \/ d \notin p.left => engine'[d] = live["buffer_time"]
        BY <2>4, <2>5 DEF TypeInv, ValueInv
    <2> HIDE DEF rest
    <2>7. pushes' = IF p.left = {e} THEN {} ELSE {rest}
        BY <1>5, <2>5 DEF PushOne, rest
    <2> QED
        BY <2>2, <2>5, <2>6, <2>7
<1>6. CASE Crash
    BY <1>6 DEF Crash, PushInv
<1>7. CASE Start
    BY <1>7 DEF Start, PushInv
<1>8. CASE UNCHANGED vars
    BY <1>1, <1>8 DEF vars
<1> QED
    BY <1>2, <1>3, <1>4, <1>5, <1>6, <1>7, <1>8 DEF Next

\* Once no push is under way, none has failed and none has overlapped another,
\* every engine has the live buffer, for requests that carry the buffer only as
\* a key of engine_config.
THEOREM EnginesFollow == ASSUME OwnKeys PROVE Spec => []EnginesFollowConfig
<1>1. Init => SoloInv /\ PushInv
    BY DEF Init, SoloInv, PushInv
<1>2. PushInv => EnginesFollowConfig
    BY DEF PushInv, EnginesFollowConfig
<1> QED
    BY <1>1, <1>2, TypeInit, TypeStep, SoloStep, PushStep, PTL DEF Spec

\* The config takes as it is a value that is none of the surprising ones, ...
LEMMA TakenPlain ==
    ASSUME NEW f \in Fields, NEW v \in Int, NEW old,
           f = "enabled" => v \in {0, 1}, f = "api_port" => v > 0,
           f = "proxy_prebuffer_seconds" => toInt(v) = v, f = "stream_mode" => v # 2
    PROVE  TakenValue(f, v, old) = v
BY DEF TakenValue

\* ... and that holds of everything that has been stored.
LEMMA StoredPlain ==
    ASSUME Positive, Whole, NEW m, Stored(m), NEW f \in Fields, NEW old
    PROVE  TakenValue(f, m[f], old) = m[f]
<1>1. m[f] \in Int
    BY DEF Stored, Normal
<1>2. m["api_port"] > 0
    <2>1. \A v \in Given("api_port") : v > 0
        BY DEF Given, Positive, Default
    <2> QED
        BY <2>1, GivenType DEF Stored
<1>3. toInt(m["proxy_prebuffer_seconds"]) = m["proxy_prebuffer_seconds"]
    <2>1. toInt(0) = 0 /\ toInt(60) = 60 /\ toInt(6) = 6
        BY DEF toInt
    <2>2. PICK v \in Given("proxy_prebuffer_seconds") :
             m["proxy_prebuffer_seconds"] = NormVal("proxy_prebuffer_seconds", v)
        BY DEF Stored, From
    <2>3. toInt(v) = v
        BY <2>1 DEF Given, Whole, Default
    <2>4. m["proxy_prebuffer_seconds"] \in {0, 60, v}
        BY <2>2 DEF NormVal
    <2> QED
        BY <2>1, <2>3, <2>4
<1> QED
    BY <1>1, <1>2, <1>3, StoredRanges, TakenPlain

\* Of a payload without surprises exactly the keys are applied that the store
\* keeps.
LEMMA Applied ==
    ASSUME OwnKeys, Booleans, Positive, Whole, Cased, NEW m \in [Fields -> Int], NEW p \in Allowed, p.apply
    PROVE  \A f \in Fields : Apply(m, p.cat, p.set)[f] =
              IF f \in Kept(p.cat, p.set) THEN p.set[f] ELSE m[f]
<1>1. /\ PayloadType(p) /\ p \in Payloads
      /\ p.cat = "engine_settings" => "buffer_time" \notin DOMAIN p.set
    BY AllowedType DEF Allowed, OwnPayloads, OwnKeys
<1>2. p.cat \in {"proxy_settings", "engine_settings", "orchestrator_settings",
                 "engine_config", "vpn_settings"}
    BY <1>1, FieldsAre DEF PayloadType, Categories, CatOf
<1>3. FieldsOf("engine_config") = {"buffer_time"}
    BY FieldsAre DEF FieldsOf, CatOf
<1>4. ASSUME NEW keys, NEW f \in Fields
      PROVE  Taken(m, p.set, keys)[f] = IF f \in keys \cap DOMAIN p.set THEN p.set[f] ELSE m[f]
    <2>1. ASSUME f \in DOMAIN p.set PROVE TakenValue(f, p.set[f], m[f]) = p.set[f]
        <3>1. p.set[f] \in Int
            BY <1>1, <2>1 DEF PayloadType, SetType
        <3> QED
            BY <1>1, <2>1, <3>1, TakenPlain DEF Booleans, Positive, Whole, Cased
    <2> QED
        BY <2>1 DEF Taken
<1>5. CASE p.cat = "engine_settings"
    BY <1>1, <1>3, <1>4, <1>5 DEF Apply, ApplyEngineSettings, Kept
<1>6. CASE p.cat = "vpn_settings"
    BY <1>1, <1>4, <1>6, VpnFields DEF Apply, ApplyVPNSettings, Kept
<1>7. CASE p.cat \in {"proxy_settings", "orchestrator_settings", "engine_config"}
    BY <1>4, <1>7 DEF Apply, ApplySettings, ApplyOrchestratorSettings, ApplyEngineConfig, Kept
<1> QED
    BY <1>2, <1>5, <1>6, <1>7

\* A list holds at most one payload of the handler's own, as its only element.
TodoInv == \A h \in Handlers : handler[h].pc # "idle" =>
              \A i \in 2 .. Len(handler[h].todo) : handler[h].todo[i] \in Payloads

\* The live settings m normalize to the cached ones.
Follows(m) == \A f \in Fields : NormVal(f, m[f]) = cache[f] \/ (f = "docker_network" /\ cache[f] = 0)

PoolFollows == "unaware" \notin since => pool = AsSet(cachedCreds)

\* Where the one handler at work is between its Save and the end of its Apply.
WorkInv(h) ==
    LET p == Current(h)
    IN  /\ handler[h].pc \in {"lock", "row", "creds", "cache"} =>
              /\ Follows(live) /\ PoolFollows
              /\ ~p.apply => \A f \in FieldsOf("vpn_settings") : p.set[f] = cache[f]
        /\ handler[h].pc \in {"load", "store"} =>
              /\ p.apply /\ Follows(Apply(live, p.cat, p.set))
              /\ IF p.creds = Absent THEN PoolFollows ELSE cachedCreds = p.creds
        /\ handler[h].pc = "configure" => Follows(live) /\ cachedCreds = p.creds

RunInv ==
    up /\ "overlap" \notin since =>
        /\ Active = {} => Follows(live) /\ PoolFollows
        /\ \A h \in Active : WorkInv(h)

LEMMA TodoStep == TypeInv /\ TodoInv /\ [Next]_vars => TodoInv'
<1> SUFFICES ASSUME TypeInv, TodoInv, [Next]_vars PROVE TodoInv'
    OBVIOUS
<1>1. ASSUME NEW h \in Handlers, Others(h), handler[h].pc # "idle",
             \/ handler'[h].pc = "idle" \/ handler'[h].todo = handler[h].todo
             \/ handler'[h].todo = Tail(handler[h].todo)
      PROVE  TodoInv'
    <2>1. handler[h].todo \in Seq(Allowed) /\ handler[h].todo # <<>>
        BY <1>1 DEF TypeInv, HandlerInv, Task
    <2>2. ASSUME NEW s \in Seq(Allowed), s # <<>>, \A i \in 2 .. Len(s) : s[i] \in Payloads
          PROVE  \A i \in 2 .. Len(Tail(s)) : Tail(s)[i] \in Payloads
        <3>1. Len(s) \in Nat /\ Len(Tail(s)) = Len(s) - 1 /\ \A i \in 1 .. Len(Tail(s)) : Tail(s)[i] = s[i + 1]
            BY <2>2, HeadTailProperties, LenProperties
        <3> QED
            BY <2>2, <3>1
    <2>3. \A i \in 2 .. Len(Tail(handler[h].todo)) : Tail(handler[h].todo)[i] \in Payloads
        BY <1>1, <2>1, <2>2 DEF TodoInv
    <2> QED
        BY <1>1, <2>3 DEF TodoInv, Others
<1>2. ASSUME NEW h \in Handlers, Update(h) \/ Credential(h) PROVE TodoInv'
    <2>1. PICK surface \in {"mg", "orch"}, t \in Seq(Allowed) :
             /\ Accept(h, surface, t)
             /\ t \in Seq(Payloads) \/ \E p : Fresh(p) /\ t = <<p>>
        BY <1>2, Accepted
    <2>2. Others(h) /\ handler'[h].todo = t
        BY <2>1, AcceptEffect DEF TypeInv, ValueInv
    <2>3. \A i \in 2 .. Len(t) : t[i] \in Payloads
        BY <2>1
    <2> QED
        BY <2>2, <2>3 DEF TodoInv, Others
<1>3. ASSUME NEW h \in Handlers, Save(h) PROVE TodoInv'
    <2>1. CASE SaveMerge(h)
        BY <1>1, <2>1, MergeEffect DEF Goes, SaveMerge
    <2>2. CASE SaveRow(h)
        BY <1>1, <2>2, RowEffect DEF Goes, Done, SaveRow, TypeInv
    <2>3. CASE SaveCredentials(h)
        BY <1>1, <2>3, PcEffect DEF Goes, SaveCredentials, TypeInv, PCs
    <2>4. CASE SaveCache(h)
        BY <1>1, <2>4, CacheEffect DEF Goes, SaveCache, TypeInv
    <2> QED
        BY <1>3, <2>1, <2>2, <2>3, <2>4 DEF Save
<1>4. ASSUME NEW h \in Handlers, ApplyLoad(h) PROVE TodoInv'
    BY <1>1, <1>4, LoadEffect DEF Goes, ApplyLoad
<1>5. ASSUME NEW h \in Handlers, ApplyStore(h) PROVE TodoInv'
    BY <1>1, <1>5, StoreEffect DEF Goes, Done, ApplyStore, TypeInv
<1>6. ASSUME NEW h \in Handlers, Configure(h) PROVE TodoInv'
    BY <1>1, <1>6, AdvanceDone DEF Done, Configure, TypeInv
<1>7. ASSUME NEW p \in pushes, NEW e \in Engines, PushOne(p, e) PROVE TodoInv'
    BY <1>7 DEF PushOne, TodoInv
<1>8. CASE Crash
    BY <1>8, IdleType DEF Crash, TodoInv
<1>9. CASE Start
    BY <1>9 DEF Start, TodoInv
<1>10. CASE UNCHANGED vars
    BY <1>10 DEF vars, TodoInv
<1> QED
    BY <1>2, <1>3, <1>4, <1>5, <1>6, <1>7, <1>8, <1>9, <1>10 DEF Next

\* The next payload of a list is one of the request, which is applied.
LEMMA NextApplies ==
    ASSUME TypeInv, TodoInv, NEW h \in Handlers, handler[h].pc # "idle", Done(h), handler'[h].pc = "lock"
    PROVE  Current(h)'.apply
<1> DEFINE s == handler[h].todo
<1>1. /\ s \in Seq(Allowed) /\ s # <<>> /\ \A i \in 2 .. Len(s) : s[i] \in Payloads
      /\ handler'[h].todo = Tail(s) /\ Tail(s) # <<>>
    BY DEF TypeInv, HandlerInv, Task, TodoInv, Done
<1> HIDE DEF s
<1>2. /\ Tail(s) \in Seq(Allowed) /\ Len(s) \in Nat /\ Len(Tail(s)) = Len(s) - 1
      /\ \A i \in 1 .. Len(Tail(s)) : Tail(s)[i] = s[i + 1]
    BY <1>1, HeadTailProperties, LenProperties
<1>3. Len(Tail(s)) \in Nat \ {0}
    BY <1>1, <1>2, EmptySeq
<1>4. Head(Tail(s)) = Tail(s)[1] /\ Tail(s)[1] = s[2] /\ 2 \in 2 .. Len(s)
    BY <1>2, <1>3
<1>5. Head(Tail(s)) \in Payloads
    BY <1>1, <1>4
<1> QED
    BY <1>1, <1>5 DEF Current, WellTyped

\* What SaveCache leaves in the cache.
LEMMA CacheWritten ==
    ASSUME TypeInv, NEW h \in Handlers, SaveCache(h), SaveInv(h)
    PROVE  LET p == Current(h) IN
           /\ \A f \in Fields : cache'[f] = IF f \in Kept(p.cat, p.set) THEN NormVal(f, p.set[f]) ELSE cache[f]
           /\ cachedCreds' = IF p.creds = Absent THEN cachedCreds ELSE p.creds
<1> DEFINE p == Current(h)
<1>1. p \in Allowed /\ PayloadType(p)
    BY CurrentType DEF SaveCache, TypeInv
<1>2. \A f \in Fields : /\ NormVal(f, cache[f]) = cache[f]
                        /\ f \in Kept(p.cat, p.set) => CatOf[f] = p.cat
    BY DEF TypeInv, ValueInv, Stored, Normal, Kept, FieldsOf
<1>3. cache \in [Fields -> Int] /\ SetType(p.set)
    BY <1>1 DEF TypeInv, ValueInv, Stored, Normal, PayloadType
<1>4. \A f \in Fields : Merge(cache, p.cat, p.set)[f]
                        = NormVal(f, IF f \in Kept(p.cat, p.set) THEN p.set[f] ELSE cache[f])
    BY <1>3, MergePointwise
<1>5. \A f \in Fields : cache'[f] = IF CatOf[f] = p.cat THEN Merge(cache, p.cat, p.set)[f] ELSE cache[f]
    BY DEF SaveCache, SaveInv
<1>6. \A f \in Fields : cache'[f] = IF f \in Kept(p.cat, p.set) THEN NormVal(f, p.set[f]) ELSE cache[f]
    BY <1>2, <1>4, <1>5
<1>7. cachedCreds' = IF p.creds = Absent THEN cachedCreds ELSE p.creds
    BY <1>1 DEF SaveCache, SaveInv, PayloadType
<1> QED
    BY <1>6, <1>7

LEMMA RunStep ==
    ASSUME OwnKeys, Booleans, Positive, Whole, Cased, Lists
    PROVE  TypeInv /\ TypeInv' /\ DurableInv /\ SoloInv /\ TodoInv /\ RunInv /\ [Next]_vars => RunInv'
<1> SUFFICES ASSUME TypeInv, TypeInv', DurableInv, SoloInv, TodoInv, RunInv, [Next]_vars,
                    up', "overlap" \notin since'
             PROVE  /\ Active' = {} => Follows(live)' /\ PoolFollows'
                    /\ \A h \in Active' : WorkInv(h)'
    BY DEF RunInv
<1> DEFINE Goal == /\ Active' = {} => Follows(live)' /\ PoolFollows'
                   /\ \A h \in Active' : WorkInv(h)'
<1>1. ASSUME NEW h \in Handlers, Others(h), handler[h].pc # "idle", up' = up, since \subseteq since',
             handler'[h].pc = "idle" => Follows(live)' /\ PoolFollows',
             handler'[h].pc # "idle" => WorkInv(h)'
      PROVE  Goal
    <2>1. \A g \in Handlers : g # h => handler'[g].pc = "idle"
        BY <1>1, SoloFrame
    <2> QED
        BY <1>1, <2>1 DEF Active
<1>2. ASSUME NEW h \in Handlers, Update(h) \/ Credential(h) PROVE Goal
    <2>1. PICK surface \in {"mg", "orch"}, t \in Seq(Allowed) :
             /\ Accept(h, surface, t)
             /\ t \in Seq(Payloads) \/ \E p : Fresh(p) /\ t = <<p>>
        BY <1>2, Accepted
    <2>2. Others(h) /\ handler'[h].todo = t /\ handler'[h].pc = "lock"
        BY <2>1, AcceptEffect DEF TypeInv, ValueInv
    <2>3. Active = {} /\ up /\ UNCHANGED <<store, runtime, since>> /\ t # <<>>
        BY <2>1 DEF Accept
    <2>4. Follows(live) /\ PoolFollows
        BY <2>3 DEF RunInv
    <2>5. ~Head(t).apply => \A f \in FieldsOf("vpn_settings") : Head(t).set[f] = cache[f]
        <3>1. CASE t \in Seq(Payloads)
            BY <2>3, <3>1, TailOf DEF WellTyped
        <3>2. CASE \E p : Fresh(p) /\ t = <<p>>
            BY <3>2 DEF Fresh
        <3> QED
            BY <2>1, <3>1, <3>2
    <2>6. WorkInv(h)'
        BY <2>2, <2>3, <2>4, <2>5 DEF WorkInv, Current, Follows, PoolFollows
    <2> QED
        BY <2>2, <2>3, <2>6 DEF Others, Active
<1>3. ASSUME NEW h \in Handlers, handler[h].pc # "idle", up' = up, since \subseteq since'
      PROVE  WorkInv(h) /\ "overlap" \notin since /\ up
    BY <1>3 DEF RunInv, Active
\* Steps of a Save before its last one.
<1>4. ASSUME NEW h \in Handlers, WorkInv(h), Others(h), up' = up, since \subseteq since',
             UNCHANGED <<cache, cachedCreds, live, pool>>,
             handler[h].pc \in {"lock", "row", "creds"},
             \/ handler'[h].todo = handler[h].todo /\ handler'[h].pc \in {"row", "creds", "cache"}
             \/ Done(h)
      PROVE  Goal
    <2>1. Follows(live)' /\ PoolFollows'
        BY <1>4 DEF WorkInv, Follows, PoolFollows
    <2>2. CASE handler'[h].todo = handler[h].todo /\ handler'[h].pc \in {"row", "creds", "cache"}
        <3>1. WorkInv(h)'
            BY <1>4, <2>1, <2>2 DEF WorkInv, Current
        <3> QED
            BY <1>1, <1>4, <2>2, <3>1
    <2>3. CASE Done(h)
        <3>1. handler'[h].pc \in {"idle", "lock"} /\ (handler'[h].pc = "lock" => Current(h)'.apply)
            BY <1>4, <2>3, NextApplies DEF Done
        <3>2. handler'[h].pc # "idle" => WorkInv(h)'
            BY <2>1, <3>1 DEF WorkInv
        <3> QED
            BY <1>1, <1>4, <2>1, <3>2
    <2> QED
        BY <1>4, <2>2, <2>3
<1>5. ASSUME NEW h \in Handlers, SaveMerge(h) PROVE Goal
    BY <1>3, <1>4, <1>5, MergeEffect DEF Goes, SaveMerge
<1>6. ASSUME NEW h \in Handlers, SaveRow(h) PROVE Goal
    <2>1. /\ Others(h)
          /\ \/ handler'[h].todo = handler[h].todo /\ handler'[h].pc \in {"row", "creds", "cache"}
             \/ Done(h)
        BY <1>6, RowEffect DEF Goes, Done, TypeInv
    <2> QED
        BY <1>3, <1>4, <1>6, <2>1 DEF SaveRow
<1>7. ASSUME NEW h \in Handlers, SaveCredentials(h) PROVE Goal
    <2>1. Goes(h, "cache") /\ since \subseteq since'
        BY <1>7, PcEffect DEF SaveCredentials, TypeInv, PCs
    <2> QED
        BY <1>3, <1>4, <1>7, <2>1 DEF Goes, SaveCredentials
<1>8. ASSUME NEW h \in Handlers, SaveCache(h) PROVE Goal
    <2> DEFINE p == Current(h)
    <2>1. handler[h].pc = "cache" /\ up /\ lock = h /\ h # Null /\ UNCHANGED <<live, pool, since, up>>
        BY <1>8, ActiveMeansUp DEF SaveCache, TypeInv, LockInv, Holding
    <2>2. SaveInv(h) /\ WorkInv(h)
        BY <1>3, <2>1 DEF DurableInv
    <2>3. /\ \A f \in Fields : cache'[f] = IF f \in Kept(p.cat, p.set) THEN NormVal(f, p.set[f]) ELSE cache[f]
          /\ cachedCreds' = IF p.creds = Absent THEN cachedCreds ELSE p.creds
        BY <1>8, <2>2, CacheWritten
    <2>4. Goes(h, IF p.apply THEN "load" ELSE "configure")
        BY <1>8, CacheEffect DEF TypeInv
    <2>5. Current(h)' = p /\ Others(h)
        BY <2>4 DEF Goes, Current
    <2>6. p \in Allowed /\ live \in [Fields -> Int]
        BY <2>1, CurrentType DEF TypeInv, ValueInv
    <2>7. Follows(live) /\ PoolFollows
        BY <2>1, <2>2 DEF WorkInv
    <2>8. CASE p.apply
        <3>1. \A f \in Fields : Apply(live, p.cat, p.set)[f] =
                 IF f \in Kept(p.cat, p.set) THEN p.set[f] ELSE live[f]
            BY <2>6, <2>8, Applied
        <3> DEFINE a == Apply(live, p.cat, p.set)
        <3> HIDE DEF a
        <3>2. \A f \in Fields : NormVal(f, a[f]) = cache'[f] \/ (f = "docker_network" /\ cache'[f] = 0)
            BY <2>3, <2>7, <3>1 DEF Follows, a
        <3>3. Apply(live, Current(h).cat, Current(h).set)' = a
            BY <2>1, <2>5 DEF a
        <3>4. Follows(Apply(live, Current(h).cat, Current(h).set))'
            BY <3>2, <3>3 DEF Follows
        <3>5. IF p.creds = Absent THEN PoolFollows' ELSE cachedCreds' = p.creds
            BY <2>1, <2>3, <2>7 DEF PoolFollows
        <3>6. handler'[h].pc = "load"
            BY <2>4, <2>8 DEF Goes
        <3>7. WorkInv(h)'
            BY <2>5, <2>8, <3>4, <3>5, <3>6 DEF WorkInv
        <3> QED
            BY <1>1, <2>1, <2>5, <3>6, <3>7
    <2>9. CASE ~p.apply
        <3>1. p \in OwnPayloads /\ p.creds # Absent
            BY <2>6, <2>9, OwnApply
        <3>2. \A f \in FieldsOf("vpn_settings") : p.set[f] = cache[f]
            BY <2>1, <2>2, <2>9 DEF WorkInv
        <3>3. \A f \in Fields : cache'[f] = cache[f]
            BY <2>3, <3>1, <3>2 DEF OwnPayloads, Kept, TypeInv, ValueInv, Stored, Normal
        <3>4. Follows(live)'
            BY <2>1, <2>7, <3>3 DEF Follows
        <3>5. handler'[h].pc = "configure" /\ cachedCreds' = p.creds
            BY <2>3, <2>4, <2>9, <3>1 DEF Goes
        <3>6. WorkInv(h)'
            BY <2>5, <3>4, <3>5 DEF WorkInv
        <3> QED
            BY <1>1, <2>1, <2>5, <3>5, <3>6
    <2> QED
        BY <2>8, <2>9
<1>9. ASSUME NEW h \in Handlers, ApplyLoad(h) PROVE Goal
    <2>1. /\ handler[h].pc = "load" /\ Others(h) /\ handler'[h].pc = "store" /\ Current(h)' = Current(h)
          /\ UNCHANGED <<cache, cachedCreds, live, pool, since, up>>
        BY <1>9, LoadEffect DEF Goes, ApplyLoad, Current
    <2>2. WorkInv(h)
        BY <1>3, <2>1
    <2>3. WorkInv(h)'
        BY <2>1, <2>2 DEF WorkInv, Follows, PoolFollows
    <2> QED
        BY <1>1, <2>1, <2>3
<1>10. ASSUME NEW h \in Handlers, ApplyStore(h) PROVE Goal
    <2> DEFINE p == Current(h)
    <2>1. handler[h].pc = "store" /\ up' = up /\ since \subseteq since' /\ UNCHANGED <<cache, cachedCreds, pool>>
        BY <1>10 DEF ApplyStore
    <2>2. WorkInv(h) /\ up /\ "overlap" \notin since
        BY <1>3, <2>1
    <2>3. live' = Apply(live, p.cat, p.set)
        BY <1>10, <2>1, <2>2 DEF ApplyStore, SoloInv
    <2>4. Follows(live)'
        BY <2>1, <2>2, <2>3 DEF WorkInv, Follows
    <2>5. p.creds # Null \/ p \in OwnPayloads
        BY <2>1, CurrentType DEF TypeInv, Allowed, Lists
    <2>6. CASE p.creds \in {Absent, Null} /\ Done(h)
        <3>1. Others(h) /\ handler'[h].pc \in {"idle", "lock"}
              /\ (handler'[h].pc = "lock" => Current(h)'.apply)
            BY <2>1, <2>6, NextApplies DEF Done
        <3>2. PoolFollows'
            <4>1. p.creds = Absent
                BY <2>1, <2>2, <2>5, <2>6 DEF WorkInv, OwnPayloads
            <4> QED
                BY <2>1, <2>2, <4>1 DEF WorkInv, PoolFollows
        <3>3. handler'[h].pc # "idle" => WorkInv(h)'
            BY <2>4, <3>1, <3>2 DEF WorkInv
        <3> QED
            BY <1>1, <2>1, <2>4, <3>1, <3>2, <3>3
    <2>7. CASE p.creds \notin {Absent, Null} /\ Goes(h, "configure")
        <3>1. Others(h) /\ handler'[h].pc = "configure" /\ Current(h)' = p
            BY <2>7 DEF Goes, Current
        <3>2. cachedCreds' = p.creds
            BY <2>1, <2>2, <2>7 DEF WorkInv
        <3>3. WorkInv(h)'
            BY <2>4, <3>1, <3>2 DEF WorkInv
        <3> QED
            BY <1>1, <2>1, <3>1, <3>3
    <2> QED
        BY <1>10, <2>6, <2>7, StoreEffect DEF TypeInv
<1>11. ASSUME NEW h \in Handlers, Configure(h) PROVE Goal
    <2>1. /\ handler[h].pc = "configure" /\ Done(h) /\ since \subseteq since'
          /\ UNCHANGED <<cache, cachedCreds, live, up>>
        BY <1>11, AdvanceDone DEF Configure, TypeInv
    <2>2. WorkInv(h)
        BY <1>3, <2>1
    <2>3. Follows(live)' /\ PoolFollows'
        BY <1>11, <2>1, <2>2 DEF WorkInv, Follows, PoolFollows, Configure
    <2>4. Others(h) /\ handler'[h].pc \in {"idle", "lock"}
          /\ (handler'[h].pc = "lock" => Current(h)'.apply)
        BY <2>1, NextApplies DEF Done
    <2>5. handler'[h].pc # "idle" => WorkInv(h)'
        BY <2>3, <2>4 DEF WorkInv
    <2> QED
        BY <1>1, <2>1, <2>3, <2>4, <2>5
<1>12. ASSUME UNCHANGED <<cache, cachedCreds, live, pool, handler, up>>, since \subseteq since' PROVE Goal
    <2>1. up /\ "overlap" \notin since
        BY <1>12
    <2> QED
        BY <1>12, <2>1 DEF RunInv, Active, WorkInv, Current, Follows, PoolFollows
<1>13. ASSUME NEW p \in pushes, NEW e \in Engines, PushOne(p, e) PROVE Goal
    BY <1>12, <1>13 DEF PushOne
<1>14. CASE Crash
    BY <1>14 DEF Crash
<1>15. CASE Start
    <2>1. \A h \in Handlers : handler'[h].pc = "idle"
        BY <1>15 DEF Start, TypeInv, LockInv, Active
    <2>2. Normal(cache') /\ Stored(cache')
        BY DEF TypeInv, ValueInv, Stored
    <2>3. \A f \in Fields : live'[f] = cache'[f] \/ (f = "docker_network" /\ cache'[f] = 0)
        <3> DEFINE taken == Taken(live, cache', Fields)
        <3>1. taken \in [Fields -> Int]
            BY <2>2, TakenType DEF TypeInv, ValueInv, SetType, Normal
        <3>2. \A f \in Fields : taken[f] = cache'[f]
            BY <2>2, StoredPlain DEF Taken, Normal
        <3> HIDE DEF taken
        <3>3. \E network \in {0, 2} :
                 live' = [taken EXCEPT !.docker_network = IF @ = 0 THEN network ELSE @]
            BY <1>15 DEF Start, taken
        <3> QED
            BY <3>1, <3>2, <3>3, FieldsAre
    <2>4. Follows(live)'
        BY <2>2, <2>3 DEF Follows, Normal
    <2>5. PoolFollows'
        BY <1>15 DEF Start, PoolFollows
    <2> QED
        BY <2>1, <2>4, <2>5 DEF Active
<1>16. CASE UNCHANGED vars
    BY <1>12, <1>16 DEF vars
<1> QED
    BY <1>2, <1>5, <1>6, <1>7, <1>8, <1>9, <1>10, <1>11, <1>13, <1>14, <1>15, <1>16 DEF Next, Save

\* With requests that did not overlap, once they are answered every live field
\* normalizes to the stored one and the credential manager has the stored
\* credentials, for payloads of which the store and the config take the same.
THEOREM RuntimeFollows ==
    ASSUME OwnKeys, Booleans, Positive, Whole, Cased, Lists
    PROVE  Spec => []RuntimeFollowsStore
<1>1. Init => SoloInv /\ TodoInv /\ RunInv
    BY IdleType DEF Init, SoloInv, TodoInv, RunInv
<1>2. TypeInv /\ RunInv => RuntimeFollowsStore
    <2> SUFFICES ASSUME TypeInv, RunInv, up, Active = {}, "overlap" \notin since
                 PROVE  /\ \A f \in Fields : \/ Normalized(live)[f] = cache[f]
                                             \/ f = "docker_network" /\ cache[f] = 0
                        /\ "unaware" \notin since => pool = AsSet(cachedCreds)
        BY DEF RuntimeFollowsStore
    <2>1. Follows(live) /\ PoolFollows
        BY DEF RunInv
    <2>2. \A f \in Fields : Normalized(live)[f] = NormVal(f, live[f])
        BY NormalizedPointwise DEF TypeInv, ValueInv
    <2> QED
        BY <2>1, <2>2 DEF Follows, PoolFollows
<1> QED
    BY <1>1, <1>2, TypeInit, TypeStep, DurableInit, DurableStep, SoloStep, TodoStep, RunStep, PTL DEF Spec
=============================================================================
