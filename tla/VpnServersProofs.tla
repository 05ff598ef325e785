-------------------------- MODULE VpnServersProofs --------------------------
(* Proofs about VpnServers, for every set of servers, downloads and nodes:   *)
(* a sync imports what its refresh has written, the table follows the last   *)
(* sync, no server in quarantine is a candidate, and nodes that could learn  *)
(* of each other get distinct servers.                                      *)
EXTENDS VpnServers, TLAPS

USE DayAssumption DEF table

-----------------------------------------------------------------------------
(* The file, the cache entry and the loaders.                               *)

RefreshFields == {"pc", "payload", "base", "wrote", "stat", "data", "todo", "seen", "asked", "marked"}
NodeFields    == {"pc", "mode", "busy", "scored", "pins", "stat", "data", "fits", "host", "assigned"}

\* The records have their fields.
Shape ==
    /\ DOMAIN refresh = RefreshFields
    /\ DOMAIN node = Nodes
    /\ \A n \in Nodes : DOMAIN node[n] = NodeFields

\* A loader has looked at a file that was no newer than the present one, and
\* what it has read is no older than what it looked at.
LoadInv(l) ==
    /\ l.pc \in {"check", "read", "keep"} => l.stat \in Nat /\ l.stat <= file.ver
    /\ l.pc = "keep" => l.data.ver \in Nat /\ l.data.ver >= l.stat

\* A refresh past its write: what it looks at and what it loads are no older.
WroteInv ==
    /\ refresh.pc \in {"invalidate", "stat", "check", "read", "keep", "import", "upsert"} =>
          refresh.wrote \in Nat \ {0} /\ refresh.wrote <= file.ver
    /\ refresh.pc \in {"check", "read", "keep"} => refresh.wrote <= refresh.stat
    /\ refresh.pc \in {"import", "upsert"} => refresh.data.ver \in Nat /\ refresh.data.ver >= refresh.wrote

CatalogInv ==
    /\ file.ver \in Nat
    /\ catalog # None => /\ catalog.mtime \in Nat /\ catalog.data.ver \in Nat
                         /\ catalog.mtime <= catalog.data.ver
    /\ LoadInv(refresh) /\ \A n \in Nodes : LoadInv(node[n])
    /\ WroteInv

\* What a step makes of the loader l: r, which goes on with pc done.
Loaded(l, r, done) ==
    /\ DOMAIN r = DOMAIN l
    /\ \A x \in DOMAIN l \ {"pc", "stat", "data"} : r[x] = l[x]
    /\ LoadInv(r)
    /\ r.pc \in {"check", "read", "keep", done}
    /\ r.pc = "check" => r.stat = file.ver
    /\ r.pc \in {"read", "keep"} => l.pc \in {"check", "read", "keep"} /\ r.stat = l.stat
    /\ r.pc = done => \/ l.pc = "stat" /\ file.ver = 0
                      \/ l.pc \in {"check", "keep"} /\ r.data.ver \in Nat /\ r.data.ver >= l.stat

LEMMA LoadStep ==
    ASSUME NEW l, NEW done, {"pc", "stat", "data"} \subseteq DOMAIN l, Loading(l), LoadInv(l), CatalogInv,
           done \notin {"stat", "check", "read", "keep"}
    PROVE  Loaded(l, loadCatalog(l, done), done)
<1> DEFINE r == loadCatalog(l, done)
<1>1. CASE l.pc = "stat"
    <2>1. r = IF file.ver = 0 THEN [l EXCEPT !.pc = done] ELSE [l EXCEPT !.stat = file.ver, !.pc = "check"]
        BY <1>1 DEF loadCatalog
    <2>2. CASE file.ver = 0
        BY <1>1, <2>1, <2>2 DEF Loaded, LoadInv, CatalogInv
    <2>3. CASE file.ver # 0
        <3>1. /\ DOMAIN r = DOMAIN l /\ r.pc = "check" /\ r.stat = file.ver
              /\ \A x \in DOMAIN l \ {"pc", "stat", "data"} : r[x] = l[x]
            BY <2>1, <2>3
        <3> HIDE DEF r
        <3>2. Loaded(l, r, done)
            BY <3>1 DEF Loaded, LoadInv, CatalogInv
        <3> QED
            BY <3>2 DEF r
    <2> QED
        BY <2>2, <2>3
<1>2. CASE l.pc = "check"
    <2>1. r = IF Hit(l.stat) THEN [l EXCEPT !.data = catalog.data, !.pc = done] ELSE [l EXCEPT !.pc = "read"]
        BY <1>2 DEF loadCatalog
    <2> QED
        BY <1>2, <2>1 DEF Loaded, LoadInv, CatalogInv, Hit
<1>3. CASE l.pc = "read"
    <2>1. r = [l EXCEPT !.data = file, !.pc = "keep"]
        BY <1>3 DEF loadCatalog
    <2> QED
        BY <1>3, <2>1 DEF Loaded, LoadInv, CatalogInv
<1>4. CASE l.pc = "keep"
    <2>1. r = [l EXCEPT !.pc = done]
        BY <1>4 DEF loadCatalog
    <2> QED
        BY <1>4, <2>1 DEF Loaded, LoadInv, CatalogInv
<1> QED
    BY <1>1, <1>2, <1>3, <1>4 DEF Loading

\* The entry that a loader leaves.
LEMMA EntryStep ==
    ASSUME NEW l, LoadInv(l), CatalogInv, catalog' = CatalogAfter(l)
    PROVE  catalog' # None => /\ catalog'.mtime \in Nat /\ catalog'.data.ver \in Nat
                              /\ catalog'.mtime <= catalog'.data.ver
BY DEF LoadInv, CatalogInv, CatalogAfter

\* A new record for one node.
LEMMA BecomeEffect ==
    ASSUME Shape, NEW n \in Nodes, NEW r, DOMAIN r = NodeFields, Become(n, r)
    PROVE  /\ DOMAIN node' = Nodes /\ \A m \in Nodes : DOMAIN node'[m] = NodeFields
           /\ node'[n] = r
           /\ \A m \in Nodes : m # n => node'[m] = node[m]
BY DEF Shape, Become

LEMMA IdleShapes ==
    /\ DOMAIN IdleNode = NodeFields /\ IdleNode.pc = "none" /\ IdleNode.mode = "scored"
    /\ IdleNode.busy = {} /\ IdleNode.scored = {} /\ IdleNode.host = None
    /\ DOMAIN IdleRefresh = RefreshFields /\ IdleRefresh.pc = "idle" /\ IdleRefresh.seen = {}
    /\ IdleRefresh.asked = {} /\ IdleRefresh.marked = {}
BY DEF IdleNode, NodeFields, IdleRefresh, RefreshFields

\* What each step of a provision does to its node, and that it leaves the rest.
NodeGoes(n, pcs) ==
    /\ Shape' /\ node'[n].pc \in pcs
    /\ \A m \in Nodes : m # n => node'[m] = node[m]
    /\ UNCHANGED <<file, table, now, refresh, imported, resolved>>

LEMMA BeginEffect ==
    ASSUME Shape, NEW n \in Nodes, PickBegin(n)
    PROVE  NodeGoes(n, {"query"}) /\ node'[n].busy = InUse /\ UNCHANGED catalog
<1> DEFINE r == [node[n] EXCEPT !.pc = "query", !.busy = InUse]
<1>1. DOMAIN r = NodeFields /\ r.pc = "query" /\ r.busy = InUse
    BY DEF Shape, NodeFields
<1>2. Become(n, r) /\ UNCHANGED <<file, catalog, table, now, refresh, imported, resolved>>
    BY DEF PickBegin
<1> HIDE DEF r
<1> QED
    BY <1>1, <1>2, BecomeEffect DEF NodeGoes, Shape

LEMMA QueryEffect ==
    ASSUME Shape, NEW n \in Nodes, GetScoredCandidates(n)
    PROVE  /\ NodeGoes(n, {"stat"}) /\ UNCHANGED <<catalog, blind>>
           /\ node'[n].busy = node[n].busy
           /\ node'[n].scored = {s \in known \ down : Expired(s)} \ node[n].busy
<1> DEFINE free == {s \in known \ down : Expired(s)} \ node[n].busy
           mode == IF free = {} THEN "catalog" ELSE "scored"
           pins == free \cap pinned
           r == [node[n] EXCEPT !.pc = "stat", !.scored = free, !.pins = pins, !.mode = mode]
<1>1. Become(n, r) /\ UNCHANGED <<file, catalog, table, now, refresh, imported, resolved, blind>>
    BY DEF GetScoredCandidates
<1> HIDE DEF free, mode, pins
<1>2. DOMAIN r = NodeFields /\ r.pc = "stat" /\ r.busy = node[n].busy /\ r.scored = free
    BY DEF Shape, NodeFields
<1> HIDE DEF r
<1>3. NodeGoes(n, {"stat"}) /\ node'[n] = r
    BY <1>1, <1>2, BecomeEffect DEF NodeGoes, Shape
<1> QED
    BY <1>1, <1>2, <1>3 DEF free

LEMMA LoadEffect ==
    ASSUME Shape, CatalogInv, NEW n \in Nodes, PickLoad(n)
    PROVE  /\ NodeGoes(n, {"check", "read", "keep", "lookup"}) /\ UNCHANGED blind
           /\ Loaded(node[n], node'[n], "lookup")
           /\ \A x \in {"mode", "busy", "scored", "host"} : node'[n][x] = node[n][x]
           /\ catalog' = CatalogAfter(node[n])
<1> DEFINE r == loadCatalog(node[n], "lookup")
<1>1. Loading(node[n]) /\ LoadInv(node[n]) /\ DOMAIN node[n] = NodeFields
    BY DEF PickLoad, CatalogInv, Shape
<1>2. {"pc", "stat", "data"} \subseteq DOMAIN node[n]
    BY <1>1 DEF NodeFields
<1>3. Loaded(node[n], r, "lookup")
    BY <1>1, <1>2, LoadStep
<1>4. /\ Become(n, r) /\ catalog' = CatalogAfter(node[n])
      /\ UNCHANGED <<file, table, now, refresh, imported, resolved, blind>>
    BY DEF PickLoad
<1> HIDE DEF r
<1>5. DOMAIN r = NodeFields /\ r.pc \in {"check", "read", "keep", "lookup"}
    BY <1>1, <1>3 DEF Loaded
<1>6. \A x \in {"mode", "busy", "scored", "host"} : r[x] = node[n][x]
    BY <1>1, <1>3 DEF Loaded, NodeFields
<1>7. NodeGoes(n, {"check", "read", "keep", "lookup"}) /\ node'[n] = r
    BY <1>4, <1>5, BecomeEffect DEF NodeGoes, Shape
<1> QED
    BY <1>3, <1>4, <1>6, <1>7

LEMMA LookupEffect ==
    ASSUME Shape, NEW n \in Nodes, ProviderServers(n)
    PROVE  /\ NodeGoes(n, {"choose"}) /\ UNCHANGED <<catalog, blind>>
           /\ \A x \in {"mode", "busy", "scored", "host"} : node'[n][x] = node[n][x]
<1> DEFINE fits == IF catalog = None THEN {} ELSE Section(catalog.data, Provider) \cap Fits
           r    == [node[n] EXCEPT !.pc = "choose", !.stat = 0, !.data = None, !.fits = fits]
<1>1. Become(n, r) /\ UNCHANGED <<file, catalog, table, now, refresh, imported, resolved, blind>>
    BY DEF ProviderServers
<1> HIDE DEF fits
<1>2. DOMAIN r = NodeFields /\ r.pc = "choose"
      /\ \A x \in {"mode", "busy", "scored", "host"} : r[x] = node[n][x]
    BY DEF Shape, NodeFields
<1> HIDE DEF r
<1> QED
    BY <1>1, <1>2, BecomeEffect DEF NodeGoes, Shape

\* A server, or none, for the VPN client.
LEMMA StartEffect ==
    ASSUME Shape, NEW n \in Nodes, NEW s, Become(n, [IdleNode EXCEPT !.pc = "start", !.host = s])
    PROVE  /\ DOMAIN node' = Nodes /\ \A m \in Nodes : DOMAIN node'[m] = NodeFields
           /\ node'[n].pc = "start" /\ node'[n].host = s
           /\ \A m \in Nodes : m # n => node'[m] = node[m]
<1> DEFINE r == [IdleNode EXCEPT !.pc = "start", !.host = s]
<1>1. DOMAIN r = NodeFields /\ r.pc = "start" /\ r.host = s
    BY IdleShapes DEF IdleNode, NodeFields
<1> HIDE DEF r
<1>2. Become(n, r)
    BY DEF r
<1> QED
    BY <1>1, <1>2, BecomeEffect

LEMMA NamedEffect ==
    ASSUME Shape, NEW n \in Nodes, PickNamed(n)
    PROVE  NodeGoes(n, {"start"}) /\ UNCHANGED catalog
<1>1. PICK s \in Named : Become(n, [IdleNode EXCEPT !.pc = "start", !.host = s])
    BY DEF PickNamed
<1> QED
    BY <1>1, StartEffect DEF PickNamed, NodeGoes, Shape

\* A choice: a server, or a new attempt on the catalog.
LEMMA ChooseEffect ==
    ASSUME Shape, NEW n \in Nodes, ChooseScored(n) \/ getSafeHostnameCatalog(n)
    PROVE  /\ UNCHANGED <<catalog, blind>>
           /\ \/ /\ NodeGoes(n, {"start"})
                 /\ \/ node[n].mode = "scored" /\ node'[n].host \in node[n].scored
                    \/ node'[n].host = None \/ node'[n].host \notin node[n].busy
              \/ NodeGoes(n, {"stat"}) /\ node'[n].mode = "catalog" /\ node'[n].busy = node[n].busy
<1>2. CASE ChooseScored(n) /\ \E s \in Preferred(n) : Become(n, [IdleNode EXCEPT !.pc = "start", !.host = s])
    <2>1. PICK s \in Preferred(n) : Become(n, [IdleNode EXCEPT !.pc = "start", !.host = s])
        BY <1>2
    <2>2. s \in node[n].scored /\ node[n].mode = "scored"
        BY <1>2, <2>1 DEF Preferred, Eligible, ChooseScored
    <2>3. NodeGoes(n, {"start"}) /\ node'[n].host = s /\ UNCHANGED <<catalog, blind>>
        BY <1>2, <2>1, StartEffect DEF NodeGoes, Shape, ChooseScored
    <2> QED
        BY <2>2, <2>3
<1>3. CASE ChooseScored(n) /\ Become(n, [IdleNode EXCEPT !.pc = "stat", !.busy = node[n].busy, !.mode = "catalog"])
    <2> DEFINE r == [IdleNode EXCEPT !.pc = "stat", !.busy = node[n].busy, !.mode = "catalog"]
    <2>1. DOMAIN r = NodeFields /\ r.pc = "stat" /\ r.busy = node[n].busy /\ r.mode = "catalog"
        BY IdleShapes DEF IdleNode, NodeFields
    <2> HIDE DEF r
    <2>2. NodeGoes(n, {"stat"}) /\ node'[n] = r /\ UNCHANGED <<catalog, blind>>
        BY <1>3, <2>1, BecomeEffect DEF NodeGoes, Shape, ChooseScored, r
    <2> QED
        BY <2>1, <2>2
<1>4. CASE getSafeHostnameCatalog(n)
    <2> DEFINE safe == node[n].fits \ node[n].busy
    <2>1. PICK s \in IF safe = {} THEN {None} ELSE safe :
             Become(n, [IdleNode EXCEPT !.pc = "start", !.host = s])
        BY <1>4 DEF getSafeHostnameCatalog
    <2>2. s = None \/ s \notin node[n].busy
        BY <2>1
    <2>3. NodeGoes(n, {"start"}) /\ node'[n].host = s /\ UNCHANGED <<catalog, blind>>
        BY <1>4, <2>1, StartEffect DEF NodeGoes, Shape, getSafeHostnameCatalog
    <2> QED
        BY <2>2, <2>3
<1> QED
    BY <1>2, <1>3, <1>4 DEF ChooseScored

\* The end of a provision and of a node, and a start event between them.
LEMMA RegisterEffect ==
    ASSUME Shape, NEW n \in Nodes, Register(n) \/ StartEvent(n) \/ Destroy(n)
    PROVE  /\ NodeGoes(n, {"up", "none"}) /\ UNCHANGED <<catalog, blind>>
           /\ node'[n].pc = "up" =>
                 /\ node[n].pc \in {"start", "up"} /\ node'[n].host = node[n].host
                 /\ node'[n].assigned \in {None, node'[n].host}
<1> DEFINE r == [node[n] EXCEPT !.pc = "up", !.assigned = node[n].host]
           e == [node[n] EXCEPT !.assigned = None]
<1>1. DOMAIN r = NodeFields /\ r.pc = "up" /\ r.host = node[n].host /\ r.assigned = r.host
    BY DEF Shape, NodeFields
<1>2. DOMAIN e = NodeFields /\ e.pc = node[n].pc /\ e.host = node[n].host /\ e.assigned = None
    BY DEF Shape, NodeFields
<1> HIDE DEF r, e
<1>3. \/ Become(n, r) /\ node[n].pc = "start"
      \/ Become(n, e) /\ node[n].pc = "up"
      \/ Become(n, IdleNode)
    BY DEF Register, StartEvent, Destroy, r, e
<1>4. UNCHANGED <<file, catalog, table, now, refresh, imported, resolved, blind>>
    BY DEF Register, StartEvent, Destroy
<1>5. CASE Become(n, r) /\ node[n].pc = "start"
    BY <1>1, <1>4, <1>5, BecomeEffect DEF NodeGoes, Shape
<1>6. CASE Become(n, e) /\ node[n].pc = "up"
    BY <1>2, <1>4, <1>6, BecomeEffect DEF NodeGoes, Shape
<1>7. CASE Become(n, IdleNode)
    BY <1>4, <1>7, BecomeEffect, IdleShapes DEF NodeGoes, Shape
<1> QED
    BY <1>3, <1>5, <1>6, <1>7
-----------------------------------------------------------------------------
(* A sync imports what its refresh has written.                             *)

\* A refresh before its write has nothing to show, and the seen servers are
\* collected by the upserts only.
LEMMA RefreshStep ==
    ASSUME Shape, CatalogInv, Refresh
    PROVE  /\ Shape' /\ UNCHANGED <<now, node, blind, until, pinned>>
           /\ file'.ver \in Nat /\ file'.ver >= file.ver
           /\ LoadInv(refresh)' /\ WroteInv'
           /\ catalog' # None => /\ catalog'.mtime \in Nat /\ catalog'.data.ver \in Nat
                                 /\ catalog'.mtime <= catalog'.data.ver
<1> USE DEF Shape, RefreshFields, LoadInv, WroteInv
<1>1. CASE RefreshBegin
    BY <1>1 DEF RefreshBegin, CatalogInv
<1>2. CASE RefreshFetch
    <2>1. DOMAIN refresh' = RefreshFields /\ refresh'.pc \in {"merge", "idle"}
        BY <1>2, IdleShapes DEF RefreshFetch
    <2>2. UNCHANGED <<file, catalog, now, node, blind, until, pinned>>
        BY <1>2 DEF RefreshFetch
    <2> QED
        BY <2>1, <2>2 DEF CatalogInv
<1>3. CASE RefreshMerge
    BY <1>3 DEF RefreshMerge, CatalogInv
<1>4. CASE RefreshWrite
    <2>1. UNCHANGED <<catalog, now, node, blind, until, pinned>>
        BY <1>4 DEF RefreshWrite
    <2>2. CASE refresh' = IdleRefresh /\ UNCHANGED file
        BY <2>1, <2>2, IdleShapes DEF CatalogInv
    <2>3. CASE /\ file' = [ver |-> file.ver + 1, sec |-> Merged(refresh.base.sec, refresh.payload)]
               /\ refresh' = [IdleRefresh EXCEPT !.pc = "invalidate", !.wrote = file.ver + 1]
        <3>1. file'.ver = file.ver + 1
            BY <2>3
        <3>2. refresh'.pc = "invalidate" /\ refresh'.wrote = file.ver + 1 /\ DOMAIN refresh' = RefreshFields
            BY <2>3, IdleShapes DEF IdleRefresh
        <3> QED
            BY <2>1, <3>1, <3>2 DEF CatalogInv
    <2> QED
        BY <1>4, <2>2, <2>3 DEF RefreshWrite
<1>5. CASE RefreshInvalidate
    BY <1>5 DEF RefreshInvalidate, CatalogInv
<1>6. CASE RefreshLoad
    <2> DEFINE r == loadCatalog(refresh, "import")
    <2>1. /\ Loading(refresh) /\ refresh' = r /\ catalog' = CatalogAfter(refresh)
          /\ UNCHANGED <<file, now, node, blind, until, pinned>>
        BY <1>6 DEF RefreshLoad
    <2>2. LoadInv(refresh) /\ {"pc", "stat", "data"} \subseteq DOMAIN refresh
        BY DEF CatalogInv
    <2>3. Loaded(refresh, r, "import")
        BY <2>1, <2>2, LoadStep
    <2> HIDE DEF r
    <2>4. refresh'.wrote = refresh.wrote /\ DOMAIN refresh' = RefreshFields
        BY <2>1, <2>3 DEF Loaded
    <2>5. WroteInv'
        BY <2>1, <2>3, <2>4 DEF Loaded, CatalogInv, Loading
    <2>6. LoadInv(refresh)'
        BY <2>1, <2>3 DEF Loaded
    <2>7. catalog' # None => /\ catalog'.mtime \in Nat /\ catalog'.data.ver \in Nat
                             /\ catalog'.mtime <= catalog'.data.ver
        BY <2>1, <2>2, EntryStep
    <2> QED
        BY <2>1, <2>4, <2>5, <2>6, <2>7 DEF CatalogInv
<1>7. CASE SyncBegin
    BY <1>7 DEF SyncBegin, CatalogInv
<1>8. CASE SyncEnd
    BY <1>8, IdleShapes DEF SyncEnd, CatalogInv
<1>10. ASSUME NEW k \in {Source(s) : s \in Servers}, MarkServersDown(k)
       PROVE  /\ Shape' /\ UNCHANGED <<now, node, blind, until, pinned, file, catalog>>
              /\ LoadInv(refresh)' /\ WroteInv'
    <2>1. UNCHANGED <<now, node, blind, until, pinned, file, catalog>> /\ refresh.pc = "upsert"
        BY <1>10 DEF MarkServersDown
    <2>2. /\ DOMAIN refresh' = RefreshFields /\ refresh'.pc = "upsert"
          /\ refresh'.wrote = refresh.wrote /\ refresh'.data = refresh.data
        BY <1>10 DEF MarkServersDown
    <2> QED
        BY <2>1, <2>2 DEF CatalogInv
<1>9. ASSUME NEW s \in Servers, SyncUpsert(s)
      PROVE  /\ Shape' /\ UNCHANGED <<now, node, blind, until, pinned, file, catalog>>
             /\ LoadInv(refresh)' /\ WroteInv'
    <2>1. UNCHANGED <<now, node, blind, until, pinned, file, catalog>> /\ refresh.pc = "upsert"
        BY <1>9 DEF SyncUpsert
    <2>2. /\ DOMAIN refresh' = RefreshFields /\ refresh'.pc = "upsert"
          /\ refresh'.wrote = refresh.wrote /\ refresh'.data = refresh.data
        BY <1>9 DEF SyncUpsert
    <2> QED
        BY <2>1, <2>2 DEF CatalogInv
<1> QED
    BY <1>1, <1>2, <1>3, <1>4, <1>5, <1>6, <1>7, <1>8, <1>9, <1>10 DEF Refresh, CatalogInv

LEMMA CatalogStep == Shape /\ CatalogInv /\ [Next]_vars => Shape' /\ CatalogInv'
<1> SUFFICES ASSUME Shape, CatalogInv, [Next]_vars PROVE Shape' /\ CatalogInv'
    OBVIOUS
<1>1. CASE Refresh
    BY <1>1, RefreshStep DEF CatalogInv, LoadInv
<1>2. CASE ProtonRefresh
    <2>1. file'.ver = file.ver + 1 /\ UNCHANGED <<catalog, refresh, node>>
        BY <1>2 DEF ProtonRefresh
    <2> QED
        BY <2>1 DEF Shape, CatalogInv, LoadInv, WroteInv
<1>3. ASSUME UNCHANGED <<file, catalog, refresh, node>> PROVE Shape' /\ CatalogInv'
    BY <1>3 DEF Shape, CatalogInv, LoadInv, WroteInv
<1>4. ASSUME NEW n \in Nodes, Provision(n) PROVE Shape' /\ CatalogInv'
    <2>1. ASSUME NEW pcs, NodeGoes(n, pcs), LoadInv(node[n])', UNCHANGED catalog
          PROVE  Shape' /\ CatalogInv'
        BY <2>1 DEF NodeGoes, CatalogInv, LoadInv, WroteInv
    <2>2. ASSUME NEW pcs, NodeGoes(n, pcs), pcs \cap {"check", "read", "keep"} = {}
          PROVE  LoadInv(node[n])'
        BY <2>2 DEF NodeGoes, LoadInv
    <2>3. CASE PickBegin(n)
        BY <2>1, <2>2, <2>3, BeginEffect
    <2>9. CASE PickNamed(n)
        BY <2>1, <2>2, <2>9, NamedEffect
    <2>4. CASE GetScoredCandidates(n)
        BY <2>1, <2>2, <2>4, QueryEffect
    <2>5. CASE PickLoad(n)
        <3>1. /\ NodeGoes(n, {"check", "read", "keep", "lookup"}) /\ Loaded(node[n], node'[n], "lookup")
              /\ catalog' = CatalogAfter(node[n])
            BY <2>5, LoadEffect
        <3>2. LoadInv(node[n])'
            BY <3>1 DEF Loaded, LoadInv, NodeGoes
        <3>3. catalog' # None => /\ catalog'.mtime \in Nat /\ catalog'.data.ver \in Nat
                                 /\ catalog'.mtime <= catalog'.data.ver
            BY <3>1, EntryStep DEF CatalogInv
        <3> QED
            BY <3>1, <3>2, <3>3 DEF NodeGoes, CatalogInv, LoadInv, WroteInv
    <2>6. CASE ProviderServers(n)
        BY <2>1, <2>2, <2>6, LookupEffect
    <2>7. CASE ChooseScored(n) \/ getSafeHostnameCatalog(n)
        BY <2>1, <2>2, <2>7, ChooseEffect
    <2>8. CASE Register(n) \/ StartEvent(n) \/ Destroy(n)
        BY <2>1, <2>2, <2>8, RegisterEffect
    <2> QED
        BY <1>4, <2>3, <2>4, <2>5, <2>6, <2>7, <2>8, <2>9 DEF Provision
<1>5. CASE Tick \/ \E s \in Servers : ResolveServerID(s) \/ SetQuarantine(s) \/ SetPinned(s)
    <2>1. UNCHANGED <<file, catalog, refresh, node>>
        BY <1>5 DEF Tick, ResolveServerID, SetQuarantine, SetPinned
    <2> QED
        BY <1>3, <2>1
<1>6. CASE UNCHANGED vars
    BY <1>3, <1>6 DEF vars
<1> QED
    BY <1>1, <1>2, <1>4, <1>5, <1>6 DEF Next

LEMMA CatalogInit == Init => Shape /\ CatalogInv
<1> SUFFICES ASSUME Init PROVE Shape /\ CatalogInv
    OBVIOUS
<1>1. Shape
    BY IdleShapes DEF Init, Shape
<1>2. file.ver = 0 /\ catalog = None /\ refresh.pc = "idle" /\ \A n \in Nodes : node[n].pc = "none"
    BY IdleShapes DEF Init
<1> QED
    BY <1>1, <1>2 DEF CatalogInv, LoadInv, WroteInv

\* Whatever provisions load and cache between the steps of a refresh, and
\* whatever the sidecar writes: the catalog that a sync imports is at least as
\* new as the file its refresh has written.
THEOREM ImportsAreCurrent == Spec => []SyncImportsWritten
<1>1. CatalogInv => SyncImportsWritten
    BY DEF CatalogInv, WroteInv, SyncImportsWritten
<1> QED
    BY <1>1, CatalogInit, CatalogStep, PTL DEF Spec
-----------------------------------------------------------------------------
(* The table follows the last sync.                                         *)

Follows(seen, marked) ==
    /\ seen \subseteq known \ down
    /\ \A s \in known \ (seen \cup resolved) : Source(s) \in marked => s \in down

Synced ==
    imported # None =>
        Follows(imported.seen, imported.marked)

\* A sync under way has written what it has seen and marked down the rest of the
\* sources it got through; until it begins, a refresh leaves the table alone.
TableInv ==
    /\ Follows(refresh.seen, refresh.marked)
    /\ refresh.pc # "upsert" => refresh.seen = {} /\ refresh.marked = {} /\ Synced

LEMMA TableStep == Shape /\ CatalogInv /\ TableInv /\ [Next]_vars => TableInv'
<1> SUFFICES ASSUME Shape, CatalogInv, TableInv, [Next]_vars PROVE TableInv'
    OBVIOUS
<1>1. ASSUME UNCHANGED <<known, down, imported, resolved>>, refresh.pc # "upsert",
             refresh'.pc # "upsert", refresh'.seen = {}, refresh'.marked = {}
      PROVE  TableInv'
    BY <1>1 DEF TableInv, Synced, Follows
<1>2. CASE RefreshBegin \/ RefreshFetch \/ RefreshMerge \/ RefreshWrite \/ RefreshInvalidate
    <2>1. UNCHANGED <<known, down, imported, resolved>> /\ refresh.pc # "upsert"
        BY <1>2 DEF RefreshBegin, RefreshFetch, RefreshMerge, RefreshWrite, RefreshInvalidate
    <2>2. refresh'.pc # "upsert" /\ refresh'.seen = {} /\ refresh'.marked = {}
        <3>1. CASE RefreshBegin \/ RefreshMerge \/ RefreshInvalidate
            BY <2>1, <3>1 DEF RefreshBegin, RefreshMerge, RefreshInvalidate, Shape, RefreshFields, TableInv
        <3>2. CASE RefreshFetch
            BY <2>1, <3>2, IdleShapes DEF RefreshFetch, Shape, RefreshFields, TableInv
        <3>3. CASE RefreshWrite
            BY <3>3, IdleShapes DEF RefreshWrite, IdleRefresh
        <3> QED
            BY <1>2, <3>1, <3>2, <3>3
    <2> QED
        BY <1>1, <2>1, <2>2
<1>3. CASE RefreshLoad
    <2>1. /\ Loading(refresh) /\ LoadInv(refresh) /\ {"pc", "stat", "data"} \subseteq DOMAIN refresh
          /\ UNCHANGED <<known, down, imported, resolved>> /\ refresh.pc # "upsert"
        BY <1>3 DEF RefreshLoad, CatalogInv, Shape, RefreshFields, Loading
    <2>2. Loaded(refresh, loadCatalog(refresh, "import"), "import")
        BY <2>1, LoadStep
    <2>3. Loaded(refresh, refresh', "import")
        BY <1>3, <2>2 DEF RefreshLoad
    <2>4. refresh'.seen = refresh.seen /\ refresh'.marked = refresh.marked /\ refresh'.pc # "upsert"
        BY <2>3 DEF Loaded, Shape, RefreshFields
    <2> QED
        BY <1>1, <2>1, <2>4 DEF TableInv
<1>4. CASE SyncBegin
    <2>1. refresh.pc = "import" /\ refresh'.pc = "upsert" /\ refresh'.seen = refresh.seen
          /\ refresh'.marked = refresh.marked /\ UNCHANGED <<known, down, resolved>>
        BY <1>4 DEF SyncBegin, Shape, RefreshFields
    <2> QED
        BY <2>1 DEF TableInv, Follows
<1>5. ASSUME NEW s \in Servers, SyncUpsert(s) PROVE TableInv'
    <2>1. /\ refresh.pc = "upsert" /\ refresh'.pc = "upsert"
          /\ refresh'.marked = refresh.marked /\ resolved' = resolved
        BY <1>5 DEF SyncUpsert, Shape, RefreshFields
    <2>2. \/ /\ known' = known \cup {s} /\ down' = down \ {s}
             /\ refresh'.seen = refresh.seen \cup {s}
          \/ UNCHANGED <<known, down>> /\ refresh'.seen = refresh.seen
        BY <1>5 DEF SyncUpsert, UpsertVPNServer, Shape, RefreshFields
    <2> QED
        BY <2>1, <2>2 DEF TableInv, Follows
<1>12. ASSUME NEW k \in {Source(s) : s \in Servers}, MarkServersDown(k) PROVE TableInv'
    <2>1. refresh.pc = "upsert" /\ refresh'.pc = "upsert" /\ refresh'.seen = refresh.seen /\ known' = known
        BY <1>12 DEF MarkServersDown, Shape, RefreshFields
    <2>2. \/ /\ down' = down \cup {s \in known \ refresh.seen : Source(s) = k}
             /\ resolved' = {s \in resolved : Source(s) # k}
             /\ refresh'.marked = refresh.marked \cup {k}
          \/ UNCHANGED <<down, resolved>> /\ refresh'.marked = refresh.marked
        BY <1>12 DEF MarkServersDown, Shape, RefreshFields
    <2> QED
        BY <2>1, <2>2 DEF TableInv, Follows
<1>6. CASE SyncEnd
    <2>1. /\ refresh'.pc = "idle" /\ refresh'.seen = {} /\ refresh'.marked = {}
          /\ imported'.seen = refresh.seen /\ imported'.marked = refresh.marked
          /\ UNCHANGED <<known, down, resolved>>
        BY <1>6, IdleShapes DEF SyncEnd
    <2> QED
        BY <2>1 DEF TableInv, Synced, Follows
<1>7. ASSUME NEW s \in Servers, ResolveServerID(s) PROVE TableInv'
    BY <1>7 DEF ResolveServerID, UpsertVPNServer, TableInv, Synced, Follows
<1>8. ASSUME UNCHANGED <<known, down, imported, resolved, refresh>> PROVE TableInv'
    BY <1>8 DEF TableInv, Synced, Follows
<1>9. CASE ProtonRefresh \/ Tick \/ \E s \in Servers : SetQuarantine(s) \/ SetPinned(s)
    <2>1. UNCHANGED <<known, down, imported, resolved, refresh>>
        BY <1>9 DEF ProtonRefresh, Tick, SetQuarantine, SetPinned
    <2> QED
        BY <1>8, <2>1
<1>10. ASSUME NEW n \in Nodes, Provision(n) PROVE TableInv'
    <2>1. UNCHANGED <<known, down, imported, resolved, refresh>>
        BY <1>10 DEF Provision, PickBegin, PickNamed, GetScoredCandidates, PickLoad, ProviderServers,
                     ChooseScored, getSafeHostnameCatalog, Register, StartEvent, Destroy
    <2> QED
        BY <1>8, <2>1
<1>11. CASE UNCHANGED vars
    BY <1>8, <1>11 DEF vars
<1> QED
    BY <1>2, <1>3, <1>4, <1>5, <1>6, <1>7, <1>9, <1>10, <1>11, <1>12 DEF Next, Refresh

\* Between two syncs the table is what the last one has made it, whichever rows
\* could not be written and whatever streams have added while it ran; the rows of
\* a source whose UPDATE failed are as they were.
THEOREM TableIsSynced == Spec => []TableFollowsCatalog
<1>1. Init => TableInv
    BY IdleShapes DEF Init, TableInv, Synced, Follows
<1>2. TableInv => TableFollowsCatalog
    BY DEF TableInv, Synced, Follows, TableFollowsCatalog
<1> QED
    BY <1>1, <1>2, CatalogInit, CatalogStep, TableStep, PTL DEF Spec
-----------------------------------------------------------------------------
(* Quarantine.                                                              *)

TimeInv == now \in Nat /\ DOMAIN until = Servers /\ \A s \in Servers : until[s] \in Nat

\* An earlier day is an earlier time.
LEMMA DayOrder == ASSUME NEW a \in Nat, NEW b \in Nat, Day(a) < Day(b) PROVE a < b
<1> DEFINE qa == a \div TicksPerDay
           qb == b \div TicksPerDay
<1>1. /\ qa \in Int /\ qb \in Int /\ qa < qb
      /\ a < TicksPerDay * qa + TicksPerDay /\ TicksPerDay * qb <= b
    BY DEF Day
<1> HIDE DEF qa, qb
<1>2. TicksPerDay * qa + TicksPerDay <= TicksPerDay * qb
    BY <1>1
<1> QED
    BY <1>1, <1>2

LEMMA TimeStep == TimeInv /\ [Next]_vars => TimeInv'
<1> SUFFICES ASSUME TimeInv, [Next]_vars PROVE TimeInv'
    OBVIOUS
<1>1. ASSUME UNCHANGED <<now, until>> PROVE TimeInv'
    BY <1>1 DEF TimeInv
<1>2. ASSUME NEW s \in Servers, SetQuarantine(s) PROVE TimeInv'
    BY <1>2 DEF SetQuarantine, TimeInv
<1>3. CASE Tick
    BY <1>3 DEF Tick, TimeInv
<1>4. CASE Refresh
    BY <1>1, <1>4 DEF Refresh, RefreshBegin, RefreshFetch, RefreshMerge, RefreshWrite, RefreshInvalidate,
                      RefreshLoad, SyncBegin, SyncUpsert, MarkServersDown, SyncEnd
<1>5. CASE ProtonRefresh \/ \E s \in Servers : ResolveServerID(s) \/ SetPinned(s)
    BY <1>1, <1>5 DEF ProtonRefresh, ResolveServerID, SetPinned
<1>6. ASSUME NEW n \in Nodes, Provision(n) PROVE TimeInv'
    BY <1>1, <1>6 DEF Provision, PickBegin, PickNamed, GetScoredCandidates, PickLoad, ProviderServers,
                      ChooseScored, getSafeHostnameCatalog, Register, StartEvent, Destroy
<1>7. CASE UNCHANGED vars
    BY <1>1, <1>7 DEF vars
<1> QED
    BY <1>2, <1>3, <1>4, <1>5, <1>6, <1>7 DEF Next

\* Only the query makes scored candidates.
LEMMA QueryOnly ==
    ASSUME Shape, CatalogInv, [Next]_vars, NEW n \in Nodes, node[n].pc = "query", node'[n].pc = "stat"
    PROVE  GetScoredCandidates(n)
<1>1. CASE UNCHANGED node
    BY <1>1
<1>2. CASE Refresh \/ ProtonRefresh \/ Tick \/ UNCHANGED vars
    BY <1>1, <1>2 DEF vars, Tick, ProtonRefresh, Refresh, RefreshBegin, RefreshFetch, RefreshMerge,
                      RefreshWrite, RefreshInvalidate, RefreshLoad, SyncBegin, SyncUpsert, MarkServersDown,
                      SyncEnd
<1>3. CASE \E s \in Servers : ResolveServerID(s) \/ SetQuarantine(s) \/ SetPinned(s)
    BY <1>1, <1>3 DEF ResolveServerID, SetQuarantine, SetPinned
<1>4. ASSUME NEW m \in Nodes, Provision(m), m # n PROVE FALSE
    BY <1>4, BeginEffect, NamedEffect, QueryEffect, LoadEffect, LookupEffect, ChooseEffect, RegisterEffect
       DEF Provision, NodeGoes
<1>5. CASE Provision(n)
    BY <1>5 DEF Provision, PickBegin, PickNamed, PickLoad, Loading, ProviderServers, ChooseScored,
                getSafeHostnameCatalog, Register, StartEvent, Destroy
<1> QED
    BY <1>2, <1>3, <1>4, <1>5 DEF Next

\* The query compares two formats of time as text, and still no server that is
\* down or in quarantine is a scored candidate, however long a day is.
THEOREM QuarantineIsKept == Spec => QuarantineHolds
<1>1. Init => TimeInv
    BY DEF Init, TimeInv
<1>2. Shape /\ CatalogInv /\ TimeInv /\ [Next]_vars =>
        [\A n \in Nodes, s \in Servers :
            node[n].pc = "query" /\ node'[n].pc = "stat" /\ s \in node'[n].scored
                => until[s] <= now /\ s \notin down]_vars
    <2> SUFFICES ASSUME Shape, CatalogInv, TimeInv, [Next]_vars, NEW n \in Nodes, NEW s \in Servers,
                        node[n].pc = "query", node'[n].pc = "stat", s \in node'[n].scored
                 PROVE  until[s] <= now /\ s \notin down
        OBVIOUS
    <2>1. GetScoredCandidates(n)
        BY QueryOnly
    <2>2. s \in known \ down /\ Expired(s)
        BY <2>1, QueryEffect
    <2>3. now \in Nat /\ until[s] \in Nat
        BY DEF TimeInv
    <2> QED
        BY <2>2, <2>3, DayOrder DEF Expired
<1> QED
    BY <1>1, <1>2, CatalogInit, CatalogStep, TimeStep, PTL DEF Spec, QuarantineHolds
-----------------------------------------------------------------------------
(* Distinct servers.                                                        *)

Resting(n)   == node[n].pc \in {"none", "up"}
Selecting(n) == node[n].pc \notin {"none", "start", "up"}
Hidden(m, n) == m \in blind[n] \/ n \in blind[m]

\* A provision does not know of the others under way.  Of every other node that
\* is up it knows the server, as long as it selects, and has another one then.
PickInv ==
    /\ DOMAIN blind = Nodes
    /\ \A n \in Nodes : node[n].pc = "up" => node[n].assigned \in {None, node[n].host}
    /\ \A n \in Nodes : Selecting(n) /\ node[n].pc # "query" /\ node[n].mode = "scored" =>
          node[n].scored \cap node[n].busy = {}
    /\ \A m, n \in Nodes : m # n /\ ~Hidden(m, n) =>
          /\ Resting(m) \/ Resting(n)
          /\ node[m].pc = "up" /\ node[m].host # None =>
                /\ Selecting(n) => node[m].host \in node[n].busy
                /\ node[n].pc = "start" => node[m].host # node[n].host
          /\ ~Shared(m, n)

LEMMA PickStep == Shape /\ CatalogInv /\ PickInv /\ [Next]_vars => PickInv'
<1> SUFFICES ASSUME Shape, CatalogInv, PickInv, [Next]_vars PROVE PickInv'
    OBVIOUS
<1>1. ASSUME UNCHANGED <<node, blind>> PROVE PickInv'
    BY <1>1 DEF PickInv, Resting, Selecting, Hidden, Shared
<1>2. CASE Refresh \/ ProtonRefresh \/ Tick \/ UNCHANGED vars
    BY <1>1, <1>2 DEF vars, Tick, ProtonRefresh, Refresh, RefreshBegin, RefreshFetch, RefreshMerge, RefreshWrite,
                      RefreshInvalidate, RefreshLoad, SyncBegin, SyncUpsert, MarkServersDown, SyncEnd
<1>3. CASE \E s \in Servers : ResolveServerID(s) \/ SetQuarantine(s) \/ SetPinned(s)
    BY <1>1, <1>3 DEF ResolveServerID, SetQuarantine, SetPinned
<1>4. ASSUME NEW n \in Nodes, Provision(n) PROVE PickInv'
    <2>1. /\ DOMAIN node' = Nodes
          /\ \A m \in Nodes : m # n => node'[m] = node[m]
        BY <1>4, BeginEffect, NamedEffect, QueryEffect, LoadEffect, LookupEffect, ChooseEffect, RegisterEffect
           DEF Provision, NodeGoes, Shape
    <2>2. ASSUME NEW ms, Blind(n, ms)
          PROVE  /\ DOMAIN blind' = Nodes /\ blind'[n] = ms
                 /\ \A m, k \in Nodes : m # n /\ k # n => (Hidden(m, k)' <=> Hidden(m, k))
        BY <2>2 DEF Blind, PickInv, Hidden
    <2>3. CASE PickBegin(n)
        <3>1. /\ node'[n].pc = "query" /\ node'[n].busy = InUse
              /\ DOMAIN blind' = Nodes /\ blind'[n] = Unlisted
              /\ \A m, k \in Nodes : m # n /\ k # n => (Hidden(m, k)' <=> Hidden(m, k))
            BY <2>2, <2>3, BeginEffect DEF NodeGoes, PickBegin
        <3>2. ASSUME NEW m \in Nodes, m # n, m \notin blind'[n]
              PROVE  /\ Resting(m)'
                     /\ node'[m].pc = "up" /\ node'[m].host # None => node'[m].host \in node'[n].busy
            <4>1. node'[m] = node[m] /\ Resting(m) /\ (node[m].pc = "up" => node[m].assigned # None)
                BY <2>1, <3>1, <3>2 DEF Unlisted, Resting
            <4>2. node[m].pc = "up" => node[m].assigned = node[m].host /\ node[m].assigned \in InUse
                BY <4>1 DEF PickInv, InUse
            <4> QED
                BY <3>1, <4>1, <4>2 DEF Resting
        <3>3. ASSUME NEW m \in Nodes, m # n, m \notin blind'[n] \/ n \notin blind'[m]
              PROVE  ~Shared(m, n)' /\ ~Shared(n, m)'
            BY <3>1 DEF Shared
        <3> QED
            BY <2>1, <3>1, <3>2, <3>3 DEF PickInv, Resting, Selecting, Hidden, Shared
    <2>4. CASE PickNamed(n)
        <3>1. /\ node'[n].pc = "start"
              /\ DOMAIN blind' = Nodes /\ blind'[n] = Nodes \ {n}
              /\ \A m, k \in Nodes : m # n /\ k # n => (Hidden(m, k)' <=> Hidden(m, k))
            BY <2>2, <2>4, NamedEffect DEF NodeGoes, PickNamed
        <3> QED
            BY <2>1, <3>1 DEF PickInv, Resting, Selecting, Hidden, Shared
    <2>5. ASSUME Selecting(n), Selecting(n)', UNCHANGED blind, node'[n].busy = node[n].busy,
                 node'[n].pc # "query" /\ node'[n].mode = "scored" => node'[n].scored \cap node'[n].busy = {}
          PROVE  PickInv'
        BY <2>1, <2>5 DEF PickInv, Resting, Selecting, Hidden, Shared
    <2>6. CASE GetScoredCandidates(n)
        <3>1. node[n].pc = "query" /\ node'[n].pc = "stat" /\ UNCHANGED blind /\ node'[n].busy = node[n].busy
              /\ node'[n].scored \cap node'[n].busy = {}
            BY <2>6, QueryEffect DEF GetScoredCandidates, NodeGoes
        <3> QED
            BY <2>5, <3>1 DEF Selecting
    <2>7. CASE PickLoad(n) \/ ProviderServers(n)
        <3>1. /\ node[n].pc \in {"stat", "check", "read", "keep", "lookup"}
              /\ node'[n].pc \in {"check", "read", "keep", "lookup", "choose"} /\ UNCHANGED blind
            BY <2>7, LoadEffect, LookupEffect DEF PickLoad, Loading, ProviderServers, NodeGoes
        <3>2. \A x \in {"mode", "busy", "scored", "host"} : node'[n][x] = node[n][x]
            BY <2>7, LoadEffect, LookupEffect
        <3>3. node[n].mode = "scored" => node[n].scored \cap node[n].busy = {}
            BY <3>1 DEF PickInv, Selecting
        <3>4. node'[n].mode = node[n].mode /\ node'[n].busy = node[n].busy /\ node'[n].scored = node[n].scored
            BY <3>2
        <3> QED
            BY <2>5, <3>1, <3>3, <3>4 DEF Selecting
    <2>8. CASE ChooseScored(n) \/ getSafeHostnameCatalog(n)
        <3>1. node[n].pc = "choose" /\ UNCHANGED blind
            BY <2>8, ChooseEffect DEF ChooseScored, getSafeHostnameCatalog
        <3>2. CASE node'[n].pc = "stat" /\ node'[n].mode = "catalog" /\ node'[n].busy = node[n].busy
            BY <2>5, <3>1, <3>2 DEF Selecting
        <3>3. CASE /\ node'[n].pc = "start"
                   /\ \/ node[n].mode = "scored" /\ node'[n].host \in node[n].scored
                      \/ node'[n].host = None \/ node'[n].host \notin node[n].busy
            <4>1. node'[n].host = None \/ node'[n].host \notin node[n].busy
                BY <3>1, <3>3 DEF PickInv, Selecting
            <4> QED
                BY <2>1, <3>1, <3>3, <4>1 DEF PickInv, Resting, Selecting, Hidden, Shared
        <3> QED
            BY <2>8, <3>2, <3>3, ChooseEffect DEF NodeGoes
    <2>9. CASE Register(n) \/ StartEvent(n) \/ Destroy(n)
        <3>1. /\ UNCHANGED blind
              /\ \/ node'[n].pc = "none"
                 \/ /\ node'[n].pc = "up" /\ node[n].pc \in {"start", "up"} /\ node'[n].host = node[n].host
                    /\ node'[n].assigned \in {None, node'[n].host}
            BY <2>9, RegisterEffect DEF NodeGoes
        <3> QED
            BY <2>1, <3>1 DEF PickInv, Resting, Selecting, Hidden, Shared
    <2> QED
        BY <1>4, <2>3, <2>4, <2>6, <2>7, <2>8, <2>9 DEF Provision
<1> QED
    BY <1>2, <1>3, <1>4 DEF Next

\* "each VPN node lands on a distinct server" (node_provisioner.go:149): of two
\* nodes of which one could learn the other's server when its provision began,
\* neither has the other's, however many nodes there are, by score or from the
\* catalog, and whichever were destroyed or lost their record meanwhile.
THEOREM ServersAreDistinct == Spec => []DistinctServers
<1>1. Init => PickInv
    BY IdleShapes DEF Init, PickInv, Resting, Selecting, Hidden, Shared
<1>2. PickInv => DistinctServers
    BY DEF PickInv, DistinctServers, Hidden
<1> QED
    BY <1>1, <1>2, CatalogInit, CatalogStep, PickStep, PTL DEF Spec
=============================================================================
