----------------------------- MODULE VpnServers -----------------------------
(* The list of VPN servers and the choice of one for a node:                 *)
(* controlplane/vpn/servers_refresh.go (download and merge of servers.json), *)
(* CatalogManager (the cache of the file), SyncCatalogToDB and the           *)
(* vpn_server table (persistence/reputation.go), and GetSafeHostname as      *)
(* ProvisionNode calls it.                                                   *)
(*                                                                          *)
(* A refresh, the sidecar that writes the Proton section, the handlers that  *)
(* quarantine and pin servers, provisions and the handler of Docker's start  *)
(* events run side by side and share only the file, the cache entry, the     *)
(* table and the nodes' records in the state store.  Scores order the        *)
(* candidates and jitter makes any of the best a possible choice: they are   *)
(* left out, the choice is any candidate.  The nodes do without port         *)
(* forwarding, so applyPFFilterGuard returns at once.                        *)
EXTENDS Integers, FiniteSets

CONSTANTS
    Servers,
    SectionOf,      \* the section of servers.json that lists a server
    Forwarding,     \* servers with port_forward
    Provider,       \* the section of the provider the nodes are made for
    Fits,           \* servers that meet the protocol and region asked for
    Offers,         \* what a download may bring: functions from some sections to servers
    ProtonLists,    \* what the Proton sidecar may write
    Watched,        \* servers that are quarantined and pinned
    Named,          \* servers that a credential names itself, None for an endpoint
    Nodes,
    TicksPerDay,    \* length of a day on the clock
    MaxTime,        \* bound of the clock
    MaxVersion,     \* bound: writes of servers.json
    None

ASSUME DayAssumption == TicksPerDay \in Nat \ {0}

VARIABLES
    file,           \* servers.json: [ver, sec]; ver stands for its mtime, 0 for no file
    catalog,        \* CatalogManager.catalogs: [mtime, data] or None
    known, down,    \* vpn_server: the rows, and those with status 'down'
    until,          \* quarantined_until, 0 for NULL
    pinned,
    now,
    refresh,        \* RefreshOfficial: [pc, payload, base, wrote, stat, data, todo, seen, asked, marked]
    imported,       \* the last complete sync: [seen, marked], the rows it has written and
                    \* the sources whose other rows it has marked down, or None
    resolved,       \* servers that ResolveServerID has added since then
    node,           \* ProvisionNode of each node: [pc, mode, busy, scored, pins, stat, data, fits,
                    \* host, assigned]; host is the container's server, assigned the
                    \* AssignedHostname that the state store has of it
    blind           \* history: the nodes whose server a provision could not learn when it began

table == <<known, down, until, pinned>>
vars  == <<file, catalog, table, now, refresh, imported, resolved, node, blind>>

Listed(data) == UNION {data.sec[k] : k \in DOMAIN data.sec}

sourceForProvider(k) == IF k = "protonvpn" THEN "proton" ELSE "gluetun"
Source(s) == sourceForProvider(SectionOf[s])

IdleRefresh  == [pc |-> "idle", payload |-> <<>>, base |-> None, wrote |-> 0, stat |-> 0,
                 data |-> None, todo |-> {}, seen |-> {}, asked |-> {}, marked |-> {}]
IdleNode     == [pc |-> "none", mode |-> "scored", busy |-> {}, scored |-> {}, pins |-> {},
                 stat |-> 0, data |-> None, fits |-> {}, host |-> None, assigned |-> None]
-----------------------------------------------------------------------------
(* RefreshOfficial.  inProgress lets one run at a time; another caller gets   *)
(* an error.                                                                *)

RefreshBegin ==
    /\ refresh.pc = "idle"
    /\ file.ver < MaxVersion
    /\ refresh' = [refresh EXCEPT !.pc = "fetch"]
    /\ UNCHANGED <<file, catalog, table, now, imported, resolved, node, blind>>

\* fetchAllProviders: a provider that cannot be fetched is left out, an error
\* is returned if none could be.
RefreshFetch ==
    /\ refresh.pc = "fetch"
    /\ \/ \E offer \in Offers : refresh' = [refresh EXCEPT !.pc = "merge", !.payload = offer]
       \/ refresh' = IdleRefresh
    /\ UNCHANGED <<file, catalog, table, now, imported, resolved, node, blind>>

\* loadExistingJSON, after the Proton section was cut to servers with port forwarding.
RefreshMerge ==
    /\ refresh.pc = "merge"
    /\ refresh' = [refresh EXCEPT !.pc = "write", !.base = file]
    /\ UNCHANGED <<file, catalog, table, now, imported, resolved, node, blind>>

\* The downloaded sections replace the existing ones; a Proton section that
\* exists is kept.
Merged(base, payload) ==
    [k \in DOMAIN base \cup DOMAIN payload |->
        IF k \notin DOMAIN payload \/ (k = "protonvpn" /\ k \in DOMAIN base) THEN base[k]
        ELSE IF k = "protonvpn" THEN payload[k] \cap Forwarding ELSE payload[k]]

\* atomicWriteJSON, which may fail.
RefreshWrite ==
    /\ refresh.pc = "write"
    /\ \/ /\ file.ver < MaxVersion
          /\ file' = [ver |-> file.ver + 1, sec |-> Merged(refresh.base.sec, refresh.payload)]
          /\ refresh' = [IdleRefresh EXCEPT !.pc = "invalidate", !.wrote = file.ver + 1]
       \/ refresh' = IdleRefresh /\ UNCHANGED file
    /\ UNCHANGED <<catalog, table, now, imported, resolved, node, blind>>

\* The cached catalog is dropped.
RefreshInvalidate ==
    /\ refresh.pc = "invalidate"
    /\ catalog' = None
    /\ refresh' = [refresh EXCEPT !.pc = "stat"]
    /\ UNCHANGED <<file, table, now, imported, resolved, node, blind>>

-----------------------------------------------------------------------------
(* CatalogManager.loadCatalog: look at the file's mtime, compare it with the  *)
(* cached entry, read the file, store the entry.                             *)

\* Mutant: an entry that is there is used, whatever the file's mtime is.
HitAnyAge(stat) == catalog # None

Hit(stat) == catalog # None /\ catalog.mtime = stat

Loading(l) == l.pc \in {"stat", "check", "read", "keep"}

\* What a step makes of a loader l, which goes on with pc done once it has data.
loadCatalog(l, done) ==
    CASE l.pc = "stat"  -> IF file.ver = 0 THEN [l EXCEPT !.pc = done]    \* no file
                           ELSE [l EXCEPT !.stat = file.ver, !.pc = "check"]
      [] l.pc = "check" -> IF Hit(l.stat) THEN [l EXCEPT !.data = catalog.data, !.pc = done]
                                          ELSE [l EXCEPT !.pc = "read"]
      [] l.pc = "read"  -> [l EXCEPT !.data = file, !.pc = "keep"]
      [] l.pc = "keep"  -> [l EXCEPT !.pc = done]

CatalogAfter(l) == IF l.pc = "keep" THEN [mtime |-> l.stat, data |-> l.data] ELSE catalog

RefreshLoad ==
    /\ Loading(refresh)
    /\ refresh' = loadCatalog(refresh, "import")
    /\ catalog' = CatalogAfter(refresh)
    /\ UNCHANGED <<file, table, now, imported, resolved, node, blind>>
-----------------------------------------------------------------------------
(* SyncCatalogToDB *)

SyncBegin ==
    /\ refresh.pc = "import"
    /\ refresh' = [refresh EXCEPT !.pc = "upsert", !.todo = Listed(refresh.data)]
    /\ UNCHANGED <<file, catalog, table, now, imported, resolved, node, blind>>

\* UpsertVPNServer writes the status 'unknown' and keeps quarantine and pin.
UpsertVPNServer(s) == known' = known \cup {s} /\ down' = down \ {s}

\* A row that cannot be written does not count as seen.
SyncUpsert(s) ==
    /\ refresh.pc = "upsert"
    /\ s \in refresh.todo
    /\ \/ /\ UpsertVPNServer(s)
          /\ refresh' = [refresh EXCEPT !.todo = @ \ {s}, !.seen = @ \cup {s}]
       \/ /\ refresh' = [refresh EXCEPT !.todo = @ \ {s}]
          /\ UNCHANGED <<known, down>>
    /\ UNCHANGED <<file, catalog, until, pinned, now, imported, resolved, node, blind>>

SeenSources == {Source(s) : s \in refresh.seen}

\* Mutant: the rows of the list go down, not the others (IN for NOT IN).
MarkServersDownSeen(k) ==
    /\ refresh.pc = "upsert" /\ refresh.todo = {}
    /\ k \in SeenSources \ refresh.asked
    /\ \/ /\ down' = down \cup {s \in known \cap refresh.seen : Source(s) = k}
          /\ resolved' = {s \in resolved : Source(s) # k}
          /\ refresh' = [refresh EXCEPT !.asked = @ \cup {k}, !.marked = @ \cup {k}]
       \/ /\ refresh' = [refresh EXCEPT !.asked = @ \cup {k}]
          /\ UNCHANGED <<down, resolved>>
    /\ UNCHANGED <<file, catalog, known, until, pinned, now, imported, node, blind>>

\* MarkServersDown: one UPDATE for each source of which some server was seen.
\* One that fails is logged and the next source goes on.
MarkServersDown(k) ==
    /\ refresh.pc = "upsert" /\ refresh.todo = {}
    /\ k \in SeenSources \ refresh.asked
    /\ \/ /\ down' = down \cup {s \in known \ refresh.seen : Source(s) = k}
          /\ resolved' = {s \in resolved : Source(s) # k}
          /\ refresh' = [refresh EXCEPT !.asked = @ \cup {k}, !.marked = @ \cup {k}]
       \/ /\ refresh' = [refresh EXCEPT !.asked = @ \cup {k}]
          /\ UNCHANGED <<down, resolved>>
    /\ UNCHANGED <<file, catalog, known, until, pinned, now, imported, node, blind>>

SyncEnd ==
    /\ refresh.pc = "upsert" /\ refresh.todo = {} /\ refresh.asked = SeenSources
    /\ imported' = [seen |-> refresh.seen, marked |-> refresh.marked]
    /\ refresh' = IdleRefresh
    /\ UNCHANGED <<file, catalog, table, now, resolved, node, blind>>

\* The sidecar of mgHandleProtonRefresh writes its section of the file.
ProtonRefresh ==
    /\ file.ver < MaxVersion
    /\ \E list \in ProtonLists :
          file' = [ver |-> file.ver + 1,
                   sec |-> [k \in DOMAIN file.sec \cup {"protonvpn"} |->
                              IF k = "protonvpn" THEN list ELSE file.sec[k]]]
    /\ UNCHANGED <<catalog, table, now, refresh, imported, resolved, node, blind>>

\* ResolveServerID: a stream on a node ends; its server gets a row.  (The row
\* that a server of another provider gets under this provider is not tracked.)
ResolveServerID(s) ==
    /\ SectionOf[s] = Provider
    /\ \E n \in Nodes : node[n].pc = "up" /\ node[n].assigned = s
    /\ s \notin known
    /\ UpsertVPNServer(s)
    /\ resolved' = resolved \cup {s}
    /\ UNCHANGED <<file, catalog, until, pinned, now, refresh, imported, node, blind>>

\* The quarantine handler and the auto-quarantine job: a time, or NULL.
SetQuarantine(s) ==
    /\ s \in known \cap Watched
    /\ \E t \in {0} \cup (now + 1)..MaxTime : until' = [until EXCEPT ![s] = t] /\ until' # until
    /\ UNCHANGED <<file, catalog, known, down, pinned, now, refresh, imported, resolved, node, blind>>

SetPinned(s) ==
    /\ s \in known \cap Watched
    /\ pinned' = IF s \in pinned THEN pinned \ {s} ELSE pinned \cup {s}
    /\ UNCHANGED <<file, catalog, known, down, until, now, refresh, imported, resolved, node, blind>>

Tick ==
    /\ now < MaxTime
    /\ now' = now + 1
    /\ UNCHANGED <<file, catalog, table, refresh, imported, resolved, node, blind>>
-----------------------------------------------------------------------------
(* GetSafeHostname, called by ProvisionNode *)

Section(data, k) == IF k \in DOMAIN data.sec THEN data.sec[k] ELSE {}
Become(n, r) == node' = [node EXCEPT ![n] = r]
Day(t) == t \div TicksPerDay

\* The servers that the store has of the registered nodes are not chosen again.
InUse == {node[m].assigned : m \in {m \in Nodes : node[m].pc = "up"}} \ {None}

\* The nodes whose servers are not there: those under way, and those whose
\* record has lost it.
Unlisted == {m \in Nodes : node[m].pc # "none" /\ (node[m].pc = "up" => node[m].assigned = None)}

\* A provision of n begins, which does not know the servers of ms.
Blind(n, ms) == blind' = [m \in Nodes |-> IF m = n THEN ms ELSE blind[m] \ {n}]

\* Mutant: no server counts as in use.
PickBeginUnaware(n) ==
    /\ node[n].pc = "none"
    /\ Become(n, [node[n] EXCEPT !.pc = "query", !.busy = {}])
    /\ Blind(n, Unlisted)
    /\ UNCHANGED <<file, catalog, table, now, refresh, imported, resolved>>

PickBegin(n) ==
    /\ node[n].pc = "none"
    /\ Become(n, [node[n] EXCEPT !.pc = "query", !.busy = InUse])
    /\ Blind(n, Unlisted)
    /\ UNCHANGED <<file, catalog, table, now, refresh, imported, resolved>>

\* A credential that names its server or endpoint is not looked at further.
PickNamed(n) ==
    /\ node[n].pc = "none"
    /\ \E s \in Named : Become(n, [IdleNode EXCEPT !.pc = "start", !.host = s])
    /\ Blind(n, Nodes \ {n})
    /\ UNCHANGED <<file, catalog, table, now, refresh, imported, resolved>>

\* Mutant: both sides of the comparison are cut to their date.
ExpiredSameDay(s) == until[s] = 0 \/ Day(until[s]) <= Day(now)

\* quarantined_until <= datetime('now') compares 2006-01-02T15:04:05Z with
\* 2006-01-02 15:04:05 as text.  On one day the T is the larger character.
Expired(s) == until[s] = 0 \/ Day(until[s]) < Day(now)

\* GetScoredCandidates
GetScoredCandidates(n) ==
    LET free == {s \in known \ down : Expired(s)} \ node[n].busy
    IN  /\ node[n].pc = "query"
        /\ Become(n, [node[n] EXCEPT !.pc = "stat", !.scored = free, !.pins = free \cap pinned,
                                     !.mode = IF free = {} THEN "catalog" ELSE "scored"])
        /\ UNCHANGED <<file, catalog, table, now, refresh, imported, resolved, blind>>

\* candidateServers loads the catalog ...
PickLoad(n) ==
    /\ Loading(node[n])
    /\ Become(n, loadCatalog(node[n], "lookup"))
    /\ catalog' = CatalogAfter(node[n])
    /\ UNCHANGED <<file, table, now, refresh, imported, resolved, blind>>

\* ... and ProviderServers then takes the section from the entry that is cached
\* by now, or nothing.  What fits remains.
ProviderServers(n) ==
    /\ node[n].pc = "lookup"
    /\ Become(n, [node[n] EXCEPT !.pc = "choose", !.stat = 0, !.data = None,
           !.fits = IF catalog = None THEN {} ELSE Section(catalog.data, Provider) \cap Fits])
    /\ UNCHANGED <<file, catalog, table, now, refresh, imported, resolved, blind>>

\* No candidate in the catalog counts as no constraint.  Pinned servers come
\* first.  Without a candidate the selection falls back to the catalog.
Eligible(n) == IF node[n].fits = {} THEN node[n].scored ELSE node[n].scored \cap node[n].fits
Preferred(n) == IF Eligible(n) \cap node[n].pins # {} THEN Eligible(n) \cap node[n].pins
                                                       ELSE Eligible(n)

ChooseScored(n) ==
    /\ node[n].pc = "choose" /\ node[n].mode = "scored"
    /\ \/ \E s \in Preferred(n) : Become(n, [IdleNode EXCEPT !.pc = "start", !.host = s])
       \/ /\ Eligible(n) = {}
          /\ Become(n, [IdleNode EXCEPT !.pc = "stat", !.busy = node[n].busy, !.mode = "catalog"])
    /\ UNCHANGED <<file, catalog, table, now, refresh, imported, resolved, blind>>

\* getSafeHostnameCatalog looks at neither status nor quarantine; without a
\* server it returns "" and the VPN client chooses for itself.
getSafeHostnameCatalog(n) ==
    LET safe == node[n].fits \ node[n].busy
    IN  /\ node[n].pc = "choose" /\ node[n].mode = "catalog"
        /\ \E s \in IF safe = {} THEN {None} ELSE safe :
              Become(n, [IdleNode EXCEPT !.pc = "start", !.host = s])
        /\ UNCHANGED <<file, catalog, table, now, refresh, imported, resolved, blind>>

\* The container starts and the node is registered, or it does not start.
Register(n) ==
    /\ node[n].pc = "start"
    /\ \/ Become(n, [node[n] EXCEPT !.pc = "up", !.assigned = node[n].host])
       \/ Become(n, IdleNode)
    /\ UNCHANGED <<file, catalog, table, now, refresh, imported, resolved, blind>>

\* handleVPNStart: a start event that is handled after the registration, late or
\* because Docker has restarted the container, writes the record anew without
\* the AssignedHostname, and UpsertVPNNode does not keep it.  (A record that
\* Reindex makes of a running container has none either.)
StartEvent(n) ==
    /\ node[n].pc = "up" /\ node[n].assigned # None
    /\ Become(n, [node[n] EXCEPT !.assigned = None])
    /\ UNCHANGED <<file, catalog, table, now, refresh, imported, resolved, blind>>

\* DestroyNode
Destroy(n) ==
    /\ node[n].pc = "up"
    /\ Become(n, IdleNode)
    /\ UNCHANGED <<file, catalog, table, now, refresh, imported, resolved, blind>>
-----------------------------------------------------------------------------
\* A first start without servers.json; the rows are those of earlier runs.
Init ==
    /\ file = [ver |-> 0, sec |-> <<>>]
    /\ catalog = None
    /\ known = {} /\ down = {} /\ pinned = {}
    /\ until = [s \in Servers |-> 0]
    /\ now = 0
    /\ refresh = IdleRefresh
    /\ imported = None /\ resolved = {}
    /\ node = [n \in Nodes |-> IdleNode]
    /\ blind = [n \in Nodes |-> {}]

Refresh ==
    \/ RefreshBegin \/ RefreshFetch \/ RefreshMerge \/ RefreshWrite \/ RefreshInvalidate
    \/ RefreshLoad \/ SyncBegin \/ SyncEnd
    \/ \E s \in Servers : SyncUpsert(s)
    \/ \E k \in {Source(s) : s \in Servers} : MarkServersDown(k)

Provision(n) ==
    \/ PickBegin(n) \/ PickNamed(n) \/ GetScoredCandidates(n) \/ PickLoad(n) \/ ProviderServers(n)
    \/ ChooseScored(n) \/ getSafeHostnameCatalog(n) \/ Register(n) \/ StartEvent(n) \/ Destroy(n)

Next ==
    \/ Refresh \/ ProtonRefresh \/ Tick
    \/ \E s \in Servers : ResolveServerID(s) \/ SetQuarantine(s) \/ SetPinned(s)
    \/ \E n \in Nodes : Provision(n)

Spec == Init /\ [][Next]_vars
-----------------------------------------------------------------------------
\* The catalog that a refresh imports is the one it has written or a later one:
\* no cached entry, and no loader that stores an old entry late, makes the
\* import lag behind the file.
SyncImportsWritten ==
    refresh.pc \in {"import", "upsert"} => refresh.data.ver >= refresh.wrote

\* Between two syncs the table follows the last one, although each of its writes
\* may fail (vpn/reputation.go:539-551): the servers it has written are known
\* and not down, and of every source whose UPDATE it got through the other rows
\* are down, except rows that a stream has added since.
TableFollowsCatalog ==
    refresh.pc = "idle" /\ imported # None =>
        /\ imported.seen \subseteq known \ down
        /\ \A s \in known \ (imported.seen \cup resolved) :
              Source(s) \in imported.marked => s \in down

\* The same without regard to failed UPDATEs: of every source it has seen.  Does
\* not hold; the rows stay up until the next sync (vpn/reputation.go:547-551).
UnseenAreDown ==
    refresh.pc = "idle" /\ imported # None =>
        \A s \in known \ (imported.seen \cup resolved) :
            Source(s) \in {Source(t) : t \in imported.seen} => s \in down

\* A server in quarantine or down is never a scored candidate, although the
\* query compares two formats of time as text.
QuarantineHolds ==
    [][\A n \in Nodes, s \in Servers :
          node[n].pc = "query" /\ node'[n].pc = "stat" /\ s \in node'[n].scored
              => until[s] <= now /\ s \notin down]_vars

Shared(m, n) == /\ node[m].pc = "up" /\ node[n].pc = "up"
                /\ node[m].host # None /\ node[m].host = node[n].host

\* Two nodes share a server only if neither provision could learn of the other's
\* when it began (node_provisioner.go:149-155): it was still under way, its
\* record had lost the name, or the own credential names a server.  No step
\* between that look and the registration, no fallback to the catalog, no
\* event and no node that comes or goes meanwhile makes it choose a server it
\* has seen in use.
DistinctServers ==
    \A m, n \in Nodes :
        m # n /\ m \notin blind[n] /\ n \notin blind[m] => ~Shared(m, n)

\* "Collect hostnames already in use so each VPN node lands on a distinct server."
\* (node_provisioner.go:149)
EachOnDistinctServer == \A m, n \in Nodes : m # n => ~Shared(m, n)

\* "Filter by catalog constraints (provider, regions, protocol,
\* port-forwarding)" (vpn/reputation.go:263): the server of a node is one of its
\* provider and fits what was asked for.
PickMeetsConstraints ==
    \A n \in Nodes : node[n].pc = "up" /\ node[n].host # None =>
        SectionOf[node[n].host] = Provider /\ node[n].host \in Fits
=============================================================================
