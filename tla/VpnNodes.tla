------------------------------ MODULE VpnNodes ------------------------------
(***************************************************************************)
(* Dynamic VPN nodes: a node is a Gluetun container that holds one leased  *)
(* credential and, for AirVPN, one port of a shared pool.  Composed here:  *)
(*                                                                         *)
(*   - CredentialManager, every method one critical section of its lock    *)
(*     (internal/controlplane/vpn/credentials.go), and its AirVPNPortPool  *)
(*     (airvpn_ports.go);                                                  *)
(*   - Provisioner.ProvisionNode, run by the lifecycle manager and by API  *)
(*     handlers at the same time, and DestroyNode, serialised by cleanupMu *)
(*     (node_provisioner.go);                                              *)
(*   - the LifecycleManager's decisions to drain, recover and destroy      *)
(*     (lifecycle.go);                                                     *)
(*   - Docker, which keeps containers across a restart of the process;     *)
(*   - the start of the process: leases restored from container labels,    *)
(*     then CleanupManaged (cmd/main.go).                                  *)
(*                                                                         *)
(* Every attempt to provision makes up a container name of its own, so a   *)
(* name stands for the attempt as well.  Regions, hostnames and the rest   *)
(* of the container's environment are left out.                            *)
(***************************************************************************)
EXTENDS Integers, Sequences, FiniteSets

CONSTANTS
    Names,     \* container names; bound: attempts to provision
    Creds,     \* credential ids
    Ports,     \* AirVPN ports
    PortsOf,   \* credential -> its firewall_vpn_input_ports
    None,      \* no credential, no port, no name
    Faults     \* what may go wrong or be changed: see FaultEvents

FaultEvents == {"dockerFails",   \* Docker refuses a creation or a removal
                "startFails",    \* ContainerStart fails, the container is removed
                "removeFails",   \* ... and that removal fails too
                "exits",         \* a container exits or comes back
                "vanishes",      \* a container is removed behind the process's back
                "reconfigure",   \* credentials not in use are added and deleted
                "dropLeased",    \* a credential is deleted while leased
                "apiDestroy",    \* DELETE /vpn/nodes/{name}
                "restart"}       \* the process crashes and starts again

ASSUME VpnAssumption ==
    /\ IsFiniteSet(Creds)
    /\ None \notin Names /\ None \notin Creds /\ None \notin Ports
    /\ PortsOf \in [Creds -> SUBSET Ports]
    /\ Faults \subseteq FaultEvents

VARIABLES
    byID,        \* CredentialManager.byID
    available,   \* CredentialManager.available
    leases,      \* CredentialManager.leases: name -> credential or None
    byCont,      \* AirVPNPortPool.byCont: name -> port or None (claimed is its inverse)
    pc,          \* ProvisionNode of a name; "dead": failed, or of an earlier process
    cred,        \* the credential in the container's label
    port,        \* the port in the container's environment, or None
    docker,      \* Docker's view of the container
    node,        \* Store.vpnNodes: "none", "active", "draining"
    destroying,  \* the name whose DestroyNode holds cleanupMu, or None
    removed,     \* ... and its containers are gone
    cleaning     \* names CleanupManaged still has to destroy at startup

managerVars == <<byID, available, leases, byCont>>
nodeVars    == <<pc, cred, port, docker, node>>
destroyVars == <<destroying, removed, cleaning>>
vars == <<managerVars, nodeVars, destroyVars>>

Pcs == {"unused", "leased", "ready", "created", "failing", "started", "done", "dead"}

\* The orders in which a map's keys can be ranged over.
Orderings(S) == {s \in [1..Cardinality(S) -> S] :
                    /\ \A i, j \in 1..Cardinality(S) : s[i] = s[j] => i = j
                    /\ \A x \in S : \E i \in 1..Cardinality(S) : s[i] = x}

-----------------------------------------------------------------------------
(* CredentialManager and AirVPNPortPool.                                   *)

Leased == {leases[n] : n \in Names} \ {None}

PortUniverse(S) == UNION {PortsOf[c] : c \in S}

\* Mutant: the available list is rebuilt from the whole pool.
ConfigureAllAvailable(S) ==
    /\ byID'   = S
    /\ leases' = [n \in Names |-> IF leases[n] \in S THEN leases[n] ELSE None]
    /\ \E s \in Orderings(S) : available' = s
    /\ byCont' = [n \in Names |-> IF byCont[n] \in PortUniverse(S) THEN byCont[n] ELSE None]

\* Mutant: the leases of credentials that are gone stay.
ConfigureKeepsLeases(S) ==
    /\ byID'   = S
    /\ leases' = leases
    /\ \E s \in Orderings(S \ Leased) : available' = s
    /\ byCont' = [n \in Names |-> IF byCont[n] \in PortUniverse(S) THEN byCont[n] ELSE None]

\* Configure: replace the pool, evict the leases of credentials that are gone,
\* rebuild the available list and the port pool.
Configure(S) ==
    /\ byID'   = S
    /\ leases' = [n \in Names |-> IF leases[n] \in S THEN leases[n] ELSE None]
    /\ \E s \in Orderings(S \ Leased) : available' = s
    /\ byCont' = [n \in Names |-> IF byCont[n] \in PortUniverse(S) THEN byCont[n] ELSE None]

\* Mutant: a lease that is not there is released as well.
ReleaseLeaseMissing(n) ==
    /\ leases' = [leases EXCEPT ![n] = None]
    /\ available' = Append(available, leases[n])

ReleaseLease(n) ==
    /\ leases' = [leases EXCEPT ![n] = None]
    /\ available' = IF leases[n] \in byID THEN Append(available, leases[n]) ELSE available

\* RestoreLeases(nodes): a credential of the pool goes to the first of the
\* containers that carry its label.
RestoreLeases(nodes) ==
    /\ \E owner \in [Creds -> Names \cup {None}] :
          /\ \A c \in Creds :
                LET holders == {n \in nodes : cred[n] = c} IN
                IF c \in byID /\ holders # {} THEN owner[c] \in holders ELSE owner[c] = None
          /\ leases' = [n \in Names |-> IF cred[n] # None /\ owner[cred[n]] = n THEN cred[n] ELSE None]
          /\ \E s \in Orderings({c \in byID : owner[c] = None}) : available' = s

\* acquirePort takes a port no container has claimed.
FreePorts == PortUniverse(byID) \ {byCont[n] : n \in Names}

-----------------------------------------------------------------------------
Init ==
    /\ byID \in SUBSET Creds /\ byID # {}
    /\ available \in Orderings(byID)
    /\ leases = [n \in Names |-> None]
    /\ byCont = [n \in Names |-> None]
    /\ pc = [n \in Names |-> "unused"]
    /\ cred = [n \in Names |-> None]
    /\ port = [n \in Names |-> None]
    /\ docker = [n \in Names |-> "absent"]
    /\ node = [n \in Names |-> "none"]
    /\ destroying = None /\ removed = FALSE /\ cleaning = {}

\* Until CleanupManaged is through, nothing else runs.
Up == cleaning = {}

-----------------------------------------------------------------------------
(* ProvisionNode.                                                          *)

AcquireLease(n) ==
    /\ Up /\ pc[n] = "unused" /\ available # <<>>
    /\ leases'    = [leases EXCEPT ![n] = Head(available)]
    /\ cred'      = [cred EXCEPT ![n] = Head(available)]
    /\ available' = Tail(available)
    /\ pc' = [pc EXCEPT ![n] = "leased"]
    /\ UNCHANGED <<byID, byCont, port, docker, node, destroyVars>>

\* The protocol cannot be resolved or the environment not be built.
BuildFails(n) ==
    /\ Up /\ pc[n] = "leased"
    /\ ReleaseLease(n)
    /\ pc' = [pc EXCEPT ![n] = "dead"]
    /\ UNCHANGED <<byID, byCont, cred, port, docker, node, destroyVars>>

\* A credential that supports AirVPN forwarding gets a port of the pool, if
\* one is left.
AcquirePort(n) ==
    /\ Up /\ pc[n] = "leased"
    /\ IF PortsOf[cred[n]] # {} /\ FreePorts # {}
       THEN \E p \in FreePorts : /\ byCont' = [byCont EXCEPT ![n] = p]
                                 /\ port'   = [port EXCEPT ![n] = p]
       ELSE UNCHANGED <<byCont, port>>
    /\ pc' = [pc EXCEPT ![n] = "ready"]
    /\ UNCHANGED <<byID, available, leases, cred, docker, node, destroyVars>>

ContainerCreate(n) ==
    /\ Up /\ pc[n] = "ready"
    /\ \/ /\ docker' = [docker EXCEPT ![n] = "created"]
          /\ pc' = [pc EXCEPT ![n] = "created"]
       \/ /\ "dockerFails" \in Faults
          /\ pc' = [pc EXCEPT ![n] = "failing"]
          /\ UNCHANGED docker
    /\ UNCHANGED <<managerVars, cred, port, node, destroyVars>>

ContainerStart(n) ==
    /\ Up /\ pc[n] = "created" /\ docker[n] = "created"
    /\ docker' = [docker EXCEPT ![n] = "running"]
    /\ pc' = [pc EXCEPT ![n] = "started"]
    /\ UNCHANGED <<managerVars, cred, port, node, destroyVars>>

\* ContainerStart reports an error; the error of the ContainerRemove that follows
\* is ignored.  With a context cancelled meanwhile the container may be running.
StartFails(n) ==
    /\ Up /\ pc[n] = "created"
    /\ "startFails" \in Faults \/ docker[n] = "absent"
    /\ \/ docker' = [docker EXCEPT ![n] = "absent"]
       \/ /\ "removeFails" \in Faults /\ docker[n] = "created"
          /\ docker' \in {docker, [docker EXCEPT ![n] = "running"]}
    /\ pc' = [pc EXCEPT ![n] = "failing"]
    /\ UNCHANGED <<managerVars, cred, port, node, destroyVars>>

\* ReleaseLease and ReleaseAirVPNPort on the way out.
ReleaseFailed(n) ==
    /\ Up /\ pc[n] = "failing"
    /\ ReleaseLease(n)
    /\ byCont' = [byCont EXCEPT ![n] = None]
    /\ pc' = [pc EXCEPT ![n] = "dead"]
    /\ UNCHANGED <<byID, cred, port, docker, node, destroyVars>>

\* UpsertVPNNode keeps a node that is already draining so.
Upsert(n) == [node EXCEPT ![n] = IF @ = "draining" THEN @ ELSE "active"]

Register(n) ==
    /\ Up /\ pc[n] = "started"
    /\ node' = Upsert(n)
    /\ pc' = [pc EXCEPT ![n] = "done"]
    /\ UNCHANGED <<managerVars, cred, port, docker, destroyVars>>

-----------------------------------------------------------------------------
(* The lifecycle manager and the Docker events.                            *)

\* A running container without a node is registered: handleVPNStart, Reindex
\* and syncManagedSnapshot.
Discover(n) ==
    /\ Up /\ docker[n] = "running" /\ node[n] = "none"
    /\ node' = Upsert(n)
    /\ UNCHANGED <<managerVars, pc, cred, port, docker, destroyVars>>

\* SetVPNNodeDraining: compaction, a node unhealthy for too long, the API.
Drain(n) ==
    /\ Up /\ node[n] = "active"
    /\ node' = [node EXCEPT ![n] = "draining"]
    /\ UNCHANGED <<managerVars, pc, cred, port, docker, destroyVars>>

\* Mutant: a tracked node whose container is gone from Docker is not noticed.
DestroyDueIfSeen(n) ==
    \/ n \in cleaning
    \/ Up /\ node[n] = "draining" /\ docker[n] # "absent"
    \/ Up /\ docker[n] = "exited"

\* Who calls DestroyNode: CleanupManaged; gcDraining once the node's streams have
\* ended or the drain has timed out; recoverStoppedNode for a container in a
\* terminal state and for a node that is gone from Docker; the API.
DestroyDue(n) ==
    \/ n \in cleaning
    \/ Up /\ node[n] = "draining"
    \/ Up /\ docker[n] = "exited"
    \/ Up /\ node[n] # "none" /\ docker[n] = "absent"
    \/ Up /\ "apiDestroy" \in Faults /\ docker[n] # "absent"

\* Mutant: the lease is released before the container is removed.
DestroyBeginReleasing(n) ==
    /\ destroying = None /\ DestroyDue(n)
    /\ destroying' = n
    /\ node' = [node EXCEPT ![n] = IF (docker[n] = "exited" /\ Up) \/ @ # "none" THEN "draining" ELSE @]
    /\ ReleaseLease(n)
    /\ byCont' = [byCont EXCEPT ![n] = None]
    /\ UNCHANGED <<byID, pc, cred, port, docker, removed, cleaning>>

\* DestroyNode takes cleanupMu and marks the node; syncManagedSnapshot registers
\* an exited container first if it has no node.
DestroyBegin(n) ==
    /\ destroying = None /\ DestroyDue(n)
    /\ destroying' = n
    /\ node' = [node EXCEPT ![n] = IF (docker[n] = "exited" /\ Up) \/ @ # "none" THEN "draining" ELSE @]
    /\ UNCHANGED <<managerVars, pc, cred, port, docker, removed, cleaning>>

\* Docker confirms that the container is gone ...
DestroyRemove(n) ==
    /\ destroying = n /\ ~ removed
    /\ docker' = [docker EXCEPT ![n] = "absent"]
    /\ removed' = TRUE
    /\ UNCHANGED <<managerVars, pc, cred, port, node, destroying, cleaning>>

\* ... or it does not, and everything stays as it is for a retry.
DestroyFails(n) ==
    /\ "dockerFails" \in Faults
    /\ destroying = n /\ ~ removed
    /\ destroying' = None
    /\ cleaning' = cleaning \ {n}
    /\ UNCHANGED <<managerVars, nodeVars, removed>>

DestroyRelease(n) ==
    /\ destroying = n /\ removed
    /\ ReleaseLease(n)
    /\ byCont' = [byCont EXCEPT ![n] = None]
    /\ node' = [node EXCEPT ![n] = "none"]
    /\ destroying' = None /\ removed' = FALSE
    /\ cleaning' = cleaning \ {n}
    /\ UNCHANGED <<byID, pc, cred, port, docker>>

-----------------------------------------------------------------------------
(* Docker, the operator, and a crash.                                      *)

ContainerExits(n) ==
    /\ "exits" \in Faults
    /\ docker[n] \in {"running", "exited"}
    /\ docker' = [docker EXCEPT ![n] = IF @ = "running" THEN "exited" ELSE "running"]
    /\ UNCHANGED <<managerVars, pc, cred, port, node, destroyVars>>

ContainerVanishes(n) ==
    /\ "vanishes" \in Faults /\ docker[n] \in {"running", "exited"}
    /\ docker' = [docker EXCEPT ![n] = "absent"]
    /\ UNCHANGED <<managerVars, pc, cred, port, node, destroyVars>>

\* The credential endpoints and the settings handlers.
Reconfigure(S) ==
    /\ Up /\ S # byID
    /\ \/ "reconfigure" \in Faults /\ Leased \subseteq S
       \/ "dropLeased" \in Faults
    /\ Configure(S)
    /\ UNCHANGED <<nodeVars, destroyVars>>

Existing == {n \in Names : docker[n] # "absent"}

\* Mutant: leases are restored from running containers only.
RestartIgnoringStopped ==
    /\ "restart" \in Faults
    /\ RestoreLeases({n \in Names : docker[n] = "running"})
    /\ byCont' = [n \in Names |-> None]
    /\ pc' = [n \in Names |-> IF pc[n] = "unused" THEN "unused" ELSE "dead"]
    /\ node' = [n \in Names |-> IF docker[n] = "running" THEN "active" ELSE "none"]
    /\ destroying' = None /\ removed' = FALSE
    /\ cleaning' = {n \in Names : docker[n] = "running"}
    /\ UNCHANGED <<byID, cred, port, docker>>

\* The process dies and starts again: Reindex, RestoreLeases from all managed
\* containers, stopped ones included, then CleanupManaged, which lists the running
\* ones.  The port pool is empty.
Restart ==
    /\ "restart" \in Faults
    /\ RestoreLeases(Existing)
    /\ byCont' = [n \in Names |-> None]
    /\ pc' = [n \in Names |-> IF pc[n] = "unused" THEN "unused" ELSE "dead"]
    /\ node' = [n \in Names |-> IF docker[n] = "running" THEN "active" ELSE "none"]
    /\ destroying' = None /\ removed' = FALSE
    /\ cleaning' = {n \in Names : docker[n] = "running"}
    /\ UNCHANGED <<byID, cred, port, docker>>

-----------------------------------------------------------------------------
ProvisionStep(n) ==
    \/ BuildFails(n) \/ AcquirePort(n) \/ ContainerCreate(n) \/ ContainerStart(n)
    \/ StartFails(n) \/ ReleaseFailed(n) \/ Register(n)

Next ==
    \/ \E n \in Names :
          \/ AcquireLease(n) \/ ProvisionStep(n)
          \/ Discover(n) \/ Drain(n)
          \/ DestroyBegin(n) \/ DestroyRemove(n) \/ DestroyFails(n) \/ DestroyRelease(n)
          \/ ContainerExits(n) \/ ContainerVanishes(n)
    \/ \E S \in SUBSET Creds : Reconfigure(S)
    \/ Restart

Spec == Init /\ [][Next]_vars

\* Provisioning goroutines run on, the lifecycle manager reconciles again and
\* again, and Docker does not refuse every removal for ever.
Fairness ==
    \A n \in Names :
        /\ WF_vars(ProvisionStep(n))
        /\ SF_vars(DestroyBegin(n)) /\ SF_vars(DestroyRemove(n)) /\ WF_vars(DestroyRelease(n))

FairSpec == Spec /\ Fairness

-----------------------------------------------------------------------------
(* Properties.                                                             *)

\* Every variable holds values of its kind.
TypeOK ==
    /\ byID \in SUBSET Creds
    /\ available \in Seq(Creds)
    /\ leases \in [Names -> Creds \cup {None}]
    /\ byCont \in [Names -> Ports \cup {None}]
    /\ pc \in [Names -> Pcs]
    /\ cred \in [Names -> Creds \cup {None}]
    /\ port \in [Names -> Ports \cup {None}]
    /\ docker \in [Names -> {"absent", "created", "running", "exited"}]
    /\ node \in [Names -> {"none", "active", "draining"}]
    /\ destroying \in Names \cup {None} /\ removed \in BOOLEAN /\ cleaning \subseteq Names

\* "Strict lease semantics": the pool is partitioned.  No credential is leased to
\* two containers, none is both leased and available or available twice, and no
\* credential of the pool is lost.
LeaseIntegrity ==
    /\ \A n, o \in Names : leases[n] = leases[o] /\ leases[n] # None => n = o
    /\ \A i, j \in 1..Len(available) : available[i] = available[j] => i = j
    /\ \A n \in Names, i \in 1..Len(available) : leases[n] # available[i]
    /\ \A c \in Creds : c \in byID <=> \/ \E n \in Names : leases[n] = c
                                       \/ \E i \in 1..Len(available) : available[i] = c

\* A credential is never given to a second VPN container while one that was
\* started with it still exists, across failures, retries and restarts.
CredentialExclusive ==
    \A n, o \in Existing : cred[n] = cred[o] => n = o

\* A container that exists has its credential reserved, and so has an attempt
\* that has not created its container yet.
ReservedWhileNeeded ==
    \A n \in Names :
        n \in Existing \/ pc[n] \in {"leased", "ready"} => leases[n] = cred[n] /\ cred[n] # None

\* "Each port may be claimed by at most one running gluetun container": two
\* containers this process has started never share a port.  (The claims of
\* containers that outlive a restart are not restored.)
PortExclusive ==
    \A n, o \in {m \in Existing : pc[m] # "dead"} :
        port[n] = port[o] /\ port[n] # None => n = o

\* The lease of a container that is gone does not stay orphaned.
OrphanedLeaseReleased ==
    \A n \in Names :
        leases[n] # None /\ docker[n] = "absent" /\ pc[n] \in {"done", "dead"}
            ~> leases[n] = None
=============================================================================
