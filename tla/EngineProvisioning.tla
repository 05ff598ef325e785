------------------------- MODULE EngineProvisioning -------------------------
(***************************************************************************)
(* How engines come and go.  Composed here:                                *)
(*                                                                         *)
(*   - the Controller: demand, the reconciler and the intent workers       *)
(*     (internal/controlplane/engine/controller.go);                       *)
(*   - ResourceScheduler and ExecuteSpec: a VPN node, ports and perhaps    *)
(*     the forwarded slot are reserved, a container is created and started *)
(*     (provisioner.go), with the PortAllocator (ports.go);                *)
(*   - the Store's engines, vpnPending and forwardedPending                *)
(*     (internal/state/store.go);                                          *)
(*   - the circuit breaker "general" (circuitbreaker/breaker.go);          *)
(*   - the EventWatcher, which registers engines when Docker reports them, *)
(*     and Reindex, which repairs what it missed (docker/events.go,        *)
(*     docker/monitor.go);                                                 *)
(*   - the HealthManager's eviction of unhealthy engines (health.go);      *)
(*   - gcDraining and DestroyNode, as far as they take engines with them.  *)
(*                                                                         *)
(* A spec stands for the engine it describes: its labels, its container    *)
(* and, once registered, its record.  One port stands for the ports an     *)
(* engine takes together, under one lock, from pools that all nodes share. *)
(* Load, times and probes are nondeterministic.                            *)
(***************************************************************************)
EXTENDS Integers, SequencesExt

CONSTANTS
    Specs,            \* bound: engines ever scheduled
    Nodes,            \* VPN nodes
    Ports,            \* the pool of AllocateEnginePorts
    None,
    MinReplicas, MaxReplicas, MinFreeReplicas,
    Preferred,        \* PreferredEnginesPerVPN
    MaxPerVpn,        \* MaxEnginesPerVPN
    Threshold,        \* failures that open the circuit breaker
    QueueCap,         \* create intents the channel of the workers holds
    Env               \* what may happen: see EnvEvents

EnvEvents == {"createFails",    \* image pull, ContainerCreate or ContainerStart fails
              "dies",           \* an engine exits
              "unhealthy",      \* probes fail
              "evict",          \* ... and the health manager evicts
              "apiDelete",      \* DELETE /engines/{id}, and POST /scale
              "drift",          \* the configuration changes under running engines
              "nodeHealth",     \* VPN nodes become ready and unready
              "drainNode",      \* a VPN node is drained and destroyed with its engines
              "lostEvents",     \* Docker's event stream breaks and reconnects
              "slowDocker"}     \* calls and events of Docker overlap with what they are about:
                                \* see StartSeen and EmptyNode

ASSUME ProvisioningAssumption ==
    /\ IsFiniteSet(Specs) /\ IsFiniteSet(Nodes) /\ None \notin Nodes /\ None \notin Ports
    /\ MinReplicas \in Nat /\ MaxReplicas \in Nat /\ MinReplicas <= MaxReplicas
    /\ MinFreeReplicas \in Nat /\ Preferred \in Nat \ {0} /\ MaxPerVpn \in Nat
    /\ Threshold \in Nat \ {0} /\ QueueCap \in Nat
    /\ Env \subseteq EnvEvents

VARIABLES
    desired,           \* Store.desiredReplicas
    intents,           \* Store.intents with action "create"
    engines,           \* Store.engines
    draining,          \* ... marked as draining
    unhealthy,         \* ... whose health status is unhealthy
    vpnPending,        \* Store.vpnPending
    forwardedPending,  \* Store.forwardedPending
    used,              \* PortAllocator: ports in use
    breaker, failures, \* the circuit breaker; failures counts up to Threshold
    pc,                \* how far the provisioning of a spec has come
    vpn, port, forwarded,  \* the labels of a spec
    stopping,          \* containers some goroutine is going to stop
    evicting,          \* containers the health manager has stopped, their record not yet removed
    docker,            \* Docker's view of the container
    node,              \* VPN nodes
    events             \* Docker's events not handled yet

storeVars   == <<desired, intents, engines, draining, unhealthy>>
reserveVars == <<vpnPending, forwardedPending, used>>
specVars    == <<pc, vpn, port, forwarded>>
cbVars      == <<breaker, failures>>
dockerVars  == <<docker, events, node>>
otherVars   == <<stopping, evicting>>
vars == <<storeVars, reserveVars, specVars, cbVars, dockerVars, otherVars>>

Pcs == {"unused", "intent", "placed", "allocated", "waitPort", "queued",
        "creating", "started", "ended"}

\* "starting": not healthy, but young enough to be scheduled on (isNodeReady);
\* "emptied": DestroyNode has removed the engines it listed.
NodeStates == {"starting", "ready", "unready", "draining", "emptied", "gone"}

Init ==
    /\ desired = 0 /\ intents = {} /\ engines = {} /\ draining = {} /\ unhealthy = {}
    /\ vpnPending = [n \in Nodes |-> 0] /\ forwardedPending = {} /\ used = {}
    /\ breaker = "closed" /\ failures = 0
    /\ pc = [s \in Specs |-> "unused"]
    /\ vpn = [s \in Specs |-> None] /\ port = [s \in Specs |-> None]
    /\ forwarded = [s \in Specs |-> FALSE]
    /\ stopping = {} /\ evicting = {}
    /\ docker = [s \in Specs |-> "none"] /\ node \in [Nodes -> {"starting", "ready"}]
    /\ events = <<>>

Least(a, b)    == IF a < b THEN a ELSE b
Greatest(a, b) == IF a > b THEN a ELSE b
Ceil(a, b)     == (a + b - 1) \div b

EnginesOn(n)  == {s \in engines : vpn[s] = n}
Schedulable   == {n \in Nodes : node[n] \in {"ready", "starting"}}
Healthy       == {n \in Nodes : node[n] = "ready"}
InFlight(s)   == pc[s] \notin {"unused", "intent", "started", "ended"}
Active        == engines \ (draining \cup unhealthy)

-----------------------------------------------------------------------------
(* Demand.                                                                 *)

Clamped(n) == Greatest(MinReplicas, Least(n, MaxReplicas))

\* computeDesiredReplicas: the occupied engines and a buffer, or ahead of load a
\* burst of at most two.
ComputeDesired(occupied, burst) ==
    Clamped(IF burst = 0 THEN occupied + MinFreeReplicas
            ELSE Greatest(occupied + MinFreeReplicas, Cardinality(Active) + burst))

\* Store.TotalPending: one pair for every reservation on a node.
PendingSlots == UNION {{n} \X (1 .. vpnPending[n]) : n \in Nodes}

TotalPending == Cardinality(intents) + Cardinality(PendingSlots)

\* The autoscaler's tick: a target with engines in flight is not lowered.
Targets ==
    LET minTarget   == Cardinality(Active) + TotalPending
        Kept(want)  == IF TotalPending > 0 /\ want < minTarget /\ desired >= minTarget
                       THEN minTarget ELSE want
    IN  IF engines = {} THEN {MinReplicas}
        ELSE {Kept(ComputeDesired(occupied, burst)) :
                 occupied \in 0 .. Cardinality(Active), burst \in 0 .. Least(2, Cardinality(engines))}

SetDesired(n) ==
    /\ desired' = n
    /\ UNCHANGED <<intents, engines, draining, unhealthy, reserveVars, specVars, cbVars,
                   dockerVars, otherVars>>

EnsureMinimum == \E n \in Targets : SetDesired(n)

\* Mutant: the bump is not clamped.
NudgeDemandUnclamped == desired <= MaxReplicas /\ SetDesired(desired + 1)

\* A request found no engine.
NudgeDemand == SetDesired(Least(desired + 1, MaxReplicas))

\* ... and takes its bump back.
UndoNudge == SetDesired(Greatest(desired - 1, MinReplicas))

ScaleTo(n) == "apiDelete" \in Env /\ SetDesired(Clamped(n))

-----------------------------------------------------------------------------
(* The reconciler.                                                         *)

\* canStopEngine, for an engine without load whose grace period is over: the floors of
\* all and of free replicas, and no node stripped below the others.  Which engines
\* are free is not known here, nor whether a draining node is healthy, so the checks
\* refuse only what they must.
CanStop(s, drained) ==
    LET others == {n \in Nodes \ {vpn[s]} : node[n] \in {"ready", "draining"} /\ EnginesOn(n) # {}}
    IN  /\ Cardinality(engines) - 1 >= MinReplicas
        /\ \/ MinFreeReplicas = 0 \/ s \in drained
           \/ Cardinality(engines \ drained) - 1 >= MinFreeReplicas
        /\ \/ vpn[s] \notin Healthy \/ others \cap Healthy = {}
           \/ \E n \in others : Cardinality(EnginesOn(vpn[s])) >= Cardinality(EnginesOn(n))

\* Never a leader while others on its node need it.
LeaderNeeded(s, drained) == forwarded[s] /\ (EnginesOn(vpn[s]) \ drained) \ {s} # {}

RequiredNodes == Ceil(desired, Preferred)

\* The limit of selectVPNContainer.
EffectiveLimit == IF desired = 0 THEN Preferred
                  ELSE Least(Ceil(desired, RequiredNodes), Preferred)

\* ... and the one of rebalanceDensity.
DensityLimit ==
    LET ideal == Least(Ceil(desired, Greatest(1, RequiredNodes)), Preferred)
        fair  == Ceil(desired, Greatest(1, Cardinality(Healthy)))
        limit == Greatest(ideal, fair)
    IN  IF MaxPerVpn > 0 /\ limit > MaxPerVpn /\ Cardinality(Healthy) >= RequiredNodes
        THEN MaxPerVpn ELSE limit

RebalanceSkipped ==
    \/ desired = 0
    \/ Cardinality(Healthy) < RequiredNodes
    \/ \E n \in Nodes : node[n] \in {"draining", "emptied"}

\* rebalanceDensity may drain D of the engines on n: some followers of a node above
\* its limit, or one engine of a node without a leader.
MayDrain(n, D, drained) ==
    LET on == {s \in Active : vpn[s] = n} IN
    \/ D = {}
    \/ /\ D \subseteq {s \in on : ~ forwarded[s]}
       /\ Cardinality(on) > 1
       /\ Cardinality(D) <= Cardinality(on) - DensityLimit
       /\ EnginesOn(n) \cap drained = {}
    \/ /\ D \subseteq on /\ Cardinality(D) = 1
       /\ Cardinality(on) >= 2 /\ DensityLimit >= 2
       /\ ~ \E s \in EnginesOn(n) : forwarded[s] /\ s \notin drained \cup unhealthy
       /\ n \notin forwardedPending

Rebalance(D, drained) ==
    /\ D \subseteq Active
    /\ RebalanceSkipped => D = {}
    /\ \A n \in Nodes : MayDrain(n, {s \in D : vpn[s] = n}, drained)

Unused == {s \in Specs : pc[s] = "unused"}

\* What a reconciliation leaves behind: engines marked, intents to create and to stop.
Launch(marked, new, T) ==
    /\ draining' = marked
    /\ stopping' = stopping \cup T
    /\ intents'  = intents \cup new
    /\ pc' = [s \in Specs |-> IF s \in new THEN "intent" ELSE pc[s]]
    /\ UNCHANGED <<desired, engines, unhealthy, reserveVars, vpn, port, forwarded,
                   cbVars, dockerVars, evicting>>

\* doReconcile.  drift: engines of another configuration; new: specs whose creation
\* starts; D: engines the rebalancer drains; T: engines to stop, as many as find
\* room in the queue.
Reconcile ==
    \E drift \in SUBSET Active, new \in SUBSET Unused, D \in SUBSET Active, T \in SUBSET engines :
        LET drained == draining \cup drift
            actual  == Cardinality(Active) - Cardinality(drift) + Cardinality(intents)
            deficit == desired - actual
            create  == Least(deficit, Greatest(0, MaxReplicas - Cardinality(engines)))
            surplus == {s \in T : s \notin drained \cup D}
        IN  /\ drift # {} => "drift" \in Env
            /\ Cardinality(new) = IF deficit > 0 /\ Schedulable # {}
                                  THEN Least(create, Cardinality(Unused)) ELSE 0
            /\ Rebalance(D, drained)
            /\ \A s \in T : CanStop(s, IF s \in surplus THEN drained ELSE drained \cup D)
            /\ surplus # {} => /\ Cardinality(surplus) <= -deficit
                               /\ surplus \subseteq Active
                               /\ \A s \in surplus : ~ LeaderNeeded(s, drained)
            /\ Launch(drained \cup D, new, T)

-----------------------------------------------------------------------------
(* The circuit breaker.  An open one may let the next caller through: time  *)
(* is not modelled.                                                         *)

CanExecute(yes) ==
    /\ failures' = failures
    /\ \/ breaker \in {"closed", "half"} /\ yes /\ breaker' = breaker
       \/ breaker = "open" /\ yes /\ breaker' = "half"
       \/ breaker = "open" /\ ~ yes /\ breaker' = breaker

RecordSuccess == breaker' = "closed" /\ failures' = 0

RecordFailure ==
    /\ failures' = Least(failures + 1, Threshold)
    /\ breaker'  = IF breaker = "half" \/ (breaker = "closed" /\ failures + 1 >= Threshold)
                   THEN "open" ELSE breaker

ForceReset ==
    /\ "apiDelete" \in Env
    /\ breaker' = "closed" /\ failures' = 0
    /\ UNCHANGED <<storeVars, reserveVars, specVars, dockerVars, otherVars>>

-----------------------------------------------------------------------------
(* A create intent: scheduled by a goroutine of its own, carried out by a   *)
(* worker.                                                                  *)

NoLabels(s) ==
    /\ vpn'       = [vpn EXCEPT ![s] = None]
    /\ port'      = [port EXCEPT ![s] = None]
    /\ forwarded' = [forwarded EXCEPT ![s] = FALSE]

\* The intent is removed and the spec forgotten.
Abandon(s) ==
    /\ intents'   = intents \ {s}
    /\ pc'        = [pc EXCEPT ![s] = "ended"]
    /\ NoLabels(s)
    /\ UNCHANGED <<desired, engines, draining, unhealthy>>

Goto(s, label) == pc' = [pc EXCEPT ![s] = label]

\* Mutant: engines on their way are not counted.
LoadRegistered(n) == Cardinality(EnginesOn(n))

Load(n) == Cardinality(EnginesOn(n)) + vpnPending[n]

LeastLoadedBelow(limit) ==
    LET below == {n \in Schedulable : limit = 0 \/ Load(n) < limit}
    IN  {n \in below : \A m \in below : Load(n) <= Load(m)}

\* selectVPNContainer: nodes below the preferred limit first; above it only when
\* no node is on its way, and never above the hard limit.
Candidates ==
    IF LeastLoadedBelow(EffectiveLimit) # {} THEN LeastLoadedBelow(EffectiveLimit)
    ELSE IF {n \in Nodes : node[n] \in {"unready", "starting"}} # {} THEN {}
    ELSE IF MaxPerVpn > EffectiveLimit THEN LeastLoadedBelow(MaxPerVpn) ELSE {}

\* The breaker is asked, a node chosen and its pending count raised.
SelectVpn(s) ==
    /\ pc[s] = "intent"
    /\ \/ /\ CanExecute(TRUE)
          /\ \E n \in Candidates :
                /\ vpnPending' = [vpnPending EXCEPT ![n] = @ + 1]
                /\ vpn' = [vpn EXCEPT ![s] = n]
          /\ Goto(s, "placed")
          /\ UNCHANGED <<storeVars, port, forwarded>>
       \/ /\ CanExecute(TRUE) /\ Candidates = {}
          /\ Abandon(s) /\ UNCHANGED vpnPending
       \/ /\ CanExecute(FALSE)
          /\ Abandon(s) /\ UNCHANGED vpnPending
    /\ UNCHANGED <<forwardedPending, used, dockerVars, otherVars>>

DecrPending(n) == [vpnPending EXCEPT ![n] = IF @ > 0 THEN @ - 1 ELSE 0]

\* AllocateEnginePorts: all of an engine's ports or none.
AllocatePorts(s) ==
    /\ pc[s] = "placed"
    /\ \/ \E p \in Ports \ used :
             /\ used' = used \cup {p}
             /\ port' = [port EXCEPT ![s] = p]
             /\ Goto(s, "allocated")
             /\ UNCHANGED <<storeVars, vpnPending, vpn, forwarded>>
       \/ /\ Ports \subseteq used
          /\ vpnPending' = DecrPending(vpn[s])
          /\ Abandon(s)
          /\ UNCHANGED used
    /\ UNCHANGED <<forwardedPending, cbVars, dockerVars, otherVars>>

ReleaseSpec(s) ==
    /\ used' = used \ {port[s]}
    /\ vpnPending' = DecrPending(vpn[s])
    /\ forwardedPending' = IF forwarded[s] THEN forwardedPending \ {vpn[s]} ELSE forwardedPending

QueueFull == Cardinality({q \in Specs : pc[q] = "queued"}) >= QueueCap

\* A spec is complete: it goes to the workers, or finds their queue full and is
\* released.  claims are the claims to forwarded slots the election has left.
Enqueue(s, leader, claims) ==
    IF QueueFull
    THEN /\ Abandon(s)
         /\ used' = used \ {port[s]}
         /\ vpnPending' = DecrPending(vpn[s])
         /\ forwardedPending' = IF leader THEN claims \ {vpn[s]} ELSE claims
    ELSE /\ Goto(s, "queued")
         /\ forwarded' = [forwarded EXCEPT ![s] = leader]
         /\ forwardedPending' = claims
         /\ UNCHANGED <<storeVars, used, vpnPending, vpn, port>>

\* Mutant: only registered engines count.
SlotTakenRegistered(n) == \E e \in EnginesOn(n) : forwarded[e]

SlotTaken(n) == n \in forwardedPending \/ \E e \in EnginesOn(n) : forwarded[e]

\* TryClaimForwardedSlot: the winner goes and waits for the port.
Elect(s) ==
    /\ pc[s] = "allocated"
    /\ IF SlotTaken(vpn[s])
       THEN Enqueue(s, FALSE, forwardedPending)
       ELSE /\ Goto(s, "waitPort")
            /\ forwardedPending' = forwardedPending \cup {vpn[s]}
            /\ UNCHANGED <<storeVars, vpnPending, used, vpn, port, forwarded>>
    /\ UNCHANGED <<cbVars, dockerVars, otherVars>>

\* WaitForForwardedPort answers, or gives up and the claim is released.
ForwardedPort(s, ok) ==
    /\ pc[s] = "waitPort"
    /\ Enqueue(s, ok, IF ok THEN forwardedPending ELSE forwardedPending \ {vpn[s]})
    /\ UNCHANGED <<cbVars, dockerVars, otherVars>>

\* A worker takes the intent; a breaker that has opened meanwhile blocks it.
Execute(s) ==
    /\ pc[s] = "queued"
    /\ \/ CanExecute(TRUE) /\ Goto(s, "creating") /\ UNCHANGED <<storeVars, vpn, port, forwarded>>
       \/ breaker = "open" /\ RecordFailure /\ Abandon(s)
    /\ UNCHANGED <<reserveVars, dockerVars, otherVars>>

\* ExecuteSpec: ContainerCreate and ContainerStart.  The engine joins the network of
\* its VPN container, so it fails once that is gone.
ExecuteSpec(s) ==
    /\ pc[s] = "creating" /\ node[vpn[s]] # "gone"
    /\ docker' = [docker EXCEPT ![s] = "running"]
    /\ events' = Append(events, <<"start", s>>)
    /\ Goto(s, "started")
    /\ UNCHANGED <<storeVars, reserveVars, vpn, port, forwarded, cbVars, node, otherVars>>

ExecuteFails(s) ==
    /\ pc[s] = "creating"
    /\ "createFails" \in Env \/ node[vpn[s]] = "gone"
    /\ Abandon(s) /\ ReleaseSpec(s) /\ RecordFailure
    /\ UNCHANGED <<dockerVars, otherVars>>

\* Mutant: the intent is only removed when the creation fails.
FinishKeepsIntent(s) ==
    /\ pc[s] = "started"
    /\ Goto(s, "ended")
    /\ RecordSuccess
    /\ UNCHANGED <<storeVars, reserveVars, vpn, port, forwarded, dockerVars, otherVars>>

\* The worker is through; the engine may or may not be registered yet.
Finish(s) ==
    /\ pc[s] = "started"
    /\ intents' = intents \ {s}
    /\ Goto(s, "ended")
    /\ RecordSuccess
    /\ UNCHANGED <<desired, engines, draining, unhealthy, reserveVars, vpn, port, forwarded,
                   dockerVars, otherVars>>

-----------------------------------------------------------------------------
(* Docker, its events and Reindex.                                         *)

\* AddEngine drops the reservations of engines that are new to the store ...
Registered(new) ==
    [n \in Nodes |-> Greatest(0, vpnPending[n] - Cardinality({s \in new : vpn[s] = n}))]

\* ... and the claim of a leader.
Cleared(added) == forwardedPending \ {vpn[s] : s \in {t \in added : forwarded[t]}}

\* Mutant: ports are released whether or not the engine is registered.
RemoveEnginesAlways(S) ==
    /\ engines'   = engines \ S
    /\ draining'  = draining \ S
    /\ unhealthy' = unhealthy \ S
    /\ used'      = used \ {port[s] : s \in S}

\* RemoveEngine and ReleaseFromLabels, of those that are still registered.
RemoveEngines(S) ==
    /\ engines'   = engines \ S
    /\ draining'  = draining \ S
    /\ unhealthy' = unhealthy \ S
    /\ used'      = used \ {port[s] : s \in S \cap engines}

\* ReserveFromLabels and AddEngine; the record is a new one even when the engine
\* was known.
HandleStart(s) ==
    /\ events # <<>> /\ Head(events) = <<"start", s>>
    /\ events' = Tail(events)
    /\ used'      = used \cup {port[s]}
    /\ engines'   = engines \cup {s}
    /\ draining'  = draining \ {s}
    /\ unhealthy' = unhealthy \ {s}
    /\ vpnPending' = Registered({s} \ engines)
    /\ forwardedPending' = Cleared({s})
    /\ UNCHANGED <<desired, intents, specVars, cbVars, docker, node, otherVars>>

\* The last of its labels; the destroy event that follows finds no engine.
HandleDie(s) ==
    /\ events # <<>> /\ Head(events) = <<"die", s>>
    /\ events' = Tail(events)
    /\ RemoveEngines({s})
    /\ NoLabels(s)
    /\ UNCHANGED <<desired, intents, vpnPending, forwardedPending, pc, cbVars, docker, node, otherVars>>

LoseEvents ==
    /\ "lostEvents" \in Env /\ events # <<>>
    /\ events' = <<>>
    /\ UNCHANGED <<storeVars, reserveVars, specVars, cbVars, docker, node, otherVars>>

Running == {s \in Specs : docker[s] = "running"}

\* Docker's start event of s has been handled.  Only with "slowDocker" may a record be
\* removed before: otherwise events are taken to arrive within the 30 seconds that
\* Reindex spares a new engine, and sooner than a node is destroyed.
StartSeen(s) == "slowDocker" \in Env \/ <<"start", s>> \notin {events[i] : i \in DOMAIN events}

\* Mutant: nothing is removed.
ReindexAddsOnly(stale) ==
    LET new == Running \ engines IN
    /\ engines' = engines \cup new
    /\ used'    = used \cup {port[s] : s \in new}
    /\ vpnPending' = Registered(new)
    /\ forwardedPending' = Cleared(new)
    /\ UNCHANGED <<desired, intents, draining, unhealthy, specVars, cbVars, dockerVars, otherVars>>

\* Running containers the store does not have are added; then engines that do not run
\* are removed, except in their first 30 seconds.
Reindex(stale) ==
    LET new == Running \ engines IN
    /\ engines'   = (engines \cup new) \ stale
    /\ draining'  = draining \ stale
    /\ unhealthy' = unhealthy \ stale
    /\ used'      = (used \cup {port[s] : s \in new}) \ {port[s] : s \in stale}
    /\ vpnPending' = Registered(new)
    /\ forwardedPending' = Cleared(new)
    /\ UNCHANGED <<desired, intents, specVars, cbVars, dockerVars, otherVars>>

Stale == {s \in engines \ Running : StartSeen(s)}

\* A running container stops, by itself or because it is told to.
Exits(s) ==
    /\ docker[s] = "running"
    /\ docker' = [docker EXCEPT ![s] = "exited"]
    /\ events' = Append(events, <<"die", s>>)

Dies(s) ==
    /\ "dies" \in Env
    /\ Exits(s)
    /\ UNCHANGED <<storeVars, reserveVars, specVars, cbVars, node, otherVars>>

\* StopContainer, by a worker or an API handler; the container may be gone already.
StopContainer(s) ==
    /\ s \in stopping
    /\ stopping' = stopping \ {s}
    /\ Exits(s) \/ (docker[s] # "running" /\ UNCHANGED <<docker, events>>)
    /\ UNCHANGED <<storeVars, reserveVars, specVars, cbVars, node, evicting>>

DeleteEngine(s) ==
    /\ "apiDelete" \in Env /\ s \in engines
    /\ draining' = draining \cup {s}
    /\ stopping' = stopping \cup {s}
    /\ UNCHANGED <<desired, intents, engines, unhealthy, reserveVars, specVars, cbVars, dockerVars, evicting>>

-----------------------------------------------------------------------------
(* The health manager.                                                     *)

\* checkAndManage's probes, and StartupProbe's.
Probe(s) ==
    /\ "unhealthy" \in Env /\ s \in engines
    /\ unhealthy' = IF s \in unhealthy THEN unhealthy \ {s} ELSE unhealthy \cup {s}
    /\ UNCHANGED <<desired, intents, engines, draining, reserveVars, specVars, cbVars,
                   dockerVars, otherVars>>

\* evictUnhealthy, one engine at each call, in a goroutine of its own: the
\* container of one that is not marked yet is stopped ...
EvictStop(s) ==
    /\ "evict" \in Env /\ s \in unhealthy \ evicting
    /\ StartSeen(s)
    /\ Exits(s)
    /\ evicting' = evicting \cup {s}
    /\ UNCHANGED <<storeVars, reserveVars, specVars, cbVars, node, stopping>>

\* ... and the record removed, if the die event has not done so.
EvictRemove(s) ==
    /\ s \in evicting
    /\ evicting'  = evicting \ {s}
    /\ engines'   = engines \ {s}
    /\ draining'  = draining \ {s}
    /\ unhealthy' = unhealthy \ {s}
    /\ UNCHANGED <<desired, intents, reserveVars, specVars, cbVars, dockerVars, stopping>>

-----------------------------------------------------------------------------
(* VPN nodes, as far as engines are concerned: see VpnNodes.               *)

NodeChanges(n, from, to) ==
    /\ node[n] \in from
    /\ node' = [node EXCEPT ![n] = to]

\* Health checks and Docker's health events; "starting" is over after 30 seconds.
NodeHealth(n) ==
    /\ \/ NodeChanges(n, {"starting"}, "ready")
       \/ "nodeHealth" \in Env /\ NodeChanges(n, {"unready"}, "ready")
       \/ "nodeHealth" \in Env /\ NodeChanges(n, {"starting", "ready"}, "unready")
    /\ UNCHANGED <<storeVars, reserveVars, specVars, cbVars, docker, events, otherVars>>

\* SetVPNNodeDraining: scale-down, starvation, healing or DestroyNode itself.
DrainNode(n) ==
    /\ "drainNode" \in Env
    /\ NodeChanges(n, {"starting", "ready", "unready"}, "draining")
    /\ UNCHANGED <<storeVars, reserveVars, specVars, cbVars, docker, events, otherVars>>

\* gcDraining marks the engines of a draining node.
GcDraining(n) ==
    /\ node[n] = "draining"
    /\ draining' = draining \cup EnginesOn(n)
    /\ UNCHANGED <<desired, intents, engines, unhealthy, reserveVars, specVars, cbVars,
                   dockerVars, otherVars>>

\* DestroyNode: the engine containers it has listed are removed.  Only with
\* "slowDocker" may others be on their way to the node ...
EmptyNode(n) ==
    /\ NodeChanges(n, {"draining"}, "emptied")
    /\ "slowDocker" \in Env \/ \A s \in Specs : vpn[s] = n => ~ InFlight(s)
    /\ LET on == {s \in Running : vpn[s] = n} IN
       /\ docker' = [s \in Specs |-> IF s \in on THEN "exited" ELSE docker[s]]
       /\ \E order \in SetToSeqs(on) : events' = events \o [i \in DOMAIN order |-> <<"die", order[i]>>]
    /\ UNCHANGED <<storeVars, reserveVars, specVars, cbVars, otherVars>>

\* ... then the VPN container, the node and whatever engines it still has.
ForgetNode(n) ==
    /\ NodeChanges(n, {"emptied"}, "gone")
    /\ \A s \in EnginesOn(n) : StartSeen(s)
    /\ RemoveEngines(EnginesOn(n))
    /\ UNCHANGED <<desired, intents, vpnPending, forwardedPending, specVars, cbVars, docker,
                   events, otherVars>>

-----------------------------------------------------------------------------
Provision(s) ==
    \/ SelectVpn(s) \/ AllocatePorts(s) \/ Elect(s) \/ Execute(s)
    \/ ExecuteSpec(s) \/ ExecuteFails(s) \/ Finish(s)
    \/ \E ok \in BOOLEAN : ForwardedPort(s, ok)

Watch(s) == HandleStart(s) \/ HandleDie(s)

Next ==
    \/ EnsureMinimum \/ NudgeDemand \/ UndoNudge \/ Reconcile \/ ForceReset
    \/ \E n \in 0 .. MaxReplicas : ScaleTo(n)
    \/ LoseEvents \/ \E stale \in SUBSET Stale : Reindex(stale)
    \/ \E s \in Specs :
          \/ Provision(s) \/ Watch(s) \/ Dies(s) \/ StopContainer(s) \/ DeleteEngine(s)
          \/ Probe(s) \/ EvictStop(s) \/ EvictRemove(s)
    \/ \E n \in Nodes :
          NodeHealth(n) \/ DrainNode(n) \/ GcDraining(n) \/ EmptyNode(n) \/ ForgetNode(n)

Spec == Init /\ [][Next]_vars

\* Goroutines are scheduled, events handled and the monitor's ticks do not stop; a
\* container that stays away is spared by Reindex for 30 seconds only.
Fairness ==
    /\ \A s \in Specs : WF_vars(Provision(s)) /\ WF_vars(EvictRemove(s))
    /\ WF_vars(\E s \in Specs : Watch(s))
    /\ WF_vars(Reindex(Stale))

FairSpec == Spec /\ Fairness

-----------------------------------------------------------------------------
(* Properties.                                                             *)

\* Every variable holds values of its kind.
TypeOK ==
    /\ desired \in 0 .. MaxReplicas
    /\ intents \subseteq Specs /\ engines \subseteq Specs
    /\ draining \subseteq engines /\ unhealthy \subseteq engines
    /\ vpnPending \in [Nodes -> Nat] /\ forwardedPending \subseteq Nodes /\ used \subseteq Ports
    /\ breaker \in {"closed", "open", "half"} /\ failures \in 0 .. Threshold
    /\ pc \in [Specs -> Pcs]
    /\ vpn \in [Specs -> Nodes \cup {None}] /\ port \in [Specs -> Ports \cup {None}]
    /\ forwarded \in [Specs -> BOOLEAN]
    /\ stopping \subseteq Specs /\ evicting \subseteq Specs
    /\ docker \in [Specs -> {"none", "running", "exited"}]
    /\ node \in [Nodes -> NodeStates]
    /\ events \in Seq({"start", "die"} \X Specs)

\* On its way, or running on a node that is there.
Live(s) == InFlight(s) \/ (docker[s] = "running" /\ node[vpn[s]] # "gone")

\* The allocator never gives an engine a port that another one has.
PortsExclusive ==
    \A s, t \in Specs : s # t /\ Live(s) /\ Live(t) /\ port[s] # None => port[s] # port[t]

\* Of the engines of a node, at most one is the leader.
OneLeader ==
    \A s, t \in Specs : s # t /\ Live(s) /\ Live(t) /\ vpn[s] = vpn[t] => ~ (forwarded[s] /\ forwarded[t])

\* A burst of creations does not overload a node.
WithinHardLimit ==
    \A n \in Nodes :
        Cardinality({s \in Specs : vpn[s] = n /\ Live(s)}) <= Greatest(Preferred, MaxPerVpn)

\* Every create intent is carried out or given up, whatever fails on its way; as long
\* as it stands, the reconciler counts it as an engine.
IntentsResolve == \A s \in Specs : s \in intents ~> s \notin intents

\* Whatever events are lost, the store comes to know of every engine that keeps
\* running and forgets every engine that does not.
RegistryConverges ==
    \A s \in Specs :
        /\ docker[s] = "running" ~> s \in engines \/ docker[s] # "running"
        /\ docker[s] = "exited" ~> s \notin engines

\* MAX_REPLICAS: "Maximum concurrent engine containers."
WithinMaxReplicas == Cardinality(Running) <= MaxReplicas
=============================================================================
