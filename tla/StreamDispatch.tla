--------------------------- MODULE StreamDispatch ---------------------------
(***************************************************************************)
(* How a playback request becomes a running stream, and how the in-memory  *)
(* store accounts for it.  Composed here, because they share one key space *)
(* and call each other without a common lock:                              *)
(*                                                                         *)
(*   - the Store's dispatch accounting (enginePending, streamCounts,       *)
(*     streams), every method one critical section of Store.mu             *)
(*     (internal/state/store.go);                                          *)
(*   - the proxy's request handlers handleGetStream, handleHLSManifest and *)
(*     selectEngineWithWait (internal/api/proxy.go);                       *)
(*   - the Hub, the registry of stream entries, every method one critical  *)
(*     section of Hub.mu (internal/proxy/stream/hub.go);                   *)
(*   - Manager.Run, one goroutine per entry (internal/proxy/stream/        *)
(*     manager.go);                                                        *)
(*   - the controller's termination of idle engines, as far as it reads    *)
(*     and disturbs the above (internal/controlplane/engine/controller.go).*)
(*                                                                         *)
(* Time is abstracted: a timer that may fire is an action that may happen. *)
(***************************************************************************)
EXTENDS Integers, FiniteSets, FiniteSetsExt

CONSTANTS
    Engines,          \* engine containers
    Contents,         \* stream keys (buildStreamKey)
    Requests,         \* client slots; a slot may issue many requests
    Managers,         \* bound: stream managers that may ever be created
    Nil,              \* no engine, no manager, no key
    InitialEngines,   \* engines registered and healthy at the start
    VpnOf,            \* engine -> VPN container
    Leaders,          \* engines that hold a forwarded port
    MaxStreams,       \* MaxStreamsPerEngine
    MaxTotalStreams,  \* MaxTotalStreams, 0 = unlimited
    Kinds,            \* request kinds that occur: "ts", "hls", "hlsapi"
    Env               \* what the environment does: see EnvEvents

EnvEvents == {"requestFails",    \* an engine refuses or fails a stream request
              "clientGivesUp",   \* a wait for an engine times out or is cancelled
              "leaveEarly",      \* a client leaves before its stream is connected
              "stall",           \* an engine session stalls and is restarted
              "idleStop",        \* runCleanup stops idle streams
              "stopStream",      \* POST /internal/stop
              "apiDelete",       \* DELETE /streams/{id}
              "hotSwap",         \* POST /internal/swap
              "engineStop"}      \* the controller terminates idle engines

ASSUME FiniteAssumption ==
    /\ IsFiniteSet(Requests)
    /\ IsFiniteSet(Managers)

ASSUME ConstantsAssumption ==
    /\ Nil \notin Engines /\ Nil \notin Managers /\ Nil \notin Contents
    /\ InitialEngines \subseteq Engines
    /\ Leaders \subseteq Engines
    /\ MaxStreams \in Nat \ {0}
    /\ MaxTotalStreams \in Nat
    /\ Kinds \subseteq {"ts", "hls", "hlsapi"}
    /\ Env \subseteq EnvEvents

VARIABLES
    registry,     \* Store.engines: "fresh" (not created yet), "up", "draining", "removed"
    stopped,      \* engines whose container has been stopped
    stopIntents,  \* Controller.intents: queued terminate intents
    settling,     \* engines assigned less than 5 s ago (LastAssignedAt)
    pending,      \* Store.enginePending
    counts,       \* Store.streamCounts
    streams,      \* Store.streams: [status, engine]; status "none" = no record
    hub,          \* Hub.streams: key -> manager of the entry, or Nil
    shutdown,     \* keys whose entry has a non-zero shutdownAt
    toStop,       \* runCleanup's list of keys, chosen but not yet stopped
    hadClients,   \* managers whose ClientManager has hadClients set
    rpc,          \* request handler: program counter
    rkind,        \* ... what was asked for
    rkey,         \* ... the stream key
    reng,         \* ... the engine selected
    rmgr,         \* ... the manager whose entry the client reads from
    rfirst,       \* ... handlers still in the selection that API-mode HLS discards
    mpc,          \* Manager.Run: program counter
    mkey,         \* ... params.ContentID
    meng,         \* ... params.Engine.ContainerID
    doomed,       \* ... managers whose entry is deleted and whose cancelFn is still to be called
    cancelled     \* ... managers whose context has been cancelled

storeVars   == <<pending, counts, streams>>
engineVars  == <<registry, stopped, stopIntents, settling>>
hubVars     == <<hub, shutdown, toStop, hadClients>>
requestVars == <<rpc, rkind, rkey, reng, rmgr, rfirst>>
managerVars == <<mpc, mkey, meng, doomed, cancelled>>
vars == <<storeVars, engineVars, hubVars, requestVars, managerVars>>

NoRecord == [status |-> "none", engine |-> Nil]

RequestPcs == {"idle", "missed", "found", "select", "waiting", "claimed", "lookupOwn",
               "lookupShared", "ending", "serving", "joining", "watching", "left", "closing"}
ManagerPcs == {"unused", "new", "requesting", "failed", "running", "restarting", "exited", "done"}

-----------------------------------------------------------------------------
(* The Store: one operator per method, giving the new value of the state   *)
(* the method assigns.                                                     *)

Load(e) == counts[e] + pending[e]

\* vpnLoads: the aggregate load of the registered engines of one VPN.
VpnLoad(v) == MapThenSumSet(Load, {e \in Engines : registry[e] \in {"up", "draining"}
                                                   /\ VpnOf[e] = v})

\* The engines SelectAndClaimEngine may consider.
Eligible == {e \in Engines :
                /\ registry[e] = "up"
                /\ Load(e) < MaxStreams
                /\ ~ (Load(e) >= 1 /\ e \in settling)}

\* Its sort order: engine load, then VPN load, then leaders first.  The last
\* tie-breaker (oldest LastAssignedAt) is left open.
Better(a, b) ==
    \/ Load(a) < Load(b)
    \/ /\ Load(a) = Load(b)
       /\ \/ VpnLoad(VpnOf[a]) < VpnLoad(VpnOf[b])
          \/ /\ VpnLoad(VpnOf[a]) = VpnLoad(VpnOf[b])
             /\ a \in Leaders /\ b \notin Leaders

Candidates == {e \in Eligible : \A f \in Eligible : ~ Better(f, e)}

\* Mutant: the guard against going below zero is missing.
DecrementedUnguarded(f, e) == IF e # Nil THEN [f EXCEPT ![e] = @ - 1] ELSE f

\* ReleaseEnginePending, and the transfer in OnStreamStarted.
Decremented(f, e) == IF e # Nil /\ f[e] > 0 THEN [f EXCEPT ![e] = @ - 1] ELSE f

OnStreamAllocating(c) ==
    IF streams[c] # NoRecord
    THEN streams
    ELSE [streams EXCEPT ![c] = [status |-> "allocating", engine |-> Nil]]

OnStreamPrebuffering(c, e) ==
    [streams EXCEPT ![c] = [status |-> "prebuf", engine |-> e]]

OnStreamStarted(c, e) ==
    /\ streams' = [streams EXCEPT ![c] = [status |-> "started", engine |-> e]]
    /\ counts'  = [counts EXCEPT ![e] = @ + 1]
    /\ pending' = Decremented(pending, e)

\* No record, no effect; otherwise the record goes and the engine it names loses one.
OnStreamEnded(c) ==
    /\ streams' = [streams EXCEPT ![c] = NoRecord]
    /\ counts'  = Decremented(counts, streams[c].engine)

-----------------------------------------------------------------------------
(* The Hub.                                                                *)

Watchers(m) == {r \in Requests : rpc[r] = "watching" /\ rmgr[r] = m}

Entries == {c \in Contents : hub[c] # Nil}

\* Mutant: the entry is deleted and its manager forgotten.
RemoveEntriesNoCancel(C) ==
    /\ hub'      = [c \in Contents |-> IF c \in C THEN Nil ELSE hub[c]]
    /\ shutdown' = shutdown \ C
    /\ UNCHANGED <<doomed, cancelled>>

\* StopStream and removeStream: under the lock, delete the entry found under the
\* key, whichever manager it belongs to.  That manager is cancelled (Cancel) only
\* after the lock is released.
RemoveEntries(C) ==
    /\ hub'      = [c \in Contents |-> IF c \in C THEN Nil ELSE hub[c]]
    /\ shutdown' = shutdown \ C
    /\ doomed'   = doomed \cup {hub[c] : c \in C \cap Entries}
    /\ UNCHANGED cancelled

\* Mutant: off by one.
AtGlobalLimitsLate == MaxTotalStreams > 0 /\ Cardinality(Entries) > MaxTotalStreams

AtGlobalLimits == MaxTotalStreams > 0 /\ Cardinality(Entries) >= MaxTotalStreams

-----------------------------------------------------------------------------
Init ==
    /\ registry = [e \in Engines |-> IF e \in InitialEngines THEN "up" ELSE "fresh"]
    /\ stopped = {} /\ stopIntents = {} /\ settling = {}
    /\ pending = [e \in Engines |-> 0]
    /\ counts = [e \in Engines |-> 0]
    /\ streams = [c \in Contents |-> NoRecord]
    /\ hub = [c \in Contents |-> Nil]
    /\ shutdown = {} /\ toStop = {} /\ hadClients = {}
    /\ rpc = [r \in Requests |-> "idle"]
    /\ rkind = [r \in Requests |-> "ts"]
    /\ rkey = [r \in Requests |-> Nil]
    /\ reng = [r \in Requests |-> Nil]
    /\ rmgr = [r \in Requests |-> Nil]
    /\ rfirst = {}
    /\ mpc = [m \in Managers |-> "unused"]
    /\ mkey = [m \in Managers |-> Nil]
    /\ meng = [m \in Managers |-> Nil]
    /\ doomed = {} /\ cancelled = {}

-----------------------------------------------------------------------------
(* The request handlers.                                                   *)

ToIdle(r) ==
    /\ rpc'   = [rpc EXCEPT ![r] = "idle"]
    /\ rkind' = [rkind EXCEPT ![r] = "ts"]
    /\ rkey'  = [rkey EXCEPT ![r] = Nil]
    /\ reng'  = [reng EXCEPT ![r] = Nil]
    /\ rmgr'  = [rmgr EXCEPT ![r] = Nil]
    /\ rfirst' = rfirst \ {r}

\* Bound: a request is only admitted while a manager is left for it.
ManagerLeft ==
    Cardinality({m \in Managers : mpc[m] = "unused"}) >
    Cardinality({r \in Requests : rpc[r] \in {"missed", "select", "waiting", "claimed"}})

\* A request arrives and GetEntry looks its key up.
Arrive(r, c, k) ==
    /\ rpc[r] = "idle"
    /\ \/ hub[c] = Nil /\ ManagerLeft /\ rpc' = [rpc EXCEPT ![r] = "missed"]
       \/ hub[c] # Nil /\ rpc' = [rpc EXCEPT ![r] = "found"]
    /\ rkind' = [rkind EXCEPT ![r] = k]
    /\ rkey'  = [rkey EXCEPT ![r] = c]
    /\ rmgr'  = [rmgr EXCEPT ![r] = hub[c]]
    /\ UNCHANGED <<storeVars, engineVars, hubVars, reng, rfirst, managerVars>>

\* No entry: the handler records the allocation and goes for an engine.
Allocate(r) ==
    /\ rpc[r] = "missed"
    /\ streams' = OnStreamAllocating(rkey[r])
    /\ rpc'     = [rpc EXCEPT ![r] = "select"]
    /\ rfirst'  = IF rkind[r] = "hlsapi" THEN rfirst \cup {r} ELSE rfirst
    /\ UNCHANGED <<pending, counts, engineVars, hubVars, rkind, rkey, reng, rmgr, managerVars>>

\* An entry: its scheduled shutdown is cancelled, by key, and the client joins.
CancelShutdown(r) ==
    /\ rpc[r] = "found"
    /\ shutdown' = shutdown \ {rkey[r]}
    /\ rpc' = [rpc EXCEPT ![r] = "joining"]
    /\ UNCHANGED <<storeVars, engineVars, hub, toStop, hadClients,
                   rkind, rkey, reng, rmgr, rfirst, managerVars>>

\* One turn of selectEngineWithWait.  The broadcast channel is captured before
\* the attempt, so a failed attempt and the start of the wait are one step.
SelectAndClaimEngine(r) ==
    /\ rpc[r] = "select"
    /\ \E e \in Candidates :
          /\ pending'  = [pending EXCEPT ![e] = @ + 1]
          /\ settling' = settling \cup {e}
          /\ reng'     = [reng EXCEPT ![r] = e]
    /\ rpc' = [rpc EXCEPT ![r] = "claimed"]
    /\ UNCHANGED <<counts, streams, registry, stopped, stopIntents, hubVars,
                   rkind, rkey, rmgr, rfirst, managerVars>>

SelectFails(r) ==
    /\ rpc[r] = "select" /\ Eligible = {}
    /\ rpc' = [rpc EXCEPT ![r] = "waiting"]
    /\ UNCHANGED <<storeVars, engineVars, hubVars, rkind, rkey, reng, rmgr, rfirst, managerVars>>

\* The 90 s deadline or the client's disconnect: the handler ends "its" stream.
GiveUp(r) ==
    /\ "clientGivesUp" \in Env /\ rpc[r] = "waiting"
    /\ OnStreamEnded(rkey[r])
    /\ ToIdle(r)
    /\ UNCHANGED <<pending, engineVars, hubVars, managerVars>>

\* handleHLSManifest in API mode: the first selection is released at once and
\* handleHLSManifestAPIMode selects again.
ReleaseFirst(r) ==
    /\ rpc[r] = "claimed" /\ r \in rfirst
    /\ pending' = Decremented(pending, reng[r])
    /\ streams' = OnStreamAllocating(rkey[r])
    /\ rfirst'  = rfirst \ {r}
    /\ rpc'     = [rpc EXCEPT ![r] = "select"]
    /\ reng'    = [reng EXCEPT ![r] = Nil]
    /\ UNCHANGED <<counts, engineVars, hubVars, rkind, rkey, rmgr, managerVars>>

\* handleHLSManifest in HTTP mode: the reservation is held while the manifest
\* is served and no stream is started.
ServeManifest(r) ==
    /\ rpc[r] = "claimed" /\ rkind[r] = "hls"
    /\ rpc' = [rpc EXCEPT ![r] = "serving"]
    /\ UNCHANGED <<storeVars, engineVars, hubVars, rkind, rkey, reng, rmgr, rfirst, managerVars>>

\* Mutant: an error return without the deferred release.
ManifestServedNoRelease(r) ==
    /\ rpc[r] = "serving"
    /\ rpc' = [rpc EXCEPT ![r] = "joining"]
    /\ UNCHANGED <<storeVars, engineVars, hubVars, rkind, rkey, reng, rmgr, rfirst, managerVars>>

ManifestServed(r) ==
    /\ rpc[r] = "serving"
    /\ pending' = Decremented(pending, reng[r])
    /\ rpc' = [rpc EXCEPT ![r] = "joining"]
    /\ UNCHANGED <<counts, streams, engineVars, hubVars, rkind, rkey, reng, rmgr, rfirst, managerVars>>

\* Hub.StartStream finds an entry for the key, or may not start another one.
StartStreamRefused(r) ==
    /\ rpc[r] = "claimed" /\ rkind[r] # "hls" /\ r \notin rfirst
    /\ \/ /\ hub[rkey[r]] # Nil
          /\ shutdown' = shutdown \ {rkey[r]}
       \/ /\ hub[rkey[r]] = Nil /\ AtGlobalLimits /\ shutdown = {}
          /\ UNCHANGED shutdown
    /\ rpc' = [rpc EXCEPT ![r] = "lookupShared"]
    /\ UNCHANGED <<storeVars, engineVars, hub, toStop, hadClients,
                   rkind, rkey, reng, rmgr, rfirst, managerVars>>

\* Hub.StartStream creates the entry, evicting an idle one at the limit (deleted and
\* cancelled under the one lock), and hands the reservation to the new manager.
StartStream(r, m) ==
    /\ rpc[r] = "claimed" /\ rkind[r] # "hls" /\ r \notin rfirst
    /\ hub[rkey[r]] = Nil /\ mpc[m] = "unused"
    /\ \E evict \in SUBSET shutdown :
          /\ IF AtGlobalLimits THEN Cardinality(evict) = 1 ELSE evict = {}
          /\ hub' = [c \in Contents |-> IF c = rkey[r] THEN m
                                        ELSE IF c \in evict THEN Nil ELSE hub[c]]
          /\ shutdown'  = shutdown \ evict
          /\ cancelled' = cancelled \cup {hub[c] : c \in evict \cap Entries}
          /\ UNCHANGED doomed
    /\ mpc'  = [mpc EXCEPT ![m] = "new"]
    /\ mkey' = [mkey EXCEPT ![m] = rkey[r]]
    /\ meng' = [meng EXCEPT ![m] = reng[r]]
    /\ rpc'  = [rpc EXCEPT ![r] = "lookupOwn"]
    /\ UNCHANGED <<storeVars, engineVars, toStop, hadClients, rkind, rkey, reng, rmgr, rfirst>>

\* The handler looks its key up again.  Without an entry it releases the
\* reservation (whether or not it started the stream) and will end the stream;
\* with one it releases only a reservation it could not hand over.
GetEntryNil(r) ==
    /\ rpc[r] \in {"lookupOwn", "lookupShared"} /\ hub[rkey[r]] = Nil
    /\ pending' = Decremented(pending, reng[r])
    /\ rpc' = [rpc EXCEPT ![r] = "ending"]
    /\ UNCHANGED <<counts, streams, engineVars, hubVars, rkind, rkey, reng, rmgr, rfirst, managerVars>>

EndRejected(r) ==
    /\ rpc[r] = "ending"
    /\ OnStreamEnded(rkey[r])
    /\ ToIdle(r)
    /\ UNCHANGED <<pending, engineVars, hubVars, managerVars>>

\* Mutant: the loser of a race to start a stream keeps its reservation.
GetEntryFoundNoRelease(r) ==
    /\ rpc[r] \in {"lookupOwn", "lookupShared"} /\ hub[rkey[r]] # Nil
    /\ rmgr' = [rmgr EXCEPT ![r] = hub[rkey[r]]]
    /\ rpc'  = [rpc EXCEPT ![r] = "joining"]
    /\ UNCHANGED <<storeVars, engineVars, hubVars, rkind, rkey, reng, rfirst, managerVars>>

GetEntryFound(r) ==
    /\ rpc[r] \in {"lookupOwn", "lookupShared"} /\ hub[rkey[r]] # Nil
    /\ pending' = IF rpc[r] = "lookupShared" THEN Decremented(pending, reng[r]) ELSE pending
    /\ rmgr' = [rmgr EXCEPT ![r] = hub[rkey[r]]]
    /\ rpc'  = [rpc EXCEPT ![r] = "joining"]
    /\ UNCHANGED <<counts, streams, engineVars, hubVars, rkind, rkey, reng, rfirst, managerVars>>

Connected(m) == m \in Managers /\ mpc[m] = "running"

\* ClientStreamer.Stream adds the client once the manager it found is connected;
\* recordHLSClient adds an HLS client to whatever entry the key has by now.
JoinClient(r) ==
    /\ rpc[r] = "joining"
    /\ \E m \in Managers :
          /\ IF rkind[r] = "ts" THEN m = rmgr[r] /\ Connected(m) ELSE m = hub[rkey[r]]
          /\ rmgr' = [rmgr EXCEPT ![r] = m]
          /\ hadClients' = hadClients \cup {m}
    /\ rpc' = [rpc EXCEPT ![r] = "watching"]
    /\ UNCHANGED <<storeVars, engineVars, hub, shutdown, toStop, rkind, rkey, reng, rfirst, managerVars>>

\* A client leaves: it hangs up, its wait for the connection times out, or (HLS)
\* evictGhosts forgets it, which is the end of an HLS client.  A TS request that
\* is redirected to the manifest or finds the stream full never joins.
LeaveClient(r) ==
    /\ rpc[r] \in {"joining", "watching"}
    /\ \/ /\ rkind[r] # "ts" \/ rpc[r] = "joining"
          /\ ToIdle(r)
       \/ /\ rkind[r] = "ts"
          /\ rpc[r] = "watching" \/ Connected(rmgr[r]) \/ "leaveEarly" \in Env
          /\ rpc' = [rpc EXCEPT ![r] = "left"]
          /\ UNCHANGED <<rkind, rkey, reng, rmgr, rfirst>>
    /\ UNCHANGED <<storeVars, engineVars, hubVars, managerVars>>

\* handleGetStream then looks whether it was the last one ...
CheckLast(r) ==
    /\ rpc[r] = "left"
    /\ IF Watchers(rmgr[r]) = {}
       THEN rpc' = [rpc EXCEPT ![r] = "closing"] /\ UNCHANGED <<rkind, rkey, reng, rmgr, rfirst>>
       ELSE ToIdle(r)
    /\ UNCHANGED <<storeVars, engineVars, hubVars, managerVars>>

\* ... and, by key, schedules the shutdown of a connected stream or stops one
\* that is not.
CloseStream(r) ==
    /\ rpc[r] = "closing"
    /\ IF Connected(rmgr[r])
       THEN /\ shutdown' = shutdown \cup ({rkey[r]} \cap Entries)
            /\ UNCHANGED <<hub, doomed, cancelled>>
       ELSE RemoveEntries({rkey[r]})
    /\ ToIdle(r)
    /\ UNCHANGED <<storeVars, engineVars, toStop, hadClients, mpc, mkey, meng>>

-----------------------------------------------------------------------------
(* Hub maintenance and the control endpoints.                              *)

\* runCleanup under the lock: choose the idle entries whose delay has passed,
\* schedule the shutdown of entries that lost their clients.
CleanupSweep ==
    /\ "idleStop" \in Env /\ toStop = {}
    /\ LET idle == {c \in Entries : Watchers(hub[c]) = {}} IN
       /\ toStop' \in SUBSET (idle \cap shutdown)
       /\ shutdown' = shutdown \cup {c \in idle : hub[c] \in hadClients}
    /\ UNCHANGED <<storeVars, engineVars, hub, hadClients, requestVars, managerVars>>

\* ... and after the lock is released, StopStream on each of them.
CleanupStop(c) ==
    /\ c \in toStop
    /\ RemoveEntries({c})
    /\ toStop' = toStop \ {c}
    /\ UNCHANGED <<storeVars, engineVars, hadClients, requestVars, mpc, mkey, meng>>

StopStream(c) ==
    /\ "stopStream" \in Env /\ c \in Entries
    /\ RemoveEntries({c})
    /\ UNCHANGED <<storeVars, engineVars, toStop, hadClients, requestVars, mpc, mkey, meng>>

\* DELETE /streams/{id}: tells the engine to stop and drops the record; the
\* hub is not involved.
DeleteStream(c) ==
    /\ "apiDelete" \in Env /\ streams[c] # NoRecord
    /\ OnStreamEnded(c)
    /\ UNCHANGED <<pending, engineVars, hubVars, requestVars, managerVars>>

-----------------------------------------------------------------------------
(* Manager.Run.                                                            *)

Prebuffer(m) ==
    /\ mpc[m] = "new"
    /\ streams' = OnStreamPrebuffering(mkey[m], meng[m])
    /\ mpc' = [mpc EXCEPT ![m] = "requesting"]
    /\ UNCHANGED <<pending, counts, engineVars, hubVars, requestVars, mkey, meng, doomed, cancelled>>

RequestSucceeds(m) ==
    /\ mpc[m] = "requesting" /\ meng[m] \notin stopped
    /\ OnStreamStarted(mkey[m], meng[m])
    /\ mpc' = [mpc EXCEPT ![m] = "running"]
    /\ UNCHANGED <<engineVars, hubVars, requestVars, mkey, meng, doomed, cancelled>>

\* Mutant: the end of the request does not release the reservation.
RequestFailsNoRelease(m) ==
    /\ mpc[m] = "requesting"
    /\ "requestFails" \in Env \/ m \in cancelled \/ meng[m] \in stopped
    /\ mpc' = [mpc EXCEPT ![m] = "failed"]
    /\ UNCHANGED <<storeVars, engineVars, hubVars, requestVars, mkey, meng, doomed, cancelled>>

\* requestStream returns an error after its retry: OnStreamFailed releases the
\* reservation, then OnStreamEnded ends the stream.
RequestFails(m) ==
    /\ mpc[m] = "requesting"
    /\ "requestFails" \in Env \/ m \in cancelled \/ meng[m] \in stopped
    /\ pending' = Decremented(pending, meng[m])
    /\ mpc' = [mpc EXCEPT ![m] = "failed"]
    /\ UNCHANGED <<counts, streams, engineVars, hubVars, requestVars, mkey, meng, doomed, cancelled>>

\* startReadLoop drops the session with the engine and asks for another: from
\* the same engine after a stall, from another one on POST /internal/swap.  The
\* store is not told of the engine.
Stall(m) ==
    /\ "stall" \in Env /\ mpc[m] = "running"
    /\ mpc' = [mpc EXCEPT ![m] = "restarting"]
    /\ UNCHANGED <<storeVars, engineVars, hubVars, requestVars, mkey, meng, doomed, cancelled>>

HotSwap(m, e) ==
    /\ "hotSwap" \in Env /\ mpc[m] = "running" /\ hub[mkey[m]] = m
    /\ registry[e] \in {"up", "draining"} /\ e # meng[m]
    /\ meng' = [meng EXCEPT ![m] = e]
    /\ mpc'  = [mpc EXCEPT ![m] = "restarting"]
    /\ UNCHANGED <<storeVars, engineVars, hubVars, requestVars, mkey, doomed, cancelled>>

Restarted(m) ==
    /\ mpc[m] = "restarting" /\ meng[m] \notin stopped
    /\ mpc' = [mpc EXCEPT ![m] = "running"]
    /\ UNCHANGED <<storeVars, engineVars, hubVars, requestVars, mkey, meng, doomed, cancelled>>

\* Mutant: the read loop does not watch its context.
EndStreamIgnoresContext(m) ==
    /\ mpc[m] \in {"running", "restarting", "failed"} /\ m \notin cancelled
    /\ OnStreamEnded(mkey[m])
    /\ mpc' = [mpc EXCEPT ![m] = "exited"]
    /\ UNCHANGED <<pending, engineVars, hubVars, requestVars, mkey, meng, doomed, cancelled>>

\* startReadLoop returns (end of input, stall budget exhausted, a restart that
\* failed, or a cancelled context), or the request failed.
EndStream(m) ==
    /\ mpc[m] \in {"running", "restarting", "failed"}
    /\ OnStreamEnded(mkey[m])
    /\ mpc' = [mpc EXCEPT ![m] = "exited"]
    /\ UNCHANGED <<pending, engineVars, hubVars, requestVars, mkey, meng, doomed, cancelled>>

\* Mutant: the goroutine ends without removeStream.
ExitLeavesEntry(m) ==
    /\ mpc[m] = "exited"
    /\ mpc' = [mpc EXCEPT ![m] = "done"]
    /\ UNCHANGED <<storeVars, engineVars, hubVars, requestVars, mkey, meng, doomed, cancelled>>

\* The goroutine of StartStream: removeStream(contentID) after Run returns.
Exit(m) ==
    /\ mpc[m] = "exited"
    /\ RemoveEntries({mkey[m]})
    /\ mpc' = [mpc EXCEPT ![m] = "done"]
    /\ UNCHANGED <<storeVars, engineVars, toStop, hadClients, requestVars, mkey, meng>>

\* Whoever removed an entry then calls its cancelFn.  That he does nothing else in
\* between is not used: another client's request could do it as well.
Cancel(m) ==
    /\ m \in doomed
    /\ cancelled' = cancelled \cup {m}
    /\ doomed' = doomed \ {m}
    /\ UNCHANGED <<storeVars, engineVars, hubVars, requestVars, mpc, mkey, meng>>

-----------------------------------------------------------------------------
(* Engines.                                                                *)

\* An engine is registered healthy: AddEngine / NotifyEngineReady wake every
\* waiter.  Nothing else does.
AddEngine(e) ==
    /\ registry[e] = "fresh"
    /\ registry' = [registry EXCEPT ![e] = "up"]
    /\ rpc' = [r \in Requests |-> IF rpc[r] = "waiting" THEN "select" ELSE rpc[r]]
    /\ UNCHANGED <<storeVars, stopped, stopIntents, settling, hubVars,
                   rkind, rkey, reng, rmgr, rfirst, managerVars>>

\* Five seconds pass since the last assignment.
Settle(e) ==
    /\ e \in settling
    /\ settling' = settling \ {e}
    /\ UNCHANGED <<storeVars, registry, stopped, stopIntents, hubVars, requestVars, managerVars>>

MarkEngineDraining(e) ==
    /\ "engineStop" \in Env /\ registry[e] = "up"
    /\ registry' = [registry EXCEPT ![e] = "draining"]
    /\ UNCHANGED <<storeVars, stopped, stopIntents, settling, hubVars, requestVars, managerVars>>

\* doReconcile: canStopEngine saw no load, so a terminate intent is queued.
EnqueueTerminate(e) ==
    /\ "engineStop" \in Env /\ registry[e] \in {"up", "draining"}
    /\ e \notin stopped /\ Load(e) = 0
    /\ stopIntents' = stopIntents \cup {e}
    /\ UNCHANGED <<storeVars, registry, stopped, settling, hubVars, requestVars, managerVars>>

\* executeIntent: StopContainer, without another look at the load.
StopContainer(e) ==
    /\ e \in stopIntents
    /\ stopIntents' = stopIntents \ {e}
    /\ stopped' = stopped \cup {e}
    /\ UNCHANGED <<storeVars, registry, settling, hubVars, requestVars, managerVars>>

\* The die event: RemoveEngine drops the engine and its stream count.
RemoveEngine(e) ==
    /\ e \in stopped /\ registry[e] \in {"up", "draining"}
    /\ registry' = [registry EXCEPT ![e] = "removed"]
    /\ counts' = [counts EXCEPT ![e] = 0]
    /\ UNCHANGED <<pending, streams, stopped, stopIntents, settling, hubVars, requestVars, managerVars>>

-----------------------------------------------------------------------------
HandlerStep(r) ==
    \/ Allocate(r) \/ CancelShutdown(r)
    \/ SelectAndClaimEngine(r) \/ SelectFails(r)
    \/ ReleaseFirst(r) \/ ServeManifest(r) \/ ManifestServed(r)
    \/ StartStreamRefused(r) \/ \E m \in Managers : StartStream(r, m)
    \/ GetEntryNil(r) \/ EndRejected(r) \/ GetEntryFound(r)
    \/ CheckLast(r) \/ CloseStream(r)

ManagerStep(m) ==
    \/ Prebuffer(m) \/ RequestSucceeds(m) \/ RequestFails(m) \/ Exit(m)

Next ==
    \/ \E r \in Requests :
          \/ \E c \in Contents, k \in Kinds : Arrive(r, c, k)
          \/ HandlerStep(r) \/ GiveUp(r) \/ JoinClient(r) \/ LeaveClient(r)
    \/ \E m \in Managers :
          \/ ManagerStep(m) \/ EndStream(m) \/ Cancel(m)
          \/ Stall(m) \/ Restarted(m) \/ \E e \in Engines : HotSwap(m, e)
    \/ CleanupSweep
    \/ \E c \in Contents : CleanupStop(c) \/ StopStream(c) \/ DeleteStream(c)
    \/ \E e \in Engines :
          \/ AddEngine(e) \/ Settle(e) \/ MarkEngineDraining(e)
          \/ EnqueueTerminate(e) \/ StopContainer(e) \/ RemoveEngine(e)

Spec == Init /\ [][Next]_vars

\* Goroutines are scheduled and time passes: handlers and managers that can
\* step do so, a removed entry's manager is cancelled, a cancelled or failed manager
\* leaves its read loop, engines settle.  A client is never obliged to come or go, nor a stream to end.
Fairness ==
    /\ \A r \in Requests : WF_vars(HandlerStep(r))
    /\ \A m \in Managers : /\ WF_vars(ManagerStep(m)) /\ WF_vars(Cancel(m))
                            /\ WF_vars(EndStream(m) /\ (m \in cancelled \/ mpc[m] = "failed"))
    /\ \A e \in Engines : WF_vars(Settle(e))
    /\ \A c \in Contents : WF_vars(CleanupStop(c))

FairSpec == Spec /\ Fairness

-----------------------------------------------------------------------------
(* Properties.                                                             *)

\* Every variable holds values of its kind: a busy handler has a key, one past
\* SelectAndClaimEngine an engine, a manager in use both.
TypeOK ==
    /\ registry \in [Engines -> {"fresh", "up", "draining", "removed"}]
    /\ stopped \subseteq Engines /\ stopIntents \subseteq Engines /\ settling \subseteq Engines
    /\ pending \in [Engines -> Nat]
    /\ counts \in [Engines -> Nat]
    /\ streams \in [Contents -> [status : {"none", "allocating", "prebuf", "started"},
                                 engine : Engines \cup {Nil}]]
    /\ hub \in [Contents -> Managers \cup {Nil}]
    /\ shutdown \subseteq Contents /\ toStop \subseteq Contents /\ hadClients \subseteq Managers
    /\ rpc \in [Requests -> RequestPcs]
    /\ rkind \in [Requests -> {"ts", "hls", "hlsapi"}]
    /\ rkey \in [Requests -> Contents \cup {Nil}]
    /\ reng \in [Requests -> Engines \cup {Nil}]
    /\ rmgr \in [Requests -> Managers \cup {Nil}]
    /\ rfirst \subseteq Requests
    /\ mpc \in [Managers -> ManagerPcs]
    /\ mkey \in [Managers -> Contents \cup {Nil}]
    /\ meng \in [Managers -> Engines \cup {Nil}]
    /\ doomed \subseteq Managers /\ cancelled \subseteq Managers
    /\ \A r \in Requests : /\ rpc[r] # "idle" => rkey[r] \in Contents
                           /\ rpc[r] \in {"claimed", "serving", "lookupOwn", "lookupShared"}
                                => reng[r] \in Engines
    /\ \A m \in Managers : mpc[m] # "unused" => mkey[m] \in Contents /\ meng[m] \in Engines

\* Who owes the store a release of a reservation on e: a handler that claimed
\* it and has not handed it over, a manager that has not started yet.
HoldingRequests(e) == {r \in Requests : rpc[r] \in {"claimed", "serving", "lookupShared"}
                                        /\ reng[r] = e}
HoldingManagers(e) == {m \in Managers : mpc[m] \in {"new", "requesting"} /\ meng[m] = e}

\* No reservation made by SelectAndClaimEngine leaks: each one counted in
\* enginePending has a handler or a manager that will still release it, on
\* every path (refused start, lost race, failed request, HLS, cancellation).
NoReservationLeak ==
    \A e \in Engines :
        pending[e] <= Cardinality(HoldingRequests(e)) + Cardinality(HoldingManagers(e))

\* StartStream, StopStream, eviction and removeStream all address entries by key.
\* A manager that is neither cancelled nor about to be (its remover has deleted the
\* entry and calls cancelFn next) is the one the hub hands out, so that no two of
\* them ever pull the same stream: a replaced manager is always on its way out.
OneLiveManager ==
    \A m \in Managers :
        mpc[m] \notin {"unused", "done"} /\ m \notin doomed \cup cancelled => hub[mkey[m]] = m

\* GetEntry never hands out the manager of another key or a finished one.
HubEntriesLive ==
    \A c \in Contents :
        hub[c] # Nil => mkey[hub[c]] = c /\ mpc[hub[c]] \notin {"unused", "done"}

\* StartStream keeps the hub within MaxTotalStreams: it evicts before it adds, and
\* refuses when nothing can be evicted.
WithinGlobalLimit == MaxTotalStreams > 0 => Cardinality(Entries) <= MaxTotalStreams

\* "containerID -> active stream count": every stream being pulled from an
\* engine, and not cancelled, is counted on that engine.
RunningIsCounted ==
    \A e \in Engines :
        counts[e] >= Cardinality({m \in Managers : mpc[m] \in {"running", "restarting"}
                                                   /\ meng[m] = e
                                                   /\ m \notin doomed \cup cancelled})

\* An engine never serves more streams than MaxStreamsPerEngine.
NoOverassignment ==
    \A e \in Engines :
        Cardinality({m \in Managers : m \notin doomed \cup cancelled /\ meng[m] = e
                                       /\ mpc[m] \in {"new", "requesting", "running", "restarting"}})
            <= MaxStreams

\* A manager whose entry has been removed, or that has been evicted, finishes.
CancelledManagersExit == \A m \in Managers : m \in doomed \cup cancelled ~> mpc[m] = "done"

\* Every reservation is released in the end, whichever way its stream went (refused,
\* failed, stalled, stopped before or after it was running): once the demand, bounded
\* by Managers, has passed, enginePending of every engine is back at zero, and the
\* engine can be assigned and stopped again.
ReservationsDrain == \A e \in Engines : pending[e] > 0 ~> pending[e] = 0
=============================================================================
