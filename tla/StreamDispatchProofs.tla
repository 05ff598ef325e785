------------------------ MODULE StreamDispatchProofs ------------------------
(***************************************************************************)
(* Proofs about StreamDispatch, for every number of engines, streams,      *)
(* requests and managers.  Type correctness first; on top of it the        *)
(* accounting of reservations and the hub's bookkeeping.                   *)
(***************************************************************************)
EXTENDS StreamDispatch, FiniteSetTheorems, TLAPS

USE ConstantsAssumption DEF storeVars, engineVars, hubVars, requestVars, managerVars

-----------------------------------------------------------------------------
(* What the Store's and the Hub's operators preserve.                      *)

\* ReleaseEnginePending maps counters to counters.
LEMMA DecrementedType ==
    ASSUME NEW f \in [Engines -> Nat], NEW e \in Engines \cup {Nil}
    PROVE  Decremented(f, e) \in [Engines -> Nat]
BY DEF Decremented

\* It lowers the counter of e by one unless that is 0, and no other counter.
LEMMA DecrementedValue ==
    ASSUME NEW f \in [Engines -> Nat], NEW e \in Engines \cup {Nil}, NEW x \in Engines
    PROVE  Decremented(f, e)[x] = IF x = e /\ f[x] > 0 THEN f[x] - 1 ELSE f[x]
BY DEF Decremented

-----------------------------------------------------------------------------
(* Type correctness.                                                       *)

\* The initial state is well typed.
LEMMA InitType == Init => TypeOK
BY DEF Init, TypeOK, NoRecord, RequestPcs, ManagerPcs

\* Every action keeps every variable in its type.
LEMMA NextType == TypeOK /\ [Next]_vars => TypeOK'
<1> SUFFICES ASSUME TypeOK, [Next]_vars PROVE TypeOK'
    OBVIOUS
<1> USE DEF TypeOK, RequestPcs, ManagerPcs
<1>d. \A f \in [Engines -> Nat] : \A e \in Engines \cup {Nil} : Decremented(f, e) \in [Engines -> Nat]
    BY DecrementedType
<1>1. ASSUME NEW r \in Requests, NEW c \in Contents, NEW k \in Kinds, Arrive(r, c, k) PROVE TypeOK'
    BY <1>1 DEF Arrive
<1>2. ASSUME NEW r \in Requests, Allocate(r) PROVE TypeOK'
    BY <1>2, <1>d DEF Allocate, OnStreamAllocating, NoRecord
<1>3. ASSUME NEW r \in Requests, CancelShutdown(r) PROVE TypeOK'
    BY <1>3, <1>d DEF CancelShutdown
<1>4. ASSUME NEW r \in Requests, SelectAndClaimEngine(r) PROVE TypeOK'
    BY <1>4, <1>d DEF SelectAndClaimEngine, Candidates, Eligible
<1>5. ASSUME NEW r \in Requests, SelectFails(r) PROVE TypeOK'
    BY <1>5, <1>d DEF SelectFails
<1>6. ASSUME NEW r \in Requests, GiveUp(r) PROVE TypeOK'
    BY <1>6, <1>d DEF GiveUp, OnStreamEnded, ToIdle, NoRecord
<1>7. ASSUME NEW r \in Requests, ReleaseFirst(r) PROVE TypeOK'
    BY <1>7, <1>d DEF ReleaseFirst, OnStreamAllocating, NoRecord
<1>8. ASSUME NEW r \in Requests, ServeManifest(r) PROVE TypeOK'
    BY <1>8, <1>d DEF ServeManifest
<1>9. ASSUME NEW r \in Requests, ManifestServed(r) PROVE TypeOK'
    BY <1>9, <1>d DEF ManifestServed
<1>10. ASSUME NEW r \in Requests, StartStreamRefused(r) PROVE TypeOK'
    BY <1>10, <1>d DEF StartStreamRefused
<1>11. ASSUME NEW r \in Requests, GetEntryNil(r) PROVE TypeOK'
    BY <1>11, <1>d DEF GetEntryNil
<1>12. ASSUME NEW r \in Requests, EndRejected(r) PROVE TypeOK'
    BY <1>12, <1>d DEF EndRejected, OnStreamEnded, ToIdle, NoRecord
<1>13. ASSUME NEW r \in Requests, GetEntryFound(r) PROVE TypeOK'
    BY <1>13, <1>d DEF GetEntryFound
<1>14. ASSUME NEW r \in Requests, JoinClient(r) PROVE TypeOK'
    BY <1>14, <1>d DEF JoinClient
<1>15. ASSUME NEW r \in Requests, LeaveClient(r) PROVE TypeOK'
  <2>1. CASE ToIdle(r)
    BY <1>15, <2>1 DEF LeaveClient, ToIdle
  <2>2. CASE ~ ToIdle(r)
    BY <1>15, <2>2 DEF LeaveClient
  <2> QED
    BY <2>1, <2>2
<1>16. ASSUME NEW r \in Requests, CheckLast(r) PROVE TypeOK'
  <2>1. CASE ToIdle(r)
    BY <1>16, <2>1 DEF CheckLast, ToIdle
  <2>2. CASE ~ ToIdle(r)
    BY <1>16, <2>2 DEF CheckLast
  <2> QED
    BY <2>1, <2>2
<1>17. ASSUME NEW r \in Requests, CloseStream(r) PROVE TypeOK'
    BY <1>17, <1>d DEF CloseStream, ToIdle, RemoveEntries, Entries
<1>18. ASSUME NEW r \in Requests, NEW m \in Managers, StartStream(r, m) PROVE TypeOK'
    BY <1>18, <1>d DEF StartStream, Entries
<1>19. ASSUME NEW m \in Managers, Prebuffer(m) PROVE TypeOK'
    BY <1>19, <1>d DEF Prebuffer, OnStreamPrebuffering
<1>20. ASSUME NEW m \in Managers, RequestSucceeds(m) PROVE TypeOK'
  <2>1. meng[m] \in Engines /\ mkey[m] \in Contents
    BY <1>20 DEF RequestSucceeds
  <2>2. streams' \in [Contents -> [status : {"none", "allocating", "prebuf", "started"},
                                   engine : Engines \cup {Nil}]]
    BY <1>20, <2>1 DEF RequestSucceeds, OnStreamStarted
  <2>3. counts' = [counts EXCEPT ![meng[m]] = counts[meng[m]] + 1]
    BY <1>20 DEF RequestSucceeds, OnStreamStarted
  <2>4. counts \in [Engines -> Nat] /\ counts[meng[m]] + 1 \in Nat
    BY <2>1
  <2>5. counts' \in [Engines -> Nat]
    BY <2>3, <2>4
  <2>6. pending' \in [Engines -> Nat]
    BY <1>20, <1>d DEF RequestSucceeds, OnStreamStarted
  <2> QED
    BY <1>20, <2>2, <2>5, <2>6 DEF RequestSucceeds
<1>21. ASSUME NEW m \in Managers, RequestFails(m) PROVE TypeOK'
    BY <1>21, <1>d DEF RequestFails
<1>22. ASSUME NEW m \in Managers, EndStream(m) PROVE TypeOK'
    BY <1>22, <1>d DEF EndStream, OnStreamEnded, NoRecord
<1>23. ASSUME NEW m \in Managers, Exit(m) PROVE TypeOK'
    BY <1>23, <1>d DEF Exit, RemoveEntries, Entries
<1>24. ASSUME NEW m \in Managers, Stall(m) PROVE TypeOK'
    BY <1>24, <1>d DEF Stall
<1>25. ASSUME NEW m \in Managers, Restarted(m) PROVE TypeOK'
    BY <1>25, <1>d DEF Restarted
<1>26. ASSUME NEW m \in Managers, NEW e \in Engines, HotSwap(m, e) PROVE TypeOK'
    BY <1>26, <1>d DEF HotSwap
<1>27. ASSUME CleanupSweep PROVE TypeOK'
    BY <1>27, <1>d DEF CleanupSweep, Entries
<1>28. ASSUME NEW c \in Contents, CleanupStop(c) PROVE TypeOK'
    BY <1>28, <1>d DEF CleanupStop, RemoveEntries, Entries
<1>29. ASSUME NEW c \in Contents, StopStream(c) PROVE TypeOK'
    BY <1>29, <1>d DEF StopStream, RemoveEntries, Entries
<1>30. ASSUME NEW c \in Contents, DeleteStream(c) PROVE TypeOK'
    BY <1>30, <1>d DEF DeleteStream, OnStreamEnded, NoRecord
<1>31. ASSUME NEW e \in Engines, AddEngine(e) PROVE TypeOK'
    BY <1>31, <1>d DEF AddEngine
<1>32. ASSUME NEW e \in Engines, Settle(e) PROVE TypeOK'
    BY <1>32, <1>d DEF Settle
<1>33. ASSUME NEW e \in Engines, MarkEngineDraining(e) PROVE TypeOK'
    BY <1>33, <1>d DEF MarkEngineDraining
<1>34. ASSUME NEW e \in Engines, EnqueueTerminate(e) PROVE TypeOK'
    BY <1>34, <1>d DEF EnqueueTerminate
<1>35. ASSUME NEW e \in Engines, StopContainer(e) PROVE TypeOK'
    BY <1>35, <1>d DEF StopContainer
<1>36. ASSUME NEW e \in Engines, RemoveEngine(e) PROVE TypeOK'
    BY <1>36, <1>d DEF RemoveEngine
<1>37. CASE UNCHANGED vars
    BY <1>37 DEF vars
<1>38. ASSUME NEW m \in Managers, Cancel(m) PROVE TypeOK'
    BY <1>38 DEF Cancel
<1> QED
    BY <1>1, <1>2, <1>3, <1>4, <1>5, <1>6, <1>7, <1>8, <1>9, <1>10, <1>11, <1>12, <1>13, <1>14, <1>15, <1>16, <1>17, <1>18, <1>19, <1>20, <1>21, <1>22, <1>23, <1>24, <1>25, <1>26, <1>27, <1>28, <1>29, <1>30, <1>31, <1>32, <1>33, <1>34, <1>35, <1>36, <1>37, <1>38 DEF Next, HandlerStep, ManagerStep

\* Every variable holds values of its kind in every reachable state: no action of
\* the Store, the Hub, a handler or a manager stores anything else, and no counter
\* goes below zero.
THEOREM TypeCorrect == Spec => []TypeOK
BY InitType, NextType, PTL DEF Spec

-----------------------------------------------------------------------------
(* Reservations.  The bound is an inductive invariant on top of TypeOK: a  *)
(* step that takes a holder away also calls ReleaseEnginePending.          *)

LeakBound(e) ==
    pending[e] <= Cardinality(HoldingRequests(e)) + Cardinality(HoldingManagers(e))

\* The holders of an engine can be counted, before and after a step.
LEMMA HoldersFinite ==
    ASSUME NEW e
    PROVE  /\ IsFiniteSet(HoldingRequests(e)) /\ Cardinality(HoldingRequests(e)) \in Nat
           /\ IsFiniteSet(HoldingManagers(e)) /\ Cardinality(HoldingManagers(e)) \in Nat
           /\ IsFiniteSet(HoldingRequests(e)') /\ Cardinality(HoldingRequests(e)') \in Nat
           /\ IsFiniteSet(HoldingManagers(e)') /\ Cardinality(HoldingManagers(e)') \in Nat
<1>1. /\ HoldingRequests(e) \subseteq Requests /\ HoldingManagers(e) \subseteq Managers
      /\ HoldingRequests(e)' \subseteq Requests /\ HoldingManagers(e)' \subseteq Managers
    BY DEF HoldingRequests, HoldingManagers
<1> QED
    BY <1>1, FiniteAssumption, FS_Subset, FS_CardinalityType

\* A finite set that loses at most one element loses at most 1 of its cardinality.
LEMMA LoseOne ==
    ASSUME NEW S, NEW T, NEW x, IsFiniteSet(S), IsFiniteSet(T), S \ {x} \subseteq T
    PROVE  /\ Cardinality(S) \in Nat /\ Cardinality(T) \in Nat
           /\ Cardinality(S) <= Cardinality(T) + 1
           /\ x \notin S => Cardinality(S) <= Cardinality(T)
<1>1. Cardinality(S) \in Nat /\ Cardinality(T) \in Nat /\ Cardinality(S \ {x}) \in Nat
    BY FS_CardinalityType, FS_RemoveElement
<1>2. IsFiniteSet(S \ {x}) /\ Cardinality(S \ {x}) <= Cardinality(T)
    BY <1>1, FS_RemoveElement, FS_Subset
<1>3. Cardinality(S \ {x}) = IF x \in S THEN Cardinality(S) - 1 ELSE Cardinality(S)
    BY FS_RemoveElement
<1> QED
    BY <1>1, <1>2, <1>3

\* Nobody stops holding and nothing is reserved.
LEMMA FrameLeak ==
    ASSUME TypeOK, TypeOK', NEW e \in Engines, LeakBound(e), pending'[e] <= pending[e],
           HoldingRequests(e) \subseteq HoldingRequests(e)',
           HoldingManagers(e) \subseteq HoldingManagers(e)'
    PROVE  LeakBound(e)'
<1>1. /\ IsFiniteSet(HoldingRequests(e)') /\ Cardinality(HoldingRequests(e)') \in Nat
      /\ IsFiniteSet(HoldingManagers(e)') /\ Cardinality(HoldingManagers(e)') \in Nat
    BY HoldersFinite
<1>2. /\ Cardinality(HoldingRequests(e)) <= Cardinality(HoldingRequests(e)')
      /\ Cardinality(HoldingManagers(e)) <= Cardinality(HoldingManagers(e)')
    BY <1>1, FS_Subset
<1>3. pending[e] \in Nat /\ pending'[e] \in Nat
    BY DEF TypeOK
<1> QED
    BY <1>1, <1>2, <1>3, HoldersFinite DEF LeakBound

\* A handler stops holding engine x and releases its reservation.
LEMMA ReleaseByHandler ==
    ASSUME TypeOK, TypeOK', NEW e \in Engines, LeakBound(e),
           NEW x \in Engines \cup {Nil}, NEW r, pending' = Decremented(pending, x),
           HoldingRequests(e) \ {r} \subseteq HoldingRequests(e)',
           r \in HoldingRequests(e) => x = e,
           HoldingManagers(e) \subseteq HoldingManagers(e)'
    PROVE  LeakBound(e)'
<1>1. /\ IsFiniteSet(HoldingRequests(e)') /\ Cardinality(HoldingRequests(e)') \in Nat
      /\ IsFiniteSet(HoldingManagers(e)') /\ Cardinality(HoldingManagers(e)') \in Nat
    BY HoldersFinite
<1>2. Cardinality(HoldingManagers(e)) <= Cardinality(HoldingManagers(e)')
    BY <1>1, FS_Subset
<1>3. /\ Cardinality(HoldingRequests(e)) <= Cardinality(HoldingRequests(e)') + 1
      /\ r \notin HoldingRequests(e)
            => Cardinality(HoldingRequests(e)) <= Cardinality(HoldingRequests(e)')
    BY <1>1, HoldersFinite, LoseOne
<1>4. /\ pending[e] \in Nat
      /\ pending'[e] = IF e = x /\ pending[e] > 0 THEN pending[e] - 1 ELSE pending[e]
    BY DecrementedValue DEF TypeOK
<1> QED
    BY <1>1, <1>2, <1>3, <1>4, HoldersFinite DEF LeakBound

\* A manager does.
LEMMA ReleaseByManager ==
    ASSUME TypeOK, TypeOK', NEW e \in Engines, LeakBound(e),
           NEW x \in Engines \cup {Nil}, NEW m, pending' = Decremented(pending, x),
           HoldingManagers(e) \ {m} \subseteq HoldingManagers(e)',
           m \in HoldingManagers(e) => x = e,
           HoldingRequests(e) \subseteq HoldingRequests(e)'
    PROVE  LeakBound(e)'
<1>1. /\ IsFiniteSet(HoldingRequests(e)') /\ Cardinality(HoldingRequests(e)') \in Nat
      /\ IsFiniteSet(HoldingManagers(e)') /\ Cardinality(HoldingManagers(e)') \in Nat
    BY HoldersFinite
<1>2. Cardinality(HoldingRequests(e)) <= Cardinality(HoldingRequests(e)')
    BY <1>1, FS_Subset
<1>3. /\ Cardinality(HoldingManagers(e)) <= Cardinality(HoldingManagers(e)') + 1
      /\ m \notin HoldingManagers(e)
            => Cardinality(HoldingManagers(e)) <= Cardinality(HoldingManagers(e)')
    BY <1>1, HoldersFinite, LoseOne
<1>4. /\ pending[e] \in Nat
      /\ pending'[e] = IF e = x /\ pending[e] > 0 THEN pending[e] - 1 ELSE pending[e]
    BY DecrementedValue DEF TypeOK
<1> QED
    BY <1>1, <1>2, <1>3, <1>4, HoldersFinite DEF LeakBound

\* No step of the specification breaks the bound.
LEMMA NextLeak == TypeOK /\ TypeOK' /\ NoReservationLeak /\ [Next]_vars => NoReservationLeak'
<1> SUFFICES ASSUME TypeOK, TypeOK', [Next]_vars, NEW e \in Engines, LeakBound(e)
             PROVE  LeakBound(e)'
    BY DEF NoReservationLeak, LeakBound
<1>f. pending[e] \in Nat
    BY DEF TypeOK
<1> USE DEF HoldingRequests, HoldingManagers
<1>1. ASSUME NEW r \in Requests, NEW c \in Contents, NEW k \in Kinds, Arrive(r, c, k) PROVE LeakBound(e)'
  <2>1. /\ pending'[e] <= pending[e]
        /\ HoldingRequests(e) \subseteq HoldingRequests(e)'
        /\ HoldingManagers(e) \subseteq HoldingManagers(e)'
    BY <1>1, <1>f DEF TypeOK, Arrive
  <2> QED
    BY <2>1, FrameLeak
<1>2. ASSUME NEW r \in Requests, Allocate(r) PROVE LeakBound(e)'
  <2>1. /\ pending'[e] <= pending[e]
        /\ HoldingRequests(e) \subseteq HoldingRequests(e)'
        /\ HoldingManagers(e) \subseteq HoldingManagers(e)'
    BY <1>2, <1>f DEF TypeOK, Allocate, OnStreamAllocating, NoRecord
  <2> QED
    BY <2>1, FrameLeak
<1>3. ASSUME NEW r \in Requests, CancelShutdown(r) PROVE LeakBound(e)'
  <2>1. /\ pending'[e] <= pending[e]
        /\ HoldingRequests(e) \subseteq HoldingRequests(e)'
        /\ HoldingManagers(e) \subseteq HoldingManagers(e)'
    BY <1>3, <1>f DEF TypeOK, CancelShutdown
  <2> QED
    BY <2>1, FrameLeak
<1>4. ASSUME NEW r \in Requests, SelectAndClaimEngine(r) PROVE LeakBound(e)'
  <2>1. PICK x \in Engines : /\ pending' = [pending EXCEPT ![x] = @ + 1]
                             /\ reng' = [reng EXCEPT ![r] = x]
    BY <1>4 DEF SelectAndClaimEngine, Candidates, Eligible
  <2>2. /\ HoldingManagers(e)' = HoldingManagers(e)
        /\ r \notin HoldingRequests(e)
        /\ HoldingRequests(e)' = IF x = e THEN HoldingRequests(e) \cup {r} ELSE HoldingRequests(e)
    BY <1>4, <2>1 DEF SelectAndClaimEngine, TypeOK
  <2>3. pending'[e] = IF x = e THEN pending[e] + 1 ELSE pending[e]
    BY <2>1 DEF TypeOK
  <2> HIDE DEF HoldingRequests, HoldingManagers
  <2>4. Cardinality(HoldingRequests(e) \cup {r}) = Cardinality(HoldingRequests(e)) + 1
    BY <2>2, HoldersFinite, FS_AddElement
  <2> QED
    BY <1>f, <2>2, <2>3, <2>4, HoldersFinite DEF LeakBound
<1>5. ASSUME NEW r \in Requests, SelectFails(r) PROVE LeakBound(e)'
  <2>1. /\ pending'[e] <= pending[e]
        /\ HoldingRequests(e) \subseteq HoldingRequests(e)'
        /\ HoldingManagers(e) \subseteq HoldingManagers(e)'
    BY <1>5, <1>f DEF TypeOK, SelectFails
  <2> QED
    BY <2>1, FrameLeak
<1>6. ASSUME NEW r \in Requests, GiveUp(r) PROVE LeakBound(e)'
  <2>1. /\ pending'[e] <= pending[e]
        /\ HoldingRequests(e) \subseteq HoldingRequests(e)'
        /\ HoldingManagers(e) \subseteq HoldingManagers(e)'
    BY <1>6, <1>f DEF TypeOK, GiveUp, OnStreamEnded, ToIdle, NoRecord
  <2> QED
    BY <2>1, FrameLeak
<1>7. ASSUME NEW r \in Requests, ReleaseFirst(r) PROVE LeakBound(e)'
  <2>1. reng[r] \in Engines \cup {Nil} /\ pending' = Decremented(pending, reng[r])
    BY <1>7 DEF TypeOK, ReleaseFirst
  <2>2. /\ HoldingRequests(e) \ {r} \subseteq HoldingRequests(e)'
        /\ r \in HoldingRequests(e) => reng[r] = e
        /\ HoldingManagers(e) \subseteq HoldingManagers(e)'
    BY <1>7 DEF TypeOK, ReleaseFirst
  <2> HIDE DEF HoldingRequests, HoldingManagers
  <2> QED
    BY <2>1, <2>2, ReleaseByHandler
<1>8. ASSUME NEW r \in Requests, ServeManifest(r) PROVE LeakBound(e)'
  <2>1. /\ pending'[e] <= pending[e]
        /\ HoldingRequests(e) \subseteq HoldingRequests(e)'
        /\ HoldingManagers(e) \subseteq HoldingManagers(e)'
    BY <1>8, <1>f DEF TypeOK, ServeManifest
  <2> QED
    BY <2>1, FrameLeak
<1>9. ASSUME NEW r \in Requests, ManifestServed(r) PROVE LeakBound(e)'
  <2>1. reng[r] \in Engines \cup {Nil} /\ pending' = Decremented(pending, reng[r])
    BY <1>9 DEF TypeOK, ManifestServed
  <2>2. /\ HoldingRequests(e) \ {r} \subseteq HoldingRequests(e)'
        /\ r \in HoldingRequests(e) => reng[r] = e
        /\ HoldingManagers(e) \subseteq HoldingManagers(e)'
    BY <1>9 DEF TypeOK, ManifestServed
  <2> HIDE DEF HoldingRequests, HoldingManagers
  <2> QED
    BY <2>1, <2>2, ReleaseByHandler
<1>10. ASSUME NEW r \in Requests, StartStreamRefused(r) PROVE LeakBound(e)'
  <2>1. /\ pending'[e] <= pending[e]
        /\ HoldingRequests(e) \subseteq HoldingRequests(e)'
        /\ HoldingManagers(e) \subseteq HoldingManagers(e)'
    BY <1>10, <1>f DEF TypeOK, StartStreamRefused
  <2> QED
    BY <2>1, FrameLeak
<1>11. ASSUME NEW r \in Requests, GetEntryNil(r) PROVE LeakBound(e)'
  <2>1. reng[r] \in Engines \cup {Nil} /\ pending' = Decremented(pending, reng[r])
    BY <1>11 DEF TypeOK, GetEntryNil
  <2>2. /\ HoldingRequests(e) \ {r} \subseteq HoldingRequests(e)'
        /\ r \in HoldingRequests(e) => reng[r] = e
        /\ HoldingManagers(e) \subseteq HoldingManagers(e)'
    BY <1>11 DEF TypeOK, GetEntryNil
  <2> HIDE DEF HoldingRequests, HoldingManagers
  <2> QED
    BY <2>1, <2>2, ReleaseByHandler
<1>12. ASSUME NEW r \in Requests, EndRejected(r) PROVE LeakBound(e)'
  <2>1. /\ pending'[e] <= pending[e]
        /\ HoldingRequests(e) \subseteq HoldingRequests(e)'
        /\ HoldingManagers(e) \subseteq HoldingManagers(e)'
    BY <1>12, <1>f DEF TypeOK, EndRejected, OnStreamEnded, ToIdle, NoRecord
  <2> QED
    BY <2>1, FrameLeak
<1>13. ASSUME NEW r \in Requests, GetEntryFound(r) PROVE LeakBound(e)'
  <2>1. /\ HoldingRequests(e) \ {r} \subseteq HoldingRequests(e)'
        /\ r \in HoldingRequests(e) => reng[r] = e /\ rpc[r] = "lookupShared"
        /\ HoldingManagers(e) \subseteq HoldingManagers(e)'
        /\ reng[r] \in Engines \cup {Nil}
    BY <1>13 DEF TypeOK, GetEntryFound
  <2> HIDE DEF HoldingRequests, HoldingManagers
  <2>2. CASE rpc[r] = "lookupShared"
    BY <1>13, <2>1, <2>2, ReleaseByHandler DEF GetEntryFound
  <2>3. CASE rpc[r] # "lookupShared"
    BY <1>13, <1>f, <2>1, <2>3, FrameLeak DEF GetEntryFound
  <2> QED
    BY <2>2, <2>3
<1>14. ASSUME NEW r \in Requests, JoinClient(r) PROVE LeakBound(e)'
  <2>1. /\ pending'[e] <= pending[e]
        /\ HoldingRequests(e) \subseteq HoldingRequests(e)'
        /\ HoldingManagers(e) \subseteq HoldingManagers(e)'
    BY <1>14, <1>f DEF TypeOK, JoinClient
  <2> QED
    BY <2>1, FrameLeak
<1>15. ASSUME NEW r \in Requests, LeaveClient(r) PROVE LeakBound(e)'
  <2>1. /\ pending'[e] <= pending[e]
        /\ HoldingRequests(e) \subseteq HoldingRequests(e)'
        /\ HoldingManagers(e) \subseteq HoldingManagers(e)'
    BY <1>15, <1>f DEF TypeOK, LeaveClient, ToIdle
  <2> QED
    BY <2>1, FrameLeak
<1>16. ASSUME NEW r \in Requests, CheckLast(r) PROVE LeakBound(e)'
  <2>1. /\ pending'[e] <= pending[e]
        /\ HoldingRequests(e) \subseteq HoldingRequests(e)'
        /\ HoldingManagers(e) \subseteq HoldingManagers(e)'
    BY <1>16, <1>f DEF TypeOK, CheckLast, ToIdle
  <2> QED
    BY <2>1, FrameLeak
<1>17. ASSUME NEW r \in Requests, CloseStream(r) PROVE LeakBound(e)'
  <2>1. /\ pending'[e] <= pending[e]
        /\ HoldingRequests(e) \subseteq HoldingRequests(e)'
        /\ HoldingManagers(e) \subseteq HoldingManagers(e)'
    BY <1>17, <1>f DEF TypeOK, CloseStream, ToIdle, RemoveEntries, Entries
  <2> QED
    BY <2>1, FrameLeak
<1>18. ASSUME NEW r \in Requests, NEW m \in Managers, StartStream(r, m) PROVE LeakBound(e)'
  <2>1. /\ HoldingRequests(e)' = HoldingRequests(e) \ {r}
        /\ m \notin HoldingManagers(e)
        /\ HoldingManagers(e)' = IF reng[r] = e THEN HoldingManagers(e) \cup {m}
                                                ELSE HoldingManagers(e)
        /\ r \in HoldingRequests(e) <=> reng[r] = e
        /\ pending' = pending
    BY <1>18 DEF StartStream, TypeOK
  <2> HIDE DEF HoldingRequests, HoldingManagers
  <2>2. Cardinality(HoldingRequests(e) \ {r}) =
            IF r \in HoldingRequests(e) THEN Cardinality(HoldingRequests(e)) - 1
                                        ELSE Cardinality(HoldingRequests(e))
    BY HoldersFinite, FS_RemoveElement
  <2>3. Cardinality(HoldingManagers(e) \cup {m}) = Cardinality(HoldingManagers(e)) + 1
    BY <2>1, HoldersFinite, FS_AddElement
  <2> QED
    BY <1>f, <2>1, <2>2, <2>3, HoldersFinite DEF LeakBound
<1>19. ASSUME NEW m \in Managers, Prebuffer(m) PROVE LeakBound(e)'
  <2>1. /\ pending'[e] <= pending[e]
        /\ HoldingRequests(e) \subseteq HoldingRequests(e)'
        /\ HoldingManagers(e) \subseteq HoldingManagers(e)'
    BY <1>19, <1>f DEF TypeOK, Prebuffer, OnStreamPrebuffering
  <2> QED
    BY <2>1, FrameLeak
<1>20. ASSUME NEW m \in Managers, RequestSucceeds(m) PROVE LeakBound(e)'
  <2>1. meng[m] \in Engines \cup {Nil} /\ pending' = Decremented(pending, meng[m])
    BY <1>20 DEF TypeOK, RequestSucceeds, OnStreamStarted
  <2>2. /\ HoldingManagers(e) \ {m} \subseteq HoldingManagers(e)'
        /\ m \in HoldingManagers(e) => meng[m] = e
        /\ HoldingRequests(e) \subseteq HoldingRequests(e)'
    BY <1>20 DEF TypeOK, RequestSucceeds
  <2> HIDE DEF HoldingRequests, HoldingManagers
  <2> QED
    BY <2>1, <2>2, ReleaseByManager
<1>21. ASSUME NEW m \in Managers, RequestFails(m) PROVE LeakBound(e)'
  <2>1. meng[m] \in Engines \cup {Nil} /\ pending' = Decremented(pending, meng[m])
    BY <1>21 DEF TypeOK, RequestFails
  <2>2. /\ HoldingManagers(e) \ {m} \subseteq HoldingManagers(e)'
        /\ m \in HoldingManagers(e) => meng[m] = e
        /\ HoldingRequests(e) \subseteq HoldingRequests(e)'
    BY <1>21 DEF TypeOK, RequestFails
  <2> HIDE DEF HoldingRequests, HoldingManagers
  <2> QED
    BY <2>1, <2>2, ReleaseByManager
<1>22. ASSUME NEW m \in Managers, EndStream(m) PROVE LeakBound(e)'
  <2>1. /\ pending'[e] <= pending[e]
        /\ HoldingRequests(e) \subseteq HoldingRequests(e)'
        /\ HoldingManagers(e) \subseteq HoldingManagers(e)'
    BY <1>22, <1>f DEF TypeOK, EndStream, OnStreamEnded, NoRecord
  <2> QED
    BY <2>1, FrameLeak
<1>23. ASSUME NEW m \in Managers, Exit(m) PROVE LeakBound(e)'
  <2>1. /\ pending'[e] <= pending[e]
        /\ HoldingRequests(e) \subseteq HoldingRequests(e)'
        /\ HoldingManagers(e) \subseteq HoldingManagers(e)'
    BY <1>23, <1>f DEF TypeOK, Exit, RemoveEntries, Entries
  <2> QED
    BY <2>1, FrameLeak
<1>24. ASSUME NEW m \in Managers, Stall(m) PROVE LeakBound(e)'
  <2>1. /\ pending'[e] <= pending[e]
        /\ HoldingRequests(e) \subseteq HoldingRequests(e)'
        /\ HoldingManagers(e) \subseteq HoldingManagers(e)'
    BY <1>24, <1>f DEF TypeOK, Stall
  <2> QED
    BY <2>1, FrameLeak
<1>25. ASSUME NEW m \in Managers, Restarted(m) PROVE LeakBound(e)'
  <2>1. /\ pending'[e] <= pending[e]
        /\ HoldingRequests(e) \subseteq HoldingRequests(e)'
        /\ HoldingManagers(e) \subseteq HoldingManagers(e)'
    BY <1>25, <1>f DEF TypeOK, Restarted
  <2> QED
    BY <2>1, FrameLeak
<1>26. ASSUME NEW m \in Managers, NEW x \in Engines, HotSwap(m, x) PROVE LeakBound(e)'
  <2>1. /\ pending'[e] <= pending[e]
        /\ HoldingRequests(e) \subseteq HoldingRequests(e)'
        /\ HoldingManagers(e) \subseteq HoldingManagers(e)'
    BY <1>26, <1>f DEF TypeOK, HotSwap
  <2> QED
    BY <2>1, FrameLeak
<1>27. ASSUME CleanupSweep PROVE LeakBound(e)'
  <2>1. /\ pending'[e] <= pending[e]
        /\ HoldingRequests(e) \subseteq HoldingRequests(e)'
        /\ HoldingManagers(e) \subseteq HoldingManagers(e)'
    BY <1>27, <1>f DEF TypeOK, CleanupSweep, Entries
  <2> QED
    BY <2>1, FrameLeak
<1>28. ASSUME NEW c \in Contents, CleanupStop(c) PROVE LeakBound(e)'
  <2>1. /\ pending'[e] <= pending[e]
        /\ HoldingRequests(e) \subseteq HoldingRequests(e)'
        /\ HoldingManagers(e) \subseteq HoldingManagers(e)'
    BY <1>28, <1>f DEF TypeOK, CleanupStop, RemoveEntries, Entries
  <2> QED
    BY <2>1, FrameLeak
<1>29. ASSUME NEW c \in Contents, StopStream(c) PROVE LeakBound(e)'
  <2>1. /\ pending'[e] <= pending[e]
        /\ HoldingRequests(e) \subseteq HoldingRequests(e)'
        /\ HoldingManagers(e) \subseteq HoldingManagers(e)'
    BY <1>29, <1>f DEF TypeOK, StopStream, RemoveEntries, Entries
  <2> QED
    BY <2>1, FrameLeak
<1>30. ASSUME NEW c \in Contents, DeleteStream(c) PROVE LeakBound(e)'
  <2>1. /\ pending'[e] <= pending[e]
        /\ HoldingRequests(e) \subseteq HoldingRequests(e)'
        /\ HoldingManagers(e) \subseteq HoldingManagers(e)'
    BY <1>30, <1>f DEF TypeOK, DeleteStream, OnStreamEnded, NoRecord
  <2> QED
    BY <2>1, FrameLeak
<1>31. ASSUME NEW x \in Engines, AddEngine(x) PROVE LeakBound(e)'
  <2>1. /\ pending'[e] <= pending[e]
        /\ HoldingRequests(e) \subseteq HoldingRequests(e)'
        /\ HoldingManagers(e) \subseteq HoldingManagers(e)'
    BY <1>31, <1>f DEF TypeOK, AddEngine
  <2> QED
    BY <2>1, FrameLeak
<1>32. ASSUME NEW x \in Engines, Settle(x) PROVE LeakBound(e)'
  <2>1. /\ pending'[e] <= pending[e]
        /\ HoldingRequests(e) \subseteq HoldingRequests(e)'
        /\ HoldingManagers(e) \subseteq HoldingManagers(e)'
    BY <1>32, <1>f DEF TypeOK, Settle
  <2> QED
    BY <2>1, FrameLeak
<1>33. ASSUME NEW x \in Engines, MarkEngineDraining(x) PROVE LeakBound(e)'
  <2>1. /\ pending'[e] <= pending[e]
        /\ HoldingRequests(e) \subseteq HoldingRequests(e)'
        /\ HoldingManagers(e) \subseteq HoldingManagers(e)'
    BY <1>33, <1>f DEF TypeOK, MarkEngineDraining
  <2> QED
    BY <2>1, FrameLeak
<1>34. ASSUME NEW x \in Engines, EnqueueTerminate(x) PROVE LeakBound(e)'
  <2>1. /\ pending'[e] <= pending[e]
        /\ HoldingRequests(e) \subseteq HoldingRequests(e)'
        /\ HoldingManagers(e) \subseteq HoldingManagers(e)'
    BY <1>34, <1>f DEF TypeOK, EnqueueTerminate
  <2> QED
    BY <2>1, FrameLeak
<1>35. ASSUME NEW x \in Engines, StopContainer(x) PROVE LeakBound(e)'
  <2>1. /\ pending'[e] <= pending[e]
        /\ HoldingRequests(e) \subseteq HoldingRequests(e)'
        /\ HoldingManagers(e) \subseteq HoldingManagers(e)'
    BY <1>35, <1>f DEF TypeOK, StopContainer
  <2> QED
    BY <2>1, FrameLeak
<1>36. ASSUME NEW x \in Engines, RemoveEngine(x) PROVE LeakBound(e)'
  <2>1. /\ pending'[e] <= pending[e]
        /\ HoldingRequests(e) \subseteq HoldingRequests(e)'
        /\ HoldingManagers(e) \subseteq HoldingManagers(e)'
    BY <1>36, <1>f DEF TypeOK, RemoveEngine
  <2> QED
    BY <2>1, FrameLeak
<1>37. CASE UNCHANGED vars
    BY <1>37 DEF vars, LeakBound
<1>38. ASSUME NEW m \in Managers, Cancel(m) PROVE LeakBound(e)'
  <2>1. /\ pending'[e] <= pending[e]
        /\ HoldingRequests(e) \subseteq HoldingRequests(e)'
        /\ HoldingManagers(e) \subseteq HoldingManagers(e)'
    BY <1>38, <1>f DEF TypeOK, Cancel
  <2> QED
    BY <2>1, FrameLeak
<1> QED
    BY <1>1, <1>2, <1>3, <1>4, <1>5, <1>6, <1>7, <1>8, <1>9, <1>10, <1>11, <1>12, <1>13, <1>14, <1>15, <1>16, <1>17, <1>18, <1>19, <1>20, <1>21, <1>22, <1>23, <1>24, <1>25, <1>26, <1>27, <1>28, <1>29, <1>30, <1>31, <1>32, <1>33, <1>34, <1>35, <1>36, <1>37, <1>38 DEF Next, HandlerStep, ManagerStep

\* No reservation made by SelectAndClaimEngine leaks, whatever the interleaving of
\* handlers, managers, stops, failures and swaps: every one counted in enginePending
\* belongs to a handler or a manager that is still going to release it.
THEOREM ReservationsNeverLeak == Spec => []NoReservationLeak
<1>1. Init => NoReservationLeak
  <2> SUFFICES ASSUME Init, NEW e \in Engines
               PROVE  0 <= Cardinality(HoldingRequests(e)) + Cardinality(HoldingManagers(e))
    BY DEF NoReservationLeak, Init
  <2> QED
    BY HoldersFinite
<1> QED
    BY <1>1, NextLeak, InitType, NextType, PTL DEF Spec

-----------------------------------------------------------------------------
(* The hub.  Entries are found, stopped and removed by key, by five        *)
(* different parties; the two halves below need each other.                *)

\* The hub hands out live managers of the right key, and every live manager
\* that has not been cancelled and whose entry nobody has removed.
HubInv == OneLiveManager /\ HubEntriesLive

\* No step of the specification breaks it.
LEMMA NextHub == TypeOK /\ TypeOK' /\ HubInv /\ [Next]_vars => HubInv'
<1> SUFFICES ASSUME TypeOK, TypeOK', HubInv, [Next]_vars PROVE HubInv'
    OBVIOUS
<1> USE DEF HubInv, OneLiveManager, HubEntriesLive
<1>u. CASE UNCHANGED <<hub, doomed, cancelled, mpc, mkey>>
    BY <1>u
<1>c. ASSUME NEW C \in SUBSET Contents, RemoveEntries(C), UNCHANGED <<mpc, mkey>> PROVE HubInv'
    BY <1>c DEF RemoveEntries, Entries, TypeOK
<1>m. ASSUME NEW m \in Managers, UNCHANGED <<hub, doomed, cancelled, mkey>>,
             mpc[m] \notin {"unused", "done"},
             \E p \in ManagerPcs \ {"unused", "done"} : mpc' = [mpc EXCEPT ![m] = p]
      PROVE  HubInv'
    BY <1>m DEF TypeOK
<1>1. ASSUME NEW r \in Requests, NEW c \in Contents, NEW k \in Kinds, Arrive(r, c, k) PROVE HubInv'
    BY <1>1, <1>u DEF Arrive
<1>2. ASSUME NEW r \in Requests, Allocate(r) PROVE HubInv'
    BY <1>2, <1>u DEF Allocate
<1>3. ASSUME NEW r \in Requests, CancelShutdown(r) PROVE HubInv'
    BY <1>3, <1>u DEF CancelShutdown
<1>4. ASSUME NEW r \in Requests, SelectAndClaimEngine(r) PROVE HubInv'
    BY <1>4, <1>u DEF SelectAndClaimEngine
<1>5. ASSUME NEW r \in Requests, SelectFails(r) PROVE HubInv'
    BY <1>5, <1>u DEF SelectFails
<1>6. ASSUME NEW r \in Requests, GiveUp(r) PROVE HubInv'
    BY <1>6, <1>u DEF GiveUp
<1>7. ASSUME NEW r \in Requests, ReleaseFirst(r) PROVE HubInv'
    BY <1>7, <1>u DEF ReleaseFirst
<1>8. ASSUME NEW r \in Requests, ServeManifest(r) PROVE HubInv'
    BY <1>8, <1>u DEF ServeManifest
<1>9. ASSUME NEW r \in Requests, ManifestServed(r) PROVE HubInv'
    BY <1>9, <1>u DEF ManifestServed
<1>10. ASSUME NEW r \in Requests, StartStreamRefused(r) PROVE HubInv'
    BY <1>10, <1>u DEF StartStreamRefused
<1>11. ASSUME NEW r \in Requests, GetEntryNil(r) PROVE HubInv'
    BY <1>11, <1>u DEF GetEntryNil
<1>12. ASSUME NEW r \in Requests, EndRejected(r) PROVE HubInv'
    BY <1>12, <1>u DEF EndRejected
<1>13. ASSUME NEW r \in Requests, GetEntryFound(r) PROVE HubInv'
    BY <1>13, <1>u DEF GetEntryFound
<1>14. ASSUME NEW r \in Requests, JoinClient(r) PROVE HubInv'
    BY <1>14, <1>u DEF JoinClient
<1>15. ASSUME NEW r \in Requests, LeaveClient(r) PROVE HubInv'
    BY <1>15, <1>u DEF LeaveClient
<1>16. ASSUME NEW r \in Requests, CheckLast(r) PROVE HubInv'
    BY <1>16, <1>u DEF CheckLast
<1>17. ASSUME NEW r \in Requests, CloseStream(r) PROVE HubInv'
  <2>1. rkey[r] \in Contents
    BY <1>17 DEF CloseStream, TypeOK
  <2> QED
    BY <1>17, <1>c, <1>u, <2>1 DEF CloseStream
<1>18. ASSUME NEW r \in Requests, NEW m \in Managers, StartStream(r, m) PROVE HubInv'
  <2>1. PICK evict \in SUBSET shutdown :
           /\ hub' = [c \in Contents |-> IF c = rkey[r] THEN m
                                         ELSE IF c \in evict THEN Nil ELSE hub[c]]
           /\ cancelled' = cancelled \cup {hub[c] : c \in evict \cap Entries}
           /\ doomed' = doomed
    BY <1>18 DEF StartStream
  <2>2. /\ rkey[r] \in Contents /\ hub[rkey[r]] = Nil /\ mpc[m] = "unused"
        /\ mpc' = [mpc EXCEPT ![m] = "new"] /\ mkey' = [mkey EXCEPT ![m] = rkey[r]]
        /\ evict \subseteq Contents
    BY <1>18, <2>1 DEF StartStream, TypeOK
  <2>3. OneLiveManager'
    BY <2>1, <2>2 DEF TypeOK, Entries
  <2>4. HubEntriesLive'
    BY <2>1, <2>2 DEF TypeOK
  <2> QED
    BY <2>3, <2>4
<1>19. ASSUME NEW m \in Managers, Prebuffer(m) PROVE HubInv'
    BY <1>19, <1>m DEF Prebuffer, ManagerPcs
<1>20. ASSUME NEW m \in Managers, RequestSucceeds(m) PROVE HubInv'
    BY <1>20, <1>m DEF RequestSucceeds, ManagerPcs
<1>21. ASSUME NEW m \in Managers, RequestFails(m) PROVE HubInv'
    BY <1>21, <1>m DEF RequestFails, ManagerPcs
<1>22. ASSUME NEW m \in Managers, EndStream(m) PROVE HubInv'
    BY <1>22, <1>m DEF EndStream, ManagerPcs
<1>23. ASSUME NEW m \in Managers, Exit(m) PROVE HubInv'
  <2>1. mkey[m] \in Contents
    BY <1>23 DEF Exit, TypeOK
  <2>2. /\ hub' = [c \in Contents |-> IF c = mkey[m] THEN Nil ELSE hub[c]]
        /\ mpc' = [mpc EXCEPT ![m] = "done"] /\ mkey' = mkey
        /\ cancelled' = cancelled /\ doomed \subseteq doomed'
        /\ hub[mkey[m]] # Nil => hub[mkey[m]] \in doomed'
    BY <1>23, <2>1 DEF Exit, RemoveEntries, Entries
  <2>3. OneLiveManager'
    BY <2>1, <2>2 DEF TypeOK
  <2>4. HubEntriesLive'
    BY <2>1, <2>2 DEF TypeOK
  <2> QED
    BY <2>3, <2>4
<1>24. ASSUME NEW m \in Managers, Stall(m) PROVE HubInv'
    BY <1>24, <1>m DEF Stall, ManagerPcs
<1>25. ASSUME NEW m \in Managers, Restarted(m) PROVE HubInv'
    BY <1>25, <1>m DEF Restarted, ManagerPcs
<1>26. ASSUME NEW m \in Managers, NEW e \in Engines, HotSwap(m, e) PROVE HubInv'
    BY <1>26, <1>m DEF HotSwap, ManagerPcs
<1>27. ASSUME CleanupSweep PROVE HubInv'
    BY <1>27, <1>u DEF CleanupSweep
<1>28. ASSUME NEW c \in Contents, CleanupStop(c) PROVE HubInv'
    BY <1>28, <1>c DEF CleanupStop
<1>29. ASSUME NEW c \in Contents, StopStream(c) PROVE HubInv'
    BY <1>29, <1>c DEF StopStream
<1>30. ASSUME NEW c \in Contents, DeleteStream(c) PROVE HubInv'
    BY <1>30, <1>u DEF DeleteStream
<1>31. ASSUME NEW e \in Engines, AddEngine(e) PROVE HubInv'
    BY <1>31, <1>u DEF AddEngine
<1>32. ASSUME NEW e \in Engines, Settle(e) PROVE HubInv'
    BY <1>32, <1>u DEF Settle
<1>33. ASSUME NEW e \in Engines, MarkEngineDraining(e) PROVE HubInv'
    BY <1>33, <1>u DEF MarkEngineDraining
<1>34. ASSUME NEW e \in Engines, EnqueueTerminate(e) PROVE HubInv'
    BY <1>34, <1>u DEF EnqueueTerminate
<1>35. ASSUME NEW e \in Engines, StopContainer(e) PROVE HubInv'
    BY <1>35, <1>u DEF StopContainer
<1>36. ASSUME NEW e \in Engines, RemoveEngine(e) PROVE HubInv'
    BY <1>36, <1>u DEF RemoveEngine
<1>37. CASE UNCHANGED vars
    BY <1>37, <1>u DEF vars
<1>38. ASSUME NEW m \in Managers, Cancel(m) PROVE HubInv'
    BY <1>38 DEF Cancel
<1> QED
    BY <1>1, <1>2, <1>3, <1>4, <1>5, <1>6, <1>7, <1>8, <1>9, <1>10, <1>11, <1>12, <1>13, <1>14, <1>15, <1>16, <1>17, <1>18, <1>19, <1>20, <1>21, <1>22, <1>23, <1>24, <1>25, <1>26, <1>27, <1>28, <1>29, <1>30, <1>31, <1>32, <1>33, <1>34, <1>35, <1>36, <1>37, <1>38 DEF Next, HandlerStep, ManagerStep

\* Whoever starts, stops, evicts or outlives a stream, and in whatever order: of the
\* live managers of a key all but the one GetEntry returns are cancelled, or had their
\* entry removed by someone whose next step is to cancel them (a StartStream between
\* the two included); and GetEntry returns no finished manager and none of another key.
THEOREM HubConsistent == Spec => [](OneLiveManager /\ HubEntriesLive)
<1>1. Init => HubInv
    BY DEF Init, HubInv, OneLiveManager, HubEntriesLive
<1> QED
    BY <1>1, NextHub, InitType, NextType, PTL DEF Spec, HubInv

\* In particular, of the entries alone: GetEntry never returns the manager of another key
\* or one that has finished (hub.go, GetEntry and removeStream).
THEOREM EntriesAreLive == Spec => []HubEntriesLive
BY HubConsistent, PTL

-----------------------------------------------------------------------------
(* MaxTotalStreams.  Eviction makes room only because every key whose      *)
(* shutdown is scheduled has an entry: otherwise evicting it would free    *)
(* nothing.                                                                *)

LimitInv == IsFiniteSet(Entries) /\ shutdown \subseteq Entries /\ WithinGlobalLimit

\* Entries that go or stay leave the hub within its limit.
LEMMA FewerEntries ==
    ASSUME LimitInv, Entries' \subseteq Entries, shutdown' \subseteq Entries'
    PROVE  LimitInv'
<1>1. IsFiniteSet(Entries') /\ Cardinality(Entries') <= Cardinality(Entries)
    BY FS_Subset DEF LimitInv
<1>2. Cardinality(Entries) \in Nat /\ Cardinality(Entries') \in Nat
    BY <1>1, FS_CardinalityType DEF LimitInv
<1> QED
    BY <1>1, <1>2 DEF LimitInv, WithinGlobalLimit

\* StartStream adds one entry, and at the limit evicts one first.
LEMMA StartStreamLimit ==
    ASSUME TypeOK, LimitInv, NEW r \in Requests, NEW m \in Managers, StartStream(r, m)
    PROVE  LimitInv'
<1>1. PICK evict \in SUBSET shutdown :
         /\ IF AtGlobalLimits THEN Cardinality(evict) = 1 ELSE evict = {}
         /\ hub' = [c \in Contents |-> IF c = rkey[r] THEN m ELSE IF c \in evict THEN Nil ELSE hub[c]]
         /\ shutdown' = shutdown \ evict
    BY DEF StartStream
<1> DEFINE left == Entries \ evict
<1>2. /\ rkey[r] \in Contents /\ rkey[r] \notin Entries /\ Entries' = left \cup {rkey[r]}
      /\ shutdown' \subseteq Entries' /\ evict \subseteq Entries
    BY <1>1 DEF StartStream, Entries, LimitInv, TypeOK
<1>3. IsFiniteSet(Entries) /\ IsFiniteSet(evict) /\ IsFiniteSet(left)
    BY <1>2, FS_Subset DEF LimitInv
<1>4. Cardinality(Entries) \in Nat /\ Cardinality(evict) \in Nat /\ Cardinality(left) \in Nat
    BY <1>3, FS_CardinalityType
<1>5. Cardinality(left) = Cardinality(Entries) - Cardinality(Entries \cap evict) /\ Entries \cap evict = evict
    BY <1>2, <1>3, FS_Difference
<1>6. rkey[r] \notin left
    BY <1>2
<1> HIDE DEF left
<1>7. IsFiniteSet(Entries') /\ Cardinality(Entries') = Cardinality(left) + 1
    BY <1>2, <1>3, <1>6, FS_AddElement
<1>8. Cardinality(Entries') = Cardinality(Entries) - Cardinality(evict) + 1
  <2>1. Cardinality(left) = Cardinality(Entries) - Cardinality(evict)
    BY <1>5
  <2> QED
    BY <1>4, <1>7, <2>1
<1>9. WithinGlobalLimit'
  <2> SUFFICES ASSUME MaxTotalStreams > 0 PROVE Cardinality(Entries') <= MaxTotalStreams
    BY DEF WithinGlobalLimit
  <2>1. CASE AtGlobalLimits
    <3>1. Cardinality(evict) = 1 /\ Cardinality(Entries) <= MaxTotalStreams
      BY <1>1, <2>1 DEF LimitInv, WithinGlobalLimit
    <3> QED
      BY <1>4, <1>8, <3>1
  <2>2. CASE ~ AtGlobalLimits
    <3>1. evict = {}
      BY <1>1, <2>2
    <3>2. Cardinality(evict) = 0
      BY <3>1, FS_EmptySet
    <3>3. Cardinality(Entries) < MaxTotalStreams
      BY <1>4, <2>2 DEF AtGlobalLimits
    <3> QED
      BY <1>4, <1>8, <3>2, <3>3
  <2> QED
    BY <2>1, <2>2
<1> QED
    BY <1>2, <1>7, <1>9 DEF LimitInv

LEMMA NextLimit == TypeOK /\ LimitInv /\ [Next]_vars => LimitInv'
<1> SUFFICES ASSUME TypeOK, LimitInv, [Next]_vars PROVE LimitInv'
    OBVIOUS
<1>0. shutdown \subseteq Entries
    BY DEF LimitInv
<1>u. CASE UNCHANGED <<hub, shutdown>>
  <2>1. Entries' = Entries
    BY <1>u DEF Entries
  <2> QED
    BY <1>0, <1>u, <2>1, FewerEntries
<1>s. ASSUME UNCHANGED hub, shutdown' \subseteq Entries PROVE LimitInv'
  <2>1. Entries' = Entries
    BY <1>s DEF Entries
  <2> QED
    BY <1>s, <2>1, FewerEntries
<1>c. ASSUME NEW C \in SUBSET Contents, RemoveEntries(C) PROVE LimitInv'
  <2>1. Entries' = Entries \ C /\ shutdown' = shutdown \ C
    BY <1>c DEF RemoveEntries, Entries
  <2> QED
    BY <1>0, <2>1, FewerEntries
<1>1. ASSUME NEW r \in Requests,
             \/ \E c \in Contents, k \in Kinds : Arrive(r, c, k)
             \/ Allocate(r) \/ SelectAndClaimEngine(r) \/ SelectFails(r) \/ ReleaseFirst(r)
             \/ ServeManifest(r) \/ ManifestServed(r) \/ GetEntryNil(r) \/ EndRejected(r)
             \/ GetEntryFound(r) \/ CheckLast(r) \/ GiveUp(r) \/ JoinClient(r) \/ LeaveClient(r)
      PROVE  LimitInv'
    BY <1>1, <1>u DEF Arrive, Allocate, SelectAndClaimEngine, SelectFails, ReleaseFirst, ServeManifest,
                      ManifestServed, GetEntryNil, EndRejected, GetEntryFound, CheckLast, GiveUp, JoinClient,
                      LeaveClient
<1>2. ASSUME NEW r \in Requests, CancelShutdown(r) \/ StartStreamRefused(r) PROVE LimitInv'
    BY <1>0, <1>2, <1>s DEF CancelShutdown, StartStreamRefused
<1>3. ASSUME NEW r \in Requests, CloseStream(r) PROVE LimitInv'
  <2>1. {rkey[r]} \in SUBSET Contents
    BY <1>3 DEF CloseStream, TypeOK
  <2> QED
    BY <1>0, <1>3, <1>c, <1>s, <2>1 DEF CloseStream
<1>4. ASSUME NEW m \in Managers,
             \/ Prebuffer(m) \/ RequestSucceeds(m) \/ RequestFails(m) \/ EndStream(m) \/ Stall(m)
             \/ Restarted(m) \/ Cancel(m) \/ \E e \in Engines : HotSwap(m, e)
      PROVE  LimitInv'
    BY <1>4, <1>u DEF Cancel, Prebuffer, RequestSucceeds, RequestFails, EndStream, Stall, Restarted, HotSwap
<1>5. ASSUME NEW m \in Managers, Exit(m) PROVE LimitInv'
  <2>1. {mkey[m]} \in SUBSET Contents
    BY <1>5 DEF Exit, TypeOK
  <2> QED
    BY <1>5, <1>c, <2>1 DEF Exit
<1>6. ASSUME CleanupSweep PROVE LimitInv'
    BY <1>0, <1>6, <1>s DEF CleanupSweep
<1>7. ASSUME NEW c \in Contents, CleanupStop(c) \/ StopStream(c) \/ DeleteStream(c) PROVE LimitInv'
  <2>1. {c} \in SUBSET Contents
    OBVIOUS
  <2> QED
    BY <1>7, <1>c, <1>u, <2>1 DEF CleanupStop, StopStream, DeleteStream
<1>8. ASSUME NEW e \in Engines,
             \/ AddEngine(e) \/ Settle(e) \/ MarkEngineDraining(e) \/ EnqueueTerminate(e)
             \/ StopContainer(e) \/ RemoveEngine(e)
      PROVE  LimitInv'
    BY <1>8, <1>u DEF AddEngine, Settle, MarkEngineDraining, EnqueueTerminate, StopContainer, RemoveEngine
<1>9. CASE UNCHANGED vars
    BY <1>9, <1>u DEF vars
<1> QED
    BY <1>1, <1>2, <1>3, <1>4, <1>5, <1>6, <1>7, <1>8, <1>9, StartStreamLimit DEF Next, HandlerStep, ManagerStep

\* However many requests start streams at once, the hub never has more entries than
\* MaxTotalStreams: StartStream evicts before it adds, and what it evicts was there.
THEOREM HubWithinLimit == Spec => []WithinGlobalLimit
<1>1. Init => LimitInv
  <2> SUFFICES ASSUME Init PROVE LimitInv
    OBVIOUS
  <2>1. Entries = {} /\ shutdown = {}
    BY DEF Init, Entries
  <2>2. IsFiniteSet({}) /\ Cardinality({}) = 0
    BY FS_EmptySet
  <2> QED
    BY <2>1, <2>2 DEF LimitInv, WithinGlobalLimit
<1>2. LimitInv => WithinGlobalLimit
    BY DEF LimitInv
<1> QED
    BY <1>1, <1>2, NextLimit, InitType, NextType, PTL DEF Spec
=============================================================================
