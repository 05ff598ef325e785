--------------------------- MODULE VpnNodesProofs ---------------------------
(***************************************************************************)
(* Proofs about VpnNodes, for every set of names, credentials and ports:   *)
(* the credential manager keeps its pool partitioned under every fault,    *)
(* and, as long as no leased credential is deleted and no failed start     *)
(* leaves its container behind, credentials and ports are exclusive.       *)
(***************************************************************************)
EXTENDS VpnNodes, FiniteSetTheorems, SequenceTheorems, TLAPS

USE VpnAssumption DEF managerVars, nodeVars, destroyVars

-----------------------------------------------------------------------------
(* The available list.                                                     *)

\* What the order of a map's keys amounts to: a list of S, each element once.
LEMMA OrderingsProperties ==
    ASSUME NEW S \in SUBSET Creds, NEW s \in Orderings(S)
    PROVE  /\ s \in Seq(Creds)
           /\ \A i, j \in 1 .. Len(s) : s[i] = s[j] => i = j
           /\ \A c \in Creds : c \in S <=> \E i \in 1 .. Len(s) : s[i] = c
<1>1. Cardinality(S) \in Nat
    BY FS_Subset, FS_CardinalityType
<1>2. s \in [1 .. Cardinality(S) -> S]
    BY DEF Orderings
<1>3. s \in Seq(S) /\ Len(s) = Cardinality(S)
    BY <1>1, <1>2
<1> QED
    BY <1>2, <1>3 DEF Orderings

\* A list that grows at its end by a credential it does not have.
LEMMA AppendNew ==
    ASSUME NEW s \in Seq(Creds), NEW c \in Creds,
           \A i \in 1 .. Len(s) : s[i] # c,
           \A i, j \in 1 .. Len(s) : s[i] = s[j] => i = j
    PROVE  LET t == Append(s, c) IN
           /\ t \in Seq(Creds)
           /\ \A i, j \in 1 .. Len(t) : t[i] = t[j] => i = j
           /\ \A d \in Creds : (\E i \in 1 .. Len(t) : t[i] = d)
                               <=> d = c \/ \E i \in 1 .. Len(s) : s[i] = d
<1> DEFINE t == Append(s, c)
<1>1. /\ t \in Seq(Creds) /\ Len(t) = Len(s) + 1 /\ Len(s) \in Nat
      /\ \A i \in 1 .. Len(s) : t[i] = s[i]
      /\ t[Len(s) + 1] = c
    BY AppendProperties, LenProperties
<1> HIDE DEF t
<1> QED
    BY <1>1 DEF t

\* A list that loses its head.
LEMMA TailProperties ==
    ASSUME NEW s \in Seq(Creds), s # <<>>,
           \A i, j \in 1 .. Len(s) : s[i] = s[j] => i = j
    PROVE  LET t == Tail(s) IN
           /\ t \in Seq(Creds) /\ Head(s) \in Creds
           /\ \A i, j \in 1 .. Len(t) : t[i] = t[j] => i = j
           /\ \A d \in Creds : (\E i \in 1 .. Len(s) : s[i] = d)
                               <=> d = Head(s) \/ \E i \in 1 .. Len(t) : t[i] = d
           /\ \A i \in 1 .. Len(t) : t[i] # Head(s)
<1> DEFINE t == Tail(s)
<1>1. /\ t \in Seq(Creds) /\ Len(t) = Len(s) - 1 /\ Len(s) \in Nat \ {0} /\ Len(t) \in Nat
      /\ \A i \in 1 .. Len(t) : t[i] = s[i + 1]
      /\ Head(s) = s[1] /\ Head(s) \in Creds
    BY HeadTailProperties, EmptySeq, LenProperties
<1>2. \A i \in 2 .. Len(s) : i - 1 \in 1 .. Len(t) /\ t[i - 1] = s[i]
    BY <1>1
<1>3. 1 \in 1 .. Len(s)
    BY <1>1
<1>4. \A i \in 1 .. Len(t) : t[i] # Head(s)
    BY <1>1, <1>3
<1>5. \A d \in Creds : (\E i \in 1 .. Len(s) : s[i] = d)
                       <=> d = Head(s) \/ \E i \in 1 .. Len(t) : t[i] = d
  <2> SUFFICES ASSUME NEW d \in Creds
               PROVE  (\E i \in 1 .. Len(s) : s[i] = d)
                      <=> d = Head(s) \/ \E i \in 1 .. Len(t) : t[i] = d
      OBVIOUS
  <2>1. ASSUME NEW i \in 1 .. Len(s), s[i] = d
        PROVE  d = Head(s) \/ \E k \in 1 .. Len(t) : t[k] = d
      BY <2>1, <1>1, <1>2
  <2>2. ASSUME NEW i \in 1 .. Len(t), t[i] = d PROVE \E k \in 1 .. Len(s) : s[k] = d
      BY <2>2, <1>1
  <2> QED
      BY <2>1, <2>2, <1>1, <1>3
<1>6. \A i, j \in 1 .. Len(t) : t[i] = t[j] => i = j
  <2> SUFFICES ASSUME NEW i \in 1 .. Len(t), NEW j \in 1 .. Len(t), t[i] = t[j] PROVE i = j
      OBVIOUS
  <2>1. i + 1 \in 1 .. Len(s) /\ j + 1 \in 1 .. Len(s) /\ s[i + 1] = s[j + 1]
      BY <1>1
  <2> QED
      BY <2>1
<1> QED
    BY <1>1, <1>4, <1>5, <1>6

-----------------------------------------------------------------------------
(* The methods of the credential manager keep the pool partitioned.        *)

\* The types that the methods need and keep.
ManagerType ==
    /\ byID \in SUBSET Creds
    /\ available \in Seq(Creds)
    /\ leases \in [Names -> Creds \cup {None}]

\* A released credential goes back to the list exactly once.
LEMMA ReleaseKeepsPool ==
    ASSUME ManagerType, LeaseIntegrity, NEW n \in Names, ReleaseLease(n), UNCHANGED byID
    PROVE  ManagerType' /\ LeaseIntegrity'
<1> USE DEF ManagerType
<1>1. leases' \in [Names -> Creds \cup {None}] /\ leases'[n] = None
      /\ \A o \in Names : o # n => leases'[o] = leases[o]
    BY DEF ReleaseLease
<1>2. CASE leases[n] = None
  <2>1. available' = available /\ leases' = leases
      BY <1>2 DEF ReleaseLease
  <2> QED
      BY <2>1 DEF LeaseIntegrity
<1>3. CASE leases[n] # None
  <2>1. leases[n] \in Creds /\ leases[n] \in byID
      BY <1>3 DEF LeaseIntegrity
  <2>2. available' = Append(available, leases[n])
      BY <2>1 DEF ReleaseLease
  <2>3. \A i \in 1 .. Len(available) : available[i] # leases[n]
      BY DEF LeaseIntegrity
  <2>4. /\ available' \in Seq(Creds)
        /\ \A i, j \in 1 .. Len(available') : available'[i] = available'[j] => i = j
        /\ \A d \in Creds : (\E i \in 1 .. Len(available') : available'[i] = d)
                            <=> d = leases[n] \/ \E i \in 1 .. Len(available) : available[i] = d
      BY <2>1, <2>2, <2>3, AppendNew DEF LeaseIntegrity
  <2>5. \A o, m \in Names : leases'[o] = leases'[m] /\ leases'[o] # None => o = m
      BY <1>1 DEF LeaseIntegrity
  <2>6. \A o \in Names : leases'[o] # leases[n]
      BY <1>1, <1>3 DEF LeaseIntegrity
  <2>7. \A o \in Names, i \in 1 .. Len(available') : leases'[o] # available'[i]
    <3> SUFFICES ASSUME NEW o \in Names, NEW i \in 1 .. Len(available'), leases'[o] = available'[i]
                 PROVE  FALSE
        OBVIOUS
    <3>1. available'[i] \in Creds
        BY <2>4, ElementOfSeq
    <3>2. \E k \in 1 .. Len(available) : available[k] = leases'[o]
        BY <2>4, <2>6, <3>1
    <3> QED
        BY <1>1, <3>1, <3>2 DEF LeaseIntegrity
  <2>8. \A c \in Creds : c \in byID' <=> \/ \E o \in Names : leases'[o] = c
                                         \/ \E i \in 1 .. Len(available') : available'[i] = c
      BY <1>1, <2>1, <2>4 DEF LeaseIntegrity
  <2> QED
      BY <1>1, <2>4, <2>5, <2>7, <2>8 DEF LeaseIntegrity
<1> QED
    BY <1>2, <1>3

\* A lease takes the head of the list, for a container that has none.
LEMMA AcquireKeepsPool ==
    ASSUME ManagerType, LeaseIntegrity, NEW n \in Names, AcquireLease(n), leases[n] = None
    PROVE  ManagerType' /\ LeaseIntegrity'
<1> USE DEF ManagerType
<1> DEFINE c == Head(available)
<1>1. available # <<>> /\ available' = Tail(available) /\ leases' = [leases EXCEPT ![n] = c] /\ byID' = byID
    BY DEF AcquireLease
<1>2. /\ available' \in Seq(Creds) /\ c \in Creds
      /\ \A i, j \in 1 .. Len(available') : available'[i] = available'[j] => i = j
      /\ \A d \in Creds : (\E i \in 1 .. Len(available) : available[i] = d)
                          <=> d = c \/ \E i \in 1 .. Len(available') : available'[i] = d
      /\ \A i \in 1 .. Len(available') : available'[i] # c
  <2>1. \A i, j \in 1 .. Len(available) : available[i] = available[j] => i = j
      BY DEF LeaseIntegrity
  <2>2. available \in Seq(Creds) /\ available # <<>>
      BY <1>1
  <2> QED
      BY ONLY <1>1, <2>1, <2>2, TailProperties
<1> HIDE DEF c
<1>3. leases' \in [Names -> Creds \cup {None}] /\ leases'[n] = c
      /\ \A o \in Names : o # n => leases'[o] = leases[o]
    BY <1>1, <1>2
<1>4. \A o \in Names : leases[o] # c
    BY <1>2 DEF LeaseIntegrity
<1>5. \A o, m \in Names : leases'[o] = leases'[m] /\ leases'[o] # None => o = m
    BY <1>3, <1>4 DEF LeaseIntegrity
<1>6. \A o \in Names, i \in 1 .. Len(available') : leases'[o] # available'[i]
  <2> SUFFICES ASSUME NEW o \in Names, o # n, NEW i \in 1 .. Len(available')
               PROVE  leases[o] # available'[i]
      BY <1>2, <1>3
  <2>1. available'[i] \in Creds
      BY <1>2, ElementOfSeq
  <2> QED
      BY <2>1, <1>2 DEF LeaseIntegrity
<1>7. \A d \in Creds : d \in byID' <=> \/ \E o \in Names : leases'[o] = d
                                       \/ \E i \in 1 .. Len(available') : available'[i] = d
    BY <1>1, <1>2, <1>3 DEF LeaseIntegrity
<1> QED
    BY <1>1, <1>2, <1>3, <1>5, <1>6, <1>7 DEF LeaseIntegrity

\* A new pool keeps the leases it can and offers the rest.
LEMMA ConfigureKeepsPool ==
    ASSUME ManagerType, LeaseIntegrity, NEW S \in SUBSET Creds, Configure(S)
    PROVE  ManagerType' /\ LeaseIntegrity'
<1> USE DEF ManagerType
<1>1. /\ available' \in Seq(Creds)
      /\ \A i, j \in 1 .. Len(available') : available'[i] = available'[j] => i = j
      /\ \A c \in Creds : c \in S \ Leased <=> \E i \in 1 .. Len(available') : available'[i] = c
    BY OrderingsProperties DEF Configure
<1>2. byID' = S /\ leases' = [n \in Names |-> IF leases[n] \in S THEN leases[n] ELSE None]
    BY DEF Configure
<1>3. \A n \in Names, i \in 1 .. Len(available') : leases'[n] # available'[i]
  <2> SUFFICES ASSUME NEW n \in Names, NEW i \in 1 .. Len(available'), leases'[n] = available'[i]
               PROVE  FALSE
      OBVIOUS
  <2>1. available'[i] \in Creds
      BY <1>1, ElementOfSeq
  <2> QED
      BY <1>1, <1>2, <2>1 DEF Leased
<1>4. \A c \in Creds : c \in S <=> \/ \E n \in Names : leases'[n] = c
                                   \/ \E i \in 1 .. Len(available') : available'[i] = c
    BY <1>1, <1>2 DEF Leased
<1> QED
    BY <1>1, <1>2, <1>3, <1>4 DEF LeaseIntegrity

\* Leases restored from labels: one container for each credential of the pool.
LEMMA RestoreKeepsPool ==
    ASSUME ManagerType, cred \in [Names -> Creds \cup {None}], UNCHANGED byID,
           NEW nodes \in SUBSET Names, RestoreLeases(nodes)
    PROVE  ManagerType' /\ LeaseIntegrity'
<1> USE DEF ManagerType
<1>1. PICK owner \in [Creds -> Names \cup {None}] :
          /\ \A c \in Creds :
                LET holders == {n \in nodes : cred[n] = c} IN
                IF c \in byID /\ holders # {} THEN owner[c] \in holders ELSE owner[c] = None
          /\ leases' = [n \in Names |-> IF cred[n] # None /\ owner[cred[n]] = n THEN cred[n] ELSE None]
          /\ \E s \in Orderings({c \in byID : owner[c] = None}) : available' = s
    BY DEF RestoreLeases
<1>2. /\ available' \in Seq(Creds)
      /\ \A i, j \in 1 .. Len(available') : available'[i] = available'[j] => i = j
      /\ \A c \in Creds : c \in {d \in byID : owner[d] = None}
                          <=> \E i \in 1 .. Len(available') : available'[i] = c
  <2>1. {c \in byID : owner[c] = None} \in SUBSET Creds
      OBVIOUS
  <2> QED
      BY <1>1, <2>1, OrderingsProperties
<1>3. \A n \in Names : leases'[n] # None =>
          leases'[n] \in Creds /\ owner[leases'[n]] = n /\ leases'[n] \in byID
    BY <1>1
<1>4. \A c \in byID : owner[c] # None => owner[c] \in Names /\ leases'[owner[c]] = c
    BY <1>1
<1>5. leases' \in [Names -> Creds \cup {None}]
    BY <1>1
<1>6. \A n \in Names, i \in 1 .. Len(available') : leases'[n] # available'[i]
  <2> SUFFICES ASSUME NEW n \in Names, NEW i \in 1 .. Len(available'), leases'[n] = available'[i]
               PROVE  FALSE
      OBVIOUS
  <2>1. available'[i] \in Creds
      BY <1>2, ElementOfSeq
  <2> QED
      BY <1>2, <1>3, <2>1
<1>7. \A c \in Creds : c \in byID <=> \/ \E n \in Names : leases'[n] = c
                                      \/ \E i \in 1 .. Len(available') : available'[i] = c
    BY <1>2, <1>3, <1>4
<1> QED
    BY <1>2, <1>3, <1>5, <1>6, <1>7 DEF LeaseIntegrity

-----------------------------------------------------------------------------
(* Type correctness and the partition of the pool, under every fault.      *)

\* A name that no attempt has used has neither lease nor label, port nor container:
\* AcquireLease overwrites no lease and Restart restores none to it.
UnusedIsFresh ==
    \A n \in Names : pc[n] = "unused" =>
        leases[n] = None /\ cred[n] = None /\ port[n] = None /\ docker[n] = "absent"

\* The inductive invariant for the pool.
PoolInv == TypeOK /\ LeaseIntegrity /\ UnusedIsFresh

\* The pool of a new process is offered in some order.
LEMMA PoolInitially == Init => PoolInv
<1> SUFFICES ASSUME Init PROVE PoolInv
    OBVIOUS
<1>1. /\ available \in Seq(Creds)
      /\ \A i, j \in 1 .. Len(available) : available[i] = available[j] => i = j
      /\ \A c \in Creds : c \in byID <=> \E i \in 1 .. Len(available) : available[i] = c
    BY OrderingsProperties DEF Init
<1>2. \A i \in 1 .. Len(available) : available[i] \in Creds
    BY <1>1, ElementOfSeq
<1>3. LeaseIntegrity
    BY <1>1, <1>2 DEF Init, LeaseIntegrity
<1>4. TypeOK /\ UnusedIsFresh
    BY <1>1 DEF Init, TypeOK, UnusedIsFresh, Pcs
<1> QED
    BY <1>3, <1>4 DEF PoolInv

\* The variables of a node keep their types and an unused name stays fresh.
NodeInv ==
    /\ byCont \in [Names -> Ports \cup {None}]
    /\ pc \in [Names -> Pcs]
    /\ cred \in [Names -> Creds \cup {None}]
    /\ port \in [Names -> Ports \cup {None}]
    /\ docker \in [Names -> {"absent", "created", "running", "exited"}]
    /\ node \in [Names -> {"none", "active", "draining"}]
    /\ destroying \in Names \cup {None} /\ removed \in BOOLEAN /\ cleaning \subseteq Names
    /\ UnusedIsFresh

\* A step that leaves the manager's lists alone leaves the pool partitioned.
LEMMA PoolUnchanged ==
    ASSUME ManagerType, LeaseIntegrity, UNCHANGED <<byID, available, leases>>
    PROVE  ManagerType' /\ LeaseIntegrity'
BY DEF ManagerType, LeaseIntegrity

\* Every step of provisioner, lifecycle manager, Docker and operator keeps it.
LEMMA PoolPreserved == PoolInv /\ [Next]_vars => PoolInv'
<1> SUFFICES ASSUME PoolInv, [Next]_vars PROVE PoolInv'
    OBVIOUS
<1>0. ManagerType /\ LeaseIntegrity /\ NodeInv
    BY DEF PoolInv, TypeOK, ManagerType, NodeInv
<1>q. ManagerType' /\ LeaseIntegrity' /\ NodeInv' => PoolInv'
    BY DEF PoolInv, TypeOK, ManagerType, NodeInv
<1> USE DEF NodeInv, UnusedIsFresh, Pcs
<1>1. ASSUME NEW n \in Names, AcquireLease(n) PROVE PoolInv'
  <2>1. ManagerType' /\ LeaseIntegrity'
      BY <1>0, <1>1, AcquireKeepsPool DEF AcquireLease
  <2>2. Head(available) \in Creds
      BY <1>0, <1>1, HeadTailProperties DEF AcquireLease, ManagerType
  <2>3. NodeInv'
      BY <1>0, <1>1, <2>2 DEF AcquireLease, ManagerType
  <2> QED
      BY <1>q, <2>1, <2>3
<1>2. ASSUME NEW n \in Names, BuildFails(n) \/ ReleaseFailed(n) \/ DestroyRelease(n) PROVE PoolInv'
  <2>1. ReleaseLease(n) /\ UNCHANGED byID
      BY <1>2 DEF BuildFails, ReleaseFailed, DestroyRelease
  <2>2. ManagerType' /\ LeaseIntegrity'
      BY <1>0, <2>1, ReleaseKeepsPool
  <2>3. \A o \in Names : leases[o] = None => leases'[o] = None
      BY <1>0, <2>1 DEF ReleaseLease, ManagerType
  <2>4. CASE BuildFails(n)
      BY <1>0, <1>q, <2>2, <2>3, <2>4 DEF BuildFails
  <2>5. CASE ReleaseFailed(n)
      BY <1>0, <1>q, <2>2, <2>3, <2>5 DEF ReleaseFailed
  <2>6. CASE DestroyRelease(n)
      BY <1>0, <1>q, <2>2, <2>3, <2>6 DEF DestroyRelease
  <2> QED
      BY <1>2, <2>4, <2>5, <2>6
<1>3. ASSUME NEW n \in Names, AcquirePort(n) PROVE PoolInv'
  <2>1. FreePorts \subseteq Ports
      BY <1>0 DEF FreePorts, PortUniverse, ManagerType
  <2>2. NodeInv'
      BY <1>0, <1>3, <2>1 DEF AcquirePort
  <2> QED
      BY <1>0, <1>q, <1>3, <2>2, PoolUnchanged DEF AcquirePort
<1>4. ASSUME NEW n \in Names, ContainerCreate(n) \/ ContainerStart(n) \/ Register(n) PROVE PoolInv'
  <2>1. NodeInv'
      BY <1>0, <1>4 DEF ContainerCreate, ContainerStart, Register, Upsert
  <2> QED
      BY <1>0, <1>q, <1>4, <2>1, PoolUnchanged DEF ContainerCreate, ContainerStart, Register
<1>5. ASSUME NEW n \in Names, StartFails(n) PROVE PoolInv'
  <2>1. NodeInv'
      BY <1>0, <1>5 DEF StartFails
  <2> QED
      BY <1>0, <1>q, <1>5, <2>1, PoolUnchanged DEF StartFails
<1>6. ASSUME NEW n \in Names, Discover(n) \/ Drain(n) PROVE PoolInv'
  <2>1. NodeInv'
      BY <1>0, <1>6 DEF Discover, Drain, Upsert
  <2> QED
      BY <1>0, <1>q, <1>6, <2>1, PoolUnchanged DEF Discover, Drain
<1>7. ASSUME NEW n \in Names, DestroyBegin(n) \/ DestroyRemove(n) \/ DestroyFails(n) PROVE PoolInv'
  <2>1. NodeInv'
      BY <1>0, <1>7 DEF DestroyBegin, DestroyRemove, DestroyFails
  <2> QED
      BY <1>0, <1>q, <1>7, <2>1, PoolUnchanged DEF DestroyBegin, DestroyRemove, DestroyFails
<1>8. ASSUME NEW n \in Names, ContainerExits(n) \/ ContainerVanishes(n) PROVE PoolInv'
  <2>1. NodeInv'
      BY <1>0, <1>8 DEF ContainerExits, ContainerVanishes
  <2> QED
      BY <1>0, <1>q, <1>8, <2>1, PoolUnchanged DEF ContainerExits, ContainerVanishes
<1>9. ASSUME NEW S \in SUBSET Creds, Reconfigure(S) PROVE PoolInv'
  <2>1. ManagerType' /\ LeaseIntegrity'
      BY <1>0, <1>9, ConfigureKeepsPool DEF Reconfigure
  <2>2. NodeInv'
      BY <1>0, <1>9 DEF Reconfigure, Configure, ManagerType
  <2> QED
      BY <1>q, <2>1, <2>2
<1>10. ASSUME Restart PROVE PoolInv'
  <2>1. RestoreLeases(Existing) /\ Existing \in SUBSET Names /\ UNCHANGED byID
      BY <1>10 DEF Restart, Existing
  <2>2. ManagerType' /\ LeaseIntegrity'
      BY <1>0, <2>1, RestoreKeepsPool
  <2>3. \A n \in Names : cred[n] = None => leases'[n] = None
      BY <2>1 DEF RestoreLeases
  <2>4. NodeInv'
      BY <1>0, <1>10, <2>3 DEF Restart
  <2> QED
      BY <1>q, <2>2, <2>4
<1>11. CASE UNCHANGED vars
  <2>1. NodeInv'
      BY <1>0, <1>11 DEF vars
  <2> QED
      BY <1>0, <1>q, <1>11, <2>1, PoolUnchanged DEF vars
<1> QED
    BY <1>1, <1>2, <1>3, <1>4, <1>5, <1>6, <1>7, <1>8, <1>9, <1>10, <1>11
    DEF Next, ProvisionStep

\* The invariant holds in every reachable state.
LEMMA PoolAlways == Spec => []PoolInv
BY PoolInitially, PoolPreserved, PTL DEF Spec

\* Every variable of credential manager, nodes and Docker keeps its type.
THEOREM VpnTypeCorrect == Spec => []TypeOK
BY PoolAlways, PTL DEF PoolInv

\* The strict lease semantics of the credential manager hold under every fault:
\* reconfiguration, failed creations, lost containers and restarts included.
THEOREM LeasesPartitionPool == Spec => []LeaseIntegrity
BY PoolAlways, PTL DEF PoolInv

-----------------------------------------------------------------------------
(* Reservation.  Two faults break it, and both are left out by Tidy: a     *)
(* credential deleted while it is leased, and a failed start whose         *)
(* container is left behind.                                               *)

Tidy == Faults \cap {"removeFails", "dropLeased"} = {}

\* How far ProvisionNode and DestroyNode have come with a container that exists, has
\* a node or is being destroyed.
ContainerInv ==
    /\ \A n \in Names :
          /\ pc[n] \in {"unused", "leased", "ready", "failing"} => docker[n] = "absent"
          /\ docker[n] \in {"running", "exited"} => pc[n] \in {"started", "done", "dead"}
          /\ node[n] # "none" => pc[n] \in {"started", "done", "dead"}
          /\ n \in cleaning => pc[n] = "dead"
          /\ destroying = n => pc[n] \notin {"unused", "leased", "ready"}
          /\ destroying = n /\ removed => docker[n] = "absent"
    /\ removed => destroying # None

\* Every step keeps it.
LEMMA ContainerPreserved ==
    ASSUME Tidy, TypeOK, ContainerInv, [Next]_vars
    PROVE  ContainerInv'
<1> USE DEF TypeOK, Pcs, ContainerInv
<1>1. ASSUME NEW n \in Names, AcquireLease(n) PROVE ContainerInv'
    BY <1>1 DEF AcquireLease
<1>2. ASSUME NEW n \in Names, BuildFails(n) PROVE ContainerInv'
    BY <1>2 DEF BuildFails
<1>3. ASSUME NEW n \in Names, AcquirePort(n) PROVE ContainerInv'
    BY <1>3 DEF AcquirePort
<1>4. ASSUME NEW n \in Names, ContainerCreate(n) PROVE ContainerInv'
    BY <1>4 DEF ContainerCreate
<1>5. ASSUME NEW n \in Names, ContainerStart(n) PROVE ContainerInv'
    BY <1>5 DEF ContainerStart
<1>6. ASSUME NEW n \in Names, StartFails(n) PROVE ContainerInv'
  <2>1. docker' = [docker EXCEPT ![n] = "absent"]
      BY <1>6 DEF StartFails, Tidy
  <2> QED
      BY <1>6, <2>1 DEF StartFails
<1>7. ASSUME NEW n \in Names, ReleaseFailed(n) PROVE ContainerInv'
    BY <1>7 DEF ReleaseFailed
<1>8. ASSUME NEW n \in Names, Register(n) \/ Discover(n) \/ Drain(n) PROVE ContainerInv'
    BY <1>8 DEF Register, Discover, Drain, Upsert
<1>9. ASSUME NEW n \in Names, DestroyBegin(n) PROVE ContainerInv'
  <2>1. pc[n] \notin {"unused", "leased", "ready"}
      BY <1>9 DEF DestroyBegin, DestroyDue
  <2>2. \A o \in Names : node'[o] # "none" => node[o] # "none" \/ (o = n /\ docker[n] = "exited")
      BY <1>9 DEF DestroyBegin
  <2> QED
      BY <1>9, <2>1, <2>2 DEF DestroyBegin
<1>10. ASSUME NEW n \in Names, DestroyRemove(n) \/ DestroyFails(n) PROVE ContainerInv'
    BY <1>10 DEF DestroyRemove, DestroyFails
<1>11. ASSUME NEW n \in Names, DestroyRelease(n) PROVE ContainerInv'
    BY <1>11 DEF DestroyRelease
<1>12. ASSUME NEW n \in Names, ContainerExits(n) PROVE ContainerInv'
    BY <1>12 DEF ContainerExits
<1>13. ASSUME NEW n \in Names, ContainerVanishes(n) PROVE ContainerInv'
    BY <1>13 DEF ContainerVanishes
<1>14. ASSUME NEW S \in SUBSET Creds, Reconfigure(S) PROVE ContainerInv'
    BY <1>14 DEF Reconfigure
<1>15. ASSUME Restart PROVE ContainerInv'
    BY <1>15 DEF Restart
<1>16. CASE UNCHANGED vars
    BY <1>16 DEF vars
<1> QED
    BY <1>1, <1>2, <1>3, <1>4, <1>5, <1>6, <1>7, <1>8, <1>9, <1>10, <1>11, <1>12, <1>13,
       <1>14, <1>15, <1>16
    DEF Next, ProvisionStep

\* The inductive invariant for reservations: a lease can only be given back when the
\* container is known to be gone and the attempt to be over.
ReserveInv == PoolInv /\ ContainerInv /\ ReservedWhileNeeded

\* With one lease for each credential, containers that have theirs do not share one.
LEMMA ReservedIsExclusive == LeaseIntegrity /\ ReservedWhileNeeded => CredentialExclusive
BY DEF LeaseIntegrity, ReservedWhileNeeded, CredentialExclusive, Existing

\* Every step keeps it; ReleaseLease and Restart are the ones that could break it.
LEMMA ReservePreserved ==
    ASSUME Tidy, ReserveInv, [Next]_vars
    PROVE  ReserveInv'
<1>0. PoolInv' /\ ContainerInv' /\ TypeOK /\ LeaseIntegrity /\ ContainerInv /\ ReservedWhileNeeded
    BY PoolPreserved, ContainerPreserved DEF ReserveInv, PoolInv
<1> SUFFICES ReservedWhileNeeded'
    BY <1>0 DEF ReserveInv
<1> USE DEF TypeOK, Pcs, ReservedWhileNeeded, Existing
<1>1. ASSUME NEW n \in Names, AcquireLease(n) PROVE ReservedWhileNeeded'
  <2>1. Head(available) \in Creds
      BY <1>0, <1>1, HeadTailProperties DEF AcquireLease
  <2> QED
      BY <1>0, <1>1, <2>1 DEF AcquireLease
<1>2. ASSUME NEW n \in Names, BuildFails(n) \/ ReleaseFailed(n) \/ DestroyRelease(n)
      PROVE  ReservedWhileNeeded'
  <2>1. docker[n] = "absent" /\ pc'[n] \notin {"leased", "ready"}
    <3>1. CASE BuildFails(n)
        BY <1>0, <3>1 DEF BuildFails, ContainerInv
    <3>2. CASE ReleaseFailed(n)
        BY <1>0, <3>2 DEF ReleaseFailed, ContainerInv
    <3>3. CASE DestroyRelease(n)
        BY <1>0, <3>3 DEF DestroyRelease, ContainerInv
    <3> QED
        BY <1>2, <3>1, <3>2, <3>3
  <2>2. \A o \in Names : o # n => leases'[o] = leases[o] /\ pc'[o] = pc[o]
      BY <1>0, <1>2 DEF BuildFails, ReleaseFailed, DestroyRelease, ReleaseLease
  <2>3. UNCHANGED <<cred, docker>>
      BY <1>2 DEF BuildFails, ReleaseFailed, DestroyRelease
  <2> QED
      BY <1>0, <2>1, <2>2, <2>3
<1>3. ASSUME NEW n \in Names, AcquirePort(n) PROVE ReservedWhileNeeded'
    BY <1>0, <1>3 DEF AcquirePort
<1>4. ASSUME NEW n \in Names, ContainerCreate(n) PROVE ReservedWhileNeeded'
    BY <1>0, <1>4 DEF ContainerCreate
<1>5. ASSUME NEW n \in Names, ContainerStart(n) PROVE ReservedWhileNeeded'
    BY <1>0, <1>5 DEF ContainerStart
<1>6. ASSUME NEW n \in Names, StartFails(n) PROVE ReservedWhileNeeded'
  <2>1. docker' = [docker EXCEPT ![n] = "absent"]
      BY <1>6 DEF StartFails, Tidy
  <2> QED
      BY <1>0, <1>6, <2>1 DEF StartFails
<1>7. ASSUME NEW n \in Names, Register(n) \/ Discover(n) \/ Drain(n) PROVE ReservedWhileNeeded'
    BY <1>0, <1>7 DEF Register, Discover, Drain
<1>8. ASSUME NEW n \in Names, DestroyBegin(n) \/ DestroyRemove(n) \/ DestroyFails(n)
      PROVE  ReservedWhileNeeded'
    BY <1>0, <1>8 DEF DestroyBegin, DestroyRemove, DestroyFails
<1>9. ASSUME NEW n \in Names, ContainerExits(n) \/ ContainerVanishes(n) PROVE ReservedWhileNeeded'
    BY <1>0, <1>9 DEF ContainerExits, ContainerVanishes
<1>10. ASSUME NEW S \in SUBSET Creds, Reconfigure(S) PROVE ReservedWhileNeeded'
  <2>1. Leased \subseteq S
      BY <1>10 DEF Reconfigure, Tidy
  <2>2. \A n \in Names : leases[n] # None => leases'[n] = leases[n]
      BY <1>10, <2>1 DEF Reconfigure, Configure, Leased
  <2> QED
      BY <1>0, <1>10, <2>2 DEF Reconfigure
<1>11. ASSUME Restart PROVE ReservedWhileNeeded'
  <2>1. PICK owner \in [Creds -> Names \cup {None}] :
            /\ \A c \in Creds :
                  LET holders == {n \in Existing : cred[n] = c} IN
                  IF c \in byID /\ holders # {} THEN owner[c] \in holders ELSE owner[c] = None
            /\ leases' = [n \in Names |-> IF cred[n] # None /\ owner[cred[n]] = n THEN cred[n] ELSE None]
      BY <1>11 DEF Restart, RestoreLeases
  <2>2. \A n \in Names : pc'[n] \notin {"leased", "ready"}
      BY <1>0, <1>11 DEF Restart
  <2>3. UNCHANGED <<cred, docker>>
      BY <1>11 DEF Restart
  <2>4. ASSUME NEW n \in Existing PROVE leases'[n] = cred[n] /\ cred[n] # None
    <3>1. cred[n] = leases[n] /\ cred[n] \in Creds /\ cred[n] \in byID
        BY <1>0 DEF LeaseIntegrity
    <3>2. \A o \in Existing : cred[o] = cred[n] => o = n
        BY <1>0, ReservedIsExclusive DEF CredentialExclusive
    <3>3. owner[cred[n]] = n
        BY <2>1, <3>1, <3>2
    <3> QED
        BY <2>1, <3>1, <3>3
  <2> QED
      BY <2>2, <2>3, <2>4
<1>12. CASE UNCHANGED vars
    BY <1>0, <1>12 DEF vars
<1> QED
    BY <1>1, <1>2, <1>3, <1>4, <1>5, <1>6, <1>7, <1>8, <1>9, <1>10, <1>11, <1>12
    DEF Next, ProvisionStep

\* The invariant for reservations holds in every reachable state.
LEMMA ReserveAlways == ASSUME Tidy PROVE Spec => []ReserveInv
<1>1. Init => ReserveInv
    BY PoolInitially DEF Init, ReserveInv, ContainerInv, ReservedWhileNeeded, Existing
<1>2. ReserveInv /\ [Next]_vars => ReserveInv'
    BY ReservePreserved
<1> QED
    BY <1>1, <1>2, PTL DEF Spec

\* A container that exists, and an attempt that is about to create one, has its
\* credential reserved, through failures, retries and restarts.
THEOREM CredentialStaysReserved == ASSUME Tidy PROVE Spec => []ReservedWhileNeeded
BY ReserveAlways, PTL DEF ReserveInv

\* No credential is given to a second container while one that was started with it
\* still exists.
THEOREM CredentialsAreExclusive == ASSUME Tidy PROVE Spec => []CredentialExclusive
<1>1. ReserveInv => CredentialExclusive
    BY ReservedIsExclusive DEF ReserveInv, PoolInv
<1> QED
    BY <1>1, ReserveAlways, PTL

-----------------------------------------------------------------------------
(* Ports.  rebuild evicts the claims to ports that no credential lists any *)
(* more, but the container keeps its port: if it was listed by another     *)
(* credential than the container's own, which is deleted and added again,  *)
(* the port is given out a second time (MCForeignPort).  So either the     *)
(* pool is not reconfigured, or all AirVPN credentials list the same ports.*)

SamePorts == \A c, d \in Creds : PortsOf[c] = {} \/ PortsOf[d] = {} \/ PortsOf[c] = PortsOf[d]

StablePorts == "reconfigure" \notin Faults \/ SamePorts

\* A container, or an attempt about to create one, holds the claim to its port.
Claimed(n) == pc[n] = "ready" \/ (docker[n] # "absent" /\ pc[n] # "dead")

PortInv ==
    /\ \A n \in Names :
          /\ pc[n] \in {"unused", "leased"} => port[n] = None
          /\ Claimed(n) /\ port[n] # None => byCont[n] = port[n]
          /\ SamePorts /\ port[n] # None => cred[n] \in Creds /\ port[n] \in PortsOf[cred[n]]
    /\ \A n, o \in Names : byCont[n] = byCont[o] /\ byCont[n] # None => n = o

\* Every step keeps it, on top of the invariant for reservations.
LEMMA PortPreserved ==
    ASSUME Tidy, StablePorts, ReserveInv, PortInv, [Next]_vars
    PROVE  PortInv'
<1>0. TypeOK /\ ContainerInv /\ ReservedWhileNeeded /\ PortInv
    BY DEF ReserveInv, PoolInv
<1> USE DEF TypeOK, Pcs, Claimed
<1>1. ASSUME NEW n \in Names, AcquireLease(n) PROVE PortInv'
    BY <1>0, <1>1 DEF AcquireLease, PortInv
<1>2. ASSUME NEW n \in Names, BuildFails(n) PROVE PortInv'
    BY <1>0, <1>2 DEF BuildFails, PortInv
<1>3. ASSUME NEW n \in Names, AcquirePort(n) PROVE PortInv'
  <2>1. cred[n] \in Creds /\ port[n] = None /\ docker[n] = "absent"
      BY <1>0, <1>3 DEF AcquirePort, PortInv, ReservedWhileNeeded, ContainerInv
  <2>2. CASE byCont' = byCont /\ port' = port
      BY <1>0, <1>3, <2>1, <2>2 DEF AcquirePort, PortInv
  <2>3. ASSUME NEW p \in FreePorts, PortsOf[cred[n]] # {},
               byCont' = [byCont EXCEPT ![n] = p], port' = [port EXCEPT ![n] = p]
        PROVE  PortInv'
    <3>1. p \in Ports /\ \A o \in Names : byCont[o] # p
        BY <1>0 DEF FreePorts, PortUniverse
    <3>2. SamePorts => p \in PortsOf[cred[n]]
        BY <1>0, <2>1, <2>3 DEF SamePorts, FreePorts, PortUniverse
    <3>3. \A o, m \in Names : byCont'[o] = byCont'[m] /\ byCont'[o] # None => o = m
        BY <1>0, <2>3, <3>1 DEF PortInv
    <3> QED
        BY <1>0, <1>3, <2>1, <2>3, <3>1, <3>2, <3>3 DEF AcquirePort, PortInv
  <2> QED
      BY <1>3, <2>2, <2>3 DEF AcquirePort
<1>4. ASSUME NEW n \in Names, ContainerCreate(n) PROVE PortInv'
    BY <1>0, <1>4 DEF ContainerCreate, PortInv
<1>5. ASSUME NEW n \in Names, ContainerStart(n) PROVE PortInv'
    BY <1>0, <1>5 DEF ContainerStart, PortInv
<1>6. ASSUME NEW n \in Names, StartFails(n) PROVE PortInv'
  <2>1. docker' = [docker EXCEPT ![n] = "absent"]
      BY <1>6 DEF StartFails, Tidy
  <2> QED
      BY <1>0, <1>6, <2>1 DEF StartFails, PortInv
<1>7. ASSUME NEW n \in Names, ReleaseFailed(n) PROVE PortInv'
    BY <1>0, <1>7 DEF ReleaseFailed, PortInv
<1>8. ASSUME NEW n \in Names, Register(n) \/ Discover(n) \/ Drain(n) PROVE PortInv'
    BY <1>0, <1>8 DEF Register, Discover, Drain, PortInv
<1>9. ASSUME NEW n \in Names, DestroyBegin(n) \/ DestroyRemove(n) \/ DestroyFails(n) PROVE PortInv'
    BY <1>0, <1>9 DEF DestroyBegin, DestroyRemove, DestroyFails, PortInv
<1>10. ASSUME NEW n \in Names, DestroyRelease(n) PROVE PortInv'
  <2>1. ~ Claimed(n)
      BY <1>0, <1>10 DEF DestroyRelease, ContainerInv
  <2> QED
      BY <1>0, <1>10, <2>1 DEF DestroyRelease, PortInv
<1>11. ASSUME NEW n \in Names, ContainerExits(n) \/ ContainerVanishes(n) PROVE PortInv'
    BY <1>0, <1>11 DEF ContainerExits, ContainerVanishes, PortInv
<1>12. ASSUME NEW S \in SUBSET Creds, Reconfigure(S) PROVE PortInv'
  <2>1. Leased \subseteq S /\ SamePorts
      BY <1>12 DEF Reconfigure, Tidy, StablePorts
  <2>2. ASSUME NEW n \in Names, Claimed(n), port[n] # None
        PROVE  byCont'[n] = port[n]
    <3>1. cred[n] \in S /\ byCont[n] = port[n] /\ port[n] \in PortsOf[cred[n]]
        BY <1>0, <2>1, <2>2 DEF PortInv, ReservedWhileNeeded, Existing, Leased
    <3>2. port[n] \in PortUniverse(S)
        BY <3>1 DEF PortUniverse
    <3> QED
        BY <1>12, <3>1, <3>2 DEF Reconfigure, Configure
  <2>3. \A n, o \in Names : byCont'[n] = byCont'[o] /\ byCont'[n] # None => n = o
      BY <1>0, <1>12 DEF Reconfigure, Configure, PortInv
  <2> QED
      BY <1>0, <1>12, <2>2, <2>3 DEF Reconfigure, PortInv
<1>13. ASSUME Restart PROVE PortInv'
    BY <1>0, <1>13 DEF Restart, PortInv, ContainerInv
<1>14. CASE UNCHANGED vars
    BY <1>0, <1>14 DEF vars, PortInv
<1> QED
    BY <1>1, <1>2, <1>3, <1>4, <1>5, <1>6, <1>7, <1>8, <1>9, <1>10, <1>11, <1>12, <1>13, <1>14
    DEF Next, ProvisionStep

\* Two containers this process has started never share a port of the AirVPN pool.
THEOREM PortsAreExclusive == ASSUME Tidy, StablePorts PROVE Spec => []PortExclusive
<1>1. Init => PortInv
    BY DEF Init, PortInv, Claimed
<1>2. ReserveInv /\ PortInv /\ [Next]_vars => PortInv'
    BY PortPreserved
<1>3. TypeOK /\ PortInv => PortExclusive
    BY DEF PortInv, PortExclusive, Existing, Claimed, TypeOK
<1> QED
    BY <1>1, <1>2, <1>3, ReserveAlways, VpnTypeCorrect, PTL DEF Spec
=============================================================================
