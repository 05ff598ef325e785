---------------------- MODULE EngineProvisioningProofs ----------------------
(* Proofs about EngineProvisioning, for every number of engines, nodes and   *)
(* ports, every limit and every event of the environment: types; and, as     *)
(* long as calls and events of Docker do not overlap with what they are      *)
(* about, exclusive ports, one leader per node and the hard limit of a node. *)
EXTENDS EngineProvisioning, FiniteSetTheorems, TLAPS

USE ProvisioningAssumption

-----------------------------------------------------------------------------
(* Docker's events.                                                         *)

Event == {"start", "die"} \X Specs

Queued(e)  == e \in {events[i] : i \in DOMAIN events}
Started(s) == Queued(<<"start", s>>)

\* The start of an engine does not follow its end.
EventOrder ==
    \A i, j \in DOMAIN events : i < j =>
        \A s \in Specs : ~(events[i] = <<"die", s>> /\ events[j] = <<"start", s>>)

\* Docker reports e.
LEMMA EventAppended ==
    ASSUME events \in Seq(Event), NEW e \in Event, events' = Append(events, e)
    PROVE  /\ events' \in Seq(Event)
           /\ \A x : Queued(x)' <=> Queued(x) \/ x = e
           /\ EventOrder /\ (\A s \in Specs : e = <<"start", s>> => ~Queued(<<"die", s>>)) => EventOrder'
<1> DEFINE n == Len(events)
<1>1. /\ n \in Nat /\ DOMAIN events = 1 .. n /\ events' \in Seq(Event) /\ DOMAIN events' = 1 .. n + 1
      /\ events'[n + 1] = e /\ \A i \in 1 .. n : events'[i] = events[i]
    OBVIOUS
<1> HIDE DEF n
<1>2. \A x : Queued(x)' <=> Queued(x) \/ x = e
    BY <1>1 DEF Queued
<1>3. ASSUME EventOrder, \A s \in Specs : e = <<"start", s>> => ~Queued(<<"die", s>>) PROVE EventOrder'
    <2> SUFFICES ASSUME NEW i \in 1 .. n + 1, NEW j \in 1 .. n + 1, i < j, NEW s \in Specs,
                        events'[i] = <<"die", s>>, events'[j] = <<"start", s>>
                 PROVE  FALSE
        BY <1>1 DEF EventOrder
    <2>1. i \in 1 .. n /\ events[i] = <<"die", s>>
        BY <1>1
    <2>2. CASE j = n + 1
        BY <1>1, <1>3, <2>1, <2>2 DEF Queued
    <2>3. CASE j \in 1 .. n
        BY <1>1, <1>3, <2>1, <2>3 DEF EventOrder
    <2> QED
        BY <1>1, <2>2, <2>3
<1> QED
    BY <1>1, <1>2, <1>3

\* The watcher takes the first event.
LEMMA EventTaken ==
    ASSUME events \in Seq(Event), events # <<>>, events' = Tail(events)
    PROVE  /\ events' \in Seq(Event) /\ Queued(Head(events))
           /\ \A x : Queued(x)' => Queued(x)
           /\ \A x : Queued(x) => Queued(x)' \/ x = Head(events)
           /\ EventOrder => /\ EventOrder'
                            /\ \A s \in Specs : Head(events) = <<"die", s>> => ~Started(s)'
<1> DEFINE n == Len(events)
<1>1. /\ n \in Nat \ {0} /\ DOMAIN events = 1 .. n /\ events' \in Seq(Event) /\ DOMAIN events' = 1 .. n - 1
      /\ events[1] = Head(events) /\ \A i \in 1 .. n - 1 : events'[i] = events[i + 1]
    OBVIOUS
<1> DEFINE h == Head(events)
<1>2. h = events[1]
    BY <1>1
<1> HIDE DEF n, h
<1>3. Queued(h) /\ \A x : Queued(x)' => Queued(x)
    BY <1>1, <1>2 DEF Queued
<1>4. ASSUME NEW x, Queued(x) PROVE Queued(x)' \/ x = h
    <2>1. PICK i \in 1 .. n : x = events[i]
        BY <1>1, <1>4 DEF Queued
    <2>2. CASE i # 1
        <3>1. i - 1 \in 1 .. n - 1 /\ events'[i - 1] = events[i]
            BY <1>1, <2>2
        <3> QED
            BY <1>1, <2>1, <3>1 DEF Queued
    <2> QED
        BY <1>2, <2>1, <2>2
<1>5. ASSUME EventOrder PROVE EventOrder'
    <2> SUFFICES ASSUME NEW i \in 1 .. n - 1, NEW j \in 1 .. n - 1, i < j, NEW s \in Specs,
                        events'[i] = <<"die", s>>, events'[j] = <<"start", s>>
                 PROVE  FALSE
        BY <1>1 DEF EventOrder
    <2>1. i + 1 \in 1 .. n /\ j + 1 \in 1 .. n /\ i + 1 < j + 1
        BY <1>1
    <2> QED
        BY <1>1, <1>5, <2>1 DEF EventOrder
<1>6. ASSUME EventOrder, NEW s \in Specs, h = <<"die", s>> PROVE ~Started(s)'
    <2> SUFFICES ASSUME NEW j \in 1 .. n - 1, events'[j] = <<"start", s>> PROVE FALSE
        BY <1>1 DEF Started, Queued
    <2>1. 1 \in 1 .. n /\ j + 1 \in 1 .. n /\ 1 < j + 1 /\ events[j + 1] = <<"start", s>>
        BY <1>1
    <2> QED
        BY <1>1, <1>2, <1>6, <2>1 DEF EventOrder
<1> QED
    BY <1>1, <1>3, <1>4, <1>5, <1>6 DEF h

\* DestroyNode ends several engines: m events of ends follow the n there are.
Extended(S, n, m) ==
    /\ n \in Nat /\ m \in Nat /\ DOMAIN events = 1 .. n
    /\ events' \in Seq(Event) /\ DOMAIN events' = 1 .. n + m
    /\ \A i \in 1 .. n : i \in 1 .. n + m /\ events'[i] = events[i]
    /\ \A i \in 1 .. n + m : i > n => \E s \in S : events'[i] = <<"die", s>>

LEMMA EventsExtended ==
    ASSUME events \in Seq(Event), NEW S \in SUBSET Specs, NEW order \in SetToSeqs(S),
           events' = events \o [i \in DOMAIN order |-> <<"die", order[i]>>]
    PROVE  \E n, m : Extended(S, n, m)
<1> DEFINE m == Cardinality(S)
           n == Len(events)
           more == [i \in DOMAIN order |-> <<"die", order[i]>>]
<1>1. m \in Nat
    BY FS_Subset, FS_CardinalityType
<1>2. order \in [1 .. m -> S]
    BY DEF SetToSeqs
<1>3. more \in [1 .. m -> Event] /\ \A i \in 1 .. m : more[i] = <<"die", order[i]>> /\ order[i] \in S
    BY <1>2 DEF Event
<1> HIDE DEF m, more
<1>4. more \in Seq(Event) /\ Len(more) = m
    BY <1>1, <1>3
<1>5. n \in Nat /\ DOMAIN events = 1 .. n
    OBVIOUS
<1>6. /\ events' \in Seq(Event) /\ Len(events') = n + m
      /\ \A i \in 1 .. n + m : events'[i] = IF i <= n THEN events[i] ELSE more[i - n]
    BY <1>1, <1>4, <1>5 DEF more
<1>7. DOMAIN events' = 1 .. n + m
    BY <1>6
<1> HIDE DEF n
<1>8. ASSUME NEW i \in 1 .. n + m, i > n PROVE \E s \in S : events'[i] = <<"die", s>>
    <2>1. i - n \in 1 .. m /\ ~(i <= n)
        BY <1>1, <1>5, <1>8
    <2>2. events'[i] = more[i - n]
        BY <1>6, <2>1
    <2> QED
        BY <1>3, <2>1, <2>2
<1>9. \A i \in 1 .. n : i \in 1 .. n + m /\ events'[i] = events[i]
    BY <1>1, <1>5, <1>6
<1> QED
    BY <1>1, <1>5, <1>6, <1>7, <1>8, <1>9 DEF Extended

LEMMA EventsAdded ==
    ASSUME EventOrder, NEW S \in SUBSET Specs, NEW n, NEW m, Extended(S, n, m)
    PROVE  /\ events' \in Seq(Event) /\ EventOrder'
           /\ \A x : Queued(x) => Queued(x)'
           /\ \A x : Queued(x)' => Queued(x) \/ \E s \in S : x = <<"die", s>>
<1> USE DEF Extended
<1>1. \A x : Queued(x) => Queued(x)'
    BY DEF Queued
<1>2. ASSUME NEW x, Queued(x)' PROVE Queued(x) \/ \E s \in S : x = <<"die", s>>
    <2>1. PICK i \in 1 .. n + m : x = events'[i]
        BY <1>2 DEF Queued
    <2>2. CASE i \in 1 .. n
        BY <2>1, <2>2 DEF Queued
    <2>3. CASE i > n
        BY <2>1, <2>3
    <2> QED
        BY <2>2, <2>3
<1>3. EventOrder'
    <2> SUFFICES ASSUME NEW i \in 1 .. n + m, NEW j \in 1 .. n + m, i < j, NEW s \in Specs,
                        events'[i] = <<"die", s>>, events'[j] = <<"start", s>>
                 PROVE  FALSE
        BY DEF EventOrder
    <2>1. i \in 1 .. n /\ j \in 1 .. n
        <3>1. ASSUME j > n PROVE FALSE
            <4>1. PICK t \in S : events'[j] = <<"die", t>>
                BY <3>1
            <4> QED
                BY <4>1
        <3> QED
            BY <3>1
    <2> QED
        BY <2>1 DEF EventOrder
<1> QED
    BY <1>1, <1>2, <1>3

-----------------------------------------------------------------------------
(* Types, and what the stages of a spec imply.                              *)

\* Somebody relies on the labels of s: its provisioning, its container, its
\* record, or a start event that will make a record.
Held(s) == InFlight(s) \/ docker[s] = "running" \/ s \in engines \/ Started(s)

\* The life of a spec: it has a container only when it was started, a record or a
\* start event only with a container, and labels as long as it is held.
SpecOK(s) ==
    /\ pc[s] \notin {"started", "ended"} => docker[s] = "none"
    /\ docker[s] = "none" => s \notin engines /\ ~Started(s)
    /\ Queued(<<"die", s>>) \/ s \in evicting => docker[s] = "exited"
    /\ Held(s) => vpn[s] \in Nodes /\ (pc[s] # "placed" => port[s] \in Ports)
    /\ pc[s] \in {"unused", "intent", "placed", "allocated", "waitPort"} => forwarded[s] = FALSE
    /\ pc[s] \in {"unused", "intent", "placed"} => port[s] = None

SpecInv == \A s \in Specs : SpecOK(s)

StageInv == TypeOK /\ EventOrder /\ SpecInv

LEMMA FiniteParts ==
    ASSUME TypeOK
    PROVE  /\ \A S \in SUBSET Specs : IsFiniteSet(S) /\ Cardinality(S) \in Nat
           /\ TotalPending \in Nat
<1>1. \A S \in SUBSET Specs : IsFiniteSet(S) /\ Cardinality(S) \in Nat
    BY FS_Subset, FS_CardinalityType
<1>2. IsFiniteSet(PendingSlots)
    <2> DEFINE f == [n \in Nodes |-> {n} \X (1 .. vpnPending[n])]
               T == {{n} \X (1 .. vpnPending[n]) : n \in Nodes}
    <2>1. f \in Surjection(Nodes, T)
        BY DEF Surjection
    <2>2. IsFiniteSet(T)
        <3>1. IsFiniteSet(Nodes)
            OBVIOUS
        <3> HIDE DEF f, T
        <3> QED
            BY <2>1, <3>1, FS_Surjection, Zenon
    <2>3. ASSUME NEW n \in Nodes PROVE IsFiniteSet({n} \X (1 .. vpnPending[n]))
        <3>1. vpnPending[n] \in Int
            BY DEF TypeOK
        <3>2. IsFiniteSet({n})
            BY FS_Singleton, Zenon
        <3>3. 1 \in Int
            OBVIOUS
        <3>4. IsFiniteSet(1 .. vpnPending[n])
            BY <3>1, <3>3, FS_Interval, Zenon
        <3> QED
            BY <3>2, <3>4, FS_Product
    <2>4. \A U \in T : IsFiniteSet(U)
        BY <2>3
    <2> HIDE DEF T
    <2>5. IsFiniteSet(UNION T)
        BY <2>2, <2>4, FS_UNION
    <2> QED
        BY <2>5 DEF T, PendingSlots
<1>3. Cardinality(PendingSlots) \in Nat
    BY <1>2, FS_CardinalityType
<1>4. Cardinality(intents) \in Nat
    BY <1>1 DEF TypeOK
<1> QED
    BY <1>1, <1>3, <1>4 DEF TotalPending

\* The autoscaler's targets.
LEMMA TargetRange == ASSUME TypeOK, NEW n \in Targets PROVE n \in 0 .. MaxReplicas
<1>1. TotalPending \in Nat /\ Cardinality(Active) \in Nat /\ Cardinality(engines) \in Nat
    BY FiniteParts DEF TypeOK, Active
<1>2. \A x \in Int : Clamped(x) \in 0 .. MaxReplicas
    BY DEF Clamped, Greatest, Least
<1>3. ASSUME NEW occupied \in 0 .. Cardinality(Active), NEW burst \in 0 .. Least(2, Cardinality(engines))
      PROVE  ComputeDesired(occupied, burst) \in 0 .. MaxReplicas
    <2>1. burst \in Int /\ occupied \in Int
        BY <1>1 DEF Least
    <2> QED
        BY <1>1, <1>2, <2>1 DEF ComputeDesired, Greatest
<1>4. desired \in 0 .. MaxReplicas
    BY DEF TypeOK
<1>5. CASE engines = {}
    BY <1>5 DEF Targets
<1>6. CASE engines # {}
    <2> DEFINE minTarget == Cardinality(Active) + TotalPending
    <2>1. PICK occupied \in 0 .. Cardinality(Active), burst \in 0 .. Least(2, Cardinality(engines)) :
              n = IF TotalPending > 0 /\ ComputeDesired(occupied, burst) < minTarget /\ desired >= minTarget
                  THEN minTarget ELSE ComputeDesired(occupied, burst)
        BY <1>6 DEF Targets
    <2>2. ComputeDesired(occupied, burst) \in 0 .. MaxReplicas
        BY <1>3
    <2> QED
        BY <1>1, <1>4, <2>1, <2>2
<1> QED
    BY <1>5, <1>6

LEMMA DemandType ==
    ASSUME TypeOK, \/ EnsureMinimum \/ NudgeDemand \/ UndoNudge \/ \E n \in 0 .. MaxReplicas : ScaleTo(n)
    PROVE  desired' \in 0 .. MaxReplicas
           /\ UNCHANGED <<intents, engines, draining, unhealthy, reserveVars, specVars, cbVars, dockerVars, otherVars>>
<1>1. desired \in 0 .. MaxReplicas
    BY DEF TypeOK
<1>2. CASE EnsureMinimum
    BY <1>2, TargetRange DEF EnsureMinimum, SetDesired
<1>3. CASE NudgeDemand \/ UndoNudge \/ \E n \in 0 .. MaxReplicas : ScaleTo(n)
    BY <1>1, <1>3 DEF NudgeDemand, UndoNudge, ScaleTo, SetDesired, Least, Greatest, Clamped
<1> QED
    BY <1>2, <1>3

LEMMA BreakerType ==
    ASSUME TypeOK, (\E yes \in BOOLEAN : CanExecute(yes)) \/ RecordSuccess \/ RecordFailure \/ UNCHANGED cbVars
    PROVE  breaker' \in {"closed", "open", "half"} /\ failures' \in 0 .. Threshold
BY DEF TypeOK, CanExecute, RecordSuccess, RecordFailure, cbVars, Least

LEMMA DecrEffect ==
    ASSUME TypeOK, NEW n \in Nodes, vpnPending' = DecrPending(n)
    PROVE  /\ vpnPending' \in [Nodes -> Nat]
           /\ vpnPending'[n] = (IF vpnPending[n] > 0 THEN vpnPending[n] - 1 ELSE 0)
           /\ \A m \in Nodes : m # n => vpnPending'[m] = vpnPending[m]
BY DEF TypeOK, DecrPending

\* The stages of a provisioning that hold a node, and those that hold ports too.
LEMMA InFlightFacts ==
    ASSUME StageInv, NEW s \in Specs, InFlight(s)
    PROVE  /\ Held(s) /\ vpn[s] \in Nodes /\ docker[s] = "none" /\ s \notin engines /\ ~Started(s)
           /\ ~Queued(<<"die", s>>) /\ s \notin evicting
           /\ pc[s] # "placed" => port[s] \in Ports
BY DEF StageInv, SpecInv, SpecOK, InFlight, Held

\* What a step of a provisioning makes of its spec: it is placed on a node, ...
Placed(s) ==
    /\ pc[s] = "intent" /\ pc'[s] = "placed" /\ vpn'[s] \in Candidates
    /\ port'[s] = port[s] /\ forwarded'[s] = forwarded[s]
    /\ vpnPending'[vpn'[s]] = vpnPending[vpn'[s]] + 1
    /\ \A n \in Nodes : n # vpn'[s] => vpnPending'[n] = vpnPending[n]
    /\ UNCHANGED <<forwardedPending, used, docker, events>>

\* ... given a port, ...
Allocated(s) ==
    /\ pc[s] = "placed" /\ pc'[s] = "allocated" /\ port'[s] \in Ports \ used /\ used' = used \cup {port'[s]}
    /\ vpn'[s] = vpn[s] /\ forwarded'[s] = forwarded[s]
    /\ UNCHANGED <<vpnPending, forwardedPending, docker, events>>

\* ... elected, ...
Elected(s) ==
    /\ pc[s] = "allocated" /\ pc'[s] = "waitPort" /\ ~SlotTaken(vpn[s])
    /\ forwardedPending' = forwardedPending \cup {vpn[s]}
    /\ vpn'[s] = vpn[s] /\ port'[s] = port[s] /\ forwarded'[s] = forwarded[s]
    /\ UNCHANGED <<vpnPending, used, docker, events>>

\* ... handed over to the workers, ...
Submitted(s) ==
    /\ pc[s] \in {"allocated", "waitPort"} /\ pc'[s] = "queued"
    /\ forwarded'[s] = TRUE => pc[s] = "waitPort"
    /\ forwardedPending' = IF pc[s] = "waitPort" /\ forwarded'[s] = FALSE THEN forwardedPending \ {vpn[s]}
                           ELSE forwardedPending
    /\ vpn'[s] = vpn[s] /\ port'[s] = port[s]
    /\ UNCHANGED <<vpnPending, used, docker, events>>

\* ... taken by one, its container started or its work finished, ...
Advanced(s) ==
    /\ \/ pc[s] = "queued" /\ pc'[s] = "creating" /\ UNCHANGED <<docker, events>>
       \/ pc[s] = "started" /\ pc'[s] = "ended" /\ UNCHANGED <<docker, events>>
       \/ /\ pc[s] = "creating" /\ pc'[s] = "started" /\ node[vpn[s]] # "gone"
          /\ docker'[s] = "running" /\ \A t \in Specs : t # s => docker'[t] = docker[t]
          /\ events' = Append(events, <<"start", s>>)
    /\ vpn'[s] = vpn[s] /\ port'[s] = port[s] /\ forwarded'[s] = forwarded[s]
    /\ UNCHANGED reserveVars

\* ... or given up, with or without what it holds.
Claims(s)  == pc[s] = "waitPort" \/ forwarded[s] = TRUE
Dropped(s) ==
    /\ pc[s] = "intent" \/ InFlight(s)
    /\ pc'[s] = "ended" /\ vpn'[s] = None /\ port'[s] = None /\ forwarded'[s] = FALSE
    /\ \/ UNCHANGED reserveVars
       \/ /\ pc[s] # "intent" /\ vpnPending' = DecrPending(vpn[s])
          /\ used' = used \/ (pc[s] # "placed" /\ used' = used \ {port[s]})
          /\ \/ forwardedPending' = forwardedPending
             \/ Claims(s) /\ forwardedPending' = forwardedPending \ {vpn[s]}
    /\ UNCHANGED <<docker, events>>

\* The labels have their types, and those of other specs stay.
LabelTypes ==
    /\ pc \in [Specs -> Pcs] /\ vpn \in [Specs -> Nodes \cup {None}]
    /\ port \in [Specs -> Ports \cup {None}] /\ forwarded \in [Specs -> BOOLEAN]

Others(s) ==
    \A t \in Specs : t # s => /\ pc'[t] = pc[t] /\ vpn'[t] = vpn[t]
                              /\ port'[t] = port[t] /\ forwarded'[t] = forwarded[t]

LEMMA AbandonEffect ==
    ASSUME TypeOK, NEW s \in Specs, Abandon(s)
    PROVE  /\ LabelTypes' /\ Others(s)
           /\ pc'[s] = "ended" /\ vpn'[s] = None /\ port'[s] = None /\ forwarded'[s] = FALSE
           /\ intents' \subseteq Specs /\ UNCHANGED <<desired, engines, draining, unhealthy>>
BY DEF TypeOK, Abandon, NoLabels, Pcs, LabelTypes, Others

LEMMA GotoEffect ==
    ASSUME TypeOK, NEW s \in Specs, NEW label \in Pcs, Goto(s, label)
    PROVE  pc' \in [Specs -> Pcs] /\ pc'[s] = label /\ \A t \in Specs : t # s => pc'[t] = pc[t]
BY DEF TypeOK, Goto

\* What every step of a provisioning leaves alone.
Frame == intents' \subseteq Specs /\ UNCHANGED <<desired, engines, draining, unhealthy, stopping, evicting, node>>

LEMMA SelectVpnEffect ==
    ASSUME TypeOK, NEW s \in Specs, SelectVpn(s)
    PROVE  LabelTypes' /\ Others(s) /\ Frame /\ (Placed(s) \/ Dropped(s))
<1>1. CASE Abandon(s) /\ UNCHANGED vpnPending
    <2>1. LabelTypes' /\ Others(s) /\ Frame
        BY <1>1, AbandonEffect DEF SelectVpn, Frame, dockerVars, otherVars
    <2>2. Dropped(s)
        BY <1>1, AbandonEffect DEF SelectVpn, Dropped, reserveVars, dockerVars
    <2> QED
        BY <2>1, <2>2
<1>2. CASE Goto(s, "placed") /\ \E n \in Candidates : /\ vpnPending' = [vpnPending EXCEPT ![n] = @ + 1]
                                                      /\ vpn' = [vpn EXCEPT ![s] = n]
    <2>1. PICK n \in Candidates : vpnPending' = [vpnPending EXCEPT ![n] = @ + 1] /\ vpn' = [vpn EXCEPT ![s] = n]
        BY <1>2
    <2>2. n \in Nodes
        BY DEF Candidates, LeastLoadedBelow, Schedulable
    <2>3. pc' \in [Specs -> Pcs] /\ pc'[s] = "placed" /\ \A t \in Specs : t # s => pc'[t] = pc[t]
        BY <1>2, GotoEffect DEF Pcs
    <2>4. pc[s] = "intent" /\ UNCHANGED <<storeVars, port, forwarded, forwardedPending, used, dockerVars, otherVars>>
        BY <1>2, <2>3 DEF SelectVpn, Abandon
    <2>5. LabelTypes' /\ Others(s) /\ Frame /\ vpn'[s] = n
        BY <2>1, <2>2, <2>3, <2>4 DEF TypeOK, LabelTypes, Others, Frame, storeVars, otherVars, dockerVars
    <2>6. Placed(s)
        BY <2>1, <2>2, <2>3, <2>4, <2>5 DEF TypeOK, Placed, dockerVars
    <2> QED
        BY <2>5, <2>6
<1> QED
    BY <1>1, <1>2 DEF SelectVpn

LEMMA AllocatePortsEffect ==
    ASSUME TypeOK, NEW s \in Specs, AllocatePorts(s)
    PROVE  LabelTypes' /\ Others(s) /\ Frame /\ (Allocated(s) \/ Dropped(s))
<1>0. pc[s] = "placed" /\ UNCHANGED <<forwardedPending, cbVars, dockerVars, otherVars>>
    BY DEF AllocatePorts
<1>1. CASE Abandon(s) /\ vpnPending' = DecrPending(vpn[s]) /\ UNCHANGED used
    <2>1. LabelTypes' /\ Others(s) /\ Frame
        BY <1>0, <1>1, AbandonEffect DEF Frame, dockerVars, otherVars
    <2>2. Dropped(s)
        BY <1>0, <1>1, AbandonEffect DEF Dropped, InFlight, dockerVars
    <2> QED
        BY <2>1, <2>2
<1>2. CASE \E p \in Ports \ used : /\ used' = used \cup {p} /\ port' = [port EXCEPT ![s] = p]
                                   /\ Goto(s, "allocated") /\ UNCHANGED <<storeVars, vpnPending, vpn, forwarded>>
    <2>1. PICK p \in Ports \ used : /\ used' = used \cup {p} /\ port' = [port EXCEPT ![s] = p]
                                    /\ Goto(s, "allocated") /\ UNCHANGED <<storeVars, vpnPending, vpn, forwarded>>
        BY <1>2
    <2>2. pc' \in [Specs -> Pcs] /\ pc'[s] = "allocated" /\ \A t \in Specs : t # s => pc'[t] = pc[t]
        BY <2>1, GotoEffect DEF Pcs
    <2>3. LabelTypes' /\ Others(s) /\ Frame /\ port'[s] = p
        BY <1>0, <2>1, <2>2 DEF TypeOK, LabelTypes, Others, Frame, storeVars, otherVars, dockerVars
    <2>4. Allocated(s)
        BY <1>0, <2>1, <2>2, <2>3 DEF Allocated, dockerVars
    <2> QED
        BY <2>3, <2>4
<1> QED
    BY <1>1, <1>2 DEF AllocatePorts

LEMMA EnqueueEffect ==
    ASSUME TypeOK, NEW s \in Specs, NEW leader \in BOOLEAN, NEW claims,
           \/ pc[s] = "waitPort" /\ claims = (IF leader THEN forwardedPending ELSE forwardedPending \ {vpn[s]})
           \/ pc[s] = "allocated" /\ ~leader /\ claims = forwardedPending,
           Enqueue(s, leader, claims), UNCHANGED <<cbVars, dockerVars, otherVars>>
    PROVE  LabelTypes' /\ Others(s) /\ Frame /\ (Submitted(s) \/ Dropped(s))
<1>1. CASE QueueFull
    <2>1. /\ Abandon(s) /\ used' = used \ {port[s]} /\ vpnPending' = DecrPending(vpn[s])
          /\ forwardedPending' = IF leader THEN claims \ {vpn[s]} ELSE claims
        BY <1>1 DEF Enqueue
    <2>2. LabelTypes' /\ Others(s) /\ Frame
        BY <2>1, AbandonEffect DEF Frame, dockerVars, otherVars
    <2>3. \/ forwardedPending' = forwardedPending
          \/ Claims(s) /\ forwardedPending' = forwardedPending \ {vpn[s]}
        BY <2>1 DEF Claims
    <2>4. Dropped(s)
        BY <2>1, <2>3, AbandonEffect DEF Dropped, InFlight, dockerVars
    <2> QED
        BY <2>2, <2>4
<1>2. CASE ~QueueFull
    <2>1. /\ Goto(s, "queued") /\ forwarded' = [forwarded EXCEPT ![s] = leader] /\ forwardedPending' = claims
          /\ UNCHANGED <<storeVars, used, vpnPending, vpn, port>>
        BY <1>2 DEF Enqueue
    <2>2. pc' \in [Specs -> Pcs] /\ pc'[s] = "queued" /\ \A t \in Specs : t # s => pc'[t] = pc[t]
        BY <2>1, GotoEffect DEF Pcs
    <2>3. LabelTypes' /\ Others(s) /\ Frame /\ forwarded'[s] = leader
        BY <2>1, <2>2 DEF TypeOK, LabelTypes, Others, Frame, storeVars, otherVars, dockerVars
    <2>4. CASE leader = TRUE
        BY <2>1, <2>2, <2>3, <2>4 DEF Submitted, dockerVars
    <2>5. CASE leader = FALSE
        BY <2>1, <2>2, <2>3, <2>5 DEF Submitted, dockerVars
    <2> QED
        BY <2>3, <2>4, <2>5
<1> QED
    BY <1>1, <1>2

LEMMA ElectEffect ==
    ASSUME TypeOK, NEW s \in Specs, Elect(s)
    PROVE  LabelTypes' /\ Others(s) /\ Frame /\ (Elected(s) \/ Submitted(s) \/ Dropped(s))
<1>0. pc[s] = "allocated" /\ UNCHANGED <<cbVars, dockerVars, otherVars>>
    BY DEF Elect
<1>1. CASE SlotTaken(vpn[s])
    BY <1>0, <1>1, EnqueueEffect DEF Elect
<1>2. CASE ~SlotTaken(vpn[s])
    <2>1. /\ Goto(s, "waitPort") /\ forwardedPending' = forwardedPending \cup {vpn[s]}
          /\ UNCHANGED <<storeVars, vpnPending, used, vpn, port, forwarded>>
        BY <1>2 DEF Elect
    <2>2. pc' \in [Specs -> Pcs] /\ pc'[s] = "waitPort" /\ \A t \in Specs : t # s => pc'[t] = pc[t]
        BY <2>1, GotoEffect DEF Pcs
    <2>3. LabelTypes' /\ Others(s) /\ Frame
        BY <1>0, <2>1, <2>2 DEF TypeOK, LabelTypes, Others, Frame, storeVars, otherVars, dockerVars
    <2>4. Elected(s)
        BY <1>0, <1>2, <2>1, <2>2 DEF Elected, dockerVars
    <2> QED
        BY <2>3, <2>4
<1> QED
    BY <1>1, <1>2

LEMMA ForwardedPortEffect ==
    ASSUME TypeOK, NEW s \in Specs, NEW ok \in BOOLEAN, ForwardedPort(s, ok)
    PROVE  LabelTypes' /\ Others(s) /\ Frame /\ (Submitted(s) \/ Dropped(s))
BY EnqueueEffect DEF ForwardedPort

LEMMA ExecuteEffect ==
    ASSUME TypeOK, NEW s \in Specs, Execute(s) \/ ExecuteSpec(s) \/ ExecuteFails(s) \/ Finish(s)
    PROVE  LabelTypes' /\ Others(s) /\ Frame /\ (Advanced(s) \/ Dropped(s))
<1>0. LabelTypes
    BY DEF TypeOK, LabelTypes
<1>1. ASSUME NEW label \in Pcs, Goto(s, label), UNCHANGED <<vpn, port, forwarded>>
      PROVE  /\ LabelTypes' /\ Others(s) /\ pc'[s] = label
             /\ vpn'[s] = vpn[s] /\ port'[s] = port[s] /\ forwarded'[s] = forwarded[s]
    BY <1>0, <1>1, GotoEffect DEF LabelTypes, Others
<1>2. CASE Execute(s)
    <2>0. pc[s] = "queued" /\ UNCHANGED <<reserveVars, dockerVars, otherVars>>
        BY <1>2 DEF Execute
    <2>1. CASE Goto(s, "creating") /\ UNCHANGED <<storeVars, vpn, port, forwarded>>
        <3>1. Frame
            BY <2>0, <2>1 DEF Frame, TypeOK, storeVars, dockerVars, otherVars
        <3> QED
            BY <1>1, <2>0, <2>1, <3>1 DEF Advanced, dockerVars, Pcs
    <2>2. CASE Abandon(s)
        <3>1. LabelTypes' /\ Others(s) /\ Frame
            BY <2>0, <2>2, AbandonEffect DEF Frame, dockerVars, otherVars
        <3>2. Dropped(s)
            BY <2>0, <2>2, AbandonEffect DEF Dropped, InFlight, dockerVars
        <3> QED
            BY <3>1, <3>2
    <2> QED
        BY <1>2, <2>1, <2>2 DEF Execute
<1>3. CASE ExecuteSpec(s)
    <2>1. Frame
        BY <1>3 DEF ExecuteSpec, Frame, TypeOK, storeVars, otherVars
    <2>2. /\ pc[s] = "creating" /\ node[vpn[s]] # "gone" /\ events' = Append(events, <<"start", s>>)
          /\ Goto(s, "started") /\ UNCHANGED <<reserveVars, vpn, port, forwarded>>
        BY <1>3 DEF ExecuteSpec
    <2>3. docker'[s] = "running" /\ \A t \in Specs : t # s => docker'[t] = docker[t]
        BY <1>3 DEF ExecuteSpec, TypeOK
    <2> QED
        BY <1>1, <2>1, <2>2, <2>3 DEF Advanced, Pcs
<1>4. CASE ExecuteFails(s)
    <2>0. pc[s] = "creating" /\ Abandon(s) /\ ReleaseSpec(s) /\ UNCHANGED <<dockerVars, otherVars>>
        BY <1>4 DEF ExecuteFails
    <2>1. LabelTypes' /\ Others(s) /\ Frame
        BY <2>0, AbandonEffect DEF Frame, dockerVars, otherVars
    <2>2. \/ forwardedPending' = forwardedPending
          \/ Claims(s) /\ forwardedPending' = forwardedPending \ {vpn[s]}
        BY <1>0, <2>0 DEF Claims, ReleaseSpec, LabelTypes
    <2>3. Dropped(s)
        BY <2>0, <2>2, AbandonEffect DEF Dropped, InFlight, ReleaseSpec, dockerVars
    <2> QED
        BY <2>1, <2>3
<1>5. CASE Finish(s)
    <2>1. Frame
        BY <1>5 DEF Finish, Frame, TypeOK, dockerVars, otherVars
    <2> QED
        BY <1>1, <1>5, <2>1 DEF Finish, Advanced, dockerVars, Pcs
<1> QED
    BY <1>2, <1>3, <1>4, <1>5

\* Every step of a provisioning is one of these.
LEMMA ProvisionEffect ==
    ASSUME TypeOK, NEW s \in Specs, Provision(s)
    PROVE  /\ LabelTypes' /\ Others(s) /\ Frame
           /\ Placed(s) \/ Allocated(s) \/ Elected(s) \/ Submitted(s) \/ Advanced(s) \/ Dropped(s)
BY SelectVpnEffect, AllocatePortsEffect, ElectEffect, ForwardedPortEffect, ExecuteEffect DEF Provision

\* A step that leaves the labels and the container of t alone, and adds neither a
\* record nor an event of it.
Untouched(t) ==
    /\ pc'[t] = pc[t] /\ vpn'[t] = vpn[t] /\ port'[t] = port[t] /\ forwarded'[t] = forwarded[t]
    /\ docker'[t] = docker[t] /\ (t \in engines' => t \in engines) /\ (t \in evicting' => t \in evicting)
    /\ (Started(t)' => Started(t)) /\ (Queued(<<"die", t>>)' => Queued(<<"die", t>>))

LEMMA UntouchedOK ==
    ASSUME NEW t \in Specs, SpecOK(t), Untouched(t)
    PROVE  SpecOK(t)' /\ (Held(t)' => Held(t))
<1>1. Held(t)' => Held(t)
    BY DEF Held, InFlight, Untouched
<1> QED
    BY <1>1 DEF SpecOK, Untouched

LEMMA ProvisionType ==
    ASSUME StageInv, NEW s \in Specs, Provision(s)
    PROVE  TypeOK'
<1>0. TypeOK
    BY DEF StageInv
<1>1. /\ LabelTypes' /\ Others(s) /\ Frame
      /\ Placed(s) \/ Allocated(s) \/ Elected(s) \/ Submitted(s) \/ Advanced(s) \/ Dropped(s)
    BY <1>0, ProvisionEffect
<1>2. breaker' \in {"closed", "open", "half"} /\ failures' \in 0 .. Threshold
    BY <1>0, BreakerType DEF Provision, SelectVpn, AllocatePorts, Elect, ForwardedPort, Execute, ExecuteSpec,
       ExecuteFails, Finish
<1>3. /\ vpnPending \in [Nodes -> Nat] /\ forwardedPending \subseteq Nodes /\ used \subseteq Ports
      /\ docker \in [Specs -> {"none", "running", "exited"}] /\ events \in Seq(Event)
    BY <1>0 DEF TypeOK, Event
<1>4. InFlight(s) => vpn[s] \in Nodes
    BY InFlightFacts
<1>5. vpnPending' \in [Nodes -> Nat]
    <2>1. CASE SelectVpn(s)
        <3>1. vpnPending' = vpnPending \/ \E n \in Candidates : vpnPending' = [vpnPending EXCEPT ![n] = @ + 1]
            BY <2>1 DEF SelectVpn
        <3>2. Candidates \subseteq Nodes
            BY DEF Candidates, LeastLoadedBelow, Schedulable
        <3> QED
            BY <1>3, <3>1, <3>2
    <2>2. CASE ~SelectVpn(s)
        <3>1. ~Placed(s)
            BY <2>2, <1>0, AllocatePortsEffect DEF Placed, Provision, AllocatePorts, Elect, ForwardedPort, Execute,
                  ExecuteSpec, ExecuteFails, Finish
        <3>2. UNCHANGED vpnPending \/ (InFlight(s) /\ vpnPending' = DecrPending(vpn[s]))
            BY <1>1, <3>1 DEF Allocated, Elected, Submitted, Advanced, Dropped, reserveVars
        <3> QED
            BY <1>0, <1>3, <1>4, <3>2, DecrEffect
    <2> QED
        BY <2>1, <2>2
<1>6. used' \subseteq Ports
    BY <1>1, <1>3 DEF Placed, Allocated, Elected, Submitted, Advanced, Dropped, reserveVars
<1>7. forwardedPending' \subseteq Nodes
    <2>1. CASE Elected(s)
        BY <1>3, <1>4, <2>1 DEF Elected, InFlight
    <2> QED
        BY <1>1, <1>3, <2>1 DEF Placed, Allocated, Submitted, Advanced, Dropped, reserveVars
<1>8. events' \in Seq(Event)
    <2>1. UNCHANGED events \/ events' = Append(events, <<"start", s>>)
        BY <1>1 DEF Placed, Allocated, Elected, Submitted, Advanced, Dropped
    <2>2. <<"start", s>> \in Event
        BY DEF Event
    <2> QED
        BY <1>3, <2>1, <2>2, EventAppended
<1>9. docker' \in [Specs -> {"none", "running", "exited"}]
    BY <1>3 DEF Provision, SelectVpn, AllocatePorts, Elect, ForwardedPort, Execute, ExecuteSpec, ExecuteFails,
                Finish, dockerVars
<1>10. UNCHANGED <<desired, engines, draining, unhealthy, stopping, evicting, node>> /\ intents' \subseteq Specs
    BY <1>1 DEF Frame
<1> QED
    BY <1>0, <1>1, <1>2, <1>5, <1>6, <1>7, <1>8, <1>9, <1>10 DEF TypeOK, LabelTypes, Event

LEMMA ProvisionStage ==
    ASSUME StageInv, NEW s \in Specs, Provision(s)
    PROVE  StageInv'
<1>0. TypeOK /\ EventOrder /\ SpecOK(s) /\ events \in Seq(Event)
    BY DEF StageInv, SpecInv, TypeOK, Event
<1>1. /\ LabelTypes' /\ Others(s) /\ UNCHANGED <<engines, evicting>>
      /\ Placed(s) \/ Allocated(s) \/ Elected(s) \/ Submitted(s) \/ Advanced(s) \/ Dropped(s)
    BY <1>0, ProvisionEffect DEF Frame
<1>2. CASE UNCHANGED <<docker, events>>
    <2>1. EventOrder' /\ \A x : Queued(x)' <=> Queued(x)
        BY <1>0, <1>2 DEF EventOrder, Queued
    <2>2. ASSUME NEW t \in Specs, t # s PROVE SpecOK(t)'
        <3>1. Untouched(t)
            BY <1>1, <1>2, <2>1, <2>2 DEF Others, Untouched, Started
        <3> QED
            BY <3>1, UntouchedOK DEF StageInv, SpecInv
    <2>3. Started(s)' <=> Started(s)
        BY <2>1 DEF Started
    <2>4. SpecOK(s)'
        <3>1. CASE Placed(s)
            <4>1. vpn'[s] \in Nodes
                BY <3>1 DEF Placed, Candidates, LeastLoadedBelow, Schedulable
            <4> QED
                BY <1>0, <1>1, <1>2, <2>1, <2>3, <3>1, <4>1 DEF Placed, SpecOK, Held, InFlight
        <3>2. CASE Allocated(s) \/ Elected(s) \/ Submitted(s) \/ Advanced(s)
            <4>1. (Held(s)' => Held(s)) /\ vpn'[s] = vpn[s] /\ (pc[s] # "placed" => port'[s] = port[s])
                BY <1>1, <1>2, <2>3, <3>2 DEF Allocated, Elected, Submitted, Advanced, Held, InFlight
            <4>2. Held(s)' => vpn'[s] \in Nodes /\ port'[s] \in Ports
                BY <1>0, <3>2, <4>1 DEF Allocated, Elected, Submitted, Advanced, SpecOK
            <4>3. /\ pc'[s] \in {"allocated", "waitPort"} => forwarded'[s] = FALSE
                  /\ pc'[s] \notin {"unused", "intent", "placed"}
                  /\ pc'[s] \notin {"started", "ended"} => docker[s] = "none"
                BY <1>0, <3>2 DEF Allocated, Elected, Submitted, Advanced, SpecOK
            <4> QED
                BY <1>0, <1>1, <1>2, <2>1, <2>3, <4>2, <4>3 DEF SpecOK
        <3>3. CASE Dropped(s)
            <4>1. docker[s] = "none" /\ pc'[s] = "ended"
                BY <1>0, <3>3 DEF Dropped, SpecOK, InFlight
            <4>2. ~Held(s)'
                BY <1>0, <1>1, <1>2, <2>3, <4>1 DEF Held, InFlight, SpecOK
            <4> QED
                BY <1>0, <1>1, <1>2, <2>1, <2>3, <4>1, <4>2 DEF SpecOK
        <3> QED
            BY <1>1, <3>1, <3>2, <3>3
    <2> QED
        BY <2>1, <2>2, <2>4, ProvisionType DEF StageInv, SpecInv
<1>3. CASE ~UNCHANGED <<docker, events>>
    <2>1. /\ pc[s] = "creating" /\ pc'[s] = "started" /\ docker'[s] = "running"
          /\ vpn'[s] = vpn[s] /\ port'[s] = port[s] /\ forwarded'[s] = forwarded[s]
          /\ \A t \in Specs : t # s => docker'[t] = docker[t]
          /\ events' = Append(events, <<"start", s>>)
        BY <1>1, <1>3 DEF Placed, Allocated, Elected, Submitted, Advanced, Dropped
    <2>2. <<"start", s>> \in Event
        BY DEF Event
    <2>3. /\ \A x : Queued(x)' <=> Queued(x) \/ x = <<"start", s>>
          /\ EventOrder /\ (\A t \in Specs : <<"start", s>> = <<"start", t>> => ~Queued(<<"die", t>>)) => EventOrder'
        BY <1>0, <2>1, <2>2, EventAppended
    <2>4. ~Queued(<<"die", s>>) /\ s \notin evicting /\ vpn[s] \in Nodes /\ port[s] \in Ports
        BY <2>1, InFlightFacts DEF InFlight
    <2>5. EventOrder'
        <3>1. \A t \in Specs : <<"start", s>> = <<"start", t>> => t = s
            OBVIOUS
        <3> QED
            BY <1>0, <2>3, <2>4, <3>1
    <2>6. ASSUME NEW t \in Specs, t # s PROVE SpecOK(t)'
        <3>1. <<"start", t>> # <<"start", s>> /\ <<"die", t>> # <<"start", s>>
            BY <2>6
        <3>2. Untouched(t)
            BY <1>1, <2>1, <2>3, <2>6, <3>1 DEF Others, Untouched, Started
        <3> QED
            BY <3>2, UntouchedOK DEF StageInv, SpecInv
    <2>7. SpecOK(s)'
        <3>1. <<"die", s>> # <<"start", s>>
            OBVIOUS
        <3>2. ~Queued(<<"die", s>>)'
            BY <2>3, <2>4, <3>1
        <3> QED
            BY <1>1, <2>1, <2>4, <3>2 DEF SpecOK
    <2> QED
        BY <2>5, <2>6, <2>7, ProvisionType DEF StageInv, SpecInv
<1> QED
    BY <1>2, <1>3

\* Steps that leave containers, events and the labels of every spec alone.
Labels == <<pc, vpn, port, forwarded>>

LEMMA QuietStage ==
    ASSUME StageInv, UNCHANGED <<Labels, docker, events>>, TypeOK',
           \A t \in Specs : (t \in engines' => t \in engines) /\ (t \in evicting' => t \in evicting)
    PROVE  StageInv'
<1>1. EventOrder' /\ \A x : Queued(x)' <=> Queued(x)
    BY DEF EventOrder, Queued, StageInv
<1>2. ASSUME NEW t \in Specs PROVE SpecOK(t)'
    <2>1. Untouched(t)
        BY <1>1 DEF Untouched, Started, Labels
    <2> QED
        BY <2>1, UntouchedOK DEF StageInv, SpecInv
<1> QED
    BY <1>1, <1>2 DEF StageInv, SpecInv

\* The demand, the API and the health manager's probes.
Administration ==
    \/ EnsureMinimum \/ NudgeDemand \/ UndoNudge \/ ForceReset
    \/ \E n \in 0 .. MaxReplicas : ScaleTo(n)
    \/ \E s \in Specs : DeleteEngine(s) \/ Probe(s) \/ EvictRemove(s)
    \/ \E n \in Nodes : NodeHealth(n) \/ DrainNode(n) \/ GcDraining(n)

LEMMA AdministrationStage == ASSUME StageInv, Administration PROVE StageInv'
<1>0. TypeOK
    BY DEF StageInv
<1>1. CASE \/ EnsureMinimum \/ NudgeDemand \/ UndoNudge \/ \E n \in 0 .. MaxReplicas : ScaleTo(n)
    <2>1. desired' \in 0 .. MaxReplicas
          /\ UNCHANGED <<intents, engines, draining, unhealthy, reserveVars, specVars, cbVars, dockerVars, otherVars>>
        BY <1>0, <1>1, DemandType
    <2>2. TypeOK'
        BY <1>0, <2>1 DEF TypeOK, reserveVars, specVars, cbVars, dockerVars, otherVars
    <2> QED
        BY <2>1, <2>2, QuietStage DEF Labels, specVars, dockerVars, otherVars
<1>2. CASE ForceReset
    <2>1. TypeOK'
        BY <1>0, <1>2 DEF ForceReset, TypeOK, storeVars, reserveVars, specVars, dockerVars, otherVars
    <2> QED
        BY <1>2, <2>1, QuietStage DEF ForceReset, Labels, storeVars, specVars, dockerVars, otherVars
<1>3. CASE \E s \in Specs : DeleteEngine(s) \/ Probe(s)
    <2>1. TypeOK' /\ UNCHANGED <<Labels, engines, evicting, docker, events>>
        BY <1>0, <1>3 DEF DeleteEngine, Probe, TypeOK, reserveVars, specVars, cbVars, dockerVars, otherVars, Labels
    <2> QED
        BY <2>1, QuietStage
<1>4. CASE \E s \in Specs : EvictRemove(s)
    <2>1. TypeOK' /\ UNCHANGED <<Labels, docker, events>> /\ engines' \subseteq engines /\ evicting' \subseteq evicting
        BY <1>0, <1>4 DEF EvictRemove, TypeOK, reserveVars, specVars, cbVars, dockerVars, Labels
    <2> QED
        BY <2>1, QuietStage
<1>5. CASE \E n \in Nodes : NodeHealth(n) \/ DrainNode(n) \/ GcDraining(n)
    <2>1. /\ UNCHANGED <<desired, intents, engines, unhealthy, reserveVars, specVars, cbVars, docker, events, otherVars>>
          /\ draining' \subseteq draining \cup engines
          /\ UNCHANGED node \/ \E n \in Nodes, x \in NodeStates : node' = [node EXCEPT ![n] = x]
        BY <1>5 DEF NodeHealth, DrainNode, GcDraining, NodeChanges, NodeStates, EnginesOn, storeVars, dockerVars
    <2>2. node' \in [Nodes -> NodeStates]
        BY <1>0, <2>1 DEF TypeOK
    <2>3. TypeOK'
        BY <1>0, <2>1, <2>2 DEF TypeOK, reserveVars, specVars, cbVars, otherVars
    <2> QED
        BY <2>1, <2>3, QuietStage DEF Labels, specVars, otherVars
<1> QED
    BY <1>1, <1>2, <1>3, <1>4, <1>5 DEF Administration

\* The reconciler adds intents; everything else it does is left to others.
LEMMA ReconcileEffect ==
    ASSUME TypeOK, Reconcile
    PROVE  /\ TypeOK' /\ UNCHANGED <<engines, reserveVars, vpn, port, forwarded, docker, events, node, evicting>>
           /\ \A t \in Specs : pc'[t] = pc[t] \/ (pc[t] = "unused" /\ pc'[t] = "intent")
<1>1. PICK drift \in SUBSET Active, new \in SUBSET Unused, D \in SUBSET Active, T \in SUBSET engines :
          Launch((draining \cup drift) \cup D, new, T)
    BY DEF Reconcile
<1>2. Active \subseteq engines
    BY DEF Active
<1>3. new \subseteq Specs /\ \A t \in new : pc[t] = "unused"
    BY DEF Unused
<1>4. pc' \in [Specs -> Pcs]
    BY <1>1 DEF TypeOK, Pcs, Launch
<1>5. \A t \in Specs : pc'[t] = pc[t] \/ (pc[t] = "unused" /\ pc'[t] = "intent")
    BY <1>1, <1>3 DEF Launch
<1> QED
    BY <1>1, <1>2, <1>3, <1>4, <1>5 DEF TypeOK, Launch, reserveVars, cbVars, dockerVars

LEMMA ReconcileStage == ASSUME StageInv, Reconcile PROVE StageInv'
<1>0. TypeOK
    BY DEF StageInv
<1>1. /\ TypeOK' /\ UNCHANGED <<engines, reserveVars, vpn, port, forwarded, docker, events, node, evicting>>
      /\ \A t \in Specs : pc'[t] = pc[t] \/ (pc[t] = "unused" /\ pc'[t] = "intent")
    BY <1>0, ReconcileEffect
<1>2. EventOrder' /\ \A x : Queued(x)' <=> Queued(x)
    BY <1>1 DEF EventOrder, Queued, StageInv
<1>3. ASSUME NEW t \in Specs PROVE SpecOK(t)'
    <2>1. SpecOK(t)
        BY DEF StageInv, SpecInv
    <2>2. Started(t)' <=> Started(t)
        BY <1>2 DEF Started
    <2>3. Held(t)' => Held(t)
        BY <1>1, <2>2 DEF Held, InFlight
    <2> QED
        BY <1>1, <1>2, <2>1, <2>2, <2>3 DEF SpecOK
<1> QED
    BY <1>1, <1>2, <1>3 DEF StageInv, SpecInv

\* A container exits.
LEMMA ExitsEffect ==
    ASSUME StageInv, NEW s \in Specs, Exits(s)
    PROVE  /\ docker \in [Specs -> {"none", "running", "exited"}] /\ docker' \in [Specs -> {"none", "running", "exited"}]
           /\ docker[s] = "running" /\ docker'[s] = "exited" /\ \A t \in Specs : t # s => docker'[t] = docker[t]
           /\ events' \in Seq(Event) /\ EventOrder'
           /\ \A x : Queued(x)' <=> Queued(x) \/ x = <<"die", s>>
           /\ \A t \in Specs : Started(t)' <=> Started(t)
<1>1. docker \in [Specs -> {"none", "running", "exited"}] /\ events \in Seq(Event) /\ EventOrder
    BY DEF StageInv, TypeOK, Event
<1>2. events' = Append(events, <<"die", s>>) /\ <<"die", s>> \in Event
    BY DEF Exits, Event
<1>3. \A t : <<"die", s>> # <<"start", t>>
    OBVIOUS
<1>4. events' \in Seq(Event) /\ EventOrder' /\ \A x : Queued(x)' <=> Queued(x) \/ x = <<"die", s>>
    BY <1>1, <1>2, <1>3, EventAppended
<1>5. \A t \in Specs : Started(t)' <=> Started(t)
    BY <1>3, <1>4 DEF Started
<1> QED
    BY <1>1, <1>4, <1>5 DEF Exits

LEMMA ExitsStage ==
    ASSUME StageInv, NEW s \in Specs, Exits(s), evicting' \subseteq evicting \cup {s}, stopping' \subseteq stopping,
           UNCHANGED <<storeVars, reserveVars, specVars, cbVars, node>>
    PROVE  StageInv'
<1>1. /\ docker' \in [Specs -> {"none", "running", "exited"}]
      /\ docker[s] = "running" /\ docker'[s] = "exited" /\ \A t \in Specs : t # s => docker'[t] = docker[t]
      /\ events' \in Seq(Event) /\ EventOrder'
      /\ \A x : Queued(x)' <=> Queued(x) \/ x = <<"die", s>>
      /\ \A t \in Specs : Started(t)' <=> Started(t)
    BY ExitsEffect
<1>2. TypeOK'
    BY <1>1 DEF StageInv, TypeOK, Event, storeVars, reserveVars, specVars, cbVars
<1>3. ASSUME NEW t \in Specs, t # s PROVE SpecOK(t)'
    <2>1. <<"die", t>> # <<"die", s>>
        BY <1>3
    <2>2. Untouched(t)
        BY <1>1, <1>3, <2>1 DEF Untouched, storeVars, specVars
    <2> QED
        BY <2>2, UntouchedOK DEF StageInv, SpecInv
<1>4. SpecOK(s)'
    <2>1. SpecOK(s)
        BY DEF StageInv, SpecInv
    <2>2. Held(s)
        BY <1>1 DEF Held
    <2> QED
        BY <1>1, <2>1, <2>2 DEF SpecOK, storeVars, specVars
<1> QED
    BY <1>1, <1>2, <1>3, <1>4 DEF StageInv, SpecInv

\* A container is told to stop, or stops.
Stops(s) == Dies(s) \/ StopContainer(s) \/ EvictStop(s)

LEMMA StopsStage == ASSUME StageInv, NEW s \in Specs, Stops(s) PROVE StageInv'
<1>1. CASE Exits(s)
    BY <1>1, ExitsStage DEF Stops, Dies, StopContainer, EvictStop, otherVars
<1>2. CASE ~Exits(s)
    <2>1. stopping' \subseteq stopping /\ UNCHANGED <<storeVars, reserveVars, specVars, cbVars, node, evicting, docker, events>>
        BY <1>2 DEF Stops, Dies, StopContainer, EvictStop
    <2>2. TypeOK'
        BY <2>1 DEF StageInv, TypeOK, storeVars, reserveVars, specVars, cbVars
    <2> QED
        BY <2>1, <2>2, QuietStage DEF Labels, storeVars, specVars
<1> QED
    BY <1>1, <1>2

LEMMA LoseEventsStage ==
    ASSUME StageInv, LoseEvents
    PROVE  StageInv' /\ \A t \in Specs : ~Started(t)'
<1>1. events' = <<>> /\ UNCHANGED <<storeVars, reserveVars, specVars, cbVars, docker, node, otherVars>>
    BY DEF LoseEvents
<1>2. TypeOK'
    BY <1>1 DEF StageInv, TypeOK, storeVars, reserveVars, specVars, cbVars, otherVars
<1>3. EventOrder' /\ \A x : ~Queued(x)'
    BY <1>1 DEF EventOrder, Queued
<1>4. ASSUME NEW t \in Specs PROVE SpecOK(t)'
    <2>1. Untouched(t)
        BY <1>1, <1>3 DEF Untouched, Started, storeVars, specVars, otherVars
    <2> QED
        BY <2>1, UntouchedOK DEF StageInv, SpecInv
<1> QED
    BY <1>2, <1>3, <1>4 DEF StageInv, SpecInv, Started

\* An engine that has a container keeps the port of its labels.
LEMMA EngineFacts ==
    ASSUME StageInv, NEW s \in Specs, docker[s] = "running" \/ s \in engines \/ Started(s)
    PROVE  /\ Held(s) /\ vpn[s] \in Nodes /\ port[s] \in Ports /\ pc[s] \in {"started", "ended"} /\ ~InFlight(s)
           /\ docker[s] \in {"running", "exited"}
<1>1. SpecOK(s) /\ docker[s] \in {"none", "running", "exited"}
    BY DEF StageInv, SpecInv, TypeOK
<1>2. docker[s] # "none" /\ Held(s)
    BY <1>1 DEF SpecOK, Held
<1> QED
    BY <1>1, <1>2 DEF SpecOK, InFlight

LEMMA RegisteredType ==
    ASSUME TypeOK, NEW new \in SUBSET Specs
    PROVE  Registered(new) \in [Nodes -> Nat] /\ Cleared(new) \subseteq Nodes
<1>1. ASSUME NEW n \in Nodes PROVE Greatest(0, vpnPending[n] - Cardinality({s \in new : vpn[s] = n})) \in Nat
    <2>1. Cardinality({s \in new : vpn[s] = n}) \in Nat
        BY FiniteParts
    <2> QED
        BY <2>1 DEF TypeOK, Greatest
<1> QED
    BY <1>1 DEF Registered, Cleared, TypeOK

LEMMA HandleStartStage ==
    ASSUME StageInv, NEW s \in Specs, HandleStart(s)
    PROVE  StageInv' /\ Started(s) /\ \A x : Queued(x)' => Queued(x)
<1>0. TypeOK /\ EventOrder /\ events \in Seq(Event)
    BY DEF StageInv, TypeOK, Event
<1>1. /\ events # <<>> /\ Head(events) = <<"start", s>> /\ events' = Tail(events)
      /\ used' = used \cup {port[s]} /\ engines' = engines \cup {s} /\ draining' = draining \ {s}
      /\ unhealthy' = unhealthy \ {s} /\ vpnPending' = Registered({s} \ engines)
      /\ forwardedPending' = Cleared({s})
      /\ UNCHANGED <<desired, intents, specVars, cbVars, docker, node, otherVars>>
    BY DEF HandleStart
<1>2. events' \in Seq(Event) /\ EventOrder' /\ Started(s) /\ \A x : Queued(x)' => Queued(x)
    BY <1>0, <1>1, EventTaken DEF Started
<1>3. Held(s) /\ port[s] \in Ports /\ docker[s] \in {"running", "exited"}
    BY <1>2, EngineFacts
<1>4. TypeOK'
    <2>1. vpnPending' \in [Nodes -> Nat] /\ forwardedPending' \subseteq Nodes
        BY <1>0, <1>1, RegisteredType
    <2> QED
        BY <1>0, <1>1, <1>2, <1>3, <2>1 DEF TypeOK, specVars, cbVars, otherVars, Event
<1>5. ASSUME NEW t \in Specs, t # s PROVE SpecOK(t)'
    <2>1. Untouched(t)
        BY <1>1, <1>2, <1>5 DEF Untouched, Started, specVars, otherVars
    <2> QED
        BY <2>1, UntouchedOK DEF StageInv, SpecInv
<1>6. SpecOK(s)'
    <2>1. SpecOK(s)
        BY DEF StageInv, SpecInv
    <2> QED
        BY <1>1, <1>2, <1>3, <2>1 DEF SpecOK, specVars, otherVars
<1> QED
    BY <1>2, <1>4, <1>5, <1>6 DEF StageInv, SpecInv

LEMMA HandleDieStage ==
    ASSUME StageInv, NEW s \in Specs, HandleDie(s)
    PROVE  /\ StageInv' /\ ~Held(s)' /\ \A x : Queued(x)' => Queued(x)
           /\ \A t \in Specs : t # s => Untouched(t)
<1>0. TypeOK /\ EventOrder /\ events \in Seq(Event) /\ SpecOK(s)
    BY DEF StageInv, SpecInv, TypeOK, Event
<1>1. /\ events # <<>> /\ Head(events) = <<"die", s>> /\ events' = Tail(events)
      /\ used' = used \ {port[x] : x \in {s} \cap engines} /\ engines' = engines \ {s} /\ draining' = draining \ {s}
      /\ unhealthy' = unhealthy \ {s}
      /\ UNCHANGED <<desired, intents, vpnPending, forwardedPending, pc, cbVars, docker, node, otherVars>>
    BY DEF HandleDie, RemoveEngines
<1>2. events' \in Seq(Event) /\ EventOrder' /\ ~Started(s)' /\ Queued(<<"die", s>>) /\ \A x : Queued(x)' => Queued(x)
    BY <1>0, <1>1, EventTaken
<1>3. LabelTypes' /\ Others(s) /\ vpn'[s] = None /\ port'[s] = None /\ forwarded'[s] = FALSE
    BY <1>0, <1>1 DEF HandleDie, NoLabels, LabelTypes, Others, TypeOK
<1>4. TypeOK'
    BY <1>0, <1>1, <1>2, <1>3 DEF TypeOK, LabelTypes, cbVars, otherVars, Event
<1>5. ASSUME NEW t \in Specs, t # s PROVE Untouched(t)
    BY <1>1, <1>2, <1>3, <1>5 DEF Untouched, Started, Others, otherVars
<1>6. docker[s] = "exited" /\ pc[s] \in {"started", "ended"}
    BY <1>0, <1>2 DEF SpecOK
<1>7. ~Held(s)'
    BY <1>1, <1>2, <1>6 DEF Held, InFlight
<1>8. SpecOK(s)'
    BY <1>1, <1>6, <1>7 DEF SpecOK
<1>9. ASSUME NEW t \in Specs, t # s PROVE SpecOK(t)'
    BY <1>5, <1>9, UntouchedOK DEF StageInv, SpecInv
<1> QED
    BY <1>2, <1>4, <1>5, <1>7, <1>8, <1>9 DEF StageInv, SpecInv

LEMMA ReindexStage ==
    ASSUME StageInv, NEW stale \in SUBSET Stale, Reindex(stale)
    PROVE  StageInv'
<1>0. TypeOK /\ EventOrder
    BY DEF StageInv
<1> DEFINE new == Running \ engines
<1>1. /\ new \subseteq Specs /\ \A t \in new : docker[t] = "running"
    BY DEF Running
<1>2. /\ engines' = (engines \cup new) \ stale /\ draining' = draining \ stale /\ unhealthy' = unhealthy \ stale
      /\ used' = (used \cup {port[s] : s \in new}) \ {port[s] : s \in stale}
      /\ vpnPending' = Registered(new) /\ forwardedPending' = Cleared(new)
      /\ UNCHANGED <<desired, intents, specVars, cbVars, dockerVars, otherVars>>
    BY DEF Reindex
<1> HIDE DEF new
<1>3. vpnPending' \in [Nodes -> Nat] /\ forwardedPending' \subseteq Nodes
    BY <1>0, <1>1, <1>2, RegisteredType
<1>4. \A t \in new : port[t] \in Ports
    BY <1>1, EngineFacts
<1>5. TypeOK'
    <2>1. used' \subseteq Ports
        BY <1>0, <1>2, <1>4 DEF TypeOK
    <2> QED
        BY <1>0, <1>1, <1>2, <1>3, <2>1 DEF TypeOK, specVars, cbVars, dockerVars, otherVars
<1>6. EventOrder' /\ \A x : Queued(x)' <=> Queued(x)
    BY <1>0, <1>2 DEF EventOrder, Queued, dockerVars
<1>7. ASSUME NEW t \in Specs PROVE SpecOK(t)'
    <2>1. SpecOK(t)
        BY DEF StageInv, SpecInv
    <2>2. UNCHANGED <<pc, vpn, port, forwarded, docker, evicting>> /\ (Started(t)' <=> Started(t))
        BY <1>2, <1>6 DEF specVars, dockerVars, otherVars, Started
    <2>3. (t \in engines' => t \in engines \/ docker[t] = "running") /\ (Held(t)' => Held(t))
        BY <1>1, <1>2, <2>2 DEF Held, InFlight
    <2> QED
        BY <1>6, <2>1, <2>2, <2>3 DEF SpecOK
<1> QED
    BY <1>5, <1>6, <1>7 DEF StageInv, SpecInv

LEMMA EmptyNodeStage ==
    ASSUME StageInv, NEW n \in Nodes, EmptyNode(n)
    PROVE  /\ StageInv' /\ node[n] = "draining" /\ node' = [node EXCEPT ![n] = "emptied"]
           /\ UNCHANGED <<storeVars, reserveVars, specVars, otherVars>>
           /\ \A t \in Specs : docker'[t] = IF vpn[t] = n /\ docker[t] = "running" THEN "exited" ELSE docker[t]
           /\ \A t \in Specs : Started(t)' <=> Started(t)
<1>0. TypeOK /\ EventOrder /\ events \in Seq(Event)
    BY DEF StageInv, TypeOK, Event
<1> DEFINE on == {s \in Running : vpn[s] = n}
<1>1. on \in SUBSET Specs /\ \A t \in Specs : t \in on <=> vpn[t] = n /\ docker[t] = "running"
    BY DEF Running
<1>2. /\ node[n] = "draining" /\ node' = [node EXCEPT ![n] = "emptied"]
      /\ docker' = [s \in Specs |-> IF s \in on THEN "exited" ELSE docker[s]]
      /\ UNCHANGED <<storeVars, reserveVars, specVars, cbVars, otherVars>>
    BY DEF EmptyNode, NodeChanges
<1>3. PICK order \in SetToSeqs(on) : events' = events \o [i \in DOMAIN order |-> <<"die", order[i]>>]
    BY DEF EmptyNode
<1> HIDE DEF on
<1>4. PICK k, m : Extended(on, k, m)
    BY <1>0, <1>1, <1>3, EventsExtended
<1>5. /\ events' \in Seq(Event) /\ EventOrder' /\ \A x : Queued(x) => Queued(x)'
      /\ \A x : Queued(x)' => Queued(x) \/ \E s \in on : x = <<"die", s>>
    BY <1>0, <1>1, <1>4, EventsAdded
<1>6. \A t \in Specs : Started(t)' <=> Started(t)
    <2>1. \A t, s : <<"start", t>> # <<"die", s>>
        OBVIOUS
    <2> QED
        BY <1>5, <2>1 DEF Started
<1>7. \A t \in Specs : Queued(<<"die", t>>)' => Queued(<<"die", t>>) \/ t \in on
    <2>1. \A t, s : <<"die", t>> = <<"die", s>> => s = t
        OBVIOUS
    <2> QED
        BY <1>5, <2>1
<1>8. TypeOK'
    <2>1. node' \in [Nodes -> NodeStates]
        BY <1>0, <1>2 DEF TypeOK, NodeStates
    <2>2. docker' \in [Specs -> {"none", "running", "exited"}]
        BY <1>0, <1>2 DEF TypeOK
    <2> QED
        BY <1>0, <1>2, <1>5, <2>1, <2>2 DEF TypeOK, Event, storeVars, reserveVars, specVars, cbVars, otherVars
<1>9. ASSUME NEW t \in Specs PROVE SpecOK(t)'
    <2>0. SpecOK(t)
        BY DEF StageInv, SpecInv
    <2>1. UNCHANGED <<pc, vpn, port, forwarded, engines, evicting>>
        BY <1>2 DEF storeVars, specVars, otherVars
    <2>2. CASE t \in on
        <3>1. Held(t) /\ docker[t] = "running" /\ docker'[t] = "exited"
            BY <1>1, <1>2, <2>2 DEF Held
        <3> QED
            BY <2>0, <2>1, <3>1, <1>6 DEF SpecOK
    <2>3. CASE t \notin on
        <3>1. docker'[t] = docker[t]
            BY <1>2, <2>3
        <3>2. Untouched(t)
            BY <1>6, <1>7, <2>1, <2>3, <3>1 DEF Untouched
        <3> QED
            BY <2>0, <3>2, UntouchedOK
    <2> QED
        BY <2>2, <2>3
<1> QED
    BY <1>1, <1>2, <1>5, <1>6, <1>8, <1>9 DEF StageInv, SpecInv

LEMMA ForgetNodeStage ==
    ASSUME StageInv, NEW n \in Nodes, ForgetNode(n)
    PROVE  StageInv'
<1>1. /\ node' = [node EXCEPT ![n] = "gone"] /\ engines' \subseteq engines
      /\ engines' = engines \ EnginesOn(n) /\ draining' = draining \ EnginesOn(n) /\ unhealthy' = unhealthy \ EnginesOn(n)
      /\ used' \subseteq used
      /\ UNCHANGED <<desired, intents, vpnPending, forwardedPending, specVars, cbVars, docker, events, otherVars>>
    BY DEF ForgetNode, RemoveEngines, NodeChanges
<1>2. node' \in [Nodes -> NodeStates]
    BY <1>1 DEF StageInv, TypeOK, NodeStates
<1>3. TypeOK'
    BY <1>1, <1>2 DEF StageInv, TypeOK, specVars, cbVars, otherVars
<1> QED
    BY <1>1, <1>3, QuietStage DEF Labels, specVars, otherVars

LEMMA InitStage == ASSUME Init PROVE StageInv /\ \A s \in Specs : ~Held(s)
<1>1. TypeOK
    BY DEF Init, TypeOK, Pcs, NodeStates
<1>2. EventOrder /\ \A x : ~Queued(x)
    BY DEF Init, EventOrder, Queued
<1>3. ASSUME NEW s \in Specs PROVE SpecOK(s) /\ ~Held(s)
    <2>1. ~Held(s)
        BY <1>2 DEF Init, Held, InFlight, Started
    <2> QED
        BY <1>2, <2>1 DEF Init, SpecOK, Started
<1> QED
    BY <1>1, <1>2, <1>3 DEF StageInv, SpecInv

\* The steps of Next that are not a step of a provisioning or of the administration.
Docker ==
    \/ LoseEvents \/ \E stale \in SUBSET Stale : Reindex(stale)
    \/ \E s \in Specs : HandleStart(s) \/ HandleDie(s) \/ Stops(s)
    \/ \E n \in Nodes : EmptyNode(n) \/ ForgetNode(n)

LEMMA NextSteps == ASSUME Next PROVE Administration \/ Reconcile \/ Docker \/ \E s \in Specs : Provision(s)
BY DEF Next, Administration, Docker, Watch, Stops

LEMMA StageStep == ASSUME StageInv, [Next]_vars PROVE StageInv'
<1>1. CASE UNCHANGED vars
    <2>1. UNCHANGED <<Labels, docker, events, engines, evicting>> /\ TypeOK'
        BY <1>1 DEF StageInv, TypeOK, vars, storeVars, reserveVars, specVars, cbVars, dockerVars, otherVars, Labels
    <2> QED
        BY <2>1, QuietStage
<1>2. CASE Docker
    BY <1>2, LoseEventsStage, ReindexStage, HandleStartStage, HandleDieStage, StopsStage, EmptyNodeStage,
       ForgetNodeStage DEF Docker
<1> QED
    BY <1>1, <1>2, NextSteps, AdministrationStage, ReconcileStage, ProvisionStage

\* Whatever Docker and the network do, demand stays within its limits, an engine that is
\* marked or found unhealthy is in the store, the ports in use are ports of the pool, and
\* no pending counter of a node falls below zero (provisioner.go, store.go, events.go).
THEOREM EngineTypeCorrect == Spec => []TypeOK
<1>1. Init => StageInv
    BY InitStage
<1>2. StageInv /\ [Next]_vars => StageInv'
    BY StageStep
<1>3. StageInv => TypeOK
    BY DEF StageInv
<1> QED
    BY <1>1, <1>2, <1>3, PTL DEF Spec

-----------------------------------------------------------------------------
(* What holds while calls and events of Docker do not overlap with what     *)
(* they are about.                                                          *)

Calm == "slowDocker" \notin Env

\* An engine that is being evicted is not registered again, and a node that has been
\* emptied stays empty.
SeenInv == \A s \in evicting : ~Started(s)
NodeInv == \A s \in Specs : vpn[s] \in Nodes /\ node[vpn[s]] \in {"emptied", "gone"} =>
                                ~InFlight(s) /\ docker[s] # "running"

PlaceInv == StageInv /\ SeenInv /\ NodeInv

\* A spec on a node that has been emptied is neither on its way nor running.
NodeOK(s) == vpn[s] \in Nodes /\ node[vpn[s]] \in {"emptied", "gone"} => ~InFlight(s) /\ docker[s] # "running"

LEMMA ProvisionPlace ==
    ASSUME PlaceInv, NEW s \in Specs, Provision(s)
    PROVE  PlaceInv'
<1>0. StageInv /\ TypeOK /\ StageInv'
    BY ProvisionStage DEF PlaceInv, StageInv
<1>1. /\ LabelTypes' /\ Others(s) /\ UNCHANGED <<engines, evicting, node>>
      /\ Placed(s) \/ Allocated(s) \/ Elected(s) \/ Submitted(s) \/ Advanced(s) \/ Dropped(s)
    BY <1>0, ProvisionEffect DEF Frame
<1>2. \A t \in Specs : t # s => docker'[t] = docker[t]
    BY <1>1 DEF Placed, Allocated, Elected, Submitted, Advanced, Dropped
<1>3. ASSUME NEW t \in Specs, t # s PROVE NodeOK(t)'
    BY <1>1, <1>2, <1>3 DEF PlaceInv, NodeInv, NodeOK, Others, InFlight
<1>4. NodeOK(s)'
    <2>1. CASE Placed(s)
        <3>1. vpn'[s] \in Nodes /\ node[vpn'[s]] \in {"ready", "starting"}
            BY <2>1 DEF Placed, Candidates, LeastLoadedBelow, Schedulable
        <3> QED
            BY <1>1, <3>1 DEF NodeOK
    <2>2. CASE ~Placed(s)
        <3>1. vpn'[s] \in Nodes => vpn'[s] = vpn[s]
            BY <1>1, <2>2 DEF Allocated, Elected, Submitted, Advanced, Dropped
        <3>2. InFlight(s)' \/ docker'[s] = "running" => InFlight(s) \/ docker[s] = "running"
            BY <1>1, <2>2 DEF Allocated, Elected, Submitted, Advanced, Dropped, InFlight
        <3> QED
            BY <1>1, <3>1, <3>2 DEF NodeOK, PlaceInv, NodeInv
    <2> QED
        BY <2>1, <2>2
<1>5. SeenInv'
    <2> SUFFICES ASSUME NEW t \in evicting, Started(t)' PROVE FALSE
        BY <1>1 DEF SeenInv
    <2>1. ~Started(t) /\ t \in Specs
        BY <1>0 DEF PlaceInv, SeenInv, TypeOK
    <2>2. CASE UNCHANGED events
        BY <2>1, <2>2 DEF Started, Queued
    <2>3. CASE ~UNCHANGED events
        <3>1. pc[s] = "creating" /\ events' = Append(events, <<"start", s>>)
            BY <1>1, <2>3 DEF Placed, Allocated, Elected, Submitted, Advanced, Dropped
        <3>2. s \notin evicting
            BY <1>0, <3>1, InFlightFacts DEF InFlight
        <3>3. events \in Seq(Event) /\ <<"start", s>> \in Event /\ <<"start", t>> # <<"start", s>>
            BY <1>0, <3>2 DEF TypeOK, Event
        <3>4. \A x : Queued(x)' <=> Queued(x) \/ x = <<"start", s>>
            BY <3>1, <3>3, EventAppended
        <3> QED
            BY <2>1, <3>3, <3>4 DEF Started
    <2> QED
        BY <2>2, <2>3
<1> QED
    BY <1>0, <1>3, <1>4, <1>5 DEF PlaceInv, NodeInv, NodeOK

\* Every other step.
LEMMA PlaceKept ==
    ASSUME PlaceInv, StageInv',
           \A s \in Specs : s \in evicting' => ~Started(s)',
           \A s \in Specs :
              /\ vpn'[s] \in Nodes => vpn'[s] = vpn[s]
              /\ (InFlight(s)' => InFlight(s)) /\ (docker'[s] = "running" => docker[s] = "running"),
           \A n \in Nodes : node'[n] = "gone" => node[n] \in {"emptied", "gone"},
           \A n \in Nodes : node'[n] = "emptied" /\ node[n] # "emptied" =>
                               \A s \in Specs : vpn[s] = n => ~InFlight(s)' /\ docker'[s] # "running"
    PROVE  PlaceInv'
<1>1. SeenInv'
    BY DEF SeenInv, StageInv, TypeOK
<1>2. NodeInv'
    BY DEF NodeInv, PlaceInv
<1> QED
    BY <1>1, <1>2 DEF PlaceInv

LEMMA PlaceStep == ASSUME Calm, PlaceInv, [Next]_vars PROVE PlaceInv'
<1>0. StageInv /\ TypeOK /\ StageInv' /\ \A s \in Specs : s \in evicting => ~Started(s)
    BY StageStep DEF PlaceInv, StageInv, SeenInv
<1>1. CASE UNCHANGED vars
    <2>1. UNCHANGED <<pc, vpn, docker, node, events, evicting>>
        BY <1>1 DEF vars, specVars, dockerVars, otherVars
    <2> QED
        BY <1>0, <2>1, PlaceKept DEF InFlight, Started, Queued
<1>2. CASE Administration
    <2>1. /\ UNCHANGED <<pc, vpn, docker, events>> /\ evicting' \subseteq evicting
          /\ UNCHANGED node \/ \E n \in Nodes, x \in NodeStates \ {"emptied", "gone"} : node' = [node EXCEPT ![n] = x]
        <3>1. CASE \/ EnsureMinimum \/ NudgeDemand \/ UndoNudge \/ \E n \in 0 .. MaxReplicas : ScaleTo(n)
            BY <1>0, <3>1, DemandType DEF specVars, dockerVars, otherVars
        <3>2. CASE ForceReset
            BY <3>2 DEF ForceReset, specVars, dockerVars, otherVars
        <3>3. CASE \E s \in Specs : DeleteEngine(s) \/ Probe(s) \/ EvictRemove(s)
            BY <3>3 DEF DeleteEngine, Probe, EvictRemove, specVars, dockerVars, otherVars
        <3>4. CASE \E n \in Nodes : NodeHealth(n) \/ DrainNode(n) \/ GcDraining(n)
            BY <3>4 DEF NodeHealth, DrainNode, GcDraining, NodeChanges, NodeStates, specVars, dockerVars, otherVars
        <3> QED
            BY <1>2, <3>1, <3>2, <3>3, <3>4 DEF Administration
    <2>2. \A n \in Nodes : node'[n] \in {"emptied", "gone"} => node'[n] = node[n]
        BY <1>0, <2>1 DEF TypeOK
    <2>3. \A s \in Specs : s \in evicting' => ~Started(s)'
        BY <1>0, <2>1 DEF Started, Queued
    <2> QED
        BY <1>0, <2>1, <2>2, <2>3, PlaceKept DEF InFlight
<1>3. CASE Reconcile
    <2>1. /\ UNCHANGED <<vpn, docker, events, node, evicting>>
          /\ \A t \in Specs : pc'[t] = pc[t] \/ (pc[t] = "unused" /\ pc'[t] = "intent")
        BY <1>0, <1>3, ReconcileEffect
    <2>2. \A s \in Specs : InFlight(s)' => InFlight(s)
        BY <2>1 DEF InFlight
    <2>3. \A s \in Specs : s \in evicting' => ~Started(s)'
        BY <1>0, <2>1 DEF Started, Queued
    <2> QED
        BY <1>0, <2>1, <2>2, <2>3, PlaceKept
<1>4. CASE LoseEvents \/ \E stale \in SUBSET Stale : Reindex(stale)
    <2>1. UNCHANGED <<pc, vpn, docker, node, evicting>>
        BY <1>4 DEF LoseEvents, Reindex, specVars, dockerVars, otherVars
    <2>2. \A s \in Specs : Started(s)' => Started(s)
        BY <1>0, <1>4, LoseEventsStage DEF Reindex, dockerVars, Started, Queued
    <2> QED
        BY <1>0, <2>1, <2>2, PlaceKept DEF InFlight
<1>5. CASE \E s \in Specs : HandleStart(s)
    <2>1. UNCHANGED <<pc, vpn, docker, node, evicting>>
        BY <1>5 DEF HandleStart, specVars, otherVars
    <2>2. \A t \in Specs : Started(t)' => Started(t)
        BY <1>0, <1>5, HandleStartStage DEF Started
    <2> QED
        BY <1>0, <2>1, <2>2, PlaceKept DEF InFlight
<1>6. ASSUME NEW s \in Specs, HandleDie(s) PROVE PlaceInv'
    <2>1. UNCHANGED <<pc, docker, node, evicting>> /\ vpn' = [vpn EXCEPT ![s] = None]
        BY <1>6 DEF HandleDie, NoLabels, otherVars
    <2>2. \A t \in Specs : vpn'[t] \in Nodes => vpn'[t] = vpn[t]
        BY <1>0, <2>1 DEF TypeOK
    <2>3. \A t \in Specs : Started(t)' => Started(t)
        BY <1>0, <1>6, HandleDieStage DEF Started
    <2> QED
        BY <1>0, <2>1, <2>2, <2>3, PlaceKept DEF InFlight
<1>7. ASSUME NEW s \in Specs, Stops(s) PROVE PlaceInv'
    <2>1. UNCHANGED <<pc, vpn, node>>
        BY <1>7 DEF Stops, Dies, StopContainer, EvictStop, specVars
    <2>2. CASE Exits(s)
        <3>1. /\ docker[s] = "running" /\ docker'[s] = "exited" /\ \A t \in Specs : t # s => docker'[t] = docker[t]
              /\ \A t \in Specs : Started(t)' <=> Started(t)
            BY <1>0, <2>2, ExitsEffect
        <3>2. evicting' = evicting \/ (evicting' = evicting \cup {s} /\ StartSeen(s))
            BY <1>7 DEF Stops, Dies, StopContainer, EvictStop, otherVars
        <3>3. StartSeen(s) => ~Started(s)
            BY DEF StartSeen, Started, Queued, Calm
        <3>4. \A t \in Specs : t \in evicting' => ~Started(t)'
            BY <1>0, <3>1, <3>2, <3>3 DEF PlaceInv, SeenInv
        <3> QED
            BY <1>0, <2>1, <3>1, <3>4, PlaceKept DEF InFlight
    <2>3. CASE ~Exits(s)
        <3>1. UNCHANGED <<docker, events, evicting>>
            BY <1>7, <2>3 DEF Stops, Dies, StopContainer, EvictStop
        <3> QED
            BY <1>0, <2>1, <3>1, PlaceKept DEF InFlight, Started, Queued
    <2> QED
        BY <2>2, <2>3
<1>8. ASSUME NEW n \in Nodes, EmptyNode(n) PROVE PlaceInv'
    <2>1. /\ node' = [node EXCEPT ![n] = "emptied"] /\ UNCHANGED <<storeVars, reserveVars, specVars, otherVars>>
          /\ \A t \in Specs : docker'[t] = IF vpn[t] = n /\ docker[t] = "running" THEN "exited" ELSE docker[t]
          /\ \A t \in Specs : Started(t)' <=> Started(t)
        BY <1>0, <1>8, EmptyNodeStage
    <2>2. \A s \in Specs : vpn[s] = n => ~InFlight(s) /\ docker'[s] # "running"
        BY <1>8, <2>1 DEF EmptyNode, Calm
    <2>3. \A m \in Nodes : m # n => node'[m] = node[m]
        BY <1>0, <2>1 DEF TypeOK
    <2>4. node'[n] = "emptied"
        BY <1>0, <2>1 DEF TypeOK
    <2> QED
        BY <1>0, <2>1, <2>2, <2>3, <2>4, PlaceKept DEF InFlight, specVars, otherVars
<1>9. ASSUME NEW n \in Nodes, ForgetNode(n) PROVE PlaceInv'
    <2>1. /\ UNCHANGED <<pc, vpn, docker, events, evicting>> /\ node[n] = "emptied" /\ node' = [node EXCEPT ![n] = "gone"]
        BY <1>9 DEF ForgetNode, NodeChanges, specVars, otherVars
    <2>2. \A m \in Nodes : m # n => node'[m] = node[m]
        BY <1>0, <2>1 DEF TypeOK
    <2>3. node'[n] = "gone"
        BY <1>0, <2>1 DEF TypeOK
    <2> QED
        BY <1>0, <2>1, <2>2, <2>3, PlaceKept DEF InFlight, Started, Queued
<1> QED
    BY <1>1, <1>2, <1>3, <1>4, <1>5, <1>6, <1>7, <1>8, <1>9, NextSteps, ProvisionPlace DEF Docker

\* A port somebody holds is in use, and nobody else holds it.
PortInv ==
    /\ \A s \in Specs : Held(s) /\ port[s] # None => port[s] \in used
    /\ \A s, t \in Specs : s # t /\ Held(s) /\ Held(t) /\ port[s] # None => port[s] # port[t]

\* A leader, or who waits to become one, has the claim to its node's slot or is in the
\* store, and is the only one.
Lead(s) == Held(s) /\ Claims(s)
LeadInv ==
    /\ \A s \in Specs : Lead(s) => vpn[s] \in forwardedPending \/ s \in engines
    /\ \A s, t \in Specs : s # t /\ Lead(s) /\ Lead(t) => vpn[s] # vpn[t]

\* Whoever is held on a node and not in the store is counted as pending, and the node's
\* limit was asked for all of them.
HeldOn(n) == {s \in Specs : vpn[s] = n /\ Held(s)}
Absent(n) == HeldOn(n) \ engines
HardLimit == Greatest(Preferred, MaxPerVpn)
CountInv == \A n \in Nodes : Cardinality(Absent(n)) <= vpnPending[n] /\ Cardinality(HeldOn(n)) <= HardLimit

ShareInv == PortInv /\ LeadInv /\ CountInv

\* A step that nobody comes to hold anything by.
Stay(t) ==
    Held(t)' => /\ Held(t) /\ vpn'[t] = vpn[t] /\ port'[t] = port[t]
                /\ (Claims(t)' => Claims(t)) /\ (t \in engines => t \in engines')

LEMMA PortKept ==
    ASSUME PortInv, \A t \in Specs : Held(t)' /\ port'[t] # None =>
                                        Held(t) /\ port'[t] = port[t] /\ port[t] \in used'
    PROVE  PortInv'
BY DEF PortInv

LEMMA LeadKept ==
    ASSUME LeadInv, \A t \in Specs : Lead(t)' => /\ Lead(t) /\ vpn'[t] = vpn[t]
                                                 /\ vpn[t] \in forwardedPending' \/ t \in engines'
    PROVE  LeadInv'
BY DEF LeadInv

\* gone: those that were pending and are so no more.
LEMMA CountKept ==
    ASSUME TypeOK, CountInv, \A t \in Specs : Stay(t),
           NEW n \in Nodes, NEW gone \in SUBSET Absent(n), \A t \in gone : t \notin Absent(n)'
    PROVE  /\ Cardinality(gone) \in Nat /\ Cardinality(gone) <= vpnPending[n]
           /\ Cardinality(Absent(n)') <= vpnPending[n] - Cardinality(gone)
           /\ Cardinality(HeldOn(n)') <= HardLimit
<1>1. HeldOn(n) \in SUBSET Specs /\ Absent(n) \in SUBSET Specs /\ gone \in SUBSET Specs
    BY DEF HeldOn, Absent
<1>2. HeldOn(n)' \subseteq HeldOn(n)
    BY DEF HeldOn, Stay
<1>3. Absent(n)' \subseteq Absent(n) \ gone
    BY DEF Absent, HeldOn, Stay
<1> DEFINE A == Absent(n)
           B == A \ gone
           A2 == Absent(n)'
           H == HeldOn(n)
           H2 == HeldOn(n)'
<1>4. /\ IsFiniteSet(A) /\ IsFiniteSet(B) /\ IsFiniteSet(gone) /\ IsFiniteSet(H) /\ Cardinality(A) \in Nat
      /\ Cardinality(B) \in Nat /\ Cardinality(gone) \in Nat /\ Cardinality(H) \in Nat
    BY <1>1, FiniteParts
<1>5. Cardinality(A) <= vpnPending[n] /\ Cardinality(H) <= HardLimit /\ vpnPending[n] \in Nat /\ HardLimit \in Nat
    BY DEF CountInv, TypeOK, HardLimit, Greatest
<1>6. A2 \subseteq B /\ H2 \subseteq H /\ gone \subseteq A
    BY <1>2, <1>3
<1>7. B = A \ gone
    OBVIOUS
<1> HIDE DEF A, B, A2, H, H2
<1>8. Cardinality(B) = Cardinality(A) - Cardinality(A \cap gone) /\ A \cap gone = gone
    BY <1>4, <1>6, <1>7, FS_Difference
<1>9. Cardinality(A2) \in Nat /\ Cardinality(A2) <= Cardinality(B)
    BY <1>4, <1>6, FS_Subset, FS_CardinalityType
<1>10. Cardinality(H2) \in Nat /\ Cardinality(H2) <= Cardinality(H)
    BY <1>4, <1>6, FS_Subset, FS_CardinalityType
<1>11. Cardinality(A2) <= vpnPending[n] - Cardinality(gone) /\ Cardinality(gone) <= vpnPending[n]
    BY <1>4, <1>5, <1>8, <1>9
<1>12. Cardinality(H2) <= HardLimit
    BY <1>4, <1>5, <1>10
<1> QED
    BY <1>4, <1>11, <1>12 DEF A2, H2

\* A step by which nobody gains and nobody loses.
LEMMA StayShare ==
    ASSUME TypeOK, ShareInv, \A t \in Specs : Stay(t), UNCHANGED reserveVars
    PROVE  ShareInv'
<1>1. PortInv'
    BY PortKept DEF ShareInv, Stay, PortInv, reserveVars
<1>2. LeadInv'
    BY LeadKept DEF ShareInv, Stay, LeadInv, Lead, reserveVars
<1>3. ASSUME NEW n \in Nodes PROVE Cardinality(Absent(n)') <= vpnPending'[n] /\ Cardinality(HeldOn(n)') <= HardLimit
    <2>1. {} \in SUBSET Absent(n) /\ vpnPending[n] \in Nat /\ vpnPending' = vpnPending
        BY DEF TypeOK, reserveVars
    <2>2. Cardinality({}) = 0
        BY FS_EmptySet
    <2>3. /\ Cardinality(Absent(n)') <= vpnPending[n] - Cardinality({})
          /\ Cardinality(HeldOn(n)') <= HardLimit
        BY <2>1, CountKept DEF ShareInv
    <2> QED
        BY <2>1, <2>2, <2>3
<1> QED
    BY <1>1, <1>2, <1>3 DEF ShareInv, CountInv, Absent

LEMMA CeilPositive == ASSUME NEW a \in Nat \ {0}, NEW b \in Nat \ {0} PROVE Ceil(a, b) \in Nat \ {0}
<1>1. (a + b - 1) \div b \in Int /\ (a + b - 1) \div b >= 1
    OBVIOUS
<1> QED
    BY <1>1 DEF Ceil

\* The limit of selectVPNContainer is never none.
LEMMA LimitRange == ASSUME TypeOK PROVE EffectiveLimit \in 1 .. Preferred
<1>1. CASE desired = 0
    BY <1>1 DEF EffectiveLimit
<1>2. CASE desired # 0
    <2>1. desired \in Nat \ {0}
        BY <1>2 DEF TypeOK
    <2>2. RequiredNodes \in Nat \ {0}
        BY <2>1, CeilPositive DEF RequiredNodes
    <2>3. Ceil(desired, RequiredNodes) \in Nat \ {0}
        BY <2>1, <2>2, CeilPositive
    <2> QED
        BY <1>2, <2>3 DEF EffectiveLimit, Least
<1> QED
    BY <1>1, <1>2

LEMMA CandidateLoad ==
    ASSUME TypeOK, NEW n \in Candidates
    PROVE  /\ n \in Nodes /\ node[n] \in {"ready", "starting"} /\ Cardinality(EnginesOn(n)) \in Nat
           /\ Cardinality(EnginesOn(n)) + vpnPending[n] < HardLimit
<1>1. n \in Nodes /\ node[n] \in {"ready", "starting"}
    BY DEF Candidates, LeastLoadedBelow, Schedulable
<1>2. EffectiveLimit \in 1 .. Preferred
    BY LimitRange
<1>3. Cardinality(EnginesOn(n)) \in Nat
    BY FiniteParts DEF EnginesOn, TypeOK
<1>4. vpnPending[n] \in Nat
    BY <1>1 DEF TypeOK
<1>5. \/ n \in LeastLoadedBelow(EffectiveLimit)
      \/ MaxPerVpn > EffectiveLimit /\ n \in LeastLoadedBelow(MaxPerVpn)
    BY DEF Candidates
<1>6. \E limit \in 1 .. HardLimit : limit # 0 /\ n \in LeastLoadedBelow(limit)
    BY <1>2, <1>5 DEF HardLimit, Greatest
<1>7. PICK limit \in 1 .. HardLimit : n \in LeastLoadedBelow(limit)
    BY <1>6
<1>8. HardLimit \in Nat
    BY DEF HardLimit, Greatest
<1>9. Load(n) < limit
    BY <1>7, <1>8 DEF LeastLoadedBelow
<1> QED
    BY <1>1, <1>3, <1>4, <1>8, <1>9 DEF Load

LEMMA ProvisionStay ==
    ASSUME StageInv, NEW s \in Specs, Provision(s)
    PROVE  /\ \A t \in Specs : t # s => Stay(t) /\ (Claims(t)' <=> Claims(t)) /\ vpn'[t] = vpn[t] /\ port'[t] = port[t]
           /\ Submitted(s) \/ Advanced(s) \/ Dropped(s) => Stay(s)
           /\ Dropped(s) => ~Held(s)'
           /\ UNCHANGED engines
<1>0. TypeOK /\ SpecOK(s) /\ events \in Seq(Event)
    BY DEF StageInv, SpecInv, TypeOK, Event
<1>1. /\ LabelTypes' /\ Others(s) /\ UNCHANGED <<engines, evicting, node>>
      /\ Placed(s) \/ Allocated(s) \/ Elected(s) \/ Submitted(s) \/ Advanced(s) \/ Dropped(s)
    BY <1>0, ProvisionEffect DEF Frame
<1>2. \A t \in Specs : t # s => docker'[t] = docker[t]
    BY <1>1 DEF Placed, Allocated, Elected, Submitted, Advanced, Dropped
<1>3. UNCHANGED events \/ events' = Append(events, <<"start", s>>)
    BY <1>1 DEF Placed, Allocated, Elected, Submitted, Advanced, Dropped
<1>4. <<"start", s>> \in Event /\ \A t \in Specs : t # s => <<"start", t>> # <<"start", s>>
    BY DEF Event
<1>5. \A t \in Specs : t # s => (Started(t)' <=> Started(t))
    <2>1. CASE UNCHANGED events
        BY <2>1 DEF Started, Queued
    <2>2. CASE events' = Append(events, <<"start", s>>)
        <3>1. \A x : Queued(x)' <=> Queued(x) \/ x = <<"start", s>>
            BY <1>0, <1>4, <2>2, EventAppended
        <3> QED
            BY <1>4, <3>1 DEF Started
    <2> QED
        BY <1>3, <2>1, <2>2
<1>6. ASSUME NEW t \in Specs, t # s
      PROVE  Stay(t) /\ (Claims(t)' <=> Claims(t)) /\ vpn'[t] = vpn[t] /\ port'[t] = port[t]
    BY <1>1, <1>2, <1>5, <1>6 DEF Others, Stay, Held, InFlight, Claims
<1>7. CASE Submitted(s) \/ Advanced(s)
    <2>1. vpn'[s] = vpn[s] /\ port'[s] = port[s] /\ (Claims(s)' => Claims(s))
        BY <1>1, <1>7 DEF Submitted, Advanced, Claims, LabelTypes
    <2>2. Held(s)' => Held(s)
        <3>1. CASE InFlight(s)
            BY <3>1 DEF Held
        <3>2. CASE ~InFlight(s)
            <4>1. pc[s] = "started" /\ pc'[s] = "ended" /\ UNCHANGED <<docker, events>>
                BY <1>7, <3>2 DEF Submitted, Advanced, InFlight
            <4> QED
                BY <1>1, <4>1 DEF Held, InFlight, Started, Queued
        <3> QED
            BY <3>1, <3>2
    <2>3. ~Dropped(s)
        BY <1>7 DEF Submitted, Advanced, Dropped, InFlight
    <2>4. Stay(s)
        BY <1>1, <2>1, <2>2 DEF Stay
    <2> QED
        BY <1>1, <1>6, <2>3, <2>4
<1>8. CASE Dropped(s)
    <2>1. docker[s] = "none" /\ pc'[s] = "ended" /\ UNCHANGED <<docker, events>>
        BY <1>0, <1>8 DEF Dropped, SpecOK, InFlight
    <2>2. ~Held(s)'
        BY <1>0, <1>1, <2>1 DEF Held, InFlight, SpecOK, Started, Queued
    <2>3. Stay(s)
        BY <2>2 DEF Stay
    <2> QED
        BY <1>1, <1>6, <2>2, <2>3
<1>9. CASE ~Submitted(s) /\ ~Advanced(s) /\ ~Dropped(s)
    BY <1>1, <1>6, <1>9
<1> QED
    BY <1>7, <1>8, <1>9

LEMMA DroppedShare ==
    ASSUME StageInv, ShareInv, NEW s \in Specs, Provision(s), Dropped(s)
    PROVE  ShareInv'
<1>0. TypeOK /\ UNCHANGED engines /\ ~Held(s)' /\ \A t \in Specs : Stay(t)
    BY ProvisionStay DEF StageInv
<1>1. CASE UNCHANGED reserveVars
    BY <1>0, <1>1, StayShare
<1>2. CASE ~UNCHANGED reserveVars
    <2>0. /\ InFlight(s) /\ vpnPending' = DecrPending(vpn[s])
          /\ used' = used \/ (pc[s] # "placed" /\ used' = used \ {port[s]})
          /\ forwardedPending' = forwardedPending \/ (Claims(s) /\ forwardedPending' = forwardedPending \ {vpn[s]})
        BY <1>2 DEF Dropped
    <2>1. Held(s) /\ vpn[s] \in Nodes /\ s \notin engines /\ (pc[s] # "placed" => port[s] \in Ports)
        BY <2>0, InFlightFacts
    <2>2. PortInv'
        <3> SUFFICES ASSUME NEW t \in Specs, Held(t)', port'[t] # None
                     PROVE  Held(t) /\ port'[t] = port[t] /\ port[t] \in used'
            BY PortKept DEF ShareInv
        <3>1. t # s /\ Held(t) /\ port'[t] = port[t]
            BY <1>0 DEF Stay
        <3> QED
            BY <2>0, <2>1, <3>1 DEF ShareInv, PortInv
    <2>3. LeadInv'
        <3> SUFFICES ASSUME NEW t \in Specs, Lead(t)'
                     PROVE  Lead(t) /\ vpn'[t] = vpn[t] /\ (vpn[t] \in forwardedPending' \/ t \in engines')
            BY LeadKept DEF ShareInv
        <3>1. t # s /\ Lead(t) /\ vpn'[t] = vpn[t]
            BY <1>0 DEF Stay, Lead
        <3>2. vpn[t] \in forwardedPending \/ t \in engines
            BY <3>1 DEF ShareInv, LeadInv
        <3>3. Claims(s) => vpn[t] # vpn[s]
            BY <2>1, <3>1 DEF ShareInv, LeadInv, Lead
        <3> QED
            BY <1>0, <2>0, <3>1, <3>2, <3>3
    <2>4. ASSUME NEW n \in Nodes PROVE Cardinality(Absent(n)') <= vpnPending'[n] /\ Cardinality(HeldOn(n)') <= HardLimit
        <3>0. vpnPending[n] \in Nat /\ vpnPending[vpn[s]] \in Nat
            BY <1>0, <2>1 DEF TypeOK
        <3>1. CASE n = vpn[s]
            <4>1. {s} \in SUBSET Absent(n) /\ s \notin Absent(n)'
                BY <1>0, <2>1, <3>1 DEF Absent, HeldOn
            <4>2. Cardinality({s}) = 1
                BY FS_Singleton
            <4>3. /\ Cardinality({s}) <= vpnPending[n]
                  /\ Cardinality(Absent(n)') <= vpnPending[n] - Cardinality({s})
                  /\ Cardinality(HeldOn(n)') <= HardLimit
                BY <1>0, <4>1, CountKept DEF ShareInv
            <4>4. vpnPending'[n] = vpnPending[n] - 1
                BY <1>0, <2>0, <2>1, <3>0, <3>1, <4>2, <4>3, DecrEffect
            <4> QED
                BY <4>2, <4>3, <4>4
        <3>2. CASE n # vpn[s]
            <4>1. {} \in SUBSET Absent(n) /\ vpnPending'[n] = vpnPending[n]
                BY <1>0, <2>0, <2>1, <3>2, DecrEffect
            <4>2. Cardinality({}) = 0
                BY FS_EmptySet
            <4>3. /\ Cardinality(Absent(n)') <= vpnPending[n] - Cardinality({})
                  /\ Cardinality(HeldOn(n)') <= HardLimit
                BY <1>0, <4>1, CountKept DEF ShareInv
            <4> QED
                BY <3>0, <4>1, <4>2, <4>3
        <3> QED
            BY <3>1, <3>2
    <2> QED
        BY <2>2, <2>3, <2>4 DEF ShareInv, CountInv
<1> QED
    BY <1>1, <1>2

\* A step by which nobody gains a place.
LEMMA CountUnchanged ==
    ASSUME TypeOK, CountInv, UNCHANGED vpnPending, UNCHANGED engines,
           \A t \in Specs : Held(t)' => Held(t) /\ vpn'[t] = vpn[t]
    PROVE  CountInv'
<1> SUFFICES ASSUME NEW n \in Nodes
             PROVE  Cardinality(Absent(n)') <= vpnPending[n] /\ Cardinality(HeldOn(n)') <= HardLimit
    BY DEF CountInv
<1>1. HeldOn(n)' \subseteq HeldOn(n) /\ Absent(n)' \subseteq Absent(n)
    BY DEF HeldOn, Absent
<1>2. IsFiniteSet(HeldOn(n)) /\ IsFiniteSet(Absent(n))
    BY FiniteParts DEF HeldOn, Absent
<1>3. /\ Cardinality(HeldOn(n)') <= Cardinality(HeldOn(n)) /\ Cardinality(Absent(n)') <= Cardinality(Absent(n))
      /\ Cardinality(HeldOn(n)) \in Nat /\ Cardinality(HeldOn(n)') \in Nat
      /\ Cardinality(Absent(n)) \in Nat /\ Cardinality(Absent(n)') \in Nat
    BY <1>1, <1>2, FS_Subset, FS_CardinalityType
<1>4. /\ Cardinality(HeldOn(n)) <= HardLimit /\ Cardinality(Absent(n)) <= vpnPending[n]
      /\ HardLimit \in Nat /\ vpnPending[n] \in Nat
    BY DEF CountInv, TypeOK, HardLimit, Greatest
<1> QED
    BY <1>3, <1>4

LEMMA SubmittedShare ==
    ASSUME StageInv, ShareInv, NEW s \in Specs, Provision(s), Submitted(s) \/ Advanced(s)
    PROVE  ShareInv'
<1>0. /\ TypeOK /\ SpecOK(s) /\ LabelTypes' /\ UNCHANGED <<engines, vpnPending, used>> /\ \A t \in Specs : Stay(t)
    BY ProvisionStay, ProvisionEffect DEF StageInv, SpecInv, Submitted, Advanced, reserveVars
<1>1. CASE UNCHANGED reserveVars
    BY <1>0, <1>1, StayShare
<1>2. CASE ~UNCHANGED reserveVars
    <2>0. /\ pc[s] = "waitPort" /\ pc'[s] = "queued" /\ forwarded'[s] = FALSE
          /\ forwardedPending' = forwardedPending \ {vpn[s]}
        BY <1>0, <1>2 DEF Submitted, Advanced, reserveVars
    <2>1. Lead(s) /\ ~Claims(s)'
        BY <2>0 DEF Lead, Claims, Held, InFlight
    <2>2. PortInv'
        BY <1>0, PortKept DEF ShareInv, Stay, PortInv
    <2>3. LeadInv'
        <3> SUFFICES ASSUME NEW t \in Specs, Lead(t)'
                     PROVE  Lead(t) /\ vpn'[t] = vpn[t] /\ (vpn[t] \in forwardedPending' \/ t \in engines')
            BY LeadKept DEF ShareInv
        <3>1. t # s /\ Lead(t) /\ vpn'[t] = vpn[t]
            BY <1>0, <2>1 DEF Stay, Lead
        <3>2. (vpn[t] \in forwardedPending \/ t \in engines) /\ vpn[t] # vpn[s]
            BY <2>1, <3>1 DEF ShareInv, LeadInv
        <3> QED
            BY <1>0, <2>0, <3>1, <3>2
    <2>4. CountInv'
        BY <1>0, CountUnchanged DEF ShareInv, Stay
    <2> QED
        BY <2>2, <2>3, <2>4 DEF ShareInv
<1> QED
    BY <1>1, <1>2

LEMMA AllocatedShare ==
    ASSUME StageInv, ShareInv, NEW s \in Specs, Provision(s), Allocated(s)
    PROVE  ShareInv'
<1>0. /\ TypeOK /\ SpecOK(s) /\ UNCHANGED <<engines, vpnPending, forwardedPending>>
      /\ \A t \in Specs : t # s => Stay(t) /\ port'[t] = port[t]
    BY ProvisionStay DEF StageInv, SpecInv, Allocated
<1>1. /\ pc[s] = "placed" /\ pc'[s] = "allocated" /\ Held(s) /\ vpn'[s] = vpn[s] /\ forwarded'[s] = FALSE
      /\ port'[s] \in Ports \ used /\ used' = used \cup {port'[s]}
    BY <1>0 DEF Allocated, SpecOK, Held, InFlight
<1>2. PortInv'
    <2>1. \A t \in Specs : t # s /\ Held(t)' /\ port'[t] # None => Held(t) /\ port'[t] = port[t] /\ port[t] \in used
        BY <1>0 DEF ShareInv, PortInv, Stay
    <2> QED
        BY <1>1, <2>1 DEF ShareInv, PortInv
<1>3. LeadInv'
    <2>1. ~Claims(s)'
        BY <1>1 DEF Claims
    <2> QED
        BY <1>0, <2>1, LeadKept DEF ShareInv, LeadInv, Lead, Stay
<1>4. CountInv'
    BY <1>0, <1>1, CountUnchanged DEF ShareInv, Stay
<1> QED
    BY <1>2, <1>3, <1>4 DEF ShareInv

LEMMA ElectedShare ==
    ASSUME StageInv, ShareInv, NEW s \in Specs, Provision(s), Elected(s)
    PROVE  ShareInv'
<1>0. /\ TypeOK /\ UNCHANGED <<engines, vpnPending, used>>
      /\ \A t \in Specs : t # s => Stay(t) /\ vpn'[t] = vpn[t]
    BY ProvisionStay DEF StageInv, Elected
<1>1. /\ pc[s] = "allocated" /\ pc'[s] = "waitPort" /\ ~SlotTaken(vpn[s]) /\ Held(s)
      /\ vpn'[s] = vpn[s] /\ port'[s] = port[s] /\ forwardedPending' = forwardedPending \cup {vpn[s]}
    BY DEF Elected, Held, InFlight
<1>2. PortInv'
    BY <1>0, <1>1, PortKept DEF ShareInv, Stay, PortInv
<1>3. CountInv'
    BY <1>0, <1>1, CountUnchanged DEF ShareInv, Stay
<1>4. \A t \in Specs : t # s /\ Lead(t)' => Lead(t) /\ (vpn[t] \in forwardedPending \/ t \in engines)
    BY <1>0 DEF ShareInv, LeadInv, Lead, Stay
<1>5. ASSUME NEW t \in Specs, t # s, Lead(t)' PROVE vpn[t] # vpn[s]
    <2> SUFFICES ASSUME vpn[t] = vpn[s] PROVE FALSE
        OBVIOUS
    <2>1. t \in engines /\ Claims(t)
        BY <1>1, <1>4, <1>5 DEF SlotTaken, Lead
    <2>2. pc[t] \in {"started", "ended"}
        BY <2>1, EngineFacts
    <2>3. forwarded[t] = TRUE
        BY <2>1, <2>2 DEF Claims
    <2>4. t \in EnginesOn(vpn[s])
        BY <2>1 DEF EnginesOn
    <2>5. forwarded[t]
        BY <2>3
    <2>6. SlotTaken(vpn[s])
        BY <2>4, <2>5 DEF SlotTaken
    <2> QED
        BY <1>1, <2>6
<1>6. LeadInv'
    <2>1. ASSUME NEW t \in Specs, Lead(t)' PROVE vpn'[t] \in forwardedPending' \/ t \in engines'
        BY <1>0, <1>1, <1>4, <2>1
    <2>2. ASSUME NEW t \in Specs, NEW u \in Specs, t # u, Lead(t)', Lead(u)' PROVE vpn'[t] # vpn'[u]
        <3>1. CASE t # s /\ u # s
            BY <1>0, <1>4, <2>2, <3>1 DEF ShareInv, LeadInv
        <3>2. CASE t = s \/ u = s
            BY <1>0, <1>1, <1>5, <2>2, <3>2
        <3> QED
            BY <3>1, <3>2
    <2> QED
        BY <2>1, <2>2 DEF LeadInv
<1> QED
    BY <1>2, <1>3, <1>6 DEF ShareInv

LEMMA PlacedShare ==
    ASSUME StageInv, ShareInv, NEW s \in Specs, Provision(s), Placed(s)
    PROVE  ShareInv'
<1>0. /\ TypeOK /\ SpecOK(s) /\ UNCHANGED <<engines, used, forwardedPending>>
      /\ \A t \in Specs : t # s => Stay(t) /\ vpn'[t] = vpn[t]
    BY ProvisionStay DEF StageInv, SpecInv, Placed
<1>1. /\ pc[s] = "intent" /\ pc'[s] = "placed" /\ port'[s] = None /\ forwarded'[s] = FALSE
      /\ vpn'[s] \in Candidates /\ vpnPending'[vpn'[s]] = vpnPending[vpn'[s]] + 1
      /\ \A n \in Nodes : n # vpn'[s] => vpnPending'[n] = vpnPending[n]
    BY <1>0 DEF Placed, SpecOK
<1>2. PortInv'
    BY <1>0, <1>1, PortKept DEF ShareInv, Stay, PortInv
<1>3. LeadInv'
    <2>1. ~Claims(s)'
        BY <1>1 DEF Claims
    <2> QED
        BY <1>0, <2>1, LeadKept DEF ShareInv, LeadInv, Lead, Stay
<1>4. ASSUME NEW n \in Nodes PROVE Cardinality(Absent(n)') <= vpnPending'[n] /\ Cardinality(HeldOn(n)') <= HardLimit
    <2> DEFINE A == Absent(n)
               A2 == Absent(n)'
               H == HeldOn(n)
               H2 == HeldOn(n)'
               E == EnginesOn(n)
    <2>1. /\ IsFiniteSet(A) /\ IsFiniteSet(H) /\ IsFiniteSet(E)
          /\ Cardinality(A) \in Nat /\ Cardinality(H) \in Nat /\ Cardinality(E) \in Nat
        BY <1>0, FiniteParts DEF Absent, HeldOn, EnginesOn, TypeOK
    <2>2. /\ Cardinality(A) <= vpnPending[n] /\ Cardinality(H) <= HardLimit
          /\ HardLimit \in Nat /\ vpnPending[n] \in Nat
        BY <1>0 DEF ShareInv, CountInv, TypeOK, HardLimit, Greatest
    <2>3. CASE n # vpn'[s]
        <3>1. A2 \subseteq A /\ H2 \subseteq H
            BY <1>0, <2>3 DEF Absent, HeldOn, Stay
        <3> HIDE DEF A, A2, H, H2
        <3>2. /\ Cardinality(A2) \in Nat /\ Cardinality(A2) <= Cardinality(A)
              /\ Cardinality(H2) \in Nat /\ Cardinality(H2) <= Cardinality(H)
            BY <2>1, <3>1, FS_Subset, FS_CardinalityType
        <3>3. Cardinality(A2) <= vpnPending'[n] /\ Cardinality(H2) <= HardLimit
            BY <1>1, <2>1, <2>2, <2>3, <3>2
        <3> QED
            BY <3>3 DEF A2, H2
    <2>4. CASE n = vpn'[s]
        <3>1. A2 \subseteq A \cup {s} /\ H2 \subseteq H \cup {s}
            BY <1>0, <2>4 DEF Absent, HeldOn, Stay
        <3>2. H \subseteq A \cup E
            BY DEF Absent, HeldOn, EnginesOn
        <3>3. Cardinality(E) + vpnPending[n] < HardLimit
            BY <1>0, <1>1, <2>4, CandidateLoad
        <3> HIDE DEF A, A2, H, H2, E
        <3>4. ASSUME NEW S, IsFiniteSet(S), NEW x, NEW S2, S2 \subseteq S \cup {x}
              PROVE  Cardinality(S) \in Nat /\ Cardinality(S2) \in Nat /\ Cardinality(S2) <= Cardinality(S) + 1
            <4>1. /\ IsFiniteSet(S \cup {x}) /\ Cardinality(S) \in Nat /\ Cardinality(S \cup {x}) \in Nat
                  /\ Cardinality(S \cup {x}) <= Cardinality(S) + 1
                <5>1. /\ IsFiniteSet(S \cup {x})
                      /\ Cardinality(S \cup {x}) = IF x \in S THEN Cardinality(S) ELSE Cardinality(S) + 1
                    BY <3>4, FS_AddElement, Zenon
                <5>2. Cardinality(S) \in Nat
                    BY <3>4, FS_CardinalityType, Zenon
                <5> QED
                    BY <5>1, <5>2
            <4>2. Cardinality(S2) \in Nat /\ Cardinality(S2) <= Cardinality(S \cup {x})
                BY <3>4, <4>1, FS_Subset, FS_CardinalityType
            <4> QED
                BY <4>1, <4>2
        <3>5. Cardinality(A2) \in Nat /\ Cardinality(A2) <= Cardinality(A) + 1
            BY <2>1, <3>1, <3>4
        <3>6. Cardinality(H2) \in Nat /\ Cardinality(H2) <= Cardinality(H) + 1
            BY <2>1, <3>1, <3>4
        <3>7. Cardinality(H) <= Cardinality(A) + Cardinality(E)
            <4>1. /\ IsFiniteSet(A \cup E)
                  /\ Cardinality(A \cup E) = Cardinality(A) + Cardinality(E) - Cardinality(A \cap E)
                BY <2>1, FS_Union
            <4>2. Cardinality(A \cap E) \in Nat
                BY <2>1, FS_Intersection, FS_CardinalityType
            <4>3. Cardinality(H) <= Cardinality(A \cup E)
                BY <3>2, <4>1, FS_Subset
            <4>4. Cardinality(A \cup E) \in Nat
                BY <4>1, FS_CardinalityType
            <4> QED
                BY <2>1, <4>1, <4>2, <4>3, <4>4
        <3>8. Cardinality(A2) <= vpnPending'[n] /\ Cardinality(H2) <= HardLimit
            BY <1>1, <2>1, <2>2, <2>4, <3>3, <3>5, <3>6, <3>7
        <3> QED
            BY <3>8 DEF A2, H2
    <2> QED
        BY <2>3, <2>4
<1> QED
    BY <1>2, <1>3, <1>4 DEF ShareInv, CountInv

LEMMA ProvisionShare ==
    ASSUME StageInv, ShareInv, NEW s \in Specs, Provision(s)
    PROVE  ShareInv'
<1>1. Placed(s) \/ Allocated(s) \/ Elected(s) \/ Submitted(s) \/ Advanced(s) \/ Dropped(s)
    BY ProvisionEffect DEF StageInv
<1> QED
    BY <1>1, PlacedShare, AllocatedShare, ElectedShare, SubmittedShare, DroppedShare

\* An engine whose container does not run is forgotten with its record.
LEMMA Forgotten ==
    ASSUME StageInv, NEW t \in Specs, t \in engines \/ docker[t] = "exited", docker[t] # "running",
           pc'[t] = pc[t], docker'[t] = docker[t], t \notin engines', ~Started(t)'
    PROVE  ~Held(t)'
<1>1. SpecOK(t) /\ docker[t] \in {"none", "running", "exited"}
    BY DEF StageInv, SpecInv, TypeOK
<1> QED
    BY <1>1 DEF SpecOK, Held, InFlight

\* A step that leaves the labels of specs alone and forgets the records of gone, whose
\* containers do not run, with the ports of freed.
Removes(gone, freed) ==
    /\ gone \subseteq Specs /\ \A t \in gone : ~Held(t)'
    /\ \A t \in Specs \ gone : Untouched(t) /\ (t \in engines => t \in engines')
    /\ freed \subseteq gone \cap engines /\ used' = used \ {port[t] : t \in freed}
    /\ UNCHANGED <<vpnPending, forwardedPending>>

LEMMA RemovalShare ==
    ASSUME StageInv, ShareInv, NEW gone, NEW freed, Removes(gone, freed)
    PROVE  ShareInv'
<1> USE DEF Removes
<1>0. TypeOK /\ \A t \in Specs : SpecOK(t)
    BY DEF StageInv, SpecInv
<1>1. \A t \in Specs : Stay(t)
    <2> SUFFICES ASSUME NEW t \in Specs, Held(t)' PROVE Stay(t)
        BY DEF Stay
    <2>1. Untouched(t) /\ (t \in engines => t \in engines') /\ Held(t)
        BY <1>0, UntouchedOK
    <2> QED
        BY <2>1 DEF Stay, Untouched, Claims
<1>2. PortInv'
    <2> SUFFICES ASSUME NEW t \in Specs, Held(t)', port'[t] # None
                 PROVE  Held(t) /\ port'[t] = port[t] /\ port[t] \in used'
        BY PortKept DEF ShareInv
    <2>1. Held(t) /\ port'[t] = port[t] /\ t \notin gone
        BY <1>1 DEF Stay
    <2>2. \A u \in freed : Held(u) /\ u # t
        BY <2>1 DEF Held
    <2>3. \A u \in freed : port[u] # port[t]
        BY <2>1, <2>2 DEF ShareInv, PortInv
    <2>4. port[t] \in used
        BY <2>1 DEF ShareInv, PortInv
    <2> QED
        BY <2>1, <2>3, <2>4
<1>3. LeadInv'
    BY <1>1, LeadKept DEF ShareInv, LeadInv, Lead, Stay
<1>4. ASSUME NEW n \in Nodes PROVE Cardinality(Absent(n)') <= vpnPending'[n] /\ Cardinality(HeldOn(n)') <= HardLimit
    <2>1. {} \in SUBSET Absent(n) /\ vpnPending[n] \in Nat
        BY <1>0 DEF TypeOK
    <2>2. Cardinality({}) = 0
        BY FS_EmptySet
    <2>3. /\ Cardinality(Absent(n)') <= vpnPending[n] - Cardinality({})
          /\ Cardinality(HeldOn(n)') <= HardLimit
        BY <1>0, <1>1, <2>1, CountKept DEF ShareInv
    <2> QED
        BY <2>1, <2>2, <2>3
<1> QED
    BY <1>2, <1>3, <1>4 DEF ShareInv, CountInv

\* A step that registers new and again, whose containers run or whose start is reported;
\* again have a record already.  The records of old are forgotten.
Registers(new, again, old) ==
    /\ new \subseteq Specs /\ new \cap engines = {} /\ \A t \in new : Held(t)
    /\ again \subseteq Specs /\ again \subseteq engines
    /\ old \subseteq Specs /\ old \cap (new \cup again) = {} /\ \A t \in old : ~Held(t)' /\ t \in engines
    /\ UNCHANGED Labels
    /\ new \cup again \subseteq engines' /\ \A t \in engines : t \notin old => t \in engines'
    /\ \A t \in Specs : Held(t)' => Held(t)
    /\ vpnPending' = Registered(new) /\ forwardedPending' = Cleared(new \cup again)
    /\ \A t \in Specs : t \in new \cup again \/ (port[t] \in used /\ \A u \in old : port[u] # port[t]) =>
                           port[t] \in used'

LEMMA RegisterShare ==
    ASSUME StageInv, ShareInv, NEW new, NEW again, NEW old, Registers(new, again, old)
    PROVE  ShareInv'
<1> USE DEF Registers
<1>0. TypeOK /\ \A t \in Specs : SpecOK(t)
    BY DEF StageInv, SpecInv
<1>1. \A t \in Specs : Stay(t)
    BY DEF Stay, Labels, Claims
<1>2. \A t \in old \cup again : Held(t)
    BY DEF Held
<1>3. PortInv'
    <2> SUFFICES ASSUME NEW t \in Specs, Held(t)', port'[t] # None
                 PROVE  Held(t) /\ port'[t] = port[t] /\ port[t] \in used'
        BY PortKept DEF ShareInv
    <2>1. Held(t) /\ port'[t] = port[t] /\ t \notin old /\ port[t] \in used
        BY <1>1 DEF Stay, ShareInv, PortInv
    <2>2. \A u \in old : port[u] # port[t]
        BY <1>2, <2>1 DEF ShareInv, PortInv
    <2> QED
        BY <2>1, <2>2
<1>4. LeadInv'
    <2> SUFFICES ASSUME NEW t \in Specs, Lead(t)'
                 PROVE  Lead(t) /\ vpn'[t] = vpn[t] /\ (vpn[t] \in forwardedPending' \/ t \in engines')
        BY LeadKept DEF ShareInv
    <2>1. Lead(t) /\ vpn'[t] = vpn[t] /\ t \notin old
        BY <1>1 DEF Stay, Lead
    <2>2. CASE t \in engines'
        BY <2>1, <2>2
    <2>3. CASE t \notin engines'
        <3>1. t \notin engines /\ t \notin new \cup again /\ vpn[t] \in forwardedPending
            BY <2>1, <2>3 DEF ShareInv, LeadInv
        <3>2. ASSUME NEW u \in new \cup again, forwarded[u] PROVE vpn[u] # vpn[t]
            <4>1. Lead(u) /\ u # t /\ u \in Specs
                BY <1>0, <1>2, <3>1, <3>2 DEF Lead, Claims, TypeOK
            <4> QED
                BY <2>1, <4>1 DEF ShareInv, LeadInv
        <3>3. vpn[t] \in Cleared(new \cup again)
            BY <3>1, <3>2 DEF Cleared
        <3> QED
            BY <2>1, <3>3
    <2> QED
        BY <2>2, <2>3
<1>5. ASSUME NEW n \in Nodes PROVE Cardinality(Absent(n)') <= vpnPending'[n] /\ Cardinality(HeldOn(n)') <= HardLimit
    <2> DEFINE here == {t \in new : vpn[t] = n}
    <2>1. here \in SUBSET Absent(n) /\ \A t \in here : t \notin Absent(n)'
        BY DEF Absent, HeldOn
    <2>2. vpnPending'[n] = Greatest(0, vpnPending[n] - Cardinality(here)) /\ vpnPending[n] \in Nat
        BY <1>0 DEF Registered, TypeOK
    <2> HIDE DEF here
    <2>3. /\ Cardinality(here) \in Nat /\ Cardinality(here) <= vpnPending[n]
          /\ Cardinality(Absent(n)') <= vpnPending[n] - Cardinality(here)
          /\ Cardinality(HeldOn(n)') <= HardLimit
        BY <1>0, <1>1, <2>1, CountKept DEF ShareInv
    <2>4. vpnPending'[n] = vpnPending[n] - Cardinality(here)
        BY <2>2, <2>3 DEF Greatest
    <2> QED
        BY <2>3, <2>4
<1> QED
    BY <1>3, <1>4, <1>5 DEF ShareInv, CountInv

LEMMA HandleStartShare ==
    ASSUME StageInv, ShareInv, NEW s \in Specs, HandleStart(s)
    PROVE  ShareInv'
<1> DEFINE new == {s} \ engines
           again == {s} \cap engines
<1>1. Held(s) /\ \A t \in Specs : Started(t)' => Started(t)
    BY HandleStartStage, EngineFacts DEF Started
<1>2. /\ engines' = engines \cup {s} /\ used' = used \cup {port[s]} /\ vpnPending' = Registered(new)
      /\ forwardedPending' = Cleared({s}) /\ UNCHANGED <<specVars, docker>>
    BY DEF HandleStart
<1>3. /\ new \in SUBSET Specs /\ again \in SUBSET Specs /\ new \cup again = {s} /\ new \cap engines = {}
      /\ again \subseteq engines /\ \A t \in new : t = s
    OBVIOUS
<1> HIDE DEF new, again
<1>4. \A t \in Specs : Held(t)' => Held(t)
    BY <1>1, <1>2 DEF Held, InFlight, specVars
<1>5. forwardedPending' = Cleared(new \cup again)
    BY <1>2, <1>3
<1>6. UNCHANGED Labels
    BY <1>2 DEF Labels, specVars
<1>7. \A t \in Specs : t \in new \cup again \/ (port[t] \in used /\ \A u \in {} : port[u] # port[t]) => port[t] \in used'
    BY <1>2, <1>3
<1>8. new \cup again \subseteq engines' /\ engines \subseteq engines' /\ \A t \in new : Held(t)
    BY <1>1, <1>2, <1>3
<1> QED
    <2>1. Registers(new, again, {})
        BY <1>2, <1>3, <1>4, <1>5, <1>6, <1>7, <1>8 DEF Registers
    <2> QED
        BY <2>1, RegisterShare

LEMMA ReindexShare ==
    ASSUME Calm, StageInv, ShareInv, NEW stale \in SUBSET Stale, Reindex(stale)
    PROVE  ShareInv'
<1> DEFINE new == Running \ engines
<1>1. /\ engines' = (engines \cup new) \ stale
      /\ used' = (used \cup {port[s] : s \in new}) \ {port[s] : s \in stale}
      /\ vpnPending' = Registered(new) /\ forwardedPending' = Cleared(new)
      /\ UNCHANGED <<specVars, dockerVars>>
    BY DEF Reindex
<1>2. /\ new \in SUBSET Specs /\ new \cap engines = {} /\ \A t \in new : docker[t] = "running" /\ Held(t)
    BY DEF Running, Held
<1>3. engines \subseteq Specs
    BY DEF StageInv, TypeOK
<1>4. stale \in SUBSET Specs /\ \A t \in stale : t \in engines /\ docker[t] # "running" /\ ~Started(t) /\ Held(t)
    BY <1>3 DEF Stale, Running, StartSeen, Started, Queued, Calm, Held
<1> HIDE DEF new
<1>5. \A t \in Specs : Started(t)' <=> Started(t)
    BY <1>1 DEF Started, Queued, dockerVars
<1>6. UNCHANGED <<Labels, pc, docker>>
    BY <1>1 DEF Labels, specVars, dockerVars
<1>7. \A t \in Specs : Held(t)' => Held(t)
    BY <1>1, <1>2, <1>5, <1>6 DEF Held, InFlight
<1>8. \A t \in stale : ~Held(t)' /\ t \in engines
    BY <1>1, <1>4, <1>5, <1>6, Forgotten
<1>9. stale \cap (new \cup {}) = {} /\ new \cup {} = new /\ {} \in SUBSET Specs /\ {} \subseteq engines
    BY <1>2, <1>4
<1>10. new \cup {} \subseteq engines' /\ \A t \in Specs : t \in engines /\ t \notin stale => t \in engines'
    BY <1>1, <1>9
<1>11. \A t \in Specs : t \in new \cup {} \/ (port[t] \in used /\ \A u \in stale : port[u] # port[t]) => port[t] \in used'
    <2>1. \A t \in new, u \in stale : port[u] # port[t]
        <3> SUFFICES ASSUME NEW t \in new, NEW u \in stale PROVE port[u] # port[t]
            OBVIOUS
        <3>1. t # u /\ Held(t) /\ Held(u) /\ t \in Specs /\ u \in Specs
            BY <1>2, <1>4
        <3>2. port[u] \in Ports
            BY <1>4, EngineFacts
        <3> QED
            BY <3>1, <3>2 DEF ShareInv, PortInv
    <2> QED
        BY <1>1, <2>1
<1>12. forwardedPending' = Cleared(new \cup {})
    BY <1>1, <1>9
<1> QED
    <2>1. Registers(new, {}, stale)
        BY <1>1, <1>2, <1>3, <1>4, <1>6, <1>7, <1>8, <1>9, <1>10, <1>11, <1>12 DEF Registers
    <2> QED
        BY <2>1, RegisterShare

\* What the type invariant calls untouched, for the steps that change no label.
LEMMA SameUntouched ==
    ASSUME UNCHANGED <<Labels, docker>>, NEW t \in Specs, t \in engines' => t \in engines,
           t \in evicting' => t \in evicting, \A x : Queued(x)' => Queued(x)
    PROVE  Untouched(t)
BY DEF Untouched, Labels, Started

LEMMA EvictRemoveShare ==
    ASSUME PlaceInv, ShareInv, NEW s \in Specs, EvictRemove(s)
    PROVE  ShareInv'
<1>0. StageInv /\ SpecOK(s) /\ s \in evicting /\ ~Started(s)
    BY DEF PlaceInv, StageInv, SpecInv, SeenInv, EvictRemove
<1>1. /\ engines' = engines \ {s} /\ evicting' = evicting \ {s} /\ UNCHANGED <<reserveVars, specVars, dockerVars>>
    BY DEF EvictRemove
<1>2. UNCHANGED <<Labels, pc, docker>> /\ \A x : Queued(x)' <=> Queued(x)
    BY <1>1 DEF Labels, specVars, dockerVars, Queued
<1>3. ~Held(s)'
    BY <1>0, <1>1, <1>2, Forgotten DEF SpecOK, Started
<1>4. \A t \in Specs \ {s} : Untouched(t) /\ (t \in engines => t \in engines')
    BY <1>1, <1>2, SameUntouched
<1>5. {} \in SUBSET ({s} \cap engines) /\ used' = used \ {port[t] : t \in {}} /\ UNCHANGED <<vpnPending, forwardedPending>>
    BY <1>1 DEF reserveVars
<1> QED
    <2>1. Removes({s}, {})
        BY <1>3, <1>4, <1>5 DEF Removes
    <2> QED
        BY <1>0, <2>1, RemovalShare

LEMMA HandleDieShare ==
    ASSUME StageInv, ShareInv, NEW s \in Specs, HandleDie(s)
    PROVE  ShareInv'
<1>1. ~Held(s)' /\ \A t \in Specs \ {s} : Untouched(t)
    BY HandleDieStage
<1>2. /\ engines' = engines \ {s} /\ used' = used \ {port[t] : t \in {s} \cap engines}
      /\ UNCHANGED <<vpnPending, forwardedPending>>
    BY DEF HandleDie, RemoveEngines
<1>3. \A t \in Specs \ {s} : t \in engines => t \in engines'
    BY <1>2
<1> QED
    <2>1. Removes({s}, {s} \cap engines)
        BY <1>1, <1>2, <1>3 DEF Removes
    <2> QED
        BY <2>1, RemovalShare

LEMMA ForgetNodeShare ==
    ASSUME Calm, PlaceInv, ShareInv, NEW n \in Nodes, ForgetNode(n)
    PROVE  ShareInv'
<1>0. StageInv /\ engines \subseteq Specs
    BY DEF PlaceInv, StageInv, TypeOK
<1>1. /\ node[n] = "emptied" /\ \A s \in EnginesOn(n) : StartSeen(s)
      /\ engines' = engines \ EnginesOn(n) /\ used' = used \ {port[t] : t \in EnginesOn(n) \cap engines}
      /\ UNCHANGED <<vpnPending, forwardedPending, specVars, docker, events, otherVars>>
    BY DEF ForgetNode, NodeChanges, RemoveEngines
<1>2. /\ UNCHANGED <<Labels, pc, docker>> /\ evicting' = evicting /\ \A x : Queued(x)' <=> Queued(x)
    BY <1>1 DEF Labels, specVars, otherVars, Queued
<1>3. \A t \in EnginesOn(n) : t \in Specs /\ t \in engines /\ docker[t] # "running" /\ ~Started(t)
    BY <1>0, <1>1 DEF EnginesOn, PlaceInv, NodeInv, StartSeen, Started, Queued, Calm
<1>4. \A t \in EnginesOn(n) : ~Held(t)'
    BY <1>0, <1>1, <1>2, <1>3, Forgotten DEF Started
<1>5. \A t \in Specs \ EnginesOn(n) : Untouched(t) /\ (t \in engines => t \in engines')
    BY <1>1, <1>2, SameUntouched
<1>6. Removes(EnginesOn(n), EnginesOn(n) \cap engines)
    BY <1>1, <1>3, <1>4, <1>5 DEF Removes
<1> QED
    BY <1>0, <1>6, RemovalShare

\* A step that changes neither labels nor records nor reservations.
LEMMA StillShare ==
    ASSUME TypeOK, ShareInv, UNCHANGED <<vpn, port, forwarded, engines, reserveVars>>,
           \A t \in Specs : (Held(t)' => Held(t)) /\ (pc'[t] = "waitPort" => pc[t] = "waitPort")
    PROVE  ShareInv'
<1>1. \A t \in Specs : Stay(t)
    BY DEF Stay, Claims
<1> QED
    BY <1>1, StayShare

LEMMA DockerShare == ASSUME Calm, PlaceInv, ShareInv, Docker PROVE ShareInv'
<1>0. StageInv /\ TypeOK
    BY DEF PlaceInv, StageInv
<1>1. CASE LoseEvents
    <2>1. \A t \in Specs : ~Started(t)'
        BY <1>0, <1>1, LoseEventsStage
    <2>2. UNCHANGED <<pc, vpn, port, forwarded, engines, docker, reserveVars>>
        BY <1>1 DEF LoseEvents, storeVars, specVars
    <2> QED
        BY <1>0, <2>1, <2>2, StillShare DEF Held, InFlight
<1>2. CASE \E stale \in SUBSET Stale : Reindex(stale)
    BY <1>0, <1>2, ReindexShare
<1>3. CASE \E s \in Specs : HandleStart(s) \/ HandleDie(s)
    BY <1>0, <1>3, HandleStartShare, HandleDieShare
<1>4. ASSUME NEW s \in Specs, Stops(s) PROVE ShareInv'
    <2>1. UNCHANGED <<pc, vpn, port, forwarded, engines, reserveVars>>
        BY <1>4 DEF Stops, Dies, StopContainer, EvictStop, storeVars, specVars
    <2>2. CASE Exits(s)
        <3>1. /\ docker'[s] = "exited" /\ \A t \in Specs : t # s => docker'[t] = docker[t]
              /\ \A t \in Specs : Started(t)' <=> Started(t)
            BY <1>0, <2>2, ExitsEffect
        <3> QED
            BY <1>0, <2>1, <3>1, StillShare DEF Held, InFlight
    <2>3. CASE ~Exits(s)
        <3>1. UNCHANGED <<docker, events>>
            BY <1>4, <2>3 DEF Stops, Dies, StopContainer, EvictStop
        <3> QED
            BY <1>0, <2>1, <3>1, StillShare DEF Held, InFlight, Started, Queued
    <2> QED
        BY <2>2, <2>3
<1>5. ASSUME NEW n \in Nodes, EmptyNode(n) PROVE ShareInv'
    <2>1. /\ UNCHANGED <<storeVars, reserveVars, specVars>>
          /\ \A t \in Specs : docker'[t] = "running" => docker[t] = "running"
          /\ \A t \in Specs : Started(t)' <=> Started(t)
        BY <1>0, <1>5, EmptyNodeStage
    <2>2. UNCHANGED <<pc, vpn, port, forwarded, engines, reserveVars>>
        BY <2>1 DEF storeVars, specVars
    <2> QED
        BY <1>0, <2>1, <2>2, StillShare DEF Held, InFlight
<1>6. CASE \E n \in Nodes : ForgetNode(n)
    BY <1>6, ForgetNodeShare
<1> QED
    BY <1>1, <1>2, <1>3, <1>4, <1>5, <1>6 DEF Docker

LEMMA AdministrationShare == ASSUME PlaceInv, ShareInv, Administration PROVE ShareInv'
<1>0. StageInv /\ TypeOK
    BY DEF PlaceInv, StageInv
<1>1. CASE \E s \in Specs : EvictRemove(s)
    BY <1>1, EvictRemoveShare
<1>2. CASE ~\E s \in Specs : EvictRemove(s)
    <2>1. UNCHANGED <<pc, vpn, port, forwarded, engines, docker, events, reserveVars>>
        <3>1. CASE \/ EnsureMinimum \/ NudgeDemand \/ UndoNudge \/ \E n \in 0 .. MaxReplicas : ScaleTo(n)
            BY <1>0, <3>1, DemandType DEF specVars, dockerVars
        <3>2. CASE ForceReset
            BY <3>2 DEF ForceReset, storeVars, specVars, dockerVars
        <3>3. CASE \E s \in Specs : DeleteEngine(s) \/ Probe(s)
            BY <3>3 DEF DeleteEngine, Probe, specVars, dockerVars
        <3>4. CASE \E n \in Nodes : NodeHealth(n) \/ DrainNode(n) \/ GcDraining(n)
            BY <3>4 DEF NodeHealth, DrainNode, GcDraining, storeVars, specVars, dockerVars
        <3> QED
            BY <1>2, <3>1, <3>2, <3>3, <3>4 DEF Administration
    <2> QED
        BY <1>0, <2>1, StillShare DEF Held, InFlight, Started, Queued
<1> QED
    BY <1>1, <1>2

LEMMA ReconcileShare == ASSUME PlaceInv, ShareInv, Reconcile PROVE ShareInv'
<1>0. StageInv /\ TypeOK
    BY DEF PlaceInv, StageInv
<1>1. /\ UNCHANGED <<engines, reserveVars, vpn, port, forwarded, docker, events>>
      /\ \A t \in Specs : pc'[t] = pc[t] \/ (pc[t] = "unused" /\ pc'[t] = "intent")
    BY <1>0, ReconcileEffect
<1>2. \A t \in Specs : (Held(t)' => Held(t)) /\ (pc'[t] = "waitPort" => pc[t] = "waitPort")
    BY <1>1 DEF Held, InFlight, Started, Queued
<1> QED
    BY <1>0, <1>1, <1>2, StillShare

EngineInv == PlaceInv /\ ShareInv

LEMMA EngineStep == ASSUME Calm, EngineInv, [Next]_vars PROVE EngineInv'
<1>0. PlaceInv /\ ShareInv /\ StageInv /\ TypeOK /\ PlaceInv'
    BY PlaceStep DEF EngineInv, PlaceInv, StageInv
<1>1. CASE UNCHANGED vars
    <2>1. UNCHANGED <<pc, vpn, port, forwarded, engines, docker, events, reserveVars>>
        BY <1>1 DEF vars, storeVars, specVars, dockerVars
    <2>2. ShareInv'
        BY <1>0, <2>1, StillShare DEF Held, InFlight, Started, Queued
    <2> QED
        BY <1>0, <2>2 DEF EngineInv
<1>2. CASE Next
    BY <1>0, <1>2, NextSteps, AdministrationShare, ReconcileShare, DockerShare, ProvisionShare DEF EngineInv
<1> QED
    BY <1>1, <1>2

LEMMA EngineInit == ASSUME Init PROVE EngineInv
<1>1. StageInv /\ \A s \in Specs : ~Held(s)
    BY InitStage
<1>2. SeenInv /\ NodeInv
    BY DEF Init, SeenInv, NodeInv
<1>3. PortInv /\ LeadInv
    BY <1>1 DEF PortInv, LeadInv, Lead
<1>4. ASSUME NEW n \in Nodes PROVE Cardinality(Absent(n)) <= vpnPending[n] /\ Cardinality(HeldOn(n)) <= HardLimit
    <2>1. HeldOn(n) = {} /\ Absent(n) = {}
        BY <1>1 DEF HeldOn, Absent
    <2>2. Cardinality({}) = 0
        BY FS_EmptySet
    <2>3. vpnPending[n] = 0 /\ HardLimit \in Nat
        BY DEF Init, HardLimit, Greatest
    <2> QED
        BY <2>1, <2>2, <2>3
<1> QED
    BY <1>1, <1>2, <1>3, <1>4 DEF EngineInv, PlaceInv, ShareInv, CountInv

LEMMA EngineInvariant == ASSUME Calm PROVE Spec => []EngineInv
<1>1. Init => EngineInv
    BY EngineInit
<1>2. EngineInv /\ [Next]_vars => EngineInv'
    BY EngineStep
<1> QED
    BY <1>1, <1>2, PTL DEF Spec

LEMMA LiveHeld == ASSUME NEW s \in Specs, Live(s) PROVE Held(s)
BY DEF Live, Held

\* PortAllocator (ports.go): two engines that are on their way or running never have the same
\* port, whatever fails, dies, is evicted, deleted, drained, lost or found again by Reindex,
\* as long as Docker's calls and events do not overlap with what they are about.
THEOREM EnginePortsAreExclusive ==
    ASSUME Calm
    PROVE  Spec => []PortsExclusive
<1>1. EngineInv => PortsExclusive
    BY LiveHeld DEF EngineInv, ShareInv, PortInv, PortsExclusive
<1> QED
    BY <1>1, EngineInvariant, PTL

\* TryClaimForwardedSlot (store.go): of the engines of a node that are on their way or running
\* at most one has the forwarded port, under the same condition.
THEOREM LeaderIsUnique ==
    ASSUME Calm
    PROVE  Spec => []OneLeader
<1>1. ASSUME EngineInv PROVE OneLeader
    <2> SUFFICES ASSUME NEW s \in Specs, NEW t \in Specs, s # t, Live(s), Live(t), vpn[s] = vpn[t],
                        forwarded[s], forwarded[t]
                 PROVE  FALSE
        BY DEF OneLeader
    <2>1. forwarded[s] = TRUE /\ forwarded[t] = TRUE
        BY <1>1 DEF EngineInv, PlaceInv, StageInv, TypeOK
    <2>2. Lead(s) /\ Lead(t)
        BY <2>1, LiveHeld DEF Lead, Claims
    <2> QED
        BY <1>1, <2>2 DEF EngineInv, ShareInv, LeadInv
<1> QED
    BY <1>1, EngineInvariant, PTL

\* selectVPNContainer (provisioner.go): however many creations overlap, a node never has more
\* engines on their way and running than its hard limit, under the same condition.
THEOREM NodesWithinLimit ==
    ASSUME Calm
    PROVE  Spec => []WithinHardLimit
<1>1. ASSUME EngineInv PROVE WithinHardLimit
    <2> SUFFICES ASSUME NEW n \in Nodes
                 PROVE  Cardinality({s \in Specs : vpn[s] = n /\ Live(s)}) <= Greatest(Preferred, MaxPerVpn)
        BY DEF WithinHardLimit
    <2> DEFINE L == {s \in Specs : vpn[s] = n /\ Live(s)}
    <2>1. L \subseteq HeldOn(n)
        BY LiveHeld DEF HeldOn
    <2>2. TypeOK /\ Cardinality(HeldOn(n)) <= HardLimit
        BY <1>1 DEF EngineInv, PlaceInv, StageInv, ShareInv, CountInv
    <2>3. IsFiniteSet(HeldOn(n)) /\ Cardinality(HeldOn(n)) \in Nat
        BY <2>2, FiniteParts DEF HeldOn
    <2> HIDE DEF L
    <2>4. Cardinality(L) \in Nat /\ Cardinality(L) <= Cardinality(HeldOn(n))
        BY <2>1, <2>3, FS_Subset, FS_CardinalityType
    <2>5. HardLimit = Greatest(Preferred, MaxPerVpn) /\ HardLimit \in Nat
        BY DEF HardLimit, Greatest
    <2>6. Cardinality(L) <= Greatest(Preferred, MaxPerVpn)
        BY <2>2, <2>3, <2>4, <2>5
    <2> QED
        BY <2>6 DEF L
<1> QED
    BY <1>1, EngineInvariant, PTL
=============================================================================
