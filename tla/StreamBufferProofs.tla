------------------------- MODULE StreamBufferProofs -------------------------
(* What holds of the ring buffer for every capacity, burst, read size and   *)
(* number of clients.                                                       *)
EXTENDS StreamBuffer, TLAPS

\* Every step of writer, manager, hub and clients keeps every variable in its type.
LEMMA TypePreserved == TypeOK /\ [Next]_vars => TypeOK'
<1> SUFFICES ASSUME TypeOK, [Next]_vars PROVE TypeOK'
    OBVIOUS
<1> USE BufferAssumption DEF TypeOK, Calls, Pcs, ringVars, clientVars, Head
<1>1. ASSUME NEW n \in 1 .. MaxBurst, Write(n) PROVE TypeOK'
  <2>1. \A s \in Slots : LastIn(s, head + n) \in Int
    BY DEF LastIn, Slots
  <2> QED BY <1>1, <2>1 DEF Write
<1>2. ASSUME NEW call \in Calls, Broadcast(call) PROVE TypeOK'
    BY <1>2 DEF Broadcast
<1>3. CASE Reset
    BY <1>3 DEF Reset
<1>4. CASE Stop
    BY <1>4 DEF Stop
<1>5. ASSUME NEW c \in Clients, WaitForReady(c) PROVE TypeOK'
    BY <1>5 DEF WaitForReady
<1>6. ASSUME NEW c \in Clients, TakeChunks(c) PROVE TypeOK'
  <2>1. PICK last \in 0 .. MaxHead :
            batch' = [batch EXCEPT ![c] = [from |-> StartIdx(localIndex[c]), to |-> last]]
      BY <1>6 DEF TakeChunks
  <2>2. StartIdx(localIndex[c]) \in Nat
      BY DEF StartIdx, Oldest
  <2> QED BY <1>6, <2>1, <2>2 DEF TakeChunks
<1>12. ASSUME NEW c \in Clients, Sent(c) PROVE TypeOK'
    BY <1>12 DEF Sent, NoBatch
<1>7. ASSUME NEW c \in Clients, HoldEnds(c) PROVE TypeOK'
    BY <1>7 DEF HoldEnds
<1>8. ASSUME NEW c \in Clients, NoData(c) PROVE TypeOK'
    BY <1>8 DEF NoData
<1>9. ASSUME NEW c \in Clients, GrabChannel(c) PROVE TypeOK'
    BY <1>9 DEF GrabChannel
<1>13. ASSUME NEW c \in Clients, CheckHead(c) PROVE TypeOK'
    BY <1>13 DEF CheckHead
<1>10. ASSUME NEW c \in Clients, Wake(c) \/ CheckInterval(c) PROVE TypeOK'
    BY <1>10 DEF Wake, CheckInterval
<1>14. ASSUME NEW c \in Clients, Disconnect(c) PROVE TypeOK'
    BY <1>14 DEF Disconnect, NoBatch
<1>11. CASE UNCHANGED vars
    BY <1>11 DEF vars
<1> QED
    BY <1>1, <1>2, <1>3, <1>4, <1>5, <1>6, <1>7, <1>8, <1>9, <1>10, <1>11, <1>12, <1>13, <1>14
    DEF Next, ClientStep, SocketStep

\* A new ring and its clients have the right types.
LEMMA TypeInitially == Init => TypeOK
<1> SUFFICES ASSUME Init PROVE TypeOK
    OBVIOUS
<1>1. seq \in [Slots -> Int]
  <2>1. -1 \in Int
      OBVIOUS
  <2>2. seq = [s \in Slots |-> -1]
      BY DEF Init
  <2> QED BY <2>1, <2>2, Zenon
<1>2. phase \in [Clients -> {"first", "stream"}]
    BY DEF Init
<1> QED
    BY <1>1, <1>2 DEF Init, TypeOK, Calls, Pcs, NoBatch

\* The types of StreamBuffer hold in every reachable state.
THEOREM BufferTypeCorrect == Spec => []TypeOK
<1> QED
    BY TypeInitially, TypePreserved, PTL DEF Spec

-----------------------------------------------------------------------------
\* A channel that a client holds was the current one at some time: Wait took it
\* from notify, and broadcast only moves forward.
ChannelsPast == \A c \in Clients : ch[c] <= notify

\* The inductive invariant: broadcasting makes every channel taken before stale,
\* which NoLostWakeup needs to survive the step that removes "write" from unsent.
WakeInv == TypeOK /\ ChannelsPast /\ NoLostWakeup

\* Every step keeps it, one case per action.
LEMMA WakePreserved == WakeInv /\ [Next]_vars => WakeInv'
<1> SUFFICES ASSUME WakeInv, [Next]_vars PROVE ChannelsPast' /\ NoLostWakeup'
    BY TypePreserved DEF WakeInv
<1> USE BufferAssumption DEF WakeInv, TypeOK, ChannelsPast, NoLostWakeup, Calls, Head, ringVars, clientVars
<1>1. ASSUME NEW n \in 1 .. MaxBurst, Write(n) PROVE ChannelsPast' /\ NoLostWakeup'
    BY <1>1 DEF Write
<1>2. ASSUME NEW call \in Calls, Broadcast(call) PROVE ChannelsPast' /\ NoLostWakeup'
    BY <1>2 DEF Broadcast
<1>3. CASE Reset
    BY <1>3 DEF Reset
<1>4. CASE Stop
    BY <1>4 DEF Stop
<1>5. ASSUME NEW c \in Clients, WaitForReady(c) \/ TakeChunks(c) \/ SocketStep(c)
      PROVE  ChannelsPast' /\ NoLostWakeup'
    BY <1>5 DEF WaitForReady, TakeChunks, SocketStep, Sent, HoldEnds
<1>6. ASSUME NEW c \in Clients, NoData(c) PROVE ChannelsPast' /\ NoLostWakeup'
    BY <1>6 DEF NoData
<1>7. ASSUME NEW c \in Clients, GrabChannel(c) PROVE ChannelsPast' /\ NoLostWakeup'
    BY <1>7 DEF GrabChannel
<1>8. ASSUME NEW c \in Clients, CheckHead(c) PROVE ChannelsPast' /\ NoLostWakeup'
    BY <1>8 DEF CheckHead
<1>9. ASSUME NEW c \in Clients, Wake(c) \/ CheckInterval(c) \/ Disconnect(c)
      PROVE  ChannelsPast' /\ NoLostWakeup'
    BY <1>9 DEF Wake, CheckInterval, Disconnect
<1>10. CASE UNCHANGED vars
    BY <1>10 DEF vars
<1> QED
    BY <1>1, <1>2, <1>3, <1>4, <1>5, <1>6, <1>7, <1>8, <1>9, <1>10
    DEF Next, ClientStep

\* Wait and broadcast lose no wakeup: a client blocked on a channel that nobody has
\* closed has nothing to read, or the writer's broadcast is still to come.
THEOREM WakeupsNotLost == Spec => []NoLostWakeup
<1>1. Init => WakeInv
    BY TypeInitially DEF Init, WakeInv, ChannelsPast, NoLostWakeup
<1>2. WakeInv => NoLostWakeup
    BY DEF WakeInv
<1> QED
    BY <1>1, <1>2, WakePreserved, PTL DEF Spec

-----------------------------------------------------------------------------
(* What the ring holds.                                                    *)

\* A division has one remainder.
LEMMA ModUnique ==
    ASSUME NEW a \in Int, NEW q \in Int, NEW r \in 0 .. Cap - 1, a = Cap * q + r
    PROVE  a % Cap = r
<1> USE BufferAssumption
<1> DEFINE p == a \div Cap
           m == a % Cap
<1>1. p \in Int /\ m \in 0 .. Cap - 1 /\ a = Cap * p + m
    OBVIOUS
<1> HIDE DEF p, m
<1>2. Cap \in Int /\ Cap > 0
    OBVIOUS
<1>3. ASSUME p < q PROVE FALSE
    <2>1. Cap * p + Cap <= Cap * q
        BY <1>1, <1>2, <1>3
    <2> QED
        BY <1>1, <1>2, <2>1
<1>4. ASSUME q < p PROVE FALSE
    <2>1. Cap * q + Cap <= Cap * p
        BY <1>1, <1>2, <1>4
    <2> QED
        BY <1>1, <1>2, <2>1
<1>5. p = q
    BY <1>1, <1>3, <1>4
<1>6. m = r
    BY <1>1, <1>2, <1>5
<1> QED
    BY <1>6 DEF m

\* The chunk i is the last one of its slot as long as it is among the last Cap.
LEMMA LastInSlot ==
    ASSUME NEW i \in Nat, NEW h \in Nat, i < h, h - Cap <= i
    PROVE  LastIn(i % Cap, h) = i /\ i % Cap \in Slots
<1> USE BufferAssumption
<1> DEFINE q == i \div Cap
           s == i % Cap
<1>1. q \in Int /\ s \in 0 .. Cap - 1 /\ i = Cap * q + s
    OBVIOUS
<1> HIDE DEF q, s
<1>2. h - 1 - s \in Int /\ h - 1 - i \in 0 .. Cap - 1 /\ h - 1 - s = Cap * q + (h - 1 - i)
    BY <1>1
<1>3. (h - 1 - s) % Cap = h - 1 - i
    BY <1>1, <1>2, ModUnique
<1> QED
    BY <1>1, <1>3 DEF LastIn, Slots, s

\* It is a chunk of that slot, and one of the last Cap.
LEMMA LastInRange ==
    ASSUME NEW s \in Slots, NEW h \in Nat
    PROVE  LastIn(s, h) \in Int /\ LastIn(s, h) % Cap = s /\ h - Cap <= LastIn(s, h) /\ LastIn(s, h) < h
<1> USE BufferAssumption
<1> DEFINE a == h - 1 - s
           q == a \div Cap
           m == a % Cap
<1>1. q \in Int /\ m \in 0 .. Cap - 1 /\ a = Cap * q + m /\ s \in 0 .. Cap - 1
    BY DEF Slots
<1>2. LastIn(s, h) = h - 1 - m
    BY DEF LastIn
<1> HIDE DEF q, m
<1>3. h - 1 - m = Cap * q + s
    BY <1>1
<1>4. (h - 1 - m) % Cap = s
    BY <1>1, <1>3, ModUnique
<1> QED
    BY <1>1, <1>2, <1>4

\* A slot holds the last chunk written to it, unless a Reset has cleared it; so every
\* chunk in the ring is one of the last Cap.
RingInv ==
    \A s \in Slots :
        seq[s] # -1 => /\ seq[s] \in Nat /\ seq[s] % Cap = s
                       /\ Oldest <= seq[s] /\ seq[s] < head

\* What is on its way to a socket lies behind the cursor.
SendInv ==
    \A c \in Clients :
        pc[c] = "sending" => localIndex[c] < batch[c].from /\ batch[c].from <= batch[c].to

\* A write of n chunks keeps the ring in order: a slot it does not reach has been
\* written to within the last Cap.
LEMMA WriteRing ==
    ASSUME TypeOK, RingInv, NEW n \in 1 .. MaxBurst, Write(n)
    PROVE  RingInv'
<1> USE BufferAssumption
<1>1. head \in Nat /\ head' = head + n /\ head' \in Nat /\ Cap \in Nat \ {0}
    BY DEF Write, TypeOK
<1> SUFFICES ASSUME NEW s \in Slots, seq'[s] # -1
             PROVE  seq'[s] \in Nat /\ seq'[s] % Cap = s /\ Oldest' <= seq'[s] /\ seq'[s] < head'
    BY DEF RingInv
<1> DEFINE last == LastIn(s, head')
<1>2. last \in Int /\ head' - Cap <= last /\ last < head' /\ last % Cap = s
    BY <1>1, LastInRange
<1>3. seq'[s] = IF last >= head THEN last ELSE seq[s]
    BY <1>1 DEF Write
<1>4. CASE last >= head
  <2> HIDE DEF last
  <2> QED
    BY <1>1, <1>2, <1>3, <1>4 DEF Oldest
<1>5. CASE last < head
  <2>1. seq'[s] = seq[s] /\ seq[s] \in Nat /\ seq[s] % Cap = s /\ Oldest <= seq[s] /\ seq[s] < head
    BY <1>1, <1>2, <1>3, <1>5 DEF RingInv
  <2>2. head - Cap <= seq[s]
    BY <1>1, <2>1 DEF Oldest
  <2>3. ASSUME head' - Cap > seq[s] PROVE FALSE
    <3> DEFINE i == seq[s]
               j == i + Cap
    <3>1. i \in Nat /\ j \in Nat /\ i % Cap = s /\ head <= j /\ j < head'
      BY <1>1, <2>1, <2>2, <2>3
    <3> HIDE DEF i
    <3>2. j % Cap = s
      <4> DEFINE q == i \div Cap
      <4>1. q \in Int /\ i = Cap * q + s /\ s \in 0 .. Cap - 1
        BY <1>1, <3>1 DEF Slots
      <4> HIDE DEF q
      <4>2. j = Cap * (q + 1) + s /\ q + 1 \in Int
        BY <1>1, <4>1
      <4> QED
        BY <3>1, <4>1, <4>2, ModUnique
    <3> HIDE DEF j, last
    <3>3. CASE head' - Cap <= j
      <4>1. last = j
        BY <1>1, <3>1, <3>2, <3>3, LastInSlot DEF last
      <4> QED
        BY <1>1, <1>5, <3>1, <4>1
    <3>4. CASE j < head' - Cap
      <4>1. last >= head
        BY <1>1, <1>2, <3>1, <3>4
      <4> QED
        BY <1>1, <1>2, <1>5, <4>1
    <3> QED
      BY <1>1, <3>1, <3>3, <3>4
  <2> QED
    BY <1>1, <2>1, <2>3 DEF Oldest
<1> QED
    BY <1>1, <1>2, <1>4, <1>5

\* Both hold from the start and are kept by every step.
LEMMA SendInitially == Init => RingInv /\ SendInv
BY DEF Init, RingInv, SendInv

LEMMA SendPreserved == TypeOK /\ RingInv /\ SendInv /\ [Next]_vars => RingInv' /\ SendInv'
<1> SUFFICES ASSUME TypeOK, RingInv, SendInv, [Next]_vars PROVE RingInv' /\ SendInv'
    OBVIOUS
<1> USE BufferAssumption DEF ringVars, clientVars
<1>f. CASE UNCHANGED <<head, seq, pc, localIndex, batch>>
    BY <1>f DEF RingInv, SendInv, Oldest
<1>r. ASSUME UNCHANGED <<head, seq>> PROVE RingInv'
    BY <1>r DEF RingInv, Oldest
<1>1. ASSUME NEW n \in 1 .. MaxBurst, Write(n) PROVE RingInv' /\ SendInv'
    BY <1>1, WriteRing DEF Write, SendInv
<1>2. CASE Reset
  <2>1. RingInv'
    BY <1>2 DEF Reset, RingInv
  <2> QED
    BY <1>2, <2>1 DEF Reset, SendInv
<1>3. ASSUME NEW call \in Calls, Broadcast(call) \/ Stop PROVE RingInv' /\ SendInv'
    BY <1>3, <1>f DEF Broadcast, Stop
<1>4. ASSUME NEW c \in Clients, TakeChunks(c) PROVE SendInv'
  <2>1. PICK last \in 0 .. MaxHead :
            /\ ReadAfter(localIndex[c], IF phase[c] = "first" THEN 1 ELSE MaxRead, last)
            /\ batch' = [batch EXCEPT ![c] = [from |-> StartIdx(localIndex[c]), to |-> last]]
      BY <1>4 DEF TakeChunks
  <2>2. StartIdx(localIndex[c]) > localIndex[c] /\ last >= StartIdx(localIndex[c])
      BY <2>1 DEF ReadAfter, StartIdx, Oldest, TypeOK
  <2> QED
      BY <1>4, <2>1, <2>2 DEF TakeChunks, SendInv, TypeOK
<1>5. ASSUME NEW c \in Clients,
             \/ WaitForReady(c) \/ NoData(c) \/ GrabChannel(c) \/ CheckHead(c) \/ Wake(c)
             \/ SocketStep(c) \/ CheckInterval(c) \/ Disconnect(c)
      PROVE  SendInv'
    BY <1>5 DEF WaitForReady, NoData, GrabChannel, CheckHead, Wake, SocketStep, Sent, HoldEnds,
                CheckInterval, Disconnect, SendInv, TypeOK
<1>6. ASSUME NEW c \in Clients,
             WaitForReady(c) \/ ClientStep(c) \/ SocketStep(c) \/ CheckInterval(c) \/ Disconnect(c)
      PROVE  RingInv'
    BY <1>6, <1>r DEF ClientStep, WaitForReady, TakeChunks, NoData, GrabChannel, CheckHead, Wake,
                      SocketStep, Sent, HoldEnds, CheckInterval, Disconnect
<1>7. CASE UNCHANGED vars
    BY <1>7, <1>f DEF vars
<1> QED
    BY <1>1, <1>2, <1>3, <1>4, <1>5, <1>6, <1>7 DEF Next, ClientStep, Calls

\* WriteAfterTo collects a run of stored chunks behind the cursor, and every stored
\* chunk between the cursor and its end is in the run.
LEMMA ReadIsComplete ==
    ASSUME TypeOK, RingInv, NEW after \in Nat, NEW max \in Nat, NEW last \in Nat,
           ReadAfter(after, max, last)
    PROVE  LET sent == StartIdx(after) .. last IN
           /\ sent # {} /\ \A i \in sent : Stored(i) /\ i > after
           /\ \A i \in after + 1 .. last : Stored(i) => i \in sent
<1> DEFINE start == StartIdx(after)
<1>1. /\ start \in Int /\ start >= after + 1 /\ Oldest \in Int
      /\ start = after + 1 \/ start = Oldest
    BY BufferAssumption DEF StartIdx, Oldest, TypeOK
<1>2. last >= start /\ \A i \in start .. last : Stored(i)
    BY <1>1 DEF ReadAfter
<1>3. ASSUME NEW i \in after + 1 .. last, Stored(i), i < start PROVE FALSE
  <2>1. i % Cap \in Slots /\ seq[i % Cap] = i /\ i # -1 /\ i \in Nat
    BY <1>3, BufferAssumption DEF Slots, Stored
  <2>2. Oldest <= i
    BY <2>1 DEF RingInv
  <2> QED
    BY <1>1, <1>3, <2>1, <2>2
<1> HIDE DEF start
<1>4. start .. last # {} /\ \A i \in start .. last : Stored(i) /\ i > after
  <2>1. start \in start .. last
    BY <1>1, <1>2
  <2> QED
    BY <1>1, <1>2, <2>1
<1>5. \A i \in after + 1 .. last : Stored(i) => i \in start .. last
    BY <1>1, <1>3
<1> QED
    BY <1>4, <1>5 DEF start

\* A client is sent every chunk that is in the ring when it comes to it, in order and
\* once: a read leaves out only what the ring has lost, and the cursor moves only to
\* the end of what was sent.
THEOREM ReadersSkipNothing == Spec => NothingSkipped
<1> DEFINE Read(c) ==
               LET sent == batch'[c].from .. batch'[c].to IN
               /\ sent # {} /\ \A i \in sent : Stored(i) /\ i > localIndex[c]
               /\ \A i \in localIndex[c] + 1 .. batch'[c].to : Stored(i) => i \in sent
           Moved(c) ==
               /\ pc[c] = "sending" /\ localIndex'[c] = batch[c].to
               /\ localIndex[c] < batch[c].from
<1>1. ASSUME TypeOK, RingInv, Next, NEW c \in Clients, pc[c] = "reading", pc'[c] = "sending"
      PROVE  Read(c)
  <2>1. TakeChunks(c)
    BY <1>1 DEF Next, ClientStep, SocketStep, Write, Broadcast, Reset, Stop, WaitForReady, TakeChunks,
           Sent, HoldEnds, NoData, GrabChannel, CheckHead, Wake, CheckInterval, Disconnect, clientVars,
           TypeOK
  <2>2. PICK last \in 0 .. MaxHead :
            /\ ReadAfter(localIndex[c], IF phase[c] = "first" THEN 1 ELSE MaxRead, last)
            /\ batch' = [batch EXCEPT ![c] = [from |-> StartIdx(localIndex[c]), to |-> last]]
    BY <2>1 DEF TakeChunks
  <2>3. /\ batch'[c].from = StartIdx(localIndex[c]) /\ batch'[c].to = last
        /\ last \in Nat /\ localIndex[c] \in Nat
    BY <1>1, <2>2, BufferAssumption DEF TypeOK
  <2>4. (IF phase[c] = "first" THEN 1 ELSE MaxRead) \in Nat
    BY BufferAssumption
  <2> QED
    BY <1>1, <2>2, <2>3, <2>4, ReadIsComplete
<1>2. ASSUME TypeOK, SendInv, Next, NEW c \in Clients, pc[c] # "connecting",
             localIndex'[c] # localIndex[c]
      PROVE  Moved(c)
  <2>1. Sent(c)
    BY <1>2 DEF Next, ClientStep, SocketStep, Write, Broadcast, Reset, Stop, WaitForReady, TakeChunks,
           Sent, HoldEnds, NoData, GrabChannel, CheckHead, Wake, CheckInterval, Disconnect, clientVars,
           TypeOK
  <2> QED
    BY <1>2, <2>1 DEF Sent, SendInv, TypeOK
<1> DEFINE Step == \A c \in Clients :
               /\ pc[c] = "reading" /\ pc'[c] = "sending" => Read(c)
               /\ pc[c] # "connecting" /\ localIndex'[c] # localIndex[c] => Moved(c)
<1>3. TypeOK /\ RingInv /\ SendInv /\ [Next]_vars => Step \/ UNCHANGED vars
  <2> HIDE DEF Read, Moved
  <2> QED
    BY <1>1, <1>2
<1> QED
    BY <1>3, TypeInitially, TypePreserved, SendInitially, SendPreserved, PTL DEF Spec, NothingSkipped
=============================================================================
