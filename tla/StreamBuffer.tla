---------------------------- MODULE StreamBuffer ----------------------------
(***************************************************************************)
(* The ring buffer of one stream and the TS clients that read from it.     *)
(* Composed here:                                                          *)
(*                                                                         *)
(*   - RingBuffer: a writer (the upstream reader of the current session)   *)
(*     stores chunks under mu and broadcasts afterwards by replacing and   *)
(*     closing the channel notify; Wait takes the channel first and looks  *)
(*     at head second (internal/proxy/buffer/ring.go);                     *)
(*   - the manager, which calls Reset at the start of every session with   *)
(*     an engine, and the hub, which calls Stop;                           *)
(*   - ClientStreamer.Stream, one goroutine per TS client                  *)
(*     (internal/proxy/stream/client.go).                                  *)
(*                                                                         *)
(* A chunk is its index; bytes, alignment and bitrates are left out.  The  *)
(* channel is the number of broadcasts so far: one that has been replaced  *)
(* has been closed.                                                        *)
(***************************************************************************)
EXTENDS Integers

CONSTANTS
    Clients,    \* TS clients
    Cap,        \* slots of the ring
    MaxRead,    \* chunks per WriteAfterTo
    MaxBurst,   \* chunks one Write may complete
    MaxEmpty,   \* NoDataTimeoutChecks
    MaxHead,    \* bound: chunks written
    MaxGen      \* bound: sessions with an engine

ASSUME BufferAssumption ==
    /\ Cap \in Nat \ {0} /\ MaxRead \in Nat \ {0} /\ MaxBurst \in Nat \ {0}
    /\ MaxEmpty \in Nat /\ MaxHead \in Nat /\ MaxGen \in Nat

VARIABLES
    head,        \* index of the next chunk
    seq,         \* slot -> index of the chunk stored there, -1 if none
    generation,  \* number of Resets
    stopped,
    notify,      \* the current channel
    unsent,      \* calls that have changed the ring and not broadcast yet
    pc,          \* Stream of a client: program counter
    phase,       \* ... "first" in sendFirstChunk, then "stream"
    localIndex,  \* ... the read cursor
    batch,       \* ... the chunks WriteAfterTo is writing to the socket
    ch,          \* ... the channel Wait took
    emptyCount   \* ... consecutive reads without data

ringVars   == <<head, seq, generation, stopped, notify, unsent>>
clientVars == <<pc, phase, localIndex, batch, ch, emptyCount>>
vars == <<ringVars, clientVars>>

Slots == 0 .. Cap - 1
Calls == {"write", "stop"}
Pcs == {"connecting", "reading", "sending", "holding", "waiting", "grabbed", "blocked", "timedOut",
        "gone"}

NoBatch == [from |-> 0, to |-> 0]

Init ==
    /\ head = 0 /\ seq = [s \in Slots |-> -1]
    /\ generation = 0 /\ stopped = FALSE /\ notify = 0 /\ unsent = {}
    /\ pc = [c \in Clients |-> "connecting"]
    /\ phase \in [Clients -> {"first", "stream"}]   \* "first": PrebufferSeconds > 0
    /\ localIndex = [c \in Clients |-> 0]
    /\ batch = [c \in Clients |-> NoBatch]
    /\ ch = [c \in Clients |-> 0]
    /\ emptyCount = [c \in Clients |-> 0]

-----------------------------------------------------------------------------
(* RingBuffer.                                                             *)

Head == head - 1

Oldest == IF head > Cap THEN head - Cap ELSE 0

\* Mutant: a reader that was lapped starts one chunk after the oldest.
StartIdxLate(after) == IF after + 1 < Oldest THEN Oldest + 1 ELSE after + 1

\* The first index WriteAfterTo tries.
StartIdx(after) == IF after + 1 < Oldest THEN Oldest ELSE after + 1

Stored(i) == seq[i % Cap] = i

\* WriteAfterTo(after, max) returns chunks, the last of them with index last: the
\* longest run of stored chunks from StartIdx on.
ReadAfter(after, max, last) ==
    LET start == StartIdx(after) IN
    /\ last \in start .. start + max - 1 /\ last < head
    /\ \A i \in start .. last : Stored(i)
    /\ last + 1 = head \/ last + 1 = start + max \/ ~ Stored(last + 1)

\* It returns none.
NothingAfter(after) == after >= Head \/ ~ Stored(StartIdx(after))

\* The last index before h that falls into slot s.
LastIn(s, h) == (h - 1) - ((h - 1 - s) % Cap)

\* Write stores n chunks under mu ...
Write(n) ==
    /\ ~ stopped /\ "write" \notin unsent /\ generation > 0 /\ head + n <= MaxHead
    /\ head' = head + n
    /\ seq' = [s \in Slots |-> IF LastIn(s, head + n) >= head THEN LastIn(s, head + n) ELSE seq[s]]
    /\ unsent' = unsent \cup {"write"}
    /\ UNCHANGED <<generation, stopped, notify, clientVars>>

\* ... and broadcasts after it.
Broadcast(call) ==
    /\ call \in unsent
    /\ notify' = notify + 1
    /\ unsent' = unsent \ {call}
    /\ UNCHANGED <<head, seq, generation, stopped, clientVars>>

\* The manager starts a session; the reader of the previous one has returned.
Reset ==
    /\ ~ stopped /\ "write" \notin unsent /\ generation < MaxGen
    /\ seq' = [s \in Slots |-> -1]
    /\ generation' = generation + 1
    /\ UNCHANGED <<head, stopped, notify, unsent, clientVars>>

\* Stop sets the flag under mu and broadcasts after it.
Stop ==
    /\ ~ stopped
    /\ stopped' = TRUE
    /\ unsent' = unsent \cup {"stop"}
    /\ UNCHANGED <<head, seq, generation, notify, clientVars>>

-----------------------------------------------------------------------------
(* ClientStreamer.                                                         *)

\* Mutant: the stream starts before the first chunk, without a floor for the cursor.
WaitForReadyEarly(c) ==
    /\ pc[c] = "connecting" /\ generation > 0
    /\ localIndex' = [localIndex EXCEPT ![c] = Head]
    /\ pc' = [pc EXCEPT ![c] = "reading"]
    /\ UNCHANGED <<ringVars, phase, batch, ch, emptyCount>>

\* waitForReady: the manager has connected and a chunk has been written.
WaitForReady(c) ==
    /\ pc[c] = "connecting" /\ generation > 0 /\ Head >= 0
    /\ localIndex' = [localIndex EXCEPT ![c] = Head]
    /\ pc' = [pc EXCEPT ![c] = "reading"]
    /\ UNCHANGED <<ringVars, phase, batch, ch, emptyCount>>

\* WriteAfterTo finds data: it collects the chunks under mu ...
TakeChunks(c) ==
    /\ pc[c] = "reading"
    /\ \E last \in 0 .. MaxHead :
          /\ ReadAfter(localIndex[c], IF phase[c] = "first" THEN 1 ELSE MaxRead, last)
          /\ batch' = [batch EXCEPT ![c] = [from |-> StartIdx(localIndex[c]), to |-> last]]
    /\ pc' = [pc EXCEPT ![c] = "sending"]
    /\ UNCHANGED <<ringVars, phase, localIndex, ch, emptyCount>>

\* ... and writes them to the socket without it.  When the write returns the cursor
\* moves; after the first chunk comes the prebuffer hold.
Sent(c) ==
    /\ pc[c] = "sending"
    /\ localIndex' = [localIndex EXCEPT ![c] = batch[c].to]
    /\ batch' = [batch EXCEPT ![c] = NoBatch]
    /\ emptyCount' = [emptyCount EXCEPT ![c] = 0]
    /\ pc' = [pc EXCEPT ![c] = IF phase[c] = "first" THEN "holding" ELSE "reading"]
    /\ phase' = [phase EXCEPT ![c] = "stream"]
    /\ UNCHANGED <<ringVars, ch>>

\* applyPrebuffer: enough runway, or its deadline, looked at between two writes of
\* null packets to the socket.
HoldEnds(c) ==
    /\ pc[c] = "holding"
    /\ pc' = [pc EXCEPT ![c] = "reading"]
    /\ UNCHANGED <<ringVars, phase, localIndex, batch, ch, emptyCount>>

\* Mutant: a read without data is not counted.
NoDataUncounted(c) ==
    /\ pc[c] = "reading" /\ NothingAfter(localIndex[c])
    /\ pc' = [pc EXCEPT ![c] = "waiting"]
    /\ UNCHANGED <<ringVars, phase, localIndex, batch, ch, emptyCount>>

\* A read that finds none is counted, except for the first chunk, and ends the
\* stream or is followed by a wait.
NoData(c) ==
    /\ pc[c] = "reading" /\ NothingAfter(localIndex[c])
    /\ IF phase[c] = "first"
       THEN pc' = [pc EXCEPT ![c] = "waiting"] /\ UNCHANGED emptyCount
       ELSE /\ emptyCount' = [emptyCount EXCEPT ![c] = @ + 1]
            /\ pc' = [pc EXCEPT ![c] = IF emptyCount[c] + 1 > MaxEmpty THEN "timedOut" ELSE "waiting"]
    /\ UNCHANGED <<ringVars, phase, localIndex, batch, ch>>

\* Wait takes the channel ...
GrabChannel(c) ==
    /\ pc[c] = "waiting"
    /\ ch' = [ch EXCEPT ![c] = notify]
    /\ pc' = [pc EXCEPT ![c] = "grabbed"]
    /\ UNCHANGED <<ringVars, phase, localIndex, batch, emptyCount>>

\* Mutant: Wait compares with the wrong end of the ring's head.
CheckHeadOffByOne(c) ==
    /\ pc[c] = "grabbed"
    /\ pc' = [pc EXCEPT ![c] = IF head > localIndex[c] + 2 THEN "reading" ELSE "blocked"]
    /\ UNCHANGED <<ringVars, phase, localIndex, batch, ch, emptyCount>>

\* ... then looks whether there is something to read already.
CheckHead(c) ==
    /\ pc[c] = "grabbed"
    /\ pc' = [pc EXCEPT ![c] = IF Head > localIndex[c] THEN "reading" ELSE "blocked"]
    /\ UNCHANGED <<ringVars, phase, localIndex, batch, ch, emptyCount>>

\* The channel is closed.
Wake(c) ==
    /\ pc[c] = "blocked" /\ ch[c] # notify
    /\ pc' = [pc EXCEPT ![c] = "reading"]
    /\ UNCHANGED <<ringVars, phase, localIndex, batch, ch, emptyCount>>

\* time.After(NoDataCheckInterval).
CheckInterval(c) ==
    /\ pc[c] = "blocked"
    /\ pc' = [pc EXCEPT ![c] = "reading"]
    /\ UNCHANGED <<ringVars, phase, localIndex, batch, ch, emptyCount>>

\* The client hangs up, also during a write, or was never served in time.
Disconnect(c) ==
    /\ pc[c] \notin {"gone", "timedOut"}
    /\ pc' = [pc EXCEPT ![c] = "gone"]
    /\ batch' = [batch EXCEPT ![c] = NoBatch]
    /\ UNCHANGED <<ringVars, phase, localIndex, ch, emptyCount>>

-----------------------------------------------------------------------------
\* What the handler does without its client, and what needs the client to read.
ClientStep(c) == TakeChunks(c) \/ NoData(c) \/ GrabChannel(c) \/ CheckHead(c) \/ Wake(c)

SocketStep(c) == Sent(c) \/ HoldEnds(c)

Next ==
    \/ \E n \in 1 .. MaxBurst : Write(n)
    \/ \E call \in Calls : Broadcast(call)
    \/ Reset \/ Stop
    \/ \E c \in Clients :
          \/ WaitForReady(c) \/ ClientStep(c) \/ SocketStep(c)
          \/ CheckInterval(c) \/ Disconnect(c)

Spec == Init /\ [][Next]_vars

\* Goroutines are scheduled and timers fire; nobody has to come, go, write or stop.  A
\* write to a socket need not return: the server has no write deadline, and a player
\* that pauses stops reading (SocketStep).
Fairness ==
    /\ \A call \in Calls : WF_vars(Broadcast(call))
    /\ \A c \in Clients : WF_vars(ClientStep(c)) /\ WF_vars(CheckInterval(c))

FairSpec == Spec /\ Fairness

-----------------------------------------------------------------------------
(* Properties.                                                             *)

\* Every variable holds values of its kind.
TypeOK ==
    /\ head \in Nat /\ seq \in [Slots -> Int] /\ generation \in Nat
    /\ stopped \in BOOLEAN /\ notify \in Nat /\ unsent \subseteq Calls
    /\ pc \in [Clients -> Pcs]
    /\ phase \in [Clients -> {"first", "stream"}]
    /\ localIndex \in [Clients -> Nat]
    /\ batch \in [Clients -> [from : Nat, to : Nat]]
    /\ ch \in [Clients -> Nat]
    /\ emptyCount \in [Clients -> Nat]

\* No wakeup is lost: a client that waits on a channel nobody has closed has seen
\* every chunk, or the writer is about to broadcast.
NoLostWakeup ==
    \A c \in Clients :
        pc[c] = "blocked" /\ ch[c] = notify /\ localIndex[c] < Head => "write" \in unsent

\* A client is sent every chunk that is in the ring when it comes to it, and none
\* twice: what WriteAfterTo collects is stored, lies behind the cursor, and leaves out
\* only chunks that the ring has lost; the cursor moves to the end of what was sent
\* and nowhere else.
NothingSkipped ==
    [][\A c \in Clients :
         /\ pc[c] = "reading" /\ pc'[c] = "sending" =>
              LET sent == batch'[c].from .. batch'[c].to IN
              /\ sent # {} /\ \A i \in sent : Stored(i) /\ i > localIndex[c]
              /\ \A i \in localIndex[c] + 1 .. batch'[c].to : Stored(i) => i \in sent
         /\ pc[c] # "connecting" /\ localIndex'[c] # localIndex[c] =>
              /\ pc[c] = "sending" /\ localIndex'[c] = batch[c].to
              /\ localIndex[c] < batch[c].from]_vars

\* The player reads: no write to its socket blocks for ever.
PlayerReads(c) == pc[c] \notin {"sending", "holding"}

\* A client in the main loop whose player reads, and that has something to read, gets
\* it or its stream ends; it does not sleep or spin for ever next to data, also not
\* across a Reset.
ReadersAdvance ==
    \A c \in Clients : []<>PlayerReads(c) =>
        \A i \in 0 .. MaxHead :
            pc[c] # "connecting" /\ phase[c] = "stream" /\ localIndex[c] < i /\ i <= Head
                ~> localIndex[c] >= i \/ pc[c] \in {"gone", "timedOut"}

\* A stopped stream lets go of its clients: the request's context is not cancelled
\* by the hub, so the count of empty reads has to end every client whose player
\* reads.  One that is paused in a write stays until it hangs up.
StoppedDrains ==
    \A c \in Clients : []<>PlayerReads(c) =>
        (stopped /\ phase[c] = "stream" /\ pc[c] # "connecting" ~> pc[c] \in {"gone", "timedOut"})

\* "Number of consecutive no-data checks before aborting the stream": a client is
\* only aborted for want of data when the ring holds nothing newer than its cursor.
NoDataMeansSilence ==
    [][\A c \in Clients :
         pc[c] = "reading" /\ pc'[c] = "timedOut" =>
             \A i \in localIndex[c] + 1 .. Head : ~ Stored(i)]_vars
=============================================================================
