------------------------- MODULE HlsSegmentsProofs --------------------------
(* Proofs about HlsSegments, for every window, ring capacity and read size:  *)
(* the playlist is in order, its gaps are marked, and the segmenter does not *)
(* wait in front of a gap.                                                  *)
EXTENDS HlsSegments, StreamBufferProofs

USE BufferAssumption, WindowAssumption

Segment == [seq : Int, chunks : SUBSET Int, disc : BOOLEAN]

\* The chunk that is processed or, between two reads, looked for next.
NextChunk == IF Idle THEN run.cursor + 1 ELSE todo[1]

RunFields == {"pc", "cursor", "cursorGen", "gen", "ch"}

\* Values are of their kind, the cursor is not ahead of the ring, and what is
\* being processed ends at the cursor.
ShapeInv ==
    /\ head \in Nat /\ generation \in Nat /\ seq \in [Slots -> Int]
    /\ DOMAIN run = RunFields /\ run.cursor \in Int /\ run.cursorGen \in Nat /\ run.gen \in Nat
    /\ run.cursor <= Head
    /\ todo \in Int \X Int
    /\ ~Idle => todo[2] = run.cursor /\ run.pc = "read"
    /\ acc \in SUBSET Int /\ localSeq \in Int
    /\ segs \in Sq!Seq(Segment) /\ Sq!Len(segs) <= Window

Pending == pendingDiscontinuity \in BOOLEAN

\* What the segmenter has in hand: chunks that were written to the ring are read,
\* from StartIdx on.
LEMMA ReadRun ==
    ASSUME ShapeInv, NEW last \in Int, ReadAfter(run.cursor, MaxRead, last)
    PROVE  /\ StartIdx(run.cursor) \in Int /\ StartIdx(run.cursor) >= run.cursor + 1
           /\ StartIdx(run.cursor) <= last /\ last <= Head
BY DEF ShapeInv, ReadAfter, StartIdx, Oldest, Head

\* One chunk is processed.
LEMMA TakeEffect ==
    ASSUME ShapeInv, NEW i, Take(i), UNCHANGED run
    PROVE  /\ i \in Int /\ i = NextChunk /\ NextChunk' = i + 1 /\ todo' \in Int \X Int
           /\ ~Idle' => todo'[2] = run.cursor /\ run.pc = "read"
<1>1. todo[1] \in Int /\ todo[2] \in Int /\ i = todo[1] /\ ~Idle /\ todo[2] = run.cursor /\ run.pc = "read"
    BY DEF ShapeInv, Take
<1>2. todo' \in Int \X Int /\ todo'[1] = i + 1 /\ todo'[2] = todo[2]
    BY <1>1 DEF Take, ShapeInv
<1> QED
    BY <1>1, <1>2 DEF NextChunk, Idle, ShapeInv

\* A segment is pushed: the window slides by d, and the new one is the last.
Pushed(c, d) ==
    LET n == Sq!Len(segs) IN
    /\ segs' \in Sq!Seq(Segment) /\ Sq!Len(segs') = n + 1 - d
    /\ \A k \in 1 .. n - d : segs'[k] = segs[k + d]
    /\ segs'[n + 1 - d].seq = localSeq
    /\ segs'[n + 1 - d].chunks = c
    /\ segs'[n + 1 - d].disc = pendingDiscontinuity
    /\ localSeq' = localSeq + 1
    /\ pendingDiscontinuity' = FALSE

LEMMA PushEffect ==
    ASSUME ShapeInv, Pending, NEW c \in SUBSET Int, pushSegment(c)
    PROVE  \E d \in {0, 1} : Pushed(c, d) /\ (d = 1 <=> Sq!Len(segs) = Window)
<1> DEFINE new == [seq |-> localSeq, chunks |-> c, disc |-> pendingDiscontinuity]
           all == Sq!Append(segs, new)
           n   == Sq!Len(segs)
<1>1. new \in Segment /\ segs \in Sq!Seq(Segment) /\ n \in Nat /\ n <= Window
    BY DEF Segment, ShapeInv, Pending
<1>2. new.seq = localSeq /\ new.chunks = c /\ new.disc = pendingDiscontinuity
    OBVIOUS
<1>3. /\ segs' = IF Sq!Len(all) > Window THEN Sq!Tail(all) ELSE all
      /\ localSeq' = localSeq + 1 /\ pendingDiscontinuity' = FALSE
    BY DEF pushSegment
<1> HIDE DEF new
<1>4. /\ all \in Sq!Seq(Segment) /\ Sq!Len(all) = n + 1 /\ all[n + 1] = new
      /\ \A k \in 1 .. n : all[k] = segs[k]
    BY <1>1
<1> HIDE DEF all
<1>5. CASE n = Window
    <2>1. segs' = Sq!Tail(all)
        BY <1>3, <1>4, <1>5
    <2>2. /\ segs' \in Sq!Seq(Segment) /\ Sq!Len(segs') = n
          /\ \A k \in 1 .. n : segs'[k] = all[k + 1]
        BY <1>1, <1>4, <2>1
    <2>3. \A k \in 1 .. n - 1 : segs'[k] = segs[k + 1]
        BY <1>1, <1>4, <2>2
    <2>4. n \in 1 .. n /\ segs'[n] = new
        BY <1>1, <1>4, <1>5, <2>2
    <2>5. n + 1 - 1 = n
        BY <1>1
    <2>6. Pushed(c, 1)
        BY <1>2, <1>3, <2>2, <2>3, <2>4, <2>5, Zenon DEF Pushed
    <2> QED
        BY <1>5, <2>6
<1>6. CASE n # Window
    <2>1. segs' = all
        BY <1>1, <1>3, <1>4, <1>6
    <2>2. Pushed(c, 0)
        BY <1>1, <1>2, <1>3, <1>4, <2>1 DEF Pushed
    <2> QED
        BY <1>6, <2>2
<1> QED
    BY <1>5, <1>6

-----------------------------------------------------------------------------
(* Steps that cut nothing, and the shape of the state.                      *)

\* The ring: the writer, Reset, Stop and the broadcasts.
LEMMA RingEffect ==
    ASSUME ShapeInv, Ring
    PROVE  /\ head' \in Nat /\ head' >= head /\ generation' \in Nat /\ seq' \in [Slots -> Int]
           /\ UNCHANGED <<run, todo, cutVars, cancelled, lapped, lateAnchor>>
<1>1. ASSUME NEW n \in 1 .. MaxBurst, Write(n)
      PROVE  head' \in Nat /\ head' >= head /\ generation' \in Nat /\ seq' \in [Slots -> Int]
    <2>1. \A s \in Slots : LastIn(s, head + n) \in Int
        BY DEF LastIn, Slots, ShapeInv
    <2> QED
        BY <1>1, <2>1 DEF Write, ShapeInv
<1>2. ASSUME Reset \/ Stop \/ \E call \in Calls : Broadcast(call)
      PROVE  head' \in Nat /\ head' >= head /\ generation' \in Nat /\ seq' \in [Slots -> Int]
    <2>1. seq' = seq \/ seq' = [s \in Slots |-> -1]
        BY <1>2 DEF Reset, Stop, Broadcast
    <2>2. -1 \in Int
        OBVIOUS
    <2>3. seq' \in [Slots -> Int]
        BY <2>1, <2>2, Zenon DEF ShapeInv
    <2> QED
        BY <1>2, <2>3 DEF Reset, Stop, Broadcast, ShapeInv
<1>3. UNCHANGED <<run, todo, cutVars, cancelled, lapped, lateAnchor>>
    BY DEF Ring, segVars, histVars
<1> QED
    BY <1>1, <1>2, <1>3 DEF Ring

\* The segmenter between two reads: its cursor stays or moves up to the live edge.
Between ==
    \/ AnchorHead \/ AnchorGeneration \/ EmptyRead \/ CheckGeneration \/ Reanchor
    \/ SegGrab \/ SegCheckHead \/ SegWake \/ SegFlush \/ SegDone

LEMMA BetweenEffect ==
    ASSUME ShapeInv, Between
    PROVE  /\ Idle /\ Idle' /\ UNCHANGED <<vars, todo, born, lapped>>
           /\ DOMAIN run' = RunFields /\ run'.cursor \in {run.cursor, Head}
           /\ run'.cursorGen \in {run.cursorGen, generation, run.gen} /\ run'.gen \in {run.gen, generation, 0}
<1>1. Idle /\ UNCHANGED <<vars, todo, born, lapped>>
    BY DEF Between, AnchorHead, AnchorGeneration, EmptyRead, CheckGeneration, Reanchor, SegGrab,
           SegCheckHead, SegWake, SegFlush, SegDone, At, histVars
<1>2. /\ DOMAIN run' = RunFields /\ run'.cursor \in {run.cursor, Head}
      /\ run'.cursorGen \in {run.cursorGen, generation, run.gen} /\ run'.gen \in {run.gen, generation, 0}
    <2>1. Floor(Head) = Head
        BY DEF Floor, Head, ShapeInv
    <2> USE DEF ShapeInv, RunFields
    <2>2. CASE AnchorHead \/ AnchorGeneration \/ Reanchor
        BY <2>1, <2>2 DEF AnchorHead, AnchorGeneration, Reanchor
    <2>3. CASE EmptyRead \/ SegGrab \/ SegWake \/ SegFlush \/ SegDone
        BY <2>3 DEF EmptyRead, SegGrab, SegWake, SegFlush, SegDone
    <2>4. CASE CheckGeneration
        BY <2>4 DEF CheckGeneration
    <2>5. CASE SegCheckHead
        BY <2>5 DEF SegCheckHead
    <2> QED
        BY <2>2, <2>3, <2>4, <2>5 DEF Between
<1> QED
    BY <1>1, <1>2 DEF Idle

\* A read.
LEMMA ReadEffect ==
    ASSUME ShapeInv, ReadChunks
    PROVE  /\ Idle /\ ~Idle' /\ UNCHANGED <<vars, cutVars, born, lateAnchor>>
           /\ DOMAIN run' = RunFields /\ run.pc = "read" /\ run'.pc = "read"
           /\ run'.cursorGen = run.cursorGen /\ run'.gen = run.gen
           /\ run'.cursor \in Int /\ run.cursor < run'.cursor /\ run'.cursor <= Head
           /\ todo' \in Int \X Int /\ todo'[1] = StartIdx(run.cursor) /\ todo'[2] = run'.cursor
           /\ StartIdx(run.cursor) \in Int /\ StartIdx(run.cursor) >= run.cursor + 1
           /\ lapped \subseteq lapped'
           /\ StartIdx(run.cursor) = run.cursor + 1 \/ run.cursor \in lapped'
<1>1. PICK last \in 0 .. MaxHead : /\ ReadAfter(run.cursor, MaxRead, last)
                                   /\ todo' = <<StartIdx(run.cursor), last>>
                                   /\ run' = [run EXCEPT !.cursor = last]
    BY DEF ReadChunks
<1>2. /\ StartIdx(run.cursor) \in Int /\ StartIdx(run.cursor) >= run.cursor + 1
      /\ StartIdx(run.cursor) <= last /\ last <= Head /\ last \in Int
    BY <1>1, ReadRun
<1>3. /\ DOMAIN run' = RunFields /\ run'.cursor = last /\ run'.pc = run.pc
      /\ run'.cursorGen = run.cursorGen /\ run'.gen = run.gen
    BY <1>1 DEF ShapeInv, RunFields
<1>4. Idle /\ run.pc = "read" /\ UNCHANGED <<vars, cutVars, born, lateAnchor>>
    BY DEF ReadChunks, At
<1>5. lapped \subseteq lapped' /\ (StartIdx(run.cursor) > run.cursor + 1 => run.cursor \in lapped')
    BY DEF ReadChunks
<1>6. todo' \in Int \X Int /\ todo'[1] = StartIdx(run.cursor) /\ todo'[2] = last
    BY <1>1, <1>2
<1>7. ~Idle' /\ run.cursor \in Int
    BY <1>2, <1>6 DEF Idle, ShapeInv
<1> QED
    BY <1>2, <1>3, <1>4, <1>5, <1>6, <1>7

LEMMA ShapeStep == ShapeInv /\ Pending /\ [HlsNext]_hlsVars => ShapeInv' /\ Pending'
<1> SUFFICES ASSUME ShapeInv, Pending, [HlsNext]_hlsVars PROVE ShapeInv' /\ Pending'
    OBVIOUS
<1>1. ASSUME NEW c \in SUBSET Int, pushSegment(c)
      PROVE  localSeq' \in Int /\ segs' \in Sq!Seq(Segment) /\ Sq!Len(segs') <= Window /\ Pending'
    <2>1. PICK d \in {0, 1} : Pushed(c, d) /\ (d = 1 <=> Sq!Len(segs) = Window)
        BY <1>1, PushEffect
    <2>2. segs \in Sq!Seq(Segment) /\ Sq!Len(segs) \in Nat /\ Sq!Len(segs) <= Window /\ localSeq \in Int
        BY DEF ShapeInv
    <2>3. pendingDiscontinuity' = FALSE
        BY <2>1 DEF Pushed
    <2>4. localSeq' \in Int /\ segs' \in Sq!Seq(Segment) /\ Sq!Len(segs') <= Window
        BY <2>1, <2>2 DEF Pushed
    <2> QED
        BY <2>3, <2>4 DEF Pending
<1>2. ASSUME UNCHANGED <<segs, localSeq, pendingDiscontinuity>>
      PROVE  localSeq' \in Int /\ segs' \in Sq!Seq(Segment) /\ Sq!Len(segs') <= Window /\ Pending'
    BY <1>2 DEF ShapeInv, Pending
<1>3. CASE Ring
    <2>1. Pending'
        BY <1>2, <1>3, RingEffect DEF cutVars
    <2>2. /\ head' \in Nat /\ head' >= head /\ generation' \in Nat /\ seq' \in [Slots -> Int]
          /\ UNCHANGED <<run, todo, acc, localSeq, segs>>
        BY <1>3, RingEffect DEF cutVars
    <2>3. ShapeInv'
        BY <2>2 DEF ShapeInv, Head, Idle
    <2> QED
        BY <2>1, <2>3
<1>4. CASE ReadChunks
    <2>1. Pending'
        BY <1>2, <1>4, ReadEffect DEF cutVars
    <2>2. ShapeInv'
        BY <1>4, ReadEffect DEF ShapeInv, cutVars, Head, vars, ringVars
    <2> QED
        BY <2>1, <2>2
<1>5. ASSUME NEW i \in 0 .. MaxHead, Packet(i) \/ Cut(i) \/ CutBefore(i) PROVE ShapeInv' /\ Pending'
    <2>1. Take(i) /\ UNCHANGED <<vars, run>> /\ i \in Int
        BY <1>5 DEF Packet, Cut, CutBefore
    <2>2. todo' \in Int \X Int /\ (~Idle' => todo'[2] = run.cursor /\ run.pc = "read")
        BY <2>1, TakeEffect
    <2>3. \/ \E c \in SUBSET Int : pushSegment(c)
          \/ UNCHANGED <<segs, localSeq, pendingDiscontinuity>>
        BY <1>5, <2>1 DEF Packet, Cut, CutBefore, NoPush, ShapeInv
    <2>4. acc' \in SUBSET Int
        BY <1>5, <2>1 DEF Packet, Cut, CutBefore, ShapeInv
    <2>5. localSeq' \in Int /\ segs' \in Sq!Seq(Segment) /\ Sq!Len(segs') <= Window /\ Pending'
        BY <1>1, <1>2, <2>3
    <2>6. ShapeInv'
        BY <2>1, <2>2, <2>4, <2>5 DEF ShapeInv, vars, ringVars, Head
    <2> QED
        BY <2>5, <2>6
<1>6. CASE Between
    <2>1. Pending' /\ localSeq' \in Int /\ segs' \in Sq!Seq(Segment) /\ Sq!Len(segs') <= Window
        <3>1. CASE SegFlush
            BY <1>1, <1>2, <3>1 DEF SegFlush, NoPush, ShapeInv
        <3>2. CASE Reanchor
            <4>1. pendingDiscontinuity' = TRUE /\ UNCHANGED <<segs, localSeq>>
                BY <3>2 DEF Reanchor
            <4> QED
                BY <4>1 DEF ShapeInv, Pending
        <3>3. CASE ~SegFlush /\ ~Reanchor
            <4>1. UNCHANGED <<segs, localSeq, pendingDiscontinuity>>
                BY <1>6, <3>3 DEF Between, AnchorHead, AnchorGeneration, EmptyRead, CheckGeneration,
                                  SegGrab, SegCheckHead, SegWake, SegDone, NoPush, cutVars
            <4> QED
                BY <1>2, <4>1
        <3> QED
            BY <3>1, <3>2, <3>3
    <2>2. acc' \in SUBSET Int
        <3>1. acc' \in {acc, {}}
            BY <1>6 DEF Between, AnchorHead, AnchorGeneration, EmptyRead, CheckGeneration, Reanchor,
                        SegGrab, SegCheckHead, SegWake, SegFlush, SegDone, cutVars
        <3> QED
            BY <3>1 DEF ShapeInv
    <2>3. /\ DOMAIN run' = RunFields /\ run'.cursor \in Int /\ run'.cursor <= Head
          /\ run'.cursorGen \in Nat /\ run'.gen \in Nat
        BY <1>6, BetweenEffect DEF ShapeInv, Head
    <2>4. Idle' /\ UNCHANGED <<head, generation, seq, todo>>
        BY <1>6, BetweenEffect DEF vars, ringVars
    <2>5. ShapeInv'
        BY <2>1, <2>2, <2>3, <2>4 DEF ShapeInv, Head
    <2> QED
        BY <2>1, <2>5
<1>7. CASE SegStop \/ UNCHANGED hlsVars
    <2>1. UNCHANGED <<vars, run, todo, cutVars>>
        BY <1>7 DEF SegStop, hlsVars, segVars
    <2>2. UNCHANGED <<segs, localSeq, pendingDiscontinuity>>
        BY <2>1 DEF cutVars
    <2>3. Pending'
        BY <1>2, <2>2
    <2>4. ShapeInv'
        BY <2>1 DEF ShapeInv, vars, ringVars, cutVars, Head, Idle
    <2> QED
        BY <2>3, <2>4
<1> QED
    BY <1>3, <1>4, <1>5, <1>6, <1>7 DEF HlsNext, SegStep, Slice, Between

-----------------------------------------------------------------------------
(* The window.                                                              *)

\* Segments are numbered in a row, not empty, in the order of the stream, and
\* before what is in hand, which is before the next chunk.
OrderInv ==
    /\ \A k \in 1 .. Sq!Len(segs) : /\ segs[k].seq = localSeq - Sq!Len(segs) + k - 1
                                    /\ segs[k].chunks # {}
    /\ \A k, m \in 1 .. Sq!Len(segs) : k < m =>
          \A i \in segs[k].chunks, j \in segs[m].chunks : i < j
    /\ \A k \in 1 .. Sq!Len(segs) : \A i \in segs[k].chunks :
          i < NextChunk /\ \A j \in acc : i < j
    /\ \A i \in acc : i < NextChunk

\* The segments hold integers.
LEMMA ChunkTypes ==
    ASSUME ShapeInv
    PROVE  /\ segs \in Sq!Seq(Segment) /\ Sq!Len(segs) \in Nat /\ DOMAIN segs = 1 .. Sq!Len(segs)
           /\ \A k \in 1 .. Sq!Len(segs) : segs[k].chunks \in SUBSET Int /\ segs[k].seq \in Int
           /\ acc \in SUBSET Int /\ NextChunk \in Int /\ NextChunk <= run.cursor + 1 /\ localSeq \in Int
<1>1. segs \in Sq!Seq(Segment) /\ Sq!Len(segs) \in Nat /\ DOMAIN segs = 1 .. Sq!Len(segs)
    BY DEF ShapeInv
<1>2. \A k \in 1 .. Sq!Len(segs) : segs[k] \in Segment
    BY <1>1
<1>3. \A k \in 1 .. Sq!Len(segs) : segs[k].chunks \in SUBSET Int /\ segs[k].seq \in Int
    BY <1>2 DEF Segment
<1>4. acc \in SUBSET Int /\ NextChunk \in Int /\ NextChunk <= run.cursor + 1 /\ localSeq \in Int
    BY DEF ShapeInv, NextChunk, Idle
<1> QED
    BY <1>1, <1>3, <1>4

\* A push keeps the order: what is pushed is between the window and the next
\* chunk, and so is what remains in hand after it.
LEMMA OrderPush ==
    ASSUME ShapeInv, Pending, OrderInv, NEW c \in SUBSET Int, pushSegment(c), c # {},
           acc' \in SUBSET Int, NextChunk' \in Int,
           \A i \in c : i < NextChunk' /\ \A j \in acc' : i < j,
           \A k \in 1 .. Sq!Len(segs) : \A i \in segs[k].chunks : \A j \in c \cup acc' : i < j,
           \A i \in acc' : i < NextChunk'
    PROVE  OrderInv'
<1>1. PICK d \in {0, 1} : Pushed(c, d) /\ (d = 1 <=> Sq!Len(segs) = Window)
    BY PushEffect
<1> DEFINE n == Sq!Len(segs)
<1>2. n \in Nat /\ localSeq \in Int /\ \A k \in 1 .. n : segs[k].chunks \in SUBSET Int /\ segs[k].seq \in Int
    BY ChunkTypes
<1>3. /\ Sq!Len(segs') = n + 1 - d /\ localSeq' = localSeq + 1
      /\ \A k \in 1 .. n - d : segs'[k] = segs[k + d]
      /\ segs'[n + 1 - d].seq = localSeq /\ segs'[n + 1 - d].chunks = c
    BY <1>1 DEF Pushed
<1>4. n >= d
    BY <1>1, <1>2
<1>5. /\ \A k \in 1 .. n : segs[k].seq = localSeq - n + k - 1 /\ segs[k].chunks # {}
      /\ \A k, m \in 1 .. n : k < m => \A i \in segs[k].chunks, j \in segs[m].chunks : i < j
    BY DEF OrderInv
<1> HIDE DEF n
<1>6. ASSUME NEW k \in 1 .. n + 1 - d
      PROVE  segs'[k].seq = localSeq' - (n + 1 - d) + k - 1 /\ segs'[k].chunks # {}
    <2>1. CASE k = n + 1 - d
        BY <1>2, <1>3, <1>4, <2>1
    <2>2. CASE k # n + 1 - d
        <3>1. k \in 1 .. n - d /\ k + d \in 1 .. n
            BY <1>2, <1>4, <2>2
        <3>2. segs'[k] = segs[k + d]
            BY <1>3, <3>1
        <3>3. segs[k + d].seq = localSeq - n + (k + d) - 1 /\ segs[k + d].chunks # {}
            BY <1>5, <3>1
        <3> QED
            BY <1>2, <1>3, <3>2, <3>3
    <2> QED
        BY <2>1, <2>2
<1>7. ASSUME NEW k \in 1 .. n + 1 - d, NEW i \in segs'[k].chunks
      PROVE  i < NextChunk' /\ \A j \in acc' : i < j
    <2>1. CASE k = n + 1 - d
        BY <1>3, <1>7, <2>1
    <2>2. CASE k # n + 1 - d
        <3>1. k \in 1 .. n - d /\ k + d \in 1 .. n
            BY <1>2, <1>4, <2>2
        <3>2. i \in segs[k + d].chunks /\ i \in Int
            BY <1>2, <1>3, <1>7, <3>1
        <3>3. PICK j \in c : j \in Int /\ i < j /\ j < NextChunk'
            BY <3>1, <3>2 DEF n
        <3> QED
            BY <3>1, <3>2, <3>3 DEF n
    <2> QED
        BY <2>1, <2>2
<1>8. ASSUME NEW k \in 1 .. n + 1 - d, NEW m \in 1 .. n + 1 - d, k < m,
             NEW i \in segs'[k].chunks, NEW j \in segs'[m].chunks
      PROVE  i < j
    <2>1. k \in 1 .. n - d /\ k + d \in 1 .. n
        BY <1>2, <1>4, <1>8
    <2>2. i \in segs[k + d].chunks
        BY <1>3, <2>1
    <2>3. CASE m = n + 1 - d
        BY <1>3, <2>1, <2>2, <2>3 DEF n
    <2>4. CASE m # n + 1 - d
        <3>1. m \in 1 .. n - d /\ m + d \in 1 .. n /\ k + d < m + d
            BY <1>2, <1>4, <1>8, <2>4
        <3>2. j \in segs[m + d].chunks
            BY <1>3, <3>1
        <3> QED
            BY <1>5, <2>1, <2>2, <3>1, <3>2
    <2> QED
        BY <2>3, <2>4
<1> QED
    BY <1>3, <1>6, <1>7, <1>8 DEF OrderInv

\* The segments stay while the segmenter gets ahead.
LEMMA OrderKept ==
    ASSUME ShapeInv, OrderInv, UNCHANGED <<segs, localSeq>>, acc' \subseteq acc,
           NextChunk' \in Int, NextChunk' >= NextChunk
    PROVE  OrderInv'
<1>1. \A k \in 1 .. Sq!Len(segs) : segs[k].chunks \in SUBSET Int
    BY ChunkTypes
<1>2. acc \in SUBSET Int /\ NextChunk \in Int
    BY ChunkTypes
<1> HIDE DEF NextChunk
<1>3. \A k \in 1 .. Sq!Len(segs) : \A i \in segs[k].chunks : i < NextChunk' /\ \A j \in acc' : i < j
    BY <1>1, <1>2 DEF OrderInv
<1>4. \A i \in acc' : i < NextChunk'
    BY <1>2 DEF OrderInv
<1> QED
    BY <1>3, <1>4 DEF OrderInv

\* Between two reads the next chunk is the one after the cursor.
LEMMA NextBetween ==
    ASSUME ShapeInv, Between
    PROVE  NextChunk = run.cursor + 1 /\ NextChunk' = run'.cursor + 1 /\ NextChunk' \in Int /\ NextChunk' >= NextChunk
<1>1. run.cursor \in Int /\ Head \in Int /\ run.cursor <= Head
    BY DEF ShapeInv, Head
<1>2. Idle /\ Idle' /\ run'.cursor \in {run.cursor, Head}
    BY BetweenEffect
<1> QED
    BY <1>1, <1>2 DEF NextChunk

LEMMA OrderStep == ShapeInv /\ Pending /\ OrderInv /\ [HlsNext]_hlsVars => OrderInv'
<1> SUFFICES ASSUME ShapeInv, Pending, OrderInv, [HlsNext]_hlsVars PROVE OrderInv'
    OBVIOUS
<1>0. /\ acc \in SUBSET Int /\ NextChunk \in Int
      /\ \A k \in 1 .. Sq!Len(segs) : segs[k].chunks \in SUBSET Int
    BY ChunkTypes
<1>1. CASE Ring
    <2>1. UNCHANGED <<segs, localSeq, acc, run, todo>>
        BY <1>1, RingEffect DEF cutVars
    <2>2. NextChunk' = NextChunk
        BY <2>1 DEF NextChunk, Idle
    <2> QED
        BY <1>0, <2>1, <2>2, OrderKept
<1>2. CASE ReadChunks
    <2>1. UNCHANGED <<segs, localSeq, acc>>
        BY <1>2, ReadEffect DEF cutVars
    <2>2. NextChunk' \in Int /\ NextChunk' >= NextChunk
        BY <1>2, ReadEffect DEF NextChunk, ShapeInv
    <2> QED
        BY <2>1, <2>2, OrderKept
<1>3. ASSUME NEW i \in 0 .. MaxHead, Packet(i) \/ Cut(i) \/ CutBefore(i) PROVE OrderInv'
    <2>1. Take(i) /\ UNCHANGED run
        BY <1>3 DEF Packet, Cut, CutBefore
    <2>2. i \in Int /\ i = NextChunk /\ NextChunk' = i + 1
        BY <2>1, TakeEffect
    <2>3. /\ \A j \in acc : j < i
          /\ \A k \in 1 .. Sq!Len(segs) : \A j \in segs[k].chunks : j < i /\ \A x \in acc : j < x
        BY <2>2 DEF OrderInv
    <2>4. CASE Packet(i)
        <3>1. acc' = acc \cup {i} /\ UNCHANGED <<segs, localSeq>>
            BY <2>4 DEF Packet, NoPush
        <3> QED
            BY <1>0, <2>2, <2>3, <3>1 DEF OrderInv
    <2>5. CASE Cut(i)
        BY <1>0, <2>2, <2>3, <2>5, OrderPush DEF Cut
    <2>6. CASE CutBefore(i) /\ acc = {}
        <3>1. acc' = {i} /\ UNCHANGED <<segs, localSeq>>
            BY <2>6 DEF CutBefore, NoPush
        <3> QED
            BY <1>0, <2>2, <2>3, <3>1 DEF OrderInv
    <2>7. CASE CutBefore(i) /\ acc # {}
        <3>1. acc' = {i} /\ pushSegment(acc)
            BY <2>7 DEF CutBefore
        <3> QED
            BY <1>0, <2>2, <2>3, <2>7, <3>1, OrderPush
    <2> QED
        BY <1>3, <2>4, <2>5, <2>6, <2>7
<1>4. CASE Between
    <2>1. NextChunk' \in Int /\ NextChunk' >= NextChunk
        BY <1>4, NextBetween
    <2>2. CASE SegFlush /\ acc # {}
        <3>1. pushSegment(acc) /\ acc' = {}
            BY <2>2 DEF SegFlush
        <3>2. \A j \in acc : j < NextChunk'
            BY <1>0, <2>1 DEF OrderInv
        <3> QED
            BY <1>0, <2>1, <2>2, <3>1, <3>2, OrderPush DEF OrderInv
    <2>3. CASE ~(SegFlush /\ acc # {})
        <3>1. UNCHANGED <<segs, localSeq>> /\ acc' \subseteq acc
            BY <1>4, <2>3 DEF Between, AnchorHead, AnchorGeneration, EmptyRead, CheckGeneration, Reanchor,
                              SegGrab, SegCheckHead, SegWake, SegFlush, SegDone, NoPush, cutVars
        <3> QED
            BY <2>1, <3>1, OrderKept
    <2> QED
        BY <2>2, <2>3
<1>5. CASE SegStop \/ UNCHANGED hlsVars
    <2>1. UNCHANGED <<segs, localSeq, acc, run, todo>>
        BY <1>5 DEF SegStop, hlsVars, segVars, cutVars
    <2>2. NextChunk' = NextChunk
        BY <2>1 DEF NextChunk, Idle
    <2> QED
        BY <1>0, <2>1, <2>2, OrderKept
<1> QED
    BY <1>1, <1>2, <1>3, <1>4, <1>5 DEF HlsNext, SegStep, Slice, Between

LEMMA WindowInit == HlsInit => ShapeInv /\ Pending /\ OrderInv
<1> SUFFICES ASSUME HlsInit PROVE ShapeInv /\ Pending /\ OrderInv
    OBVIOUS
<1>1. seq \in [Slots -> Int]
    <2>1. -1 \in Int /\ seq = [s \in Slots |-> -1]
        BY DEF HlsInit, Init
    <2> QED
        BY <2>1, Zenon
<1>2. segs = <<>> /\ segs \in Sq!Seq(Segment) /\ Sq!Len(segs) = 0 /\ acc = {} /\ localSeq = 0
    BY DEF HlsInit
<1>3. /\ DOMAIN run = RunFields /\ run.cursor = -1 /\ run.cursorGen = 0 /\ run.gen = 0
      /\ todo = <<0, -1>> /\ head = 0 /\ generation = 0
    BY DEF HlsInit, Init, RunFields
<1>4. todo \in Int \X Int /\ Idle
    BY <1>3 DEF Idle
<1>5. ShapeInv
    BY <1>1, <1>2, <1>3, <1>4 DEF ShapeInv, Head
<1>6. OrderInv
    BY <1>2 DEF OrderInv
<1>7. Pending
    BY DEF Pending, HlsInit
<1> QED
    BY <1>5, <1>6, <1>7

\* Whatever the packets say of cuts, and wherever resets, flushes and lapped
\* reads fall: a playlist names at most Window segments in a row, and their
\* chunks are in the order of the stream, none twice.
THEOREM PlaylistInOrder == HlsSpec => []WindowInOrder
<1>1. ShapeInv /\ OrderInv => WindowInOrder
    <2> SUFFICES ASSUME ShapeInv, OrderInv PROVE WindowInOrder
        OBVIOUS
    <2>1. /\ DOMAIN segs = 1 .. Sq!Len(segs) /\ NextChunk \in Int /\ NextChunk <= run.cursor + 1
          /\ \A k \in 1 .. Sq!Len(segs) : segs[k].chunks \in SUBSET Int
        BY ChunkTypes
    <2>2. run.cursor \in Int /\ Sq!Len(segs) <= Window
        BY DEF ShapeInv
    <2>3. \A k \in DOMAIN segs : Manifest[k].seq = segs[k].seq
        BY DEF Manifest
    <2>4. \A k \in DOMAIN segs : \A i \in segs[k].chunks : i <= run.cursor
        BY <2>1, <2>2 DEF OrderInv
    <2> QED
        BY <2>1, <2>2, <2>3, <2>4 DEF OrderInv, WindowInOrder
<1> QED
    BY <1>1, WindowInit, ShapeStep, OrderStep, PTL DEF HlsSpec

-----------------------------------------------------------------------------
(* Gaps.                                                                    *)

Served == UNION {segs[k].chunks : k \in 1 .. Sq!Len(segs)}

Adjacent(i, j, S) == i < j /\ \A x \in S : x <= i \/ j <= x

\* The next chunk, or the ring has overtaken the segmenter between the two.
Bridged(i, j) == j = i + 1 \/ \E x \in lapped : i <= x /\ x < j

WindowGaps ==
    \A k \in 1 .. Sq!Len(segs) : \A i \in Served, j \in segs[k].chunks :
        Adjacent(i, j, Served) => Bridged(i, j) \/ (segs[k].disc /\ i \notin segs[k].chunks)

\* What a segment of the chunks c would say of its gaps.
PendingGaps(c) ==
    \A i \in Served \cup c, j \in c :
        Adjacent(i, j, Served \cup c) => Bridged(i, j) \/ (pendingDiscontinuity /\ i \notin c)

\* The gap in front of the next chunk.
NextGap ==
    \A i \in Served \cup acc :
        (\A x \in Served \cup acc : x <= i) => Bridged(i, NextChunk) \/ (pendingDiscontinuity /\ i \notin acc)

\* Every gap is accounted for: in the window, in hand and in front of the next
\* chunk, except from the moment a new generation drops what is in hand until the
\* mark is set.
GapInv ==
    /\ WindowGaps /\ PendingGaps(acc)
    /\ run.pc # "reanchor" => NextGap
    /\ run.pc \in {"start", "anchor"} => segs = <<>> /\ acc = {}
    /\ run.pc = "reanchor" => acc = {}

LEMMA ServedOrder ==
    ASSUME ShapeInv, OrderInv
    PROVE  /\ Served \in SUBSET Int /\ acc \in SUBSET Int
           /\ \A i \in Served : i < NextChunk /\ \A j \in acc : i < j
           /\ \A i \in acc : i < NextChunk
<1>1. \A k \in 1 .. Sq!Len(segs) : segs[k].chunks \in SUBSET Int
    BY ChunkTypes
<1>2. acc \in SUBSET Int
    BY ChunkTypes
<1> QED
    BY <1>1, <1>2 DEF Served, OrderInv

\* A push adds its chunks to the window and drops at most the oldest ones.
LEMMA ServedPush ==
    ASSUME ShapeInv, Pending, OrderInv, NEW c \in SUBSET Int, pushSegment(c),
           \A i \in Served, j \in c : i < j
    PROVE  /\ c \subseteq Served' /\ Served' \subseteq Served \cup c
           /\ \A x \in Served : x \in Served' \/ \A y \in Served' : x < y
<1>1. PICK d \in {0, 1} : Pushed(c, d) /\ (d = 1 <=> Sq!Len(segs) = Window)
    BY PushEffect
<1> DEFINE n == Sq!Len(segs)
<1>2. n \in Nat
    BY ChunkTypes
<1>3. /\ Sq!Len(segs') = n + 1 - d /\ segs'[n + 1 - d].chunks = c
      /\ \A k \in 1 .. n - d : segs'[k] = segs[k + d]
    BY <1>1 DEF Pushed
<1>4. n >= d
    BY <1>1, <1>2
<1>5. \A k, m \in 1 .. n : k < m => \A i \in segs[k].chunks, j \in segs[m].chunks : i < j
    BY DEF OrderInv
<1>6. Served = UNION {segs[k].chunks : k \in 1 .. n} /\ Served' = UNION {segs'[k].chunks : k \in 1 .. n + 1 - d}
    BY <1>3 DEF Served
<1> HIDE DEF n
<1>7. c \subseteq Served'
    BY <1>2, <1>3, <1>4, <1>6
<1>8. ASSUME NEW y \in Served'
      PROVE  y \in c \/ \E m \in 1 .. n : m > d /\ y \in segs[m].chunks
    <2>1. PICK m \in 1 .. n + 1 - d : y \in segs'[m].chunks
        BY <1>6
    <2>2. CASE m = n + 1 - d
        BY <1>3, <2>1, <2>2
    <2>3. CASE m # n + 1 - d
        <3>1. m \in 1 .. n - d /\ m + d \in 1 .. n /\ m + d > d
            BY <1>2, <1>4, <2>3
        <3>2. y \in segs[m + d].chunks
            BY <1>3, <2>1, <3>1
        <3> QED
            BY <3>1, <3>2
    <2> QED
        BY <2>2, <2>3
<1>9. ASSUME NEW x \in Served PROVE x \in Served' \/ \A y \in Served' : x < y
    <2>1. PICK k \in 1 .. n : x \in segs[k].chunks
        BY <1>6
    <2>2. CASE k > d
        <3>1. k - d \in 1 .. n - d /\ k - d \in 1 .. n + 1 - d /\ (k - d) + d = k
            BY <1>2, <1>4, <2>2
        <3>2. segs'[k - d] = segs[k]
            BY <1>3, <3>1
        <3> QED
            BY <1>6, <2>1, <3>1, <3>2
    <2>3. CASE k <= d
        <3> SUFFICES ASSUME NEW y \in Served' PROVE x < y
            OBVIOUS
        <3>1. CASE y \in c
            BY <3>1
        <3>2. CASE \E m \in 1 .. n : m > d /\ y \in segs[m].chunks
            <4>1. PICK m \in 1 .. n : m > d /\ y \in segs[m].chunks
                BY <3>2
            <4>2. k < m
                BY <1>2, <2>3, <4>1
            <4> QED
                BY <1>5, <2>1, <4>1, <4>2
        <3> QED
            BY <1>8, <3>1, <3>2
    <2> QED
        BY <1>2, <2>2, <2>3
<1>10. Served' \subseteq Served \cup c
    BY <1>6, <1>8
<1> QED
    BY <1>7, <1>9, <1>10

\* A push keeps the gaps of the window marked.
LEMMA GapPush ==
    ASSUME ShapeInv, Pending, OrderInv, WindowGaps, NEW c \in SUBSET Int, pushSegment(c), PendingGaps(c),
           \A i \in Served, j \in c : i < j, UNCHANGED lapped
    PROVE  WindowGaps'
<1>1. PICK d \in {0, 1} : Pushed(c, d) /\ (d = 1 <=> Sq!Len(segs) = Window)
    BY PushEffect
<1> DEFINE n == Sq!Len(segs)
<1>2. n \in Nat
    BY ChunkTypes
<1>3. /\ Sq!Len(segs') = n + 1 - d /\ segs'[n + 1 - d].chunks = c
      /\ \A k \in 1 .. n - d : segs'[k] = segs[k + d]
    BY <1>1 DEF Pushed
<1>4. segs'[n + 1 - d].disc = pendingDiscontinuity
    BY <1>1 DEF Pushed
<1>5. n >= d
    BY <1>1, <1>2
<1>6. /\ c \subseteq Served' /\ Served' \subseteq Served \cup c
      /\ \A x \in Served : x \in Served' \/ \A y \in Served' : x < y
    BY ServedPush
<1>7. Served \in SUBSET Int
    BY ServedOrder
<1>8. ASSUME NEW k \in 1 .. n + 1 - d, NEW i \in Served', NEW j \in segs'[k].chunks, Adjacent(i, j, Served')
      PROVE  Bridged(i, j) \/ (segs'[k].disc /\ i \notin segs'[k].chunks)
    <2>1. CASE k = n + 1 - d
        <3>1. j \in c /\ i \in Served \cup c
            BY <1>3, <1>6, <1>8, <2>1
        <3>2. Adjacent(i, j, Served \cup c)
            BY <1>6, <1>7, <1>8, <3>1 DEF Adjacent
        <3>3. Bridged(i, j) \/ (pendingDiscontinuity /\ i \notin c)
            BY <3>1, <3>2 DEF PendingGaps
        <3> QED
            BY <1>3, <1>4, <2>1, <3>3, Zenon
    <2>2. CASE k # n + 1 - d
        <3>1. k \in 1 .. n - d /\ k + d \in 1 .. n
            BY <1>2, <1>5, <2>2
        <3>2. segs'[k] = segs[k + d]
            BY <1>3, <3>1
        <3>3. j \in Served /\ j \in segs[k + d].chunks
            BY <1>8, <3>1, <3>2 DEF Served
        <3>4. i \in Served
            BY <1>6, <1>7, <1>8, <3>3 DEF Adjacent
        <3>5. Adjacent(i, j, Served)
            BY <1>6, <1>7, <1>8, <3>3, <3>4 DEF Adjacent
        <3>6. Bridged(i, j) \/ (segs[k + d].disc /\ i \notin segs[k + d].chunks)
            BY <3>1, <3>3, <3>4, <3>5 DEF WindowGaps
        <3> QED
            BY <3>2, <3>6, Zenon
    <2> QED
        BY <2>1, <2>2
<1>9. \A i, j : Bridged(i, j)' <=> Bridged(i, j)
    BY DEF Bridged
<1> QED
    BY <1>3, <1>8, <1>9 DEF WindowGaps, Adjacent

\* The chunk that is taken next, put to what is in hand.
LEMMA GapExtend ==
    ASSUME ShapeInv, OrderInv, PendingGaps(acc), NextGap, NEW c, c = acc \cup {NextChunk}
    PROVE  PendingGaps(c)
<1> DEFINE t == NextChunk
<1>1. /\ t \in Int /\ Served \in SUBSET Int /\ acc \in SUBSET Int
      /\ \A i \in Served \cup acc : i < t
    BY ServedOrder, ChunkTypes
<1> HIDE DEF t
<1>2. SUFFICES ASSUME NEW i \in Served \cup c, NEW j \in c, Adjacent(i, j, Served \cup c)
               PROVE  Bridged(i, j) \/ (pendingDiscontinuity /\ i \notin c)
    BY DEF PendingGaps
<1>3. c = acc \cup {t} /\ i < j /\ i \in Int /\ j \in Int
    BY <1>1, <1>2 DEF t, Adjacent
<1>4. i \in Served \cup acc /\ i # t
    BY <1>1, <1>2, <1>3
<1>5. CASE j = t
    <2>1. \A x \in Served \cup acc : x <= i
        BY <1>1, <1>2, <1>3, <1>5 DEF Adjacent
    <2>2. Bridged(i, t) \/ (pendingDiscontinuity /\ i \notin acc)
        BY <1>4, <2>1 DEF NextGap, t
    <2> QED
        BY <1>3, <1>4, <1>5, <2>2, Zenon
<1>6. CASE j \in acc
    <2>1. Adjacent(i, j, Served \cup acc)
        BY <1>2, <1>3 DEF Adjacent
    <2>2. Bridged(i, j) \/ (pendingDiscontinuity /\ i \notin acc)
        BY <1>4, <1>6, <2>1 DEF PendingGaps
    <2> QED
        BY <1>3, <1>4, <2>2, Zenon
<1> QED
    BY <1>3, <1>5, <1>6

\* Once all that is in hand has been pushed, the last chunk of the window is the
\* last one that was in hand.
LEMMA LastPushed ==
    ASSUME ShapeInv, OrderInv, NextGap, acc # {}, acc \subseteq Served', Served' \subseteq Served \cup acc,
           NEW i \in Served', \A x \in Served' : x <= i
    PROVE  Bridged(i, NextChunk)
<1>1. /\ Served \in SUBSET Int /\ acc \in SUBSET Int /\ \A x \in Served, y \in acc : x < y
    BY ServedOrder
<1>2. i \in acc
    <2>1. PICK a \in acc : a \in Served' /\ a <= i
        OBVIOUS
    <2>2. i \in Served => i < a /\ i \in Int /\ a \in Int
        BY <1>1, <2>1
    <2> QED
        BY <2>1, <2>2
<1>3. \A x \in Served \cup acc : x <= i
    BY <1>1, <1>2
<1> QED
    BY <1>2, <1>3 DEF NextGap

\* A chunk is taken.
LEMMA GapTake ==
    ASSUME ShapeInv, Pending, OrderInv, GapInv, OrderInv', ShapeInv',
           NEW i \in 0 .. MaxHead, Packet(i) \/ Cut(i) \/ CutBefore(i)
    PROVE  GapInv'
<1>1. Take(i) /\ UNCHANGED <<run, lapped>>
    BY DEF Packet, Cut, CutBefore, histVars
<1>2. i \in Int /\ i = NextChunk /\ NextChunk' = i + 1
    BY <1>1, TakeEffect
<1>3. run.pc = "read" /\ NextGap /\ WindowGaps /\ PendingGaps(acc)
    <2>1. run.pc = "read"
        BY <1>1 DEF ShapeInv, Take
    <2> QED
        BY <2>1 DEF GapInv
<1>4. /\ Served \in SUBSET Int /\ acc \in SUBSET Int
      /\ \A x \in Served : x < i /\ \A y \in acc : x < y
      /\ \A x \in acc : x < i
    BY <1>2, ServedOrder
<1>5. PendingGaps(acc \cup {i})
    BY <1>2, <1>3, GapExtend
<1>6. \A x, y : Bridged(x, y)' <=> Bridged(x, y)
    BY <1>1 DEF Bridged
<1>7. ASSUME i \in Served' \cup acc' PROVE NextGap'
    <2>1. \A x \in Served' \cup acc' : x < i + 1 /\ x \in Int
        <3>1. \A k \in 1 .. Sq!Len(segs') : segs'[k] \in Segment
            BY DEF ShapeInv
        <3>2. \A k \in 1 .. Sq!Len(segs') : segs'[k].chunks \in SUBSET Int
            BY <3>1 DEF Segment
        <3> QED
            BY <1>2, <3>2 DEF Served, OrderInv, ShapeInv
    <2> SUFFICES ASSUME NEW x \in Served' \cup acc', \A y \in Served' \cup acc' : y <= x
                 PROVE  Bridged(x, NextChunk)'
        BY DEF NextGap
    <2>2. x = i
        BY <1>2, <1>7, <2>1
    <2> QED
        BY <1>2, <2>2 DEF Bridged
<1>8. ASSUME WindowGaps', PendingGaps(acc)', i \in Served' \cup acc' PROVE GapInv'
    BY <1>1, <1>3, <1>7, <1>8 DEF GapInv
<1>9. ASSUME UNCHANGED <<segs, pendingDiscontinuity>>, acc' = acc \cup {i} PROVE GapInv'
    <2>1. Served' = Served
        BY <1>9 DEF Served
    <2>2. WindowGaps'
        BY <1>3, <1>6, <1>9, <2>1 DEF WindowGaps, Adjacent
    <2>3. PendingGaps(acc)'
        BY <1>5, <1>6, <1>9, <2>1 DEF PendingGaps, Adjacent
    <2> QED
        BY <1>8, <1>9, <2>2, <2>3
<1>10. CASE Packet(i)
    BY <1>9, <1>10 DEF Packet, NoPush
<1>11. CASE Cut(i)
    <2>1. pushSegment(acc \cup {i}) /\ acc' = {}
        BY <1>11 DEF Cut
    <2>2. acc \cup {i} \in SUBSET Int /\ \A x \in Served, y \in acc \cup {i} : x < y
        BY <1>2, <1>4
    <2>3. WindowGaps' /\ i \in Served'
        BY <1>1, <1>3, <1>5, <2>1, <2>2, GapPush, ServedPush
    <2>4. PendingGaps(acc)'
        BY <2>1 DEF PendingGaps
    <2> QED
        BY <1>8, <2>3, <2>4
<1>12. CASE CutBefore(i) /\ acc = {}
    BY <1>9, <1>12 DEF CutBefore, NoPush
<1>13. CASE CutBefore(i) /\ acc # {}
    <2>1. pushSegment(acc) /\ acc' = {i}
        BY <1>13 DEF CutBefore
    <2>2. acc \subseteq Served' /\ Served' \subseteq Served \cup acc
        BY <1>4, <2>1, ServedPush
    <2>3. WindowGaps'
        BY <1>1, <1>3, <1>4, <2>1, GapPush
    <2>4. ASSUME NEW x \in Served' \cup {i}, Adjacent(x, i, Served' \cup {i}) PROVE Bridged(x, i)
        <3>1. x \in Served' /\ \A y \in Served' : y <= x
            BY <1>2, <1>4, <2>2, <2>4 DEF Adjacent
        <3> QED
            BY <1>2, <1>3, <1>13, <2>2, <3>1, LastPushed
    <2>5. PendingGaps(acc)'
        BY <1>6, <2>1, <2>4 DEF PendingGaps, Adjacent
    <2> QED
        BY <1>8, <2>1, <2>3, <2>5
<1> QED
    BY <1>10, <1>11, <1>12, <1>13

\* Nothing is cut, and the segmenter stays where it is or reads on.
LEMMA GapKept ==
    ASSUME ShapeInv, OrderInv, GapInv, UNCHANGED <<segs, acc, pendingDiscontinuity>>, lapped \subseteq lapped',
           run.pc # "reanchor", run'.pc # "reanchor",
           run'.pc \in {"start", "anchor"} => run.pc \in {"start", "anchor"},
           \/ NextChunk' = NextChunk
           \/ NextChunk' \in Int /\ NextChunk' >= NextChunk /\ run.cursor \in lapped' /\ Idle
    PROVE  GapInv'
<1>1. Served' = Served
    BY DEF Served
<1>2. \A i, j : Bridged(i, j) => Bridged(i, j)'
    BY DEF Bridged
<1>3. WindowGaps'
    BY <1>1, <1>2 DEF GapInv, WindowGaps, Adjacent
<1>4. PendingGaps(acc)'
    BY <1>1, <1>2 DEF GapInv, PendingGaps, Adjacent
<1>5. NextGap'
    <2>1. CASE NextChunk' = NextChunk
        BY <1>1, <1>2, <2>1 DEF GapInv, NextGap
    <2>2. CASE NextChunk' \in Int /\ NextChunk' >= NextChunk /\ run.cursor \in lapped' /\ Idle
        <3>1. NextChunk = run.cursor + 1 /\ run.cursor \in Int
            BY <2>2 DEF NextChunk, ShapeInv
        <3>2. \A i \in Served \cup acc : i \in Int /\ i < NextChunk
            BY ServedOrder
        <3>3. \A i \in Served \cup acc : i <= run.cursor /\ run.cursor < NextChunk'
            BY <2>2, <3>1, <3>2
        <3>4. \A i \in Served \cup acc : Bridged(i, NextChunk)'
            BY <2>2, <3>3 DEF Bridged
        <3> QED
            BY <1>1, <3>4 DEF NextGap
    <2> QED
        BY <2>1, <2>2
<1> QED
    BY <1>3, <1>4, <1>5 DEF GapInv

LEMMA GapStep == ShapeInv /\ Pending /\ OrderInv /\ GapInv /\ [HlsNext]_hlsVars => GapInv'
<1> SUFFICES ASSUME ShapeInv, Pending, OrderInv, GapInv, [HlsNext]_hlsVars PROVE GapInv'
    OBVIOUS
<1>1. ShapeInv' /\ OrderInv'
    BY ShapeStep, OrderStep
<1>2. ASSUME NEW i \in 0 .. MaxHead, Packet(i) \/ Cut(i) \/ CutBefore(i) PROVE GapInv'
    BY <1>1, <1>2, GapTake
<1>3. CASE ReadChunks
    <2>1. /\ UNCHANGED <<segs, acc, pendingDiscontinuity>> /\ run.pc = "read" /\ run'.pc = "read"
          /\ lapped \subseteq lapped' /\ Idle
        BY <1>3, ReadEffect DEF cutVars
    <2>2. \/ NextChunk' = NextChunk
          \/ NextChunk' \in Int /\ NextChunk' >= NextChunk /\ run.cursor \in lapped'
        BY <1>3, ReadEffect DEF NextChunk, ShapeInv
    <2> QED
        BY <2>1, <2>2, GapKept
<1>4. ASSUME UNCHANGED <<segs, acc, pendingDiscontinuity, run, todo, lapped>> PROVE GapInv'
    <2>1. Served' = Served /\ NextChunk' = NextChunk
        BY <1>4 DEF Served, NextChunk, Idle
    <2>2. CASE run.pc # "reanchor"
        BY <1>4, <2>1, <2>2, GapKept
    <2>3. CASE run.pc = "reanchor"
        <3>1. WindowGaps'
            BY <1>4, <2>1 DEF GapInv, WindowGaps, Adjacent, Bridged
        <3>2. PendingGaps(acc)' /\ run'.pc = "reanchor" /\ acc' = {}
            BY <1>4, <2>3 DEF GapInv, PendingGaps
        <3> QED
            BY <3>1, <3>2 DEF GapInv
    <2> QED
        BY <2>2, <2>3
<1>5. CASE Ring
    BY <1>4, <1>5, RingEffect DEF cutVars
<1>6. CASE SegStop \/ UNCHANGED hlsVars
    BY <1>4, <1>6 DEF SegStop, hlsVars, segVars, cutVars, histVars
<1>7. CASE AnchorHead \/ AnchorGeneration
    <2>1. /\ run.pc \in {"start", "anchor"} /\ run'.pc \in {"anchor", "read"}
          /\ UNCHANGED <<segs, acc>>
        BY <1>7 DEF AnchorHead, AnchorGeneration, At, cutVars, ShapeInv, RunFields
    <2>2. segs' = <<>> /\ acc' = {} /\ Served' = {}
        BY <2>1 DEF GapInv, Served
    <2>3. WindowGaps' /\ PendingGaps(acc)' /\ NextGap'
        BY <2>2 DEF WindowGaps, PendingGaps, NextGap
    <2> QED
        BY <2>1, <2>2, <2>3 DEF GapInv
<1>8. ASSUME UNCHANGED <<segs, lapped>>, acc' = {} PROVE WindowGaps' /\ PendingGaps(acc)' /\ Served' = Served
    <2>1. Served' = Served
        BY <1>8 DEF Served
    <2>2. PendingGaps(acc)'
        BY <1>8 DEF PendingGaps
    <2>3. WindowGaps'
        BY <1>8, <2>1 DEF GapInv, WindowGaps, Adjacent, Bridged
    <2> QED
        BY <2>1, <2>2, <2>3
<1>9. CASE CheckGeneration /\ generation # run.cursorGen
    <2>1. UNCHANGED <<segs, lapped>> /\ acc' = {} /\ run'.pc = "reanchor"
        BY <1>9 DEF CheckGeneration, NoPush, histVars, ShapeInv, RunFields
    <2> QED
        BY <1>8, <2>1 DEF GapInv
<1>10. CASE Reanchor
    <2>1. acc = {} /\ pendingDiscontinuity' = TRUE /\ UNCHANGED <<segs, acc, lapped>> /\ run'.pc = "read"
        BY <1>10 DEF GapInv, Reanchor, At, histVars, ShapeInv, RunFields
    <2>2. NextGap'
        BY <2>1, Zenon DEF NextGap
    <2> QED
        BY <1>8, <2>1, <2>2 DEF GapInv
<1>11. CASE SegFlush /\ acc # {}
    <2>1. /\ pushSegment(acc) /\ acc' = {} /\ UNCHANGED lapped /\ run.pc = "select" /\ run'.pc = "read"
          /\ run'.cursor = run.cursor
        BY <1>11 DEF SegFlush, At, histVars, ShapeInv, RunFields
    <2>2. acc \in SUBSET Int /\ \A x \in Served, y \in acc : x < y
        BY ServedOrder
    <2>3. acc \subseteq Served' /\ Served' \subseteq Served \cup acc
        BY <2>1, <2>2, ServedPush
    <2>4. WindowGaps' /\ NextGap
        BY <2>1, <2>2, GapPush DEF GapInv
    <2>5. NextChunk' = NextChunk
        BY <1>11, <2>1, NextBetween DEF Between
    <2>6. \A x \in Served' : (\A y \in Served' : y <= x) => Bridged(x, NextChunk)
        BY <1>11, <2>3, <2>4, LastPushed
    <2>7. NextGap'
        BY <2>1, <2>5, <2>6 DEF NextGap, Bridged
    <2>8. PendingGaps(acc)'
        BY <2>1 DEF PendingGaps
    <2> QED
        BY <2>1, <2>4, <2>7, <2>8 DEF GapInv
<1>12. CASE \/ EmptyRead \/ SegGrab \/ SegCheckHead \/ SegWake \/ SegDone
            \/ (SegFlush /\ acc = {})
            \/ (CheckGeneration /\ generation = run.cursorGen)
    <2>1. UNCHANGED <<segs, acc, pendingDiscontinuity, lapped>>
        BY <1>12 DEF EmptyRead, SegGrab, SegCheckHead, SegWake, SegDone, SegFlush, CheckGeneration,
                     NoPush, cutVars, histVars
    <2>2. /\ run.pc \notin {"reanchor", "start", "anchor"} /\ run'.pc \notin {"reanchor", "start", "anchor"}
          /\ run'.cursor = run.cursor
        BY <1>12 DEF EmptyRead, SegGrab, SegCheckHead, SegWake, SegDone, SegFlush, CheckGeneration,
                     At, ShapeInv, RunFields
    <2>3. NextChunk' = NextChunk
        BY <1>12, <2>2, NextBetween DEF Between
    <2> QED
        BY <2>1, <2>2, <2>3, GapKept
<1>13. CASE Between
    BY <1>7, <1>9, <1>10, <1>11, <1>12, <1>13 DEF Between
<1> QED
    BY <1>2, <1>3, <1>5, <1>6, <1>13 DEF HlsNext, SegStep, Slice, Between

\* A player is told of every gap, wherever the Resets of a stream that changes its
\* engine fall, except where the ring has overtaken the segmenter.
THEOREM PlaylistMarksGaps == HlsSpec => []GapsAreMarked
<1>1. HlsInit => GapInv
    <2> SUFFICES ASSUME HlsInit PROVE GapInv
        OBVIOUS
    <2>1. segs = <<>> /\ acc = {} /\ Served = {} /\ run.pc = "start"
        BY DEF HlsInit, Served
    <2>2. WindowGaps /\ PendingGaps(acc) /\ NextGap
        BY <2>1 DEF WindowGaps, PendingGaps, NextGap
    <2> QED
        BY <2>1, <2>2 DEF GapInv
<1>2. ShapeInv /\ GapInv => GapsAreMarked
    <2> SUFFICES ASSUME ShapeInv, WindowGaps PROVE GapsAreMarked
        BY DEF GapInv
    <2>1. DOMAIN segs = 1 .. Sq!Len(segs)
        BY ChunkTypes
    <2>2. Served = UNION {segs[k].chunks : k \in DOMAIN segs}
        BY <2>1 DEF Served
    <2>3. ASSUME NEW k \in DOMAIN segs, NEW i \in Served, NEW j \in segs[k].chunks,
                 i < j /\ \A x \in Served : x <= i \/ j <= x
          PROVE  \/ j = i + 1
                 \/ \E x \in lapped : i <= x /\ x < j
                 \/ Manifest[k].disc /\ i \notin segs[k].chunks
        <3>1. Manifest[k].disc = segs[k].disc
            BY DEF Manifest
        <3>2. Bridged(i, j) \/ (segs[k].disc /\ i \notin segs[k].chunks)
            BY <2>1, <2>3 DEF WindowGaps, Adjacent
        <3> QED
            BY <3>1, <3>2, Zenon DEF Bridged
    <2> QED
        BY <2>2, <2>3, Zenon DEF GapsAreMarked
<1> QED
    BY <1>1, <1>2, WindowInit, ShapeStep, OrderStep, GapStep, PTL DEF HlsSpec

-----------------------------------------------------------------------------
(* A Reset is not slept over.                                               *)

\* A write keeps what it does not overwrite.
LEMMA WriteKeeps ==
    ASSUME ShapeInv, NEW n \in 1 .. MaxBurst, Write(n), NEW i \in Nat, i < head', head' - Cap <= i,
           i < head => Stored(i)
    PROVE  Stored(i)'
<1>1. head \in Nat /\ head' = head + n /\ head' \in Nat
    BY DEF ShapeInv, Write
<1>2. LastIn(i % Cap, head + n) = i /\ i % Cap \in Slots
    BY <1>1, LastInSlot
<1>3. seq'[i % Cap] = IF i >= head THEN i ELSE seq[i % Cap]
    BY <1>2 DEF Write
<1> QED
    BY <1>1, <1>3 DEF Stored

\* Everything after the chunk c that the ring has room for is in it.
Complete(c) == \A i \in c + 1 .. Head : i >= Oldest => Stored(i)

\* A cursor of the present generation has a complete ring in front of it.
FreshInv ==
    /\ run.cursor \in Int /\ run.cursor >= -1
    /\ run.gen <= generation /\ run.cursorGen <= generation
    /\ run.pc = "anchor" /\ run.gen = generation => Complete(run.cursor)
    /\ run.pc \notin {"start", "anchor"} /\ run.cursorGen = generation /\ ~lateAnchor => Complete(run.cursor)

LEMMA WriteComplete ==
    ASSUME ShapeInv, NEW n \in 1 .. MaxBurst, Write(n), NEW c \in Int, c >= -1, Complete(c)
    PROVE  Complete(c)'
<1>1. head \in Nat /\ head' = head + n
    BY DEF ShapeInv, Write
<1> SUFFICES ASSUME NEW i \in c + 1 .. Head', i >= Oldest' PROVE Stored(i)'
    BY DEF Complete
<1>2. i \in Nat /\ i < head' /\ head' - Cap <= i
    BY <1>1 DEF Head, Oldest
<1>3. i < head => Stored(i)
    BY <1>1, <1>2 DEF Complete, Head, Oldest
<1> QED
    BY <1>2, <1>3, WriteKeeps

LEMMA FreshStep == ShapeInv /\ FreshInv /\ [HlsNext]_hlsVars => FreshInv'
<1> SUFFICES ASSUME ShapeInv, FreshInv, [HlsNext]_hlsVars PROVE FreshInv'
    OBVIOUS
<1>0. /\ head \in Nat /\ Head \in Int /\ Head >= -1 /\ run.cursor <= Head /\ generation \in Nat
      /\ Floor(Head) = Head
    BY DEF ShapeInv, Head, Floor
<1>1. ASSUME NEW n \in 1 .. MaxBurst, Write(n), UNCHANGED <<run, lateAnchor>> PROVE FreshInv'
    <2>1. Complete(run.cursor) => Complete(run.cursor)'
        BY <1>1, WriteComplete DEF FreshInv
    <2>2. generation' = generation
        BY <1>1 DEF Write
    <2> QED
        BY <1>1, <2>1, <2>2 DEF FreshInv
<1>2. ASSUME UNCHANGED <<head, seq, generation>>
      PROVE  \A c : Complete(c)' <=> Complete(c)
    BY <1>2 DEF Complete, Head, Oldest, Stored
<1>3. CASE Reset /\ UNCHANGED segVars
    <2>1. generation' = generation + 1 /\ UNCHANGED <<run, lateAnchor>>
        BY <1>3 DEF Reset, segVars, histVars
    <2>2. run.cursorGen \in Nat /\ run.gen \in Nat /\ generation \in Nat
        BY DEF ShapeInv
    <2> QED
        BY <2>1, <2>2 DEF FreshInv
<1>4. ASSUME UNCHANGED <<head, seq, generation, run, lateAnchor>> PROVE FreshInv'
    BY <1>2, <1>4 DEF FreshInv
<1>5. CASE (Stop \/ \E call \in Calls : Broadcast(call)) /\ UNCHANGED segVars
    BY <1>4, <1>5 DEF Stop, Broadcast, segVars, histVars
<1>6. CASE ReadChunks
    <2>1. /\ UNCHANGED <<head, seq, generation, lateAnchor>> /\ run.pc = "read" /\ run'.pc = "read"
          /\ run'.cursorGen = run.cursorGen /\ run'.gen = run.gen
          /\ run'.cursor \in Int /\ run.cursor < run'.cursor
        BY <1>6, ReadEffect DEF vars, ringVars
    <2>2. Complete(run.cursor) => Complete(run'.cursor)
        BY <2>1 DEF Complete, FreshInv, Head, ShapeInv
    <2>3. Complete(run'.cursor) => Complete(run.cursor)'
        BY <1>2, <2>1
    <2> QED
        BY <2>1, <2>2, <2>3 DEF FreshInv
<1>7. CASE Slice
    BY <1>4, <1>7 DEF Slice, Packet, Cut, CutBefore, vars, ringVars, histVars
<1>8. CASE Between
    <2>1. UNCHANGED <<head, seq, generation>> /\ run'.cursor \in Int /\ run'.cursor >= -1
        BY <1>0, <1>8, BetweenEffect DEF vars, ringVars, FreshInv
    <2>2. Complete(Head)
        BY <1>0 DEF Complete
    <2>3. run'.gen <= generation /\ run'.cursorGen <= generation
        BY <1>0, <1>8, BetweenEffect DEF FreshInv
    <2>4. CASE AnchorHead
        <3>1. run'.cursor = Head /\ run'.pc = "anchor"
            BY <1>0, <2>4 DEF AnchorHead, ShapeInv, RunFields
        <3> QED
            BY <1>2, <2>1, <2>2, <2>3, <3>1 DEF FreshInv
    <2>5. CASE AnchorGeneration
        <3>1. /\ run.pc = "anchor" /\ run'.pc = "read" /\ run'.cursor = run.cursor
              /\ lateAnchor' = (generation # run.gen)
            BY <2>5 DEF AnchorGeneration, At, ShapeInv, RunFields
        <3> QED
            BY <1>2, <2>1, <2>3, <3>1 DEF FreshInv
    <2>6. CASE Reanchor
        <3>1. run'.cursor = Head /\ run'.pc = "read"
            BY <1>0, <2>6 DEF Reanchor, ShapeInv, RunFields
        <3> QED
            BY <1>2, <2>1, <2>2, <2>3, <3>1 DEF FreshInv
    <2>7. CASE EmptyRead \/ CheckGeneration \/ SegGrab \/ SegCheckHead \/ SegWake \/ SegFlush \/ SegDone
        <3>1. /\ run.pc \notin {"start", "anchor"} /\ run'.pc \notin {"start", "anchor"}
              /\ run'.cursor = run.cursor /\ run'.cursorGen = run.cursorGen
            BY <2>7 DEF EmptyRead, CheckGeneration, SegGrab, SegCheckHead, SegWake, SegFlush, SegDone,
                        At, ShapeInv, RunFields
        <3>2. UNCHANGED lateAnchor
            BY <2>7 DEF EmptyRead, CheckGeneration, SegGrab, SegCheckHead, SegWake, SegFlush, SegDone, histVars
        <3> QED
            BY <1>2, <2>1, <2>3, <3>1, <3>2 DEF FreshInv
    <2> QED
        BY <1>8, <2>4, <2>5, <2>6, <2>7 DEF Between
<1>9. CASE SegStop \/ UNCHANGED hlsVars
    BY <1>4, <1>9 DEF SegStop, hlsVars, segVars, vars, ringVars, histVars
<1>10. CASE Ring
    BY <1>1, <1>3, <1>5, <1>10 DEF Ring
<1> QED
    BY <1>6, <1>7, <1>8, <1>9, <1>10 DEF HlsNext, SegStep, Between

\* "ReadAfter would spin forever returning nothing" (segmenter.go:267): with the
\* generation read before the new live edge, and Reset free to fall between the
\* two, a segmenter never goes to sleep in front of a gap, for any ring.
THEOREM GapsAreNoticed == HlsSpec => GapIsNoticed
<1>1. HlsInit => FreshInv
    BY DEF HlsInit, Init, FreshInv
<1>2. ShapeInv /\ FreshInv /\ [HlsNext]_hlsVars =>
        [At("check") /\ run'.pc = "wait" =>
            run.cursor >= Head \/ Stored(StartIdx(run.cursor)) \/ lateAnchor]_hlsVars
    <2> SUFFICES ASSUME ShapeInv, FreshInv, HlsNext, At("check"), run'.pc = "wait",
                        run.cursor < Head, ~lateAnchor
                 PROVE  Stored(StartIdx(run.cursor))
        BY DEF ShapeInv, Head
    <2>1. run.pc = "check" /\ Idle
        BY DEF At
    <2>2. CheckGeneration
        <3>1. CASE Ring
            BY <2>1, <3>1, RingEffect
        <3>2. CASE ReadChunks \/ Slice \/ SegStop
            BY <2>1, <3>2 DEF ReadChunks, Slice, Packet, Cut, CutBefore, Take, SegStop, At
        <3>3. CASE Between
            BY <2>1, <3>3 DEF Between, AnchorHead, AnchorGeneration, EmptyRead, Reanchor, SegGrab,
                              SegCheckHead, SegWake, SegFlush, SegDone, At
        <3> QED
            BY <3>1, <3>2, <3>3 DEF HlsNext, SegStep, Between
    <2>3. generation = run.cursorGen
        BY <2>2 DEF CheckGeneration, ShapeInv, RunFields
    <2>4. Complete(run.cursor)
        BY <2>1, <2>3 DEF FreshInv
    <2>5. StartIdx(run.cursor) \in run.cursor + 1 .. Head /\ StartIdx(run.cursor) >= Oldest
        BY DEF StartIdx, Oldest, Head, ShapeInv, FreshInv
    <2> QED
        BY <2>4, <2>5 DEF Complete
<1> QED
    BY <1>1, <1>2, WindowInit, ShapeStep, FreshStep, PTL DEF HlsSpec, GapIsNoticed
=============================================================================
