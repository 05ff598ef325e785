---------------------------- MODULE HlsSegments -----------------------------
(* The HLS segmenter on the ring buffer of its stream:                       *)
(* internal/proxy/hls/segmenter.go composed with the ring of StreamBuffer.   *)
(*                                                                          *)
(* Segmenter.run is a goroutine that reads chunks behind the upstream writer *)
(* and cuts them into the segments of a sliding window.  A manager that      *)
(* changes its engine calls Reset on the ring at any point between; the      *)
(* segmenter learns of it from Generation only.  A chunk is one packet; what *)
(* its clock reference and flags say of segStart and the target duration is  *)
(* abstracted to the kind of cut it may cause.                              *)
EXTENDS StreamBuffer

Sq == INSTANCE Sequences

CONSTANTS
    Window,         \* HLS_WINDOW_SIZE
    NoChannel          \* the segmenter has not grabbed a channel

ASSUME WindowAssumption == Window \in Nat \ {0}

VARIABLES
    run,            \* Segmenter.run: [pc, cursor, cursorGen, gen, ch]
    todo,           \* chunks read and not processed yet: <<next, last>>
    acc,            \* chunks of the segment that is being built
    localSeq,
    segs,           \* the window: [seq, chunks, disc]
    pendingDiscontinuity,
    cancelled,      \* ctx
    born,           \* history: the session in which a chunk was written
    lapped,         \* history: chunks after which the ring overtook the segmenter
    lateAnchor      \* history: a Reset fell between Head and Generation at the start

cutVars  == <<acc, localSeq, segs, pendingDiscontinuity>>
histVars == <<born, lapped, lateAnchor>>
segVars  == <<run, todo, cutVars, cancelled, histVars>>
hlsVars  == <<vars, segVars>>

Idle == todo[1] > todo[2]
At(p) == run.pc = p /\ Idle
Floor(i) == IF i < 0 THEN -1 ELSE i
-----------------------------------------------------------------------------
\* pushSegment.  Every caller raises localSeq afterwards.
pushSegment(chunks) ==
    LET all == Sq!Append(segs, [seq |-> localSeq, chunks |-> chunks, disc |-> pendingDiscontinuity])
    IN  /\ segs' = IF Sq!Len(all) > Window THEN Sq!Tail(all) ELSE all
        /\ pendingDiscontinuity' = FALSE
        /\ localSeq' = localSeq + 1

NoPush == UNCHANGED <<segs, pendingDiscontinuity, localSeq>>

\* run starts at the live edge: the cursor ...
AnchorHead ==
    /\ At("start")
    /\ run' = [run EXCEPT !.pc = "anchor", !.cursor = Floor(Head), !.gen = generation]
    /\ UNCHANGED <<vars, todo, cutVars, cancelled, histVars>>

\* ... and then the generation it belongs to.
AnchorGeneration ==
    /\ At("anchor")
    /\ run' = [run EXCEPT !.pc = "read", !.cursorGen = generation, !.gen = 0]
    /\ lateAnchor' = (generation # run.gen)
    /\ UNCHANGED <<vars, todo, cutVars, cancelled, born, lapped>>

ReadChunks ==
    /\ At("read")
    /\ \E last \in 0 .. MaxHead :
          /\ ReadAfter(run.cursor, MaxRead, last)
          /\ todo' = <<StartIdx(run.cursor), last>>
          /\ run' = [run EXCEPT !.cursor = last]
    /\ lapped' = IF StartIdx(run.cursor) > run.cursor + 1 THEN lapped \cup {run.cursor} ELSE lapped
    /\ UNCHANGED <<vars, cutVars, cancelled, born, lateAnchor>>

Take(i) == ~Idle /\ i = todo[1] /\ todo' = [todo EXCEPT ![1] = i + 1]

\* A packet without a PCR, or one that is not due for a cut.
Packet(i) ==
    /\ Take(i)
    /\ acc' = acc \cup {i}
    /\ NoPush
    /\ UNCHANGED <<vars, run, cancelled, histVars>>

\* Mutant: the packet that ends a segment begins the next one too.
CutTwice(i) ==
    /\ Take(i)
    /\ pushSegment(acc \cup {i})
    /\ acc' = {i}
    /\ UNCHANGED <<vars, run, cancelled, histVars>>

\* A PCR past the target duration on a keyframe, far past it, or after a jump:
\* the packet ends the segment.
Cut(i) ==
    /\ Take(i)
    /\ pushSegment(acc \cup {i})
    /\ acc' = {}
    /\ UNCHANGED <<vars, run, cancelled, histVars>>

\* A packet with the discontinuity flag begins the next segment.
CutBefore(i) ==
    /\ Take(i)
    /\ IF acc = {} THEN NoPush ELSE pushSegment(acc)
    /\ acc' = {i}
    /\ UNCHANGED <<vars, run, cancelled, histVars>>

\* An empty read.
EmptyRead ==
    /\ At("read") /\ NothingAfter(run.cursor)
    /\ run' = [run EXCEPT !.pc = "check"]
    /\ UNCHANGED <<vars, todo, cutVars, cancelled, histVars>>

\* Mutant: a new generation is noticed only while a segment is being built.
CheckGenerationBusy ==
    /\ At("check")
    /\ IF generation # run.cursorGen /\ acc # {}
       THEN /\ run' = [run EXCEPT !.pc = "reanchor", !.gen = generation]
            /\ acc' = {}
       ELSE /\ run' = [run EXCEPT !.pc = "wait"]
            /\ UNCHANGED acc
    /\ NoPush
    /\ UNCHANGED <<vars, todo, cancelled, histVars>>

\* The generation is looked at after an empty read only.
CheckGeneration ==
    /\ At("check")
    /\ IF generation # run.cursorGen
       THEN /\ run' = [run EXCEPT !.pc = "reanchor", !.gen = generation]
            /\ acc' = {}
       ELSE /\ run' = [run EXCEPT !.pc = "wait"]
            /\ UNCHANGED acc
    /\ NoPush
    /\ UNCHANGED <<vars, todo, cancelled, histVars>>

\* Mutant: the mark is set only when the window has something to separate from.
ReanchorUnmarked ==
    /\ At("reanchor")
    /\ run' = [run EXCEPT !.pc = "read", !.cursor = Floor(Head), !.cursorGen = run.gen, !.gen = 0]
    /\ pendingDiscontinuity' = (pendingDiscontinuity \/ Sq!Len(segs) = Window)
    /\ UNCHANGED <<vars, todo, acc, localSeq, segs, cancelled, histVars>>

\* Mutant: the generation is not stored.
ReanchorForgetful ==
    /\ At("reanchor")
    /\ run' = [run EXCEPT !.pc = "read", !.cursor = Floor(Head)]
    /\ pendingDiscontinuity' = TRUE
    /\ UNCHANGED <<vars, todo, acc, localSeq, segs, cancelled, histVars>>

\* Back to the live edge, with a mark for the players.
Reanchor ==
    /\ At("reanchor")
    /\ run' = [run EXCEPT !.pc = "read", !.cursor = Floor(Head), !.cursorGen = run.gen, !.gen = 0]
    /\ pendingDiscontinuity' = TRUE
    /\ UNCHANGED <<vars, todo, acc, localSeq, segs, cancelled, histVars>>

\* Wait takes the channel ...
SegGrab ==
    /\ At("wait")
    /\ run' = [run EXCEPT !.pc = "grabbed", !.ch = notify]
    /\ UNCHANGED <<vars, todo, cutVars, cancelled, histVars>>

\* ... and looks at the head.
SegCheckHead ==
    /\ At("grabbed")
    /\ run' = [run EXCEPT !.pc = "select", !.ch = IF Head > run.cursor THEN NoChannel ELSE @]
    /\ UNCHANGED <<vars, todo, cutVars, cancelled, histVars>>

\* The select: the channel is closed, or was the one that is always ready.
SegWake ==
    /\ At("select") /\ run.ch # notify
    /\ run' = [run EXCEPT !.pc = "read", !.ch = NoChannel]
    /\ UNCHANGED <<vars, todo, cutVars, cancelled, histVars>>

\* The flush timer.
SegFlush ==
    /\ At("select")
    /\ run' = [run EXCEPT !.pc = "read", !.ch = NoChannel]
    /\ IF acc = {} THEN NoPush ELSE pushSegment(acc)
    /\ acc' = {}
    /\ UNCHANGED <<vars, todo, cancelled, histVars>>

\* Mutant: data comes before the context.
SegDoneQuiet ==
    /\ At("select") /\ cancelled /\ run.ch = notify
    /\ run' = [run EXCEPT !.pc = "done", !.ch = NoChannel]
    /\ UNCHANGED <<vars, todo, cutVars, cancelled, histVars>>

\* The context is cancelled.
SegDone ==
    /\ At("select") /\ cancelled
    /\ run' = [run EXCEPT !.pc = "done", !.ch = NoChannel]
    /\ UNCHANGED <<vars, todo, cutVars, cancelled, histVars>>

\* Hub.removeStream stops the ring, then the segmenter.
SegStop ==
    /\ stopped /\ ~cancelled
    /\ cancelled' = TRUE
    /\ UNCHANGED <<vars, run, todo, cutVars, histVars>>
-----------------------------------------------------------------------------
HlsInit ==
    /\ Init
    /\ run = [pc |-> "start", cursor |-> -1, cursorGen |-> 0, gen |-> 0, ch |-> NoChannel]
    /\ todo = <<0, -1>>
    /\ acc = {} /\ localSeq = 0
    /\ segs = <<>> /\ pendingDiscontinuity = FALSE
    /\ cancelled = FALSE
    /\ born = [i \in {} |-> 0] /\ lapped = {} /\ lateAnchor = FALSE

Ring ==
    \/ /\ \E n \in 1 .. MaxBurst :
             Write(n) /\ born' = [i \in 0 .. head + n - 1 |-> IF i < head THEN born[i] ELSE generation]
       /\ UNCHANGED <<run, todo, cutVars, cancelled, lapped, lateAnchor>>
    \/ /\ Reset \/ Stop \/ \E call \in Calls : Broadcast(call)
       /\ UNCHANGED segVars

Slice == \E i \in 0 .. MaxHead : Packet(i) \/ Cut(i) \/ CutBefore(i)

SegStep ==
    \/ AnchorHead \/ AnchorGeneration \/ ReadChunks \/ Slice
    \/ EmptyRead \/ CheckGeneration \/ Reanchor \/ SegGrab \/ SegCheckHead \/ SegWake

HlsNext == Ring \/ SegStep \/ SegFlush \/ SegDone \/ SegStop

\* The goroutine is scheduled, its timer fires, and a select that finds several
\* channels ready takes each of them sooner or later.
HlsSpec ==
    /\ HlsInit /\ [][HlsNext]_hlsVars
    /\ WF_hlsVars(SegStep) /\ WF_hlsVars(SegFlush) /\ SF_hlsVars(SegDone) /\ WF_hlsVars(SegStop)
    /\ \A call \in Calls : WF_hlsVars(Broadcast(call) /\ UNCHANGED segVars)
-----------------------------------------------------------------------------
\* What Manifest lists.
Manifest == [k \in DOMAIN segs |-> [seq |-> segs[k].seq, disc |-> segs[k].disc]]

\* A playlist names at most Window consecutive segments up to the newest one, and
\* their chunks are in the order of the stream: none is empty, none repeats a
\* chunk, none is ahead of what was read.
WindowInOrder ==
    /\ Sq!Len(segs) <= Window
    /\ \A k \in DOMAIN segs : /\ Manifest[k].seq = localSeq - Sq!Len(segs) + k - 1
                              /\ segs[k].chunks # {}
    /\ \A k, m \in DOMAIN segs : k < m =>
          \A i \in segs[k].chunks, j \in segs[m].chunks : i < j
    /\ \A k \in DOMAIN segs : \A i \in segs[k].chunks : i <= run.cursor

\* A player is told of every gap: chunks that follow each other in the playlist
\* follow each other in the stream, unless the segment is marked or the ring has
\* overtaken the segmenter.
GapsAreMarked ==
    LET served == UNION {segs[k].chunks : k \in DOMAIN segs}
        Follows(i, j) == i < j /\ \A x \in served : x <= i \/ j <= x
    IN  \A k \in DOMAIN segs : \A i \in served, j \in segs[k].chunks : Follows(i, j) =>
            \/ j = i + 1
            \/ \E x \in lapped : i <= x /\ x < j
            \/ Manifest[k].disc /\ i \notin segs[k].chunks

\* "ReadAfter would spin forever returning nothing" (segmenter.go:267): a
\* segmenter never goes to wait for data in front of a gap, unless its very first
\* anchor was split by a Reset.
GapIsNoticed ==
    [][At("check") /\ run'.pc = "wait" =>
          run.cursor >= Head \/ Stored(StartIdx(run.cursor)) \/ lateAnchor]_hlsVars

\* Every Reset is noticed once the writer leaves the segmenter time for an empty read.
ResetNoticed ==
    \A g \in 1 .. MaxGen : generation = g ~> run.cursorGen >= g \/ run.pc = "done"

\* The goroutine of a stream that is removed ends.
StopEnds == cancelled ~> run.pc = "done"

\* "mark a discontinuity so players know to reset their decoding state"
\* (segmenter.go:268): no segment joins chunks of two sessions.
SessionsNotJoined ==
    \A k \in DOMAIN segs : \A i, j \in segs[k].chunks : born[i] = born[j]
=============================================================================
