---------------------------- MODULE CodecPlugins ----------------------------
(* The elements that are no codec of Media SDK: StringDecoderElement,        *)
(* PictureDecoderElement and YUVReaderElement, which fill surfaces with a    *)
(* rendered text, a bitmap and the frames of a raw file, and                 *)
(* YUVWriterElement, which copies surfaces to a stream.  Each is a thread    *)
(* that hands one task at a time to a user plugin; the session runs the      *)
(* tasks on a thread of its own, one after the other (SERIAL policy), and    *)
(* SyncOperation waits for one at most 60 seconds.  The element then goes    *)
(* on while the task is still to run: what keeps the surface from being      *)
(* used again is the reference Submit takes on it.                           *)
(*                                                                           *)
(* Data.Locked of a surface is the one count that the element, the core and  *)
(* the next element share: a surface is free when it is 0.                   *)
EXTENDS Naturals, Integers, Sequences, FiniteSets, SequencesExt, FiniteSetsExt

CONSTANTS
  Overlays,      \* the elements to consider, with what they read
  MaxSurfaces,   \* surfaces of the pool (QueryIOSurf asks 2, the element adds 10)
  PadSize,       \* buffers a pad's queue holds
  MaxFrames,     \* frames the writer is given
  MaxFaults      \* SyncOperation calls that time out, writes that fail

ASSUME OverlayBounds ==
  /\ MaxSurfaces \in Nat \ {0} /\ PadSize \in Nat \ {0}
  /\ MaxFrames \in Nat /\ MaxFaults \in Nat

VARIABLES
  ele,       \* the element and its input
  at,        \* where its thread is
  running,   \* is_running_
  eos,       \* is_eos_: the next element sent an end of stream back
  text,      \* text_data_ # NULL
  rest,      \* frames left in the raw file
  content,   \* what is in each surface: the number of a frame
  locked,    \* Data.Locked of each surface
  tasks,     \* m_pTasks: the surface of each task, 0 when it is not busy
  work,      \* tasks submitted and not executed, in order
  result,    \* what the sync point of the last call says
  pick,      \* the surface the element works on
  pad,       \* the queue between the element and its neighbour
  held,      \* surfaces the neighbour holds
  peer,      \* the neighbour: running, or left (for a writer: the stream is over)
  bs,        \* output_bs_: frames in the buffer
  out,       \* frames written to the output stream
  closed,    \* SetEndOfStream was called
  written,   \* bytes (frames) WriteBlockEx has taken of output_bs_
  sent,      \* frames put into the writer's pad
  faults     \* calls that timed out or failed

readerVars == <<eos, text, rest, held>>
writerVars == <<bs, out, closed, written, sent>>
taskVars == <<content, locked, tasks, work, result>>
overlayVars == <<ele, at, running, pick, pad, peer, faults, readerVars, writerVars, taskVars>>

EOS == 0                     \* a buffer without a surface, is_eos set
None == 0
Surfaces == 1 .. MaxSurfaces
Tasks == 1 .. 2              \* m_MaxNumTasks = AsyncDepth + 1, AsyncDepth is 1
Writes == ele.kind = "writer"
ThreadLeft == at \in {"gone", "crashed"}

(* What the plugins make of their input.                                     *)
RoundUp(n, to) == ((n + to - 1) \div to) * to

\* The size of the picture of a text: a glyph of the bitmap width c takes c
\* rounded up to four and a gap, a space (0) half a character's height.
RenderString(line) ==
  LET cell(c) == IF c = 0 THEN line.plsize \div 2 ELSE RoundUp(c, 4) + line.plsize \div 8
  IN [w |-> FoldSeq(LAMBDA c, sum : sum + cell(c), 0, line.text),
      h |-> line.plsize + line.plsize \div 4]

\* The sizes of what is read; that of a text is the sum of its characters'.
ASSUME OverlayShapes ==
  \A e \in Overlays :
    /\ e.kind = "yuv" => e.frames \in Nat
    /\ e.kind = "picture" => e.w \in Nat /\ e.h \in Nat
    /\ e.kind = "string" => e.plsize \in Nat /\ RenderString(e).w \in Nat

\* A bitmap of 24 or 32 bits has no colour table and is not compressed, one of
\* 16 bits has its masks and says so; the other depths are not looked at.
BmpHeader(pic) ==
  /\ pic.bmp
  /\ pic.bits \in {24, 32} => pic.offset = 54 /\ ~pic.packed
  /\ pic.bits = 16 => pic.offset > 54 /\ pic.packed

\* Init of the raw reader opens the file before it looks at the colour format.
RawFileOpens(raw) == raw.opens /\ raw.fourcc \in {"NV12", "YV12", "RGB4"}

DecodeHeader ==
  CASE ele.kind = "string" -> \A i \in DOMAIN ele.text : ele.text[i] >= 0
    [] ele.kind = "picture" -> BmpHeader(ele)
    [] ele.kind = "yuv" -> RawFileOpens(ele)

\* GetExtBuffer of the raw reader finds nothing, so it has no opaque surfaces.
PluginInit == ele.kind = "yuv" => ~ele.opaque

\* Bmp2Yuv refuses black characters and depths it has no loop for.
Converts ==
  CASE ele.kind = "string" -> ~ele.black
    [] ele.kind = "picture" -> ele.bits \in {16, 24, 32}
    [] OTHER -> TRUE

FrameOf == IF ele.kind = "string" THEN RenderString(ele) ELSE [w |-> ele.w, h |-> ele.h]
\* Bytes Bmp2Yuv fills, and the bytes UploadToSurface copies out of them: the
\* rows of the surface for a text, those of the crop for a bitmap.
Converted == (FrameOf.w * FrameOf.h * 3) \div 2
Uploaded ==
  IF ele.kind = "string"
  THEN FrameOf.w * (FrameOf.h + RoundUp(FrameOf.h, 16) \div 2)
       + (RoundUp(FrameOf.h, 16) - FrameOf.h) * FrameOf.w
  ELSE FrameOf.w * (FrameOf.h + FrameOf.h \div 2)

(* The tasks of a plugin and the session that runs them.                     *)
Busy(t) == tasks[t] # None
Free(s) == locked[s] = 0
AllBusy == \A t \in Tasks : Busy(t)

\* Mutant: the task takes no reference on its surface.
SubmitWithoutReference(s) ==
  LET t == CHOOSE t \in Tasks : ~Busy(t) /\ \A u \in 1 .. t - 1 : Busy(u)
  IN /\ tasks' = [tasks EXCEPT ![t] = s]
     /\ work' = Append(work, t)
     /\ locked' = [locked EXCEPT ![s] = @ + IF Writes THEN 0 ELSE 1]
     /\ result' = "waiting"
     /\ UNCHANGED content

\* Submit: the first task that is not busy, and a reference on the surface.
Submit(s) ==
  LET t == CHOOSE t \in Tasks : ~Busy(t) /\ \A u \in 1 .. t - 1 : Busy(u)
  IN /\ tasks' = [tasks EXCEPT ![t] = s]
     /\ work' = Append(work, t)
     /\ locked' = [locked EXCEPT ![s] = @ + IF Writes THEN 1 ELSE 2]
     /\ result' = "waiting"
     /\ UNCHANGED content

FreeResources(t) ==
  /\ tasks' = [tasks EXCEPT ![t] = None]
  /\ locked' = [locked EXCEPT ![tasks[t]] = @ - 1]
  /\ work' = Tail(work)

\* The sync point the element waits for is that of the last call.
Completed(t, how) == result' = IF Len(work) = 1 /\ result = "waiting" THEN how ELSE result

\* A text whose conversion failed is freed, and the next task looks at it.
ExecuteString(t) ==
  IF ~text
  THEN at' = "crashed" /\ UNCHANGED <<text, taskVars>>
  ELSE /\ text' = Converts
       /\ FreeResources(t) /\ Completed(t, IF Converts THEN "done" ELSE "failed")
       /\ UNCHANGED <<at, content>>

ExecutePicture(t) ==
  /\ FreeResources(t) /\ Completed(t, IF Converts THEN "done" ELSE "failed")
  /\ UNCHANGED <<at, text, content>>

\* LoadNextFrame: at the end of the file the surface keeps what it had, and
\* the task is as done as any other.
LoadNextFrame(t) ==
  /\ content' = [content EXCEPT ![tasks[t]] = IF rest > 0 THEN ele.frames - rest + 1 ELSE @]
  /\ rest' = IF rest > 0 THEN rest - 1 ELSE 0
  /\ FreeResources(t) /\ Completed(t, "done")
  /\ UNCHANGED <<at, text>>

\* GetInputYUV appends to the one buffer of the element, without a look at
\* the room that is left.
GetInputYUV(t) ==
  /\ bs' = Append(bs, content[tasks[t]])
  /\ FreeResources(t) /\ Completed(t, "done")
  /\ UNCHANGED <<at, text, content>>

Execute ==
  /\ work # <<>> /\ at # "crashed"
  /\ LET t == Head(work)
     IN \/ ele.kind = "string" /\ ExecuteString(t) /\ UNCHANGED <<rest, bs>>
        \/ ele.kind = "picture" /\ ExecutePicture(t) /\ UNCHANGED <<rest, bs>>
        \/ ele.kind = "yuv" /\ LoadNextFrame(t) /\ UNCHANGED bs
        \/ Writes /\ GetInputYUV(t) /\ UNCHANGED rest
  /\ UNCHANGED <<ele, running, pick, pad, peer, faults, eos, held, out, closed, written, sent>>

(* HandleProcessDecode of the three readers.                                 *)
Goes(to) == at' = to
ReaderStep == ~Writes /\ UNCHANGED <<ele, peer, writerVars>>

InitDecoder ==
  /\ ReaderStep /\ at = "init"
  /\ IF ~running THEN Goes("end")
     ELSE IF DecodeHeader /\ PluginInit THEN Goes("pick") ELSE Goes("gone")
  /\ text' = (ele.kind = "string" /\ DecodeHeader)
  /\ UNCHANGED <<running, pick, pad, faults, eos, rest, held, taskVars>>

\* The free surface of the lowest index, waited for as long as the element runs.
PickSurface ==
  /\ ReaderStep /\ at = "pick"
  /\ \/ ~running /\ Goes("end") /\ UNCHANGED pick
     \/ running /\ \E s \in Surfaces :
          /\ Free(s) /\ \A u \in 1 .. s - 1 : ~Free(u)
          /\ pick' = s /\ Goes("process")
  /\ UNCHANGED <<running, pad, faults, readerVars, taskVars>>

\* Mutant: the end the next element asks for is not looked at.
ProcessFrameToTheEnd ==
  /\ ReaderStep /\ at = "process"
  /\ \/ ~running /\ Goes("end") /\ UNCHANGED taskVars
     \/ running /\ AllBusy /\ Goes("pick") /\ UNCHANGED taskVars
     \/ running /\ ~AllBusy /\ Submit(pick) /\ Goes("sync")
  /\ UNCHANGED <<running, pick, pad, faults, readerVars>>

ProcessFrame ==
  /\ ReaderStep /\ at = "process"
  /\ \/ (~running \/ eos) /\ Goes("end") /\ UNCHANGED taskVars
     \/ running /\ ~eos /\ AllBusy /\ Goes("pick") /\ UNCHANGED taskVars
     \/ running /\ ~eos /\ ~AllBusy /\ Submit(pick) /\ Goes("sync")
  /\ UNCHANGED <<running, pick, pad, faults, readerVars>>

\* Whatever SyncOperation says but success drops the element's own lock.
DropLock == locked' = [locked EXCEPT ![pick] = @ - 1]
SyncReader ==
  /\ ReaderStep /\ at = "sync"
  /\ \/ result = "done" /\ Goes("push") /\ UNCHANGED <<locked, faults>>
     \/ result = "failed" /\ Goes("pick") /\ DropLock /\ UNCHANGED faults
     \/ result = "waiting" /\ faults < MaxFaults /\ faults' = faults + 1
        /\ Goes("pick") /\ DropLock
  /\ result' = "none"
  /\ UNCHANGED <<running, pick, pad, readerVars, content, tasks, work>>

\* The pad's owner is looked at once to wait for room and once more to push;
\* a buffer for an owner that has ended comes back at once.
PushToPeer ==
  /\ ReaderStep /\ at \in {"push", "put", "pushEos", "putEos"}
  /\ LET last == at \in {"pushEos", "putEos"}
         next == IF last THEN "gone" ELSE "pick"
     IN \/ at \in {"push", "pushEos"} /\ peer = "running" /\ Len(pad) < PadSize
           /\ Goes(IF last THEN "putEos" ELSE "put")
           /\ UNCHANGED <<pad, locked, eos>>
        \/ at \in {"push", "pushEos"} /\ peer = "left" /\ Goes(next)
           /\ UNCHANGED pad
           /\ IF last THEN eos' = TRUE /\ UNCHANGED locked ELSE DropLock /\ UNCHANGED eos
        \/ at \in {"put", "putEos"} /\ pad' = Append(pad, IF last THEN EOS ELSE pick)
           /\ Goes(next) /\ UNCHANGED <<locked, eos>>
  /\ UNCHANGED <<running, pick, faults, text, rest, held, content, tasks, work, result>>

\* Out of the loop: an element that was stopped says so to the next one, one
\* that was told to end only ends.
LeaveReader ==
  /\ ReaderStep /\ at = "end"
  /\ Goes(IF running THEN "gone" ELSE "pushEos")
  /\ running' = FALSE
  /\ UNCHANGED <<pick, pad, faults, readerVars, taskVars>>

(* The next element: it takes buffers, returns them in any order, may send   *)
(* an end of stream back with one, and ends.                                 *)
PeerStep == ~Writes /\ at # "crashed" /\ UNCHANGED <<ele, at, running, pick, faults, text, rest, writerVars>>

PeerTakes ==
  /\ PeerStep /\ peer = "running" /\ pad # <<>>
  /\ held' = IF Head(pad) = EOS THEN held ELSE held \cup {Head(pad)}
  /\ pad' = Tail(pad)
  /\ UNCHANGED <<eos, peer, taskVars>>

\* Recycle
PeerReturns ==
  /\ PeerStep /\ \E s \in held, ends \in BOOLEAN :
       /\ held' = held \ {s}
       /\ locked' = [locked EXCEPT ![s] = @ - 1]
       /\ eos' = (eos \/ ends)
  /\ UNCHANGED <<pad, peer, content, tasks, work, result>>

\* Everything in the queue is returned, and nobody looks at it again.
PeerLeaves ==
  /\ PeerStep /\ peer = "running" /\ held = {}
  /\ peer' = "left" /\ pad' = <<>>
  /\ locked' = [s \in Surfaces |-> locked[s] - Cardinality({i \in DOMAIN pad : pad[i] = s})]
  /\ eos' = (eos \/ EOS \in Range(pad))
  /\ UNCHANGED <<held, content, tasks, work, result>>

(* HandleProcessEncode and ProcessChainEncode of the writer.                 *)
WriterStep == Writes /\ UNCHANGED <<ele, peer, readerVars>>

\* The element before it fills a free surface, and ends the stream once.
FeedWriter ==
  /\ Writes /\ running /\ peer = "running" /\ Len(pad) < PadSize
  /\ \/ /\ sent < MaxFrames
        /\ \E s \in Surfaces :
             /\ Free(s)
             /\ content' = [content EXCEPT ![s] = sent + 1]
             /\ locked' = [locked EXCEPT ![s] = 1]
             /\ pad' = Append(pad, s)
        /\ sent' = sent + 1 /\ UNCHANGED peer
     \/ pad' = Append(pad, EOS) /\ peer' = "left" /\ UNCHANGED <<sent, content, locked>>
  /\ UNCHANGED <<ele, at, running, pick, faults, tasks, work, result, bs, out, closed, written, readerVars>>

\* InitEncoder, for the first buffer: the plugin's tasks are created, whatever
\* its Init says, and the buffer is empty. The end of the stream as the first
\* buffer is dropped, and nothing says that the stream has ended.
InitEncoder ==
  /\ WriterStep /\ at = "init" /\ running /\ pad # <<>>
  /\ pad' = Tail(pad) /\ pick' = Head(pad)
  /\ IF Head(pad) = EOS THEN UNCHANGED <<at, bs, tasks>>
     ELSE Goes("submit") /\ bs' = <<>> /\ tasks' = [t \in Tasks |-> None]
  /\ UNCHANGED <<running, faults, content, locked, work, result, out, closed, written, sent>>

GetBufData ==
  /\ WriterStep /\ at = "get" /\ running /\ pad # <<>>
  /\ pad' = Tail(pad) /\ pick' = Head(pad) /\ Goes("submit")
  /\ UNCHANGED <<running, faults, taskVars, writerVars>>

\* A surface that is no longer used goes back to the element before.
ReturnBuf == locked' = IF pick = EOS THEN locked ELSE [locked EXCEPT ![pick] = @ - 1]

\* The plugin refuses the NULL surface of the end, which ends the loop, not
\* the element: that happens only where there is a stream to close.
EndOfStream ==
  /\ pick = EOS
  /\ closed' = (closed \/ ele.stream)
  /\ running' = (running /\ ~ele.stream)
  /\ Goes("get")
SubmitWriter ==
  /\ WriterStep /\ at = "submit"
  /\ \/ (~running \/ ~AllBusy) /\ EndOfStream /\ UNCHANGED taskVars
     \/ pick # EOS /\ ~running /\ ReturnBuf /\ Goes("get")
        /\ UNCHANGED <<running, closed, content, tasks, work, result>>
     \/ pick # EOS /\ running /\ ~AllBusy /\ Submit(pick) /\ Goes("sync")
        /\ UNCHANGED <<running, closed>>
  /\ UNCHANGED <<pick, pad, faults, bs, out, written, sent>>

\* What SyncOperation says is overwritten by what the write says; an element
\* stopped before the call neither waits nor writes.
SyncWriter ==
  /\ WriterStep /\ at = "sync"
  /\ \/ ~running /\ Goes("return") /\ UNCHANGED faults
     \/ result = "done" /\ Goes(IF ele.stream THEN "write" ELSE "return") /\ UNCHANGED faults
     \/ result = "waiting" /\ faults < MaxFaults /\ faults' = faults + 1
        /\ Goes(IF ele.stream THEN "write" ELSE "return")
  /\ result' = "none"
  /\ UNCHANGED <<running, pick, pad, content, locked, tasks, work, writerVars>>

\* WriteBitStreamFrame in two steps: the bytes that are there, and then, when
\* their number is still that of the buffer, an empty buffer.
WriteBlock ==
  /\ WriterStep /\ at = "write"
  /\ \/ written' = Len(bs) /\ out' = out \o bs /\ UNCHANGED faults
     \/ bs # <<>> /\ faults < MaxFaults /\ faults' = faults + 1 /\ written' = 0 /\ UNCHANGED out
  /\ Goes("clear")
  /\ UNCHANGED <<running, pick, pad, taskVars, bs, closed, sent>>

ClearBuffer ==
  /\ WriterStep /\ at = "clear"
  /\ bs' = IF written = Len(bs) THEN <<>> ELSE bs
  /\ Goes("return")
  /\ UNCHANGED <<running, pick, pad, faults, taskVars, out, closed, written, sent>>

ReturnToPeer ==
  /\ WriterStep /\ at = "return" /\ ReturnBuf /\ Goes("get")
  /\ UNCHANGED <<running, pick, pad, faults, content, tasks, work, result, writerVars>>

\* A stopped writer returns what is still in its queue.
LeaveWriter ==
  /\ WriterStep /\ at \in {"init", "get"} /\ ~running
  /\ \/ /\ pad # <<>> /\ pad' = Tail(pad) /\ UNCHANGED at
        /\ locked' = IF Head(pad) = EOS THEN locked ELSE [locked EXCEPT ![Head(pad)] = @ - 1]
     \/ pad = <<>> /\ Goes("gone") /\ UNCHANGED <<pad, locked>>
  /\ UNCHANGED <<running, pick, faults, content, tasks, work, result, writerVars>>

\* Stop of the element
Stop ==
  /\ running /\ at # "crashed" /\ running' = FALSE
  /\ UNCHANGED <<ele, at, pick, pad, peer, faults, readerVars, writerVars, taskVars>>

OverlayInit ==
  /\ ele \in Overlays /\ at = "init" /\ running = TRUE
  /\ eos = FALSE /\ text = FALSE /\ rest = IF ele.kind = "yuv" THEN ele.frames ELSE 0
  /\ content = [s \in Surfaces |-> 0] /\ locked = [s \in Surfaces |-> 0]
  /\ tasks = [t \in Tasks |-> None] /\ work = <<>> /\ result = "none"
  /\ pick = None /\ pad = <<>> /\ held = {} /\ peer = "running"
  /\ bs = <<>> /\ out = <<>> /\ closed = FALSE /\ written = 0 /\ sent = 0 /\ faults = 0

ReaderThread == InitDecoder \/ PickSurface \/ ProcessFrame \/ SyncReader \/ PushToPeer \/ LeaveReader
WriterThread == InitEncoder \/ GetBufData \/ SubmitWriter \/ SyncWriter \/ WriteBlock \/ ClearBuffer
                  \/ ReturnToPeer \/ LeaveWriter

OverlayNext ==
  \/ Execute
  \/ ReaderThread \/ PeerTakes \/ PeerReturns \/ PeerLeaves
  \/ WriterThread \/ FeedWriter
  \/ Stop

(* Properties.                                                               *)
PluginTypeOK ==
  /\ ele \in Overlays /\ running \in BOOLEAN /\ eos \in BOOLEAN /\ text \in BOOLEAN
  /\ at \in {"init", "pick", "process", "sync", "push", "put", "pushEos", "putEos", "end", "gone",
             "crashed", "get", "submit", "write", "clear", "return"}
  /\ rest \in Nat /\ \A s \in Surfaces : content[s] \in Nat /\ locked[s] \in 0 .. 4
  /\ tasks \in [Tasks -> {None} \cup Surfaces] /\ Range(work) \subseteq Tasks
  /\ result \in {"none", "waiting", "done", "failed"} /\ pick \in {None} \cup Surfaces
  /\ Range(pad) \subseteq {EOS} \cup Surfaces /\ Len(pad) <= PadSize
  /\ held \subseteq Surfaces /\ peer \in {"running", "left"}
  /\ Range(bs \o out) \subseteq 1 .. MaxFrames /\ closed \in BOOLEAN /\ written \in Nat
  /\ sent \in 0 .. MaxFrames /\ faults \in 0 .. MaxFaults

\* The holders of a surface are those its lock counts: the tasks that use it,
\* the element while it works on it, the queue and the next element.
Holders(s) ==
  Cardinality({t \in Tasks : tasks[t] = s})
    + Cardinality({i \in DOMAIN pad : pad[i] = s})
    + (IF s \in held THEN 1 ELSE 0)
    + (IF pick = s /\ at \in {"sync", "push", "put"} \cup
                       (IF Writes THEN {"submit", "write", "clear", "return"} ELSE {})
       THEN 1 ELSE 0)
LocksCount == at # "crashed" => \A s \in Surfaces : locked[s] = Holders(s)

\* What a task still to run writes, or reads, nobody else does.
TasksAreAlone ==
  /\ \A t, u \in Tasks : Busy(t) /\ tasks[t] = tasks[u] => t = u
  /\ Writes \/ \A t \in Tasks : Busy(t) =>
       tasks[t] \notin held \cup Range(pad) \cup (IF at \in {"push", "put"} THEN {pick} ELSE {})
  /\ AllBusy => faults > 0

\* While the raw file lasts, its frames come in their order.
FramesKeepOrder ==
  ele.kind = "yuv" /\ rest > 0 =>
    \A i, j \in DOMAIN pad : i < j /\ pad[j] # EOS => content[pad[i]] < content[pad[j]]

\* Without a fault, what the writer has written, has in its buffer and is still
\* to copy are the frames it took, in order, the buffer holds one at most, and
\* the stream is closed when every frame is in it.
Pending == [i \in DOMAIN work |-> content[tasks[work[i]]]]
WriterKeepsOrder ==
  Writes /\ ele.stream /\ faults = 0 =>
    LET all == (IF at = "clear" THEN out ELSE out \o bs) \o Pending
    IN /\ all = [i \in 1 .. Len(all) |-> i] /\ (running => Len(bs) <= 1)
       /\ closed => out = [i \in 1 .. sent |-> i]

\* An overlay whose input it can convert never loses its text, and a copy to a
\* surface ends with the picture; a text does so only when its height is a
\* multiple of 16.
InputLasts ==
  /\ at = "crashed" => ele.kind = "string" /\ ele.black
  /\ ele.kind = "picture" \/ (ele.kind = "string" /\ FrameOf.h % 16 = 0) => Uploaded <= Converted

\* The lock of a surface counts who holds it, so no surface is filled, or
\* filled again, while someone may look at it, and the frames keep their order.
OverlaysKeepSurfaces ==
  LocksCount /\ TasksAreAlone /\ FramesKeepOrder /\ WriterKeepsOrder /\ InputLasts

\* A reader that is stopped, or told that the next element is done with it, ends;
\* a writer ends when it is stopped and, once it has seen a frame, when its stream
\* does.
OverlaysEnd ==
  /\ (~running \/ eos) ~> ThreadLeft
  /\ (Writes /\ peer = "left" /\ sent > 0 /\ ele.stream) ~> ThreadLeft
=============================================================================
