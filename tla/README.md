# A verification of SMTA

SMTA transcodes one video input into one or more outputs: FFmpeg demultiplexes
the input, Media SDK decodes, scales, composes and encodes it, FFmpeg
multiplexes the result.  Its core logic is not in the codecs but in what moves
buffers between them: a graph of *elements*, each with a thread of its own,
joined by *pads* with unlocked queues, fed by an unlocked byte ring, emptied
through a locked stream, started, stopped and joined by the main thread.

This directory holds TLA+ models of that machinery, TLC configurations that
check them, and proofs that TLAPS checks.  Paths below are relative to
`src/sources/`.

    tlc -config MCSession.cfg MCSession.tla        one run
    tlapm MemPoolProofs.tla                        the proofs of one module

## 1. Inventory

| Component | State | Operations | Threads |
|---|---|---|---|
| Pad queue: `RingBuffer`, `MediaPad` | `array`, `head_`, `tail_`; peer, parent, status | `ProcessBuf`, `GetBufData`, `ReturnBufToPeerPad` | the upstream element pushes, the downstream one pops |
| `Dispatcher` | `sur_ref_map_`, the source pads | `ProcessChain`, `Recycle`, `PadRemoved` | upstream thread lends, encoders' threads give back |
| `VPPElement` | surface pool, inputs' ready surfaces, layout flags | `HandleProcessVpp`, `DoingVpp`, `Recycle`, `SetRes`, `SetCompRegion`, ... | its own; application (layout, attach, detach) |
| `EncoderElement` | codec, bitstream, LTR marks | `HandleProcessEncode`, `ProcessChainEncode`, `MarkLTR`, ... | its own; application |
| `DecoderElement` | codec, surface pool, bitstream | `HandleProcessDecode`, `UpdateBitStream`, `Recycle` | its own; downstream threads recycle |
| `MemPool` | ring, padding, two pointers, `mem_map_size_`, `IsDataEof_` | `GetFlatBufFullness`, `UpdateReadPtr`, `UpdateWritePtrCopyData`, ... | reader thread writes, decoder reads |
| `Stream` | list of blocks, end mark | `WriteBlockEx`, `ReadBlockEx`, `SetEndOfStream`, ... | encoder writes, sink reads |
| `FFmpegReader` | demuxer, `m_bIsRunning` | `readNextFrame`, `PushData`, `close` | its own; main (`stop`) |
| `SinkWrap`, `FFmpegWriter` | muxer, `m_bThreadExit`, `m_OutPackets` | `OneSinkOutput`, `read_packet`, `Wait`, `Stop` | its own; main |
| `MsdkXcoder` | decoders, dispatchers, VPPs, encoders and their links | `Init`, `Start`, `Join`, `Stop`, `Attach*`, `Detach*` | application |
| `Launcher`, `main` | the session | `Init`, `Run`, `Stop` | main; the signal handler on it |
| `BaseElement` | pads, `is_running_`, `thread_created_` | `Start`, `Stop`, `Join`, `Link*`, `Unlink*` | application |
| `XC::Thread`, `XC::Event`, `Mutex` | wait count, event | `Create`, `Wait`, `Close`, `Signal` | all |
| FEI encoders (`h264_fei/`, `h265_fei/`) | task pool, reference lists, sets of buffers | reorder, make lists, search, code, release | encoder's |
| `HevcEncoderElement` | codec, bitstream | as `EncoderElement` | its own |
| Overlay and raw elements (`StringDecoderElement`, `PictureDecoderElement`, `YUVReaderElement`, `YUVWriterElement`) with their user plugins | surfaces, two tasks, text or bitmap or file | `HandleProcessDecode`, `Submit`, `Execute`, `Recycle` | its own; the session's task thread; downstream |
| `CmdProcessor` | parameters of the line read and of the lines before | `ParseCmdLine`, `ParseParFile`, `Verify*` | main |
| `Launcher` and the codecs' `Init` | parameters on the way to the media library | `Init*Cfg`, `Read*Config`, `Init`, `InitEncoder` | main |

How they interact.  A source element calls `PushBufToPeerPad` *on its own
thread*: into an element with a thread it queues (and waits while the queue is
full), into a `Dispatcher` it runs `ProcessChain` on.  A buffer goes back by
`ReturnBufToPeerPad`, again a call, on the thread of whoever has finished with
it, that ends in the `Recycle` of the element that owns the surface.  The end
of the stream is a buffer with no surface and `is_eos` set.  Stopping is a
plain `bool` that each loop tests, and a join.

What is hard, and what correctness means:

* *Interleaving without locks.*  Pad queue and memory pool rely on the order of
  a few loads and stores.  Correct: a FIFO; the stream's bytes in order.
* *Loans.*  A surface goes to several encoders and comes back from several
  threads.  Correct: it returns exactly once, after the last of them, and the
  VPP never renders into one that is out.
* *Hot plug.*  Encoders come and go while frames flow.  Correct: no pad is used
  after it is deleted, no call hangs, nothing is left in a deleted pad.
* *Ending.*  The end-of-stream buffer, the flags, the end marks of pool and
  stream and the joins race with each other.  Correct: every decoded frame is
  muxed, every thread ends, what is deleted is no longer used.
* *Changing inputs.*  Videos, texts and pictures are attached, reset, end and are
  detached while the VPP waits for one of them.  Correct: each surface is in one
  place, no picture is composed for other inputs than the processor was set up
  for, the VPP ends with its last video.
* *Order of coding.*  Frames are coded in another order than they come in, refer
  to each other, and share a fixed number of surfaces and buffers.  Correct: a
  decoder has what each picture refers to; each frame is coded once; what was set
  aside is enough; all of it ends.
* *Parameters.*  An option goes through five structures before a codec sees it.
  Correct: it arrives, or the code says why not.
* *Failure.*  Each codec, the demuxer, the filter, the muxer may fail at any
  point.  Correct: the rest still ends, buffers come back.

`PROJECT.json` lists the hazards one by one with their lines.

## 2. Modules

| Module | Models | Composes or uses |
|---|---|---|
| `BoundedQueue` | abstract: a FIFO of bounded size | - |
| `RingBuffer` | `base/ring_buffer.h`, `MediaPad::ProcessBuf`, `GetBufData` | implements `BoundedQueue` |
| `Fanout` | `Dispatcher`, output side of `VPPElement`, `EncoderElement`, `Stop`/`DetachOutput`/`AttachOutput` of `MsdkXcoder` | takes a pad's queue as a FIFO |
| `MemPool` | `base/mem_pool.cpp`, its users in `FFmpegReader` and `DecoderElement` | - |
| `Session` | the pipeline the launcher builds without a VPP, reader to muxer | takes queue, pool and stream in the abstract |
| `XcoderGraph` | `MsdkXcoder`: lists, links, threads and sessions under every public call | takes each element as a node |
| `Decoder` | `DecoderElement` over changes of size, with its surfaces; `FFmpegReader` with loop mode and RTSP | takes queue and pool as FIFOs |
| `VppInput` | the input side of `VPPElement` | takes a pad's queue as a FIFO; `Fanout` has the output side |
| `FeiTasks` | the H.264 FEI encoder element, its task pool, PREENC, ENCODE, ENC and PAK | - |
| `FeiHevc` | the H.265 FEI encoder element, `EncodeOrderControl`, its reference lists | - |
| `CommandLine` | `CmdProcessor` | - |
| `CodecSetup` | what configurations and `Init` calls make of the parameters | extends `CommandLine` |
| `LauncherSetup` | `Launcher::Init` | extends `CodecSetup` |
| `CodecPlugins` | the overlay and raw elements and their plugins | - |
| `Threads` | `XC::Thread`, `XC::Event`, `BaseElement::Join` and `Stop`, `SinkWrap`, `LogPrintThread`, `Launcher::Run` and `Stop` with the signal handler | `Session` has what the threads do and when they end |
| `MC*` | the constants of the runs | `MCElements`, `MCFei` and `MCServices` put several components in one run |
| `RingBufferProofs`, `FanoutProofs`, `MemPoolProofs`, `SessionProofs`, `XcoderGraphProofs` | theorems about the module of that name | |
| `ElementsProofs` | theorems about `VppInput`, `Decoder` and their composition | extends `MCElements`, `XcoderGraphProofs` |
| `ServicesProofs` | the invariants of `CodecPlugins` and `Threads`; theorems about the run that has both | extends `MCServices` |
| `FeiProofs` | theorems about `FeiHevc` and `FeiTasks` in their run | extends `MCFei` |

### RingBuffer

One variable per field (`array`, `head_`, `tail_`), one record per thread with
its position in the call.  Every load of the *other* thread's index and every
store of one's own is a step: `FoundRoom` is the test of `IsFull` in
`ProcessBuf`, `PushTest` the second test inside `Push`, `PushCopied` the end of
the copy of the element, `PushAdvance` the store of `tail_`; likewise
`FoundData`, `PopTest`, `PopCopied`, `PopAdvance`.  The states `dropped` and
`stale` are what happens if the second test answers otherwise than the first,
whose result nobody looks at.  Stores are taken in program order: the project
builds for x86-64 only (`CMake/FindGlobals.cmake`), which keeps stores in order,
and the compiler is assumed to emit them in that order (nothing in the code
obliges it to).  On a weaker memory model the code would need fences.

### Fanout

One VPP thread, one thread per encoder, one application thread.  `vpp.pc`
follows `HandleProcessVpp`: `top` (the loop's test), `find`
(`GetFreeSurfaceIndex`), `render` (`DoingVpp`), `lock`/`spin`/`check`/`push`
(`Dispatcher::ProcessChain` and the pads' `ProcessBuf`), `exit` (the EOS buffer).
`sur_ref_map_` is the Dispatcher's map with 0 for no entry, `Locked` the
surface's counter.  `is_running_` is read and written step by step, without a
lock, as in the code.  `api` is the call of `MsdkXcoder` in progress; the
object's mutex makes them exclude each other, so there is at most one.  (The
application itself calls `Stop` from a signal handler; `Session` has that.
`Fanout` has `Stop` as the library call it is, with joins that join.)  What the
VPP does with its *inputs* is not in this module: a frame is available whenever
the bound `MaxFrames` allows.

### MemPool

A byte is its number in the stream, so `FlatViewIsStream` can compare what the
decoder would read with what it should read.  A pointer is an offset from
`cache_buf_`; subtraction is unsigned with `Modulus` for 2^32.  Each function
of the pool is split at its loads of the pointer the other thread moves.  An
optimised build keeps such a load in a register (`Reload = FALSE`), but it may
load again across a `memcpy` or a later statement, which the model leaves open
(`WriterTakesFlat`, `ReaderMaps`); a debug build loads at every use
(`Reload = TRUE`).

### Session

Five threads: `reader`, `dec`, `enc`, `sink` and `main` with `handler`.  Frames
and packets are counted, not named: each queue on the way is a FIFO
(`RingBuffer`, `MemPool`, and `Stream` behind its mutex), so what matters is how
many there are and where.  A codec is a delay line (`DecDelay`, `EncDelay`),
which is what makes it give out frames after its last input, when flushed.
`pool.pushed - pool.consumed` is the pool's fullness; `dec.snap` is what
`UpdateBitStream` saw of it, and the later looks at `IsDataEof_` are steps of
their own.  The handler of SIGINT runs on the main thread, so `main` does not
move while it does.  It joins threads that `main` is joining already; with two
joins of one thread `pthread_join` returns `EINVAL` at once (glibc), which is
`JoinReturns`.

### XcoderGraph

`MsdkXcoder::mutex` makes the public calls exclude each other, so a call is one
step: it changes the lists (`dec_list_`, `vpp_list_`, `enc_multimap_`, ...), the
links, the sessions and the threads as the code does, in the order that matters,
with each place where it may fail part-way (`CreateDecoder`, an element that the
build does not have, a plugin that does not load).  What overlaps with a call is
split: a VPP thread that ends by itself, `Stop` during `Join`, and the timed calls
of the overlays (`timed`), which poll the VPP without the mutex.  `lost` collects
the elements that no list names and nobody deleted: `DetachVpp` deletes only the
last of a VPP's encoders, and a failing `AttachVpp` leaves behind what it made.

### Decoder

`dpc` follows `HandleProcessDecode`: `top`, `surface` (`GetFreeSurfaceIndex`), `move`,
`count` and `ask` (`UpdateBitStream`), `header` (`InitDecoder`), `look` (the call of the
codec), `sync`, `push`, `update` (`UpdateMemPool`), the ways out, and `wait` for the
surfaces before they are freed.  A unit is a coded picture with its number: with a
sequence header of size 1 or 2, without one, or of a new size without one (`odd`).
From a file the units come through the pool; from a network they lie in `netq`, and
the decoder moves them to a pool of its own, with a lock for each of the calls
`GetBlockCount`, `ReadBlockEx`, `GetBlockCount` and `GetEndOfStream`.  A surface is its
address, so that one that was freed may be the next one allocated, and `Locked` is 16
bits wide; `gen` tells the allocations apart.  The codec is external: it gives a
picture out for each one it takes once it holds `DecDelay`, and asks for more data
only when it is given none.  `missed` notes each picture that will never be shown with
the reason, and the property says which reasons are good ones.  Where `Session` follows
one input from reader to muxer, `Decoder` has what happens when that input changes.

### VppInput

`vpc` is the VPP thread: `top`, one step per pad while it collects (`first` before
the first picture, `collect` after), `setup`, `clear` (the flags are cleared after
the set-up, without the application's knowledge), `render`, and the way out.  The
sink mutex is held from the top of a round to its end, waiting included
(`MutexFree`).  An input is a video, an overlay or a raw file: the three are
counted, waited for and ended differently.  The application attaches, detaches,
and asks for other colours, ratios, resolutions or layouts in between; a decoder
may send its `reset` buffer.

### FeiTasks and FeiHevc

A frame is its number in display order.  One step of the thread is one buffer
taken, one task picked (with frame type, decoded picture buffer, marking and
lists, `GetTask` to `InitEncodeFrame`), one motion search, one coded picture with
all that is released after it.  Field coding is modelled with both fields of a
task, each with lists of its own.  The number of sets and surfaces is what
`AllocExtBuffers`, `InitEncoder` and `QueryIOSurf` work out; a step that finds
none records it in `feiShort`, `hevcShort` and goes the way the code goes.  The
library may refuse to initialise, find the bitstream buffer too small, or fail.
In `FeiHevc` a surface has two locks, that of the encoder (`hevcLocked`) and that
of the producer, until the buffer goes back (`hevcBack`).
`ProcessChainEncode(HevcTask*)` has no return statement: what its caller reads is a
choice (the fault `"status"`).

A decoder that is reset without a VPP behind it (`noVpp`) sends a buffer without a
surface.  The H.265 encoder reads on; it flushes a task from its queue, or, in display
order, ends.  The H.264 encoder reads no further buffer and goes round with this one:
each turn makes a task of whatever surface the buffer holds, none at first (`FeiAgain`),
and each picture coded puts its own surface there before the buffer is given back
(`feiBuf` in `Encoded`), so that the next turn codes the picture again.  When a task
without a surface has its turn the encoder is drained and the thread ends, or, with
PREENC alone, skips it and goes round for ever (`"spin"`).

How many pictures the H.265 buffer has follows from the distance unless `-refnum` says
(`HevcNumRef`), how many of them a picture refers to from `-num_active_P` and
`-num_active_BL0`: all three are parameters of `HevcParameters`.

### CommandLine, CodecSetup, LauncherSetup

`CommandLine` reads a line option by option; the next option is chosen when it is
reached, so that an option that swallows the next word does.  `Stored` is what
`sscanf` keeps of a number in 8 or 16 bits.  `VerifyAndCorrect...` and the
cross-checks are operators on the parameters.  `CodecSetup` is a chain of
operators named as the code's functions, from the parameters of a line to the
structures the media library is given (`built[i].parts`: one record for each of
PREENC, ENCODE, ENC, PAK); `LauncherSetup` runs `Launcher::Init` over the lines, one
pair of VPP and encoder after the other.

### CodecPlugins

The element's thread (`at`) hands one task at a time to a plugin whose `Execute`
runs on a thread of the session.  `SyncOperation` may give up after its minute
(`faults`), and the element goes on while the task is still to run.
`Data.Locked` counts for everyone; `content` is the frame in a surface.  The writer
appends to `output_bs_` in `Execute` and empties it in two steps on its own thread
(`WriteBlock`, `ClearBuffer`).

### Threads

Who waits, joins and deletes, call by call.  The main thread is a stack of frames:
`Launcher::Run` and the deletion of the `Launcher` below, a `Launcher::Stop` for each
signal above, since a handler runs to its end before the call it interrupted goes
on.  `Calls` lists the calls of each, `pc` is the place in one: in `BaseElement` the
test of `thread_created_`, `pthread_join`, the clearing; in `XC::Thread` the count of
waiters, the event, the count again, the join with `m_Mutex` held (`locked`), the
clearing of `m_bIsValid`.  A second `pthread_join` of a thread that is being joined
returns `EINVAL`, one of a thread that was joined is undefined.  `harm` records what
is undefined; the main thread does not go on from there, as nothing can be said of
what follows.  `cut` remembers the calls that signals interrupted.

### Several components in a run

`MCElements`, `MCFei` and `MCServices` hold components that do not move in the
same behaviour: `part` chooses one at the start and the others stand still.  It is
a way to put related questions side by side; their state spaces add up, and no
claim is made about them together.

### Build

Modelled is the Linux build with Media SDK 1.25 or later, `MSDK_AVC_FEI`,
`MSDK_HEVC_FEI`, `ENABLE_HEVC`, `ENABLE_RAW_DECODE`, `ENABLE_RAW_CODEC`,
`SUPPORT_INTERLACE` and `SUPPORT_SMTA`, with `NDEBUG`.  The sources of the text and
picture overlays are modelled too; the default build leaves them out.

## 3. What the runs check

Bounds are chosen as small as lets every case happen, and named.

| Run | Instance | Distinct states | Shows |
|---|---|---|---|
| `ring_buffer` | 3 slots, 2 items | 2,400 | wrap, full and empty with every interleaving; FIFO refinement; a full queue drains |
| `fanout` | 2 encoders (one linked at the start), 2 surfaces, queue of 2, 3 frames | 446,000 | loans exact, surfaces not reused, pads in use are linked, hot plug returns |
| `fanout_pipeline` | 2 linked encoders, 2 surfaces, queue of 2, 3 frames | 36,000 | `Stop` returns and all is given back, loans end, EOS ends encoders |
| `mem_pool` | ring of 5, padding of 2, packets of up to 3 bytes, 12 bytes | 120,000 | two laps and every offset at which a packet can wrap |
| `session` | 4 packets, pool of 2, queue of 2, codec delays of 1, sink begins above 1 block, all failures, a signal | 267,000 | frames muxed once, stream and surfaces outlive their users, program ends |
| `elements` | graph: 10 elements, 4 calls, 2 input and 2 output codecs; VPP: 2 videos, 1 text, 1 raw file, 2 surfaces each, queue of 1, 3 calls; decoder: 4 inputs of up to 4 pictures, pool of 2, 3 surfaces at 4 addresses, codec delay of 1, queue of 1, 6 failures, one at a time | 665,000 | lists, links and threads of the graph agree and clean-up leaves nothing but what is named; surfaces of inputs are in one place, pictures are composed for the inputs set up, the VPP ends; a decoder's surfaces are locked as often as held, its pictures are sent once, it ends |
| `fei` | 36 H.264 and 43 H.265 set-ups (below), 12 frames, a frame counter of 16, all failures | 185,000 | references held and decodable, lists filled, resources enough, each frame once, the threads end |
| `services` | up to 3 lines of 12 beginnings, at most 2 of some 80 options each; 12 inputs of overlays, 3 surfaces (12 in the code), queue of 2, 4 frames, 2 faults; reader, decoder, encoder, log and 2 sinks, 2 signals, spurious wake-ups | 605,000 | set-ups fit together, options arrive, surfaces have one user, overlays end; each thread is joined once, nothing is released in use, main ends |


A queue of 2 can be full, can be empty, and can hold a frame with the EOS buffer
behind it (with a queue of 1 an encoder that is stopped after the VPP never has
a frame to give back); a bigger queue only adds states between them.  Four packets are one
more than the pool and the codec hold, so that the reader blocks, and two more
than the sink needs to begin.  `StartBlocks` is 5 in the code: the runs use 1,
because what matters is whether the output has more blocks than that.
`MaxFrames`, `MaxBytes`, `MaxPacket` and `Packets` bound the input.

In `elements` a queue of 1 and two surfaces are enough for an input to have one
picture shown, one queued and none left; three calls attach, relay out and detach.
Ten elements are two inputs, two VPPs and their encoders and dispatchers; four
calls reach each order of attaching, detaching and stopping once `Init` is done.
Three surfaces are one for the codec, one to decode into and one still with the
element behind when the size changes; four addresses let an allocation meet it or
not.  The inputs are a change of size from a file and from a network, a
file read twice that begins without a header, and one that never has any.
In `fei` the set-ups are every distance between references from 1 to 4 (0 to 4 for
H.265) with and without a pyramid of B frames, open and closed, progressive and
with either field first, a pyramid of P frames without one of B frames at each
distance, once both pyramids, buffers of one, two and six pictures instead of four,
fewer active references, and then each pipeline, strict GOPs, a GOP as long as an IDR
period, a missing VPP with each of the pipelines, so that a decoder may be reset, too
few reconstructed surfaces, and streams of predictors, one by one.  Twelve frames are two IDR periods and an incomplete
mini-GOP at their end; a frame counter of 16 (256 in the code) wraps more seldom
than a reference lives, as in the code.  In `services` two options per line let any
two options meet in one line and with the other lines' encoders.

Two signals are the two the program catches: each is blocked while its own
handler runs, and the second interrupts the first one's `Stop`, or comes after it;
two sinks are one deleted and one not.

What the properties of the last runs say, and what they leave out by name:

* `GraphIsWhole`, `ThreadsFollowTheTranscoder`, `CleanUpDeletesAll`: no list or link
  names a deleted element, every element in the lists has its thread between
  `Start` and `Stop` or `Join` and no other has one, and after `CleanUpResource`
  nothing is left but `lost`.
* `SurfacesAreKept`, `FramesAreRight` and `ElementsEnd` join what follows for VPP and
  decoder.
* `SurfacesAreSomewhere`, `FramesAreConfigured`: surfaces of an input are with its
  producer, in the queue, or shown, unless the last set-up counted no video
  (`CountedVideo`, see findings); pictures come from inputs that the last set-up
  counted.
* `VppEndsWithItsInputs`: with all videos ended the VPP ends, but for the four cases
  of `Excused`: an end mark thrown away before the first picture or forgotten by a
  set-up (`uncounted`), a decoder that ended while the VPP waits for the first frame
  after its reset, a custom layout, and no video left.
* `DecoderKeepsSurfaces`: unless the wait for surfaces ran out of time, `Data.Locked` is
  the number of holders, no freed surface is downstream, none that comes back finds
  no pool.
* `FramesAreSent`: pictures leave the decoder once and in order, and each is shown, on
  its way, or missing for a good reason; with the end mark none is on its way, unless
  the data was taken for ended too early (run `session_tail`; with RTSP likewise).
* `DecoderEnds`: once the reader is done, the element behind hears of the end, unless no
  header came, the filter or the device failed, the codec could not be set up, or
  surfaces came too late; and a decoder that is told to stop ends in each of these too.
* `AvcKeepsItsPool`, `AvcKeepsItsOrder`, `HevcKeepsItsFrames`, `HevcStreamDecodes`,
  `HevcGoesOn` and `EncodersEnd`: see their comments, and those of their parts, in
  `MCFei`, `FeiTasks` and `FeiHevc`.  `FeiStreamDecodes` leaves
  out a stream that lost a picture to a bitstream buffer that was too small, and
  the order around IDR pictures in strict GOPs; `FeiSetsSuffice` a list of
  reconstructed surfaces not longer than the window; `FeiFramesComeOnce` the buffers that
  go back twice after a decoder was reset, and `FeiEnds` the thread of PREENC alone that
  goes round then (`FeiResetEnds` bounds the tasks that are added until one without
  a surface has its turn); `HevcListsFilled` the
  references before a B frame when no distance was given, when the buffer holds one
  picture, or, in a pyramid, when it holds fewer than the distance calls for
  (`FewReferences`) or the distance is more than eight; those, `HevcStreamDecodes` and
  `HevcResourcesSuffice` leave out a pyramid of B frames together with one of P frames or
  a buffer of one picture (`Overruns`); `HevcEnds` an encoder
  that goes on failing or was never initialised.
* `SetupFits`, `OptionsReachEncoder`: the parts of an encoder agree with each other,
  with the surfaces asked of the decoder and with the other encoders of a session;
  an option that the help names for an encoder reaches each of its parts.  What
  does not arrive is listed by reason: `Overruled` by another option, `NotAskedOf` a
  part that is not there, `Dropped` by the code, `LostByLookAhead`; what does not
  agree by `Differ` and `FramesRaisedLate`.
* `OwnersKeep` and `ServicesEnd` join what follows for overlays and threads.
* `OverlaysKeepSurfaces`, `OverlaysEnd`: `Data.Locked` is the number of holders, so
  nobody fills a surface someone looks at; frames keep their order; the writer
  writes each frame once when nothing failed; a text lasts unless it cannot be
  converted (`InputLasts`); whoever is stopped, or told of the end by the element
  behind it, ends.  A writer whose stream ends before its first frame does not.

* `EveryThreadIsJoinedOnce`, `ThreadsOutliveTheirUsers`, `MainIsOver`: what a signal may
  interrupt without harm is everything but the places between a flag and its use
  (`CutFlag`), a join with `m_Mutex` held (`CutJoin`), `SinkWrap`'s `Wait` and `Stop`
  (`CutSinks`) and, with spurious wake-ups, the wait for the reader (`CutReader`).
  The usual case, a signal during the joins of decoder and encoder, is harmless.

Four runs expect a violation: each shows one place where the code does not do
what one of its own comments or assertions says.

| Run | Statement | What happens |
|---|---|---|
| `fanout_unlink` | assertion of `~MediaPad` (`media_pad.cpp:64`) | `ProcessBuf` sees `is_running_`, the encoder is stopped, drains its queue and ends, and the buffer is pushed; `DetachOutput` deletes the pad with it |
| `mem_pool_debug` | `mem_pool.h:105` | `wr_ptr_` wraps between two loads in `GetBufFullness` and the difference underflows |
| `session_stop` | `Launcher.cpp:334` | `Stop` joins a sink that waits in `read_packet` for an end that a stopped encoder does not mark, or a reader in `PushData` whose decoder has ended |
| `session_tail` | `decoder_element.cpp:649` | the last packets and the end mark arrive between `UpdateBitStream` and the look at `GetDataEof`: the decoder ends without them |

Other defects are named in the properties of passing runs, which state what
holds but for them:

* `RefsMatchHolders` counts among a surface's holders an encoder that failed to
  initialise and keeps its buffer (`dropped`).
* `SessionEnds` is `RunEnds` (the program ends *unless* the output has at most
  `StartBlocks` blocks, which the sink never begins with), `StopEnds` (`Stop` returns
  *but for* the two joins of `session_stop`) and `ReaderEnds`.
  `EveryDecodedFrameIsMuxed` says that no frame is lost *behind* the decoder.
* The VPP: `vpp_element.cpp:346` forgets the videos that had ended, `:341` asserts that
  a video is there although `DetachInput` may have taken the last one.  Where the
  assertion is compiled out, a layout of blocks is then searched for ever (`:544`); the
  model goes on, and the properties leave the case out (`CountedVideo`, `Excused`).
* The decoder: surfaces in use are freed half a second after a new header
  (`decoder_element.cpp:504`), and what the codec holds is dropped (`:742`).
* H.265 FEI: without a distance a B frame has no active reference before it, although
  the encoder makes mini-GOPs of four (`cmdProcessor.cpp:1641`); with pyramids of both P
  and B frames a full buffer drops the picture that the B frames in the queue wait for
  (`ref_list_manager.cpp:428`): the run has a P frame without any reference, and from 18
  frames on the queue may fill up and each surface after be dropped.  With `-refnum 1`
  (`h265_fei_encoder_preenc.cpp:164`) the buffer loses the picture before a mini-GOP to
  the one behind it, so its B frames have an empty list 0, and a pyramid of B frames
  loses the one behind it as well.
* H.264 FEI after a decoder was reset: the buffer without a surface takes that of each
  picture coded (`h264_fei_encoder_element.cpp:1198`), so pictures are coded again and
  their buffers returned again until the task without a surface ends the thread; PREENC
  alone skips that task (`:1131`) and goes round until it is stopped.
* FEI: a bitstream buffer that is too small loses its picture
  (`h264_fei_encoder_encode.cpp:622`); an H.265 encoder stopped before its first
  frame is drained for ever (`h265_fei_encoder_element.cpp:454`).  Seen beside these
  and modelled: a decoder reset ends the H.264 encoder with what it still holds; ENC and
  PAK hide most errors of the library; no free reconstructed surface returns without an end mark;
  `ProcessChainEncode(HevcTask*)` returns no value; an error other than
  `MORE_DATA` is tried again for ever; buffers of surfaces that found no task are
  not returned; what the last picture still refers to is never unlocked; of four
  references before a picture, H.265 without a pyramid of P frames drops the nearest
  from the list (`ref_list_manager.cpp:560`), where the farthest would be expected.
* Options: `-ppyr`, `-gpb`, `-qrep` and `-tiles` go nowhere; `-bref` and multi frame
  encode are for H.264 only; `-gopOptFlag` for FEI only; `-idrInterval` is lost for
  H.265 FEI, `-refnum` for H.264 FEI; `-la` after a verified `-rc CQP` makes the FEI
  set-up stop half-way, unnoticed; modes of multi frame encode differ when a later
  line asks for more frames.
* Threads: a signal while main joins a sink makes `Close` lock a mutex its own thread
  holds (`XC_Thread.cpp:119`); one while main waits for it deletes the thread under
  the wait (`SinkWrap.cpp:299`); one between a flag and the join it guards joins twice
  (`base_element.cpp:405`).
* Overlays: a text that cannot be converted is freed and then used
  (`string_decode_plugin.cpp:300`); its upload copies more rows than the text has
  unless its height is a multiple of 16; a raw file that has ended goes on giving
  its last frames; an overlay that cannot start tells nobody.

`PROJECT.json` quotes the statements the findings are measured against.

### Fairness

Every thread is weakly fair: the loops poll (`usleep`), nothing else blocks them
than what the models show, and the scheduler runs them.  Mutexes need no strong
fairness: each is held for finitely many steps by a thread that gives it up
before it asks again only when the input has a further frame, and the input is
finite.  Nothing makes the input bring another packet (`Arrive`, `PushData` are
not fair), a signal come, a call of the application begin, or a codec fail.  In
`MemPool` the decoder is assumed to consume something of a view of at least
`Enough` bytes (a padding's worth): the code's own comment in
`MapWrappedBuffer` asks for that.  In `VppInput` the VPP thread goes on, and so does
each input that was linked: a stream ends, a stopped one answers.  In `Decoder` the reader's and the decoder's
threads run, and the element behind takes what it is sent and gives it back; that the
reader blocks for ever on a network is its failure `read`.  In `CodecPlugins`
the element's thread and the session's task thread run, and the element behind a
reader takes and returns what it is sent; no frame need come to the writer.  In
`FeiTasks` and `FeiHevc` the encoder's thread runs; weak fairness of a step that is
enabled until the thread ends is written as "it ends or moves again and again",
which TLC evaluates faster.  The thread that goes round for ever after a reset
(`FeiSpins`) is no more than that: nothing need end it but `Stop`.  Nothing need stop an encoder or end its input but the
bound on frames.  In `Threads` the main thread goes on and each other thread ends
(the log's once it is told to): `Session` says when that is so.  Neither a signal nor
a spurious wake-up need come.

## 4. What is proved

TLC checks the instances above; the theorems hold for every value of the
constants that satisfies the `ASSUME` of the module (which TLC evaluates in each
run).  No theorem relies on a bound, except that `MemPoolProofs` takes
`Reload = FALSE` as a hypothesis: with `Reload = TRUE` the properties are false
(run `mem_pool_debug`).

* `RingBufferProofs`.  The invariant adds to the types what each thread knows at
  each place: a producer past its test has a free slot, a consumer past its test
  a full one.  Each is stable because the other thread moves its own index only,
  in the direction that makes more room or more data.  From it:
  `RingBufferTypeOK`, `PushAndPopNeverFail`, `NeverTorn`, and
  `RingBufferIsAQueue`: `Spec` implements `BoundedQueue` under the mapping
  `Contents`.  Its lemmas say what each step does to the mapped queue:
  `CopyIsInvisible` (a copy into a free slot does not show), `AdvanceAppends`,
  `PopTakesTheOldest`.
* `FanoutProofs`.  `PadsAreLinkedWhenUsed` needs that the pads still to be
  served are among the linked ones exactly while the VPP holds the Dispatcher's
  mutex, which an unlink waits for.  `LentMeansLocked` needs that `Locked` covers
  the open loan entry and the frame in the VPP's hand.  `RendersOnlyIntoFreeSurfaces` is an
  action property; its invariant (`RunInv`) says that between the scan and the
  rendering a surface that was free stays free, as only the VPP locks.

  `CountIsTheLoans` says that the Dispatcher's count of a
  surface *equals* the number of its loans, so it has to count, and the model
  counts over queues of any length in any number of encoders.  The loans in
  queues are a set of places `<<encoder, position>>`: `PushAddsAPlace` and
  `PopFreesAPlace` (a bijection between the places before and behind the pop) say
  how its cardinality moves, and the rest of a surface's holders are sets of
  encoders that gain or lose one member.  That every encoder is in one call at a
  time (`QueueInv`), and that the queue a pad is about to be pushed into has room,
  carry it through `ProcessChain`.  `StopReturnsEverything` adds what each stage of
  `MsdkXcoder::Stop` has waited for.  `Encoders` is assumed finite.
* `MemPoolProofs`.  The invariant relates pointers to the history: `wr_ptr_` and
  `rd_ptr_` are at a distance of `nwritten - nread` along the ring; every unread
  byte is where the reader will look for it (in the ring, or in the padding if
  the writer ran over the end and has not copied back yet); the first
  `mem_map_size_` bytes of the padding equal those of the ring while the data is
  wrapped; and what each thread computed from an old pointer is still safe: the
  free room it found can only have grown, the fullness too.  From it
  `MemPoolTypeOK`, `DecoderReadsTheStream`, `PoolCallsSucceed`.
* `SessionProofs`.  The invariant follows a frame: packets pushed and not consumed
  are in the pool, and what `UpdateBitStream` saw stays there; what the decoder used
  is in its codec or has become a frame; each frame is on its way to the queue, in
  it, in the encoder's hand or codec, or written, and in an undisturbed session there
  are no others; a surface is locked for each frame under way.  The queue is some
  number `k` of frames and then end marks only, so the invariant is of the form
  `\E k : Inv(k)`, and a step is proved by naming the next `k`.  Next to the data, each
  stage of `main` and of the signal handler implies which threads have ended
  (`StagesInv`), and the sink leaves by itself only after an end mark with nothing
  left to read (`StreamInv`).  From it `SessionTypeOK`, `FramesAreMuxed`,
  `StreamIsKept`, `PipelineIsEmpty`, for every input, pool, queue and codec delay, with
  every failure and a signal at any moment.
* `XcoderGraphProofs`.  `GraphIsWhole` is not inductive: it does not say that an
  encoder belongs to one VPP, that a list names elements of its kind only, or where
  else a pad may lead.  `GInv` does (`ListInv`, `PairInv`, `LinkInv`), and it says that
  every element that is not deleted is owned by one list or lost (`LiveInv`), from
  which the clean-up follows.  The calls that add something differ in what they
  add: `Growth` names new decoders, VPPs, encoders, links and lost elements, `Grows`
  proves once that such a call keeps the invariant, and each call, failing half-way
  or not, is an instance.  The calls that detach are proved one by one: there the
  uniqueness of each list entry (`ListLoses`) and the kinds (`NextsDiffer`) say that
  removing one element leaves the others' links alone.  That a detached VPP has an
  encoder to delete (`MaxIsAMember`) and that `DetachOutput` leaves one to the VPP are
  part of it.  From it `GraphStaysWhole`, `ThreadsAreTheListed`, `CleanUpIsComplete`, for
  any number of elements and calls.  `GraphStaysTyped` adds the counts: sessions and
  allocators are given back no more often than they were taken.
* `ElementsProofs`.  The theorems are about `MCElements`, where the graph, the VPP's
  input side and a decoder run next to each other: a step of one leaves the
  variables of the others alone, so the invariant is the conjunction of theirs
  (`Components`) and each is proved once, for its own component.
  For the VPP (`VInv`): a surface of an input is spare, in the pad's queue, or shown,
  and there are always as many as it was given (`Placed`), *unless* the last set-up
  counted no video input and the VPP is on its way out, when it drains queues
  without giving back (run `elements` has such states).  That the exception is
  confined to the way out needs the counts of ended streams (`VinCounts`): the VPP
  leaves only when `eos_cnt` has reached `stream_cnt_`, so while it works the latter is
  nil or not yet reached, and a frame in hand is of an input the last set-up was made
  for, or else a flag asks for another.  The half of `FramesStayRight` about VPPs is
  part of it.
  For the decoder (`DInv`): a surface that is held is held in one place, the codec's
  memory, the decoder's hand, the pad's queue or behind it, and locked once (`Kept`),
  so a lock more or less never wraps in its 16 bits; it is one of the pool there is; and
  a pool is given up only after every surface of it was free, which the decoder waits
  for half a second.
  Hence the hypothesis that the fault `slow` is not chosen: an encoder that takes
  longer does lose surfaces, as `SurfacesAreKept` says.
  Where the pictures are is said with numbers (`FInv`).  Units are numbered as they are
  read; from how many were, how many wait in the Stream and in the pool, and whether the
  last one was taken, follows which numbers and kinds those in the two queues have
  (`Counted`; the film may be read several times) and how many the decoder is through
  with (`Decoded`).  Those are exactly the units that were sent, given up, in the thread's
  hand or in the codec, and the sets come in this order (`InOrder`); the codec holds the
  *last* pictures, without a gap, which is what bounds the loss at a change of size: those
  that go are at most as many as the codec holds, and all since then up to the header
  (`ResetAfter`).  `Phases` says what the thread knows at each place of its loop: that
  after the codec was closed the header it was closed for is still the first unit of the
  pool (so nothing is skipped the second time `DecodeHeader` runs), and that a unit of
  another size or the end is only seen with nothing in hand.  Each step moves units from one
  set to the next (`OrderMoves`, `DropFirst`) or adds a reason (`ReasonsGrow`).
  From these `SurfacesStayKept`, `ElementsStayTyped` (all of the run's `TypeOK`) and
  `FramesStayRight`, for any number of inputs, surfaces and requests, any film and number
  of rounds through it, any room of pool and queue, any delay of the codec, and any
  sequence of calls.
* `ServicesProofs`.  `MCServices` runs the launcher's set-up, an
  element without a codec and the threads next to each other, one part moving at a
  time (`OneMoves`), so the invariants are again proved part by part.

  For the elements (`PInv`): a surface is with at most one task of the plugin and with
  at most one of the queue, the next element and the element's own hand, the tasks that
  are busy are the submitted ones, each once, and the lock of a surface is the number
  of its holders (`Kept`), unless the thread ended by a division by zero.  Every step
  moves a surface from one holder to another, takes one whose lock is 0 or lets one go:
  `PassedOn`, `GivenBack`, `LocksAre` say once what that does to the locks, and `PutIs`,
  `TakeIs`, `SubmitIs`, `FreeIs` what it does to the queues.  `Places` has what each place
  of the thread knows, such as that the last task submitted has the surface in hand while
  `SyncOperation` waits, and that nothing is submitted before the input is open.  The order of
  frames is not inductive by itself: for a raw file the queue has increasing numbers, all
  behind the one loaded last (`FramesInOrder`); for a writer none of whose tasks timed
  out, the file, `output_bs_`, the task, the surface in hand and the queue have, in this
  order, consecutive numbers up to the last frame sent (`InStream`).  `PInv` holds for
  any number of surfaces, frames and faults and any inputs; that the sizes of these are
  natural numbers is the assumption `OverlayShapes` (the width of a text is a sum over its
  characters, and TLC evaluates it).

  For the threads (`TInv`): the main thread's stack has `Launcher::Run` at the bottom and a
  `Launcher::Stop` for each signal that came meanwhile, each in a call it really makes
  (`Shape`), and each but the top one where a signal found it (`Interrupted`).  What the
  fields of a thread say is then a matter of counting calls on the stack: `m_WaitCount` is
  the number of those that wait in `Event::Wait`, `m_Mutex` is held if and only if one is
  about to join, and then nobody waits (`Waits`); at most one call joins, and a pthread is
  joined only when it has ended (`Joins`).  A call that left the wait without joining left a
  joined thread behind, or an outer call on the stack that will join it (`Leaving`): that is
  why the last of several `Wait`s may join.  Main passes a call only when its thread is joined
  (`Passed`), so that an object goes only then (`Objects`).  `EveryThreadIsJoinedOnce` and
  `ThreadsOutliveTheirUsers` have exceptions, signals that come between the test of a flag
  and what follows, or inside `SinkWrap::Stop`: `FlagsHold` and `Regions` say what
  holds as long as none of these came, and `Harmed` that nothing bad came of the others.  A
  step moves the call on top (`GoIs`), goes on to the next call (`AdvanceIs`) or takes the
  frame away (`PopIs`), or a signal adds one (`PushIs`); from these follows how the sets of
  calls on the stack change (`UsersMove`, `LeaveIs`, `SignalIs`).  `TInv` holds for any
  number of sinks and of signals, with spurious wake-ups or without.

  From both invariants `OwnersAreKept`, `OverlaysStayKept` and `ServicesStayTyped`.

* `FeiProofs`, H.265.  `BInv` is about the run `fei`, in which only one of the two encoders
  moves.  A frame is in one place: in the queue, which is in display order, in the hand
  of the thread, in the buffer of decoded pictures, or coded and forgotten (`InPlace`,
  `TaskOf`).  What is locked (`Locks`) and what has been coded and given back (`Counts`)
  follow from the place, so each step has to say which frame moves where.  For that
  `FindIs`, `TaskIs` and `LeftIs` say what `FindFrameToEncode` may choose, `UpdateIs` what
  `UpdateDPB` keeps (the new picture, and all others but one when the buffer is full),
  `ListsAre` that the lists are parts of the buffer, and `FramesAreFew` and `LackingIs`
  that downsampled surfaces and buffers suffice.  From it `HevcReferences`, for any
  stream and parameters; that the bisection of a B-pyramid ends at
  a place below the mark for none is the assumption `HevcPlaces`: it is a recursive
  function, whose values TLC works out and the provers do not.

  `DInv` is for the rest, and leaves out what breaks it: `Overruns`, a pyramid of B frames
  together with one of P frames or with a buffer of one picture.  It assumes nothing of
  the number of references but that there are from 1 to 15.
  `OInv` is about what waits: the queue has the types that `GetFrameType` gives and
  rising places (`InOrder`); a B frame of the last period is ready or no frame is
  missing from it to the newest (`NoGap`); what is no B frame is behind the whole buffer
  (`Beside`); and at the first trailing picture the random access point is in the
  buffer (`Phase`, `Preceded`).  `JoinKeeps` keeps it when a surface joins the queue,
  `LeaveKeeps` when a task is taken, in one of the three ways of `LeavesAre`: an IDR
  picture, a ready B frame, or the next picture forward.  Since any run of frames as long as the distance has
  one that is no B frame (`AnchorIs`), a full queue always yields a task (`RoomIs`): no
  surface comes in vain.  `SInv` is about what was coded: every picture of the buffer is
  in the stream as a reference since the last IDR picture, and all that a trailing
  picture may use since the last random access point.  The task in hand counts as
  coded (`Coming`), since the buffer is that of the next picture as soon as the task is
  made.  `HandKeeps` puts the two together for one task, `DStep` for all steps.  From
  `DInv` the theorems `HevcDecodes`, `HevcResources` and `HevcFindsReferences`.  The last says
  `HevcGoesOn` but for one case, `PastLost`: whether a B picture of a pyramid still has
  a picture before it depends on where the recursive bisection places the others.  There
  TLC finds that it has, up to the distances of the run.

* `FeiProofs`, H.264.  `FInv` is about the pool (`FPool`) and the task in hand (`FTask`).
  The task in hand is made with the buffer of decoded pictures that the last one left
  (`feiLast.post`), and RemoveProcessedTask drops only a coded task that this buffer does
  not name: so every picture of the buffer is a coded task of the pool, and the pool
  has no more of those than the buffer, at most `NumRef`.  A set of the encoder that is
  not vacant is with a coded task, each of which has at most one, hence one is left
  (`EncodeSetLeft`); and while a picture is coded, the smallest vacant set is the one its
  vectors were copied to (`FeiPredictorsMatch`, a conjunct of `FInv`).  `HeldInv` adds the
  sets of PREENC: each is vacant, or with a coded task or the one in hand, none of which
  holds more than `Budget`; `PreencSetsAre` and `PreencSetsLeft` count that there are
  enough for one more.  From both `AvcPool`: `AvcKeepsItsPool`, for any stream,
  parameters and failures.

  `EInv` is about the order of coding where B frames form no pyramid.  Of the frames
  that wait (`InQueue`) each comes before the newest reference of the buffer, which a B
  frame may then be coded with, or no frame after it has been taken; and what is no B
  frame comes after that reference.  Since any run of frames as long as the distance
  has one that is no B frame, no more frames wait than that.  Nor does one wait long
  (`Waits`): with every frame that comes, one that waited is taken, and a later one is
  taken first only while all behind the earlier one still wait too; so the frames that
  came, and those that wait before frame `f`, are together at most `f` and a mini-GOP.
  That ends what a decoder that was reset sets going: the first task without a surface
  comes within the stream and waits until it ends the thread (`Emptied`), and only so
  many can be added meanwhile.  `Drained` is what holds once the input has ended, `Once`
  says that the tasks which were added and do not wait are those coded, each once
  (`OutOnce`), and, without a reset, that their buffers are back, each once
  (`BackOnce`).  `EAdd` is for a frame that joins, `EPick` for one that is taken, `ECode`
  when it is coded.  From it `AvcOnce`: no task is coded twice and without a reset no
  buffer goes back twice, a stream that ends is coded and its buffers are back, a
  downsampled surface is found for each frame and one is left for the producer, and
  after a reset the number of tasks is bounded.  It is stated for
  `bref = "off"` because with a pyramid it does not hold for every distance: from 9 on
  TLC finds frames that are never coded (and from 10 on lists that name pictures which
  are gone), since the picture that a B frame comes before has left a buffer of four by
  then.  The run has distances of 1 to 4, where TLC finds `AvcKeepsItsOrder` to hold.
  `FeiAssumption` takes from the code that a distance not asked for is 4
  (`h264_fei_encoder_element.cpp:198`), and `FeiPlaces` is for H.264 what `HevcPlaces`
  is for H.265.

Only model-checked:

* All liveness properties, and whatever needs `ENABLED`: out of the prover's reach.
* Of the run `fei`: `FeiListsAreHeld` and `FeiStreamDecodes`, since the lists of a task
  are built with `SelectSeq`, `SetToSortSeq` and `FlattenSeq`, which are recursive and
  opaque to the provers (`AvcPool` says that what the lists are made from is held);
  `FeiFramesComeOnce`, `FeiSurfacesSuffice` and `FeiResetEnds` with a pyramid; and the
  list 0 of a B picture of a pyramid in `HevcGoesOn` (`PastLost` above).
* `SetupTypeOK`, `SetupFits` and
  `OptionsReachEncoder` of the run `services`: `LauncherSetup` takes the parameters
  through functions that are recursive over a line's options, and what those compute
  for every input is out of the prover's reach.
* Everything about `MemPool` with `Reload = TRUE`.

## 5. Not modelled, and why

* The codecs, FFmpeg, the driver: external; their results are choices (`Taken`
  and `GivesFrame` in `Session`, the failures).
* In `Session`: a signal while main waits for the sink (in `Threads`), `XC::Sleep`,
  loop mode, RTSP, the measurement and the trace; changes of size are in `Decoder`.
* In `Fanout`: the flush loop of `DoingVpp` for an ended input, per-frame errors
  of a codec that was initialised, a Dispatcher with no pad at all
  (`DetachOutput` refuses to take the last encoder away).
* In `XcoderGraph`: the devices behind sessions; two threads in one setter.
* In `Decoder`: the headers of VP8 files, the pull mode (`ProcessChainDecode`, not
  built), pausing and reopening the reader, its pacing by frame rate.
* In `VppInput`: the geometry of layouts, extension buffers, pixels; the wait, after a
  change of size, for the surfaces of the output pool (`vpp_element.cpp:699`); which colour
  or ratio a request asks for, so that one lost to the clearing of the flags is not seen.
* An encoder attached to a VPP that has just ended (`msdk_xcoder.cpp:1645`) and so never
  ends itself: neither `Fanout` nor `XcoderGraph` has both the buffers and the end of the VPP.
* In `FeiTasks` and `FeiHevc`: the contents of extension buffers, what repacking of
  vectors computes, quality statistics, weights.
* In `CommandLine` and after: the text of the help, the logger's files, words that
  nothing uses; what the media library's `Query` and `QueryIOSurf` answer.
* In `CodecPlugins`: pixels, but for the number of bytes converted and copied; a
  writer whose input changes size.
* The lists of long-term references of `EncoderElement`: what they ask is up to the
  codec.
* In `Threads`: a signal in `~Launcher`, whose handler works on objects half deleted,
  or while a mutex is held for a few assignments; a signal on another thread than
  main; timeouts of `Wait`, which no caller gives; a thread that cannot be created.
* Allocators, devices, trace, measurement: calls of the driver, logging.  The
  MPEG-TS demuxer has no caller.

## 6. Plan

Done: `RingBuffer`, `Fanout`, `MemPool`, `Session`, `XcoderGraph`, `VppInput`, `FeiTasks`,
`FeiHevc`, `CommandLine`, `CodecSetup`, `LauncherSetup`, `CodecPlugins`, `Decoder`,
`Threads`; the proofs of section 4.  Next:

1. The lists of `FeiTasks`, with an invariant like `DInv` for pairs of fields, and its
   orders of coding with a pyramid of a distance of at most eight.
2. `OutputStream`: `Stream` with partial reads; abstract: a FIFO of blocks;
   `Session` uses that abstraction.
