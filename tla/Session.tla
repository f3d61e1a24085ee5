------------------------------ MODULE Session ------------------------------
(***************************************************************************)
(* One run of the program from its input file to its output: Launcher with *)
(* the simplest pipeline it builds, a decoder linked to one encoder        *)
(* (have_NoVpp).                                                           *)
(*                                                                         *)
(*   FFmpegReader --MemPool--> DecoderElement --pad--> EncoderElement      *)
(*                                        --Stream--> SinkWrap/FFmpegWriter*)
(*                                                                         *)
(* Five threads: FFmpegReader::ReadThread, HandleProcessDecode,            *)
(* HandleProcessEncode, OneSinkOutput, and the main thread, which joins    *)
(* the others in Launcher::Run and on which the SIGINT handler runs        *)
(* Launcher::Stop. Init is the moment Launcher::Run has started them all.  *)
(*                                                                         *)
(* The memory pool holds whole packets (MemPool has its bytes), the pad    *)
(* queue is the FIFO that RingBuffer implements, and frames, packets and   *)
(* output blocks are counted, since each of the three is taken in order.   *)
(* The codecs are the Media SDK's: external.                               *)
(***************************************************************************)
EXTENDS Integers, Sequences, SequencesExt

CONSTANTS Packets,     \* packets in the input, one frame each
          PoolSize,    \* packets the memory pool has room for
          QueueSize,   \* FRAME_POOL_Q_SIZE
          NumSurf,     \* surfaces in the decoder's pool
          DecDelay,    \* packets the decoder holds before it gives out a frame
          EncDelay,    \* frames the encoder holds before it gives out a block
          StartBlocks, \* the sink opens the muxer once it sees more blocks (5)
          Faults,      \* the failures that may happen
          MaySignal    \* whether SIGINT may arrive

ASSUME SessionAssumption ==
  /\ {Packets, EncDelay, DecDelay, StartBlocks} \subseteq Nat
  /\ {PoolSize, QueueSize} \subseteq Nat \ {0}
  /\ NumSurf \in Nat /\ NumSurf > DecDelay + EncDelay + 1
  /\ Faults \subseteq {"read", "filter", "decoder", "sync", "encoder", "sink"}
  /\ MaySignal \in BOOLEAN

VARIABLES
  reader,    \* ReadThread: pc, m_bIsRunning, and packets read from the file
  pool,      \* MemPool: packets pushed, packets consumed, IsDataEof_
  dec,       \* HandleProcessDecode: pc, is_running_, codec_init_, what
             \* UpdateBitStream saw (snap), what the codec took of it (used),
             \* packets in the codec (held), bEndOfDecoder (ended)
  decoded,   \* history: frames handed to the pad
  queue,     \* in_buf_q_ of the encoder's sink pad
  locked,    \* surfaces the decoder marked Locked and did not get back
  enc,       \* HandleProcessEncode: pc, is_running_, codec_init_, the buffer
             \* in its hand, frames in the codec (held)
  stream,    \* the output Stream: blocks written, blocks read, mEndOfStream,
             \* and whether the sink has deleted it
  sink,      \* OneSinkOutput: pc, m_bThreadExit, m_OutPackets > 0
  main,      \* Launcher::Run and ~Launcher: the call it is in
  handler,   \* Launcher::Stop on behalf of the signal: the call it is in
  stoppedIn, \* history: the call the signal interrupted
  failed     \* history: the failures that happened

vars == <<reader, pool, dec, decoded, queue, locked, enc, stream, sink, main,
          handler, stoppedIn, failed>>

Init ==
  /\ reader = [pc |-> "read", run |-> TRUE, count |-> 0]
  /\ pool = [pushed |-> 0, consumed |-> 0, eof |-> FALSE]
  /\ dec = [pc |-> "top", run |-> TRUE, init |-> FALSE, snap |-> 0, used |-> 0,
            held |-> 0, ended |-> FALSE]
  /\ decoded = 0 /\ queue = << >> /\ locked = 0
  /\ enc = [pc |-> "get", run |-> TRUE, init |-> FALSE, buf |-> "none",
            held |-> 0]
  /\ stream = [written |-> 0, read |-> 0, eos |-> FALSE, deleted |-> FALSE]
  /\ sink = [pc |-> "top", exit |-> FALSE, muxing |-> FALSE]
  /\ main = "joinDecoder" /\ handler = "idle" /\ stoppedIn = "none"
  /\ failed = {}

Fails(what) == what \in Faults /\ failed' = failed \cup {what}

(***************************************************************************)
(* FFmpegReader::ReadThread                                                *)
(***************************************************************************)

\* readNextFrame reads the next packet, and PushData begins.
ReadPacket ==
  /\ reader.pc = "read" /\ reader.run /\ reader.count < Packets
  /\ reader' = [reader EXCEPT !.pc = "push", !.count = @ + 1]
  /\ UNCHANGED <<pool, dec, decoded, queue, locked, enc, stream, sink, main,
                 handler, stoppedIn, failed>>

\* Mutant: PushData writes into a full pool.
PushPacketIntoFull ==
  /\ reader.pc = "push" /\ pool.pushed - pool.consumed <= PoolSize
  /\ pool' = [pool EXCEPT !.pushed = @ + 1]
  /\ reader' = [reader EXCEPT !.pc = "read"]
  /\ UNCHANGED <<dec, decoded, queue, locked, enc, stream, sink, main, handler,
                 stoppedIn, failed>>

\* PushData copies the packet; it waits for room and looks at nothing else.
PushPacket ==
  /\ reader.pc = "push" /\ pool.pushed - pool.consumed < PoolSize
  /\ pool' = [pool EXCEPT !.pushed = @ + 1]
  /\ reader' = [reader EXCEPT !.pc = "read"]
  /\ UNCHANGED <<dec, decoded, queue, locked, enc, stream, sink, main, handler,
                 stoppedIn, failed>>

\* AVERROR_EOF: mark the end of the data, and stop.
ReadEof ==
  /\ reader.pc = "read" /\ reader.run /\ reader.count = Packets
  /\ pool' = [pool EXCEPT !.eof = TRUE]
  /\ reader' = [reader EXCEPT !.run = FALSE]
  /\ UNCHANGED <<dec, decoded, queue, locked, enc, stream, sink, main, handler,
                 stoppedIn, failed>>

\* av_read_frame fails: mark the end of the data, and leave.
ReadFails ==
  /\ reader.pc = "read" /\ reader.run /\ Fails("read")
  /\ pool' = [pool EXCEPT !.eof = TRUE]
  /\ reader' = [reader EXCEPT !.pc = "done", !.run = FALSE]
  /\ UNCHANGED <<dec, decoded, queue, locked, enc, stream, sink, main, handler,
                 stoppedIn>>

\* The bitstream filter fails: ReadThread returns, and marks no end of data.
FilterFails ==
  /\ reader.pc = "read" /\ reader.run /\ Fails("filter")
  /\ reader' = [reader EXCEPT !.pc = "done"]
  /\ UNCHANGED <<pool, dec, decoded, queue, locked, enc, stream, sink, main,
                 handler, stoppedIn>>

ReaderStopped ==
  /\ reader.pc = "read" /\ ~reader.run
  /\ reader' = [reader EXCEPT !.pc = "done"]
  /\ UNCHANGED <<pool, dec, decoded, queue, locked, enc, stream, sink, main,
                 handler, stoppedIn, failed>>

Reader == ReadPacket \/ PushPacket \/ ReadEof \/ ReaderStopped

(***************************************************************************)
(* DecoderElement::HandleProcessDecode                                     *)
(***************************************************************************)

\* InitDecoder; without data it returns MFX_ERR_MORE_DATA and is called again.
InitDecoder ==
  /\ dec.pc = "top" /\ dec.run /\ ~dec.init /\ pool.pushed > pool.consumed
  /\ dec' = [dec EXCEPT !.init = TRUE]
  /\ UNCHANGED <<reader, pool, decoded, queue, locked, enc, stream, sink, main,
                 handler, stoppedIn, failed>>

\* "Decode create failed": the thread returns; is_running_ stays true, and the
\* encoder is told nothing.
InitDecoderFails ==
  /\ dec.pc = "top" /\ dec.run /\ ~dec.init /\ pool.pushed > pool.consumed
  /\ Fails("decoder")
  /\ dec' = [dec EXCEPT !.pc = "done"]
  /\ UNCHANGED <<reader, pool, decoded, queue, locked, enc, stream, sink, main,
                 handler, stoppedIn>>

\* A surface is free when neither codec nor anybody downstream holds it.
SurfaceFree == locked + dec.held + enc.held < NumSurf

\* GetFreeSurfaceIndex finds a surface, and UpdateBitStream looks at the pool.
UpdateBitStream ==
  /\ dec.pc = "top" /\ dec.run /\ dec.init /\ SurfaceFree
  /\ dec' = [dec EXCEPT !.pc = "decode", !.snap = pool.pushed - pool.consumed,
                        !.used = 0]
  /\ UNCHANGED <<reader, pool, decoded, queue, locked, enc, stream, sink, main,
                 handler, stoppedIn, failed>>

\* No data and no end of it: try again.
NothingToDecode ==
  /\ dec.pc = "decode" /\ dec.snap = 0 /\ ~pool.eof
  /\ dec' = [dec EXCEPT !.pc = "top"]
  /\ UNCHANGED <<reader, pool, decoded, queue, locked, enc, stream, sink, main,
                 handler, stoppedIn, failed>>

\* The codec: it takes packets until it holds one more than DecDelay and gives
\* out a frame, or has taken all it was shown (MFX_ERR_MORE_DATA).
Taken == IF dec.held + dec.snap > DecDelay THEN DecDelay + 1 - dec.held
                                           ELSE dec.snap
GivesFrame == dec.held + Taken > DecDelay

\* DecodeFrameAsync(&input_bs_).
Decode ==
  /\ dec.pc = "decode" /\ (dec.snap > 0 \/ pool.eof)
  /\ ~(pool.eof /\ dec.ended)
  /\ dec' = [dec EXCEPT !.pc = IF GivesFrame THEN "push" ELSE "eof?",
                        !.used = Taken,
                        !.held = IF GivesFrame THEN DecDelay ELSE @ + Taken]
  /\ IF GivesFrame THEN locked' = locked + 1 /\ decoded' = decoded + 1
                   ELSE UNCHANGED <<locked, decoded>>
  /\ UNCHANGED <<reader, pool, queue, enc, stream, sink, main, handler,
                 stoppedIn, failed>>

\* MFX_ERR_MORE_DATA: is the data at its end by now? Then UpdateMemPool.
DecoderWantsMore ==
  /\ dec.pc = "eof?"
  /\ dec' = [dec EXCEPT !.pc = "top", !.ended = @ \/ pool.eof]
  /\ pool' = [pool EXCEPT !.consumed = @ + dec.used]
  /\ UNCHANGED <<reader, decoded, queue, locked, enc, stream, sink, main,
                 handler, stoppedIn, failed>>

\* DecodeFrameAsync(NULL): a frame the codec still holds, or the EOS buffer.
Flush ==
  /\ dec.pc = "decode" /\ pool.eof /\ dec.ended
  /\ IF dec.held > 0
     THEN /\ dec' = [dec EXCEPT !.pc = "push", !.held = @ - 1]
          /\ locked' = locked + 1 /\ decoded' = decoded + 1
     ELSE /\ dec' = [dec EXCEPT !.pc = "pushEos"]
          /\ UNCHANGED <<locked, decoded>>
  /\ UNCHANGED <<reader, pool, queue, enc, stream, sink, main, handler,
                 stoppedIn, failed>>

\* SyncOperation fails: the frame is unlocked and not pushed.
SyncFails ==
  /\ dec.pc = "push" /\ Fails("sync")
  /\ locked' = locked - 1
  /\ dec' = [dec EXCEPT !.pc = "top"]
  /\ pool' = [pool EXCEPT !.consumed = @ + dec.used]
  /\ UNCHANGED <<reader, decoded, queue, enc, stream, sink, main, handler,
                 stoppedIn>>

\* ProcessBuf of the encoder's pad: room in the queue and its parent running...
PadHasRoom ==
  /\ dec.pc \in {"push", "pushEos", "lastEos"}
  /\ enc.run /\ Len(queue) < QueueSize
  /\ dec' = [dec EXCEPT !.pc = CASE @ = "push" -> "store"
                                 [] @ = "pushEos" -> "storeEos"
                                 [] @ = "lastEos" -> "storeLast"]
  /\ UNCHANGED <<reader, pool, decoded, queue, locked, enc, stream, sink, main,
                 handler, stoppedIn, failed>>

\* ... so the buffer goes into the queue; after a frame, UpdateMemPool.
AfterPush == IF dec.pc \in {"push", "store"} THEN "top"
             ELSE IF dec.pc \in {"pushEos", "storeEos"} THEN "exit" ELSE "done"

PadStores ==
  /\ dec.pc \in {"store", "storeEos", "storeLast"}
  /\ queue' = Append(queue, IF dec.pc = "store" THEN "frame" ELSE "eos")
  /\ dec' = [dec EXCEPT !.pc = AfterPush]
  /\ pool' = [pool EXCEPT !.consumed = @ + IF dec.pc = "store" THEN dec.used ELSE 0]
  /\ UNCHANGED <<reader, decoded, locked, enc, stream, sink, main, handler,
                 stoppedIn, failed>>

\* Its parent is stopped: the buffer is returned.
PadReturns ==
  /\ dec.pc \in {"push", "pushEos", "lastEos"} /\ ~enc.run
  /\ locked' = locked - (IF dec.pc = "push" THEN 1 ELSE 0)
  /\ dec' = [dec EXCEPT !.pc = AfterPush]
  /\ pool' = [pool EXCEPT !.consumed = @ + IF dec.pc = "push" THEN dec.used ELSE 0]
  /\ UNCHANGED <<reader, decoded, queue, enc, stream, sink, main, handler,
                 stoppedIn, failed>>

\* After the loop: if it was stopped push an EOS buffer, if not note the end.
DecoderExits ==
  /\ \/ dec.pc = "top" /\ ~dec.run
     \/ dec.pc = "exit"
  /\ dec' = IF dec.run THEN [dec EXCEPT !.pc = "done", !.run = FALSE]
                       ELSE [dec EXCEPT !.pc = "lastEos"]
  /\ UNCHANGED <<reader, pool, decoded, queue, locked, enc, stream, sink, main,
                 handler, stoppedIn, failed>>

Decoder ==
  \/ InitDecoder \/ UpdateBitStream \/ NothingToDecode
  \/ Decode \/ DecoderWantsMore \/ Flush \/ PadHasRoom \/ PadStores
  \/ PadReturns \/ DecoderExits

(***************************************************************************)
(* EncoderElement::HandleProcessEncode                                     *)
(***************************************************************************)

\* ReturnBufToPeerPad of a buffer, and DecoderElement::Recycle.
Recycle(buf) == locked' = locked - (IF buf = "frame" THEN 1 ELSE 0)

EncoderGetsBuf ==
  /\ enc.pc = "get" /\ enc.run /\ queue # << >>
  /\ enc' = [enc EXCEPT !.pc = "encode", !.buf = Head(queue)]
  /\ queue' = Tail(queue)
  /\ UNCHANGED <<reader, pool, dec, decoded, locked, stream, sink, main,
                 handler, stoppedIn, failed>>

\* "The first buf encoder received is eos": ProcessChainEncode returns -1.
FirstBufIsEos ==
  /\ enc.pc = "encode" /\ ~enc.init /\ enc.buf = "eos"
  /\ enc' = [enc EXCEPT !.pc = "get", !.buf = "none"]
  /\ UNCHANGED <<reader, pool, dec, decoded, queue, locked, stream, sink, main,
                 handler, stoppedIn, failed>>

\* InitEncoder fails: it returns -1, and the buffer is not returned.
InitEncoderFails ==
  /\ enc.pc = "encode" /\ ~enc.init /\ enc.buf = "frame" /\ Fails("encoder")
  /\ enc' = [enc EXCEPT !.pc = "get", !.buf = "none"]
  /\ UNCHANGED <<reader, pool, dec, decoded, queue, locked, stream, sink, main,
                 handler, stoppedIn>>

\* EncodeFrameAsync of a frame. It is given out at once, or held, or, when the
\* encoder has been stopped, not encoded at all; the last two end the handling
\* of the buffer.
EncodeFrame ==
  /\ enc.pc = "encode" /\ enc.buf = "frame"
  /\ IF enc.run /\ enc.held = EncDelay
     THEN enc' = [enc EXCEPT !.pc = "write", !.init = TRUE] /\ UNCHANGED locked
     ELSE /\ enc' = [enc EXCEPT !.pc = "get", !.init = TRUE, !.buf = "none",
                                !.held = @ + IF enc.run THEN 1 ELSE 0]
          /\ Recycle(enc.buf)
  /\ UNCHANGED <<reader, pool, dec, decoded, queue, stream, sink, main, handler,
                 stoppedIn, failed>>

\* EncodeFrameAsync(NULL) for the EOS buffer: a frame the codec still holds.
EncodeHeld ==
  /\ enc.pc = "encode" /\ enc.buf = "eos" /\ enc.init
  /\ enc.run /\ enc.held > 0
  /\ enc' = [enc EXCEPT !.pc = "write", !.held = @ - 1]
  /\ UNCHANGED <<reader, pool, dec, decoded, queue, locked, stream, sink, main,
                 handler, stoppedIn, failed>>

\* WriteBitStreamFrame into the output stream.
WriteBitStreamFrame ==
  /\ enc.pc = "write"
  /\ stream' = [stream EXCEPT !.written = @ + 1]
  /\ IF enc.buf = "eos" THEN enc' = [enc EXCEPT !.pc = "encode"]
                        ELSE enc' = [enc EXCEPT !.pc = "get", !.buf = "none"]
  /\ Recycle(enc.buf)
  /\ UNCHANGED <<reader, pool, dec, decoded, queue, sink, main, handler,
                 stoppedIn, failed>>

\* Mutant: the stream is ended before the codec is empty.
EncoderEosUnflushed ==
  /\ enc.pc = "encode" /\ enc.buf = "eos" /\ enc.init
  /\ stream' = [stream EXCEPT !.eos = TRUE]
  /\ enc' = [enc EXCEPT !.pc = "get", !.run = FALSE, !.buf = "none"]
  /\ UNCHANGED <<reader, pool, dec, decoded, queue, locked, sink, main, handler,
                 stoppedIn, failed>>

\* The codec is empty, or was stopped: end the stream, and the thread's loop.
EncoderEos ==
  /\ enc.pc = "encode" /\ enc.buf = "eos" /\ enc.init
  /\ ~enc.run \/ enc.held = 0
  /\ stream' = [stream EXCEPT !.eos = TRUE]
  /\ enc' = [enc EXCEPT !.pc = "get", !.run = FALSE, !.buf = "none"]
  /\ UNCHANGED <<reader, pool, dec, decoded, queue, locked, sink, main, handler,
                 stoppedIn, failed>>

\* After the loop: return what is in the queue, then leave.
EncoderDrains ==
  /\ enc.pc = "drain" /\ queue # << >>
  /\ queue' = Tail(queue)
  /\ Recycle(Head(queue))
  /\ UNCHANGED <<reader, pool, dec, decoded, enc, stream, sink, main, handler,
                 stoppedIn, failed>>

\* Mutant: the thread leaves the queue as it is.
EncoderExitsUndrained ==
  /\ enc.pc \in {"get", "drain"} /\ ~enc.run
  /\ enc' = [enc EXCEPT !.pc = "done"]
  /\ UNCHANGED <<reader, pool, dec, decoded, queue, locked, stream, sink, main,
                 handler, stoppedIn, failed>>

EncoderExits ==
  /\ \/ enc.pc = "get" /\ ~enc.run /\ enc' = [enc EXCEPT !.pc = "drain"]
     \/ enc.pc = "drain" /\ queue = << >> /\ enc' = [enc EXCEPT !.pc = "done"]
  /\ UNCHANGED <<reader, pool, dec, decoded, queue, locked, stream, sink, main,
                 handler, stoppedIn, failed>>

Encoder ==
  \/ EncoderGetsBuf \/ FirstBufIsEos \/ EncodeFrame
  \/ EncodeHeld \/ WriteBitStreamFrame \/ EncoderEos \/ EncoderDrains
  \/ EncoderExits

(***************************************************************************)
(* SinkPipeline::OneSinkOutput, with FFmpegWriter::ProcessOutputBitstream. *)
(* GetEndOfStream and GetBlockCount are two calls, each under the stream's *)
(* mutex, and the encoder may write in between.                            *)
(***************************************************************************)
BlockCount == stream.written - stream.read

\* With enough blocks, or muxing already, it goes into ProcessOutputBitstream.
SinkMuxes ==
  /\ sink.pc = "top" /\ ~sink.exit
  /\ sink.muxing \/ BlockCount > StartBlocks
  /\ sink' = [sink EXCEPT !.pc = "read", !.muxing = TRUE]
  /\ UNCHANGED <<reader, pool, dec, decoded, queue, locked, enc, stream, main,
                 handler, stoppedIn, failed>>

\* OnFirstPutBS or the muxer fails: end the stream, and leave the loop.
SinkFails ==
  /\ \/ sink.pc = "read"
     \/ sink.pc = "top" /\ ~sink.exit /\ ~sink.muxing /\ BlockCount > StartBlocks
  /\ Fails("sink")
  /\ stream' = [stream EXCEPT !.eos = TRUE]
  /\ sink' = [sink EXCEPT !.pc = "exit"]
  /\ UNCHANGED <<reader, pool, dec, decoded, queue, locked, enc, main, handler,
                 stoppedIn>>

\* read_packet: a block, read and muxed. It waits for one, whoever is stopped.
ReadBlock ==
  /\ sink.pc = "block" \/ (sink.pc = "read" /\ ~stream.eos)
  /\ BlockCount > 0
  /\ stream' = [stream EXCEPT !.read = @ + 1]
  /\ sink' = [sink EXCEPT !.pc = "read"]
  /\ UNCHANGED <<reader, pool, dec, decoded, queue, locked, enc, main, handler,
                 stoppedIn, failed>>

\* read_packet sees the end of the stream; then, whether blocks are left.
ReadSeesEos ==
  /\ sink.pc = "read" /\ stream.eos
  /\ sink' = [sink EXCEPT !.pc = "read?"]
  /\ UNCHANGED <<reader, pool, dec, decoded, queue, locked, enc, stream, main,
                 handler, stoppedIn, failed>>

ReadAtEos ==
  /\ sink.pc = "read?"
  /\ sink' = [sink EXCEPT !.pc = IF BlockCount = 0 THEN "check" ELSE "block"]
  /\ UNCHANGED <<reader, pool, dec, decoded, queue, locked, enc, stream, main,
                 handler, stoppedIn, failed>>

\* OneSinkOutput's own look at the end of the stream, after the muxer's return
\* or instead of it; then, whether blocks are left.
SinkSeesEos ==
  /\ stream.eos
  /\ \/ sink.pc = "check"
     \/ sink.pc = "top" /\ ~sink.exit /\ ~sink.muxing /\ BlockCount <= StartBlocks
  /\ sink' = [sink EXCEPT !.pc = "check?"]
  /\ UNCHANGED <<reader, pool, dec, decoded, queue, locked, enc, stream, main,
                 handler, stoppedIn, failed>>

SinkAtEos ==
  /\ sink.pc = "check?"
  /\ sink' = [sink EXCEPT !.pc = IF BlockCount = 0 THEN "exit" ELSE "top"]
  /\ UNCHANGED <<reader, pool, dec, decoded, queue, locked, enc, stream, main,
                 handler, stoppedIn, failed>>

\* The end of the loop: delete the stream, and leave.
SinkExits ==
  /\ \/ sink.pc = "exit"
     \/ sink.pc = "top" /\ sink.exit
  /\ stream' = [stream EXCEPT !.deleted = TRUE]
  /\ sink' = [sink EXCEPT !.pc = "done"]
  /\ UNCHANGED <<reader, pool, dec, decoded, queue, locked, enc, main, handler,
                 stoppedIn, failed>>

Sink == SinkMuxes \/ ReadBlock \/ ReadSeesEos \/ ReadAtEos
        \/ SinkSeesEos \/ SinkAtEos \/ SinkExits

(***************************************************************************)
(* The main thread. The handler runs on it, inside the pthread_join it     *)
(* interrupts, so main goes on only once the handler has returned.         *)
(***************************************************************************)
MainRuns == handler \in {"idle", "done"}

\* Launcher::Run: MsdkXcoder::Join joins the decoder, then the encoder (unless
\* Stop has joined it already); then it waits for the sink.
\* ~Launcher deletes the pipeline, then the sink; ~FFmpegReader joins its thread.
Join(from, thread, to) == main = from /\ thread.pc = "done" /\ main' = to

Main ==
  /\ MainRuns
  /\ \/ Join("joinDecoder", dec, "joinEncoder")
     \/ Join("joinEncoder", enc, "waitSink")
     \/ Join("waitSink", sink, "deletePipeline")
     \/ Join("joinReader", reader, "finished")
     \/ main = "deletePipeline" /\ main' = "joinReader"
  /\ UNCHANGED <<reader, pool, dec, decoded, queue, locked, enc, stream, sink,
                 handler, stoppedIn, failed>>

\* SIGINT while main joins the pipeline: FFmpegReader::stop begins.
Signal ==
  /\ MaySignal /\ handler = "idle" /\ main \in {"joinDecoder", "joinEncoder"}
  /\ handler' = "joinReader" /\ stoppedIn' = main
  /\ reader' = [reader EXCEPT !.run = FALSE]
  /\ pool' = [pool EXCEPT !.eof = TRUE]
  /\ UNCHANGED <<dec, decoded, queue, locked, enc, stream, sink, main, failed>>

\* close() has joined the reader; the decoder's Stop clears its flag.
StopDecoder ==
  /\ handler = "joinReader" /\ reader.pc = "done"
  /\ dec' = [dec EXCEPT !.run = FALSE]
  /\ handler' = "joinDecoder"
  /\ UNCHANGED <<reader, pool, decoded, queue, locked, enc, stream, sink, main,
                 stoppedIn, failed>>

\* pthread_join returns at once with EINVAL when the thread is already being
\* joined, which main does in the call that was interrupted.
JoinReturns(call, thread) == thread.pc = "done" \/ stoppedIn = call

StopEncoder ==
  /\ handler = "joinDecoder" /\ JoinReturns("joinDecoder", dec)
  /\ enc' = [enc EXCEPT !.run = FALSE]
  /\ handler' = "joinEncoder"
  /\ UNCHANGED <<reader, pool, dec, decoded, queue, locked, stream, sink, main,
                 stoppedIn, failed>>

\* Mutant: the encoder is not joined before the sink is stopped.
StopSinkUnjoined ==
  /\ handler = "joinEncoder"
  /\ sink' = [sink EXCEPT !.exit = TRUE]
  /\ handler' = "joinSink"
  /\ UNCHANGED <<reader, pool, dec, decoded, queue, locked, enc, stream, main,
                 stoppedIn, failed>>

\* Mutant: m_bThreadExit is not set.
StopSinkSilently ==
  /\ handler = "joinEncoder" /\ JoinReturns("joinEncoder", enc)
  /\ handler' = "joinSink"
  /\ UNCHANGED <<reader, pool, dec, decoded, queue, locked, enc, stream, sink,
                 main, stoppedIn, failed>>

StopSink ==
  /\ handler = "joinEncoder" /\ JoinReturns("joinEncoder", enc)
  /\ sink' = [sink EXCEPT !.exit = TRUE]
  /\ handler' = "joinSink"
  /\ UNCHANGED <<reader, pool, dec, decoded, queue, locked, enc, stream, main,
                 stoppedIn, failed>>

SinkStopped ==
  /\ handler = "joinSink" /\ sink.pc = "done"
  /\ handler' = "done"
  /\ UNCHANGED <<reader, pool, dec, decoded, queue, locked, enc, stream, sink,
                 main, stoppedIn, failed>>

Handler == StopDecoder \/ StopEncoder \/ StopSink \/ SinkStopped

Failure == \/ ReadFails \/ FilterFails \/ InitDecoderFails \/ SyncFails
           \/ InitEncoderFails \/ SinkFails

Next == Reader \/ Decoder \/ Encoder \/ Sink \/ Main \/ Signal \/ Handler
        \/ Failure

Spec == Init /\ [][Next]_vars

\* Every thread keeps being scheduled; nothing makes a signal or a failure
\* happen.
FairSpec ==
  /\ Spec
  /\ WF_vars(Reader) /\ WF_vars(Decoder) /\ WF_vars(Encoder) /\ WF_vars(Sink)
  /\ WF_vars(Main) /\ WF_vars(Handler)

(***************************************************************************)
(* Properties                                                              *)
(***************************************************************************)
Signalled == stoppedIn # "none"

\* Type invariant; the pool never holds more than it has room for.
TypeOK ==
  /\ reader \in [pc : {"read", "push", "done"}, run : BOOLEAN,
                 count : 0 .. Packets]
  /\ pool \in [pushed : 0 .. Packets, consumed : 0 .. Packets, eof : BOOLEAN]
  /\ pool.pushed - pool.consumed \in 0 .. PoolSize
  /\ dec \in [pc : {"top", "decode", "eof?", "push", "pushEos", "lastEos",
                    "store", "storeEos", "storeLast", "exit", "done"},
              run : BOOLEAN, init : BOOLEAN, snap : 0 .. PoolSize,
              used : 0 .. PoolSize, held : 0 .. DecDelay, ended : BOOLEAN]
  /\ decoded \in 0 .. Packets
  /\ queue \in Seq({"frame", "eos"}) /\ Len(queue) <= QueueSize
  /\ locked \in 0 .. NumSurf
  /\ enc \in [pc : {"get", "encode", "write", "drain", "done"}, run : BOOLEAN,
              init : BOOLEAN, buf : {"none", "frame", "eos"},
              held : 0 .. EncDelay]
  /\ stream \in [written : 0 .. Packets, read : 0 .. Packets, eos : BOOLEAN,
                 deleted : BOOLEAN]
  /\ stream.read <= stream.written
  /\ sink \in [pc : {"top", "read", "read?", "block", "check", "check?",
                     "exit", "done"},
               exit : BOOLEAN, muxing : BOOLEAN]
  /\ main \in {"joinDecoder", "joinEncoder", "waitSink", "deletePipeline",
               "joinReader", "finished"}
  /\ handler \in {"idle", "joinReader", "joinDecoder", "joinEncoder",
                  "joinSink", "done"}
  /\ stoppedIn \in {"none", "joinDecoder", "joinEncoder"}
  /\ failed \subseteq Faults

\* A session that nobody stopped and in which nothing failed muxes every frame
\* the decoder gave out, each once: none is lost in the queue, in the encoder,
\* between SetEndOfStream and the sink's last look at the stream, or at the end.
EveryDecodedFrameIsMuxed ==
  main \notin {"joinDecoder", "joinEncoder", "waitSink"} /\ ~Signalled
    /\ failed = {}
  => stream.read = decoded

\* The sink deletes the output stream only when the encoder will not use it any
\* more, unless the muxer failed, or the signal came while main was joining the
\* encoder, so that Stop did not wait for it.
StreamOutlivesEncoder ==
  stream.deleted /\ "sink" \notin failed /\ stoppedIn # "joinEncoder"
  => enc.pc # "write" /\ ~(enc.pc = "encode" /\ enc.buf = "eos")

\* When the pipeline is deleted no buffer is left in a pad's queue and every
\* surface has come back (the assertion of ~MediaPad), unless an encoder could
\* not be created, or the signal came while main was joining the decoder, so
\* that Stop did not wait for it.
PipelineIsEmptyWhenDeleted ==
  main = "deletePipeline" /\ stoppedIn # "joinDecoder" /\ "encoder" \notin failed
  => queue = << >> /\ locked = 0

\* The program ends, unless a signal or a failure came, or the encoder gave out
\* too few blocks for the sink to begin.
RunEnds ==
  <>(main = "finished" \/ Signalled \/ failed # {}) \/ <>[](stream.written <= StartBlocks)

\* Launcher::Stop returns when all codecs work, but for two calls it may be
\* stuck in: joining the sink, which is in read_packet and waits for the end of
\* a stream that nobody will end; and joining the reader, which is in PushData
\* and waits for a decoder that took the end Stop had marked for the end of the
\* input.
SinkStuck ==
  sink.pc = "read" /\ BlockCount = 0 /\ ~stream.eos /\ enc.pc = "done"
ReaderStuck ==
  reader.pc = "push" /\ pool.pushed - pool.consumed = PoolSize /\ dec.pc = "done"

StopEnds ==
  Signalled ~> (\/ handler = "done"
                \/ failed \cap {"decoder", "encoder"} # {}
                \/ SinkStuck \/ ReaderStuck)

\* The reader ends by itself as long as the codecs work: nobody stops emptying
\* the pool before the reader has marked the end.
ReaderEnds ==
  <>(reader.pc = "done" \/ Signalled \/ failed \cap {"decoder", "encoder"} # {})

\* Launcher::Run, Launcher::Stop and the reader's thread end, but for the cases
\* the three parts name (Launcher.cpp:319, "Wait for output catch EOS flag and
\* run over", and :334, "Stop this ,all will stop", promise it for all).
SessionEnds == RunEnds /\ StopEnds /\ ReaderEnds

(***************************************************************************)
(* What the source says, and the program does not do                       *)
(***************************************************************************)

\* Launcher.cpp:334, "Stop this ,all will stop": Stop returns.
AllStop == Signalled ~> handler = "done"

\* decoder_element.cpp:648, "Last frame decoded, push EOS": when the decoder
\* reaches the end by itself it has decoded every packet of the input.
LastFrameDecoded == dec.pc \in {"pushEos", "storeEos"} => decoded = Packets
=============================================================================
