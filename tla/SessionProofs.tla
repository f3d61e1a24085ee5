--------------------------- MODULE SessionProofs ---------------------------
(***************************************************************************)
(* Theorems about Session, for inputs, pools, queues and codec delays of   *)
(* every size, with every failure and a signal at any moment.              *)
(***************************************************************************)
EXTENDS Session, SequenceTheorems, TLAPS

ReaderStates == [pc : {"read", "push", "done"}, run : BOOLEAN, count : Nat]
PoolStates == [pushed : Nat, consumed : Nat, eof : BOOLEAN]
DecStates ==
  [pc : {"top", "decode", "eof?", "push", "pushEos", "lastEos", "store",
         "storeEos", "storeLast", "exit", "done"},
   run : BOOLEAN, init : BOOLEAN, snap : 0 .. PoolSize, used : 0 .. PoolSize,
   held : 0 .. DecDelay, ended : BOOLEAN]
EncStates ==
  [pc : {"get", "encode", "write", "drain", "done"}, run : BOOLEAN,
   init : BOOLEAN, buf : {"none", "frame", "eos"}, held : 0 .. EncDelay]
StreamStates == [written : Nat, read : Nat, eos : BOOLEAN, deleted : BOOLEAN]
SinkStates ==
  [pc : {"top", "read", "read?", "block", "check", "check?", "exit", "done"},
   exit : BOOLEAN, muxing : BOOLEAN]

Types ==
  /\ reader \in ReaderStates
  /\ pool \in PoolStates
  /\ dec \in DecStates
  /\ decoded \in Nat
  /\ queue \in Seq({"frame", "eos"})
  /\ locked \in Int
  /\ enc \in EncStates
  /\ stream \in StreamStates
  /\ sink \in SinkStates
  /\ main \in {"joinDecoder", "joinEncoder", "waitSink", "deletePipeline",
               "joinReader", "finished"}
  /\ handler \in {"idle", "joinReader", "joinDecoder", "joinEncoder",
                  "joinSink", "done"}
  /\ stoppedIn \in {"none", "joinDecoder", "joinEncoder"}
  /\ failed \subseteq Faults

\* The counters of the records, by names of their own: the provers see numbers.
HasRead == reader.count
Pushed == pool.pushed
Consumed == pool.consumed
Shown == dec.snap
Used == dec.used
InDecoder == dec.held
InEncoder == enc.held
Written == stream.written
Muxed == stream.read

Numbers ==
  /\ HasRead \in Nat /\ Pushed \in Nat /\ Consumed \in Nat
  /\ Shown \in 0 .. PoolSize /\ Used \in 0 .. PoolSize
  /\ InDecoder \in 0 .. DecDelay /\ InEncoder \in 0 .. EncDelay
  /\ Written \in Nat /\ Muxed \in Nat
  /\ decoded \in Nat /\ locked \in Int

One(condition) == IF condition THEN 1 ELSE 0

\* The reader pushes each packet it has read; the pool never overflows.
Reading == One(reader.pc = "push")

PoolInv ==
  /\ HasRead = Pushed + Reading
  /\ HasRead <= Packets
  /\ Consumed <= Pushed
  /\ Pushed <= Consumed + PoolSize

\* What the decoder has been shown, or has used, is still in the pool; each
\* packet it used is in the codec or has become a frame.
UsedNow == IF dec.pc \in {"eof?", "push", "store"} THEN Used ELSE 0

DecodeInv ==
  /\ dec.pc = "decode" => Used = 0 /\ Consumed + Shown <= Pushed
  /\ Consumed + UsedNow <= Pushed
  /\ decoded + InDecoder = Consumed + UsedNow

\* The queue is k frames, then end-of-stream buffers. Behind one there is never
\* a frame: the decoder is past its loop.
Ended == dec.pc \in {"exit", "lastEos", "storeLast", "done"}

FramesFirst(q, k) ==
  /\ k \in 0 .. Len(q)
  /\ \A i \in 1 .. Len(q) : q[i] = "frame" <=> i <= k

QueueInv(k) ==
  /\ FramesFirst(queue, k)
  /\ Len(queue) <= QueueSize
  /\ dec.pc \in {"store", "storeEos", "storeLast"} => Len(queue) < QueueSize
  /\ k < Len(queue) => Ended
  /\ enc.buf = "eos" => Ended /\ k = 0
  /\ enc.buf = "none" <=> enc.pc \in {"get", "drain", "done"}

\* Every frame between the decoder and the encoder has a locked surface, and
\* no other surface is locked unless InitEncoder failed.
Underway(k) == One(dec.pc \in {"push", "store"}) + k + One(enc.buf = "frame")

SurfacesInv(k) ==
  /\ Underway(k) <= locked
  /\ "encoder" \notin failed => locked = Underway(k)
  /\ locked <= NumSurf
  /\ dec.pc = "decode" => locked < NumSurf

\* Frames are not duplicated, and lost only after a failure or a signal.
Encoding == InEncoder + One(enc.pc = "write" /\ enc.buf = "eos")

FramesInv(k) ==
  /\ Underway(k) + Encoding + Written <= decoded
  /\ ~Signalled /\ failed = {} => decoded = Underway(k) + Encoding + Written

\* When the encoder has been stopped, and by whom.
EncoderInv(k) ==
  /\ enc.pc \in {"drain", "done"} => ~enc.run
  /\ ~enc.run /\ stoppedIn # "joinDecoder" => dec.pc \in {"exit", "done"}
  /\ ~enc.run /\ ~Signalled => k = 0 /\ InEncoder = 0 /\ enc.buf = "none"
  /\ enc.pc = "done" /\ stoppedIn # "joinDecoder" => queue = << >>

\* What ends the stream, and what the sink may conclude from it.
StreamInv ==
  /\ Muxed <= Written
  /\ stream.eos /\ "sink" \notin failed => ~enc.run /\ enc.buf = "none"
  /\ sink.pc \in {"read?", "block", "check", "check?"} => stream.eos
  /\ sink.pc \in {"exit", "done"} /\ "sink" \notin failed =>
       sink.exit \/ (stream.eos /\ Muxed = Written)
  /\ stream.deleted <=> sink.pc = "done"

\* What main and the signal handler have waited for.
StagesInv ==
  /\ handler = "idle" <=> stoppedIn = "none"
  /\ ~dec.run => dec.pc = "done" \/ stoppedIn = "joinDecoder"
  /\ dec.pc \in {"lastEos", "storeLast"} => ~dec.run
  /\ stoppedIn = "joinEncoder" => dec.pc = "done"
  /\ sink.exit => Signalled /\ (enc.pc = "done" \/ stoppedIn = "joinEncoder")
  /\ main # "joinDecoder" => dec.pc = "done"
  /\ main \notin {"joinDecoder", "joinEncoder"} => enc.pc = "done"
  /\ main \notin {"joinDecoder", "joinEncoder", "waitSink"} => sink.pc = "done"

Inv(k) == /\ Types /\ PoolInv /\ DecodeInv /\ StreamInv /\ StagesInv
          /\ QueueInv(k) /\ SurfacesInv(k) /\ FramesInv(k) /\ EncoderInv(k)

IInv == \E k \in Nat : Inv(k)

-----------------------------------------------------------------------------
LEMMA Constants ==
  /\ Packets \in Nat /\ DecDelay \in Nat /\ EncDelay \in Nat /\ StartBlocks \in Nat
  /\ PoolSize \in Nat /\ PoolSize > 0 /\ QueueSize \in Nat /\ QueueSize > 0
  /\ NumSurf \in Nat /\ NumSurf > 0
BY SessionAssumption

LEMMA TypesAreNumbers == Types => Numbers
BY DEF Types, Numbers, HasRead, Pushed, Consumed, Shown, Used, InDecoder,
       InEncoder, Written, Muxed, DecStates, ReaderStates, PoolStates, EncStates,
       StreamStates

\* What a queue looks like after Append and Tail.
LEMMA AppendToFrames ==
  ASSUME NEW q \in Seq({"frame", "eos"}), NEW k \in Nat, FramesFirst(q, k)
  PROVE  /\ FramesFirst(Append(q, "eos"), k)
         /\ k = Len(q) => FramesFirst(Append(q, "frame"), k + 1)
         /\ Len(Append(q, "eos")) = Len(q) + 1
         /\ Len(Append(q, "frame")) = Len(q) + 1
BY DEF FramesFirst

LEMMA TailOfFrames ==
  ASSUME NEW q \in Seq({"frame", "eos"}), NEW k \in Nat, FramesFirst(q, k), q # << >>
  PROVE  /\ Tail(q) \in Seq({"frame", "eos"}) /\ Len(Tail(q)) = Len(q) - 1
         /\ Head(q) = "frame" => k > 0 /\ FramesFirst(Tail(q), k - 1)
         /\ Head(q) # "frame" => Head(q) = "eos" /\ k = 0 /\ FramesFirst(Tail(q), 0)
<1>1. /\ Head(q) = q[1] /\ Head(q) \in {"frame", "eos"}
      /\ Tail(q) \in Seq({"frame", "eos"}) /\ Len(Tail(q)) = Len(q) - 1
      /\ Len(q) \in Nat /\ Len(q) > 0
      /\ \A i \in 1 .. Len(Tail(q)) : Tail(q)[i] = q[i + 1]
  BY HeadTailProperties, EmptySeq
<1>2. k \in 0 .. Len(q) /\ \A i \in 1 .. Len(q) : q[i] = "frame" <=> i <= k
  BY DEF FramesFirst
<1>3. Head(q) = "frame" <=> k > 0
  BY <1>1, <1>2
<1>4. ASSUME k > 0 PROVE FramesFirst(Tail(q), k - 1)
  BY <1>1, <1>2, <1>4 DEF FramesFirst
<1>5. ASSUME k = 0 PROVE FramesFirst(Tail(q), 0)
  BY <1>1, <1>2, <1>5 DEF FramesFirst
<1> QED BY <1>1, <1>3, <1>4, <1>5

LEMMA InitIInv == Init => IInv
<1> SUFFICES ASSUME Init PROVE Inv(0)
  BY DEF IInv
<1> USE Constants DEF Init
<1>1. Types
  BY DEF Types, ReaderStates, PoolStates, DecStates, EncStates, StreamStates, SinkStates
<1>2. PoolInv /\ DecodeInv
  BY DEF PoolInv, DecodeInv, HasRead, Pushed, Consumed, Reading, One, Used, UsedNow, InDecoder
<1>3. StreamInv /\ StagesInv
  BY DEF StreamInv, StagesInv, Muxed, Written
<1>4. QueueInv(0) /\ EncoderInv(0)
  BY DEF QueueInv, EncoderInv, FramesFirst
<1>5. Underway(0) = 0 /\ Encoding = 0
  BY DEF Underway, Encoding, One, InEncoder
<1>6. SurfacesInv(0) /\ FramesInv(0)
  BY <1>5 DEF SurfacesInv, FramesInv, Written
<1> QED BY <1>1, <1>2, <1>3, <1>4, <1>6 DEF Inv

-----------------------------------------------------------------------------
(* The reader's thread: it changes reader, and pool.pushed and pool.eof. *)

LEMMA ReaderIInv ==
  ASSUME NEW k \in Nat, Inv(k), Reader \/ ReadFails \/ FilterFails
  PROVE  Inv(k)'
<1>1. Types /\ Numbers /\ reader \in ReaderStates /\ pool \in PoolStates
  BY TypesAreNumbers DEF Inv, Types
<1>2. /\ UNCHANGED <<dec, decoded, queue, locked, enc, stream, sink, main, handler, stoppedIn>>
      /\ failed \subseteq failed' /\ failed' \subseteq Faults /\ (failed' = {} => failed = {})
  BY <1>1 DEF Reader, ReadPacket, PushPacket, ReadEof, ReaderStopped, ReadFails,
              FilterFails, Fails, Types
<1>3. /\ reader' \in ReaderStates /\ pool' \in PoolStates
      /\ PoolInv'
      /\ Pushed <= Pushed' /\ Consumed' = Consumed /\ Pushed' \in Nat
  <2>0. PoolInv
    BY DEF Inv
  <2>1. CASE ReadPacket
    <3>1. HasRead + 1 \in Nat /\ HasRead < Packets /\ reader.pc = "read" /\ pool' = pool
      BY <1>1, <2>1 DEF Numbers, ReadPacket, HasRead
    <3>2. PICK n \in Nat : n = HasRead + 1
      BY <3>1
    <3>3. reader' = [reader EXCEPT !.pc = "push", !.count = n]
      BY <2>1, <3>2 DEF ReadPacket, HasRead
    <3>4. /\ reader' \in ReaderStates /\ HasRead' = n /\ Reading' = 1 /\ Reading = 0
          /\ Pushed' = Pushed /\ Consumed' = Consumed
      BY ONLY <1>1, <3>1, <3>3 DEF ReaderStates, HasRead, Reading, One, Pushed, Consumed
    <3>5. PoolInv'
      BY <1>1, <2>0, <3>1, <3>2, <3>4, Constants DEF PoolInv, Numbers
    <3> QED BY <1>1, <3>1, <3>4, <3>5 DEF Numbers
  <2>2. CASE PushPacket
    <3>1. /\ pool' = [pool EXCEPT !.pushed = @ + 1]
          /\ reader' = [reader EXCEPT !.pc = "read"] /\ reader.pc = "push"
          /\ Pushed - Consumed < PoolSize
      BY <2>2 DEF PushPacket, Pushed, Consumed
    <3>2. /\ reader' \in ReaderStates /\ pool' \in PoolStates
          /\ HasRead' = HasRead /\ Reading = 1 /\ Reading' = 0
          /\ Pushed' = Pushed + 1 /\ Consumed' = Consumed
      BY ONLY <1>1, <3>1 DEF ReaderStates, PoolStates, HasRead, Pushed, Consumed, Reading, One
    <3>3. PoolInv'
      BY <1>1, <2>0, <3>1, <3>2, Constants DEF PoolInv, Numbers
    <3> QED BY <1>1, <3>2, <3>3 DEF Numbers
  <2>3. CASE ReadEof \/ ReadFails
    <3>1. /\ pool' = [pool EXCEPT !.eof = TRUE]
          /\ \/ reader' = [reader EXCEPT !.run = FALSE]
             \/ reader.pc = "read" /\ reader' = [reader EXCEPT !.pc = "done", !.run = FALSE]
      BY <2>3 DEF ReadEof, ReadFails
    <3>2. /\ pool' \in PoolStates /\ Pushed' = Pushed /\ Consumed' = Consumed
      BY ONLY <1>1, <3>1 DEF PoolStates, Pushed, Consumed
    <3>3. /\ reader' \in ReaderStates /\ HasRead' = HasRead /\ Reading' = Reading
      BY ONLY <1>1, <3>1 DEF ReaderStates, HasRead, Reading, One
    <3> QED BY <1>1, <2>0, <3>2, <3>3 DEF PoolInv, Numbers
  <2>4. CASE FilterFails \/ ReaderStopped
    <3>1. /\ pool' = pool /\ reader.pc = "read"
          /\ reader' = [reader EXCEPT !.pc = "done"]
      BY <2>4 DEF FilterFails, ReaderStopped
    <3>2. /\ reader' \in ReaderStates /\ HasRead' = HasRead /\ Reading' = Reading
          /\ Pushed' = Pushed /\ Consumed' = Consumed
      BY ONLY <1>1, <3>1 DEF ReaderStates, HasRead, Reading, One, Pushed, Consumed
    <3> QED BY <1>1, <2>0, <3>1, <3>2 DEF PoolInv, Numbers
  <2> QED BY <2>1, <2>2, <2>3, <2>4 DEF Reader
<1>4. UNCHANGED <<Shown, Used, UsedNow, InDecoder, InEncoder, Written, Muxed, Encoding, Underway(k)>>
  BY <1>2 DEF Shown, Used, UsedNow, InDecoder, InEncoder, Written, Muxed, Encoding, Underway
<1>5. Types'
  BY <1>1, <1>2, <1>3 DEF Types
<1>6. DecodeInv'
  <2>1. Consumed + UsedNow \in Nat /\ Consumed + Shown \in Nat
    BY <1>1, Constants DEF UsedNow, Numbers
  <2> QED BY <1>1, <1>2, <1>3, <1>4, <2>1 DEF DecodeInv, Inv, Numbers
<1>7. StreamInv' /\ StagesInv'
  BY <1>2, <1>4 DEF StreamInv, StagesInv, Signalled, Inv
<1>8. QueueInv(k)' /\ EncoderInv(k)'
  BY <1>2, <1>4 DEF QueueInv, EncoderInv, FramesFirst, Ended, Signalled, Inv
<1>9. SurfacesInv(k)' /\ FramesInv(k)'
  BY <1>2, <1>4 DEF SurfacesInv, FramesInv, Signalled, Inv
<1> QED BY <1>3, <1>5, <1>6, <1>7, <1>8, <1>9 DEF Inv
-----------------------------------------------------------------------------
(* The decoder's thread: it changes dec, pool.consumed, decoded, locked and  *)
(* queue.                                                                    *)

DecoderStep == Decoder \/ InitDecoderFails \/ SyncFails

\* What no step of the decoder disturbs.
LEMMA DecoderLeaves ==
  ASSUME NEW k \in Nat, Inv(k), DecoderStep
  PROVE  /\ UNCHANGED <<reader, enc, stream, sink, main, handler, stoppedIn>>
         /\ UNCHANGED <<HasRead, Reading, InEncoder, Written, Muxed, Encoding>>
         /\ failed \subseteq failed' /\ failed' \subseteq Faults
         /\ failed' = {} => failed = {}
         /\ "encoder" \in failed' => "encoder" \in failed
         /\ StreamInv'
<1>1. failed \subseteq Faults
  BY DEF Inv, Types
<1>2. /\ UNCHANGED <<reader, enc, stream, sink, main, handler, stoppedIn>>
      /\ \/ failed' = failed
         \/ failed' = failed \cup {"decoder"} /\ "decoder" \in Faults
         \/ failed' = failed \cup {"sync"} /\ "sync" \in Faults
  BY DEF DecoderStep, Decoder, InitDecoder, UpdateBitStream, NothingToDecode,
         Decode, DecoderWantsMore, Flush, PadHasRoom, PadStores, PadReturns,
         DecoderExits, InitDecoderFails, SyncFails, Fails
<1>3. UNCHANGED <<HasRead, Reading, InEncoder, Written, Muxed, Encoding>>
  BY <1>2 DEF HasRead, Reading, InEncoder, Written, Muxed, Encoding
<1>4. StreamInv'
  BY <1>2, <1>3 DEF StreamInv, Inv
<1> QED BY <1>1, <1>2, <1>3, <1>4

\* The steps that neither make, move nor give back a frame.
LEMMA DecoderControlIInv ==
  ASSUME NEW k \in Nat, Inv(k), DecoderStep,
         \/ InitDecoder \/ InitDecoderFails \/ UpdateBitStream
         \/ NothingToDecode \/ PadHasRoom \/ DecoderExits
  PROVE  Inv(k)'
<1>1. Types /\ Numbers /\ dec \in DecStates
  BY TypesAreNumbers DEF Inv, Types
<1>2. UNCHANGED <<pool, decoded, queue, locked, Pushed, Consumed>>
  BY DEF InitDecoder, InitDecoderFails, UpdateBitStream, NothingToDecode,
         PadHasRoom, DecoderExits, Pushed, Consumed
<1> USE DecoderLeaves
<1>3. /\ dec' \in DecStates
      /\ DecodeInv' /\ StagesInv' /\ EncoderInv(k)'
      /\ Underway(k)' = Underway(k)
      /\ Ended => Ended'
      /\ dec'.pc \in {"store", "storeEos", "storeLast"} => Len(queue) < QueueSize
      /\ dec'.pc = "decode" => locked < NumSurf
  <2>1. CASE InitDecoder \/ InitDecoderFails
    <3>1. /\ dec.pc = "top" /\ dec.run
          /\ \/ dec' = [dec EXCEPT !.init = TRUE]
             \/ dec' = [dec EXCEPT !.pc = "done"]
      BY <2>1 DEF InitDecoder, InitDecoderFails
    <3>2. /\ dec' \in DecStates /\ dec'.run /\ dec'.pc \in {"top", "done"}
          /\ UNCHANGED <<Shown, Used, InDecoder>>
      BY ONLY <1>1, <3>1 DEF DecStates, Shown, Used, InDecoder
    <3>3. UsedNow = 0 /\ UsedNow' = 0
      BY <3>1, <3>2 DEF UsedNow
    <3>4. DecodeInv'
      BY <1>1, <1>2, <3>2, <3>3 DEF DecodeInv, Inv, Numbers
    <3>5. StagesInv' /\ EncoderInv(k)'
      BY <1>2, <3>1, <3>2 DEF StagesInv, EncoderInv, Signalled, Inv
    <3> QED BY <3>1, <3>2, <3>4, <3>5 DEF Underway, One, Ended
  <2>2. CASE UpdateBitStream
    <3>1. PICK n \in 0 .. PoolSize : n = Pushed - Consumed
      BY <1>1, Constants DEF Inv, PoolInv, Numbers
    <3>2. PICK z \in 0 .. PoolSize : z = 0
      BY Constants
    <3>3. /\ dec.pc = "top" /\ dec.run
          /\ dec' = [dec EXCEPT !.pc = "decode", !.snap = n, !.used = z]
      BY <2>2, <3>1, <3>2 DEF UpdateBitStream, Pushed, Consumed
    <3>4. /\ dec' \in DecStates /\ dec'.run /\ dec'.pc = "decode"
          /\ Shown' = n /\ Used' = z /\ InDecoder' = InDecoder
      BY ONLY <1>1, <3>3 DEF DecStates, Shown, Used, InDecoder
    <3>5. UsedNow = 0 /\ UsedNow' = 0
      BY <3>3, <3>4 DEF UsedNow
    <3>6. DecodeInv'
      BY <1>1, <1>2, <3>1, <3>2, <3>4, <3>5 DEF DecodeInv, Inv, Numbers
    <3>7. StagesInv' /\ EncoderInv(k)'
      BY <1>2, <3>3, <3>4 DEF StagesInv, EncoderInv, Signalled, Inv
    <3>8. locked + dec.held + enc.held < NumSurf
      BY <2>2 DEF UpdateBitStream, SurfaceFree
    <3>9. locked < NumSurf
      BY <1>1, <3>8, Constants DEF Numbers, InDecoder, InEncoder
    <3> QED BY <3>3, <3>4, <3>6, <3>7, <3>9 DEF Underway, One, Ended
  <2>3. CASE NothingToDecode
    <3>1. dec.pc = "decode" /\ dec' = [dec EXCEPT !.pc = "top"]
      BY <2>3 DEF NothingToDecode
    <3>2. /\ dec' \in DecStates /\ dec'.pc = "top" /\ dec'.run = dec.run
          /\ UNCHANGED <<Shown, Used, InDecoder>>
      BY ONLY <1>1, <3>1 DEF DecStates, Shown, Used, InDecoder
    <3>3. UsedNow = 0 /\ UsedNow' = 0
      BY <3>1, <3>2 DEF UsedNow
    <3>4. DecodeInv'
      BY <1>1, <1>2, <3>2, <3>3 DEF DecodeInv, Inv, Numbers
    <3>5. StagesInv' /\ EncoderInv(k)'
      BY <1>2, <3>1, <3>2 DEF StagesInv, EncoderInv, Signalled, Inv
    <3> QED BY <3>1, <3>2, <3>4, <3>5 DEF Underway, One, Ended
  <2>4. CASE PadHasRoom
    <3>1. /\ dec.pc \in {"push", "pushEos", "lastEos"} /\ enc.run /\ Len(queue) < QueueSize
          /\ \/ dec.pc = "push" /\ dec' = [dec EXCEPT !.pc = "store"]
             \/ dec.pc = "pushEos" /\ dec' = [dec EXCEPT !.pc = "storeEos"]
             \/ dec.pc = "lastEos" /\ dec' = [dec EXCEPT !.pc = "storeLast"]
      BY <2>4 DEF PadHasRoom
    <3>2. /\ dec' \in DecStates /\ dec'.run = dec.run
          /\ \/ dec.pc = "push" /\ dec'.pc = "store"
             \/ dec.pc = "pushEos" /\ dec'.pc = "storeEos"
             \/ dec.pc = "lastEos" /\ dec'.pc = "storeLast"
          /\ UNCHANGED <<Shown, Used, InDecoder>>
      BY ONLY <1>1, <3>1 DEF DecStates, Shown, Used, InDecoder
    <3>3. UsedNow' = UsedNow
      BY <3>2 DEF UsedNow
    <3>4. DecodeInv'
      BY <1>2, <3>2, <3>3 DEF DecodeInv, Inv
    <3>5. StagesInv' /\ EncoderInv(k)'
      BY <1>2, <3>1, <3>2 DEF StagesInv, EncoderInv, Signalled, Inv
    <3> QED BY <3>1, <3>2, <3>4, <3>5 DEF Underway, One, Ended
  <2>5. CASE DecoderExits
    <3>1. /\ (dec.pc = "top" /\ ~dec.run) \/ dec.pc = "exit"
          /\ \/ dec.run /\ dec' = [dec EXCEPT !.pc = "done", !.run = FALSE]
             \/ ~dec.run /\ dec' = [dec EXCEPT !.pc = "lastEos"]
      BY <2>5 DEF DecoderExits
    <3>2. /\ dec' \in DecStates /\ ~dec'.run
          /\ \/ dec.run /\ dec'.pc = "done"
             \/ ~dec.run /\ dec'.pc = "lastEos"
          /\ UNCHANGED <<Shown, Used, InDecoder>>
      BY ONLY <1>1, <3>1 DEF DecStates, Shown, Used, InDecoder
    <3>3. UsedNow = 0 /\ UsedNow' = 0
      BY <3>1, <3>2 DEF UsedNow
    <3>4. DecodeInv'
      BY <1>1, <1>2, <3>2, <3>3 DEF DecodeInv, Inv, Numbers
    <3>5. StagesInv' /\ EncoderInv(k)'
      BY <1>2, <3>1, <3>2 DEF StagesInv, EncoderInv, Signalled, Inv
    <3> QED BY <3>1, <3>2, <3>4, <3>5 DEF Underway, One, Ended
  <2> QED BY <2>1, <2>2, <2>3, <2>4, <2>5
<1>4. Types'
  BY <1>1, <1>2, <1>3 DEF Types
<1>5. PoolInv'
  BY <1>2 DEF PoolInv, Inv
<1>6. QueueInv(k)'
  BY <1>2, <1>3 DEF QueueInv, FramesFirst, Inv
<1>7. SurfacesInv(k)' /\ FramesInv(k)'
  BY <1>2, <1>3 DEF SurfacesInv, FramesInv, Signalled, Inv
<1> QED BY <1>3, <1>4, <1>5, <1>6, <1>7 DEF Inv

\* The codec takes packets and gives out a frame, or wants more; at the end of
\* the data it gives out what it still holds.
LEMMA DecoderDecodesIInv ==
  ASSUME NEW k \in Nat, Inv(k), DecoderStep, Decode \/ Flush
  PROVE  Inv(k)'
<1>1. Types /\ Numbers /\ dec \in DecStates
  BY TypesAreNumbers DEF Inv, Types
<1>2. UNCHANGED <<pool, queue, Pushed, Consumed>> /\ dec.pc = "decode" /\ UsedNow = 0
  BY DEF Decode, Flush, Pushed, Consumed, UsedNow
<1> USE DecoderLeaves
\* a frame comes out, or not; the numbers are conserved either way
<1>3. /\ dec' \in DecStates /\ dec'.run = dec.run /\ DecodeInv'
      /\ \/ dec'.pc = "push" /\ decoded' = decoded + 1 /\ locked' = locked + 1
         \/ dec'.pc \in {"eof?", "pushEos"} /\ UNCHANGED <<decoded, locked>>
  <2>1. CASE Decode
    <3>1. Taken = IF InDecoder + Shown > DecDelay THEN DecDelay + 1 - InDecoder ELSE Shown
      BY DEF Taken, InDecoder, Shown
    <3>2. PICK n \in 0 .. PoolSize : n = Taken
      BY ONLY <1>1, <3>1, Constants DEF Numbers
    <3>3. n <= Shown /\ (InDecoder + n > DecDelay => InDecoder + n = DecDelay + 1)
      BY ONLY <1>1, <3>1, <3>2, Constants DEF Numbers
    <3>4. Consumed + Shown <= Pushed /\ decoded + InDecoder = Consumed
      BY <1>1, <1>2 DEF DecodeInv, Inv, Numbers
    <3>5. CASE GivesFrame
      <4>1. PICK h \in 0 .. DecDelay : h = DecDelay
        BY Constants
      <4>2. /\ dec' = [dec EXCEPT !.pc = "push", !.used = n, !.held = h]
            /\ decoded' = decoded + 1 /\ locked' = locked + 1
        BY <2>1, <3>2, <3>5, <4>1 DEF Decode
      <4>3. /\ dec' \in DecStates /\ dec'.run = dec.run /\ dec'.pc = "push"
            /\ Used' = n /\ InDecoder' = h
        BY ONLY <1>1, <4>2 DEF DecStates, Used, InDecoder
      <4>4. InDecoder + n = DecDelay + 1
        BY <3>2, <3>3, <3>5 DEF GivesFrame, InDecoder
      <4>5. UsedNow' = n
        BY <4>3 DEF UsedNow
      <4>6. DecodeInv'
        BY <1>1, <1>2, <3>3, <3>4, <4>1, <4>2, <4>3, <4>4, <4>5, Constants DEF DecodeInv, Numbers
      <4> QED BY <4>2, <4>3, <4>6
    <3>6. CASE ~GivesFrame
      <4>1. PICK h \in 0 .. DecDelay : h = InDecoder + n
        BY <1>1, <3>2, <3>6, Constants DEF GivesFrame, InDecoder, Numbers
      <4>2. /\ dec' = [dec EXCEPT !.pc = "eof?", !.used = n, !.held = h]
            /\ UNCHANGED <<decoded, locked>>
        BY <2>1, <3>2, <3>6, <4>1 DEF Decode, InDecoder
      <4>3. /\ dec' \in DecStates /\ dec'.run = dec.run /\ dec'.pc = "eof?"
            /\ Used' = n /\ InDecoder' = h
        BY ONLY <1>1, <4>2 DEF DecStates, Used, InDecoder
      <4>4. UsedNow' = n
        BY <4>3 DEF UsedNow
      <4>5. DecodeInv'
        BY <1>1, <1>2, <3>3, <3>4, <4>1, <4>2, <4>3, <4>4, Constants DEF DecodeInv, Numbers
      <4> QED BY <4>2, <4>3, <4>5
    <3> QED BY <3>5, <3>6
  <2>2. CASE Flush
    <3>1. Used = 0 /\ decoded + InDecoder = Consumed
      BY <1>1, <1>2 DEF DecodeInv, Inv, Numbers
    <3>2. CASE dec.held > 0
      <4>1. PICK h \in 0 .. DecDelay : h = InDecoder - 1
        BY <1>1, <3>2, Constants DEF InDecoder, Numbers
      <4>2. /\ dec' = [dec EXCEPT !.pc = "push", !.held = h]
            /\ decoded' = decoded + 1 /\ locked' = locked + 1
        BY <2>2, <3>2, <4>1 DEF Flush, InDecoder
      <4>3. /\ dec' \in DecStates /\ dec'.run = dec.run /\ dec'.pc = "push"
            /\ Used' = Used /\ InDecoder' = h
        BY ONLY <1>1, <4>2 DEF DecStates, Used, InDecoder
      <4>4. UsedNow' = 0
        BY <3>1, <4>3 DEF UsedNow
      <4>5. DecodeInv'
        BY <1>1, <1>2, <3>1, <4>1, <4>2, <4>3, <4>4, Constants DEF DecodeInv, Inv, Numbers
      <4> QED BY <4>2, <4>3, <4>5
    <3>3. CASE ~(dec.held > 0)
      <4>1. dec' = [dec EXCEPT !.pc = "pushEos"] /\ UNCHANGED <<decoded, locked>>
        BY <2>2, <3>3 DEF Flush
      <4>2. /\ dec' \in DecStates /\ dec'.run = dec.run /\ dec'.pc = "pushEos"
            /\ Used' = Used /\ InDecoder' = InDecoder
        BY ONLY <1>1, <4>1 DEF DecStates, Used, InDecoder
      <4>3. UsedNow' = 0
        BY <4>2 DEF UsedNow
      <4>4. DecodeInv'
        BY <1>1, <1>2, <3>1, <4>1, <4>2, <4>3 DEF DecodeInv, Inv, Numbers
      <4> QED BY <4>1, <4>2, <4>4
    <3> QED BY <3>2, <3>3
  <2> QED BY <2>1, <2>2
<1>4. Types'
  BY <1>1, <1>2, <1>3, SMTT(20) DEF Types, Numbers
<1>5. PoolInv'
  BY <1>2 DEF PoolInv, Inv
<1>6. StagesInv'
  BY <1>2, <1>3 DEF StagesInv, Signalled, Inv
<1>7. QueueInv(k)' /\ EncoderInv(k)'
  BY <1>2, <1>3 DEF QueueInv, EncoderInv, FramesFirst, Ended, Signalled, Inv
<1>8. /\ Underway(k) \in Nat /\ Encoding \in Nat
      /\ Underway(k)' = Underway(k) + IF dec'.pc = "push" THEN 1 ELSE 0
  BY <1>1, <1>2, <1>3, Constants DEF Underway, Encoding, One, Numbers
<1>9. SurfacesInv(k)'
  BY <1>1, <1>2, <1>3, <1>8, Constants DEF SurfacesInv, Inv, Numbers
<1>10. FramesInv(k)'
  BY <1>1, <1>2, <1>3, <1>8 DEF FramesInv, Signalled, Inv, Numbers
<1> QED BY <1>3, <1>4, <1>5, <1>6, <1>7, <1>9, <1>10 DEF Inv

\* UpdateMemPool: what the decoder used leaves the pool.
LEMMA UpdateMemPool ==
  ASSUME NEW k \in Nat, Inv(k), DecoderStep,
         pool' = [pool EXCEPT !.consumed = @ + dec.used],
         dec.pc \in {"eof?", "push", "store"},
         dec'.pc \notin {"decode", "eof?", "push", "store"},
         dec'.held = dec.held, decoded' = decoded
  PROVE  pool' \in PoolStates /\ PoolInv' /\ DecodeInv'
<1>1. Types /\ Numbers /\ pool \in PoolStates
  BY TypesAreNumbers DEF Inv, Types
<1>2. UNCHANGED <<HasRead, Reading>>
  BY DecoderLeaves
<1>3. Consumed + Used \in Nat
  BY <1>1, Constants DEF Numbers
<1>4. PICK n \in Nat : n = Consumed + Used
  BY <1>3
<1>5. pool' = [pool EXCEPT !.consumed = n]
  BY <1>4 DEF Consumed, Used
<1>6. pool' \in PoolStates /\ Pushed' = Pushed /\ Consumed' = n
  BY ONLY <1>1, <1>5 DEF PoolStates, Pushed, Consumed
<1>7. UsedNow = Used /\ UsedNow' = 0 /\ InDecoder' = InDecoder
  BY DEF UsedNow, InDecoder
<1>8. DecodeInv'
  BY <1>1, <1>4, <1>6, <1>7, Constants DEF DecodeInv, Inv, Numbers
<1>9. PoolInv'
  BY <1>1, <1>2, <1>4, <1>6, <1>7, Constants DEF PoolInv, DecodeInv, Inv, Numbers
<1> QED BY <1>6, <1>8, <1>9

\* Back to the top of the loop: the codec wants more data, or the frame it gave
\* is given back at once, after a failure or because the encoder was stopped.
LEMMA DecoderReturnsIInv ==
  ASSUME NEW k \in Nat, Inv(k), DecoderStep, DecoderWantsMore \/ SyncFails \/ PadReturns
  PROVE  Inv(k)'
<1>1. Types /\ Numbers /\ dec \in DecStates /\ pool \in PoolStates
  BY TypesAreNumbers DEF Inv, Types
<1>2. UNCHANGED <<decoded, queue>>
  BY DEF DecoderWantsMore, SyncFails, PadReturns
<1> USE DecoderLeaves
<1>3. CASE dec.pc \in {"eof?", "push"}
  <2>1. /\ pool' = [pool EXCEPT !.consumed = @ + dec.used]
        /\ \/ dec.pc = "eof?" /\ locked' = locked
              /\ dec' = [dec EXCEPT !.pc = "top", !.ended = @ \/ pool.eof]
           \/ dec.pc = "push" /\ locked' = locked - 1 /\ dec' = [dec EXCEPT !.pc = "top"]
              /\ (failed' # {} \/ ~enc.run)
    BY <1>3 DEF DecoderWantsMore, SyncFails, PadReturns, AfterPush, Fails
  <2>2. pool.eof \in BOOLEAN /\ dec.ended \in BOOLEAN
    BY <1>1 DEF PoolStates, DecStates
  <2>3. /\ dec' \in DecStates /\ dec'.pc = "top" /\ dec'.run = dec.run /\ dec'.held = dec.held
    BY ONLY <1>1, <2>1, <2>2 DEF DecStates
  <2>4. pool' \in PoolStates /\ PoolInv' /\ DecodeInv'
    BY <1>2, <1>3, <2>1, <2>3, UpdateMemPool
  <2>5. Types'
    BY <1>1, <1>2, <2>1, <2>3, <2>4 DEF Types, Numbers
  <2>6. StagesInv' /\ EncoderInv(k)'
    BY <1>2, <1>3, <2>3 DEF StagesInv, EncoderInv, Signalled, Inv
  <2>7. QueueInv(k)'
    BY <1>2, <1>3, <2>3 DEF QueueInv, FramesFirst, Ended, Inv
  <2>8. /\ Underway(k) \in Nat /\ Encoding \in Nat
        /\ Underway(k)' = Underway(k) - IF dec.pc = "push" THEN 1 ELSE 0
    BY <1>1, <1>3, <2>3, Constants DEF Underway, Encoding, One, Numbers
  <2>9. SurfacesInv(k)'
    BY <1>1, <2>1, <2>3, <2>8, Constants DEF SurfacesInv, Inv, Numbers
  <2>10. dec.pc = "push" => failed' # {} \/ Signalled
    BY <2>1 DEF EncoderInv, Signalled, Inv
  <2>11. FramesInv(k)'
    BY <1>1, <1>2, <2>1, <2>8, <2>10 DEF FramesInv, Signalled, Inv, Numbers
  <2> QED BY <2>3, <2>4, <2>5, <2>6, <2>7, <2>9, <2>11 DEF Inv
<1>4. CASE dec.pc \notin {"eof?", "push"}
  <2>1. /\ pool' = [pool EXCEPT !.consumed = @ + 0] /\ locked' = locked - 0
        /\ \/ dec.pc = "pushEos" /\ dec' = [dec EXCEPT !.pc = "exit"]
           \/ dec.pc = "lastEos" /\ dec' = [dec EXCEPT !.pc = "done"]
    BY <1>4 DEF DecoderWantsMore, SyncFails, PadReturns, AfterPush
  <2>2. /\ pool' \in PoolStates /\ locked' = locked
        /\ UNCHANGED <<Pushed, Consumed>>
    BY <1>1, <2>1 DEF PoolStates, Pushed, Consumed, Numbers
  <2>3. /\ dec' \in DecStates /\ dec'.run = dec.run
        /\ \/ dec.pc = "pushEos" /\ dec'.pc = "exit"
           \/ dec.pc = "lastEos" /\ dec'.pc = "done"
        /\ UNCHANGED <<Shown, Used, InDecoder>>
    BY ONLY <1>1, <2>1 DEF DecStates, Shown, Used, InDecoder
  <2>4. UsedNow = 0 /\ UsedNow' = 0 /\ Underway(k)' = Underway(k)
    BY <2>3 DEF UsedNow, Underway, One
  <2>5. Types' /\ PoolInv' /\ DecodeInv'
    BY <1>1, <1>2, <2>2, <2>3, <2>4 DEF Types, PoolInv, DecodeInv, Inv, Numbers
  <2>6. StagesInv' /\ EncoderInv(k)'
    BY <1>2, <2>3 DEF StagesInv, EncoderInv, Signalled, Inv
  <2>7. QueueInv(k)'
    BY <1>2, <2>3 DEF QueueInv, FramesFirst, Ended, Inv
  <2>8. SurfacesInv(k)' /\ FramesInv(k)'
    BY <1>2, <2>2, <2>3, <2>4 DEF SurfacesInv, FramesInv, Signalled, Inv
  <2> QED BY <2>5, <2>6, <2>7, <2>8 DEF Inv
<1> QED BY <1>3, <1>4

\* The pad stores a frame, or an end-of-stream buffer.
LEMMA PadStoresIInv ==
  ASSUME NEW k \in Nat, Inv(k), DecoderStep, PadStores
  PROVE  IInv'
<1>1. /\ Types /\ Numbers /\ dec \in DecStates /\ pool \in PoolStates
      /\ queue \in Seq({"frame", "eos"}) /\ FramesFirst(queue, k) /\ Len(queue) < QueueSize
  BY TypesAreNumbers DEF Inv, Types, QueueInv, PadStores
<1> USE DecoderLeaves
<1>2. CASE dec.pc = "store"
  <2>1. /\ queue' = Append(queue, "frame") /\ decoded' = decoded /\ locked' = locked
        /\ pool' = [pool EXCEPT !.consumed = @ + dec.used]
        /\ dec' = [dec EXCEPT !.pc = "top"]
    BY <1>2 DEF PadStores, AfterPush
  <2>2. /\ dec' \in DecStates /\ dec'.pc = "top" /\ dec'.run = dec.run /\ dec'.held = dec.held
    BY ONLY <1>1, <2>1 DEF DecStates
  <2>3. pool' \in PoolStates /\ PoolInv' /\ DecodeInv'
    BY <1>2, <2>1, <2>2, UpdateMemPool
  <2>4. /\ k = Len(queue) /\ FramesFirst(queue', k + 1) /\ Len(queue') = Len(queue) + 1
        /\ queue' \in Seq({"frame", "eos"})
    BY <1>1, <1>2, <2>1, AppendToFrames DEF QueueInv, Ended, FramesFirst, Inv
  <2>5. Types'
    BY <1>1, <2>1, <2>2, <2>3, <2>4 DEF Types
  <2>6. StagesInv' /\ EncoderInv(k + 1)'
    BY <1>2, <2>2 DEF StagesInv, EncoderInv, Signalled, Inv
  <2>7. QueueInv(k + 1)'
    BY <1>1, <1>2, <2>2, <2>4, Constants DEF QueueInv, Ended, Inv
  <2>8. Underway(k + 1)' = Underway(k)
    BY <1>2, <2>2 DEF Underway, One
  <2>9. SurfacesInv(k + 1)' /\ FramesInv(k + 1)'
    BY <2>1, <2>2, <2>8 DEF SurfacesInv, FramesInv, Signalled, Inv
  <2>10. Inv(k + 1)' /\ k + 1 \in Nat
    BY <2>3, <2>5, <2>6, <2>7, <2>9 DEF Inv
  <2> QED BY <2>10 DEF IInv
<1>3. CASE dec.pc # "store"
  <2>1. /\ queue' = Append(queue, "eos") /\ decoded' = decoded /\ locked' = locked
        /\ pool' = [pool EXCEPT !.consumed = @ + 0]
        /\ \/ dec.pc = "storeEos" /\ dec' = [dec EXCEPT !.pc = "exit"]
           \/ dec.pc = "storeLast" /\ dec' = [dec EXCEPT !.pc = "done"]
    BY <1>3 DEF PadStores, AfterPush
  <2>2. pool' \in PoolStates /\ UNCHANGED <<Pushed, Consumed>>
    BY <1>1, <2>1 DEF PoolStates, Pushed, Consumed, Numbers
  <2>3. /\ dec' \in DecStates /\ dec'.run = dec.run
        /\ \/ dec.pc = "storeEos" /\ dec'.pc = "exit"
           \/ dec.pc = "storeLast" /\ dec'.pc = "done"
        /\ UNCHANGED <<Shown, Used, InDecoder>>
    BY ONLY <1>1, <2>1 DEF DecStates, Shown, Used, InDecoder
  <2>4. UsedNow = 0 /\ UsedNow' = 0 /\ Underway(k)' = Underway(k)
    BY <2>3 DEF UsedNow, Underway, One
  <2>5. /\ FramesFirst(queue', k) /\ Len(queue') = Len(queue) + 1
        /\ queue' \in Seq({"frame", "eos"})
    BY <1>1, <2>1, AppendToFrames
  <2>6. Types' /\ PoolInv' /\ DecodeInv'
    BY <1>1, <2>1, <2>2, <2>3, <2>4, <2>5 DEF Types, PoolInv, DecodeInv, Inv, Numbers
  <2>7. StagesInv' /\ EncoderInv(k)'
    BY <2>3 DEF StagesInv, EncoderInv, Signalled, Inv
  <2>8. QueueInv(k)'
    BY <1>1, <2>3, <2>5, Constants DEF QueueInv, Ended, Inv
  <2>9. SurfacesInv(k)' /\ FramesInv(k)'
    BY <2>1, <2>3, <2>4 DEF SurfacesInv, FramesInv, Signalled, Inv
  <2>10. Inv(k)'
    BY <2>6, <2>7, <2>8, <2>9 DEF Inv
  <2> QED BY <2>10 DEF IInv
<1> QED BY <1>2, <1>3

LEMMA DecoderIInv ==
  ASSUME NEW k \in Nat, Inv(k), DecoderStep
  PROVE  IInv'
BY DecoderControlIInv, DecoderDecodesIInv, DecoderReturnsIInv, PadStoresIInv
   DEF DecoderStep, Decoder, IInv

-----------------------------------------------------------------------------
(* The encoder's thread: it changes enc, queue, locked, and stream.written   *)
(* and stream.eos.                                                           *)

EncoderStep == Encoder \/ InitEncoderFails

\* What no step of the encoder disturbs.
LEMMA EncoderLeaves ==
  ASSUME NEW k \in Nat, Inv(k), EncoderStep
  PROVE  /\ UNCHANGED <<reader, pool, dec, decoded, sink, main, handler, stoppedIn>>
         /\ failed \subseteq failed' /\ failed' \subseteq Faults
         /\ failed' = {} => failed = {}
         /\ PoolInv' /\ DecodeInv'
<1>1. failed \subseteq Faults
  BY DEF Inv, Types
<1>2. /\ UNCHANGED <<reader, pool, dec, decoded, sink, main, handler, stoppedIn>>
      /\ \/ failed' = failed
         \/ failed' = failed \cup {"encoder"} /\ "encoder" \in Faults
  BY DEF EncoderStep, Encoder, EncoderGetsBuf, FirstBufIsEos, EncodeFrame,
         EncodeHeld, WriteBitStreamFrame, EncoderEos, EncoderDrains,
         EncoderExits, InitEncoderFails, Fails
<1>3. UNCHANGED <<HasRead, Reading, Pushed, Consumed, Shown, Used, UsedNow, InDecoder>>
  BY <1>2 DEF HasRead, Reading, Pushed, Consumed, Shown, Used, UsedNow, InDecoder
<1>4. PoolInv' /\ DecodeInv'
  BY <1>2, <1>3 DEF PoolInv, DecodeInv, Inv
<1> QED BY <1>1, <1>2, <1>4

\* The steps that take a buffer out of the queue.
LEMMA EncoderTakesIInv ==
  ASSUME NEW k \in Nat, Inv(k), EncoderStep, EncoderGetsBuf \/ EncoderDrains
  PROVE  IInv'
<1>1. /\ Types /\ Numbers /\ enc \in EncStates
      /\ queue \in Seq({"frame", "eos"}) /\ FramesFirst(queue, k) /\ queue # << >>
  BY TypesAreNumbers DEF Inv, Types, QueueInv, EncoderGetsBuf, EncoderDrains
<1>2. queue' = Tail(queue) /\ stream' = stream /\ failed' = failed
  BY DEF EncoderGetsBuf, EncoderDrains
<1> USE EncoderLeaves
\* j frames are left
<1>3. PICK j \in Nat : /\ FramesFirst(queue', j)
                       /\ \/ Head(queue) = "frame" /\ k > 0 /\ j = k - 1
                          \/ Head(queue) = "eos" /\ k = 0 /\ j = 0
  <2>1. CASE Head(queue) = "frame"
    <3>1. k > 0 /\ FramesFirst(Tail(queue), k - 1)
      BY <1>1, <2>1, TailOfFrames
    <3>2. PICK j \in Nat : j = k - 1
      BY <3>1
    <3> QED BY <1>2, <2>1, <3>1, <3>2
  <2>2. CASE Head(queue) # "frame"
    <3>1. Head(queue) = "eos" /\ k = 0 /\ FramesFirst(Tail(queue), 0)
      BY <1>1, <2>2, TailOfFrames
    <3> QED BY <1>2, <3>1
  <2> QED BY <2>1, <2>2
<1>4. Len(queue') = Len(queue) - 1 /\ queue' \in Seq({"frame", "eos"}) /\ Len(queue) \in Nat
  BY <1>1, <1>2, TailOfFrames
<1>5. k <= Len(queue) /\ (j < Len(queue') => k < Len(queue))
  BY <1>1, <1>3, <1>4 DEF FramesFirst
<1>6. Head(queue) = "eos" => k < Len(queue)
  BY <1>1, <1>3, <1>4, EmptySeq
<1>7. UNCHANGED <<Written, Muxed, Encoding, InEncoder>>
  BY <1>1, <1>2 DEF EncoderGetsBuf, EncoderDrains, Written, Muxed, Encoding, InEncoder, EncStates, One
<1>8. CASE EncoderGetsBuf
  <2>1. /\ enc.pc = "get" /\ enc.run /\ locked' = locked
        /\ \/ Head(queue) = "frame" /\ enc' = [enc EXCEPT !.pc = "encode", !.buf = "frame"]
           \/ Head(queue) = "eos" /\ enc' = [enc EXCEPT !.pc = "encode", !.buf = "eos"]
    BY <1>3, <1>8 DEF EncoderGetsBuf
  <2>2. /\ enc' \in EncStates /\ enc'.pc = "encode" /\ enc'.run
        /\ \/ Head(queue) = "frame" /\ enc'.buf = "frame"
           \/ Head(queue) = "eos" /\ enc'.buf = "eos"
    BY ONLY <1>1, <2>1 DEF EncStates
  <2>3. enc.buf = "none"
    BY <2>1 DEF QueueInv, Inv
  <2>4. Underway(j)' = Underway(k)
    BY <1>3, <2>2, <2>3 DEF Underway, One
  <2>5. Types'
    BY <1>1, <1>2, <1>4, <2>1, <2>2 DEF Types
  <2>6. StreamInv' /\ StagesInv'
    BY <1>2, <1>7, <2>1, <2>2 DEF StreamInv, StagesInv, Signalled, Inv
  <2>7. QueueInv(j)'
    BY <1>1, <1>3, <1>4, <1>5, <1>6, <2>2, Constants DEF QueueInv, Ended, Inv
  <2>8. EncoderInv(j)'
    BY <2>2 DEF EncoderInv
  <2>9. SurfacesInv(j)' /\ FramesInv(j)'
    BY <1>2, <1>7, <2>1, <2>4 DEF SurfacesInv, FramesInv, Signalled, Inv
  <2> QED BY <2>5, <2>6, <2>7, <2>8, <2>9 DEF IInv, Inv
<1>9. CASE EncoderDrains
  <2>1. /\ enc.pc = "drain" /\ enc' = enc
        /\ locked' = locked - One(Head(queue) = "frame")
    BY <1>9 DEF EncoderDrains, Recycle, One
  <2>2. ~enc.run /\ enc.buf = "none" /\ (~Signalled => k = 0)
    BY <2>1 DEF EncoderInv, QueueInv, Inv
  <2>3. /\ Underway(k) \in Nat /\ Encoding \in Nat
        /\ Underway(j)' = Underway(k) - One(Head(queue) = "frame")
    BY <1>1, <1>3, <2>1, Constants DEF Underway, Encoding, One, Numbers
  <2>4. One(Head(queue) = "frame") \in Nat /\ (~Signalled => One(Head(queue) = "frame") = 0)
    BY <1>3, <2>2 DEF One
  <2>5. Types'
    BY <1>1, <1>2, <1>4, <2>1, <2>4 DEF Types, Numbers
  <2>6. StreamInv' /\ StagesInv'
    BY <1>2, <1>7, <2>1 DEF StreamInv, StagesInv, Signalled, Inv
  <2>7. QueueInv(j)'
    BY <1>1, <1>3, <1>4, <1>5, <2>1, <2>2, Constants DEF QueueInv, Ended, Inv
  <2>8. EncoderInv(j)'
    BY <1>3, <1>7, <2>1, <2>2 DEF EncoderInv, Signalled, Inv
  <2>9. SurfacesInv(j)'
    BY <1>1, <1>2, <2>1, <2>3, <2>4, Constants DEF SurfacesInv, Inv, Numbers
  <2>10. FramesInv(j)'
    BY <1>1, <1>2, <1>7, <2>3, <2>4, SMTT(20) DEF FramesInv, Signalled, Inv, Numbers
  <2> QED BY <2>5, <2>6, <2>7, <2>8, <2>9, <2>10 DEF IInv, Inv
<1> QED BY <1>8, <1>9

\* The steps that drop the buffer in the encoder's hand, or only move on: the
\* first buffer is an EOS, InitEncoder fails, the queue is drained.
LEMMA EncoderControlIInv ==
  ASSUME NEW k \in Nat, Inv(k), EncoderStep,
         FirstBufIsEos \/ InitEncoderFails \/ EncoderExits
  PROVE  Inv(k)'
<1>1. Types /\ Numbers /\ enc \in EncStates
  BY TypesAreNumbers DEF Inv, Types
<1>2. queue' = queue /\ locked' = locked /\ stream' = stream
  BY DEF FirstBufIsEos, InitEncoderFails, EncoderExits
<1> USE EncoderLeaves
<1>3. \/ /\ enc.pc = "encode" /\ enc.buf = "eos" /\ failed' = failed
         /\ enc' = [enc EXCEPT !.pc = "get", !.buf = "none"]
      \/ /\ enc.pc = "encode" /\ enc.buf = "frame" /\ "encoder" \in failed'
         /\ enc' = [enc EXCEPT !.pc = "get", !.buf = "none"]
      \/ /\ enc.pc = "get" /\ ~enc.run /\ failed' = failed
         /\ enc' = [enc EXCEPT !.pc = "drain"]
      \/ /\ enc.pc = "drain" /\ queue = << >> /\ failed' = failed
         /\ enc' = [enc EXCEPT !.pc = "done"]
  BY DEF FirstBufIsEos, InitEncoderFails, EncoderExits, Fails
<1>4. /\ enc' \in EncStates /\ enc'.run = enc.run /\ InEncoder' = InEncoder
      /\ \/ enc.pc = "encode" /\ enc'.pc = "get" /\ enc'.buf = "none"
         \/ enc.pc = "get" /\ enc'.pc = "drain" /\ enc'.buf = enc.buf
         \/ enc.pc = "drain" /\ enc'.pc = "done" /\ enc'.buf = enc.buf
  BY ONLY <1>1, <1>3 DEF EncStates, InEncoder
<1>5. UNCHANGED <<Written, Muxed, Encoding>>
  BY <1>2, <1>4 DEF Written, Muxed, Encoding, One
<1>6. Types'
  BY <1>1, <1>2, <1>4 DEF Types
<1>7. StreamInv' /\ StagesInv'
  BY <1>2, <1>4, <1>5 DEF StreamInv, StagesInv, Signalled, Inv
<1>8. QueueInv(k)'
  BY <1>2, <1>4 DEF QueueInv, FramesFirst, Ended, Inv
<1>9. EncoderInv(k)'
  BY <1>2, <1>3, <1>4 DEF EncoderInv, Signalled, Inv
<1>10. /\ Underway(k) \in Nat /\ Encoding \in Nat
       /\ \/ Underway(k)' = Underway(k) /\ failed' = failed
          \/ Underway(k)' = Underway(k) - 1 /\ "encoder" \in failed'
  <2>1. Underway(k) \in Nat /\ Encoding \in Nat
    BY <1>1, Constants DEF Underway, Encoding, One, Numbers
  <2>2. CASE enc.pc = "encode" /\ enc.buf = "frame"
    <3>1. enc'.buf = "none" /\ "encoder" \in failed'
      BY <1>3, <1>4, <2>2
    <3>2. Underway(k)' = Underway(k) - 1
      BY <2>2, <3>1 DEF Underway, One
    <3> QED BY <2>1, <3>1, <3>2
  <2>3. CASE ~(enc.pc = "encode" /\ enc.buf = "frame")
    <3>1. (enc'.buf = "frame" <=> enc.buf = "frame") /\ failed' = failed
      BY <1>3, <1>4, <2>3
    <3>2. Underway(k)' = Underway(k)
      BY <3>1 DEF Underway
    <3> QED BY <2>1, <3>1, <3>2
  <2> QED BY <2>2, <2>3
<1>11. SurfacesInv(k)'
  BY <1>1, <1>2, <1>10, Constants DEF SurfacesInv, Inv, Numbers
<1>12. FramesInv(k)'
  BY <1>1, <1>5, <1>10 DEF FramesInv, Signalled, Inv, Numbers
<1> QED BY <1>6, <1>7, <1>8, <1>9, <1>11, <1>12 DEF Inv

\* EncodeFrameAsync of a frame or of the EOS buffer, and the block it gives out.
LEMMA EncoderEncodesIInv ==
  ASSUME NEW k \in Nat, Inv(k), EncoderStep,
         EncodeFrame \/ EncodeHeld \/ WriteBitStreamFrame \/ EncoderEos
  PROVE  Inv(k)'
<1>1. Types /\ Numbers /\ enc \in EncStates /\ stream \in StreamStates
  BY TypesAreNumbers DEF Inv, Types
<1>2. queue' = queue /\ failed' = failed
  BY DEF EncodeFrame, EncodeHeld, WriteBitStreamFrame, EncoderEos
<1> USE EncoderLeaves
\* by how much the frame in hand, the codec and the output change
<1>3. /\ enc' \in EncStates /\ stream' \in StreamStates
      /\ StreamInv' /\ EncoderInv(k)'
      /\ enc.pc # "done" /\ enc'.pc # "done"
      /\ enc'.buf = "eos" => enc.buf = "eos"
      /\ enc'.buf = "none" <=> enc'.pc \in {"get", "drain", "done"}
      /\ \/ /\ UNCHANGED <<locked, Written, Encoding, Underway(k)>>
         \/ /\ locked' = locked - 1 /\ Underway(k)' = Underway(k) - 1
            /\ \/ Signalled /\ UNCHANGED <<Written, Encoding>>
               \/ Written' = Written /\ Encoding' = Encoding + 1
               \/ Written' = Written + 1 /\ Encoding' = Encoding
         \/ /\ UNCHANGED <<locked, Underway(k)>>
            /\ Written' = Written + 1 /\ Encoding' = Encoding - 1
  <2>1. CASE EncodeFrame
    <3>1. enc.pc = "encode" /\ enc.buf = "frame" /\ stream' = stream
      BY <2>1 DEF EncodeFrame
    <3>2. UNCHANGED <<Written, Muxed>>
      BY <3>1 DEF Written, Muxed
    <3>3. CASE enc.run /\ enc.held = EncDelay
      <4>1. enc' = [enc EXCEPT !.pc = "write", !.init = TRUE] /\ locked' = locked
        BY <2>1, <3>3 DEF EncodeFrame
      <4>2. /\ enc' \in EncStates /\ enc'.pc = "write" /\ enc'.run = enc.run
            /\ enc'.buf = enc.buf /\ InEncoder' = InEncoder
        BY ONLY <1>1, <4>1 DEF EncStates, InEncoder
      <4>3. UNCHANGED <<Encoding, Underway(k)>>
        BY <3>1, <4>2 DEF Encoding, Underway, One
      <4>4. StreamInv' /\ EncoderInv(k)'
        BY <1>2, <3>1, <3>2, <3>3, <4>2 DEF StreamInv, EncoderInv, Signalled, Inv
      <4> QED BY <1>1, <3>1, <3>2, <4>1, <4>2, <4>3, <4>4
    <3>4. CASE enc.run /\ enc.held # EncDelay
      <4>1. PICK h \in 0 .. EncDelay : h = enc.held + 1
        BY <1>1, <3>4, Constants DEF InEncoder, Numbers
      <4>2. /\ enc' = [enc EXCEPT !.pc = "get", !.init = TRUE, !.buf = "none", !.held = h]
            /\ locked' = locked - 1
        BY <2>1, <3>1, <3>4, <4>1 DEF EncodeFrame, Recycle
      <4>3. /\ enc' \in EncStates /\ enc'.pc = "get" /\ enc'.run = enc.run
            /\ enc'.buf = "none" /\ InEncoder' = h
        BY ONLY <1>1, <4>2 DEF EncStates, InEncoder
      <4>4. Encoding' = Encoding + 1 /\ Underway(k)' = Underway(k) - 1
        <5>1. h = InEncoder + 1
          BY <4>1 DEF InEncoder
        <5> QED BY <1>1, <3>1, <4>3, <5>1, Constants DEF Encoding, Underway, One, Numbers
      <4>5. StreamInv' /\ EncoderInv(k)'
        BY <1>2, <3>1, <3>2, <3>4, <4>3 DEF StreamInv, EncoderInv, Signalled, Inv
      <4> QED BY <1>1, <3>1, <3>2, <4>2, <4>3, <4>4, <4>5
    <3>5. CASE ~enc.run
      <4>1. /\ enc' = [enc EXCEPT !.pc = "get", !.init = TRUE, !.buf = "none", !.held = @ + 0]
            /\ locked' = locked - 1
        BY <2>1, <3>1, <3>5 DEF EncodeFrame, Recycle
      <4>2. PICK h \in 0 .. EncDelay : h = enc.held + 0
        BY <1>1, Constants DEF InEncoder, Numbers
      <4>3. enc' = [enc EXCEPT !.pc = "get", !.init = TRUE, !.buf = "none", !.held = h]
        BY ONLY <4>1, <4>2
      <4>4. /\ enc' \in EncStates /\ enc'.pc = "get" /\ enc'.run = enc.run
            /\ enc'.buf = "none" /\ InEncoder' = h
        BY ONLY <1>1, <4>3 DEF EncStates, InEncoder
      <4>5. Encoding' = Encoding /\ Underway(k)' = Underway(k) - 1
        <5>1. h = InEncoder
          BY <1>1, <4>2, Constants DEF InEncoder, Numbers
        <5> QED BY <1>1, <3>1, <4>4, <5>1, Constants DEF Encoding, Underway, One, Numbers
      <4>6. Signalled
        BY <3>1, <3>5 DEF EncoderInv, Inv
      <4>7. StreamInv' /\ EncoderInv(k)'
        BY <1>2, <3>1, <3>2, <3>5, <4>4, <4>6 DEF StreamInv, EncoderInv, Signalled, Inv
      <4> QED BY <1>1, <3>1, <3>2, <4>1, <4>4, <4>5, <4>6, <4>7
    <3> QED BY <3>3, <3>4, <3>5
  <2>2. CASE EncodeHeld
    <3>1. PICK h \in 0 .. EncDelay : h = InEncoder - 1
      BY <1>1, <2>2, Constants DEF EncodeHeld, InEncoder, Numbers
    <3>2. /\ enc.pc = "encode" /\ enc.buf = "eos" /\ enc.run
          /\ enc' = [enc EXCEPT !.pc = "write", !.held = h]
          /\ stream' = stream /\ locked' = locked
      BY <2>2, <3>1 DEF EncodeHeld, InEncoder
    <3>3. /\ enc' \in EncStates /\ enc'.pc = "write" /\ enc'.run = enc.run
          /\ enc'.buf = enc.buf /\ InEncoder' = h
      BY ONLY <1>1, <3>2 DEF EncStates, InEncoder
    <3>4. UNCHANGED <<Written, Muxed>>
      BY <3>2 DEF Written, Muxed
    <3>5. UNCHANGED <<Encoding, Underway(k)>>
      BY <1>1, <3>1, <3>2, <3>3, Constants DEF Encoding, Underway, One, Numbers
    <3>6. StreamInv' /\ EncoderInv(k)'
      BY <1>2, <3>2, <3>3, <3>4 DEF StreamInv, EncoderInv, Signalled, Inv
    <3> QED BY <1>1, <3>2, <3>3, <3>4, <3>5, <3>6
  <2>3. CASE WriteBitStreamFrame
    <3>1. /\ enc.pc = "write" /\ stream' = [stream EXCEPT !.written = @ + 1]
          /\ \/ /\ enc.buf = "eos" /\ enc' = [enc EXCEPT !.pc = "encode"]
                /\ locked' = locked - 0
             \/ /\ enc.buf = "frame" /\ enc' = [enc EXCEPT !.pc = "get", !.buf = "none"]
                /\ locked' = locked - 1
      <4>1. enc.pc = "write" /\ enc.buf # "none"
        BY <2>3 DEF WriteBitStreamFrame, QueueInv, Inv
      <4>2. enc.buf \in {"eos", "frame"}
        BY <1>1, <4>1 DEF EncStates
      <4> QED BY <2>3, <4>1, <4>2 DEF WriteBitStreamFrame, Recycle
    <3>2. /\ stream' \in StreamStates /\ stream'.eos = stream.eos /\ stream'.deleted = stream.deleted
          /\ Written' = Written + 1 /\ Muxed' = Muxed
      BY ONLY <1>1, <3>1 DEF StreamStates, Written, Muxed
    <3>3. /\ enc' \in EncStates /\ enc'.run = enc.run /\ InEncoder' = InEncoder
          /\ \/ enc.buf = "eos" /\ enc'.buf = "eos" /\ enc'.pc = "encode" /\ locked' = locked - 0
             \/ enc.buf = "frame" /\ enc'.buf = "none" /\ enc'.pc = "get" /\ locked' = locked - 1
      BY ONLY <1>1, <3>1 DEF EncStates, InEncoder
    <3>4. \/ enc.buf = "eos" /\ locked' = locked /\ Encoding' = Encoding - 1 /\ Underway(k)' = Underway(k)
          \/ enc.buf = "frame" /\ locked' = locked - 1 /\ Encoding' = Encoding /\ Underway(k)' = Underway(k) - 1
      <4>1. CASE enc.buf = "eos"
        BY <1>1, <3>1, <3>3, <4>1, Constants DEF Encoding, Underway, One, Numbers
      <4>2. CASE enc.buf = "frame"
        BY <1>1, <3>1, <3>3, <4>2, Constants DEF Encoding, Underway, One, Numbers
      <4> QED BY <3>1, <4>1, <4>2
    <3>5. StreamInv'
      BY <1>1, <1>2, <3>1, <3>2, <3>3 DEF StreamInv, Inv, Numbers
    <3>6. EncoderInv(k)'
      BY <1>2, <3>1, <3>2, <3>3 DEF EncoderInv, Signalled, Inv
    <3> QED BY <3>1, <3>2, <3>3, <3>4, <3>5, <3>6
  <2>4. CASE EncoderEos
    <3>1. /\ enc.pc = "encode" /\ enc.buf = "eos" /\ locked' = locked
          /\ ~enc.run \/ enc.held = 0
          /\ stream' = [stream EXCEPT !.eos = TRUE]
          /\ enc' = [enc EXCEPT !.pc = "get", !.run = FALSE, !.buf = "none"]
      BY <2>4 DEF EncoderEos
    <3>2. /\ stream' \in StreamStates /\ stream'.eos /\ stream'.deleted = stream.deleted
          /\ UNCHANGED <<Written, Muxed>>
      BY ONLY <1>1, <3>1 DEF StreamStates, Written, Muxed
    <3>3. /\ enc' \in EncStates /\ enc'.pc = "get" /\ ~enc'.run /\ enc'.buf = "none"
          /\ InEncoder' = InEncoder
      BY ONLY <1>1, <3>1 DEF EncStates, InEncoder
    <3>4. UNCHANGED <<Encoding, Underway(k)>>
      BY <3>1, <3>3 DEF Encoding, Underway, One
    <3>5. StreamInv'
      BY <1>2, <3>2, <3>3 DEF StreamInv, Inv
    <3>6. Ended /\ k = 0 /\ (~Signalled => InEncoder = 0)
      BY <3>1 DEF QueueInv, EncoderInv, InEncoder, Inv
    <3>7. EncoderInv(k)'
      BY <1>2, <3>2, <3>3, <3>6 DEF EncoderInv, StagesInv, Ended, Signalled, Inv
    <3> QED BY <3>1, <3>2, <3>3, <3>4, <3>5, <3>7
  <2> QED BY <2>1, <2>2, <2>3, <2>4
<1>4. Types'
  BY <1>1, <1>2, <1>3 DEF Types, Numbers
<1>5. StagesInv'
  BY <1>3 DEF StagesInv, Signalled, Inv
<1>6. QueueInv(k)'
  BY <1>2, <1>3 DEF QueueInv, FramesFirst, Ended, Inv
<1>7. Underway(k) \in Nat /\ Encoding \in Nat
  BY <1>1, Constants DEF Underway, Encoding, One, Numbers
<1>8. SurfacesInv(k)'
  BY <1>1, <1>2, <1>3, <1>7, Constants DEF SurfacesInv, Inv, Numbers
<1>9. FramesInv(k)'
  BY <1>1, <1>2, <1>3, <1>7 DEF FramesInv, Signalled, Inv, Numbers
<1> QED BY <1>3, <1>4, <1>5, <1>6, <1>8, <1>9 DEF Inv

LEMMA EncoderIInv ==
  ASSUME NEW k \in Nat, Inv(k), EncoderStep
  PROVE  IInv'
BY EncoderTakesIInv, EncoderControlIInv, EncoderEncodesIInv
   DEF EncoderStep, Encoder, IInv

-----------------------------------------------------------------------------
(* The sink's thread: it changes sink, and stream.read, stream.eos and       *)
(* stream.deleted.                                                           *)

SinkStep == Sink \/ SinkFails

LEMMA SinkIInv ==
  ASSUME NEW k \in Nat, Inv(k), SinkStep
  PROVE  Inv(k)'
<1>1. Types /\ Numbers /\ sink \in SinkStates /\ stream \in StreamStates
  BY TypesAreNumbers DEF Inv, Types
<1>2. UNCHANGED <<reader, pool, dec, decoded, queue, locked, enc, main, handler, stoppedIn>>
  BY DEF SinkStep, Sink, SinkMuxes, ReadBlock, ReadSeesEos, ReadAtEos,
         SinkSeesEos, SinkAtEos, SinkExits, SinkFails
<1>3. UNCHANGED <<HasRead, Reading, Pushed, Consumed, Shown, Used, UsedNow,
                  InDecoder, InEncoder, Encoding, Underway(k)>>
  BY <1>2 DEF HasRead, Reading, Pushed, Consumed, Shown, Used, UsedNow,
              InDecoder, InEncoder, Encoding, Underway
<1>4. /\ sink' \in SinkStates /\ stream' \in StreamStates /\ Written' = Written
      /\ StreamInv'
      /\ sink'.exit = sink.exit /\ (sink.pc = "done" => sink'.pc = "done")
      /\ failed \subseteq failed' /\ failed' \subseteq Faults
      /\ failed' = {} => failed = {}
      /\ "encoder" \in failed' <=> "encoder" \in failed
  <2>0. failed \subseteq Faults /\ StreamInv
    BY <1>1 DEF Inv, Types
  <2>1. CASE SinkFails
    <3>1. /\ failed' = failed \cup {"sink"} /\ "sink" \in Faults
          /\ stream' = [stream EXCEPT !.eos = TRUE]
          /\ sink' = [sink EXCEPT !.pc = "exit"]
          /\ sink.pc \in {"read", "top"}
      BY <2>1 DEF SinkFails, Fails
    <3>2. /\ stream' \in StreamStates /\ stream'.eos /\ stream'.deleted = stream.deleted
          /\ Written' = Written /\ Muxed' = Muxed
      BY ONLY <1>1, <3>1 DEF StreamStates, Written, Muxed
    <3>3. sink' \in SinkStates /\ sink'.pc = "exit" /\ sink'.exit = sink.exit
      BY ONLY <1>1, <3>1 DEF SinkStates
    <3>4. StreamInv'
      BY <2>0, <3>1, <3>2, <3>3 DEF StreamInv
    <3> QED BY <2>0, <3>1, <3>2, <3>3, <3>4
  <2>2. CASE ReadBlock
    <3>1. /\ failed' = failed /\ sink.pc \in {"read", "block"} /\ Muxed < Written
          /\ stream' = [stream EXCEPT !.read = @ + 1]
          /\ sink' = [sink EXCEPT !.pc = "read"]
      BY <1>1, <2>2 DEF ReadBlock, BlockCount, Numbers, Muxed, Written
    <3>2. /\ stream' \in StreamStates /\ stream'.eos = stream.eos /\ stream'.deleted = stream.deleted
          /\ Written' = Written /\ Muxed' = Muxed + 1
      BY ONLY <1>1, <3>1 DEF StreamStates, Written, Muxed
    <3>3. sink' \in SinkStates /\ sink'.pc = "read" /\ sink'.exit = sink.exit
      BY ONLY <1>1, <3>1 DEF SinkStates
    <3>4. StreamInv'
      BY <1>1, <1>2, <2>0, <3>1, <3>2, <3>3 DEF StreamInv, Numbers
    <3> QED BY <2>0, <3>1, <3>2, <3>3, <3>4
  <2>3. CASE SinkExits
    <3>1. /\ failed' = failed
          /\ sink.pc = "exit" \/ (sink.pc = "top" /\ sink.exit)
          /\ stream' = [stream EXCEPT !.deleted = TRUE]
          /\ sink' = [sink EXCEPT !.pc = "done"]
      BY <2>3 DEF SinkExits
    <3>2. /\ stream' \in StreamStates /\ stream'.eos = stream.eos /\ stream'.deleted
          /\ Written' = Written /\ Muxed' = Muxed
      BY ONLY <1>1, <3>1 DEF StreamStates, Written, Muxed
    <3>3. sink' \in SinkStates /\ sink'.pc = "done" /\ sink'.exit = sink.exit
      BY ONLY <1>1, <3>1 DEF SinkStates
    <3>4. StreamInv'
      BY <1>2, <2>0, <3>1, <3>2, <3>3 DEF StreamInv
    <3> QED BY <2>0, <3>1, <3>2, <3>3, <3>4
  <2>4. CASE SinkMuxes \/ ReadSeesEos \/ ReadAtEos \/ SinkSeesEos \/ SinkAtEos
    <3>1. /\ failed' = failed /\ stream' = stream
          /\ \/ sink' = [sink EXCEPT !.pc = "read", !.muxing = TRUE] /\ sink.pc = "top"
             \/ sink' = [sink EXCEPT !.pc = "read?"] /\ sink.pc = "read" /\ stream.eos
             \/ sink' = [sink EXCEPT !.pc = "check"] /\ sink.pc = "read?"
             \/ sink' = [sink EXCEPT !.pc = "block"] /\ sink.pc = "read?"
             \/ sink' = [sink EXCEPT !.pc = "check?"] /\ sink.pc \in {"check", "top"} /\ stream.eos
             \/ sink' = [sink EXCEPT !.pc = "exit"] /\ sink.pc = "check?" /\ BlockCount = 0
             \/ sink' = [sink EXCEPT !.pc = "top"] /\ sink.pc = "check?"
      BY <2>4 DEF SinkMuxes, ReadSeesEos, ReadAtEos, SinkSeesEos, SinkAtEos
    <3>2. /\ sink' \in SinkStates /\ sink'.exit = sink.exit
          /\ \/ sink'.pc = "read" /\ sink.pc = "top"
             \/ sink'.pc = "read?" /\ sink.pc = "read" /\ stream.eos
             \/ sink'.pc \in {"check", "block"} /\ sink.pc = "read?"
             \/ sink'.pc = "check?" /\ sink.pc \in {"check", "top"} /\ stream.eos
             \/ sink'.pc = "exit" /\ sink.pc = "check?" /\ BlockCount = 0
             \/ sink'.pc = "top" /\ sink.pc = "check?"
      BY ONLY <1>1, <3>1 DEF SinkStates
    <3>3. Written' = Written /\ Muxed' = Muxed
      BY <3>1 DEF Written, Muxed
    <3>4. BlockCount = 0 => Muxed = Written
      BY <1>1 DEF BlockCount, Numbers, Muxed, Written
    <3>5. StreamInv'
      BY <1>2, <2>0, <3>1, <3>2, <3>3, <3>4 DEF StreamInv
    <3> QED BY <1>1, <2>0, <3>1, <3>2, <3>3, <3>5
  <2> QED BY <2>1, <2>2, <2>3, <2>4 DEF SinkStep, Sink
<1>5. Types'
  BY <1>1, <1>2, <1>4 DEF Types
<1>6. PoolInv' /\ DecodeInv'
  BY <1>2, <1>3 DEF PoolInv, DecodeInv, Inv
<1>7. StagesInv'
  BY <1>2, <1>4 DEF StagesInv, Signalled, Inv
<1>8. QueueInv(k)' /\ EncoderInv(k)'
  BY <1>2, <1>3 DEF QueueInv, EncoderInv, FramesFirst, Ended, Signalled, Inv
<1>9. SurfacesInv(k)' /\ FramesInv(k)'
  BY <1>2, <1>3, <1>4 DEF SurfacesInv, FramesInv, Signalled, Inv
<1> QED BY <1>4, <1>5, <1>6, <1>7, <1>8, <1>9 DEF Inv

-----------------------------------------------------------------------------
(* The main thread, and the signal handler on it.                            *)

MainStep == Main \/ Signal \/ Handler

LEMMA MainIInv ==
  ASSUME NEW k \in Nat, Inv(k), MainStep
  PROVE  Inv(k)'
<1>1. /\ Types /\ Numbers /\ reader \in ReaderStates /\ pool \in PoolStates
      /\ dec \in DecStates /\ enc \in EncStates /\ sink \in SinkStates
  BY TypesAreNumbers DEF Inv, Types
<1>2. UNCHANGED <<decoded, queue, locked, stream, failed>>
  BY DEF MainStep, Main, Signal, Handler, StopDecoder, StopEncoder, StopSink, SinkStopped
\* the flags that the handler clears, and nothing else of the threads
<1>3. /\ reader' \in ReaderStates /\ pool' \in PoolStates
      /\ dec' \in DecStates /\ enc' \in EncStates /\ sink' \in SinkStates
      /\ reader'.pc = reader.pc /\ dec'.pc = dec.pc /\ enc'.pc = enc.pc
      /\ sink'.pc = sink.pc /\ enc'.buf = enc.buf
      /\ (enc'.run => enc.run) /\ (sink.exit => sink'.exit)
      /\ UNCHANGED <<HasRead, Pushed, Consumed, Shown, Used, InDecoder, InEncoder>>
      /\ main' \in {"joinDecoder", "joinEncoder", "waitSink", "deletePipeline",
                    "joinReader", "finished"}
      /\ handler' \in {"idle", "joinReader", "joinDecoder", "joinEncoder",
                       "joinSink", "done"}
      /\ stoppedIn' \in {"none", "joinDecoder", "joinEncoder"}
      /\ Signalled => stoppedIn' = stoppedIn
      /\ StagesInv' /\ EncoderInv(k)'
  <2>0. /\ StagesInv /\ EncoderInv(k)
        /\ main \in {"joinDecoder", "joinEncoder", "waitSink", "deletePipeline",
                     "joinReader", "finished"}
        /\ handler \in {"idle", "joinReader", "joinDecoder", "joinEncoder",
                        "joinSink", "done"}
        /\ stoppedIn \in {"none", "joinDecoder", "joinEncoder"}
    BY <1>1 DEF Inv, Types
  <2> USE DEF HasRead, Pushed, Consumed, Shown, Used, InDecoder, InEncoder
  <2>1. CASE Main
    <3>1. /\ UNCHANGED <<reader, pool, dec, enc, sink, handler, stoppedIn>>
          /\ \/ main = "joinDecoder" /\ dec.pc = "done" /\ main' = "joinEncoder"
             \/ main = "joinEncoder" /\ enc.pc = "done" /\ main' = "waitSink"
             \/ main = "waitSink" /\ sink.pc = "done" /\ main' = "deletePipeline"
             \/ main = "deletePipeline" /\ main' = "joinReader"
             \/ main = "joinReader" /\ main' = "finished"
      BY <2>1 DEF Main, Join
    <3>2. StagesInv'
      BY <2>0, <3>1 DEF StagesInv, Signalled
    <3>3. EncoderInv(k)'
      BY <1>2, <2>0, <3>1 DEF EncoderInv, Signalled
    <3> QED BY <1>1, <2>0, <3>1, <3>2, <3>3
  <2>2. CASE Signal
    <3>1. /\ UNCHANGED <<dec, enc, sink, main>>
          /\ reader' = [reader EXCEPT !.run = FALSE] /\ pool' = [pool EXCEPT !.eof = TRUE]
          /\ handler = "idle" /\ handler' = "joinReader" /\ stoppedIn' = main
          /\ main \in {"joinDecoder", "joinEncoder"}
      BY <2>2 DEF Signal
    <3>2. /\ reader' \in ReaderStates /\ reader'.pc = reader.pc /\ reader'.count = reader.count
          /\ pool' \in PoolStates /\ pool'.pushed = pool.pushed /\ pool'.consumed = pool.consumed
      BY ONLY <1>1, <3>1 DEF ReaderStates, PoolStates
    <3>3. StagesInv'
      BY <2>0, <3>1 DEF StagesInv, Signalled
    <3>4. EncoderInv(k)'
      BY <1>2, <2>0, <3>1 DEF EncoderInv, StagesInv, Signalled
    <3> QED BY <1>1, <2>0, <3>1, <3>2, <3>3, <3>4 DEF StagesInv, Signalled
  <2>3. CASE StopDecoder
    <3>1. /\ UNCHANGED <<reader, pool, enc, sink, main, stoppedIn>>
          /\ dec' = [dec EXCEPT !.run = FALSE]
          /\ handler = "joinReader" /\ handler' = "joinDecoder"
      BY <2>3 DEF StopDecoder
    <3>2. /\ dec' \in DecStates /\ dec'.pc = dec.pc /\ ~dec'.run
          /\ dec'.snap = dec.snap /\ dec'.used = dec.used /\ dec'.held = dec.held
      BY ONLY <1>1, <3>1 DEF DecStates
    <3>3. StagesInv'
      BY <2>0, <3>1, <3>2 DEF StagesInv, Signalled
    <3>4. EncoderInv(k)'
      BY <1>2, <2>0, <3>1, <3>2 DEF EncoderInv, Signalled
    <3> QED BY <1>1, <2>0, <3>1, <3>2, <3>3, <3>4
  <2>4. CASE StopEncoder
    <3>1. /\ UNCHANGED <<reader, pool, dec, sink, main, stoppedIn>>
          /\ enc' = [enc EXCEPT !.run = FALSE]
          /\ handler = "joinDecoder" /\ handler' = "joinEncoder"
          /\ dec.pc = "done" \/ stoppedIn = "joinDecoder"
      BY <2>4 DEF StopEncoder, JoinReturns
    <3>2. /\ enc' \in EncStates /\ enc'.pc = enc.pc /\ ~enc'.run
          /\ enc'.buf = enc.buf /\ enc'.held = enc.held
      BY ONLY <1>1, <3>1 DEF EncStates
    <3>3. StagesInv'
      BY <2>0, <3>1, <3>2 DEF StagesInv, Signalled
    <3>4. EncoderInv(k)'
      BY <1>2, <2>0, <3>1, <3>2 DEF EncoderInv, StagesInv, Signalled
    <3> QED BY <1>1, <2>0, <3>1, <3>2, <3>3, <3>4
  <2>5. CASE StopSink
    <3>1. /\ UNCHANGED <<reader, pool, dec, enc, main, stoppedIn>>
          /\ sink' = [sink EXCEPT !.exit = TRUE]
          /\ handler = "joinEncoder" /\ handler' = "joinSink"
          /\ enc.pc = "done" \/ stoppedIn = "joinEncoder"
      BY <2>5 DEF StopSink, JoinReturns
    <3>2. sink' \in SinkStates /\ sink'.pc = sink.pc /\ sink'.exit
      BY ONLY <1>1, <3>1 DEF SinkStates
    <3>3. StagesInv'
      BY <2>0, <3>1, <3>2 DEF StagesInv, Signalled
    <3>4. EncoderInv(k)'
      BY <1>2, <2>0, <3>1, <3>2 DEF EncoderInv, Signalled
    <3> QED BY <1>1, <2>0, <3>1, <3>2, <3>3, <3>4
  <2>6. CASE SinkStopped
    <3>1. /\ UNCHANGED <<reader, pool, dec, enc, sink, main, stoppedIn>>
          /\ handler = "joinSink" /\ handler' = "done"
      BY <2>6 DEF SinkStopped
    <3>2. StagesInv'
      BY <2>0, <3>1 DEF StagesInv, Signalled
    <3>3. EncoderInv(k)'
      BY <1>2, <2>0, <3>1 DEF EncoderInv, Signalled
    <3> QED BY <1>1, <2>0, <3>1, <3>2, <3>3
  <2> QED BY <2>1, <2>2, <2>3, <2>4, <2>5, <2>6 DEF MainStep, Handler
<1>4. UNCHANGED <<Reading, UsedNow, Encoding, Underway(k), Written, Muxed>>
  BY <1>2, <1>3 DEF Reading, UsedNow, Encoding, Underway, Written, Muxed
<1>5. Types'
  BY <1>1, <1>2, <1>3 DEF Types
<1>6. PoolInv' /\ DecodeInv'
  BY <1>2, <1>3, <1>4 DEF PoolInv, DecodeInv, Inv
<1>7. StreamInv'
  BY <1>2, <1>3, <1>4 DEF StreamInv, Inv
<1>8. QueueInv(k)'
  BY <1>2, <1>3 DEF QueueInv, FramesFirst, Ended, Inv
<1>9. SurfacesInv(k)' /\ FramesInv(k)'
  BY <1>2, <1>3, <1>4 DEF SurfacesInv, FramesInv, Signalled, Inv
<1> QED BY <1>3, <1>5, <1>6, <1>7, <1>8, <1>9 DEF Inv

-----------------------------------------------------------------------------
LEMMA NextIInv == IInv /\ [Next]_vars => IInv'
<1> SUFFICES ASSUME IInv, [Next]_vars PROVE IInv'
  OBVIOUS
<1>1. PICK k \in Nat : Inv(k)
  BY DEF IInv
<1>2. CASE Next
  <2>1. \/ Reader \/ ReadFails \/ FilterFails
        \/ DecoderStep \/ EncoderStep \/ SinkStep \/ MainStep
    BY <1>2 DEF Next, Failure, DecoderStep, EncoderStep, SinkStep, MainStep
  <2> QED
    BY <1>1, <2>1, ReaderIInv, DecoderIInv, EncoderIInv, SinkIInv, MainIInv DEF IInv
<1>3. CASE UNCHANGED vars
  BY <1>3 DEF vars, IInv, Inv, Types, PoolInv, DecodeInv, StreamInv, StagesInv,
              QueueInv, SurfacesInv, FramesInv, EncoderInv, FramesFirst,
              HasRead, Pushed, Consumed, Shown, Used, InDecoder, InEncoder,
              Written, Muxed, Reading, UsedNow, Underway, Encoding, Ended, Signalled
<1> QED BY <1>2, <1>3

LEMMA SpecIInv == Spec => []IInv
BY InitIInv, NextIInv, PTL DEF Spec

-----------------------------------------------------------------------------
\* Every counter stays within its bounds: the pool, the pad's queue and the
\* decoder's surfaces never overflow, no more frames come out than packets went
\* in, and the sink never reads a block that was not written.
THEOREM SessionTypeOK == Spec => []TypeOK
<1>1. IInv => TypeOK
  <2> SUFFICES ASSUME NEW k \in Nat, Inv(k) PROVE TypeOK
    BY DEF IInv
  <2>1. Types /\ Numbers
    BY TypesAreNumbers DEF Inv
  <2>2. Reading \in {0, 1} /\ UsedNow \in Nat /\ Underway(k) \in Nat /\ Encoding \in Nat
    BY <2>1, Constants DEF Reading, UsedNow, Underway, Encoding, One, Numbers
  <2>3. /\ HasRead \in 0 .. Packets /\ Pushed \in 0 .. Packets /\ Consumed \in 0 .. Packets
        /\ Pushed - Consumed \in 0 .. PoolSize
    BY <2>1, <2>2, Constants DEF PoolInv, Inv, Numbers
  <2>4. decoded \in 0 .. Packets
    BY <2>1, <2>2, <2>3, Constants DEF PoolInv, DecodeInv, Inv, Numbers
  <2>5. Written \in 0 .. Packets /\ Muxed \in 0 .. Packets /\ Muxed <= Written
    BY <2>1, <2>2, <2>4, Constants DEF FramesInv, StreamInv, Inv, Numbers
  <2>6. locked \in 0 .. NumSurf
    BY <2>1, <2>2, Constants DEF SurfacesInv, Inv, Numbers
  <2>7. reader \in [pc : {"read", "push", "done"}, run : BOOLEAN, count : 0 .. Packets]
    BY <2>1, <2>3 DEF Types, ReaderStates, HasRead
  <2>8. pool \in [pushed : 0 .. Packets, consumed : 0 .. Packets, eof : BOOLEAN]
    BY <2>1, <2>3 DEF Types, PoolStates, Pushed, Consumed
  <2>9. stream \in [written : 0 .. Packets, read : 0 .. Packets, eos : BOOLEAN,
                    deleted : BOOLEAN]
    BY <2>1, <2>5 DEF Types, StreamStates, Written, Muxed
  <2>10. Len(queue) <= QueueSize
    BY DEF QueueInv, Inv
  <2> QED
    BY <2>1, <2>3, <2>4, <2>5, <2>6, <2>7, <2>8, <2>9, <2>10
       DEF TypeOK, Types, DecStates, EncStates, SinkStates, Pushed, Consumed, Written, Muxed
<1> QED BY <1>1, SpecIInv, PTL

\* In a session that nobody stopped and in which nothing failed, when main is
\* past waiting for the sink, every frame the decoder gave out has been muxed.
THEOREM FramesAreMuxed == Spec => []EveryDecodedFrameIsMuxed
<1>1. IInv => EveryDecodedFrameIsMuxed
  <2> SUFFICES ASSUME NEW k \in Nat, Inv(k), ~Signalled, failed = {},
                      main \notin {"joinDecoder", "joinEncoder", "waitSink"}
               PROVE  stream.read = decoded
    BY DEF IInv, EveryDecodedFrameIsMuxed
  <2>1. Types /\ Numbers
    BY TypesAreNumbers DEF Inv
  <2>2. dec.pc = "done" /\ enc.pc = "done" /\ sink.pc = "done" /\ ~sink.exit
    BY DEF StagesInv, Inv
  <2>3. Muxed = Written
    BY <2>2 DEF StreamInv, Inv
  <2>4. k = 0 /\ InEncoder = 0 /\ enc.buf = "none"
    BY <2>2 DEF EncoderInv, Inv
  <2>5. Underway(k) = 0 /\ Encoding = 0
    BY <2>2, <2>4 DEF Underway, Encoding, One
  <2>6. decoded = Underway(k) + Encoding + Written
    BY DEF FramesInv, Inv
  <2> QED BY <2>1, <2>3, <2>5, <2>6 DEF Muxed, Numbers
<1> QED BY <1>1, SpecIInv, PTL

\* The sink deletes the output stream only when the encoder is done with it.
THEOREM StreamIsKept == Spec => []StreamOutlivesEncoder
<1>1. IInv => StreamOutlivesEncoder
  <2> SUFFICES ASSUME NEW k \in Nat, Inv(k), stream.deleted, "sink" \notin failed,
                      stoppedIn # "joinEncoder"
               PROVE  enc.pc # "write" /\ ~(enc.pc = "encode" /\ enc.buf = "eos")
    BY DEF IInv, StreamOutlivesEncoder
  <2>1. sink.exit \/ stream.eos
    BY DEF StreamInv, Inv
  <2>2. enc.pc = "done" \/ enc.buf = "none"
    BY <2>1 DEF StreamInv, StagesInv, Inv
  <2> QED BY <2>2 DEF QueueInv, Inv
<1> QED BY <1>1, SpecIInv, PTL

\* When the pipeline is deleted no buffer is left in a queue and every surface
\* has come back.
THEOREM PipelineIsEmpty == Spec => []PipelineIsEmptyWhenDeleted
<1>1. IInv => PipelineIsEmptyWhenDeleted
  <2> SUFFICES ASSUME NEW k \in Nat, Inv(k), main = "deletePipeline",
                      stoppedIn # "joinDecoder", "encoder" \notin failed
               PROVE  queue = << >> /\ locked = 0
    BY DEF IInv, PipelineIsEmptyWhenDeleted
  <2>1. dec.pc = "done" /\ enc.pc = "done"
    BY DEF StagesInv, Inv
  <2>2. queue = << >>
    BY <2>1 DEF EncoderInv, Inv
  <2>3. k = 0 /\ enc.buf = "none"
    BY <2>1, <2>2 DEF QueueInv, FramesFirst, Inv
  <2>4. Underway(k) = 0
    BY <2>1, <2>3 DEF Underway, One
  <2> QED BY <2>2, <2>4 DEF SurfacesInv, Inv
<1> QED BY <1>1, SpecIInv, PTL
=============================================================================
