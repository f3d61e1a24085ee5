------------------------------ MODULE Decoder ------------------------------
(***************************************************************************)
(* DecoderElement with its surfaces, and FFmpegReader that feeds it: from  *)
(* a file through the memory pool, or from a network through a Stream that *)
(* the decoder empties into a pool of its own.  The subject is what        *)
(* Session leaves out: input whose size changes, for which the decoder is  *)
(* closed, its surfaces freed and allocated again; the file read several   *)
(* times; input that never shows a sequence header.                        *)
(*                                                                         *)
(* A unit is one coded picture with its number in the input.  Of pool and  *)
(* Stream only the order and the room matter here: MemPool has the bytes.  *)
(* A surface is its address; the one freed may be the next one allocated.  *)
(* A buffer downstream remembers of which allocation (gen) its surface is. *)
(***************************************************************************)
EXTENDS Integers, Sequences, SequencesExt, FiniteSets, FiniteSetsExt

CONSTANTS
  Films,         \* the inputs to consider, see FilmParameters
  PoolRoom,      \* bound: units the memory pool has room for
  DecSurfaces,   \* num_of_surf_ (the code: tens)
  Addresses,     \* bound: where a surface may be
  DecDelay,      \* pictures the codec holds before it gives one out
  PadRoom,       \* bound: places of the queue behind the decoder
  DecFaults      \* what may go wrong: members of FaultKinds; bound: one of them

\* "key1" and "key2" are pictures with a sequence header, of two sizes; "odd"
\* is one of a new size without a header.
FilmParameters ==
  [units : Seq({"key1", "key2", "p", "odd"}), rtsp : BOOLEAN, loops : Nat]

\* Reading, the bitstream filter, the set-up of the codec, a device that is
\* lost, one SyncOperation, surfaces that come back too late for a new set-up.
FaultKinds == {"read", "filter", "init", "device", "sync", "slow"}

ASSUME DecAssumption ==
  /\ \A film \in Films : film \in FilmParameters /\ (film.rtsp => film.loops = 0)
  /\ {PoolRoom, PadRoom, DecSurfaces} \subseteq Nat \ {0} /\ DecDelay \in Nat
  /\ DecSurfaces > DecDelay /\ 1 .. DecSurfaces \subseteq Addresses
  /\ Addresses \subseteq Nat \ {0}   \* 0 is no address
  /\ DecFaults \subseteq FaultKinds

VARIABLES
  film,      \* the input
  rpc,       \* ReadThread: "read", "push", "done"
  rrun,      \* its m_bIsRunning
  rat,       \* units read of the film, this time round
  rloop,     \* m_nCurrentLoopNum
  rnum,      \* history: units read
  netq,      \* m_stream: the units in it, and mEndOfStream
  mempool,   \* the pool: the units in it, and IsDataEof_
  dpc,       \* the decoder's thread, see DecTypeOK
  drun,      \* its is_running_
  size,      \* 0: codec_init_ is false; else the size the codec is set up for
  again,     \* the last status was MFX_ERR_INCOMPATIBLE_VIDEO_PARAM
  seen,      \* units UpdateBitStream found
  none,      \* GetBlockCount() was 0
  ended,     \* bEndOfDecoder
  took,      \* input_bs_.DataOffset, in units
  hand,      \* the surface the codec works into, or gave out, and its unit
  core,      \* the codec: surfaces in it, in order
  surfaces,  \* surface_pool_, {} when it is NULL
  gen,       \* history: how often it was allocated
  Locked,    \* Data.Locked by address
  padq,      \* the queue behind the decoder: "frame", "reset" and "eos" buffers
  out,       \* frames the next element holds
  peer,      \* the next element runs
  shown,     \* history: units handed to the next element, in order
  missed,    \* history: <<unit, why>> of those that never will be
  early,     \* history: the data was taken for ended when it was not
  dfault     \* history: what went wrong

readerVars == <<rpc, rrun, rat, rloop, rnum>>
input_bs_ == <<seen, none, ended, took>>
pictures == <<hand, core, surfaces, gen, Locked>>
downstream == <<padq, out, peer>>
decHistory == <<shown, missed, early>>
decVars == <<film, readerVars, netq, mempool, dpc, drun, size, again, input_bs_, pictures,
             downstream, decHistory, dfault>>

NoSurface == [addr |-> 0, unit |-> 0]
DecLeft == dpc \in {"done", "left", "crashed"}

DecInit ==
  /\ film \in Films
  /\ rpc = "read" /\ rrun = TRUE /\ rat = 0 /\ rloop = 0 /\ rnum = 0
  /\ netq = [data |-> << >>, eos |-> FALSE] /\ mempool = [data |-> << >>, eof |-> FALSE]
  /\ dpc = "top" /\ drun = TRUE /\ size = 0 /\ again = FALSE
  /\ seen = 0 /\ none = FALSE /\ ended = FALSE /\ took = 0
  /\ hand = NoSurface /\ core = << >> /\ surfaces = {} /\ gen = 0
  /\ Locked = [a \in Addresses |-> 0]
  /\ padq = << >> /\ out = {} /\ peer = TRUE
  /\ shown = << >> /\ missed = {} /\ early = FALSE /\ dfault = {}

DecFault(what) == dfault = {} /\ what \in DecFaults /\ dfault' = {what}

-----------------------------------------------------------------------------
(* FFmpegReader                                                            *)

\* mutant: a file's end is not marked in the pool.
EndOfStreamOnly == netq' = [netq EXCEPT !.eos = TRUE] /\ UNCHANGED mempool

EndOfData == netq' = [netq EXCEPT !.eos = TRUE] /\ mempool' = [mempool EXCEPT !.eof = @ \/ ~film.rtsp]

ReadNextFrame ==
  /\ rpc = "read" /\ rrun /\ rat < Len(film.units)
  /\ rpc' = "push" /\ rat' = rat + 1 /\ rnum' = rnum + 1
  /\ UNCHANGED <<film, rrun, rloop, netq, mempool, dpc, drun, size, again, input_bs_, pictures,
                 downstream, decHistory, dfault>>

\* A stream takes every unit, a pool those it has room for.
PushData ==
  /\ rpc = "push" /\ rpc' = "read"
  /\ LET unit == [kind |-> film.units[rat], num |-> rnum]
     IN  IF film.rtsp
         THEN netq' = [netq EXCEPT !.data = Append(@, unit)] /\ UNCHANGED mempool
         ELSE /\ Len(mempool.data) < PoolRoom
              /\ mempool' = [mempool EXCEPT !.data = Append(@, unit)] /\ UNCHANGED netq
  /\ early' = (early \/ ended)
  /\ UNCHANGED <<film, rrun, rat, rloop, rnum, dpc, drun, size, again, input_bs_, pictures,
                 downstream, shown, missed, dfault>>

\* The end of the file: reloadSource opens it again, or the data ends.
ReadEof ==
  /\ rpc = "read" /\ rrun /\ rat = Len(film.units)
  /\ IF rloop < film.loops
     THEN rloop' = rloop + 1 /\ rat' = 0 /\ UNCHANGED <<rrun, netq, mempool>>
     ELSE EndOfData /\ rrun' = FALSE /\ UNCHANGED <<rat, rloop>>
  /\ UNCHANGED <<film, rpc, rnum, dpc, drun, size, again, input_bs_, pictures, downstream,
                 decHistory, dfault>>

\* A read or a reload that fails marks the end, a bitstream filter that fails
\* does not.  The thread ends with either.
ReadFails ==
  /\ rpc = "read" /\ rrun /\ rpc' = "done"
  /\ \/ /\ DecFault("read") /\ EndOfData
        /\ rrun' = (rat = Len(film.units) /\ rloop < film.loops)   \* reload fails
     \/ DecFault("filter") /\ UNCHANGED <<rrun, netq, mempool>>
  /\ UNCHANGED <<film, rat, rloop, rnum, dpc, drun, size, again, input_bs_, pictures,
                 downstream, decHistory>>

ReadThreadOver ==
  /\ rpc = "read" /\ ~rrun /\ rpc' = "done"
  /\ UNCHANGED <<film, rrun, rat, rloop, rnum, netq, mempool, dpc, drun, size, again, input_bs_,
                 pictures, downstream, decHistory, dfault>>

\* FFmpegReader::stop: the end is marked before the thread has ended.
ReaderStop ==
  /\ rrun /\ rrun' = FALSE /\ EndOfData
  /\ UNCHANGED <<film, rpc, rat, rloop, rnum, dpc, drun, size, again, input_bs_, pictures,
                 downstream, decHistory, dfault>>

Reader == ReadNextFrame \/ PushData \/ ReadEof \/ ReadThreadOver

-----------------------------------------------------------------------------
(* The decoder's thread: the top of its loop, and closing the codec        *)

reader == <<film, readerVars, netq>>
Limit == 65536   \* Data.Locked has 16 bits
Lock(a, by) == Locked' = [Locked EXCEPT ![a] = (@ + by) % Limit]
Sent == {b \in ToSet(padq) : b.kind = "frame"} \cup out   \* buffers downstream

LoopTop ==
  /\ dpc = "top" /\ again' = FALSE
  /\ IF ~drun
     THEN dpc' = "exit" /\ UNCHANGED <<size, core, Locked>>
     ELSE IF again
     THEN /\ dpc' = "wait" /\ size' = 0 /\ core' = << >>
          /\ Locked' = [a \in Addresses |->
                         (Locked[a] - Cardinality({s \in ToSet(core) : s.addr = a})) % Limit]
     ELSE /\ dpc' = IF size = 0 THEN "move" ELSE "surface"
          /\ UNCHANGED <<size, core, Locked>>
  /\ UNCHANGED <<reader, mempool, drun, input_bs_, hand, surfaces, gen, downstream, decHistory,
                 dfault>>

\* mutant: one surface that came back is enough.
SomeReleased == \E a \in surfaces : Locked[a] = 0

AllReleased == \A a \in surfaces : Locked[a] = 0

\* Surfaces are freed once all of them are released, or after half a second.
\* The count that makes it half a second always runs: GetBufQueueSize is asked
\* of a source pad, whose queue is always empty.
WaitSurfaces ==
  /\ dpc = "wait"
  /\ IF ~drun
     THEN dpc' = "exit" /\ UNCHANGED <<surfaces, Locked, dfault>>
     ELSE /\ \/ AllReleased /\ UNCHANGED dfault
             \/ ~AllReleased /\ DecFault("slow")
          /\ dpc' = "move" /\ surfaces' = {} /\ Locked' = [a \in Addresses |-> 0]
  /\ UNCHANGED <<reader, mempool, drun, size, again, input_bs_, hand, core, gen, downstream,
                 decHistory>>

\* GetFreeSurfaceIndex takes the first that is free; it polls.
PickSurface ==
  /\ dpc = "surface"
  /\ IF ~drun
     THEN dpc' = "exit" /\ UNCHANGED hand
     ELSE /\ ~ \A a \in surfaces : Locked[a] # 0
          /\ dpc' = "move"
          /\ hand' = [addr |-> Min({a \in surfaces : Locked[a] = 0}), unit |-> 0]
  /\ UNCHANGED <<reader, mempool, drun, size, again, input_bs_, core, surfaces, gen, Locked,
                 downstream, decHistory, dfault>>

-----------------------------------------------------------------------------
(* UpdateBitStream                                                         *)

Found(pool) ==
  /\ seen' = Len(pool.data)
  /\ dpc' = IF size = 0 THEN "header" ELSE "look"

\* The size of the next block, the block, the size again and the end of the
\* stream are asked for in calls of their own, each with the lock of Stream.
MoveBlock ==
  /\ dpc = "move" /\ film.rtsp
  /\ IF Len(mempool.data) < PoolRoom /\ netq.data # << >>
     THEN /\ netq' = [netq EXCEPT !.data = Tail(@)]
          /\ mempool' = [mempool EXCEPT !.data = Append(@, Head(netq.data))] /\ UNCHANGED dpc
     ELSE dpc' = "count" /\ UNCHANGED <<netq, mempool>>
  /\ UNCHANGED <<film, readerVars, drun, size, again, input_bs_, pictures, downstream, decHistory,
                 dfault>>

CountBlocks ==
  /\ dpc = "count" /\ dpc' = "ask" /\ none' = (netq.data = << >>)
  /\ UNCHANGED <<reader, mempool, drun, size, again, seen, ended, took, pictures, downstream,
                 decHistory, dfault>>

AskEndOfStream ==
  /\ dpc = "ask"
  /\ mempool' = [mempool EXCEPT !.eof = @ \/ (none /\ netq.eos)]
  /\ Found(mempool)
  /\ UNCHANGED <<reader, drun, size, again, none, ended, took, pictures, downstream, decHistory,
                 dfault>>

UpdateBitStream ==
  /\ dpc = "move" /\ ~film.rtsp /\ Found(mempool)
  /\ UNCHANGED <<reader, mempool, drun, size, again, none, ended, took, pictures, downstream,
                 decHistory, dfault>>

\* UpdateMemPool, with which each round of the loop ends.
UpdateMemPool ==
  /\ dpc = "update" /\ dpc' = "top" /\ took' = 0
  /\ mempool' = [mempool EXCEPT !.data = SubSeq(@, took + 1, Len(@))]
  /\ UNCHANGED <<reader, drun, size, again, seen, none, ended, pictures, downstream, decHistory,
                 dfault>>

-----------------------------------------------------------------------------
(* The codec is external: it gives a picture out for each one it takes once *)
(* it holds DecDelay of them, and asks for data when there is none left.    *)

SizeOf(unit) == IF unit.kind = "key1" THEN 1 ELSE 2
IsKey(unit) == unit.kind \in {"key1", "key2"}

\* InitDecoder.  DecodeHeader goes over what comes before a sequence header.
\* The first surfaces may be anywhere, later ones where some of the first were.
DecodeHeader ==
  /\ dpc = "header"
  /\ LET units == SubSeq(mempool.data, 1, seen)
         first == {i \in 1 .. seen : IsKey(units[i])}
         over == IF first = {} THEN seen ELSE Min(first) - 1
     IN  /\ mempool' = [mempool EXCEPT !.data = SubSeq(@, over + 1, Len(@))]
         /\ missed' = missed \cup {<<units[i].num, "header">> : i \in 1 .. over}
         /\ IF first = {}
            THEN dpc' = "top" /\ UNCHANGED <<size, surfaces, gen, dfault>>
            ELSE \/ /\ DecFault("init") /\ dpc' = "left" /\ UNCHANGED <<size, surfaces, gen>>
                 \/ /\ dpc' = "surface" /\ size' = SizeOf(units[over + 1]) /\ gen' = gen + 1
                    /\ surfaces' \in IF gen = 0 THEN {1 .. DecSurfaces}
                                   ELSE kSubset(DecSurfaces, Addresses)
                    /\ UNCHANGED dfault
  /\ UNCHANGED <<reader, drun, again, input_bs_, hand, core, Locked, downstream, shown, early>>

Unit == Head(mempool.data)
Look == dpc = "look" /\ "device" \notin dfault
Flush == mempool.eof /\ ended
ToDecode == Look /\ ~Flush /\ seen > 0
SameSize == Unit.kind = "p" \/ (IsKey(Unit) /\ SizeOf(Unit) = size)

LookAgain ==
  /\ Look /\ ~Flush /\ seen = 0 /\ ~mempool.eof /\ dpc' = "top"
  /\ UNCHANGED <<reader, mempool, drun, size, again, input_bs_, pictures, downstream, decHistory,
                 dfault>>

\* An empty bitstream: the codec wants more data.  At the end of the data that
\* starts the flush, even if data came after UpdateBitStream looked for it.
WantsMoreData ==
  /\ Look /\ ~Flush /\ seen = 0 /\ mempool.eof
  /\ dpc' = "update" /\ ended' = TRUE
  /\ early' = (early \/ mempool.data # << >> \/ netq.data # << >>)
  /\ UNCHANGED <<reader, mempool, drun, size, again, seen, none, took, pictures, downstream, shown,
                 missed, dfault>>

GiveOut(held) ==
  /\ hand' = Head(held) /\ core' = Tail(held) /\ dpc' = "sync"

DecodeFrameAsync ==
  /\ ToDecode /\ SameSize /\ took' = 1
  /\ Lock(hand.addr, 1)
  /\ LET held == Append(core, [hand EXCEPT !.unit = Unit.num])
     IN  IF Len(held) > DecDelay
         THEN GiveOut(held)
         ELSE dpc' = "update" /\ core' = held /\ UNCHANGED hand
  /\ UNCHANGED <<reader, mempool, drun, size, again, seen, none, ended, surfaces, gen, downstream,
                 decHistory, dfault>>

FlushDecoder ==
  /\ Look /\ Flush
  /\ IF core = << >>
     THEN dpc' = "pushEos" /\ UNCHANGED <<hand, core>>
     ELSE GiveOut(core)
  /\ UNCHANGED <<reader, mempool, drun, size, again, input_bs_, surfaces, gen, Locked, downstream,
                 decHistory, dfault>>

\* mutant: the header is consumed before the codec is set up again.
PastHeader == 1

\* How much of the bitstream a new header uses up.
NewOffset == 0

\* What the codec holds is lost: one picture is fetched from it and dropped,
\* the rest goes with Close.  The header is left in the pool for InitDecoder.
NewSequenceHeader ==
  /\ ToDecode /\ ~SameSize /\ IsKey(Unit)
  /\ dpc' = "pushReset" /\ took' = NewOffset /\ again' = TRUE
  /\ missed' = missed \cup {<<s.unit, "reset">> : s \in ToSet(core)}
  /\ UNCHANGED <<reader, mempool, drun, size, seen, none, ended, pictures, downstream, shown, early,
                 dfault>>

SkipFrame ==
  /\ ToDecode /\ Unit.kind = "odd" /\ dpc' = "update" /\ took' = 1
  /\ missed' = missed \cup {<<Unit.num, "odd">>}
  /\ UNCHANGED <<reader, mempool, drun, size, again, seen, none, ended, pictures, downstream, shown,
                 early, dfault>>

\* A lost device: every call fails from now on, which the loop does not see.
DeviceFails ==
  /\ dpc = "look"
  /\ IF "device" \in dfault THEN dpc' = "update" /\ UNCHANGED dfault
     ELSE DecFault("device") /\ UNCHANGED dpc
  /\ UNCHANGED <<reader, mempool, drun, size, again, input_bs_, pictures, downstream, decHistory>>

SyncOperation ==
  /\ dpc = "sync"
  /\ \/ dpc' = "push" /\ UNCHANGED <<missed, Locked, dfault>>
     \/ /\ DecFault("sync") /\ dpc' = "update"
        /\ Lock(hand.addr, -1)
        /\ missed' = missed \cup {<<hand.unit, "sync">>}
  /\ UNCHANGED <<reader, mempool, drun, size, again, input_bs_, hand, core, surfaces, gen,
                 downstream, shown, early>>

-----------------------------------------------------------------------------
(* What the thread pushes, and its end                                     *)

Frame(b) == [kind |-> "frame", addr |-> b.addr, unit |-> b.unit, gen |-> gen]
Mark(what) == [kind |-> what, addr |-> 0, unit |-> 0, gen |-> gen]

\* PushBufToPeerPad waits for room as long as the next element runs, and gives
\* the buffer back when it does not.
PushFrame ==
  /\ dpc = "push" /\ (peer => Len(padq) < PadRoom) /\ dpc' = "update"
  /\ IF peer
     THEN /\ padq' = Append(padq, Frame(hand)) /\ shown' = Append(shown, hand.unit)
          /\ UNCHANGED <<Locked, missed>>
     ELSE /\ Lock(hand.addr, -1)
          /\ missed' = missed \cup {<<hand.unit, "gone">>} /\ UNCHANGED <<padq, shown>>
  /\ UNCHANGED <<reader, mempool, drun, size, again, input_bs_, hand, core, surfaces, gen, out, peer,
                 early, dfault>>

\* A buffer without a picture: before a new set-up, after the flush, and when
\* the thread was stopped.
PushMark(at, what, next) ==
  /\ dpc = at /\ (peer => Len(padq) < PadRoom) /\ dpc' = next
  /\ padq' = IF peer THEN Append(padq, Mark(what)) ELSE padq
  /\ UNCHANGED <<reader, mempool, drun, size, again, input_bs_, pictures, out, peer, decHistory,
                 dfault>>

\* Stopped after the flush, the thread sends the end of the stream twice.
AfterLoop ==
  /\ dpc = "exit" /\ drun' = FALSE
  /\ dpc' = IF drun THEN "done" ELSE "lastEos"
  /\ UNCHANGED <<reader, mempool, size, again, input_bs_, pictures, downstream, decHistory, dfault>>

\* BaseElement::Stop clears is_running_, then joins.
DecoderStop ==
  /\ drun /\ ~DecLeft /\ drun' = FALSE
  /\ UNCHANGED <<reader, mempool, dpc, size, again, input_bs_, pictures, downstream, decHistory,
                 dfault>>

DecoderThread ==
  \/ LoopTop \/ WaitSurfaces \/ PickSurface
  \/ MoveBlock \/ CountBlocks \/ AskEndOfStream \/ UpdateBitStream \/ UpdateMemPool
  \/ DecodeHeader \/ LookAgain \/ WantsMoreData \/ DecodeFrameAsync \/ FlushDecoder
  \/ NewSequenceHeader \/ SkipFrame \/ DeviceFails \/ SyncOperation \/ PushFrame
  \/ PushMark("pushReset", "reset", "update") \/ PushMark("pushEos", "eos", "exit")
  \/ PushMark("lastEos", "eos", "done") \/ AfterLoop

-----------------------------------------------------------------------------
(* The next element, as far as the decoder sees it                         *)

\* The end of the stream ends it.
PeerTakes ==
  /\ peer /\ padq # << >> /\ padq' = Tail(padq)
  /\ peer' = (Head(padq).kind # "eos")
  /\ out' = out \cup {b \in {Head(padq)} : b.kind = "frame"}
  /\ UNCHANGED <<reader, mempool, dpc, drun, size, again, input_bs_, pictures, decHistory, dfault>>

\* It is stopped; what is queued it holds until it gives it back.
PeerStops ==
  /\ peer /\ peer' = FALSE /\ padq' = << >> /\ out' = Sent
  /\ UNCHANGED <<reader, mempool, dpc, drun, size, again, input_bs_, pictures, decHistory, dfault>>

\* Recycle looks the surface up by its address: one that was freed meanwhile is
\* not found, or taken for one of the new ones; without a pool it crashes.
Recycle(b) ==
  /\ b \in out /\ out' = out \ {b}
  /\ dpc' = IF surfaces = {} THEN "crashed" ELSE dpc
  /\ IF b.addr \in surfaces THEN Lock(b.addr, -1) ELSE UNCHANGED Locked
  /\ UNCHANGED <<reader, mempool, drun, size, again, input_bs_, hand, core, surfaces, gen, padq, peer,
                 decHistory, dfault>>

PeerReturns == \E b \in out : Recycle(b)

DecoderNext ==
  /\ dpc # "crashed"
  /\ \/ Reader \/ ReadFails \/ ReaderStop \/ DecoderThread \/ DecoderStop
     \/ PeerTakes \/ PeerStops \/ PeerReturns

-----------------------------------------------------------------------------
(* Properties                                                              *)

DecTypeOK ==
  /\ film \in Films /\ rpc \in {"read", "push", "done"} /\ {rrun, drun, again, peer} \subseteq BOOLEAN
  /\ rat \in 0 .. Len(film.units) /\ rloop \in 0 .. film.loops /\ rnum \in Nat
  /\ dpc \in {"top", "wait", "surface", "move", "count", "ask", "header", "look", "sync", "push",
              "pushReset", "pushEos", "lastEos", "update", "exit", "left", "done", "crashed"}
  /\ size \in 0 .. 2 /\ seen \in 0 .. PoolRoom /\ took \in 0 .. 1
  /\ surfaces \subseteq Addresses /\ Locked \in [Addresses -> 0 .. Limit - 1]
  /\ Len(mempool.data) <= PoolRoom /\ Len(padq) <= PadRoom /\ Len(core) <= DecDelay
  /\ \A b \in Sent : b.addr \in Addresses /\ b.unit \in 1 .. rnum

Holders(a) ==
  Cardinality({s \in ToSet(core) : s.addr = a}) + Cardinality({b \in Sent : b.addr = a})
    + (IF dpc \in {"sync", "push"} /\ hand.addr = a THEN 1 ELSE 0)

\* Unless the wait for surfaces ran out of time: a surface is locked once for
\* each of its holders, no buffer with a freed surface is downstream, and one
\* that comes back finds its surface.
DecoderKeepsSurfaces ==
  "slow" \notin dfault =>
    /\ dpc # "crashed"
    /\ \A a \in Addresses : Locked[a] = Holders(a) /\ Locked[a] <= 1
    /\ \A b \in Sent : b.gen = gen /\ b.addr \in surfaces

KindOf(num) == film.units[((num - 1) % Len(film.units)) + 1]
Keys(nums) == {n \in nums : KindOf(n) \in {"key1", "key2"}}
NextKey(n) == Min(Keys({m \in 1 .. rnum : m > n}))

\* Units that left the decoder or never will, and those in between.
Gone == ToSet(shown) \cup {m[1] : m \in missed}
Unpushed == IF rpc = "push" THEN {rnum} ELSE {}
OnTheirWay ==
  Unpushed \cup {u.num : u \in ToSet(netq.data) \cup ToSet(mempool.data)}
    \cup {s.unit : s \in ToSet(core)} \cup (IF dpc \in {"sync", "push"} THEN {hand.unit} ELSE {})

\* Pictures leave the decoder once and in order.  None gets lost on its way
\* unless for the reason noted: it came before the first header, it was of a new
\* size without a header or at most DecDelay before a header of a new size, its
\* synchronisation failed, the next element was gone; and when the end of the
\* stream is sent none is on its way, unless the data was taken for ended too
\* early (UpdateBitStream, HandleProcessDecode).
FramesAreSent ==
  /\ \A i, j \in 1 .. Len(shown) : i < j => shown[i] < shown[j]
  /\ \A m \in missed :
       /\ m[1] \notin ToSet(shown)
       /\ m[2] = "header" => Keys(1 .. m[1]) = {}
       /\ m[2] = "odd" => KindOf(m[1]) = "odd"
       /\ m[2] = "reset" =>
            Cardinality({n \in m[1] .. NextKey(m[1]) - 1 : KindOf(n) # "odd"}) <= DecDelay
  /\ 1 .. rnum \subseteq Gone \cup OnTheirWay
  /\ dpc = "pushEos" /\ ~early => OnTheirWay = Unpushed

\* The next element hears of the end of the input, except: no header came, the
\* filter failed, the codec could not be set up, the device was lost, or the
\* wait for surfaces ran out of time.  A decoder told to stop always ends.
DecoderEnds ==
  /\ rpc = "done" ~> (dpc = "done" /\ ~peer) \/ Keys(1 .. rnum) = {}
                     \/ dfault \cap {"filter", "init", "device", "slow"} # {}
  /\ ~drun ~> DecLeft
=============================================================================
