------------------------------ MODULE MemPool ------------------------------
(***************************************************************************)
(* MemPool (libxcode/base/mem_pool.cpp): a ring of cache_buf_size_ bytes   *)
(* followed by padding_buf_size_ bytes.  The padding lets the writer run   *)
(* over the end of the ring and lets the reader see wrapped data as one    *)
(* flat piece of memory.  There is no lock.                                *)
(*                                                                         *)
(* Two threads: the writer is FFmpegReader::PushData, the reader is        *)
(* DecoderElement (UpdateBitStream, the decoder, UpdateMemPool).  Pointers *)
(* are offsets from cache_buf_.  A byte is its number in the stream, so    *)
(* that the reader can tell whether it sees the right one.                 *)
(*                                                                         *)
(* Each function loads the pointer the other thread moves.  An optimised   *)
(* build keeps it in a register; a debug build (-O0) loads it again at     *)
(* each use, which Reload = TRUE stands for.                               *)
(***************************************************************************)
EXTENDS Integers

CONSTANTS Size,      \* cache_buf_size_
          Padding,   \* padding_buf_size_
          Modulus,   \* 2^32: unsigned int
          Enough,    \* a view of so many bytes lets the decoder consume some
          MaxPacket, \* bound: bytes of a packet
          MaxBytes,  \* bound: bytes of the stream
          Reload     \* is a pointer loaded again at each use?

ASSUME MemPoolAssumption ==
  /\ Size \in Nat \ {0} /\ Padding \in Nat \ {0}   \* else init() refuses
  /\ Modulus \in Nat /\ Modulus > 2 * (Size + Padding)
  /\ Enough \in Nat \ {0} /\ MaxPacket \in Nat /\ MaxBytes \in Nat
  /\ Reload \in BOOLEAN

VARIABLES cache_buf_,     \* the bytes; 0 = never written
          rd_ptr_,        \* moved by the reader
          wr_ptr_,        \* moved by the writer
          mem_map_size_,  \* bytes of the start that are copied to the padding
          writer,         \* in PushData: pc, bytes left of the packet, the
                          \* rd_ptr_ it loaded, free bytes, bytes to copy
          reader,         \* in the decoder: pc, the wr_ptr_ it loaded,
                          \* fullness, and the length of its view at rd_ptr_
          nwritten,       \* history: bytes written
          nread           \* history: bytes consumed

vars == <<cache_buf_, rd_ptr_, wr_ptr_, mem_map_size_, writer, reader,
          nwritten, nread>>

Offsets == 0 .. Size + Padding - 1

Init == /\ cache_buf_ = [k \in Offsets |-> 0]
        /\ rd_ptr_ = 0
        /\ wr_ptr_ = 0
        /\ mem_map_size_ = 0
        /\ writer = [pc |-> "idle", pkt |-> 0, rd |-> 0, free |-> 0, n |-> 0]
        /\ reader = [pc |-> "compare", wr |-> 0, full |-> 0, len |-> 0]
        /\ nwritten = 0
        /\ nread = 0

-----------------------------------------------------------------------------
\* Unsigned subtraction.
Minus(a, b) == IF a >= b THEN a - b ELSE a - b + Modulus

Least(a, b) == IF a <= b THEN a ELSE b

\* The value of a pointer at its next use, given what was loaded before.
Again(loaded, current) == IF Reload THEN current ELSE loaded

\* GetBufFullness; `wraps' is the outcome of its comparison of the pointers.
Fullness(wraps, wr, rd) == IF wraps THEN Minus(wr + Size, rd) ELSE Minus(wr, rd)

\* mutant: the writer stops at the end of the ring.
FreeFlatUnpadded(free, wr, rd) ==
  IF wr >= rd THEN Least(free, Size - wr) ELSE free

\* The end of GetFreeFlatBufSize.
FreeFlat(free, wr, rd) ==
  IF wr >= rd THEN Least(free, Size + Padding - wr) ELSE free

\* memcpy of n bytes inside the buffer.
Copied(buf, to, from, n) ==
  [k \in Offsets |-> IF k \in to .. to + n - 1 THEN buf[from + (k - to)] ELSE buf[k]]

-----------------------------------------------------------------------------
(* The writer. *)

\* PushData is called with the next packet.
PushData(size) ==
  /\ writer.pc = "idle"
  /\ nwritten + size <= MaxBytes
  /\ writer' = [writer EXCEPT !.pc = "compare", !.pkt = size]
  /\ UNCHANGED <<cache_buf_, rd_ptr_, wr_ptr_, mem_map_size_, reader, nwritten,
                 nread>>

\* GetFreeFlatBufSize > GetFreeBufSize > GetBufFullness: wr_ptr_ >= rd_ptr_.
WriterCompares ==
  /\ writer.pc = "compare"
  /\ writer' = [writer EXCEPT !.pc = "subtract", !.rd = rd_ptr_]
  /\ UNCHANGED <<cache_buf_, rd_ptr_, wr_ptr_, mem_map_size_, reader, nwritten,
                 nread>>

\* ... the fullness and GetFreeBufSize.
WriterSubtracts ==
  /\ writer.pc = "subtract"
  /\ LET rd == Again(writer.rd, rd_ptr_)
         fullness == Fullness(wr_ptr_ < writer.rd, wr_ptr_, rd)
     IN writer' = [writer EXCEPT !.pc = "flat", !.rd = rd,
                                 !.free = Minus(Minus(Size, fullness), 1)]
  /\ UNCHANGED <<cache_buf_, rd_ptr_, wr_ptr_, mem_map_size_, reader, nwritten,
                 nread>>

\* mutant: the free size of the ring, not of a flat piece.
WriterTakesCircular ==
  /\ writer.pc = "flat"
  /\ LET n == Least(writer.pkt, writer.free)
     IN writer' = [writer EXCEPT !.pc = IF n = 0 THEN "compare" ELSE "copy", !.n = n]
  /\ UNCHANGED <<cache_buf_, rd_ptr_, wr_ptr_, mem_map_size_, reader, nwritten,
                 nread>>

\* ... the flat size, its own comparison made with the pointer loaded before
\* or with a new one.  As much of the packet as fits is copied; without room
\* PushData sleeps and tries again.
WriterTakesFlat ==
  /\ writer.pc = "flat"
  /\ \E rd \in {writer.rd, rd_ptr_} :
       LET n == Least(writer.pkt, FreeFlat(writer.free, wr_ptr_, rd))
       IN writer' = [writer EXCEPT !.pc = IF n = 0 THEN "compare" ELSE "copy", !.n = n]
  /\ UNCHANGED <<cache_buf_, rd_ptr_, wr_ptr_, mem_map_size_, reader, nwritten,
                 nread>>

\* memcpy(mempool_wrptr, buffer + writedSize, copySize)
WriterCopies ==
  /\ writer.pc = "copy"
  /\ cache_buf_' = [k \in Offsets |->
                      IF k \in wr_ptr_ .. wr_ptr_ + writer.n - 1
                      THEN nwritten + 1 + (k - wr_ptr_) ELSE cache_buf_[k]]
  /\ writer' = [writer EXCEPT !.pc = "update"]
  /\ UNCHANGED <<rd_ptr_, wr_ptr_, mem_map_size_, reader, nwritten, nread>>

\* The pointer has moved: the next piece of the packet.
Written == /\ nwritten' = nwritten + writer.n
           /\ writer' = [writer EXCEPT !.pkt = @ - writer.n,
                           !.pc = IF writer.pkt = writer.n THEN "idle" ELSE "compare"]

\* UpdateWritePtrCopyData: what ran over the end of the ring is copied to its
\* start before the pointer moves.  If there is no longer room it returns
\* MEM_POOL_RETVAL_OVERSTEP, which PushData ignores: the bytes are lost.
UpdateWritePtrCopyData ==
  /\ writer.pc = "update"
  /\ LET fullness == Fullness(wr_ptr_ < rd_ptr_, wr_ptr_, rd_ptr_)
         free == FreeFlat(Minus(Minus(Size, fullness), 1), wr_ptr_, rd_ptr_)
         wrap_size == wr_ptr_ + writer.n - Size
     IN \/ /\ writer.n > free
           /\ writer' = [writer EXCEPT !.pc = "lost"]
           /\ UNCHANGED <<cache_buf_, wr_ptr_, nwritten>>
        \/ /\ writer.n <= free
           /\ wrap_size <= 0
           /\ wr_ptr_' = wr_ptr_ + writer.n
           /\ Written
           /\ UNCHANGED cache_buf_
        \/ /\ writer.n <= free
           /\ wrap_size > 0
           /\ cache_buf_' = IF wrap_size < Size THEN Copied(cache_buf_, 0, Size, wrap_size)
                                               ELSE cache_buf_
           /\ writer' = [writer EXCEPT !.pc = "wrap"]
           /\ UNCHANGED <<wr_ptr_, nwritten>>
  /\ UNCHANGED <<rd_ptr_, mem_map_size_, reader, nread>>

WriterWraps ==
  /\ writer.pc = "wrap"
  /\ wr_ptr_' = wr_ptr_ + writer.n - Size
  /\ Written
  /\ UNCHANGED <<cache_buf_, rd_ptr_, mem_map_size_, reader, nread>>

WriterStep == \/ WriterCompares \/ WriterSubtracts \/ WriterTakesFlat
              \/ WriterCopies \/ UpdateWritePtrCopyData \/ WriterWraps

-----------------------------------------------------------------------------
(* The reader. *)

\* UpdateBitStream: GetFlatBufFullness > GetBufFullness: wr_ptr_ >= rd_ptr_.
ReaderCompares ==
  /\ reader.pc = "compare"
  /\ reader' = [reader EXCEPT !.pc = "subtract", !.wr = wr_ptr_]
  /\ UNCHANGED <<cache_buf_, rd_ptr_, wr_ptr_, mem_map_size_, writer, nwritten,
                 nread>>

ReaderSubtracts ==
  /\ reader.pc = "subtract"
  /\ LET wr == Again(reader.wr, wr_ptr_)
     IN reader' = [reader EXCEPT !.pc = "flat", !.wr = wr,
                                 !.full = Fullness(reader.wr < rd_ptr_, wr, rd_ptr_)]
  /\ UNCHANGED <<cache_buf_, rd_ptr_, wr_ptr_, mem_map_size_, writer, nwritten,
                 nread>>

\* MapWrappedBuffer: extend the copy of the start of the ring in the padding.
MapWrappedBuffer(wr) ==
  LET mapped == Least(wr, Padding)
  IN IF mem_map_size_ < mapped
     THEN /\ cache_buf_' = Copied(cache_buf_, Size + mem_map_size_, mem_map_size_,
                                  mapped - mem_map_size_)
          /\ mem_map_size_' = mapped
     ELSE UNCHANGED <<cache_buf_, mem_map_size_>>

\* ... the rest of GetFlatBufFullness.  MapWrappedBuffer works with the
\* pointer loaded before or with a new one.
ReaderMaps ==
  /\ reader.pc = "flat"
  /\ LET wr == Again(reader.wr, wr_ptr_)
     IN \/ /\ wr >= rd_ptr_
           /\ reader' = [reader EXCEPT !.pc = "view", !.len = reader.full]
           /\ UNCHANGED <<cache_buf_, mem_map_size_>>
        \/ /\ wr < rd_ptr_
           /\ \E again \in {wr, wr_ptr_} : MapWrappedBuffer(again)
           /\ reader' = [reader EXCEPT !.pc = "view",
                           !.len = IF wr > Padding THEN Minus(reader.full + Padding, wr)
                                                   ELSE reader.full]
  /\ UNCHANGED <<rd_ptr_, wr_ptr_, writer, nwritten, nread>>

\* mutant: the copy in the padding is never invalidated.
UpdateReadPtrKeepsMap(advance) ==
  /\ reader.pc = "view"
  /\ advance <= Fullness(wr_ptr_ < rd_ptr_, wr_ptr_, rd_ptr_)
  /\ rd_ptr_' = IF rd_ptr_ + advance <= Size THEN rd_ptr_ + advance
                                             ELSE rd_ptr_ + advance - Size
  /\ reader' = [reader EXCEPT !.pc = "compare"]
  /\ nread' = nread + advance
  /\ UNCHANGED <<cache_buf_, wr_ptr_, mem_map_size_, writer, nwritten>>

\* mutant: the read pointer does not wrap.
UpdateReadPtrUnwrapped(advance) ==
  /\ reader.pc = "view"
  /\ advance <= Fullness(wr_ptr_ < rd_ptr_, wr_ptr_, rd_ptr_)
  /\ rd_ptr_' = rd_ptr_ + advance
  /\ reader' = [reader EXCEPT !.pc = "compare"]
  /\ nread' = nread + advance
  /\ UNCHANGED <<cache_buf_, wr_ptr_, mem_map_size_, writer, nwritten>>

\* UpdateMemPool: the decoder has read the view and consumed `advance' bytes
\* of it.  More than the pool holds is an assertion failure.
UpdateReadPtr(advance) ==
  /\ reader.pc = "view"
  /\ IF advance <= Fullness(wr_ptr_ < rd_ptr_, wr_ptr_, rd_ptr_)
     THEN /\ IF rd_ptr_ + advance <= Size
             THEN /\ rd_ptr_' = rd_ptr_ + advance
                  /\ UNCHANGED mem_map_size_
             ELSE /\ rd_ptr_' = rd_ptr_ + advance - Size
                  /\ mem_map_size_' = 0
          /\ reader' = [reader EXCEPT !.pc = "compare"]
          /\ nread' = nread + advance
     ELSE /\ reader' = [reader EXCEPT !.pc = "overstep"]
          /\ UNCHANGED <<rd_ptr_, mem_map_size_, nread>>
  /\ UNCHANGED <<cache_buf_, wr_ptr_, writer, nwritten>>

\* A view of Enough bytes holds something the decoder consumes.
Decode == \E advance \in 0 .. reader.len :
            (reader.len >= Enough => advance > 0) /\ UpdateReadPtr(advance)

ReaderStep == ReaderCompares \/ ReaderSubtracts \/ ReaderMaps \/ Decode

-----------------------------------------------------------------------------
Next == (\E size \in 1 .. MaxPacket : PushData(size)) \/ WriterStep \/ ReaderStep

Spec == Init /\ [][Next]_vars

\* Both threads keep running; nobody is obliged to bring another packet.
FairSpec == Spec /\ WF_vars(WriterStep) /\ WF_vars(ReaderStep)

-----------------------------------------------------------------------------
Words == 0 .. Modulus - 1

TypeOK ==
  /\ cache_buf_ \in [Offsets -> Nat]
  /\ rd_ptr_ \in 0 .. Size
  /\ wr_ptr_ \in 0 .. Size
  /\ mem_map_size_ \in 0 .. Padding
  /\ writer \in [pc : {"idle", "compare", "subtract", "flat", "copy", "update",
                       "wrap", "lost"},
                 pkt : Nat, rd : 0 .. Size, free : Words, n : Nat]
  /\ reader \in [pc : {"compare", "subtract", "flat", "view", "overstep"},
                 wr : 0 .. Size, full : Words, len : Words]
  /\ nwritten \in Nat
  /\ nread \in Nat

\* What the decoder is given is the next piece of the stream and stays so while
\* it decodes, although the writer goes on writing, wraps and copies, and
\* although part of the view may be a copy made piece by piece at several calls.
FlatViewIsStream ==
  reader.pc = "view" =>
    /\ reader.len <= nwritten - nread
    /\ \A i \in 0 .. reader.len - 1 : cache_buf_[rd_ptr_ + i] = nread + 1 + i

\* The results PushData and UpdateMemPool ignore are always SUCCESS: the room
\* found by GetFreeFlatBufSize is still there after the copy, and the decoder
\* never consumes what is not there.
NeverOverstep == writer.pc # "lost" /\ reader.pc # "overstep"

\* PushData returns: if a view of Padding bytes always lets the decoder go on,
\* writer and reader do not end up waiting for each other, wherever the
\* pointers are.
PushDataReturns == writer.pc # "idle" ~> writer.pc = "idle"

\* mem_pool.h:105, of GetBufFullness: "Return the data amount in the buf".
FullnessIsDataAmount == reader.pc = "flat" => reader.full <= nwritten - nread
=============================================================================
