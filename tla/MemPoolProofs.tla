--------------------------- MODULE MemPoolProofs ---------------------------
(***************************************************************************)
(* MemPool, in an optimised build (Reload = FALSE): for pools, paddings,   *)
(* packets and streams of every size, what the decoder sees is the stream  *)
(* and no call of the pool fails.                                          *)
(***************************************************************************)
EXTENDS MemPool, TLAPS

\* The bytes between two pointers.
Used(wr, rd) == IF wr >= rd THEN wr - rd ELSE wr + Size - rd

\* Where the i-th unread byte is.
At(rd, i) == IF rd + i < Size THEN rd + i ELSE rd + i - Size

WriterStates == [pc : {"idle", "compare", "subtract", "flat", "copy", "update", "wrap"},
                 pkt : Nat, rd : 0 .. Size, free : 0 .. Size, n : Nat]
ReaderStates == [pc : {"compare", "subtract", "flat", "view"},
                 wr : 0 .. Size, full : 0 .. Size, len : 0 .. Size + Padding]

Types ==
  /\ cache_buf_ \in [Offsets -> Nat]
  /\ rd_ptr_ \in 0 .. Size
  /\ wr_ptr_ \in 0 .. Size
  /\ mem_map_size_ \in 0 .. Padding
  /\ writer \in WriterStates
  /\ reader \in ReaderStates
  /\ nwritten \in Nat
  /\ nread \in Nat

\* The ring holds the unread bytes, in order; the padding holds copies of the
\* first mem_map_size_ bytes of the ring, and only while the writer has wrapped.
Data ==
  /\ nwritten - nread = Used(wr_ptr_, rd_ptr_)
  /\ Used(wr_ptr_, rd_ptr_) <= Size - 1
  /\ \A i \in 0 .. Used(wr_ptr_, rd_ptr_) - 1 : cache_buf_[At(rd_ptr_, i)] = nread + 1 + i
  /\ IF wr_ptr_ < rd_ptr_ THEN mem_map_size_ <= wr_ptr_ ELSE mem_map_size_ = 0
  /\ \A k \in 0 .. mem_map_size_ - 1 : cache_buf_[Size + k] = cache_buf_[k]

\* The rd_ptr_ the writer has loaded is not ahead of the real one.
OldRead(rd) == /\ Used(wr_ptr_, rd_ptr_) <= Used(wr_ptr_, rd)
               /\ Used(wr_ptr_, rd) <= Size - 1
               /\ wr_ptr_ >= rd => wr_ptr_ >= rd_ptr_

\* n bytes can be written at wr_ptr_.
RoomFor(n) == /\ n <= Size - 1 - Used(wr_ptr_, rd_ptr_)
              /\ wr_ptr_ >= rd_ptr_ => n <= Size + Padding - wr_ptr_

WriterInv ==
  /\ writer.pc \in {"subtract", "flat"} => OldRead(writer.rd)
  /\ writer.pc = "flat" => writer.free = Size - 1 - Used(wr_ptr_, writer.rd)
  /\ writer.pc \in {"copy", "update", "wrap"} => writer.n <= writer.pkt /\ RoomFor(writer.n)
  /\ writer.pc = "update" =>
       \A k \in wr_ptr_ .. wr_ptr_ + writer.n - 1 : cache_buf_[k] = nwritten + 1 + (k - wr_ptr_)
  /\ writer.pc = "wrap" =>
       /\ wr_ptr_ >= rd_ptr_
       /\ wr_ptr_ + writer.n > Size
       /\ \A k \in wr_ptr_ .. Size - 1 : cache_buf_[k] = nwritten + 1 + (k - wr_ptr_)
       /\ \A k \in 0 .. wr_ptr_ + writer.n - Size - 1 :
            cache_buf_[k] = nwritten + 1 + (Size - wr_ptr_) + k

\* The wr_ptr_ the reader has loaded is not ahead of the real one.
OldWrite(wr) == /\ Used(wr, rd_ptr_) <= Used(wr_ptr_, rd_ptr_)
                /\ wr < rd_ptr_ => wr_ptr_ < rd_ptr_

ReaderInv ==
  /\ reader.pc \in {"subtract", "flat"} => OldWrite(reader.wr)
  /\ reader.pc = "flat" => reader.full = Used(reader.wr, rd_ptr_)
  /\ reader.pc = "view" => /\ reader.len <= Used(wr_ptr_, rd_ptr_)
                           /\ rd_ptr_ + reader.len <= Size + mem_map_size_

IInv == Types /\ Data /\ WriterInv /\ ReaderInv

-----------------------------------------------------------------------------
\* GetBufFullness computes the bytes between the pointers.
LEMMA FullnessIsUsed ==
  ASSUME NEW wr \in 0 .. Size, NEW rd \in 0 .. Size
  PROVE  /\ Fullness(wr < rd, wr, rd) = Used(wr, rd)
         /\ Used(wr, rd) \in 0 .. Size
BY MemPoolAssumption DEF Fullness, Used, Minus

\* Init holds the invariant.
LEMMA InitIInv == Init => IInv
BY MemPoolAssumption
   DEF Init, IInv, Types, Data, WriterInv, ReaderInv, WriterStates, ReaderStates,
       Offsets, Used, At, OldRead, OldWrite, RoomFor

\* The writer looks for room.
LEMMA WriterLooksIInv ==
  ASSUME Types, Data, WriterInv, ReaderInv, Reload = FALSE,
         \/ \E size \in 1 .. MaxPacket : PushData(size)
         \/ WriterCompares \/ WriterSubtracts \/ WriterTakesFlat
  PROVE  IInv'
<1> USE MemPoolAssumption DEF IInv
<1>0. /\ rd_ptr_ \in 0 .. Size /\ wr_ptr_ \in 0 .. Size /\ mem_map_size_ \in 0 .. Padding
      /\ writer.pkt \in Nat /\ writer.rd \in 0 .. Size /\ writer.free \in 0 .. Size
      /\ writer.n \in Nat
      /\ reader.wr \in 0 .. Size /\ reader.full \in 0 .. Size
      /\ reader.len \in 0 .. Size + Padding
      /\ nwritten \in Nat /\ nread \in Nat
  BY DEF Types, WriterStates, ReaderStates
<1> USE <1>0
<1>1. CASE \E size \in 1 .. MaxPacket : PushData(size)
  <2>1. PICK size \in 1 .. MaxPacket : PushData(size)
    BY <1>1
  <2>2. writer' \in WriterStates /\ writer'.pc = "compare"
    <3>1. size \in Nat
      OBVIOUS
    <3>2. writer' = [writer EXCEPT !.pc = "compare", !.pkt = size]
      BY <2>1 DEF PushData
    <3>3. writer \in WriterStates
      BY DEF Types, WriterStates
    <3> QED
      BY ONLY <3>1, <3>2, <3>3 DEF WriterStates
  <2>3. Types'
    BY <2>1, <2>2 DEF PushData, Types, WriterStates
  <2> QED
    BY <2>1, <2>2, <2>3 DEF PushData, Data, WriterInv, ReaderInv, Used, At, OldWrite
<1>2. CASE WriterCompares
  <2>1. Types' /\ writer'.pc = "subtract" /\ writer'.rd = rd_ptr_
    BY <1>2 DEF WriterCompares, Types, WriterStates
  <2> QED
    BY <1>2, <2>1 DEF WriterCompares, Data, WriterInv, ReaderInv, Used, At,
                      OldRead, OldWrite
<1>3. CASE WriterSubtracts
  <2>1. Used(wr_ptr_, writer.rd) \in 0 .. Size - 1
    BY <1>3, FullnessIsUsed DEF WriterSubtracts, WriterInv, OldRead
  <2>2. /\ writer'.rd = writer.rd
        /\ writer'.free = Size - 1 - Used(wr_ptr_, writer.rd)
        /\ writer'.pc = "flat"
        /\ writer' \in WriterStates
    <3>1. Minus(Minus(Size, Used(wr_ptr_, writer.rd)), 1) = Size - 1 - Used(wr_ptr_, writer.rd)
      BY <2>1 DEF Minus
    <3>2. Fullness(wr_ptr_ < writer.rd, wr_ptr_, writer.rd) = Used(wr_ptr_, writer.rd)
      BY FullnessIsUsed
    <3>3. writer' = [writer EXCEPT !.pc = "flat", !.rd = writer.rd,
                                   !.free = Size - 1 - Used(wr_ptr_, writer.rd)]
      BY <1>3, <3>1, <3>2 DEF WriterSubtracts, Again
    <3>4. writer \in WriterStates /\ Size - 1 - Used(wr_ptr_, writer.rd) \in 0 .. Size
      BY <2>1 DEF Types, WriterStates
    <3> QED
      BY ONLY <3>3, <3>4 DEF WriterStates
  <2>3. Types'
    BY <1>3, <2>2 DEF WriterSubtracts, Types, WriterStates
  <2> QED
    BY <1>3, <2>2, <2>3 DEF WriterSubtracts, Data, WriterInv, ReaderInv, Used, At, OldRead,
                      OldWrite
<1>4. CASE WriterTakesFlat
  <2>1. PICK rd \in {writer.rd, rd_ptr_} :
          LET n == Least(writer.pkt, FreeFlat(writer.free, wr_ptr_, rd))
          IN writer' = [writer EXCEPT !.pc = IF n = 0 THEN "compare" ELSE "copy", !.n = n]
    BY <1>4 DEF WriterTakesFlat
  <2> DEFINE n == Least(writer.pkt, FreeFlat(writer.free, wr_ptr_, rd))
  <2>2. n \in Nat /\ n <= writer.pkt /\ n <= FreeFlat(writer.free, wr_ptr_, rd)
    BY DEF Least, FreeFlat
  <2>3. RoomFor(n)
    BY <1>4, <2>2 DEF WriterTakesFlat, WriterInv, OldRead, RoomFor, FreeFlat,
                      Least, Used
  <2>4. /\ Types'
        /\ writer'.pc \in {"compare", "copy"}
        /\ writer'.n = n
        /\ writer'.pkt = writer.pkt
    <3>1. writer' = [writer EXCEPT !.pc = IF n = 0 THEN "compare" ELSE "copy", !.n = n]
      BY <2>1
    <3>2. writer \in WriterStates
      BY DEF Types
    <3> HIDE DEF n
    <3>3. /\ writer' \in WriterStates
          /\ writer'.pc \in {"compare", "copy"}
          /\ writer'.n = n
          /\ writer'.pkt = writer.pkt
      BY ONLY <2>2, <3>1, <3>2 DEF WriterStates
    <3> QED
      BY <1>4, <3>3 DEF WriterTakesFlat, Types
  <2> HIDE DEF n
  <2> QED
    BY <1>4, <2>2, <2>3, <2>4
       DEF WriterTakesFlat, Data, WriterInv, ReaderInv, Used, At, OldWrite, RoomFor
<1> QED
  BY <1>1, <1>2, <1>3, <1>4

\* The writer copies into the room it found.
LEMMA WriterCopiesIInv ==
  ASSUME Types, Data, WriterInv, ReaderInv, WriterCopies
  PROVE  IInv'
<1> USE MemPoolAssumption DEF IInv
<1>0. /\ rd_ptr_ \in 0 .. Size /\ wr_ptr_ \in 0 .. Size /\ mem_map_size_ \in 0 .. Padding
      /\ writer.pkt \in Nat /\ writer.rd \in 0 .. Size /\ writer.free \in 0 .. Size
      /\ writer.n \in Nat
      /\ reader.wr \in 0 .. Size /\ reader.full \in 0 .. Size
      /\ reader.len \in 0 .. Size + Padding
      /\ nwritten \in Nat /\ nread \in Nat
  BY DEF Types, WriterStates, ReaderStates
<1> USE <1>0
<1>1. Types' /\ writer'.pc = "update" /\ writer'.n = writer.n /\ writer'.pkt = writer.pkt
  <2>1. \A k \in wr_ptr_ .. wr_ptr_ + writer.n - 1 : nwritten + 1 + (k - wr_ptr_) \in Nat
      OBVIOUS
  <2>2. cache_buf_' \in [Offsets -> Nat]
    BY <2>1 DEF WriterCopies, Types, WriterStates
  <2>3. /\ writer' \in WriterStates
        /\ writer'.pc = "update" /\ writer'.n = writer.n /\ writer'.pkt = writer.pkt
    BY DEF WriterCopies, Types, WriterStates
  <2> QED
    BY <2>2, <2>3 DEF WriterCopies, Types
<1>2. RoomFor(writer.n) /\ writer.n <= writer.pkt
  BY DEF WriterCopies, WriterInv
<1>3. \A k \in Offsets : k \notin wr_ptr_ .. wr_ptr_ + writer.n - 1 => cache_buf_'[k] = cache_buf_[k]
  BY DEF WriterCopies
<1>4. \A k \in wr_ptr_ .. wr_ptr_ + writer.n - 1 :
        k \in Offsets /\ cache_buf_'[k] = nwritten + 1 + (k - wr_ptr_)
  <2>1. wr_ptr_ + writer.n <= Size + Padding
    BY <1>2 DEF RoomFor, Used
  <2>2. \A k \in wr_ptr_ .. wr_ptr_ + writer.n - 1 : k \in Offsets
    BY <2>1 DEF Offsets
  <2> QED
    BY <2>2 DEF WriterCopies
<1>5. \A i \in 0 .. Used(wr_ptr_, rd_ptr_) - 1 :
        At(rd_ptr_, i) \in Offsets /\ At(rd_ptr_, i) \notin wr_ptr_ .. wr_ptr_ + writer.n - 1
  BY <1>2 DEF Offsets, RoomFor, Used, At
<1>6. \A k \in 0 .. mem_map_size_ - 1 :
        /\ k \in Offsets /\ k \notin wr_ptr_ .. wr_ptr_ + writer.n - 1
        /\ Size + k \in Offsets /\ Size + k \notin wr_ptr_ .. wr_ptr_ + writer.n - 1
  BY <1>2 DEF Data, Offsets, RoomFor, Used
<1>7. Data'
  <2>1. UNCHANGED <<nwritten, nread, wr_ptr_, rd_ptr_, mem_map_size_>>
    BY DEF WriterCopies
  <2>2. \A i \in 0 .. Used(wr_ptr_, rd_ptr_) - 1 : cache_buf_'[At(rd_ptr_, i)] = nread + 1 + i
    BY <1>3, <1>5 DEF Data
  <2>3. \A k \in 0 .. mem_map_size_ - 1 : cache_buf_'[Size + k] = cache_buf_'[k]
    BY <1>3, <1>6 DEF Data
  <2> QED
    BY <2>1, <2>2, <2>3 DEF Data, Used, At
<1>8. WriterInv'
  BY <1>1, <1>2, <1>4 DEF WriterCopies, WriterInv, RoomFor, Used
<1>9. ReaderInv'
  BY DEF WriterCopies, ReaderInv, OldWrite, Used
<1> QED
  BY <1>1, <1>7, <1>8, <1>9

\* The writer moves its pointer.  A packet's next piece is looked for afresh.
LEMMA WriterMovesIInv ==
  ASSUME Types, Data, WriterInv, ReaderInv, UpdateWritePtrCopyData \/ WriterWraps
  PROVE  IInv'
<1> USE MemPoolAssumption DEF IInv
<1>0. /\ rd_ptr_ \in 0 .. Size /\ wr_ptr_ \in 0 .. Size /\ mem_map_size_ \in 0 .. Padding
      /\ writer.pkt \in Nat /\ writer.rd \in 0 .. Size /\ writer.free \in 0 .. Size
      /\ writer.n \in Nat
      /\ reader.wr \in 0 .. Size /\ reader.full \in 0 .. Size
      /\ reader.len \in 0 .. Size + Padding
      /\ nwritten \in Nat /\ nread \in Nat
  BY DEF Types, WriterStates, ReaderStates
<1> USE <1>0
<1> DEFINE free == FreeFlat(Minus(Minus(Size, Used(wr_ptr_, rd_ptr_)), 1), wr_ptr_, rd_ptr_)
           wrap_size == wr_ptr_ + writer.n - Size
<1>1. /\ Used(wr_ptr_, rd_ptr_) \in 0 .. Size - 1
      /\ Fullness(wr_ptr_ < rd_ptr_, wr_ptr_, rd_ptr_) = Used(wr_ptr_, rd_ptr_)
  BY FullnessIsUsed DEF Data
<1>2. RoomFor(writer.n) /\ writer.n <= writer.pkt
  BY DEF UpdateWritePtrCopyData, WriterWraps, WriterInv
<1>3. writer.n <= free /\ free \in Int
  <2>1. Minus(Minus(Size, Used(wr_ptr_, rd_ptr_)), 1) = Size - 1 - Used(wr_ptr_, rd_ptr_)
    BY <1>1 DEF Minus
  <2> QED
    BY <1>1, <1>2, <2>1 DEF FreeFlat, Least, RoomFor
<1>4. CASE UpdateWritePtrCopyData /\ wrap_size <= 0
  <2>1. /\ wr_ptr_' = wr_ptr_ + writer.n
        /\ Written
        /\ UNCHANGED <<cache_buf_, rd_ptr_, mem_map_size_, reader, nread>>
    BY <1>1, <1>3, <1>4 DEF UpdateWritePtrCopyData
  <2>2. /\ writer' \in WriterStates
        /\ writer'.pc \in {"idle", "compare"}
        /\ nwritten' = nwritten + writer.n
    <3>1. writer.pkt - writer.n \in Nat
      BY <1>2
    <3>2. writer \in WriterStates
      BY DEF Types
    <3>3. /\ writer' = [writer EXCEPT !.pkt = writer.pkt - writer.n,
                           !.pc = IF writer.pkt = writer.n THEN "idle" ELSE "compare"]
          /\ nwritten' = nwritten + writer.n
      BY <2>1 DEF Written
    <3> QED
      BY ONLY <3>1, <3>2, <3>3 DEF WriterStates
  <2>3. Types'
    BY <1>4, <2>1, <2>2 DEF Types, WriterStates
  <2>4. Used(wr_ptr_', rd_ptr_) = Used(wr_ptr_, rd_ptr_) + writer.n
        /\ (wr_ptr_' < rd_ptr_ <=> wr_ptr_ < rd_ptr_)
    BY <1>2, <2>1 DEF Used, RoomFor
  <2>5. Data'
    <3>1. \A i \in 0 .. Used(wr_ptr_, rd_ptr_) + writer.n - 1 :
            cache_buf_[At(rd_ptr_, i)] = nread + 1 + i
      <4> TAKE i \in 0 .. Used(wr_ptr_, rd_ptr_) + writer.n - 1
      <4>1. CASE i < Used(wr_ptr_, rd_ptr_)
        BY <4>1, <1>1 DEF Data
      <4>2. CASE i >= Used(wr_ptr_, rd_ptr_)
        <5>1. /\ At(rd_ptr_, i) = wr_ptr_ + (i - Used(wr_ptr_, rd_ptr_))
              /\ At(rd_ptr_, i) \in wr_ptr_ .. wr_ptr_ + writer.n - 1
          BY <4>2, <1>2, <1>4 DEF At, Used, RoomFor
        <5>2. \A k \in wr_ptr_ .. wr_ptr_ + writer.n - 1 :
                cache_buf_[k] = nwritten + 1 + (k - wr_ptr_)
          BY <1>4 DEF UpdateWritePtrCopyData, WriterInv
        <5> QED
          BY <5>1, <5>2, <1>1 DEF Data
      <4> QED
        BY <4>1, <4>2, <1>1
    <3>2. Used(wr_ptr_, rd_ptr_)' = Used(wr_ptr_, rd_ptr_) + writer.n
      BY <2>1, <2>4 DEF Used
    <3>3. \A i \in 0 .. Used(wr_ptr_, rd_ptr_)' - 1 :
            cache_buf_'[At(rd_ptr_, i)'] = nread' + 1 + i
      BY <1>1, <2>1, <3>1, <3>2 DEF At
    <3>4. /\ nwritten' - nread' = Used(wr_ptr_, rd_ptr_)'
          /\ Used(wr_ptr_, rd_ptr_)' <= Size - 1
      BY <1>1, <1>2, <2>1, <2>2, <3>2 DEF Data, RoomFor
    <3>5. /\ IF wr_ptr_' < rd_ptr_' THEN mem_map_size_' <= wr_ptr_' ELSE mem_map_size_' = 0
          /\ \A k \in 0 .. mem_map_size_' - 1 : cache_buf_'[Size + k] = cache_buf_'[k]
      BY <2>1, <2>4 DEF Data
    <3> QED
      BY <3>3, <3>4, <3>5 DEF Data
  <2>6. WriterInv'
    BY <2>2 DEF WriterInv
  <2>7. ReaderInv'
    BY <2>1, <2>4, <1>1 DEF ReaderInv, OldWrite, Used
  <2> QED
    BY <2>3, <2>5, <2>6, <2>7
<1>5. CASE UpdateWritePtrCopyData /\ wrap_size > 0
  <2>1. wr_ptr_ >= rd_ptr_ /\ wrap_size <= rd_ptr_ - 1 /\ wrap_size < Size
    BY <1>2, <1>5 DEF RoomFor, Used
  <2>2. /\ cache_buf_' = Copied(cache_buf_, 0, Size, wrap_size)
        /\ writer' = [writer EXCEPT !.pc = "wrap"]
        /\ UNCHANGED <<rd_ptr_, wr_ptr_, mem_map_size_, reader, nwritten, nread>>
    BY <1>1, <1>3, <1>5, <2>1 DEF UpdateWritePtrCopyData
  <2>3. wrap_size <= Padding
    BY <1>2, <2>1 DEF RoomFor
  <2>4. /\ \A k \in Offsets : k >= wrap_size => cache_buf_'[k] = cache_buf_[k]
        /\ \A k \in 0 .. wrap_size - 1 : cache_buf_'[k] = cache_buf_[Size + k]
    <3>1. \A k \in 0 .. wrap_size - 1 :
            /\ k \in Offsets /\ k \in 0 .. 0 + wrap_size - 1
            /\ Size + (k - 0) = Size + k
      BY <2>3 DEF Offsets
    <3>2. \A k \in Offsets : k >= wrap_size => k \notin 0 .. 0 + wrap_size - 1
      BY DEF Offsets
    <3>3. \A k \in Offsets :
            cache_buf_'[k] = IF k \in 0 .. 0 + wrap_size - 1
                             THEN cache_buf_[Size + (k - 0)] ELSE cache_buf_[k]
      BY ONLY <2>2 DEF Copied
    <3> QED
      BY ONLY <3>1, <3>2, <3>3
  <2>5. writer' \in WriterStates /\ writer'.pc = "wrap"
        /\ writer'.n = writer.n /\ writer'.pkt = writer.pkt
    BY <2>2 DEF Types, WriterStates
  <2>6. cache_buf_' \in [Offsets -> Nat]
    <3>1. \A k \in 0 .. wrap_size - 1 : Size + (k - 0) \in Offsets
      BY <2>3 DEF Offsets
    <3>2. \A k \in 0 .. 0 + wrap_size - 1 : cache_buf_[Size + (k - 0)] \in Nat
      BY <3>1 DEF Types
    <3> QED
      BY <2>2, <3>2 DEF Copied, Types
  <2>7. Types'
    BY <2>2, <2>5, <2>6 DEF Types, WriterStates
  <2>8. Data'
    <3>1. \A i \in 0 .. Used(wr_ptr_, rd_ptr_) - 1 :
            At(rd_ptr_, i) \in Offsets /\ At(rd_ptr_, i) >= wrap_size
      BY <2>1 DEF At, Used, Offsets
    <3>2. mem_map_size_ = 0
      BY <2>1 DEF Data
    <3>3. \A i \in 0 .. Used(wr_ptr_, rd_ptr_) - 1 : cache_buf_'[At(rd_ptr_, i)] = nread + 1 + i
      BY <2>4, <3>1 DEF Data
    <3> QED
      BY <2>1, <2>2, <3>2, <3>3 DEF Data, Used, At
  <2>9. WriterInv'
    <3>1. \A k \in wr_ptr_ .. wr_ptr_ + writer.n - 1 :
            k \in Offsets /\ cache_buf_[k] = nwritten + 1 + (k - wr_ptr_)
      BY <1>2, <1>5, <2>3 DEF UpdateWritePtrCopyData, WriterInv, Offsets
    <3>2. \A k \in wr_ptr_ .. Size - 1 : cache_buf_'[k] = nwritten + 1 + (k - wr_ptr_)
      BY <1>5, <2>1, <2>4, <3>1
    <3>3. \A k \in 0 .. wrap_size - 1 : cache_buf_'[k] = nwritten + 1 + (Size - wr_ptr_) + k
      <4> TAKE k \in 0 .. wrap_size - 1
      <4>1. Size + k \in wr_ptr_ .. wr_ptr_ + writer.n - 1
      OBVIOUS
      <4>2. cache_buf_[Size + k] = nwritten + 1 + (Size + k - wr_ptr_)
        BY <3>1, <4>1
      <4> QED
        BY <2>4, <4>2
    <3> QED
      BY <1>2, <1>5, <2>1, <2>2, <2>5, <3>2, <3>3 DEF WriterInv, RoomFor, Used
  <2>10. ReaderInv'
    BY <2>2 DEF ReaderInv, OldWrite, Used
  <2> QED
    BY <2>7, <2>8, <2>9, <2>10
<1>6. CASE WriterWraps
  <2>1. /\ wr_ptr_ >= rd_ptr_ /\ wrap_size > 0 /\ wrap_size <= rd_ptr_ - 1
        /\ \A k \in wr_ptr_ .. Size - 1 : cache_buf_[k] = nwritten + 1 + (k - wr_ptr_)
        /\ \A k \in 0 .. wrap_size - 1 : cache_buf_[k] = nwritten + 1 + (Size - wr_ptr_) + k
    BY <1>2, <1>6 DEF WriterWraps, WriterInv, RoomFor, Used
  <2>2. /\ wr_ptr_' = wrap_size
        /\ Written
        /\ UNCHANGED <<cache_buf_, rd_ptr_, mem_map_size_, reader, nread>>
    BY <1>6 DEF WriterWraps
  <2>3. /\ writer' \in WriterStates
        /\ writer'.pc \in {"idle", "compare"}
        /\ nwritten' = nwritten + writer.n
    <3>1. writer.pkt - writer.n \in Nat
      BY <1>2
    <3>2. writer \in WriterStates
      BY DEF Types
    <3>3. /\ writer' = [writer EXCEPT !.pkt = writer.pkt - writer.n,
                           !.pc = IF writer.pkt = writer.n THEN "idle" ELSE "compare"]
          /\ nwritten' = nwritten + writer.n
      BY <2>2 DEF Written
    <3> QED
      BY ONLY <3>1, <3>2, <3>3 DEF WriterStates
  <2>4. Types'
    BY <2>1, <2>2, <2>3 DEF Types, WriterStates
  <2>5. /\ Used(wr_ptr_, rd_ptr_)' = Used(wr_ptr_, rd_ptr_) + writer.n
        /\ Used(wr_ptr_, rd_ptr_) = wr_ptr_ - rd_ptr_
        /\ wr_ptr_' < rd_ptr_
    BY <2>1, <2>2 DEF Used
  <2>6. Data'
    <3>1. \A i \in 0 .. Used(wr_ptr_, rd_ptr_) + writer.n - 1 :
            cache_buf_[At(rd_ptr_, i)] = nread + 1 + i
      <4> TAKE i \in 0 .. Used(wr_ptr_, rd_ptr_) + writer.n - 1
      <4>1. CASE i < Used(wr_ptr_, rd_ptr_)
        BY <4>1, <1>1 DEF Data
      <4>2. CASE i >= Used(wr_ptr_, rd_ptr_) /\ rd_ptr_ + i < Size
        <5>1. At(rd_ptr_, i) = rd_ptr_ + i /\ rd_ptr_ + i \in wr_ptr_ .. Size - 1
          BY <4>2, <2>5 DEF At
        <5> QED
          BY <5>1, <2>1, <2>5 DEF Data
      <4>3. CASE rd_ptr_ + i >= Size
        <5>1. At(rd_ptr_, i) = rd_ptr_ + i - Size /\ rd_ptr_ + i - Size \in 0 .. wrap_size - 1
          BY <4>3, <2>5 DEF At
        <5> QED
          BY <5>1, <2>1, <2>5 DEF Data
      <4> QED
        BY <4>1, <4>2, <4>3, <1>1
    <3>2. \A i \in 0 .. Used(wr_ptr_, rd_ptr_)' - 1 :
            cache_buf_'[At(rd_ptr_, i)'] = nread' + 1 + i
      BY <2>2, <2>5, <3>1 DEF At
    <3>3. /\ nwritten' - nread' = Used(wr_ptr_, rd_ptr_)'
          /\ Used(wr_ptr_, rd_ptr_)' <= Size - 1
      BY <1>1, <1>2, <2>2, <2>3, <2>5 DEF Data, RoomFor
    <3>4. mem_map_size_ = 0
      BY <2>1 DEF Data
    <3> QED
      BY <2>1, <2>2, <2>5, <3>2, <3>3, <3>4 DEF Data
  <2>7. WriterInv'
    BY <2>3 DEF WriterInv
  <2>8. ReaderInv'
    BY <2>2, <2>5, <1>1 DEF ReaderInv, OldWrite, Used
  <2> QED
    BY <2>4, <2>6, <2>7, <2>8
<1> QED
  BY <1>4, <1>5, <1>6

\* The reader computes its view; MapWrappedBuffer extends the copy.
LEMMA ReaderLooksIInv ==
  ASSUME Types, Data, WriterInv, ReaderInv, Reload = FALSE,
         ReaderCompares \/ ReaderSubtracts \/ ReaderMaps
  PROVE  IInv'
<1> USE MemPoolAssumption DEF IInv
<1>0. /\ rd_ptr_ \in 0 .. Size /\ wr_ptr_ \in 0 .. Size /\ mem_map_size_ \in 0 .. Padding
      /\ reader.wr \in 0 .. Size /\ reader.full \in 0 .. Size
      /\ reader.len \in 0 .. Size + Padding
      /\ writer.n \in Nat /\ nwritten \in Nat /\ nread \in Nat
  BY DEF Types, WriterStates, ReaderStates
<1> USE <1>0
<1>1. CASE ReaderCompares
  <2>1. Types' /\ reader'.pc = "subtract" /\ reader'.wr = wr_ptr_
    BY <1>1 DEF ReaderCompares, Types, ReaderStates
  <2> QED
    BY <1>1, <2>1 DEF ReaderCompares, Data, WriterInv, ReaderInv, Used, At, OldRead,
                      OldWrite, RoomFor
<1>2. CASE ReaderSubtracts
  <2>1. /\ Used(reader.wr, rd_ptr_) \in 0 .. Size
        /\ Fullness(reader.wr < rd_ptr_, reader.wr, rd_ptr_) = Used(reader.wr, rd_ptr_)
    BY FullnessIsUsed
  <2>2. /\ reader' \in ReaderStates /\ reader'.pc = "flat"
        /\ reader'.wr = reader.wr /\ reader'.full = Used(reader.wr, rd_ptr_)
    <3>1. reader' = [reader EXCEPT !.pc = "flat", !.wr = reader.wr,
                                   !.full = Used(reader.wr, rd_ptr_)]
      BY <1>2, <2>1 DEF ReaderSubtracts, Again
    <3>2. reader \in ReaderStates
      BY DEF Types
    <3> QED
      BY ONLY <2>1, <3>1, <3>2 DEF ReaderStates
  <2>3. Types'
    BY <1>2, <2>2 DEF ReaderSubtracts, Types
  <2> QED
    BY <1>2, <2>2, <2>3 DEF ReaderSubtracts, Data, WriterInv, ReaderInv, Used, At,
                            OldRead, OldWrite, RoomFor
<1>3. CASE ReaderMaps
  <2>1. /\ Used(reader.wr, rd_ptr_) <= Used(wr_ptr_, rd_ptr_)
        /\ reader.full = Used(reader.wr, rd_ptr_)
        /\ reader.wr < rd_ptr_ => wr_ptr_ < rd_ptr_
    BY <1>3 DEF ReaderMaps, ReaderInv, OldWrite
  <2>2. CASE reader.wr >= rd_ptr_
    <3>1. /\ reader' = [reader EXCEPT !.pc = "view", !.len = reader.full]
          /\ UNCHANGED <<cache_buf_, mem_map_size_, rd_ptr_, wr_ptr_, writer, nwritten, nread>>
      BY <1>3, <2>2 DEF ReaderMaps, Again
    <3>2. /\ reader' \in ReaderStates /\ reader'.pc = "view"
          /\ reader'.len = reader.full
      <4>1. reader \in ReaderStates /\ reader.full \in 0 .. Size + Padding
        BY DEF Types
      <4> QED
        BY ONLY <3>1, <4>1 DEF ReaderStates
    <3>3. Types'
      BY <3>1, <3>2 DEF Types
    <3>4. Data' /\ WriterInv'
      BY <3>1 DEF Data, WriterInv, Used, At, OldRead, RoomFor
    <3>5. rd_ptr_ + reader.full <= Size
      BY <2>1, <2>2 DEF Used
    <3> QED
      BY <2>1, <3>1, <3>2, <3>3, <3>4, <3>5 DEF ReaderInv, Used
  <2>3. CASE reader.wr < rd_ptr_
    <3> DEFINE len == IF reader.wr > Padding THEN reader.full + Padding - reader.wr
                                             ELSE reader.full
    <3>1. reader.wr <= wr_ptr_ /\ wr_ptr_ < rd_ptr_
      BY <2>1, <2>3 DEF Used
    <3>2. /\ len \in 0 .. Size + Padding
          /\ len <= Used(wr_ptr_, rd_ptr_)
          /\ rd_ptr_ + len <= Size + Padding
          /\ rd_ptr_ + len <= Size + reader.wr
      BY <2>1, <2>3, <3>1 DEF Used
    <3>3. PICK again \in {reader.wr, wr_ptr_} : MapWrappedBuffer(again)
      BY <1>3, <2>3 DEF ReaderMaps, Again
    <3> DEFINE mapped == Least(again, Padding)
    <3>4. /\ mapped \in 0 .. Padding /\ mapped <= wr_ptr_
          /\ rd_ptr_ + len <= Size + mapped
      BY <3>1, <3>2 DEF Least
    <3>5. /\ reader' = [reader EXCEPT !.pc = "view", !.len = len]
          /\ UNCHANGED <<rd_ptr_, wr_ptr_, writer, nwritten, nread>>
      <4>1. reader.wr > Padding => Minus(reader.full + Padding, reader.wr)
                                   = reader.full + Padding - reader.wr
        BY <2>1, <2>3 DEF Minus, Used
      <4> QED
        <5>1. /\ ~(reader.wr >= rd_ptr_)
              /\ Again(reader.wr, wr_ptr_) = reader.wr
          BY <2>3 DEF Again
        <5>2. /\ reader' = [reader EXCEPT !.pc = "view",
                              !.len = IF reader.wr > Padding
                                      THEN Minus(reader.full + Padding, reader.wr)
                                      ELSE reader.full]
              /\ UNCHANGED <<rd_ptr_, wr_ptr_, writer, nwritten, nread>>
          BY <1>3, <5>1 DEF ReaderMaps
        <5> QED
          BY <4>1, <5>2
    <3>6. reader' \in ReaderStates /\ reader'.pc = "view" /\ reader'.len = len
      <4>1. reader \in ReaderStates
        BY DEF Types
      <4> HIDE DEF len
      <4> QED
        BY ONLY <3>2, <3>5, <4>1 DEF ReaderStates
    <3>7. /\ cache_buf_' \in [Offsets -> Nat]
          /\ mem_map_size_' \in 0 .. Padding
          /\ mem_map_size_' <= wr_ptr_
          /\ mapped <= mem_map_size_'
          /\ \A k \in 0 .. Size - 1 : cache_buf_'[k] = cache_buf_[k]
          /\ \A k \in 0 .. mem_map_size_' - 1 : cache_buf_'[Size + k] = cache_buf_[k]
      <4>1. mem_map_size_ <= wr_ptr_
        BY <3>1 DEF Data
      <4>2. CASE mem_map_size_ >= mapped
        <5>1. UNCHANGED <<cache_buf_, mem_map_size_>>
          BY <3>3, <3>4, <4>2 DEF MapWrappedBuffer
        <5> QED
          BY <3>4, <4>1, <4>2, <5>1 DEF Data, Types
      <4>3. CASE mem_map_size_ < mapped
        <5>1. /\ cache_buf_' = Copied(cache_buf_, Size + mem_map_size_, mem_map_size_,
                                      mapped - mem_map_size_)
              /\ mem_map_size_' = mapped
          BY <3>3, <4>3 DEF MapWrappedBuffer
        <5> HIDE DEF mapped
        <5>2. \A k \in Offsets :
                cache_buf_'[k] = IF k \in Size + mem_map_size_ .. Size + mapped - 1
                                 THEN cache_buf_[k - Size] ELSE cache_buf_[k]
          <6>1. Size + mem_map_size_ + (mapped - mem_map_size_) - 1 = Size + mapped - 1
            BY <3>4
          <6>2. \A k \in Offsets : mem_map_size_ + (k - (Size + mem_map_size_)) = k - Size
            BY DEF Offsets
          <6>3. \A k \in Offsets :
                  cache_buf_'[k] = IF k \in Size + mem_map_size_ ..
                                        Size + mem_map_size_ + (mapped - mem_map_size_) - 1
                                   THEN cache_buf_[mem_map_size_ + (k - (Size + mem_map_size_))]
                                   ELSE cache_buf_[k]
            BY ONLY <5>1 DEF Copied
          <6> QED
            BY ONLY <6>1, <6>2, <6>3
        <5>3. \A k \in Offsets : cache_buf_'[k] \in Nat
          <6>1. \A k \in Size + mem_map_size_ .. Size + mapped - 1 : k - Size \in Offsets
            BY <3>1, <3>4 DEF Offsets
          <6> QED
            BY <5>2, <6>1 DEF Types
        <5>4. cache_buf_' \in [Offsets -> Nat]
          BY <5>1, <5>3 DEF Copied
        <5>5. \A k \in 0 .. Size - 1 : cache_buf_'[k] = cache_buf_[k]
          BY <5>2 DEF Offsets
        <5>6. ASSUME NEW k \in 0 .. mapped - 1
              PROVE  cache_buf_'[Size + k] = cache_buf_[k]
          <6>1. Size + k \in Offsets /\ Size + k - Size = k
            BY <3>4 DEF Offsets
          <6>2. CASE k < mem_map_size_
            <7>1. Size + k \notin Size + mem_map_size_ .. Size + mapped - 1
              BY <6>2
            <7> QED
              BY <5>2, <6>1, <6>2, <7>1 DEF Data
          <6>3. CASE k >= mem_map_size_
            <7>1. Size + k \in Size + mem_map_size_ .. Size + mapped - 1
              BY <3>4, <6>3
            <7> QED
              BY <5>2, <6>1, <7>1
          <6> QED
            BY <6>2, <6>3
        <5> QED
          BY <3>4, <5>1, <5>4, <5>5, <5>6
      <4> QED
        BY <3>4, <4>2, <4>3
    <3>8. Types'
      BY <3>5, <3>6, <3>7 DEF Types
    <3>9. Data'
      <4>1. \A i \in 0 .. Used(wr_ptr_, rd_ptr_) - 1 : At(rd_ptr_, i) \in 0 .. Size - 1
        BY <3>1 DEF At, Used
      <4>2. \A i \in 0 .. Used(wr_ptr_, rd_ptr_) - 1 :
              cache_buf_'[At(rd_ptr_, i)] = nread + 1 + i
        BY <3>7, <4>1 DEF Data
      <4>3. \A k \in 0 .. mem_map_size_' - 1 : cache_buf_'[Size + k] = cache_buf_'[k]
        <5>1. PICK m \in 0 .. Size - 1 : m = mem_map_size_'
          BY <3>1, <3>7
        <5>2. \A k \in 0 .. m - 1 : k \in 0 .. Size - 1
          OBVIOUS
        <5> QED
          BY ONLY <3>7, <5>1, <5>2
      <4> QED
        BY <3>1, <3>5, <3>7, <4>2, <4>3 DEF Data, Used, At
    <3>10. WriterInv'
      <4>1. writer.pc \in {"copy", "update", "wrap"} => wr_ptr_ + writer.n <= Size - 1
        BY <3>1 DEF WriterInv, RoomFor, Used
      <4>2. writer.pc = "update" =>
              \A k \in wr_ptr_ .. wr_ptr_ + writer.n - 1 :
                cache_buf_'[k] = nwritten + 1 + (k - wr_ptr_)
        <5>1. writer.pc = "update" =>
                \A k \in wr_ptr_ .. wr_ptr_ + writer.n - 1 : k \in 0 .. Size - 1
          BY <4>1
        <5> QED
          BY <3>7, <5>1 DEF WriterInv
      <4>3. writer.pc # "wrap"
        BY <3>1 DEF WriterInv
      <4> QED
        BY <3>5, <4>2, <4>3 DEF WriterInv, OldRead, RoomFor, Used
    <3>11. ReaderInv'
      BY <3>2, <3>4, <3>5, <3>6, <3>7 DEF ReaderInv, Used
    <3> QED
      BY <3>8, <3>9, <3>10, <3>11
  <2> QED
    BY <2>2, <2>3
<1> QED
  BY <1>1, <1>2, <1>3

\* The decoder consumes part of its view.
LEMMA DecodeIInv ==
  ASSUME Types, Data, WriterInv, ReaderInv, Decode
  PROVE  IInv'
<1> USE MemPoolAssumption DEF IInv
<1>0. /\ rd_ptr_ \in 0 .. Size /\ wr_ptr_ \in 0 .. Size /\ mem_map_size_ \in 0 .. Padding
      /\ reader.len \in 0 .. Size + Padding
      /\ writer.n \in Nat /\ writer.rd \in 0 .. Size
      /\ nwritten \in Nat /\ nread \in Nat
  BY DEF Types, WriterStates, ReaderStates
<1> USE <1>0
<1>1. PICK advance \in 0 .. reader.len : UpdateReadPtr(advance)
  BY DEF Decode
<1>2. advance <= Used(wr_ptr_, rd_ptr_) /\ Used(wr_ptr_, rd_ptr_) \in 0 .. Size - 1
  BY <1>1, FullnessIsUsed DEF UpdateReadPtr, ReaderInv, Data
<1>3. Fullness(wr_ptr_ < rd_ptr_, wr_ptr_, rd_ptr_) = Used(wr_ptr_, rd_ptr_)
  BY FullnessIsUsed
<1>4. /\ IF rd_ptr_ + advance <= Size
         THEN rd_ptr_' = rd_ptr_ + advance /\ mem_map_size_' = mem_map_size_
         ELSE rd_ptr_' = rd_ptr_ + advance - Size /\ mem_map_size_' = 0
      /\ reader' = [reader EXCEPT !.pc = "compare"]
      /\ nread' = nread + advance
      /\ UNCHANGED <<cache_buf_, wr_ptr_, writer, nwritten>>
  BY <1>1, <1>2, <1>3 DEF UpdateReadPtr
<1>5. /\ rd_ptr_' \in 0 .. Size /\ mem_map_size_' \in 0 .. Padding
      /\ Used(wr_ptr_, rd_ptr_') = Used(wr_ptr_, rd_ptr_) - advance
      /\ wr_ptr_ >= rd_ptr_ => wr_ptr_ >= rd_ptr_'
  BY <1>2, <1>4 DEF Used
<1>6. reader' \in ReaderStates /\ reader'.pc = "compare"
  BY <1>4 DEF Types, ReaderStates
<1>7. Types'
  BY <1>4, <1>5, <1>6 DEF Types
<1>8. Data'
  <2>1. \A i \in 0 .. Used(wr_ptr_, rd_ptr_') - 1 :
          cache_buf_[At(rd_ptr_', i)] = nread + advance + 1 + i
    <3> TAKE i \in 0 .. Used(wr_ptr_, rd_ptr_') - 1
    <3>1. i + advance \in 0 .. Used(wr_ptr_, rd_ptr_) - 1
      BY <1>2, <1>5
    <3>2. At(rd_ptr_', i) = At(rd_ptr_, i + advance)
      BY <1>2, <1>4, <1>5, <3>1 DEF At, Used
    <3>3. cache_buf_[At(rd_ptr_, i + advance)] = nread + 1 + (i + advance)
      BY <3>1 DEF Data
    <3> QED
      BY <3>2, <3>3
  <2>2. /\ IF wr_ptr_ < rd_ptr_' THEN mem_map_size_' <= wr_ptr_ ELSE mem_map_size_' = 0
        /\ \A k \in 0 .. mem_map_size_' - 1 : cache_buf_[Size + k] = cache_buf_[k]
    BY <1>2, <1>4, <1>5 DEF Data, Used
  <2>3. /\ nwritten - (nread + advance) = Used(wr_ptr_, rd_ptr_')
        /\ Used(wr_ptr_, rd_ptr_') <= Size - 1
    BY <1>2, <1>5 DEF Data
  <2> QED
    BY <1>4, <2>1, <2>2, <2>3 DEF Data, At, Used
<1>9. WriterInv'
  <2>1. writer.pc \in {"subtract", "flat"} => OldRead(writer.rd)'
    BY <1>2, <1>4, <1>5 DEF WriterInv, OldRead, Used
  <2>2. \A n \in Nat : RoomFor(n) => RoomFor(n)'
    <3> SUFFICES ASSUME NEW n \in Nat, RoomFor(n)
                 PROVE  RoomFor(n)'
      OBVIOUS
    <3>1. n <= Size - 1 - Used(wr_ptr_, rd_ptr_')
      BY <1>2, <1>5 DEF RoomFor
    <3>2. n <= Size + Padding - wr_ptr_
      BY <1>2 DEF RoomFor, Used
    <3> QED
      BY <1>4, <3>1, <3>2 DEF RoomFor, Used
  <2> QED
    BY <1>4, <1>5, <2>1, <2>2 DEF WriterInv, Used
<1>10. ReaderInv'
  BY <1>6 DEF ReaderInv
<1> QED
  BY <1>7, <1>8, <1>9, <1>10

\* Stuttering.
LEMMA UnchangedIInv == IInv /\ UNCHANGED vars => IInv'
BY DEF IInv, vars, Types, Data, WriterInv, ReaderInv, WriterStates, ReaderStates,
       Used, At, OldRead, OldWrite, RoomFor

\* The invariant is inductive.
LEMMA StepIInv ==
  ASSUME Reload = FALSE, IInv, [Next]_vars
  PROVE  IInv'
<1>1. Types /\ Data /\ WriterInv /\ ReaderInv
  BY DEF IInv
<1>2. CASE \/ \E size \in 1 .. MaxPacket : PushData(size)
           \/ WriterCompares \/ WriterSubtracts \/ WriterTakesFlat
  BY <1>1, <1>2, WriterLooksIInv
<1>3. CASE WriterCopies
  BY <1>1, <1>3, WriterCopiesIInv
<1>4. CASE UpdateWritePtrCopyData \/ WriterWraps
  BY <1>1, <1>4, WriterMovesIInv
<1>5. CASE ReaderCompares \/ ReaderSubtracts \/ ReaderMaps
  BY <1>1, <1>5, ReaderLooksIInv
<1>6. CASE Decode
  BY <1>1, <1>6, DecodeIInv
<1>7. CASE UNCHANGED vars
  BY <1>7, UnchangedIInv
<1> QED
  BY <1>2, <1>3, <1>4, <1>5, <1>6, <1>7 DEF Next, WriterStep, ReaderStep

\* The invariant gives the properties.
LEMMA IInvImplies == IInv => TypeOK /\ FlatViewIsStream /\ NeverOverstep
<1> SUFFICES ASSUME IInv PROVE TypeOK /\ FlatViewIsStream /\ NeverOverstep
  OBVIOUS
<1> USE MemPoolAssumption
<1>1. Types /\ Data /\ ReaderInv
  BY DEF IInv
<1>2. TypeOK
  <2>1. 0 .. Size \subseteq Words /\ 0 .. Size + Padding \subseteq Words
    BY DEF Words
  <2> QED
    BY <1>1, <2>1 DEF Types, TypeOK, WriterStates, ReaderStates
<1>3. NeverOverstep
  BY <1>1 DEF Types, WriterStates, ReaderStates, NeverOverstep
<1>4. FlatViewIsStream
  <2>1. /\ rd_ptr_ \in 0 .. Size /\ wr_ptr_ \in 0 .. Size
        /\ mem_map_size_ \in 0 .. Padding /\ reader.len \in 0 .. Size + Padding
        /\ nread \in Nat
    BY <1>1 DEF Types, ReaderStates
  <2> SUFFICES ASSUME reader.pc = "view"
               PROVE  /\ reader.len <= nwritten - nread
                      /\ \A i \in 0 .. reader.len - 1 : cache_buf_[rd_ptr_ + i] = nread + 1 + i
    BY DEF FlatViewIsStream
  <2>2. /\ reader.len <= Used(wr_ptr_, rd_ptr_)
        /\ rd_ptr_ + reader.len <= Size + mem_map_size_
    BY <1>1 DEF ReaderInv
  <2>3. Used(wr_ptr_, rd_ptr_) \in 0 .. Size
    BY <2>1, FullnessIsUsed
  <2>4. ASSUME NEW i \in 0 .. reader.len - 1
        PROVE  cache_buf_[rd_ptr_ + i] = nread + 1 + i
    <3>1. cache_buf_[At(rd_ptr_, i)] = nread + 1 + i
      <4>1. i \in 0 .. Used(wr_ptr_, rd_ptr_) - 1
        BY <2>1, <2>2, <2>3
      <4> QED
        BY <1>1, <4>1 DEF Data
    <3>2. CASE rd_ptr_ + i < Size
      BY <3>1, <3>2 DEF At
    <3>3. CASE rd_ptr_ + i >= Size
      <4>1. /\ rd_ptr_ + i - Size \in 0 .. mem_map_size_ - 1
            /\ Size + (rd_ptr_ + i - Size) = rd_ptr_ + i
            /\ At(rd_ptr_, i) = rd_ptr_ + i - Size
        BY <2>1, <2>2, <3>3 DEF At
      <4>2. cache_buf_[Size + (rd_ptr_ + i - Size)] = cache_buf_[rd_ptr_ + i - Size]
        BY <1>1, <4>1 DEF Data
      <4> QED
        BY <3>1, <4>1, <4>2
    <3> QED
      BY <2>1, <3>2, <3>3
  <2> QED
    BY <1>1, <2>2, <2>4 DEF Data
<1> QED
  BY <1>2, <1>3, <1>4

\* The invariant holds in every state of an optimised build.
LEMMA SpecIInv == ASSUME Reload = FALSE PROVE Spec => []IInv
<1>1. Init => IInv
  BY InitIInv
<1>2. IInv /\ [Next]_vars => IInv'
  BY StepIInv
<1> QED
  BY <1>1, <1>2, PTL DEF Spec

\* Type correctness: the pointers stay inside the ring, the unsigned sizes do
\* not wrap around.
THEOREM MemPoolTypeOK == ASSUME Reload = FALSE PROVE Spec => []TypeOK
BY SpecIInv, IInvImplies, PTL

\* UpdateBitStream hands the decoder the stream: in order, complete, and not
\* overwritten by PushData while it is decoded.
THEOREM DecoderReadsTheStream == ASSUME Reload = FALSE PROVE Spec => []FlatViewIsStream
BY SpecIInv, IInvImplies, PTL

\* UpdateWritePtrCopyData and UpdateReadPtr never return OVERSTEP.
THEOREM PoolCallsSucceed == ASSUME Reload = FALSE PROVE Spec => []NeverOverstep
BY SpecIInv, IInvImplies, PTL
=============================================================================
