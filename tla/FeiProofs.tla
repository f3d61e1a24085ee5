----------------------------- MODULE FeiProofs -----------------------------
(***************************************************************************)
(* Theorems about the FEI encoders, for any stream, any parameters and any *)
(* failures.                                                               *)
(*                                                                         *)
(* H.265: queue and buffer of decoded pictures stay within their bounds,   *)
(* the surfaces that are needed are locked, every frame is coded once,     *)
(* every surface finds a task, every predicted picture a reference, and    *)
(* the stream can be decoded.  BInv says where a frame is: queued, in      *)
(* hand, in the buffer of decoded pictures, or coded and forgotten; the    *)
(* queue is in display order, and what is locked follows from that.  DInv  *)
(* adds what the pictures that wait are to the buffer (OInv), and the      *)
(* buffer to the stream (SInv), but for what Overruns names, a buffer that *)
(* may lose the picture its queue waits for.                               *)
(*                                                                         *)
(* H.264: the pool keeps the tasks that the buffer of decoded pictures     *)
(* names, and there are sets, reconstructed and downsampled surfaces for   *)
(* all of them.  FInv is about pool and buffer, HeldInv about the sets of  *)
(* PREENC, EInv about the order of coding where B frames form no pyramid:  *)
(* how long a frame waits bounds what a decoder that was reset sets going. *)
(***************************************************************************)
EXTENDS MCFei, TLAPS, FiniteSetTheorems, SequenceTheorems, WellFoundedInduction

-----------------------------------------------------------------------------
(* The invariant. *)

Kinds == {"IDR", "I", "P", "B"}
Pictures == [frame : Nat, poc : Nat]
Waiting == [frame : Nat, poc : Nat, kind : Kinds, ref : BOOLEAN, bpo : Nat]
Chosen ==
  [frame : Nat, poc : Nat, kind : Kinds, ref : BOOLEAN, unit : {"IDR", "CRA", "TRAIL", "RASL"},
   rap : Nat, before : SUBSET Pictures, active : SUBSET Pictures, l0 : SUBSET Pictures,
   l1 : SUBSET Pictures, after : SUBSET Pictures]

FramesAt(pics) == {d.frame : d \in pics}
FramesIn(queue) == {queue[i].frame : i \in DOMAIN queue}
Entry(task) == [frame |-> task.frame, poc |-> task.poc]

Lasts == [poc : Nat \cup {-1}, rap : Nat, after : SUBSET Pictures]

\* Types, and a buffer of decoded pictures that is not too big.
HTypes ==
  /\ hevcPar \in HevcConfigs
  /\ hevcPc \in {"get", "code", "flush", "last", "done", "dead", "spin"}
  /\ hevcRun \in BOOLEAN /\ hevcEos \in BOOLEAN
  /\ hevcCount \in 0 .. HevcFrames /\ hevcOrder \in 0 .. hevcCount /\ hevcIdr \in 0 .. hevcOrder
  /\ hevcQueue \in Seq(Waiting) /\ Len(hevcQueue) <= MaxTask(hevcPar)
  /\ hevcTask \in Chosen \cup [frame : {-1}] \cup [frame : Nat]
  /\ hevcLast \in Lasts
  /\ IsFiniteSet(hevcLast.after) /\ Cardinality(hevcLast.after) <= HevcNumRef(hevcPar)
  /\ hevcOut \in Seq(Chosen \cup [frame : Nat]) /\ hevcBack \in Seq(Nat)
  /\ hevcShort \subseteq {"predictors", "task"}
  /\ hevcPc \in {"get", "flush"} => hevcTask = NoTask
  /\ Coding => hevcTask \in (IF Reorders(hevcPar) THEN Chosen ELSE [frame : Nat])

\* An encoder that codes in display order keeps nothing.
Plain ==
  ~Reorders(hevcPar) =>
    /\ hevcQueue = << >> /\ hevcLast.after = {} /\ hevcLocked = {} /\ hevcSmall = {}
    /\ hevcPc # "last" /\ hevcShort = {}
    /\ Coding => hevcTask.frame = hevcCount - 1

\* What the task in hand was made from.
TaskOf(task, queue, last) ==
  /\ task.frame \in 0 .. hevcCount - 1
  /\ FramesAt(task.before) \subseteq 0 .. hevcCount - 1
  /\ task.frame \notin FramesIn(queue) \cup FramesAt(task.before)
  /\ FramesAt(task.before) \cap FramesIn(queue) = {}
  /\ task.active \subseteq task.before /\ task.after = last.after
  /\ task.after \subseteq task.before \cup {Entry(task)}
  /\ IF task.ref THEN Entry(task) \in task.after ELSE task.after \subseteq task.before
  /\ task.l0 \cup task.l1 \subseteq task.active
  /\ IsFiniteSet(task.before) /\ Cardinality(task.before) <= HevcNumRef(hevcPar)

\* A frame is in one place: queued, in hand, or in the buffer.
InPlace ==
  /\ \A i, j \in DOMAIN hevcQueue : i < j => hevcQueue[i].frame < hevcQueue[j].frame
  /\ \A i \in DOMAIN hevcQueue : hevcQueue[i].frame < hevcCount
  /\ FramesAt(hevcLast.after) \cap FramesIn(hevcQueue) = {}
  /\ FramesAt(hevcLast.after) \subseteq 0 .. hevcCount - 1
  /\ Coding /\ Reorders(hevcPar) => TaskOf(hevcTask, hevcQueue, hevcLast)

\* What is locked.
Locks ==
  /\ hevcPc \in {"get", "flush"} =>
       /\ hevcLocked = FramesAt(hevcLast.after) \cup FramesIn(hevcQueue)
       /\ hevcSmall \subseteq FramesAt(hevcLast.after)
  /\ Coding /\ Reorders(hevcPar) =>
       /\ hevcLocked = FramesAt(hevcTask.before) \cup FramesIn(hevcQueue) \cup {hevcTask.frame}
       /\ hevcSmall \subseteq FramesAt(hevcTask.before)
  /\ hevcLocked \subseteq 0 .. hevcCount - 1 /\ hevcSmall \subseteq hevcLocked

\* Every frame that came is in the stream, in hand, or queued; and every
\* buffer went back, but for those of the queue.
Counts ==
  /\ hevcFault = {} /\ hevcShort = {} =>
       /\ {hevcOut[k].frame : k \in DOMAIN hevcOut} \cup ({hevcTask.frame} \ {-1})
            \cup FramesIn(hevcQueue) = 0 .. hevcCount - 1
       /\ Len(hevcOut) + (IF hevcTask = NoTask THEN 0 ELSE 1) + Len(hevcQueue) = hevcCount
       /\ hevcPc = "done" =>
            hevcTask = NoTask /\ hevcQueue = << >> /\ hevcLocked = FramesAt(hevcLast.after)
  /\ ~hevcPar.noVpp /\ "task" \notin hevcShort =>
       /\ hevcPc = "get" => hevcCount = Len(hevcBack) + Len(hevcQueue)
       /\ hevcPc = "code" => hevcCount = Len(hevcBack) + Len(hevcQueue) + 1

BInv == HTypes /\ Plain /\ InPlace /\ Locks /\ Counts

-----------------------------------------------------------------------------
\* The picture at i is of the period of the buffer, or of the period of the
\* next surface.
Here(queue, i) == \A j \in 1 .. i : queue[j].kind # "IDR"
Final(queue, i) == \A j \in i + 1 .. Len(queue) : queue[j].kind # "IDR"
Ready(dpb, task) == \E d \in dpb : d.poc > task.poc

\* Types and order of what is queued; n is the place of the next surface.
InOrder(par, queue, n) ==
  /\ \A i \in DOMAIN queue :
       /\ queue[i].kind = GetFrameType(par, queue[i].poc)
       /\ queue[i].kind = "IDR" => queue[i].poc = 0
       /\ queue[i].kind # "B" => queue[i].ref
       /\ queue[i].kind = "B" /\ ~par.bpyramid => ~queue[i].ref
       /\ Final(queue, i) => queue[i].poc + (Len(queue) - i) < n
  /\ \A i, j \in DOMAIN queue :
       i < j /\ (\A k \in i + 1 .. j : queue[k].kind # "IDR") => queue[j].poc >= queue[i].poc + (j - i)

\* Nothing is missing behind a B frame that waits for a later picture.
NoGap(queue, n, last) ==
  \A i \in DOMAIN queue :
    Final(queue, i) =>
      \/ Here(queue, i) /\ Ready(last.after, queue[i])
      \/ \A m \in queue[i].poc .. n - 1 : \E j \in i .. Len(queue) : queue[j].poc = m

\* How the queue lies to the buffer.
Beside(queue, n, last) ==
  /\ (\A i \in DOMAIN queue : queue[i].kind # "IDR") =>
       last.poc < n /\ \A d \in last.after : d.poc < n
  /\ \A i \in DOMAIN queue : Here(queue, i) =>
       \A d \in last.after : d.poc # queue[i].poc /\ (queue[i].kind # "B" => d.poc < queue[i].poc)

\* Before and after the first picture behind a random access point.
Phase(queue, n, last) ==
  (n > 0 /\ (queue = << >> \/ queue[1].kind # "IDR")) =>
    /\ last.after # {}
    /\ last.poc <= last.rap => /\ \E d \in last.after : d.poc = last.rap
                               /\ \A d \in last.after : d.poc <= last.rap
    /\ last.poc > last.rap => \A i \in DOMAIN queue : Here(queue, i) => queue[i].poc > last.rap

\* Without a pyramid a B frame has a picture before it, if there is room for two.
Preceded(par, queue, last) ==
  ~par.bpyramid /\ HevcNumRef(par) # 1 => \A i \in DOMAIN queue : Here(queue, i) => \E d \in last.after : d.poc < queue[i].poc

OInv(par, queue, n, last) ==
  InOrder(par, queue, n) /\ NoGap(queue, n, last) /\ Beside(queue, n, last)
    /\ Phase(queue, n, last) /\ Preceded(par, queue, last)

\* The stream.
Found(coded, d, from) == \E i \in from .. Len(coded) : coded[i].frame = d.frame /\ coded[i].ref
LastOf(coded, k, units, s) == coded[s].unit \in units /\ \A i \in s + 1 .. k : coded[i].unit \notin units
Since(coded, s, r, queue, last, count) ==
  /\ s \in 1 .. Len(coded) /\ r \in s .. Len(coded)
  /\ LastOf(coded, Len(coded), {"IDR"}, s) /\ LastOf(coded, Len(coded), {"IDR", "CRA"}, r)
  /\ \A d \in last.after : Found(coded, d, s)
  /\ \A d \in last.after : (last.poc > last.rap \/ d.poc = last.rap) => Found(coded, d, r)
  /\ last.poc <= last.rap => \A i \in r + 1 .. Len(coded) : coded[i].unit = "RASL"
  /\ \A i \in DOMAIN queue : queue[i].frame >= coded[s].frame
  /\ coded[s].frame < count
SInv(coded, queue, last, count) ==
  \/ coded = << >> /\ last.after = {} /\ (queue # << >> => queue[1].kind = "IDR")
  \/ \E s, r \in 1 .. Len(coded) : Since(coded, s, r, queue, last, count)

\* A decoder has what the picture at k refers to; s and r are the last IDR
\* picture and the last random access point.
DecodesAt(coded, k) ==
  \E s, r \in 1 .. k :
    /\ LastOf(coded, k, {"IDR"}, s) /\ LastOf(coded, k, {"IDR", "CRA"}, r)
    /\ \A d \in coded[k].l0 \cup coded[k].l1 :
         \E i \in (IF coded[k].unit = "TRAIL" THEN r ELSE s) .. k - 1 : coded[i].frame = d.frame /\ coded[i].ref
    /\ coded[k].unit = "RASL" => \A i \in r + 1 .. k - 1 : coded[i].unit = "RASL"
    /\ coded[k].frame >= coded[s].frame
Decodes(coded) == \A k \in DOMAIN coded : DecodesAt(coded, k)

\* The task in hand has references.
Filled(par, task) ==
  /\ task.kind = "P" => task.l0 # {}
  /\ task.kind = "B" =>
       task.l1 # {} /\ (~par.bpyramid /\ HevcNumRef(par) # 1 => task.l0 # {} \/ ActiveB(par) = 0)

Coming == IF Coding THEN Append(hevcOut, hevcTask) ELSE hevcOut

\* Order, buffer and stream, the task in hand counted as coded.
Live == hevcPc \in {"get", "flush", "code", "last"}
DInv ==
  Reorders(hevcPar) /\ ~Overruns(hevcPar) =>
    /\ "task" \notin hevcShort
    /\ hevcPc = "get" \/ Coding => Len(hevcQueue) < MaxTask(hevcPar)
    /\ Decodes(hevcOut)
    /\ Coding => Filled(hevcPar, hevcTask)
    /\ Live => /\ hevcOrder = hevcCount
               /\ Coming = << >> /\ hevcQueue = << >> => hevcOrder = 0
               /\ OInv(hevcPar, hevcQueue, hevcOrder - hevcIdr, hevcLast)
               /\ SInv(Coming, hevcQueue, hevcLast, hevcCount)
               /\ Decodes(Coming)

-----------------------------------------------------------------------------
(* Numbers, sets and sequences. *)

\* A set of numbers that is not empty has a least one.
LEMMA LeastIs ==
  ASSUME NEW S \in SUBSET Nat, S # {}
  PROVE  \E x \in S : \A y \in S : x <= y
<1> DEFINE R == OpToRel(<, Nat)
<1>1. IsWellFoundedOn(R, Nat)
  BY NatLessThanWellFounded
<1>2. \A x, y \in Nat : y < x => <<y, x>> \in R
  BY DEF OpToRel
<1> HIDE DEF R
<1>3. PICK x \in S : \A y \in S : ~ (<<y, x>> \in R)
  BY <1>1, WFMin
<1>4. ASSUME NEW y \in S
      PROVE  x <= y
  <2>1. ~ (<<y, x>> \in R)
    BY <1>3
  <2>2. x \in Nat /\ y \in Nat
    OBVIOUS
  <2>3. y < x => <<y, x>> \in R
    BY <1>2, <2>2
  <2>4. ~ (y < x)
    BY <2>1, <2>3, Zenon
  <2> QED BY <2>2, <2>4
<1> QED BY <1>4

LEMMA MinIs ==
  ASSUME NEW S \in SUBSET Nat, S # {}
  PROVE  Min(S) \in S /\ \A y \in S : Min(S) <= y
BY LeastIs DEF Min

LEMMA MaxIs ==
  ASSUME NEW S \in SUBSET Int, NEW m \in S, \A y \in S : y <= m
  PROVE  Max(S) = m
<1>1. \A x \in S : (\A y \in S : x >= y) => x = m
  OBVIOUS
<1>2. \A y \in S : m >= y
  OBVIOUS
<1> QED BY <1>1, <1>2 DEF Max

LEMMA OldestIs ==
  ASSUME NEW dpb \in SUBSET Pictures, dpb # {}
  PROVE  Oldest(dpb) \in dpb /\ \A e \in dpb : Oldest(dpb).poc <= e.poc
<1> DEFINE S == {d.poc : d \in dpb}
<1>1. S \in SUBSET Nat /\ S # {}
  BY DEF Pictures
<1>2. PICK x \in S : \A y \in S : x <= y
  BY <1>1, LeastIs
<1>3. \E d \in dpb : \A e \in dpb : d.poc <= e.poc
  BY <1>2
<1> QED BY <1>3 DEF Oldest

LEMMA SeqIs ==
  ASSUME NEW S, NEW q \in Seq(S)
  PROVE  /\ DOMAIN q = 1 .. Len(q) /\ Len(q) \in Nat
         /\ \A i \in 1 .. Len(q) : q[i] \in S
         /\ q = << >> <=> Len(q) = 0
OBVIOUS

LEMMA AppendIs ==
  ASSUME NEW S, NEW q \in Seq(S), NEW x \in S
  PROVE  /\ Append(q, x) \in Seq(S) /\ Len(Append(q, x)) = Len(q) + 1
         /\ \A i \in 1 .. Len(q) : Append(q, x)[i] = q[i]
         /\ Append(q, x)[Len(q) + 1] = x
         /\ Append(q, x) # << >>
BY AppendProperties

LEMMA RemoveAtIs ==
  ASSUME NEW S, NEW q \in Seq(S), NEW i \in 1 .. Len(q)
  PROVE  /\ RemoveAt(q, i) \in Seq(S) /\ Len(RemoveAt(q, i)) = Len(q) - 1
         /\ \A j \in 1 .. Len(q) - 1 : RemoveAt(q, i)[j] = q[IF j < i THEN j ELSE j + 1]
<1> DEFINE a == SubSeq(q, 1, i - 1)
           b == SubSeq(q, i + 1, Len(q))
<1>1. /\ a \in Seq(S) /\ Len(a) = i - 1
      /\ \A j \in 1 .. i - 1 : a[j] = q[j]
  <2>1. \A j \in 1 .. i - 1 : q[j] \in S
    OBVIOUS
  <2>2. i - 1 \in Int /\ (1 <= i - 1 => i - 1 - 1 + 1 = i - 1) /\ (~ 1 <= i - 1 => i - 1 = 0)
    OBVIOUS
  <2> QED BY <2>1, <2>2, SubSeqProperties
<1>2. /\ b \in Seq(S) /\ Len(b) = Len(q) - i
      /\ \A j \in 1 .. Len(q) - i : b[j] = q[i + j]
  <2>1. \A j \in i + 1 .. Len(q) : q[j] \in S
    OBVIOUS
  <2>2. i + 1 \in Int /\ Len(q) \in Int
    OBVIOUS
  <2> QED BY <2>1, <2>2, SubSeqProperties
<1> HIDE DEF a, b
<1>3. /\ a \o b \in Seq(S) /\ Len(a \o b) = Len(a) + Len(b)
      /\ \A j \in 1 .. Len(a) + Len(b) : (a \o b)[j] = IF j <= Len(a) THEN a[j] ELSE b[j - Len(a)]
  BY <1>1, <1>2, ConcatProperties
<1>4. RemoveAt(q, i) = a \o b
  BY DEF RemoveAt, a, b
<1>5. ASSUME NEW j \in 1 .. Len(q) - 1
      PROVE  (a \o b)[j] = q[IF j < i THEN j ELSE j + 1]
  <2>1. CASE j < i
    BY <2>1, <1>1, <1>2, <1>3
  <2>2. CASE ~ j < i
    <3>1. (a \o b)[j] = b[j - (i - 1)] /\ j - (i - 1) \in 1 .. Len(q) - i
      BY <2>2, <1>1, <1>2, <1>3
    <3>2. i + (j - (i - 1)) = j + 1
      OBVIOUS
    <3> QED BY <2>2, <3>1, <3>2, <1>2
  <2> QED BY <2>1, <2>2
<1>6. Len(a) + Len(b) = Len(q) - 1
  BY <1>1, <1>2
<1> QED BY <1>3, <1>4, <1>5, <1>6

-----------------------------------------------------------------------------
(* The numbers of an encoder, and what the functions on its buffer of      *)
(* decoded pictures return.                                                *)

LEMMA NumbersAre ==
  ASSUME NEW par \in HevcConfigs
  PROVE  /\ par \in HevcParameters
         /\ RefDist(par) \in Nat /\ RefDist(par) >= 1
         /\ HevcNumRef(par) \in 1 .. 15
         /\ MaxTask(par) = RefDist(par)
<1>1. par \in HevcParameters
  BY HevcAssumption
<1>2. par.dist \in Nat
  BY <1>1 DEF HevcParameters
<1>3. RefDist(par) \in Nat /\ RefDist(par) >= 1
  BY <1>2 DEF RefDist, HevcMin
<1>4. HevcNumRef(par) \in 1 .. 15
  <2>1. par.refnum \in 0 .. 15
    BY <1>1 DEF HevcParameters
  <2> QED BY <1>3, <2>1 DEF HevcNumRef, HevcMin
<1>5. MaxTask(par) = RefDist(par)
  BY <1>3 DEF MaxTask
<1> QED BY <1>1, <1>3, <1>4, <1>5

\* A full buffer loses one picture, the oldest but for pyramids of P frames;
\* the new one is in it, and unless it has room for one only, another too.
LEMMA UpdateIs ==
  ASSUME NEW par \in HevcConfigs, NEW dpb \in SUBSET Pictures, NEW entry \in Pictures,
         IsFiniteSet(dpb), Cardinality(dpb) <= HevcNumRef(par)
  PROVE  LET new == UpdateDPB(par, dpb, entry)
         IN  /\ new \in SUBSET Pictures /\ IsFiniteSet(new) /\ Cardinality(new) <= HevcNumRef(par)
             /\ entry \in new /\ new \subseteq dpb \cup {entry}
             /\ dpb # {} /\ HevcNumRef(par) # 1 => \E d \in dpb : d \in new
             /\ \A x \in Int : ~par.ppyramid /\ HevcNumRef(par) # 1 /\ (\E d \in dpb : d.poc >= x) =>
                                 \E d \in dpb : d.poc >= x /\ d \in new
<1> DEFINE off == {d \in dpb : (d.poc - Oldest(dpb).poc) % 3 # 0}
           gone == Oldest(IF par.ppyramid /\ off # {} THEN off ELSE dpb)
           full == dpb # {} /\ Cardinality(dpb) = HevcNumRef(par)
           rest == IF full THEN dpb \ {gone} ELSE dpb
           new == UpdateDPB(par, dpb, entry)
<1>1. new = rest \cup {entry}
  BY DEF UpdateDPB
<1>2. dpb # {} => gone \in dpb /\ (~par.ppyramid => \A e \in dpb : gone.poc <= e.poc)
  <2>1. SUFFICES ASSUME dpb # {}
                 PROVE  gone \in dpb /\ (~par.ppyramid => \A e \in dpb : gone.poc <= e.poc)
    OBVIOUS
  <2>2. CASE par.ppyramid /\ off # {}
    <3>1. off \in SUBSET Pictures /\ off \subseteq dpb
      OBVIOUS
    <3> HIDE DEF off
    <3>2. Oldest(off) \in off
      BY <2>2, <3>1, OldestIs
    <3> QED BY <2>2, <3>1, <3>2
  <2>3. CASE ~(par.ppyramid /\ off # {})
    <3>1. gone = Oldest(dpb)
      BY <2>3
    <3> HIDE DEF gone
    <3> QED BY <2>1, <3>1, OldestIs
  <2> QED BY <2>2, <2>3
<1>3. HevcNumRef(par) \in 1 .. 15 /\ Cardinality(dpb) \in Nat
  BY NumbersAre, FS_CardinalityType
<1>4. /\ IsFiniteSet(rest) /\ Cardinality(rest) \in Nat /\ Cardinality(rest) < HevcNumRef(par)
      /\ full => Cardinality(rest) = Cardinality(dpb) - 1
  <2>1. CASE full
    <3>1. gone \in dpb
      BY <1>2, <2>1
    <3> HIDE DEF gone
    <3>2. IsFiniteSet(dpb \ {gone}) /\ Cardinality(dpb \ {gone}) = Cardinality(dpb) - 1
      BY <3>1, FS_RemoveElement
    <3> QED BY <2>1, <3>2, <1>3
  <2>2. CASE ~full
    <3>1. Cardinality(dpb) < HevcNumRef(par)
      <4>1. CASE dpb = {}
        BY <4>1, <1>3, FS_EmptySet
      <4>2. CASE dpb # {}
        BY <2>2, <4>2, <1>3
      <4> QED BY <4>1, <4>2
    <3> QED BY <2>2, <3>1, <1>3
  <2> QED BY <2>1, <2>2
<1>5. IsFiniteSet(new) /\ Cardinality(new) <= HevcNumRef(par)
  <2> HIDE DEF rest, new
  <2>1. IsFiniteSet(rest \cup {entry})
        /\ Cardinality(rest \cup {entry}) =
             IF entry \in rest THEN Cardinality(rest) ELSE Cardinality(rest) + 1
    BY <1>4, FS_AddElement
  <2>2. Cardinality(rest \cup {entry}) <= HevcNumRef(par)
    BY <1>3, <1>4, <2>1
  <2> QED BY <1>1, <2>1, <2>2
<1>6. rest \subseteq dpb
  OBVIOUS
<1>7. dpb # {} /\ HevcNumRef(par) # 1 => \E d \in dpb : d \in rest
  <2>1. CASE full /\ HevcNumRef(par) # 1
    <3>1. Cardinality(rest) > 0
      BY <2>1, <1>3, <1>4
    <3> HIDE DEF rest
    <3>2. rest # {}
      BY <3>1, FS_EmptySet
    <3> QED BY <3>2, <1>6
  <2>2. CASE ~full
    BY <2>2
  <2> QED BY <2>1, <2>2
<1>8. ASSUME NEW x \in Int, ~par.ppyramid, HevcNumRef(par) # 1, NEW d \in dpb, d.poc >= x
      PROVE  \E e \in dpb : e.poc >= x /\ e \in rest
  <2>1. CASE d \in rest
    BY <1>8, <2>1
  <2>2. CASE d \notin rest
    <3>1. d = gone /\ dpb # {}
      BY <2>2
    <3>2. PICK e \in dpb : e \in rest
      BY <1>7, <1>8, <3>1
    <3>3. gone.poc <= e.poc /\ gone \in dpb
      BY <1>2, <1>8, <3>1
    <3> HIDE DEF gone, rest
    <3>4. d.poc \in Int /\ e.poc \in Int
      BY DEF Pictures
    <3>5. e.poc >= x
      BY <1>8, <3>1, <3>3, <3>4
    <3> QED BY <3>2, <3>5
  <2> QED BY <2>1, <2>2
<1> HIDE DEF rest, new
<1>9. new \in SUBSET Pictures /\ entry \in new /\ new \subseteq dpb \cup {entry} /\ rest \subseteq new
  BY <1>1, <1>6
<1> QED BY <1>5, <1>7, <1>8, <1>9 DEF new

\* The lists name pictures of the buffer, and some if there is one.
LEMMA ListsAre ==
  ASSUME NEW par \in HevcConfigs, NEW task, NEW active \in SUBSET Pictures, IsFiniteSet(active),
         task.poc \in Nat, task.kind \in Kinds
  PROVE  LET lists == HevcLists(par, task, active)
         IN  /\ lists[1] \subseteq active /\ lists[2] \subseteq active
             /\ task.kind \in {"IDR", "I"} => lists[1] = {} /\ lists[2] = {}
             /\ ((task.kind = "P" \/ (task.kind = "B" /\ ActiveB(par) # 0)) /\ \E d \in active : d.poc < task.poc)
                  => lists[1] # {}
             /\ (task.kind = "B" /\ \E d \in active : d.poc > task.poc) => lists[2] # {}
<1> DEFINE n == IF task.kind = "P" THEN par.activeP ELSE ActiveB(par)
           past == {d \in active : d.poc < task.poc}
           l0 == IF Cardinality(past) <= n THEN past
                 ELSE IF par.ppyramid THEN PPyramid(past, n) ELSE FirstOf(past, n)
           later == active \ past
           lists == HevcLists(par, task, active)
<1>1. lists = IF task.kind \in {"IDR", "I"} THEN <<{}, {}>>
              ELSE IF task.kind = "P" THEN <<l0, {}>>
              ELSE IF later # {} THEN <<l0, {Oldest(later)}>>
              ELSE IF l0 # {} THEN <<l0, {Oldest(l0)}>>
              ELSE <<{}, {}>>
  BY DEF HevcLists
<1>2. past \in SUBSET Pictures /\ past \subseteq active /\ IsFiniteSet(past) /\ Cardinality(past) \in Nat
  BY FS_Subset, FS_CardinalityType
<1>3. l0 \subseteq past
  BY DEF PPyramid, FirstOf
<1>4. ASSUME n \in Nat \ {0}, past # {}
      PROVE  l0 # {}
  <2> DEFINE d == Oldest(past)
             Before(x) == {e \in past : e.poc < x.poc}
  <2>1. d \in past /\ \A e \in past : d.poc <= e.poc
    BY <1>2, <1>4, OldestIs
  <2>2. \A e \in past : e.poc \in Nat
    BY <1>2 DEF Pictures
  <2> HIDE DEF d, past
  <2>3. Before(d) = {}
    BY <2>1, <2>2
  <2>4. CASE Cardinality(past) <= n
    BY <1>4, <2>4
  <2>5. CASE ~(Cardinality(past) <= n) /\ par.ppyramid
    <3> DEFINE strong == {x \in past : (Newest(past).poc - x.poc) % n = 0} \cup {Oldest(past)}
               Stay(x) == IF x \in strong THEN Before(x) \cap strong ELSE Before(x) \cup strong
    <3>1. l0 = {x \in past : Cardinality(Stay(x)) < n}
      BY <2>5 DEF PPyramid
    <3>2. d \in strong
      BY DEF d
    <3> HIDE DEF strong, Before, l0
    <3>3. Stay(d) = {}
      BY <2>3, <3>2
    <3> HIDE DEF Stay
    <3>4. Cardinality(Stay(d)) < n
      BY <1>4, <3>3, FS_EmptySet
    <3> QED BY <2>1, <3>1, <3>4
  <2>6. CASE ~(Cardinality(past) <= n) /\ ~par.ppyramid
    <3>1. l0 = {x \in past : Cardinality(Before(x)) < n}
      BY <2>6 DEF FirstOf
    <3> HIDE DEF Before, l0
    <3>2. Cardinality(Before(d)) < n
      BY <1>4, <2>3, FS_EmptySet
    <3> QED BY <2>1, <3>1, <3>2
  <2> QED BY <2>4, <2>5, <2>6
<1>5. later # {} => Oldest(later) \in later
  BY OldestIs
<1>6. l0 # {} => Oldest(l0) \in l0
  <2>1. l0 \in SUBSET Pictures
    BY <1>2, <1>3
  <2> HIDE DEF l0
  <2> QED BY <2>1, OldestIs
<1>7. later \subseteq active
  OBVIOUS
<1>8. (task.kind = "P" => n \in Nat \ {0}) /\ ((task.kind = "B" /\ ActiveB(par) # 0) => n \in Nat \ {0})
  <2>1. par.activeP \in 1 .. 3 /\ par.activeBL0 \in 1 .. 3
    BY NumbersAre DEF HevcParameters
  <2> QED BY <2>1 DEF ActiveB
<1>9. (\E d \in active : d.poc < task.poc) => past # {}
  OBVIOUS
<1>10. (\E d \in active : d.poc > task.poc) => later # {}
  <2>1. ASSUME NEW d \in active, d.poc > task.poc
        PROVE  d \in later
    <3>1. d.poc \in Nat
      BY DEF Pictures
    <3> QED BY <2>1, <3>1
  <2> QED BY <2>1
<1> HIDE DEF n, past, l0, later, lists
<1>11. lists[1] \subseteq active /\ lists[2] \subseteq active
  <2>1. CASE task.kind \in {"IDR", "I"}
    BY <1>1, <2>1
  <2>2. CASE task.kind = "P"
    BY <1>1, <1>2, <1>3, <2>2
  <2>3. CASE task.kind = "B"
    BY <1>1, <1>2, <1>3, <1>5, <1>6, <1>7, <2>3
  <2> QED BY <2>1, <2>2, <2>3 DEF Kinds
<1>12. task.kind \in {"IDR", "I"} => lists[1] = {} /\ lists[2] = {}
  BY <1>1
<1>13. ASSUME task.kind = "P" \/ (task.kind = "B" /\ ActiveB(par) # 0), \E d \in active : d.poc < task.poc
       PROVE  lists[1] # {}
  <2>1. l0 # {}
    BY <1>4, <1>8, <1>9, <1>13
  <2> QED BY <1>1, <1>13, <2>1
<1>14. ASSUME task.kind = "B", \E d \in active : d.poc > task.poc
       PROVE  lists[2] # {}
  BY <1>1, <1>10, <1>14
<1> QED BY <1>11, <1>12, <1>13, <1>14 DEF lists

\* What HevcFill makes of a task.
LEMMA FillIs ==
  ASSUME NEW par \in HevcConfigs, NEW task \in Waiting, NEW last \in Lasts,
         IsFiniteSet(last.after), Cardinality(last.after) <= HevcNumRef(par)
  PROVE  LET t == HevcFill(par, task, last)
         IN  /\ t \in Chosen /\ Entry(t) = Entry(task)
             /\ t.frame = task.frame /\ t.poc = task.poc /\ t.kind = task.kind /\ t.ref = task.ref
             /\ t.before = last.after /\ t.active \subseteq last.after
             /\ IsFiniteSet(t.after) /\ Cardinality(t.after) <= HevcNumRef(par)
             /\ t.after \subseteq t.before \cup {Entry(t)}
             /\ IF t.ref THEN Entry(t) \in t.after ELSE t.after \subseteq t.before
             /\ t.l0 \cup t.l1 \subseteq t.active
<1> DEFINE active == InitDPB(task, last)
           unit == Unit(task, last)
           kept == IF task.kind = "IDR" THEN {} ELSE active
           lists == HevcLists(par, task, active)
           after == IF task.ref THEN UpdateDPB(par, kept, Entry(task)) ELSE kept
           t == HevcFill(par, task, last)
<1>1. t = [frame |-> task.frame, poc |-> task.poc, kind |-> task.kind, ref |-> task.ref,
           unit |-> unit, rap |-> IF unit \in {"IDR", "CRA"} THEN task.poc ELSE last.rap,
           before |-> last.after, active |-> active, l0 |-> lists[1], l1 |-> lists[2],
           after |-> after]
  BY DEF HevcFill, Entry
<1>2. /\ task.frame \in Nat /\ task.poc \in Nat /\ task.kind \in Kinds /\ task.ref \in BOOLEAN
      /\ last.rap \in Nat /\ last.after \in SUBSET Pictures
  BY DEF Waiting, Lasts
<1>3. active \subseteq last.after
  BY DEF InitDPB
<1>4. unit \in {"IDR", "CRA", "TRAIL", "RASL"}
  BY DEF Unit
<1>5. active \in SUBSET Pictures /\ IsFiniteSet(active)
  BY <1>2, <1>3, FS_Subset
<1> HIDE DEF active, unit
<1>6. lists[1] \subseteq active /\ lists[2] \subseteq active
  BY <1>2, <1>5, ListsAre
<1>7. /\ kept \in SUBSET Pictures /\ kept \subseteq last.after /\ IsFiniteSet(kept)
      /\ Cardinality(kept) <= HevcNumRef(par)
  <2>1. kept \subseteq last.after
    BY <1>3
  <2>2. IsFiniteSet(kept) /\ Cardinality(kept) <= Cardinality(last.after)
    BY <2>1, FS_Subset
  <2>3. Cardinality(kept) \in Nat /\ Cardinality(last.after) \in Nat /\ HevcNumRef(par) \in 1 .. 15
    BY <2>2, FS_CardinalityType, NumbersAre
  <2> HIDE DEF kept
  <2> QED BY <2>1, <2>2, <2>3, <1>2
<1>8. Entry(task) \in Pictures
  BY <1>2 DEF Entry, Pictures
<1> HIDE DEF kept, lists
<1>9. /\ after \in SUBSET Pictures /\ IsFiniteSet(after) /\ Cardinality(after) <= HevcNumRef(par)
      /\ after \subseteq last.after \cup {Entry(task)}
      /\ task.ref => Entry(task) \in after
      /\ ~task.ref => after \subseteq last.after
  <2>1. CASE task.ref
    <3>1. after = UpdateDPB(par, kept, Entry(task))
      BY <2>1
    <3> HIDE DEF after
    <3>2. /\ after \in SUBSET Pictures /\ IsFiniteSet(after) /\ Cardinality(after) <= HevcNumRef(par)
          /\ Entry(task) \in after /\ after \subseteq kept \cup {Entry(task)}
      BY <3>1, <1>7, <1>8, UpdateIs
    <3> QED BY <2>1, <3>2, <1>7
  <2>2. CASE ~task.ref
    BY <2>2, <1>7
  <2> QED BY <2>1, <2>2
<1> HIDE DEF after
<1>10. t \in Chosen
  <2>1. (IF unit \in {"IDR", "CRA"} THEN task.poc ELSE last.rap) \in Nat
    BY <1>2
  <2>2. lists[1] \in SUBSET Pictures /\ lists[2] \in SUBSET Pictures
    BY <1>5, <1>6
  <2> QED BY <1>1, <1>2, <1>4, <1>5, <1>9, <2>1, <2>2 DEF Chosen
<1>11. Entry(t) = Entry(task)
  BY <1>1 DEF Entry
<1>12. /\ t.frame = task.frame /\ t.poc = task.poc /\ t.kind = task.kind /\ t.ref = task.ref
       /\ t.before = last.after /\ t.active = active /\ t.after = after
       /\ t.l0 = lists[1] /\ t.l1 = lists[2]
  BY <1>1
<1> HIDE DEF t
<1> QED BY <1>2, <1>3, <1>6, <1>9, <1>10, <1>11, <1>12 DEF t

-----------------------------------------------------------------------------
(* Which task is taken. *)

\* Reordering a pyramid of B frames gives them places, and makes some of them
\* references.
Renamed(queue, placed) ==
  /\ placed \in Seq(Waiting) /\ Len(placed) = Len(queue)
  /\ \A j \in 1 .. Len(queue) :
       /\ placed[j].frame = queue[j].frame /\ placed[j].poc = queue[j].poc
       /\ placed[j].kind = queue[j].kind /\ (queue[j].ref => placed[j].ref)

LEMMA PlaceIs ==
  ASSUME NEW p \in (0 .. Unplaced - 1) \X BOOLEAN
  PROVE  p[1] \in Nat /\ p[2] \in BOOLEAN
<1>1. \A m \in Int : \A q \in (0 .. m) \X BOOLEAN : q[1] \in 0 .. m /\ q[2] \in BOOLEAN
  OBVIOUS
<1>2. Unplaced - 1 \in Int
  BY DEF Unplaced
<1>3. \A m \in Int : \A x \in 0 .. m : x \in Nat
  OBVIOUS
<1> QED BY <1>1, <1>2, <1>3, Zenon

LEMMA PlacedAre ==
  ASSUME NEW par \in HevcConfigs, par.bpyramid, NEW queue \in Seq(Waiting),
         NEW len \in 0 .. Len(queue), len <= MaxTask(par), NEW ready \in SUBSET (1 .. len), ready # {}
  PROVE  Renamed(queue, BPyrReorder(queue, ready))
<1> DEFINE size == Cardinality(ready)
           at(i) == Cardinality({j \in ready : j < i})
           place == [i \in ready |-> GetBiFrameLocation(at(i), size)]
           placed == [i \in DOMAIN queue |->
                        IF i \in ready THEN [queue[i] EXCEPT !.bpo = place[i][1],
                                                             !.ref = @ \/ place[i][2]]
                        ELSE queue[i]]
<1>1. BPyrReorder(queue, ready) = IF queue[Min(ready)].bpo # Unplaced THEN queue ELSE placed
  BY DEF BPyrReorder
<1>2. MaxTask(par) \in Nat /\ DOMAIN queue = 1 .. Len(queue) /\ \A i \in 1 .. Len(queue) : queue[i] \in Waiting
  BY NumbersAre, SeqIs
<1>3. IsFiniteSet(ready) /\ size \in 1 .. MaxTask(par)
  <2>1. IsFiniteSet(1 .. len) /\ Cardinality(1 .. len) = len
    <3>1. 1 \in Int /\ len \in Int /\ len >= 0
      BY SeqIs
    <3>2. IsFiniteSet(1 .. len) /\ Cardinality(1 .. len) = IF 1 > len THEN 0 ELSE len - 1 + 1
      BY <3>1, FS_Interval
    <3> QED BY <3>1, <3>2
  <2>2. IsFiniteSet(ready) /\ size <= len
    BY <2>1, FS_Subset
  <2>3. size \in Nat /\ size # 0
    BY <2>2, FS_CardinalityType, FS_EmptySet
  <2> HIDE DEF size
  <2>4. len \in Nat
    BY SeqIs
  <2> QED BY <2>2, <2>3, <2>4, <1>2
<1>4. ASSUME NEW i \in ready
      PROVE  place[i] \in (0 .. Unplaced - 1) \X BOOLEAN
  <2> DEFINE below == {j \in ready : j < i}
  <2>1. below \in SUBSET ready /\ i \notin below
    OBVIOUS
  <2>2. IsFiniteSet(below) /\ at(i) <= size /\ (at(i) = size => below = ready)
    BY <1>3, <2>1, FS_Subset
  <2>3. at(i) \in Nat
    BY <2>2, FS_CardinalityType
  <2> HIDE DEF below
  <2>4. at(i) # size
    BY <2>1, <2>2
  <2> HIDE DEF at, size
  <2>5. at(i) \in 0 .. MaxTask(par) /\ at(i) < size
    BY <1>2, <1>3, <2>2, <2>3, <2>4
  <2>6. GetBiFrameLocation(at(i), size) \in (0 .. Unplaced - 1) \X BOOLEAN
    BY <1>3, <2>5, HevcPlaces
  <2> QED BY <2>6
<1> HIDE DEF size, at, place
<1>5. ASSUME NEW i \in 1 .. Len(queue)
      PROVE  /\ placed[i] \in Waiting /\ placed[i].frame = queue[i].frame /\ placed[i].poc = queue[i].poc
             /\ placed[i].kind = queue[i].kind /\ (queue[i].ref => placed[i].ref)
  <2>1. queue[i] \in Waiting
    BY <1>2
  <2>2. CASE i \in ready
    <3>1. place[i] \in (0 .. Unplaced - 1) \X BOOLEAN
      BY <1>4, <2>2
    <3> DEFINE b == place[i][1]
               r == queue[i].ref \/ place[i][2]
    <3>2. b \in Nat /\ place[i][2] \in BOOLEAN
      BY <3>1, PlaceIs
    <3>3. queue[i].ref \in BOOLEAN /\ r \in BOOLEAN /\ (queue[i].ref => r)
      BY <2>1, <3>2 DEF Waiting
    <3>4. placed[i] = [queue[i] EXCEPT !.bpo = b, !.ref = r]
      BY <1>2, <2>2
    <3> HIDE DEF placed, b, r
    <3>5. placed[i] \in Waiting /\ placed[i].frame = queue[i].frame /\ placed[i].poc = queue[i].poc
          /\ placed[i].kind = queue[i].kind /\ placed[i].ref = r
      <4> DEFINE R == BOOLEAN
      <4>1. r \in R /\ queue[i] \in [frame : Nat, poc : Nat, kind : Kinds, ref : R, bpo : Nat]
        BY <2>1, <3>3 DEF Waiting
      <4>2. placed[i] \in [frame : Nat, poc : Nat, kind : Kinds, ref : R, bpo : Nat] => placed[i] \in Waiting
        BY DEF Waiting
      <4> HIDE DEF R
      <4>3. placed[i] \in [frame : Nat, poc : Nat, kind : Kinds, ref : R, bpo : Nat]
        BY <3>2, <3>4, <4>1
      <4>4. placed[i].frame = queue[i].frame /\ placed[i].poc = queue[i].poc
        BY <3>2, <3>4, <4>1
      <4>5. placed[i].kind = queue[i].kind /\ placed[i].ref = r
        BY <3>2, <3>4, <4>1
      <4> QED BY <4>2, <4>3, <4>4, <4>5
    <3> QED BY <3>3, <3>5
  <2>3. CASE i \notin ready
    BY <1>2, <2>1, <2>3
  <2> HIDE DEF placed
  <2> QED BY <2>2, <2>3
<1>6. placed \in Seq(Waiting) /\ Len(placed) = Len(queue)
  <2>1. placed \in [1 .. Len(queue) -> Waiting]
    <3>1. DOMAIN placed = 1 .. Len(queue) /\ placed = [i \in 1 .. Len(queue) |-> placed[i]]
      BY <1>2
    <3> HIDE DEF placed
    <3> QED BY <1>5, <3>1
  <2> HIDE DEF placed
  <2>2. Len(queue) \in Nat
    BY SeqIs
  <2> QED BY <2>1, <2>2
<1> HIDE DEF placed
<1>7. Renamed(queue, placed)
  BY <1>5, <1>6 DEF Renamed
<1>8. Renamed(queue, queue)
  BY DEF Renamed
<1> QED BY <1>1, <1>7, <1>8

\* What FindFrameToEncode answers for the first len of a queue: that there is
\* nothing, a B frame whose later picture is coded, a frame of another kind,
\* or the last B frame made a P frame.
Still(dpb, queue, first, last) ==
  \A j \in first .. last : queue[j].kind = "B" /\ ~Ready(dpb, queue[j])
Nothing(dpb, queue, len, flush) == Still(dpb, queue, 1, len) /\ (flush => len = 0)
Picks(par, dpb, queue, len, placed, i) ==
  /\ i \in 1 .. len /\ Renamed(queue, placed) /\ (~par.bpyramid => placed = queue)
  /\ (\A j \in 1 .. i : queue[j].kind = "B") /\ Ready(dpb, queue[i])
Advances(dpb, queue, len, i) ==
  i \in 1 .. len /\ queue[i].kind # "B" /\ Still(dpb, queue, 1, i - 1)
Turned(queue, len) == [queue EXCEPT ![len].kind = "P", ![len].ref = TRUE]
Turns(dpb, queue, len, flush) == flush /\ len > 0 /\ Still(dpb, queue, 1, len)

LEMMA FindIs ==
  ASSUME NEW par \in HevcConfigs, NEW dpb \in SUBSET Pictures, NEW queue \in Seq(Waiting),
         NEW len \in 0 .. Len(queue), len <= MaxTask(par), NEW flush
  PROVE  LET found == FindFrameToEncode(par, dpb, queue, len, flush)
         IN  \/ found = <<queue, 0>> /\ Nothing(dpb, queue, len, flush)
             \/ \E placed, i : found = <<placed, i>> /\ Picks(par, dpb, queue, len, placed, i)
             \/ \E i : found = <<queue, i>> /\ Advances(dpb, queue, len, i)
             \/ found = <<Turned(queue, len), len>> /\ Turns(dpb, queue, len, flush)
<1> DEFINE leading == {i \in 1 .. len : \A j \in 1 .. i : queue[j].kind = "B"}
           ready == {i \in leading : \E d \in dpb : d.poc > queue[i].poc}
           placed == BPyrReorder(queue, ready)
           bpo == Min({placed[i].bpo : i \in ready})
           found == FindFrameToEncode(par, dpb, queue, len, flush)
<1>1. found = IF ready # {} /\ par.bpyramid
                THEN <<placed, Min({i \in ready : placed[i].bpo = bpo})>>
              ELSE IF ready # {} THEN <<queue, Min(ready)>>
              ELSE IF Cardinality(leading) < len THEN <<queue, Cardinality(leading) + 1>>
              ELSE IF flush /\ len > 0 THEN <<[queue EXCEPT ![len].kind = "P", ![len].ref = TRUE], len>>
              ELSE <<queue, 0>>
  BY DEF FindFrameToEncode
<1>2. len \in Nat /\ Len(queue) \in Nat
  BY SeqIs
<1>3. /\ ready \in SUBSET (1 .. len)
      /\ \A i \in ready : Ready(dpb, queue[i]) /\ \A j \in 1 .. i : queue[j].kind = "B"
  BY DEF Ready
<1>4. \A i \in leading : i \notin ready => ~Ready(dpb, queue[i]) /\ queue[i].kind = "B"
  BY <1>2 DEF Ready
<1> DEFINE others == {i \in 1 .. len : queue[i].kind # "B"}
<1>8. CASE ready = {} /\ others # {}
  <2>1. others \in SUBSET Nat
    OBVIOUS
  <2>2. PICK k \in others : \A y \in others : k <= y
    <3> HIDE DEF others
    <3> QED BY <1>8, <2>1, LeastIs
  <2>3. k \in 1 .. len /\ queue[k].kind # "B" /\ \A j \in 1 .. k - 1 : queue[j].kind = "B"
    BY <2>2, <1>2
  <2>4. leading = 1 .. k - 1
    <3>1. \A i \in leading : i \in 1 .. k - 1
      BY <2>3, <1>2
    <3>2. \A i \in 1 .. k - 1 : i \in leading
      BY <2>3, <1>2
    <3> HIDE DEF leading
    <3> QED BY <3>1, <3>2
  <2> HIDE DEF leading, ready, others
  <2>5. Cardinality(leading) = k - 1
    <3>1. 1 \in Int /\ k - 1 \in Int /\ (~(1 > k - 1) => k - 1 - 1 + 1 = k - 1) /\ (1 > k - 1 => k - 1 = 0)
      BY <2>3
    <3>2. Cardinality(1 .. k - 1) = IF 1 > k - 1 THEN 0 ELSE k - 1 - 1 + 1
      BY <3>1, FS_Interval
    <3> QED BY <2>4, <3>1, <3>2
  <2>6. found = <<queue, k>>
    BY <1>1, <1>2, <2>3, <2>5, <1>8
  <2>7. Still(dpb, queue, 1, k - 1)
    BY <1>4, <2>4, <1>8 DEF Still
  <2> HIDE DEF found
  <2> QED BY <2>3, <2>6, <2>7 DEF Advances, found
<1>9. CASE ready = {} /\ others = {}
  <2>1. leading = 1 .. len
    <3>1. \A i \in 1 .. len : \A j \in 1 .. i : j \in 1 .. len
      BY <1>2
    <3> QED BY <1>9, <3>1
  <2> HIDE DEF leading, ready, others
  <2>2. Cardinality(leading) = len
    <3>1. 1 \in Int /\ len \in Int /\ (~(1 > len) => len - 1 + 1 = len) /\ (1 > len => len = 0)
      BY <1>2
    <3>2. Cardinality(1 .. len) = IF 1 > len THEN 0 ELSE len - 1 + 1
      BY <3>1, FS_Interval
    <3> QED BY <2>1, <3>1, <3>2
  <2>3. Still(dpb, queue, 1, len)
    BY <1>4, <2>1, <1>9 DEF Still
  <2>4. found = IF flush /\ len > 0 THEN <<Turned(queue, len), len>> ELSE <<queue, 0>>
    BY <1>1, <1>2, <2>2, <1>9 DEF Turned
  <2> HIDE DEF found
  <2>5. CASE flush /\ len > 0
    BY <2>3, <2>4, <2>5 DEF Turns, found
  <2>6. CASE ~(flush /\ len > 0)
    <3>1. flush => len = 0
      BY <2>6, <1>2
    <3> QED BY <2>3, <2>4, <2>6, <3>1 DEF Nothing, found
  <2> QED BY <2>5, <2>6
<1>10. CASE ready # {}
  <2>1. \E q, i : found = <<q, i>> /\ i \in ready /\ Renamed(queue, q) /\ (~par.bpyramid => q = queue)
    <3>1. CASE par.bpyramid
      <4> DEFINE best == {i \in ready : placed[i].bpo = bpo}
                 bpos == {placed[i].bpo : i \in ready}
      <4>1. Renamed(queue, placed)
        <5> HIDE DEF ready
        <5> QED BY <1>3, <1>10, <3>1, PlacedAre
      <4>2. found = <<placed, Min(best)>>
        BY <1>1, <1>10, <3>1
      <4> HIDE DEF ready, placed
      <4>3. bpos \in SUBSET Nat /\ bpos # {}
        <5>1. \A i \in ready : placed[i] \in Waiting
          BY <1>2, <1>3, <4>1, SeqIs DEF Renamed
        <5>2. \A i \in ready : placed[i].bpo \in Nat
          BY <5>1 DEF Waiting
        <5> QED BY <5>2, <1>10
      <4>4. Min(bpos) \in bpos
        <5> HIDE DEF bpos
        <5> QED BY <4>3, MinIs
      <4>5. best \in SUBSET Nat /\ best # {}
        <5>1. PICK i \in ready : bpo = placed[i].bpo
          BY <4>4
        <5> HIDE DEF bpo
        <5>2. best \subseteq ready /\ i \in best
          BY <5>1
        <5>3. ready \in SUBSET Nat
          BY <1>2, <1>3
        <5> QED BY <5>2, <5>3
      <4>6. Min(best) \in best
        <5> HIDE DEF best
        <5> QED BY <4>5, MinIs
      <4>7. Min(best) \in ready
        BY <4>6
      <4> HIDE DEF best, found
      <4> QED BY <4>1, <4>2, <4>7, <3>1
    <3>2. CASE ~par.bpyramid
      <4>1. found = <<queue, Min(ready)>>
        BY <1>1, <1>10, <3>2
      <4> HIDE DEF ready, found
      <4>2. ready \in SUBSET Nat
        BY <1>2, <1>3
      <4>3. Min(ready) \in ready
        BY <1>10, <4>2, MinIs
      <4> QED BY <4>1, <4>3 DEF Renamed
    <3> QED BY <3>1, <3>2
  <2> HIDE DEF ready, found
  <2>2. PICK q, i : found = <<q, i>> /\ i \in ready /\ Renamed(queue, q) /\ (~par.bpyramid => q = queue)
    BY <2>1
  <2>3. Picks(par, dpb, queue, len, q, i)
    BY <2>2, <1>3 DEF Picks
  <2> QED BY <2>2, <2>3 DEF found
<1> QED BY <1>8, <1>9, <1>10

LEMMA TurnedIs ==
  ASSUME NEW queue \in Seq(Waiting), NEW len \in 1 .. Len(queue)
  PROVE  /\ Turned(queue, len) \in Seq(Waiting) /\ Len(Turned(queue, len)) = Len(queue)
         /\ Turned(queue, len)[len].frame = queue[len].frame /\ Turned(queue, len)[len].poc = queue[len].poc
         /\ Turned(queue, len)[len].kind = "P" /\ Turned(queue, len)[len].ref
         /\ \A j \in 1 .. Len(queue) : j # len => Turned(queue, len)[j] = queue[j]
<1> DEFINE one == [queue[len] EXCEPT !.kind = "P"]
           two == [one EXCEPT !.ref = TRUE]
           turned == Turned(queue, len)
           K == Kinds
           R == BOOLEAN
           yes == TRUE
<1>1. DOMAIN queue = 1 .. Len(queue) /\ Len(queue) \in Nat /\ queue[len] \in Waiting
      /\ \A j \in 1 .. Len(queue) : queue[j] \in Waiting
  BY SeqIs
<1>2. DOMAIN turned = 1 .. Len(queue) /\ turned[len] = two
      /\ \A j \in 1 .. Len(queue) : j # len => turned[j] = queue[j]
  BY <1>1 DEF Turned
<1>3. "P" \in K /\ yes \in R /\ queue[len] \in [frame : Nat, poc : Nat, kind : K, ref : R, bpo : Nat]
  BY <1>1 DEF Waiting, Kinds
<1> HIDE DEF K, R, yes
<1>4. one \in [frame : Nat, poc : Nat, kind : K, ref : R, bpo : Nat]
      /\ one.frame = queue[len].frame /\ one.poc = queue[len].poc /\ one.kind = "P"
  BY <1>3
<1>5. two = [one EXCEPT !.ref = yes]
  BY DEF yes
<1> HIDE DEF one, two
<1>6. two \in [frame : Nat, poc : Nat, kind : K, ref : R, bpo : Nat]
      /\ two.frame = one.frame /\ two.poc = one.poc /\ two.kind = one.kind /\ two.ref = yes
  BY <1>3, <1>4, <1>5
<1>7. two \in Waiting /\ two.frame = queue[len].frame /\ two.poc = queue[len].poc /\ two.kind = "P" /\ two.ref
  BY <1>4, <1>6 DEF Waiting, K, R, yes
<1>8. turned \in Seq(Waiting) /\ Len(turned) = Len(queue)
  <2>1. turned = [j \in 1 .. Len(queue) |-> turned[j]]
    BY <1>2 DEF Turned
  <2> HIDE DEF turned
  <2>2. \A j \in 1 .. Len(queue) : turned[j] \in Waiting
    BY <1>1, <1>2, <1>7
  <2>3. turned \in [1 .. Len(queue) -> Waiting]
    BY <2>1, <2>2
  <2> QED BY <1>1, <2>3
<1> HIDE DEF turned
<1> QED BY <1>2, <1>7, <1>8 DEF turned

\* Where the next IDR picture cuts the queue.
Period(queue, len) ==
  /\ len \in 0 .. Len(queue) /\ (queue # << >> => len >= 1)
  /\ \A i \in 2 .. len : queue[i].kind # "IDR"
  /\ len < Len(queue) => queue[len + 1].kind = "IDR"

\* What GetTask does: it leaves all as it is, or it takes the task at i of the
\* queue, as it was placed.
Flushes(queue, len, surface) == ~surface \/ len < Len(queue)
Chooses(queue, len, surface, placed, i) ==
  \/ Picks(hevcPar, hevcLast.after, queue, len, placed, i)
  \/ placed = queue /\ Advances(hevcLast.after, queue, len, i)
  \/ /\ placed = Turned(queue, len) /\ i = len
     /\ Turns(hevcLast.after, queue, len, Flushes(queue, len, surface))
Idle(queue) == hevcQueue' = queue /\ hevcTask' = hevcTask /\ hevcLast' = hevcLast
Hands(placed, i) ==
  /\ hevcQueue' = RemoveAt(placed, i)
  /\ hevcTask' = HevcFill(hevcPar, placed[i], hevcLast)
  /\ hevcLast' = [poc |-> hevcTask'.poc, rap |-> hevcTask'.rap, after |-> hevcTask'.after]

LEMMA TaskIs ==
  ASSUME hevcPar \in HevcConfigs, hevcLast.after \in SUBSET Pictures,
         NEW queue \in Seq(Waiting), Len(queue) <= MaxTask(hevcPar), NEW surface,
         GetTask(queue, surface)
  PROVE  \E len :
           /\ Period(queue, len)
           /\ \/ Nothing(hevcLast.after, queue, len, Flushes(queue, len, surface)) /\ Idle(queue)
              \/ \E placed, i : Chooses(queue, len, surface, placed, i) /\ Hands(placed, i)
<1> DEFINE later == {i \in DOMAIN queue : i > 1 /\ queue[i].kind = "IDR"}
           len == IF later = {} THEN Len(queue) ELSE Min(later) - 1
           flush == ~surface \/ later # {}
           found == FindFrameToEncode(hevcPar, hevcLast.after, queue, len, flush)
           task == HevcFill(hevcPar, found[1][found[2]], hevcLast)
<1>1. DOMAIN queue = 1 .. Len(queue) /\ Len(queue) \in Nat /\ (queue = << >> <=> Len(queue) = 0)
  BY SeqIs
<1>2. Period(queue, len) /\ (later # {} <=> len < Len(queue))
  <2>1. CASE later = {}
    <3>1. len = Len(queue) /\ \A i \in 2 .. Len(queue) : queue[i].kind # "IDR"
      BY <2>1, <1>1
    <3> HIDE DEF len, later
    <3> QED BY <1>1, <2>1, <3>1 DEF Period
  <2>2. CASE later # {}
    <3>1. later \in SUBSET Nat
      BY <1>1
    <3>2. Min(later) \in later /\ \A y \in later : Min(later) <= y
      <4> HIDE DEF later
      <4> QED BY <2>2, <3>1, MinIs
    <3>3. PICK m \in 2 .. Len(queue) : queue[m].kind = "IDR" /\ m = Min(later) /\ len = m - 1
      <4>1. Min(later) \in 1 .. Len(queue) /\ Min(later) > 1 /\ queue[Min(later)].kind = "IDR"
        BY <1>1, <3>2
      <4>2. len = Min(later) - 1
        BY <2>2
      <4> HIDE DEF len, later
      <4> QED BY <4>1, <4>2, <1>1
    <3>4. \A i \in 2 .. m - 1 : queue[i].kind # "IDR"
      <4>1. \A i \in 2 .. m - 1 : i \in DOMAIN queue /\ i > 1 /\ ~(m <= i)
        BY <1>1
      <4> QED BY <4>1, <3>2, <3>3
    <3> HIDE DEF len, later
    <3> QED BY <1>1, <2>2, <3>3, <3>4 DEF Period
  <2> QED BY <2>1, <2>2
<1>3. /\ found[2] = 0 => hevcQueue' = found[1] /\ UNCHANGED <<hevcTask, hevcLast>>
      /\ found[2] # 0 => /\ hevcQueue' = RemoveAt(found[1], found[2])
                         /\ hevcTask' = task
                         /\ hevcLast' = [poc |-> task.poc, rap |-> task.rap, after |-> task.after]
  <2>1. IF found[2] = 0 THEN hevcQueue' = found[1] /\ UNCHANGED <<hevcTask, hevcLast>>
        ELSE /\ hevcQueue' = RemoveAt(found[1], found[2])
             /\ hevcTask' = task
             /\ hevcLast' = [poc |-> task.poc, rap |-> task.rap, after |-> task.after]
    BY Zenon DEF GetTask
  <2> HIDE DEF task, found
  <2> QED BY <2>1
<1> HIDE DEF later, len
<1>4. len \in 0 .. Len(queue) /\ len <= MaxTask(hevcPar)
  BY <1>1, <1>2, NumbersAre DEF Period
<1>5. \/ found = <<queue, 0>> /\ Nothing(hevcLast.after, queue, len, flush)
      \/ \E placed, i : found = <<placed, i>> /\ Picks(hevcPar, hevcLast.after, queue, len, placed, i)
      \/ \E i : found = <<queue, i>> /\ Advances(hevcLast.after, queue, len, i)
      \/ found = <<Turned(queue, len), len>> /\ Turns(hevcLast.after, queue, len, flush)
  BY <1>4, FindIs
<1> DEFINE cut == Flushes(queue, len, surface)
<1>6. flush <=> cut
  BY <1>2 DEF Flushes
<1> HIDE DEF found, flush, cut
<1>7. CASE found = <<queue, 0>> /\ Nothing(hevcLast.after, queue, len, flush)
  <2>1. Nothing(hevcLast.after, queue, len, cut)
    BY <1>6, <1>7 DEF Nothing
  <2>2. Idle(queue)
    BY <1>3, <1>7 DEF Idle
  <2> QED BY <1>2, <2>1, <2>2 DEF cut
<1>8. ASSUME NEW placed, NEW i, found = <<placed, i>>, i # 0, Chooses(queue, len, surface, placed, i)
      PROVE  \E p, j : Chooses(queue, len, surface, p, j) /\ Hands(p, j)
  <2>1. found[1] = placed /\ found[2] = i
    BY <1>8
  <2>2. Hands(placed, i)
    BY <1>3, <1>8, <2>1 DEF Hands
  <2> QED BY <1>8, <2>2, Zenon
<1>9. CASE \E placed, i : found = <<placed, i>> /\ Picks(hevcPar, hevcLast.after, queue, len, placed, i)
  <2>1. PICK placed, i : found = <<placed, i>> /\ Picks(hevcPar, hevcLast.after, queue, len, placed, i)
    BY <1>9
  <2>2. i # 0 /\ Chooses(queue, len, surface, placed, i)
    BY <2>1 DEF Picks, Chooses
  <2> QED BY <1>2, <1>8, <2>1, <2>2, Zenon
<1>10. CASE \E i : found = <<queue, i>> /\ Advances(hevcLast.after, queue, len, i)
  <2>1. PICK i : found = <<queue, i>> /\ Advances(hevcLast.after, queue, len, i)
    BY <1>10
  <2>2. i # 0
    BY <2>1 DEF Advances
  <2>3. Chooses(queue, len, surface, queue, i)
    BY <2>1 DEF Chooses
  <2> QED BY <1>2, <1>8, <2>1, <2>2, <2>3, Zenon
<1>11. CASE found = <<Turned(queue, len), len>> /\ Turns(hevcLast.after, queue, len, flush)
  <2>1. len # 0 /\ Turns(hevcLast.after, queue, len, cut)
    BY <1>4, <1>6, <1>11 DEF Turns
  <2>2. Chooses(queue, len, surface, Turned(queue, len), len)
    BY <2>1 DEF Chooses, cut
  <2> QED BY <1>2, <1>8, <1>11, <2>1, <2>2, Zenon
<1> QED BY <1>5, <1>7, <1>9, <1>10, <1>11

-----------------------------------------------------------------------------
(* What is queued, in hand and in the buffer. *)

Sorted(queue) == \A i, j \in DOMAIN queue : i < j => queue[i].frame < queue[j].frame

\* GetTask leaves all as it is, or makes one frame of the queue the task in
\* hand.
Takes(queue) ==
  /\ hevcTask' \in Chosen /\ hevcTask'.frame \in FramesIn(queue)
  /\ hevcQueue' \in Seq(Waiting) /\ Len(hevcQueue') = Len(queue) - 1
  /\ Sorted(queue) => Sorted(hevcQueue') /\ FramesIn(hevcQueue') = FramesIn(queue) \ {hevcTask'.frame}
  /\ hevcLast' \in Lasts /\ hevcLast'.after = hevcTask'.after /\ hevcTask'.before = hevcLast.after
  /\ hevcTask'.active \subseteq hevcTask'.before
  /\ IsFiniteSet(hevcTask'.after) /\ Cardinality(hevcTask'.after) <= HevcNumRef(hevcPar)
  /\ hevcTask'.after \subseteq hevcTask'.before \cup {Entry(hevcTask')}
  /\ IF hevcTask'.ref THEN Entry(hevcTask') \in hevcTask'.after
                      ELSE hevcTask'.after \subseteq hevcTask'.before
  /\ hevcTask'.l0 \cup hevcTask'.l1 \subseteq hevcTask'.active

LEMMA LeftIs ==
  ASSUME NEW queue \in Seq(Waiting), NEW placed \in Seq(Waiting), Len(placed) = Len(queue),
         \A j \in 1 .. Len(queue) : placed[j].frame = queue[j].frame,
         NEW i \in 1 .. Len(queue), Sorted(queue)
  PROVE  /\ Sorted(RemoveAt(placed, i))
         /\ FramesIn(RemoveAt(placed, i)) = FramesIn(queue) \ {queue[i].frame}
<1> DEFINE left == RemoveAt(placed, i)
           at(j) == IF j < i THEN j ELSE j + 1
<1>1. /\ left \in Seq(Waiting) /\ Len(left) = Len(queue) - 1
      /\ \A j \in 1 .. Len(queue) - 1 : left[j] = placed[at(j)]
  BY RemoveAtIs
<1>2. /\ DOMAIN left = 1 .. Len(queue) - 1 /\ DOMAIN queue = 1 .. Len(queue) /\ Len(queue) \in Nat
      /\ \A j \in 1 .. Len(queue) : queue[j].frame \in Nat
  <2>1. \A j \in 1 .. Len(queue) : queue[j] \in Waiting
    BY SeqIs
  <2> HIDE DEF left
  <2> QED BY <1>1, <2>1, SeqIs DEF Waiting
<1> HIDE DEF left
<1>3. \A j \in 1 .. Len(queue) - 1 : at(j) \in 1 .. Len(queue) /\ at(j) # i /\ left[j].frame = queue[at(j)].frame
  BY <1>1, <1>2
<1>4. \A j, k \in 1 .. Len(queue) - 1 : j < k => at(j) < at(k)
  BY <1>2
<1>5. \A j \in 1 .. Len(queue) : j # i => \E k \in 1 .. Len(queue) - 1 : at(k) = j
  <2> TAKE j \in 1 .. Len(queue)
  <2>1. CASE j < i
    <3>1. j \in 1 .. Len(queue) - 1 /\ at(j) = j
      BY <2>1, <1>2
    <3> QED BY <3>1
  <2>2. CASE j > i
    <3>1. j - 1 \in 1 .. Len(queue) - 1 /\ at(j - 1) = j
      BY <2>2, <1>2
    <3> QED BY <3>1
  <2> QED BY <2>1, <2>2, <1>2
<1> HIDE DEF at
<1>6. \A j \in 1 .. Len(queue) : queue[j].frame = queue[i].frame => j = i
  <2> TAKE j \in 1 .. Len(queue)
  <2>1. j < i => queue[j].frame < queue[i].frame
    BY <1>2 DEF Sorted
  <2>2. i < j => queue[i].frame < queue[j].frame
    BY <1>2 DEF Sorted
  <2> QED BY <2>1, <2>2, <1>2
<1>7. Sorted(left)
  BY <1>2, <1>3, <1>4 DEF Sorted
<1>8. FramesIn(left) = FramesIn(queue) \ {queue[i].frame}
  <2>1. ASSUME NEW f \in FramesIn(left)
        PROVE  f \in FramesIn(queue) \ {queue[i].frame}
    <3>1. PICK k \in 1 .. Len(queue) - 1 : f = left[k].frame
      BY <1>2 DEF FramesIn
    <3> DEFINE j == at(k)
    <3>2. j \in 1 .. Len(queue) /\ j # i /\ f = queue[j].frame
      BY <1>3, <3>1
    <3> HIDE DEF j
    <3> QED BY <1>2, <1>6, <3>2 DEF FramesIn
  <2>2. ASSUME NEW f \in FramesIn(queue), f # queue[i].frame
        PROVE  f \in FramesIn(left)
    <3>1. PICK j \in 1 .. Len(queue) : f = queue[j].frame
      BY <1>2 DEF FramesIn
    <3>2. PICK k \in 1 .. Len(queue) - 1 : at(k) = j
      BY <1>5, <2>2, <3>1
    <3> QED BY <1>2, <1>3, <3>1, <3>2 DEF FramesIn
  <2> QED BY <2>1, <2>2
<1> QED BY <1>7, <1>8 DEF left

LEMMA TookIs ==
  ASSUME hevcPar \in HevcConfigs, hevcLast \in Lasts,
         IsFiniteSet(hevcLast.after), Cardinality(hevcLast.after) <= HevcNumRef(hevcPar),
         NEW queue \in Seq(Waiting), Len(queue) <= MaxTask(hevcPar), NEW surface,
         GetTask(queue, surface)
  PROVE  \/ Idle(queue) /\ (surface \/ queue = << >>)
         \/ Takes(queue)
<1>1. hevcLast.after \in SUBSET Pictures
  BY DEF Lasts
<1>2. PICK len :
        /\ Period(queue, len)
        /\ \/ Nothing(hevcLast.after, queue, len, Flushes(queue, len, surface)) /\ Idle(queue)
           \/ \E placed, i : Chooses(queue, len, surface, placed, i) /\ Hands(placed, i)
  BY <1>1, TaskIs
<1>3. Len(queue) \in Nat /\ len \in 0 .. Len(queue) /\ (queue # << >> => len >= 1)
  BY <1>2, SeqIs DEF Period
<1>4. CASE Nothing(hevcLast.after, queue, len, Flushes(queue, len, surface)) /\ Idle(queue)
  BY <1>3, <1>4 DEF Nothing, Flushes
<1>5. ASSUME NEW placed, NEW i, Chooses(queue, len, surface, placed, i), Hands(placed, i)
      PROVE  Takes(queue)
  <2>1. /\ i \in 1 .. Len(queue) /\ placed \in Seq(Waiting) /\ Len(placed) = Len(queue)
        /\ \A j \in 1 .. Len(queue) : placed[j].frame = queue[j].frame
    <3>1. CASE Picks(hevcPar, hevcLast.after, queue, len, placed, i)
      BY <1>3, <3>1 DEF Picks, Renamed
    <3>2. CASE placed = queue /\ Advances(hevcLast.after, queue, len, i)
      BY <1>3, <3>2 DEF Advances
    <3>3. CASE placed = Turned(queue, len) /\ i = len /\ Turns(hevcLast.after, queue, len, Flushes(queue, len, surface))
      <4>1. len \in 1 .. Len(queue)
        BY <1>3, <3>3 DEF Turns
      <4>2. /\ Turned(queue, len) \in Seq(Waiting) /\ Len(Turned(queue, len)) = Len(queue)
            /\ \A j \in 1 .. Len(queue) : Turned(queue, len)[j].frame = queue[j].frame
        BY <4>1, TurnedIs
      <4> QED BY <3>3, <4>1, <4>2
    <3> QED BY <1>5, <3>1, <3>2, <3>3 DEF Chooses
  <2>2. placed[i] \in Waiting /\ placed[i].frame = queue[i].frame /\ queue[i].frame \in FramesIn(queue)
    BY <2>1, SeqIs DEF FramesIn
  <2>3. /\ hevcTask' \in Chosen /\ Entry(hevcTask') = Entry(placed[i])
        /\ hevcTask'.frame = placed[i].frame
        /\ hevcTask'.before = hevcLast.after /\ hevcTask'.active \subseteq hevcLast.after
        /\ IsFiniteSet(hevcTask'.after) /\ Cardinality(hevcTask'.after) <= HevcNumRef(hevcPar)
        /\ hevcTask'.after \subseteq hevcTask'.before \cup {Entry(hevcTask')}
        /\ IF hevcTask'.ref THEN Entry(hevcTask') \in hevcTask'.after
                            ELSE hevcTask'.after \subseteq hevcTask'.before
        /\ hevcTask'.l0 \cup hevcTask'.l1 \subseteq hevcTask'.active
    BY <1>5, <2>2, FillIs DEF Hands
  <2>4. hevcQueue' \in Seq(Waiting) /\ Len(hevcQueue') = Len(queue) - 1
    BY <1>5, <2>1, RemoveAtIs DEF Hands
  <2>5. Sorted(queue) => Sorted(hevcQueue') /\ FramesIn(hevcQueue') = FramesIn(queue) \ {hevcTask'.frame}
    BY <1>5, <2>1, <2>2, <2>3, LeftIs DEF Hands
  <2>6. hevcLast' \in Lasts /\ hevcLast'.after = hevcTask'.after
    <3>1. hevcTask'.poc \in Nat /\ hevcTask'.rap \in Nat /\ hevcTask'.after \in SUBSET Pictures
      BY <2>3 DEF Chosen
    <3> QED BY <1>5, <3>1 DEF Lasts, Hands
  <2> QED BY <2>2, <2>3, <2>4, <2>5, <2>6 DEF Takes
<1> QED BY <1>2, <1>4, <1>5, Zenon

\* Frames of a buffer are no more than its pictures.
LEMMA FramesAreFew ==
  ASSUME NEW dpb, IsFiniteSet(dpb), NEW S, S \subseteq FramesAt(dpb)
  PROVE  IsFiniteSet(S) /\ Cardinality(S) <= Cardinality(dpb)
<1> DEFINE f == [d \in dpb |-> d.frame]
<1>1. f \in Surjection(dpb, FramesAt(dpb))
  BY DEF Surjection, FramesAt
<1>2. IsFiniteSet(FramesAt(dpb)) /\ Cardinality(FramesAt(dpb)) <= Cardinality(dpb)
  BY <1>1, FS_Surjection
<1>3. IsFiniteSet(S) /\ Cardinality(S) <= Cardinality(FramesAt(dpb))
  BY <1>2, FS_Subset
<1>4. Cardinality(S) \in Nat /\ Cardinality(FramesAt(dpb)) \in Nat /\ Cardinality(dpb) \in Nat
  BY <1>2, <1>3, FS_CardinalityType
<1> QED BY <1>2, <1>3, <1>4

\* The thread lacks predictors of a stream, or nothing.
LEMMA LackingIs ==
  ASSUME BInv, Coding, Reorders(hevcPar)
  PROVE  Lacking \subseteq {"predictors"}
<1>1. hevcPar \in HevcConfigs /\ hevcTask \in Chosen
  BY DEF BInv, HTypes
<1>2. HevcNumRef(hevcPar) \in 1 .. 15
  BY <1>1, NumbersAre
<1>3. /\ hevcTask.active \subseteq hevcTask.before /\ hevcTask.l0 \cup hevcTask.l1 \subseteq hevcTask.active
      /\ IsFiniteSet(hevcTask.before) /\ Cardinality(hevcTask.before) <= HevcNumRef(hevcPar)
  BY DEF BInv, InPlace, TaskOf
<1>4. hevcSmall \subseteq FramesAt(hevcTask.before)
  BY DEF BInv, Locks
<1>5. Cardinality(hevcTask.before) \in Nat
  BY <1>3, FS_CardinalityType
<1>6. Cardinality(hevcSmall) <= Cardinality(hevcTask.before) /\ Cardinality(hevcSmall) \in Nat
  BY <1>3, <1>4, FramesAreFew, FS_CardinalityType
<1>7. ASSUME NEW S, S \subseteq hevcTask.before
      PROVE  Cardinality(S) \in Nat /\ Cardinality(S) <= HevcNumRef(hevcPar)
  <2>1. IsFiniteSet(S) /\ Cardinality(S) <= Cardinality(hevcTask.before)
    BY <1>3, <1>7, FS_Subset
  <2>2. Cardinality(S) \in Nat
    BY <2>1, FS_CardinalityType
  <2> QED BY <1>2, <1>3, <1>5, <2>1, <2>2
<1> DEFINE a == Cardinality(hevcTask.l0)
           b == Cardinality(hevcTask.l1)
<1>8. a \in Nat /\ a <= HevcNumRef(hevcPar) /\ b \in Nat /\ b <= HevcNumRef(hevcPar)
  BY <1>3, <1>7
<1>9. Needs(hevcTask) = Max({a, b, 1})
  BY DEF Needs
<1> HIDE DEF a, b
<1>10. \E m \in {a, b, 1} : \A y \in {a, b, 1} : y <= m
  BY <1>8
<1>11. PICK m \in {a, b, 1} : \A y \in {a, b, 1} : y <= m
  BY <1>10
<1>12. Max({a, b, 1}) = m
  <2>1. {a, b, 1} \in SUBSET Int
    BY <1>8
  <2> QED BY <1>11, <2>1, MaxIs
<1>13. ~(Needs(hevcTask) > HevcNumRef(hevcPar))
  BY <1>2, <1>8, <1>9, <1>11, <1>12
<1>14. ~(Cardinality(hevcSmall) >= HevcNumRef(hevcPar) + 5)
  BY <1>2, <1>3, <1>5, <1>6
<1>15. "surface" \notin Lacking
  BY <1>14 DEF Lacking
<1>16. "buffer" \notin Lacking
  BY <1>13 DEF Lacking
<1> QED BY <1>15, <1>16 DEF Lacking

\* What holds of the frames of a queue before GetTask.
Fits(queue, count) ==
  /\ queue \in Seq(Waiting) /\ Len(queue) <= MaxTask(hevcPar) /\ Sorted(queue)
  /\ FramesIn(queue) \subseteq 0 .. count - 1
  /\ FramesAt(hevcLast.after) \cap FramesIn(queue) = {}
  /\ FramesAt(hevcLast.after) \subseteq 0 .. count - 1

\* After it, a frame is still in one place.
LEMMA GotKeeps ==
  ASSUME BInv, Reorders(hevcPar), hevcPar' = hevcPar, hevcPc \in {"get", "flush"},
         NEW queue, Fits(queue, hevcCount'), hevcCount' \in Nat,
         hevcLocked' = FramesAt(hevcLast.after) \cup FramesIn(queue), hevcSmall' = hevcSmall,
         IF hevcTask' = NoTask THEN hevcPc' = "get" ELSE hevcPc' \in {"code", "last"},
         NEW surface, GetTask(queue, surface)
  PROVE  /\ hevcQueue' \in Seq(Waiting) /\ Len(hevcQueue') <= MaxTask(hevcPar)
         /\ hevcTask' \in Chosen \cup {NoTask}
         /\ hevcLast' \in Lasts
         /\ IsFiniteSet(hevcLast'.after) /\ Cardinality(hevcLast'.after) <= HevcNumRef(hevcPar)
         /\ InPlace' /\ Locks'
         /\ ({hevcTask'.frame} \ {-1}) \cup FramesIn(hevcQueue') = FramesIn(queue)
         /\ Len(hevcQueue') + (IF hevcTask' = NoTask THEN 0 ELSE 1) = Len(queue)
<1>1. /\ hevcPar \in HevcConfigs /\ hevcLast \in Lasts /\ hevcTask = NoTask
      /\ IsFiniteSet(hevcLast.after) /\ Cardinality(hevcLast.after) <= HevcNumRef(hevcPar)
      /\ hevcSmall \subseteq FramesAt(hevcLast.after)
  BY DEF BInv, HTypes, Locks
<1>2. /\ queue \in Seq(Waiting) /\ Len(queue) <= MaxTask(hevcPar) /\ Sorted(queue)
      /\ FramesIn(queue) \subseteq 0 .. hevcCount' - 1
      /\ FramesAt(hevcLast.after) \cap FramesIn(queue) = {}
      /\ FramesAt(hevcLast.after) \subseteq 0 .. hevcCount' - 1
  BY DEF Fits
<1>3. Len(queue) \in Nat /\ DOMAIN queue = 1 .. Len(queue) /\ MaxTask(hevcPar) \in Nat
  BY <1>1, <1>2, SeqIs, NumbersAre
<1>4. Idle(queue) \/ Takes(queue)
  BY <1>1, <1>2, TookIs
<1>5. CASE Idle(queue)
  <2>1. hevcQueue' = queue /\ hevcTask' = NoTask /\ hevcLast' = hevcLast /\ hevcPc' = "get"
    BY <1>1, <1>5 DEF Idle
  <2>2. ~Coding'
    BY <2>1 DEF Coding
  <2>3. InPlace'
    <3>1. \A i \in DOMAIN queue : queue[i].frame < hevcCount'
      <4>1. \A i \in DOMAIN queue : queue[i].frame \in 0 .. hevcCount' - 1
        BY <1>2 DEF FramesIn
      <4> QED BY <4>1
    <3> QED BY <1>2, <2>1, <2>2, <3>1 DEF InPlace, Sorted
  <2>4. Locks'
    BY <1>1, <1>2, <2>1, <2>2 DEF Locks
  <2>5. ({NoTask.frame} \ {-1}) \cup FramesIn(queue) = FramesIn(queue)
    BY DEF NoTask
  <2> QED BY <1>1, <1>2, <1>3, <2>1, <2>3, <2>4, <2>5
<1>6. CASE Takes(queue)
  <2>1. /\ hevcTask' \in Chosen /\ hevcTask'.frame \in FramesIn(queue) /\ hevcTask' # NoTask
        /\ hevcQueue' \in Seq(Waiting) /\ Len(hevcQueue') = Len(queue) - 1
        /\ Sorted(hevcQueue') /\ FramesIn(hevcQueue') = FramesIn(queue) \ {hevcTask'.frame}
        /\ hevcLast' \in Lasts /\ hevcLast'.after = hevcTask'.after /\ hevcTask'.before = hevcLast.after
        /\ hevcTask'.active \subseteq hevcTask'.before
        /\ IsFiniteSet(hevcTask'.after) /\ Cardinality(hevcTask'.after) <= HevcNumRef(hevcPar)
        /\ hevcTask'.after \subseteq hevcTask'.before \cup {Entry(hevcTask')}
        /\ IF hevcTask'.ref THEN Entry(hevcTask') \in hevcTask'.after
                            ELSE hevcTask'.after \subseteq hevcTask'.before
        /\ hevcTask'.l0 \cup hevcTask'.l1 \subseteq hevcTask'.active
    <3>1. hevcTask' \in Chosen => hevcTask'.frame \in Nat
      BY DEF Chosen
    <3>2. hevcTask' \in Chosen => hevcTask' # NoTask
      BY <3>1 DEF NoTask
    <3> QED BY <1>2, <1>6, <3>2 DEF Takes
  <2>2. FramesAt(hevcTask'.after) \subseteq FramesAt(hevcTask'.before) \cup {hevcTask'.frame}
    BY <2>1 DEF FramesAt, Entry
  <2>3. hevcPc' \in {"code", "last"}
    BY <2>1
  <2>4. InPlace'
    <3>1. \A i, j \in DOMAIN hevcQueue' : i < j => hevcQueue'[i].frame < hevcQueue'[j].frame
      BY <2>1 DEF Sorted
    <3>2. \A i \in DOMAIN hevcQueue' : hevcQueue'[i].frame < hevcCount'
      <4>1. \A i \in DOMAIN hevcQueue' : hevcQueue'[i].frame \in 0 .. hevcCount' - 1
        BY <1>2, <2>1 DEF FramesIn
      <4> QED BY <4>1
    <3>3. FramesAt(hevcLast'.after) \cap FramesIn(hevcQueue') = {}
          /\ FramesAt(hevcLast'.after) \subseteq 0 .. hevcCount' - 1
      BY <1>2, <2>1, <2>2
    <3>4. TaskOf(hevcTask, hevcQueue, hevcLast)'
      BY <1>1, <1>2, <2>1 DEF TaskOf
    <3> QED BY <3>1, <3>2, <3>3, <3>4 DEF InPlace
  <2>5. Locks'
    BY <1>1, <1>2, <2>1, <2>3 DEF Locks, Coding
  <2>6. hevcTask'.frame # -1
    BY <2>1 DEF Chosen
  <2> QED BY <1>2, <1>3, <2>1, <2>4, <2>5, <2>6
<1> QED BY <1>4, <1>5, <1>6

-----------------------------------------------------------------------------
(* Every step keeps the invariant. *)

LEMMA BInit ==
  ASSUME HevcInit
  PROVE  BInv
<1>1. hevcPar \in HevcConfigs /\ hevcTask = NoTask /\ hevcQueue = << >> /\ hevcOut = << >>
      /\ hevcLast = [poc |-> -1, rap |-> 255, after |-> {}] /\ hevcPc = "get"
      /\ hevcCount = 0 /\ hevcOrder = 0 /\ hevcIdr = 0 /\ hevcLocked = {} /\ hevcSmall = {}
      /\ hevcBack = << >> /\ hevcShort = {} /\ hevcFault = {} /\ hevcRun = TRUE /\ hevcEos = FALSE
  BY DEF HevcInit
<1>2. HevcFrames \in Nat
  BY HevcAssumption
<1>3. hevcLast \in Lasts /\ IsFiniteSet({}) /\ Cardinality({}) = 0
  BY <1>1, FS_EmptySet DEF Lasts
<1>4. HevcNumRef(hevcPar) \in 1 .. 15 /\ MaxTask(hevcPar) \in Nat
  BY <1>1, NumbersAre
<1>5. FramesAt({}) = {} /\ FramesIn(<< >>) = {}
  BY DEF FramesAt, FramesIn
<1>6. HTypes
  <2>1. NoTask \in [frame : {-1}]
    BY DEF NoTask
  <2>2. << >> \in Seq(Waiting) /\ << >> \in Seq(Chosen \cup [frame : Nat]) /\ << >> \in Seq(Nat) /\ Len(<< >>) = 0
    OBVIOUS
  <2>3. hevcQueue \in Seq(Waiting) /\ Len(hevcQueue) <= MaxTask(hevcPar)
    BY <1>1, <1>4, <2>2
  <2>4. IsFiniteSet(hevcLast.after) /\ Cardinality(hevcLast.after) <= HevcNumRef(hevcPar)
    BY <1>1, <1>3, <1>4
  <2>5. hevcOut \in Seq(Chosen \cup [frame : Nat]) /\ hevcBack \in Seq(Nat)
    BY <1>1, <2>2
  <2>6. hevcCount \in 0 .. HevcFrames /\ hevcOrder \in 0 .. hevcCount /\ hevcIdr \in 0 .. hevcOrder
    BY <1>1, <1>2
  <2>7. hevcRun \in BOOLEAN /\ hevcEos \in BOOLEAN
    BY <1>1
  <2> QED BY <1>1, <1>3, <2>1, <2>3, <2>4, <2>5, <2>6, <2>7 DEF HTypes, Coding
<1>7. Plain
  BY <1>1 DEF Plain, Coding
<1>8. InPlace
  BY <1>1, <1>5 DEF InPlace, Coding
<1>9. Locks
  BY <1>1, <1>5 DEF Locks, Coding
<1>10. Counts
  <2>1. {hevcOut[k].frame : k \in DOMAIN hevcOut} = {} /\ {NoTask.frame} \ {-1} = {}
    BY <1>1 DEF NoTask
  <2> QED BY <1>1, <1>5, <2>1 DEF Counts
<1> QED BY <1>6, <1>7, <1>8, <1>9, <1>10 DEF BInv

\* What the actions that get a task have in common.
LEMMA GetsKeeps ==
  ASSUME BInv, Reorders(hevcPar), UNCHANGED <<hevcPar, hevcSmall, hevcOut, hevcBack, hevcFault>>,
         hevcPc \in {"get", "flush"}, hevcRun' \in BOOLEAN, hevcEos' \in BOOLEAN,
         NEW queue, Fits(queue, hevcCount'),
         hevcCount' \in hevcCount .. HevcFrames, hevcOrder' \in 0 .. hevcCount', hevcIdr' \in 0 .. hevcOrder',
         hevcLocked' = FramesAt(hevcLast.after) \cup FramesIn(queue),
         IF hevcTask' = NoTask THEN hevcPc' = "get" ELSE hevcPc' \in {"code", "last"},
         hevcShort' \subseteq {"predictors", "task"},
         hevcShort' = {} => hevcShort = {} /\ Len(queue) = Len(hevcQueue) + hevcCount' - hevcCount
                              /\ FramesIn(queue) = FramesIn(hevcQueue) \cup hevcCount .. hevcCount' - 1,
         (~hevcPar.noVpp /\ "task" \notin hevcShort') =>
           \/ hevcPc' = "last"
           \/ hevcPc = "get" /\ "task" \notin hevcShort /\ hevcCount' = hevcCount + 1
                /\ Len(queue) = Len(hevcQueue) + 1,
         NEW surface, GetTask(queue, surface)
  PROVE  BInv'
<1>1. hevcCount' \in Nat /\ hevcCount \in Nat /\ hevcCount <= hevcCount' /\ hevcCount' \in 0 .. HevcFrames
  BY HevcAssumption DEF BInv, HTypes
<1>2. /\ hevcQueue' \in Seq(Waiting) /\ Len(hevcQueue') <= MaxTask(hevcPar)
      /\ hevcTask' \in Chosen \cup {NoTask}
      /\ hevcLast' \in Lasts
      /\ IsFiniteSet(hevcLast'.after) /\ Cardinality(hevcLast'.after) <= HevcNumRef(hevcPar)
      /\ InPlace' /\ Locks'
      /\ ({hevcTask'.frame} \ {-1}) \cup FramesIn(hevcQueue') = FramesIn(queue)
      /\ Len(hevcQueue') + (IF hevcTask' = NoTask THEN 0 ELSE 1) = Len(queue)
  BY <1>1, GotKeeps
<1>3. hevcPc' \in {"get", "code", "last"} /\ (hevcPc' = "get" <=> hevcTask' = NoTask)
  OBVIOUS
<1>4. HTypes'
  BY <1>1, <1>2, <1>3 DEF BInv, HTypes, Coding, NoTask
<1>5. Plain'
  BY DEF Plain, Reorders
<1>6. Counts'
  <2>1. ASSUME hevcFault' = {}, hevcShort' = {}
        PROVE  /\ {hevcOut'[k].frame : k \in DOMAIN hevcOut'} \cup ({hevcTask'.frame} \ {-1})
                    \cup FramesIn(hevcQueue') = 0 .. hevcCount' - 1
               /\ Len(hevcOut') + (IF hevcTask' = NoTask THEN 0 ELSE 1) + Len(hevcQueue') = hevcCount'
    <3>1. hevcTask = NoTask /\ hevcCount \in Nat /\ hevcOut \in Seq(Chosen \cup [frame : Nat])
          /\ hevcQueue \in Seq(Waiting)
      BY <1>1, HevcAssumption DEF BInv, HTypes
    <3>2. /\ {hevcOut[k].frame : k \in DOMAIN hevcOut} \cup FramesIn(hevcQueue) = 0 .. hevcCount - 1
          /\ Len(hevcOut) + Len(hevcQueue) = hevcCount
      <4>1. {NoTask.frame} \ {-1} = {}
        BY DEF NoTask
      <4>2. hevcFault = {} /\ hevcShort = {}
        BY <2>1
      <4>3. Len(hevcOut) \in Nat /\ Len(hevcQueue) \in Nat
        BY <3>1, SeqIs
      <4> QED BY <3>1, <4>1, <4>2, <4>3 DEF BInv, Counts
    <3>3. Len(queue) = Len(hevcQueue) + hevcCount' - hevcCount
          /\ FramesIn(queue) = FramesIn(hevcQueue) \cup hevcCount .. hevcCount' - 1
      BY <2>1
    <3>4. Len(hevcOut) \in Nat /\ Len(hevcQueue) \in Nat /\ Len(hevcQueue') \in Nat /\ Len(queue) \in Nat
      BY <3>1, <1>2, SeqIs DEF Fits
    <3>5. hevcCount' >= hevcCount
      BY <1>1
    <3>6. (0 .. hevcCount - 1) \cup (hevcCount .. hevcCount' - 1) = 0 .. hevcCount' - 1
      BY <1>1, <3>1, <3>5
    <3>7. {hevcOut[k].frame : k \in DOMAIN hevcOut} \cup FramesIn(queue) = 0 .. hevcCount' - 1
      BY <3>2, <3>3, <3>6
    <3>8. Len(hevcOut) + Len(queue) = hevcCount'
      BY <1>1, <3>1, <3>2, <3>3, <3>4
    <3>9. hevcOut' = hevcOut
      OBVIOUS
    <3>10. {hevcOut'[k].frame : k \in DOMAIN hevcOut'} \cup ({hevcTask'.frame} \ {-1})
                    \cup FramesIn(hevcQueue') = 0 .. hevcCount' - 1
      BY <1>2, <3>7, <3>9
    <3>11. Len(hevcOut') + (IF hevcTask' = NoTask THEN 0 ELSE 1) + Len(hevcQueue') = hevcCount'
      BY <1>2, <3>4, <3>8, <3>9
    <3> QED BY <3>10, <3>11
  <2>2. ASSUME ~hevcPar'.noVpp, "task" \notin hevcShort'
        PROVE  /\ hevcPc' = "get" => hevcCount' = Len(hevcBack') + Len(hevcQueue')
               /\ hevcPc' = "code" => hevcCount' = Len(hevcBack') + Len(hevcQueue') + 1
    <3>1. CASE hevcPc' = "last"
      BY <3>1
    <3>2. CASE hevcPc' # "last"
      <4>1. hevcCount = Len(hevcBack) + Len(hevcQueue) /\ hevcCount' = hevcCount + 1
            /\ Len(queue) = Len(hevcQueue) + 1
        BY <2>2, <3>2 DEF BInv, Counts
      <4>2. hevcBack \in Seq(Nat) /\ hevcQueue \in Seq(Waiting)
        BY DEF BInv, HTypes
      <4>3. Len(hevcBack) \in Nat /\ Len(hevcQueue) \in Nat /\ Len(hevcQueue') \in Nat /\ hevcBack' = hevcBack
        BY <1>2, <4>2, SeqIs
      <4> QED BY <1>2, <1>3, <4>1, <4>3
    <3> QED BY <3>1, <3>2
  <2> QED BY <1>3, <2>1, <2>2 DEF Counts
<1> QED BY <1>2, <1>4, <1>5, <1>6 DEF BInv

\* The queue of a thread that waits, as it is.
LEMMA QueueFits ==
  ASSUME BInv, hevcPc \in {"get", "flush"}
  PROVE  /\ Fits(hevcQueue, hevcCount)
         /\ hevcLocked = FramesAt(hevcLast.after) \cup FramesIn(hevcQueue)
         /\ hevcTask = NoTask
<1>1. /\ hevcQueue \in Seq(Waiting) /\ Len(hevcQueue) <= MaxTask(hevcPar) /\ hevcTask = NoTask
      /\ hevcCount \in Nat
  BY HevcAssumption DEF BInv, HTypes
<1>2. /\ Sorted(hevcQueue)
      /\ \A i \in DOMAIN hevcQueue : hevcQueue[i].frame < hevcCount
      /\ FramesAt(hevcLast.after) \cap FramesIn(hevcQueue) = {}
      /\ FramesAt(hevcLast.after) \subseteq 0 .. hevcCount - 1
  BY DEF BInv, InPlace, Sorted
<1>3. \A i \in DOMAIN hevcQueue : hevcQueue[i].frame \in Nat
  <2>1. \A i \in DOMAIN hevcQueue : hevcQueue[i] \in Waiting
    BY <1>1, SeqIs
  <2> QED BY <2>1 DEF Waiting
<1>4. FramesIn(hevcQueue) \subseteq 0 .. hevcCount - 1
  BY <1>1, <1>2, <1>3 DEF FramesIn
<1>5. hevcLocked = FramesAt(hevcLast.after) \cup FramesIn(hevcQueue)
  BY DEF BInv, Locks
<1> QED BY <1>1, <1>2, <1>4, <1>5 DEF Fits

\* A frame at the end of the queue.
LEMMA MoreFits ==
  ASSUME NEW queue, NEW count \in Nat, Fits(queue, count), Len(queue) < MaxTask(hevcPar),
         hevcPar \in HevcConfigs, NEW task \in Waiting, task.frame = count
  PROVE  /\ Fits(Append(queue, task), count + 1)
         /\ FramesIn(Append(queue, task)) = FramesIn(queue) \cup {count}
         /\ Len(Append(queue, task)) = Len(queue) + 1
<1> DEFINE q == Append(queue, task)
<1>1. /\ queue \in Seq(Waiting) /\ Sorted(queue) /\ FramesIn(queue) \subseteq 0 .. count - 1
      /\ FramesAt(hevcLast.after) \cap FramesIn(queue) = {}
      /\ FramesAt(hevcLast.after) \subseteq 0 .. count - 1
  BY DEF Fits
<1>2. /\ q \in Seq(Waiting) /\ Len(q) = Len(queue) + 1
      /\ \A i \in 1 .. Len(queue) : q[i] = queue[i]
      /\ q[Len(queue) + 1] = task
  BY <1>1, AppendIs
<1>3. DOMAIN queue = 1 .. Len(queue) /\ Len(queue) \in Nat
  BY <1>1, SeqIs
<1> HIDE DEF q
<1>4. DOMAIN q = 1 .. Len(queue) + 1
  BY <1>2, SeqIs
<1>5. FramesIn(q) = FramesIn(queue) \cup {count}
  <2>1. ASSUME NEW f \in FramesIn(q)
        PROVE  f \in FramesIn(queue) \cup {count}
    <3>1. PICK i \in 1 .. Len(queue) + 1 : f = q[i].frame
      BY <1>4 DEF FramesIn
    <3>2. CASE i = Len(queue) + 1
      BY <1>2, <3>1, <3>2
    <3>3. CASE i \in 1 .. Len(queue)
      BY <1>2, <1>3, <3>1, <3>3 DEF FramesIn
    <3> QED BY <1>3, <3>1, <3>2, <3>3
  <2>2. ASSUME NEW f \in FramesIn(queue)
        PROVE  f \in FramesIn(q)
    <3>1. PICK i \in 1 .. Len(queue) : f = queue[i].frame
      BY <1>3 DEF FramesIn
    <3>2. i \in DOMAIN q /\ f = q[i].frame
      BY <1>2, <1>3, <1>4, <3>1
    <3> QED BY <3>2 DEF FramesIn
  <2>3. count \in FramesIn(q)
    <3>1. Len(queue) + 1 \in DOMAIN q /\ q[Len(queue) + 1].frame = count
      BY <1>2, <1>3, <1>4
    <3> QED BY <3>1 DEF FramesIn
  <2> QED BY <2>1, <2>2, <2>3
<1>6. Sorted(q)
  <2>1. \A i \in 1 .. Len(queue) : queue[i].frame < count
    <3>1. \A i \in 1 .. Len(queue) : queue[i].frame \in 0 .. count - 1
      BY <1>1, <1>3 DEF FramesIn
    <3> QED BY <3>1
  <2>2. ASSUME NEW i \in 1 .. Len(queue) + 1, NEW j \in 1 .. Len(queue) + 1, i < j
        PROVE  q[i].frame < q[j].frame
    <3>1. i \in 1 .. Len(queue) /\ q[i] = queue[i]
      BY <1>2, <1>3, <2>2
    <3>2. CASE j = Len(queue) + 1
      BY <1>2, <2>1, <3>1, <3>2
    <3>3. CASE j \in 1 .. Len(queue)
      BY <1>1, <1>2, <1>3, <2>2, <3>1, <3>3 DEF Sorted
    <3> QED BY <1>3, <3>2, <3>3
  <2> QED BY <1>4, <2>2 DEF Sorted
<1>7. MaxTask(hevcPar) \in Nat
  BY NumbersAre
<1>8. Fits(q, count + 1)
  <2>1. FramesIn(queue) \subseteq 0 .. count + 1 - 1 /\ FramesAt(hevcLast.after) \subseteq 0 .. count + 1 - 1
        /\ count \in 0 .. count + 1 - 1 /\ count \notin FramesAt(hevcLast.after)
    <3>1. 0 .. count - 1 \subseteq 0 .. count + 1 - 1 /\ count \notin 0 .. count - 1 /\ count \in 0 .. count + 1 - 1
      OBVIOUS
    <3> QED BY <1>1, <3>1
  <2>2. Len(q) <= MaxTask(hevcPar)
    BY <1>2, <1>3, <1>7
  <2> QED BY <1>1, <1>2, <1>5, <1>6, <2>1, <2>2 DEF Fits
<1> QED BY <1>2, <1>5, <1>8 DEF q

LEMMA TakeKeeps ==
  ASSUME BInv, HevcTake
  PROVE  BInv'
<1> DEFINE kind == GetFrameType(hevcPar, hevcOrder - hevcIdr)
           idr == IF kind = "IDR" THEN hevcOrder ELSE hevcIdr
           task == [frame |-> hevcCount, poc |-> hevcOrder - idr, kind |-> kind,
                    ref |-> kind # "B", bpo |-> Unplaced]
<1>1. /\ hevcPc = "get" /\ hevcCount < HevcFrames /\ hevcCount' = hevcCount + 1
      /\ UNCHANGED <<hevcPar, hevcRun, hevcEos, hevcSmall, hevcBack, hevcOut, hevcFault>>
  BY DEF HevcTake
<1>2. /\ hevcPar \in HevcConfigs /\ hevcCount \in Nat /\ hevcOrder \in 0 .. hevcCount
      /\ hevcIdr \in 0 .. hevcOrder /\ HevcFrames \in Nat /\ hevcTask = NoTask
      /\ hevcShort \subseteq {"predictors", "task"} /\ hevcRun \in BOOLEAN /\ hevcEos \in BOOLEAN
      /\ hevcQueue \in Seq(Waiting) /\ Len(hevcQueue) <= MaxTask(hevcPar)
  BY <1>1, HevcAssumption DEF BInv, HTypes
<1>3. /\ Fits(hevcQueue, hevcCount) /\ hevcLocked = FramesAt(hevcLast.after) \cup FramesIn(hevcQueue)
  BY <1>1, QueueFits
<1>4. CASE ~Reorders(hevcPar)
  <2>1. /\ hevcTask' = [frame |-> hevcCount] /\ hevcPc' = "code"
        /\ UNCHANGED <<hevcOrder, hevcIdr, hevcQueue, hevcLast, hevcLocked, hevcShort>>
    BY <1>4 DEF HevcTake
  <2>2. /\ hevcQueue = << >> /\ hevcLast.after = {} /\ hevcLocked = {} /\ hevcSmall = {} /\ hevcShort = {}
    BY <1>4 DEF BInv, Plain
  <2>3. hevcTask' \in [frame : Nat] /\ hevcTask'.frame = hevcCount /\ hevcTask' # NoTask
    BY <1>2, <2>1 DEF NoTask
  <2>4. HTypes'
    BY <1>1, <1>2, <1>4, <2>1, <2>3 DEF BInv, HTypes, Coding, Reorders
  <2>5. Plain'
    BY <1>1, <1>2, <1>4, <2>1, <2>2, <2>3 DEF Plain, Coding
  <2>6. FramesAt({}) = {} /\ FramesIn(<< >>) = {}
    BY DEF FramesAt, FramesIn
  <2>7. InPlace'
    BY <1>1, <1>4, <2>1, <2>2, <2>6 DEF InPlace
  <2>8. Locks'
    BY <1>1, <1>4, <2>1, <2>2, <2>6 DEF Locks
  <2>9. Counts'
    <3>1. ASSUME hevcFault' = {}, hevcShort' = {}
          PROVE  /\ {hevcOut'[k].frame : k \in DOMAIN hevcOut'} \cup ({hevcTask'.frame} \ {-1})
                      \cup FramesIn(hevcQueue') = 0 .. hevcCount' - 1
                 /\ Len(hevcOut') + (IF hevcTask' = NoTask THEN 0 ELSE 1) + Len(hevcQueue') = hevcCount'
      <4>1. {NoTask.frame} \ {-1} = {}
        BY DEF NoTask
      <4>2. /\ {hevcOut[k].frame : k \in DOMAIN hevcOut} = 0 .. hevcCount - 1
            /\ Len(hevcOut) + 0 + Len(hevcQueue) = hevcCount
        BY <1>1, <1>2, <2>1, <2>2, <2>6, <3>1, <4>1 DEF BInv, Counts
      <4>3. (0 .. hevcCount - 1) \cup ({hevcCount} \ {-1}) = 0 .. hevcCount + 1 - 1
        BY <1>2
      <4>4. Len(hevcOut) \in Nat /\ Len(hevcQueue) \in Nat
        BY SeqIs DEF BInv, HTypes
      <4> QED BY <1>1, <1>2, <2>1, <2>2, <2>3, <2>6, <4>2, <4>3, <4>4
    <3>2. (~hevcPar'.noVpp /\ "task" \notin hevcShort') => hevcCount' = Len(hevcBack') + Len(hevcQueue') + 1
      <4>1. Len(hevcBack) \in Nat /\ Len(hevcQueue) \in Nat
        BY SeqIs DEF BInv, HTypes
      <4> QED BY <1>1, <2>1, <4>1 DEF BInv, Counts
    <3> QED BY <2>1, <3>1, <3>2 DEF Counts
  <2> QED BY <2>4, <2>5, <2>7, <2>8, <2>9 DEF BInv
<1>5. hevcCount' \in hevcCount .. HevcFrames /\ hevcCount' \in 0 .. HevcFrames
  BY <1>1, <1>2
<1>6. CASE Reorders(hevcPar) /\ HevcFree = 0
  <2>1. /\ GetTask(hevcQueue, TRUE)
        /\ hevcShort' = hevcShort \cup {"task"}
        /\ hevcPc' = IF hevcTask' = NoTask THEN "get" ELSE "code"
        /\ UNCHANGED <<hevcOrder, hevcIdr, hevcLocked>>
    BY <1>6 DEF HevcTake
  <2>2. Fits(hevcQueue, hevcCount')
    <3>1. 0 .. hevcCount - 1 \subseteq 0 .. hevcCount' - 1
      BY <1>1, <1>2
    <3> QED BY <1>3, <3>1 DEF Fits
  <2>3. hevcOrder' \in 0 .. hevcCount' /\ hevcIdr' \in 0 .. hevcOrder'
    BY <1>1, <1>2, <2>1
  <2>4. hevcShort' \subseteq {"predictors", "task"} /\ "task" \in hevcShort'
    BY <1>2, <2>1
  <2>5. IF hevcTask' = NoTask THEN hevcPc' = "get" ELSE hevcPc' \in {"code", "last"}
    BY <2>1
  <2> QED BY <1>1, <1>2, <1>3, <1>5, <1>6, <2>1, <2>2, <2>3, <2>4, <2>5, GetsKeeps
<1>7. CASE Reorders(hevcPar) /\ HevcFree # 0
  <2>1. /\ GetTask(Append(hevcQueue, task), TRUE)
        /\ hevcOrder' = hevcOrder + 1 /\ hevcIdr' = idr
        /\ hevcLocked' = hevcLocked \cup {hevcCount}
        /\ hevcPc' = IF hevcTask' = NoTask THEN "get" ELSE "code"
        /\ hevcShort' = hevcShort
    BY <1>7 DEF HevcTake
  <2>2. Len(hevcQueue) < MaxTask(hevcPar) /\ Len(hevcQueue) \in Nat
    <3>1. Len(hevcQueue) \in Nat /\ MaxTask(hevcPar) \in Nat
      BY <1>2, NumbersAre, SeqIs
    <3>2. MaxTask(hevcPar) - Len(hevcQueue) - 0 # 0
      BY <1>2, <1>7 DEF HevcFree
    <3> QED BY <1>2, <3>1, <3>2
  <2>3. kind \in Kinds
    BY DEF GetFrameType, Kinds
  <2>4. idr \in 0 .. hevcOrder
    BY <1>2
  <2> HIDE DEF kind, idr
  <2>5. task \in Waiting /\ task.frame = hevcCount
    BY <1>2, <2>3, <2>4 DEF Waiting, Unplaced
  <2> HIDE DEF task
  <2>6. /\ Fits(Append(hevcQueue, task), hevcCount + 1)
        /\ FramesIn(Append(hevcQueue, task)) = FramesIn(hevcQueue) \cup {hevcCount}
        /\ Len(Append(hevcQueue, task)) = Len(hevcQueue) + 1
    BY <1>2, <1>3, <2>2, <2>5, MoreFits
  <2> DEFINE queue == Append(hevcQueue, task)
  <2> HIDE DEF queue
  <2>7. hevcOrder' \in 0 .. hevcCount' /\ hevcIdr' \in 0 .. hevcOrder'
    BY <1>1, <1>2, <2>1, <2>4
  <2>8. IF hevcTask' = NoTask THEN hevcPc' = "get" ELSE hevcPc' \in {"code", "last"}
    BY <2>1
  <2>9. hevcCount .. hevcCount' - 1 = {hevcCount} /\ Len(hevcQueue) + 1 = Len(hevcQueue) + hevcCount' - hevcCount
    BY <1>1, <1>2, <2>2
  <2>10. Fits(queue, hevcCount') /\ GetTask(queue, TRUE)
         /\ FramesIn(queue) = FramesIn(hevcQueue) \cup hevcCount .. hevcCount' - 1
         /\ Len(queue) = Len(hevcQueue) + hevcCount' - hevcCount
         /\ Len(queue) = Len(hevcQueue) + 1
    BY <1>1, <2>1, <2>6, <2>9 DEF queue
  <2>11. hevcLocked' = FramesAt(hevcLast.after) \cup FramesIn(queue)
    BY <1>3, <2>1, <2>6 DEF queue
  <2>12. /\ UNCHANGED <<hevcPar, hevcSmall, hevcOut, hevcBack, hevcFault>>
         /\ hevcRun' \in BOOLEAN /\ hevcEos' \in BOOLEAN
         /\ hevcShort' \subseteq {"predictors", "task"}
    BY <1>1, <1>2, <2>1
  <2>13. hevcShort' = {} => hevcShort = {} /\ Len(queue) = Len(hevcQueue) + hevcCount' - hevcCount
                              /\ FramesIn(queue) = FramesIn(hevcQueue) \cup hevcCount .. hevcCount' - 1
    BY <2>1, <2>10
  <2>14. (~hevcPar.noVpp /\ "task" \notin hevcShort') =>
           \/ hevcPc' = "last"
           \/ hevcPc = "get" /\ "task" \notin hevcShort /\ hevcCount' = hevcCount + 1
                /\ Len(queue) = Len(hevcQueue) + 1
    BY <1>1, <2>1, <2>10
  <2> QED BY <1>1, <1>5, <1>7, <2>7, <2>8, <2>10, <2>11, <2>12, <2>13, <2>14, GetsKeeps
<1> QED BY <1>4, <1>6, <1>7

\* A step that touches neither the queue nor the surfaces.
LEMMA RestKeeps ==
  ASSUME BInv, UNCHANGED <<hevcPar, hevcInput, hevcTasks, hevcSmall, hevcBack, hevcOut, hevcShort>>,
         hevcFault' = {} => hevcFault = {}, hevcRun' \in BOOLEAN, hevcEos' \in BOOLEAN,
         \/ hevcPc' = hevcPc
         \/ /\ hevcPc \in {"get", "flush"} /\ hevcPc' \in {"flush", "done", "dead", "spin"}
            /\ hevcPc' = "done" => hevcQueue = << >>
  PROVE  BInv'
<1>1. UNCHANGED <<hevcPar, hevcCount, hevcOrder, hevcIdr, hevcQueue, hevcTask, hevcLast, hevcLocked,
                  hevcSmall, hevcBack, hevcOut, hevcShort>>
  BY DEF hevcInput, hevcTasks
<1>2. CASE hevcPc' = hevcPc
  <2>1. HTypes'
    BY <1>1, <1>2 DEF BInv, HTypes, Coding
  <2>2. Plain' /\ InPlace' /\ Locks'
    BY <1>1, <1>2 DEF BInv, Plain, InPlace, Locks, Coding, TaskOf
  <2>3. Counts'
    BY <1>1, <1>2 DEF BInv, Counts
  <2> QED BY <2>1, <2>2, <2>3 DEF BInv
<1>3. CASE hevcPc \in {"get", "flush"} /\ hevcPc' \in {"flush", "done", "dead", "spin"}
             /\ (hevcPc' = "done" => hevcQueue = << >>)
  <2>1. HTypes'
    BY <1>1, <1>3 DEF BInv, HTypes, Coding
  <2>2. ~Coding /\ ~Coding'
    BY <1>3 DEF Coding
  <2>3. Plain' /\ InPlace' /\ Locks'
    BY <1>1, <1>3, <2>2 DEF BInv, Plain, InPlace, Locks
  <2>4. Counts'
    <3>1. hevcTask = NoTask /\ hevcLocked = FramesAt(hevcLast.after) \cup FramesIn(hevcQueue)
      BY <1>3 DEF BInv, HTypes, Locks
    <3>2. FramesIn(<< >>) = {}
      BY DEF FramesIn
    <3>3. hevcPc' = "done" => hevcQueue' = << >> /\ hevcTask' = NoTask /\ hevcLocked' = FramesAt(hevcLast'.after)
      BY <1>1, <1>3, <3>1, <3>2
    <3> QED BY <1>1, <1>3, <3>3 DEF BInv, Counts
  <2> QED BY <2>1, <2>3, <2>4 DEF BInv
<1> QED BY <1>2, <1>3

\* A step that ends the thread while a picture is coded.
LEMMA StuckKeeps ==
  ASSUME BInv, Coding, UNCHANGED <<hevcPar, hevcInput, hevcTasks, hevcBack>>,
         hevcPc' \in {"done", "dead", "spin"}, hevcSmall' \in {hevcSmall, Downsampled},
         hevcOut' \in {hevcOut, Append(hevcOut, hevcTask)}, hevcRun' \in BOOLEAN, hevcEos' \in BOOLEAN,
         hevcShort' \subseteq {"predictors", "task"}, ~(hevcFault' = {} /\ hevcShort' = {}),
         ~Reorders(hevcPar) => hevcShort' = {}
  PROVE  BInv'
<1>1. UNCHANGED <<hevcPar, hevcCount, hevcOrder, hevcIdr, hevcQueue, hevcTask, hevcLast, hevcLocked, hevcBack>>
  BY DEF hevcInput, hevcTasks
<1>2. hevcTask \in Chosen \cup [frame : Nat] /\ hevcOut \in Seq(Chosen \cup [frame : Nat])
  BY DEF BInv, HTypes
<1>3. hevcOut' \in Seq(Chosen \cup [frame : Nat])
  BY <1>2, AppendIs
<1>4. ~Reorders(hevcPar) => Downsampled = hevcSmall
  BY DEF Downsampled, HevcPreenc, Reorders
<1>5. Reorders(hevcPar) => hevcTask.frame \in hevcLocked
  BY DEF BInv, Locks
<1>6. HTypes'
  BY <1>1, <1>2, <1>3 DEF BInv, HTypes, Coding
<1>7. Plain'
  BY <1>1, <1>4 DEF BInv, Plain, Coding
<1>8. InPlace'
  BY <1>1 DEF BInv, InPlace, Coding
<1>9. Locks'
  <2>1. hevcLocked' \subseteq 0 .. hevcCount' - 1 /\ hevcSmall' \subseteq hevcLocked'
    BY <1>1, <1>4, <1>5 DEF BInv, Locks, Downsampled
  <2> QED BY <2>1 DEF Locks, Coding
<1>10. Counts'
  BY DEF Counts
<1> QED BY <1>6, <1>7, <1>8, <1>9, <1>10 DEF BInv

LEMMA ResetKeeps ==
  ASSUME BInv, HevcReset
  PROVE  BInv'
<1>1. /\ hevcPc = "get" /\ hevcPar.noVpp
      /\ UNCHANGED <<hevcPar, hevcCount, hevcOrder, hevcIdr, hevcLocked, hevcSmall,
                     hevcBack, hevcOut, hevcShort, hevcFault>>
  BY DEF HevcReset, hevcInput, hevcHistory
<1>2. CASE ~Reorders(hevcPar)
  <2>1. /\ hevcPc' = "done" /\ hevcRun' \in BOOLEAN /\ hevcEos' \in BOOLEAN
        /\ UNCHANGED <<hevcQueue, hevcTask, hevcLast>>
    BY <1>2 DEF HevcReset
  <2>2. hevcQueue = << >>
    BY <1>2 DEF BInv, Plain
  <2> QED BY <1>1, <2>1, <2>2, RestKeeps DEF hevcInput, hevcTasks
<1>3. CASE Reorders(hevcPar)
  <2>1. /\ hevcQueue # << >> /\ GetTask(hevcQueue, FALSE)
        /\ hevcPc' = IF hevcTask' = NoTask THEN "get" ELSE "code"
        /\ UNCHANGED <<hevcRun, hevcEos>>
    BY <1>3 DEF HevcReset
  <2>2. /\ hevcPar \in HevcConfigs /\ hevcCount \in 0 .. HevcFrames /\ hevcOrder \in 0 .. hevcCount
        /\ hevcIdr \in 0 .. hevcOrder /\ HevcFrames \in Nat
        /\ hevcShort \subseteq {"predictors", "task"} /\ hevcRun \in BOOLEAN /\ hevcEos \in BOOLEAN
        /\ hevcQueue \in Seq(Waiting)
    BY HevcAssumption DEF BInv, HTypes
  <2>3. Fits(hevcQueue, hevcCount) /\ hevcLocked = FramesAt(hevcLast.after) \cup FramesIn(hevcQueue)
    BY <1>1, QueueFits
  <2>4. hevcCount' \in hevcCount .. HevcFrames /\ hevcCount .. hevcCount' - 1 = {}
        /\ Len(hevcQueue) = Len(hevcQueue) + hevcCount' - hevcCount
    BY <1>1, <2>2, SeqIs
  <2>5. IF hevcTask' = NoTask THEN hevcPc' = "get" ELSE hevcPc' \in {"code", "last"}
    BY <2>1
  <2> QED BY <1>1, <1>3, <2>1, <2>2, <2>3, <2>4, <2>5, GetsKeeps
<1> QED BY <1>2, <1>3

LEMMA FlushKeeps ==
  ASSUME BInv, HevcFlush
  PROVE  BInv'
<1>1. /\ hevcPc = "flush" /\ hevcQueue # << >> /\ GetTask(hevcQueue, FALSE) /\ hevcPc' = "last"
      /\ UNCHANGED <<hevcPar, hevcRun, hevcEos, hevcCount, hevcOrder, hevcIdr, hevcLocked, hevcSmall,
                     hevcBack, hevcOut, hevcShort, hevcFault>>
  BY DEF HevcFlush, hevcInput, hevcHistory
<1>2. /\ hevcPar \in HevcConfigs /\ hevcCount \in 0 .. HevcFrames /\ hevcOrder \in 0 .. hevcCount
      /\ hevcIdr \in 0 .. hevcOrder /\ HevcFrames \in Nat /\ hevcLast \in Lasts
      /\ IsFiniteSet(hevcLast.after) /\ Cardinality(hevcLast.after) <= HevcNumRef(hevcPar)
      /\ hevcShort \subseteq {"predictors", "task"} /\ hevcRun \in BOOLEAN /\ hevcEos \in BOOLEAN
      /\ hevcQueue \in Seq(Waiting) /\ Len(hevcQueue) <= MaxTask(hevcPar)
  BY HevcAssumption DEF BInv, HTypes
<1>3. Fits(hevcQueue, hevcCount) /\ hevcLocked = FramesAt(hevcLast.after) \cup FramesIn(hevcQueue)
  BY <1>1, QueueFits
<1>4. Reorders(hevcPar)
  BY <1>1 DEF BInv, Plain
<1>5. hevcCount' \in hevcCount .. HevcFrames /\ hevcCount .. hevcCount' - 1 = {}
      /\ Len(hevcQueue) = Len(hevcQueue) + hevcCount' - hevcCount
  BY <1>1, <1>2, SeqIs
<1>6. Takes(hevcQueue)
  BY <1>1, <1>2, TookIs
<1>7. hevcTask' # NoTask
  <2>1. hevcTask'.frame \in Nat
    BY <1>6 DEF Takes, Chosen
  <2> QED BY <2>1 DEF NoTask
<1> QED BY <1>1, <1>2, <1>3, <1>4, <1>5, <1>7, GetsKeeps

\* Freeing a task leaves the surfaces of the buffer and of the queue locked.
LEMMA FreeIs ==
  ASSUME BInv, Coding, Reorders(hevcPar), FreeTask
  PROVE  /\ hevcTask' = NoTask
         /\ hevcLocked' = FramesAt(hevcLast.after) \cup FramesIn(hevcQueue)
         /\ hevcSmall' \subseteq FramesAt(hevcLast.after)
<1> DEFINE before == FramesAt(hevcTask.before)
           after == FramesAt(hevcTask.after)
           queued == FramesIn(hevcQueue)
           gone == (before \ after) \cup (IF hevcTask.ref THEN {} ELSE {hevcTask.frame})
<1>1. hevcLocked' = hevcLocked \ gone /\ hevcSmall' = Downsampled \ gone /\ hevcTask' = NoTask
  BY Zenon DEF FreeTask, FramesAt
<1>2. /\ hevcTask.frame \notin queued \cup before /\ before \cap queued = {}
      /\ hevcTask.after = hevcLast.after
      /\ hevcTask.after \subseteq hevcTask.before \cup {Entry(hevcTask)}
      /\ IF hevcTask.ref THEN Entry(hevcTask) \in hevcTask.after ELSE hevcTask.after \subseteq hevcTask.before
  BY DEF BInv, InPlace, TaskOf
<1>3. hevcLocked = before \cup queued \cup {hevcTask.frame} /\ hevcSmall \subseteq before
  BY DEF BInv, Locks
<1>4. /\ after \subseteq before \cup {hevcTask.frame}
      /\ hevcTask.ref => hevcTask.frame \in after
      /\ ~hevcTask.ref => after \subseteq before
  BY <1>2 DEF FramesAt, Entry
<1>5. Downsampled \subseteq hevcSmall \cup {hevcTask.frame}
  BY DEF Downsampled
<1>6. after = FramesAt(hevcLast.after)
  BY <1>2
<1> HIDE DEF before, after, queued
<1>7. hevcLocked \ gone = after \cup queued
  <2>1. CASE hevcTask.ref
    BY <1>2, <1>3, <1>4, <2>1
  <2>2. CASE ~hevcTask.ref
    BY <1>2, <1>3, <1>4, <2>2
  <2> QED BY <2>1, <2>2
<1>8. Downsampled \ gone \subseteq after
  <2>1. CASE hevcTask.ref
    BY <1>3, <1>4, <1>5, <2>1
  <2>2. CASE ~hevcTask.ref
    BY <1>3, <1>4, <1>5, <2>2
  <2> QED BY <2>1, <2>2
<1> HIDE DEF gone
<1> QED BY <1>1, <1>6, <1>7, <1>8 DEF queued

LEMMA CodeKeeps ==
  ASSUME BInv, HevcCode
  PROVE  BInv'
<1>1. /\ Coding /\ hevcOut' = Append(hevcOut, hevcTask)
      /\ hevcBack' = IF hevcPc = "code" THEN Append(hevcBack, hevcCount - 1) ELSE hevcBack
      /\ hevcPc' = IF hevcPc = "code" THEN "get" ELSE "flush"
      /\ UNCHANGED <<hevcPar, hevcRun, hevcEos, hevcCount, hevcOrder, hevcIdr, hevcQueue, hevcLast,
                     hevcShort, hevcFault>>
      /\ IF Reorders(hevcPar) THEN FreeTask ELSE hevcTask' = NoTask /\ UNCHANGED <<hevcLocked, hevcSmall>>
  BY DEF HevcCode, hevcInput
<1>2. /\ hevcTask \in Chosen \cup [frame : Nat] /\ hevcOut \in Seq(Chosen \cup [frame : Nat])
      /\ hevcCount \in Nat /\ hevcQueue \in Seq(Waiting) /\ hevcBack \in Seq(Nat)
      /\ hevcPc \in {"code", "last"}
  BY <1>1, HevcAssumption DEF BInv, HTypes, Coding
<1>3. hevcTask.frame \in Nat /\ hevcTask # NoTask
  <2>1. CASE hevcTask \in Chosen
    <3>1. hevcTask.frame \in Nat
      BY <2>1 DEF Chosen
    <3> QED BY <3>1 DEF NoTask
  <2>2. CASE hevcTask \in [frame : Nat]
    <3>1. hevcTask.frame \in Nat
      BY <2>2
    <3> QED BY <3>1 DEF NoTask
  <2> QED BY <1>2, <2>1, <2>2
<1>4. hevcTask.frame \in 0 .. hevcCount - 1
  <2>1. CASE Reorders(hevcPar)
    BY <1>1, <2>1 DEF BInv, InPlace, TaskOf
  <2>2. CASE ~Reorders(hevcPar)
    <3>1. hevcTask.frame = hevcCount - 1
      BY <1>1, <2>2 DEF BInv, Plain
    <3> QED BY <1>2, <1>3, <3>1
  <2> QED BY <2>1, <2>2
<1>5. /\ hevcOut' \in Seq(Chosen \cup [frame : Nat]) /\ Len(hevcOut') = Len(hevcOut) + 1
      /\ {hevcOut'[k].frame : k \in DOMAIN hevcOut'}
           = {hevcOut[k].frame : k \in DOMAIN hevcOut} \cup {hevcTask.frame}
  <2>1. /\ hevcOut' \in Seq(Chosen \cup [frame : Nat]) /\ Len(hevcOut') = Len(hevcOut) + 1
        /\ \A i \in 1 .. Len(hevcOut) : hevcOut'[i] = hevcOut[i]
        /\ hevcOut'[Len(hevcOut) + 1] = hevcTask
    BY <1>1, <1>2, AppendIs
  <2>2. DOMAIN hevcOut = 1 .. Len(hevcOut) /\ Len(hevcOut) \in Nat /\ DOMAIN hevcOut' = 1 .. Len(hevcOut) + 1
    BY <1>2, <2>1, SeqIs
  <2>3. ASSUME NEW k \in DOMAIN hevcOut'
        PROVE  hevcOut'[k].frame \in {hevcOut[j].frame : j \in DOMAIN hevcOut} \cup {hevcTask.frame}
    BY <2>1, <2>2
  <2>4. ASSUME NEW k \in DOMAIN hevcOut
        PROVE  k \in DOMAIN hevcOut' /\ hevcOut[k].frame = hevcOut'[k].frame
    BY <2>1, <2>2
  <2>5. Len(hevcOut) + 1 \in DOMAIN hevcOut'
    BY <2>2
  <2> QED BY <2>1, <2>3, <2>4, <2>5
<1>6. /\ hevcBack' \in Seq(Nat) /\ Len(hevcBack) \in Nat
      /\ Len(hevcBack') = IF hevcPc = "code" THEN Len(hevcBack) + 1 ELSE Len(hevcBack)
  <2>1. hevcCount - 1 \in Nat
    BY <1>2, <1>4
  <2>2. Len(hevcBack) \in Nat /\ Append(hevcBack, hevcCount - 1) \in Seq(Nat)
        /\ Len(Append(hevcBack, hevcCount - 1)) = Len(hevcBack) + 1
    BY <1>2, <2>1, AppendIs, SeqIs
  <2> QED BY <1>1, <1>2, <2>2
<1>7. hevcTask' = NoTask /\ hevcPc' \in {"get", "flush"} /\ ~Coding'
  BY <1>1, FreeIs DEF Coding
<1>8. HTypes'
  <2>1. NoTask \in [frame : {-1}]
    BY DEF NoTask
  <2> QED BY <1>1, <1>5, <1>6, <1>7, <2>1 DEF BInv, HTypes
<1>9. Plain'
  BY <1>1, <1>7 DEF BInv, Plain
<1>10. InPlace'
  BY <1>1, <1>7 DEF BInv, InPlace
<1>11. Locks'
  <2>1. hevcLocked' = FramesAt(hevcLast.after) \cup FramesIn(hevcQueue)
        /\ hevcSmall' \subseteq FramesAt(hevcLast.after)
    <3>1. CASE Reorders(hevcPar)
      BY <1>1, <3>1, FreeIs
    <3>2. CASE ~Reorders(hevcPar)
      <4>1. hevcQueue = << >> /\ hevcLast.after = {} /\ hevcLocked = {} /\ hevcSmall = {}
        BY <3>2 DEF BInv, Plain
      <4> QED BY <1>1, <3>2, <4>1 DEF FramesAt, FramesIn
    <3> QED BY <3>1, <3>2
  <2>2. FramesAt(hevcLast.after) \subseteq 0 .. hevcCount - 1
    BY DEF BInv, InPlace
  <2>3. FramesIn(hevcQueue) \subseteq 0 .. hevcCount - 1
    <3>1. \A i \in DOMAIN hevcQueue : hevcQueue[i] \in Waiting /\ hevcQueue[i].frame < hevcCount
      BY <1>2, SeqIs DEF BInv, InPlace
    <3>2. \A i \in DOMAIN hevcQueue : hevcQueue[i].frame \in Nat
      BY <3>1 DEF Waiting
    <3> QED BY <1>2, <3>1, <3>2 DEF FramesIn
  <2> QED BY <1>1, <1>7, <2>1, <2>2, <2>3 DEF Locks
<1>12. Counts'
  <2>1. {NoTask.frame} \ {-1} = {} /\ {hevcTask.frame} \ {-1} = {hevcTask.frame}
    BY <1>3 DEF NoTask
  <2>2. Len(hevcOut) \in Nat /\ Len(hevcQueue) \in Nat
    BY <1>2, SeqIs
  <2>3. ASSUME hevcFault' = {}, hevcShort' = {}
        PROVE  /\ {hevcOut'[k].frame : k \in DOMAIN hevcOut'} \cup ({hevcTask'.frame} \ {-1})
                    \cup FramesIn(hevcQueue') = 0 .. hevcCount' - 1
               /\ Len(hevcOut') + (IF hevcTask' = NoTask THEN 0 ELSE 1) + Len(hevcQueue') = hevcCount'
    <3>1. /\ {hevcOut[k].frame : k \in DOMAIN hevcOut} \cup ({hevcTask.frame} \ {-1})
                    \cup FramesIn(hevcQueue) = 0 .. hevcCount - 1
          /\ Len(hevcOut) + (IF hevcTask = NoTask THEN 0 ELSE 1) + Len(hevcQueue) = hevcCount
      BY <1>1, <2>3 DEF BInv, Counts
    <3>2. Len(hevcOut') + 0 + Len(hevcQueue) = hevcCount
      BY <1>3, <1>5, <2>2, <3>1
    <3>3. {hevcOut'[k].frame : k \in DOMAIN hevcOut'} \cup {} \cup FramesIn(hevcQueue) = 0 .. hevcCount - 1
      BY <1>5, <2>1, <3>1
    <3> QED BY <1>1, <1>7, <2>1, <3>2, <3>3
  <2>4. ASSUME ~hevcPar'.noVpp, "task" \notin hevcShort', hevcPc' = "get"
        PROVE  hevcCount' = Len(hevcBack') + Len(hevcQueue')
    <3>1. hevcPc = "code" /\ hevcCount = Len(hevcBack) + Len(hevcQueue) + 1
      BY <1>1, <1>2, <2>4 DEF BInv, Counts
    <3> QED BY <1>1, <1>6, <2>2, <3>1
  <2> QED BY <1>7, <2>3, <2>4 DEF Counts
<1> QED BY <1>8, <1>9, <1>10, <1>11, <1>12 DEF BInv

LEMMA BStep ==
  ASSUME BInv, [HevcNext]_hevcVars
  PROVE  BInv'
<1>1. hevcShort \subseteq {"predictors", "task"} /\ hevcRun \in BOOLEAN /\ hevcEos \in BOOLEAN
  BY DEF BInv, HTypes
<1>2. ~Reorders(hevcPar) => hevcShort = {}
  BY DEF BInv, Plain
<1>3. CASE HevcNoStart
  BY <1>1, <1>3, RestKeeps DEF HevcNoStart, Fails
<1>4. CASE HevcLeave
  BY <1>1, <1>4, RestKeeps DEF HevcLeave, hevcHistory
<1>5. CASE HevcFails
  <2>1. /\ Coding /\ UNCHANGED <<hevcPar, hevcInput, hevcTasks, hevcBack>>
        /\ hevcPc' \in {"done", "dead"} /\ hevcRun' \in BOOLEAN /\ hevcEos' \in BOOLEAN
    BY <1>1, <1>5 DEF HevcFails
  <2>2. CASE /\ Reorders(hevcPar) /\ Lacking # {} /\ hevcShort' = hevcShort \cup Lacking
             /\ hevcSmall' = IF "surface" \in Lacking THEN hevcSmall ELSE Downsampled
             /\ UNCHANGED <<hevcFault, hevcOut>>
    <3>1. Lacking \subseteq {"predictors"}
      BY <2>1, <2>2, LackingIs
    <3>2. hevcShort' \subseteq {"predictors", "task"} /\ hevcShort' # {}
      BY <1>1, <2>2, <3>1
    <3> QED BY <2>1, <2>2, <3>2, StuckKeeps
  <2>3. CASE Fails("encode") /\ hevcSmall' \in {hevcSmall, Downsampled} /\ UNCHANGED <<hevcShort, hevcOut>>
    BY <1>1, <1>2, <2>1, <2>3, StuckKeeps DEF Fails
  <2>4. CASE /\ Reorders(hevcPar) /\ hevcPar.pipeline # "preenc" /\ Lacking = {}
             /\ Fails("status") /\ hevcOut' = Append(hevcOut, hevcTask)
             /\ hevcSmall' = Downsampled /\ UNCHANGED hevcShort
    BY <1>1, <2>1, <2>4, StuckKeeps DEF Fails
  <2> QED BY <1>5, <2>2, <2>3, <2>4 DEF HevcFails
<1>6. CASE HevcSpin
  BY <1>1, <1>2, <1>6, StuckKeeps DEF HevcSpin, Fails
<1>7. CASE HevcFinish
  <2>1. hevcPc' \in {"spin", "done"} /\ hevcRun' \in BOOLEAN /\ hevcEos' \in BOOLEAN
    <3>1. CASE hevcCount = 0 /\ hevcPar.pipeline # "preenc"
      BY <1>1, <1>7, <3>1 DEF HevcFinish
    <3>2. CASE ~(hevcCount = 0 /\ hevcPar.pipeline # "preenc")
      <4>1. /\ hevcPc' = "done" /\ hevcEos' = (hevcCount > 0)
            /\ hevcRun' = (hevcRun /\ hevcPar.pipeline = "preenc")
        BY <1>7, <3>2 DEF HevcFinish
      <4>2. (hevcCount > 0) \in BOOLEAN /\ (hevcRun /\ hevcPar.pipeline = "preenc") \in BOOLEAN
        OBVIOUS
      <4> QED BY <4>1, <4>2, Zenon
    <3> QED BY <3>1, <3>2
  <2> QED BY <1>7, <2>1, RestKeeps DEF HevcFinish, hevcHistory
<1>8. CASE HevcFinishFails
  BY <1>1, <1>8, RestKeeps DEF HevcFinishFails, Fails
<1>10. CASE HevcStop
  BY <1>1, <1>10, RestKeeps DEF HevcStop, hevcHistory
<1>9. CASE UNCHANGED hevcVars
  BY <1>1, <1>9, RestKeeps DEF hevcVars, hevcThread, hevcHistory
<1> QED BY <1>3, <1>4, <1>5, <1>6, <1>7, <1>8, <1>9, <1>10, TakeKeeps, ResetKeeps, FlushKeeps, CodeKeeps
        DEF HevcNext, HevcStep, HevcOver

-----------------------------------------------------------------------------
(* The theorems that need no more than that. *)

LEMMA HevcMoves1 ==
  /\ Init => HevcInit
  /\ [Next]_vars => [HevcNext]_hevcVars
<1>1. Init => HevcInit
  BY DEF Init
<1>2. [Next]_vars => [HevcNext]_hevcVars
  <2>1. CASE Next
    BY <2>1 DEF Next
  <2>2. CASE UNCHANGED vars
    BY <2>2 DEF vars
  <2> QED BY <2>1, <2>2
<1> QED BY <1>1, <1>2

LEMMA Invariant == Spec => []BInv
<1>1. Init => BInv
  BY HevcMoves1, BInit
<1>2. BInv /\ [Next]_vars => BInv'
  BY HevcMoves1, BStep
<1> QED BY <1>1, <1>2, PTL DEF Spec

\* At its end the thread has no task in hand and none queued.
LEMMA FramesComeOnce ==
  ASSUME BInv
  PROVE  HevcFramesComeOnce
<1>1. SUFFICES ASSUME hevcPc = "done", hevcFault = {}, hevcShort = {}
               PROVE  /\ Len(hevcOut) = hevcCount
                      /\ {hevcOut[k].frame : k \in DOMAIN hevcOut} = 0 .. hevcCount - 1
                      /\ hevcLocked = {d.frame : d \in hevcLast.after}
  BY DEF HevcFramesComeOnce
<1>2. hevcTask = NoTask /\ hevcQueue = << >> /\ hevcLocked = FramesAt(hevcLast.after)
  BY <1>1 DEF BInv, Counts
<1>3. {NoTask.frame} \ {-1} = {} /\ FramesIn(<< >>) = {} /\ Len(<< >>) = 0
  BY DEF NoTask, FramesIn
<1>4. Len(hevcOut) \in Nat
  BY <1>1, SeqIs DEF BInv, HTypes
<1>5. /\ {hevcOut[k].frame : k \in DOMAIN hevcOut} \cup ({hevcTask.frame} \ {-1})
           \cup FramesIn(hevcQueue) = 0 .. hevcCount - 1
      /\ Len(hevcOut) + (IF hevcTask = NoTask THEN 0 ELSE 1) + Len(hevcQueue) = hevcCount
  BY <1>1 DEF BInv, Counts
<1> QED BY <1>2, <1>3, <1>4, <1>5 DEF FramesAt

LEMMA RefsAreHeld ==
  ASSUME BInv
  PROVE  HevcKeepsItsFrames
<1>1. HevcTypeOK
  <2>1. hevcCount \in 0 .. HevcFrames /\ HevcFrames \in Nat /\ hevcLocked \subseteq 0 .. hevcCount - 1
    BY HevcAssumption DEF BInv, HTypes, Locks
  <2>2. hevcLocked \subseteq 0 .. HevcFrames - 1
    BY <2>1
  <2> QED BY <2>2 DEF HevcTypeOK, BInv, HTypes, Locks
<1>2. HevcRefsAreHeld
  <2>1. SUFFICES ASSUME Coding, Reorders(hevcPar)
                 PROVE  LET needed == {d.frame : d \in hevcTask.active \cup hevcLast.after}
                                        \cup {hevcTask.frame}
                            queued == {hevcQueue[i].frame : i \in DOMAIN hevcQueue}
                        IN  /\ needed \cup queued \subseteq hevcLocked
                            /\ hevcLocked \subseteq needed \cup {d.frame : d \in hevcTask.before} \cup queued
    BY DEF HevcRefsAreHeld
  <2>2. /\ hevcTask.active \subseteq hevcTask.before /\ hevcTask.after = hevcLast.after
        /\ hevcTask.after \subseteq hevcTask.before \cup {Entry(hevcTask)}
    BY <2>1 DEF BInv, InPlace, TaskOf
  <2>3. hevcLocked = FramesAt(hevcTask.before) \cup FramesIn(hevcQueue) \cup {hevcTask.frame}
    BY <2>1 DEF BInv, Locks
  <2>4. ASSUME NEW d \in hevcTask.active \cup hevcLast.after
        PROVE  d.frame \in FramesAt(hevcTask.before) \cup {hevcTask.frame}
    BY <2>2 DEF FramesAt, Entry
  <2> QED BY <2>3, <2>4 DEF FramesAt, FramesIn
<1>3. HevcFramesComeOnce
  BY FramesComeOnce
<1> QED BY <1>1, <1>2, <1>3 DEF HevcKeepsItsFrames

\* However long the stream and whatever the encoder's parameters, queue and
\* buffer of EncodeOrderControl stay within their bounds; the surfaces of the
\* pictures that the task in hand and those to come refer to are locked while
\* it is coded, and no others but those that it frees (ReleaseResources); and
\* a thread that reaches the end of its input, with no error and nothing it
\* asked for in vain, has coded each of its frames once, and has unlocked all
\* surfaces but those of the last buffer of decoded pictures.
THEOREM HevcReferences == Spec => []HevcKeepsItsFrames
BY Invariant, RefsAreHeld, PTL

-----------------------------------------------------------------------------
(* Any mini-GOP has a frame that is no B frame. *)

LEMMA RemainderIs ==
  ASSUME NEW b \in Nat \ {0}, NEW q \in Nat, NEW r \in 0 .. b - 1
  PROVE  (b * q + r) % b = r
<1> DEFINE x == b * q + r
           p == x \div b
           t == x % b
<1>1. x \in Nat
  OBVIOUS
<1>2. p \in Nat /\ t \in 0 .. b - 1 /\ x = b * p + t
  <2> HIDE DEF x
  <2> QED BY <1>1
<1> HIDE DEF p, t
<1>3. b * q + r = b * p + t
  BY <1>2
<1>4. ~(q >= p + 1)
  <2>1. SUFFICES ASSUME q >= p + 1 PROVE FALSE
    OBVIOUS
  <2>2. PICK e \in Nat : q = p + 1 + e
    BY <1>2, <2>1
  <2>3. b * q = b * p + b + b * e /\ b * e \in Nat
    BY <1>2, <2>2
  <2> QED BY <1>2, <1>3, <2>3
<1>5. ~(p >= q + 1)
  <2>1. SUFFICES ASSUME p >= q + 1 PROVE FALSE
    OBVIOUS
  <2>2. PICK e \in Nat : p = q + 1 + e
    BY <1>2, <2>1
  <2>3. b * p = b * q + b + b * e /\ b * e \in Nat
    BY <1>2, <2>2
  <2> QED BY <1>2, <1>3, <2>3
<1>6. p = q
  BY <1>2, <1>4, <1>5
<1>7. t = r
  BY <1>2, <1>3, <1>6
<1> QED BY <1>7 DEF t

LEMMA QuotientIs ==
  ASSUME NEW b \in Nat \ {0}, NEW a \in Nat
  PROVE  \E q \in Nat : a = b * q + (a % b) /\ a % b \in 0 .. b - 1
<1>1. a \div b \in Nat /\ a = b * (a \div b) + (a % b) /\ a % b \in 0 .. b - 1
  OBVIOUS
<1> QED BY <1>1

LEMMA StartIs ==
  ASSUME NEW g \in Nat \ {0}, NEW D \in Nat \ {0}, NEW a \in Nat
  PROVE  \E m \in a .. a + D - 1 : m % g = 0 \/ (m % g) % D = 0
<1> DEFINE r == a % g
           k == r % D
<1>3. PICK q \in Nat : a = g * q + r /\ r \in 0 .. g - 1
  BY QuotientIs
<1> HIDE DEF r
<1>4. PICK p \in Nat : r = D * p + k /\ k \in 0 .. D - 1
  <2>1. r \in Nat
    BY <1>3
  <2> QED BY <2>1, QuotientIs
<1>5. CASE k = 0
  <2>1. (a % g) % D = 0 /\ a \in a .. a + D - 1
    BY <1>5 DEF r
  <2> QED BY <2>1
<1> HIDE DEF k
<1>6. CASE k # 0 /\ r + (D - k) < g
  <2> DEFINE m == a + (D - k)
             c == r + (D - k)
  <2>1. m \in a .. a + D - 1 /\ m \in Nat /\ c \in 0 .. g - 1 /\ m = g * q + c
    BY <1>3, <1>4, <1>6
  <2>2. c = D * (p + 1) + 0
    BY <1>4
  <2> HIDE DEF m, c
  <2>3. m % g = c
    BY <2>1, RemainderIs
  <2>4. c % D = 0
    <3>1. p + 1 \in Nat /\ 0 \in 0 .. D - 1
      OBVIOUS
    <3>2. (D * (p + 1) + 0) % D = 0
      BY <3>1, RemainderIs
    <3> QED BY <2>2, <3>2
  <2> QED BY <2>1, <2>3, <2>4
<1>7. CASE k # 0 /\ ~(r + (D - k) < g)
  <2> DEFINE m == a + (g - r)
  <2>1. m \in a .. a + D - 1 /\ m \in Nat /\ m = g * (q + 1) + 0
    BY <1>3, <1>4, <1>7
  <2> HIDE DEF m
  <2>2. m % g = 0
    <3>1. q + 1 \in Nat /\ 0 \in 0 .. g - 1
      OBVIOUS
    <3>2. (g * (q + 1) + 0) % g = 0
      BY <3>1, RemainderIs
    <3> QED BY <2>1, <3>2
  <2> QED BY <2>1, <2>2
<1> QED BY <1>5, <1>6, <1>7

LEMMA AnchorIs ==
  ASSUME NEW par \in HevcConfigs, NEW a \in Nat
  PROVE  \E m \in a .. a + RefDist(par) - 1 : GetFrameType(par, m) # "B"
<1>1. par.gopSize \in Nat \ {0} /\ RefDist(par) \in Nat \ {0}
  BY NumbersAre DEF HevcParameters
<1>2. PICK m \in a .. a + RefDist(par) - 1 : m % par.gopSize = 0 \/ (m % par.gopSize) % RefDist(par) = 0
  BY <1>1, StartIs
<1> QED BY <1>1, <1>2 DEF GetFrameType

-----------------------------------------------------------------------------
(* A surface joins the queue. *)

LEMMA JoinKeeps ==
  ASSUME NEW par \in HevcConfigs, NEW queue \in Seq(Waiting), NEW last \in Lasts, NEW n \in Nat,
         OInv(par, queue, n, last),
         NEW task \in Waiting, task.kind = GetFrameType(par, n), task.ref = (task.kind # "B"),
         task.poc = IF task.kind = "IDR" THEN 0 ELSE n
  PROVE  OInv(par, Append(queue, task), task.poc + 1, last)
<1> DEFINE q == Append(queue, task)
           len == Len(queue)
           new == task.poc + 1
<1>1. /\ q \in Seq(Waiting) /\ Len(q) = len + 1 /\ DOMAIN q = 1 .. len + 1 /\ DOMAIN queue = 1 .. len
      /\ len \in Nat /\ \A i \in 1 .. len : q[i] = queue[i] /\ queue[i] \in Waiting
      /\ q[len + 1] = task /\ (queue = << >> <=> len = 0) /\ q # << >>
  BY AppendIs, SeqIs
<1>2. \A i \in 1 .. len : queue[i].poc \in Nat
  BY <1>1 DEF Waiting
<1>3. task.poc \in Nat /\ task.kind \in Kinds /\ last.poc \in Int /\ last.rap \in Nat
      /\ \A d \in last.after : d.poc \in Nat
  BY DEF Waiting, Lasts, Pictures
<1>4. InOrder(par, queue, n) /\ NoGap(queue, n, last) /\ Beside(queue, n, last)
      /\ Phase(queue, n, last) /\ Preceded(par, queue, last)
  BY DEF OInv
<1> HIDE DEF q, len
<1>5. \A i \in 1 .. len : Final(q, i) => Final(queue, i) /\ task.kind # "IDR"
  <2> TAKE i \in 1 .. len
  <2>1. \A j \in i + 1 .. len : j \in i + 1 .. len + 1 /\ q[j] = queue[j]
    BY <1>1
  <2>2. len + 1 \in i + 1 .. len + 1
    BY <1>1
  <2> QED BY <1>1, <2>1, <2>2 DEF Final, len
<1>6. \A i \in 1 .. len : Here(q, i) <=> Here(queue, i)
  <2> TAKE i \in 1 .. len
  <2>1. \A j \in 1 .. i : q[j] = queue[j]
    BY <1>1
  <2> QED BY <2>1 DEF Here
<1>7. Here(q, len + 1) => task.kind # "IDR" /\ \A i \in 1 .. len : queue[i].kind # "IDR"
  <2>1. len + 1 \in 1 .. len + 1 /\ \A i \in 1 .. len : i \in 1 .. len + 1 /\ q[i] = queue[i]
    BY <1>1
  <2> QED BY <1>1, <2>1 DEF Here
<1>8. task.kind # "IDR" => task.poc = n /\ n # 0
  <2>1. GetFrameType(par, 0) = "IDR"
    BY DEF GetFrameType
  <2> QED BY <2>1
<1>9. \A i \in 1 .. len : /\ queue[i].kind = GetFrameType(par, queue[i].poc)
                          /\ queue[i].kind = "IDR" => queue[i].poc = 0
                          /\ queue[i].kind # "B" => queue[i].ref
                          /\ queue[i].kind = "B" /\ ~par.bpyramid => ~queue[i].ref
                          /\ Final(queue, i) => queue[i].poc + (len - i) < n
  BY <1>1, <1>4 DEF InOrder, len
<1>10. /\ GetFrameType(par, 0) = "IDR"
       /\ \A i, j \in 1 .. len : (i < j /\ \A k \in i + 1 .. j : queue[k].kind # "IDR")
            => queue[j].poc >= queue[i].poc + (j - i)
  <2>1. GetFrameType(par, 0) = "IDR"
    BY DEF GetFrameType
  <2> QED BY <1>1, <1>4, <2>1 DEF InOrder
<1>11. InOrder(par, q, new)
  <2>1. ASSUME NEW i \in 1 .. len + 1
        PROVE  /\ q[i].kind = GetFrameType(par, q[i].poc)
               /\ q[i].kind = "IDR" => q[i].poc = 0
               /\ q[i].kind # "B" => q[i].ref
               /\ q[i].kind = "B" /\ ~par.bpyramid => ~q[i].ref
               /\ Final(q, i) => q[i].poc + (len + 1 - i) < new
    <3>1. CASE i \in 1 .. len
      <4>1. Final(q, i) => q[i].poc + (len + 1 - i) < new
        BY <1>1, <1>2, <1>3, <1>5, <1>8, <1>9, <3>1
      <4> QED BY <1>1, <1>9, <3>1, <4>1
    <3>2. CASE i = len + 1
      <4>1. q[i] = task /\ q[i].poc + (len + 1 - i) < new
        BY <1>1, <1>3, <3>2
      <4> QED BY <1>3, <1>10, <4>1
    <3> QED BY <1>1, <3>1, <3>2
  <2>2. ASSUME NEW i \in 1 .. len + 1, NEW j \in 1 .. len + 1, i < j,
               \A k \in i + 1 .. j : q[k].kind # "IDR"
        PROVE  q[j].poc >= q[i].poc + (j - i)
    <3>1. i \in 1 .. len /\ q[i] = queue[i]
      BY <1>1, <2>2
    <3>2. CASE j \in 1 .. len
      <4>1. q[j] = queue[j] /\ \A k \in i + 1 .. j : q[k] = queue[k]
        BY <1>1, <3>1, <3>2
      <4>2. \A k \in i + 1 .. j : queue[k].kind # "IDR"
        BY <2>2, <4>1
      <4> QED BY <1>10, <2>2, <3>1, <3>2, <4>1, <4>2
    <3>3. CASE j = len + 1
      <4>1. task.kind # "IDR"
        BY <1>1, <2>2, <3>1, <3>3
      <4>2. Final(queue, i)
        <5>1. \A k \in i + 1 .. len : k \in i + 1 .. j /\ q[k] = queue[k]
          BY <1>1, <3>1, <3>3
        <5> QED BY <2>2, <5>1 DEF Final, len
      <4>3. queue[i].poc + (len - i) < n
        BY <1>9, <3>1, <4>2
      <4> QED BY <1>1, <1>2, <1>3, <1>8, <3>1, <3>3, <4>1, <4>3
    <3> QED BY <1>1, <3>2, <3>3
  <2> HIDE DEF new
  <2>3. \A i \in DOMAIN q :
          /\ q[i].kind = GetFrameType(par, q[i].poc)
          /\ q[i].kind = "IDR" => q[i].poc = 0
          /\ q[i].kind # "B" => q[i].ref
          /\ q[i].kind = "B" /\ ~par.bpyramid => ~q[i].ref
          /\ Final(q, i) => q[i].poc + (Len(q) - i) < new
    BY <1>1, <2>1
  <2>4. \A i, j \in DOMAIN q :
          i < j /\ (\A k \in i + 1 .. j : q[k].kind # "IDR") => q[j].poc >= q[i].poc + (j - i)
    BY <1>1, <2>2
  <2> QED BY <2>3, <2>4, Zenon DEF InOrder
<1>12. NoGap(q, new, last)
  <2>1. ASSUME NEW i \in 1 .. len + 1, Final(q, i)
        PROVE  \/ Here(q, i) /\ Ready(last.after, q[i])
               \/ \A m \in q[i].poc .. new - 1 : \E j \in i .. len + 1 : q[j].poc = m
    <3>1. CASE i \in 1 .. len
      <4>1. q[i] = queue[i] /\ Final(queue, i) /\ task.kind # "IDR" /\ task.poc = n
        BY <1>1, <1>5, <1>8, <2>1, <3>1
      <4>2. CASE Here(queue, i) /\ Ready(last.after, queue[i])
        BY <1>6, <3>1, <4>1, <4>2
      <4>3. CASE \A m \in queue[i].poc .. n - 1 : \E j \in i .. len : queue[j].poc = m
        <5>1. ASSUME NEW m \in q[i].poc .. new - 1
              PROVE  \E j \in i .. len + 1 : q[j].poc = m
          <6>1. CASE m = n
            BY <1>1, <3>1, <4>1, <6>1
          <6>2. CASE m # n
            <7>1. m \in queue[i].poc .. n - 1
              BY <1>2, <3>1, <4>1, <6>2
            <7>2. PICK j \in i .. len : queue[j].poc = m
              BY <4>3, <7>1
            <7>3. j \in i .. len + 1 /\ q[j] = queue[j]
              BY <1>1, <3>1
            <7> QED BY <7>2, <7>3
          <6> QED BY <6>1, <6>2
        <5> QED BY <5>1
      <4> QED BY <1>1, <1>4, <3>1, <4>1, <4>2, <4>3 DEF NoGap, len
    <3>2. CASE i = len + 1
      <4>1. \A m \in q[i].poc .. new - 1 : m = task.poc
        BY <1>1, <1>3, <3>2
      <4> QED BY <1>1, <3>2, <4>1
    <3> QED BY <1>1, <3>1, <3>2
  <2> QED BY <1>1, <2>1 DEF NoGap
<1>13. Beside(q, new, last)
  <2>1. ASSUME \A i \in 1 .. len + 1 : q[i].kind # "IDR"
        PROVE  last.poc < n /\ (\A d \in last.after : d.poc < n) /\ task.poc = n
    <3>1. \A i \in 1 .. len : queue[i].kind # "IDR"
      BY <1>1, <2>1
    <3>2. task.kind # "IDR"
      BY <1>1, <2>1
    <3> QED BY <1>1, <1>4, <1>8, <3>1, <3>2 DEF Beside
  <2>2. ASSUME \A i \in 1 .. len + 1 : q[i].kind # "IDR"
        PROVE  last.poc < new /\ \A d \in last.after : d.poc < new
    BY <1>3, <2>1, <2>2
  <2>3. ASSUME NEW i \in 1 .. len + 1, Here(q, i), NEW d \in last.after
        PROVE  d.poc # q[i].poc /\ (q[i].kind # "B" => d.poc < q[i].poc)
    <3>1. CASE i \in 1 .. len
      BY <1>1, <1>4, <1>6, <2>3, <3>1 DEF Beside
    <3>2. CASE i = len + 1
      <4>1. \A j \in 1 .. len + 1 : q[j].kind # "IDR"
        BY <2>3, <3>2 DEF Here
      <4>2. d.poc < n /\ task.poc = n
        BY <2>1, <4>1
      <4> QED BY <1>1, <1>3, <3>2, <4>2
    <3> QED BY <1>1, <3>1, <3>2
  <2> QED BY <1>1, <2>2, <2>3 DEF Beside
<1>14. q[1].kind # "IDR" => n > 0 /\ (queue = << >> \/ queue[1].kind # "IDR")
  <2>1. CASE len = 0
    <3>1. q[1] = task
      BY <1>1, <2>1
    <3> QED BY <1>1, <1>8, <2>1, <3>1
  <2>2. CASE len # 0
    <3>1. q[1] = queue[1] /\ len \in 1 .. len
      BY <1>1, <2>2
    <3>2. Final(queue, len)
      BY <1>1 DEF Final, len
    <3>3. queue[len].poc + (len - len) < n
      BY <1>9, <3>1, <3>2
    <3> QED BY <1>1, <1>2, <3>1, <3>3
  <2> QED BY <2>1, <2>2
<1>15. Phase(q, new, last)
  <2>1. SUFFICES ASSUME q[1].kind # "IDR"
                 PROVE  /\ last.after # {}
                        /\ last.poc <= last.rap => /\ \E d \in last.after : d.poc = last.rap
                                                   /\ \A d \in last.after : d.poc <= last.rap
                        /\ last.poc > last.rap => \A i \in DOMAIN q : Here(q, i) => q[i].poc > last.rap
    BY <1>1 DEF Phase
  <2>2. /\ last.after # {}
        /\ last.poc <= last.rap => /\ \E d \in last.after : d.poc = last.rap
                                   /\ \A d \in last.after : d.poc <= last.rap
        /\ last.poc > last.rap => \A i \in 1 .. len : Here(queue, i) => queue[i].poc > last.rap
    BY <1>1, <1>4, <1>14, <2>1 DEF Phase
  <2>3. ASSUME last.poc > last.rap, NEW i \in 1 .. len + 1, Here(q, i)
        PROVE  q[i].poc > last.rap
    <3>1. CASE i \in 1 .. len
      BY <1>1, <1>6, <2>2, <2>3, <3>1
    <3>2. CASE i = len + 1
      <4>1. task.poc = n /\ \A j \in 1 .. len : queue[j].kind # "IDR"
        BY <1>7, <1>8, <2>3, <3>2
      <4>2. last.poc < n
        BY <1>1, <1>4, <4>1 DEF Beside
      <4> QED BY <1>1, <1>3, <2>3, <3>2, <4>1, <4>2
    <3> QED BY <1>1, <3>1, <3>2
  <2> QED BY <1>1, <2>2, <2>3
<1>16. Preceded(par, q, last)
  <2>1. SUFFICES ASSUME ~par.bpyramid, HevcNumRef(par) # 1, NEW i \in 1 .. len + 1, Here(q, i)
                 PROVE  \E d \in last.after : d.poc < q[i].poc
    BY <1>1 DEF Preceded
  <2>2. CASE i \in 1 .. len
    BY <1>1, <1>4, <1>6, <2>1, <2>2 DEF Preceded
  <2>3. CASE i = len + 1
    <3>1. task.poc = n /\ \A j \in 1 .. len : queue[j].kind # "IDR"
      BY <1>7, <1>8, <2>1, <2>3
    <3>2. \A d \in last.after : d.poc < n
      BY <1>1, <1>4, <3>1 DEF Beside
    <3>3. q[1].kind # "IDR"
      BY <1>1, <2>1, <2>3 DEF Here
    <3>4. last.after # {}
      BY <1>4, <1>14, <3>3 DEF Phase
    <3> QED BY <1>1, <2>3, <3>1, <3>2, <3>4
  <2> QED BY <1>1, <2>1, <2>2, <2>3
<1> QED BY <1>11, <1>12, <1>13, <1>15, <1>16 DEF OInv, q

-----------------------------------------------------------------------------
(* A task leaves the queue. *)

\* The task is an IDR picture, a B frame that has a later picture, or a frame
\* coded ahead of the B frames in front of it.
Key(queue, i, task) == queue[i].kind = "IDR" /\ i = 1 /\ task.kind = "IDR" /\ task.ref
Backward(par, dpb, queue, i, task) ==
  /\ \A j \in 1 .. i : queue[j].kind = "B"
  /\ Ready(dpb, queue[i]) /\ task.kind = "B" /\ (~par.bpyramid => ~task.ref)
Forward(dpb, queue, i, task) ==
  /\ task.kind \in {"I", "P"} /\ task.ref /\ queue[i].kind # "IDR"
  /\ Still(dpb, queue, 1, i - 1) /\ \A d \in dpb : d.poc < queue[i].poc
Sets(par, dpb, queue, i, task) ==
  /\ i \in 1 .. Len(queue)
  /\ task \in Waiting /\ task.frame = queue[i].frame /\ task.poc = queue[i].poc
  /\ Key(queue, i, task) \/ Backward(par, dpb, queue, i, task) \/ Forward(dpb, queue, i, task)

\* The queue without it.
Past(i, j) == IF j < i THEN j ELSE j + 1
Left(par, queue, left, i) ==
  /\ left \in Seq(Waiting) /\ Len(left) = Len(queue) - 1
  /\ \A j \in 1 .. Len(queue) - 1 :
       /\ left[j].frame = queue[Past(i, j)].frame /\ left[j].poc = queue[Past(i, j)].poc
       /\ left[j].kind = queue[Past(i, j)].kind
       /\ queue[Past(i, j)].ref => left[j].ref
       /\ ~par.bpyramid => left[j] = queue[Past(i, j)]

LEMMA PastIs ==
  ASSUME NEW len \in Nat, NEW i \in 1 .. len
  PROVE  /\ \A j \in 1 .. len - 1 : Past(i, j) \in 1 .. len /\ Past(i, j) # i /\ Past(i, j) >= j
                                    /\ (j < i => Past(i, j) = j) /\ (j >= i => Past(i, j) = j + 1)
         /\ \A j, k \in 1 .. len - 1 : j < k => Past(i, k) - Past(i, j) >= k - j
         /\ \A k \in 1 .. len : k # i => \E j \in 1 .. len - 1 : Past(i, j) = k
<1>1. \A j \in 1 .. len - 1 : Past(i, j) \in 1 .. len /\ Past(i, j) # i /\ Past(i, j) >= j
                                    /\ (j < i => Past(i, j) = j) /\ (j >= i => Past(i, j) = j + 1)
  BY DEF Past
<1>2. \A j, k \in 1 .. len - 1 : j < k => Past(i, k) - Past(i, j) >= k - j
  BY DEF Past
<1>3. ASSUME NEW k \in 1 .. len, k # i
      PROVE  \E j \in 1 .. len - 1 : Past(i, j) = k
  <2>1. CASE k < i
    <3>1. k \in 1 .. len - 1 /\ Past(i, k) = k
      BY <2>1 DEF Past
    <3> QED BY <3>1
  <2>2. CASE k > i
    <3>1. k - 1 \in 1 .. len - 1 /\ Past(i, k - 1) = k
      BY <2>2 DEF Past
    <3> QED BY <3>1
  <2> QED BY <1>3, <2>1, <2>2
<1> QED BY <1>1, <1>2, <1>3

\* No IDR picture among those that are left, none where they were.
LEMMA LeftKinds ==
  ASSUME NEW par, NEW queue \in Seq(Waiting), NEW i \in 1 .. Len(queue), NEW left, Left(par, queue, left, i),
         queue[i].kind # "IDR" \/ i = 1
  PROVE  /\ \A j, k \in 1 .. Len(queue) - 1 : (\A m \in j + 1 .. k : left[m].kind # "IDR")
              => \A m \in Past(i, j) + 1 .. Past(i, k) : queue[m].kind # "IDR"
         /\ \A j \in 1 .. Len(queue) - 1 : Final(left, j) => Final(queue, Past(i, j))
         /\ queue[i].kind # "IDR" => \A j \in 1 .. Len(queue) - 1 : Here(left, j) <=> Here(queue, Past(i, j))
<1> DEFINE len == Len(queue)
<1>1. len \in Nat /\ i \in 1 .. len /\ DOMAIN queue = 1 .. len /\ \A j \in 1 .. len : queue[j] \in Waiting
  BY SeqIs
<1>2. Len(left) = len - 1 /\ \A j \in 1 .. len - 1 : left[j].kind = queue[Past(i, j)].kind
  BY DEF Left
<1> HIDE DEF len
<1>3. /\ \A j \in 1 .. len - 1 : Past(i, j) \in 1 .. len /\ Past(i, j) # i /\ Past(i, j) >= j
                                    /\ (j < i => Past(i, j) = j) /\ (j >= i => Past(i, j) = j + 1)
      /\ \A k \in 1 .. len : k # i => \E j \in 1 .. len - 1 : Past(i, j) = k
  BY <1>1, PastIs
<1>4. ASSUME NEW j \in 1 .. len - 1, NEW k \in 1 .. len - 1, \A m \in j + 1 .. k : left[m].kind # "IDR",
             NEW m \in Past(i, j) + 1 .. Past(i, k)
      PROVE  queue[m].kind # "IDR"
  <2>1. m \in 1 .. len /\ m > Past(i, j) /\ m <= Past(i, k)
    BY <1>1, <1>3, <1>4
  <2>2. CASE m = i
    BY <1>1, <1>3, <2>1, <2>2
  <2>3. CASE m # i
    <3>1. PICK h \in 1 .. len - 1 : Past(i, h) = m
      BY <1>3, <2>1, <2>3
    <3>2. h \in j + 1 .. k
      BY <1>1, <2>1, <3>1 DEF Past
    <3> QED BY <1>2, <1>4, <3>1, <3>2
  <2> QED BY <2>2, <2>3
<1>5. ASSUME NEW j \in 1 .. len - 1, \A m \in j + 1 .. len - 1 : left[m].kind # "IDR",
             NEW m \in Past(i, j) + 1 .. len
      PROVE  queue[m].kind # "IDR"
  <2>1. m \in 1 .. len /\ m > Past(i, j)
    BY <1>1, <1>3, <1>5
  <2>2. CASE m = i
    BY <1>1, <1>3, <2>1, <2>2
  <2>3. CASE m # i
    <3>1. PICK h \in 1 .. len - 1 : Past(i, h) = m
      BY <1>3, <2>1, <2>3
    <3>2. h \in j + 1 .. len - 1
      BY <1>1, <2>1, <3>1 DEF Past
    <3> QED BY <1>2, <1>5, <3>1, <3>2
  <2> QED BY <2>2, <2>3
<1>6. ASSUME queue[i].kind # "IDR", NEW j \in 1 .. len - 1, \A m \in 1 .. j : left[m].kind # "IDR",
             NEW m \in 1 .. Past(i, j)
      PROVE  queue[m].kind # "IDR"
  <2>1. CASE m = i
    BY <1>6, <2>1
  <2>2. CASE m # i
    <3>1. m \in 1 .. len
      BY <1>1, <1>3, <1>6
    <3>2. PICK h \in 1 .. len - 1 : Past(i, h) = m
      BY <1>3, <2>2, <3>1
    <3>3. h \in 1 .. j
      BY <1>1, <1>3, <1>6, <3>1, <3>2
    <3> QED BY <1>2, <1>6, <3>2, <3>3
  <2> QED BY <2>1, <2>2
<1>7. ASSUME NEW j \in 1 .. len - 1, \A m \in 1 .. Past(i, j) : queue[m].kind # "IDR", NEW m \in 1 .. j
      PROVE  left[m].kind # "IDR"
  <2>1. m \in 1 .. len - 1 /\ Past(i, m) \in 1 .. Past(i, j)
    BY <1>1, <1>3, <1>7
  <2> QED BY <1>2, <1>7, <2>1
<1>8. \A j \in 1 .. len - 1 : Final(left, j) => Final(queue, Past(i, j))
  BY <1>2, <1>5 DEF Final, len
<1>9. queue[i].kind # "IDR" => \A j \in 1 .. len - 1 : Here(left, j) <=> Here(queue, Past(i, j))
  BY <1>6, <1>7 DEF Here
<1> QED BY <1>4, <1>8, <1>9 DEF len

\* What GetTask chooses is such a task.
LEMMA SetsIs ==
  ASSUME hevcPar \in HevcConfigs, hevcLast \in Lasts,
         NEW queue \in Seq(Waiting), NEW n, InOrder(hevcPar, queue, n), Beside(queue, n, hevcLast),
         NEW len, Period(queue, len), NEW surface, NEW placed, NEW i,
         Chooses(queue, len, surface, placed, i)
  PROVE  /\ Sets(hevcPar, hevcLast.after, queue, i, placed[i])
         /\ Left(hevcPar, queue, RemoveAt(placed, i), i)
         /\ queue[i].kind # "IDR" => Here(queue, i)
<1> DEFINE task == placed[i]
           dpb == hevcLast.after
           left == RemoveAt(placed, i)
<1>1. /\ Len(queue) \in Nat /\ len \in 0 .. Len(queue) /\ DOMAIN queue = 1 .. Len(queue)
      /\ \A j \in 1 .. Len(queue) : queue[j] \in Waiting
      /\ \A j \in 2 .. len : queue[j].kind # "IDR"
  BY SeqIs DEF Period
<1>2. /\ \A j \in 1 .. Len(queue) : /\ queue[j].kind # "B" => queue[j].ref
                                    /\ queue[j].kind = "B" /\ ~hevcPar.bpyramid => ~queue[j].ref
      /\ \A j \in 1 .. Len(queue) : Here(queue, j) =>
           \A d \in dpb : d.poc # queue[j].poc /\ (queue[j].kind # "B" => d.poc < queue[j].poc)
  BY <1>1 DEF InOrder, Beside
<1>3. \A d \in dpb : d.poc \in Nat
  BY DEF Lasts, Pictures
<1>4. \A j \in 1 .. Len(queue) : queue[j].kind \in Kinds /\ queue[j].poc \in Nat /\ queue[j].ref \in BOOLEAN
  <2>1. \A w \in Waiting : w.kind \in Kinds /\ w.poc \in Nat /\ w.ref \in BOOLEAN
    BY DEF Waiting
  <2> QED BY <1>1, <2>1
<1>5. ASSUME i \in 1 .. Len(queue), placed \in Seq(Waiting), Len(placed) = Len(queue),
             \A j \in 1 .. Len(queue) :
               j # i => /\ placed[j].frame = queue[j].frame /\ placed[j].poc = queue[j].poc
                        /\ placed[j].kind = queue[j].kind /\ (queue[j].ref => placed[j].ref)
                        /\ ~hevcPar.bpyramid => placed[j] = queue[j]
      PROVE  Left(hevcPar, queue, left, i)
  <2>1. /\ left \in Seq(Waiting) /\ Len(left) = Len(queue) - 1
        /\ \A j \in 1 .. Len(queue) - 1 : left[j] = placed[Past(i, j)]
    BY <1>5, RemoveAtIs DEF Past
  <2>2. \A j \in 1 .. Len(queue) - 1 : Past(i, j) \in 1 .. Len(queue) /\ Past(i, j) # i
    BY <1>1, <1>5, PastIs
  <2> HIDE DEF left
  <2> QED BY <1>5, <2>1, <2>2 DEF Left
<1>6. CASE Picks(hevcPar, dpb, queue, len, placed, i)
  <2>1. /\ i \in 1 .. len /\ i \in 1 .. Len(queue) /\ placed \in Seq(Waiting) /\ Len(placed) = Len(queue)
        /\ \A j \in 1 .. Len(queue) :
             /\ placed[j].frame = queue[j].frame /\ placed[j].poc = queue[j].poc
             /\ placed[j].kind = queue[j].kind /\ (queue[j].ref => placed[j].ref)
             /\ ~hevcPar.bpyramid => placed[j] = queue[j]
        /\ (\A j \in 1 .. i : queue[j].kind = "B") /\ Ready(dpb, queue[i])
    BY <1>1, <1>6 DEF Picks, Renamed
  <2>2. task \in Waiting /\ queue[i].kind = "B"
    BY <2>1, SeqIs
  <2> HIDE DEF task
  <2>3. Backward(hevcPar, dpb, queue, i, task)
    BY <1>2, <2>1, <2>2 DEF Backward, task
  <2>4. Sets(hevcPar, dpb, queue, i, task)
    BY <2>1, <2>2, <2>3 DEF Sets, task
  <2>5. Here(queue, i)
    BY <2>1 DEF Here
  <2>6. Left(hevcPar, queue, left, i)
    BY <1>5, <2>1
  <2> QED BY <2>4, <2>5, <2>6 DEF task
<1>7. CASE placed = queue /\ Advances(dpb, queue, len, i)
  <2>1. i \in 1 .. len /\ i \in 1 .. Len(queue) /\ queue[i].kind # "B" /\ Still(dpb, queue, 1, i - 1)
        /\ task = queue[i] /\ queue[i] \in Waiting
    BY <1>1, <1>7 DEF Advances
  <2> HIDE DEF task
  <2>2. Left(hevcPar, queue, left, i)
    BY <1>5, <1>7, <2>1
  <2>3. CASE queue[i].kind = "IDR"
    <3>1. i = 1
      BY <1>1, <2>1, <2>3
    <3>2. Key(queue, i, task)
      BY <1>2, <2>1, <2>3, <3>1 DEF Key
    <3>3. Sets(hevcPar, dpb, queue, i, task)
      BY <2>1, <3>2 DEF Sets
    <3> QED BY <2>2, <2>3, <3>3 DEF task
  <2>4. CASE queue[i].kind # "IDR"
    <3>1. Here(queue, i)
      <4>1. ASSUME NEW j \in 1 .. i
            PROVE  queue[j].kind # "IDR"
        <5>1. CASE j = i
          BY <2>4, <5>1
        <5>2. CASE j # i
          <6>1. j \in 1 .. i - 1
            BY <2>1, <5>2
          <6> QED BY <2>1, <6>1 DEF Still
        <5> QED BY <5>1, <5>2
      <4> QED BY <4>1 DEF Here
    <3>2. Forward(dpb, queue, i, task)
      BY <1>2, <1>4, <2>1, <2>4, <3>1 DEF Forward, Kinds
    <3>3. Sets(hevcPar, dpb, queue, i, task)
      BY <2>1, <3>2 DEF Sets
    <3> QED BY <2>2, <3>1, <3>3 DEF task
  <2> QED BY <2>3, <2>4
<1>8. CASE placed = Turned(queue, len) /\ i = len /\ Turns(dpb, queue, len, Flushes(queue, len, surface))
  <2>1. i \in 1 .. Len(queue) /\ Still(dpb, queue, 1, i)
    BY <1>1, <1>8 DEF Turns
  <2>2. /\ placed \in Seq(Waiting) /\ Len(placed) = Len(queue)
        /\ task.frame = queue[i].frame /\ task.poc = queue[i].poc /\ task.kind = "P" /\ task.ref
        /\ \A j \in 1 .. Len(queue) : j # i => placed[j] = queue[j]
    BY <1>8, <2>1, TurnedIs
  <2>3. task \in Waiting
    BY <2>1, <2>2, SeqIs
  <2> HIDE DEF task
  <2>4. Left(hevcPar, queue, left, i)
    BY <1>5, <2>1, <2>2
  <2>5. Here(queue, i)
    BY <2>1 DEF Here, Still
  <2>6. queue[i].kind = "B" /\ ~Ready(dpb, queue[i])
    BY <2>1 DEF Still
  <2>7. \A d \in dpb : d.poc < queue[i].poc
    BY <1>2, <1>3, <1>4, <2>1, <2>5, <2>6 DEF Ready
  <2>8. Still(dpb, queue, 1, i - 1)
    BY <1>1, <2>1 DEF Still
  <2>9. Sets(hevcPar, dpb, queue, i, task)
    BY <2>1, <2>2, <2>3, <2>6, <2>7, <2>8 DEF Sets, Forward
  <2> QED BY <2>4, <2>5, <2>9 DEF task
<1> QED BY <1>6, <1>7, <1>8 DEF Chooses

\* What HevcFill sets, in terms of the task and of the buffer.
LEMMA FieldsAre ==
  ASSUME NEW par \in HevcConfigs, NEW task \in Waiting, NEW last \in Lasts
  PROVE  LET t == HevcFill(par, task, last)
             kept == IF task.kind = "IDR" THEN {} ELSE t.active
         IN  /\ t.active = IF task.poc > last.rap /\ last.poc <= last.rap
                             THEN {d \in last.after : d.poc = last.rap} ELSE last.after
             /\ t.unit = Unit(task, last)
             /\ t.rap = IF task.kind \in {"IDR", "I"} THEN task.poc ELSE last.rap
             /\ t.after = IF task.ref THEN UpdateDPB(par, kept, Entry(task)) ELSE kept
             /\ t.l0 = HevcLists(par, task, t.active)[1] /\ t.l1 = HevcLists(par, task, t.active)[2]
<1> DEFINE active == InitDPB(task, last)
           unit == Unit(task, last)
           kept == IF task.kind = "IDR" THEN {} ELSE active
           lists == HevcLists(par, task, active)
           after == IF task.ref THEN UpdateDPB(par, kept, Entry(task)) ELSE kept
           t == HevcFill(par, task, last)
<1>1. t = [frame |-> task.frame, poc |-> task.poc, kind |-> task.kind, ref |-> task.ref,
           unit |-> unit, rap |-> IF unit \in {"IDR", "CRA"} THEN task.poc ELSE last.rap,
           before |-> last.after, active |-> active, l0 |-> lists[1], l1 |-> lists[2],
           after |-> after]
  BY DEF HevcFill, Entry
<1>2. active = IF task.poc > last.rap /\ last.poc <= last.rap
                 THEN {d \in last.after : d.poc = last.rap} ELSE last.after
  BY DEF InitDPB
<1>3. unit \in {"IDR", "CRA"} <=> task.kind \in {"IDR", "I"}
  BY DEF Unit
<1> HIDE DEF active, unit, lists, after
<1>4. t.active = active /\ t.unit = unit /\ t.after = after /\ t.l0 = lists[1] /\ t.l1 = lists[2]
      /\ t.rap = IF unit \in {"IDR", "CRA"} THEN task.poc ELSE last.rap
  BY <1>1
<1> HIDE DEF t
<1> QED BY <1>2, <1>3, <1>4 DEF t, unit, lists, after

\* What is left in the buffer behind a task.
LEMMA AfterIs ==
  ASSUME NEW par \in HevcConfigs, NEW task \in Waiting, NEW last \in Lasts,
         IsFiniteSet(last.after), Cardinality(last.after) <= HevcNumRef(par)
  PROVE  LET t == HevcFill(par, task, last)
             kept == IF task.kind = "IDR" THEN {} ELSE t.active
         IN  /\ t.active \subseteq last.after
             /\ t.after \subseteq kept \cup {Entry(task)}
             /\ IF task.ref THEN Entry(task) \in t.after ELSE t.after = kept
             /\ kept # {} /\ HevcNumRef(par) # 1 => \E d \in kept : d \in t.after
             /\ \A x \in Int : ((~par.ppyramid /\ HevcNumRef(par) # 1) \/ ~task.ref)
                                 /\ (\E d \in kept : d.poc >= x) =>
                                 \E d \in kept : d.poc >= x /\ d \in t.after
<1> DEFINE t == HevcFill(par, task, last)
           kept == IF task.kind = "IDR" THEN {} ELSE t.active
<1>1. /\ t.active = IF task.poc > last.rap /\ last.poc <= last.rap
                      THEN {d \in last.after : d.poc = last.rap} ELSE last.after
      /\ t.after = IF task.ref THEN UpdateDPB(par, kept, Entry(task)) ELSE kept
  BY FieldsAre
<1> HIDE DEF t
<1>2. t.active \subseteq last.after
  BY <1>1
<1>3. last.after \in SUBSET Pictures /\ Entry(task) \in Pictures
  BY DEF Lasts, Entry, Waiting, Pictures
<1>4. kept \subseteq last.after
  BY <1>2
<1> HIDE DEF kept
<1>5. HevcNumRef(par) \in 1 .. 15 /\ Cardinality(last.after) \in Nat
  BY NumbersAre, FS_CardinalityType
<1>6. kept \in SUBSET Pictures /\ IsFiniteSet(kept) /\ Cardinality(kept) <= HevcNumRef(par)
  <2>1. IsFiniteSet(kept) /\ Cardinality(kept) <= Cardinality(last.after)
    BY <1>4, FS_Subset
  <2>2. Cardinality(kept) \in Nat
    BY <2>1, FS_CardinalityType
  <2> QED BY <1>3, <1>4, <1>5, <2>1, <2>2
<1>7. CASE task.ref
  <2> DEFINE new == UpdateDPB(par, kept, Entry(task))
  <2>1. /\ Entry(task) \in new /\ new \subseteq kept \cup {Entry(task)}
        /\ kept # {} /\ HevcNumRef(par) # 1 => \E d \in kept : d \in new
        /\ \A x \in Int : ~par.ppyramid /\ HevcNumRef(par) # 1 /\ (\E d \in kept : d.poc >= x) =>
                            \E d \in kept : d.poc >= x /\ d \in new
    BY <1>3, <1>6, UpdateIs
  <2>2. t.after = new
    BY <1>1, <1>7
  <2> HIDE DEF new
  <2> QED BY <1>2, <1>7, <2>1, <2>2 DEF t, kept
<1>8. CASE ~task.ref
  <2>1. t.after = kept
    BY <1>1, <1>8
  <2> QED BY <1>2, <1>8, <2>1 DEF t, kept
<1> QED BY <1>7, <1>8

\* What the three kinds of task leave behind.
LeavesKey(task, t) == t.after = {Entry(task)} /\ task.poc = 0 /\ t.poc = 0 /\ t.rap = 0
LeavesBack(par, task, last, t) ==
  /\ t.poc = task.poc /\ t.rap = last.rap
  /\ last.poc <= last.rap => t.poc <= last.rap
  /\ last.poc > last.rap => t.poc > last.rap
  /\ t.active = last.after /\ t.after \subseteq last.after \cup {Entry(task)}
  /\ IF task.ref THEN Entry(task) \in t.after ELSE t.after = last.after
  /\ ~par.bpyramid => t.after = last.after
  /\ \A x \in Int : (\E d \in last.after : d.poc >= x) => \E d \in last.after : d.poc >= x /\ d \in t.after
LeavesForward(par, task, last, t) ==
  /\ t.poc = task.poc /\ t.poc > last.rap
  /\ t.rap = (IF task.kind = "I" THEN t.poc ELSE last.rap)
  /\ Entry(task) \in t.after /\ t.after \subseteq last.after \cup {Entry(task)}
  /\ t.active \subseteq last.after /\ t.after \subseteq t.active \cup {Entry(task)}
  /\ \A d \in t.active : last.poc > last.rap \/ d.poc = last.rap
  /\ t.active # {} /\ (HevcNumRef(par) # 1 => \E d \in last.after : d \in t.after)

\* What OInv says where a task is to leave.
LEMMA SpotIs ==
  ASSUME NEW par \in HevcConfigs, NEW queue \in Seq(Waiting), NEW last \in Lasts, NEW n \in Nat,
         OInv(par, queue, n, last), NEW i \in 1 .. Len(queue)
  PROVE  /\ n > 0
         /\ queue[i].kind = "IDR" => queue[i].poc = 0
         /\ Here(queue, i) =>
              /\ last.after # {}
              /\ last.poc <= last.rap => /\ \E d \in last.after : d.poc = last.rap
                                         /\ \A d \in last.after : d.poc <= last.rap
              /\ last.poc > last.rap => queue[i].poc > last.rap
<1>1. /\ Len(queue) \in Nat /\ DOMAIN queue = 1 .. Len(queue) /\ \A j \in 1 .. Len(queue) : queue[j] \in Waiting
      /\ \A j \in 1 .. Len(queue) : queue[j].poc \in Nat
  <2>1. Len(queue) \in Nat /\ DOMAIN queue = 1 .. Len(queue) /\ \A j \in 1 .. Len(queue) : queue[j] \in Waiting
    BY SeqIs
  <2>2. \A w \in Waiting : w.poc \in Nat
    BY DEF Waiting
  <2> QED BY <2>1, <2>2
<1>2. InOrder(par, queue, n) /\ Phase(queue, n, last)
  BY DEF OInv
<1>3. Final(queue, Len(queue))
  BY <1>1 DEF Final
<1>4. queue[Len(queue)].poc + (Len(queue) - Len(queue)) < n
  <2>1. Len(queue) \in 1 .. Len(queue)
    BY <1>1
  <2> QED BY <1>1, <1>2, <1>3, <2>1 DEF InOrder
<1>5. n > 0
  <2>1. Len(queue) \in 1 .. Len(queue)
    BY <1>1
  <2> QED BY <1>1, <1>4, <2>1
<1>6. queue[i].kind = "IDR" => queue[i].poc = 0
  BY <1>1, <1>2 DEF InOrder
<1>7. ASSUME Here(queue, i)
      PROVE  /\ last.after # {}
             /\ last.poc <= last.rap => /\ \E d \in last.after : d.poc = last.rap
                                        /\ \A d \in last.after : d.poc <= last.rap
             /\ last.poc > last.rap => queue[i].poc > last.rap
  <2>1. queue[1].kind # "IDR"
    <3>1. 1 \in 1 .. i
      BY <1>1
    <3> QED BY <1>7, <3>1 DEF Here
  <2> QED BY <1>1, <1>2, <1>5, <1>7, <2>1 DEF Phase
<1> QED BY <1>5, <1>6, <1>7

\* A task that leaves does so in one of three ways.
LEMMA LeavesAre ==
  ASSUME NEW par \in HevcConfigs, ~Overruns(par),
         NEW queue \in Seq(Waiting), NEW last \in Lasts, NEW n \in Nat,
         IsFiniteSet(last.after), Cardinality(last.after) <= HevcNumRef(par),
         OInv(par, queue, n, last), NEW i, NEW task, Sets(par, last.after, queue, i, task),
         queue[i].kind # "IDR" => Here(queue, i)
  PROVE  LET t == HevcFill(par, task, last)
         IN  \/ Key(queue, i, task) /\ LeavesKey(task, t)
             \/ Backward(par, last.after, queue, i, task) /\ LeavesBack(par, task, last, t)
             \/ Forward(last.after, queue, i, task) /\ LeavesForward(par, task, last, t)
<1> DEFINE t == HevcFill(par, task, last)
           kept == IF task.kind = "IDR" THEN {} ELSE t.active
<1>1. /\ i \in 1 .. Len(queue) /\ task \in Waiting /\ task.poc = queue[i].poc
      /\ Key(queue, i, task) \/ Backward(par, last.after, queue, i, task)
           \/ Forward(last.after, queue, i, task)
  BY DEF Sets
<1>2. /\ queue[i].kind = "IDR" => queue[i].poc = 0
      /\ Here(queue, i) =>
           /\ last.after # {}
           /\ last.poc <= last.rap => /\ \E d \in last.after : d.poc = last.rap
                                      /\ \A d \in last.after : d.poc <= last.rap
           /\ last.poc > last.rap => queue[i].poc > last.rap
  BY <1>1, SpotIs
<1>3. task.poc \in Nat /\ last.poc \in Int /\ last.rap \in Nat /\ \A d \in last.after : d.poc \in Nat
  BY <1>1 DEF Waiting, Lasts, Pictures
<1>4. /\ t.active \subseteq last.after
      /\ t.after \subseteq kept \cup {Entry(task)}
      /\ IF task.ref THEN Entry(task) \in t.after ELSE t.after = kept
      /\ kept # {} /\ HevcNumRef(par) # 1 => \E d \in kept : d \in t.after
      /\ \A x \in Int : ((~par.ppyramid /\ HevcNumRef(par) # 1) \/ ~task.ref)
                          /\ (\E d \in kept : d.poc >= x) =>
                          \E d \in kept : d.poc >= x /\ d \in t.after
  BY <1>1, AfterIs
<1>5. /\ t.active = IF task.poc > last.rap /\ last.poc <= last.rap
                      THEN {d \in last.after : d.poc = last.rap} ELSE last.after
      /\ t.rap = IF task.kind \in {"IDR", "I"} THEN task.poc ELSE last.rap
  BY <1>1, FieldsAre
<1>6. t.poc = task.poc
  BY <1>1, FillIs
<1> HIDE DEF t
<1>7. CASE Key(queue, i, task)
  <2>1. task.kind = "IDR" /\ task.ref /\ task.poc = 0
    BY <1>1, <1>2, <1>7 DEF Key
  <2>2. t.after = {Entry(task)}
    BY <1>4, <2>1
  <2>3. LeavesKey(task, t)
    BY <1>5, <1>6, <2>1, <2>2 DEF LeavesKey
  <2> QED BY <1>7, <2>3 DEF t
<1>8. CASE Backward(par, last.after, queue, i, task)
  <2>1. /\ task.kind = "B" /\ queue[i].kind = "B" /\ (~par.bpyramid => ~task.ref)
        /\ \E d \in last.after : d.poc > task.poc
    BY <1>1, <1>8 DEF Backward, Ready
  <2>2. Here(queue, i)
    BY <1>1, <2>1
  <2>3. last.poc <= last.rap => task.poc <= last.rap
    BY <1>2, <1>3, <2>1, <2>2
  <2>4. last.poc > last.rap => task.poc > last.rap
    BY <1>1, <1>2, <2>2
  <2>5. t.active = last.after
    BY <1>3, <1>5, <2>3
  <2>6. kept = last.after
    BY <2>1, <2>5
  <2> HIDE DEF kept
  <2>7. (~par.ppyramid /\ HevcNumRef(par) # 1) \/ ~task.ref
    BY <2>1 DEF Overruns
  <2>8. LeavesBack(par, task, last, t)
    BY <1>4, <1>5, <1>6, <2>1, <2>3, <2>4, <2>5, <2>6, <2>7 DEF LeavesBack
  <2> QED BY <1>8, <2>8 DEF t
<1>9. CASE Forward(last.after, queue, i, task)
  <2>1. task.kind \in {"I", "P"} /\ task.ref /\ Here(queue, i) /\ \A d \in last.after : d.poc < task.poc
    BY <1>1, <1>9 DEF Forward
  <2>2. task.poc > last.rap
    BY <1>1, <1>2, <1>3, <2>1
  <2>3. t.active # {} /\ kept = t.active
    BY <1>2, <1>3, <1>5, <2>1
  <2> HIDE DEF kept
  <2>4. HevcNumRef(par) # 1 => \E d \in last.after : d \in t.after
    BY <1>4, <2>3
  <2>5. /\ t.active \subseteq last.after /\ t.after \subseteq t.active \cup {Entry(task)}
        /\ t.after \subseteq last.after \cup {Entry(task)} /\ Entry(task) \in t.after
    BY <1>4, <2>1, <2>3
  <2>6. \A d \in t.active : last.poc > last.rap \/ d.poc = last.rap
    BY <1>3, <1>5, <2>2
  <2>7. LeavesForward(par, task, last, t)
    BY <1>5, <1>6, <2>1, <2>2, <2>3, <2>4, <2>5, <2>6 DEF LeavesForward
  <2> QED BY <1>9, <2>7 DEF t
<1> QED BY <1>1, <1>7, <1>8, <1>9

\* Pictures of one period are in order.
LEMMA OrderIs ==
  ASSUME NEW par, NEW queue \in Seq(Waiting), NEW n, InOrder(par, queue, n),
         NEW a \in 1 .. Len(queue), NEW b \in 1 .. Len(queue), a < b,
         \A k \in a + 1 .. b : queue[k].kind # "IDR"
  PROVE  queue[a].poc < queue[b].poc
<1>1. DOMAIN queue = 1 .. Len(queue) /\ Len(queue) \in Nat /\ queue[a].poc \in Nat /\ queue[b].poc \in Nat
  <2>1. DOMAIN queue = 1 .. Len(queue) /\ Len(queue) \in Nat /\ queue[a] \in Waiting /\ queue[b] \in Waiting
    BY SeqIs
  <2> QED BY <2>1 DEF Waiting
<1>2. queue[b].poc >= queue[a].poc + (b - a)
  BY <1>1 DEF InOrder
<1> QED BY <1>1, <1>2

\* What stays in the queue, beside the task that leaves.
LEMMA RestAre ==
  ASSUME NEW par, NEW queue \in Seq(Waiting), NEW n \in Nat, InOrder(par, queue, n),
         NEW i \in 1 .. Len(queue), NEW left, Left(par, queue, left, i),
         queue[i].kind = "IDR" => i = 1 /\ queue[i].poc = 0,
         queue[i].kind # "IDR" => Here(queue, i),
         NEW j \in 1 .. Len(queue) - 1
  PROVE  LET p == Past(i, j)
         IN  /\ p \in 1 .. Len(queue) /\ p # i /\ p >= j
             /\ left[j].poc = queue[p].poc /\ left[j].kind = queue[p].kind
             /\ queue[p].poc \in Nat /\ queue[i].poc \in Nat
             /\ Final(left, j) => Final(queue, p)
             /\ queue[i].kind # "IDR" => /\ Here(left, j) <=> Here(queue, p)
                                         /\ p < i => Here(queue, p) /\ queue[p].poc < queue[i].poc
                                         /\ p > i /\ Here(queue, p) => queue[i].poc < queue[p].poc
             /\ queue[i].kind = "IDR" => /\ p > i /\ ~Here(queue, p)
                                         /\ Here(left, j) => 0 < queue[p].poc
<1> DEFINE len == Len(queue)
           p == Past(i, j)
<1>1. len \in Nat /\ i \in 1 .. len /\ DOMAIN queue = 1 .. len /\ \A k \in 1 .. len : queue[k] \in Waiting
  BY SeqIs
<1>2. p \in 1 .. len /\ p # i /\ p >= j
  BY <1>1, PastIs
<1>3. Len(left) = len - 1 /\ \A k \in 1 .. len - 1 : left[k].poc = queue[Past(i, k)].poc /\ left[k].kind = queue[Past(i, k)].kind
  BY DEF Left
<1>4. queue[p].poc \in Nat /\ queue[i].poc \in Nat
  BY <1>1, <1>2 DEF Waiting
<1>5. /\ Final(left, j) => Final(queue, p)
      /\ queue[i].kind # "IDR" => (Here(left, j) <=> Here(queue, p))
  <2>1. queue[i].kind # "IDR" \/ i = 1
    OBVIOUS
  <2> QED BY <2>1, LeftKinds
<1>6. left[j].poc = queue[p].poc /\ left[j].kind = queue[p].kind
  BY <1>3
<1>7. ASSUME queue[i].kind # "IDR"
      PROVE  /\ p < i => Here(queue, p) /\ queue[p].poc < queue[i].poc
             /\ p > i /\ Here(queue, p) => queue[i].poc < queue[p].poc
  <2>1. \A k \in 1 .. i : queue[k].kind # "IDR"
    BY <1>7 DEF Here
  <2> HIDE DEF p
  <2>2. ASSUME p < i
        PROVE  Here(queue, p) /\ queue[p].poc < queue[i].poc
    <3>1. (\A k \in p + 1 .. i : k \in 1 .. i) /\ (\A k \in 1 .. p : k \in 1 .. i)
      BY <1>1, <1>2, <2>2
    <3>2. Here(queue, p)
      BY <2>1, <3>1 DEF Here
    <3>3. queue[p].poc < queue[i].poc
      BY <1>1, <1>2, <2>1, <2>2, <3>1, OrderIs
    <3> QED BY <3>2, <3>3
  <2>3. ASSUME p > i, Here(queue, p)
        PROVE  queue[i].poc < queue[p].poc
    <3>1. \A k \in i + 1 .. p : k \in 1 .. p
      BY <1>1, <1>2, <2>3
    <3>2. \A k \in i + 1 .. p : queue[k].kind # "IDR"
      BY <2>3, <3>1 DEF Here
    <3> QED BY <1>1, <1>2, <2>3, <3>2, OrderIs
  <2> QED BY <2>2, <2>3
<1>8. ASSUME queue[i].kind = "IDR"
      PROVE  /\ p > i /\ ~Here(queue, p)
             /\ Here(left, j) => 0 < queue[p].poc
  <2>1. i = 1 /\ p = j + 1 /\ queue[1].kind = "IDR" /\ queue[1].poc = 0
    BY <1>8 DEF Past
  <2>2. ~Here(queue, p)
    <3>1. 1 \in 1 .. p
      BY <1>2
    <3> QED BY <2>1, <3>1 DEF Here
  <2>3. ASSUME Here(left, j)
        PROVE  0 < queue[p].poc
    <3>1. ASSUME NEW k \in 2 .. p
          PROVE  queue[k].kind # "IDR"
      <4>1. k - 1 \in 1 .. j /\ k - 1 \in 1 .. len - 1 /\ Past(i, k - 1) = k
        BY <1>1, <2>1 DEF Past
      <4> QED BY <1>3, <2>3, <4>1 DEF Here
    <3> HIDE DEF p
    <3>2. queue[1].poc < queue[p].poc
      <4>1. 1 \in 1 .. len /\ 1 < p /\ 1 + 1 = 2
        BY <1>1, <1>2, <2>1
      <4>2. \A k \in 1 + 1 .. p : queue[k].kind # "IDR"
        BY <3>1, <4>1
      <4> QED BY <1>2, <4>1, <4>2, OrderIs
    <3> QED BY <2>1, <3>2
  <2> QED BY <1>1, <1>2, <2>1, <2>2, <2>3
<1> HIDE DEF len
<1> QED BY <1>2, <1>4, <1>5, <1>6, <1>7, <1>8 DEF p, len

LEMMA LeftInOrder ==
  ASSUME NEW par, NEW queue \in Seq(Waiting), NEW n \in Nat, InOrder(par, queue, n),
         NEW i \in 1 .. Len(queue), NEW left, Left(par, queue, left, i), queue[i].kind # "IDR" \/ i = 1
  PROVE  InOrder(par, left, n)
<1> DEFINE len == Len(queue)
<1>1. len \in Nat /\ i \in 1 .. len /\ DOMAIN queue = 1 .. len /\ \A k \in 1 .. len : queue[k] \in Waiting
  BY SeqIs
<1>2. /\ Len(left) = len - 1
      /\ \A k \in 1 .. len - 1 : /\ left[k].poc = queue[Past(i, k)].poc /\ left[k].kind = queue[Past(i, k)].kind
                                 /\ queue[Past(i, k)].ref => left[k].ref
                                 /\ ~par.bpyramid => left[k] = queue[Past(i, k)]
  BY DEF Left
<1>3. left \in Seq(Waiting)
  BY DEF Left
<1>4. DOMAIN left = 1 .. len - 1
  BY <1>2, <1>3, SeqIs
<1>5. /\ \A j \in 1 .. len - 1 : Past(i, j) \in 1 .. len /\ Past(i, j) <= j + 1
      /\ \A j, k \in 1 .. len - 1 : j < k => Past(i, k) - Past(i, j) >= k - j
  BY <1>1 DEF Past
<1>6. /\ \A j, k \in 1 .. len - 1 : (\A m \in j + 1 .. k : left[m].kind # "IDR")
           => \A m \in Past(i, j) + 1 .. Past(i, k) : queue[m].kind # "IDR"
      /\ \A j \in 1 .. len - 1 : Final(left, j) => Final(queue, Past(i, j))
      /\ queue[i].kind # "IDR" => \A j \in 1 .. len - 1 : Here(left, j) <=> Here(queue, Past(i, j))
  BY LeftKinds
<1>7. \A k \in 1 .. len : queue[k].poc \in Nat
  BY <1>1 DEF Waiting
<1>8. /\ \A k \in 1 .. len :
            /\ queue[k].kind = GetFrameType(par, queue[k].poc)
            /\ queue[k].kind = "IDR" => queue[k].poc = 0
            /\ queue[k].kind # "B" => queue[k].ref
            /\ queue[k].kind = "B" /\ ~par.bpyramid => ~queue[k].ref
            /\ Final(queue, k) => queue[k].poc + (len - k) < n
      /\ \A k, m \in 1 .. len :
           k < m /\ (\A x \in k + 1 .. m : queue[x].kind # "IDR") => queue[m].poc >= queue[k].poc + (m - k)
  BY <1>1 DEF InOrder
<1> HIDE DEF len
<1>9. ASSUME NEW j \in 1 .. len - 1
      PROVE  /\ left[j].kind = GetFrameType(par, left[j].poc)
             /\ left[j].kind = "IDR" => left[j].poc = 0
             /\ left[j].kind # "B" => left[j].ref
             /\ left[j].kind = "B" /\ ~par.bpyramid => ~left[j].ref
             /\ Final(left, j) => left[j].poc + (len - 1 - j) < n
  <2> DEFINE p == Past(i, j)
  <2>1. p \in 1 .. len /\ p <= j + 1 /\ queue[p].poc \in Nat
    BY <1>5, <1>7
  <2>2. /\ left[j].poc = queue[p].poc /\ left[j].kind = queue[p].kind
        /\ queue[p].ref => left[j].ref
        /\ ~par.bpyramid => left[j] = queue[p]
        /\ Final(left, j) => Final(queue, p)
    BY <1>2, <1>6
  <2> HIDE DEF p
  <2>3. Final(left, j) => left[j].poc + (len - 1 - j) < n
    BY <1>1, <1>8, <2>1, <2>2
  <2> QED BY <1>8, <2>1, <2>2, <2>3
<1>10. ASSUME NEW j \in 1 .. len - 1, NEW k \in 1 .. len - 1, j < k, \A m \in j + 1 .. k : left[m].kind # "IDR"
       PROVE  left[k].poc >= left[j].poc + (k - j)
  <2> DEFINE p == Past(i, j)
             q == Past(i, k)
  <2>1. p \in 1 .. len /\ q \in 1 .. len /\ q - p >= k - j
    BY <1>5, <1>10
  <2>2. p < q
    BY <1>1, <1>10, <2>1
  <2>3. \A m \in p + 1 .. q : queue[m].kind # "IDR"
    BY <1>6, <1>10
  <2>4. left[j].poc = queue[p].poc /\ left[k].poc = queue[q].poc
    BY <1>2
  <2> HIDE DEF p, q
  <2>5. queue[q].poc >= queue[p].poc + (q - p)
    BY <1>8, <2>1, <2>2, <2>3
  <2>6. queue[p].poc \in Nat /\ queue[q].poc \in Nat
    BY <1>7, <2>1
  <2> DEFINE x == queue[p].poc
             y == queue[q].poc
  <2>7. x \in Nat /\ y \in Nat /\ y >= x + (q - p)
    BY <2>5, <2>6
  <2> HIDE DEF x, y
  <2>8. y >= x + (k - j)
    BY <1>1, <2>1, <2>7
  <2> QED BY <2>4, <2>8 DEF x, y
<1> QED BY <1>2, <1>4, <1>9, <1>10 DEF InOrder

\* The task at i of the queue leaves, and the buffer is the next one.
Goes(par, queue, last, i, task, next) ==
  /\ i \in 1 .. Len(queue) /\ task \in Waiting /\ task.poc = queue[i].poc
  /\ queue[i].kind = "IDR" => i = 1 /\ queue[i].poc = 0
  /\ queue[i].kind # "IDR" => Here(queue, i)
  /\ \/ Key(queue, i, task) /\ next.poc = 0 /\ next.rap = 0 /\ next.after = {Entry(task)}
     \/ /\ Backward(par, last.after, queue, i, task)
        /\ next.poc = task.poc /\ next.rap = last.rap
        /\ last.poc <= last.rap => task.poc <= last.rap
        /\ last.poc > last.rap => task.poc > last.rap
        /\ next.after \subseteq last.after \cup {Entry(task)}
        /\ ~par.bpyramid => next.after = last.after
        /\ \A x \in Int : (\E d \in last.after : d.poc >= x) => \E d \in last.after : d.poc >= x /\ d \in next.after
     \/ /\ Forward(last.after, queue, i, task)
        /\ next.poc = task.poc /\ task.poc > last.rap
        /\ next.rap = (IF task.kind = "I" THEN task.poc ELSE last.rap)
        /\ Entry(task) \in next.after /\ next.after \subseteq last.after \cup {Entry(task)}
        /\ HevcNumRef(par) # 1 => \E d \in last.after : d \in next.after

LEMMA LeftNoGap ==
  ASSUME NEW par, NEW queue \in Seq(Waiting), NEW last \in Lasts, NEW n \in Nat, OInv(par, queue, n, last),
         NEW i, NEW task, NEW next, Goes(par, queue, last, i, task, next),
         NEW left, Left(par, queue, left, i)
  PROVE  NoGap(left, n, next)
<1> DEFINE len == Len(queue)
<1>1. len \in Nat /\ i \in 1 .. len /\ DOMAIN queue = 1 .. len
  BY SeqIs DEF Goes
<1>2. /\ Len(left) = len - 1 /\ left \in Seq(Waiting)
      /\ \A k \in 1 .. len - 1 : left[k].poc = queue[Past(i, k)].poc
  BY DEF Left
<1>3. DOMAIN left = 1 .. len - 1
  BY <1>2, SeqIs
<1>4. SUFFICES ASSUME NEW j \in 1 .. len - 1, Final(left, j)
               PROVE  \/ Here(left, j) /\ Ready(next.after, left[j])
                      \/ \A m \in left[j].poc .. n - 1 : \E h \in j .. Len(left) : left[h].poc = m
  BY <1>3 DEF NoGap
<1> DEFINE p == Past(i, j)
<1>5. /\ p \in 1 .. len /\ p # i /\ p >= j
      /\ left[j].poc = queue[p].poc /\ left[j].kind = queue[p].kind
      /\ queue[p].poc \in Nat /\ queue[i].poc \in Nat
      /\ Final(left, j) => Final(queue, p)
      /\ queue[i].kind # "IDR" => /\ Here(left, j) <=> Here(queue, p)
                                  /\ p < i => Here(queue, p) /\ queue[p].poc < queue[i].poc
                                  /\ p > i /\ Here(queue, p) => queue[i].poc < queue[p].poc
      /\ queue[i].kind = "IDR" => /\ p > i /\ ~Here(queue, p)
                                  /\ Here(left, j) => 0 < queue[p].poc
  <2>1. InOrder(par, queue, n)
    BY DEF OInv
  <2> QED BY <1>1, <2>1, RestAre DEF Goes
<1>6. \/ Here(queue, p) /\ Ready(last.after, queue[p])
      \/ \A m \in queue[p].poc .. n - 1 : \E h \in p .. len : queue[h].poc = m
  BY <1>1, <1>4, <1>5 DEF OInv, NoGap
<1>7. \A d \in last.after : d.poc \in Nat
  BY DEF Lasts, Pictures
<1>8. ASSUME p > i, \A m \in queue[p].poc .. n - 1 : \E h \in p .. len : queue[h].poc = m
      PROVE  \A m \in left[j].poc .. n - 1 : \E h \in j .. Len(left) : left[h].poc = m
  <2>1. SUFFICES ASSUME NEW m \in left[j].poc .. n - 1
                 PROVE  \E h \in j .. len - 1 : left[h].poc = m
    BY <1>2
  <2>2. m \in queue[p].poc .. n - 1
    BY <1>5
  <2>3. PICK h \in p .. len : queue[h].poc = m
    BY <1>8, <2>2
  <2>4. h - 1 \in j .. len - 1 /\ h - 1 \in 1 .. len - 1 /\ Past(i, h - 1) = h
    BY <1>1, <1>8, <2>3 DEF Past
  <2>5. left[h - 1].poc = m
    BY <1>2, <2>3, <2>4
  <2> QED BY <2>4, <2>5
<1> HIDE DEF p, len
<1>9. CASE Key(queue, i, task)
  <2>1. queue[i].kind = "IDR"
    BY <1>9 DEF Key
  <2> QED BY <1>5, <1>6, <1>8, <2>1
<1>10. CASE /\ Backward(par, last.after, queue, i, task)
            /\ \A x \in Int : (\E d \in last.after : d.poc >= x) =>
                                \E d \in last.after : d.poc >= x /\ d \in next.after
  <2>1. queue[i].kind # "IDR" /\ Ready(last.after, queue[i])
    <3>1. i \in 1 .. i
      BY <1>1
    <3> QED BY <1>10, <3>1 DEF Backward
  <2>2. ASSUME Here(queue, p), Ready(last.after, queue[p])
        PROVE  Here(left, j) /\ Ready(next.after, left[j])
    <3>1. PICK d \in last.after : d.poc > queue[p].poc
      BY <2>2 DEF Ready
    <3>2. d.poc >= queue[p].poc + 1 /\ queue[p].poc + 1 \in Int
      BY <1>5, <1>7, <3>1
    <3>3. PICK e \in last.after : e.poc >= queue[p].poc + 1 /\ e \in next.after
      BY <1>10, <3>2
    <3>4. e.poc > left[j].poc
      BY <1>5, <1>7, <3>3
    <3> QED BY <1>5, <2>1, <2>2, <3>3, <3>4 DEF Ready
  <2>3. CASE Here(queue, p) /\ Ready(last.after, queue[p])
    BY <2>2, <2>3
  <2>4. CASE p > i /\ ~(Here(queue, p) /\ Ready(last.after, queue[p]))
    BY <1>6, <1>8, <2>4
  <2>5. CASE ~(p > i)
    <3>1. p < i
      BY <1>1, <1>5, <2>5
    <3>2. Here(queue, p) /\ queue[p].poc < queue[i].poc
      BY <1>5, <2>1, <3>1
    <3>3. PICK d \in last.after : d.poc > queue[i].poc
      BY <2>1 DEF Ready
    <3>4. d.poc > queue[p].poc
      BY <1>5, <1>7, <3>2, <3>3
    <3>5. Ready(last.after, queue[p])
      BY <3>4 DEF Ready
    <3> QED BY <2>2, <3>2, <3>5
  <2> QED BY <2>3, <2>4, <2>5
<1>11. CASE Forward(last.after, queue, i, task) /\ Entry(task) \in next.after
  <2>1. /\ queue[i].kind # "IDR" /\ \A d \in last.after : d.poc < queue[i].poc
        /\ Still(last.after, queue, 1, i - 1)
    BY <1>11 DEF Forward
  <2>2. Entry(task).poc = queue[i].poc
    BY DEF Entry, Goes
  <2>3. CASE p > i
    <3>1. ~(Here(queue, p) /\ Ready(last.after, queue[p]))
      BY <1>5, <1>7, <2>1, <2>3 DEF Ready
    <3> QED BY <1>6, <1>8, <2>3, <3>1
  <2>4. CASE ~(p > i)
    <3>1. p < i
      BY <1>1, <1>5, <2>4
    <3>2. Here(left, j) /\ queue[p].poc < queue[i].poc
      BY <1>5, <2>1, <3>1
    <3>3. Ready(next.after, left[j])
      BY <1>5, <1>11, <2>2, <3>2 DEF Ready
    <3> QED BY <3>2, <3>3
  <2> QED BY <2>3, <2>4
<1> QED BY <1>9, <1>10, <1>11 DEF Goes

LEMMA LeftBeside ==
  ASSUME NEW par, NEW queue \in Seq(Waiting), NEW last \in Lasts, NEW n \in Nat, OInv(par, queue, n, last),
         NEW i, NEW task, NEW next, Goes(par, queue, last, i, task, next),
         NEW left, Left(par, queue, left, i)
  PROVE  Beside(left, n, next)
<1> DEFINE len == Len(queue)
<1>1. len \in Nat /\ i \in 1 .. len /\ DOMAIN queue = 1 .. len
      /\ \A k \in 1 .. len : queue[k].poc \in Nat
  <2>1. \A w \in Waiting : w.poc \in Nat
    BY DEF Waiting
  <2> QED BY <2>1, SeqIs DEF Goes
<1>2. /\ Len(left) = len - 1 /\ left \in Seq(Waiting)
      /\ \A k \in 1 .. len - 1 : left[k].kind = queue[Past(i, k)].kind
  BY DEF Left
<1>3. DOMAIN left = 1 .. len - 1
  BY <1>2, SeqIs
<1>4. InOrder(par, queue, n) /\ Beside(queue, n, last)
  BY DEF OInv
<1>5. \A d \in last.after : d.poc \in Nat
  BY DEF Lasts, Pictures
<1>6. Entry(task).poc = task.poc /\ task.poc = queue[i].poc
  BY DEF Entry, Goes
<1>7. \/ Key(queue, i, task) /\ next.poc = 0 /\ next.after = {Entry(task)}
      \/ /\ queue[i].kind # "IDR" /\ next.poc = task.poc
         /\ next.after \subseteq last.after \cup {Entry(task)}
         /\ \A k \in 1 .. i - 1 : queue[k].kind = "B"
  <2>1. \A k \in 1 .. i - 1 : k \in 1 .. i
    BY <1>1
  <2>2. Backward(par, last.after, queue, i, task) =>
          queue[i].kind # "IDR" /\ \A k \in 1 .. i - 1 : queue[k].kind = "B"
    <3>1. i \in 1 .. i
      BY <1>1
    <3> QED BY <2>1, <3>1 DEF Backward
  <2>3. Forward(last.after, queue, i, task) =>
          queue[i].kind # "IDR" /\ \A k \in 1 .. i - 1 : queue[k].kind = "B"
    BY DEF Forward, Still
  <2> QED BY <2>2, <2>3 DEF Goes
<1>8. ASSUME \A j \in DOMAIN left : left[j].kind # "IDR"
      PROVE  next.poc < n /\ \A d \in next.after : d.poc < n
  <2>1. n > 0
    BY <1>1, SpotIs, SeqIs DEF OInv, InOrder, Final
  <2>2. CASE Key(queue, i, task) /\ next.poc = 0 /\ next.after = {Entry(task)}
    <3>1. task.poc = 0
      BY <1>6, <2>2 DEF Key, Goes
    <3> QED BY <1>6, <2>1, <2>2, <3>1
  <2>3. CASE /\ queue[i].kind # "IDR" /\ next.poc = task.poc
             /\ next.after \subseteq last.after \cup {Entry(task)}
    <3>1. \A k \in 1 .. len : queue[k].kind # "IDR"
      <4>1. ASSUME NEW k \in 1 .. len, k # i
            PROVE  queue[k].kind # "IDR"
        <5>1. PICK j \in 1 .. len - 1 : Past(i, j) = k
          BY <1>1, <4>1, PastIs
        <5> QED BY <1>2, <1>3, <1>8, <5>1
      <4> QED BY <2>3, <4>1
    <3>2. \A d \in last.after : d.poc < n
      BY <1>1, <1>4, <3>1 DEF Beside
    <3>3. Final(queue, i)
      BY <1>1, <3>1 DEF Final
    <3>4. queue[i].poc + (len - i) < n
      BY <1>1, <1>4, <3>3 DEF InOrder
    <3>5. queue[i].poc < n
      <4>1. queue[i].poc \in Nat
        BY <1>1
      <4> QED BY <1>1, <3>4, <4>1
    <3> QED BY <1>6, <2>3, <3>2, <3>5
  <2> QED BY <1>7, <2>2, <2>3
<1>9. ASSUME NEW j \in 1 .. len - 1, Here(left, j), NEW d \in next.after
      PROVE  d.poc # left[j].poc /\ (left[j].kind # "B" => d.poc < left[j].poc)
  <2> DEFINE p == Past(i, j)
  <2>1. /\ p \in 1 .. Len(queue) /\ p # i /\ p >= j
        /\ left[j].poc = queue[p].poc /\ left[j].kind = queue[p].kind
        /\ queue[p].poc \in Nat /\ queue[i].poc \in Nat
        /\ Final(left, j) => Final(queue, p)
        /\ queue[i].kind # "IDR" => /\ Here(left, j) <=> Here(queue, p)
                                    /\ p < i => Here(queue, p) /\ queue[p].poc < queue[i].poc
                                    /\ p > i /\ Here(queue, p) => queue[i].poc < queue[p].poc
        /\ queue[i].kind = "IDR" => /\ p > i /\ ~Here(queue, p)
                                    /\ Here(left, j) => 0 < queue[p].poc
    BY <1>1, <1>4, RestAre DEF Goes
  <2> HIDE DEF p, len
  <2>2. CASE Key(queue, i, task) /\ next.poc = 0 /\ next.after = {Entry(task)}
    <3>1. queue[i].kind = "IDR" /\ queue[i].poc = 0
      BY <2>2 DEF Key, Goes
    <3>2. d.poc = 0
      BY <1>6, <2>2, <3>1
    <3> QED BY <1>9, <2>1, <3>1, <3>2
  <2>3. CASE /\ queue[i].kind # "IDR" /\ next.poc = task.poc
             /\ next.after \subseteq last.after \cup {Entry(task)}
             /\ \A k \in 1 .. i - 1 : queue[k].kind = "B"
    <3>1. Here(queue, p)
      BY <1>9, <2>1, <2>3
    <3>2. CASE d \in last.after
      <4>1. d.poc # queue[p].poc /\ (queue[p].kind # "B" => d.poc < queue[p].poc)
        BY <1>1, <1>4, <2>1, <3>1, <3>2 DEF Beside, len
      <4> QED BY <2>1, <4>1
    <3>3. CASE d = Entry(task)
      <4>1. d.poc = queue[i].poc
        BY <1>6, <3>3
      <4>2. CASE p < i
        <5>1. p \in 1 .. i - 1
          BY <1>1, <2>1, <4>2 DEF len
        <5> QED BY <2>1, <2>3, <4>1, <4>2, <5>1
      <4>3. CASE p > i
        BY <2>1, <2>3, <3>1, <4>1, <4>3
      <4> QED BY <1>1, <2>1, <4>2, <4>3 DEF len
    <3> QED BY <2>3, <3>2, <3>3
  <2> QED BY <1>7, <2>2, <2>3
<1>10. \A j \in DOMAIN left : Here(left, j) =>
         \A d \in next.after : d.poc # left[j].poc /\ (left[j].kind # "B" => d.poc < left[j].poc)
  BY <1>3, <1>9
<1> QED BY <1>8, <1>10, Zenon DEF Beside

LEMMA LeftPhase ==
  ASSUME NEW par \in HevcConfigs, NEW queue \in Seq(Waiting), NEW last \in Lasts, NEW n \in Nat,
         OInv(par, queue, n, last),
         NEW i, NEW task, NEW next, Goes(par, queue, last, i, task, next),
         NEW left, Left(par, queue, left, i)
  PROVE  Phase(left, n, next)
<1> DEFINE len == Len(queue)
<1>1. len \in Nat /\ i \in 1 .. len /\ DOMAIN queue = 1 .. len
      /\ \A k \in 1 .. len : queue[k].poc \in Nat
  <2>1. \A w \in Waiting : w.poc \in Nat
    BY DEF Waiting
  <2> QED BY <2>1, SeqIs DEF Goes
<1>2. /\ Len(left) = len - 1 /\ left \in Seq(Waiting)
      /\ \A k \in 1 .. len - 1 : left[k].kind = queue[Past(i, k)].kind
  BY DEF Left
<1>3. DOMAIN left = 1 .. len - 1
  BY <1>2, SeqIs
<1>4. InOrder(par, queue, n) /\ Beside(queue, n, last)
  BY DEF OInv
<1>5. last.poc \in Int /\ last.rap \in Nat /\ \A d \in last.after : d.poc \in Nat
  BY DEF Lasts, Pictures
<1>6. Entry(task).poc = task.poc /\ task.poc = queue[i].poc
  BY DEF Entry, Goes
<1>7. ASSUME NEW j \in 1 .. len - 1
      PROVE  LET p == Past(i, j)
             IN  /\ p \in 1 .. Len(queue) /\ p # i /\ p >= j
                 /\ left[j].poc = queue[p].poc /\ left[j].kind = queue[p].kind
                 /\ queue[p].poc \in Nat /\ queue[i].poc \in Nat
                 /\ Final(left, j) => Final(queue, p)
                 /\ queue[i].kind # "IDR" => /\ Here(left, j) <=> Here(queue, p)
                                             /\ p < i => Here(queue, p) /\ queue[p].poc < queue[i].poc
                                             /\ p > i /\ Here(queue, p) => queue[i].poc < queue[p].poc
                 /\ queue[i].kind = "IDR" => /\ p > i /\ ~Here(queue, p)
                                             /\ Here(left, j) => 0 < queue[p].poc
  BY <1>1, <1>4, <1>7, RestAre DEF Goes
<1>8. ASSUME NEW k \in 1 .. len, Here(queue, k)
      PROVE  /\ last.after # {}
             /\ last.poc <= last.rap => /\ \E d \in last.after : d.poc = last.rap
                                        /\ \A d \in last.after : d.poc <= last.rap
             /\ last.poc > last.rap => queue[k].poc > last.rap
  BY <1>8, SpotIs
<1> HIDE DEF len
<1>9. CASE Key(queue, i, task) /\ next.poc = 0 /\ next.rap = 0 /\ next.after = {Entry(task)}
  <2>1. task.poc = 0
    BY <1>9 DEF Key, Goes
  <2>2. \E d \in next.after : d.poc = next.rap
    BY <1>6, <1>9, <2>1
  <2>3. \A d \in next.after : d.poc <= next.rap
    BY <1>6, <1>9, <2>1
  <2> QED BY <1>9, <2>2, <2>3 DEF Phase
<1>10. CASE /\ Backward(par, last.after, queue, i, task)
            /\ next.poc = task.poc /\ next.rap = last.rap
            /\ last.poc <= last.rap => task.poc <= last.rap
            /\ last.poc > last.rap => task.poc > last.rap
            /\ next.after \subseteq last.after \cup {Entry(task)}
            /\ \A x \in Int : (\E d \in last.after : d.poc >= x) =>
                                \E d \in last.after : d.poc >= x /\ d \in next.after
  <2>1. Here(queue, i) /\ queue[i].kind # "IDR"
    <3>1. i \in 1 .. i
      BY <1>1
    <3>2. queue[i].kind # "IDR"
      BY <1>10, <3>1 DEF Backward
    <3> QED BY <3>2 DEF Goes
  <2>2. /\ last.after # {}
        /\ last.poc <= last.rap => /\ \E d \in last.after : d.poc = last.rap
                                   /\ \A d \in last.after : d.poc <= last.rap
    BY <1>1, <1>8, <2>1
  <2>3. next.after # {}
    <3>1. PICK d \in last.after : d.poc >= 0
      BY <1>5, <2>2
    <3> QED BY <1>10, <3>1
  <2>4. ASSUME next.poc <= next.rap
        PROVE  (\E d \in next.after : d.poc = next.rap) /\ \A d \in next.after : d.poc <= next.rap
    <3>1. last.poc <= last.rap /\ task.poc \in Nat
      BY <1>1, <1>5, <1>6, <1>10, <2>4
    <3>2. PICK d \in last.after : d.poc >= last.rap /\ d \in next.after
      <4>1. \E d \in last.after : d.poc >= last.rap
        BY <1>5, <2>2, <3>1
      <4> QED BY <1>5, <1>10, <4>1
    <3>3. d.poc = last.rap
      BY <1>5, <2>2, <3>1, <3>2
    <3>4. \A e \in next.after : e.poc <= last.rap
      BY <1>6, <1>10, <2>2, <3>1
    <3> QED BY <1>10, <3>2, <3>3, <3>4
  <2>5. ASSUME next.poc > next.rap, NEW j \in 1 .. len - 1, Here(left, j)
        PROVE  left[j].poc > next.rap
    <3>1. last.poc > last.rap
      BY <1>1, <1>5, <1>6, <1>10, <2>5
    <3>2. Here(queue, Past(i, j)) /\ Past(i, j) \in 1 .. len /\ left[j].poc = queue[Past(i, j)].poc
      BY <1>7, <2>1, <2>5 DEF len
    <3> QED BY <1>8, <1>10, <3>1, <3>2
  <2> QED BY <1>3, <2>3, <2>4, <2>5 DEF Phase
<1>11. CASE /\ Forward(last.after, queue, i, task)
            /\ next.poc = task.poc /\ task.poc > last.rap
            /\ next.rap = (IF task.kind = "I" THEN task.poc ELSE last.rap)
            /\ Entry(task) \in next.after /\ next.after \subseteq last.after \cup {Entry(task)}
  <2>1. /\ Here(queue, i) /\ queue[i].kind # "IDR" /\ \A d \in last.after : d.poc < queue[i].poc
        /\ Still(last.after, queue, 1, i - 1)
    BY <1>11 DEF Forward, Goes
  <2>2. CASE task.kind = "I"
    <3>1. next.rap = task.poc /\ next.poc = task.poc /\ task.poc \in Nat
      BY <1>1, <1>6, <1>11, <2>2
    <3>2. \E d \in next.after : d.poc = next.rap
      BY <1>6, <1>11, <3>1
    <3>3. ASSUME NEW d \in next.after
          PROVE  d.poc <= next.rap
      BY <1>5, <1>6, <1>11, <2>1, <3>1
    <3>4. ~(next.poc > next.rap)
      BY <3>1
    <3> QED BY <3>2, <3>3, <3>4 DEF Phase
  <2>3. CASE task.kind # "I"
    <3>1. next.rap = last.rap /\ ~(next.poc <= next.rap)
      BY <1>1, <1>5, <1>6, <1>11, <2>3
    <3>2. ASSUME NEW j \in 1 .. len - 1, Here(left, j)
          PROVE  left[j].poc > last.rap
      <4> DEFINE p == Past(i, j)
      <4>1. /\ p \in 1 .. len /\ p # i /\ Here(queue, p) /\ left[j].poc = queue[p].poc
            /\ queue[p].poc \in Nat /\ queue[i].poc \in Nat
            /\ p > i /\ Here(queue, p) => queue[i].poc < queue[p].poc
        BY <1>7, <2>1, <3>2 DEF len
      <4> HIDE DEF p
      <4>2. CASE last.poc > last.rap
        BY <1>8, <4>1, <4>2
      <4>3. CASE ~(last.poc > last.rap) /\ p > i
        BY <1>5, <1>6, <1>11, <4>1, <4>3
      <4>4. CASE ~(last.poc > last.rap) /\ ~(p > i)
        <5>1. PICK d \in last.after : d.poc = last.rap
          BY <1>5, <1>8, <4>1, <4>4
        <5>2. p \in 1 .. i - 1
          BY <1>1, <4>1, <4>4
        <5>3. ~(d.poc > queue[p].poc)
          BY <2>1, <5>2 DEF Still, Ready
        <5>4. d.poc # queue[p].poc
          BY <1>1, <1>4, <4>1 DEF Beside
        <5> QED BY <1>5, <4>1, <5>1, <5>3, <5>4
      <4> QED BY <4>2, <4>3, <4>4
    <3> QED BY <1>3, <1>11, <3>1, <3>2 DEF Phase
  <2> QED BY <2>2, <2>3
<1> QED BY <1>9, <1>10, <1>11 DEF Goes

LEMMA LeftPreceded ==
  ASSUME NEW par, NEW queue \in Seq(Waiting), NEW last \in Lasts, NEW n \in Nat, OInv(par, queue, n, last),
         NEW i, NEW task, NEW next, Goes(par, queue, last, i, task, next),
         NEW left, Left(par, queue, left, i)
  PROVE  Preceded(par, left, next)
<1> DEFINE len == Len(queue)
<1>1. len \in Nat /\ i \in 1 .. len /\ DOMAIN queue = 1 .. len
  BY SeqIs DEF Goes
<1>2. Len(left) = len - 1 /\ left \in Seq(Waiting)
  BY DEF Left
<1>3. DOMAIN left = 1 .. len - 1
  BY <1>2, SeqIs
<1>4. InOrder(par, queue, n) /\ Beside(queue, n, last) /\ Preceded(par, queue, last)
  BY DEF OInv
<1>5. \A d \in last.after : d.poc \in Nat
  BY DEF Lasts, Pictures
<1>6. Entry(task).poc = queue[i].poc
  BY DEF Entry, Goes
<1>7. SUFFICES ASSUME ~par.bpyramid, HevcNumRef(par) # 1, NEW j \in 1 .. len - 1, Here(left, j)
               PROVE  \E d \in next.after : d.poc < left[j].poc
  BY <1>3 DEF Preceded
<1> DEFINE p == Past(i, j)
<1>8. /\ p \in 1 .. Len(queue) /\ p # i /\ p >= j
      /\ left[j].poc = queue[p].poc /\ left[j].kind = queue[p].kind
      /\ queue[p].poc \in Nat /\ queue[i].poc \in Nat
      /\ Final(left, j) => Final(queue, p)
      /\ queue[i].kind # "IDR" => /\ Here(left, j) <=> Here(queue, p)
                                  /\ p < i => Here(queue, p) /\ queue[p].poc < queue[i].poc
                                  /\ p > i /\ Here(queue, p) => queue[i].poc < queue[p].poc
      /\ queue[i].kind = "IDR" => /\ p > i /\ ~Here(queue, p)
                                  /\ Here(left, j) => 0 < queue[p].poc
  BY <1>1, <1>4, RestAre DEF Goes
<1> HIDE DEF p, len
<1>9. CASE Key(queue, i, task) /\ next.after = {Entry(task)}
  <2>1. queue[i].kind = "IDR" /\ queue[i].poc = 0
    BY <1>9 DEF Key, Goes
  <2> QED BY <1>6, <1>7, <1>8, <1>9, <2>1
<1>10. CASE Backward(par, last.after, queue, i, task) /\ next.after = last.after
  <2>1. queue[i].kind # "IDR"
    <3>1. i \in 1 .. i
      BY <1>1 DEF len
    <3> QED BY <1>10, <3>1 DEF Backward
  <2>2. Here(queue, p) /\ p \in DOMAIN queue
    BY <1>1, <1>7, <1>8, <2>1 DEF len
  <2>3. \E d \in last.after : d.poc < queue[p].poc
    BY <1>4, <1>7, <2>2 DEF Preceded
  <2> QED BY <1>8, <1>10, <2>3
<1>11. CASE /\ Forward(last.after, queue, i, task) /\ Entry(task) \in next.after
            /\ \E d \in last.after : d \in next.after
  <2>1. queue[i].kind # "IDR" /\ Still(last.after, queue, 1, i - 1)
    BY <1>11 DEF Forward
  <2>2. Here(queue, p) /\ p \in DOMAIN queue
    BY <1>1, <1>7, <1>8, <2>1 DEF len
  <2>3. CASE p > i
    BY <1>6, <1>8, <1>11, <2>1, <2>2, <2>3
  <2>4. CASE ~(p > i)
    <3>1. PICK d \in last.after : d \in next.after
      BY <1>11
    <3>2. p \in 1 .. i - 1
      BY <1>1, <1>8, <2>4 DEF len
    <3>3. ~(d.poc > queue[p].poc) /\ d.poc # queue[p].poc
      BY <1>4, <2>1, <2>2, <3>2 DEF Still, Ready, Beside
    <3> QED BY <1>5, <1>8, <3>1, <3>3
  <2> QED BY <2>3, <2>4
<1> QED BY <1>7, <1>9, <1>10, <1>11 DEF Goes

\* What a task leaves behind is as it was.
LEMMA LeaveKeeps ==
  ASSUME NEW par \in HevcConfigs, NEW queue \in Seq(Waiting), NEW last \in Lasts, NEW n \in Nat,
         OInv(par, queue, n, last),
         NEW i, NEW task, NEW next, Goes(par, queue, last, i, task, next),
         NEW left, Left(par, queue, left, i)
  PROVE  OInv(par, left, n, next)
<1>1. InOrder(par, left, n)
  <2>1. InOrder(par, queue, n) /\ i \in 1 .. Len(queue) /\ (queue[i].kind # "IDR" \/ i = 1)
    BY DEF OInv, Goes
  <2> QED BY <2>1, LeftInOrder
<1>2. NoGap(left, n, next)
  BY LeftNoGap
<1>3. Beside(left, n, next)
  BY LeftBeside
<1>4. Phase(left, n, next)
  BY LeftPhase
<1>5. Preceded(par, left, next)
  BY LeftPreceded
<1> QED BY <1>1, <1>2, <1>3, <1>4, <1>5 DEF OInv

\* The task that GetTask chooses leaves the queue as OInv says.
LEMMA GoesIs ==
  ASSUME hevcPar \in HevcConfigs, ~Overruns(hevcPar), hevcLast \in Lasts,
         IsFiniteSet(hevcLast.after), Cardinality(hevcLast.after) <= HevcNumRef(hevcPar),
         NEW queue \in Seq(Waiting), NEW n \in Nat, OInv(hevcPar, queue, n, hevcLast),
         NEW len, Period(queue, len), NEW surface, NEW placed, NEW i,
         Chooses(queue, len, surface, placed, i)
  PROVE  LET task == placed[i]
             t == HevcFill(hevcPar, task, hevcLast)
             next == [poc |-> t.poc, rap |-> t.rap, after |-> t.after]
             left == RemoveAt(placed, i)
         IN  /\ i \in 1 .. Len(queue) /\ task \in Waiting
             /\ task.frame = queue[i].frame /\ task.poc = queue[i].poc
             /\ Left(hevcPar, queue, left, i)
             /\ OInv(hevcPar, left, n, next)
             /\ queue[i].kind # "IDR" => Here(queue, i)
             /\ \/ Key(queue, i, task) /\ LeavesKey(task, t)
                \/ Backward(hevcPar, hevcLast.after, queue, i, task) /\ LeavesBack(hevcPar, task, hevcLast, t)
                \/ Forward(hevcLast.after, queue, i, task) /\ LeavesForward(hevcPar, task, hevcLast, t)
<1> DEFINE task == placed[i]
           t == HevcFill(hevcPar, task, hevcLast)
           next == [poc |-> t.poc, rap |-> t.rap, after |-> t.after]
           left == RemoveAt(placed, i)
<1>1. InOrder(hevcPar, queue, n) /\ Beside(queue, n, hevcLast)
  BY DEF OInv
<1>2. /\ Sets(hevcPar, hevcLast.after, queue, i, task)
      /\ Left(hevcPar, queue, left, i)
      /\ queue[i].kind # "IDR" => Here(queue, i)
  BY <1>1, SetsIs
<1>3. /\ i \in 1 .. Len(queue) /\ task \in Waiting /\ task.frame = queue[i].frame /\ task.poc = queue[i].poc
  BY <1>2 DEF Sets
<1> HIDE DEF task, left
<1>4. ~Overruns(hevcPar)
  OBVIOUS
<1>5. \/ Key(queue, i, task) /\ LeavesKey(task, t)
      \/ Backward(hevcPar, hevcLast.after, queue, i, task) /\ LeavesBack(hevcPar, task, hevcLast, t)
      \/ Forward(hevcLast.after, queue, i, task) /\ LeavesForward(hevcPar, task, hevcLast, t)
  BY <1>2, <1>3, <1>4, LeavesAre
<1> HIDE DEF t
<1>6. next.poc = t.poc /\ next.rap = t.rap /\ next.after = t.after
  OBVIOUS
<1> HIDE DEF next
<1>7. queue[i].kind = "IDR" => i = 1 /\ queue[i].poc = 0
  <2>1. i \in DOMAIN queue
    BY <1>3, SeqIs
  <2>2. queue[i].kind = "IDR" => queue[i].poc = 0
    BY <1>1, <2>1 DEF InOrder
  <2>3. queue[i].kind = "IDR" => i = 1
    <3>1. i \in 1 .. i
      BY <1>3
    <3> QED BY <1>5, <3>1 DEF Key, Backward, Forward
  <2> QED BY <2>2, <2>3
<1>8. Goes(hevcPar, queue, hevcLast, i, task, next)
  <2>1. CASE Key(queue, i, task) /\ LeavesKey(task, t)
    BY <1>2, <1>3, <1>6, <1>7, <2>1 DEF Goes, LeavesKey
  <2>2. CASE Backward(hevcPar, hevcLast.after, queue, i, task) /\ LeavesBack(hevcPar, task, hevcLast, t)
    BY <1>2, <1>3, <1>6, <1>7, <2>2 DEF Goes, LeavesBack
  <2>3. CASE Forward(hevcLast.after, queue, i, task) /\ LeavesForward(hevcPar, task, hevcLast, t)
    BY <1>2, <1>3, <1>6, <1>7, <2>3 DEF Goes, LeavesForward
  <2> QED BY <1>5, <2>1, <2>2, <2>3
<1>9. OInv(hevcPar, left, n, next)
  BY <1>2, <1>8, LeaveKeeps
<1> QED BY <1>2, <1>3, <1>5, <1>9 DEF next, t, task, left

-----------------------------------------------------------------------------
(* What a decoder has. *)

Coded == Chosen \cup [frame : Nat]

\* A picture more changes nothing for those before it.
LEMMA EarlierIs ==
  ASSUME NEW coded \in Seq(Coded), NEW t \in Coded, NEW k \in 1 .. Len(coded), DecodesAt(coded, k)
  PROVE  DecodesAt(Append(coded, t), k)
<1> DEFINE c == Append(coded, t)
<1>1. \A i \in 1 .. k : c[i] = coded[i]
  <2>1. \A i \in 1 .. k : i \in 1 .. Len(coded)
    BY SeqIs
  <2> QED BY <2>1, AppendIs
<1>2. PICK s \in 1 .. k, r \in 1 .. k :
        /\ LastOf(coded, k, {"IDR"}, s) /\ LastOf(coded, k, {"IDR", "CRA"}, r)
        /\ \A d \in coded[k].l0 \cup coded[k].l1 :
             \E i \in (IF coded[k].unit = "TRAIL" THEN r ELSE s) .. k - 1 : coded[i].frame = d.frame /\ coded[i].ref
        /\ coded[k].unit = "RASL" => \A i \in r + 1 .. k - 1 : coded[i].unit = "RASL"
        /\ coded[k].frame >= coded[s].frame
  BY DEF DecodesAt
<1>3. k \in Nat /\ k \in 1 .. k /\ s \in 1 .. k /\ r \in 1 .. k
  OBVIOUS
<1> HIDE DEF c
<1>4. LastOf(c, k, {"IDR"}, s) /\ LastOf(c, k, {"IDR", "CRA"}, r)
  BY <1>1, <1>2, <1>3 DEF LastOf
<1>5. ASSUME NEW d \in c[k].l0 \cup c[k].l1
      PROVE  \E i \in (IF c[k].unit = "TRAIL" THEN r ELSE s) .. k - 1 : c[i].frame = d.frame /\ c[i].ref
  <2>1. c[k] = coded[k]
    BY <1>1, <1>3
  <2>2. PICK i \in (IF coded[k].unit = "TRAIL" THEN r ELSE s) .. k - 1 : coded[i].frame = d.frame /\ coded[i].ref
    BY <1>2, <1>5, <2>1
  <2>3. i \in 1 .. k
    BY <1>3, <2>2
  <2> QED BY <1>1, <2>1, <2>2, <2>3
<1>6. c[k].unit = "RASL" => \A i \in r + 1 .. k - 1 : c[i].unit = "RASL"
  <2>1. \A i \in r + 1 .. k - 1 : i \in 1 .. k
    BY <1>3
  <2> QED BY <1>1, <1>2, <1>3, <2>1
<1>7. c[k].frame >= c[s].frame
  BY <1>1, <1>2, <1>3
<1> QED BY <1>3, <1>4, <1>5, <1>6, <1>7 DEF DecodesAt, c

\* The task that GetTask hands on is made from the i-th of the queue.
Handed(par, queue, left, i, last, task, t, next) ==
  /\ i \in 1 .. Len(queue) /\ task \in Waiting
  /\ task.frame = queue[i].frame /\ task.poc = queue[i].poc
  /\ Left(par, queue, left, i)
  /\ t \in Chosen /\ t.frame = task.frame /\ t.ref = task.ref /\ t.unit = Unit(task, last)
  /\ t.l0 \cup t.l1 \subseteq t.active
  /\ task.kind \in {"IDR", "I"} => t.l0 = {} /\ t.l1 = {}
  /\ next.poc = t.poc /\ next.rap = t.rap /\ next.after = t.after

LEMMA CopyIs ==
  ASSUME NEW coded \in Seq(Coded), NEW t \in Coded
  PROVE  LET c == Append(coded, t)
             k == Len(coded) + 1
         IN  /\ k \in Nat \ {0} /\ Len(c) = k /\ c[k] = t /\ \A i \in 1 .. k - 1 : c[i] = coded[i]
             /\ \A x \in 1 .. k - 1 : \A d : Found(coded, d, x) =>
                  \E i \in x .. k - 1 : c[i].frame = d.frame /\ c[i].ref
             /\ \A x \in 1 .. k - 1 : \A d : Found(coded, d, x) => Found(c, d, x)
             /\ \A x \in 1 .. k : \A d : d.frame = t.frame /\ t.ref => Found(c, d, x)
<1> DEFINE c == Append(coded, t)
           k == Len(coded) + 1
<1>1. k \in Nat \ {0} /\ Len(c) = k /\ c[k] = t /\ \A i \in 1 .. k - 1 : c[i] = coded[i]
  BY SeqIs, AppendIs
<1>2. Len(coded) = k - 1
  BY SeqIs
<1> HIDE DEF c, k
<1>3. ASSUME NEW x \in 1 .. k - 1, NEW d, Found(coded, d, x)
      PROVE  \E i \in x .. k - 1 : c[i].frame = d.frame /\ c[i].ref
  <2>1. PICK i \in x .. k - 1 : coded[i].frame = d.frame /\ coded[i].ref
    BY <1>2, <1>3 DEF Found
  <2>2. i \in 1 .. k - 1
    BY <1>1, <2>1
  <2>3. c[i] = coded[i]
    BY <1>1, <2>2
  <2> QED BY <2>1, <2>3
<1>4. ASSUME NEW x \in 1 .. k - 1, NEW d, Found(coded, d, x)
      PROVE  Found(c, d, x)
  <2>1. PICK i \in x .. k - 1 : c[i].frame = d.frame /\ c[i].ref
    BY <1>3, <1>4
  <2>2. i \in x .. k
    BY <1>1, <2>1
  <2> QED BY <1>1, <2>1, <2>2 DEF Found
<1>5. ASSUME NEW x \in 1 .. k, NEW d, d.frame = t.frame, t.ref
      PROVE  Found(c, d, x)
  <2>1. k \in x .. k
    BY <1>1
  <2> QED BY <1>1, <1>5, <2>1 DEF Found
<1> QED BY <1>1, <1>3, <1>4, <1>5 DEF c, k

\* What is left of a queue are frames of the queue.
LEMMA FramesLeft ==
  ASSUME NEW par, NEW queue \in Seq(Waiting), NEW i \in 1 .. Len(queue), NEW left, Left(par, queue, left, i)
  PROVE  \A j \in DOMAIN left : Past(i, j) \in 1 .. Len(queue) /\ left[j].frame = queue[Past(i, j)].frame
                                /\ (i = 1 => Past(i, j) > i)
<1>1. left \in Seq(Waiting) /\ Len(left) = Len(queue) - 1
      /\ \A j \in 1 .. Len(queue) - 1 : left[j].frame = queue[Past(i, j)].frame
  BY DEF Left
<1>2. DOMAIN left = 1 .. Len(queue) - 1 /\ Len(queue) \in Nat
  BY <1>1, SeqIs
<1>3. \A j \in 1 .. Len(queue) - 1 : Past(i, j) \in 1 .. Len(queue) /\ (i = 1 => Past(i, j) > i)
  BY <1>2 DEF Past
<1> QED BY <1>1, <1>2, <1>3

\* An IDR picture begins another period.
LEMMA KeyStreams ==
  ASSUME NEW par, NEW queue \in Seq(Waiting), NEW last \in Lasts, NEW count \in Nat, Sorted(queue),
         NEW coded \in Seq(Coded), NEW left, NEW i, NEW task, NEW t, NEW next,
         Handed(par, queue, left, i, last, task, t, next), t.frame < count,
         Key(queue, i, task), LeavesKey(task, t)
  PROVE  LET c == Append(coded, t)
             k == Len(coded) + 1
         IN  Since(c, k, k, left, next, count) /\ DecodesAt(c, k)
<1> DEFINE c == Append(coded, t)
           k == Len(coded) + 1
<1>1. t \in Coded /\ t \in Chosen
  BY DEF Handed, Coded
<1>2. /\ k \in Nat \ {0} /\ Len(c) = k /\ c[k] = t /\ \A j \in 1 .. k - 1 : c[j] = coded[j]
      /\ \A x \in 1 .. k - 1 : \A d : Found(coded, d, x) =>
           \E j \in x .. k - 1 : c[j].frame = d.frame /\ c[j].ref
      /\ \A x \in 1 .. k - 1 : \A d : Found(coded, d, x) => Found(c, d, x)
      /\ \A x \in 1 .. k : \A d : d.frame = t.frame /\ t.ref => Found(c, d, x)
  BY <1>1, CopyIs
<1> HIDE DEF c, k
<1>3. t.unit = "IDR" /\ t.l0 = {} /\ t.l1 = {} /\ t.ref /\ i = 1 /\ i \in 1 .. Len(queue)
      /\ t.frame = queue[i].frame /\ next.poc = 0 /\ next.rap = 0 /\ next.after = {Entry(task)}
      /\ Entry(task).frame = t.frame
  BY DEF Key, LeavesKey, Handed, Unit, Entry
<1>4. LastOf(c, k, {"IDR"}, k) /\ LastOf(c, k, {"IDR", "CRA"}, k)
  BY <1>2, <1>3 DEF LastOf
<1>5. \A d \in next.after : Found(c, d, k)
  BY <1>2, <1>3
<1>6. ASSUME NEW j \in DOMAIN left
      PROVE  left[j].frame >= c[k].frame
  <2>1. Past(i, j) \in 1 .. Len(queue) /\ left[j].frame = queue[Past(i, j)].frame /\ Past(i, j) > i
    BY <1>3, FramesLeft DEF Handed
  <2>2. queue[i].frame < queue[Past(i, j)].frame
    BY <1>3, <2>1, SeqIs DEF Sorted
  <2>3. queue[i].frame \in Nat /\ queue[Past(i, j)].frame \in Nat
    <3>1. queue[i] \in Waiting /\ queue[Past(i, j)] \in Waiting
      BY <1>3, <2>1, SeqIs
    <3> QED BY <3>1 DEF Waiting
  <2> QED BY <1>2, <1>3, <2>1, <2>2, <2>3
<1>7. Since(c, k, k, left, next, count)
  BY <1>2, <1>4, <1>5, <1>6 DEF Since
<1>8. t.frame \in Nat
  BY <1>1 DEF Chosen
<1>9. DecodesAt(c, k)
  BY <1>2, <1>3, <1>4, <1>8 DEF DecodesAt
<1> QED BY <1>7, <1>9 DEF c, k

\* A B frame has its references, behind the random access point if it trails.
LEMMA BackStreams ==
  ASSUME NEW par, NEW queue \in Seq(Waiting), NEW last \in Lasts, NEW count \in Nat,
         NEW coded \in Seq(Coded), NEW s, NEW r, Since(coded, s, r, queue, last, count),
         NEW left, NEW i, NEW task, NEW t, NEW next,
         Handed(par, queue, left, i, last, task, t, next),
         Backward(par, last.after, queue, i, task), LeavesBack(par, task, last, t)
  PROVE  LET c == Append(coded, t)
             k == Len(coded) + 1
         IN  Since(c, s, r, left, next, count) /\ DecodesAt(c, k)
<1> DEFINE c == Append(coded, t)
           k == Len(coded) + 1
<1>1. t \in Coded /\ t \in Chosen
  BY DEF Handed, Coded
<1>2. /\ k \in Nat \ {0} /\ Len(c) = k /\ c[k] = t /\ \A j \in 1 .. k - 1 : c[j] = coded[j]
      /\ \A x \in 1 .. k - 1 : \A d : Found(coded, d, x) =>
           \E j \in x .. k - 1 : c[j].frame = d.frame /\ c[j].ref
      /\ \A x \in 1 .. k - 1 : \A d : Found(coded, d, x) => Found(c, d, x)
      /\ \A x \in 1 .. k : \A d : d.frame = t.frame /\ t.ref => Found(c, d, x)
  BY <1>1, CopyIs
<1>3. Len(coded) = k - 1 /\ k - 1 \in Nat
  BY SeqIs
<1> HIDE DEF c, k
<1>4. /\ s \in 1 .. k - 1 /\ r \in s .. k - 1 /\ r \in 1 .. k - 1 /\ s \in 1 .. k /\ r \in 1 .. k
      /\ LastOf(coded, k - 1, {"IDR"}, s) /\ LastOf(coded, k - 1, {"IDR", "CRA"}, r)
      /\ \A d \in last.after : Found(coded, d, s)
      /\ \A d \in last.after : (last.poc > last.rap \/ d.poc = last.rap) => Found(coded, d, r)
      /\ last.poc <= last.rap => \A j \in r + 1 .. k - 1 : coded[j].unit = "RASL"
      /\ \A j \in DOMAIN queue : queue[j].frame >= coded[s].frame
      /\ coded[s].frame < count
  <2>1. /\ s \in 1 .. Len(coded) /\ r \in s .. Len(coded)
        /\ LastOf(coded, Len(coded), {"IDR"}, s) /\ LastOf(coded, Len(coded), {"IDR", "CRA"}, r)
        /\ \A d \in last.after : Found(coded, d, s)
        /\ \A d \in last.after : (last.poc > last.rap \/ d.poc = last.rap) => Found(coded, d, r)
        /\ last.poc <= last.rap => \A j \in r + 1 .. Len(coded) : coded[j].unit = "RASL"
        /\ \A j \in DOMAIN queue : queue[j].frame >= coded[s].frame
        /\ coded[s].frame < count
    BY DEF Since
  <2>2. s \in 1 .. k - 1 /\ r \in s .. k - 1 /\ r \in 1 .. k - 1 /\ s \in 1 .. k /\ r \in 1 .. k
    BY <1>2, <1>3, <2>1
  <2> QED BY <1>3, <2>1, <2>2
<1>5. last.poc \in Int /\ last.rap \in Nat /\ \A d \in last.after : d.poc \in Nat
  BY DEF Lasts, Pictures
<1>6. /\ task.kind = "B" /\ i \in 1 .. Len(queue) /\ t.frame = queue[i].frame
      /\ next.poc = t.poc /\ next.rap = last.rap /\ t.poc = task.poc /\ task.poc \in Nat
      /\ last.poc <= last.rap => t.poc <= last.rap
      /\ last.poc > last.rap => t.poc > last.rap
      /\ t.l0 \cup t.l1 \subseteq last.after
      /\ next.after \subseteq last.after \cup {Entry(task)}
      /\ ~t.ref => next.after = last.after
      /\ Entry(task).frame = t.frame
  BY DEF Backward, LeavesBack, Handed, Entry, Waiting
<1>7. t.unit = IF t.poc > last.rap THEN "TRAIL" ELSE "RASL"
  BY <1>6 DEF Handed, Unit
<1>8. LastOf(c, k, {"IDR"}, s) /\ LastOf(c, k, {"IDR", "CRA"}, r)
  <2>1. c[k].unit \notin {"IDR", "CRA"}
    BY <1>2, <1>7
  <2>2. \A x \in 1 .. k - 1 : \A j \in x + 1 .. k : j \in x + 1 .. k - 1 \/ j = k
    BY <1>2
  <2>3. \A x \in 1 .. k - 1 : \A j \in x + 1 .. k - 1 : j \in 1 .. k - 1
    BY <1>2
  <2> QED BY <1>2, <1>4, <2>1, <2>2, <2>3 DEF LastOf
<1>9. ASSUME NEW d \in next.after
      PROVE  Found(c, d, s) /\ ((next.poc > next.rap \/ d.poc = next.rap) => Found(c, d, r))
  <2>1. CASE d \in last.after
    <3>1. next.poc > next.rap => last.poc > last.rap
      BY <1>5, <1>6
    <3> QED BY <1>2, <1>4, <1>6, <2>1, <3>1
  <2>2. CASE d \notin last.after
    <3>1. d.frame = t.frame /\ t.ref
      BY <1>6, <1>9, <2>2
    <3> QED BY <1>2, <1>4, <3>1
  <2> QED BY <2>1, <2>2
<1>10. next.poc <= next.rap => \A j \in r + 1 .. k : c[j].unit = "RASL"
  <2>1. ASSUME next.poc <= next.rap, NEW j \in r + 1 .. k
        PROVE  c[j].unit = "RASL"
    <3>1. last.poc <= last.rap /\ ~(t.poc > last.rap)
      BY <1>5, <1>6, <2>1
    <3>2. CASE j = k
      BY <1>2, <1>7, <3>1, <3>2
    <3>3. CASE j # k
      <4>1. j \in r + 1 .. k - 1 /\ j \in 1 .. k - 1
        BY <1>2, <1>4, <2>1, <3>3
      <4> QED BY <1>2, <1>4, <3>1, <4>1
    <3> QED BY <3>2, <3>3
  <2> QED BY <2>1
<1>11. c[s] = coded[s]
  BY <1>2, <1>4
<1>12. \A j \in DOMAIN left : left[j].frame >= c[s].frame
  <2>1. \A j \in DOMAIN left : Past(i, j) \in DOMAIN queue /\ left[j].frame = queue[Past(i, j)].frame
    <3>1. \A j \in DOMAIN left : Past(i, j) \in 1 .. Len(queue) /\ left[j].frame = queue[Past(i, j)].frame
                                  /\ (i = 1 => Past(i, j) > i)
      BY FramesLeft DEF Handed
    <3> QED BY <3>1, SeqIs
  <2> QED BY <1>4, <1>11, <2>1
<1>13. Since(c, s, r, left, next, count)
  BY <1>2, <1>4, <1>8, <1>9, <1>10, <1>11, <1>12 DEF Since
<1>14. ASSUME NEW d \in c[k].l0 \cup c[k].l1
       PROVE  \E j \in (IF c[k].unit = "TRAIL" THEN r ELSE s) .. k - 1 : c[j].frame = d.frame /\ c[j].ref
  <2>1. d \in last.after /\ c[k] = t
    BY <1>2, <1>6, <1>14
  <2>2. CASE t.unit = "TRAIL"
    <3>1. t.poc > last.rap
      BY <1>7, <2>2
    <3>2. last.poc > last.rap
      BY <1>5, <1>6, <3>1
    <3>3. Found(coded, d, r)
      BY <1>4, <2>1, <3>2
    <3> QED BY <1>2, <1>4, <2>1, <2>2, <3>3
  <2>3. CASE t.unit # "TRAIL"
    <3>1. Found(coded, d, s)
      BY <1>4, <2>1
    <3> QED BY <1>2, <1>4, <2>1, <2>3, <3>1
  <2> QED BY <2>2, <2>3
<1>15. c[k].unit = "RASL" => \A j \in r + 1 .. k - 1 : c[j].unit = "RASL"
  <2>1. \A j \in r + 1 .. k - 1 : j \in r + 1 .. k
    BY <1>2
  <2>2. t.unit = "RASL" => next.poc <= next.rap
    BY <1>5, <1>6, <1>7
  <2> QED BY <1>2, <1>10, <2>1, <2>2
<1>16. c[k].frame >= c[s].frame
  BY <1>2, <1>4, <1>6, <1>11, SeqIs
<1>17. DecodesAt(c, k)
  BY <1>4, <1>8, <1>14, <1>15, <1>16 DEF DecodesAt
<1> QED BY <1>13, <1>17 DEF c, k

\* A frame coded ahead of others is a random access point, or trails one and
\* refers to pictures behind it.
LEMMA ForwardStreams ==
  ASSUME NEW par, NEW queue \in Seq(Waiting), NEW last \in Lasts, NEW count \in Nat,
         NEW coded \in Seq(Coded), NEW s, NEW r, Since(coded, s, r, queue, last, count),
         NEW left, NEW i, NEW task, NEW t, NEW next,
         Handed(par, queue, left, i, last, task, t, next),
         Forward(last.after, queue, i, task), LeavesForward(par, task, last, t)
  PROVE  LET c == Append(coded, t)
             k == Len(coded) + 1
         IN  DecodesAt(c, k) /\ \E x \in 1 .. k : Since(c, s, x, left, next, count)
<1> DEFINE c == Append(coded, t)
           k == Len(coded) + 1
<1>1. t \in Coded /\ t \in Chosen
  BY DEF Handed, Coded
<1>2. /\ k \in Nat \ {0} /\ Len(c) = k /\ c[k] = t /\ \A j \in 1 .. k - 1 : c[j] = coded[j]
      /\ \A x \in 1 .. k - 1 : \A d : Found(coded, d, x) =>
           \E j \in x .. k - 1 : c[j].frame = d.frame /\ c[j].ref
      /\ \A x \in 1 .. k - 1 : \A d : Found(coded, d, x) => Found(c, d, x)
      /\ \A x \in 1 .. k : \A d : d.frame = t.frame /\ t.ref => Found(c, d, x)
  BY <1>1, CopyIs
<1>3. Len(coded) = k - 1 /\ k - 1 \in Nat
  BY SeqIs
<1> HIDE DEF c, k
<1>4. /\ s \in 1 .. k - 1 /\ r \in s .. k - 1 /\ r \in 1 .. k - 1 /\ s \in 1 .. k /\ r \in 1 .. k
      /\ LastOf(coded, k - 1, {"IDR"}, s) /\ LastOf(coded, k - 1, {"IDR", "CRA"}, r)
      /\ \A d \in last.after : Found(coded, d, s)
      /\ \A d \in last.after : (last.poc > last.rap \/ d.poc = last.rap) => Found(coded, d, r)
      /\ \A j \in DOMAIN queue : queue[j].frame >= coded[s].frame
      /\ coded[s].frame < count
  <2>1. /\ s \in 1 .. Len(coded) /\ r \in s .. Len(coded)
        /\ LastOf(coded, Len(coded), {"IDR"}, s) /\ LastOf(coded, Len(coded), {"IDR", "CRA"}, r)
        /\ \A d \in last.after : Found(coded, d, s)
        /\ \A d \in last.after : (last.poc > last.rap \/ d.poc = last.rap) => Found(coded, d, r)
        /\ \A j \in DOMAIN queue : queue[j].frame >= coded[s].frame
        /\ coded[s].frame < count
    BY DEF Since
  <2>2. s \in 1 .. k - 1 /\ r \in s .. k - 1 /\ r \in 1 .. k - 1 /\ s \in 1 .. k /\ r \in 1 .. k
    BY <1>2, <1>3, <2>1
  <2> QED BY <1>3, <2>1, <2>2
<1>5. last.poc \in Int /\ last.rap \in Nat /\ \A d \in last.after : d.poc \in Nat
  BY DEF Lasts, Pictures
<1>6. /\ task.kind \in {"I", "P"} /\ i \in 1 .. Len(queue) /\ t.frame = queue[i].frame /\ t.ref
      /\ next.poc = task.poc /\ task.poc \in Nat /\ task.poc > last.rap
      /\ next.rap = (IF task.kind = "I" THEN task.poc ELSE last.rap)
      /\ t.l0 \cup t.l1 \subseteq t.active /\ (task.kind = "I" => t.l0 = {} /\ t.l1 = {})
      /\ t.active \subseteq last.after /\ next.after \subseteq t.active \cup {Entry(task)}
      /\ \A d \in t.active : last.poc > last.rap \/ d.poc = last.rap
      /\ Entry(task).frame = t.frame
  BY DEF Forward, LeavesForward, Handed, Entry, Waiting
<1>7. t.unit = IF task.kind = "I" THEN "CRA" ELSE "TRAIL"
  BY <1>6 DEF Handed, Unit
<1>8. \A d \in last.after : d.poc < task.poc
  BY DEF Forward, Handed
<1>9. \A d \in next.after : d \in t.active \/ d = Entry(task)
  BY <1>6
<1>10. c[s] = coded[s] /\ (\A j \in DOMAIN left : left[j].frame >= c[s].frame) /\ c[k].frame >= c[s].frame
  <2>1. \A j \in DOMAIN left : Past(i, j) \in DOMAIN queue /\ left[j].frame = queue[Past(i, j)].frame
    <3>1. \A j \in DOMAIN left : Past(i, j) \in 1 .. Len(queue) /\ left[j].frame = queue[Past(i, j)].frame
                                  /\ (i = 1 => Past(i, j) > i)
      BY FramesLeft DEF Handed
    <3> QED BY <3>1, SeqIs
  <2>2. c[s] = coded[s] /\ i \in DOMAIN queue
    BY <1>2, <1>4, <1>6, SeqIs
  <2> QED BY <1>2, <1>4, <1>6, <2>1, <2>2
<1>11. LastOf(c, k, {"IDR"}, s)
  <2>1. c[k].unit # "IDR"
    BY <1>2, <1>7
  <2>2. \A j \in s + 1 .. k : j = k \/ (j \in s + 1 .. k - 1 /\ j \in 1 .. k - 1)
    BY <1>2, <1>4
  <2> QED BY <1>2, <1>4, <2>1, <2>2 DEF LastOf
<1>12. \A d \in next.after : Found(c, d, s)
  BY <1>2, <1>4, <1>6, <1>9
<1>13. CASE task.kind = "I"
  <2>1. LastOf(c, k, {"IDR", "CRA"}, k)
    BY <1>2, <1>7, <1>13 DEF LastOf
  <2>2. next.poc = next.rap /\ next.rap = task.poc
    BY <1>6, <1>13
  <2>3. \A d \in next.after : (next.poc > next.rap \/ d.poc = next.rap) => Found(c, d, k)
    <3>1. ASSUME NEW d \in next.after, next.poc > next.rap \/ d.poc = next.rap
          PROVE  Found(c, d, k)
      <4>1. d.poc = task.poc
        BY <1>6, <2>2, <3>1
      <4>2. d \notin last.after
        BY <1>5, <1>6, <1>8, <4>1
      <4>3. d = Entry(task)
        BY <1>6, <3>1, <4>2
      <4> QED BY <1>2, <1>6, <4>3
    <3> QED BY <3>1
  <2>4. k \in s .. k /\ k \in 1 .. k /\ \A j \in k + 1 .. k : FALSE
    BY <1>2, <1>4
  <2>5. Since(c, s, k, left, next, count)
    BY <1>2, <1>4, <1>10, <1>11, <1>12, <2>1, <2>3, <2>4 DEF Since
  <2>6. DecodesAt(c, k)
    BY <1>2, <1>4, <1>6, <1>7, <1>10, <1>11, <1>13, <2>1, <2>4 DEF DecodesAt
  <2> QED BY <2>4, <2>5, <2>6 DEF c, k
<1>14. CASE task.kind = "P"
  <2>1. LastOf(c, k, {"IDR", "CRA"}, r)
    <3>1. c[k].unit \notin {"IDR", "CRA"}
      BY <1>2, <1>7, <1>14
    <3>2. \A j \in r + 1 .. k : j = k \/ (j \in r + 1 .. k - 1 /\ j \in 1 .. k - 1)
      BY <1>2, <1>4
    <3> QED BY <1>2, <1>4, <3>1, <3>2 DEF LastOf
  <2>2. \A d \in t.active : Found(coded, d, r)
    BY <1>4, <1>6
  <2>3. \A d \in next.after : Found(c, d, r)
    BY <1>2, <1>4, <1>6, <1>9, <2>2
  <2>4. ~(next.poc <= next.rap)
    BY <1>5, <1>6, <1>14
  <2>5. r \in s .. k
    BY <1>2, <1>4
  <2>6. Since(c, s, r, left, next, count)
    BY <1>2, <1>4, <1>10, <1>11, <1>12, <2>1, <2>3, <2>4, <2>5 DEF Since
  <2>7. ASSUME NEW d \in c[k].l0 \cup c[k].l1
        PROVE  \E j \in (IF c[k].unit = "TRAIL" THEN r ELSE s) .. k - 1 : c[j].frame = d.frame /\ c[j].ref
    BY <1>2, <1>4, <1>6, <1>7, <1>14, <2>2, <2>7
  <2>8. c[k].unit # "RASL"
    BY <1>2, <1>7, <1>14
  <2>9. DecodesAt(c, k)
    BY <1>4, <1>10, <1>11, <2>1, <2>7, <2>8 DEF DecodesAt
  <2> QED BY <1>4, <2>6, <2>9 DEF c, k
<1> QED BY <1>6, <1>13, <1>14

\* Every task that is handed on has references, in the stream as well.
LEMMA HandKeeps ==
  ASSUME hevcPar \in HevcConfigs, ~Overruns(hevcPar), hevcLast \in Lasts,
         IsFiniteSet(hevcLast.after), Cardinality(hevcLast.after) <= HevcNumRef(hevcPar),
         NEW queue \in Seq(Waiting), NEW n \in Nat, OInv(hevcPar, queue, n, hevcLast),
         NEW len, Period(queue, len), NEW surface, NEW placed, NEW i,
         Chooses(queue, len, surface, placed, i),
         NEW count \in Nat, Sorted(queue), \A j \in DOMAIN queue : queue[j].frame < count,
         NEW coded \in Seq(Coded), SInv(coded, queue, hevcLast, count), Decodes(coded)
  PROVE  LET t == HevcFill(hevcPar, placed[i], hevcLast)
             next == [poc |-> t.poc, rap |-> t.rap, after |-> t.after]
             left == RemoveAt(placed, i)
             c == Append(coded, t)
         IN  /\ OInv(hevcPar, left, n, next) /\ SInv(c, left, next, count)
             /\ Decodes(c) /\ Filled(hevcPar, t)
<1> DEFINE task == placed[i]
           t == HevcFill(hevcPar, task, hevcLast)
           next == [poc |-> t.poc, rap |-> t.rap, after |-> t.after]
           left == RemoveAt(placed, i)
           c == Append(coded, t)
           k == Len(coded) + 1
<1>1. /\ i \in 1 .. Len(queue) /\ task \in Waiting
      /\ task.frame = queue[i].frame /\ task.poc = queue[i].poc
      /\ Left(hevcPar, queue, left, i)
      /\ OInv(hevcPar, left, n, next)
      /\ queue[i].kind # "IDR" => Here(queue, i)
      /\ \/ Key(queue, i, task) /\ LeavesKey(task, t)
         \/ Backward(hevcPar, hevcLast.after, queue, i, task) /\ LeavesBack(hevcPar, task, hevcLast, t)
         \/ Forward(hevcLast.after, queue, i, task) /\ LeavesForward(hevcPar, task, hevcLast, t)
  BY GoesIs
<1> HIDE DEF task, left
<1>2. /\ t \in Chosen /\ t.frame = task.frame /\ t.kind = task.kind /\ t.ref = task.ref
      /\ t.active \subseteq hevcLast.after /\ t.l0 \cup t.l1 \subseteq t.active
  BY <1>1, FillIs
<1>3. /\ t.unit = Unit(task, hevcLast)
      /\ t.l0 = HevcLists(hevcPar, task, t.active)[1] /\ t.l1 = HevcLists(hevcPar, task, t.active)[2]
  BY <1>1, FieldsAre
<1> HIDE DEF t
<1>4. next.poc = t.poc /\ next.rap = t.rap /\ next.after = t.after
  OBVIOUS
<1> HIDE DEF next
<1>5. task.poc \in Nat /\ task.kind \in Kinds /\ hevcLast.after \in SUBSET Pictures
  BY <1>1 DEF Waiting, Lasts
<1>6. /\ task.kind \in {"IDR", "I"} => t.l0 = {} /\ t.l1 = {}
      /\ ((task.kind = "P" \/ (task.kind = "B" /\ ActiveB(hevcPar) # 0)) /\ \E d \in t.active : d.poc < task.poc)
           => t.l0 # {}
      /\ (task.kind = "B" /\ \E d \in t.active : d.poc > task.poc) => t.l1 # {}
  <2>1. t.active \in SUBSET Pictures /\ IsFiniteSet(t.active)
    BY <1>2, <1>5, FS_Subset
  <2> QED BY <1>3, <1>5, <2>1, ListsAre
<1>7. Handed(hevcPar, queue, left, i, hevcLast, task, t, next)
  BY <1>1, <1>2, <1>3, <1>4, <1>6 DEF Handed
<1>8. t \in Coded /\ t.frame < count
  BY <1>1, <1>2, SeqIs DEF Coded
<1>9. c \in Seq(Coded) /\ Len(c) = k /\ k \in Nat \ {0} /\ k \in 1 .. k /\ Len(coded) = k - 1
  BY <1>8, AppendIs, SeqIs
<1>10. SInv(c, left, next, count) /\ DecodesAt(c, k)
  <2>1. CASE Key(queue, i, task) /\ LeavesKey(task, t)
    <3>1. Since(c, k, k, left, next, count) /\ DecodesAt(c, k)
      BY <1>7, <1>8, <2>1, KeyStreams
    <3> HIDE DEF c, k
    <3> QED BY <1>9, <3>1 DEF SInv
  <2>2. ASSUME ~Key(queue, i, task)
        PROVE  \E s, r \in 1 .. Len(coded) : Since(coded, s, r, queue, hevcLast, count)
    <3>1. queue[i].kind # "IDR"
      <4>1. i \in 1 .. i
        BY <1>1
      <4> QED BY <1>1, <2>2, <4>1 DEF Backward, Forward
    <3>2. queue[1].kind # "IDR"
      <4>1. 1 \in 1 .. i
        BY <1>1
      <4> QED BY <1>1, <3>1, <4>1 DEF Here
    <3>3. queue # << >>
      BY <1>1, SeqIs
    <3> QED BY <3>2, <3>3 DEF SInv
  <2>3. CASE Backward(hevcPar, hevcLast.after, queue, i, task) /\ LeavesBack(hevcPar, task, hevcLast, t)
             /\ ~Key(queue, i, task)
    <3>1. PICK s \in 1 .. Len(coded), r \in 1 .. Len(coded) : Since(coded, s, r, queue, hevcLast, count)
      BY <2>2, <2>3
    <3>2. Since(c, s, r, left, next, count) /\ DecodesAt(c, k)
      BY <1>7, <2>3, <3>1, BackStreams
    <3>3. s \in 1 .. k /\ r \in 1 .. k
      BY <1>9, <3>1
    <3> HIDE DEF c, k
    <3> QED BY <1>9, <3>2, <3>3 DEF SInv
  <2>4. CASE Forward(hevcLast.after, queue, i, task) /\ LeavesForward(hevcPar, task, hevcLast, t)
             /\ ~Key(queue, i, task)
    <3>1. PICK s \in 1 .. Len(coded), r \in 1 .. Len(coded) : Since(coded, s, r, queue, hevcLast, count)
      BY <2>2, <2>4
    <3>2. DecodesAt(c, k) /\ \E x \in 1 .. k : Since(c, s, x, left, next, count)
      BY <1>7, <2>4, <3>1, ForwardStreams
    <3>3. s \in 1 .. k
      BY <1>9, <3>1
    <3> HIDE DEF c, k
    <3> QED BY <1>9, <3>2, <3>3 DEF SInv
  <2>5. Key(queue, i, task) =>
          ~Backward(hevcPar, hevcLast.after, queue, i, task) /\ ~Forward(hevcLast.after, queue, i, task)
    BY DEF Key, Backward, Forward
  <2> QED BY <1>1, <2>1, <2>3, <2>4, <2>5
<1>11. Decodes(c)
  <2>1. ASSUME NEW x \in 1 .. k
        PROVE  DecodesAt(c, x)
    <3>1. CASE x = k
      BY <1>10, <3>1
    <3>2. CASE x # k
      <4>1. x \in 1 .. Len(coded) /\ x \in DOMAIN coded
        BY <1>9, <3>2, SeqIs
      <4>2. DecodesAt(coded, x)
        BY <4>1 DEF Decodes
      <4> QED BY <1>8, <4>1, <4>2, EarlierIs
    <3> QED BY <3>1, <3>2
  <2>2. DOMAIN c = 1 .. k
    BY <1>9, SeqIs
  <2> QED BY <2>1, <2>2 DEF Decodes
<1>12. Filled(hevcPar, t)
  <2>1. CASE Key(queue, i, task)
    BY <1>2, <2>1 DEF Key, Filled
  <2>2. CASE Backward(hevcPar, hevcLast.after, queue, i, task) /\ LeavesBack(hevcPar, task, hevcLast, t)
    <3>1. /\ task.kind = "B" /\ t.active = hevcLast.after
          /\ \E d \in hevcLast.after : d.poc > queue[i].poc
      BY <2>2 DEF Backward, LeavesBack, Ready
    <3>2. t.l1 # {}
      BY <1>1, <1>6, <3>1
    <3>3. ~hevcPar.bpyramid /\ HevcNumRef(hevcPar) # 1 => \E d \in hevcLast.after : d.poc < queue[i].poc
      <4>1. queue[i].kind # "IDR" /\ i \in DOMAIN queue
        <5>1. i \in 1 .. i
          BY <1>1
        <5> QED BY <1>1, <2>2, <5>1, SeqIs DEF Backward
      <4> QED BY <1>1, <4>1 DEF OInv, Preceded
    <3>4. ~hevcPar.bpyramid /\ HevcNumRef(hevcPar) # 1 => t.l0 # {} \/ ActiveB(hevcPar) = 0
      BY <1>1, <1>6, <3>1, <3>3
    <3> QED BY <1>2, <3>1, <3>2, <3>4 DEF Filled
  <2>3. CASE Forward(hevcLast.after, queue, i, task) /\ LeavesForward(hevcPar, task, hevcLast, t)
    <3>1. /\ task.kind \in {"I", "P"} /\ \E d \in t.active : d.poc < queue[i].poc
      BY <1>1, <2>3 DEF Forward, LeavesForward
    <3>2. task.kind = "P" => t.l0 # {}
      BY <1>1, <1>6, <3>1
    <3> QED BY <1>2, <3>1, <3>2 DEF Filled
  <2> QED BY <1>1, <2>1, <2>2, <2>3
<1> QED BY <1>1, <1>10, <1>11, <1>12 DEF t, next, task, left

-----------------------------------------------------------------------------
(* The whole. *)

\* A queue that is full has a task.
LEMMA RoomIs ==
  ASSUME hevcPar \in HevcConfigs, hevcLast \in Lasts,
         NEW queue \in Seq(Waiting), NEW n \in Nat, OInv(hevcPar, queue, n, hevcLast),
         NEW len, Period(queue, len), Nothing(hevcLast.after, queue, len, Flushes(queue, len, TRUE))
  PROVE  Len(queue) < MaxTask(hevcPar)
<1> DEFINE D == RefDist(hevcPar)
           a == queue[1].poc
<1>1. /\ Len(queue) \in Nat /\ DOMAIN queue = 1 .. Len(queue) /\ (queue = << >> <=> Len(queue) = 0)
      /\ \A j \in 1 .. Len(queue) : queue[j].poc \in Nat
  <2>1. \A w \in Waiting : w.poc \in Nat
    BY DEF Waiting
  <2> QED BY <2>1, SeqIs
<1>2. D \in Nat \ {0} /\ MaxTask(hevcPar) = (IF D > 1 THEN D ELSE 1)
  BY NumbersAre DEF MaxTask
<1>3. len = Len(queue)
  <2>1. len \in 0 .. Len(queue) /\ (queue # << >> => len >= 1)
    BY DEF Period
  <2>2. len < Len(queue) => len = 0
    BY DEF Nothing, Flushes
  <2>3. Len(queue) # 0 => len >= 1
    BY <1>1, <2>1, Zenon
  <2>4. Len(queue) \in Nat /\ len \in 0 .. Len(queue)
    BY <1>1, <2>1
  <2> QED BY <2>2, <2>3, <2>4
<1>4. \A j \in 1 .. Len(queue) : queue[j].kind = "B" /\ ~Ready(hevcLast.after, queue[j])
  BY <1>3 DEF Nothing, Still
<1> HIDE DEF D
<1>5. SUFFICES ASSUME Len(queue) >= D PROVE FALSE
  BY <1>1, <1>2
<1>6. 1 \in 1 .. Len(queue) /\ a \in Nat
  BY <1>1, <1>2, <1>5
<1>7. Final(queue, 1)
  BY <1>1, <1>4 DEF Final
<1>8. /\ a + (Len(queue) - 1) < n
      /\ \A j \in 1 .. Len(queue) : queue[j].kind = GetFrameType(hevcPar, queue[j].poc)
  BY <1>1, <1>6, <1>7 DEF OInv, InOrder
<1>9. \A m \in a .. n - 1 : \E j \in 1 .. Len(queue) : queue[j].poc = m
  BY <1>1, <1>4, <1>6, <1>7 DEF OInv, NoGap
<1>10. PICK m \in a .. a + D - 1 : GetFrameType(hevcPar, m) # "B"
  BY <1>6, AnchorIs DEF D
<1> HIDE DEF a
<1>11. m \in a .. n - 1
  BY <1>1, <1>2, <1>5, <1>6, <1>8, <1>10
<1>12. PICK j \in 1 .. Len(queue) : queue[j].poc = m
  BY <1>9, <1>11
<1> QED BY <1>4, <1>8, <1>10, <1>12

\* GetTask, given a queue that is as the stream asks, leaves it so.
LEMMA GetsStream ==
  ASSUME BInv, Reorders(hevcPar), ~Overruns(hevcPar), hevcPar' = hevcPar,
         hevcOut' = hevcOut, hevcCount' \in Nat, hevcOrder' = hevcCount', "task" \notin hevcShort',
         NEW queue, Fits(queue, hevcCount'), hevcOrder' - hevcIdr' \in Nat,
         OInv(hevcPar, queue, hevcOrder' - hevcIdr', hevcLast),
         SInv(hevcOut, queue, hevcLast, hevcCount'), Decodes(hevcOut),
         hevcOut = << >> /\ queue = << >> => hevcOrder' = 0,
         IF hevcTask' = NoTask THEN hevcPc' = "get" ELSE hevcPc' \in {"code", "last"},
         hevcTask = NoTask, NEW surface \in BOOLEAN, GetTask(queue, surface)
  PROVE  DInv'
<1> DEFINE n == hevcOrder' - hevcIdr'
<1>1. /\ hevcPar \in HevcConfigs /\ hevcLast \in Lasts /\ hevcLast.after \in SUBSET Pictures
      /\ IsFiniteSet(hevcLast.after) /\ Cardinality(hevcLast.after) <= HevcNumRef(hevcPar)
      /\ hevcOut \in Seq(Coded)
  BY DEF BInv, HTypes, Lasts, Coded
<1>2. /\ queue \in Seq(Waiting) /\ Len(queue) <= MaxTask(hevcPar) /\ Sorted(queue)
      /\ FramesIn(queue) \subseteq 0 .. hevcCount' - 1
  BY DEF Fits
<1>3. \A j \in DOMAIN queue : queue[j].frame < hevcCount'
  <2>1. \A j \in DOMAIN queue : queue[j].frame \in 0 .. hevcCount' - 1
    BY <1>2 DEF FramesIn
  <2> QED BY <2>1
<1>4. MaxTask(hevcPar) \in Nat /\ MaxTask(hevcPar) >= 1 /\ Len(queue) \in Nat
  BY <1>1, <1>2, NumbersAre, SeqIs DEF MaxTask
<1>5. PICK len :
        /\ Period(queue, len)
        /\ \/ Nothing(hevcLast.after, queue, len, Flushes(queue, len, surface)) /\ Idle(queue)
           \/ \E placed, i : Chooses(queue, len, surface, placed, i) /\ Hands(placed, i)
  BY <1>1, <1>2, TaskIs
<1>6. n \in Nat /\ OInv(hevcPar, queue, n, hevcLast)
  OBVIOUS
<1> HIDE DEF n
<1>7. ASSUME Nothing(hevcLast.after, queue, len, Flushes(queue, len, surface)), Idle(queue)
      PROVE  DInv'
  <2>1. hevcQueue' = queue /\ hevcTask' = NoTask /\ hevcLast' = hevcLast /\ hevcPc' = "get"
    BY <1>7 DEF Idle
  <2>2. Len(queue) < MaxTask(hevcPar)
    <3>1. CASE surface = TRUE
      BY <1>1, <1>2, <1>5, <1>6, <1>7, <3>1, RoomIs
    <3>2. CASE surface = FALSE
      <4>1. len = 0
        BY <1>7, <3>2 DEF Nothing, Flushes
      <4>2. queue = << >>
        BY <1>5, <4>1 DEF Period
      <4> QED BY <1>4, <4>2
    <3> QED BY <3>1, <3>2
  <2>3. ~Coding' /\ Coming' = hevcOut
    BY <2>1 DEF Coding, Coming
  <2>4. OInv(hevcPar', hevcQueue', n, hevcLast') /\ SInv(Coming', hevcQueue', hevcLast', hevcCount')
        /\ Decodes(Coming') /\ Decodes(hevcOut')
    BY <1>6, <2>1, <2>3
  <2> QED BY <2>1, <2>2, <2>3, <2>4 DEF DInv, n
<1>8. ASSUME NEW placed, NEW i, Chooses(queue, len, surface, placed, i), Hands(placed, i)
      PROVE  DInv'
  <2> DEFINE t == HevcFill(hevcPar, placed[i], hevcLast)
             next == [poc |-> t.poc, rap |-> t.rap, after |-> t.after]
             left == RemoveAt(placed, i)
             c == Append(hevcOut, t)
  <2>1. OInv(hevcPar, left, n, next) /\ SInv(c, left, next, hevcCount') /\ Decodes(c) /\ Filled(hevcPar, t)
    BY <1>1, <1>2, <1>3, <1>5, <1>6, <1>8, HandKeeps
  <2>2. i \in 1 .. Len(queue) /\ placed[i] \in Waiting /\ Left(hevcPar, queue, left, i)
    BY <1>1, <1>2, <1>5, <1>6, <1>8, GoesIs
  <2>3. Len(left) < MaxTask(hevcPar)
    BY <1>2, <1>4, <2>2 DEF Left
  <2>4. t \in Chosen
    BY <1>1, <2>2, FillIs
  <2>5. hevcQueue' = left /\ hevcTask' = t /\ hevcLast' = next
    <3>1. /\ hevcQueue' = RemoveAt(placed, i) /\ hevcTask' = HevcFill(hevcPar, placed[i], hevcLast)
          /\ hevcLast' = [poc |-> hevcTask'.poc, rap |-> hevcTask'.rap, after |-> hevcTask'.after]
      BY <1>8 DEF Hands
    <3> QED BY <3>1
  <2> HIDE DEF t, next, left
  <2>6. hevcTask' # NoTask
    <3>1. hevcTask'.frame \in Nat
      BY <2>4, <2>5 DEF Chosen
    <3> QED BY <3>1 DEF NoTask
  <2>7. Coding' /\ Coming' = c /\ hevcPc' \in {"code", "last"}
    BY <2>5, <2>6 DEF Coding, Coming
  <2>8. c # << >>
    <3>1. t \in Coded
      BY <2>4 DEF Coded
    <3>2. Len(c) = Len(hevcOut) + 1 /\ Len(hevcOut) \in Nat
      BY <1>1, <3>1, AppendIs, SeqIs
    <3> QED BY <3>2
  <2> HIDE DEF c
  <2>9. OInv(hevcPar', hevcQueue', n, hevcLast') /\ SInv(Coming', hevcQueue', hevcLast', hevcCount')
        /\ Decodes(Coming') /\ Decodes(hevcOut') /\ Filled(hevcPar', hevcTask')
        /\ Len(hevcQueue') < MaxTask(hevcPar') /\ Coming' # << >>
    BY <2>1, <2>3, <2>5, <2>7, <2>8
  <2> QED BY <2>7, <2>9 DEF DInv, n
<1> QED BY <1>5, <1>7, <1>8

LEMMA DInit ==
  ASSUME HevcInit
  PROVE  DInv
<1>1. /\ hevcPar \in HevcConfigs /\ hevcTask = NoTask /\ hevcQueue = << >> /\ hevcOut = << >>
      /\ hevcLast = [poc |-> -1, rap |-> 255, after |-> {}] /\ hevcPc = "get"
      /\ hevcCount = 0 /\ hevcOrder = 0 /\ hevcIdr = 0 /\ hevcShort = {}
  BY DEF HevcInit
<1>2. ~Coding /\ Coming = << >>
  BY <1>1 DEF Coding, Coming
<1>3. DOMAIN << >> = {} /\ Len(<< >>) = 0
  OBVIOUS
<1>4. Decodes(<< >>)
  BY <1>3 DEF Decodes
<1>5. SInv(<< >>, << >>, hevcLast, 0)
  BY <1>1 DEF SInv
<1>6. OInv(hevcPar, << >>, 0, hevcLast)
  <2>1. InOrder(hevcPar, << >>, 0) /\ NoGap(<< >>, 0, hevcLast)
    BY <1>3 DEF InOrder, NoGap
  <2>2. Beside(<< >>, 0, hevcLast) /\ Preceded(hevcPar, << >>, hevcLast)
    BY <1>1, <1>3 DEF Beside, Preceded
  <2>3. Phase(<< >>, 0, hevcLast)
    BY DEF Phase
  <2> QED BY <2>1, <2>2, <2>3 DEF OInv
<1>7. 0 < MaxTask(hevcPar)
  <2>1. RefDist(hevcPar) \in Nat
    BY <1>1, NumbersAre
  <2> QED BY <2>1 DEF MaxTask
<1>8. hevcOrder - hevcIdr = 0
  BY <1>1
<1>9. /\ OInv(hevcPar, hevcQueue, hevcOrder - hevcIdr, hevcLast) /\ SInv(Coming, hevcQueue, hevcLast, hevcCount)
      /\ Decodes(Coming) /\ Decodes(hevcOut) /\ Len(hevcQueue) < MaxTask(hevcPar)
  BY <1>1, <1>2, <1>3, <1>4, <1>5, <1>6, <1>7, <1>8
<1> QED BY <1>1, <1>2, <1>9 DEF DInv

\* A surface that joins the queue is of the period of the stream, or begins
\* the next.
LEMMA JoinStreams ==
  ASSUME NEW coded \in Seq(Coded), NEW queue \in Seq(Waiting), NEW last, NEW count \in Nat,
         SInv(coded, queue, last, count), NEW task \in Waiting, task.frame = count,
         coded = << >> /\ queue = << >> => task.kind = "IDR"
  PROVE  SInv(coded, Append(queue, task), last, count + 1)
<1> DEFINE q == Append(queue, task)
           len == Len(queue)
<1>1. /\ q \in Seq(Waiting) /\ Len(q) = len + 1 /\ DOMAIN q = 1 .. len + 1 /\ DOMAIN queue = 1 .. len
      /\ len \in Nat /\ \A i \in 1 .. len : q[i] = queue[i]
      /\ q[len + 1] = task /\ (queue = << >> <=> len = 0) /\ q # << >>
  BY AppendIs, SeqIs
<1> HIDE DEF q, len
<1>2. CASE coded = << >> /\ last.after = {} /\ (queue # << >> => queue[1].kind = "IDR")
  <2>1. CASE queue = << >>
    BY <1>1, <1>2, <2>1 DEF SInv, q
  <2>2. CASE queue # << >>
    <3>1. 1 \in 1 .. len
      BY <1>1, <2>2
    <3>2. q[1].kind = "IDR"
      BY <1>1, <1>2, <2>2, <3>1
    <3> QED BY <1>2, <3>2 DEF SInv, q
  <2> QED BY <2>1, <2>2
<1>3. ASSUME NEW s \in 1 .. Len(coded), NEW r \in 1 .. Len(coded), Since(coded, s, r, queue, last, count)
      PROVE  SInv(coded, q, last, count + 1)
  <2>1. coded[s].frame \in Nat /\ coded[s].frame < count
    <3>1. coded[s] \in Coded
      BY SeqIs
    <3>2. coded[s].frame \in Nat
      BY <3>1 DEF Coded, Chosen
    <3> QED BY <1>3, <3>2 DEF Since
  <2>2. \A i \in DOMAIN q : q[i].frame >= coded[s].frame
    <3>1. \A i \in 1 .. len : q[i].frame >= coded[s].frame
      BY <1>1, <1>3 DEF Since
    <3>2. q[len + 1].frame >= coded[s].frame
      BY <1>1, <2>1
    <3>3. \A i \in DOMAIN q : i \in 1 .. len \/ i = len + 1
      BY <1>1
    <3> QED BY <3>1, <3>2, <3>3
  <2>3. coded[s].frame < count + 1
    BY <2>1
  <2>4. Since(coded, s, r, q, last, count + 1)
    BY <1>3, <2>2, <2>3 DEF Since
  <2> QED BY <2>4 DEF SInv
<1> QED BY <1>2, <1>3 DEF SInv, q

LEMMA DTake ==
  ASSUME BInv, DInv, HevcTake
  PROVE  DInv'
<1>1. /\ hevcPc = "get" /\ hevcCount' = hevcCount + 1 /\ hevcPar' = hevcPar /\ hevcOut' = hevcOut
  BY DEF HevcTake
<1>2. SUFFICES ASSUME Reorders(hevcPar), ~Overruns(hevcPar) PROVE DInv'
  <2>1. Reorders(hevcPar') = Reorders(hevcPar) /\ Overruns(hevcPar') = Overruns(hevcPar)
    BY <1>1
  <2> QED BY <2>1 DEF DInv
<1> DEFINE n == hevcOrder - hevcIdr
           kind == GetFrameType(hevcPar, n)
           idr == IF kind = "IDR" THEN hevcOrder ELSE hevcIdr
           task == [frame |-> hevcCount, poc |-> hevcOrder - idr, kind |-> kind,
                    ref |-> kind # "B", bpo |-> Unplaced]
           q == Append(hevcQueue, task)
<1>3. /\ hevcPar \in HevcConfigs /\ hevcCount \in Nat /\ hevcOrder \in 0 .. hevcCount
      /\ hevcIdr \in 0 .. hevcOrder /\ hevcTask = NoTask /\ hevcLast \in Lasts
      /\ hevcQueue \in Seq(Waiting) /\ hevcOut \in Seq(Coded)
  BY <1>1, HevcAssumption DEF BInv, HTypes, Coded
<1>4. Coming = hevcOut
  BY <1>1 DEF Coming, Coding
<1>5. /\ "task" \notin hevcShort /\ Len(hevcQueue) < MaxTask(hevcPar) /\ Decodes(hevcOut)
      /\ hevcOrder = hevcCount /\ (hevcOut = << >> /\ hevcQueue = << >> => hevcOrder = 0)
      /\ OInv(hevcPar, hevcQueue, n, hevcLast) /\ SInv(hevcOut, hevcQueue, hevcLast, hevcCount)
  BY <1>1, <1>2, <1>4 DEF DInv, Live
<1>6. n \in Nat
  BY <1>3
<1>7. HevcFree # 0
  <2>1. Len(hevcQueue) \in Nat /\ MaxTask(hevcPar) \in Nat
    BY <1>3, NumbersAre, SeqIs
  <2>2. HevcFree = MaxTask(hevcPar) - Len(hevcQueue) - 0
    BY <1>3 DEF HevcFree
  <2> QED BY <1>5, <2>1, <2>2
<1>8. /\ GetTask(q, TRUE)
      /\ hevcOrder' = hevcOrder + 1 /\ hevcIdr' = idr /\ hevcShort' = hevcShort
      /\ hevcPc' = IF hevcTask' = NoTask THEN "get" ELSE "code"
  BY <1>2, <1>7 DEF HevcTake
<1>9. kind \in Kinds /\ kind = GetFrameType(hevcPar, n) /\ (n = 0 => kind = "IDR")
  BY DEF GetFrameType, Kinds
<1> HIDE DEF kind
<1>10. hevcOrder - idr = (IF kind = "IDR" THEN 0 ELSE n) /\ hevcOrder - idr \in Nat
  BY <1>3
<1> HIDE DEF idr, n
<1>11. task \in Waiting /\ task.frame = hevcCount /\ task.poc = hevcOrder - idr /\ task.kind = kind
       /\ task.ref = (task.kind # "B")
  BY <1>3, <1>9, <1>10 DEF Waiting, Unplaced
<1> HIDE DEF task
<1>12. OInv(hevcPar, q, task.poc + 1, hevcLast)
  BY <1>3, <1>5, <1>6, <1>9, <1>10, <1>11, JoinKeeps
<1>13. hevcOrder' - hevcIdr' = task.poc + 1 /\ hevcOrder' - hevcIdr' \in Nat
  <2>1. idr \in Int
    BY <1>3 DEF idr
  <2> QED BY <1>3, <1>8, <1>10, <1>11, <2>1
<1>14. hevcOut = << >> /\ hevcQueue = << >> => task.kind = "IDR"
  <2>1. hevcOrder = 0 => n = 0
    <3>1. hevcOrder \in Nat /\ hevcIdr \in Nat /\ hevcIdr <= hevcOrder
      BY <1>3
    <3> QED BY <3>1 DEF n
  <2> QED BY <1>5, <1>9, <1>11, <2>1
<1>15. SInv(hevcOut, q, hevcLast, hevcCount')
  BY <1>1, <1>3, <1>5, <1>11, <1>14, JoinStreams
<1>16. Fits(q, hevcCount')
  <2>1. Fits(hevcQueue, hevcCount)
    BY <1>1, QueueFits
  <2> QED BY <1>1, <1>3, <1>5, <1>11, <2>1, MoreFits
<1>17. q # << >>
  <2>1. Len(q) = Len(hevcQueue) + 1 /\ Len(hevcQueue) \in Nat
    BY <1>3, <1>11, AppendIs, SeqIs
  <2> QED BY <2>1
<1> HIDE DEF q
<1>18. hevcCount' \in Nat /\ hevcOrder' = hevcCount' /\ "task" \notin hevcShort'
       /\ (IF hevcTask' = NoTask THEN hevcPc' = "get" ELSE hevcPc' \in {"code", "last"})
  BY <1>1, <1>3, <1>5, <1>8
<1>19. OInv(hevcPar, q, hevcOrder' - hevcIdr', hevcLast)
  BY <1>12, <1>13
<1> QED BY <1>1, <1>2, <1>3, <1>5, <1>8, <1>13, <1>15, <1>16, <1>17, <1>18, <1>19, GetsStream

\* A buffer without a surface, and the end of the input.
LEMMA DDrain ==
  ASSUME BInv, DInv, (Reorders(hevcPar) /\ HevcReset) \/ HevcFlush
  PROVE  DInv'
<1>1. /\ hevcPc \in {"get", "flush"} /\ hevcQueue # << >> /\ GetTask(hevcQueue, FALSE)
      /\ UNCHANGED <<hevcPar, hevcCount, hevcOrder, hevcIdr, hevcOut, hevcShort>>
      /\ \/ hevcPc' = IF hevcTask' = NoTask THEN "get" ELSE "code"
         \/ hevcPc' = "last"
  BY DEF HevcReset, HevcFlush, hevcInput, hevcHistory
<1>2. SUFFICES ASSUME Reorders(hevcPar), ~Overruns(hevcPar) PROVE DInv'
  <2>1. Reorders(hevcPar') = Reorders(hevcPar) /\ Overruns(hevcPar') = Overruns(hevcPar)
    BY <1>1
  <2> QED BY <2>1 DEF DInv
<1>3. /\ hevcPar \in HevcConfigs /\ hevcCount \in Nat /\ hevcOrder \in 0 .. hevcCount
      /\ hevcIdr \in 0 .. hevcOrder /\ hevcTask = NoTask /\ hevcLast \in Lasts
      /\ hevcQueue \in Seq(Waiting) /\ Len(hevcQueue) <= MaxTask(hevcPar)
      /\ IsFiniteSet(hevcLast.after) /\ Cardinality(hevcLast.after) <= HevcNumRef(hevcPar)
  BY <1>1, HevcAssumption DEF BInv, HTypes
<1>4. Coming = hevcOut
  BY <1>1 DEF Coming, Coding
<1>5. /\ "task" \notin hevcShort /\ Decodes(hevcOut) /\ hevcOrder = hevcCount
      /\ OInv(hevcPar, hevcQueue, hevcOrder - hevcIdr, hevcLast)
      /\ SInv(hevcOut, hevcQueue, hevcLast, hevcCount)
  BY <1>1, <1>2, <1>4 DEF DInv, Live
<1>6. Fits(hevcQueue, hevcCount)
  BY <1>1, QueueFits
<1>7. hevcTask' # NoTask
  <2>1. Takes(hevcQueue)
    BY <1>1, <1>3, TookIs
  <2>2. hevcTask'.frame \in Nat
    BY <2>1 DEF Takes, Chosen
  <2> QED BY <2>2 DEF NoTask
<1>8. hevcPc' \in {"code", "last"}
  BY <1>1, <1>7
<1>9. hevcCount' = hevcCount /\ hevcOrder' - hevcIdr' = hevcOrder - hevcIdr /\ hevcOrder - hevcIdr \in Nat
  BY <1>1, <1>3
<1>10. Fits(hevcQueue, hevcCount') /\ hevcOrder' - hevcIdr' \in Nat
       /\ OInv(hevcPar, hevcQueue, hevcOrder' - hevcIdr', hevcLast)
       /\ SInv(hevcOut, hevcQueue, hevcLast, hevcCount')
       /\ hevcCount' \in Nat /\ hevcOrder' = hevcCount' /\ "task" \notin hevcShort'
  BY <1>1, <1>3, <1>5, <1>6, <1>9
<1> DEFINE queue == hevcQueue
<1>11. /\ Fits(queue, hevcCount') /\ OInv(hevcPar, queue, hevcOrder' - hevcIdr', hevcLast)
       /\ SInv(hevcOut, queue, hevcLast, hevcCount') /\ queue # << >> /\ GetTask(queue, FALSE)
  BY <1>1, <1>10
<1> HIDE DEF queue
<1> QED BY <1>1, <1>2, <1>3, <1>5, <1>7, <1>8, <1>10, <1>11, GetsStream

\* The picture in hand is coded: it is the next of the stream.
LEMMA DCode ==
  ASSUME BInv, DInv, HevcCode
  PROVE  DInv'
<1>1. /\ Coding /\ hevcOut' = Append(hevcOut, hevcTask) /\ hevcPc' \in {"get", "flush"}
      /\ UNCHANGED <<hevcPar, hevcCount, hevcOrder, hevcIdr, hevcQueue, hevcLast, hevcShort>>
  BY DEF HevcCode, hevcInput
<1>2. SUFFICES ASSUME Reorders(hevcPar), ~Overruns(hevcPar) PROVE DInv'
  <2>1. Reorders(hevcPar') = Reorders(hevcPar) /\ Overruns(hevcPar') = Overruns(hevcPar)
    BY <1>1
  <2> QED BY <2>1 DEF DInv
<1>3. ~Coding' /\ Coming' = hevcOut' /\ hevcOut' = Coming
  BY <1>1 DEF Coding, Coming
<1>4. /\ "task" \notin hevcShort /\ Len(hevcQueue) < MaxTask(hevcPar)
      /\ hevcOrder = hevcCount /\ (Coming = << >> /\ hevcQueue = << >> => hevcOrder = 0)
      /\ OInv(hevcPar, hevcQueue, hevcOrder - hevcIdr, hevcLast)
      /\ SInv(Coming, hevcQueue, hevcLast, hevcCount) /\ Decodes(Coming)
  BY <1>1, <1>2 DEF DInv, Live, Coding
<1>5. /\ OInv(hevcPar', hevcQueue', hevcOrder' - hevcIdr', hevcLast')
      /\ SInv(Coming', hevcQueue', hevcLast', hevcCount') /\ Decodes(Coming') /\ Decodes(hevcOut')
      /\ Len(hevcQueue') < MaxTask(hevcPar') /\ hevcOrder' = hevcCount'
      /\ (Coming' = << >> /\ hevcQueue' = << >> => hevcOrder' = 0) /\ "task" \notin hevcShort'
  BY <1>1, <1>3, <1>4
<1> QED BY <1>3, <1>5 DEF DInv

\* A step that ends the thread, or leaves all as it is.
LEMMA DRest ==
  ASSUME BInv, DInv,
         UNCHANGED <<hevcPar, hevcCount, hevcOrder, hevcIdr, hevcQueue, hevcTask, hevcLast>>,
         "task" \in hevcShort' => "task" \in hevcShort,
         \/ hevcPc' = hevcPc /\ hevcOut' = hevcOut
         \/ hevcPc = "get" /\ hevcPc' = "flush" /\ hevcOut' = hevcOut
         \/ hevcPc' \in {"done", "dead", "spin"} /\ hevcOut' = hevcOut
         \/ Coding /\ hevcPc' \in {"done", "dead", "spin"} /\ hevcOut' = Append(hevcOut, hevcTask)
  PROVE  DInv'
<1>1. SUFFICES ASSUME Reorders(hevcPar), ~Overruns(hevcPar) PROVE DInv'
  <2>1. Reorders(hevcPar') = Reorders(hevcPar) /\ Overruns(hevcPar') = Overruns(hevcPar)
    OBVIOUS
  <2> QED BY <2>1 DEF DInv
<1>2. "task" \notin hevcShort'
  BY <1>1 DEF DInv
<1>3. CASE hevcPc' = hevcPc /\ hevcOut' = hevcOut
  <2>1. (Coding' <=> Coding) /\ Coming' = Coming /\ (Live' <=> Live)
    BY <1>3 DEF Coding, Coming, Live
  <2>2. Len(hevcQueue') = Len(hevcQueue) /\ MaxTask(hevcPar') = MaxTask(hevcPar)
        /\ Filled(hevcPar', hevcTask') = Filled(hevcPar, hevcTask)
        /\ (Decodes(hevcOut') <=> Decodes(hevcOut)) /\ (Decodes(Coming') <=> Decodes(Coming))
        /\ (OInv(hevcPar', hevcQueue', hevcOrder' - hevcIdr', hevcLast')
              <=> OInv(hevcPar, hevcQueue, hevcOrder - hevcIdr, hevcLast))
        /\ (SInv(Coming', hevcQueue', hevcLast', hevcCount') <=> SInv(Coming, hevcQueue, hevcLast, hevcCount))
    BY <1>3, <2>1
  <2> QED BY <1>1, <1>2, <1>3, <2>1, <2>2 DEF DInv
<1>4. CASE hevcPc = "get" /\ hevcPc' = "flush" /\ hevcOut' = hevcOut
  <2>1. ~Coding' /\ ~Coding /\ Coming' = Coming /\ Live /\ Coming = hevcOut
    BY <1>4 DEF Coding, Coming, Live
  <2>2. /\ OInv(hevcPar', hevcQueue', hevcOrder' - hevcIdr', hevcLast')
        /\ SInv(Coming', hevcQueue', hevcLast', hevcCount') /\ Decodes(Coming') /\ Decodes(hevcOut')
        /\ hevcOrder' = hevcCount' /\ (Coming' = << >> /\ hevcQueue' = << >> => hevcOrder' = 0)
    BY <1>1, <1>4, <2>1 DEF DInv
  <2> QED BY <1>2, <1>4, <2>1, <2>2 DEF DInv
<1>5. CASE hevcPc' \in {"done", "dead", "spin"} /\ hevcOut' = hevcOut
  <2>1. ~Coding' /\ ~Live' /\ hevcPc' # "get" /\ Decodes(hevcOut')
    BY <1>1, <1>5 DEF Coding, Live, DInv
  <2> QED BY <1>2, <2>1 DEF DInv
<1>6. CASE Coding /\ hevcPc' \in {"done", "dead", "spin"} /\ hevcOut' = Append(hevcOut, hevcTask)
  <2>1. hevcOut' = Coming /\ Live
    BY <1>6 DEF Coming, Coding, Live
  <2>2. ~Coding' /\ ~Live' /\ hevcPc' # "get" /\ Decodes(hevcOut')
    BY <1>1, <1>6, <2>1 DEF Coding, Live, DInv
  <2> QED BY <1>2, <2>2 DEF DInv
<1> QED BY <1>3, <1>4, <1>5, <1>6

LEMMA DStep ==
  ASSUME BInv, DInv, [HevcNext]_hevcVars
  PROVE  DInv'
<1>1. CASE HevcNoStart
  BY <1>1, DRest DEF HevcNoStart, hevcInput, hevcTasks
<1>2. CASE HevcLeave
  BY <1>2, DRest DEF HevcLeave, hevcInput, hevcTasks, hevcHistory
<1>3. CASE HevcFails
  <2>1. /\ Coding /\ UNCHANGED <<hevcPar, hevcCount, hevcOrder, hevcIdr, hevcQueue, hevcTask, hevcLast>>
        /\ hevcPc' \in {"done", "dead"}
    BY <1>3 DEF HevcFails, hevcInput, hevcTasks
  <2>2. CASE Reorders(hevcPar) /\ hevcShort' = hevcShort \cup Lacking /\ hevcOut' = hevcOut
    <3>1. "task" \in hevcShort' => "task" \in hevcShort
      BY <2>1, <2>2, LackingIs
    <3> QED BY <2>1, <2>2, <3>1, DRest
  <2>3. CASE hevcShort' = hevcShort /\ hevcOut' \in {hevcOut, Append(hevcOut, hevcTask)}
    BY <2>1, <2>3, DRest
  <2> QED BY <1>3, <2>2, <2>3 DEF HevcFails
<1>4. CASE HevcSpin
  BY <1>4, DRest DEF HevcSpin, hevcInput, hevcTasks
<1>5. CASE HevcFinish
  <2>1. hevcPc' \in {"spin", "done"}
    BY <1>5 DEF HevcFinish
  <2> QED BY <1>5, <2>1, DRest DEF HevcFinish, hevcInput, hevcTasks, hevcHistory
<1>6. CASE HevcStop
  BY <1>6, DRest DEF HevcStop, hevcInput, hevcTasks, hevcHistory
<1>8. CASE HevcFinishFails
  BY <1>8, DRest DEF HevcFinishFails, hevcInput, hevcTasks
<1>9. CASE HevcReset /\ ~Reorders(hevcPar)
  BY <1>9, DRest DEF HevcReset, hevcInput, hevcHistory
<1>7. CASE UNCHANGED hevcVars
  BY <1>7, DRest DEF hevcVars, hevcThread, hevcInput, hevcTasks, hevcHistory
<1> QED BY <1>1, <1>2, <1>3, <1>4, <1>5, <1>6, <1>7, <1>8, <1>9, DTake, DDrain, DCode
        DEF HevcNext, HevcStep, HevcOver

LEMMA Stream == Spec => [](BInv /\ DInv)
<1>1. Init => BInv /\ DInv
  BY HevcMoves1, BInit, DInit
<1>2. BInv /\ DInv /\ [Next]_vars => (BInv /\ DInv)'
  BY HevcMoves1, BStep, DStep
<1> QED BY <1>1, <1>2, PTL DEF Spec

-----------------------------------------------------------------------------
(* The theorems. *)

\* Of the pictures up to k the last with one of the units is the greatest.
LEMMA LatestIs ==
  ASSUME NEW coded, NEW k \in Nat, NEW units, NEW s \in 1 .. k, LastOf(coded, k, units, s)
  PROVE  Max({i \in 1 .. k : coded[i].unit \in units}) = s
<1> DEFINE set == {i \in 1 .. k : coded[i].unit \in units}
<1>1. s \in set /\ \A i \in set : i <= s
  <2>1. ASSUME NEW i \in 1 .. k, i > s
        PROVE  coded[i].unit \notin units
    <3>1. i \in s + 1 .. k
      BY <2>1
    <3> QED BY <3>1 DEF LastOf
  <2>2. coded[s].unit \in units
    BY DEF LastOf
  <2> QED BY <2>1, <2>2
<1>2. set \in SUBSET Int
  OBVIOUS
<1> HIDE DEF set
<1>3. Max(set) = s
  BY <1>1, <1>2, MaxIs
<1> QED BY <1>3 DEF set

\* Whatever the encoder's parameters, -refnum among them, but for a pyramid of
\* B frames with one of P frames or with room for one picture only, and however
\* long the stream: a decoder that reads it has what each picture refers to,
\* coded as a reference since the last IDR picture, and for a picture that
\* trails the last random access point not before that point; and no leading
\* picture is coded after a trailing one.
THEOREM HevcDecodes == Spec => []HevcStreamDecodes
<1>1. BInv /\ DInv => HevcStreamDecodes
  <2>1. SUFFICES ASSUME BInv, DInv, Reorders(hevcPar), ~Overruns(hevcPar), NEW k \in DOMAIN hevcOut
                 PROVE  LET pic == hevcOut[k]
                            Latest(units) == Max({i \in 1 .. k : hevcOut[i].unit \in units})
                            idr == Latest({"IDR"})
                            rap == Latest({"IDR", "CRA"})
                        IN  /\ \A d \in pic.l0 \cup pic.l1 :
                                 \E i \in (IF pic.unit = "TRAIL" THEN rap ELSE idr) .. k - 1 :
                                   hevcOut[i].frame = d.frame /\ hevcOut[i].ref
                            /\ pic.unit = "RASL" => \A i \in rap + 1 .. k - 1 : hevcOut[i].unit = "RASL"
                            /\ pic.frame >= hevcOut[idr].frame
    BY Zenon DEF HevcStreamDecodes
  <2>2. k \in Nat
    BY SeqIs DEF BInv, HTypes
  <2>3. PICK s \in 1 .. k, r \in 1 .. k :
          /\ LastOf(hevcOut, k, {"IDR"}, s) /\ LastOf(hevcOut, k, {"IDR", "CRA"}, r)
          /\ \A d \in hevcOut[k].l0 \cup hevcOut[k].l1 :
               \E i \in (IF hevcOut[k].unit = "TRAIL" THEN r ELSE s) .. k - 1 :
                 hevcOut[i].frame = d.frame /\ hevcOut[i].ref
          /\ hevcOut[k].unit = "RASL" => \A i \in r + 1 .. k - 1 : hevcOut[i].unit = "RASL"
          /\ hevcOut[k].frame >= hevcOut[s].frame
    <3>1. DecodesAt(hevcOut, k)
      BY <2>1 DEF DInv, Decodes
    <3> QED BY <3>1 DEF DecodesAt
  <2>4. /\ Max({i \in 1 .. k : hevcOut[i].unit \in {"IDR"}}) = s
        /\ Max({i \in 1 .. k : hevcOut[i].unit \in {"IDR", "CRA"}}) = r
    BY <2>2, <2>3, LatestIs
  <2> QED BY <2>3, <2>4
<1> QED BY <1>1, Stream, PTL

LEMMA ResourcesSuffice ==
  ASSUME BInv, DInv
  PROVE  HevcResourcesSuffice
<1>1. hevcShort \subseteq {"predictors", "task"}
  BY DEF BInv, HTypes
<1>2. ~Overruns(hevcPar) => "task" \notin hevcShort
  <2>1. CASE Reorders(hevcPar)
    BY <2>1 DEF DInv
  <2>2. CASE ~Reorders(hevcPar)
    BY <2>2 DEF BInv, Plain
  <2> QED BY <2>1, <2>2
<1>3. ASSUME hevcPc = "get", ~hevcPar.noVpp, ~Overruns(hevcPar)
      PROVE  hevcCount - Len(hevcBack) <= MaxTask(hevcPar) - 1
  <2>1. hevcCount = Len(hevcBack) + Len(hevcQueue)
    BY <1>2, <1>3 DEF BInv, Counts
  <2>2. /\ hevcPar \in HevcConfigs /\ hevcBack \in Seq(Nat) /\ hevcQueue \in Seq(Waiting)
    BY DEF BInv, HTypes
  <2>3. Len(hevcBack) \in Nat /\ Len(hevcQueue) \in Nat
    BY <2>2, SeqIs
  <2>4. MaxTask(hevcPar) \in Nat /\ MaxTask(hevcPar) >= 1
    BY <2>2, NumbersAre DEF MaxTask
  <2>5. Len(hevcQueue) < MaxTask(hevcPar)
    <3>1. CASE Reorders(hevcPar)
      BY <1>3, <3>1 DEF DInv
    <3>2. CASE ~Reorders(hevcPar)
      <4>1. Len(hevcQueue) = 0
        BY <3>2 DEF BInv, Plain
      <4> QED BY <2>4, <4>1
    <3> QED BY <3>1, <3>2
  <2> QED BY <2>1, <2>3, <2>4, <2>5
<1> QED BY <1>1, <1>2, <1>3 DEF HevcResourcesSuffice

\* Every surface finds a free task, with the same exception, and
\* every picture its buffers and its downsampled surface; and the producer
\* has never lost more of its own buffers than fill the queue but for one.
THEOREM HevcResources == Spec => []HevcResourcesSuffice
BY Stream, ResourcesSuffice, PTL

\* What is left open: a B picture of a pyramid that has lost its past.
PastLost == Coding /\ hevcPar.bpyramid /\ hevcTask.kind = "B" /\ hevcTask.l0 = {} /\ hevcTask.l1 # {}

\* With the same exception every predicted picture has a reference before it
\* and every B picture one after it, and, outside a pyramid of B frames, one
\* before it too, unless the command line leaves room for one picture only or
\* leaves the distance out.
THEOREM HevcFindsReferences == Spec => [](HevcGoesOn \/ (HevcResourcesSuffice /\ PastLost))
<1>1. BInv /\ DInv => HevcListsFilled \/ PastLost
  <2>1. SUFFICES ASSUME DInv, Coding, Reorders(hevcPar), ~Overruns(hevcPar), ~PastLost
                 PROVE  /\ hevcTask.kind = "P" => hevcTask.l0 # {}
                        /\ hevcTask.kind = "B" =>
                             /\ \/ hevcTask.l0 # {}
                                \/ ActiveB(hevcPar) = 0 \/ HevcNumRef(hevcPar) = 1
                                \/ hevcPar.bpyramid
                                     /\ (FewReferences(hevcPar) \/ RefDist(hevcPar) > 8)
                             /\ hevcTask.l1 # {}
    BY DEF HevcListsFilled
  <2>2. Filled(hevcPar, hevcTask)
    BY <2>1 DEF DInv
  <2> QED BY <2>1, <2>2 DEF Filled, PastLost
<1>2. BInv /\ DInv => HevcResourcesSuffice
  BY ResourcesSuffice
<1>3. BInv /\ DInv => HevcGoesOn \/ (HevcResourcesSuffice /\ PastLost)
  BY <1>1, <1>2 DEF HevcGoesOn
<1> QED BY <1>3, Stream, PTL

-----------------------------------------------------------------------------
(* The H.264 encoder: its pool, its sets and its buffer. *)

Tasks ==
  [kind : Kinds, order : Nat, gop : Nat, ref : BOOLEAN, surface : Nat \cup {-1},
   coded : BOOLEAN,
   bufs : Nat, last : Nat, outs : SUBSET Nat]
Entries == [frame : Nat, num : Nat, parities : SUBSET {0, 1}]
CodedIn(pool) == {f \in DOMAIN pool : pool[f].coded}
Working == feiPc \in {"preenc", "code"}

\* A buffer of decoded pictures, and what it holds in the pool.
Buffer(par, post) == post \in Seq(Entries) /\ Len(post) <= NumRef(par)

FTypes ==
  /\ feiPar \in FeiConfigs
  /\ feiPc \in {"get", "pick", "preenc", "code", "exit", "done", "dead", "spin"}
  /\ feiRun \in BOOLEAN /\ feiEos \in BOOLEAN
  /\ feiCount \in Nat /\ feiIdr \in 0 .. feiCount
  /\ feiEnd \in {"no", "eos", "reset"}
  /\ feiBuf \in -1 .. feiCount - 1 /\ (feiBuf # -1 => feiEnd = "reset")
  /\ \A f \in DOMAIN feiPool : feiPool[f].surface \in -1 .. feiCount - 1
  /\ DOMAIN feiPool \subseteq 0 .. feiCount - 1 /\ feiPool \in [DOMAIN feiPool -> Tasks]
  /\ feiLast.num \in Nat /\ feiLast.inc \in Nat /\ Buffer(feiPar, feiLast.post)
  /\ feiVacant = [preenc |-> feiVacant.preenc, encode |-> feiVacant.encode]
  /\ feiVacant.preenc \subseteq PreencSets(feiPar) /\ feiVacant.encode \subseteq EncodeSets(feiPar)
  /\ DOMAIN feiFilled = EncodeSets(feiPar)
  /\ feiShort \subseteq {"ds", "set", "reference", "recon"}

\* The coded tasks of the pool, and the sets they hold.
FPool ==
  /\ Cardinality(CodedIn(feiPool)) <= NumRef(feiPar)
  /\ FramesOf(feiLast.post) \subseteq CodedIn(feiPool)
  /\ \A f \in DOMAIN feiPool :
       /\ feiPool[f].bufs \in EncodeSets(feiPar) \cup {0}
       /\ feiPool[f].last \in PreencSets(feiPar) \cup {0} /\ feiPool[f].outs \subseteq PreencSets(feiPar)
  /\ Codes(feiPar) =>
       EncodeSets(feiPar) \subseteq feiVacant.encode \cup {feiPool[f].bufs : f \in CodedIn(feiPool)}
  /\ feiPar.recon > NumRef(feiPar) => "recon" \notin feiShort

\* The task in process.
FTask ==
  Working =>
    /\ feiTask.frame \in Unencoded(feiPool)
    /\ feiTask.dpb = feiLast.post /\ feiTask.num \in Nat /\ feiTask.inc \in Nat
    /\ Buffer(feiPar, feiTask.post)
    /\ FramesOf(feiTask.post) \subseteq FramesOf(feiLast.post) \cup {feiTask.frame}

FInv == FTypes /\ FPool /\ FTask /\ FeiPredictorsMatch

-----------------------------------------------------------------------------
\* Order.  Without a pyramid the picture that a B frame waits for is the last
\* reference, which stays in the buffer.
Newer(post) == IF post = << >> THEN -1 ELSE post[Len(post)].frame
Unpicked == IF Working THEN Unencoded(feiPool) \ {feiTask.frame} ELSE Unencoded(feiPool)
Ahead == Newer(IF Working THEN feiTask.post ELSE feiLast.post)
Alive == feiPc \in {"get", "pick", "preenc", "code"}

Flat(pool) ==
  \A f \in DOMAIN pool : pool[f].order = 0 /\ pool[f].gop = 0 /\ (pool[f].kind = "B" => ~pool[f].ref)
InQueue(par, pool, left, ahead, count, idr) ==
  \A f \in left : /\ f < ahead \/ f .. count - 1 \subseteq left
                  /\ pool[f].kind # "B" => f > ahead
                  /\ f >= idr => pool[f].kind = FrameKind(par, f - idr)

\* No frame waits for more of those that came after it than a mini-GOP has:
\* those before it go first.
Before(left, f) == {g \in left : g < f}
Waits(left, count, most) == \A f \in left : count + Cardinality(Before(left, f)) <= f + most

FQueue ==
  /\ InQueue(feiPar, feiPool, Unpicked, Ahead, feiCount, feiIdr)
  /\ Cardinality(Unpicked) <= feiPar.refDist - (IF feiPc = "pick" THEN 0 ELSE 1)
  /\ Waits(Unpicked, feiCount, feiPar.refDist + (IF feiPc = "pick" THEN 1 ELSE 0))
  /\ Flat(feiPool)
Drained ==
  /\ Alive => ~feiEos
  /\ feiPc = "spin" => feiEnd = "reset"
  /\ feiCount > 0 => feiIdr < feiCount
  /\ feiEnd # "reset" => \A f \in DOMAIN feiPool : feiPool[f].surface = f
  /\ (feiPc \in {"exit", "done"} /\ feiEnd = "eos" /\ feiFault = {} /\ feiShort = {}
       /\ (feiEos \/ (feiPc = "exit" /\ feiRun))) => Unencoded(feiPool) = {}

\* The first task of a decoder that was reset holds no surface.
Busy == feiPc \in {"pick", "preenc", "code"}
Emptied ==
  /\ feiEnd # "reset" => feiCount <= FeiFrames
  /\ feiEnd = "reset" => \/ ~Busy /\ feiBuf = -1 /\ feiCount < FeiFrames
                         \/ \E f \in Unencoded(feiPool) : f < FeiFrames /\ feiPool[f].surface = -1

\* What is done has been coded once, and its buffer is back once.
DoneIn(pool, count) == (0 .. count - 1) \ Unencoded(pool)
OutOnce(out, done, whole) ==
  /\ out \in Seq(Range(out))
  /\ IsInjective([k \in DOMAIN out |-> out[k].frame])
  /\ {out[k].frame : k \in DOMAIN out} \subseteq done
  /\ whole => {out[k].frame : k \in DOMAIN out} = done
BackOnce(back, done) == back \in Seq(Nat) /\ IsInjective(back) /\ Range(back) = done
Once ==
  /\ OutOnce(feiOut, DoneIn(feiPool, feiCount), feiFault = {})
  /\ feiEnd # "reset" => BackOnce(feiBack, DoneIn(feiPool, feiCount))

EInv ==
  feiPar.bref = "off" =>
    /\ Alive => FQueue
    /\ Drained /\ Emptied /\ Once
    /\ "ds" \notin feiShort
    /\ feiCount <= FeiFrames + feiPar.refDist
    /\ Cardinality(DOMAIN feiPool) <= NumRef(feiPar) + feiPar.refDist

-----------------------------------------------------------------------------
(* The numbers of an H.264 encoder, and what the functions on its buffer   *)
(* and its pool return.                                                    *)

LEMMA FeiNumbersAre ==
  ASSUME NEW par \in FeiConfigs
  PROVE  /\ par \in FeiParameters
         /\ par.refDist \in Nat /\ par.refDist >= 1
         /\ NumRef(par) \in 2 .. 4
         /\ MaxQueue(par) \in Nat /\ MaxQueue(par) > NumRef(par)
         /\ MaxQueue(par) >= NumRef(par) + par.refDist
         /\ Fields(par) \in 1 .. 2
<1>1. par \in FeiParameters
  BY FeiAssumption
<1>2. par.refDist \in Nat /\ par.refDist >= 1 /\ par.asked \in BOOLEAN
  BY <1>1 DEF FeiParameters
<1>3. /\ NumRef(par) \in 2 .. 4 /\ NumRef(par) <= par.refDist + 1
  BY <1>2 DEF NumRef, Least
<1>4. /\ MaxQueue(par) \in Nat /\ MaxQueue(par) >= 2 * par.refDist + 3
  BY <1>2, <1>3 DEF MaxQueue
<1>5. Fields(par) \in 1 .. 2
  BY DEF Fields
<1>6. MaxQueue(par) > NumRef(par) /\ MaxQueue(par) >= NumRef(par) + par.refDist
  BY <1>2, <1>3, <1>4
<1> QED BY <1>1, <1>2, <1>3, <1>4, <1>5, <1>6

LEMMA MaxIn ==
  ASSUME NEW n \in Nat, NEW S \in SUBSET (0 .. n), S # {}
  PROVE  Max(S) \in S /\ \A y \in S : y <= Max(S)
<1> DEFINE T == {n - x : x \in S}
<1>1. T \in SUBSET Nat /\ T # {}
  <2>1. \A x \in S : n - x \in Nat
    OBVIOUS
  <2> QED BY <2>1
<1>2. PICK t \in T : \A y \in T : t <= y
  BY <1>1, LeastIs
<1>3. PICK m \in S : t = n - m
  OBVIOUS
<1>4. \A y \in S : y <= m
  BY <1>2, <1>3
<1>5. \E x \in S : \A y \in S : x >= y
  BY <1>4
<1>6. Max(S) \in S /\ \A y \in S : Max(S) >= y
  BY <1>5 DEF Max
<1> QED BY <1>6

\* A buffer names no more frames than it has entries.
LEMMA BufferIsSmall ==
  ASSUME NEW dpb \in Seq(Entries)
  PROVE  /\ IsFiniteSet(FramesOf(dpb)) /\ Cardinality(FramesOf(dpb)) <= Len(dpb)
         /\ FramesOf(dpb) \subseteq Nat
         /\ FramesOf(dpb) = {dpb[i].frame : i \in 1 .. Len(dpb)}
<1>1. DOMAIN dpb = 1 .. Len(dpb) /\ Len(dpb) \in Nat /\ \A i \in 1 .. Len(dpb) : dpb[i] \in Entries
  BY SeqIs
<1> DEFINE f == [i \in 1 .. Len(dpb) |-> dpb[i].frame]
<1>2. FramesOf(dpb) = {f[i] : i \in 1 .. Len(dpb)}
  BY <1>1 DEF FramesOf
<1>3. IsFiniteSet(1 .. Len(dpb)) /\ Cardinality(1 .. Len(dpb)) = Len(dpb)
  <2>1. Len(dpb) \in Nat /\ 1 \in Int /\ Len(dpb) \in Int /\ (1 > Len(dpb) => Len(dpb) = 0)
        /\ Len(dpb) - 1 + 1 = Len(dpb)
    BY <1>1
  <2>2. /\ IsFiniteSet(1 .. Len(dpb))
        /\ Cardinality(1 .. Len(dpb)) = IF 1 > Len(dpb) THEN 0 ELSE Len(dpb) - 1 + 1
    BY <2>1, FS_Interval
  <2> QED BY <2>1, <2>2
<1>4. f \in Surjection(1 .. Len(dpb), FramesOf(dpb))
  BY <1>2 DEF Surjection
<1>5. IsFiniteSet(FramesOf(dpb)) /\ Cardinality(FramesOf(dpb)) <= Cardinality(1 .. Len(dpb))
  BY <1>3, <1>4, FS_Surjection
<1>6. FramesOf(dpb) \subseteq Nat
  BY <1>1, <1>2 DEF Entries
<1> QED BY <1>1, <1>2, <1>3, <1>5, <1>6

LEMMA VictimIs ==
  ASSUME NEW par \in FeiConfigs, NEW dpb \in Seq(Entries), NEW frame \in Nat, Len(dpb) >= 1
  PROVE  \E i \in 1 .. Len(dpb) : dpb[i].frame = Victim(par, dpb, frame)
<1>1. Len(dpb) \in Nat /\ 1 \in 1 .. Len(dpb)
  BY SeqIs
<1>2. FramesOf(dpb) \in SUBSET Nat /\ FramesOf(dpb) # {}
  <2>1. FramesOf(dpb) \subseteq Nat /\ FramesOf(dpb) = {dpb[i].frame : i \in 1 .. Len(dpb)}
    BY BufferIsSmall
  <2> QED BY <1>1, <2>1
<1>3. Min(FramesOf(dpb)) \in FramesOf(dpb)
  BY <1>2, MinIs
<1>4. \E i \in 1 .. Len(dpb) : dpb[i].frame = Min(FramesOf(dpb))
  BY <1>3, BufferIsSmall
<1>5. Victim(par, dpb, frame) \in {Min(FramesOf(dpb)), dpb[1].frame}
  BY DEF Victim
<1> QED BY <1>1, <1>4, <1>5

\* The first entry of a frame leaves a buffer.
LEMMA WithoutIs ==
  ASSUME NEW q \in Seq(Entries), NEW v, \E i \in 1 .. Len(q) : q[i].frame = v
  PROVE  \E k \in 1 .. Len(q) : q[k].frame = v /\ Without(q, v) = RemoveAt(q, k)
<1> DEFINE I == {i \in 1 .. Len(q) : q[i].frame = v}
<1>1. Len(q) \in Nat
  BY SeqIs
<1>2. I \in SUBSET Nat /\ I # {}
  OBVIOUS
<1>3. Min(I) \in I
  BY <1>2, MinIs
<1>4. Without(q, v) = RemoveAt(q, Min(I))
  BY <1>2 DEF SelectInSeq, RemoveFirstMatch, Without
<1> QED BY <1>3, <1>4

LEMMA EntriesLeft ==
  ASSUME NEW q \in Seq(Entries), NEW v, \E i \in 1 .. Len(q) : q[i].frame = v
  PROVE  /\ Without(q, v) \in Seq(Entries) /\ Len(Without(q, v)) = Len(q) - 1
         /\ FramesOf(Without(q, v)) \subseteq FramesOf(q)
<1> DEFINE r == Without(q, v)
<1>1. PICK k \in 1 .. Len(q) : r = RemoveAt(q, k)
  BY WithoutIs
<1> HIDE DEF r
<1>2. /\ r \in Seq(Entries) /\ Len(r) = Len(q) - 1
      /\ \A j \in 1 .. Len(q) - 1 : r[j] = q[IF j < k THEN j ELSE j + 1]
  BY <1>1, RemoveAtIs
<1>3. Len(q) \in Nat
  BY SeqIs
<1>4. ASSUME NEW j \in 1 .. Len(r)
      PROVE  r[j].frame \in FramesOf(q)
  <2>1. (IF j < k THEN j ELSE j + 1) \in 1 .. Len(q)
    BY <1>2, <1>3
  <2>2. r[j] = q[IF j < k THEN j ELSE j + 1]
    BY <1>2, <1>3
  <2> QED BY <2>1, <2>2, BufferIsSmall
<1>5. FramesOf(r) = {r[j].frame : j \in 1 .. Len(r)}
  BY <1>2, BufferIsSmall
<1> QED BY <1>2, <1>4, <1>5 DEF r

\* A reference is the newest entry of the buffer after it; a full buffer loses
\* an entry first.
LEMMA MarkIs ==
  ASSUME NEW par \in FeiConfigs, NEW task, NEW frame \in Nat, NEW num \in Nat,
         NEW dpb, Buffer(par, dpb),
         NEW post, post = MarkDecodedRefPictures(par, task, frame, num, dpb)
  PROVE  /\ Buffer(par, post)
         /\ FramesOf(post) \subseteq FramesOf(dpb) \cup {frame}
         /\ IF TypeRef(task) THEN post # << >> /\ Newer(post) = frame ELSE post = dpb
<1> DEFINE new == [frame |-> frame, num |-> num,
                   parities |-> IF Fields(par) = 1 THEN {0, 1} ELSE {FirstParity(par)}]
           full == Len(dpb) = NumRef(par)
           gone == Without(dpb, Victim(par, dpb, frame))
           kept == IF full THEN gone ELSE dpb
<1>1. dpb \in Seq(Entries) /\ Len(dpb) <= NumRef(par) /\ Len(dpb) \in Nat /\ NumRef(par) \in 2 .. 4
  BY FeiNumbersAre DEF Buffer
<1>2. new \in Entries
  BY DEF Entries, FirstParity
<1>3. new.frame = frame
  OBVIOUS
<1>4. /\ ~TypeRef(task) => post = dpb
      /\ TypeRef(task) => post = IF task.kind = "IDR" THEN <<new>> ELSE Append(kept, new)
  BY DEF MarkDecodedRefPictures
<1>5. kept \in Seq(Entries) /\ Len(kept) < NumRef(par) /\ FramesOf(kept) \subseteq FramesOf(dpb)
  <2>1. CASE full
    <3>1. \E i \in 1 .. Len(dpb) : dpb[i].frame = Victim(par, dpb, frame)
      <4>1. dpb \in Seq(Entries) /\ Len(dpb) >= 1
        BY <1>1, <2>1
      <4> QED BY <4>1, VictimIs
    <3>2. gone \in Seq(Entries) /\ Len(gone) = Len(dpb) - 1 /\ FramesOf(gone) \subseteq FramesOf(dpb)
      BY <1>1, <3>1, EntriesLeft
    <3> HIDE DEF gone
    <3> QED BY <1>1, <2>1, <3>2
  <2>2. CASE ~full
    BY <1>1, <2>2
  <2> QED BY <2>1, <2>2
<1> HIDE DEF new, kept
<1>6. CASE ~TypeRef(task)
  BY <1>4, <1>6
<1>7. CASE TypeRef(task) /\ task.kind = "IDR"
  <2>0. post = <<new>>
    BY <1>4, <1>7
  <2>1. post = <<new>> /\ post \in Seq(Entries) /\ Len(post) = 1 /\ post[1] = new /\ post # << >>
    BY <1>2, <2>0
  <2>2. FramesOf(post) = {frame}
    BY <1>3, <2>1 DEF FramesOf
  <2> QED BY <1>1, <1>3, <1>7, <2>1, <2>2 DEF Buffer, Newer
<1>8. CASE TypeRef(task) /\ task.kind # "IDR"
  <2>1. post = Append(kept, new)
    BY <1>4, <1>8
  <2>2. /\ post \in Seq(Entries) /\ Len(post) = Len(kept) + 1
        /\ \A i \in 1 .. Len(kept) : post[i] = kept[i]
        /\ post[Len(kept) + 1] = new /\ post # << >>
    BY <1>2, <1>5, <2>1, AppendIs
  <2>3. Len(kept) \in Nat
    BY <1>5, SeqIs
  <2>4. \A i \in 1 .. Len(post) : post[i].frame \in FramesOf(kept) \cup {frame}
    BY <1>3, <1>5, <2>2, <2>3, BufferIsSmall
  <2>5. FramesOf(post) \subseteq FramesOf(kept) \cup {frame}
    BY <2>2, <2>4, BufferIsSmall
  <2>6. Newer(post) = frame
    BY <1>3, <2>2 DEF Newer
  <2>7. Len(post) <= NumRef(par)
    BY <1>1, <1>5, <2>2, <2>3
  <2> QED BY <1>5, <1>8, <2>2, <2>5, <2>6, <2>7 DEF Buffer
<1> QED BY <1>6, <1>7, <1>8

\* The task to encode has the buffer as it was, and as it will be.
LEMMA FilledIs ==
  ASSUME NEW par \in FeiConfigs, NEW task \in Tasks, NEW frame \in Nat, NEW last,
         last.num \in Nat, last.inc \in Nat, Buffer(par, last.post),
         NEW pic, pic = Fill(par, task, frame, last)
  PROVE  /\ pic.frame = frame /\ pic.kind = task.kind /\ pic.dpb = last.post
         /\ pic.num \in Nat /\ pic.inc \in Nat
         /\ Buffer(par, pic.post)
         /\ FramesOf(pic.post) \subseteq FramesOf(last.post) \cup {frame}
         /\ Newer(pic.post) = IF TypeRef(task) THEN frame ELSE Newer(last.post)
<1> DEFINE num == IF task.kind = "IDR" THEN 0 ELSE (last.num + last.inc) % FeiFrameNumMax
           marked == MarkDecodedRefPictures(par, task, frame, num, last.post)
<1>1. num \in Nat
  BY FeiAssumption
<1>2. /\ pic.frame = frame /\ pic.kind = task.kind /\ pic.dpb = last.post
      /\ pic.num = num /\ pic.inc \in Nat
      /\ pic.post = BothFields(par, task, marked)
  BY DEF Fill
<1> HIDE DEF num
<1>3. /\ Buffer(par, marked)
      /\ FramesOf(marked) \subseteq FramesOf(last.post) \cup {frame}
      /\ IF TypeRef(task) THEN marked # << >> /\ Newer(marked) = frame ELSE marked = last.post
  BY <1>1, MarkIs
<1> HIDE DEF marked
<1>4. CASE Fields(par) = 2 /\ task.ref
  <2>1. marked \in Seq(Entries) /\ Len(marked) <= NumRef(par) /\ marked # << >>
    BY <1>3, <1>4 DEF Buffer, TypeRef
  <2>2. /\ Len(marked) \in 1 .. Len(marked) /\ DOMAIN marked = 1 .. Len(marked)
        /\ \A i \in 1 .. Len(marked) : marked[i] \in Entries
    BY <2>1, SeqIs
  <2> DEFINE l == Len(marked)
             both == [marked EXCEPT ![l].parities = {0, 1}]
  <2>3. pic.post = both
    BY <1>2, <1>4 DEF BothFields
  <2>4. /\ \A i \in 1 .. l : both[i] \in Entries /\ both[i].frame = marked[i].frame
        /\ DOMAIN both = 1 .. l
    BY <2>2 DEF Entries
  <2>5. both \in Seq(Entries) /\ Len(both) = l
    <3>1. both = [i \in 1 .. l |-> both[i]]
      BY <2>4
    <3>2. l \in Nat
      BY <2>1, SeqIs
    <3> HIDE DEF both, l
    <3> QED BY <3>1, <3>2, <2>4
  <2>6. FramesOf(both) = FramesOf(marked)
    BY <2>2, <2>4 DEF FramesOf
  <2>7. Newer(both) = Newer(marked)
    <3>1. both # << >> /\ l \in 1 .. l
      BY <2>2, <2>4, <2>5, SeqIs
    <3> QED BY <2>1, <2>4, <2>5, <3>1 DEF Newer
  <2> QED BY <1>1, <1>2, <1>3, <1>4, <2>1, <2>3, <2>5, <2>6, <2>7 DEF Buffer, TypeRef
<1>5. CASE ~ (Fields(par) = 2 /\ task.ref)
  <2>1. pic.post = marked
    BY <1>2, <1>5 DEF BothFields
  <2> QED BY <1>1, <1>2, <1>3, <2>1
<1> QED BY <1>4, <1>5

\* The task that is picked is in the pool, and is not encoded.
LEMMA ReorderIs ==
  ASSUME NEW pool, DOMAIN pool \subseteq Nat, pool \in [DOMAIN pool -> Tasks]
  PROVE  ReorderFrame(pool) \in Unencoded(pool) \cup {-1}
<1> DEFINE left == Unencoded(pool)
           Bi(f) == pool[f].kind = "B"
           ready == {f \in left : Bi(f) => \E g \in DOMAIN pool : g > f /\ pool[g].coded}
           top == Min(ready)
           mini == {f \in left : f >= top /\ \A g \in left :
                      top <= g /\ g <= f => Bi(g) /\ pool[g].gop = pool[top].gop}
           order == Min({pool[f].order : f \in mini})
<1>1. ReorderFrame(pool) = IF ready = {} THEN -1
                           ELSE IF Bi(top) THEN Min({f \in mini : pool[f].order = order})
                           ELSE top
  BY DEF ReorderFrame
<1>2. left \subseteq Nat /\ left \subseteq DOMAIN pool
  BY DEF Unencoded
<1>3. ready # {} => top \in ready
  <2>1. ready \in SUBSET Nat
    BY <1>2
  <2> HIDE DEF ready
  <2> QED BY <2>1, MinIs
<1>4. ASSUME ready # {}, Bi(top)
      PROVE  Min({f \in mini : pool[f].order = order}) \in left
  <2>1. top \in left /\ top \in Nat
    BY <1>2, <1>3, <1>4
  <2>2. top \in mini
    <3>1. \A g \in left : top <= g /\ g <= top => g = top
      BY <1>2, <2>1
    <3> HIDE DEF ready, left, top
    <3> QED BY <1>4, <2>1, <3>1
  <2>3. {pool[f].order : f \in mini} \in SUBSET Nat /\ {pool[f].order : f \in mini} # {}
    <3>1. \A f \in mini : pool[f] \in Tasks
      BY <1>2
    <3>2. \A f \in mini : pool[f].order \in Nat
      BY <3>1 DEF Tasks
    <3> HIDE DEF mini
    <3> QED BY <2>2, <3>2
  <2>4. order \in {pool[f].order : f \in mini}
    <3> HIDE DEF mini
    <3> QED BY <2>3, MinIs
  <2> DEFINE best == {f \in mini : pool[f].order = order}
  <2>5. mini \subseteq left
    OBVIOUS
  <2>6. best # {} /\ best \in SUBSET Nat /\ best \subseteq left
    <3> HIDE DEF mini, left, order
    <3> QED BY <1>2, <2>4, <2>5
  <2>7. Min(best) \in best
    <3> HIDE DEF best
    <3> QED BY <2>6, MinIs
  <2> HIDE DEF order, mini, left
  <2> QED BY <2>6, <2>7
<1>5. ready \subseteq left
  OBVIOUS
<1> HIDE DEF ready, top, mini, order
<1> QED BY <1>1, <1>3, <1>4, <1>5

\* The frame that comes next: its type, the IDR picture it counts from, its task.
NextKind(par, count, idr) == FrameKind(par, count - idr)
NextBase(par, count, idr) == IF NextKind(par, count, idr) = "IDR" THEN count ELSE idr
NextTask(par, count, idr, surface) ==
  NewTask(par, NextKind(par, count, idr), count - NextBase(par, count, idr), surface)

LEMMA NewTaskIs ==
  ASSUME NEW par \in FeiConfigs, NEW count \in Nat, NEW idr \in 0 .. count,
         NEW surface \in Nat \cup {-1}
  PROVE  LET task == NextTask(par, count, idr, surface)
             kind == NextKind(par, count, idr)
         IN  /\ task \in Tasks /\ task.kind = kind /\ task.surface = surface /\ ~task.coded
             /\ task.bufs = 0 /\ task.last = 0 /\ task.outs = {}
             /\ NextBase(par, count, idr) \in 0 .. count
             /\ par.bref = "off" => task.order = 0 /\ task.gop = 0 /\ (kind = "B" => ~task.ref)
<1> DEFINE kind == NextKind(par, count, idr)
           base == NextBase(par, count, idr)
           task == NextTask(par, count, idr, surface)
           n == count - base
           in == n % par.gopSize
           placed == kind = "B" /\ par.bref # "off"
           place == IF placed THEN GetEncodingOrder((in % par.refDist) - 1, par.refDist - 1)
                              ELSE <<0, kind # "B">>
<1>1. /\ par.refDist \in Nat /\ par.refDist >= 1 /\ par.gopSize \in Nat \ {0}
      /\ par.bref \in {"unknown", "off", "pyramid"}
  BY FeiNumbersAre DEF FeiParameters
<1>0. /\ kind = FrameKind(par, count - idr)
      /\ base = IF kind = "IDR" THEN count ELSE idr
      /\ task = NewTask(par, kind, n, surface)
  BY DEF NextKind, NextBase, NextTask
<1> HIDE DEF kind, base, task
<1>2. kind \in Kinds
  BY <1>0 DEF FrameKind, Kinds
<1>3. base \in 0 .. count /\ n \in Nat /\ in \in Nat
  <2>1. base \in 0 .. count /\ n \in Nat
    BY <1>0
  <2> HIDE DEF n
  <2> QED BY <1>1, <2>1
<1>4. place[1] \in Nat /\ place[2] \in BOOLEAN
  <2>1. CASE placed
    <3>1. base = idr
      BY <1>0, <2>1
    <3>2. in % par.refDist # 0
      BY <1>0, <2>1, <3>1 DEF FrameKind
    <3>3. in % par.refDist \in 0 .. par.refDist - 1
      <4> HIDE DEF in
      <4> QED BY <1>1, <1>3
    <3> DEFINE at == (in % par.refDist) - 1
    <3>4. at \in 0 .. par.refDist - 2
      <4> DEFINE m == in % par.refDist
      <4>1. m # 0 /\ m \in 0 .. par.refDist - 1
        BY <3>2, <3>3
      <4> HIDE DEF m
      <4>2. m - 1 \in 0 .. par.refDist - 2
        BY <1>1, <4>1
      <4> QED BY <4>2 DEF m
    <3>5. par \in {p \in FeiConfigs : p.bref # "off"}
      BY <2>1
    <3> HIDE DEF at
    <3>6. GetEncodingOrder(at, par.refDist - 1) \in Nat \X BOOLEAN
      BY <3>4, <3>5, FeiPlaces
    <3>7. place = GetEncodingOrder(at, par.refDist - 1)
      BY <2>1 DEF at
    <3> HIDE DEF place
    <3> QED BY <3>6, <3>7
  <2>2. CASE ~placed
    BY <2>2
  <2> QED BY <2>1, <2>2
<1> DEFINE gop == IF placed THEN in \div par.refDist ELSE 0
<1>5. gop \in Nat
  <2> HIDE DEF in
  <2> QED BY <1>1, <1>3
<1>6. task = [kind |-> kind, order |-> place[1], gop |-> gop,
              ref |-> place[2], surface |-> surface, coded |-> FALSE,
              bufs |-> 0, last |-> 0, outs |-> {}]
  BY <1>0 DEF NewTask
<1>7. par.bref = "off" => place[1] = 0 /\ gop = 0 /\ (kind = "B" => ~place[2])
  OBVIOUS
<1> HIDE DEF place, gop, n
<1>8. task \in Tasks
  <2>1. \A o, g \in Nat, b \in BOOLEAN :
          [kind |-> kind, order |-> o, gop |-> g, ref |-> b, surface |-> surface, coded |-> FALSE,
           bufs |-> 0, last |-> 0, outs |-> {}] \in Tasks
    BY <1>2 DEF Tasks
  <2> QED BY <1>4, <1>5, <1>6, <2>1
<1> QED BY <1>3, <1>6, <1>7, <1>8 DEF kind, base, task

\* Picking may turn a task into a P frame, and no more.
Picked(pool, r) ==
  /\ DOMAIN r[1] = DOMAIN pool /\ r[1] \in [DOMAIN pool -> Tasks]
  /\ \A f \in DOMAIN pool : r[1][f] = pool[f] \/ r[1][f] = [pool[f] EXCEPT !.kind = "P"]
  /\ Unencoded(r[1]) = Unencoded(pool) /\ CodedIn(r[1]) = CodedIn(pool)
  /\ r[2] \in Unencoded(pool) \cup {-1}

LEMMA PickedIs ==
  ASSUME NEW par, NEW n \in Nat, NEW pool, DOMAIN pool \subseteq 0 .. n - 1,
         pool \in [DOMAIN pool -> Tasks], NEW flush \in BOOLEAN
  PROVE  Picked(pool, GetReorderedTask(par, pool, flush))
<1> DEFINE r == GetReorderedTask(par, pool, flush)
<1> DEFINE left == Unencoded(pool)
           top == ReorderFrame(pool)
           turned == [pool EXCEPT ![Max(left)].kind = "P"]
<1>1. /\ (~flush \/ top # -1 \/ left = {} \/ Cardinality(left) >= par.refDist) => r = <<pool, top>>
      /\ ~ (~flush \/ top # -1 \/ left = {} \/ Cardinality(left) >= par.refDist) =>
           r = IF par.strict THEN <<pool, Min(left)>> ELSE <<turned, ReorderFrame(turned)>>
  BY DEF GetReorderedTask
<1> SUFFICES Picked(pool, r)
  OBVIOUS
<1> HIDE DEF r
<1>2. DOMAIN pool \subseteq Nat /\ left \subseteq DOMAIN pool
  BY DEF Unencoded
<1>3. top \in left \cup {-1}
  BY <1>2, ReorderIs
<1>4. left # {} => Min(left) \in left
  <2> HIDE DEF left
  <2> QED BY <1>2, MinIs
<1>5. ASSUME left # {}
      PROVE  /\ DOMAIN turned = DOMAIN pool /\ turned \in [DOMAIN pool -> Tasks]
             /\ \A f \in DOMAIN pool :
                  turned[f] = pool[f] \/ turned[f] = [pool[f] EXCEPT !.kind = "P"]
             /\ Unencoded(turned) = Unencoded(pool) /\ CodedIn(turned) = CodedIn(pool)
             /\ ReorderFrame(turned) \in Unencoded(pool) \cup {-1}
  <2> DEFINE m == Max(left)
  <2>1. DOMAIN turned = DOMAIN pool
    OBVIOUS
  <2>2. \A f \in DOMAIN pool :
          turned[f] = IF f = m THEN [pool[f] EXCEPT !.kind = "P"] ELSE pool[f]
    OBVIOUS
  <2>3. \A f \in DOMAIN pool : /\ [pool[f] EXCEPT !.kind = "P"] \in Tasks
                               /\ [pool[f] EXCEPT !.kind = "P"].coded = pool[f].coded
    BY DEF Tasks, Kinds
  <2> HIDE DEF m
  <2>4. turned \in [DOMAIN pool -> Tasks]
    BY <2>1, <2>2, <2>3
  <2>5. Unencoded(turned) = Unencoded(pool) /\ CodedIn(turned) = CodedIn(pool)
    BY <2>1, <2>2, <2>3 DEF Unencoded, CodedIn
  <2> HIDE DEF turned
  <2>6. ReorderFrame(turned) \in Unencoded(turned) \cup {-1}
    BY <1>2, <2>1, <2>4, ReorderIs
  <2> QED BY <2>1, <2>2, <2>4, <2>5, <2>6
<1>6. CASE ~flush \/ top # -1 \/ left = {} \/ Cardinality(left) >= par.refDist
  <2>1. r[1] = pool /\ r[2] = top
    BY <1>1, <1>6
  <2> QED BY <1>3, <2>1 DEF Picked
<1>7. CASE ~ (~flush \/ top # -1 \/ left = {} \/ Cardinality(left) >= par.refDist)
  <2>1. CASE par.strict
    <3>1. r[1] = pool /\ r[2] = Min(left)
      BY <1>1, <1>7, <2>1
    <3> QED BY <1>4, <1>7, <3>1 DEF Picked
  <2>2. CASE ~par.strict
    <3>1. r[1] = turned /\ r[2] = ReorderFrame(turned)
      BY <1>1, <1>7, <2>2
    <3> HIDE DEF turned
    <3> QED BY <1>5, <1>7, <3>1 DEF Picked
  <2> QED BY <2>1, <2>2
<1> QED BY <1>6, <1>7

-----------------------------------------------------------------------------
(* Each step keeps the invariant of the pool. *)

LEMMA FInitHolds == FeiInit => FInv
<1> SUFFICES ASSUME FeiInit PROVE FInv
  OBVIOUS
<1>1. DOMAIN feiPool = {} /\ feiPool \in [DOMAIN feiPool -> Tasks]
  BY DEF FeiInit
<1>2. CodedIn(feiPool) = {}
  BY <1>1 DEF CodedIn
<1>3. NumRef(feiPar) \in 2 .. 4
  BY FeiNumbersAre DEF FeiInit
<1>4. feiLast.post = << >> /\ FramesOf(feiLast.post) = {} /\ Buffer(feiPar, feiLast.post)
  <2>1. feiLast.post = << >>
    BY DEF FeiInit
  <2>2. << >> \in Seq(Entries) /\ Len(<< >>) = 0 /\ DOMAIN << >> = {}
    OBVIOUS
  <2> QED BY <1>3, <2>1, <2>2 DEF Buffer, FramesOf
<1>5. FTypes
  <2>1. /\ feiPar \in FeiConfigs /\ feiPc = "get" /\ feiRun = TRUE /\ feiEos = FALSE
        /\ feiCount = 0 /\ feiIdr = 0 /\ feiEnd = "no" /\ feiBuf = -1 /\ feiShort = {}
        /\ feiLast.num = 0 /\ feiLast.inc = 0
    BY DEF FeiInit
  <2>2. /\ feiVacant = [preenc |-> feiVacant.preenc, encode |-> feiVacant.encode]
        /\ feiVacant.preenc = PreencSets(feiPar) /\ feiVacant.encode = EncodeSets(feiPar)
        /\ DOMAIN feiFilled = EncodeSets(feiPar)
    BY DEF FeiInit
  <2>3. feiIdr \in 0 .. feiCount /\ feiCount \in Nat /\ feiLast.num \in Nat /\ feiLast.inc \in Nat
        /\ feiBuf \in -1 .. feiCount - 1
    BY <2>1
  <2> QED BY <1>1, <1>4, <2>1, <2>2, <2>3, Zenon DEF FTypes
<1>6. FPool
  <2>1. Cardinality({}) = 0
    BY FS_EmptySet
  <2>2. feiVacant.encode = EncodeSets(feiPar) /\ feiShort = {}
    BY DEF FeiInit
  <2> QED BY <1>1, <1>2, <1>3, <1>4, <2>1, <2>2 DEF FPool
<1>7. FTask /\ FeiPredictorsMatch
  BY DEF FeiInit, FTask, FeiPredictorsMatch, Working
<1> QED BY <1>5, <1>6, <1>7 DEF FInv

\* A step that leaves pool, sets and task alone.
LEMMA QuietKeeps ==
  ASSUME FInv, UNCHANGED <<feiPar, feiCount, feiIdr, feiPool, feiLast, feiTask, feiVacant, feiFilled>>,
         feiPc' \in {"get", "pick", "preenc", "code", "exit", "done", "dead", "spin"},
         Working' => feiPc' = feiPc, feiRun' \in BOOLEAN, feiEos' \in BOOLEAN,
         feiEnd' \in {"no", "eos", "reset"}, feiEnd = "reset" => feiEnd' = "reset", feiBuf' = feiBuf,
         feiShort' \in SUBSET (feiShort \cup {"ds", "set", "reference"})
  PROVE  FInv'
<1>1. FTypes'
  BY DEF FInv, FTypes, Buffer
<1>2. FPool'
  BY DEF FInv, FPool, FramesOf, CodedIn
<1>3. FTask'
  BY DEF FInv, FTask, Working, FramesOf, Buffer, Unencoded
<1>4. FeiPredictorsMatch'
  BY DEF FInv, FeiPredictorsMatch, Working, WithSurface
<1> QED BY <1>1, <1>2, <1>3, <1>4 DEF FInv

LEMMA AddKeeps ==
  ASSUME FInv, NEW surface \in Nat \cup {-1}, surface <= feiCount, AddTask(surface), feiPc = "get",
         UNCHANGED <<feiPar, feiRun, feiEos, feiEnd, feiBuf, feiLast, feiTask, feiSets>>
  PROVE  FInv'
<1> DEFINE base == NextBase(feiPar, feiCount, feiIdr)
           task == NextTask(feiPar, feiCount, feiIdr, surface)
<1>1. /\ feiPar \in FeiConfigs /\ feiCount \in Nat /\ feiIdr \in 0 .. feiCount
      /\ DOMAIN feiPool \subseteq 0 .. feiCount - 1 /\ feiPool \in [DOMAIN feiPool -> Tasks]
      /\ feiShort \subseteq {"ds", "set", "reference", "recon"}
  BY DEF FInv, FTypes
<1>3. /\ feiCount' = feiCount + 1 /\ feiIdr' = base
      /\ \/ feiPc' = "exit" /\ feiShort' = feiShort \cup {"ds"} /\ feiPool' = feiPool
         \/ /\ feiPool' = [f \in DOMAIN feiPool \cup {feiCount} |-> IF f = feiCount THEN task ELSE feiPool[f]]
            /\ feiPc' = "pick" /\ feiShort' = feiShort
  BY DEF AddTask, Lacks, NextKind, NextBase, NextTask
<1>2. /\ task \in Tasks /\ ~task.coded /\ base \in 0 .. feiCount
      /\ task.bufs = 0 /\ task.last = 0 /\ task.outs = {} /\ task.surface = surface
  <2>1. feiPar \in FeiConfigs /\ feiCount \in Nat /\ feiIdr \in 0 .. feiCount
    BY <1>1
  <2>2. task \in Tasks /\ ~task.coded /\ base \in 0 .. feiCount
    BY <2>1, NewTaskIs
  <2>3. task.bufs = 0 /\ task.last = 0 /\ task.outs = {} /\ task.surface = surface
    BY DEF NextTask, NewTask
  <2> QED BY <2>2, <2>3
<1> HIDE DEF task, base
<1>4. /\ DOMAIN feiPool' \subseteq 0 .. feiCount' - 1 /\ feiPool' \in [DOMAIN feiPool' -> Tasks]
      /\ CodedIn(feiPool') = CodedIn(feiPool)
      /\ \A f \in DOMAIN feiPool' : \/ f \in DOMAIN feiPool /\ feiPool'[f] = feiPool[f]
                                    \/ feiPool'[f] = task
      /\ \A f \in CodedIn(feiPool) : feiPool'[f] = feiPool[f]
  <2>1. CASE feiPool' = feiPool
    BY <1>1, <1>3, <2>1 DEF CodedIn
  <2>2. CASE feiPool' = [f \in DOMAIN feiPool \cup {feiCount} |-> IF f = feiCount THEN task ELSE feiPool[f]]
    <3>1. DOMAIN feiPool' = DOMAIN feiPool \cup {feiCount} /\ feiCount \notin DOMAIN feiPool
      BY <1>1, <2>2
    <3>2. \A f \in DOMAIN feiPool : feiPool'[f] = feiPool[f]
      BY <2>2, <3>1
    <3>3. feiPool'[feiCount] = task
      BY <2>2
    <3>4. feiPool' = [f \in DOMAIN feiPool' |-> feiPool'[f]]
      BY <2>2
    <3>5. \A f \in DOMAIN feiPool' : feiPool'[f] \in Tasks
      BY <1>1, <1>2, <3>1, <3>2, <3>3
    <3>6. CodedIn(feiPool') = CodedIn(feiPool)
      BY <1>2, <3>1, <3>2, <3>3 DEF CodedIn
    <3>7. DOMAIN feiPool' \subseteq 0 .. feiCount' - 1
      BY <1>1, <1>3, <3>1
    <3> QED BY <3>1, <3>2, <3>3, <3>4, <3>5, <3>6, <3>7 DEF CodedIn
  <2> QED BY <1>3, <2>1, <2>2
<1>5. /\ feiPc' \in {"exit", "pick"} /\ feiShort' \subseteq feiShort \cup {"ds"}
      /\ feiCount' \in Nat /\ feiIdr' \in 0 .. feiCount'
      /\ feiPar' = feiPar /\ feiLast' = feiLast /\ feiVacant' = feiVacant /\ feiFilled' = feiFilled
      /\ feiRun' = feiRun /\ feiEos' = feiEos /\ feiEnd' = feiEnd /\ feiBuf' = feiBuf
      /\ feiBuf' \in -1 .. feiCount' - 1
  BY <1>1, <1>2, <1>3 DEF feiSets, FInv, FTypes
<1>6. FTypes'
  <2>1. \A f \in DOMAIN feiPool' : feiPool'[f].surface \in -1 .. feiCount' - 1
    <3>1. surface \in -1 .. feiCount' - 1
      BY <1>1, <1>3
    <3>2. \A f \in DOMAIN feiPool : feiPool[f].surface \in -1 .. feiCount' - 1
      BY <1>1, <1>3 DEF FInv, FTypes
    <3> QED BY <1>2, <1>4, <3>1, <3>2
  <2> QED BY <1>1, <1>4, <1>5, <2>1 DEF FInv, FTypes, Buffer
<1>7. FPool'
  <2>1. \A f \in DOMAIN feiPool' :
          /\ feiPool'[f].bufs \in EncodeSets(feiPar) \cup {0}
          /\ feiPool'[f].last \in PreencSets(feiPar) \cup {0} /\ feiPool'[f].outs \subseteq PreencSets(feiPar)
    BY <1>2, <1>4 DEF FInv, FPool
  <2>2. {feiPool'[f].bufs : f \in CodedIn(feiPool')} = {feiPool[f].bufs : f \in CodedIn(feiPool)}
    BY <1>4
  <2>3. FPool
    BY DEF FInv
  <2>4. FramesOf(feiLast.post)' = FramesOf(feiLast.post)
    BY <1>5 DEF FramesOf
  <2>5. CodedIn(feiPool)' = CodedIn(feiPool)
    BY <1>4 DEF CodedIn
  <2>6. feiPar.recon > NumRef(feiPar) => "recon" \notin feiShort'
    BY <1>5, <2>3 DEF FPool
  <2>7. Codes(feiPar) =>
          EncodeSets(feiPar) \subseteq feiVacant.encode \cup {feiPool'[f].bufs : f \in CodedIn(feiPool')}
    BY <2>2, <2>3 DEF FPool
  <2> QED BY <1>5, <2>1, <2>3, <2>4, <2>5, <2>6, <2>7 DEF FPool
<1>8. FTask' /\ FeiPredictorsMatch'
  BY <1>5 DEF FTask, FeiPredictorsMatch, Working
<1> QED BY <1>6, <1>7, <1>8 DEF FInv

\* Nothing of a task but its type changes: what FPool says of it stays.
LEMMA PoolKeeps ==
  ASSUME FTypes, FPool, UNCHANGED <<feiPar, feiLast>>,
         DOMAIN feiPool' = DOMAIN feiPool, CodedIn(feiPool') = CodedIn(feiPool),
         \A f \in DOMAIN feiPool :
           /\ feiPool'[f].bufs = feiPool[f].bufs
           /\ feiPool'[f].last \in PreencSets(feiPar) \cup {0}
           /\ feiPool'[f].outs \subseteq PreencSets(feiPar),
         feiVacant'.encode = feiVacant.encode,
         feiPar.recon > NumRef(feiPar) => "recon" \notin feiShort'
  PROVE  FPool'
<1>1. \A f \in DOMAIN feiPool' :
        /\ feiPool'[f].bufs \in EncodeSets(feiPar) \cup {0}
        /\ feiPool'[f].last \in PreencSets(feiPar) \cup {0} /\ feiPool'[f].outs \subseteq PreencSets(feiPar)
  BY DEF FPool
<1>2. {feiPool'[f].bufs : f \in CodedIn(feiPool')} = {feiPool[f].bufs : f \in CodedIn(feiPool)}
  BY DEF CodedIn
<1>3. FramesOf(feiLast.post)' = FramesOf(feiLast.post)
  BY DEF FramesOf
<1>4. CodedIn(feiPool)' = CodedIn(feiPool)
  BY DEF CodedIn
<1>5. Codes(feiPar) =>
        EncodeSets(feiPar) \subseteq feiVacant.encode \cup {feiPool'[f].bufs : f \in CodedIn(feiPool')}
  BY <1>2 DEF FPool
<1> QED BY <1>1, <1>3, <1>4, <1>5 DEF FPool

LEMMA PickKeeps ==
  ASSUME FInv, FeiPick
  PROVE  FInv'
<1> DEFINE first == GetReorderedTask(feiPar, feiPool, FALSE)
           found == IF first[2] = -1 /\ feiEnd = "eos"
                      THEN GetReorderedTask(feiPar, feiPool, TRUE) ELSE first
           frame == found[2]
<1>1. /\ feiPar \in FeiConfigs /\ feiCount \in Nat
      /\ DOMAIN feiPool \subseteq 0 .. feiCount - 1 /\ feiPool \in [DOMAIN feiPool -> Tasks]
      /\ feiShort \subseteq {"ds", "set", "reference", "recon"}
      /\ feiLast.num \in Nat /\ feiLast.inc \in Nat /\ Buffer(feiPar, feiLast.post)
  BY DEF FInv, FTypes
<1>2. /\ DOMAIN found[1] = DOMAIN feiPool /\ found[1] \in [DOMAIN feiPool -> Tasks]
      /\ \A f \in DOMAIN feiPool :
           found[1][f] = feiPool[f] \/ found[1][f] = [feiPool[f] EXCEPT !.kind = "P"]
      /\ Unencoded(found[1]) = Unencoded(feiPool) /\ CodedIn(found[1]) = CodedIn(feiPool)
      /\ frame \in Unencoded(feiPool) \cup {-1}
  <2>1. /\ Picked(feiPool, GetReorderedTask(feiPar, feiPool, FALSE))
        /\ Picked(feiPool, GetReorderedTask(feiPar, feiPool, TRUE))
    BY <1>1, PickedIs
  <2>2. Picked(feiPool, found)
    BY <2>1
  <2> HIDE DEF found
  <2> QED BY <2>2 DEF Picked
<1>3. /\ feiPc = "pick"
      /\ IF frame = -1
           THEN /\ feiEnd = "eos" => feiEos' = TRUE /\ feiRun' = FALSE /\ feiPc' = "exit"
                /\ feiEnd # "eos" => feiPc' = "get" /\ UNCHANGED <<feiEos, feiRun>>
                /\ UNCHANGED <<feiTasks, feiShort>>
           ELSE /\ feiPool' = found[1]
                /\ feiTask' = Fill(feiPar, found[1][frame], frame, feiLast)
                /\ IF feiPar.pipeline = "enc+pak"
                      /\ Cardinality({f \in DOMAIN feiPool : feiPool[f].coded}) = feiPar.recon
                     THEN feiPc' = "dead" /\ feiShort' = feiShort \cup {"recon"}
                     ELSE feiPc' = "preenc" /\ UNCHANGED feiShort
                /\ UNCHANGED <<feiEos, feiRun, feiLast>>
      /\ UNCHANGED <<feiPar, feiInput, feiSets, feiOut, feiBack, feiFault>>
  BY DEF FeiPick
<1> HIDE DEF found, first
<1>4. CASE frame = -1
  <2>1. feiPc' \in {"get", "exit"} /\ feiRun' \in BOOLEAN /\ feiEos' \in BOOLEAN
    BY <1>3, <1>4 DEF FInv, FTypes
  <2>2. /\ UNCHANGED <<feiPar, feiCount, feiIdr, feiPool, feiLast, feiTask, feiVacant, feiFilled>>
        /\ feiShort' = feiShort /\ feiEnd' = feiEnd /\ feiBuf' = feiBuf
    BY <1>3, <1>4 DEF feiTasks, feiInput, feiSets
  <2>3. feiEnd' \in {"no", "eos", "reset"}
    BY <2>2 DEF FInv, FTypes
  <2>4. ~Working'
    BY <2>1 DEF Working
  <2> QED BY <2>1, <2>2, <2>3, <2>4, QuietKeeps
<1>5. CASE frame # -1
  <2>1. /\ feiPool' = found[1] /\ feiTask' = Fill(feiPar, found[1][frame], frame, feiLast)
        /\ feiPc' \in {"dead", "preenc"} /\ feiShort' \subseteq feiShort \cup {"recon"}
        /\ feiPar' = feiPar /\ feiEos' = feiEos /\ feiRun' = feiRun /\ feiLast' = feiLast
        /\ feiVacant' = feiVacant /\ feiFilled' = feiFilled
        /\ feiCount' = feiCount /\ feiIdr' = feiIdr /\ feiEnd' = feiEnd /\ feiBuf' = feiBuf
        /\ "recon" \in feiShort' \ feiShort => Cardinality(CodedIn(feiPool)) = feiPar.recon
    BY <1>3, <1>5 DEF feiInput, feiSets, CodedIn
  <2>2. frame \in Unencoded(feiPool) /\ frame \in DOMAIN feiPool /\ frame \in Nat
        /\ found[1][frame] \in Tasks
    BY <1>1, <1>2, <1>5 DEF Unencoded
  <2>3. /\ feiTask'.frame = frame /\ feiTask'.dpb = feiLast.post
        /\ feiTask'.num \in Nat /\ feiTask'.inc \in Nat /\ Buffer(feiPar, feiTask'.post)
        /\ FramesOf(feiTask'.post) \subseteq FramesOf(feiLast.post) \cup {frame}
    BY <1>1, <2>1, <2>2, FilledIs
  <2>5. \A f \in DOMAIN feiPool : /\ feiPool'[f].bufs = feiPool[f].bufs
                                  /\ feiPool'[f].last = feiPool[f].last
                                  /\ feiPool'[f].outs = feiPool[f].outs
                                  /\ feiPool'[f].surface = feiPool[f].surface
    <3>1. \A f \in DOMAIN feiPool : feiPool[f] \in Tasks
      BY <1>1
    <3> QED BY <1>2, <2>1, <3>1 DEF Tasks
  <2>4. FTypes'
    <3>1. \A f \in DOMAIN feiPool' : feiPool'[f].surface \in -1 .. feiCount' - 1
      BY <1>2, <2>1, <2>5 DEF FInv, FTypes
    <3> QED BY <1>2, <2>1, <3>1 DEF FInv, FTypes, Buffer
  <2>6. feiPar.recon > NumRef(feiPar) => "recon" \notin feiShort'
    <3>1. /\ Cardinality(CodedIn(feiPool)) <= NumRef(feiPar)
          /\ feiPar.recon > NumRef(feiPar) => "recon" \notin feiShort
      BY DEF FInv, FPool
    <3>2. feiPar.recon \in Nat /\ NumRef(feiPar) \in Nat
      BY <1>1, FeiNumbersAre DEF FeiParameters
    <3> QED BY <2>1, <3>1, <3>2
  <2>7. \A f \in DOMAIN feiPool : /\ feiPool[f].last \in PreencSets(feiPar) \cup {0}
                                  /\ feiPool[f].outs \subseteq PreencSets(feiPar)
    BY DEF FInv, FPool
  <2>8. FPool'
    BY <1>2, <2>1, <2>5, <2>6, <2>7, PoolKeeps DEF FInv
  <2>9. FTask'
    <3>1. FramesOf(feiTask.post)' = FramesOf(feiTask'.post)
          /\ FramesOf(feiLast.post)' = FramesOf(feiLast.post)
      BY <2>1 DEF FramesOf
    <3>2. Buffer(feiPar, feiTask.post)'
      BY <2>1, <2>3 DEF Buffer
    <3>3. feiTask'.frame \in Unencoded(feiPool)'
      BY <1>2, <2>1, <2>2, <2>3 DEF Unencoded
    <3> QED BY <2>1, <2>3, <3>1, <3>2, <3>3 DEF FTask
  <2>10. FeiPredictorsMatch'
    BY <2>1 DEF FeiPredictorsMatch
  <2> QED BY <2>4, <2>8, <2>9, <2>10 DEF FInv
<1> QED BY <1>4, <1>5

\* A picture with a surface needs a set at least, and no more than a field
\* has references.
LEMMA CallsAre ==
  ASSUME NEW par \in FeiConfigs, NEW pic, Preenc(par)
  PROVE  /\ Calls(par, pic) \in Nat /\ Calls(par, pic) >= 1
         /\ Calls(par, pic) <= Fields(par) * NumRef(par)
<1> DEFINE second == FieldKind(pic, Fields(par) = 2)
           l0 == IF second = "P" THEN IF pic.kind = "IDR" THEN 1 ELSE par.activeP
                 ELSE IF Intra(pic.kind) THEN 1 ELSE par.activeBL0
           l1 == IF pic.kind = "B" THEN ActiveL1(par) ELSE 1
           most == Fields(par) * NumRef(par)
<1>1. par.activeP \in Nat /\ par.activeBL0 \in Nat /\ Fields(par) \in 1 .. 2 /\ NumRef(par) \in 2 .. 4
  BY FeiNumbersAre DEF FeiParameters
<1>2. l0 \in Nat /\ l1 \in 1 .. 2
  BY <1>1 DEF Preenc, ActiveL1
<1>3. most \in 2 .. 8
  <2>1. Fields(par) = 1 \/ Fields(par) = 2
    BY <1>1
  <2>2. 1 * NumRef(par) = NumRef(par) /\ 2 * NumRef(par) = NumRef(par) + NumRef(par)
    BY <1>1
  <2> QED BY <1>1, <2>1, <2>2
<1>4. Calls(par, pic) = Most(Least(l0, most), Least(l1, most))
  BY DEF Calls
<1> HIDE DEF l0, l1, most
<1>5. Calls(par, pic) \in Nat /\ Calls(par, pic) >= 1 /\ Calls(par, pic) <= most
  BY <1>2, <1>3, <1>4 DEF Most, Least
<1> QED BY <1>5 DEF most

LEMMA PreencKeeps ==
  ASSUME FInv, FeiPreenc
  PROVE  FInv'
<1> DEFINE calls == Calls(feiPar, feiTask)
           taken == Lowest(feiVacant.preenc, calls)
           repack == Codes(feiPar) /\ (Fields(feiPar) = 2 \/ ~Intra(feiTask.kind))
           frame == feiTask.frame
<1>1. /\ feiPar \in FeiConfigs /\ feiCount \in Nat /\ feiPc = "preenc"
      /\ DOMAIN feiPool \subseteq 0 .. feiCount - 1 /\ feiPool \in [DOMAIN feiPool -> Tasks]
      /\ feiShort \subseteq {"ds", "set", "reference", "recon"}
      /\ frame \in Unencoded(feiPool) /\ frame \in DOMAIN feiPool
      /\ feiVacant = [preenc |-> feiVacant.preenc, encode |-> feiVacant.encode]
      /\ feiVacant.preenc \subseteq PreencSets(feiPar) /\ feiVacant.encode \subseteq EncodeSets(feiPar)
      /\ DOMAIN feiFilled = EncodeSets(feiPar)
  BY DEF FInv, FTypes, FTask, Working, Unencoded, FeiPreenc
<1>2. UNCHANGED <<feiPar, feiRun, feiEos, feiCount, feiIdr, feiEnd, feiBuf, feiLast, feiTask>>
  BY DEF FeiPreenc, feiInput
<1>3. CASE ~Preenc(feiPar) \/ frame \notin WithSurface(feiPool)
  <2>1. feiPc' = "code" /\ feiPool' = feiPool /\ feiVacant' = feiVacant /\ feiFilled' = feiFilled
        /\ feiShort' = feiShort
    BY <1>3 DEF FeiPreenc, feiSets
  <2>2. FTypes'
    BY <1>2, <2>1 DEF FInv, FTypes, Buffer
  <2>3. FPool'
    BY <1>2, <2>1 DEF FInv, FPool, FramesOf, CodedIn
  <2>4. FTask'
    BY <1>1, <1>2, <2>1 DEF FInv, FTask, Working, FramesOf, Buffer, Unencoded
  <2>5. FeiPredictorsMatch'
    BY <1>2, <1>3, <2>1 DEF FeiPredictorsMatch, Preenc, WithSurface
  <2> QED BY <2>2, <2>3, <2>4, <2>5 DEF FInv
<1>4. CASE ~ (~Preenc(feiPar) \/ frame \notin WithSurface(feiPool))
  <2>1. CASE \/ Cardinality(taken) < calls \/ (repack /\ feiVacant.encode = {})
             \/ ~ (References(feiTask) \subseteq DOMAIN feiPool)
    <3>1. /\ feiPc' = "exit" /\ feiShort' \subseteq feiShort \cup {"set", "reference"}
          /\ feiPool' = feiPool /\ feiVacant' = feiVacant /\ feiFilled' = feiFilled
      BY <1>4, <2>1 DEF FeiPreenc, feiSets, Lacks
    <3>2. ~Working' /\ feiRun' \in BOOLEAN /\ feiEos' \in BOOLEAN /\ feiEnd' \in {"no", "eos", "reset"}
      BY <1>2, <3>1 DEF Working, FInv, FTypes
    <3> QED BY <1>2, <3>1, <3>2, QuietKeeps
  <2>2. CASE ~ (\/ Cardinality(taken) < calls \/ (repack /\ feiVacant.encode = {})
                \/ ~ (References(feiTask) \subseteq DOMAIN feiPool))
    <3>1. /\ feiPc' = "code" /\ feiShort' = feiShort
          /\ feiPool' = [feiPool EXCEPT ![frame].outs = IF repack THEN {} ELSE taken,
                                        ![frame].last = Max(taken)]
          /\ feiVacant' = [feiVacant EXCEPT !.preenc = IF repack THEN @ ELSE @ \ taken]
          /\ feiFilled' = IF repack THEN [feiFilled EXCEPT ![Min(feiVacant.encode)] = frame]
                                    ELSE feiFilled
      BY <1>4, <2>2 DEF FeiPreenc
    <3>2. taken \subseteq feiVacant.preenc /\ taken \subseteq PreencSets(feiPar)
      BY <1>1 DEF Lowest
    <3>3. taken # {}
      <4>1. calls \in Nat /\ calls >= 1
        BY <1>1, <1>4, CallsAre
      <4>2. Cardinality({}) = 0
        BY FS_EmptySet
      <4> HIDE DEF taken, calls
      <4> QED BY <2>2, <4>1, <4>2
    <3>4. Max(taken) \in taken
      <4>1. PICK n \in Nat : PreencSets(feiPar) = 1 .. n
        <5>1. MaxQueue(feiPar) \in Nat /\ NumRef(feiPar) \in 2 .. 4
          BY <1>1, FeiNumbersAre
        <5>2. MaxQueue(feiPar) * NumRef(feiPar) \in Nat
          BY <5>1
        <5> DEFINE n == Most(MaxQueue(feiPar) + 4, MaxQueue(feiPar) * NumRef(feiPar))
        <5>3. n \in Nat
          BY <5>1, <5>2 DEF Most
        <5> QED BY <5>3 DEF PreencSets
      <4>2. taken \in SUBSET (0 .. n)
        BY <3>2, <4>1
      <4> HIDE DEF taken
      <4> QED BY <3>3, <4>2, MaxIn
    <3> DEFINE outs == IF repack THEN {} ELSE taken
               last == Max(taken)
    <3>5. /\ outs \subseteq PreencSets(feiPar) /\ last \in PreencSets(feiPar)
          /\ outs \in SUBSET Nat /\ last \in Nat
      <4>1. PreencSets(feiPar) \subseteq Nat
        BY DEF PreencSets
      <4> HIDE DEF taken
      <4> QED BY <3>2, <3>4, <4>1
    <3> HIDE DEF taken, outs, last
    <3>6. /\ DOMAIN feiPool' = DOMAIN feiPool
          /\ \A f \in DOMAIN feiPool : f # frame => feiPool'[f] = feiPool[f]
          /\ feiPool'[frame] = [feiPool[frame] EXCEPT !.outs = outs, !.last = last]
      BY <1>1, <3>1 DEF outs, last
    <3>7. feiPool[frame] \in Tasks /\ \A f \in DOMAIN feiPool : feiPool[f] \in Tasks
      BY <1>1
    <3>8. /\ feiPool'[frame] \in Tasks /\ feiPool'[frame].bufs = feiPool[frame].bufs
          /\ feiPool'[frame].coded = feiPool[frame].coded
          /\ feiPool'[frame].surface = feiPool[frame].surface
          /\ feiPool'[frame].last = last /\ feiPool'[frame].outs = outs
      BY <3>5, <3>6, <3>7 DEF Tasks
    <3>9. feiPool' \in [DOMAIN feiPool' -> Tasks]
      <4>1. feiPool' = [f \in DOMAIN feiPool' |-> feiPool'[f]]
        BY <1>1, <3>1
      <4>2. \A f \in DOMAIN feiPool' : feiPool'[f] \in Tasks
        BY <1>1, <3>6, <3>8
      <4> QED BY <4>1, <4>2
    <3>10. CodedIn(feiPool') = CodedIn(feiPool) /\ Unencoded(feiPool') = Unencoded(feiPool)
      BY <3>6, <3>8 DEF CodedIn, Unencoded
    <3>11. /\ feiVacant' = [preenc |-> feiVacant'.preenc, encode |-> feiVacant'.encode]
           /\ feiVacant'.encode = feiVacant.encode /\ feiVacant'.preenc \subseteq PreencSets(feiPar)
      BY <1>1, <3>1
    <3>12. DOMAIN feiFilled' = EncodeSets(feiPar)
      BY <1>1, <3>1
    <3>13. FTypes'
      <4>1. \A f \in DOMAIN feiPool' : feiPool'[f].surface \in -1 .. feiCount' - 1
        BY <1>1, <1>2, <3>6, <3>8 DEF FInv, FTypes
      <4> QED BY <1>1, <1>2, <3>1, <3>6, <3>9, <3>11, <3>12, <4>1 DEF FInv, FTypes, Buffer
    <3>14. FPool'
      <4>1. \A f \in DOMAIN feiPool :
              /\ feiPool'[f].bufs = feiPool[f].bufs
              /\ feiPool'[f].last \in PreencSets(feiPar) \cup {0}
              /\ feiPool'[f].outs \subseteq PreencSets(feiPar)
        BY <3>5, <3>6, <3>8 DEF FInv, FPool
      <4>2. feiPar.recon > NumRef(feiPar) => "recon" \notin feiShort'
        BY <3>1 DEF FInv, FPool
      <4> QED BY <1>2, <3>6, <3>10, <3>11, <4>1, <4>2, PoolKeeps DEF FInv
    <3>15. FTask'
      BY <1>1, <1>2, <3>10 DEF FInv, FTask, Working, FramesOf, Buffer, Unencoded
    <3>16. FeiPredictorsMatch'
      <4>1. SUFFICES ASSUME feiPar.pipeline = "preenc+encode", feiVacant.encode # {},
                            Fields(feiPar) = 2 \/ ~Intra(feiTask.kind)
                     PROVE  feiFilled'[Min(feiVacant.encode)] = frame
        BY <1>2, <3>11 DEF FeiPredictorsMatch
      <4>2. repack
        BY <4>1 DEF Codes
      <4>3. Min(feiVacant.encode) \in EncodeSets(feiPar)
        <5>1. feiVacant.encode \in SUBSET Nat
          BY <1>1 DEF EncodeSets
        <5> QED BY <1>1, <4>1, <5>1, MinIs
      <4> QED BY <1>1, <3>1, <4>2, <4>3
    <3> QED BY <3>13, <3>14, <3>15, <3>16 DEF FInv
  <2> QED BY <2>1, <2>2
<1> QED BY <1>3, <1>4

\* What UpdatePool leaves: the task that goes is coded and no reference, and
\* the coded ones that stay are not too many.
Shrunk(par, pool, frame, post, r) ==
  LET all == CodedIn(pool) \cup {frame}
  IN  /\ \/ /\ DOMAIN r[1] = DOMAIN pool /\ CodedIn(r[1]) = all
            /\ r[2] = [bufs |-> 0, last |-> 0, outs |-> {}]
         \/ \E g \in all \ FramesOf(post) :
              /\ DOMAIN r[1] = DOMAIN pool \ {g} /\ CodedIn(r[1]) = all \ {g}
              /\ r[2] = [pool[g] EXCEPT !.coded = TRUE]
              /\ Cardinality(DOMAIN pool) >= NumRef(par) + 1
      /\ ~ (Cardinality(DOMAIN pool) >= NumRef(par) + 1) \/ all \subseteq FramesOf(post)
           \/ DOMAIN r[1] # DOMAIN pool
      /\ r[1] \in [DOMAIN r[1] -> Tasks]
      /\ \A f \in DOMAIN r[1] : r[1][f] = IF f = frame THEN [pool[f] EXCEPT !.coded = TRUE] ELSE pool[f]

LEMMA ShrunkIs ==
  ASSUME NEW par, NEW n \in Nat, NEW pool, DOMAIN pool \subseteq 0 .. n - 1,
         pool \in [DOMAIN pool -> Tasks], NEW frame \in Unencoded(pool), NEW post
  PROVE  Shrunk(par, pool, frame, post, UpdatePool(par, pool, frame, post))
<1> DEFINE coded == [pool EXCEPT ![frame].coded = TRUE]
           gone == Removable(coded, post)
           g == Min(gone)
           r == UpdatePool(par, pool, frame, post)
           all == CodedIn(pool) \cup {frame}
<1>1. /\ DOMAIN coded = DOMAIN pool /\ frame \in DOMAIN pool
      /\ \A f \in DOMAIN pool : coded[f] = IF f = frame THEN [pool[f] EXCEPT !.coded = TRUE] ELSE pool[f]
  BY DEF Unencoded
<1>2. r = IF Cardinality(DOMAIN pool) >= NumRef(par) + 1 /\ gone # {}
            THEN <<[f \in DOMAIN pool \ {g} |-> coded[f]], coded[g]>>
            ELSE <<coded, [bufs |-> 0, last |-> 0, outs |-> {}]>>
  BY DEF UpdatePool
<1>3. \A f \in DOMAIN pool : /\ pool[f] \in Tasks
                             /\ [pool[f] EXCEPT !.coded = TRUE] \in Tasks
                             /\ [pool[f] EXCEPT !.coded = TRUE].coded
  BY DEF Tasks
<1>4. coded \in [DOMAIN pool -> Tasks]
  <2>1. coded = [f \in DOMAIN pool |-> coded[f]]
    BY <1>1
  <2>2. \A f \in DOMAIN pool : coded[f] \in Tasks
    BY <1>1, <1>3
  <2> HIDE DEF coded
  <2> QED BY <2>1, <2>2
<1> HIDE DEF coded
<1>5. CodedIn(coded) = all /\ all \subseteq DOMAIN pool
  BY <1>1, <1>3 DEF CodedIn
<1>6. gone = all \ FramesOf(post)
  BY <1>5 DEF Removable, CodedIn
<1>7. gone # {} => g \in gone
  <2>1. gone \in SUBSET Nat
    BY <1>5, <1>6
  <2> HIDE DEF gone
  <2> QED BY <2>1, MinIs
<1>8. \A f \in CodedIn(pool) : [pool[f] EXCEPT !.coded = TRUE] = pool[f]
  <2>1. \A f \in CodedIn(pool) : pool[f] \in Tasks /\ pool[f].coded = TRUE
    BY <1>3 DEF CodedIn, Tasks
  <2> QED BY <2>1 DEF Tasks
<1> SUFFICES Shrunk(par, pool, frame, post, r)
  OBVIOUS
<1> HIDE DEF r, gone, g, all
<1>9. CASE Cardinality(DOMAIN pool) >= NumRef(par) + 1 /\ gone # {}
  <2> DEFINE left == [f \in DOMAIN pool \ {g} |-> coded[f]]
  <2>1. r = <<left, coded[g]>> /\ g \in all \ FramesOf(post) /\ g \in DOMAIN pool
    BY <1>2, <1>5, <1>6, <1>7, <1>9
  <2>2. DOMAIN left = DOMAIN pool \ {g} /\ \A f \in DOMAIN left : left[f] = coded[f]
    OBVIOUS
  <2>3. left \in [DOMAIN left -> Tasks]
    BY <1>4
  <2>4. CodedIn(left) = all \ {g}
    BY <1>1, <1>5, <2>1, <2>2 DEF CodedIn
  <2>5. coded[g] = [pool[g] EXCEPT !.coded = TRUE]
    BY <1>1, <1>8, <2>1 DEF all
  <2>6. DOMAIN left # DOMAIN pool
    BY <2>1, <2>2
  <2>7. r[1] = left /\ r[2] = coded[g]
    BY <2>1
  <2> HIDE DEF left
  <2> QED BY <1>1, <1>9, <2>1, <2>2, <2>3, <2>4, <2>5, <2>6, <2>7 DEF Shrunk, all
<1>10. CASE ~ (Cardinality(DOMAIN pool) >= NumRef(par) + 1 /\ gone # {})
  <2>1. r[1] = coded /\ r[2] = [bufs |-> 0, last |-> 0, outs |-> {}]
    BY <1>2, <1>10
  <2>2. ~ (Cardinality(DOMAIN pool) >= NumRef(par) + 1) \/ all \subseteq FramesOf(post)
    BY <1>6, <1>10
  <2> QED BY <1>1, <1>4, <1>5, <2>1, <2>2 DEF Shrunk, all
<1> QED BY <1>9, <1>10

LEMMA FewCoded ==
  ASSUME NEW par \in FeiConfigs, NEW n \in Nat, NEW pool, DOMAIN pool \subseteq 0 .. n - 1,
         NEW frame \in Unencoded(pool), NEW post, Buffer(par, post),
         Cardinality(CodedIn(pool)) <= NumRef(par), NEW r, Shrunk(par, pool, frame, post, r)
  PROVE  Cardinality(CodedIn(r[1])) <= NumRef(par)
<1> DEFINE all == CodedIn(pool) \cup {frame}
<1>1. NumRef(par) \in 2 .. 4
  BY FeiNumbersAre
<1>2. IsFiniteSet(DOMAIN pool) /\ Cardinality(DOMAIN pool) \in Nat
  <2>1. IsFiniteSet(0 .. n - 1)
    BY FS_Interval
  <2> QED BY <2>1, FS_Subset, FS_CardinalityType
<1>3. CodedIn(pool) \subseteq DOMAIN pool /\ frame \in DOMAIN pool /\ frame \notin CodedIn(pool)
  BY DEF CodedIn, Unencoded
<1>4. IsFiniteSet(CodedIn(pool)) /\ Cardinality(CodedIn(pool)) \in Nat
  BY <1>2, <1>3, FS_Subset, FS_CardinalityType
<1>5. IsFiniteSet(all) /\ Cardinality(all) = Cardinality(CodedIn(pool)) + 1
  BY <1>3, <1>4, FS_AddElement
<1>6. CASE CodedIn(r[1]) = all /\ DOMAIN r[1] = DOMAIN pool
  <2>1. ~ (Cardinality(DOMAIN pool) >= NumRef(par) + 1) \/ all \subseteq FramesOf(post)
    BY <1>6 DEF Shrunk
  <2>2. CASE ~ (Cardinality(DOMAIN pool) >= NumRef(par) + 1)
    <3>1. all \subseteq DOMAIN pool
      BY <1>3
    <3> HIDE DEF all
    <3>2. Cardinality(all) <= Cardinality(DOMAIN pool)
      BY <1>2, <3>1, FS_Subset
    <3> QED BY <1>1, <1>2, <1>4, <1>5, <1>6, <2>2, <3>2
  <2>3. CASE all \subseteq FramesOf(post)
    <3>1. post \in Seq(Entries) /\ Len(post) <= NumRef(par)
      BY DEF Buffer
    <3>2. /\ IsFiniteSet(FramesOf(post)) /\ Cardinality(FramesOf(post)) <= Len(post)
          /\ Cardinality(FramesOf(post)) \in Nat /\ Len(post) \in Nat
      BY <3>1, BufferIsSmall, FS_CardinalityType, SeqIs
    <3> HIDE DEF all
    <3>3. Cardinality(all) <= Cardinality(FramesOf(post))
      BY <2>3, <3>2, FS_Subset
    <3> QED BY <1>1, <1>4, <1>5, <1>6, <3>1, <3>2, <3>3
  <2> QED BY <2>1, <2>2, <2>3
<1>7. CASE \E g \in all : CodedIn(r[1]) = all \ {g}
  <2>1. PICK g \in all : CodedIn(r[1]) = all \ {g}
    BY <1>7
  <2> HIDE DEF all
  <2>2. Cardinality(all \ {g}) = Cardinality(all) - 1
    BY <1>5, <2>1, FS_RemoveElement
  <2> QED BY <1>1, <1>4, <1>5, <2>1, <2>2
<1> QED BY <1>6, <1>7 DEF Shrunk

\* The task in process is coded, and another goes perhaps.
LEMMA FCodeKeeps ==
  ASSUME FInv, FeiCode
  PROVE  FInv'
<1> DEFINE frame == feiTask.frame
           bufs == IF Codes(feiPar) THEN Min(feiVacant.encode) ELSE 0
           given == [feiPool EXCEPT ![frame].bufs = bufs]
           r == UpdatePool(feiPar, given, frame, feiTask.post)
           old == r[2]
<1>1. /\ feiPar \in FeiConfigs /\ feiCount \in Nat /\ feiPc = "code"
      /\ DOMAIN feiPool \subseteq 0 .. feiCount - 1 /\ feiPool \in [DOMAIN feiPool -> Tasks]
      /\ frame \in Unencoded(feiPool) /\ frame \in DOMAIN feiPool /\ feiPool[frame].surface # -1
      /\ feiTask.num \in Nat /\ feiTask.inc \in Nat /\ Buffer(feiPar, feiTask.post)
      /\ FramesOf(feiTask.post) \subseteq FramesOf(feiLast.post) \cup {frame}
      /\ feiVacant.preenc \subseteq PreencSets(feiPar) /\ feiVacant.encode \subseteq EncodeSets(feiPar)
      /\ Codes(feiPar) => feiVacant.encode # {}
  BY DEF FInv, FTypes, FTask, Working, Unencoded, WithSurface, FeiCode
<1>2. PICK out : Encoded(out)
  BY DEF FeiCode
<1>3. /\ UNCHANGED <<feiPar, feiRun, feiEos, feiCount, feiIdr, feiEnd, feiFilled, feiShort>>
      /\ feiBuf' = IF feiEnd = "reset" THEN feiPool[frame].surface ELSE feiBuf
      /\ feiPool' = r[1]
      /\ feiLast' = [idr |-> feiTask.idr, orderI |-> feiTask.orderI, num |-> feiTask.num,
                     inc |-> feiTask.inc, post |-> feiTask.post]
      /\ feiVacant' = [preenc |-> feiVacant.preenc \cup ((old.outs \cup {old.last}) \ {0}),
                       encode |-> (feiVacant.encode \ {bufs}) \cup ({old.bufs} \ {0})]
      /\ feiPc' = "get"
  BY <1>2 DEF FeiCode, Encoded, feiInput
<1>4. /\ Codes(feiPar) => bufs \in EncodeSets(feiPar)
      /\ bufs \in EncodeSets(feiPar) \cup {0} /\ bufs \in Nat
  <2>1. EncodeSets(feiPar) \subseteq Nat
    BY DEF EncodeSets
  <2>2. Codes(feiPar) => Min(feiVacant.encode) \in feiVacant.encode
    BY <1>1, <2>1, MinIs
  <2> QED BY <1>1, <2>1, <2>2
<1> HIDE DEF bufs
<1>5. /\ DOMAIN given = DOMAIN feiPool /\ given \in [DOMAIN given -> Tasks]
      /\ \A f \in DOMAIN feiPool : f # frame => given[f] = feiPool[f]
      /\ given[frame].bufs = bufs /\ given[frame].last = feiPool[frame].last
      /\ given[frame].outs = feiPool[frame].outs /\ given[frame].coded = feiPool[frame].coded
      /\ given[frame].surface = feiPool[frame].surface
  <2>1. feiPool[frame] \in Tasks /\ given[frame] = [feiPool[frame] EXCEPT !.bufs = bufs]
    BY <1>1
  <2>2. given[frame] \in Tasks /\ given[frame].bufs = bufs /\ given[frame].last = feiPool[frame].last
        /\ given[frame].outs = feiPool[frame].outs /\ given[frame].coded = feiPool[frame].coded
        /\ given[frame].surface = feiPool[frame].surface
    <3> HIDE DEF given
    <3> QED BY <1>4, <2>1 DEF Tasks
  <2>3. given = [f \in DOMAIN feiPool |-> given[f]] /\ \A f \in DOMAIN feiPool : f # frame => given[f] = feiPool[f]
    OBVIOUS
  <2>4. \A f \in DOMAIN feiPool : given[f] \in Tasks
    BY <1>1, <2>2, <2>3
  <2> HIDE DEF given
  <2> QED BY <2>2, <2>3, <2>4
<1> HIDE DEF given
<1>6. CodedIn(given) = CodedIn(feiPool) /\ Unencoded(given) = Unencoded(feiPool)
  BY <1>1, <1>5 DEF CodedIn, Unencoded
<1> DEFINE all == CodedIn(feiPool) \cup {frame}
<1>7. Shrunk(feiPar, given, frame, feiTask.post, r)
  BY <1>1, <1>5, <1>6, ShrunkIs
<1> HIDE DEF r
<1>8. Cardinality(CodedIn(feiPool')) <= NumRef(feiPar)
  <2>1. Cardinality(CodedIn(given)) <= NumRef(feiPar)
    BY <1>6 DEF FInv, FPool
  <2>2. DOMAIN given \subseteq 0 .. feiCount - 1 /\ frame \in Unencoded(given)
    BY <1>1, <1>5, <1>6
  <2>3. Cardinality(CodedIn(r[1])) <= NumRef(feiPar)
    BY <1>1, <1>7, <2>1, <2>2, FewCoded
  <2> QED BY <1>3, <2>3
<1>9. /\ DOMAIN feiPool' \subseteq DOMAIN feiPool /\ feiPool' \in [DOMAIN feiPool' -> Tasks]
      /\ \A f \in DOMAIN feiPool' :
           feiPool'[f] = IF f = frame THEN [given[f] EXCEPT !.coded = TRUE] ELSE given[f]
  BY <1>3, <1>5, <1>7 DEF Shrunk
<1>10. \/ CodedIn(feiPool') = all /\ old = [bufs |-> 0, last |-> 0, outs |-> {}]
       \/ \E g \in all \ FramesOf(feiTask.post) :
            CodedIn(feiPool') = all \ {g} /\ old = [given[g] EXCEPT !.coded = TRUE]
  BY <1>3, <1>5, <1>6, <1>7 DEF Shrunk
<1>11. \A f \in DOMAIN feiPool : /\ given[f].bufs \in EncodeSets(feiPar) \cup {0}
                                 /\ given[f].last \in PreencSets(feiPar) \cup {0}
                                 /\ given[f].outs \subseteq PreencSets(feiPar)
  BY <1>1, <1>4, <1>5 DEF FInv, FPool
<1>12. \A f \in DOMAIN feiPool : /\ [given[f] EXCEPT !.coded = TRUE].bufs = given[f].bufs
                                 /\ [given[f] EXCEPT !.coded = TRUE].last = given[f].last
                                 /\ [given[f] EXCEPT !.coded = TRUE].outs = given[f].outs
                                 /\ [given[f] EXCEPT !.coded = TRUE].surface = given[f].surface
  <2>1. \A f \in DOMAIN feiPool : given[f] \in Tasks
    BY <1>5
  <2> QED BY <2>1 DEF Tasks
<1>13. /\ old.bufs \in EncodeSets(feiPar) \cup {0} /\ old.last \in PreencSets(feiPar) \cup {0}
       /\ old.outs \subseteq PreencSets(feiPar)
  <2>1. all \subseteq DOMAIN feiPool
    BY <1>1 DEF CodedIn
  <2> HIDE DEF all, old
  <2>2. CASE old = [bufs |-> 0, last |-> 0, outs |-> {}]
    BY <2>2
  <2>3. CASE \E g \in all : old = [given[g] EXCEPT !.coded = TRUE]
    <3>1. PICK g \in all : old = [given[g] EXCEPT !.coded = TRUE]
      BY <2>3
    <3>2. g \in DOMAIN feiPool
      BY <2>1
    <3>3. old.bufs = given[g].bufs /\ old.last = given[g].last /\ old.outs = given[g].outs
      BY <1>12, <3>1, <3>2
    <3> QED BY <1>11, <3>2, <3>3
  <2> QED BY <1>10, <2>2, <2>3
<1>14. \A f \in DOMAIN feiPool' :
         /\ feiPool'[f].bufs = given[f].bufs /\ feiPool'[f].last = given[f].last
         /\ feiPool'[f].outs = given[f].outs /\ feiPool'[f].surface = given[f].surface
  BY <1>9, <1>12
<1>15. FTypes'
  <2>1. /\ feiVacant'.preenc \subseteq PreencSets(feiPar) /\ feiVacant'.encode \subseteq EncodeSets(feiPar)
        /\ feiVacant' = [preenc |-> feiVacant'.preenc, encode |-> feiVacant'.encode]
    <3> HIDE DEF old
    <3> QED BY <1>1, <1>3, <1>13
  <2>2. feiLast'.num \in Nat /\ feiLast'.inc \in Nat /\ feiLast'.post = feiTask.post
    BY <1>1, <1>3
  <2>3. Buffer(feiPar, feiLast.post)'
    BY <1>1, <1>3, <2>2 DEF Buffer
  <2>4. DOMAIN feiPool' \subseteq 0 .. feiCount' - 1
    BY <1>1, <1>3, <1>9
  <2>5. \A f \in DOMAIN feiPool' : feiPool'[f].surface \in -1 .. feiCount' - 1
    <3>1. \A f \in DOMAIN feiPool : given[f].surface = feiPool[f].surface
      BY <1>5
    <3> QED BY <1>3, <1>9, <1>14, <3>1 DEF FInv, FTypes
  <2>6. feiBuf' \in -1 .. feiCount' - 1 /\ (feiBuf' # -1 => feiEnd' = "reset")
    BY <1>1, <1>3 DEF FInv, FTypes
  <2> QED BY <1>3, <1>9, <2>1, <2>2, <2>3, <2>4, <2>5, <2>6 DEF FInv, FTypes
<1>16. FPool'
  <2>1. FramesOf(feiLast'.post) \subseteq CodedIn(feiPool')
    <3>1. FramesOf(feiLast'.post) = FramesOf(feiTask.post)
      BY <1>3
    <3>2. FramesOf(feiTask.post) \subseteq all
      BY <1>1 DEF FInv, FPool
    <3> HIDE DEF all
    <3> QED BY <1>10, <3>1, <3>2
  <2>2. \A f \in DOMAIN feiPool' :
          /\ feiPool'[f].bufs \in EncodeSets(feiPar) \cup {0}
          /\ feiPool'[f].last \in PreencSets(feiPar) \cup {0} /\ feiPool'[f].outs \subseteq PreencSets(feiPar)
    BY <1>9, <1>11, <1>14
  <2>3. ASSUME Codes(feiPar), NEW s \in EncodeSets(feiPar), s \notin feiVacant'.encode
        PROVE  \E f \in CodedIn(feiPool') : feiPool'[f].bufs = s
    <3>1. s # 0
      BY DEF EncodeSets
    <3>2. \E f \in all : given[f].bufs = s
      <4>1. CASE s \in feiVacant.encode
        <5>1. s = bufs
          BY <1>3, <2>3, <4>1
        <5> QED BY <1>5, <5>1
      <4>2. CASE s \notin feiVacant.encode
        <5>1. PICK f \in CodedIn(feiPool) : feiPool[f].bufs = s
          BY <2>3, <4>2 DEF FInv, FPool
        <5>2. f # frame /\ f \in DOMAIN feiPool
          BY <1>1 DEF CodedIn, Unencoded
        <5> QED BY <1>5, <5>1, <5>2
      <4> QED BY <4>1, <4>2
    <3>3. PICK f \in all : given[f].bufs = s
      BY <3>2
    <3>4. f \in CodedIn(feiPool')
      <4>1. all \subseteq DOMAIN feiPool
        BY <1>1 DEF CodedIn
      <4>2. \A g \in all : old = [given[g] EXCEPT !.coded = TRUE] => old.bufs = given[g].bufs
        BY <1>12, <4>1
      <4>3. old.bufs # s
        BY <1>3, <2>3, <3>1
      <4> HIDE DEF all, old
      <4> QED BY <1>10, <3>3, <4>2, <4>3
    <3>5. f \in DOMAIN feiPool'
      BY <3>4 DEF CodedIn
    <3> QED BY <1>14, <3>3, <3>4, <3>5
  <2>4. Codes(feiPar) => EncodeSets(feiPar) \subseteq
          feiVacant'.encode \cup {feiPool'[f].bufs : f \in CodedIn(feiPool')}
    BY <2>3
  <2>5. CodedIn(feiPool)' = CodedIn(feiPool') /\ FramesOf(feiLast.post)' = FramesOf(feiLast'.post)
    BY DEF CodedIn, FramesOf
  <2>6. feiPar.recon > NumRef(feiPar) => "recon" \notin feiShort'
    BY <1>3 DEF FInv, FPool
  <2> QED BY <1>3, <1>8, <2>1, <2>2, <2>4, <2>5, <2>6 DEF FPool
<1>17. FTask' /\ FeiPredictorsMatch'
  BY <1>3 DEF FTask, FeiPredictorsMatch, Working
<1> QED BY <1>15, <1>16, <1>17 DEF FInv

LEMMA FStep ==
  ASSUME FInv, [FeiNext]_feiVars
  PROVE  FInv'
<1>1. /\ feiRun \in BOOLEAN /\ feiEos \in BOOLEAN /\ feiEnd \in {"no", "eos", "reset"}
      /\ feiPc \in {"get", "pick", "preenc", "code", "exit", "done", "dead", "spin"}
      /\ feiCount \in Nat \cup {-1} /\ feiBuf \in Nat \cup {-1}
      /\ feiCount <= feiCount /\ feiBuf <= feiCount
  BY DEF FInv, FTypes
<1>2. CASE FeiTake
  BY <1>1, <1>2, AddKeeps DEF FeiTake
<1>3. CASE FeiAgain
  <2>1. CASE feiEnd = "reset" /\ AddTask(feiBuf)
    BY <1>1, <1>3, <2>1, AddKeeps DEF FeiAgain
  <2>2. CASE feiEnd = "eos" /\ feiPc' = "pick" /\ UNCHANGED <<feiCount, feiIdr, feiPool, feiShort>>
    <3>1. ~Working'
      BY <2>2 DEF Working
    <3> QED BY <1>1, <1>3, <2>2, <3>1, QuietKeeps DEF FeiAgain, feiSets
  <2>3. \/ feiEnd = "reset" /\ AddTask(feiBuf)
        \/ feiEnd = "eos" /\ feiPc' = "pick" /\ UNCHANGED <<feiCount, feiIdr, feiPool, feiShort>>
    BY <1>3, Zenon DEF FeiAgain
  <2> QED BY <2>1, <2>2, <2>3, Zenon
<1>4. CASE FeiInitFails \/ FeiInputEnds
  <2>1. /\ feiPc' \in {"get", "exit"} /\ feiEnd' \in {"no", "eos", "reset"} /\ feiShort' = feiShort
        /\ UNCHANGED <<feiPar, feiCount, feiIdr, feiPool, feiLast, feiTask, feiVacant, feiFilled,
                       feiRun, feiEos, feiBuf>>
        /\ feiEnd = "reset" => feiEnd' = "reset"
    BY <1>1, <1>4 DEF FeiInitFails, FeiInputEnds, feiInput, feiTasks, feiSets, feiHistory
  <2>2. ~Working'
    BY <2>1 DEF Working
  <2> QED BY <1>1, <2>1, <2>2, QuietKeeps
<1>5. CASE FeiCodeFails
  <2>1. /\ feiPc' \in {"exit", "spin"} /\ feiShort' \subseteq feiShort \cup {"set"}
        /\ UNCHANGED <<feiPar, feiCount, feiIdr, feiPool, feiLast, feiTask, feiVacant, feiFilled,
                       feiRun, feiEos, feiEnd, feiBuf>>
    BY <1>5 DEF FeiCodeFails, feiInput, feiTasks, feiSets, Lacks, Refused
  <2>2. ~Working'
    BY <2>1 DEF Working
  <2> QED BY <1>1, <2>1, <2>2, QuietKeeps
<1>6. CASE FeiLeave \/ FeiExit
  <2>1. /\ feiPc' \in {"exit", "done"} /\ feiShort' = feiShort /\ feiRun' \in BOOLEAN /\ feiEos' \in BOOLEAN
        /\ UNCHANGED <<feiPar, feiCount, feiIdr, feiPool, feiLast, feiTask, feiVacant, feiFilled, feiEnd,
                       feiBuf>>
    BY <1>1, <1>6 DEF FeiLeave, FeiExit, feiInput, feiTasks, feiSets, feiHistory
  <2>2. ~Working'
    BY <2>1 DEF Working
  <2> QED BY <1>1, <2>1, <2>2, QuietKeeps
<1>7. CASE FeiStop \/ UNCHANGED feiVars
  <2>1. /\ feiPc' = feiPc /\ feiShort' = feiShort /\ feiRun' \in BOOLEAN /\ feiEos' = feiEos
        /\ UNCHANGED <<feiPar, feiCount, feiIdr, feiPool, feiLast, feiTask, feiVacant, feiFilled, feiEnd,
                       feiBuf>>
    BY <1>1, <1>7 DEF FeiStop, feiVars, feiThread, feiInput, feiTasks, feiSets, feiHistory
  <2> QED BY <1>1, <2>1, QuietKeeps
<1> QED BY <1>2, <1>3, <1>4, <1>5, <1>6, <1>7, PickKeeps, PreencKeeps, FCodeKeeps
        DEF FeiNext, FeiStep, FeiOver

LEMMA AvcMoves ==
  /\ Init => FeiInit
  /\ [Next]_vars => [FeiNext]_feiVars
<1>1. Init => FeiInit
  BY DEF Init
<1>2. [Next]_vars => [FeiNext]_feiVars
  <2>1. CASE Next
    BY <2>1 DEF Next
  <2>2. CASE UNCHANGED vars
    BY <2>2 DEF vars
  <2> QED BY <2>1, <2>2
<1> QED BY <1>1, <1>2

-----------------------------------------------------------------------------
(* The sets that AllocExtBuffers allocates are enough.                     *)

Rank(S, x) == Cardinality({y \in S : y < x})

\* The members of a set of numbers below each one.
LEMMA RankIs ==
  ASSUME NEW S \in SUBSET Nat, IsFiniteSet(S)
  PROVE  /\ \A x \in S : Rank(S, x) \in 0 .. Cardinality(S) - 1
         /\ \A x, y \in S : Rank(S, x) = Rank(S, y) => x = y
<1>1. ASSUME NEW x \in S, NEW T \in SUBSET S, \A y \in S : y <= x => y \in T
      PROVE  Rank(S, x) + 1 <= Cardinality(T) /\ Rank(S, x) \in Nat
  <2> DEFINE B == {y \in S : y < x}
  <2>1. B \subseteq S /\ x \notin B /\ B \cup {x} \subseteq T
    <3>1. x \in Nat /\ \A y \in S : y \in Nat
      OBVIOUS
    <3>2. \A y \in B : y \in S /\ y < x
      OBVIOUS
    <3> HIDE DEF B
    <3>3. x <= x /\ \A y \in S : y < x => y <= x
      BY <3>1
    <3>4. x \in T /\ \A y \in B : y \in T
      BY <1>1, <3>2, <3>3
    <3> QED BY <3>1, <3>2, <3>4
  <2>2. IsFiniteSet(B) /\ Cardinality(B) \in Nat /\ IsFiniteSet(T)
    BY <2>1, <1>1, FS_Subset, FS_CardinalityType
  <2> HIDE DEF B
  <2>3. Cardinality(B \cup {x}) = Cardinality(B) + 1
    BY <2>1, <2>2, FS_AddElement
  <2>4. Cardinality(B \cup {x}) <= Cardinality(T)
    BY <2>1, <2>2, FS_Subset
  <2>5. Rank(S, x) = Cardinality(B)
    BY DEF Rank, B
  <2> QED BY <2>2, <2>3, <2>4, <2>5
<1>2. Cardinality(S) \in Nat
  BY FS_CardinalityType
<1>3. ASSUME NEW x \in S
      PROVE  Rank(S, x) \in 0 .. Cardinality(S) - 1
  <2>1. Rank(S, x) + 1 <= Cardinality(S) /\ Rank(S, x) \in Nat
    BY <1>1
  <2> QED BY <1>2, <2>1
<1>4. ASSUME NEW x \in S, NEW y \in S, x < y
      PROVE  Rank(S, x) # Rank(S, y)
  <2> DEFINE T == {z \in S : z < y}
  <2>1. T \in SUBSET S /\ \A z \in S : z <= x => z \in T
    BY <1>4
  <2>2. Rank(S, x) + 1 <= Cardinality(T) /\ Rank(S, x) \in Nat
    <3> HIDE DEF T
    <3> QED BY <1>1, <2>1
  <2>3. Rank(S, y) = Cardinality(T)
    BY DEF Rank
  <2>4. Rank(S, y) \in Nat
    BY <1>3, <1>2
  <2> QED BY <2>2, <2>3, <2>4
<1>5. \A x, y \in S : x < y \/ y < x \/ x = y
  OBVIOUS
<1>6. \A x, y \in S : Rank(S, x) = Rank(S, y) => x = y
  BY <1>4, <1>5
<1> QED BY <1>3, <1>6

\* What GetFreeSet hands out is as much as is asked for, if there is as much.
LEMMA LowestIs ==
  ASSUME NEW S \in SUBSET Nat, IsFiniteSet(S), NEW n \in Nat, n <= Cardinality(S)
  PROVE  /\ Lowest(S, n) \subseteq S /\ IsFiniteSet(Lowest(S, n))
         /\ Cardinality(Lowest(S, n)) = n
<1> DEFINE f == [x \in S |-> Rank(S, x)]
           L == Lowest(S, n)
           g == [x \in L |-> Rank(S, x)]
           c == Cardinality(S)
<1>1. L = {x \in S : Rank(S, x) < n}
  BY DEF Lowest, Rank
<1>2. c \in Nat
  BY FS_CardinalityType
<1>3. /\ \A x \in S : Rank(S, x) \in 0 .. c - 1
      /\ \A x, y \in S : Rank(S, x) = Rank(S, y) => x = y
  BY RankIs
<1>4. IsFiniteSet(0 .. c - 1) /\ Cardinality(0 .. c - 1) = c
  <2>1. 0 \in Int /\ c - 1 \in Int
    BY <1>2
  <2>2. IsFiniteSet(0 .. c - 1) /\ Cardinality(0 .. c - 1) = IF 0 > c - 1 THEN 0 ELSE (c - 1) - 0 + 1
    <3> HIDE DEF c
    <3>1. \A d \in Int : IsFiniteSet(0 .. d) /\ Cardinality(0 .. d) = IF 0 > d THEN 0 ELSE d - 0 + 1
      BY FS_Interval
    <3> QED BY <2>1, <3>1
  <2> HIDE DEF c
  <2> QED BY <1>2, <2>2
<1>5. IsFiniteSet(0 .. n - 1) /\ Cardinality(0 .. n - 1) = n
  <2>1. \A d \in Int : IsFiniteSet(0 .. d) /\ Cardinality(0 .. d) = IF 0 > d THEN 0 ELSE d - 0 + 1
    BY FS_Interval
  <2>2. n - 1 \in Int
    OBVIOUS
  <2>3. IsFiniteSet(0 .. n - 1) /\ Cardinality(0 .. n - 1) = IF 0 > n - 1 THEN 0 ELSE (n - 1) - 0 + 1
    BY <2>1, <2>2
  <2> QED BY <2>3
<1>6. f \in Surjection(S, 0 .. c - 1)
  <2>1. f \in Injection(S, 0 .. c - 1)
    <3> HIDE DEF c
    <3> QED BY <1>3 DEF Injection, IsInjective
  <2> HIDE DEF f
  <2>2. c = Cardinality(0 .. c - 1)
    BY <1>4
  <2> QED BY <1>4, <2>1, <2>2, FS_Injection DEF c
<1> HIDE DEF L
<1>7. L \subseteq S /\ IsFiniteSet(L)
  BY <1>1, FS_Subset
<1>8. g \in Injection(L, 0 .. n - 1)
  <2>1. \A x \in L : Rank(S, x) \in 0 .. n - 1
    BY <1>1, <1>2, <1>3
  <2> QED BY <1>3, <1>7, <2>1 DEF Injection, IsInjective
<1>9. g \in Surjection(L, 0 .. n - 1)
  <2>1. \A k \in 0 .. n - 1 : k \in 0 .. c - 1
    BY <1>2
  <2>2. \A k \in 0 .. c - 1 : \E x \in S : Rank(S, x) = k
    BY <1>6 DEF Surjection
  <2>3. \A k \in 0 .. n - 1 : \E x \in L : Rank(S, x) = k
    BY <1>1, <2>1, <2>2
  <2>4. g \in [L -> 0 .. n - 1]
    BY <1>8 DEF Injection
  <2> QED BY <2>3, <2>4 DEF Surjection
<1>10. Cardinality(L) = n
  <2> HIDE DEF g
  <2>1. Cardinality(L) = Cardinality(0 .. n - 1)
    BY <1>5, <1>8, <1>9, FS_Injection
  <2> QED BY <1>5, <2>1
<1> QED BY <1>7, <1>10 DEF L

\* Few sets of few numbers have few members.
LEMMA UnionIsSmall ==
  ASSUME NEW C, IsFiniteSet(C), NEW outs \in [C -> SUBSET Nat], NEW m \in Nat,
         \A f \in C : IsFiniteSet(outs[f]) /\ Cardinality(outs[f]) <= m
  PROVE  LET U == UNION {outs[f] : f \in C}
         IN  IsFiniteSet(U) /\ Cardinality(U) <= Cardinality(C) * m
<1> DEFINE U == UNION {outs[f] : f \in C}
           Owner(x) == CHOOSE f \in C : x \in outs[f]
           h == [x \in U |-> <<Owner(x), Rank(outs[Owner(x)], x)>>]
           M == 0 .. m - 1
<1>1. \A x \in U : Owner(x) \in C /\ x \in outs[Owner(x)]
  OBVIOUS
<1>2. \A f \in C : /\ \A x \in outs[f] : Rank(outs[f], x) \in M
                   /\ \A x, y \in outs[f] : Rank(outs[f], x) = Rank(outs[f], y) => x = y
  <2>1. SUFFICES ASSUME NEW f \in C
                 PROVE  /\ \A x \in outs[f] : Rank(outs[f], x) \in M
                        /\ \A x, y \in outs[f] : Rank(outs[f], x) = Rank(outs[f], y) => x = y
    OBVIOUS
  <2>2. outs[f] \in SUBSET Nat /\ IsFiniteSet(outs[f]) /\ Cardinality(outs[f]) <= m
        /\ Cardinality(outs[f]) \in Nat
    BY FS_CardinalityType
  <2>3. /\ \A x \in outs[f] : Rank(outs[f], x) \in 0 .. Cardinality(outs[f]) - 1
        /\ \A x, y \in outs[f] : Rank(outs[f], x) = Rank(outs[f], y) => x = y
    BY <2>2, RankIs
  <2> QED BY <2>2, <2>3
<1>3. h \in Injection(U, C \X M)
  <2> HIDE DEF U, Owner, M
  <2>1. \A x \in U : <<Owner(x), Rank(outs[Owner(x)], x)>> \in C \X M
    BY <1>1, <1>2
  <2>2. h \in [U -> C \X M]
    BY <2>1
  <2>3. ASSUME NEW x \in U, NEW y \in U, h[x] = h[y]
        PROVE  x = y
    <3>1. Owner(x) = Owner(y) /\ Rank(outs[Owner(x)], x) = Rank(outs[Owner(y)], y)
      BY <2>3
    <3> QED BY <1>1, <1>2, <3>1
  <2> HIDE DEF h
  <2> QED BY <2>2, <2>3 DEF Injection, IsInjective
<1>4. IsFiniteSet(M) /\ Cardinality(M) = m
  <2>1. \A d \in Int : IsFiniteSet(0 .. d) /\ Cardinality(0 .. d) = IF 0 > d THEN 0 ELSE d - 0 + 1
    BY FS_Interval
  <2>2. m - 1 \in Int
    OBVIOUS
  <2>3. IsFiniteSet(0 .. m - 1) /\ Cardinality(0 .. m - 1) = IF 0 > m - 1 THEN 0 ELSE (m - 1) - 0 + 1
    BY <2>1, <2>2
  <2> QED BY <2>3
<1>5. IsFiniteSet(C \X M) /\ Cardinality(C \X M) = Cardinality(C) * m
  BY <1>4, FS_Product
<1> HIDE DEF U, h, M
<1> QED BY <1>3, <1>5, FS_Injection DEF U

\* Coding a picture takes it from those that wait, and no other.
LEMMA CodeLeaves ==
  ASSUME FInv, FeiCode
  PROVE  /\ Unencoded(feiPool') = Unencoded(feiPool) \ {feiTask.frame}
         /\ DOMAIN feiPool' \subseteq DOMAIN feiPool
         /\ \A f \in DOMAIN feiPool' :
              /\ feiPool'[f].kind = feiPool[f].kind /\ feiPool'[f].order = feiPool[f].order
              /\ feiPool'[f].gop = feiPool[f].gop /\ feiPool'[f].ref = feiPool[f].ref
              /\ feiPool'[f].surface = feiPool[f].surface /\ feiPool'[f].outs = feiPool[f].outs
         /\ \A f \in (CodedIn(feiPool) \cup {feiTask.frame}) \ CodedIn(feiPool') :
              feiPool[f].outs \subseteq feiVacant'.preenc
         /\ CodedIn(feiPool') \subseteq CodedIn(feiPool) \cup {feiTask.frame}
         /\ feiVacant.preenc \subseteq feiVacant'.preenc
<1> DEFINE frame == feiTask.frame
           bufs == IF Codes(feiPar) THEN Min(feiVacant.encode) ELSE 0
           given == [feiPool EXCEPT ![frame].bufs = bufs]
           r == UpdatePool(feiPar, given, frame, feiTask.post)
<1>1. /\ feiPar \in FeiConfigs /\ feiCount \in Nat
      /\ DOMAIN feiPool \subseteq 0 .. feiCount - 1 /\ feiPool \in [DOMAIN feiPool -> Tasks]
      /\ frame \in Unencoded(feiPool) /\ frame \in DOMAIN feiPool
      /\ feiVacant.encode \subseteq EncodeSets(feiPar)
      /\ Codes(feiPar) => feiVacant.encode # {}
  BY DEF FInv, FTypes, FTask, Working, Unencoded, FeiCode
<1>2. /\ feiPool' = r[1]
      /\ feiVacant'.preenc = feiVacant.preenc \cup ((r[2].outs \cup {r[2].last}) \ {0})
  <2>1. PICK out : Encoded(out)
    BY DEF FeiCode
  <2>2. /\ feiPool' = r[1]
        /\ feiVacant' = [preenc |-> feiVacant.preenc \cup ((r[2].outs \cup {r[2].last}) \ {0}),
                         encode |-> (feiVacant.encode \ {bufs}) \cup ({r[2].bufs} \ {0})]
    BY <2>1 DEF Encoded
  <2> HIDE DEF r, bufs
  <2> QED BY <2>2
<1>3. bufs \in Nat
  <2>1. EncodeSets(feiPar) \subseteq Nat
    BY DEF EncodeSets
  <2>2. Codes(feiPar) => Min(feiVacant.encode) \in feiVacant.encode
    BY <1>1, <2>1, MinIs
  <2> QED BY <1>1, <2>1, <2>2
<1> HIDE DEF bufs
<1>4. /\ DOMAIN given = DOMAIN feiPool
      /\ \A f \in DOMAIN feiPool : f # frame => given[f] = feiPool[f]
      /\ given[frame] = [feiPool[frame] EXCEPT !.bufs = bufs]
      /\ given = [f \in DOMAIN feiPool |-> given[f]]
  BY <1>1
<1> HIDE DEF given
<1>5. \A f \in DOMAIN feiPool :
        /\ given[f] \in Tasks /\ given[f].coded = feiPool[f].coded
        /\ given[f].kind = feiPool[f].kind /\ given[f].order = feiPool[f].order
        /\ given[f].gop = feiPool[f].gop /\ given[f].ref = feiPool[f].ref
        /\ given[f].surface = feiPool[f].surface /\ given[f].outs = feiPool[f].outs
  <2>1. /\ given[frame] \in Tasks /\ given[frame].coded = feiPool[frame].coded
        /\ given[frame].kind = feiPool[frame].kind /\ given[frame].order = feiPool[frame].order
        /\ given[frame].gop = feiPool[frame].gop /\ given[frame].ref = feiPool[frame].ref
        /\ given[frame].surface = feiPool[frame].surface /\ given[frame].outs = feiPool[frame].outs
    <3>1. feiPool[frame] \in Tasks
      BY <1>1
    <3> QED BY <1>3, <1>4, <3>1 DEF Tasks
  <2> QED BY <1>1, <1>4, <2>1
<1>6. given \in [DOMAIN given -> Tasks] /\ Unencoded(given) = Unencoded(feiPool)
      /\ CodedIn(given) = CodedIn(feiPool)
  BY <1>4, <1>5 DEF Unencoded, CodedIn
<1>7. Shrunk(feiPar, given, frame, feiTask.post, r)
  BY <1>1, <1>4, <1>6, ShrunkIs
<1> HIDE DEF r, frame
<1>8. /\ \/ DOMAIN r[1] = DOMAIN feiPool
         \/ \E g \in CodedIn(feiPool) \cup {frame} : DOMAIN r[1] = DOMAIN feiPool \ {g}
      /\ \A f \in DOMAIN r[1] : r[1][f] = IF f = frame THEN [given[f] EXCEPT !.coded = TRUE] ELSE given[f]
  BY <1>4, <1>6, <1>7 DEF Shrunk
<1>9. DOMAIN r[1] \subseteq DOMAIN feiPool
  BY <1>8
<1>10. \A f \in DOMAIN r[1] :
         /\ r[1][f].kind = feiPool[f].kind /\ r[1][f].order = feiPool[f].order
         /\ r[1][f].gop = feiPool[f].gop /\ r[1][f].ref = feiPool[f].ref
         /\ r[1][f].surface = feiPool[f].surface /\ r[1][f].outs = feiPool[f].outs
         /\ r[1][f].coded = IF f = frame THEN TRUE ELSE feiPool[f].coded
  <2>1. \A f \in DOMAIN feiPool : /\ [given[f] EXCEPT !.coded = TRUE].kind = given[f].kind
                                  /\ [given[f] EXCEPT !.coded = TRUE].order = given[f].order
                                  /\ [given[f] EXCEPT !.coded = TRUE].gop = given[f].gop
                                  /\ [given[f] EXCEPT !.coded = TRUE].ref = given[f].ref
                                  /\ [given[f] EXCEPT !.coded = TRUE].surface = given[f].surface
                                  /\ [given[f] EXCEPT !.coded = TRUE].outs = given[f].outs
                                  /\ [given[f] EXCEPT !.coded = TRUE].coded = TRUE
    BY <1>5 DEF Tasks
  <2>2. ASSUME NEW f \in DOMAIN r[1]
        PROVE  /\ r[1][f].kind = feiPool[f].kind /\ r[1][f].order = feiPool[f].order
               /\ r[1][f].gop = feiPool[f].gop /\ r[1][f].ref = feiPool[f].ref
               /\ r[1][f].surface = feiPool[f].surface /\ r[1][f].outs = feiPool[f].outs
               /\ r[1][f].coded = IF f = frame THEN TRUE ELSE feiPool[f].coded
    <3>1. f \in DOMAIN feiPool
      BY <1>9
    <3>2. CASE f = frame
      <4>1. r[1][f] = [given[f] EXCEPT !.coded = TRUE]
        BY <1>8, <3>2
      <4> QED BY <1>5, <2>1, <3>1, <3>2, <4>1
    <3>3. CASE f # frame
      <4>1. r[1][f] = given[f]
        BY <1>8, <3>3
      <4> QED BY <1>5, <3>1, <3>3, <4>1
    <3> QED BY <3>2, <3>3
  <2> QED BY <2>2
<1>11. Unencoded(r[1]) = Unencoded(feiPool) \ {frame}
  <2>1. \A f \in Unencoded(feiPool) \ {frame} : f \in DOMAIN r[1]
    BY <1>8 DEF Unencoded, CodedIn
  <2> QED BY <1>9, <1>10, <2>1 DEF Unencoded
<1>12. ASSUME NEW f \in (CodedIn(feiPool) \cup {frame}) \ CodedIn(r[1])
       PROVE  feiPool[f].outs \subseteq feiVacant'.preenc
  <2>1. r[2] = [given[f] EXCEPT !.coded = TRUE]
    BY <1>6, <1>7, <1>12 DEF Shrunk
  <2>2. f \in DOMAIN feiPool
    BY <1>1, <1>12 DEF CodedIn
  <2>3. given[f] \in Tasks
    BY <1>5, <2>2
  <2>4. r[2].outs = given[f].outs
    BY <2>1, <2>3 DEF Tasks
  <2>5. feiPool[f].outs \subseteq PreencSets(feiPar)
    BY <2>2 DEF FInv, FPool
  <2>6. 0 \notin PreencSets(feiPar)
    BY DEF PreencSets
  <2> QED BY <1>2, <1>5, <2>2, <2>4, <2>5, <2>6
<1>13. CodedIn(r[1]) \subseteq CodedIn(feiPool) \cup {frame}
  BY <1>6, <1>7 DEF Shrunk
<1> QED BY <1>2, <1>9, <1>10, <1>11, <1>12, <1>13 DEF frame

\* More sets are allocated for the encoder than coded tasks can hold.
LEMMA EncodeSetLeft ==
  ASSUME FInv, Codes(feiPar)
  PROVE  feiVacant.encode # {}
<1> SUFFICES ASSUME feiVacant.encode = {} PROVE FALSE
  OBVIOUS
<1> DEFINE bufs == {feiPool[f].bufs : f \in CodedIn(feiPool)}
<1>1. EncodeSets(feiPar) \subseteq bufs
  BY DEF FInv, FPool
<1>2. /\ feiPar \in FeiConfigs /\ feiCount \in Nat /\ DOMAIN feiPool \subseteq 0 .. feiCount - 1
      /\ Cardinality(CodedIn(feiPool)) <= NumRef(feiPar)
  BY DEF FInv, FTypes, FPool
<1>3. IsFiniteSet(CodedIn(feiPool)) /\ Cardinality(CodedIn(feiPool)) \in Nat
  <2>1. IsFiniteSet(0 .. feiCount - 1)
    BY <1>2, FS_Interval
  <2>2. CodedIn(feiPool) \subseteq 0 .. feiCount - 1
    BY <1>2 DEF CodedIn
  <2> QED BY <2>1, <2>2, FS_Subset, FS_CardinalityType
<1>4. IsFiniteSet(bufs) /\ Cardinality(bufs) <= Cardinality(CodedIn(feiPool))
  <2> DEFINE g == [f \in CodedIn(feiPool) |-> feiPool[f].bufs]
  <2>1. g \in Surjection(CodedIn(feiPool), bufs)
    BY DEF Surjection
  <2> HIDE DEF g, bufs
  <2> QED BY <1>3, <2>1, FS_Surjection
<1>5. MaxQueue(feiPar) \in Nat /\ MaxQueue(feiPar) > NumRef(feiPar) /\ NumRef(feiPar) \in 2 .. 4
  BY <1>2, FeiNumbersAre
<1>6. Cardinality(EncodeSets(feiPar)) = MaxQueue(feiPar)
  <2>1. Cardinality(1 .. MaxQueue(feiPar)) = IF 1 > MaxQueue(feiPar) THEN 0 ELSE MaxQueue(feiPar) - 1 + 1
    <3>1. 1 \in Int /\ MaxQueue(feiPar) \in Int
      BY <1>5
    <3> QED BY <3>1, FS_Interval
  <2> QED BY <1>5, <2>1 DEF EncodeSets
<1> HIDE DEF bufs
<1>7. Cardinality(EncodeSets(feiPar)) <= Cardinality(bufs) /\ Cardinality(bufs) \in Nat
  BY <1>1, <1>4, FS_Subset, FS_CardinalityType
<1> QED BY <1>2, <1>3, <1>4, <1>5, <1>6, <1>7

Budget(par) == Fields(par) * NumRef(par)

\* The tasks that hold sets of PREENC, and each no more than a field has
\* references: every set is vacant or with one of them.
Held == CodedIn(feiPool) \cup (IF feiPc = "code" THEN {feiTask.frame} ELSE {})
HeldInv ==
  /\ "set" \notin feiShort
  /\ Alive => PreencSets(feiPar) \subseteq feiVacant.preenc \cup UNION {feiPool[f].outs : f \in Held}
  /\ \A f \in DOMAIN feiPool : Cardinality(feiPool[f].outs) <= Budget(feiPar)

LEMMA PreencSetsAre ==
  ASSUME NEW par \in FeiConfigs
  PROVE  /\ PreencSets(par) \in SUBSET Nat /\ IsFiniteSet(PreencSets(par))
         /\ Cardinality(PreencSets(par)) \in Nat
         /\ Cardinality(PreencSets(par)) >= (NumRef(par) + 1) * Budget(par)
         /\ Budget(par) \in Nat /\ Budget(par) >= 2
<1> DEFINE a == MaxQueue(par) + 4
           b == MaxQueue(par) * NumRef(par)
           n == Most(a, b)
<1>1. /\ NumRef(par) \in 2 .. 4 /\ MaxQueue(par) \in Nat /\ Fields(par) \in 1 .. 2
      /\ par.refDist \in Nat /\ par.refDist >= 1 /\ par.asked \in BOOLEAN
      /\ par.asked \/ par.refDist = 4
  BY FeiNumbersAre, FeiAssumption DEF FeiParameters
<1>2. NumRef(par) <= par.refDist + 1
  BY <1>1 DEF NumRef, Least
<1>3. MaxQueue(par) >= 2 * (NumRef(par) + 1)
  BY <1>1, <1>2 DEF MaxQueue
<1>4. b \in Nat /\ a \in Nat /\ n \in Nat /\ n >= b
  <2>1. b \in Nat
    <3>1. NumRef(par) = 2 \/ NumRef(par) = 3 \/ NumRef(par) = 4
      BY <1>1
    <3> QED BY <1>1, <3>1
  <2> HIDE DEF b
  <2> QED BY <1>1, <2>1 DEF Most
<1>5. (NumRef(par) + 1) * Budget(par) <= b /\ Budget(par) \in Nat /\ Budget(par) >= 2
  <2>1. NumRef(par) = 2 \/ NumRef(par) = 3 \/ NumRef(par) = 4
    BY <1>1
  <2>2. Fields(par) = 1 \/ Fields(par) = 2
    BY <1>1
  <2> QED BY <1>1, <1>3, <2>1, <2>2 DEF Budget
<1>6. IsFiniteSet(1 .. n) /\ Cardinality(1 .. n) = n
  <2>1. 1 \in Int /\ n \in Int
    BY <1>4
  <2> HIDE DEF n
  <2>2. IsFiniteSet(1 .. n) /\ Cardinality(1 .. n) = IF 1 > n THEN 0 ELSE n - 1 + 1
    BY <2>1, FS_Interval
  <2> QED BY <1>4, <2>2
<1>7. PreencSets(par) = 1 .. n
  BY DEF PreencSets
<1>8. (NumRef(par) + 1) * Budget(par) \in Nat
  <2>1. NumRef(par) = 2 \/ NumRef(par) = 3 \/ NumRef(par) = 4
    BY <1>1
  <2> QED BY <1>5, <2>1
<1> HIDE DEF n, b
<1> DEFINE t == (NumRef(par) + 1) * Budget(par)
<1> HIDE DEF t
<1>9. n >= t
  BY <1>4, <1>5, <1>8 DEF t
<1> QED BY <1>4, <1>5, <1>6, <1>7, <1>9 DEF t

\* A task that wants sets of PREENC finds as many as it asks for.
LEMMA PreencSetsLeft ==
  ASSUME FInv, HeldInv, feiPc = "preenc"
  PROVE  /\ feiVacant.preenc \in SUBSET Nat /\ IsFiniteSet(feiVacant.preenc)
         /\ Budget(feiPar) <= Cardinality(feiVacant.preenc)
<1> DEFINE C == CodedIn(feiPool)
           V == feiVacant.preenc
           outs == [f \in C |-> feiPool[f].outs]
           U == UNION {outs[f] : f \in C}
           m == Budget(feiPar)
           k == NumRef(feiPar)
<1>1. /\ feiPar \in FeiConfigs /\ feiCount \in Nat /\ DOMAIN feiPool \subseteq 0 .. feiCount - 1
      /\ Cardinality(C) <= k /\ V \subseteq PreencSets(feiPar)
      /\ \A f \in DOMAIN feiPool : /\ feiPool[f].outs \subseteq PreencSets(feiPar)
                                   /\ Cardinality(feiPool[f].outs) <= m
  BY DEF FInv, FTypes, FPool, HeldInv
<1>2. /\ PreencSets(feiPar) \in SUBSET Nat /\ IsFiniteSet(PreencSets(feiPar))
      /\ Cardinality(PreencSets(feiPar)) \in Nat
      /\ Cardinality(PreencSets(feiPar)) >= (k + 1) * m
      /\ m \in Nat /\ k \in 2 .. 4
  BY <1>1, PreencSetsAre, FeiNumbersAre
<1>3. PreencSets(feiPar) \subseteq V \cup U
  <2>1. Alive /\ Held = C
    BY DEF Alive, Held
  <2>2. PreencSets(feiPar) \subseteq V \cup UNION {feiPool[f].outs : f \in C}
    BY <2>1 DEF HeldInv
  <2>3. UNION {feiPool[f].outs : f \in C} \subseteq U
    OBVIOUS
  <2> QED BY <2>2, <2>3
<1>4. C \subseteq DOMAIN feiPool
  BY DEF CodedIn
<1>5. IsFiniteSet(C) /\ Cardinality(C) \in Nat
  <2>1. IsFiniteSet(0 .. feiCount - 1)
    <3>1. 0 \in Int /\ feiCount - 1 \in Int
      BY <1>1
    <3> QED BY <3>1, FS_Interval
  <2>2. C \subseteq 0 .. feiCount - 1
    BY <1>1, <1>4
  <2> QED BY <2>1, <2>2, FS_Subset, FS_CardinalityType
<1> HIDE DEF C, m, k
<1>6. outs \in [C -> SUBSET Nat] /\ \A f \in C : IsFiniteSet(outs[f]) /\ Cardinality(outs[f]) <= m
  <2>1. \A f \in C : feiPool[f].outs \in SUBSET PreencSets(feiPar)
    BY <1>1, <1>4
  <2>2. \A f \in C : IsFiniteSet(feiPool[f].outs)
    BY <1>2, <2>1, FS_Subset
  <2> QED BY <1>1, <1>2, <1>4, <2>1, <2>2
<1> HIDE DEF outs
<1>7. IsFiniteSet(U) /\ Cardinality(U) <= Cardinality(C) * m
  BY <1>2, <1>5, <1>6, UnionIsSmall
<1> HIDE DEF U
<1>8. IsFiniteSet(V) /\ V \in SUBSET Nat /\ Cardinality(V) \in Nat /\ Cardinality(U) \in Nat
  BY <1>1, <1>2, <1>7, FS_Subset, FS_CardinalityType
<1> HIDE DEF V
<1>9. Cardinality(PreencSets(feiPar)) <= Cardinality(V) + Cardinality(U)
  <2>1. /\ IsFiniteSet(V \cup U)
        /\ Cardinality(V \cup U) = Cardinality(V) + Cardinality(U) - Cardinality(V \cap U)
    BY <1>7, <1>8, FS_Union
  <2>2. Cardinality(V \cap U) \in Nat
    BY <1>8, FS_Intersection, FS_CardinalityType
  <2>3. Cardinality(PreencSets(feiPar)) <= Cardinality(V \cup U)
    BY <1>3, <2>1, FS_Subset
  <2>4. Cardinality(V \cup U) \in Nat
    BY <2>1, FS_CardinalityType
  <2> QED BY <1>2, <1>8, <2>1, <2>2, <2>3, <2>4
<1>10. Cardinality(C) * m <= k * m /\ k * m \in Nat /\ (k + 1) * m = k * m + m
       /\ Cardinality(C) * m \in Nat
  <2>1. k = 2 \/ k = 3 \/ k = 4
    BY <1>2
  <2>2. Cardinality(C) <= k
    BY <1>1 DEF C, k
  <2>3. \/ Cardinality(C) = 0 \/ Cardinality(C) = 1 \/ Cardinality(C) = 2
        \/ Cardinality(C) = 3 \/ Cardinality(C) = 4
    BY <1>5, <2>1, <2>2
  <2> QED BY <1>2, <2>1, <2>2, <2>3
<1> DEFINE km == k * m
           cm == Cardinality(C) * m
           k1m == (k + 1) * m
<1>11. /\ cm <= km /\ km \in Nat /\ k1m = km + m /\ cm \in Nat
       /\ Cardinality(U) <= cm /\ Cardinality(PreencSets(feiPar)) >= k1m
  BY <1>2, <1>7, <1>10
<1> HIDE DEF km, cm, k1m
<1>12. m <= Cardinality(V)
  BY <1>2, <1>8, <1>9, <1>11
<1> QED BY <1>8, <1>12 DEF V, m

\* A step that takes and gives back no set.
LEMMA HeldQuiet ==
  ASSUME FInv, HeldInv, feiPar' = feiPar, DOMAIN feiPool \subseteq DOMAIN feiPool',
         \A f \in DOMAIN feiPool :
           feiPool'[f].outs = feiPool[f].outs /\ feiPool'[f].coded = feiPool[f].coded,
         \A f \in DOMAIN feiPool' \ DOMAIN feiPool : feiPool'[f].outs = {} /\ ~feiPool'[f].coded,
         feiVacant'.preenc = feiVacant.preenc, "set" \notin feiShort',
         Alive' => \/ Alive /\ feiPc # "code" /\ feiPc' # "code"
                   \/ feiPc' = feiPc /\ feiTask' = feiTask
  PROVE  HeldInv'
<1>1. feiPar \in FeiConfigs
  BY DEF FInv, FTypes
<1>2. Budget(feiPar) \in Nat
  BY <1>1, PreencSetsAre
<1>3. Cardinality({}) = 0
  BY FS_EmptySet
<1>4. \A f \in DOMAIN feiPool' : Cardinality(feiPool'[f].outs) <= Budget(feiPar)
  <2>1. SUFFICES ASSUME NEW f \in DOMAIN feiPool' PROVE Cardinality(feiPool'[f].outs) <= Budget(feiPar)
    OBVIOUS
  <2>2. CASE f \in DOMAIN feiPool
    <3>1. feiPool'[f].outs = feiPool[f].outs /\ Cardinality(feiPool[f].outs) <= Budget(feiPar)
      BY <2>2 DEF HeldInv
    <3> QED BY <3>1, Zenon
  <2>3. CASE f \notin DOMAIN feiPool
    <3>1. Cardinality(feiPool'[f].outs) = 0
      BY <1>3, <2>3, Zenon
    <3> QED BY <1>2, <3>1
  <2> QED BY <2>2, <2>3
<1>5. ASSUME Alive'
      PROVE  PreencSets(feiPar) \subseteq feiVacant.preenc \cup UNION {feiPool'[f].outs : f \in Held'}
  <2>1. Alive
    BY <1>5 DEF Alive
  <2>2. CodedIn(feiPool') = CodedIn(feiPool) /\ CodedIn(feiPool) \subseteq DOMAIN feiPool
    BY DEF CodedIn
  <2>3. feiPc = "code" => feiTask.frame \in DOMAIN feiPool
    BY DEF FInv, FTask, Working, Unencoded
  <2>4. Held' = Held /\ Held \subseteq DOMAIN feiPool
    BY <1>5, <2>2, <2>3 DEF Held, CodedIn
  <2>5. PreencSets(feiPar) \subseteq feiVacant.preenc \cup UNION {feiPool[f].outs : f \in Held}
    BY <2>1 DEF HeldInv
  <2>6. UNION {feiPool[f].outs : f \in Held} \subseteq UNION {feiPool'[f].outs : f \in Held'}
    BY <2>4
  <2> QED BY <2>5, <2>6
<1>6. (UNION {feiPool[f].outs : f \in Held})' = UNION {feiPool'[f].outs : f \in Held'}
  OBVIOUS
<1> QED BY <1>4, <1>5, <1>6 DEF HeldInv, Alive, Budget

LEMMA HeldPreenc ==
  ASSUME FInv, HeldInv, FeiPreenc
  PROVE  HeldInv'
<1> DEFINE calls == Calls(feiPar, feiTask)
           taken == Lowest(feiVacant.preenc, calls)
           repack == Codes(feiPar) /\ (Fields(feiPar) = 2 \/ ~Intra(feiTask.kind))
           frame == feiTask.frame
           outs == IF repack THEN {} ELSE taken
<1>1. /\ feiPar \in FeiConfigs /\ feiPc = "preenc" /\ feiPool \in [DOMAIN feiPool -> Tasks]
      /\ frame \in Unencoded(feiPool) /\ frame \in DOMAIN feiPool
      /\ feiVacant = [preenc |-> feiVacant.preenc, encode |-> feiVacant.encode]
      /\ feiPar' = feiPar /\ feiTask' = feiTask
  BY DEF FInv, FTypes, FTask, Working, Unencoded, FeiPreenc
<1>2. CASE ~Preenc(feiPar) \/ frame \notin WithSurface(feiPool)
  <2>1. feiPc' = "code" /\ feiPool' = feiPool /\ feiVacant' = feiVacant /\ feiShort' = feiShort
    BY <1>2 DEF FeiPreenc, feiSets
  <2>2. Alive /\ Held \subseteq Held'
    BY <1>1, <2>1 DEF Alive, Held
  <2>3. PreencSets(feiPar) \subseteq feiVacant.preenc \cup UNION {feiPool[f].outs : f \in Held}
    BY <2>2 DEF HeldInv
  <2>4. UNION {feiPool[f].outs : f \in Held} \subseteq (UNION {feiPool[f].outs : f \in Held})'
    BY <2>1, <2>2
  <2>5. (\A f \in DOMAIN feiPool : Cardinality(feiPool[f].outs) <= Budget(feiPar))'
    BY <1>1, <2>1 DEF HeldInv, Budget
  <2> QED BY <1>1, <2>1, <2>3, <2>4, <2>5 DEF HeldInv
<1>3. CASE Preenc(feiPar) /\ frame \in WithSurface(feiPool)
  <2>1. /\ calls \in Nat /\ calls >= 1 /\ calls <= Budget(feiPar)
    BY <1>1, <1>3, CallsAre DEF Budget
  <2>2. /\ feiVacant.preenc \in SUBSET Nat /\ IsFiniteSet(feiVacant.preenc)
        /\ Budget(feiPar) <= Cardinality(feiVacant.preenc)
    BY <1>1, PreencSetsLeft
  <2>3. calls <= Cardinality(feiVacant.preenc)
    <3>1. Budget(feiPar) \in Nat /\ Cardinality(feiVacant.preenc) \in Nat
      BY <1>1, <2>2, PreencSetsAre, FS_CardinalityType
    <3> HIDE DEF calls
    <3> QED BY <2>1, <2>2, <3>1
  <2>4. taken \subseteq feiVacant.preenc /\ IsFiniteSet(taken) /\ Cardinality(taken) = calls
    <3> HIDE DEF calls
    <3> QED BY <2>1, <2>2, <2>3, LowestIs
  <2>5. ~ (Cardinality(taken) < calls) /\ ~ (repack /\ feiVacant.encode = {})
    <3>1. repack => feiVacant.encode # {}
      BY EncodeSetLeft
    <3> HIDE DEF calls, taken
    <3> QED BY <2>1, <2>4, <3>1
  <2>6. CASE ~ (References(feiTask) \subseteq DOMAIN feiPool)
    <3>1. /\ feiPc' = "exit" /\ feiShort' = feiShort \cup {"reference"}
          /\ feiPool' = feiPool /\ feiVacant' = feiVacant
      BY <1>3, <2>5, <2>6 DEF FeiPreenc, feiSets, Lacks
    <3>2. ~Alive' /\ "set" \notin feiShort'
      BY <3>1 DEF Alive, HeldInv
    <3> QED BY <1>1, <3>1, <3>2, HeldQuiet
  <2>7. CASE References(feiTask) \subseteq DOMAIN feiPool
    <3>1. /\ feiPc' = "code" /\ feiShort' = feiShort
          /\ feiPool' = [feiPool EXCEPT ![frame].outs = outs, ![frame].last = Max(taken)]
          /\ feiVacant' = [feiVacant EXCEPT !.preenc = IF repack THEN @ ELSE @ \ taken]
      BY <1>3, <2>5, <2>7 DEF FeiPreenc
    <3>2. feiVacant'.preenc = feiVacant.preenc \ outs
      BY <1>1, <3>1
    <3>3. Cardinality(outs) <= Budget(feiPar)
      <4>1. Cardinality({}) = 0 /\ Budget(feiPar) \in Nat
        BY <1>1, FS_EmptySet, PreencSetsAre
      <4> HIDE DEF taken, calls
      <4> QED BY <2>1, <2>4, <4>1
    <3> DEFINE last == Max(taken)
    <3> HIDE DEF outs, last, taken, calls, repack
    <3>4. /\ DOMAIN feiPool' = DOMAIN feiPool
          /\ \A f \in DOMAIN feiPool : f # frame => feiPool'[f] = feiPool[f]
          /\ feiPool'[frame] = [feiPool[frame] EXCEPT !.outs = outs, !.last = last]
      BY <1>1, <3>1 DEF last
    <3>5. feiPool'[frame].outs = outs /\ feiPool'[frame].coded = feiPool[frame].coded
      <4>1. feiPool[frame] \in Tasks
        BY <1>1
      <4> HIDE DEF frame
      <4> QED BY <3>4, <4>1 DEF Tasks
    <3> HIDE DEF frame
    <3>6. CodedIn(feiPool') = CodedIn(feiPool) /\ frame \notin CodedIn(feiPool)
      BY <1>1, <3>4, <3>5 DEF CodedIn, Unencoded
    <3>7. \A f \in DOMAIN feiPool' : Cardinality(feiPool'[f].outs) <= Budget(feiPar)
      <4>1. SUFFICES ASSUME NEW f \in DOMAIN feiPool' PROVE Cardinality(feiPool'[f].outs) <= Budget(feiPar)
        OBVIOUS
      <4>2. CASE f = frame
        BY <3>3, <3>5, <4>2, Zenon
      <4>3. CASE f # frame
        <5>1. Cardinality(feiPool[f].outs) <= Budget(feiPar) /\ feiPool'[f] = feiPool[f]
          BY <3>4, <4>3 DEF HeldInv
        <5> QED BY <5>1, Zenon
      <4> QED BY <4>2, <4>3
    <3>8. PreencSets(feiPar) \subseteq feiVacant'.preenc \cup UNION {feiPool'[f].outs : f \in Held'}
      <4>1. Alive /\ Held = CodedIn(feiPool) /\ Held' = CodedIn(feiPool) \cup {frame}
        BY <1>1, <3>1, <3>6 DEF Alive, Held, CodedIn, frame
      <4>2. PreencSets(feiPar) \subseteq feiVacant.preenc \cup UNION {feiPool[f].outs : f \in CodedIn(feiPool)}
        BY <4>1 DEF HeldInv
      <4>3. \A f \in CodedIn(feiPool) : feiPool'[f].outs = feiPool[f].outs
        BY <3>4, <3>6 DEF CodedIn
      <4>4. UNION {feiPool[f].outs : f \in CodedIn(feiPool)} \subseteq UNION {feiPool'[f].outs : f \in Held'}
        BY <4>1, <4>3
      <4>5. outs \subseteq UNION {feiPool'[f].outs : f \in Held'}
        BY <3>5, <4>1
      <4> QED BY <3>2, <4>2, <4>4, <4>5
    <3>9. (UNION {feiPool[f].outs : f \in Held})' = UNION {feiPool'[f].outs : f \in Held'}
      OBVIOUS
    <3>10. "set" \notin feiShort'
      BY <3>1 DEF HeldInv
    <3> QED BY <1>1, <3>7, <3>8, <3>9, <3>10 DEF HeldInv, Budget
  <2> QED BY <2>6, <2>7
<1> QED BY <1>2, <1>3

LEMMA HeldCode ==
  ASSUME FInv, HeldInv, FeiCode
  PROVE  HeldInv'
<1> DEFINE frame == feiTask.frame
           all == CodedIn(feiPool) \cup {frame}
<1>1. /\ feiPar' = feiPar /\ feiPc = "code" /\ feiPc' = "get" /\ feiShort' = feiShort
  BY DEF FeiCode, Encoded
<1>2. /\ DOMAIN feiPool' \subseteq DOMAIN feiPool
      /\ \A f \in DOMAIN feiPool' : feiPool'[f].outs = feiPool[f].outs
      /\ \A f \in all \ CodedIn(feiPool') : feiPool[f].outs \subseteq feiVacant'.preenc
      /\ CodedIn(feiPool') \subseteq all
      /\ feiVacant.preenc \subseteq feiVacant'.preenc
  BY CodeLeaves
<1>3. \A f \in DOMAIN feiPool' : Cardinality(feiPool'[f].outs) <= Budget(feiPar)
  <2>1. SUFFICES ASSUME NEW f \in DOMAIN feiPool' PROVE Cardinality(feiPool'[f].outs) <= Budget(feiPar)
    OBVIOUS
  <2>2. Cardinality(feiPool[f].outs) <= Budget(feiPar) /\ feiPool'[f].outs = feiPool[f].outs
    BY <1>2 DEF HeldInv
  <2> QED BY <2>2, Zenon
<1>4. Alive /\ Held = all /\ Held' = CodedIn(feiPool')
  BY <1>1 DEF Alive, Held, CodedIn
<1>5. PreencSets(feiPar) \subseteq feiVacant.preenc \cup UNION {feiPool[f].outs : f \in all}
  BY <1>4 DEF HeldInv
<1> HIDE DEF all
<1>6. PreencSets(feiPar) \subseteq feiVacant'.preenc \cup UNION {feiPool'[f].outs : f \in Held'}
  <2>1. SUFFICES ASSUME NEW x \in PreencSets(feiPar), x \notin feiVacant'.preenc
                 PROVE  \E f \in Held' : x \in feiPool'[f].outs
    OBVIOUS
  <2>2. PICK f \in all : x \in feiPool[f].outs
    BY <1>2, <1>5, <2>1
  <2>3. f \in CodedIn(feiPool')
    BY <1>2, <2>1, <2>2
  <2>4. f \in DOMAIN feiPool'
    BY <2>3 DEF CodedIn
  <2> QED BY <1>2, <1>4, <2>2, <2>3, <2>4
<1>7. (UNION {feiPool[f].outs : f \in Held})' = UNION {feiPool'[f].outs : f \in Held'}
  OBVIOUS
<1>8. "set" \notin feiShort'
  BY <1>1 DEF HeldInv
<1> QED BY <1>1, <1>3, <1>6, <1>7, <1>8 DEF HeldInv, Budget

LEMMA HeldStarts == FeiInit => HeldInv
<1> SUFFICES ASSUME FeiInit PROVE HeldInv
  OBVIOUS
<1>1. DOMAIN feiPool = {}
  BY DEF FeiInit
<1>2. feiVacant.preenc = PreencSets(feiPar) /\ feiShort = {}
  BY DEF FeiInit
<1> QED BY <1>1, <1>2 DEF HeldInv

LEMMA HeldStep ==
  ASSUME FInv, HeldInv, [FeiNext]_feiVars
  PROVE  HeldInv'
<1>1. feiPool \in [DOMAIN feiPool -> Tasks] /\ "set" \notin feiShort
      /\ feiPar \in FeiConfigs /\ feiCount \in Nat /\ feiIdr \in 0 .. feiCount
      /\ DOMAIN feiPool \subseteq 0 .. feiCount - 1 /\ feiBuf \in Nat \cup {-1}
  BY DEF FInv, FTypes, HeldInv
<1>2. ASSUME NEW surface \in Nat \cup {-1}, AddTask(surface), feiPc = "get", UNCHANGED <<feiPar, feiSets>>
      PROVE  HeldInv'
  <2> DEFINE task == NextTask(feiPar, feiCount, feiIdr, surface)
  <2>1. /\ feiPar' = feiPar /\ feiVacant' = feiVacant
        /\ \/ feiPc' = "exit" /\ feiShort' = feiShort \cup {"ds"} /\ feiPool' = feiPool
           \/ /\ feiPool' = [f \in DOMAIN feiPool \cup {feiCount} |-> IF f = feiCount THEN task ELSE feiPool[f]]
              /\ feiPc' = "pick" /\ feiShort' = feiShort
    BY <1>2 DEF AddTask, Lacks, NextKind, NextBase, NextTask, feiSets
  <2>2. task.outs = {} /\ ~task.coded
    BY <1>1, NewTaskIs
  <2> HIDE DEF task
  <2>3. /\ DOMAIN feiPool \subseteq DOMAIN feiPool'
        /\ \A f \in DOMAIN feiPool :
             feiPool'[f].outs = feiPool[f].outs /\ feiPool'[f].coded = feiPool[f].coded
        /\ \A f \in DOMAIN feiPool' \ DOMAIN feiPool : feiPool'[f].outs = {} /\ ~feiPool'[f].coded
    <3>1. feiCount \notin DOMAIN feiPool
      BY <1>1
    <3> QED BY <2>1, <2>2, <3>1
  <2>4. Alive /\ feiPc' # "code"
    BY <1>2, <2>1 DEF Alive
  <2>5. "set" \notin feiShort' /\ feiVacant'.preenc = feiVacant.preenc
    BY <1>1, <2>1
  <2> QED BY <1>2, <2>1, <2>3, <2>4, <2>5, HeldQuiet
<1>3. CASE FeiTake
  BY <1>1, <1>2, <1>3 DEF FeiTake
<1>4. ASSUME UNCHANGED <<feiPar, feiPool, feiVacant>>, "set" \notin feiShort',
             Alive' => \/ Alive /\ feiPc # "code" /\ feiPc' # "code"
                       \/ feiPc' = feiPc /\ feiTask' = feiTask
      PROVE  HeldInv'
  <2>1. /\ DOMAIN feiPool \subseteq DOMAIN feiPool'
        /\ \A f \in DOMAIN feiPool :
             feiPool'[f].outs = feiPool[f].outs /\ feiPool'[f].coded = feiPool[f].coded
        /\ \A f \in DOMAIN feiPool' \ DOMAIN feiPool : feiPool'[f].outs = {} /\ ~feiPool'[f].coded
        /\ feiVacant'.preenc = feiVacant.preenc
    BY <1>4
  <2> QED BY <1>4, <2>1, HeldQuiet
<1>5. CASE FeiAgain
  <2>1. CASE feiEnd = "reset" /\ AddTask(feiBuf)
    BY <1>1, <1>2, <1>5, <2>1 DEF FeiAgain
  <2>2. CASE feiEnd = "eos" /\ feiPc' = "pick" /\ UNCHANGED <<feiCount, feiIdr, feiPool, feiShort>>
    <3>1. /\ UNCHANGED <<feiPar, feiPool, feiVacant, feiShort>> /\ feiPc = "get" /\ feiPc' = "pick"
      BY <1>5, <2>2 DEF FeiAgain, feiSets
    <3> QED BY <1>1, <1>4, <3>1 DEF Alive
  <2>3. \/ feiEnd = "reset" /\ AddTask(feiBuf)
        \/ feiEnd = "eos" /\ feiPc' = "pick" /\ UNCHANGED <<feiCount, feiIdr, feiPool, feiShort>>
    BY <1>5, Zenon DEF FeiAgain
  <2> QED BY <2>1, <2>2, <2>3, Zenon
<1>6. CASE FeiInitFails \/ FeiInputEnds
  <2>1. /\ UNCHANGED <<feiPar, feiPool, feiVacant, feiShort>> /\ feiPc = "get" /\ feiPc' \in {"get", "exit"}
    BY <1>6 DEF FeiInitFails, FeiInputEnds, feiTasks, feiSets, feiHistory
  <2> QED BY <1>1, <1>4, <2>1 DEF Alive
<1>7. CASE FeiCodeFails
  <2>1. feiPc = "code" /\ feiPc' \in {"exit", "spin"} /\ UNCHANGED <<feiPar, feiPool, feiVacant>>
    BY <1>7 DEF FeiCodeFails, Lacks, feiTasks, feiSets
  <2>2. feiShort' = feiShort
    BY <1>7, EncodeSetLeft DEF FeiCodeFails, Lacks, Refused
  <2> QED BY <1>1, <1>4, <2>1, <2>2 DEF Alive
<1>8. CASE FeiLeave \/ FeiExit
  <2>1. feiPc' \in {"exit", "done"} /\ UNCHANGED <<feiPar, feiPool, feiVacant, feiShort>>
    BY <1>8 DEF FeiLeave, FeiExit, feiTasks, feiSets, feiHistory
  <2> QED BY <1>1, <1>4, <2>1 DEF Alive
<1>9. CASE FeiStop \/ FeiOver \/ UNCHANGED feiVars
  <2>1. UNCHANGED <<feiPc, feiPar, feiPool, feiVacant, feiTask, feiShort>>
    BY <1>9 DEF FeiStop, FeiOver, feiVars, feiThread, feiTasks, feiSets, feiHistory
  <2> QED BY <1>1, <1>4, <2>1
<1>10. CASE FeiPick
  <2> DEFINE first == GetReorderedTask(feiPar, feiPool, FALSE)
             found == IF first[2] = -1 /\ feiEnd = "eos"
                        THEN GetReorderedTask(feiPar, feiPool, TRUE) ELSE first
             frame == found[2]
  <2>1. Picked(feiPool, found)
    <3>1. /\ Picked(feiPool, GetReorderedTask(feiPar, feiPool, FALSE))
          /\ Picked(feiPool, GetReorderedTask(feiPar, feiPool, TRUE))
      BY <1>1, PickedIs
    <3> QED BY <3>1
  <2>2. /\ feiPc = "pick" /\ feiPc' \in {"exit", "get", "dead", "preenc"}
        /\ feiPool' = feiPool \/ feiPool' = found[1]
        /\ feiPar' = feiPar /\ feiVacant' = feiVacant
        /\ feiShort' \subseteq feiShort \cup {"recon"}
    BY <1>10 DEF FeiPick, feiSets, feiTasks, FInv, FTypes
  <2> HIDE DEF found
  <2>3. /\ DOMAIN feiPool' = DOMAIN feiPool
        /\ \A f \in DOMAIN feiPool :
             feiPool'[f].outs = feiPool[f].outs /\ feiPool'[f].coded = feiPool[f].coded
    <3>1. CASE feiPool' = feiPool
      BY <3>1
    <3>2. CASE feiPool' = found[1]
      <4>1. \A f \in DOMAIN feiPool : feiPool[f] \in Tasks
        BY <1>1
      <4> QED BY <2>1, <3>2, <4>1 DEF Picked, Tasks
    <3> QED BY <2>2, <3>1, <3>2
  <2>4. Alive /\ feiPc # "code" /\ feiPc' # "code"
    BY <2>2 DEF Alive
  <2>5. "set" \notin feiShort' /\ feiVacant'.preenc = feiVacant.preenc
    BY <1>1, <2>2
  <2> QED BY <2>2, <2>3, <2>4, <2>5, HeldQuiet
<1> QED BY <1>3, <1>5, <1>6, <1>7, <1>8, <1>9, <1>10, HeldPreenc, HeldCode DEF FeiNext, FeiStep

LEMMA AvcHolds == Spec => [](FInv /\ HeldInv)
<1>1. Init => (FInv /\ HeldInv)
  BY AvcMoves, FInitHolds, HeldStarts
<1>2. (FInv /\ HeldInv) /\ [Next]_vars => (FInv /\ HeldInv)'
  BY AvcMoves, FStep, HeldStep
<1> QED BY <1>1, <1>2, PTL DEF Spec

LEMMA PoolSuffices ==
  ASSUME FInv, HeldInv
  PROVE  AvcKeepsItsPool
<1>1. FeiTypeOK
  BY DEF FInv, FTypes, Buffer, FeiTypeOK
<1>2. FeiBufferIsHeld
  <2>1. SUFFICES ASSUME Working, NEW f \in FramesOf(feiTask.dpb)
                 PROVE  f \in DOMAIN feiPool /\ feiPool[f].coded
    BY DEF FeiBufferIsHeld, Working
  <2>2. f \in CodedIn(feiPool)
    BY <2>1 DEF FInv, FTask, FPool
  <2> QED BY <2>2 DEF CodedIn
<1>3. FeiSetsSuffice
  <2>1. Cardinality({f \in DOMAIN feiPool : feiPool[f].coded}) <= NumRef(feiPar)
    BY DEF FInv, FPool, CodedIn
  <2>2. (feiPc = "code" /\ Codes(feiPar)) => feiVacant.encode # {}
    BY EncodeSetLeft
  <2>3. feiPar.recon > NumRef(feiPar) => "recon" \notin feiShort
    BY DEF FInv, FPool
  <2>4. "set" \notin feiShort
    BY DEF HeldInv
  <2> QED BY <2>1, <2>2, <2>3, <2>4 DEF FeiSetsSuffice
<1>4. FeiPredictorsMatch
  BY DEF FInv
<1> QED BY <1>1, <1>2, <1>3, <1>4 DEF AvcKeepsItsPool

\* However long the stream, whatever the parameters and whatever the library
\* refuses: what UpdatePool drops is no picture of the buffer that the task in
\* process is coded from, no more tasks stay coded than there are references,
\* PREENC and the encoder always find as many vacant sets as they ask for, and the
\* encoder finds the one its predictors were copied to.
THEOREM AvcPool == Spec => []AvcKeepsItsPool
BY AvcHolds, PoolSuffices, PTL

-----------------------------------------------------------------------------
(* Without a pyramid, what waits to be coded. *)

\* The frames that GetReadyTask may pick: the picture that a B frame comes
\* before is coded.
Pickable(pool) ==
  {f \in Unencoded(pool) : pool[f].kind = "B" => \E g \in DOMAIN pool : g > f /\ pool[g].coded}

LEMMA FlatReorder ==
  ASSUME NEW pool, DOMAIN pool \subseteq Nat, pool \in [DOMAIN pool -> Tasks], Flat(pool)
  PROVE  ReorderFrame(pool) = IF Pickable(pool) = {} THEN -1 ELSE Min(Pickable(pool))
<1> DEFINE left == Unencoded(pool)
           Bi(f) == pool[f].kind = "B"
           ready == Pickable(pool)
           top == Min(ready)
           mini == {f \in left : f >= top /\ \A g \in left :
                      top <= g /\ g <= f => Bi(g) /\ pool[g].gop = pool[top].gop}
           order == Min({pool[f].order : f \in mini})
           best == {f \in mini : pool[f].order = order}
<1>1. ReorderFrame(pool) = IF ready = {} THEN -1 ELSE IF Bi(top) THEN Min(best) ELSE top
  BY DEF ReorderFrame, Pickable
<1>2. ready \subseteq left /\ left \subseteq DOMAIN pool /\ left \in SUBSET Nat /\ ready \in SUBSET Nat
  BY DEF Pickable, Unencoded
<1>3. ASSUME ready # {}, Bi(top)
      PROVE  Min(best) = top
  <2>1. top \in left /\ top \in Nat /\ top \in DOMAIN pool
    <3> HIDE DEF ready, left
    <3> QED BY <1>2, <1>3, MinIs
  <2> HIDE DEF top
  <2>2. top \in mini
    <3>1. \A g \in left : top <= g /\ g <= top => g = top
      BY <1>2, <2>1
    <3> HIDE DEF left
    <3> QED BY <1>3, <2>1, <3>1
  <2>3. mini \subseteq left /\ \A f \in mini : f >= top
    OBVIOUS
  <2> HIDE DEF mini
  <2>4. \A f \in mini : pool[f].order = 0
    BY <1>2, <2>3 DEF Flat
  <2>5. {pool[f].order : f \in mini} = {0}
    BY <2>2, <2>4
  <2>6. order = 0
    BY <2>5, MinIs
  <2> HIDE DEF order
  <2>7. best = mini
    BY <2>4, <2>6
  <2> HIDE DEF best
  <2>8. Min(mini) \in mini /\ \A y \in mini : Min(mini) <= y
    <3>1. mini \in SUBSET Nat /\ mini # {}
      BY <1>2, <2>2, <2>3
    <3> QED BY <3>1, MinIs
  <2>9. Min(mini) <= top /\ Min(mini) >= top /\ Min(mini) \in Nat
    BY <1>2, <2>2, <2>3, <2>8
  <2> QED BY <2>1, <2>7, <2>9
<1> HIDE DEF ready, top, best
<1> QED BY <1>1, <1>3 DEF top, ready

LEMMA BreakIs ==
  ASSUME NEW par \in FeiConfigs, NEW a \in Nat
  PROVE  /\ \E m \in a .. a + par.refDist - 1 : FrameKind(par, m) # "B"
         /\ FrameKind(par, 0) = "IDR"
<1>1. par.gopSize \in Nat \ {0} /\ par.refDist \in Nat \ {0} /\ par.idrDist \in Nat \ {0}
  BY FeiNumbersAre DEF FeiParameters
<1>2. PICK m \in a .. a + par.refDist - 1 : m % par.gopSize = 0 \/ (m % par.gopSize) % par.refDist = 0
  BY <1>1, StartIs
<1>3. FrameKind(par, m) # "B"
  BY <1>2 DEF FrameKind
<1>4. 0 % par.idrDist = 0
  BY <1>1
<1>5. FrameKind(par, 0) = "IDR"
  BY <1>4 DEF FrameKind
<1> QED BY <1>3, <1>5

\* When none is ready, the B frames of one mini-GOP wait, all of them.
LEMMA WaitIs ==
  ASSUME NEW par \in FeiConfigs, NEW count \in Nat, NEW idr \in 0 .. count, count > 0 => idr < count,
         NEW pool, DOMAIN pool \subseteq 0 .. count - 1,
         NEW ahead, ahead \in CodedIn(pool) \cup {-1},
         InQueue(par, pool, Unencoded(pool), ahead, count, idr), Pickable(pool) = {}
  PROVE  /\ \A f \in Unencoded(pool) : pool[f].kind = "B" /\ f .. count - 1 \subseteq Unencoded(pool)
         /\ IsFiniteSet(Unencoded(pool)) /\ Cardinality(Unencoded(pool)) <= par.refDist - 1
<1> DEFINE left == Unencoded(pool)
<1>1. left \subseteq DOMAIN pool /\ left \subseteq 0 .. count - 1
  BY DEF Unencoded
<1>2. ASSUME NEW f \in left
      PROVE  pool[f].kind = "B" /\ f .. count - 1 \subseteq left /\ f > idr
  <2>1. pool[f].kind = "B" /\ ~ \E g \in DOMAIN pool : g > f /\ pool[g].coded
    BY DEF Pickable
  <2>2. f \in Nat /\ f < count /\ idr \in Nat
    BY <1>1
  <2>3. ~ (f < ahead)
    <3>1. CASE ahead = -1
      BY <2>2, <3>1
    <3>2. CASE ahead \in CodedIn(pool)
      <4>1. ahead \in DOMAIN pool /\ pool[ahead].coded /\ ahead \in Nat
        BY <3>2 DEF CodedIn
      <4> QED BY <2>1, <2>2, <4>1
    <3> QED BY <3>1, <3>2
  <2>4. f .. count - 1 \subseteq left
    BY <2>3 DEF InQueue
  <2>5. f > idr
    <3>1. SUFFICES ASSUME f <= idr PROVE FALSE
      BY <2>2
    <3>2. idr \in left
      BY <2>2, <2>4, <3>1
    <3>3. pool[idr].kind = "B"
      BY <3>2 DEF Pickable
    <3>4. pool[idr].kind = FrameKind(par, idr - idr) /\ idr - idr = 0
      BY <2>2, <3>2 DEF InQueue
    <3> QED BY <3>3, <3>4, BreakIs
  <2> QED BY <2>1, <2>4, <2>5
<1>3. IsFiniteSet(left)
  <2>1. IsFiniteSet(0 .. count - 1)
    BY FS_Interval
  <2> QED BY <1>1, <2>1, FS_Subset
<1>4. par.refDist \in Nat /\ par.refDist >= 1
  BY FeiNumbersAre
<1>5. CASE left = {}
  BY <1>2, <1>3, <1>4, <1>5, FS_EmptySet
<1>6. CASE left # {}
  <2> DEFINE m == Min(left)
  <2>1. m \in left /\ \A y \in left : m <= y
    <3>1. left \in SUBSET Nat
      BY <1>1
    <3> HIDE DEF left
    <3> QED BY <1>6, <3>1, MinIs
  <2> HIDE DEF m
  <2>2. m \in Nat /\ m < count /\ m > idr /\ m .. count - 1 \subseteq left /\ idr \in Nat
    BY <1>1, <1>2, <2>1
  <2>3. count - m <= par.refDist - 1
    <3>1. SUFFICES ASSUME count - m >= par.refDist PROVE FALSE
      BY <1>4, <2>2
    <3> DEFINE a == m - idr
    <3>2. a \in Nat
      BY <2>2
    <3>3. PICK k \in a .. a + par.refDist - 1 : FrameKind(par, k) # "B"
      BY <3>2, BreakIs
    <3>4. k \in Nat /\ idr + k \in m .. count - 1 /\ (idr + k) - idr = k /\ idr + k >= idr
      BY <1>4, <2>2, <3>1, <3>2
    <3>5. idr + k \in left
      BY <2>2, <3>4
    <3>6. pool[idr + k].kind = "B"
      BY <1>2, <3>5
    <3>7. pool[idr + k].kind = FrameKind(par, (idr + k) - idr)
      BY <3>4, <3>5 DEF InQueue
    <3> QED BY <3>3, <3>4, <3>6, <3>7
  <2>4. left \subseteq m .. count - 1
    BY <1>1, <2>1, <2>2
  <2>5. IsFiniteSet(m .. count - 1) /\ Cardinality(m .. count - 1) = count - m
    <3>1. m \in Int /\ count - 1 \in Int /\ ~ (m > count - 1) /\ (count - 1) - m + 1 = count - m
      BY <2>2
    <3>2. Cardinality(m .. count - 1) = IF m > count - 1 THEN 0 ELSE (count - 1) - m + 1
      BY <3>1, FS_Interval
    <3>3. IsFiniteSet(m .. count - 1)
      BY <3>1, FS_Interval
    <3> QED BY <3>1, <3>2, <3>3
  <2> HIDE DEF left
  <2>6. Cardinality(left) <= Cardinality(m .. count - 1) /\ Cardinality(left) \in Nat
    BY <1>3, <2>4, <2>5, FS_Subset, FS_CardinalityType
  <2>7. Cardinality(left) <= par.refDist - 1
    BY <1>4, <2>2, <2>3, <2>5, <2>6
  <2> QED BY <1>2, <1>3, <2>7 DEF left
<1> QED BY <1>5, <1>6

\* A frame that is picked leaves the others in their places.
LEMMA PickLeaves ==
  ASSUME NEW par \in FeiConfigs, NEW count \in Nat, NEW idr \in 0 .. count,
         NEW pool, DOMAIN pool \subseteq 0 .. count - 1, Flat(pool),
         NEW ahead, ahead \in CodedIn(pool) \cup {-1},
         InQueue(par, pool, Unencoded(pool), ahead, count, idr),
         NEW top \in Pickable(pool), \A y \in Pickable(pool) : top <= y
  PROVE  InQueue(par, pool, Unencoded(pool) \ {top}, IF TypeRef(pool[top]) THEN top ELSE ahead,
                 count, idr)
<1> DEFINE left == Unencoded(pool)
           next == IF TypeRef(pool[top]) THEN top ELSE ahead
<1>1. left \subseteq DOMAIN pool /\ left \in SUBSET Nat /\ top \in left /\ top \in Nat /\ ahead \in Int
  BY DEF Unencoded, Pickable, CodedIn
<1>2. TypeRef(pool[top]) <=> pool[top].kind # "B"
  BY <1>1 DEF TypeRef, Flat
<1> SUFFICES ASSUME NEW f \in left, f # top
             PROVE  /\ f < next \/ f .. count - 1 \subseteq left \ {top}
                    /\ pool[f].kind # "B" => f > next
                    /\ f >= idr => pool[f].kind = FrameKind(par, f - idr)
  BY DEF InQueue
<1>3. /\ f < ahead \/ f .. count - 1 \subseteq left
      /\ pool[f].kind # "B" => f > ahead
      /\ f >= idr => pool[f].kind = FrameKind(par, f - idr)
      /\ f \in Nat /\ f \in DOMAIN pool
  BY <1>1 DEF InQueue
<1>4. pool[f].kind # "B" => f > top
  <2>1. pool[f].kind # "B" => f \in Pickable(pool)
    BY DEF Pickable
  <2> QED BY <1>1, <1>3, <2>1
<1>5. CASE pool[top].kind # "B"
  <2>1. next = top /\ top > ahead
    BY <1>1, <1>2, <1>5 DEF InQueue
  <2>2. f < top \/ f .. count - 1 \subseteq left \ {top}
    BY <1>1, <1>3, <2>1
  <2> QED BY <1>3, <1>4, <2>1, <2>2
<1>6. CASE pool[top].kind = "B"
  <2>1. next = ahead
    BY <1>2, <1>6
  <2>2. f .. count - 1 \subseteq left => f < ahead \/ f .. count - 1 \subseteq left \ {top}
    <3>1. SUFFICES ASSUME f < top PROVE FALSE
      BY <1>1, <1>3
    <3>2. PICK g \in DOMAIN pool : g > top /\ pool[g].coded
      BY <1>6 DEF Pickable
    <3>3. g \in Nat /\ g > f
      BY <1>1, <1>3, <3>1, <3>2
    <3>4. f \in Pickable(pool)
      BY <3>2, <3>3 DEF Pickable
    <3> QED BY <1>1, <1>3, <3>1, <3>4
  <2> QED BY <1>3, <2>1, <2>2
<1> QED BY <1>5, <1>6

\* The frames before the one that is picked wait for a picture that has not
\* come.
LEMMA SkippedRun ==
  ASSUME NEW par, NEW count \in Nat, NEW idr, NEW pool, DOMAIN pool \subseteq 0 .. count - 1,
         NEW ahead, ahead \in CodedIn(pool) \cup {-1},
         InQueue(par, pool, Unencoded(pool), ahead, count, idr),
         NEW top \in Pickable(pool), \A y \in Pickable(pool) : top <= y,
         NEW f \in Unencoded(pool), f < top
  PROVE  f .. count - 1 \subseteq Unencoded(pool)
<1>1. f \in DOMAIN pool /\ f \in Nat /\ top \in Nat
  BY DEF Unencoded, Pickable
<1>2. f \notin Pickable(pool)
  BY <1>1
<1>3. ~ \E g \in DOMAIN pool : g > f /\ pool[g].coded
  BY <1>2 DEF Pickable
<1>4. ~ (f < ahead)
  BY <1>1, <1>3 DEF CodedIn
<1> QED BY <1>4 DEF InQueue

\* What GetReorderedTask picks without a pyramid: no frame only when too few
\* wait, or none at the end of the input; and the queue stays as it should be.
PickedFlat(par, pool, ahead, count, idr, flush, r) ==
  /\ r[2] = -1 => /\ Cardinality(Unencoded(pool)) <= par.refDist - 1
                  /\ flush => Unencoded(pool) = {}
  /\ r[2] # -1 =>
       /\ r[2] \in Unencoded(pool)
       /\ InQueue(par, r[1], Unencoded(pool) \ {r[2]},
                  IF TypeRef(r[1][r[2]]) THEN r[2] ELSE ahead, count, idr)
  /\ Flat(r[1])
  /\ \A f \in Unencoded(pool) :
       r[2] = -1 \/ f < r[2] => f .. count - 1 \subseteq Unencoded(pool)

LEMMA FlatPick ==
  ASSUME NEW par \in FeiConfigs, NEW count \in Nat, NEW idr \in 0 .. count, count > 0 => idr < count,
         NEW pool, DOMAIN pool \subseteq 0 .. count - 1, pool \in [DOMAIN pool -> Tasks], Flat(pool),
         NEW ahead, ahead \in CodedIn(pool) \cup {-1},
         InQueue(par, pool, Unencoded(pool), ahead, count, idr), NEW flush \in BOOLEAN
  PROVE  PickedFlat(par, pool, ahead, count, idr, flush, GetReorderedTask(par, pool, flush))
<1> DEFINE left == Unencoded(pool)
           top == ReorderFrame(pool)
           m == Max(left)
           turned == [pool EXCEPT ![m].kind = "P"]
           r == GetReorderedTask(par, pool, flush)
           as == ~flush \/ top # -1 \/ left = {} \/ Cardinality(left) >= par.refDist
<1>1. /\ as => r = <<pool, top>>
      /\ ~as => r = IF par.strict THEN <<pool, Min(left)>> ELSE <<turned, ReorderFrame(turned)>>
  BY DEF GetReorderedTask
<1>2. DOMAIN pool \subseteq Nat /\ left \subseteq DOMAIN pool /\ Pickable(pool) \subseteq left
  BY DEF Unencoded, Pickable
<1>3. top = IF Pickable(pool) = {} THEN -1 ELSE Min(Pickable(pool))
  BY <1>2, FlatReorder
<1>4. Pickable(pool) # {} =>
        /\ top # -1 /\ top \in left /\ top \in Pickable(pool) /\ \A y \in Pickable(pool) : top <= y
  <2>1. SUFFICES ASSUME Pickable(pool) # {}
                 PROVE  top # -1 /\ top \in left /\ top \in Pickable(pool) /\ \A y \in Pickable(pool) : top <= y
    OBVIOUS
  <2>2. Pickable(pool) \in SUBSET Nat
    BY <1>2
  <2>3. Min(Pickable(pool)) \in Pickable(pool) /\ \A y \in Pickable(pool) : Min(Pickable(pool)) <= y
    BY <2>1, <2>2, MinIs
  <2>4. top \in Pickable(pool) /\ \A y \in Pickable(pool) : top <= y
    BY <1>3, <2>1, <2>3
  <2>5. top \in Nat
    BY <2>2, <2>4
  <2> HIDE DEF top
  <2> QED BY <1>2, <2>4, <2>5
<1> SUFFICES PickedFlat(par, pool, ahead, count, idr, flush, r)
  OBVIOUS
<1> HIDE DEF r, top
<1>5. CASE Pickable(pool) # {}
  <2>1. r[1] = pool /\ r[2] = top
    BY <1>1, <1>4, <1>5
  <2>2. InQueue(par, pool, left \ {top}, IF TypeRef(pool[top]) THEN top ELSE ahead, count, idr)
    BY <1>4, <1>5, PickLeaves
  <2>3. \A f \in left : f < top => f .. count - 1 \subseteq left
    BY <1>4, <1>5, SkippedRun
  <2> QED BY <1>4, <1>5, <2>1, <2>2, <2>3 DEF PickedFlat
<1>6. CASE Pickable(pool) = {}
  <2>1. /\ \A f \in left : pool[f].kind = "B" /\ f .. count - 1 \subseteq left
        /\ IsFiniteSet(left) /\ Cardinality(left) <= par.refDist - 1
    BY <1>6, WaitIs
  <2>2. top = -1 /\ par.refDist \in Nat /\ Cardinality(left) \in Nat
    BY <1>3, <1>6, <2>1, FeiNumbersAre, FS_CardinalityType
  <2>3. ~ (Cardinality(left) >= par.refDist)
    BY <2>1, <2>2
  <2>4. CASE as
    <3>1. r[1] = pool /\ r[2] = -1 /\ (flush => left = {})
      BY <1>1, <2>2, <2>3, <2>4
    <3> QED BY <2>1, <3>1 DEF PickedFlat
  <2>5. CASE ~as /\ par.strict
    <3> DEFINE f0 == Min(left)
    <3>1. f0 \in left /\ \A y \in left : f0 <= y
      <4>1. left # {} /\ left \in SUBSET Nat
        BY <1>2, <2>5
      <4> HIDE DEF left
      <4> QED BY <4>1, MinIs
    <3>2. r[1] = pool /\ r[2] = f0
      BY <1>1, <2>5
    <3> HIDE DEF f0
    <3>3. f0 # -1 /\ ~TypeRef(pool[f0])
      BY <1>2, <2>1, <3>1 DEF TypeRef, Flat
    <3>4. InQueue(par, pool, left \ {f0}, ahead, count, idr)
      <4>1. ASSUME NEW f \in left \ {f0}
            PROVE  /\ f .. count - 1 \subseteq left \ {f0}
                   /\ pool[f].kind # "B" => f > ahead
                   /\ f >= idr => pool[f].kind = FrameKind(par, f - idr)
        <5>1. f \in Nat /\ f0 \in Nat /\ f0 <= f /\ f0 # f /\ f .. count - 1 \subseteq left
          BY <1>2, <2>1, <3>1
        <5>2. f .. count - 1 \subseteq left \ {f0}
          BY <5>1
        <5> QED BY <5>2 DEF InQueue
      <4> QED BY <4>1 DEF InQueue
    <3>5. \A f \in left : f .. count - 1 \subseteq left
      BY <2>1
    <3> QED BY <3>1, <3>2, <3>3, <3>4, <3>5 DEF PickedFlat
  <2>6. CASE ~as /\ ~par.strict
    <3>1. m \in left /\ \A y \in left : y <= m
      <4>1. left # {} /\ left \in SUBSET (0 .. count)
        BY <1>2, <2>6 DEF Unencoded
      <4> HIDE DEF left
      <4> QED BY <4>1, MaxIn
    <3>2. r[1] = turned /\ r[2] = ReorderFrame(turned)
      BY <1>1, <2>6
    <3> HIDE DEF m
    <3>3. m \in DOMAIN pool /\ m \in Nat
      BY <1>2, <3>1
    <3>4. /\ DOMAIN turned = DOMAIN pool
          /\ \A f \in DOMAIN pool : f # m => turned[f] = pool[f]
          /\ turned[m] = [pool[m] EXCEPT !.kind = "P"]
      BY <3>3
    <3>5. /\ turned[m] \in Tasks /\ turned[m].kind = "P" /\ turned[m].order = pool[m].order
          /\ turned[m].gop = pool[m].gop /\ turned[m].coded = pool[m].coded
      <4>1. pool[m] \in Tasks
        BY <3>3
      <4> HIDE DEF turned
      <4> QED BY <3>4, <4>1 DEF Tasks, Kinds
    <3>6. turned \in [DOMAIN turned -> Tasks]
      <4>1. turned = [f \in DOMAIN turned |-> turned[f]]
        OBVIOUS
      <4>2. \A f \in DOMAIN turned : turned[f] \in Tasks
        BY <3>4, <3>5
      <4> HIDE DEF turned
      <4> QED BY <4>1, <4>2
    <3> HIDE DEF turned
    <3>7. Flat(turned)
      BY <3>3, <3>4, <3>5 DEF Flat
    <3>8. Unencoded(turned) = left /\ left # {} /\ \A g \in DOMAIN turned : turned[g].coded <=> pool[g].coded
      BY <2>6, <3>4, <3>5 DEF Unencoded
    <3>9. Pickable(turned) = {m}
      <4>1. m \in Pickable(turned)
        BY <3>1, <3>5, <3>8 DEF Pickable
      <4>2. ASSUME NEW f \in Pickable(turned), f # m PROVE FALSE
        <5>1. f \in left /\ f \in DOMAIN pool /\ turned[f] = pool[f] /\ pool[f].kind = "B"
          BY <1>2, <2>1, <3>4, <3>8, <4>2 DEF Pickable
        <5>2. \E g \in DOMAIN pool : g > f /\ pool[g].coded
          BY <3>4, <3>8, <5>1 DEF Pickable
        <5>3. f \in Pickable(pool)
          BY <5>1, <5>2 DEF Pickable
        <5> QED BY <1>6, <5>3
      <4> QED BY <4>1, <4>2
    <3>10. ReorderFrame(turned) = m
      <4>1. ReorderFrame(turned) = IF Pickable(turned) = {} THEN -1 ELSE Min(Pickable(turned))
        BY <1>2, <3>4, <3>6, <3>7, FlatReorder
      <4>2. Min({m}) = m
        BY <3>3, MinIs
      <4> QED BY <3>9, <4>1, <4>2
    <3>11. InQueue(par, turned, left \ {m}, m, count, idr)
      <4>1. ASSUME NEW f \in left \ {m}
            PROVE  /\ f < m /\ turned[f].kind = "B"
                   /\ f >= idr => turned[f].kind = FrameKind(par, f - idr)
        <5>1. f \in Nat /\ f <= m /\ f # m /\ f \in DOMAIN pool /\ turned[f] = pool[f]
          BY <1>2, <3>1, <3>4
        <5>2. f < m
          BY <3>3, <5>1
        <5> QED BY <2>1, <5>1, <5>2 DEF InQueue
      <4> QED BY <4>1 DEF InQueue
    <3>12. TypeRef(turned[m]) /\ m # -1
      BY <3>3, <3>5 DEF TypeRef
    <3>13. r[2] = m /\ r[1] = turned
      BY <3>2, <3>10
    <3>14. \A f \in left : f .. count - 1 \subseteq left
      BY <2>1
    <3> QED BY <3>1, <3>7, <3>8, <3>11, <3>12, <3>13, <3>14 DEF PickedFlat
  <2> QED BY <2>4, <2>5, <2>6
<1> QED BY <1>5, <1>6

-----------------------------------------------------------------------------
(* Each step keeps the queue of an encoder without a pyramid. *)

LEMMA AheadIs ==
  ASSUME NEW par, NEW pool, NEW post, Buffer(par, post), FramesOf(post) \subseteq CodedIn(pool)
  PROVE  Newer(post) \in CodedIn(pool) \cup {-1}
<1>1. post \in Seq(Entries)
  BY DEF Buffer
<1>2. CASE post = << >>
  BY <1>2 DEF Newer
<1>3. CASE post # << >>
  <2>1. Len(post) \in 1 .. Len(post)
    BY <1>1, <1>3, SeqIs
  <2>2. post[Len(post)].frame \in FramesOf(post)
    BY <1>1, <2>1, BufferIsSmall
  <2> QED BY <1>3, <2>2 DEF Newer
<1> QED BY <1>2, <1>3

\* The pool is what is coded, and what waits.
LEMMA PoolIs ==
  ASSUME FInv
  PROVE  /\ IsFiniteSet(DOMAIN feiPool) /\ Cardinality(DOMAIN feiPool) \in Nat
         /\ IsFiniteSet(Unencoded(feiPool)) /\ Cardinality(Unencoded(feiPool)) \in Nat
         /\ Cardinality(DOMAIN feiPool) <= NumRef(feiPar) + Cardinality(Unencoded(feiPool))
<1>1. feiPar \in FeiConfigs /\ feiCount \in Nat /\ DOMAIN feiPool \subseteq 0 .. feiCount - 1
      /\ Cardinality(CodedIn(feiPool)) <= NumRef(feiPar)
  BY DEF FInv, FTypes, FPool
<1>2. IsFiniteSet(DOMAIN feiPool)
  <2>1. IsFiniteSet(0 .. feiCount - 1)
    BY <1>1, FS_Interval
  <2> QED BY <1>1, <2>1, FS_Subset
<1>3. DOMAIN feiPool = CodedIn(feiPool) \cup Unencoded(feiPool)
      /\ CodedIn(feiPool) \cap Unencoded(feiPool) = {}
  BY DEF CodedIn, Unencoded
<1>4. IsFiniteSet(CodedIn(feiPool)) /\ IsFiniteSet(Unencoded(feiPool))
  BY <1>2, <1>3, FS_Subset
<1>5. /\ Cardinality(CodedIn(feiPool)) \in Nat /\ Cardinality(Unencoded(feiPool)) \in Nat
      /\ Cardinality(DOMAIN feiPool) \in Nat /\ NumRef(feiPar) \in Nat
  BY <1>1, <1>2, <1>4, FS_CardinalityType, FeiNumbersAre
<1>6. Cardinality(CodedIn(feiPool) \cup Unencoded(feiPool))
        = Cardinality(CodedIn(feiPool)) + Cardinality(Unencoded(feiPool))
            - Cardinality(CodedIn(feiPool) \cap Unencoded(feiPool))
  BY <1>4, FS_Union
<1>7. Cardinality({}) = 0
  BY FS_EmptySet
<1>8. Cardinality(DOMAIN feiPool) = Cardinality(CodedIn(feiPool)) + Cardinality(Unencoded(feiPool))
  <2>1. Cardinality(DOMAIN feiPool) = Cardinality(CodedIn(feiPool) \cup Unencoded(feiPool))
    BY <1>3, Zenon
  <2>2. Cardinality(CodedIn(feiPool) \cap Unencoded(feiPool)) = 0
    BY <1>3, <1>7, Zenon
  <2> QED BY <1>5, <1>6, <2>1, <2>2
<1> QED BY <1>1, <1>2, <1>4, <1>5, <1>8

\* A frame joins those that wait.
LEMMA JoinsQueue ==
  ASSUME NEW par \in FeiConfigs, NEW count \in Nat, NEW idr \in 0 .. count,
         NEW pool, DOMAIN pool \subseteq 0 .. count - 1,
         NEW ahead, ahead \in CodedIn(pool) \cup {-1},
         InQueue(par, pool, Unencoded(pool), ahead, count, idr),
         NEW more, DOMAIN more = DOMAIN pool \cup {count},
         \A f \in DOMAIN pool : more[f] = pool[f],
         more[count].kind = NextKind(par, count, idr), ~more[count].coded
  PROVE  /\ InQueue(par, more, Unencoded(more), ahead, count + 1, NextBase(par, count, idr))
         /\ Unencoded(more) = Unencoded(pool) \cup {count} /\ count \notin Unencoded(pool)
         /\ NextBase(par, count, idr) \in 0 .. count
<1> DEFINE left == Unencoded(pool)
           base == NextBase(par, count, idr)
<1>1. Unencoded(more) = left \cup {count} /\ count \notin left /\ left \subseteq DOMAIN pool
  BY DEF Unencoded
<1>2. ahead \in Int /\ ahead < count
  BY DEF CodedIn
<1>3. base \in 0 .. count /\ (base = idr \/ base = count)
      /\ (base = count /\ base # idr => NextKind(par, count, idr) = "IDR")
      /\ NextKind(par, count, idr) = FrameKind(par, count - idr)
  BY DEF NextBase, NextKind
<1> HIDE DEF base
<1>4. more[count].kind = FrameKind(par, count - base)
  <2>1. CASE base = idr
    BY <1>3, <2>1
  <2>2. CASE base = count /\ base # idr
    <3>1. FrameKind(par, 0) = "IDR" /\ count - base = 0
      BY <2>2, BreakIs
    <3> QED BY <1>3, <2>2, <3>1
  <2> QED BY <1>3, <2>1, <2>2
<1>5. ASSUME NEW f \in left
      PROVE  /\ f < ahead \/ f .. (count + 1) - 1 \subseteq left \cup {count}
             /\ more[f].kind # "B" => f > ahead
             /\ f >= base => more[f].kind = FrameKind(par, f - base)
  <2>1. f \in Nat /\ f < count /\ more[f] = pool[f]
    BY <1>1
  <2>2. /\ f < ahead \/ f .. count - 1 \subseteq left
        /\ pool[f].kind # "B" => f > ahead
        /\ f >= idr => pool[f].kind = FrameKind(par, f - idr)
    BY DEF InQueue
  <2>3. f .. count - 1 \subseteq left => f .. (count + 1) - 1 \subseteq left \cup {count}
    <3> HIDE DEF left
    <3> QED BY <2>1
  <2>4. f >= base => base = idr
    BY <1>3, <2>1
  <2> HIDE DEF left
  <2> QED BY <2>1, <2>2, <2>3, <2>4
<1>6. /\ count .. (count + 1) - 1 \subseteq left \cup {count}
      /\ count > ahead
  <2> HIDE DEF left
  <2> QED BY <1>2
<1> HIDE DEF left
<1>7. InQueue(par, more, left \cup {count}, ahead, count + 1, base)
  BY <1>4, <1>5, <1>6 DEF InQueue
<1> QED BY <1>1, <1>3, <1>7 DEF base, left

\* Those that wait behind a frame, and before it.
LEMMA TailIs ==
  ASSUME NEW count \in Nat, NEW left \in SUBSET (0 .. count - 1), NEW f \in left,
         f .. count - 1 \subseteq left
  PROVE  /\ IsFiniteSet(left) /\ Cardinality(left) \in Nat
         /\ Cardinality(Before(left, f)) \in Nat
         /\ count + Cardinality(Before(left, f)) = f + Cardinality(left)
<1>1. f \in Nat /\ f < count
  OBVIOUS
<1>2. IsFiniteSet(left)
  <2>1. IsFiniteSet(0 .. count - 1)
    BY FS_Interval
  <2> QED BY <2>1, FS_Subset
<1> DEFINE b == Before(left, f)
           t == f .. count - 1
<1>3. left = b \cup t /\ b \cap t = {}
  <2>1. \A x \in left : x \in Int /\ x <= count - 1 /\ (x < f \/ x >= f)
    BY <1>1
  <2>2. \A x \in left : x \in b \/ x \in t
    BY <1>1, <2>1 DEF Before
  <2>3. b \subseteq left /\ t \subseteq left
    BY DEF Before
  <2>4. \A x \in b : x \notin t
    BY <1>1, <2>1 DEF Before
  <2> HIDE DEF b, t
  <2> QED BY <2>2, <2>3, <2>4
<1>4. IsFiniteSet(b)
  <2>1. b \subseteq left
    BY DEF Before
  <2> QED BY <1>2, <2>1, FS_Subset
<1>5. IsFiniteSet(t) /\ Cardinality(t) = count - f
  <2>1. f \in Int /\ count - 1 \in Int /\ ~ (f > count - 1) /\ (count - 1) - f + 1 = count - f
    BY <1>1
  <2>2. Cardinality(t) = IF f > count - 1 THEN 0 ELSE (count - 1) - f + 1
    BY <2>1, FS_Interval
  <2>3. IsFiniteSet(t)
    BY <2>1, FS_Interval
  <2> QED BY <2>1, <2>2, <2>3
<1> HIDE DEF b, t
<1>6. Cardinality(b \cup t) = Cardinality(b) + Cardinality(t) - Cardinality(b \cap t)
  BY <1>4, <1>5, FS_Union
<1>7. Cardinality(b \cap t) = 0
  BY <1>3, FS_EmptySet, Zenon
<1>8. Cardinality(left) = Cardinality(b \cup t)
  BY <1>3, Zenon
<1>9. Cardinality(b) \in Nat /\ Cardinality(left) \in Nat
  BY <1>2, <1>4, FS_CardinalityType
<1>10. count + Cardinality(b) = f + Cardinality(left)
  BY <1>1, <1>5, <1>6, <1>7, <1>8, <1>9
<1> QED BY <1>2, <1>9, <1>10 DEF b

LEMMA WaitsAdd ==
  ASSUME NEW count \in Nat, NEW left \in SUBSET (0 .. count - 1), NEW d \in Nat,
         Waits(left, count, d), Cardinality(left) <= d
  PROVE  Waits(left \cup {count}, count + 1, d + 1)
<1> DEFINE all == left \cup {count}
<1>1. SUFFICES ASSUME NEW f \in all
               PROVE  (count + 1) + Cardinality(Before(all, f)) <= f + (d + 1)
  BY DEF Waits
<1>2. IsFiniteSet(left) /\ Cardinality(left) \in Nat
  <2>1. IsFiniteSet(0 .. count - 1)
    BY FS_Interval
  <2> QED BY <2>1, FS_Subset, FS_CardinalityType
<1>3. CASE f \in left
  <2>1. f \in Nat /\ f < count
    BY <1>3
  <2>2. Before(all, f) = Before(left, f)
    BY <2>1 DEF Before
  <2>3. Cardinality(Before(all, f)) = Cardinality(Before(left, f))
    BY <2>2, Zenon
  <2>4. Before(left, f) \subseteq left
    BY DEF Before
  <2>5. Cardinality(Before(left, f)) \in Nat
    BY <1>2, <2>4, FS_Subset, FS_CardinalityType
  <2>6. count + Cardinality(Before(left, f)) <= f + d
    BY <1>3 DEF Waits
  <2> QED BY <2>1, <2>3, <2>5, <2>6
<1>4. CASE f = count
  <2>1. Before(all, f) = left
    <3>1. \A x \in left : x < count /\ x \in all
      OBVIOUS
    <3>2. ~ (count < count)
      OBVIOUS
    <3>3. \A x \in all : x \in left \/ x = count
      OBVIOUS
    <3> HIDE DEF all
    <3> QED BY <1>4, <3>1, <3>2, <3>3 DEF Before
  <2>2. Cardinality(Before(all, f)) = Cardinality(left)
    BY <2>1, Zenon
  <2> QED BY <1>2, <1>4, <2>2
<1> QED BY <1>3, <1>4

\* When none can be picked, or one that those before it wait for.
LEMMA WaitsPick ==
  ASSUME NEW count \in Nat, NEW left \in SUBSET (0 .. count - 1), NEW d \in Nat,
         Cardinality(left) <= d, NEW p \in Int,
         \A f \in left : p = -1 \/ f < p => f .. count - 1 \subseteq left,
         p # -1 => p \in left /\ Waits(left, count, d + 1)
  PROVE  Waits(left \ {p}, count, d)
<1> DEFINE rest == left \ {p}
<1>1. SUFFICES ASSUME NEW f \in rest
               PROVE  count + Cardinality(Before(rest, f)) <= f + d
  BY DEF Waits
<1>2. IsFiniteSet(left) /\ Cardinality(left) \in Nat /\ f \in Nat /\ f \in left /\ f # p
  <2>1. IsFiniteSet(0 .. count - 1)
    BY FS_Interval
  <2>2. f \in left /\ f # p
    BY <1>1
  <2>3. f \in Nat
    BY <2>2
  <2>4. IsFiniteSet(left)
    BY <2>1, FS_Subset
  <2> QED BY <2>2, <2>3, <2>4, FS_CardinalityType
<1>3. IsFiniteSet(Before(left, f)) /\ Cardinality(Before(left, f)) \in Nat
  <2>1. Before(left, f) \subseteq left
    BY DEF Before
  <2> QED BY <1>2, <2>1, FS_Subset, FS_CardinalityType
<1>4. CASE p = -1 \/ f < p
  <2>1. f .. count - 1 \subseteq left
    BY <1>2, <1>4
  <2>2. count + Cardinality(Before(left, f)) = f + Cardinality(left)
    BY <1>2, <2>1, TailIs
  <2>3. Before(rest, f) = Before(left, f)
    <3>1. p \notin Before(left, f)
      BY <1>2, <1>4 DEF Before
    <3> QED BY <3>1 DEF Before
  <2>4. Cardinality(Before(rest, f)) = Cardinality(Before(left, f))
    BY <2>3, Zenon
  <2> QED BY <1>2, <1>3, <2>2, <2>4
<1>5. CASE p # -1 /\ ~ (f < p)
  <2>1. p \in left /\ p < f /\ Waits(left, count, d + 1)
    BY <1>2, <1>5
  <2>2. count + Cardinality(Before(left, f)) <= f + (d + 1)
    BY <1>2, <2>1 DEF Waits
  <2>3. p \in Before(left, f) /\ Before(rest, f) = Before(left, f) \ {p}
    BY <2>1 DEF Before
  <2>4. Cardinality(Before(left, f) \ {p}) = Cardinality(Before(left, f)) - 1
    BY <1>3, <2>3, FS_RemoveElement
  <2>5. Cardinality(Before(rest, f)) = Cardinality(Before(left, f) \ {p})
    BY <2>3, Zenon
  <2> QED BY <1>2, <1>3, <2>2, <2>4, <2>5
<1> QED BY <1>4, <1>5

LEMMA EAdd ==
  ASSUME FInv, EInv, FInv', feiPar.bref = "off", NEW surface \in Nat \cup {-1}, AddTask(surface),
         feiPc = "get",
         feiEnd # "reset" => surface = feiCount /\ feiCount < FeiFrames,
         feiEnd = "reset" => surface = feiBuf,
         UNCHANGED <<feiPar, feiRun, feiEos, feiEnd, feiBuf, feiLast, feiTask, feiSets, feiOut, feiBack, feiFault>>
  PROVE  EInv'
<1> DEFINE base == NextBase(feiPar, feiCount, feiIdr)
           task == NextTask(feiPar, feiCount, feiIdr, surface)
           kind == NextKind(feiPar, feiCount, feiIdr)
           left == Unencoded(feiPool)
           ahead == Newer(feiLast.post)
           D == feiPar.refDist
<1>1. /\ feiPar \in FeiConfigs /\ feiCount \in Nat /\ feiIdr \in 0 .. feiCount
      /\ DOMAIN feiPool \subseteq 0 .. feiCount - 1 /\ feiPool \in [DOMAIN feiPool -> Tasks]
      /\ Buffer(feiPar, feiLast.post) /\ FramesOf(feiLast.post) \subseteq CodedIn(feiPool)
  BY DEF FInv, FTypes, FPool
<1>2. ~Working /\ Alive /\ feiPar' = feiPar
  BY DEF Working, Alive
<1>3. /\ Drained /\ Emptied /\ Once
      /\ "ds" \notin feiShort
      /\ InQueue(feiPar, feiPool, left, ahead, feiCount, feiIdr)
      /\ Cardinality(left) <= D - 1 /\ Waits(left, feiCount, D + 0) /\ Flat(feiPool)
      /\ feiCount <= FeiFrames + D
  BY <1>2 DEF EInv, FQueue, Unpicked, Ahead
<1>4. /\ D \in Nat /\ D >= 1 /\ NumRef(feiPar) \in 2 .. 4 /\ MaxQueue(feiPar) \in Nat
      /\ MaxQueue(feiPar) >= NumRef(feiPar) + D
  BY <1>1, FeiNumbersAre
<1>5. /\ IsFiniteSet(DOMAIN feiPool) /\ Cardinality(DOMAIN feiPool) \in Nat
      /\ IsFiniteSet(left) /\ Cardinality(left) \in Nat
      /\ Cardinality(DOMAIN feiPool) <= NumRef(feiPar) + Cardinality(left)
  BY PoolIs
<1>6. Cardinality(WithSurface(feiPool)) # MaxQueue(feiPar)
  <2>1. WithSurface(feiPool) \subseteq DOMAIN feiPool
    BY DEF WithSurface
  <2>2. Cardinality(WithSurface(feiPool)) <= Cardinality(DOMAIN feiPool)
        /\ Cardinality(WithSurface(feiPool)) \in Nat
    BY <1>5, <2>1, FS_Subset, FS_CardinalityType
  <2> QED BY <1>3, <1>4, <1>5, <2>2
<1>7. /\ feiCount' = feiCount + 1 /\ feiIdr' = base
      /\ feiPool' = [f \in DOMAIN feiPool \cup {feiCount} |-> IF f = feiCount THEN task ELSE feiPool[f]]
      /\ feiPc' = "pick" /\ feiShort' = feiShort
  BY <1>6 DEF AddTask, NextKind, NextBase, NextTask
<1>8. /\ task \in Tasks /\ task.kind = kind /\ task.surface = surface /\ ~task.coded
      /\ task.order = 0 /\ task.gop = 0 /\ (kind = "B" => ~task.ref)
  <2>1. task \in Tasks /\ task.kind = kind /\ ~task.coded
    BY <1>1, NewTaskIs
  <2>2. task.order = 0 /\ task.gop = 0 /\ (kind = "B" => ~task.ref)
    BY <1>1, NewTaskIs
  <2>3. task.surface = surface
    BY DEF NextTask, NewTask
  <2> QED BY <2>1, <2>2, <2>3
<1> HIDE DEF task, base, kind, D
<1>9. /\ DOMAIN feiPool' = DOMAIN feiPool \cup {feiCount} /\ feiCount \notin DOMAIN feiPool
      /\ \A f \in DOMAIN feiPool : feiPool'[f] = feiPool[f]
      /\ feiPool'[feiCount] = task
  BY <1>1, <1>7
<1>10. ahead \in CodedIn(feiPool) \cup {-1}
  BY <1>1, AheadIs
<1> HIDE DEF ahead, left
<1>11. /\ InQueue(feiPar, feiPool', Unencoded(feiPool'), ahead, feiCount + 1, base)
       /\ Unencoded(feiPool') = left \cup {feiCount} /\ feiCount \notin left
       /\ base \in 0 .. feiCount
  <2> DEFINE more == feiPool'
  <2>1. /\ DOMAIN more = DOMAIN feiPool \cup {feiCount} /\ \A f \in DOMAIN feiPool : more[f] = feiPool[f]
        /\ more[feiCount].kind = NextKind(feiPar, feiCount, feiIdr) /\ ~more[feiCount].coded
    BY <1>8, <1>9 DEF kind
  <2>2. InQueue(feiPar, feiPool, Unencoded(feiPool), ahead, feiCount, feiIdr)
    BY <1>3 DEF left
  <2>3. /\ feiPar \in FeiConfigs /\ feiCount \in Nat /\ feiIdr \in 0 .. feiCount
        /\ DOMAIN feiPool \subseteq 0 .. feiCount - 1
    BY <1>1
  <2> HIDE DEF more
  <2>4. /\ InQueue(feiPar, more, Unencoded(more), ahead, feiCount + 1, NextBase(feiPar, feiCount, feiIdr))
        /\ Unencoded(more) = Unencoded(feiPool) \cup {feiCount} /\ feiCount \notin Unencoded(feiPool)
        /\ NextBase(feiPar, feiCount, feiIdr) \in 0 .. feiCount
    BY <1>10, <2>1, <2>2, <2>3, JoinsQueue
  <2> QED BY <2>4 DEF more, base, left
<1>12. ~Working' /\ Alive' /\ Ahead' = ahead /\ Unpicked' = Unencoded(feiPool')
  BY <1>7 DEF Working, Alive, Ahead, Unpicked, ahead, Newer, Unencoded
<1>13. IsFiniteSet(left \cup {feiCount}) /\ Cardinality(left \cup {feiCount}) = Cardinality(left) + 1
  BY <1>5, <1>11, FS_AddElement
<1>14. FQueue'
  <2>1. Flat(feiPool')
    BY <1>3, <1>8, <1>9 DEF Flat
  <2>2. Cardinality(Unpicked') <= D
    BY <1>3, <1>4, <1>5, <1>11, <1>12, <1>13
  <2>3. D \in Int => D - 0 = D
    OBVIOUS
  <2>4. InQueue(feiPar, feiPool', Unpicked', Ahead', feiCount', feiIdr')
    BY <1>7, <1>11, <1>12
  <2>5. InQueue(feiPar, feiPool, Unpicked, Ahead, feiCount, feiIdr)'
    BY <1>2, <2>4 DEF InQueue
  <2>6. Flat(feiPool)'
    BY <2>1 DEF Flat
  <2>7. Waits(Unpicked, feiCount, D + 1)'
    <3>1. left \in SUBSET (0 .. feiCount - 1)
      BY <1>1 DEF left, Unencoded
    <3>2. Waits(left, feiCount, D) /\ Cardinality(left) <= D
      <4>1. D + 0 = D
        BY <1>4
      <4> QED BY <1>3, <1>4, <1>5, <4>1
    <3>3. Waits(left \cup {feiCount}, feiCount + 1, D + 1)
      BY <1>1, <1>4, <3>1, <3>2, WaitsAdd
    <3>4. Waits(Unpicked', feiCount', D + 1)
      BY <1>7, <1>11, <1>12, <3>3
    <3> QED BY <1>2, <3>4 DEF Waits, Before, D
  <2> QED BY <1>2, <1>4, <1>7, <2>2, <2>3, <2>5, <2>6, <2>7 DEF FQueue, D
<1>15. Drained'
  <2>1. ~feiEos'
    BY <1>2, <1>3 DEF Drained
  <2>2. feiIdr' < feiCount'
    BY <1>1, <1>7, <1>11
  <2>3. feiEnd' # "reset" => \A f \in DOMAIN feiPool' : feiPool'[f].surface = f
    BY <1>3, <1>8, <1>9 DEF Drained
  <2>5. Unencoded(feiPool)' = Unencoded(feiPool')
    BY DEF Unencoded
  <2> QED BY <1>7, <2>1, <2>2, <2>3, <2>5 DEF Drained
<1>16. Once'
  <2>1. DoneIn(feiPool, feiCount)' = DoneIn(feiPool, feiCount)
    <3>1. (0 .. (feiCount + 1) - 1) \ (left \cup {feiCount}) = (0 .. feiCount - 1) \ left
      BY <1>1
    <3> QED BY <1>7, <1>11, <3>1, Zenon DEF DoneIn, left
  <2> QED BY <1>3, <2>1, Zenon DEF Once
<1>19. Emptied'
  <2>1. FeiFrames \in Nat
    BY FeiAssumption
  <2>2. \A f \in Unencoded(feiPool) : f \in Unencoded(feiPool') /\ feiPool'[f] = feiPool[f]
    BY <1>9 DEF Unencoded
  <2>3. feiCount \in Unencoded(feiPool')
    BY <1>11
  <2>4. CASE feiEnd # "reset"
    BY <1>1, <1>7, <2>1, <2>4 DEF Emptied
  <2>5. CASE feiEnd = "reset" /\ feiBuf = -1 /\ feiCount < FeiFrames
    <3>1. feiPool'[feiCount].surface = -1
      BY <1>8, <1>9, <2>5
    <3> QED BY <2>3, <2>5, <3>1 DEF Emptied, Unencoded
  <2>6. CASE \E f \in Unencoded(feiPool) : f < FeiFrames /\ feiPool[f].surface = -1
    <3>1. \E f \in Unencoded(feiPool') : f < FeiFrames /\ feiPool'[f].surface = -1
      BY <2>2, <2>6
    <3> QED BY <3>1, <2>4 DEF Emptied, Unencoded
  <2> QED BY <1>3, <2>4, <2>5, <2>6 DEF Emptied
<1>17. feiCount' <= FeiFrames + D
  <2>1. FeiFrames \in Nat
    BY FeiAssumption
  <2>2. CASE feiCount < FeiFrames
    BY <1>1, <1>4, <1>7, <2>1, <2>2 DEF D
  <2>3. CASE \E f \in Unencoded(feiPool) : f < FeiFrames
    <3>1. PICK f \in left : f < FeiFrames
      BY <2>3 DEF left
    <3>2. f \in Nat
      BY <1>1 DEF left, Unencoded
    <3>3. feiCount + Cardinality(Before(left, f)) <= f + (D + 0)
      BY <1>3 DEF Waits
    <3>4. Cardinality(Before(left, f)) \in Nat
      <4>1. Before(left, f) \subseteq left
        BY DEF Before
      <4> QED BY <1>5, <4>1, FS_Subset, FS_CardinalityType
    <3> QED BY <1>1, <1>4, <1>7, <2>1, <3>1, <3>2, <3>3, <3>4 DEF D
  <2> QED BY <1>3, <2>2, <2>3 DEF Emptied
<1>18. Cardinality(DOMAIN feiPool') <= NumRef(feiPar) + D
  <2>1. Cardinality(DOMAIN feiPool \cup {feiCount}) = Cardinality(DOMAIN feiPool) + 1
    BY <1>5, <1>9, FS_AddElement
  <2> QED BY <1>3, <1>4, <1>5, <1>9, <2>1 DEF D
<1> QED BY <1>2, <1>3, <1>7, <1>12, <1>14, <1>15, <1>16, <1>17, <1>18, <1>19 DEF EInv, D

LEMMA EPick ==
  ASSUME FInv, EInv, FeiPick, feiPar.bref = "off"
  PROVE  EInv'
<1> DEFINE first == GetReorderedTask(feiPar, feiPool, FALSE)
           flushed == GetReorderedTask(feiPar, feiPool, TRUE)
           found == IF first[2] = -1 /\ feiEnd = "eos" THEN flushed ELSE first
           frame == found[2]
           left == Unencoded(feiPool)
           ahead == Newer(feiLast.post)
           D == feiPar.refDist
<1>1. /\ feiPar \in FeiConfigs /\ feiCount \in Nat /\ feiIdr \in 0 .. feiCount
      /\ DOMAIN feiPool \subseteq 0 .. feiCount - 1 /\ feiPool \in [DOMAIN feiPool -> Tasks]
      /\ feiLast.num \in Nat /\ feiLast.inc \in Nat /\ Buffer(feiPar, feiLast.post)
      /\ FramesOf(feiLast.post) \subseteq CodedIn(feiPool)
  BY DEF FInv, FTypes, FPool
<1>2. feiPc = "pick" /\ ~Working /\ Alive
  BY DEF FeiPick, Working, Alive
<1>3. /\ Drained /\ Emptied /\ Once
      /\ "ds" \notin feiShort /\ feiCount <= FeiFrames + D
      /\ Cardinality(DOMAIN feiPool) <= NumRef(feiPar) + D
      /\ InQueue(feiPar, feiPool, left, ahead, feiCount, feiIdr)
      /\ Cardinality(left) <= D - 0 /\ Waits(left, feiCount, D + 1) /\ Flat(feiPool)
  BY <1>2 DEF EInv, FQueue, Unpicked, Ahead
<1>4. D \in Nat /\ D >= 1
  BY <1>1, FeiNumbersAre
<1>5. IsFiniteSet(left) /\ Cardinality(left) \in Nat
  BY PoolIs
<1>6. feiCount > 0 => feiIdr < feiCount
  BY <1>3 DEF Drained
<1>7. ahead \in CodedIn(feiPool) \cup {-1}
  BY <1>1, AheadIs
<1>8. /\ PickedFlat(feiPar, feiPool, ahead, feiCount, feiIdr, FALSE, first)
      /\ PickedFlat(feiPar, feiPool, ahead, feiCount, feiIdr, TRUE, flushed)
  <2> HIDE DEF ahead
  <2>1. InQueue(feiPar, feiPool, Unencoded(feiPool), ahead, feiCount, feiIdr)
    BY <1>3
  <2> QED BY <1>1, <1>3, <1>6, <1>7, <2>1, FlatPick
<1>9. Picked(feiPool, first) /\ Picked(feiPool, flushed)
  BY <1>1, PickedIs
<1>10. /\ feiPc = "pick"
       /\ IF frame = -1
            THEN /\ feiEnd = "eos" => feiEos' = TRUE /\ feiRun' = FALSE /\ feiPc' = "exit"
                 /\ feiEnd # "eos" => feiPc' = "get" /\ UNCHANGED <<feiEos, feiRun>>
                 /\ UNCHANGED <<feiTasks, feiShort>>
            ELSE /\ feiPool' = found[1]
                 /\ feiTask' = Fill(feiPar, found[1][frame], frame, feiLast)
                 /\ IF feiPar.pipeline = "enc+pak"
                       /\ Cardinality({f \in DOMAIN feiPool : feiPool[f].coded}) = feiPar.recon
                      THEN feiPc' = "dead" /\ feiShort' = feiShort \cup {"recon"}
                      ELSE feiPc' = "preenc" /\ UNCHANGED feiShort
                 /\ UNCHANGED <<feiEos, feiRun, feiLast>>
       /\ UNCHANGED <<feiPar, feiInput, feiSets, feiOut, feiBack, feiFault>>
  BY DEF FeiPick
<1> HIDE DEF first, flushed
<1>11. /\ frame = -1 => Cardinality(left) <= D - 1 /\ (feiEnd = "eos" => left = {})
       /\ frame # -1 => InQueue(feiPar, found[1], left \ {frame},
                                IF TypeRef(found[1][frame]) THEN frame ELSE ahead, feiCount, feiIdr)
       /\ Flat(found[1])
       /\ \A f \in left : frame = -1 \/ f < frame => f .. feiCount - 1 \subseteq left
  <2>1. PickedFlat(feiPar, feiPool, ahead, feiCount, feiIdr, feiEnd = "eos", found)
    <3> HIDE DEF ahead, D, left
    <3>1. CASE first[2] = -1 /\ feiEnd = "eos"
      BY <1>8, <3>1
    <3>2. CASE first[2] = -1 /\ feiEnd # "eos"
      BY <1>8, <3>2 DEF PickedFlat
    <3>3. CASE first[2] # -1
      BY <1>8, <3>3 DEF PickedFlat
    <3> QED BY <3>1, <3>2, <3>3
  <2> HIDE DEF found
  <2> QED BY <2>1 DEF PickedFlat
<1>12. Picked(feiPool, found)
  BY <1>9
<1> HIDE DEF found
<1>13. /\ DOMAIN found[1] = DOMAIN feiPool /\ found[1] \in [DOMAIN feiPool -> Tasks]
       /\ Unencoded(found[1]) = left
       /\ frame \in left \cup {-1}
       /\ \A f \in DOMAIN feiPool : found[1][f].surface = feiPool[f].surface
  <2>1. \A f \in DOMAIN feiPool :
          feiPool[f] \in Tasks /\ (found[1][f] = feiPool[f] \/ found[1][f] = [feiPool[f] EXCEPT !.kind = "P"])
    BY <1>1, <1>12 DEF Picked
  <2>2. \A f \in DOMAIN feiPool : found[1][f].surface = feiPool[f].surface
    BY <2>1 DEF Tasks
  <2> QED BY <1>12, <2>2 DEF Picked
<1>14. /\ feiPar' = feiPar /\ feiCount' = feiCount /\ feiIdr' = feiIdr /\ feiEnd' = feiEnd
       /\ feiOut' = feiOut /\ feiBack' = feiBack /\ feiFault' = feiFault
       /\ feiShort' \subseteq feiShort \cup {"recon"} /\ feiLast' = feiLast
  BY <1>10 DEF feiInput, feiTasks
<1>19. Waits(left \ {frame}, feiCount, D)
  <2>1. left \in SUBSET (0 .. feiCount - 1) /\ frame \in Int
    BY <1>1, <1>13 DEF Unencoded
  <2>2. Cardinality(left) <= D
    BY <1>3, <1>4, <1>5
  <2>3. frame # -1 => frame \in left /\ Waits(left, feiCount, D + 1)
    BY <1>3, <1>13
  <2>4. \A f \in left : frame = -1 \/ f < frame => f .. feiCount - 1 \subseteq left
    BY <1>11
  <2> HIDE DEF left, frame, D
  <2> QED BY <1>1, <1>4, <2>1, <2>2, <2>3, <2>4, WaitsPick
<1>15. /\ DOMAIN feiPool' = DOMAIN feiPool /\ Unencoded(feiPool') = left
       /\ \A f \in DOMAIN feiPool : feiPool'[f].surface = feiPool[f].surface
  <2>1. CASE frame = -1
    BY <1>10, <2>1 DEF feiTasks
  <2>2. CASE frame # -1
    BY <1>10, <1>13, <2>2
  <2> QED BY <2>1, <2>2
<1> HIDE DEF frame, left, ahead, D
<1>16. (Alive => FQueue)'
  <2>1. CASE frame = -1 /\ feiEnd = "eos"
    BY <1>10, <2>1 DEF Alive
  <2>2. CASE frame = -1 /\ feiEnd # "eos"
    <3>1. feiPc' = "get" /\ feiPool' = feiPool
      BY <1>10, <2>2 DEF feiTasks
    <3>2. ~Working' /\ Ahead' = ahead /\ Unpicked' = left
      BY <1>14, <3>1 DEF Working, Ahead, Unpicked, ahead, left, Newer, Unencoded
    <3>3. InQueue(feiPar, feiPool, Unpicked, Ahead, feiCount, feiIdr)'
      <4>1. InQueue(feiPar, feiPool', Unpicked', Ahead', feiCount', feiIdr')
        BY <1>3, <1>14, <3>1, <3>2, Zenon
      <4> QED BY <1>14, <4>1 DEF InQueue
    <3>4. Flat(feiPool)'
      BY <1>3, <3>1 DEF Flat
    <3>5. Waits(Unpicked, feiCount, D + 0)'
      <4>1. left \ {frame} = left
        BY <1>1, <2>2 DEF left, Unencoded
      <4>2. Waits(Unpicked', feiCount', D + 0)
        BY <1>4, <1>14, <1>19, <3>2, <4>1 DEF D
      <4> QED BY <1>14, <4>2 DEF Waits, Before, D
    <3> QED BY <1>11, <1>14, <2>2, <3>1, <3>2, <3>3, <3>4, <3>5 DEF FQueue, D
  <2>3. CASE frame # -1 /\ feiPc' = "preenc"
    <3>1. feiPool' = found[1] /\ feiTask' = Fill(feiPar, found[1][frame], frame, feiLast)
      BY <1>10, <2>3
    <3>2. frame \in left /\ frame \in Nat /\ found[1][frame] \in Tasks
      BY <1>1, <1>13, <2>3 DEF left, Unencoded
    <3>3. /\ feiTask'.frame = frame
          /\ Newer(feiTask'.post) = IF TypeRef(found[1][frame]) THEN frame ELSE Newer(feiLast.post)
      BY <1>1, <3>1, <3>2, FilledIs
    <3>4. Working' /\ Ahead' = Newer(feiTask'.post) /\ Unpicked' = left \ {frame}
      BY <1>15, <2>3, <3>3 DEF Working, Ahead, Unpicked, Newer, Unencoded
    <3>5. InQueue(feiPar, feiPool, Unpicked, Ahead, feiCount, feiIdr)'
      <4>1. InQueue(feiPar, found[1], left \ {frame},
                    IF TypeRef(found[1][frame]) THEN frame ELSE ahead, feiCount, feiIdr)
        BY <1>11, <2>3
      <4>2. Ahead' = IF TypeRef(found[1][frame]) THEN frame ELSE ahead
        BY <3>3, <3>4 DEF ahead
      <4>3. InQueue(feiPar, feiPool', Unpicked', Ahead', feiCount', feiIdr')
        BY <1>14, <3>1, <3>4, <4>1, <4>2, Zenon
      <4> QED BY <1>14, <4>3 DEF InQueue
    <3>6. Cardinality(Unpicked') <= D - 1
      <4>1. Cardinality(left \ {frame}) = Cardinality(left) - 1
        BY <1>5, <3>2, FS_RemoveElement DEF left
      <4>2. Cardinality(left) \in Nat /\ Cardinality(left) <= D - 0
        BY <1>3, <1>5 DEF left, D
      <4>3. Cardinality(Unpicked') = Cardinality(left) - 1
        BY <3>4, <4>1, Zenon
      <4> QED BY <1>4, <4>2, <4>3 DEF D
    <3>7. Flat(feiPool)'
      BY <1>11, <3>1 DEF Flat
    <3>8. Waits(Unpicked, feiCount, D + 0)'
      <4>1. Waits(Unpicked', feiCount', D + 0)
        BY <1>4, <1>14, <1>19, <3>4 DEF D
      <4> QED BY <1>14, <4>1 DEF Waits, Before, D
    <3> QED BY <1>14, <2>3, <3>5, <3>6, <3>7, <3>8 DEF FQueue, D
  <2>4. CASE frame # -1 /\ feiPc' # "preenc"
    BY <1>10, <2>4 DEF Alive
  <2> QED BY <2>1, <2>2, <2>3, <2>4
<1>17. Drained'
  <2>1. (Alive => ~feiEos)'
    BY <1>2, <1>3, <1>10 DEF Drained, Alive
  <2>2. /\ feiCount' > 0 => feiIdr' < feiCount'
        /\ feiEnd' # "reset" => \A f \in DOMAIN feiPool' : feiPool'[f].surface = f
        /\ feiPc' # "spin"
    BY <1>3, <1>10, <1>14, <1>15 DEF Drained
  <2>4. ASSUME feiPc' \in {"exit", "done"}
        PROVE  feiEnd' = "eos" => Unencoded(feiPool') = {}
    BY <1>10, <1>11, <1>14, <1>15, <2>4 DEF left, frame
  <2>5. Unencoded(feiPool)' = Unencoded(feiPool')
    BY DEF Unencoded
  <2> QED BY <2>1, <2>2, <2>4, <2>5 DEF Drained
<1>18. Once' /\ Emptied'
  <2>1. Unencoded(feiPool)' = Unencoded(feiPool)
    BY <1>15 DEF Unencoded, left
  <2>2. DoneIn(feiPool, feiCount)' = DoneIn(feiPool, feiCount)
    BY <1>14, <2>1, Zenon DEF DoneIn
  <2>3. Once'
    BY <1>3, <1>14, <2>2, Zenon DEF Once
  <2>4. \A f \in Unencoded(feiPool) : feiPool'[f].surface = feiPool[f].surface
    BY <1>15 DEF Unencoded
  <2>5. Busy
    BY <1>2 DEF Busy
  <2> QED BY <1>3, <1>14, <2>1, <2>3, <2>4, <2>5 DEF Emptied
<1> QED BY <1>3, <1>14, <1>15, <1>16, <1>17, <1>18 DEF EInv, D

\* One more is coded, and one more is back.
LEMMA OutMore ==
  ASSUME NEW out, NEW done, NEW whole \in BOOLEAN, OutOnce(out, done, whole),
         NEW pic, pic.frame \notin done
  PROVE  OutOnce(out \o <<pic>>, done \cup {pic.frame}, whole)
<1> DEFINE S == Range(out) \cup {pic}
           more == out \o <<pic>>
           n == Len(out)
<1>1. out \in Seq(S) /\ n \in Nat /\ DOMAIN out = 1 .. n
  <2>1. out \in Seq(Range(out))
    BY DEF OutOnce
  <2>2. Len(out) \in Nat /\ DOMAIN out = 1 .. Len(out) /\ \A k \in 1 .. Len(out) : out[k] \in Range(out)
    BY <2>1
  <2>3. out = [k \in 1 .. Len(out) |-> out[k]]
    BY <2>1
  <2>4. [k \in 1 .. Len(out) |-> out[k]] \in Seq(S)
    BY <2>2
  <2> QED BY <2>2, <2>3, <2>4, Zenon
<1>2. /\ more \in Seq(S) /\ DOMAIN more = 1 .. n + 1
      /\ \A k \in 1 .. n : more[k] = out[k]
      /\ more[n + 1] = pic
  <2>1. pic \in S
    OBVIOUS
  <2> HIDE DEF S
  <2> QED BY <1>1, <2>1
<1> HIDE DEF S, more, n
<1>3. more \in Seq(Range(more))
  <2>1. more = [k \in 1 .. n + 1 |-> more[k]]
    BY <1>2
  <2>2. \A k \in 1 .. n + 1 : more[k] \in Range(more)
    BY <1>2 DEF Range
  <2>3. n + 1 \in Nat
    BY <1>1
  <2>4. [k \in 1 .. n + 1 |-> more[k]] \in Seq(Range(more))
    BY <2>2, <2>3
  <2> QED BY <2>1, <2>4, Zenon
<1>4. \A k \in 1 .. n + 1 : k \in 1 .. n \/ k = n + 1
  BY <1>1
<1>5. n + 1 \in 1 .. n + 1 /\ \A k \in 1 .. n : k \in 1 .. n + 1
  BY <1>1
<1>6. {more[k].frame : k \in DOMAIN more} = {out[k].frame : k \in DOMAIN out} \cup {pic.frame}
  BY <1>1, <1>2, <1>4, <1>5
<1>7. IsInjective([k \in DOMAIN more |-> more[k].frame])
  <2>1. \A k \in 1 .. n : out[k].frame \in done
    BY <1>1 DEF OutOnce
  <2>2. \A j, k \in 1 .. n : out[j].frame = out[k].frame => j = k
    BY <1>1 DEF OutOnce, IsInjective
  <2>3. ASSUME NEW j \in 1 .. n + 1, NEW k \in 1 .. n + 1, more[j].frame = more[k].frame
        PROVE  j = k
    <3>1. CASE j \in 1 .. n /\ k \in 1 .. n
      BY <1>2, <2>2, <2>3, <3>1
    <3>2. CASE j = n + 1 /\ k \in 1 .. n
      BY <1>2, <2>1, <2>3, <3>2
    <3>3. CASE j \in 1 .. n /\ k = n + 1
      BY <1>2, <2>1, <2>3, <3>3
    <3>4. CASE j = n + 1 /\ k = n + 1
      BY <3>4
    <3> QED BY <1>4, <3>1, <3>2, <3>3, <3>4
  <2> QED BY <1>2, <2>3 DEF IsInjective
<1> QED BY <1>3, <1>6, <1>7 DEF OutOnce, more

LEMMA OutLess ==
  ASSUME NEW out, NEW done, NEW whole \in BOOLEAN, OutOnce(out, done, whole),
         NEW more, done \subseteq more
  PROVE  OutOnce(out, more, FALSE)
BY DEF OutOnce

LEMMA BackMore ==
  ASSUME NEW back, NEW done, BackOnce(back, done), NEW f \in Nat, f \notin done
  PROVE  BackOnce(Append(back, f), done \cup {f})
<1> DEFINE more == Append(back, f)
           n == Len(back)
<1>1. back \in Seq(Nat) /\ n \in Nat /\ DOMAIN back = 1 .. n
  BY DEF BackOnce
<1>2. /\ more \in Seq(Nat) /\ DOMAIN more = 1 .. n + 1
      /\ \A k \in 1 .. n : more[k] = back[k]
      /\ more[n + 1] = f
  BY <1>1
<1> HIDE DEF more, n
<1>3. /\ \A k \in 1 .. n + 1 : k \in 1 .. n \/ k = n + 1
      /\ n + 1 \in 1 .. n + 1 /\ \A k \in 1 .. n : k \in 1 .. n + 1
  BY <1>1
<1>4. \A k \in 1 .. n : back[k] \in done
  BY <1>1 DEF BackOnce, Range
<1>5. Range(more) = done \cup {f}
  <2>1. done = {back[k] : k \in 1 .. n}
    BY <1>1 DEF BackOnce, Range
  <2>2. Range(more) = {more[k] : k \in 1 .. n + 1}
    BY <1>2 DEF Range
  <2> QED BY <1>2, <1>3, <2>1, <2>2
<1>6. IsInjective(more)
  <2>1. \A j, k \in 1 .. n : back[j] = back[k] => j = k
    BY <1>1 DEF BackOnce, IsInjective
  <2>2. ASSUME NEW j \in 1 .. n + 1, NEW k \in 1 .. n + 1, more[j] = more[k]
        PROVE  j = k
    <3>1. CASE j \in 1 .. n /\ k \in 1 .. n
      BY <1>2, <2>1, <2>2, <3>1
    <3>2. CASE j = n + 1 /\ k \in 1 .. n
      BY <1>2, <1>4, <2>2, <3>2
    <3>3. CASE j \in 1 .. n /\ k = n + 1
      BY <1>2, <1>4, <2>2, <3>3
    <3>4. CASE j = n + 1 /\ k = n + 1
      BY <3>4
    <3> QED BY <1>3, <3>1, <3>2, <3>3, <3>4
  <2> QED BY <1>2, <2>2 DEF IsInjective
<1> QED BY <1>2, <1>5, <1>6 DEF BackOnce, more

LEMMA ECode ==
  ASSUME FInv, EInv, FeiCode, feiPar.bref = "off"
  PROVE  EInv'
<1> DEFINE frame == feiTask.frame
           left == Unencoded(feiPool)
           D == feiPar.refDist
<1>1. /\ feiPar \in FeiConfigs /\ feiCount \in Nat /\ feiIdr \in 0 .. feiCount
      /\ DOMAIN feiPool \subseteq 0 .. feiCount - 1 /\ feiPool \in [DOMAIN feiPool -> Tasks]
      /\ frame \in left /\ frame \in Nat /\ frame \in 0 .. feiCount - 1
  BY DEF FInv, FTypes, FTask, Working, FeiCode, Unencoded
<1>2. /\ feiPc = "code" /\ Working /\ Alive /\ Busy /\ feiPool[frame].surface # -1
      /\ feiPool[frame].surface \in Nat
  <2>1. feiPool[frame] \in Tasks
    BY <1>1 DEF Unencoded
  <2> QED BY <2>1 DEF FeiCode, Working, Alive, Busy, WithSurface, Tasks
<1>3. /\ Drained /\ Emptied /\ Once
      /\ "ds" \notin feiShort /\ feiCount <= FeiFrames + D
      /\ Cardinality(DOMAIN feiPool) <= NumRef(feiPar) + D
      /\ InQueue(feiPar, feiPool, left \ {frame}, Newer(feiTask.post), feiCount, feiIdr)
      /\ Cardinality(left \ {frame}) <= D - 1 /\ Waits(left \ {frame}, feiCount, D + 0)
      /\ Flat(feiPool)
  BY <1>2 DEF EInv, FQueue, Unpicked, Ahead
<1>4. D \in Nat /\ D >= 1 /\ NumRef(feiPar) \in 2 .. 4
  BY <1>1, FeiNumbersAre
<1>5. IsFiniteSet(left) /\ Cardinality(left) \in Nat
      /\ IsFiniteSet(DOMAIN feiPool) /\ Cardinality(DOMAIN feiPool) \in Nat
  BY PoolIs
<1>6. /\ UNCHANGED <<feiPar, feiRun, feiEos, feiCount, feiIdr, feiEnd, feiShort>>
      /\ feiPc' = "get" /\ feiLast'.post = feiTask.post
      /\ feiBack' = Append(feiBack, feiPool[frame].surface)
      /\ \/ feiFault' = feiFault /\ feiOut' = feiOut \o <<feiTask>>
         \/ feiFault' # {} /\ feiOut' = feiOut \o << >>
  BY DEF FeiCode, Encoded, Refused
<1>7. /\ Unencoded(feiPool') = left \ {frame}
      /\ DOMAIN feiPool' \subseteq DOMAIN feiPool
      /\ \A f \in DOMAIN feiPool' :
           /\ feiPool'[f].kind = feiPool[f].kind /\ feiPool'[f].order = feiPool[f].order
           /\ feiPool'[f].gop = feiPool[f].gop /\ feiPool'[f].ref = feiPool[f].ref
           /\ feiPool'[f].surface = feiPool[f].surface
  BY CodeLeaves
<1> HIDE DEF frame
<1>8. left \ {frame} \subseteq DOMAIN feiPool'
  BY <1>7 DEF Unencoded
<1> HIDE DEF left, D
<1>9. FQueue'
  <2>1. ~Working' /\ Ahead' = Newer(feiTask.post) /\ Unpicked' = left \ {frame}
    BY <1>6, <1>7 DEF Working, Ahead, Unpicked, Newer, Unencoded
  <2>2. InQueue(feiPar, feiPool', left \ {frame}, Newer(feiTask.post), feiCount, feiIdr)
    <3>1. \A f \in left \ {frame} : feiPool'[f].kind = feiPool[f].kind
      BY <1>7, <1>8
    <3> QED BY <1>3, <3>1 DEF InQueue
  <2>3. InQueue(feiPar, feiPool, Unpicked, Ahead, feiCount, feiIdr)'
    <3>1. InQueue(feiPar, feiPool', Unpicked', Ahead', feiCount', feiIdr')
      BY <1>6, <2>1, <2>2, Zenon
    <3> QED BY <1>6, <3>1 DEF InQueue
  <2>4. Flat(feiPool)'
    BY <1>3, <1>7 DEF Flat
  <2>5. Cardinality(Unpicked') <= D - 1
    BY <1>3, <2>1
  <2>6. Waits(Unpicked, feiCount, D + 0)'
    BY <1>3, <1>6, <2>1 DEF Waits, Before, D
  <2> QED BY <1>6, <2>3, <2>4, <2>5, <2>6 DEF FQueue, D
<1>10. Drained'
  <2>1. ~feiEos'
    BY <1>2, <1>3, <1>6 DEF Drained
  <2>2. /\ feiCount' > 0 => feiIdr' < feiCount'
        /\ feiEnd' # "reset" => \A f \in DOMAIN feiPool' : feiPool'[f].surface = f
    BY <1>3, <1>6, <1>7 DEF Drained
  <2>4. Unencoded(feiPool)' = Unencoded(feiPool')
    BY DEF Unencoded
  <2> QED BY <1>6, <2>1, <2>2, <2>4 DEF Drained
<1>11. Once'
  <2> DEFINE done == DoneIn(feiPool, feiCount)
             more == done \cup {frame}
  <2>1. DoneIn(feiPool, feiCount)' = more
    <3>1. (0 .. feiCount - 1) \ (left \ {frame}) = ((0 .. feiCount - 1) \ left) \cup {frame}
      BY <1>1
    <3>2. DoneIn(feiPool, feiCount)' = (0 .. feiCount - 1) \ (left \ {frame})
      BY <1>6, <1>7 DEF DoneIn, Unencoded
    <3> QED BY <3>1, <3>2 DEF DoneIn, left
  <2>2. frame \notin done /\ frame \in Nat /\ feiTask.frame = frame
    BY <1>1 DEF DoneIn, frame, left
  <2>3. OutOnce(feiOut, done, feiFault = {}) /\ (feiEnd # "reset" => BackOnce(feiBack, done))
    BY <1>3 DEF Once
  <2> HIDE DEF done
  <2>4. OutOnce(feiOut', more, feiFault' = {})
    <3>1. CASE feiFault' = feiFault /\ feiOut' = feiOut \o <<feiTask>>
      <4>1. feiTask.frame \notin done /\ (feiFault = {}) \in BOOLEAN
        BY <2>2
      <4>2. OutOnce(feiOut \o <<feiTask>>, done \cup {feiTask.frame}, feiFault = {})
        BY <2>3, <4>1, OutMore
      <4> QED BY <2>2, <3>1, <4>2, Zenon
    <3>2. CASE feiFault' # {} /\ feiOut' = feiOut \o << >>
      <4>1. feiOut' = feiOut
        <5>1. feiOut \in Seq(Range(feiOut))
          BY <2>3 DEF OutOnce
        <5>2. feiOut \o << >> = feiOut
          BY <5>1
        <5> QED BY <3>2, <5>2
      <4>2. (feiFault = {}) \in BOOLEAN /\ done \subseteq more
        OBVIOUS
      <4>3. OutOnce(feiOut, more, FALSE)
        BY <2>3, <4>2, OutLess
      <4>4. (feiFault' = {}) = FALSE
        BY <3>2
      <4> QED BY <4>1, <4>3, <4>4, Zenon
    <3> QED BY <1>6, <3>1, <3>2
  <2>5. feiEnd' # "reset" => BackOnce(feiBack', more)
    <3>1. SUFFICES ASSUME feiEnd # "reset" PROVE BackOnce(feiBack', more)
      BY <1>6
    <3>2. feiPool[frame].surface = frame
      BY <1>1, <1>3, <3>1 DEF Drained, left, Unencoded
    <3>3. BackOnce(Append(feiBack, frame), done \cup {frame})
      BY <2>2, <2>3, <3>1, BackMore
    <3> QED BY <1>6, <3>2, <3>3
  <2> HIDE DEF more
  <2>6. OutOnce(feiOut, DoneIn(feiPool, feiCount), feiFault = {})'
    BY <2>1, <2>4, Zenon DEF OutOnce
  <2>7. (feiEnd # "reset" => BackOnce(feiBack, DoneIn(feiPool, feiCount)))'
    BY <2>1, <2>5, Zenon DEF BackOnce
  <2> QED BY <2>6, <2>7 DEF Once
<1>13. Emptied'
  <2>1. ASSUME NEW f \in left, feiPool[f].surface = -1
        PROVE  f \in Unencoded(feiPool)' /\ feiPool'[f].surface = -1
    <3>1. f # frame
      BY <1>2, <2>1
    <3> QED BY <1>7, <1>8, <2>1, <3>1 DEF Unencoded
  <2> QED BY <1>2, <1>3, <1>6, <2>1 DEF Emptied, left
<1>12. Cardinality(DOMAIN feiPool') <= NumRef(feiPar) + D
  <2>1. Cardinality(DOMAIN feiPool') <= Cardinality(DOMAIN feiPool) /\ Cardinality(DOMAIN feiPool') \in Nat
    BY <1>5, <1>7, FS_Subset, FS_CardinalityType
  <2> QED BY <1>3, <1>4, <1>5, <2>1
<1> QED BY <1>3, <1>6, <1>9, <1>10, <1>11, <1>12, <1>13 DEF EInv, D

\* A step that takes no frame, and leaves the tasks that wait as they are.
LEMMA EQuiet ==
  ASSUME FInv, EInv, feiPar.bref = "off",
         UNCHANGED <<feiPar, feiCount, feiIdr, feiLast, feiTask, feiOut, feiBack>>,
         DOMAIN feiPool' = DOMAIN feiPool,
         \A f \in DOMAIN feiPool :
           /\ feiPool'[f].kind = feiPool[f].kind /\ feiPool'[f].order = feiPool[f].order
           /\ feiPool'[f].gop = feiPool[f].gop /\ feiPool'[f].ref = feiPool[f].ref
           /\ feiPool'[f].surface = feiPool[f].surface /\ feiPool'[f].coded = feiPool[f].coded,
         feiFault \subseteq feiFault', feiShort' \subseteq feiShort \cup {"set", "reference", "recon"},
         Alive' => Alive /\ ~feiEos' /\ (Working' <=> Working) /\ (feiPc = "pick" => feiPc' = "pick"),
         feiEnd' # "reset" => feiEnd # "reset", feiPc' = "spin" => feiEnd' = "reset",
         feiEnd' = "reset" =>
           \/ feiEnd = "reset" /\ feiBuf' = feiBuf /\ (Busy' => Busy)
           \/ ~Busy' /\ feiBuf' = -1 /\ feiCount < FeiFrames,
         (feiPc' \in {"exit", "done"} /\ feiEnd' = "eos" /\ feiFault' = {} /\ feiShort' = {}
            /\ (feiEos' \/ (feiPc' = "exit" /\ feiRun'))) => Unencoded(feiPool) = {}
  PROVE  EInv'
<1> DEFINE left == Unencoded(feiPool)
           D == feiPar.refDist
<1>1. Unencoded(feiPool') = left /\ left \subseteq DOMAIN feiPool
  BY DEF Unencoded
<1>2. feiPar \in FeiConfigs
  BY DEF FInv, FTypes
<1>3. D \in Nat /\ D >= 1
  BY <1>2, FeiNumbersAre
<1>4. IsFiniteSet(left) /\ Cardinality(left) \in Nat
  BY PoolIs
<1>5. /\ Drained /\ Emptied /\ Once
      /\ "ds" \notin feiShort /\ feiCount <= FeiFrames + D
      /\ Cardinality(DOMAIN feiPool) <= NumRef(feiPar) + D
      /\ Alive => FQueue
  BY DEF EInv
<1> HIDE DEF left
<1>6. ASSUME Alive'
      PROVE  FQueue'
  <2>1. FQueue /\ (Working' <=> Working)
    BY <1>5, <1>6
  <2>2. Ahead' = Ahead /\ Unpicked' = Unpicked /\ Unpicked \subseteq left
    BY <1>1, <2>1 DEF Working, Ahead, Unpicked, Newer, Unencoded, left
  <2>3. InQueue(feiPar, feiPool', Unpicked, Ahead, feiCount, feiIdr)
    <3>1. \A f \in Unpicked : feiPool'[f].kind = feiPool[f].kind
      BY <1>1, <2>2
    <3> QED BY <2>1, <3>1 DEF FQueue, InQueue
  <2>4. InQueue(feiPar, feiPool, Unpicked, Ahead, feiCount, feiIdr)'
    <3>1. InQueue(feiPar, feiPool', Unpicked', Ahead', feiCount', feiIdr')
      BY <2>2, <2>3, Zenon
    <3> QED BY <3>1 DEF InQueue
  <2>5. Flat(feiPool)'
    BY <2>1 DEF FQueue, Flat
  <2>6. Cardinality(Unpicked') <= D - (IF feiPc' = "pick" THEN 0 ELSE 1)
    <3>1. Cardinality(Unpicked') = Cardinality(Unpicked)
      BY <2>2, Zenon
    <3>2. Cardinality(Unpicked) \in Nat
      BY <1>4, <2>2, FS_Subset, FS_CardinalityType
    <3>3. Cardinality(Unpicked) <= D - (IF feiPc = "pick" THEN 0 ELSE 1)
      BY <2>1 DEF FQueue
    <3> HIDE DEF D
    <3> QED BY <1>3, <1>6, <3>1, <3>2, <3>3
  <2>7. Waits(Unpicked, feiCount, D + (IF feiPc = "pick" THEN 1 ELSE 0))'
    <3>1. Waits(Unpicked, feiCount, D + (IF feiPc = "pick" THEN 1 ELSE 0))
      BY <2>1 DEF FQueue
    <3>2. ASSUME NEW f \in Unpicked
          PROVE  feiCount + Cardinality(Before(Unpicked, f)) <= f + (D + (IF feiPc' = "pick" THEN 1 ELSE 0))
      <4>1. feiCount + Cardinality(Before(Unpicked, f)) <= f + (D + (IF feiPc = "pick" THEN 1 ELSE 0))
        BY <3>1 DEF Waits
      <4>2. Before(Unpicked, f) \subseteq left /\ f \in Nat /\ feiCount \in Nat
        BY <1>1, <2>2 DEF Before, FInv, FTypes
      <4>3. Cardinality(Before(Unpicked, f)) \in Nat
        BY <1>4, <4>2, FS_Subset, FS_CardinalityType
      <4> HIDE DEF D
      <4> QED BY <1>3, <1>6, <4>1, <4>2, <4>3
    <3>3. Waits(Unpicked, feiCount, D + (IF feiPc' = "pick" THEN 1 ELSE 0))
      BY <3>2 DEF Waits
    <3> QED BY <2>2, <3>3 DEF Waits, Before
  <2> QED BY <2>4, <2>5, <2>6, <2>7 DEF FQueue
<1>7. Drained'
  <2>1. (Alive => ~feiEos)'
    BY DEF Alive
  <2>2. /\ feiCount' > 0 => feiIdr' < feiCount'
        /\ feiEnd' # "reset" => \A f \in DOMAIN feiPool' : feiPool'[f].surface = f
    BY <1>5 DEF Drained
  <2>4. Unencoded(feiPool)' = Unencoded(feiPool') /\ Unencoded(feiPool') = Unencoded(feiPool)
    BY <1>1 DEF Unencoded, left
  <2> QED BY <2>1, <2>2, <2>4 DEF Drained
<1>8. Once'
  <2>1. Unencoded(feiPool)' = Unencoded(feiPool)
    BY <1>1 DEF Unencoded, left
  <2>2. DoneIn(feiPool, feiCount)' = DoneIn(feiPool, feiCount)
    BY <2>1, Zenon DEF DoneIn
  <2>3. OutOnce(feiOut, DoneIn(feiPool, feiCount), feiFault' = {})
    <3>1. feiFault' = {} => feiFault = {}
      OBVIOUS
    <3> QED BY <1>5, <3>1 DEF Once, OutOnce
  <2> QED BY <1>5, <2>2, <2>3, Zenon DEF Once
<1>9. Emptied'
  <2>1. Unencoded(feiPool)' = Unencoded(feiPool)
    BY <1>1 DEF Unencoded, left
  <2>2. \A f \in Unencoded(feiPool) : feiPool'[f].surface = feiPool[f].surface
    BY DEF Unencoded
  <2> QED BY <1>5, <2>1, <2>2 DEF Emptied
<1> QED BY <1>5, <1>6, <1>7, <1>8, <1>9 DEF EInv

LEMMA EPreenc ==
  ASSUME FInv, EInv, FeiPreenc, feiPar.bref = "off"
  PROVE  EInv'
<1> DEFINE frame == feiTask.frame
<1>1. /\ feiPc = "preenc" /\ feiPool \in [DOMAIN feiPool -> Tasks] /\ frame \in DOMAIN feiPool
      /\ feiPc' \in {"code", "exit"} /\ (feiPc' = "exit" => feiShort' # {})
      /\ feiShort' \subseteq feiShort \cup {"set", "reference", "recon"}
  BY DEF FInv, FTypes, FTask, Working, Unencoded, FeiPreenc, Lacks
<1>2. UNCHANGED <<feiPar, feiRun, feiEos, feiCount, feiIdr, feiEnd, feiBuf, feiLast, feiTask, feiOut, feiBack,
                  feiFault>>
  BY DEF FeiPreenc, feiInput
<1>3. /\ DOMAIN feiPool' = DOMAIN feiPool
      /\ \A f \in DOMAIN feiPool :
           /\ feiPool'[f].kind = feiPool[f].kind /\ feiPool'[f].order = feiPool[f].order
           /\ feiPool'[f].gop = feiPool[f].gop /\ feiPool'[f].ref = feiPool[f].ref
           /\ feiPool'[f].surface = feiPool[f].surface /\ feiPool'[f].coded = feiPool[f].coded
  <2>1. CASE feiPool' = feiPool
    BY <2>1
  <2> DEFINE repack == Codes(feiPar) /\ (Fields(feiPar) = 2 \/ ~Intra(feiTask.kind))
             taken == Lowest(feiVacant.preenc, Calls(feiPar, feiTask))
             outs == IF repack THEN {} ELSE taken
             last == Max(taken)
  <2>2. \/ feiPool' = feiPool
        \/ feiPool' = [feiPool EXCEPT ![frame].outs = outs, ![frame].last = last]
    BY DEF FeiPreenc
  <2> HIDE DEF outs, last
  <2>3. CASE feiPool' = [feiPool EXCEPT ![frame].outs = outs, ![frame].last = last]
    <3>1. /\ DOMAIN feiPool' = DOMAIN feiPool
          /\ \A f \in DOMAIN feiPool : f # frame => feiPool'[f] = feiPool[f]
          /\ feiPool'[frame] = [feiPool[frame] EXCEPT !.outs = outs, !.last = last]
      BY <1>1, <2>3
    <3>2. feiPool[frame] \in Tasks
      BY <1>1
    <3>3. /\ feiPool'[frame].kind = feiPool[frame].kind /\ feiPool'[frame].order = feiPool[frame].order
          /\ feiPool'[frame].gop = feiPool[frame].gop /\ feiPool'[frame].ref = feiPool[frame].ref
          /\ feiPool'[frame].surface = feiPool[frame].surface
          /\ feiPool'[frame].coded = feiPool[frame].coded
      BY <3>1, <3>2 DEF Tasks
    <3> HIDE DEF frame
    <3> QED BY <3>1, <3>3
  <2> QED BY <2>1, <2>2, <2>3
<1>4. Alive' => Alive /\ ~feiEos' /\ (Working' <=> Working) /\ (feiPc = "pick" => feiPc' = "pick")
  BY <1>1, <1>2 DEF EInv, Drained, Alive, Working
<1>5. Busy
  BY <1>1 DEF Busy
<1> HIDE DEF frame
<1> QED BY <1>1, <1>2, <1>3, <1>4, <1>5, EQuiet

LEMMA EInitHolds == FeiInit => EInv
<1> SUFFICES ASSUME FeiInit, feiPar.bref = "off" PROVE EInv
  BY DEF EInv
<1> DEFINE D == feiPar.refDist
<1>1. /\ feiPar \in FeiConfigs /\ feiPc = "get" /\ feiEos = FALSE /\ feiCount = 0 /\ feiIdr = 0
      /\ feiEnd = "no" /\ feiBuf = -1 /\ feiPool = << >> /\ feiOut = << >> /\ feiBack = << >>
      /\ feiShort = {} /\ feiFault = {}
  BY DEF FeiInit
<1>2. DOMAIN feiPool = {} /\ Unencoded(feiPool) = {}
  <2>1. DOMAIN feiPool = {}
    BY <1>1
  <2> QED BY <2>1 DEF Unencoded
<1>3. D \in Nat /\ D >= 1 /\ NumRef(feiPar) \in 2 .. 4 /\ FeiFrames \in Nat
  BY <1>1, FeiNumbersAre, FeiAssumption
<1>4. Cardinality({}) = 0
  BY FS_EmptySet
<1>5. ~Working /\ Unpicked = {}
  BY <1>1, <1>2 DEF Working, Unpicked
<1>6. FQueue
  <2>1. InQueue(feiPar, feiPool, Unpicked, Ahead, feiCount, feiIdr)
    BY <1>5 DEF InQueue
  <2>2. Cardinality(Unpicked) = 0
    BY <1>4, <1>5, Zenon
  <2>3. Flat(feiPool)
    BY <1>2 DEF Flat
  <2>4. Waits(Unpicked, feiCount, D + (IF feiPc = "pick" THEN 1 ELSE 0))
    BY <1>5 DEF Waits
  <2> QED BY <1>1, <1>3, <2>1, <2>2, <2>3, <2>4 DEF FQueue
<1>7. Drained /\ Emptied
  BY <1>1, <1>2, <1>3 DEF Drained, Emptied
<1>8. Once
  <2>1. DoneIn(feiPool, feiCount) = {}
    BY <1>1, <1>2 DEF DoneIn
  <2>2. << >> \in Seq(Range(<< >>)) /\ << >> \in Seq(Nat) /\ DOMAIN << >> = {}
    OBVIOUS
  <2>3. Range(<< >>) = {}
    BY <2>2 DEF Range
  <2>4. OutOnce(<< >>, {}, TRUE)
    BY <2>2 DEF OutOnce, IsInjective
  <2>5. BackOnce(<< >>, {})
    BY <2>2, <2>3 DEF BackOnce, IsInjective
  <2>6. (feiFault = {}) = TRUE
    BY <1>1
  <2> QED BY <1>1, <2>1, <2>4, <2>5, <2>6, Zenon DEF Once
<1>9. Cardinality(DOMAIN feiPool) = 0
  BY <1>2, <1>4, Zenon
<1> QED BY <1>1, <1>3, <1>6, <1>7, <1>8, <1>9 DEF EInv

LEMMA EStep ==
  ASSUME FInv, EInv, FInv', [FeiNext]_feiVars
  PROVE  EInv'
<1> SUFFICES ASSUME feiPar.bref = "off" PROVE EInv'
  <2>1. feiPar' = feiPar
    BY DEF FeiNext, FeiStep, FeiTake, FeiInitFails, FeiInputEnds, FeiAgain, FeiPick, FeiPreenc,
           FeiCode, FeiCodeFails, FeiLeave, FeiExit, FeiStop, FeiOver, feiVars
  <2> QED BY <2>1 DEF EInv
<1> DEFINE ends == feiPc' \in {"exit", "done"} /\ feiEnd' = "eos" /\ feiFault' = {} /\ feiShort' = {}
                     /\ (feiEos' \/ (feiPc' = "exit" /\ feiRun'))
<1>1. /\ feiPc \in {"get", "pick", "preenc", "code", "exit", "done", "dead", "spin"}
      /\ feiEnd \in {"no", "eos", "reset"} /\ feiCount \in Nat /\ DOMAIN feiPool \subseteq 0 .. feiCount - 1
      /\ feiPool \in [DOMAIN feiPool -> Tasks]
      /\ Working => feiTask.frame \in DOMAIN feiPool
      /\ feiBuf \in Nat \cup {-1} /\ (feiBuf # -1 => feiEnd = "reset")
  BY DEF FInv, FTypes, FTask, Unencoded
<1>2. /\ Alive => ~feiEos
      /\ feiPc = "spin" => feiEnd = "reset"
      /\ feiEnd # "reset" => \A f \in DOMAIN feiPool : feiPool[f].surface = f
      /\ (feiPc \in {"exit", "done"} /\ feiEnd = "eos" /\ feiFault = {} /\ feiShort = {}
            /\ (feiEos \/ (feiPc = "exit" /\ feiRun))) => Unencoded(feiPool) = {}
  BY DEF EInv, Drained
<1>3. CASE FeiTake
  BY <1>1, <1>3, EAdd DEF FeiTake
<1>4. CASE FeiAgain
  <2>1. CASE feiEnd = "reset" /\ AddTask(feiBuf)
    BY <1>1, <1>4, <2>1, EAdd DEF FeiAgain
  <2>2. CASE feiEnd = "eos" /\ feiPc' = "pick" /\ UNCHANGED <<feiCount, feiIdr, feiPool, feiShort>>
    <3>1. /\ UNCHANGED <<feiPar, feiEos, feiEnd, feiBuf, feiCount, feiIdr, feiPool, feiLast, feiTask, feiOut, feiBack,
                         feiFault, feiShort>>
          /\ feiPc = "get"
      BY <1>4, <2>2 DEF FeiAgain
    <3>2. Alive /\ ~Working /\ ~Working' /\ ~ends
      BY <2>2, <3>1 DEF Alive, Working
    <3> QED BY <1>2, <2>2, <3>1, <3>2, EQuiet
  <2>3. \/ feiEnd = "reset" /\ AddTask(feiBuf)
        \/ feiEnd = "eos" /\ feiPc' = "pick" /\ UNCHANGED <<feiCount, feiIdr, feiPool, feiShort>>
    BY <1>4, Zenon DEF FeiAgain
  <2> QED BY <2>1, <2>2, <2>3, Zenon
<1>5. CASE FeiInitFails \/ FeiInputEnds
  <2>1. /\ UNCHANGED <<feiPar, feiEos, feiBuf, feiCount, feiIdr, feiPool, feiLast, feiTask, feiOut, feiBack, feiShort>>
        /\ feiFault \subseteq feiFault' /\ feiPc = "get" /\ feiEnd = "no"
        /\ feiPc' \in {"get", "exit"}
        /\ feiPc' = "exit" => feiCount = 0
        /\ feiEnd' = "reset" => feiCount < FeiFrames
    BY <1>1, <1>5, FeiAssumption DEF FeiInitFails, FeiInputEnds, feiInput, feiTasks, feiSets, feiHistory, Refused
  <2>2. Alive /\ ~Working /\ ~Working' /\ ~feiEos
    BY <1>2, <2>1 DEF Alive, Working
  <2>3. feiCount = 0 => Unencoded(feiPool) = {}
    BY <1>1 DEF Unencoded
  <2>4. ~Busy' /\ feiBuf' = -1 /\ feiPc' # "spin"
    BY <1>1, <2>1 DEF Busy
  <2> QED BY <1>2, <2>1, <2>2, <2>3, <2>4, EQuiet
<1>6. CASE FeiCodeFails
  <2>1. /\ UNCHANGED <<feiPar, feiEos, feiEnd, feiBuf, feiCount, feiIdr, feiPool, feiLast, feiTask, feiOut,
                       feiBack>>
        /\ feiFault \subseteq feiFault' /\ feiShort' \subseteq feiShort \cup {"set"}
        /\ feiPc = "code" /\ feiPc' \in {"exit", "spin"}
        /\ \/ feiPc' = "exit" /\ (feiShort' # {} \/ feiFault' # {})
           \/ feiTask.frame \notin WithSurface(feiPool)
    BY <1>6 DEF FeiCodeFails, Lacks, Refused, feiInput, feiTasks
  <2>2. Alive /\ Working /\ ~Alive' /\ Busy
    BY <2>1 DEF Alive, Working, Busy
  <2>3. feiTask.frame \notin WithSurface(feiPool) => feiEnd = "reset"
    <3>1. feiTask.frame \in DOMAIN feiPool /\ feiTask.frame \in Nat
      BY <1>1, <2>2
    <3> QED BY <1>2, <3>1 DEF WithSurface
  <2>4. ~ends /\ (feiPc' = "spin" => feiEnd' = "reset")
    BY <2>1, <2>3
  <2> QED BY <2>1, <2>2, <2>4, EQuiet
<1>7. CASE FeiLeave \/ FeiExit
  <2>1. /\ UNCHANGED <<feiPar, feiEnd, feiBuf, feiCount, feiIdr, feiPool, feiLast, feiTask, feiOut, feiBack,
                       feiFault, feiShort>>
        /\ \/ feiPc = "get" /\ ~feiRun' /\ feiEos' = feiEos /\ feiPc' = "exit"
           \/ feiPc = "spin" /\ feiEos' = feiEos /\ feiPc' = "exit"
           \/ feiPc = "exit" /\ feiPc' = "done" /\ feiEos' = (feiEos \/ feiRun)
    BY <1>7 DEF FeiLeave, FeiExit, feiInput, feiTasks, feiSets, feiHistory
  <2>2. ~Alive' /\ ~Busy' /\ feiPc' # "spin" /\ (feiPc = "get" => ~feiEos)
    BY <1>2, <2>1 DEF Alive, Busy
  <2>3. ends => Unencoded(feiPool) = {}
    BY <1>2, <2>1, <2>2
  <2> QED BY <2>1, <2>2, <2>3, EQuiet
<1>8. CASE FeiStop \/ FeiOver \/ UNCHANGED feiVars
  <2>1. /\ UNCHANGED <<feiPar, feiPc, feiEos, feiEnd, feiBuf, feiCount, feiIdr, feiPool, feiLast, feiTask, feiOut,
                       feiBack, feiFault, feiShort>>
        /\ feiRun' => feiRun
    BY <1>8 DEF FeiStop, FeiOver, feiVars, feiThread, feiInput, feiTasks, feiSets, feiHistory
  <2>2. (Alive' => Alive /\ ~feiEos') /\ (Working' <=> Working) /\ (Busy' => Busy)
    BY <1>2, <2>1 DEF Alive, Working, Busy
  <2>3. ends => Unencoded(feiPool) = {}
    BY <1>2, <2>1
  <2>4. feiPc' = "spin" => feiEnd' = "reset"
    BY <1>2, <2>1
  <2> HIDE DEF ends
  <2> QED BY <2>1, <2>2, <2>3, <2>4, EQuiet DEF ends
<1> QED BY <1>3, <1>4, <1>5, <1>6, <1>7, <1>8, EPick, EPreenc, ECode DEF FeiNext, FeiStep

LEMMA AvcQueue == Spec => [](FInv /\ EInv)
<1>1. Init => FInv /\ EInv
  BY AvcMoves, FInitHolds, EInitHolds
<1>2. FInv /\ EInv /\ [Next]_vars => FInv' /\ EInv'
  BY AvcMoves, FStep, EStep
<1>3. Init => (FInv /\ EInv)
  BY <1>1
<1>4. (FInv /\ EInv) /\ [Next]_vars => (FInv /\ EInv)'
  BY <1>2
<1> QED BY <1>3, <1>4, PTL DEF Spec

\* However long the stream: without a pyramid of B frames no task is coded
\* twice and, unless the decoder was reset, no buffer goes back twice; at the
\* end of the input every frame that came is coded and its buffer is back; the
\* surfaces that InitEncoder asks for are enough; and no frame waits long, so
\* that a decoder that was reset has few tasks added before one without a
\* surface has its turn.
THEOREM AvcOnce ==
  Spec => [](feiPar.bref = "off" => FeiFramesComeOnce /\ FeiSurfacesSuffice /\ FeiResetEnds)
<1>1. ASSUME FInv, EInv, feiPar.bref = "off"
      PROVE  FeiFramesComeOnce
  <2>1. Once
    BY <1>1 DEF EInv
  <2>2. ASSUME feiPc = "done", feiEos, feiEnd = "eos", feiFault = {}, feiShort = {}
        PROVE  /\ {feiOut[k].frame : k \in DOMAIN feiOut} = 0 .. feiCount - 1
               /\ Range(feiBack) = 0 .. feiCount - 1
    <3>1. Unencoded(feiPool) = {}
      BY <1>1, <2>2 DEF EInv, Drained
    <3>2. DoneIn(feiPool, feiCount) = 0 .. feiCount - 1
      BY <3>1 DEF DoneIn
    <3> QED BY <2>1, <2>2, <3>2 DEF Once, OutOnce, BackOnce
  <2>3. IsInjective([k \in DOMAIN feiOut |-> feiOut[k].frame])
    BY <2>1 DEF Once, OutOnce
  <2>4. feiEnd # "reset" => IsInjective(feiBack)
    BY <2>1 DEF Once, BackOnce
  <2> QED BY <2>2, <2>3, <2>4 DEF FeiFramesComeOnce
<1>2. ASSUME FInv, EInv, feiPar.bref = "off"
      PROVE  FeiSurfacesSuffice
  <2>1. feiPar \in FeiConfigs
    BY <1>2 DEF FInv, FTypes
  <2>2. /\ NumRef(feiPar) \in 2 .. 4 /\ feiPar.refDist \in Nat /\ feiPar.refDist >= 1
        /\ feiPar.asked \in BOOLEAN /\ (feiPar.asked \/ feiPar.refDist = 4)
    BY <2>1, FeiNumbersAre, FeiAssumption DEF FeiParameters
  <2>3. Spare(feiPar) > NumRef(feiPar) + feiPar.refDist /\ Spare(feiPar) \in Nat
    BY <2>2 DEF Spare
  <2>4. Cardinality(DOMAIN feiPool) <= NumRef(feiPar) + feiPar.refDist
        /\ "ds" \notin feiShort
    BY <1>2 DEF EInv
  <2>5. IsFiniteSet(DOMAIN feiPool) /\ Cardinality(DOMAIN feiPool) \in Nat
    BY <1>2, PoolIs
  <2>6. WithSurface(feiPool) \subseteq DOMAIN feiPool
    BY DEF WithSurface
  <2>7. Cardinality(WithSurface(feiPool)) <= Cardinality(DOMAIN feiPool)
        /\ Cardinality(WithSurface(feiPool)) \in Nat
    BY <2>5, <2>6, FS_Subset, FS_CardinalityType
  <2> QED BY <2>2, <2>3, <2>4, <2>5, <2>7 DEF FeiSurfacesSuffice
<1>3. ASSUME FInv, EInv, feiPar.bref = "off"
      PROVE  FeiResetEnds
  <2> DEFINE D == feiPar.refDist
  <2>1. /\ feiCount \in Nat /\ D \in Nat /\ D >= 1 /\ FeiFrames \in Nat
        /\ DOMAIN feiPool \subseteq 0 .. feiCount - 1
    BY <1>3, FeiNumbersAre, FeiAssumption DEF FInv, FTypes
  <2>2. feiCount <= FeiFrames + D
    BY <1>3 DEF EInv
  <2>3. ASSUME feiPc = "get", NEW f \in Unencoded(feiPool)
        PROVE  feiCount < f + 2 * D
    <3>1. feiCount + Cardinality(Before(Unencoded(feiPool), f)) <= f + (D + 0)
      BY <1>3, <2>3 DEF EInv, FQueue, Waits, Alive, Unpicked, Working
    <3>2. f \in Nat
      BY <2>1 DEF Unencoded
    <3>3. Before(Unencoded(feiPool), f) \subseteq Unencoded(feiPool)
      BY DEF Before
    <3>4. Cardinality(Before(Unencoded(feiPool), f)) \in Nat
      BY <1>3, <3>3, PoolIs, FS_Subset, FS_CardinalityType
    <3> HIDE DEF D
    <3> QED BY <2>1, <3>1, <3>2, <3>4
  <2> QED BY <2>1, <2>2, <2>3 DEF FeiResetEnds
<1>4. FInv /\ EInv => (feiPar.bref = "off" => FeiFramesComeOnce /\ FeiSurfacesSuffice /\ FeiResetEnds)
  BY <1>1, <1>2, <1>3
<1> QED BY <1>4, AvcQueue, PTL

=============================================================================
