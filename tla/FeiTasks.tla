------------------------------ MODULE FeiTasks ------------------------------
(***************************************************************************)
(* The H.264 FEI encoder: H264FEIEncoderElement keeps the frames it has    *)
(* received in a pool of tasks (iTaskPool), picks the next one to encode,  *)
(* works out its decoded picture buffer and reference lists, runs it       *)
(* through motion estimation (PREENC) and through the encoder, and drops   *)
(* the oldest task that is neither needed nor unencoded.                   *)
(*                                                                         *)
(* A frame is its number in display order, -1 a buffer without a surface.  *)
(* A field is written by its parity, 0 for top; a progressive picture has  *)
(* the one "field" 0.  The order of picture order counts is the order of   *)
(* the frame numbers: the pool never holds references of two IDR periods.  *)
(***************************************************************************)
EXTENDS Integers, Sequences, SequencesExt, FiniteSets, FiniteSetsExt

CONSTANTS
  FeiConfigs,      \* parameters of the encoders to run, see FeiParameters
  FeiFrames,       \* bound: frames of the stream
  FeiFrameNumMax,  \* bound: 1 << log2frameNumMax (the code: 256)
  FeiFaults        \* what the media library may refuse: "init", "buffer", "encode"

FeiParameters ==
  [refDist : Nat \ {0}, asked : BOOLEAN, gopSize : Nat \ {0}, idrDist : Nat \ {0},
   strict : BOOLEAN, closed : BOOLEAN, bref : {"unknown", "off", "pyramid"},
   struct : {"prog", "tff", "bff"}, activeP : Nat, activeBL0 : Nat,
   pipeline : {"preenc", "encode", "preenc+encode", "enc+pak"},
   ds : BOOLEAN, noVpp : BOOLEAN, recon : Nat]

ASSUME FeiAssumption ==
  /\ FeiConfigs \subseteq {par \in FeiParameters : par.asked \/ par.refDist = 4}
  /\ FeiFrames \in Nat
  /\ FeiFrameNumMax \in Nat \ {0} /\ FeiFaults \subseteq {"init", "buffer", "encode"}

VARIABLES
  feiPar,      \* the parameters, fixed by InitEncoder
  feiPc,       \* the thread: "get", "pick", "preenc", "code", "exit", "done",
               \* "dead" (returned in the middle), "spin" (see FeiCodeFails)
  feiRun,      \* is_running_
  feiCount,    \* m_frameCount, while frames come
  feiIdr,      \* m_frameOrderIdrInDisplayOrder
  feiEnd,      \* "no", or what the last buffer was: "eos", "reset"
  feiBuf,      \* the frame whose surface a buffer without one was given
               \* when the thread gave it back, -1 for none
  feiPool,     \* task_pool, by frame order
  feiLast,     \* last_encoded_task, the fields operator= keeps
  feiTask,     \* task_in_process, -1 for none
  feiVacant,   \* the vacant sets of m_preencBufs and of m_encodeBufs
  feiFilled,   \* encode set -> the frame whose predictors it holds
  feiOut,      \* history: the pictures coded, in order
  feiBack,     \* history: frames whose buffers went back to the producer
  feiEos,      \* SetEndOfStream of the output has been called
  feiShort,    \* history: what the thread asked for and did not get
  feiFault     \* history: what the media library refused

feiThread == <<feiPc, feiRun, feiEos>>
feiInput == <<feiCount, feiIdr, feiEnd, feiBuf>>
feiTasks == <<feiPool, feiLast, feiTask>>
feiSets == <<feiVacant, feiFilled>>
feiHistory == <<feiOut, feiBack, feiShort, feiFault>>
feiVars == <<feiPar, feiThread, feiInput, feiTasks, feiSets, feiHistory>>

-----------------------------------------------------------------------------
(* Parameters                                                              *)

Least(a, b) == IF a < b THEN a ELSE b
Most(a, b) == IF a < b THEN b ELSE a

Fields(par) == IF par.struct = "prog" THEN 1 ELSE 2
FirstParity(par) == IF par.struct = "bff" THEN 1 ELSE 0
Parity(par, second) == IF second THEN 1 - FirstParity(par) ELSE FirstParity(par)

QueueOfDistance(par) == par.refDist + 1

\* NumRefFrame of each stage; the length of the queue is worked out before
\* GetRefInfo, from the distance the command line gave.
NumRef(par) == Least(4, par.refDist + 1)
MaxQueue(par) == 2 * par.refDist + 1 + (IF par.asked THEN NumRef(par) ELSE 1) + 1

PreencSets(par) == 1 .. Most(MaxQueue(par) + 4, MaxQueue(par) * NumRef(par))
EncodeSets(par) == 1 .. MaxQueue(par)

Preenc(par) == par.pipeline \in {"preenc", "preenc+encode"}
Codes(par) == par.pipeline # "preenc"

\* The surfaces of the decoder, or VPP, that feeds the encoder, less those
\* its own component asked for.
Spare(par) == 10 + (IF par.asked THEN par.refDist * (IF Preenc(par) THEN 2 ELSE 1) ELSE 0)
                 + (IF par.ds THEN 4 ELSE 0)

\* The references a field may use: nothing sets them for ENCODE alone.
ActiveL0(par, kind) ==
  IF par.pipeline = "encode" THEN 0 ELSE IF kind = "P" THEN par.activeP ELSE par.activeBL0
ActiveL1(par) == IF par.pipeline = "encode" THEN 0 ELSE Fields(par)

-----------------------------------------------------------------------------
(* Frame types and the place of a B frame in its mini-GOP                  *)

FrameKind(par, n) ==
  IF n % par.idrDist = 0 THEN "IDR"
  ELSE IF n % par.gopSize = 0 THEN "I"
  ELSE IF \/ (n % par.gopSize) % par.refDist = 0
          \/ /\ ~par.strict
             /\ \/ (n + 1) % par.gopSize = 0 /\ par.closed
                \/ (n + 1) % par.idrDist = 0
       THEN "P"
  ELSE "B"

\* The second field of an intra picture is predicted.
Intra(kind) == kind \in {"IDR", "I"}
FieldKind(task, second) == IF second /\ Intra(task.kind) THEN "P" ELSE task.kind

\* Bisection: coding order of a B frame, and whether others refer to it.
GetEncodingOrder(at, len) ==
  LET f[b \in 0 .. len, e \in 0 .. len, n \in 0 .. 2 * len] ==
        LET pivot == (b + e) \div 2
        IN  IF at = pivot THEN <<n, e - b > 1>>
            ELSE IF at < pivot THEN f[b, pivot, n + 1]
            ELSE f[pivot + 1, e, n + 1 + pivot - b]
  IN  f[0, len, 0]

\* The bisection of any mini-GOP ends.
ASSUME FeiPlaces ==
  \A par \in {par \in FeiConfigs : par.bref # "off"} : \A at \in 0 .. par.refDist - 2 :
    GetEncodingOrder(at, par.refDist - 1) \in Nat \X BOOLEAN

NewTask(par, kind, n, surface) ==
  LET in == n % par.gopSize
      placed == kind = "B" /\ par.bref # "off"
      place == IF placed THEN GetEncodingOrder((in % par.refDist) - 1, par.refDist - 1)
                         ELSE <<0, kind # "B">>
  IN  [kind |-> kind, order |-> place[1], gop |-> IF placed THEN in \div par.refDist ELSE 0,
       ref |-> place[2], surface |-> surface, coded |-> FALSE,
       bufs |-> 0, last |-> 0, outs |-> {}]

\* MFX_FRAMETYPE_REF of the type, when ref is m_reference.
TypeRef(task) == task.kind # "B" \/ task.ref

-----------------------------------------------------------------------------
(* Decoded picture buffer and reference lists.  An entry of the buffer is  *)
(* a frame, its frame number and the parities that are references; an      *)
(* entry of a list is <<frame, parity>>.                                   *)

Descending(frames) == SetToSortSeq(frames, LAMBDA a, b : a > b)
Ascending(frames) == SetToSortSeq(frames, LAMBDA a, b : a < b)
FramesOf(dpb) == {dpb[i].frame : i \in DOMAIN dpb}
EntryOf(dpb, frame) == CHOOSE d \in Range(dpb) : d.frame = frame
Wrapped(d, num) == IF d.num > num THEN d.num - FeiFrameNumMax ELSE d.num

FrameLists(kind, frame, num, dpb) ==
  LET past == Descending({f \in FramesOf(dpb) : f <= frame})
      future == Ascending({f \in FramesOf(dpb) : f > frame})
      newest == SortSeq(dpb, LAMBDA a, b : Wrapped(a, num) > Wrapped(b, num))
  IN  CASE kind = "P" -> <<[i \in DOMAIN newest |-> newest[i].frame], << >>>>
        [] kind = "B" -> <<past \o future, future \o past>>
        [] OTHER -> <<<< >>, << >>>>

\* ProcessFields: a field of the parity coded, one of the other, and so on.
FieldList(frames, dpb, parity) ==
  LET Of(p) == SelectSeq(frames, LAMBDA f : p \in EntryOf(dpb, f).parities)
      At(p, i) == IF i <= Len(Of(p)) THEN <<<<Of(p)[i], p>>>> ELSE << >>
  IN  FlattenSeq([i \in DOMAIN frames |-> At(parity, i) \o At(1 - parity, i)])

InitRefPicList(par, kind, frame, num, dpb, parity) ==
  LET lists == FrameLists(kind, frame, num, dpb)
      List(l) == IF Fields(par) = 1 THEN [i \in DOMAIN l |-> <<l[i], 0>>]
                                    ELSE FieldList(l, dpb, parity)
      l0 == List(lists[1])
      l1 == List(lists[2])
  IN  <<l0, IF Len(l1) > 1 /\ l0 = l1 THEN <<l1[2], l1[1]>> \o SubSeq(l1, 3, Len(l1)) ELSE l1>>

\* The later pictures first, among the entries of each parity.
LatestFirst(list) ==
  [i \in DOMAIN list |->
     LET p == list[i][2]
         rank == Cardinality({j \in 1 .. i : list[j][2] = p})
     IN  <<Descending({e[1] : e \in {x \in Range(list) : x[2] = p}})[rank], p>>]

\* A field that cannot be predicted first from its own parity keeps one
\* reference, the first of its own parity.
OwnParity(list, parity) ==
  LET own == SelectInSeq(list, LAMBDA e : e[2] = parity)
  IN  IF own > 1 THEN <<list[own]>> ELSE list

Cut(list, n) == IF n > 0 /\ Len(list) > n THEN SubSeq(list, 1, n) ELSE list

ModifyRefPicLists(par, task, frame, orderI, second, lists) ==
  LET kind == FieldKind(task, second)
      parity == Parity(par, second)
      pair == Fields(par) = 2 /\ Intra(task.kind)
      kept == [k \in 1 .. 2 |-> IF par.closed \/ orderI < frame
                                  THEN SelectSeq(lists[k], LAMBDA e : e[1] >= orderI)
                                  ELSE lists[k]]
      paired == IF pair /\ second /\ Len(kept[1]) > 1
                  THEN <<kept[1][2], kept[1][1]>> \o SubSeq(kept[1], 3, Len(kept[1]))
                  ELSE kept[1]
      sorted == IF par.bref = "pyramid" /\ FieldKind(task, par.struct = "bff") = "P"
                  THEN LatestFirst(paired) ELSE paired
      single == Fields(par) = 2 /\ ~pair
      l0 == IF single THEN OwnParity(sorted, parity) ELSE sorted
      l1 == IF single /\ kind = "B" THEN OwnParity(kept[2], parity) ELSE kept[2]
  IN  <<Cut(l0, ActiveL0(par, kind)), Cut(l1, ActiveL1(par))>>

\* GetNBackward and GetNForward: each list up to the first of the other.
AdjustReflists(kind, lists) ==
  LET Up(a, b) == IF a = << >> THEN 0
                  ELSE IF b = << >> \/ b[1] \notin Range(a) THEN Len(a)
                  ELSE SelectInSeq(a, LAMBDA e : e = b[1]) - 1
      n0 == Up(lists[1], lists[2])
      n1 == Up(lists[2], lists[1])
  IN  <<IF n0 = 0 /\ ~Intra(kind) THEN lists[1] ELSE SubSeq(lists[1], 1, n0),
        IF n1 = 0 /\ kind = "B" THEN lists[2] ELSE SubSeq(lists[2], 1, n1)>>

VictimNewest(par, dpb, frame) == dpb[Len(dpb)].frame

\* The entry that leaves a full buffer: the one coded first, as in a
\* decoder, except that a pyramid of fields keeps the picture before.
Victim(par, dpb, frame) ==
  LET before == {f \in FramesOf(dpb) : f < frame}
      nearest == \/ before = {}
                 \/ dpb[1].frame \in before /\ \A f \in before : f <= dpb[1].frame
  IN  IF Fields(par) = 2 /\ par.bref = "pyramid" /\ nearest
        THEN Min(FramesOf(dpb)) ELSE dpb[1].frame

Without(dpb, frame) == RemoveFirstMatch(dpb, LAMBDA d : d.frame = frame)

MarkWithoutWindow(par, task, frame, num, dpb) ==
  LET new == [frame |-> frame, num |-> num,
              parities |-> IF Fields(par) = 1 THEN {0, 1} ELSE {FirstParity(par)}]
  IN  IF ~TypeRef(task) THEN dpb ELSE IF task.kind = "IDR" THEN <<new>> ELSE Append(dpb, new)
MarkDecodedRefPictures(par, task, frame, num, dpb) ==
  LET new == [frame |-> frame, num |-> num,
              parities |-> IF Fields(par) = 1 THEN {0, 1} ELSE {FirstParity(par)}]
      full == Len(dpb) = NumRef(par)
  IN  IF ~TypeRef(task) THEN dpb
      ELSE IF task.kind = "IDR" THEN <<new>>
      ELSE Append(IF full THEN Without(dpb, Victim(par, dpb, frame)) ELSE dpb, new)

\* The second field of a reference may be referred to as well.
BothFields(par, task, dpb) ==
  IF Fields(par) = 2 /\ task.ref
    THEN [dpb EXCEPT ![Len(dpb)].parities = {0, 1}] ELSE dpb

-----------------------------------------------------------------------------
(* The pool                                                                *)

Unencoded(pool) == {f \in DOMAIN pool : ~pool[f].coded}
WithSurface(pool) == {f \in DOMAIN pool : pool[f].surface # -1}

\* The first frame in display order whose references are coded; of B frames
\* of one mini-GOP, the one the pyramid codes first.
ReorderFrame(pool) ==
  LET left == Unencoded(pool)
      Bi(f) == pool[f].kind = "B"
      ready == {f \in left : Bi(f) => \E g \in DOMAIN pool : g > f /\ pool[g].coded}
      top == Min(ready)
      mini == {f \in left : f >= top /\ \A g \in left :
                 top <= g /\ g <= f => Bi(g) /\ pool[g].gop = pool[top].gop}
      order == Min({pool[f].order : f \in mini})
  IN  IF ready = {} THEN -1
      ELSE IF Bi(top) THEN Min({f \in mini : pool[f].order = order})
      ELSE top

GetReadyTask(par, pool, flush) == <<pool, ReorderFrame(pool)>>

\* At the end of the input the last B frame, without a picture after it,
\* becomes a P frame; in a strict GOP the first B frame goes as it is.
GetReorderedTask(par, pool, flush) ==
  LET left == Unencoded(pool)
      top == ReorderFrame(pool)
      turned == [pool EXCEPT ![Max(left)].kind = "P"]
  IN  IF ~flush \/ top # -1 \/ left = {} \/ Cardinality(left) >= par.refDist THEN <<pool, top>>
      ELSE IF par.strict THEN <<pool, Min(left)>>
      ELSE <<turned, ReorderFrame(turned)>>

\* What GetTaskToEncode fills in: the buffer before and after, and the
\* lists of each field.
Fill(par, task, frame, last) ==
  LET idr == IF task.kind = "IDR" THEN frame ELSE last.idr
      orderI == IF Intra(task.kind) THEN frame ELSE last.orderI
      num == IF task.kind = "IDR" THEN 0 ELSE (last.num + last.inc) % FeiFrameNumMax
      marked == MarkDecodedRefPictures(par, task, frame, num, last.post)
      Lists(second) ==
        AdjustReflists(FieldKind(task, second),
          ModifyRefPicLists(par, task, frame, orderI, second,
            InitRefPicList(par, FieldKind(task, second), frame, num,
                           IF second THEN marked ELSE last.post, Parity(par, second))))
  IN  [frame |-> frame, kind |-> task.kind, idr |-> idr, orderI |-> orderI, num |-> num,
       inc |-> IF TypeRef(task) THEN 1 ELSE 0, dpb |-> last.post,
       post |-> BothFields(par, task, marked),
       lists |-> [field \in 1 .. Fields(par) |-> Lists(field = 2)]]

References(pic) == UNION {{e[1] : e \in Range(pic.lists[f][k])} : f \in DOMAIN pic.lists, k \in 1 .. 2}
RemovableUnreferred(pool, post) == {f \in DOMAIN pool : pool[f].coded}
Removable(pool, post) == {f \in DOMAIN pool : pool[f].coded /\ f \notin FramesOf(post)}

\* UpdatePool: the oldest coded task that is no reference goes once the pool
\* is at its limit, and its sets become vacant; the set of its last PREENC
\* call does so even when repacking had released it before.
UpdatePool(par, pool, frame, post) ==
  LET coded == [pool EXCEPT ![frame].coded = TRUE]
      gone == Removable(coded, post)
  IN  IF Cardinality(DOMAIN pool) >= NumRef(par) + 1 /\ gone # {}
        THEN <<[f \in DOMAIN pool \ {Min(gone)} |-> coded[f]], coded[Min(gone)]>>
        ELSE <<coded, [bufs |-> 0, last |-> 0, outs |-> {}]>>

-----------------------------------------------------------------------------
(* The thread                                                              *)

NoPicture == [frame |-> -1]

FeiInit ==
  /\ feiPar \in FeiConfigs
  /\ feiPc = "get" /\ feiRun = TRUE /\ feiEos = FALSE
  /\ feiCount = 0 /\ feiIdr = 0 /\ feiEnd = "no" /\ feiBuf = -1
  /\ feiPool = << >> /\ feiTask = NoPicture
  /\ feiLast = [idr |-> 0, orderI |-> 0, num |-> 0, inc |-> 0, post |-> << >>]
  /\ feiVacant = [preenc |-> PreencSets(feiPar), encode |-> EncodeSets(feiPar)]
  /\ feiFilled = [s \in EncodeSets(feiPar) |-> -1]
  /\ feiOut = << >> /\ feiBack = << >> /\ feiShort = {} /\ feiFault = {}

Refused(what) == what \in FeiFaults \ feiFault /\ feiFault' = feiFault \cup {what}
Lacks(what) == feiPc' = "exit" /\ feiShort' = feiShort \cup {what}

\* A turn with a surface, or with none: a type, a surface for the downsampled
\* picture, a task.
AddTask(surface) ==
  LET kind == FrameKind(feiPar, feiCount - feiIdr)
      idr == IF kind = "IDR" THEN feiCount ELSE feiIdr
      task == NewTask(feiPar, kind, feiCount - idr, surface)
  IN  /\ feiCount' = feiCount + 1
      /\ feiIdr' = idr
      /\ IF feiPar.ds /\ Cardinality(WithSurface(feiPool)) = MaxQueue(feiPar)
           THEN Lacks("ds") /\ UNCHANGED feiPool
           ELSE /\ feiPool' = [f \in DOMAIN feiPool \cup {feiCount} |->
                                 IF f = feiCount THEN task ELSE feiPool[f]]
                /\ feiPc' = "pick"
                /\ UNCHANGED feiShort

FeiTake ==
  /\ feiPc = "get" /\ feiRun /\ feiEnd = "no" /\ feiCount < FeiFrames
  /\ AddTask(feiCount)
  /\ UNCHANGED <<feiPar, feiRun, feiEos, feiEnd, feiBuf, feiLast, feiTask, feiSets, feiOut, feiBack, feiFault>>

\* The first frame initialises the encoder.
FeiInitFails ==
  /\ feiPc = "get" /\ feiRun /\ feiEnd = "no" /\ feiCount = 0 /\ Refused("init")
  /\ feiPc' = "exit"
  /\ UNCHANGED <<feiPar, feiRun, feiEos, feiInput, feiTasks, feiSets, feiOut, feiBack, feiShort>>

\* After a buffer without a surface none is taken any more.  With EOS the
\* loop picks what is left; the buffer of a decoder that was reset adds a
\* task on every turn, with the surface the buffer has come to hold.
FeiInputEnds ==
  /\ feiPc = "get" /\ feiRun /\ feiEnd = "no"
  /\ \/ feiEnd' = "eos"
     \/ feiEnd' = "reset" /\ feiPar.noVpp /\ feiCount \in 1 .. FeiFrames - 1
  /\ feiPc' = IF feiCount = 0 THEN "exit" ELSE "get"
  /\ UNCHANGED <<feiPar, feiRun, feiEos, feiCount, feiIdr, feiBuf, feiTasks, feiSets, feiHistory>>

FeiAgain ==
  /\ feiPc = "get" /\ feiRun
  /\ \/ feiEnd = "eos" /\ feiPc' = "pick" /\ UNCHANGED <<feiCount, feiIdr, feiPool, feiShort>>
     \/ feiEnd = "reset" /\ AddTask(feiBuf)
  /\ UNCHANGED <<feiPar, feiRun, feiEos, feiEnd, feiBuf, feiLast, feiTask, feiSets, feiOut, feiBack, feiFault>>

FeiPick ==
  LET first == GetReorderedTask(feiPar, feiPool, FALSE)
      found == IF first[2] = -1 /\ feiEnd = "eos"
                 THEN GetReorderedTask(feiPar, feiPool, TRUE) ELSE first
      frame == found[2]
  IN  /\ feiPc = "pick"
      /\ IF frame = -1
           THEN /\ feiEnd = "eos" => feiEos' = TRUE /\ feiRun' = FALSE /\ feiPc' = "exit"
                /\ feiEnd # "eos" => feiPc' = "get" /\ UNCHANGED <<feiEos, feiRun>>
                /\ UNCHANGED <<feiTasks, feiShort>>
           ELSE /\ feiPool' = found[1]
                /\ feiTask' = Fill(feiPar, found[1][frame], frame, feiLast)
                /\ IF feiPar.pipeline = "enc+pak"
                      /\ Cardinality({f \in DOMAIN feiPool : feiPool[f].coded}) = feiPar.recon
                     THEN feiPc' = "dead" /\ feiShort' = feiShort \cup {"recon"}
                     ELSE feiPc' = "preenc" /\ UNCHANGED feiShort
                /\ UNCHANGED <<feiEos, feiRun, feiLast>>
      /\ UNCHANGED <<feiPar, feiInput, feiSets, feiOut, feiBack, feiFault>>

\* ProcessMultiPreenc: one call for each reference, each with a set of its own.
Calls(par, pic) ==
  LET second == FieldKind(pic, Fields(par) = 2)
      l0 == IF second = "P" THEN IF pic.kind = "IDR" THEN 1 ELSE par.activeP
            ELSE IF Intra(pic.kind) THEN 1 ELSE par.activeBL0
      l1 == IF pic.kind = "B" THEN ActiveL1(par) ELSE 1
  IN  Most(Least(l0, Fields(par) * NumRef(par)), Least(l1, Fields(par) * NumRef(par)))

Lowest(set, n) == {x \in set : Cardinality({y \in set : y < x}) < n}

\* Repacking copies the vectors to the first vacant set of the encoder and
\* gives that set up again: the encoder takes it next.
FeiPreenc ==
  LET calls == Calls(feiPar, feiTask)
      taken == Lowest(feiVacant.preenc, calls)
      repack == Codes(feiPar) /\ (Fields(feiPar) = 2 \/ ~Intra(feiTask.kind))
  IN  /\ feiPc = "preenc"
      /\ IF ~Preenc(feiPar) \/ feiTask.frame \notin WithSurface(feiPool)
           THEN feiPc' = "code" /\ UNCHANGED <<feiPool, feiSets, feiShort>>
         ELSE IF Cardinality(taken) < calls \/ (repack /\ feiVacant.encode = {})
           THEN Lacks("set") /\ UNCHANGED <<feiPool, feiSets>>
         ELSE IF ~ (References(feiTask) \subseteq DOMAIN feiPool)
           THEN Lacks("reference") /\ UNCHANGED <<feiPool, feiSets>>
         ELSE /\ feiPc' = "code"
              /\ feiPool' = [feiPool EXCEPT ![feiTask.frame].outs = IF repack THEN {} ELSE taken,
                                            ![feiTask.frame].last = Max(taken)]
              /\ feiVacant' = [feiVacant EXCEPT !.preenc = IF repack THEN @ ELSE @ \ taken]
              /\ feiFilled' = IF repack THEN [feiFilled EXCEPT ![Min(feiVacant.encode)] = feiTask.frame]
                                        ELSE feiFilled
              /\ UNCHANGED feiShort
      /\ UNCHANGED <<feiPar, feiRun, feiEos, feiInput, feiLast, feiTask, feiOut, feiBack, feiFault>>

\* The encoder takes the task and the buffer with its surface goes back, the
\* one that came last from then on holding that surface; a bitstream buffer
\* too small is enlarged and the picture is not coded again, and ENC and PAK
\* hide most errors of the library (all but a GPU hang).
Encoded(out) ==
  LET frame == feiTask.frame
      bufs == IF Codes(feiPar) THEN Min(feiVacant.encode) ELSE 0
      pool == UpdatePool(feiPar, [feiPool EXCEPT ![frame].bufs = bufs], frame, feiTask.post)
      old == pool[2]
  IN  /\ feiOut' = feiOut \o out
      /\ feiBack' = Append(feiBack, feiPool[frame].surface)
      /\ feiBuf' = IF feiEnd = "reset" THEN feiPool[frame].surface ELSE feiBuf
      /\ feiPool' = pool[1]
      /\ feiLast' = [idr |-> feiTask.idr, orderI |-> feiTask.orderI, num |-> feiTask.num,
                     inc |-> feiTask.inc, post |-> feiTask.post]
      /\ feiTask' = NoPicture
      /\ feiVacant' = [preenc |-> feiVacant.preenc \cup ((old.outs \cup {old.last}) \ {0}),
                       encode |-> (feiVacant.encode \ {bufs}) \cup ({old.bufs} \ {0})]
      /\ feiPc' = "get"

FeiCode ==
  /\ feiPc = "code" /\ feiTask.frame \in WithSurface(feiPool)
  /\ Codes(feiPar) => feiVacant.encode # {}
  /\ \/ Encoded(<<feiTask>>) /\ UNCHANGED feiFault
     \/ Codes(feiPar) /\ Refused("buffer") /\ Encoded(<< >>)
  /\ UNCHANGED <<feiPar, feiRun, feiEos, feiCount, feiIdr, feiEnd, feiFilled, feiShort>>

\* An error ends the thread.  A task without a surface drains the encoder,
\* which then asks for more data: an error, or the end of the stream.  PREENC
\* alone skips it, PAK may hide what the library says of it: unless nothing
\* else is left the thread goes on adding a task for each it takes, "spin".
FeiCodeFails ==
  /\ feiPc = "code"
  /\ \/ Codes(feiPar) /\ feiVacant.encode = {} /\ Lacks("set") /\ UNCHANGED feiFault
     \/ /\ feiTask.frame \in WithSurface(feiPool) /\ Refused("encode")
        /\ feiPc' = "exit" /\ UNCHANGED feiShort
     \/ /\ feiTask.frame \notin WithSurface(feiPool)
        /\ \/ feiPc' = "exit" /\ (Codes(feiPar) \/ Unencoded(feiPool) = {feiTask.frame})
           \/ /\ feiPc' = "spin" /\ feiPar.pipeline \in {"preenc", "enc+pak"}
              /\ Unencoded(feiPool) # {feiTask.frame}
        /\ UNCHANGED <<feiShort, feiFault>>
  /\ UNCHANGED <<feiPar, feiRun, feiEos, feiInput, feiTasks, feiSets, feiOut, feiBack>>

\* Stopped; an error, or the last task, may end the turns without end too.
FeiLeave ==
  /\ feiPc = "spin" \/ (feiPc = "get" /\ ~feiRun)
  /\ feiPc' = "exit"
  /\ UNCHANGED <<feiPar, feiRun, feiEos, feiInput, feiTasks, feiSets, feiHistory>>

\* The buffers still queued go back.
FeiExit ==
  /\ feiPc = "exit" /\ feiPc' = "done"
  /\ feiEos' = (feiEos \/ feiRun) /\ feiRun' = FALSE
  /\ UNCHANGED <<feiPar, feiInput, feiTasks, feiSets, feiHistory>>

FeiStop ==
  /\ feiRun /\ feiPc # "dead" /\ feiRun' = FALSE
  /\ UNCHANGED <<feiPar, feiPc, feiEos, feiInput, feiTasks, feiSets, feiHistory>>

FeiStep ==
  \/ FeiTake \/ FeiInitFails \/ FeiInputEnds \/ FeiAgain \/ FeiPick \/ FeiPreenc
  \/ FeiCode \/ FeiCodeFails \/ FeiLeave \/ FeiExit
FeiEnded == feiPc \in {"done", "dead"}
FeiOver == FeiEnded /\ UNCHANGED feiVars
FeiNext == FeiStep \/ FeiStop \/ FeiOver

\* Weak fairness of FeiStep, spelt out because TLC is slow to find FeiStep
\* enabled: it is until the thread ends (a deadlock is an error of the run),
\* and moves feiPc sooner or later.  Nothing need end the turns without end
\* but Stop.
FeiSpins == feiPc = "spin" /\ feiRun
FeiFairness == []<>(FeiEnded \/ FeiSpins) \/ []<><<feiPc' # feiPc>>_feiVars
FeiSpec == FeiInit /\ [][FeiNext]_feiVars /\ FeiFairness

-----------------------------------------------------------------------------
(* Properties                                                              *)

FeiTypeOK ==
  /\ feiPar \in FeiConfigs
  /\ feiPc \in {"get", "pick", "preenc", "code", "exit", "done", "dead", "spin"}
  /\ feiRun \in BOOLEAN /\ feiEos \in BOOLEAN
  /\ feiCount \in Nat /\ feiIdr \in 0 .. feiCount
  /\ feiEnd \in {"no", "eos", "reset"}
  /\ feiBuf \in -1 .. feiCount - 1 /\ (feiBuf # -1 => feiEnd = "reset")
  /\ DOMAIN feiPool \subseteq 0 .. feiCount - 1
  /\ Len(feiLast.post) <= NumRef(feiPar)
  /\ feiVacant.preenc \subseteq PreencSets(feiPar) /\ feiVacant.encode \subseteq EncodeSets(feiPar)
  /\ feiShort \subseteq {"ds", "set", "reference", "recon"}

\* Every picture of the decoded picture buffer of the task in process is a task
\* still in the pool, and coded: RemoveProcessedTask drops none that is still a
\* reference.
FeiBufferIsHeld ==
  feiPc \in {"preenc", "code"} =>
    \A f \in FramesOf(feiTask.dpb) : f \in DOMAIN feiPool /\ feiPool[f].coded

\* The pool keeps no more coded tasks than the buffer has pictures, so that
\* there are always enough sets left, of those AllocExtBuffers allocates, for
\* PREENC and for the encoder, and a reconstructed surface.
FeiSetsSuffice ==
  /\ Cardinality({f \in DOMAIN feiPool : feiPool[f].coded}) <= NumRef(feiPar)
  /\ (feiPc = "code" /\ Codes(feiPar)) => feiVacant.encode # {}
  /\ "set" \notin feiShort
  /\ feiPar.recon > NumRef(feiPar) => "recon" \notin feiShort

\* Every entry of the lists of the task in process is of that buffer, or the
\* first field of the task itself, so that PREENC finds it, and a predicted
\* field has one to refer to.
FeiListsAreHeld ==
  /\ feiPc \in {"preenc", "code"} =>
       /\ References(feiTask) \subseteq FramesOf(feiTask.dpb) \cup {feiTask.frame}
       /\ \A field \in DOMAIN feiTask.lists :
            LET kind == FieldKind(feiTask, field = 2)
            IN  /\ kind \in {"P", "B"} => feiTask.lists[field][1] # << >>
                /\ kind = "B" => feiTask.lists[field][2] # << >>
  /\ "reference" \notin feiShort

\* A decoder has the pictures the stream refers to: each was coded since the
\* last IDR picture, as a reference, and fewer references than the window
\* holds followed it (fields in a pyramid say themselves what to drop).
\* Unless the GOP is strict, nothing coded after an IDR picture comes before
\* it in display order.
FeiStreamDecodes ==
  "buffer" \notin feiFault => \A k \in DOMAIN feiOut :
    LET pic == feiOut[k]
        idr == Max({i \in 1 .. k : feiOut[i].kind = "IDR"})
    IN  /\ \A f \in References(pic) \ {pic.frame} : \E i \in idr .. k - 1 :
             /\ feiOut[i].frame = f /\ feiOut[i].inc = 1
             /\ (Fields(feiPar) = 1 \/ feiPar.bref # "pyramid") =>
                  Cardinality({j \in i + 1 .. k - 1 : feiOut[j].inc = 1}) < NumRef(feiPar)
        /\ feiPar.strict \/ pic.frame >= feiOut[idr].frame

\* A frame that comes finds a surface for its downsampled picture, and the
\* producer keeps one for the next frame: what InitEncoder asks for is enough
\* for every order of coding.
FeiSurfacesSuffice ==
  "ds" \notin feiShort /\ Cardinality(WithSurface(feiPool)) < Spare(feiPar)

\* The set the encoder takes is the one the vectors of this very picture were
\* copied to, although repacking gave it up in between.
FeiPredictorsMatch ==
  (feiPc = "code" /\ feiPar.pipeline = "preenc+encode" /\ feiVacant.encode # {}
     /\ feiTask.frame \in WithSurface(feiPool) /\ (Fields(feiPar) = 2 \/ ~Intra(feiTask.kind)))
    => feiFilled[Min(feiVacant.encode)] = feiTask.frame

\* No task is coded twice and, unless the decoder was reset, no frame comes in
\* two tasks: no buffer goes back twice.  A buffer without a surface is given
\* back with that of the task coded and kept, so after a reset its surface
\* makes another task, is coded again and goes back again.  At the end of the
\* input every frame that came has been coded and its buffer is back.
FeiFramesComeOnce ==
  /\ IsInjective([k \in DOMAIN feiOut |-> feiOut[k].frame])
  /\ feiEnd # "reset" => IsInjective(feiBack)
  /\ (feiPc = "done" /\ feiEos /\ feiEnd = "eos" /\ feiFault = {} /\ feiShort = {}) =>
       {feiOut[k].frame : k \in DOMAIN feiOut} = 0 .. feiCount - 1 /\ Range(feiBack) = 0 .. feiCount - 1

\* No frame waits for more of those that came after it than two mini-GOPs
\* have, so a decoder that was reset has no more tasks added before the first
\* of them without a surface has its turn.
FeiResetEnds ==
  /\ feiPc = "get" => \A f \in Unencoded(feiPool) : feiCount < f + 2 * feiPar.refDist
  /\ feiEnd = "reset" => feiCount < FeiFrames + 2 * feiPar.refDist

\* Once its input ends the thread ends, whatever the library refuses, unless
\* it goes round with the tasks of a decoder that was reset and is not stopped.
FeiEnds == <>FeiEnded \/ <>[](FeiSpins /\ feiEnd = "reset")
=============================================================================
