------------------------------ MODULE FeiHevc ------------------------------
(***************************************************************************)
(* The H.265 FEI encoder: H265FEIEncoderElement hands each surface to      *)
(* EncodeOrderControl, which answers with the next picture in coding order *)
(* or with none, locks the surfaces it still needs, and works out decoded  *)
(* picture buffer and reference lists.  Each surface may be released twice *)
(* over: the encoder holds a lock of its own, the producer another until   *)
(* the buffer goes back to it.                                             *)
(*                                                                         *)
(* A frame is its number in display order, -1 for none.  Pictures are      *)
(* progressive: nothing in the program asks for single fields.             *)
(***************************************************************************)
EXTENDS Integers, Sequences, SequencesExt, FiniteSets, FiniteSetsExt

CONSTANTS
  HevcConfigs,   \* parameters of the encoders to run, see HevcParameters
  HevcFrames,    \* bound: frames of the stream
  HevcFaults     \* what may go wrong: "init", "encode", "device", "status"

HevcParameters ==
  [dist : Nat, gopSize : Nat \ {0}, idrInterval : Nat, closed : BOOLEAN,
   bpyramid : BOOLEAN, ppyramid : BOOLEAN,
   refnum : 0 .. 15, activeP : 1 .. 3, activeBL0 : 1 .. 3,
   pipeline : {"preenc", "preenc+encode", "mvin", "encode"},
   ds : BOOLEAN, predictors : 0 .. 4, noVpp : BOOLEAN]

\* Without a distance a pyramid of P frames divides by zero: see PPyramid.  A
\* buffer of more than 15 pictures throws what nothing catches: see UpdateDPB.
ASSUME HevcAssumption ==
  /\ HevcConfigs \subseteq HevcParameters /\ HevcFrames \in Nat
  /\ \A par \in HevcConfigs : par.ppyramid => par.dist > 1 \/ (par.dist = 1 /\ par.pipeline # "mvin")
  /\ HevcFaults \subseteq {"init", "encode", "device", "status"}

VARIABLES
  hevcPar,     \* the parameters, fixed by Init and InitEncoder
  hevcPc,      \* the thread: "get", "code", "flush", "last" (coding, at the end),
               \* "done", "dead" (returned without an end of stream), "spin"
  hevcRun,     \* is_running_
  hevcEos,     \* SetEndOfStream of the output has been called
  hevcCount,   \* history: surfaces that came
  hevcOrder,   \* m_frameOrder, surfaces that found a task
  hevcIdr,     \* m_lastIDR
  hevcQueue,   \* m_reordering
  hevcTask,    \* the task in m_encoding
  hevcLast,    \* m_lastTask: its poc, its lastRAP, its buffer AFTER
  hevcLocked,  \* frames whose surface the encoder has locked
  hevcSmall,   \* frames that have a downsampled surface
  hevcBack,    \* history: frames whose buffers went back to the producer
  hevcOut,     \* history: the pictures coded, in order
  hevcShort,   \* history: what the thread asked for and did not get
  hevcFault    \* history: what went wrong

hevcThread == <<hevcPc, hevcRun, hevcEos>>
hevcInput == <<hevcCount, hevcOrder, hevcIdr>>
hevcTasks == <<hevcQueue, hevcTask, hevcLast, hevcLocked>>
hevcHistory == <<hevcBack, hevcOut, hevcShort, hevcFault>>
hevcVars == <<hevcPar, hevcThread, hevcInput, hevcTasks, hevcSmall, hevcHistory>>

-----------------------------------------------------------------------------
(* Parameters.  A stream of predictors raises the distance asked for by    *)
(* one.  NumRefFrame is what -refnum says; left out (0) it follows from the *)
(* distance.  A stream of predictors leaves it to the library's Query,     *)
(* assumed to say what follows from the distance and nothing else.         *)

HevcMin(a, b) == IF a < b THEN a ELSE b
RefDist(par) ==
  IF par.pipeline = "mvin" THEN HevcMin(4, par.dist + 1)
  ELSE IF par.dist = 0 THEN 4 ELSE par.dist
HevcPreenc(par) == par.pipeline \in {"preenc", "preenc+encode"}
HevcNumRef(par) ==
  IF par.refnum # 0 /\ HevcPreenc(par) THEN par.refnum ELSE HevcMin(4, RefDist(par) + 1)
ActiveB(par) == IF par.dist < 2 THEN 0 ELSE par.activeBL0
Reorders(par) == par.pipeline # "encode"
TasksOfMiniGop(par) == IF RefDist(par) > 1 THEN RefDist(par) - 1 ELSE 1
MaxTask(par) == IF RefDist(par) > 1 THEN RefDist(par) ELSE 1

-----------------------------------------------------------------------------
(* EncodeOrderControl                                                      *)

GetFrameType(par, n) ==
  LET idrDist == par.gopSize * par.idrInterval
  IN  IF n = 0 \/ (idrDist # 0 /\ n % idrDist = 0) THEN "IDR"
      ELSE IF n % par.gopSize = 0 THEN "I"
      ELSE IF \/ (n % par.gopSize) % RefDist(par) = 0
              \/ (n + 1) % par.gopSize = 0 /\ par.closed
              \/ idrDist # 0 /\ (n + 1) % idrDist = 0
           THEN "P"
      ELSE "B"

Unplaced == 99

\* Bisection: the place of a B frame, and whether others refer to it.
GetBiFrameLocation(at, len) ==
  LET f[b \in 0 .. len, e \in 0 .. len, n \in 0 .. 2 * len] ==
        LET pivot == (b + e) \div 2
        IN  IF at = pivot THEN <<n, e - b > 1>>
            ELSE IF at < pivot THEN f[b, pivot, n + 1]
            ELSE f[pivot + 1, e, n + 1 + pivot - b]
  IN  f[0, len, 1]

\* The bisection of any mini-GOP ends, at a place below the mark for none.
ASSUME HevcPlaces ==
  \A par \in {par \in HevcConfigs : par.bpyramid} : \A len \in 1 .. MaxTask(par), at \in 0 .. MaxTask(par) :
    at < len => GetBiFrameLocation(at, len) \in (0 .. Unplaced - 1) \X BOOLEAN

\* B frames that are placed for the first time are placed together.
BPyrReorder(queue, ready) ==
  LET place == [i \in ready |-> GetBiFrameLocation(Cardinality({j \in ready : j < i}),
                                                   Cardinality(ready))]
  IN  IF queue[Min(ready)].bpo # Unplaced THEN queue
      ELSE [i \in DOMAIN queue |->
              IF i \in ready THEN [queue[i] EXCEPT !.bpo = place[i][1],
                                                   !.ref = @ \/ place[i][2]]
              ELSE queue[i]]

\* The task to encode among the first len of the queue: a B frame with a
\* picture after it in the buffer, else the first that is no B frame.  When
\* nothing follows, the last B frame becomes a P frame.
FindFrameToEncode(par, dpb, queue, len, flush) ==
  LET leading == {i \in 1 .. len : \A j \in 1 .. i : queue[j].kind = "B"}
      ready == {i \in leading : \E d \in dpb : d.poc > queue[i].poc}
      placed == BPyrReorder(queue, ready)
      bpo == Min({placed[i].bpo : i \in ready})
  IN  IF ready # {} /\ par.bpyramid
        THEN <<placed, Min({i \in ready : placed[i].bpo = bpo})>>
      ELSE IF ready # {} THEN <<queue, Min(ready)>>
      ELSE IF Cardinality(leading) < len THEN <<queue, Cardinality(leading) + 1>>
      ELSE IF flush /\ len > 0 THEN <<[queue EXCEPT ![len].kind = "P", ![len].ref = TRUE], len>>
      ELSE <<queue, 0>>

KeepReferences(task, last) == last.after

InitDPBAfterPoint(task, last) ==
  IF task.poc > last.rap /\ last.poc <= last.rap
    THEN {d \in last.after : d.poc > last.rap} ELSE last.after

\* The first trailing picture keeps the random access point alone.
InitDPB(task, last) ==
  IF task.poc > last.rap /\ last.poc <= last.rap
    THEN {d \in last.after : d.poc = last.rap} ELSE last.after

Oldest(dpb) == CHOOSE d \in dpb : \A e \in dpb : d.poc <= e.poc
Newest(dpb) == CHOOSE d \in dpb : \A e \in dpb : d.poc >= e.poc

AppendToDPB(par, dpb, entry) == dpb \cup {entry}
UpdateDPB(par, dpb, entry) ==
  LET off == {d \in dpb : (d.poc - Oldest(dpb).poc) % 3 # 0}
      gone == Oldest(IF par.ppyramid /\ off # {} THEN off ELSE dpb)
  IN  (IF dpb # {} /\ Cardinality(dpb) = HevcNumRef(par) THEN dpb \ {gone} ELSE dpb) \cup {entry}

\* A pyramid of P frames leaves n: of those that are no multiple of n frames
\* from the nearest, nor the farthest, the nearest go first, then the nearest
\* of the others.
PPyramid(dpb, n) ==
  LET strong == {d \in dpb : (Newest(dpb).poc - d.poc) % n = 0} \cup {Oldest(dpb)}
      Before(d) == {e \in dpb : e.poc < d.poc}
      Stay(d) == IF d \in strong THEN Before(d) \cap strong ELSE Before(d) \cup strong
  IN  {d \in dpb : Cardinality(Stay(d)) < n}

\* Without it the first n are left: the nearest go, sorted to the front.
FirstOf(dpb, n) == {d \in dpb : Cardinality({e \in dpb : e.poc < d.poc}) < n}

\* The two lists, as sets: the encoder is told their order, by distance.
HevcLists(par, task, active) ==
  LET n == IF task.kind = "P" THEN par.activeP ELSE ActiveB(par)
      past == {d \in active : d.poc < task.poc}
      l0 == IF Cardinality(past) <= n THEN past
            ELSE IF par.ppyramid THEN PPyramid(past, n) ELSE FirstOf(past, n)
      later == active \ past
  IN  IF task.kind \in {"IDR", "I"} THEN <<{}, {}>>
      ELSE IF task.kind = "P" THEN <<l0, {}>>
      ELSE IF later # {} THEN <<l0, {Oldest(later)}>>
      ELSE IF l0 # {} THEN <<l0, {Oldest(l0)}>>
      ELSE <<{}, {}>>

\* GetSHNUT: what a decoder that starts here may do with the picture.
Unit(task, last) ==
  IF task.kind = "IDR" THEN "IDR" ELSE IF task.kind = "I" THEN "CRA"
  ELSE IF task.poc > last.rap THEN "TRAIL" ELSE "RASL"

HevcFill(par, task, last) ==
  LET active == InitDPB(task, last)
      unit == Unit(task, last)
      kept == IF task.kind = "IDR" THEN {} ELSE active
      lists == HevcLists(par, task, active)
  IN  [frame |-> task.frame, poc |-> task.poc, kind |-> task.kind, ref |-> task.ref,
       unit |-> unit, rap |-> IF unit \in {"IDR", "CRA"} THEN task.poc ELSE last.rap,
       before |-> last.after, active |-> active, l0 |-> lists[1], l1 |-> lists[2],
       after |-> IF task.ref THEN UpdateDPB(par, kept, [frame |-> task.frame, poc |-> task.poc])
                             ELSE kept]

NoTask == [frame |-> -1]
HevcFree == MaxTask(hevcPar) - Len(hevcQueue) - (IF hevcTask = NoTask THEN 0 ELSE 1)

\* GetTask with no surface, or once the surface is in the queue: what the
\* next IDR picture cuts off is flushed.
GetTask(queue, surface) ==
  LET later == {i \in DOMAIN queue : i > 1 /\ queue[i].kind = "IDR"}
      len == IF later = {} THEN Len(queue) ELSE Min(later) - 1
      found == FindFrameToEncode(hevcPar, hevcLast.after, queue, len, ~surface \/ later # {})
      task == HevcFill(hevcPar, found[1][found[2]], hevcLast)
  IN  IF found[2] = 0 THEN /\ hevcQueue' = found[1]
                           /\ UNCHANGED <<hevcTask, hevcLast>>
      ELSE /\ hevcQueue' = RemoveAt(found[1], found[2])
           /\ hevcTask' = task
           /\ hevcLast' = [poc |-> task.poc, rap |-> task.rap, after |-> task.after]

\* DownSampleFrame: each picture gets a smaller surface for the search.
Downsampled ==
  IF HevcPreenc(hevcPar) /\ hevcPar.ds THEN hevcSmall \cup {hevcTask.frame} ELSE hevcSmall

FreeTaskOfReferences ==
  LET Frames(dpb) == {d.frame : d \in dpb}
      gone == Frames(hevcTask.before) \ Frames(hevcTask.after)
  IN  /\ hevcLocked' = hevcLocked \ gone
      /\ hevcSmall' = Downsampled \ gone
      /\ hevcTask' = NoTask

\* FreeTask: what is no reference, and what just ceased to be one, is
\* unlocked.
FreeTask ==
  LET Frames(dpb) == {d.frame : d \in dpb}
      gone == (Frames(hevcTask.before) \ Frames(hevcTask.after))
                \cup (IF hevcTask.ref THEN {} ELSE {hevcTask.frame})
  IN  /\ hevcLocked' = hevcLocked \ gone
      /\ hevcSmall' = Downsampled \ gone
      /\ hevcTask' = NoTask

-----------------------------------------------------------------------------
(* The thread                                                              *)

HevcInit ==
  /\ hevcPar \in HevcConfigs
  /\ hevcPc = "get" /\ hevcRun = TRUE /\ hevcEos = FALSE
  /\ hevcCount = 0 /\ hevcOrder = 0 /\ hevcIdr = 0
  /\ hevcQueue = << >> /\ hevcTask = NoTask
  /\ hevcLast = [poc |-> -1, rap |-> 255, after |-> {}]
  /\ hevcLocked = {} /\ hevcSmall = {}
  /\ hevcBack = << >> /\ hevcOut = << >> /\ hevcShort = {} /\ hevcFault = {}

Fails(what) == what \in HevcFaults \ hevcFault /\ hevcFault' = hevcFault \cup {what}

\* A surface that finds no free task is dropped: only an assertion says so.
HevcTake ==
  LET kind == GetFrameType(hevcPar, hevcOrder - hevcIdr)
      idr == IF kind = "IDR" THEN hevcOrder ELSE hevcIdr
      task == [frame |-> hevcCount, poc |-> hevcOrder - idr, kind |-> kind,
               ref |-> kind # "B", bpo |-> Unplaced]
  IN  /\ hevcPc = "get" /\ hevcRun /\ hevcCount < HevcFrames
      /\ hevcCount' = hevcCount + 1
      /\ IF ~Reorders(hevcPar)
           THEN /\ hevcTask' = [frame |-> hevcCount] /\ hevcPc' = "code"
                /\ UNCHANGED <<hevcOrder, hevcIdr, hevcQueue, hevcLast, hevcLocked, hevcShort>>
         ELSE IF HevcFree = 0
           THEN /\ GetTask(hevcQueue, TRUE)
                /\ hevcShort' = hevcShort \cup {"task"}
                /\ hevcPc' = IF hevcTask' = NoTask THEN "get" ELSE "code"
                /\ UNCHANGED <<hevcOrder, hevcIdr, hevcLocked>>
         ELSE /\ GetTask(Append(hevcQueue, task), TRUE)
              /\ hevcOrder' = hevcOrder + 1 /\ hevcIdr' = idr
              /\ hevcLocked' = hevcLocked \cup {hevcCount}
              /\ hevcPc' = IF hevcTask' = NoTask THEN "get" ELSE "code"
              /\ UNCHANGED hevcShort
      /\ UNCHANGED <<hevcPar, hevcRun, hevcEos, hevcSmall, hevcBack, hevcOut, hevcFault>>

\* The first buffer initialises the encoder.  A failure, or an end of stream
\* at once, leaves without a word to the output.
HevcNoStart ==
  /\ hevcPc = "get" /\ hevcRun /\ hevcCount = 0
  /\ Fails("init") \/ UNCHANGED hevcFault
  /\ hevcPc' = "dead"
  /\ UNCHANGED <<hevcPar, hevcRun, hevcEos, hevcInput, hevcTasks, hevcSmall,
                 hevcBack, hevcOut, hevcShort>>

\* The buffer of a decoder that was reset has no surface: it flushes one, or
\* in display order drains the encoder, an error that ends the stream once the
\* encoder has no frame left to give out.
HevcReset ==
  /\ hevcPc = "get" /\ hevcRun /\ hevcPar.noVpp /\ hevcCount > 0
  /\ IF Reorders(hevcPar)
       THEN /\ hevcQueue # << >> /\ GetTask(hevcQueue, FALSE)
            /\ hevcPc' = IF hevcTask' = NoTask THEN "get" ELSE "code"
            /\ UNCHANGED <<hevcRun, hevcEos>>
       ELSE /\ hevcPc' = "done" /\ hevcEos' = TRUE /\ hevcRun' = FALSE
            /\ UNCHANGED <<hevcQueue, hevcTask, hevcLast>>
  /\ UNCHANGED <<hevcPar, hevcInput, hevcLocked, hevcSmall, hevcHistory>>

\* End of stream, or Stop.
HevcLeave ==
  /\ hevcPc = "get" /\ (~hevcRun \/ hevcCount > 0)
  /\ hevcPc' = "flush"
  /\ UNCHANGED <<hevcPar, hevcRun, hevcEos, hevcInput, hevcTasks, hevcSmall, hevcHistory>>

HevcFlush ==
  /\ hevcPc = "flush" /\ hevcQueue # << >>
  /\ GetTask(hevcQueue, FALSE)
  /\ hevcPc' = "last"
  /\ UNCHANGED <<hevcPar, hevcRun, hevcEos, hevcInput, hevcLocked, hevcSmall, hevcHistory>>

\* PREENC: a downsampled surface, and a buffer for each reference until the
\* task is freed.  Predictors read from a stream count as missing.
Needs(task) == Max({Cardinality(task.l0), Cardinality(task.l1), 1})
Lacking ==
  {what \in {"surface", "buffer", "predictors"} :
     CASE what = "surface" -> HevcPreenc(hevcPar) /\ hevcPar.ds
                                /\ Cardinality(hevcSmall) >= HevcNumRef(hevcPar) + 5
       [] what = "buffer" -> HevcPreenc(hevcPar) /\ Needs(hevcTask) > HevcNumRef(hevcPar)
       [] OTHER -> /\ hevcPar.pipeline = "mvin" /\ hevcPar.predictors > 0
                   /\ hevcTask.l0 \cup hevcTask.l1 # {}}

Coding == hevcPc \in {"code", "last"}

\* The buffer taken last goes back, whichever picture was coded.
HevcCode ==
  /\ Coding /\ (Reorders(hevcPar) => Lacking = {})
  /\ hevcOut' = Append(hevcOut, hevcTask)
  /\ IF Reorders(hevcPar) THEN FreeTask ELSE hevcTask' = NoTask /\ UNCHANGED <<hevcLocked, hevcSmall>>
  /\ hevcBack' = IF hevcPc = "code" THEN Append(hevcBack, hevcCount - 1) ELSE hevcBack
  /\ hevcPc' = IF hevcPc = "code" THEN "get" ELSE "flush"
  /\ UNCHANGED <<hevcPar, hevcRun, hevcEos, hevcInput, hevcQueue, hevcLast, hevcShort, hevcFault>>

\* An error ends the stream, or, when the queue is being flushed, leaves
\* without saying so.  ProcessChainEncode(HevcTask*) returns no value: its
\* caller may read an error where there was none.
HevcFails ==
  /\ Coding
  /\ \/ /\ Reorders(hevcPar) /\ Lacking # {} /\ hevcShort' = hevcShort \cup Lacking
        /\ hevcSmall' = IF "surface" \in Lacking THEN hevcSmall ELSE Downsampled
        /\ UNCHANGED <<hevcFault, hevcOut>>
     \/ Fails("encode") /\ hevcSmall' \in {hevcSmall, Downsampled} /\ UNCHANGED <<hevcShort, hevcOut>>
     \/ /\ Reorders(hevcPar) /\ hevcPar.pipeline # "preenc" /\ Lacking = {}
        /\ Fails("status") /\ hevcOut' = Append(hevcOut, hevcTask)
        /\ hevcSmall' = Downsampled /\ UNCHANGED hevcShort
  /\ IF hevcPc = "code" THEN hevcPc' = "done" /\ hevcEos' = TRUE /\ hevcRun' = FALSE
                        ELSE hevcPc' = "dead" /\ UNCHANGED <<hevcEos, hevcRun>>
  /\ UNCHANGED <<hevcPar, hevcInput, hevcTasks, hevcBack>>

\* EncodeFrameAsync is called again on every error but MORE_DATA.
HevcSpin ==
  /\ Coding /\ hevcPar.pipeline # "preenc" /\ Fails("device")
  /\ hevcPc' = "spin" /\ hevcSmall' = Downsampled
  /\ UNCHANGED <<hevcPar, hevcRun, hevcEos, hevcInput, hevcTasks, hevcBack, hevcOut, hevcShort>>

HevcDrainAgain ==
  /\ hevcPc = "flush" /\ hevcQueue = << >> /\ hevcPc' = "spin"
  /\ UNCHANGED <<hevcPar, hevcRun, hevcEos, hevcInput, hevcTasks, hevcSmall, hevcHistory>>

HevcFinishEarly ==
  /\ hevcPc = "flush"
  /\ hevcPc' = "done" /\ hevcRun' = FALSE /\ hevcEos' = TRUE
  /\ UNCHANGED <<hevcPar, hevcInput, hevcTasks, hevcSmall, hevcHistory>>

\* Nothing is left: the encoder is drained and the queued buffers go back.
\* Without a frame PREENC alone says no word to the output, and an encoder that
\* was never initialised is asked for its rest for ever.
HevcFinish ==
  /\ hevcPc = "flush" /\ hevcQueue = << >>
  /\ IF hevcCount = 0 /\ hevcPar.pipeline # "preenc"
       THEN hevcPc' = "spin" /\ UNCHANGED <<hevcRun, hevcEos>>
       ELSE /\ hevcPc' = "done" /\ hevcEos' = (hevcCount > 0)
            /\ hevcRun' = (hevcRun /\ hevcPar.pipeline = "preenc")
  /\ UNCHANGED <<hevcPar, hevcInput, hevcTasks, hevcSmall, hevcHistory>>

\* The library fails to give out the rest: the thread leaves without a word,
\* or asks again.
HevcFinishFails ==
  /\ hevcPc = "flush" /\ hevcQueue = << >> /\ hevcCount > 0 /\ hevcPar.pipeline # "preenc"
  /\ \/ Fails("encode") /\ hevcPc' = "dead"
     \/ Fails("device") /\ hevcPc' = "spin"
  /\ UNCHANGED <<hevcPar, hevcRun, hevcEos, hevcInput, hevcTasks, hevcSmall,
                 hevcBack, hevcOut, hevcShort>>

HevcStop ==
  /\ hevcRun /\ hevcPc # "dead" /\ hevcRun' = FALSE
  /\ UNCHANGED <<hevcPar, hevcPc, hevcEos, hevcInput, hevcTasks, hevcSmall, hevcHistory>>

HevcStep ==
  \/ HevcTake \/ HevcNoStart \/ HevcReset \/ HevcLeave \/ HevcFlush \/ HevcCode
  \/ HevcFails \/ HevcSpin \/ HevcFinish \/ HevcFinishFails
HevcEnded == hevcPc \in {"done", "dead", "spin"}
HevcOver == HevcEnded /\ UNCHANGED hevcVars
HevcNext == HevcStep \/ HevcStop \/ HevcOver

\* Weak fairness of HevcStep, spelt out because TLC is slow to find HevcStep
\* enabled: it is until the thread ends (a deadlock is an error of the run);
\* taking a frame may leave hevcPc as it was.
HevcMoves == hevcPc' # hevcPc \/ hevcCount' # hevcCount
HevcFairness == []<>HevcEnded \/ []<><<HevcMoves>>_hevcVars
HevcSpec == HevcInit /\ [][HevcNext]_hevcVars /\ HevcFairness
-----------------------------------------------------------------------------
(* Properties                                                              *)

HevcTypeOK ==
  /\ hevcPar \in HevcConfigs
  /\ hevcPc \in {"get", "code", "flush", "last", "done", "dead", "spin"}
  /\ hevcRun \in BOOLEAN /\ hevcEos \in BOOLEAN
  /\ hevcCount \in 0 .. HevcFrames /\ hevcOrder \in 0 .. hevcCount /\ hevcIdr \in 0 .. hevcOrder
  /\ Len(hevcQueue) <= MaxTask(hevcPar)
  /\ Cardinality(hevcLast.after) <= HevcNumRef(hevcPar)
  /\ hevcLocked \subseteq 0 .. HevcFrames - 1 /\ hevcSmall \subseteq hevcLocked
  /\ hevcShort \subseteq {"task", "surface", "buffer", "predictors"}

\* While a picture is coded the encoder holds a lock on its surface, on those
\* still queued and on every surface of its decoded picture buffer, and none
\* on others that it coded before (ReleaseResources).
HevcRefsAreHeld ==
  (Coding /\ Reorders(hevcPar)) =>
    LET needed == {d.frame : d \in hevcTask.active \cup hevcLast.after} \cup {hevcTask.frame}
        queued == {hevcQueue[i].frame : i \in DOMAIN hevcQueue}
    IN  /\ needed \cup queued \subseteq hevcLocked
        /\ hevcLocked \subseteq needed \cup {d.frame : d \in hevcTask.before} \cup queued

\* With both pyramids, or a buffer that the command line cut to one picture, a
\* pyramid of B frames may drop the picture that those in the queue wait for:
\* they stay, surfaces that come find no task, and what is coded next refers to
\* what is not there.
Overruns(par) == par.bpyramid /\ (par.ppyramid \/ HevcNumRef(par) = 1)

\* -refnum asks for fewer pictures than the distance calls for.
FewReferences(par) == HevcNumRef(par) < HevcMin(4, RefDist(par) + 1)

\* A predicted picture has references before it, and a B frame after it too
\* (ConstructRPL), except that no B frame has any before it when the command
\* line leaves the distance out, which sets their number to zero, or leaves
\* room for one picture only; and that those of a pyramid that has fewer than
\* it needs, or more than seven, may have pushed it out of the buffer.
HevcListsFilled ==
  (Coding /\ Reorders(hevcPar) /\ ~Overruns(hevcPar)) =>
    /\ hevcTask.kind = "P" => hevcTask.l0 # {}
    /\ hevcTask.kind = "B" => /\ \/ hevcTask.l0 # {}
                                 \/ ActiveB(hevcPar) = 0 \/ HevcNumRef(hevcPar) = 1
                                 \/ hevcPar.bpyramid /\ (FewReferences(hevcPar) \/ RefDist(hevcPar) > 8)
                              /\ hevcTask.l1 # {}

\* A decoder has the pictures the stream refers to: each was coded as a
\* reference since the last IDR picture and, for a picture that trails the
\* last random access point, not before that point; and no leading picture
\* is coded after a trailing one.
HevcStreamDecodes ==
  (Reorders(hevcPar) /\ ~Overruns(hevcPar)) => \A k \in DOMAIN hevcOut :
    LET pic == hevcOut[k]
        Latest(units) == Max({i \in 1 .. k : hevcOut[i].unit \in units})
        idr == Latest({"IDR"})
        rap == Latest({"IDR", "CRA"})
    IN  /\ \A d \in pic.l0 \cup pic.l1 :
             \E i \in (IF pic.unit = "TRAIL" THEN rap ELSE idr) .. k - 1 :
               hevcOut[i].frame = d.frame /\ hevcOut[i].ref
        /\ pic.unit = "RASL" => \A i \in rap + 1 .. k - 1 : hevcOut[i].unit = "RASL"
        /\ pic.frame >= hevcOut[idr].frame

\* The thread never asks in vain for a task, a buffer or a downsampled
\* surface, as long as nobody asks for predictors of a stream; and the
\* producer has lost no more buffers than filled the queue when it was empty.
HevcResourcesSuffice ==
  /\ hevcShort \subseteq {"predictors"} \cup (IF Overruns(hevcPar) THEN {"task"} ELSE {})
  /\ (hevcPc = "get" /\ ~hevcPar.noVpp /\ ~Overruns(hevcPar)) =>
       hevcCount - Len(hevcBack) <= MaxTask(hevcPar) - 1

\* Once the thread ends at the end of its input every frame has been coded
\* once, and what is still locked is the buffer of the last picture.
HevcFramesComeOnce ==
  (hevcPc = "done" /\ hevcFault = {} /\ hevcShort = {}) =>
    /\ Len(hevcOut) = hevcCount /\ {hevcOut[k].frame : k \in DOMAIN hevcOut} = 0 .. hevcCount - 1
    /\ hevcLocked = {d.frame : d \in hevcLast.after}

\* Once its input ends or the pipeline is stopped the thread ends, unless the
\* library goes on failing or was never initialised.
HevcEnds ==
  <>(hevcPc \in {"done", "dead"} \/ "device" \in hevcFault \/ (hevcPc = "spin" /\ hevcCount = 0))
=============================================================================
