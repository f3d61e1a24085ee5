------------------------------ MODULE VppInput ------------------------------
(***************************************************************************)
(* The input side of VPPElement: the VPP thread collects a frame from each *)
(* sink pad, sets the video processor up again when the inputs or a        *)
(* request changed, and composes; the application attaches and detaches    *)
(* inputs and asks for other colours, ratios, resolutions and layouts      *)
(* meanwhile.  What happens to the composed picture is the subject of      *)
(* Fanout, what happens inside a pad's queue that of RingBuffer.           *)
(*                                                                         *)
(* The VPP thread holds the sink mutex from the top of its loop to the end *)
(* of the round, waiting included: MutexFree says when another thread can  *)
(* have it.  One step of the thread is one pad, one set-up, or one picture.*)
(***************************************************************************)
EXTENDS Integers, Sequences, SequencesExt, FiniteSets, FiniteSetsExt

CONSTANTS VideoIn,    \* inputs that are decoded streams
          OverlayIn,  \* text and picture inputs
          RawIn,      \* YUV file inputs
          FirstIn,    \* the input Init links
          Surfaces,   \* bound: surfaces of an input (the code: tens)
          QLen,       \* bound: places of a pad's queue (the code: dozens)
          MaxAsked    \* bound: attaches, detaches and requests

ASSUME VinAssumption ==
  /\ FirstIn \in VideoIn \cup OverlayIn \cup RawIn
  /\ (VideoIn \cup OverlayIn \cup RawIn) \cap {"none", "all"} = {}
  /\ {Surfaces, QLen, MaxAsked} \subseteq Nat

VARIABLES
  sinkpads_,         \* the inputs linked, in the order of their pads
  vpp_comp_map_,     \* input -> ready_surface, org_width known, is_decoder_reset
  dec_region_list_,  \* the custom layout
  combo_type_,       \* "BLOCKS" (or "MASTER") or "CUSTOM"
  queue,             \* input -> its pad's queue of "frame", "reset", "eos"
  spare,             \* input -> surfaces its producer has
  feed,              \* input -> "off", "on", "stopping", "ended"
  told,              \* overlays whose Recycle saw is_eos
  vpc, todo,         \* the VPP thread: where it is, pads left in this round
  fetched,           \* the first round met a video frame (~all_no_data)
  vpp,               \* is_running_, comp_stc_ # 0, codec_init_, all_eos
  setup,             \* current_comp_number_, flag (any of the three), the
                     \* inputs the last set-up counted
  stream_cnt_, eos_cnt,
  detaching,         \* "none", an input being detached, or "all" in Stop
  uncounted,         \* history: inputs whose EOS was read and is not counted
  asks               \* for the bound

pads == <<sinkpads_, vpp_comp_map_, dec_region_list_>>
traffic == <<queue, spare, feed, told>>
thread == <<vpc, todo, fetched, vpp, setup, stream_cnt_, eos_cnt>>
vinVars == <<pads, combo_type_, traffic, thread, detaching, uncounted, asks>>

Inputs == VideoIn \cup OverlayIn \cup RawIn
NewPad == [ready |-> "none", org |-> FALSE, reset |-> FALSE]
MutexFree == vpc \in {"top", "exit", "drain", "done", "failed"}
Linked == ToSet(sinkpads_)

VinInit ==
  /\ sinkpads_ = <<FirstIn>> /\ dec_region_list_ = << >> /\ combo_type_ = "BLOCKS"
  /\ vpp_comp_map_ = [i \in Inputs |-> NewPad]
  /\ queue = [i \in Inputs |-> << >>] /\ spare = [i \in Inputs |-> Surfaces]
  /\ feed = [i \in Inputs |-> IF i = FirstIn THEN "on" ELSE "off"] /\ told = {}
  /\ vpc = "top" /\ todo = << >> /\ fetched = FALSE
  /\ vpp = [is_running_ |-> TRUE, started |-> FALSE, codec_init_ |-> FALSE, all_eos |-> FALSE]
  /\ setup = [number |-> 0, flag |-> FALSE, inputs |-> {}]
  /\ stream_cnt_ = 0 /\ eos_cnt = 0
  /\ detaching = "none" /\ uncounted = {} /\ asks = 0

-----------------------------------------------------------------------------
(* The VPP thread. *)

EndOfRun(allEos) ==
  /\ vpp' = [vpp EXCEPT !.is_running_ = FALSE, !.all_eos = allEos]
  /\ vpc' = "exit"

\* The first rounds look at every pad; a layout picks the pads of later ones.
Round ==
  IF ~vpp.started \/ combo_type_ # "CUSTOM" THEN sinkpads_ ELSE dec_region_list_

BeginRound ==
  /\ vpc = "top"
  /\ IF ~vpp.is_running_
     THEN vpc' = "exit" /\ UNCHANGED <<todo, fetched, setup>>
     ELSE LET number == IF setup.number = 0 THEN Len(sinkpads_) ELSE setup.number IN
          /\ setup' = [setup EXCEPT !.number = number]
          /\ todo' = Round /\ fetched' = FALSE
          /\ vpc' = CASE number = 0 -> "exit"
                      [] ~vpp.started -> "first"
                      [] sinkpads_ = << >> -> "exit"
                      [] Round = << >> -> "top"
                      [] OTHER -> "collect"
  /\ UNCHANGED <<pads, combo_type_, traffic, vpp, stream_cnt_, eos_cnt, detaching,
                 uncounted, asks>>

Store(p, b) == [vpp_comp_map_ EXCEPT ![p].ready = b, ![p].org = TRUE]
Take(p) == queue' = [queue EXCEPT ![p] = Tail(@)]

\* Before the first picture a pad is waited for 10 ms; what is not a frame is
\* thrown away, an end-of-stream mark included.
FirstFromPad(p) ==
  IF vpp_comp_map_[p].ready = "frame"
  THEN UNCHANGED <<queue, vpp_comp_map_, fetched, uncounted>>
  ELSE \/ /\ queue[p] # << >> /\ Take(p)
          /\ vpp_comp_map_' = IF Head(queue[p]) = "frame" THEN Store(p, "frame")
                                                           ELSE vpp_comp_map_
          /\ fetched' = (fetched \/ (Head(queue[p]) = "frame" /\ p \in VideoIn))
          /\ uncounted' = IF Head(queue[p]) = "eos" THEN uncounted \cup {p} ELSE uncounted
       \/ queue[p] = << >> /\ UNCHANGED <<queue, vpp_comp_map_, fetched, uncounted>>

PrepareFirst ==
  /\ vpc = "first"
  /\ IF todo = << >>
     THEN /\ vpp' = [vpp EXCEPT !.started = fetched]
          /\ vpc' = IF fetched THEN "setup" ELSE "top"
          /\ UNCHANGED <<queue, vpp_comp_map_, todo, fetched, uncounted>>
     ELSE LET p == Head(todo) IN
          /\ FirstFromPad(p)
          /\ IF ~vpp.is_running_ /\ queue[p] = << >> /\ vpp_comp_map_[p].ready # "frame"
             THEN vpc' = "exit" /\ UNCHANGED todo
             ELSE todo' = Tail(todo) /\ UNCHANGED vpc
          /\ UNCHANGED vpp
  /\ UNCHANGED <<sinkpads_, dec_region_list_, combo_type_, spare, feed, told, setup,
                 stream_cnt_, eos_cnt, detaching, asks>>

\* What the next buffer of a pad says of its size.
SizeSeen(p, b) ==
  CASE b = "frame" -> [vpp_comp_map_[p] EXCEPT !.org = TRUE, !.reset = FALSE]
    [] b = "reset" -> [vpp_comp_map_[p] EXCEPT !.org = TRUE, !.reset = TRUE]
    [] OTHER       -> vpp_comp_map_[p]

\* mutant: the size of a new input does not ask for another set-up.
AsksOnReset(p, b) == b = "reset"

AsksForSetup(p, b) == b = "reset" \/ (b = "frame" /\ ~vpp_comp_map_[p].org)

\* mutant: the new surface takes the place of the old one, which is not returned.
ForgetReady(p) == spare

\* The surface shown until now goes back to the input.
ReturnReady(p) == IF vpp_comp_map_[p].ready = "frame" THEN [spare EXCEPT ![p] = @ + 1] ELSE spare

GetCompBufFromPad(p) ==
  LET b == Head(queue[p])
      ends == IF b = "eos" /\ p \notin OverlayIn THEN eos_cnt + 1 ELSE eos_cnt IN
  /\ queue[p] # << >> /\ Take(p)
  /\ eos_cnt' = ends
  /\ setup' = [setup EXCEPT !.flag = @ \/ AsksForSetup(p, b)]
  /\ IF p \notin OverlayIn /\ stream_cnt_ = ends
     THEN /\ stream_cnt_' = 0 /\ EndOfRun(TRUE)
          /\ vpp_comp_map_' = [vpp_comp_map_ EXCEPT ![p] = SizeSeen(p, b)]
          /\ UNCHANGED <<spare, todo>>
     ELSE /\ spare' = ReturnReady(p)
          /\ vpp_comp_map_' = [vpp_comp_map_ EXCEPT
               ![p] = [SizeSeen(p, b) EXCEPT !.ready = IF b = "reset" THEN "none" ELSE b]]
          /\ todo' = Tail(todo)
          /\ UNCHANGED <<stream_cnt_, vpp, vpc>>

\* A later round waits for each input that has not ended, without a timeout.
PrepareNext ==
  /\ vpc = "collect"
  /\ IF todo = << >>
     THEN /\ vpc' = "setup"
          /\ UNCHANGED <<queue, spare, vpp_comp_map_, todo, vpp, setup, stream_cnt_, eos_cnt>>
     ELSE LET p == Head(todo) IN
          \/ /\ vpp_comp_map_[p].ready = "eos" /\ todo' = Tail(todo)
             /\ UNCHANGED <<vpc, queue, spare, vpp_comp_map_, vpp, setup, stream_cnt_, eos_cnt>>
          \/ vpp_comp_map_[p].ready # "eos" /\ GetCompBufFromPad(p)
          \/ /\ vpp_comp_map_[p].ready # "eos" /\ queue[p] = << >> /\ ~vpp.is_running_
             /\ vpc' = "exit"
             /\ UNCHANGED <<todo, queue, spare, vpp_comp_map_, vpp, setup, stream_cnt_, eos_cnt>>
  /\ UNCHANGED <<sinkpads_, dec_region_list_, combo_type_, feed, told, fetched, detaching,
                 uncounted, asks>>

\* mutant: overlays count among the streams whose end is awaited.
InitVppCountsAll ==
  /\ setup' = [setup EXCEPT !.inputs = Linked]
  /\ stream_cnt_' = Cardinality(Linked)
  /\ eos_cnt' = 0
  /\ uncounted' = uncounted \cup {p \in Linked : vpp_comp_map_[p].ready = "eos"}

\* SetVppCompParam counts the inputs anew and forgets the ends it has counted.
\* Where its assertion of a video is compiled out, blocks are never laid out for
\* none: the thread goes round for ever there, here it goes on with a count of
\* zero (CountedVideo).  Left out is the wait, after a change of size, for each
\* surface of the output pool to be unlocked: the encoders unlock them.
InitVpp ==
  /\ setup' = [setup EXCEPT !.inputs = Linked]
  /\ stream_cnt_' = Cardinality(Linked \cap VideoIn)
  /\ eos_cnt' = 0
  /\ uncounted' = uncounted \cup {p \in Linked : vpp_comp_map_[p].ready = "eos"}

HasFrame == \E p \in Linked : vpp_comp_map_[p].ready = "frame"

SetUp ==
  /\ vpc = "setup"
  /\ \/ ~vpp.codec_init_ /\ ~HasFrame /\ EndOfRun(TRUE)
        /\ UNCHANGED <<setup, stream_cnt_, eos_cnt, uncounted>>
     \/ ~vpp.codec_init_ /\ HasFrame /\ InitVpp /\ vpc' = "clear"
        /\ vpp' = [vpp EXCEPT !.codec_init_ = TRUE]
     \/ ~vpp.codec_init_ /\ HasFrame /\ InitVpp /\ vpc' = "failed" /\ UNCHANGED vpp
     \/ /\ vpp.codec_init_ /\ ~(setup.number # Len(sinkpads_) \/ setup.flag)
        /\ vpc' = "render" /\ UNCHANGED <<vpp, setup, stream_cnt_, eos_cnt, uncounted>>
     \/ /\ vpp.codec_init_ /\ (setup.number # Len(sinkpads_) \/ setup.flag)
        /\ IF HasFrame THEN InitVpp /\ vpc' = "clear" /\ UNCHANGED vpp
           ELSE /\ IF \E p \in Linked : vpp_comp_map_[p].reset
                   THEN vpc' = "top" /\ UNCHANGED vpp
                   ELSE EndOfRun(FALSE)
                /\ UNCHANGED <<setup, stream_cnt_, eos_cnt, uncounted>>
  /\ UNCHANGED <<pads, combo_type_, traffic, todo, fetched, detaching, asks>>

\* The flags are lowered after the set-up: a request that came since is lost.
ClearFlags ==
  /\ vpc = "clear"
  /\ setup' = [setup EXCEPT !.flag = FALSE, !.number = Len(sinkpads_)]
  /\ vpc' = "render"
  /\ UNCHANGED <<pads, combo_type_, traffic, todo, fetched, vpp, stream_cnt_, eos_cnt,
                 detaching, uncounted, asks>>

Compose ==
  /\ vpc = "render" /\ vpc' = "top"
  /\ UNCHANGED <<pads, combo_type_, traffic, todo, fetched, vpp, setup, stream_cnt_,
                 eos_cnt, detaching, uncounted, asks>>

Exit ==
  /\ vpc = "exit"
  /\ vpp' = [vpp EXCEPT !.is_running_ = FALSE]
  /\ vpc' = IF vpp.is_running_ THEN "done" ELSE "drain"
  /\ UNCHANGED <<pads, combo_type_, traffic, todo, fetched, setup, stream_cnt_, eos_cnt,
                 detaching, uncounted, asks>>

FramesIn(q) == Cardinality({k \in DOMAIN q : q[k] = "frame"})

\* Everything goes back; with the last picture an overlay learns that the
\* videos have ended (its dispatcher passes no mark on without a surface).
Drain ==
  /\ vpc = "drain" /\ vpc' = "done"
  /\ spare' = [i \in Inputs |->
       IF i \notin Linked THEN spare[i]
       ELSE spare[i] + FramesIn(queue[i])
            + (IF vpp_comp_map_[i].ready = "frame" THEN 1 ELSE 0)]
  /\ queue' = [i \in Inputs |-> IF i \in Linked THEN << >> ELSE queue[i]]
  /\ told' = told \cup {i \in Linked \ VideoIn : vpp.all_eos /\ vpp_comp_map_[i].ready = "frame"}
  /\ vpp_comp_map_' = [i \in Inputs |->
       IF i \in Linked THEN [vpp_comp_map_[i] EXCEPT !.ready = "none"] ELSE vpp_comp_map_[i]]
  /\ UNCHANGED <<sinkpads_, dec_region_list_, combo_type_, feed, todo, fetched, vpp,
                 setup, stream_cnt_, eos_cnt, detaching, uncounted, asks>>

VppThread == BeginRound \/ PrepareFirst \/ PrepareNext \/ SetUp \/ ClearFlags \/ Compose
             \/ Exit \/ Drain

-----------------------------------------------------------------------------
(* The inputs.  A pad takes a buffer when it has room; once the VPP does not *)
(* run, it hands the buffer back at once.                                   *)

\* mutant: a buffer is pushed into a full queue.
AlwaysRoom(i) == TRUE

Room(i) == ~vpp.is_running_ \/ Len(queue[i]) < QLen
Push(i, b) == queue' = IF vpp.is_running_ THEN [queue EXCEPT ![i] = Append(@, b)] ELSE queue

Produce(i) ==
  /\ feed[i] = "on" /\ i \in Linked /\ vpp.is_running_ /\ Room(i) /\ spare[i] > 0
  /\ i \notin told
  /\ Push(i, "frame") /\ spare' = [spare EXCEPT ![i] = @ - 1]
  /\ UNCHANGED <<feed, told, asks>>

\* A stream whose sequence header changes.
DecoderReset(i) ==
  /\ i \in VideoIn /\ feed[i] = "on" /\ i \in Linked /\ vpp.is_running_ /\ Room(i)
  /\ asks < MaxAsked
  /\ Push(i, "reset") /\ asks' = asks + 1 /\ UNCHANGED <<spare, feed, told>>

EndOfStream(i) ==
  /\ feed[i] = "on" /\ i \in VideoIn \cap Linked /\ Room(i)
  /\ Push(i, "eos") /\ feed' = [feed EXCEPT ![i] = "ended"]
  /\ UNCHANGED <<spare, told, asks>>

Stopped(i) ==
  /\ feed[i] = "stopping" /\ i \in Linked /\ Room(i)
  /\ Push(i, "eos") /\ feed' = [feed EXCEPT ![i] = "ended"]
  /\ UNCHANGED <<spare, told, asks>>

OverlayEnds(i) ==
  /\ feed[i] = "on" /\ i \in told /\ spare[i] > 0
  /\ feed' = [feed EXCEPT ![i] = "ended"]
  /\ UNCHANGED <<queue, spare, told, asks>>

Input(i) ==
  /\ Produce(i) \/ DecoderReset(i) \/ EndOfStream(i) \/ Stopped(i) \/ OverlayEnds(i)
  /\ UNCHANGED <<pads, combo_type_, thread, detaching, uncounted>>

-----------------------------------------------------------------------------
(* The application, one call at a time.                                     *)

Call == detaching = "none" /\ asks < MaxAsked /\ asks' = asks + 1

\* MsdkXcoder refuses an input once a VPP has ended.
NewPadAdded(i) ==
  /\ Call /\ i \notin Linked /\ feed[i] = "off" /\ vpp.is_running_ /\ MutexFree
  /\ sinkpads_' = Append(sinkpads_, i)
  /\ vpp_comp_map_' = [vpp_comp_map_ EXCEPT ![i] = NewPad]
  /\ feed' = [feed EXCEPT ![i] = "on"]
  /\ spare' = [spare EXCEPT ![i] = Surfaces]
  /\ UNCHANGED <<dec_region_list_, combo_type_, queue, told, thread, detaching, uncounted>>

StopInput(S, why) ==
  /\ detaching' = why
  /\ feed' = [i \in Inputs |-> IF i \in S /\ feed[i] = "on" THEN "stopping" ELSE feed[i]]
  /\ UNCHANGED <<pads, combo_type_, queue, spare, told, thread, uncounted>>

BeginDetach(i) == Call /\ i \in Linked /\ Len(sinkpads_) > 1 /\ StopInput({i}, i)

\* The list of the pads without that of an input.
PadErased(i) == RemoveAt(sinkpads_, CHOOSE k \in DOMAIN sinkpads_ : sinkpads_[k] = i)

\* VPPElement::PadRemoved, for the input whose thread was joined.
PadRemoved(i) ==
  /\ detaching = i /\ feed[i] = "ended" /\ MutexFree
  /\ sinkpads_' = PadErased(i)
  /\ dec_region_list_' = IF combo_type_ = "CUSTOM" THEN Remove(dec_region_list_, i)
                                                    ELSE dec_region_list_
  /\ vpp_comp_map_' = [vpp_comp_map_ EXCEPT ![i] = NewPad]
  /\ queue' = [queue EXCEPT ![i] = << >>]
  /\ spare' = IF vpp.is_running_
              THEN [spare EXCEPT ![i] = @ + FramesIn(queue[i])
                                        + (IF vpp_comp_map_[i].ready = "frame" THEN 1 ELSE 0)]
              ELSE spare
  /\ feed' = [feed EXCEPT ![i] = "off"]
  /\ told' = told \ {i} /\ uncounted' = uncounted \ {i} /\ detaching' = "none"
  /\ UNCHANGED <<combo_type_, thread, asks>>

\* Stop stops and joins the inputs first, then the VPP.
StopAll == Call /\ StopInput(Linked, "all")

StopVpp ==
  /\ detaching = "all" /\ \A i \in Linked : feed[i] = "ended" /\ vpp.is_running_
  /\ vpp' = [vpp EXCEPT !.is_running_ = FALSE]
  /\ UNCHANGED <<pads, combo_type_, traffic, vpc, todo, fetched, setup, stream_cnt_,
                 eos_cnt, detaching, uncounted, asks>>

\* SetBgColor, SetKeepRatio, SetRes and ConfigVppCombo take no lock.
AskAgain ==
  /\ Call
  /\ \/ /\ setup' = [setup EXCEPT !.flag = TRUE] /\ combo_type_' \in {combo_type_, "BLOCKS"}
     \/ combo_type_' = "CUSTOM" /\ UNCHANGED setup
  /\ UNCHANGED <<pads, traffic, vpc, todo, fetched, vpp, stream_cnt_, eos_cnt, detaching,
                 uncounted>>

SetCompRegion(layout) ==
  /\ Call /\ combo_type_ = "CUSTOM" /\ MutexFree
  /\ dec_region_list_' = layout
  /\ setup' = [setup EXCEPT !.flag = @ \/ vpp.codec_init_]
  /\ UNCHANGED <<sinkpads_, vpp_comp_map_, combo_type_, traffic, vpc, todo, fetched, vpp,
                 stream_cnt_, eos_cnt, detaching, uncounted>>

Application ==
  \/ \E i \in Inputs : NewPadAdded(i) \/ BeginDetach(i) \/ PadRemoved(i)
  \/ StopAll \/ StopVpp \/ AskAgain
  \/ \E S \in SUBSET Linked \ {{}} :
       SetCompRegion(SelectSeq(sinkpads_, LAMBDA p : p \in S))

VinNext == VppThread \/ Application \/ \E i \in Inputs : Input(i)
VinSpec == VinInit /\ [][VinNext]_vinVars

-----------------------------------------------------------------------------
(* Properties.                                                              *)

VinTypeOK ==
  /\ Linked \subseteq Inputs /\ IsInjective(sinkpads_)
  /\ vpp_comp_map_ \in [Inputs -> [ready : {"none", "frame", "eos"}, org : BOOLEAN,
                                   reset : BOOLEAN]]
  /\ combo_type_ \in {"BLOCKS", "CUSTOM"}
  /\ \A i \in Inputs : ToSet(queue[i]) \subseteq {"frame", "reset", "eos"} /\ Len(queue[i]) <= QLen
  /\ spare \in [Inputs -> 0 .. Surfaces]
  /\ feed \in [Inputs -> {"off", "on", "stopping", "ended"}]
  /\ vpc \in {"top", "first", "collect", "setup", "clear", "render", "exit", "drain", "done",
              "failed"}

\* The last set-up counted a video.  SetVppCompParam asserts it; BeginDetach can
\* leave only overlays.  Without the assertion the VPP then hangs where it looks
\* for the size of its blocks, or, in a custom layout, the first frame of the
\* next video ends it (no stream, no end: "all ended") and is lost.
CountedVideo == setup.inputs = {} \/ setup.inputs \cap VideoIn # {}

\* Every surface of a linked input is in one place: with its producer, in the
\* pad's queue, or held by the VPP as the picture it shows for that input.
SurfacesAreSomewhere ==
  CountedVideo => \A i \in Linked :
    spare[i] + FramesIn(queue[i]) + (IF vpp_comp_map_[i].ready = "frame" THEN 1 ELSE 0)
      = Surfaces

\* No picture is composed from a frame of an input the processor was not set
\* up for, whatever was attached, detached and asked since the last set-up.
FramesAreConfigured ==
  vpc = "render" =>
    \A i \in Linked : vpp_comp_map_[i].ready = "frame" => i \in setup.inputs

\* The ways the code misses the end of its inputs: an end-of-stream mark that
\* is thrown away before the first picture or forgotten by a new set-up; a
\* decoder that ended while the VPP waits for the first frame after its reset;
\* a layout that leaves an input out; no video left among the inputs.
Excused ==
  \/ uncounted # {}
  \/ \E i \in Linked : vpp_comp_map_[i].reset /\ vpp_comp_map_[i].ready = "eos"
  \/ combo_type_ = "CUSTOM"
  \/ Linked \cap VideoIn = {}

\* Once every video input has ended, the VPP thread ends, and so does the
\* output behind it, save where Excused says why not.
VppEndsWithItsInputs ==
  (\A i \in Linked \cap VideoIn : feed[i] = "ended")
    ~> (vpc \in {"done", "failed"} \/ Excused
        \/ \E i \in Linked \cap VideoIn : feed[i] # "ended")

\* What is fair: an overlay goes on, and so does an input told to stop.
InputGoesOn(i) == (Produce(i) \/ Stopped(i) \/ OverlayEnds(i)) /\ Input(i)
=============================================================================
