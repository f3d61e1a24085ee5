------------------------------- MODULE Fanout -------------------------------
(***************************************************************************)
(* The output side of one VPP element: VPPElement hands each frame it      *)
(* renders to a Dispatcher, which lends it to every linked encoder and     *)
(* returns it to the VPP when the last of them has given it back.          *)
(*                                                                         *)
(* Threads: the VPP thread (it also runs Dispatcher::ProcessChain and      *)
(* MediaPad::ProcessBuf of the encoders' pads), one thread per encoder     *)
(* (EncoderElement::HandleProcessEncode; it also runs Dispatcher::Recycle  *)
(* and VPPElement::Recycle), and the application thread in one call of     *)
(* MsdkXcoder, whose mutex makes these calls exclude each other.           *)
(*                                                                         *)
(* The pad queues are the FIFOs that RingBuffer is shown to implement.     *)
(* is_running_ is a plain bool that several threads read and write; each   *)
(* access is a step of its own.                                            *)
(*                                                                         *)
(* Each surface the VPP takes receives one frame; the loop of DoingVpp     *)
(* that flushes an ended input (in_surf == NULL) is not modelled.          *)
(***************************************************************************)
EXTENDS Integers, Sequences, FiniteSets, SequencesExt, FiniteSetsExt

CONSTANTS Encoders,    \* every encoder element that ever exists
          Initial,     \* the encoders linked when the pipeline starts, in order
          NumSurf,     \* num_of_surf_: surfaces in the VPP's pool
          QueueSize,   \* FRAME_POOL_Q_SIZE
          MaxFrames    \* bound: frames the VPP renders

ASSUME FanoutAssumption ==
  /\ IsFiniteSet(Encoders)
  /\ Initial \in Seq(Encoders) /\ Initial # << >> /\ IsInjective(Initial)
  /\ "vpp" \notin Encoders /\ "none" \notin Encoders
  /\ NumSurf \in Nat \ {0} /\ QueueSize \in Nat \ {0} /\ MaxFrames \in Nat

VARIABLES
  Locked,       \* Data.Locked of each surface
  sur_ref_map_, \* Dispatcher: outstanding loans of a surface; 0 = no entry
  srcpads,      \* Dispatcher::srcpads_, named by the encoder they lead to
  in_buf_q,     \* the queue of each encoder's sink pad
  is_running_,  \* of each encoder, and of the VPP
  codec_init_,  \* of each encoder, and of the VPP
  vpp,          \* the VPP thread: pc, nIndex, the buffer it pushes, and the
                \* pads it has not handed it to yet
  enc,          \* each encoder's thread: pc and the buffer in its hand
  srcMutex,     \* src_pad_mutex_ of the Dispatcher: who holds it
  api,          \* the application thread: pc and the encoder it works on
  frames,       \* frames rendered, for the bound
  dropped       \* history: loans of a surface that an encoder forgot

dispatcher == <<sur_ref_map_, srcpads, srcMutex>>
vars == <<Locked, sur_ref_map_, srcpads, in_buf_q, is_running_, codec_init_,
          vpp, enc, srcMutex, api, frames, dropped>>

Surfaces == 1 .. NumSurf
Eos == 0                 \* the buffer with msdk_surface == NULL and is_eos
Bufs == Surfaces \cup {Eos}
NotFound == -1           \* MFX_ERR_NOT_FOUND
VPP == "vpp"
None == "none"

Init ==
  /\ Locked = [s \in Surfaces |-> 0]
  /\ sur_ref_map_ = [s \in Surfaces |-> 0]
  /\ srcpads = Initial
  /\ in_buf_q = [e \in Encoders |-> << >>]
  /\ is_running_ = [x \in Encoders \cup {VPP} |-> x \in ToSet(Initial) \cup {VPP}]
  /\ codec_init_ = [x \in Encoders \cup {VPP} |-> FALSE]
  /\ vpp = [pc |-> "top", nIndex |-> 1, buf |-> Eos, todo |-> << >>]
  /\ enc = [e \in Encoders |->
              [pc |-> IF e \in ToSet(Initial) THEN "loop" ELSE "none", buf |-> Eos]]
  /\ srcMutex = None
  /\ api = [pc |-> "idle", e |-> None]
  /\ frames = 0
  /\ dropped = [s \in Surfaces |-> 0]

-----------------------------------------------------------------------------
(* Giving a buffer back. *)

\* mutant: every return unlocks the surface, not only the last one.
RecycleAtOnce(buf) ==
  IF buf = Eos THEN UNCHANGED <<sur_ref_map_, Locked>>
  ELSE /\ sur_ref_map_' = [sur_ref_map_ EXCEPT ![buf] = @ - 1]
       /\ Locked' = [Locked EXCEPT ![buf] = @ - 1]

\* Dispatcher::Recycle, under surMutex: one loan less; the last one returns
\* the surface to VPPElement::Recycle, which unlocks it.
Recycle(buf) ==
  IF buf = Eos THEN UNCHANGED <<sur_ref_map_, Locked>>
  ELSE /\ sur_ref_map_' = [sur_ref_map_ EXCEPT ![buf] = @ - 1]
       /\ Locked' = IF sur_ref_map_[buf] = 1 THEN [Locked EXCEPT ![buf] = @ - 1]
                                              ELSE Locked

-----------------------------------------------------------------------------
(* The VPP thread. *)

\* mutant: surfaces are taken in turn, whether locked or not.
SurfacesInTurn == Surfaces

FreeSurfaces == {s \in Surfaces : Locked[s] = 0}

\* while (is_running_) of HandleProcessVpp, with the inputs prepared and, the
\* first time, the codec initialised.
VppTop ==
  /\ vpp.pc = "top"
  /\ IF is_running_[VPP]
     THEN /\ vpp' = [vpp EXCEPT !.pc = "find"]
          /\ codec_init_' = [codec_init_ EXCEPT ![VPP] = TRUE]
     ELSE /\ vpp' = [vpp EXCEPT !.pc = "exit"]
          /\ UNCHANGED codec_init_
  /\ UNCHANGED <<Locked, dispatcher, in_buf_q, is_running_, enc, api, frames,
                 dropped>>

\* InitVpp fails: the thread ends, with is_running_ still set and without an
\* end-of-stream buffer.
VppInitFails ==
  /\ vpp.pc = "top"
  /\ is_running_[VPP]
  /\ ~codec_init_[VPP]
  /\ vpp' = [vpp EXCEPT !.pc = "exited"]
  /\ UNCHANGED <<Locked, dispatcher, in_buf_q, is_running_, codec_init_, enc,
                 api, frames, dropped>>

\* PrepareVppCompFrames returns 1: every input has ended.
VppAllEos ==
  /\ vpp.pc = "top"
  /\ is_running_[VPP]
  /\ is_running_' = [is_running_ EXCEPT ![VPP] = FALSE]
  /\ vpp' = [vpp EXCEPT !.pc = "exit"]
  /\ UNCHANGED <<Locked, dispatcher, in_buf_q, codec_init_, enc, api, frames,
                 dropped>>

\* while (is_running_) { nIndex = GetFreeSurfaceIndex(); ... }: a free surface
\* (the first one of the scan, but others may be freed behind it), or try
\* again.  If the element was stopped before the first test, nIndex is still
\* the one of the previous frame.
VppFindSurface ==
  /\ vpp.pc = "find"
  /\ \/ /\ is_running_[VPP]
        /\ \E s \in FreeSurfaces : vpp' = [vpp EXCEPT !.nIndex = s, !.pc = "render"]
     \/ /\ is_running_[VPP]
        /\ FreeSurfaces = {}
        /\ vpp' = [vpp EXCEPT !.nIndex = NotFound]
     \/ /\ ~is_running_[VPP]
        /\ vpp' = [vpp EXCEPT !.pc = IF vpp.nIndex = NotFound THEN "exit"
                                                              ELSE "render"]
  /\ UNCHANGED <<Locked, dispatcher, in_buf_q, is_running_, codec_init_, enc,
                 api, frames, dropped>>

\* DoingVpp: the frame is rendered into the surface, which is locked and
\* pushed; or RunFrameVPPAsync gives no output.
VppRender ==
  /\ vpp.pc = "render"
  /\ \/ /\ frames < MaxFrames
        /\ frames' = frames + 1
        /\ Locked' = [Locked EXCEPT ![vpp.nIndex] = @ + 1]
        /\ vpp' = [vpp EXCEPT !.pc = "lock", !.buf = vpp.nIndex]
     \/ /\ vpp' = [vpp EXCEPT !.pc = "top"]
        /\ UNCHANGED <<Locked, frames>>
  /\ UNCHANGED <<dispatcher, in_buf_q, is_running_, codec_init_, enc, api,
                 dropped>>

\* After the loop, with is_running_ false: push the end-of-stream buffer.
VppExit ==
  /\ vpp.pc = "exit"
  /\ vpp' = [vpp EXCEPT !.pc = "lock", !.buf = Eos]
  /\ UNCHANGED <<Locked, dispatcher, in_buf_q, is_running_, codec_init_, enc,
                 api, frames, dropped>>

\* mutant: one loan per surface, however many pads there are.
DispatchBeginOneLoan ==
  /\ vpp.pc = "lock"
  /\ srcMutex = None
  /\ srcMutex' = VPP
  /\ vpp' = [vpp EXCEPT !.pc = "spin", !.todo = srcpads]
  /\ sur_ref_map_' = IF vpp.buf = Eos THEN sur_ref_map_
                     ELSE [sur_ref_map_ EXCEPT ![vpp.buf] = @ + 1]
  /\ UNCHANGED <<Locked, srcpads, in_buf_q, is_running_, codec_init_, enc, api,
                 frames, dropped>>

\* Dispatcher::ProcessChain: WaitSrcMutex, then one loan per pad for a
\* surface.  Only this thread adds loans, so a count can fall to 0 before the
\* first increment but not between two of them: they are one step.
DispatchBegin ==
  /\ vpp.pc = "lock"
  /\ srcMutex = None
  /\ srcMutex' = VPP
  /\ vpp' = [vpp EXCEPT !.pc = "spin", !.todo = srcpads]
  /\ sur_ref_map_' = IF vpp.buf = Eos THEN sur_ref_map_
                     ELSE [sur_ref_map_ EXCEPT ![vpp.buf] = @ + Len(srcpads)]
  /\ UNCHANGED <<Locked, srcpads, in_buf_q, is_running_, codec_init_, enc, api,
                 frames, dropped>>

\* mutant: room for one more than there is.
PadSpinOffByOne ==
  /\ vpp.pc = "spin"
  /\ vpp.todo # << >>
  /\ LET e == Head(vpp.todo)
     IN ~is_running_[e] \/ Len(in_buf_q[e]) <= QueueSize
  /\ vpp' = [vpp EXCEPT !.pc = "check"]
  /\ UNCHANGED <<Locked, dispatcher, in_buf_q, is_running_, codec_init_, enc,
                 api, frames, dropped>>

\* MediaPad::ProcessBuf, first part: wait while the encoder runs and its queue
\* is full.
PadSpin ==
  /\ vpp.pc = "spin"
  /\ vpp.todo # << >>
  /\ LET e == Head(vpp.todo)
     IN ~is_running_[e] \/ Len(in_buf_q[e]) < QueueSize
  /\ vpp' = [vpp EXCEPT !.pc = "check"]
  /\ UNCHANGED <<Locked, dispatcher, in_buf_q, is_running_, codec_init_, enc,
                 api, frames, dropped>>

\* Second part: the encoder still runs: push; it was stopped: give it back.
PadCheck ==
  /\ vpp.pc = "check"
  /\ LET e == Head(vpp.todo)
     IN IF is_running_[e]
        THEN /\ vpp' = [vpp EXCEPT !.pc = "push"]
             /\ UNCHANGED <<sur_ref_map_, Locked>>
        ELSE /\ Recycle(vpp.buf)
             /\ vpp' = [vpp EXCEPT !.pc = "spin", !.todo = Tail(@)]
  /\ UNCHANGED <<srcpads, srcMutex, in_buf_q, is_running_, codec_init_, enc,
                 api, frames, dropped>>

PadPush ==
  /\ vpp.pc = "push"
  /\ in_buf_q' = [in_buf_q EXCEPT ![Head(vpp.todo)] = Append(@, vpp.buf)]
  /\ vpp' = [vpp EXCEPT !.pc = "spin", !.todo = Tail(@)]
  /\ UNCHANGED <<Locked, dispatcher, is_running_, codec_init_, enc, api,
                 frames, dropped>>

\* mutant: the thread ends without releasing the mutex.
DispatchEndKeepsMutex ==
  /\ vpp.pc = "spin"
  /\ vpp.todo = << >>
  /\ srcMutex' = IF vpp.buf = Eos THEN srcMutex ELSE None
  /\ \E next \in IF vpp.buf = Eos THEN {"exited"} ELSE {"top", "find"} :
       vpp' = [vpp EXCEPT !.pc = next]
  /\ UNCHANGED <<Locked, sur_ref_map_, srcpads, in_buf_q, is_running_,
                 codec_init_, enc, api, frames, dropped>>

\* ReleaseSrcMutex.  Then the next frame, or another surface for this one if
\* RunFrameVPPAsync said MFX_ERR_MORE_SURFACE; the thread ends after the
\* end-of-stream buffer.
DispatchEnd ==
  /\ vpp.pc = "spin"
  /\ vpp.todo = << >>
  /\ srcMutex' = None
  /\ \E next \in IF vpp.buf = Eos THEN {"exited"} ELSE {"top", "find"} :
       vpp' = [vpp EXCEPT !.pc = next]
  /\ UNCHANGED <<Locked, sur_ref_map_, srcpads, in_buf_q, is_running_,
                 codec_init_, enc, api, frames, dropped>>

VppStep == \/ VppTop \/ VppAllEos \/ VppFindSurface \/ VppRender \/ VppExit
           \/ DispatchBegin \/ PadSpin \/ PadCheck \/ PadPush \/ DispatchEnd

-----------------------------------------------------------------------------
(* An encoder's thread: EncoderElement::HandleProcessEncode. *)

\* while (is_running_): take the next buffer, or poll again.
EncGet(e) ==
  /\ enc[e].pc = "loop"
  /\ \/ /\ ~is_running_[e]
        /\ enc' = [enc EXCEPT ![e].pc = "drain"]
        /\ UNCHANGED in_buf_q
     \/ /\ is_running_[e]
        /\ in_buf_q[e] # << >>
        /\ enc' = [enc EXCEPT ![e] = [pc |-> "process", buf |-> Head(in_buf_q[e])]]
        /\ in_buf_q' = [in_buf_q EXCEPT ![e] = Tail(@)]
  /\ UNCHANGED <<Locked, dispatcher, is_running_, codec_init_, vpp, api, frames,
                 dropped>>

\* ProcessChainEncode of a surface: initialise at the first one, encode it.
EncEncode(e) ==
  /\ enc[e].pc = "process"
  /\ enc[e].buf # Eos
  /\ codec_init_' = [codec_init_ EXCEPT ![e] = TRUE]
  /\ enc' = [enc EXCEPT ![e].pc = "return"]
  /\ UNCHANGED <<Locked, dispatcher, in_buf_q, is_running_, vpp, api, frames,
                 dropped>>

\* InitEncoder fails: ProcessChainEncode returns -1, and HandleProcessEncode
\* returns the buffer only when it got 0.
EncInitFails(e) ==
  /\ enc[e].pc = "process"
  /\ enc[e].buf # Eos
  /\ ~codec_init_[e]
  /\ enc' = [enc EXCEPT ![e].pc = "loop"]
  /\ dropped' = [dropped EXCEPT ![enc[e].buf] = @ + 1]
  /\ UNCHANGED <<Locked, dispatcher, in_buf_q, is_running_, codec_init_, vpp,
                 api, frames>>

\* mutant: the end of the stream does not stop the loop.
EncEosGoesOn(e) ==
  /\ enc[e].pc = "process"
  /\ enc[e].buf = Eos
  /\ enc' = [enc EXCEPT ![e].pc = "return"]
  /\ UNCHANGED <<Locked, dispatcher, in_buf_q, is_running_, codec_init_, vpp,
                 api, frames, dropped>>

\* ProcessChainEncode of the end-of-stream buffer: drain the codec, end the
\* output stream and stop; -1 and nothing else if it is the first buffer.
EncEos(e) ==
  /\ enc[e].pc = "process"
  /\ enc[e].buf = Eos
  /\ IF codec_init_[e]
     THEN /\ is_running_' = [is_running_ EXCEPT ![e] = FALSE]
          /\ enc' = [enc EXCEPT ![e].pc = "return"]
     ELSE /\ enc' = [enc EXCEPT ![e].pc = "loop"]
          /\ UNCHANGED is_running_
  /\ UNCHANGED <<Locked, dispatcher, in_buf_q, codec_init_, vpp, api, frames,
                 dropped>>

EncReturn(e) ==
  /\ enc[e].pc = "return"
  /\ Recycle(enc[e].buf)
  /\ enc' = [enc EXCEPT ![e].pc = "loop"]
  /\ UNCHANGED <<srcpads, srcMutex, in_buf_q, is_running_, codec_init_, vpp,
                 api, frames, dropped>>

\* After the loop: give back what is queued, until the queue is seen empty.
EncDrain(e) ==
  /\ enc[e].pc = "drain"
  /\ IF in_buf_q[e] # << >>
     THEN /\ Recycle(Head(in_buf_q[e]))
          /\ in_buf_q' = [in_buf_q EXCEPT ![e] = Tail(@)]
          /\ UNCHANGED enc
     ELSE /\ enc' = [enc EXCEPT ![e].pc = "exited"]
          /\ UNCHANGED <<sur_ref_map_, Locked, in_buf_q>>
  /\ UNCHANGED <<srcpads, srcMutex, is_running_, codec_init_, vpp, api, frames,
                 dropped>>

EncWork(e) == EncGet(e) \/ EncEncode(e) \/ EncEos(e) \/ EncReturn(e) \/ EncDrain(e)

-----------------------------------------------------------------------------
(* The application thread, in MsdkXcoder. *)

\* Calls that leave everything but the named variables alone.
ApiOnly == UNCHANGED <<Locked, sur_ref_map_, in_buf_q, codec_init_, vpp, frames,
                       dropped>>

ApiGoto(pc, e) == api' = [pc |-> pc, e |-> e]

\* The encoder of enc_multimap_ that follows e, in the order they were added.
NextEncoder(e) ==
  LET i == CHOOSE j \in DOMAIN srcpads : srcpads[j] = e
  IN IF i = Len(srcpads) THEN None ELSE srcpads[i + 1]

\* MsdkXcoder::Stop: clear is_running_ of the VPP and join its thread, then
\* the same for one encoder after the other.
StopVpp ==
  /\ api.pc = "idle"
  /\ is_running_' = [is_running_ EXCEPT ![VPP] = FALSE]
  /\ ApiGoto("joinVpp", None)
  /\ ApiOnly /\ UNCHANGED <<enc, srcpads, srcMutex>>

\* mutant: go on without joining the VPP thread.
StopVppUnjoined ==
  /\ api.pc = "joinVpp"
  /\ ApiGoto("stopEnc", srcpads[1])
  /\ ApiOnly /\ UNCHANGED <<is_running_, enc, srcpads, srcMutex>>

StopVppJoined ==
  /\ api.pc = "joinVpp"
  /\ vpp.pc = "exited"
  /\ ApiGoto("stopEnc", srcpads[1])
  /\ ApiOnly /\ UNCHANGED <<is_running_, enc, srcpads, srcMutex>>

StopEncoder ==
  /\ api.pc = "stopEnc"
  /\ is_running_' = [is_running_ EXCEPT ![api.e] = FALSE]
  /\ ApiGoto("joinEnc", api.e)
  /\ ApiOnly /\ UNCHANGED <<enc, srcpads, srcMutex>>

StopEncoderJoined ==
  /\ api.pc = "joinEnc"
  /\ enc[api.e].pc = "exited"
  /\ IF NextEncoder(api.e) = None THEN ApiGoto("stopped", None)
                                  ELSE ApiGoto("stopEnc", NextEncoder(api.e))
  /\ ApiOnly /\ UNCHANGED <<is_running_, enc, srcpads, srcMutex>>

StopCall == StopVpp \/ StopVppJoined \/ StopEncoder \/ StopEncoderJoined

\* MsdkXcoder::DetachOutput, refused for the last encoder: Stop the encoder
\* and join its thread, then UnlinkPrevElement under the Dispatcher's mutex,
\* which deletes the pads, and delete the encoder.
DetachOutput(e) ==
  /\ api.pc = "idle"
  /\ Len(srcpads) > 1
  /\ e \in ToSet(srcpads)
  /\ is_running_' = [is_running_ EXCEPT ![e] = FALSE]
  /\ ApiGoto("joinOut", e)
  /\ ApiOnly /\ UNCHANGED <<enc, srcpads, srcMutex>>

DetachJoined ==
  /\ api.pc = "joinOut"
  /\ enc[api.e].pc = "exited"
  /\ ApiGoto("unlink", api.e)
  /\ ApiOnly /\ UNCHANGED <<is_running_, enc, srcpads, srcMutex>>

\* mutant: unlink without the Dispatcher's mutex.
UnlinkUnlocked ==
  /\ api.pc = "unlink"
  /\ \E i \in DOMAIN srcpads :
       srcpads[i] = api.e /\ srcpads' = RemoveAt(srcpads, i)
  /\ ApiGoto("idle", None)
  /\ ApiOnly /\ UNCHANGED <<is_running_, enc, srcMutex>>

UnlinkPrevElement ==
  /\ api.pc = "unlink"
  /\ srcMutex = None
  /\ \E i \in DOMAIN srcpads :
       srcpads[i] = api.e /\ srcpads' = RemoveAt(srcpads, i)
  /\ ApiGoto("idle", None)
  /\ ApiOnly /\ UNCHANGED <<is_running_, enc, srcMutex>>

\* MsdkXcoder::AttachOutput, refused once the VPP has ended: link the new
\* encoder's pad under the Dispatcher's mutex, then Start the encoder.
AttachOutput(e) ==
  /\ api.pc = "idle"
  /\ is_running_[VPP]
  /\ enc[e].pc = "none"
  /\ ApiGoto("link", e)
  /\ ApiOnly /\ UNCHANGED <<is_running_, enc, srcpads, srcMutex>>

LinkNextElement ==
  /\ api.pc = "link"
  /\ srcMutex = None
  /\ srcpads' = Append(srcpads, api.e)
  /\ ApiGoto("start", api.e)
  /\ ApiOnly /\ UNCHANGED <<is_running_, enc, srcMutex>>

StartEncoder ==
  /\ api.pc = "start"
  /\ is_running_' = [is_running_ EXCEPT ![api.e] = TRUE]
  /\ enc' = [enc EXCEPT ![api.e].pc = "loop"]
  /\ ApiGoto("idle", None)
  /\ ApiOnly /\ UNCHANGED <<srcpads, srcMutex>>

HotPlug == \/ \E e \in Encoders : DetachOutput(e) \/ AttachOutput(e)
           \/ DetachJoined \/ UnlinkPrevElement
           \/ LinkNextElement \/ StartEncoder

-----------------------------------------------------------------------------
Finished == api.pc = "stopped" /\ UNCHANGED vars

\* Run to the end of the input or to Stop: what the SMTA application does.
PipelineNext ==
  VppStep \/ (\E e \in Encoders : EncWork(e)) \/ StopCall \/ Finished

\* ... with encoders attached and detached while frames flow.
HotPlugNext == PipelineNext \/ HotPlug

\* ... and with codecs that cannot be initialised.
InitFails == VppInitFails \/ \E e \in Encoders : EncInitFails(e)

Next == HotPlugNext \/ InitFails

\* Every thread runs; the application thread finishes the call it is in.  The
\* Dispatcher's mutex is released within finitely many steps, and the VPP
\* renders finitely many frames, so weak fairness is enough.
ApiContinue == (StopCall \/ HotPlug) /\ api.pc # "idle"

Fairness == /\ WF_vars(VppStep)
            /\ \A e \in Encoders : WF_vars(EncWork(e))
            /\ WF_vars(ApiContinue)

PipelineSpec == Init /\ [][PipelineNext]_vars /\ Fairness
HotPlugSpec == Init /\ [][HotPlugNext]_vars /\ Fairness
Spec == Init /\ [][Next]_vars
FairSpec == Spec /\ Fairness

-----------------------------------------------------------------------------
TypeOK ==
  /\ Locked \in [Surfaces -> Nat]
  /\ sur_ref_map_ \in [Surfaces -> Nat]
  /\ srcpads \in Seq(Encoders)
  /\ in_buf_q \in [Encoders -> Seq(Bufs)]
  /\ \A e \in Encoders : Len(in_buf_q[e]) <= QueueSize
  /\ is_running_ \in [Encoders \cup {VPP} -> BOOLEAN]
  /\ codec_init_ \in [Encoders \cup {VPP} -> BOOLEAN]
  /\ vpp \in [pc : {"top", "find", "render", "exit", "lock", "spin", "check",
                    "push", "exited"},
              nIndex : Surfaces \cup {NotFound}, buf : Bufs, todo : Seq(Encoders)]
  /\ enc \in [Encoders -> [pc : {"none", "loop", "process", "return", "drain",
                                 "exited"}, buf : Bufs]]
  /\ srcMutex \in {None, VPP}
  /\ api \in [pc : {"idle", "joinVpp", "stopEnc", "joinEnc", "stopped",
                    "joinOut", "unlink", "link", "start"},
              e : Encoders \cup {None}]
  /\ frames \in 0 .. MaxFrames
  /\ dropped \in [Surfaces -> Nat]

\* The loans of a surface: queued at an encoder (at which place of whose
\* queue), in an encoder's hand, not yet handed to an encoder by the
\* Dispatcher, or forgotten by an encoder.
Queued(s) == UNION {{<<e, i>> : i \in {j \in DOMAIN in_buf_q[e] : in_buf_q[e][j] = s}}
                      : e \in Encoders}
InHand(s) == {e \in Encoders : enc[e].pc \in {"process", "return"} /\ enc[e].buf = s}
ToServe(s) == IF vpp.buf = s THEN Len(vpp.todo) ELSE 0
Loans(s) == Cardinality(Queued(s)) + Cardinality(InHand(s)) + ToServe(s) + dropped[s]

\* The Dispatcher's count of a surface is the number of loans, whatever the
\* order in which the VPP lends, pads refuse, encoders return and drain: never
\* a return too many (the surface would be reused while an encoder reads it),
\* never one too few (it would be lost).
RefsMatchHolders == \A s \in Surfaces : sur_ref_map_[s] = Loans(s)

\* A surface that is lent is not free to the VPP: its lock is dropped by the
\* last return and not before.  With RefsMatchHolders: nobody reads a surface
\* that GetFreeSurfaceIndex may hand out.
LentSurfacesAreLocked ==
  \A s \in Surfaces : sur_ref_map_[s] > 0 => Locked[s] > 0

\* While the element runs, the VPP renders only into a surface that nobody
\* holds, although its check of Locked and its use of the surface are apart.
\* (Once it is stopped, it may render one last frame into an old nIndex.)
RendersIntoFreeSurface ==
  [][frames' > frames /\ is_running_[VPP] => Locked[vpp.nIndex] = 0]_vars

\* DetachOutput does not delete a pad that ProcessChain is going to use.
PadsInUseAreLinked == ToSet(vpp.todo) \subseteq ToSet(srcpads)

\* When MsdkXcoder::Stop has joined the last thread, every buffer has come
\* back: nothing is queued, the Dispatcher has no open loan.
AllReturnedAfterStop ==
  api.pc = "stopped" => /\ \A e \in Encoders : in_buf_q[e] = << >>
                        /\ \A s \in Surfaces : sur_ref_map_[s] = 0

\* MsdkXcoder::Stop returns, even if it comes while the VPP waits for a free
\* surface or for room in the queue of a busy encoder.
StopTerminates == api.pc = "joinVpp" ~> api.pc = "stopped"

\* Every surface lent to the encoders comes back to the VPP.
LoansEnd == \A s \in Surfaces : sur_ref_map_[s] > 0 ~> sur_ref_map_[s] = 0

\* When the VPP has ended, every encoder that encoded something ends, without
\* being stopped: the end-of-stream buffer reaches it behind its last frame.
EncodersFinish ==
  \A e \in ToSet(Initial) : (vpp.pc = "exited" /\ codec_init_[e]) ~> enc[e].pc = "exited"

\* The pipeline comes to rest: Stop returns, loans end, and the end of the
\* stream ends the encoders.
PipelineEnds == StopTerminates /\ LoansEnd /\ EncodersFinish

\* DetachOutput and AttachOutput return, although the thread that detaches
\* waits for the encoder and then for the mutex the VPP holds while it pushes.
HotPlugTerminates == api.pc \in {"joinOut", "link"} ~> api.pc = "idle"

-----------------------------------------------------------------------------
(* What the repository says and the code does not do. *)

\* media_pad.cpp:64, the assertion of ~MediaPad: queued buffers are returned
\* before the pad is unlinked and deleted.
PadEmptyWhenUnlinked ==
  \A e \in Encoders :
    enc[e].pc = "exited" /\ e \notin ToSet(srcpads) => in_buf_q[e] = << >>

=============================================================================
