---------------------------- MODULE FanoutProofs ----------------------------
(***************************************************************************)
(* Theorems about Fanout, for every set of encoders and every size of pool *)
(* and queue, with encoders attached, detached and failing to initialise.  *)
(***************************************************************************)
EXTENDS Fanout, SequenceTheorems, FunctionTheorems, FiniteSetTheorems, TLAPS

\* As much of TypeOK as the arguments need.  That the counters never go
\* negative follows from RefsMatchHolders, below.
VppStates ==
  [pc : {"top", "find", "render", "exit", "lock", "spin", "check", "push", "exited"},
   nIndex : Surfaces \cup {NotFound}, buf : Bufs, todo : Seq(Encoders)]

EncStates ==
  [pc : {"none", "loop", "process", "return", "drain", "exited"}, buf : Bufs]

Types ==
  /\ Locked \in [Surfaces -> Int]
  /\ sur_ref_map_ \in [Surfaces -> Int]
  /\ srcpads \in Seq(Encoders)
  /\ in_buf_q \in [Encoders -> Seq(Bufs)]
  /\ enc \in [Encoders -> EncStates]
  /\ vpp \in VppStates
  /\ vpp.pc = "render" => vpp.nIndex \in Surfaces
  /\ srcMutex \in {None, VPP}
  /\ api.pc = "link" => api.e \in Encoders

\* The pads still to be served are linked, and whoever unlinks one waits for
\* the mutex that the VPP holds until none is left.
PadsInv ==
  /\ vpp.todo # << >> => srcMutex = VPP
  /\ vpp.pc \in {"spin", "check", "push"} <=> srcMutex = VPP
  /\ vpp.pc \in {"check", "push"} => vpp.todo # << >>
  /\ PadsInUseAreLinked

\* A lent surface holds one lock, and the frame between VppRender and
\* DispatchBegin one more: if VppRender took a surface that is still lent (an
\* old nIndex), the last of the old loans may end between the two.
Pending(s) == vpp.pc = "lock" /\ vpp.buf = s

LocksInv ==
  \A s \in Surfaces :
    /\ sur_ref_map_[s] > 0 => Locked[s] >= 1
    /\ Pending(s) => Locked[s] >= 1
    /\ sur_ref_map_[s] > 0 /\ Pending(s) => Locked[s] >= 2
    /\ Locked[s] >= 0

IInv == Types /\ PadsInv /\ LocksInv

\* The tail of a sequence has no element that the sequence had not.
LEMMA ToSetOfTail ==
  ASSUME NEW S, NEW s \in Seq(S), s # << >>
  PROVE  ToSet(Tail(s)) \subseteq ToSet(s)
<1> SUFFICES ASSUME NEW i \in DOMAIN Tail(s) PROVE Tail(s)[i] \in ToSet(s)
  BY DEF ToSet
<1>1. /\ Tail(s) \in Seq(S)
      /\ Len(Tail(s)) = Len(s) - 1
      /\ i \in 1 .. Len(Tail(s))
      /\ Tail(s)[i] = s[i + 1]
  BY HeadTailProperties
<1>2. i + 1 \in DOMAIN s
  BY <1>1
<1> QED BY <1>1, <1>2 DEF ToSet

\* Taking one element out of a sequence adds none.
LEMMA RemoveAtIsSeq ==
  ASSUME NEW S, NEW s \in Seq(S), NEW i \in DOMAIN s
  PROVE  RemoveAt(s, i) \in Seq(S)
<1>1. SubSeq(s, 1, i - 1) \in Seq(S)
  BY SubSeqProperties
<1>2. SubSeq(s, i + 1, Len(s)) \in Seq(S)
  BY SubSeqProperties
<1> QED BY <1>1, <1>2, ConcatProperties DEF RemoveAt

\* Recycle keeps the surface locked while a loan is left.
LEMMA RecycleKeepsLocks ==
  ASSUME Types, LocksInv, NEW buf \in Bufs, Recycle(buf),
         \A s \in Surfaces : Pending(s)' <=> Pending(s)
  PROVE  /\ Locked' \in [Surfaces -> Int]
         /\ sur_ref_map_' \in [Surfaces -> Int]
         /\ LocksInv'
<1>1. CASE buf = Eos
  BY <1>1 DEF Types, LocksInv, Recycle
<1>2. CASE buf # Eos
  <2>1. buf \in Surfaces
    BY <1>2 DEF Bufs
  <2>2. /\ Locked' \in [Surfaces -> Int]
        /\ sur_ref_map_' \in [Surfaces -> Int]
    BY <1>2, <2>1 DEF Types, Recycle
  <2>3. ASSUME NEW s \in Surfaces
        PROVE  /\ sur_ref_map_'[s] > 0 => Locked'[s] >= 1
               /\ Pending(s) => Locked'[s] >= 1
               /\ sur_ref_map_'[s] > 0 /\ Pending(s) => Locked'[s] >= 2
               /\ Locked'[s] >= 0
    <3>1. CASE s = buf
      BY <1>2, <2>1, <3>1 DEF Types, LocksInv, Recycle
    <3>2. CASE s # buf
      BY <1>2, <2>1, <3>2 DEF Types, LocksInv, Recycle
    <3> QED BY <3>1, <3>2
  <2> QED BY <2>2, <2>3 DEF LocksInv
<1> QED BY <1>1, <1>2

\* The invariant holds at the start.
LEMMA InitIInv == Init => IInv
<1> SUFFICES ASSUME Init PROVE IInv
  OBVIOUS
<1> USE FanoutAssumption DEF Init
<1>1. Types
  BY DEF Types, VppStates, EncStates, Surfaces, Bufs, VPP, None
<1>2. PadsInv
  BY DEF PadsInv, PadsInUseAreLinked, ToSet, VPP, None
<1>3. LocksInv
  BY DEF LocksInv, Pending
<1> QED BY <1>1, <1>2, <1>3 DEF IInv

-----------------------------------------------------------------------------
(* The VPP thread. *)

\* It is kept by the steps of the VPP's thread, in ProcessChain too,
LEMMA VppStepIInv == ASSUME IInv, VppStep \/ VppInitFails PROVE IInv'
<1> USE DEF IInv
<1> USE DEF dispatcher
<1> USE DEF VppStates
<1>0. vpp \in VppStates
  BY DEF Types
<1>1. CASE VppTop \/ VppAllEos \/ VppFindSurface \/ VppExit \/ VppInitFails
  \* away from the Dispatcher: only vpp changes, and is_running_, codec_init_
  <2>1. /\ Locked' = Locked /\ sur_ref_map_' = sur_ref_map_
        /\ srcpads' = srcpads /\ srcMutex' = srcMutex
        /\ in_buf_q' = in_buf_q /\ enc' = enc /\ api' = api
    BY <1>1 DEF VppTop, VppAllEos, VppFindSurface, VppExit, VppInitFails
  <2>2. /\ vpp' \in VppStates
        /\ vpp'.pc = "render" => vpp'.nIndex \in Surfaces
        /\ vpp.pc \notin {"lock", "spin", "check", "push"}
        /\ vpp'.pc \notin {"spin", "check", "push"}
        /\ vpp'.pc = "lock" => vpp'.buf = Eos
        /\ vpp'.todo = vpp.todo
    <3>1. CASE VppTop
      BY <1>0, <3>1 DEF VppTop
    <3>2. CASE VppAllEos
      BY <1>0, <3>2 DEF VppAllEos
    <3>3. CASE VppFindSurface
      BY <1>0, <3>3 DEF VppFindSurface, FreeSurfaces
    <3>4. CASE VppExit
      BY <1>0, <3>4 DEF VppExit, Bufs
    <3>5. CASE VppInitFails
      BY <1>0, <3>5 DEF VppInitFails
    <3> QED BY <1>1, <3>1, <3>2, <3>3, <3>4, <3>5
  <2>3. Types'
    BY <2>1, <2>2 DEF Types
  <2>4. PadsInv'
    BY <2>1, <2>2 DEF PadsInv, PadsInUseAreLinked
  <2>5. LocksInv'
    BY <2>1, <2>2 DEF LocksInv, Pending, Surfaces, Eos
  <2> QED BY <2>3, <2>4, <2>5
<1>2. CASE VppRender
  <2>1. /\ sur_ref_map_' = sur_ref_map_ /\ srcpads' = srcpads /\ srcMutex' = srcMutex
        /\ in_buf_q' = in_buf_q /\ enc' = enc /\ api' = api
        /\ vpp.pc = "render" /\ vpp.nIndex \in Surfaces
    BY <1>2 DEF VppRender, Types
  <2>2. /\ vpp' \in VppStates
        /\ vpp'.todo = vpp.todo
        /\ \/ /\ vpp'.pc = "lock" /\ vpp'.buf = vpp.nIndex
              /\ Locked' = [Locked EXCEPT ![vpp.nIndex] = @ + 1]
           \/ vpp'.pc = "top" /\ Locked' = Locked
    BY <1>0, <1>2, <2>1 DEF VppRender, Bufs
  <2>3. Types'
    BY <2>1, <2>2 DEF Types
  <2>4. PadsInv'
    BY <2>1, <2>2 DEF PadsInv, PadsInUseAreLinked
  <2>5. LocksInv'
    BY <2>1, <2>2 DEF Types, LocksInv, Pending
  <2> QED BY <2>3, <2>4, <2>5
<1>3. CASE DispatchBegin
  <2>1. /\ Locked' = Locked /\ srcpads' = srcpads
        /\ in_buf_q' = in_buf_q /\ enc' = enc /\ api' = api
        /\ vpp.pc = "lock" /\ srcMutex' = VPP
        /\ srcpads \in Seq(Encoders) /\ Len(srcpads) \in Nat
    BY <1>3 DEF DispatchBegin, Types
  <2>2. /\ vpp' \in VppStates
        /\ vpp'.pc = "spin" /\ vpp'.todo = srcpads /\ vpp'.buf = vpp.buf
    BY <1>0, <1>3, <2>1 DEF DispatchBegin
  <2>3. sur_ref_map_' \in [Surfaces -> Int]
    BY <1>0, <1>3, <2>1 DEF DispatchBegin, Types, Bufs
  <2>4. Types'
    BY <2>1, <2>2, <2>3 DEF Types
  <2>5. PadsInv'
    BY <2>1, <2>2 DEF PadsInv, PadsInUseAreLinked
  <2>6. LocksInv'
    BY <1>0, <1>3, <2>1, <2>2 DEF DispatchBegin, Types, LocksInv, Pending, Bufs
  <2> QED BY <2>4, <2>5, <2>6
<1>4. CASE PadSpin \/ DispatchEnd
  <2>1. /\ Locked' = Locked /\ sur_ref_map_' = sur_ref_map_ /\ srcpads' = srcpads
        /\ in_buf_q' = in_buf_q /\ enc' = enc /\ api' = api
        /\ vpp.pc = "spin"
    BY <1>4 DEF PadSpin, DispatchEnd
  <2>2. /\ vpp' \in VppStates
        /\ vpp'.todo = vpp.todo
        /\ \/ vpp'.pc = "check" /\ vpp.todo # << >> /\ srcMutex' = srcMutex
           \/ vpp'.pc \in {"exited", "top", "find"} /\ vpp.todo = << >> /\ srcMutex' = None
    BY <1>0, <1>4 DEF PadSpin, DispatchEnd
  <2>3. Types'
    BY <2>1, <2>2 DEF Types
  <2>4. PadsInv'
    BY <2>1, <2>2 DEF PadsInv, PadsInUseAreLinked, VPP, None
  <2>5. LocksInv'
    BY <2>1, <2>2 DEF LocksInv, Pending
  <2> QED BY <2>3, <2>4, <2>5
<1>5. CASE PadCheck \/ PadPush
  <2>1. /\ vpp.pc \in {"check", "push"} /\ vpp.todo \in Seq(Encoders)
        /\ vpp.todo # << >> /\ vpp.buf \in Bufs
    BY <1>5 DEF PadCheck, PadPush, Types, PadsInv
  <2>2. /\ Head(vpp.todo) \in Encoders
        /\ Tail(vpp.todo) \in Seq(Encoders)
        /\ ToSet(Tail(vpp.todo)) \subseteq ToSet(vpp.todo)
    BY <2>1, HeadTailProperties, ToSetOfTail
  <2>3. CASE PadCheck
    <3>1. \A s \in Surfaces : Pending(s)' <=> Pending(s)
      BY <2>3, <2>1 DEF PadCheck, Types, Pending
    <3>2. /\ Locked' \in [Surfaces -> Int]
          /\ sur_ref_map_' \in [Surfaces -> Int]
          /\ LocksInv'
      BY <2>3, <2>1, <3>1, RecycleKeepsLocks DEF PadCheck, Types, LocksInv
    <3>3. Types'
      BY <2>3, <2>2, <3>2 DEF PadCheck, Types
    <3>4. PadsInv'
      BY <2>3, <2>1, <2>2 DEF PadCheck, Types, PadsInv, PadsInUseAreLinked
    <3> QED BY <3>2, <3>3, <3>4
  <2>4. CASE PadPush
    <3>1. Types'
      BY <2>4, <2>1, <2>2, AppendProperties DEF PadPush, Types
    <3>2. PadsInv'
      BY <2>4, <2>1, <2>2 DEF PadPush, Types, PadsInv, PadsInUseAreLinked
    <3>3. LocksInv'
      BY <2>4, <2>1 DEF PadPush, Types, LocksInv, Pending
    <3> QED BY <3>1, <3>2, <3>3
  <2> QED BY <1>5, <2>3, <2>4
<1> QED BY <1>1, <1>2, <1>3, <1>4, <1>5 DEF VppStep

-----------------------------------------------------------------------------
(* The encoders' threads. *)

\* by those of an encoder's thread,
LEMMA EncStepIInv ==
  ASSUME IInv, NEW e \in Encoders, EncWork(e) \/ EncInitFails(e)
  PROVE  IInv'
<1> USE DEF IInv
<1> USE DEF dispatcher
<1>1. vpp' = vpp /\ srcpads' = srcpads /\ srcMutex' = srcMutex /\ api' = api
  BY DEF EncWork, EncGet, EncEncode, EncEos, EncReturn, EncDrain, EncInitFails
<1>2. PadsInv'
  BY <1>1 DEF PadsInv, PadsInUseAreLinked
<1>3. \A s \in Surfaces : Pending(s)' <=> Pending(s)
  BY <1>1 DEF Pending
<1>4. CASE EncGet(e)
  <2>1. in_buf_q[e] # << >> => /\ Head(in_buf_q[e]) \in Bufs
                              /\ Tail(in_buf_q[e]) \in Seq(Bufs)
    BY HeadTailProperties DEF Types
  <2>2. /\ enc' \in [Encoders -> EncStates]
        /\ in_buf_q' \in [Encoders -> Seq(Bufs)]
        /\ Locked' = Locked /\ sur_ref_map_' = sur_ref_map_
    <3>1. CASE ~is_running_[e]
      BY <1>4, <3>1 DEF EncGet, Types, EncStates
    <3>2. CASE is_running_[e]
      <4>1. [pc |-> "process", buf |-> Head(in_buf_q[e])] \in EncStates
        BY <1>4, <2>1, <3>2 DEF EncGet, EncStates
      <4> QED BY <1>4, <2>1, <3>2, <4>1 DEF EncGet, Types
    <3> QED BY <3>1, <3>2
  <2>4. Types'
    BY <1>1, <2>2 DEF Types
  <2>3. LocksInv'
    BY <1>3, <2>2 DEF LocksInv
  <2> QED BY <1>2, <2>3, <2>4
<1>5. CASE EncEncode(e) \/ EncInitFails(e) \/ EncEos(e)
  <2>1. /\ Locked' = Locked /\ sur_ref_map_' = sur_ref_map_
        /\ in_buf_q' = in_buf_q
    BY <1>5 DEF EncEncode, EncInitFails, EncEos
  <2>2. \E pc \in {"loop", "return"} : enc' = [enc EXCEPT ![e].pc = pc]
    BY <1>5 DEF EncEncode, EncInitFails, EncEos
  <2>3. enc \in [Encoders -> EncStates]
    BY DEF Types
  <2>4. enc' \in [Encoders -> EncStates]
    BY ONLY <2>2, <2>3, e \in Encoders DEF EncStates
  <2>5. Types'
    BY <1>1, <2>1, <2>4 DEF Types
  <2>6. LocksInv'
    BY <1>3, <2>1 DEF LocksInv
  <2> QED BY <1>2, <2>5, <2>6
<1>6. CASE EncReturn(e)
  <2>1. /\ Locked' \in [Surfaces -> Int]
        /\ sur_ref_map_' \in [Surfaces -> Int]
        /\ LocksInv'
    BY <1>3, <1>6, RecycleKeepsLocks DEF EncReturn, Types, EncStates
  <2>2. Types'
    BY <1>1, <1>6, <2>1 DEF EncReturn, Types, EncStates
  <2> QED BY <1>2, <2>1, <2>2
<1>7. CASE EncDrain(e)
  <2>1. CASE in_buf_q[e] # << >>
    <3>1. /\ Head(in_buf_q[e]) \in Bufs
          /\ Tail(in_buf_q[e]) \in Seq(Bufs)
      BY <2>1, HeadTailProperties DEF Types
    <3>2. /\ Locked' \in [Surfaces -> Int]
          /\ sur_ref_map_' \in [Surfaces -> Int]
          /\ LocksInv'
      BY <1>3, <1>7, <2>1, <3>1, RecycleKeepsLocks DEF EncDrain
    <3>3. Types'
      BY <1>1, <1>7, <2>1, <3>1, <3>2 DEF EncDrain, Types, EncStates
    <3> QED BY <1>2, <3>2, <3>3
  <2>2. CASE in_buf_q[e] = << >>
    <3>1. Types'
      BY <1>1, <1>7, <2>2, ZenonT(30) DEF EncDrain, Types, EncStates
    <3>2. LocksInv'
      BY <1>3, <1>7, <2>2 DEF EncDrain, LocksInv
    <3> QED BY <1>2, <3>1, <3>2
  <2> QED BY <2>1, <2>2
<1> QED BY <1>4, <1>5, <1>6, <1>7 DEF EncWork

-----------------------------------------------------------------------------
(* The application thread.  Only the two steps that change srcpads matter,   *)
(* and both find the mutex free.                                             *)

\* by those of Stop, DetachOutput and AttachOutput,
LEMMA ApiStepIInv == ASSUME IInv, StopCall \/ HotPlug PROVE IInv'
<1> USE DEF IInv
<1>1. /\ Locked' = Locked /\ sur_ref_map_' = sur_ref_map_ /\ vpp' = vpp
      /\ in_buf_q' = in_buf_q /\ srcMutex' = srcMutex
  BY DEF StopCall, StopVpp, StopVppJoined, StopEncoder, StopEncoderJoined,
         HotPlug, DetachOutput, DetachJoined, UnlinkPrevElement, AttachOutput,
         LinkNextElement, StartEncoder, ApiOnly
<1>2. LocksInv'
  BY <1>1 DEF LocksInv, Pending
<1>3. enc' \in [Encoders -> EncStates]
  BY DEF Types, EncStates, StopCall, StopVpp, StopVppJoined, StopEncoder, StopEncoderJoined,
         HotPlug, DetachOutput, DetachJoined, UnlinkPrevElement, AttachOutput,
         LinkNextElement, StartEncoder
<1>4. api'.pc = "link" => api'.e \in Encoders
  BY DEF Types, StopCall, StopVpp, StopVppJoined, StopEncoder, StopEncoderJoined,
         HotPlug, DetachOutput, DetachJoined, UnlinkPrevElement, AttachOutput,
         LinkNextElement, StartEncoder, ApiGoto
<1>5. CASE srcpads' = srcpads
  BY <1>1, <1>2, <1>3, <1>4, <1>5 DEF Types, PadsInv, PadsInUseAreLinked
<1>6. CASE UnlinkPrevElement \/ LinkNextElement
  <2>1. vpp.todo = << >> /\ vpp.pc \notin {"spin", "check", "push"}
    BY <1>6 DEF PadsInv, UnlinkPrevElement, LinkNextElement, VPP, None
  <2>2. PadsInv'
    BY <1>1, <2>1 DEF PadsInv, PadsInUseAreLinked, ToSet
  <2>3. srcpads' \in Seq(Encoders)
    <3>1. CASE UnlinkPrevElement
      BY <3>1, RemoveAtIsSeq DEF Types, UnlinkPrevElement
    <3>2. CASE LinkNextElement
      BY <3>2, AppendProperties DEF Types, LinkNextElement
    <3> QED BY <1>6, <3>1, <3>2
  <2>4. Types'
    BY <1>1, <1>3, <1>4, <2>3 DEF Types
  <2> QED BY <1>2, <2>2, <2>4
<1>7. srcpads' = srcpads \/ UnlinkPrevElement \/ LinkNextElement
  BY DEF StopCall, StopVpp, StopVppJoined, StopEncoder, StopEncoderJoined,
         HotPlug, DetachOutput, DetachJoined, AttachOutput, StartEncoder
<1> QED BY <1>5, <1>6, <1>7

-----------------------------------------------------------------------------
\* and so by every step.
LEMMA StepIInv == IInv /\ [Next]_vars => IInv'
<1> SUFFICES ASSUME IInv, [Next]_vars PROVE IInv'
  OBVIOUS
<1>1. CASE UNCHANGED vars
  BY <1>1 DEF vars, IInv, Types, PadsInv, PadsInUseAreLinked, LocksInv, Pending
<1>2. CASE VppStep \/ VppInitFails
  BY <1>2, VppStepIInv
<1>3. ASSUME NEW e \in Encoders, EncWork(e) \/ EncInitFails(e) PROVE IInv'
  BY <1>3, EncStepIInv
<1>4. CASE StopCall \/ HotPlug
  BY <1>4, ApiStepIInv
<1> QED
  BY <1>1, <1>2, <1>3, <1>4
     DEF Next, HotPlugNext, PipelineNext, InitFails, Finished

\* ProcessChain never pushes to a pad that DetachOutput has deleted.
THEOREM PadsAreLinkedWhenUsed == Spec => []PadsInUseAreLinked
<1>1. IInv => PadsInUseAreLinked
  BY DEF IInv, PadsInv
<1> QED BY InitIInv, StepIInv, <1>1, PTL DEF Spec

\* A surface that is lent to an encoder is locked, so GetFreeSurfaceIndex does
\* not hand it out.
THEOREM LentMeansLocked == Spec => []LentSurfacesAreLocked
<1>1. IInv => LentSurfacesAreLocked
  BY DEF IInv, Types, LocksInv, LentSurfacesAreLocked
<1> QED BY InitIInv, StepIInv, <1>1, PTL DEF Spec

-----------------------------------------------------------------------------
(* The surface that GetFreeSurfaceIndex found stays free until DoingVpp uses *)
(* it: only the VPP locks, and what is not lent cannot be unlocked.          *)

RunInv ==
  /\ frames \in Nat
  /\ is_running_ \in [Encoders \cup {VPP} -> BOOLEAN]
  /\ api.pc \in {"link", "start"} => api.e \in Encoders
  /\ vpp.pc = "render" /\ is_running_[VPP] => Locked[vpp.nIndex] = 0

\* Nothing is scanned or rendered at the start.
LEMMA InitRunInv == Init => RunInv
  BY DEF Init, RunInv

\* Only VppRender counts a frame.
LEMMA FramesChange == [Next]_vars => VppRender \/ frames' = frames
  BY DEF Next, HotPlugNext, PipelineNext, InitFails, Finished, vars,
         VppStep, VppTop, VppAllEos, VppFindSurface, VppExit, DispatchBegin,
         PadSpin, PadCheck, PadPush, DispatchEnd, VppInitFails,
         EncWork, EncGet, EncEncode, EncEos, EncReturn, EncDrain, EncInitFails,
         StopCall, StopVpp, StopVppJoined, StopEncoder, StopEncoderJoined,
         HotPlug, DetachOutput, DetachJoined, UnlinkPrevElement, AttachOutput,
         LinkNextElement, StartEncoder, ApiOnly

\* No surface that is free is touched by a return.
LEMMA RecycleKeepsFree ==
  ASSUME Types, LocksInv, NEW buf \in Bufs, Recycle(buf),
         NEW s \in Surfaces, Locked[s] = 0
  PROVE  Locked'[s] = 0
<1>1. CASE buf = Eos
  BY <1>1 DEF Recycle
<1>2. CASE buf \in Surfaces
  <2>1. sur_ref_map_[s] \in Int /\ ~(sur_ref_map_[s] > 0)
    BY DEF Types, LocksInv
  <2> QED BY <1>2, <2>1 DEF Types, Recycle
<1> QED BY <1>1, <1>2 DEF Bufs

\* A surface that the scan found free stays free, as only the VPP locks.
LEMMA StepRunInv == IInv /\ RunInv /\ [Next]_vars => RunInv'
<1> SUFFICES ASSUME IInv, RunInv, [Next]_vars PROVE RunInv'
  OBVIOUS
<1> USE DEF IInv
<1>0. vpp \in VppStates
  BY DEF Types
<1>5. frames' \in Nat
  <2>1. VppRender \/ frames' = frames
    BY FramesChange
  <2> QED BY <2>1 DEF VppRender, RunInv
<1>1. CASE UNCHANGED vars
  BY <1>1 DEF vars, RunInv
<1>2. CASE VppStep \/ VppInitFails
  <2>1. api' = api
    BY <1>2 DEF VppStep, VppTop, VppAllEos, VppFindSurface, VppRender, VppExit,
                DispatchBegin, PadSpin, PadCheck, PadPush, DispatchEnd, VppInitFails
  <2>2. /\ is_running_' \in [Encoders \cup {VPP} -> BOOLEAN]
        /\ is_running_'[VPP] => is_running_[VPP]
    BY <1>2 DEF VppStep, VppTop, VppAllEos, VppFindSurface, VppRender, VppExit,
                DispatchBegin, PadSpin, PadCheck, PadPush, DispatchEnd, VppInitFails,
                RunInv
  <2>3. CASE VppFindSurface
    <3>1. vpp'.pc = "render" /\ is_running_'[VPP] => Locked'[vpp'.nIndex] = 0
      BY <1>0, <2>3 DEF VppFindSurface, FreeSurfaces, VppStates
    <3> QED BY <1>5, <2>1, <2>2, <3>1 DEF RunInv
  <2>4. CASE ~VppFindSurface
    <3>1. vpp'.pc # "render"
      BY <1>0, <1>2, <2>4
         DEF VppStep, VppTop, VppAllEos, VppRender, VppExit, DispatchBegin,
             PadSpin, PadCheck, PadPush, DispatchEnd, VppInitFails, VppStates
    <3> QED BY <1>5, <2>1, <2>2, <3>1 DEF RunInv
  <2> QED BY <2>3, <2>4
<1>3. ASSUME NEW e \in Encoders, EncWork(e) \/ EncInitFails(e) PROVE RunInv'
  <2>1. /\ vpp' = vpp /\ api' = api
        /\ \/ Locked' = Locked
           \/ \E buf \in Bufs : Recycle(buf)
    <3>1. CASE EncDrain(e) /\ in_buf_q[e] # << >>
      <4>1. Head(in_buf_q[e]) \in Bufs
        BY <3>1, HeadTailProperties DEF Types
      <4> QED BY <3>1, <4>1 DEF EncDrain
    <3>2. CASE EncReturn(e)
      <4>1. enc[e].buf \in Bufs
        BY DEF Types, EncStates
      <4> QED BY <3>2, <4>1 DEF EncReturn
    <3>3. CASE ~(EncDrain(e) /\ in_buf_q[e] # << >>) /\ ~EncReturn(e)
      BY <1>3, <3>3 DEF EncWork, EncGet, EncEncode, EncEos, EncDrain, EncInitFails
    <3> QED BY <3>1, <3>2, <3>3
  <2>2. /\ is_running_' \in [Encoders \cup {VPP} -> BOOLEAN]
        /\ is_running_'[VPP] => is_running_[VPP]
    BY <1>3 DEF EncWork, EncGet, EncEncode, EncEos, EncReturn, EncDrain,
                EncInitFails, RunInv
  <2>3. vpp.pc = "render" /\ is_running_[VPP] => Locked'[vpp.nIndex] = 0
    BY <2>1, RecycleKeepsFree DEF RunInv, Types
  <2> QED BY <1>5, <2>1, <2>2, <2>3 DEF RunInv
<1>4. CASE StopCall \/ HotPlug
  <2>1. Locked' = Locked /\ vpp' = vpp
    BY <1>4 DEF StopCall, StopVpp, StopVppJoined, StopEncoder, StopEncoderJoined,
         HotPlug, DetachOutput, DetachJoined, UnlinkPrevElement, AttachOutput,
         LinkNextElement, StartEncoder, ApiOnly
  <2>2. api'.pc \in {"link", "start"} => api'.e \in Encoders
    BY <1>4 DEF StopCall, StopVpp, StopVppJoined, StopEncoder, StopEncoderJoined,
         HotPlug, DetachOutput, DetachJoined, UnlinkPrevElement, AttachOutput,
         LinkNextElement, StartEncoder, ApiGoto, RunInv
  <2>3. /\ is_running_' \in [Encoders \cup {VPP} -> BOOLEAN]
        /\ is_running_'[VPP] => is_running_[VPP]
    BY <1>4, FanoutAssumption
       DEF StopCall, StopVpp, StopVppJoined, StopEncoder, StopEncoderJoined,
         HotPlug, DetachOutput, DetachJoined, UnlinkPrevElement, AttachOutput,
         LinkNextElement, StartEncoder, RunInv, VPP
  <2> QED BY <1>5, <2>1, <2>2, <2>3 DEF RunInv
<1> QED
  BY <1>1, <1>2, <1>3, <1>4
     DEF Next, HotPlugNext, PipelineNext, InitFails, Finished

\* While it runs, the VPP renders only into a surface that nobody holds.
THEOREM RendersOnlyIntoFreeSurfaces == Spec => RendersIntoFreeSurface
<1>1. ASSUME IInv, RunInv, [Next]_vars
      PROVE  frames' > frames /\ is_running_[VPP] => Locked[vpp.nIndex] = 0
  <2>1. CASE VppRender
    BY <1>1, <2>1 DEF VppRender, RunInv
  <2>2. CASE ~VppRender
    <3>1. frames' = frames
      BY <1>1, <2>2, FramesChange
    <3> QED BY <1>1, <3>1 DEF RunInv
  <2> QED BY <2>1, <2>2
<1> QED
  BY InitIInv, StepIInv, InitRunInv, StepRunInv, <1>1, PTL
     DEF Spec, RendersIntoFreeSurface

-----------------------------------------------------------------------------
(* The Dispatcher's count of a surface is the number of its loans, and what *)
(* follows from it: the types of Fanout, and that MsdkXcoder::Stop leaves no *)
(* loan open.  The loans in the queues are counted as a set of places        *)
(* <<encoder, position>>: a push adds one place, a pop moves every place     *)
(* behind it by one.                                                         *)


Places(q, s) ==
  UNION {{<<e, i>> : i \in {j \in DOMAIN q[e] : q[e][j] = s}} : e \in Encoders}

Queues == [Encoders -> Seq(Bufs)]

One(condition) == IF condition THEN 1 ELSE 0

\* A place is an encoder and a position in its queue.
LEMMA PlacesAre ==
  ASSUME NEW q \in Queues, NEW s, NEW p
  PROVE  p \in Places(q, s) <=>
           \E e \in Encoders : \E i \in 1 .. Len(q[e]) : p = <<e, i>> /\ q[e][i] = s
<1>1. \A e \in Encoders : DOMAIN q[e] = 1 .. Len(q[e])
  BY LenProperties DEF Queues
<1> QED BY <1>1 DEF Places

\* Queues are finite, and so are the encoders.
LEMMA PlacesAreFinite ==
  ASSUME NEW q \in Queues, \A e \in Encoders : Len(q[e]) <= QueueSize, NEW s
  PROVE  IsFiniteSet(Places(q, s)) /\ Cardinality(Places(q, s)) \in Nat
<1>1. IsFiniteSet(Encoders \X (1 .. QueueSize))
  <2>1. IsFiniteSet(Encoders) /\ QueueSize \in Nat
    BY FanoutAssumption
  <2>2. IsFiniteSet(1 .. QueueSize)
    BY <2>1, FS_Interval
  <2> QED BY <2>1, <2>2, FS_Product
<1>2. Places(q, s) \subseteq Encoders \X (1 .. QueueSize)
  <2> SUFFICES ASSUME NEW p \in Places(q, s) PROVE p \in Encoders \X (1 .. QueueSize)
    OBVIOUS
  <2>1. PICK e \in Encoders : \E i \in 1 .. Len(q[e]) : p = <<e, i>>
    BY PlacesAre
  <2>2. PICK i \in 1 .. Len(q[e]) : p = <<e, i>>
    BY <2>1
  <2>3. Len(q[e]) \in Nat /\ Len(q[e]) <= QueueSize /\ QueueSize \in Nat
    BY FanoutAssumption DEF Queues
  <2>4. i \in 1 .. QueueSize
    BY <2>3
  <2> QED BY <2>2, <2>4
<1> QED BY <1>1, <1>2, FS_Subset, FS_CardinalityType

\* A buffer appended to a queue takes a place of its own.
LEMMA PushAddsAPlace ==
  ASSUME NEW q \in Queues, \A e \in Encoders : Len(q[e]) <= QueueSize,
         NEW e \in Encoders, NEW buf \in Bufs, NEW s,
         NEW r \in Queues, r[e] = Append(q[e], buf),
         \A d \in Encoders \ {e} : r[d] = q[d]
  PROVE  Cardinality(Places(r, s)) = Cardinality(Places(q, s)) + One(buf = s)
<1> DEFINE n == Len(q[e])
<1>1. q[e] \in Seq(Bufs) /\ n \in Nat
  BY DEF Queues
<1>2. /\ Len(r[e]) = n + 1 /\ r[e][n + 1] = buf
      /\ \A i \in 1 .. n : r[e][i] = q[e][i]
  BY <1>1, AppendProperties
<1>3. Places(r, s) = IF buf = s THEN Places(q, s) \cup {<<e, n + 1>>} ELSE Places(q, s)
  <2>1. ASSUME NEW p
        PROVE  p \in Places(r, s) <=> p \in Places(q, s) \/ (buf = s /\ p = <<e, n + 1>>)
    <3>1. ASSUME NEW d \in Encoders
          PROVE  (\E i \in 1 .. Len(r[d]) : p = <<d, i>> /\ r[d][i] = s)
                 <=> \/ \E i \in 1 .. Len(q[d]) : p = <<d, i>> /\ q[d][i] = s
                     \/ d = e /\ buf = s /\ p = <<e, n + 1>>
      <4>1. CASE d = e
        BY <1>1, <1>2, <4>1
      <4>2. CASE d # e
        BY <1>1, <4>2
      <4> QED BY <4>1, <4>2
    <3> QED BY <1>1, <3>1, PlacesAre
  <2> QED BY <2>1
<1>4. <<e, n + 1>> \notin Places(q, s)
  <2>1. ASSUME NEW d \in Encoders, NEW i \in 1 .. Len(q[d]), <<e, n + 1>> = <<d, i>>
        PROVE  FALSE
    BY <1>1, <2>1
  <2> QED BY <2>1, PlacesAre
<1>5. IsFiniteSet(Places(q, s)) /\ Cardinality(Places(q, s)) \in Nat
  BY PlacesAreFinite
<1>6. CASE buf = s
  BY <1>3, <1>4, <1>5, <1>6, FS_AddElement DEF One
<1>7. CASE buf # s
  BY <1>3, <1>5, <1>7 DEF One
<1> QED BY <1>6, <1>7

\* The first buffer leaves its place; those behind it move up.
LEMMA PopFreesAPlace ==
  ASSUME NEW q \in Queues, \A e \in Encoders : Len(q[e]) <= QueueSize,
         NEW e \in Encoders, q[e] # << >>, NEW s,
         NEW r \in Queues, r[e] = Tail(q[e]),
         \A d \in Encoders \ {e} : r[d] = q[d]
  PROVE  /\ Head(q[e]) \in Bufs
         /\ Cardinality(Places(r, s)) = Cardinality(Places(q, s)) - One(Head(q[e]) = s)
<1> DEFINE n == Len(q[e])
           old == Places(q, s) \ {<<e, 1>>}
           up == [p \in Places(r, s) |-> <<p[1], IF p[1] = e THEN p[2] + 1 ELSE p[2]>>]
<1>1. /\ q[e] \in Seq(Bufs) /\ n \in Nat \ {0} /\ Head(q[e]) \in Bufs
      /\ Tail(q[e]) \in Seq(Bufs) /\ Len(Tail(q[e])) = n - 1
      /\ Head(q[e]) = q[e][1]
      /\ \A i \in 1 .. n - 1 : Tail(q[e])[i] = q[e][i + 1]
  <2>1. q[e] \in Seq(Bufs) /\ n \in Nat \ {0}
    BY EmptySeq DEF Queues
  <2> QED BY <2>1, HeadTailProperties
<1>3. IsFiniteSet(Places(q, s)) /\ Cardinality(Places(q, s)) \in Nat
  BY PlacesAreFinite
<1>a. ASSUME NEW p
      PROVE  p \in Places(r, s) <=>
               \/ \E d \in Encoders \ {e} : \E i \in 1 .. Len(q[d]) : p = <<d, i>> /\ q[d][i] = s
               \/ \E i \in 1 .. n - 1 : p = <<e, i>> /\ q[e][i + 1] = s
  <2>1. p \in Places(r, s) <=>
           \E d \in Encoders : \E i \in 1 .. Len(r[d]) : p = <<d, i>> /\ r[d][i] = s
    BY PlacesAre
  <2>2. Len(r[e]) = n - 1 /\ \A i \in 1 .. n - 1 : r[e][i] = q[e][i + 1]
    BY <1>1
  <2> QED BY <2>1, <2>2, ZenonT(30)
<1>b. ASSUME NEW p
      PROVE  p \in old <=>
               \/ \E d \in Encoders \ {e} : \E i \in 1 .. Len(q[d]) : p = <<d, i>> /\ q[d][i] = s
               \/ \E i \in 1 .. n - 1 : p = <<e, i + 1>> /\ q[e][i + 1] = s
  <2>1. p \in Places(q, s) <=>
           \E d \in Encoders : \E i \in 1 .. Len(q[d]) : p = <<d, i>> /\ q[d][i] = s
    BY PlacesAre
  <2>2. ASSUME NEW i \in 1 .. n, i # 1, p = <<e, i>>, q[e][i] = s
        PROVE  \E j \in 1 .. n - 1 : p = <<e, j + 1>> /\ q[e][j + 1] = s
    <3>1. i - 1 \in 1 .. n - 1 /\ (i - 1) + 1 = i
      BY <1>1, <2>2
    <3> QED BY <2>2, <3>1
  <2>3. ASSUME NEW j \in 1 .. n - 1
        PROVE  j + 1 \in 1 .. n /\ j + 1 # 1
    BY <1>1
  <2> QED BY <2>1, <2>2, <2>3
<1>4. ExistsBijection(Places(r, s), old)
  <2>1. up \in [Places(r, s) -> old]
    <3> SUFFICES ASSUME NEW p \in Places(r, s) PROVE up[p] \in old
      OBVIOUS
    <3>1. CASE \E d \in Encoders \ {e} : \E i \in 1 .. Len(q[d]) : p = <<d, i>> /\ q[d][i] = s
      BY <1>b, <3>1
    <3>2. CASE \E i \in 1 .. n - 1 : p = <<e, i>> /\ q[e][i + 1] = s
      BY <1>b, <3>2
    <3> QED BY <1>a, <3>1, <3>2
  <2>2. ASSUME NEW a \in Places(r, s), NEW b \in Places(r, s), up[a] = up[b]
        PROVE  a = b
    <3>1. /\ a = <<a[1], a[2]>> /\ a[2] \in Int
          /\ b = <<b[1], b[2]>> /\ b[2] \in Int
      BY <1>a
    <3>2. a[1] = b[1] /\ (IF a[1] = e THEN a[2] + 1 ELSE a[2]) = (IF b[1] = e THEN b[2] + 1 ELSE b[2])
      BY <2>2
    <3>3. a[2] = b[2]
      BY <3>1, <3>2
    <3> QED BY <3>1, <3>2, <3>3
  <2>3. ASSUME NEW t \in old
        PROVE  \E p \in Places(r, s) : up[p] = t
    <3>1. CASE \E d \in Encoders \ {e} : \E i \in 1 .. Len(q[d]) : t = <<d, i>> /\ q[d][i] = s
      <4>1. t \in Places(r, s) /\ up[t] = t
        BY <1>a, <3>1
      <4> QED BY <4>1
    <3>2. CASE \E i \in 1 .. n - 1 : t = <<e, i + 1>> /\ q[e][i + 1] = s
      <4>1. PICK i \in 1 .. n - 1 : t = <<e, i + 1>> /\ q[e][i + 1] = s
        BY <3>2
      <4>2. <<e, i>> \in Places(r, s) /\ up[<<e, i>>] = t
        BY <1>a, <4>1
      <4> QED BY <4>2
    <3> QED BY <1>b, <3>1, <3>2
  <2>4. up \in Bijection(Places(r, s), old)
    BY <2>1, <2>2, <2>3, Fun_IsBij
  <2> QED BY <2>4 DEF ExistsBijection
<1>5. IsFiniteSet(old) /\ Cardinality(Places(r, s)) = Cardinality(old)
  <2>1. IsFiniteSet(old)
    BY <1>3, FS_RemoveElement
  <2>2. ExistsBijection(old, Places(r, s))
    BY <1>4, Fun_ExistsBijSymmetric
  <2> QED BY <2>1, <2>2, FS_Bijection
<1>6. <<e, 1>> \in Places(q, s) <=> Head(q[e]) = s
  <2>1. 1 \in 1 .. n
    BY <1>1
  <2> QED BY <1>1, <2>1, PlacesAre
<1>7. Cardinality(old) = Cardinality(Places(q, s)) - One(Head(q[e]) = s)
  <2>1. Cardinality(old) = IF <<e, 1>> \in Places(q, s) THEN Cardinality(Places(q, s)) - 1
                                                       ELSE Cardinality(Places(q, s))
    BY ONLY <1>3, FS_RemoveElement
  <2> HIDE DEF old
  <2> QED BY <1>3, <1>6, <2>1 DEF One
<1> HIDE DEF old
<1> QED BY <1>1, <1>5, <1>7

-----------------------------------------------------------------------------
(* The calls of the application, and room in the queues: PadSpin sees room   *)
(* in the queue of a running encoder, and only the VPP thread pushes; an     *)
(* encoder that was not running then may be started before PadCheck, but     *)
(* its queue is still empty.                                                 *)

ApiStates ==
  [pc : {"idle", "joinVpp", "stopEnc", "joinEnc", "stopped", "joinOut",
         "unlink", "link", "start"},
   e : Encoders \cup {None}]

CallsInv ==
  /\ is_running_ \in [Encoders \cup {VPP} -> BOOLEAN]
  /\ codec_init_ \in [Encoders \cup {VPP} -> BOOLEAN]
  /\ frames \in 0 .. MaxFrames
  /\ api \in ApiStates
  /\ srcpads # << >>
  /\ api.pc \in {"stopEnc", "joinEnc", "joinOut", "unlink"} => api.e \in ToSet(srcpads)
  /\ api.pc \in {"joinOut", "unlink"} => Len(srcpads) > 1
  /\ api.pc \in {"link", "start"} => api.e \in Encoders /\ enc[api.e].pc = "none"

StartInv ==
  \A e \in Encoders : enc[e].pc = "none" => in_buf_q[e] = << >> /\ ~is_running_[e]

RoomInv ==
  /\ \A e \in Encoders : Len(in_buf_q[e]) <= QueueSize
  /\ vpp.pc = "check" /\ is_running_[Head(vpp.todo)]
       => Len(in_buf_q[Head(vpp.todo)]) < QueueSize
  /\ vpp.pc = "push" => /\ Len(in_buf_q[Head(vpp.todo)]) < QueueSize
                        /\ enc[Head(vpp.todo)].pc # "none"

QueueInv == CallsInv /\ StartInv /\ RoomInv

\* All queues are empty at the start.
LEMMA InitQueueInv == Init => QueueInv
<1> SUFFICES ASSUME Init PROVE QueueInv
  OBVIOUS
<1> USE FanoutAssumption DEF Init
<1>1. CallsInv
  BY DEF CallsInv, ApiStates
<1>2. StartInv
  BY DEF StartInv, VPP
<1>3. RoomInv
  BY DEF RoomInv
<1> QED BY <1>1, <1>2, <1>3 DEF QueueInv

\* The VPP pushes only into a queue that it saw has room.
LEMMA VppStepQueueInv ==
  ASSUME IInv, QueueInv, VppStep \/ VppInitFails PROVE QueueInv'
<1> USE DEF QueueInv, dispatcher
<1>1. /\ enc' = enc /\ api' = api /\ srcpads' = srcpads
      /\ vpp \in VppStates /\ in_buf_q \in [Encoders -> Seq(Bufs)]
      /\ VPP \notin Encoders /\ MaxFrames \in Nat /\ QueueSize \in Nat \ {0}
  BY FanoutAssumption
     DEF VppStep, VppTop, VppAllEos, VppFindSurface, VppRender, VppExit,
         DispatchBegin, PadSpin, PadCheck, PadPush, DispatchEnd, VppInitFails,
         IInv, Types, VPP
<1>2. CallsInv'
  <2>1. /\ is_running_' \in [Encoders \cup {VPP} -> BOOLEAN]
        /\ codec_init_' \in [Encoders \cup {VPP} -> BOOLEAN]
    BY <1>1 DEF VppStep, VppTop, VppAllEos, VppFindSurface, VppRender, VppExit,
         DispatchBegin, PadSpin, PadCheck, PadPush, DispatchEnd, VppInitFails, CallsInv
  <2>2. frames' = frames \/ (frames < MaxFrames /\ frames' = frames + 1)
    BY DEF VppStep, VppTop, VppAllEos, VppFindSurface, VppRender, VppExit,
         DispatchBegin, PadSpin, PadCheck, PadPush, DispatchEnd, VppInitFails
  <2>3. frames' \in 0 .. MaxFrames
    BY <1>1, <2>2 DEF CallsInv
  <2> QED BY <1>1, <2>1, <2>3 DEF CallsInv
<1>3. \A e \in Encoders : is_running_'[e] = is_running_[e]
  BY <1>1 DEF VppStep, VppTop, VppAllEos, VppFindSurface, VppRender, VppExit,
         DispatchBegin, PadSpin, PadCheck, PadPush, DispatchEnd, VppInitFails, CallsInv
<1>4. CASE ~PadSpin /\ ~PadCheck /\ ~PadPush
  <2>1. in_buf_q' = in_buf_q /\ vpp'.pc \notin {"check", "push"}
    BY <1>1, <1>4
       DEF VppStep, VppTop, VppAllEos, VppFindSurface, VppRender, VppExit,
           DispatchBegin, DispatchEnd, VppInitFails, VppStates
  <2> QED BY <1>1, <1>2, <1>3, <2>1 DEF StartInv, RoomInv
<1>5. CASE PadSpin \/ PadCheck \/ PadPush
  <2>1. vpp.todo \in Seq(Encoders) /\ vpp.todo # << >> /\ Head(vpp.todo) \in Encoders
    BY <1>1, <1>5, HeadTailProperties
       DEF PadSpin, PadCheck, PadPush, VppStates, IInv, PadsInv
  <2>2. CASE PadSpin
    <3>1. vpp'.pc = "check" /\ vpp'.todo = vpp.todo /\ in_buf_q' = in_buf_q
          /\ is_running_' = is_running_
      BY <1>1, <2>2 DEF PadSpin, VppStates
    <3>2. is_running_[Head(vpp.todo)] => Len(in_buf_q[Head(vpp.todo)]) < QueueSize
      BY <2>2 DEF PadSpin
    <3> QED BY <1>1, <1>2, <3>1, <3>2 DEF StartInv, RoomInv
  <2>3. CASE PadCheck
    <3>1. /\ vpp.pc = "check" /\ in_buf_q' = in_buf_q /\ is_running_' = is_running_
          /\ \/ vpp'.pc = "spin"
             \/ is_running_[Head(vpp.todo)] /\ vpp'.pc = "push" /\ vpp'.todo = vpp.todo
      BY <1>1, <2>3 DEF PadCheck, VppStates
    <3> QED BY <1>1, <1>2, <2>1, <3>1 DEF StartInv, RoomInv
  <2>4. CASE PadPush
    <3> DEFINE e == Head(vpp.todo)
    <3>1. /\ vpp.pc = "push" /\ vpp'.pc = "spin" /\ is_running_' = is_running_
          /\ in_buf_q' = [in_buf_q EXCEPT ![e] = Append(@, vpp.buf)]
          /\ in_buf_q[e] \in Seq(Bufs) /\ vpp.buf \in Bufs
      BY <1>1, <2>1, <2>4 DEF PadPush, VppStates
    <3>2. Len(in_buf_q'[e]) = Len(in_buf_q[e]) + 1 /\ Len(in_buf_q[e]) \in Nat
      BY <1>1, <2>1, <3>1, AppendProperties
    <3>3. \A d \in Encoders \ {e} : in_buf_q'[d] = in_buf_q[d]
      BY <1>1, <3>1
    <3>4. StartInv'
      BY <1>1, <3>1, <3>3 DEF StartInv, RoomInv
    <3>5. RoomInv'
      BY <1>1, <2>1, <3>1, <3>2, <3>3 DEF RoomInv
    <3> QED BY <1>2, <3>4, <3>5
  <2> QED BY <1>5, <2>2, <2>3, <2>4
<1> QED BY <1>4, <1>5

\* An encoder pops its own queue, one call at a time.
LEMMA EncStepQueueInv ==
  ASSUME IInv, QueueInv, NEW e \in Encoders, EncWork(e) \/ EncInitFails(e)
  PROVE  QueueInv'
<1> USE DEF QueueInv
<1>1. /\ vpp' = vpp /\ srcpads' = srcpads /\ api' = api /\ frames' = frames
      /\ enc \in [Encoders -> EncStates] /\ in_buf_q \in [Encoders -> Seq(Bufs)]
  BY DEF EncWork, EncGet, EncEncode, EncEos, EncReturn, EncDrain, EncInitFails,
         dispatcher, IInv, Types
<1>2. /\ is_running_' \in [Encoders \cup {VPP} -> BOOLEAN]
      /\ codec_init_' \in [Encoders \cup {VPP} -> BOOLEAN]
      /\ \A d \in Encoders : is_running_'[d] => is_running_[d]
  BY DEF EncWork, EncGet, EncEncode, EncEos, EncReturn, EncDrain, EncInitFails, CallsInv
<1>3. \A d \in Encoders : enc'[d].pc = "none" <=> enc[d].pc = "none"
  <2>1. enc[e].pc # "none"
    BY DEF EncWork, EncGet, EncEncode, EncEos, EncReturn, EncDrain, EncInitFails
  <2>2. enc' = enc \/ \E r : enc' = [enc EXCEPT ![e] = r] /\ r.pc # "none"
    BY <1>1 DEF EncWork, EncGet, EncEncode, EncEos, EncReturn, EncDrain,
                EncInitFails, EncStates
  <2> QED BY <1>1, <2>1, <2>2
<1>4. \/ in_buf_q' = in_buf_q
      \/ in_buf_q[e] # << >> /\ in_buf_q' = [in_buf_q EXCEPT ![e] = Tail(@)]
  BY DEF EncWork, EncGet, EncEncode, EncEos, EncReturn, EncDrain, EncInitFails
<1>5. \A d \in Encoders : /\ Len(in_buf_q'[d]) <= Len(in_buf_q[d])
                          /\ in_buf_q[d] = << >> => in_buf_q'[d] = << >>
                          /\ Len(in_buf_q[d]) \in Nat /\ Len(in_buf_q'[d]) \in Nat
  <2>1. CASE in_buf_q' = in_buf_q
    BY <1>1, <2>1
  <2>2. CASE in_buf_q[e] # << >> /\ in_buf_q' = [in_buf_q EXCEPT ![e] = Tail(@)]
    <3>1. Len(Tail(in_buf_q[e])) = Len(in_buf_q[e]) - 1
          /\ Tail(in_buf_q[e]) \in Seq(Bufs) /\ in_buf_q[e] \in Seq(Bufs)
      BY <1>1, <2>2, HeadTailProperties
    <3> QED BY <1>1, <2>2, <3>1
  <2> QED BY <1>4, <2>1, <2>2
<1>6. vpp.pc \in {"check", "push"} => Head(vpp.todo) \in Encoders
  BY HeadTailProperties DEF IInv, Types, PadsInv, VppStates
<1>7. CallsInv'
  BY <1>1, <1>2, <1>3 DEF CallsInv
<1>8. StartInv'
  BY <1>2, <1>3, <1>5 DEF StartInv
<1>9. RoomInv'
  <2>1. QueueSize \in Nat
    BY FanoutAssumption
  <2> QED BY <1>1, <1>2, <1>3, <1>5, <1>6, <2>1 DEF RoomInv
<1> QED BY <1>7, <1>8, <1>9

\* Taking one element out of a longer sequence leaves some.
LEMMA RemoveAtLen ==
  ASSUME NEW S, NEW s \in Seq(S), NEW i \in 1 .. Len(s), Len(s) > 1
  PROVE  RemoveAt(s, i) # << >>
<1>1. /\ SubSeq(s, 1, i - 1) \in Seq(S) /\ Len(SubSeq(s, 1, i - 1)) = i - 1
      /\ SubSeq(s, i + 1, Len(s)) \in Seq(S)
      /\ Len(SubSeq(s, i + 1, Len(s))) = Len(s) - i
  BY SubSeqProperties
<1>2. Len(RemoveAt(s, i)) = (i - 1) + (Len(s) - i)
  <2>1. Len(SubSeq(s, 1, i - 1) \o SubSeq(s, i + 1, Len(s)))
          = Len(SubSeq(s, 1, i - 1)) + Len(SubSeq(s, i + 1, Len(s)))
    BY <1>1, ConcatProperties
  <2> QED BY <1>1, <2>1 DEF RemoveAt
<1>3. Len(s) \in Nat /\ Len(<< >>) = 0
  BY LenProperties, EmptySeq
<1>4. Len(RemoveAt(s, i)) # 0
  BY <1>2, <1>3
<1> QED BY <1>3, <1>4

\* Stop and hot plugging touch no queue, and leave the VPP and a pad for it to serve.
LEMMA ApiStepQueueInv ==
  ASSUME IInv, QueueInv, StopCall \/ HotPlug
  PROVE  QueueInv'
<1> USE DEF QueueInv
<1>1. /\ vpp' = vpp /\ in_buf_q' = in_buf_q /\ codec_init_' = codec_init_
      /\ frames' = frames
  BY DEF StopCall, StopVpp, StopVppJoined, StopEncoder, StopEncoderJoined,
         HotPlug, DetachOutput, DetachJoined, UnlinkPrevElement, AttachOutput,
         LinkNextElement, StartEncoder, ApiOnly
<1>2. /\ enc \in [Encoders -> EncStates] /\ in_buf_q \in [Encoders -> Seq(Bufs)]
      /\ srcpads \in Seq(Encoders) /\ srcpads # << >> /\ Len(srcpads) \in Nat \ {0}
      /\ QueueSize \in Nat \ {0} /\ VPP \notin Encoders /\ None \notin Encoders
      /\ DOMAIN srcpads = 1 .. Len(srcpads)
      /\ \A i \in 1 .. Len(srcpads) : srcpads[i] \in Encoders /\ srcpads[i] \in ToSet(srcpads)
  BY FanoutAssumption, EmptySeq DEF IInv, Types, CallsInv, VPP, None, ToSet
<1>3. vpp.pc \in {"check", "push"} => Head(vpp.todo) \in Encoders
  BY HeadTailProperties DEF IInv, Types, PadsInv, VppStates
<1>4. api.pc \in {"stopEnc", "joinEnc", "joinOut", "unlink", "link", "start"}
        => api.e \in Encoders
  BY <1>2 DEF CallsInv, ToSet
<1>5. CASE StartEncoder
  <2>1. /\ api.e \in Encoders /\ enc[api.e].pc = "none" /\ srcpads' = srcpads
        /\ is_running_' = [is_running_ EXCEPT ![api.e] = TRUE]
        /\ enc' = [enc EXCEPT ![api.e].pc = "loop"]
        /\ api' = [pc |-> "idle", e |-> None]
    BY <1>5 DEF StartEncoder, CallsInv, ApiGoto
  <2>2. in_buf_q[api.e] = << >>
    BY <2>1 DEF StartInv
  <2>3. CallsInv'
    BY <1>1, <2>1 DEF CallsInv, ApiStates
  <2>4. StartInv'
    BY <1>1, <1>2, <2>1 DEF StartInv, EncStates, CallsInv
  <2>5. RoomInv'
    <3>1. \A e \in Encoders : enc'[e].pc = "none" => enc[e].pc = "none"
      BY <1>2, <2>1 DEF EncStates
    <3>2. \A e \in Encoders : is_running_'[e] => is_running_[e] \/ e = api.e
      BY <2>1 DEF CallsInv
    <3>3. Len(in_buf_q[api.e]) = 0
      BY <2>2
    <3> QED BY <1>1, <1>2, <1>3, <3>1, <3>2, <3>3 DEF RoomInv
  <2> QED BY <2>3, <2>4, <2>5
<1>6. CASE ~StartEncoder
  <2>1. enc' = enc
    BY <1>6 DEF StopCall, StopVpp, StopVppJoined, StopEncoder, StopEncoderJoined,
         HotPlug, DetachOutput, DetachJoined, UnlinkPrevElement, AttachOutput,
         LinkNextElement
  <2>2. /\ is_running_' \in [Encoders \cup {VPP} -> BOOLEAN]
        /\ \A e \in Encoders : is_running_'[e] => is_running_[e]
    BY <1>2, <1>6
       DEF StopCall, StopVpp, StopVppJoined, StopEncoder, StopEncoderJoined,
         HotPlug, DetachOutput, DetachJoined, UnlinkPrevElement, AttachOutput,
         LinkNextElement, CallsInv
  <2>3. StartInv'
    BY <1>1, <2>1, <2>2 DEF StartInv
  <2>4. RoomInv'
    BY <1>1, <1>3, <2>1, <2>2 DEF RoomInv
  <2>5. CallsInv'
    <3> USE DEF ApiGoto, ApiStates
    <3>1. CASE StopVpp \/ StopVppJoined \/ StopEncoder
      BY <1>1, <1>2, <1>4, <2>1, <2>2, <3>1
         DEF StopVpp, StopVppJoined, StopEncoder, CallsInv
    <3>2. CASE StopEncoderJoined
      <4>1. PICK i \in 1 .. Len(srcpads) :
              i = CHOOSE j \in DOMAIN srcpads : srcpads[j] = api.e
        BY <1>2, <3>2 DEF StopEncoderJoined, CallsInv, ToSet
      <4>2. NextEncoder(api.e) = IF i = Len(srcpads) THEN None ELSE srcpads[i + 1]
        BY <4>1 DEF NextEncoder
      <4>3. i # Len(srcpads) => i + 1 \in 1 .. Len(srcpads)
        <5>1. Len(srcpads) \in Nat
          BY <1>2
        <5> QED BY ONLY <5>1, i \in 1 .. Len(srcpads)
      <4>4. NextEncoder(api.e) = None \/ NextEncoder(api.e) \in ToSet(srcpads) \cap Encoders
        BY <1>2, <4>2, <4>3
      <4> QED BY <1>1, <1>2, <2>1, <2>2, <3>2, <4>4 DEF StopEncoderJoined, CallsInv
    <3>3. CASE \E e \in Encoders : DetachOutput(e) \/ AttachOutput(e)
      BY <1>1, <2>1, <2>2, <3>3 DEF DetachOutput, AttachOutput, CallsInv
    <3>4. CASE DetachJoined
      BY <1>1, <1>4, <2>1, <2>2, <3>4 DEF DetachJoined, CallsInv
    <3>5. CASE UnlinkPrevElement
      <4>1. PICK i \in 1 .. Len(srcpads) : srcpads' = RemoveAt(srcpads, i)
        BY <1>2, <3>5 DEF UnlinkPrevElement
      <4>2. Len(srcpads) > 1
        BY <3>5 DEF UnlinkPrevElement, CallsInv
      <4>3. srcpads' # << >>
        BY <1>2, <4>1, <4>2, RemoveAtLen
      <4> QED BY <1>1, <2>1, <2>2, <3>5, <4>3 DEF UnlinkPrevElement, CallsInv
    <3>6. CASE LinkNextElement
      <4>1. srcpads' # << >>
        BY <1>2, <1>4, <3>6, AppendProperties DEF LinkNextElement
      <4> QED BY <1>1, <1>4, <2>1, <2>2, <3>6, <4>1 DEF LinkNextElement, CallsInv
    <3> QED BY <1>6, <3>1, <3>2, <3>3, <3>4, <3>5, <3>6 DEF StopCall, HotPlug
  <2> QED BY <2>3, <2>4, <2>5
<1> QED BY <1>5, <1>6

\* Every step keeps the queues within their room.
LEMMA StepQueueInv == IInv /\ QueueInv /\ [Next]_vars => QueueInv'
<1> SUFFICES ASSUME IInv, QueueInv, [Next]_vars PROVE QueueInv'
  OBVIOUS
<1>1. CASE UNCHANGED vars
  BY <1>1 DEF vars, QueueInv, CallsInv, StartInv, RoomInv
<1>2. CASE VppStep \/ VppInitFails
  BY <1>2, VppStepQueueInv
<1>3. ASSUME NEW e \in Encoders, EncWork(e) \/ EncInitFails(e) PROVE QueueInv'
  BY <1>3, EncStepQueueInv
<1>4. CASE StopCall \/ HotPlug
  BY <1>4, ApiStepQueueInv
<1> QED
  BY <1>1, <1>2, <1>3, <1>4
     DEF Next, HotPlugNext, PipelineNext, InitFails, Finished

-----------------------------------------------------------------------------
(* Counting the loans. *)

CountInv == dropped \in [Surfaces -> Nat] /\ RefsMatchHolders

Holds(e, s) == enc[e].pc \in {"process", "return"} /\ enc[e].buf = s

\* The surfaces in the queues are counted by their places.
LEMMA QueuedArePlaces == \A s : Queued(s) = Places(in_buf_q, s)
  BY DEF Queued, Places

\* The parts of a sum of loans are numbers.
LEMMA LoansAreNumbers ==
  ASSUME IInv, QueueInv, CountInv, NEW s \in Surfaces
  PROVE  /\ Cardinality(Queued(s)) \in Nat /\ Cardinality(InHand(s)) \in Nat
         /\ ToServe(s) \in Nat /\ dropped[s] \in Nat /\ sur_ref_map_[s] \in Int
<1>1. Cardinality(Queued(s)) \in Nat
  BY QueuedArePlaces, PlacesAreFinite DEF IInv, Types, QueueInv, RoomInv, Queues
<1>2. Cardinality(InHand(s)) \in Nat
  <2>1. InHand(s) \subseteq Encoders
    BY DEF InHand
  <2> QED BY <2>1, FanoutAssumption, FS_Subset, FS_CardinalityType
<1>3. ToServe(s) \in Nat
  BY DEF ToServe, IInv, Types, VppStates
<1>4. dropped[s] \in Nat /\ sur_ref_map_[s] \in Int
  BY DEF CountInv, IInv, Types
<1> QED BY <1>1, <1>2, <1>3, <1>4

\* Recycle takes one loan off the surface it is called with.
LEMMA RecycleCounts ==
  ASSUME IInv, NEW buf \in Bufs, Recycle(buf), NEW s \in Surfaces
  PROVE  sur_ref_map_'[s] = sur_ref_map_[s] - One(buf = s)
<1>1. sur_ref_map_ \in [Surfaces -> Int] /\ s # Eos
  BY DEF IInv, Types, Surfaces, Eos
<1>2. CASE buf = Eos
  BY <1>1, <1>2 DEF Recycle, One
<1>3. CASE buf # Eos
  BY <1>1, <1>3 DEF Recycle, One, Bufs
<1> QED BY <1>2, <1>3

\* A step of one encoder's thread changes what is in its own hand only.
LEMMA HandChanges ==
  ASSUME NEW e \in Encoders, \A d \in Encoders \ {e} : enc'[d] = enc[d], NEW s
  PROVE  Cardinality(InHand(s))' =
           Cardinality(InHand(s)) - One(Holds(e, s)) + One(Holds(e, s)')
<1> DEFINE others == InHand(s) \ {e}
<1>1. IsFiniteSet(others)
  <2>1. others \subseteq Encoders
    BY DEF InHand
  <2> QED BY <2>1, FanoutAssumption, FS_Subset
<1>2. Cardinality(others) \in Nat
  BY <1>1, FS_CardinalityType
<1>3. /\ InHand(s) = IF Holds(e, s) THEN others \cup {e} ELSE others
      /\ InHand(s)' = IF Holds(e, s)' THEN others \cup {e} ELSE others
  BY DEF InHand, Holds
<1>4. Cardinality(others \cup {e}) = Cardinality(others) + 1
  BY <1>1, FS_AddElement
<1> HIDE DEF others
<1>5. Cardinality(InHand(s)) = Cardinality(others) + One(Holds(e, s))
  BY <1>2, <1>3, <1>4 DEF One
<1>6. Cardinality(InHand(s))' = Cardinality(others) + One(Holds(e, s)')
  BY <1>2, <1>3, <1>4 DEF One
<1>7. One(Holds(e, s)) \in Int /\ One(Holds(e, s)') \in Int
  BY DEF One
<1> QED BY <1>2, <1>5, <1>6, <1>7

\* Nothing is lent at the start.
LEMMA InitCountInv == Init => CountInv
<1> SUFFICES ASSUME Init, NEW s \in Surfaces PROVE sur_ref_map_[s] = Loans(s)
  BY DEF CountInv, RefsMatchHolders, Init
<1>1. Queued(s) = {}
  BY DEF Init, Queued
<1>2. InHand(s) = {}
  BY DEF Init, InHand
<1>3. ToServe(s) = 0
  BY DEF Init, ToServe
<1> QED BY <1>1, <1>2, <1>3, FS_EmptySet DEF Init, Loans

\* The VPP thread: a frame is lent once to each pad; a pad that is served has
\* it in its queue, or gives it back.
LEMMA VppStepCountInv ==
  ASSUME IInv, QueueInv, CountInv, VppStep \/ VppInitFails PROVE CountInv'
<1> USE DEF dispatcher
<1>1. /\ enc' = enc /\ dropped' = dropped
      /\ vpp \in VppStates /\ in_buf_q \in [Encoders -> Seq(Bufs)]
  BY DEF VppStep, VppTop, VppAllEos, VppFindSurface, VppRender, VppExit,
         DispatchBegin, PadSpin, PadCheck, PadPush, DispatchEnd, VppInitFails,
         IInv, Types
<1> SUFFICES ASSUME NEW s \in Surfaces PROVE sur_ref_map_'[s] = Loans(s)'
  BY <1>1 DEF CountInv, RefsMatchHolders
<1>2. /\ sur_ref_map_[s] = Cardinality(Queued(s)) + Cardinality(InHand(s)) + ToServe(s) + dropped[s]
      /\ Cardinality(Queued(s)) \in Nat /\ Cardinality(InHand(s)) \in Nat
      /\ ToServe(s) \in Nat /\ dropped[s] \in Nat /\ sur_ref_map_[s] \in Int
  BY LoansAreNumbers DEF CountInv, RefsMatchHolders, Loans
<1>3. InHand(s)' = InHand(s)
  BY <1>1 DEF InHand
<1>4. s # Eos
  BY DEF Surfaces, Eos
<1>5. CASE ~DispatchBegin /\ ~PadCheck /\ ~PadPush
  <2>1. in_buf_q' = in_buf_q /\ sur_ref_map_' = sur_ref_map_
    BY <1>5 DEF VppStep, VppTop, VppAllEos, VppFindSurface, VppRender, VppExit,
                PadSpin, DispatchEnd, VppInitFails
  <2>2. /\ vpp'.todo = vpp.todo
        /\ vpp'.buf = vpp.buf \/ vpp.todo = << >>
    BY <1>1, <1>5
       DEF VppStep, VppTop, VppAllEos, VppFindSurface, VppRender, VppExit,
           PadSpin, DispatchEnd, VppInitFails, VppStates, IInv, PadsInv
  <2>3. ToServe(s)' = ToServe(s)
    BY <2>2, EmptySeq DEF ToServe
  <2>4. Queued(s)' = Queued(s)
    BY <2>1 DEF Queued
  <2> QED BY <1>1, <1>2, <1>3, <2>1, <2>3, <2>4 DEF Loans
<1>6. CASE DispatchBegin
  <2>1. /\ in_buf_q' = in_buf_q /\ vpp'.todo = srcpads /\ vpp'.buf = vpp.buf
        /\ vpp.todo = << >>
        /\ sur_ref_map_' = IF vpp.buf = Eos THEN sur_ref_map_
                           ELSE [sur_ref_map_ EXCEPT ![vpp.buf] = @ + Len(srcpads)]
        /\ Len(srcpads) \in Nat /\ sur_ref_map_ \in [Surfaces -> Int]
    BY <1>1, <1>6 DEF DispatchBegin, VppStates, IInv, PadsInv, Types
  <2>2. ToServe(s) = 0 /\ ToServe(s)' = IF vpp.buf = s THEN Len(srcpads) ELSE 0
    BY <2>1 DEF ToServe
  <2>3. sur_ref_map_'[s] = sur_ref_map_[s] + (IF vpp.buf = s THEN Len(srcpads) ELSE 0)
    BY <1>1, <1>4, <2>1 DEF VppStates, Bufs
  <2>4. Queued(s)' = Queued(s)
    BY <2>1 DEF Queued
  <2> QED BY <1>1, <1>2, <1>3, <2>1, <2>2, <2>3, <2>4 DEF Loans
<1>7. CASE PadCheck \/ PadPush
  <2> DEFINE e == Head(vpp.todo)
  <2>1. /\ vpp.todo \in Seq(Encoders) /\ vpp.todo # << >> /\ e \in Encoders
        /\ Len(Tail(vpp.todo)) = Len(vpp.todo) - 1 /\ Len(vpp.todo) \in Nat
        /\ vpp.buf \in Bufs
    BY <1>1, <1>7, HeadTailProperties
       DEF PadCheck, PadPush, VppStates, IInv, PadsInv
  <2>2. CASE PadCheck /\ is_running_[e]
    <3>1. /\ in_buf_q' = in_buf_q /\ sur_ref_map_' = sur_ref_map_
          /\ vpp'.todo = vpp.todo /\ vpp'.buf = vpp.buf
      BY <1>1, <2>2 DEF PadCheck, VppStates
    <3>2. ToServe(s)' = ToServe(s) /\ Queued(s)' = Queued(s)
      BY <3>1 DEF ToServe, Queued
    <3> QED BY <1>1, <1>2, <1>3, <3>1, <3>2 DEF Loans
  <2>3. CASE PadCheck /\ ~is_running_[e]
    <3>1. /\ in_buf_q' = in_buf_q /\ Recycle(vpp.buf)
          /\ vpp'.todo = Tail(vpp.todo) /\ vpp'.buf = vpp.buf
      BY <1>1, <2>3 DEF PadCheck, VppStates
    <3>2. sur_ref_map_'[s] = sur_ref_map_[s] - One(vpp.buf = s)
      BY <2>1, <3>1, RecycleCounts
    <3>3. ToServe(s)' = ToServe(s) - One(vpp.buf = s)
      BY <2>1, <3>1 DEF ToServe, One
    <3>4. Queued(s)' = Queued(s)
      BY <3>1 DEF Queued
    <3>5. One(vpp.buf = s) \in Int
      BY DEF One
    <3> QED BY <1>1, <1>2, <1>3, <3>2, <3>3, <3>4, <3>5 DEF Loans
  <2>4. CASE PadPush
    <3>1. /\ in_buf_q' = [in_buf_q EXCEPT ![e] = Append(@, vpp.buf)]
          /\ sur_ref_map_' = sur_ref_map_
          /\ vpp'.todo = Tail(vpp.todo) /\ vpp'.buf = vpp.buf
      BY <1>1, <2>4 DEF PadPush, VppStates
    <3>2. ToServe(s)' = ToServe(s) - One(vpp.buf = s)
      BY <2>1, <3>1 DEF ToServe, One
    <3>3. Cardinality(Queued(s))' = Cardinality(Queued(s)) + One(vpp.buf = s)
      <4>1. Queued(s) = Places(in_buf_q, s) /\ Queued(s)' = Places(in_buf_q', s)
        BY DEF Queued, Places
      <4>2. \A d \in Encoders : Len(in_buf_q[d]) <= QueueSize
        BY DEF QueueInv, RoomInv
      <4>3. /\ in_buf_q' \in Queues /\ in_buf_q'[e] = Append(in_buf_q[e], vpp.buf)
            /\ \A d \in Encoders \ {e} : in_buf_q'[d] = in_buf_q[d]
        BY <1>1, <2>1, <3>1, AppendProperties DEF Queues
      <4>4. in_buf_q \in Queues
        BY <1>1 DEF Queues
      <4> HIDE DEF e
      <4> QED BY <2>1, <4>1, <4>2, <4>3, <4>4, PushAddsAPlace
    <3>4. One(vpp.buf = s) \in Int
      BY DEF One
    <3> QED BY <1>1, <1>2, <1>3, <3>1, <3>2, <3>3, <3>4 DEF Loans
  <2> QED BY <1>7, <2>2, <2>3, <2>4
<1> QED BY <1>5, <1>6, <1>7

\* An encoder's thread: a buffer goes from its queue into its hand and back to
\* the VPP, or is dropped; what it drains goes back from the queue.
LEMMA EncStepCountInv ==
  ASSUME IInv, QueueInv, CountInv, NEW e \in Encoders, EncWork(e) \/ EncInitFails(e)
  PROVE  CountInv'
<1> USE DEF dispatcher
<1>1. /\ vpp' = vpp
      /\ enc \in [Encoders -> EncStates] /\ in_buf_q \in Queues
      /\ \A d \in Encoders \ {e} : enc'[d] = enc[d]
      /\ dropped \in [Surfaces -> Nat] /\ enc[e].buf \in Bufs
  BY DEF EncWork, EncGet, EncEncode, EncEos, EncReturn, EncDrain, EncInitFails,
         IInv, Types, CountInv, Queues, EncStates
<1>2. dropped' \in [Surfaces -> Nat]
  BY <1>1 DEF EncWork, EncGet, EncEncode, EncEos, EncReturn, EncDrain, EncInitFails
<1> SUFFICES ASSUME NEW s \in Surfaces PROVE sur_ref_map_'[s] = Loans(s)'
  BY <1>2 DEF CountInv, RefsMatchHolders
<1>3. /\ sur_ref_map_[s] = Cardinality(Queued(s)) + Cardinality(InHand(s)) + ToServe(s) + dropped[s]
      /\ Cardinality(Queued(s)) \in Nat /\ Cardinality(InHand(s)) \in Nat
      /\ ToServe(s) \in Nat /\ dropped[s] \in Nat /\ sur_ref_map_[s] \in Int
  BY LoansAreNumbers DEF CountInv, RefsMatchHolders, Loans
<1>4. ToServe(s)' = ToServe(s)
  BY <1>1 DEF ToServe
<1>5. s # Eos
  BY DEF Surfaces, Eos
<1>6. Cardinality(InHand(s))' =
        Cardinality(InHand(s)) - One(Holds(e, s)) + One(Holds(e, s)')
  BY <1>1, HandChanges
<1>7. /\ One(Holds(e, s)) \in Int /\ One(Holds(e, s)') \in Int
      /\ \A b : One(b = s) \in Int
  BY DEF One
<1>8. in_buf_q' = in_buf_q => Queued(s)' = Queued(s)
  BY DEF Queued
<1>9. ASSUME in_buf_q[e] # << >>, in_buf_q' = [in_buf_q EXCEPT ![e] = Tail(@)]
      PROVE  /\ Cardinality(Queued(s))' = Cardinality(Queued(s)) - One(Head(in_buf_q[e]) = s)
             /\ Head(in_buf_q[e]) \in Bufs
  <2>1. Queued(s) = Places(in_buf_q, s) /\ Queued(s)' = Places(in_buf_q', s)
    BY DEF Queued, Places
  <2>2. \A d \in Encoders : Len(in_buf_q[d]) <= QueueSize
    BY DEF QueueInv, RoomInv
  <2>3. /\ in_buf_q' \in Queues /\ in_buf_q'[e] = Tail(in_buf_q[e])
        /\ \A d \in Encoders \ {e} : in_buf_q'[d] = in_buf_q[d]
    BY <1>1, <1>9, HeadTailProperties DEF Queues
  <2>4. /\ Head(in_buf_q[e]) \in Bufs
        /\ Cardinality(Places(in_buf_q', s)) =
             Cardinality(Places(in_buf_q, s)) - One(Head(in_buf_q[e]) = s)
    <3>1. in_buf_q[e] # << >> /\ in_buf_q \in Queues
      BY <1>1, <1>9
    <3> QED BY ONLY <2>2, <2>3, <3>1, e \in Encoders, PopFreesAPlace
  <2> QED BY <2>1, <2>4
<1>10. CASE EncGet(e)
  <2>1. CASE ~is_running_[e]
    <3>1. /\ sur_ref_map_' = sur_ref_map_ /\ dropped' = dropped /\ in_buf_q' = in_buf_q
          /\ ~Holds(e, s) /\ ~Holds(e, s)'
      BY <1>1, <1>10, <2>1 DEF EncGet, Holds, EncStates
    <3>2. One(Holds(e, s)) = 0 /\ One(Holds(e, s)') = 0
      BY <3>1 DEF One
    <3> QED BY <1>3, <1>4, <1>6, <1>8, <3>1, <3>2 DEF Loans
  <2>2. CASE is_running_[e]
    <3>1. /\ sur_ref_map_' = sur_ref_map_ /\ dropped' = dropped
          /\ in_buf_q[e] # << >> /\ in_buf_q' = [in_buf_q EXCEPT ![e] = Tail(@)]
          /\ ~Holds(e, s) /\ (Holds(e, s)' <=> Head(in_buf_q[e]) = s)
      BY <1>1, <1>10, <2>2 DEF EncGet, Holds
    <3>2. One(Holds(e, s)) = 0 /\ One(Holds(e, s)') = One(Head(in_buf_q[e]) = s)
      BY <3>1 DEF One
    <3>3. Cardinality(Queued(s))' = Cardinality(Queued(s)) - One(Head(in_buf_q[e]) = s)
      BY <1>9, <3>1
    <3> QED BY <1>3, <1>4, <1>6, <1>7, <3>1, <3>2, <3>3 DEF Loans
  <2> QED BY <2>1, <2>2
<1>11. CASE EncEncode(e) \/ EncEos(e)
  <2>1. /\ sur_ref_map_' = sur_ref_map_ /\ dropped' = dropped /\ in_buf_q' = in_buf_q
        /\ Holds(e, s)' <=> Holds(e, s)
    BY <1>1, <1>5, <1>11 DEF EncEncode, EncEos, Holds, EncStates
  <2>2. One(Holds(e, s)') = One(Holds(e, s))
    BY <2>1 DEF One
  <2> QED BY <1>3, <1>4, <1>6, <1>7, <1>8, <2>1, <2>2 DEF Loans
<1>12. CASE EncInitFails(e)
  <2>1. /\ sur_ref_map_' = sur_ref_map_ /\ in_buf_q' = in_buf_q
        /\ dropped' = [dropped EXCEPT ![enc[e].buf] = @ + 1]
        /\ ~Holds(e, s)' /\ (Holds(e, s) <=> enc[e].buf = s)
    BY <1>1, <1>12 DEF EncInitFails, Holds, EncStates
  <2>2. /\ One(Holds(e, s)') = 0 /\ One(Holds(e, s)) = One(enc[e].buf = s)
        /\ dropped'[s] = dropped[s] + One(enc[e].buf = s)
    BY <1>1, <1>3, <2>1 DEF One
  <2> QED BY <1>3, <1>4, <1>6, <1>7, <1>8, <2>1, <2>2 DEF Loans
<1>13. CASE EncReturn(e)
  <2>1. /\ Recycle(enc[e].buf) /\ dropped' = dropped /\ in_buf_q' = in_buf_q
        /\ ~Holds(e, s)' /\ (Holds(e, s) <=> enc[e].buf = s)
    BY <1>1, <1>13 DEF EncReturn, Holds, EncStates
  <2>2. One(Holds(e, s)') = 0 /\ One(Holds(e, s)) = One(enc[e].buf = s)
    BY <2>1 DEF One
  <2>3. sur_ref_map_'[s] = sur_ref_map_[s] - One(enc[e].buf = s)
    BY <1>1, <2>1, RecycleCounts
  <2> QED BY <1>3, <1>4, <1>6, <1>7, <1>8, <2>1, <2>2, <2>3 DEF Loans
<1>14. CASE EncDrain(e)
  <2>0. ~Holds(e, s) /\ ~Holds(e, s)' /\ dropped' = dropped
    BY <1>1, <1>14 DEF EncDrain, Holds, EncStates
  <2>1. One(Holds(e, s)) = 0 /\ One(Holds(e, s)') = 0
    BY <2>0 DEF One
  <2>2. CASE in_buf_q[e] = << >>
    <3>1. sur_ref_map_' = sur_ref_map_ /\ in_buf_q' = in_buf_q
      BY <1>14, <2>2 DEF EncDrain
    <3> QED BY <1>3, <1>4, <1>6, <1>8, <2>0, <2>1, <3>1 DEF Loans
  <2>3. CASE in_buf_q[e] # << >>
    <3>1. /\ Recycle(Head(in_buf_q[e]))
          /\ in_buf_q' = [in_buf_q EXCEPT ![e] = Tail(@)]
      BY <1>14, <2>3 DEF EncDrain
    <3>2. /\ Cardinality(Queued(s))' = Cardinality(Queued(s)) - One(Head(in_buf_q[e]) = s)
          /\ Head(in_buf_q[e]) \in Bufs
      BY <1>9, <2>3, <3>1
    <3>3. sur_ref_map_'[s] = sur_ref_map_[s] - One(Head(in_buf_q[e]) = s)
      BY <3>1, <3>2, RecycleCounts
    <3>4. One(Head(in_buf_q[e]) = s) \in Int
      BY DEF One
    <3> QED BY <1>3, <1>4, <1>6, <2>0, <2>1, <3>2, <3>3, <3>4 DEF Loans
  <2> QED BY <2>2, <2>3
<1> QED BY <1>10, <1>11, <1>12, <1>13, <1>14 DEF EncWork

\* Every step changes the Dispatcher's count by the loans it makes or ends.
LEMMA StepCountInv == IInv /\ QueueInv /\ CountInv /\ [Next]_vars => CountInv'
<1> SUFFICES ASSUME IInv, QueueInv, CountInv, [Next]_vars PROVE CountInv'
  OBVIOUS
<1>1. CASE UNCHANGED vars \/ StopCall \/ HotPlug
  <2>1. /\ vpp' = vpp /\ in_buf_q' = in_buf_q /\ dropped' = dropped
        /\ sur_ref_map_' = sur_ref_map_
    BY <1>1 DEF vars, StopCall, StopVpp, StopVppJoined, StopEncoder, StopEncoderJoined,
         HotPlug, DetachOutput, DetachJoined, UnlinkPrevElement, AttachOutput,
         LinkNextElement, StartEncoder, ApiOnly
  <2>2. \A s \in Surfaces : InHand(s)' = InHand(s)
    <3>1. CASE enc' = enc
      BY <3>1 DEF InHand
    <3>2. CASE StartEncoder
      <4>1. enc \in [Encoders -> EncStates] /\ enc[api.e].pc = "none" /\ api.e \in Encoders
        BY <3>2 DEF StartEncoder, IInv, Types, QueueInv, CallsInv
      <4> QED BY <3>2, <4>1 DEF StartEncoder, InHand, EncStates
    <3> QED BY <1>1, <3>1, <3>2
         DEF vars, StopCall, StopVpp, StopVppJoined, StopEncoder, StopEncoderJoined,
         HotPlug, DetachOutput, DetachJoined, UnlinkPrevElement, AttachOutput,
         LinkNextElement
  <2>3. \A s \in Surfaces : Queued(s)' = Queued(s) /\ ToServe(s)' = ToServe(s)
    BY <2>1 DEF Queued, ToServe
  <2> QED BY <2>1, <2>2, <2>3 DEF CountInv, RefsMatchHolders, Loans
<1>2. CASE VppStep \/ VppInitFails
  BY <1>2, VppStepCountInv
<1>3. ASSUME NEW e \in Encoders, EncWork(e) \/ EncInitFails(e) PROVE CountInv'
  BY <1>3, EncStepCountInv
<1> QED
  BY <1>1, <1>2, <1>3
     DEF Next, HotPlugNext, PipelineNext, InitFails, Finished

\* The three invariants hold together.
LEMMA SpecInvariants == Spec => [](IInv /\ QueueInv /\ CountInv)
  BY InitIInv, StepIInv, InitQueueInv, StepQueueInv, InitCountInv, StepCountInv,
     PTL DEF Spec

\* The Dispatcher counts a surface as often as it is queued at an encoder, in
\* an encoder's hand, still to be handed out, or forgotten by an encoder whose
\* codec could not be initialised.
THEOREM CountIsTheLoans == Spec => []RefsMatchHolders
<1>1. CountInv => RefsMatchHolders
  BY DEF CountInv
<1> QED BY SpecInvariants, <1>1, PTL

\* Every variable has its type: no queue holds more than QueueSize buffers, and
\* neither the locks nor the counts of the surfaces fall below zero, so no
\* buffer is returned twice.
THEOREM FanoutTypeOK == Spec => []TypeOK
<1>1. IInv /\ QueueInv /\ CountInv => TypeOK
  <2> SUFFICES ASSUME IInv, QueueInv, CountInv PROVE TypeOK
    OBVIOUS
  <2>1. Locked \in [Surfaces -> Nat]
    <3>1. \A s \in Surfaces : Locked[s] \in Int /\ Locked[s] >= 0
      BY DEF IInv, Types, LocksInv
    <3> QED BY <3>1 DEF IInv, Types
  <2>2. sur_ref_map_ \in [Surfaces -> Nat]
    <3>1. ASSUME NEW s \in Surfaces PROVE sur_ref_map_[s] \in Nat
      BY LoansAreNumbers DEF CountInv, RefsMatchHolders, Loans
    <3> QED BY <3>1 DEF IInv, Types
  <2>3. /\ srcpads \in Seq(Encoders) /\ in_buf_q \in [Encoders -> Seq(Bufs)]
        /\ srcMutex \in {None, VPP}
        /\ vpp \in VppStates /\ enc \in [Encoders -> EncStates]
    BY DEF IInv, Types
  <2>4. /\ \A e \in Encoders : Len(in_buf_q[e]) <= QueueSize
        /\ is_running_ \in [Encoders \cup {VPP} -> BOOLEAN]
        /\ codec_init_ \in [Encoders \cup {VPP} -> BOOLEAN]
        /\ frames \in 0 .. MaxFrames /\ api \in ApiStates
    BY DEF QueueInv, CallsInv, RoomInv
  <2>5. dropped \in [Surfaces -> Nat]
    BY DEF CountInv
  <2> QED BY <2>1, <2>2, <2>3, <2>4, <2>5 DEF TypeOK, VppStates, EncStates, ApiStates
<1> QED BY SpecInvariants, <1>1, PTL

-----------------------------------------------------------------------------
(* MsdkXcoder::Stop leaves nothing behind, when no encoder comes or goes.    *)
(* An encoder ends only once the VPP cannot push to it any more: it saw the  *)
(* end-of-stream buffer, which is the last one in its queue, or it was       *)
(* stopped, which Stop does after it has joined the VPP's thread.            *)

\* The VPP pushes nothing more to e.
Served(e) ==
  \/ vpp.pc = "exited"
  \/ vpp.buf = Eos /\ vpp.pc \in {"spin", "check", "push"} /\ e \notin ToSet(vpp.todo)

\* The end of the stream is in e's queue or in its hand, or e stopped.
Ended(e) ==
  \/ Eos \in ToSet(in_buf_q[e])
  \/ enc[e].pc = "process" /\ enc[e].buf = Eos
  \/ ~is_running_[e]

FixedInv ==
  /\ srcpads = Initial
  /\ api.pc \in {"idle", "joinVpp", "stopEnc", "joinEnc", "stopped"}
  /\ \A s \in Surfaces : dropped[s] = 0
  /\ \A e \in Encoders : enc[e].pc = "none" <=> e \notin ToSet(Initial)
  /\ IsInjective(vpp.todo)

EndInv ==
  \A e \in ToSet(Initial) :
    /\ Ended(e) => Served(e)
    /\ enc[e].pc \in {"drain", "exited"} => ~is_running_[e]
    /\ enc[e].pc = "exited" => in_buf_q[e] = << >>

\* Stop works through the encoders in the order of Initial.
OrderInv ==
  /\ api.pc \in {"stopEnc", "joinEnc", "stopped"} => vpp.pc = "exited"
  /\ api.pc \in {"stopEnc", "joinEnc"} =>
       \A i, j \in DOMAIN Initial :
         Initial[i] = api.e /\ j < i => enc[Initial[j]].pc = "exited"
  /\ api.pc = "stopped" => \A e \in ToSet(Initial) : enc[e].pc = "exited"

Invs == IInv /\ QueueInv /\ CountInv
StopInv == FixedInv /\ EndInv /\ OrderInv

\* The encoders there are at the start are each named once.
LEMMA InitialIs ==
  /\ Initial \in Seq(Encoders) /\ Len(Initial) \in Nat \ {0}
  /\ DOMAIN Initial = 1 .. Len(Initial)
  /\ \A i \in 1 .. Len(Initial) : Initial[i] \in Encoders /\ Initial[i] \in ToSet(Initial)
  /\ \A i, j \in 1 .. Len(Initial) : Initial[i] = Initial[j] => i = j
  /\ ToSet(Initial) \subseteq Encoders
  /\ \A e \in ToSet(Initial) : \E i \in 1 .. Len(Initial) : e = Initial[i]
  /\ VPP \notin Encoders /\ None \notin Encoders
  BY FanoutAssumption, EmptySeq DEF IsInjective, ToSet, VPP, None

\* The elements of a sequence behind its first one, and with one more.
LEMMA ToSetOfAppend ==
  ASSUME NEW S, NEW s \in Seq(S), NEW x \in S
  PROVE  ToSet(Append(s, x)) = ToSet(s) \cup {x}
<1>1. /\ Len(Append(s, x)) = Len(s) + 1 /\ Append(s, x) \in Seq(S)
      /\ \A i \in 1 .. Len(s) : Append(s, x)[i] = s[i]
      /\ Append(s, x)[Len(s) + 1] = x /\ Len(s) \in Nat
  BY AppendProperties
<1>2. DOMAIN Append(s, x) = 1 .. Len(s) + 1 /\ DOMAIN s = 1 .. Len(s)
  BY <1>1, LenProperties
<1>3. 1 .. Len(s) + 1 = (1 .. Len(s)) \cup {Len(s) + 1}
  BY <1>1
<1> QED BY <1>1, <1>2, <1>3 DEF ToSet

\* A sequence without repetition has its head only once.
LEMMA TailOfInjective ==
  ASSUME NEW S, NEW s \in Seq(S), s # << >>, IsInjective(s)
  PROVE  IsInjective(Tail(s)) /\ Head(s) \notin ToSet(Tail(s)) /\ Head(s) \in ToSet(s)
<1>1. /\ Tail(s) \in Seq(S) /\ Len(Tail(s)) = Len(s) - 1 /\ Len(s) \in Nat \ {0}
      /\ \A i \in 1 .. Len(Tail(s)) : Tail(s)[i] = s[i + 1]
      /\ Head(s) = s[1]
  BY HeadTailProperties, EmptySeq
<1>2. DOMAIN Tail(s) = 1 .. Len(s) - 1 /\ DOMAIN s = 1 .. Len(s)
  BY <1>1, LenProperties
<1>3. \A i \in 1 .. Len(s) - 1 : i + 1 \in 1 .. Len(s) /\ i + 1 # 1 /\ 1 \in 1 .. Len(s)
  BY <1>1
<1>4. IsInjective(Tail(s))
  <2> SUFFICES ASSUME NEW i \in 1 .. Len(s) - 1, NEW j \in 1 .. Len(s) - 1,
                      Tail(s)[i] = Tail(s)[j]
               PROVE  i = j
    BY <1>2 DEF IsInjective
  <2>1. s[i + 1] = s[j + 1]
    BY <1>1
  <2>2. i + 1 = j + 1
    BY <1>2, <1>3, <2>1 DEF IsInjective
  <2> QED BY <1>1, <2>2
<1>5. Head(s) \notin ToSet(Tail(s))
  <2> SUFFICES ASSUME NEW i \in 1 .. Len(s) - 1, s[1] = Tail(s)[i] PROVE FALSE
    BY <1>1, <1>2 DEF ToSet
  <2>1. s[1] = s[i + 1]
    BY <1>1
  <2> QED BY <1>2, <1>3, <2>1 DEF IsInjective
<1>6. Head(s) \in ToSet(s)
  <2>1. 1 \in DOMAIN s
    BY <1>1, <1>2
  <2> QED BY <1>1, <2>1 DEF ToSet
<1> QED BY <1>4, <1>5, <1>6

\* Nobody has been stopped at the start.
LEMMA InitStopInv == Init => StopInv
<1> SUFFICES ASSUME Init PROVE StopInv
  OBVIOUS
<1> USE InitialIs DEF Init
<1>1. FixedInv
  BY DEF FixedInv, IsInjective
<1>2. EndInv
  <2>1. Eos \notin ToSet(<< >>)
    BY DEF ToSet
  <2>2. \A e \in ToSet(Initial) : ~Ended(e) /\ enc[e].pc = "loop"
    BY <2>1 DEF Ended
  <2> QED BY <2>2 DEF EndInv
<1>3. OrderInv
  BY DEF OrderInv
<1> QED BY <1>1, <1>2, <1>3 DEF StopInv

\* The VPP's thread keeps what the stages of Stop have waited for,
LEMMA VppStepStopInv ==
  ASSUME Invs, StopInv, VppStep PROVE StopInv'
<1> USE DEF dispatcher
<1>1. /\ enc' = enc /\ dropped' = dropped /\ srcpads' = srcpads /\ api' = api
      /\ vpp \in VppStates /\ in_buf_q \in [Encoders -> Seq(Bufs)]
  BY DEF VppStep, VppTop, VppAllEos, VppFindSurface, VppRender, VppExit,
         DispatchBegin, PadSpin, PadCheck, PadPush, DispatchEnd,
         Invs, IInv, Types
<1>2. \A e \in Encoders : is_running_'[e] = is_running_[e]
  BY InitialIs
     DEF VppStep, VppTop, VppAllEos, VppFindSurface, VppRender, VppExit,
         DispatchBegin, PadSpin, PadCheck, PadPush, DispatchEnd,
         Invs, QueueInv, CallsInv
<1>3. vpp.todo # << >> =>
        /\ Head(vpp.todo) \in Encoders /\ vpp.todo \in Seq(Encoders)
        /\ IsInjective(Tail(vpp.todo)) /\ Head(vpp.todo) \notin ToSet(Tail(vpp.todo))
        /\ Head(vpp.todo) \in ToSet(vpp.todo) /\ ToSet(Tail(vpp.todo)) \subseteq ToSet(vpp.todo)
        /\ ToSet(vpp.todo) \subseteq ToSet(Initial)
  <2>1. vpp.todo \in Seq(Encoders) /\ IsInjective(vpp.todo)
    BY <1>1 DEF VppStates, StopInv, FixedInv
  <2>2. ToSet(vpp.todo) \subseteq ToSet(Initial)
    BY DEF Invs, IInv, PadsInv, PadsInUseAreLinked, StopInv, FixedInv
  <2> QED BY <2>1, <2>2, HeadTailProperties, TailOfInjective, ToSetOfTail
<1>4. IsInjective(vpp'.todo)
  <2>1. \/ vpp'.todo \in {vpp.todo, srcpads}
        \/ vpp.todo # << >> /\ vpp'.todo = Tail(vpp.todo)
    <3>1. CASE DispatchBegin
      BY <1>1, <3>1 DEF DispatchBegin, VppStates
    <3>2. CASE PadCheck \/ PadPush
      BY <1>1, <3>2 DEF PadCheck, PadPush, VppStates, Invs, IInv, PadsInv
    <3>3. CASE ~DispatchBegin /\ ~PadCheck /\ ~PadPush
      BY <1>1, <3>3 DEF VppStep, VppTop, VppAllEos, VppFindSurface, VppRender, VppExit,
                        PadSpin, DispatchEnd, VppStates
    <3> QED BY <3>1, <3>2, <3>3
  <2> QED BY <1>3, <2>1, FanoutAssumption DEF StopInv, FixedInv
<1>5. FixedInv'
  BY <1>1, <1>4 DEF StopInv, FixedInv
<1>6. vpp.pc # "exited"
  BY DEF VppStep, VppTop, VppAllEos, VppFindSurface, VppRender, VppExit,
         DispatchBegin, PadSpin, PadCheck, PadPush, DispatchEnd
<1>7. OrderInv'
  BY <1>1, <1>6 DEF StopInv, OrderInv
<1>8. ASSUME NEW e \in Encoders, Served(e) PROVE Served(e)'
  <2>1. vpp.buf = Eos /\ vpp.pc \in {"spin", "check", "push"} /\ e \notin ToSet(vpp.todo)
    BY <1>6, <1>8 DEF Served
  <2>2. CASE PadSpin \/ PadCheck \/ PadPush
    <3>1. /\ vpp'.buf = Eos /\ vpp'.pc \in {"spin", "check", "push"}
          /\ vpp'.todo = vpp.todo \/ (vpp.todo # << >> /\ vpp'.todo = Tail(vpp.todo))
      BY <1>1, <2>1, <2>2 DEF PadSpin, PadCheck, PadPush, VppStates, Invs, IInv, PadsInv
    <3> QED BY <1>3, <2>1, <3>1 DEF Served
  <2>3. CASE DispatchEnd
    BY <1>1, <2>1, <2>3 DEF DispatchEnd, VppStates, Served
  <2> QED
    BY <2>1, <2>2, <2>3
       DEF VppStep, VppTop, VppAllEos, VppFindSurface, VppRender, VppExit, DispatchBegin
<1>9. CASE ~PadPush
  <2>1. in_buf_q' = in_buf_q
    BY <1>9 DEF VppStep, VppTop, VppAllEos, VppFindSurface, VppRender, VppExit,
                DispatchBegin, PadSpin, PadCheck, DispatchEnd
  <2>2. \A e \in Encoders : Ended(e)' <=> Ended(e)
    BY <1>1, <1>2, <2>1 DEF Ended
  <2>3. EndInv'
    BY <1>1, <1>2, <1>8, <2>1, <2>2, InitialIs DEF StopInv, EndInv
  <2> QED BY <1>5, <1>7, <2>3 DEF StopInv
<1>10. CASE PadPush
  <2> DEFINE h == Head(vpp.todo)
  <2>1. /\ vpp.pc = "push" /\ vpp.todo # << >> /\ h \in Encoders /\ vpp.buf \in Bufs
        /\ vpp'.pc = "spin" /\ vpp'.buf = vpp.buf /\ vpp'.todo = Tail(vpp.todo)
        /\ in_buf_q' = [in_buf_q EXCEPT ![h] = Append(@, vpp.buf)]
    BY <1>1, <1>3, <1>10 DEF PadPush, VppStates, Invs, IInv, PadsInv
  <2>2. ToSet(in_buf_q'[h]) = ToSet(in_buf_q[h]) \cup {vpp.buf}
    BY <1>1, <2>1, ToSetOfAppend
  <2>3. ~Served(h)
    BY <1>3, <1>6, <2>1 DEF Served
  <2>4. h \in ToSet(Initial)
    BY <1>3, <2>1
  <2>5. ASSUME NEW e \in ToSet(Initial)
        PROVE  /\ Ended(e)' => Served(e)'
               /\ enc'[e].pc \in {"drain", "exited"} => ~is_running_'[e]
               /\ enc'[e].pc = "exited" => in_buf_q'[e] = << >>
    <3>1. e \in Encoders
      BY InitialIs
    <3>2. /\ Ended(e) => Served(e)
          /\ enc[e].pc \in {"drain", "exited"} => ~is_running_[e]
          /\ enc[e].pc = "exited" => in_buf_q[e] = << >>
      BY DEF StopInv, EndInv
    <3>3. CASE e # h
      <4>1. in_buf_q'[e] = in_buf_q[e]
        BY <1>1, <2>1, <3>1, <3>3
      <4> QED BY <1>1, <1>2, <1>8, <3>1, <3>2, <4>1 DEF Ended
    <3>4. CASE e = h
      <4>1. ~Ended(e)
        BY <2>3, <3>2, <3>4
      <4>2. enc[e].pc \notin {"drain", "exited"}
        BY <3>2, <4>1 DEF Ended
      <4>3. Ended(e)' => vpp.buf = Eos
        BY <1>1, <1>2, <2>2, <3>1, <3>4, <4>1 DEF Ended
      <4>4. vpp.buf = Eos => Served(e)'
        BY <1>3, <2>1, <3>4 DEF Served
      <4> QED BY <1>1, <4>2, <4>3, <4>4
    <3> QED BY <3>3, <3>4
  <2>6. EndInv'
    BY <2>5 DEF EndInv
  <2> QED BY <1>5, <1>7, <2>6 DEF StopInv
<1> QED BY <1>9, <1>10

\* so do the encoders' threads,
LEMMA EncStepStopInv ==
  ASSUME Invs, StopInv, NEW e \in Encoders, EncWork(e) PROVE StopInv'
<1> USE DEF dispatcher
<1>1. /\ vpp' = vpp /\ dropped' = dropped /\ srcpads' = srcpads /\ api' = api
      /\ enc \in [Encoders -> EncStates] /\ in_buf_q \in [Encoders -> Seq(Bufs)]
      /\ is_running_ \in [Encoders \cup {VPP} -> BOOLEAN]
      /\ enc[e].pc \notin {"none", "exited"}
  BY DEF EncWork, EncGet, EncEncode, EncEos, EncReturn, EncDrain,
         Invs, IInv, Types, QueueInv, CallsInv
<1>2. /\ \A d \in Encoders \ {e} : enc'[d] = enc[d] /\ in_buf_q'[d] = in_buf_q[d]
                                /\ is_running_'[d] = is_running_[d]
      /\ is_running_'[e] => is_running_[e]
  BY <1>1 DEF EncWork, EncGet, EncEncode, EncEos, EncReturn, EncDrain
<1>3. enc'[e].pc # "none"
  BY <1>1 DEF EncWork, EncGet, EncEncode, EncEos, EncReturn, EncDrain, EncStates
<1>4. FixedInv'
  BY <1>1, <1>2, <1>3 DEF StopInv, FixedInv
<1>5. OrderInv'
  <2>1. \A d \in Encoders : enc[d].pc = "exited" => enc'[d].pc = "exited"
    BY <1>1, <1>2
  <2> QED BY <1>1, <2>1, InitialIs DEF StopInv, OrderInv
<1>6. in_buf_q[e] # << >> =>
        /\ ToSet(Tail(in_buf_q[e])) \subseteq ToSet(in_buf_q[e])
        /\ Head(in_buf_q[e]) \in ToSet(in_buf_q[e])
  <2> SUFFICES ASSUME in_buf_q[e] # << >>
               PROVE  /\ ToSet(Tail(in_buf_q[e])) \subseteq ToSet(in_buf_q[e])
                      /\ Head(in_buf_q[e]) \in ToSet(in_buf_q[e])
    OBVIOUS
  <2>1. in_buf_q[e] \in Seq(Bufs) /\ Len(in_buf_q[e]) \in Nat \ {0}
    BY <1>1, EmptySeq
  <2>2. 1 \in DOMAIN in_buf_q[e] /\ Head(in_buf_q[e]) = in_buf_q[e][1]
    BY <2>1, LenProperties
  <2> QED BY <2>1, <2>2, ToSetOfTail DEF ToSet
<1>7. Ended(e)' => Ended(e)
  <2>1. CASE EncGet(e)
    <3>1. CASE ~is_running_[e]
      BY <3>1 DEF Ended
    <3>2. CASE is_running_[e]
      <4>1. /\ in_buf_q[e] # << >> /\ in_buf_q'[e] = Tail(in_buf_q[e])
            /\ enc'[e].buf = Head(in_buf_q[e]) /\ is_running_' = is_running_
        BY <1>1, <2>1, <3>2 DEF EncGet
      <4> QED BY <1>6, <4>1 DEF Ended
    <3> QED BY <3>1, <3>2
  <2>2. CASE EncEncode(e) \/ EncEos(e) \/ EncReturn(e)
    BY <1>1, <2>2 DEF EncEncode, EncEos, EncReturn, Ended, EncStates
  <2>3. CASE EncDrain(e)
    BY <1>1, <1>6, <2>3 DEF EncDrain, Ended, EncStates
  <2> QED BY <2>1, <2>2, <2>3 DEF EncWork
<1>8. e \in ToSet(Initial) =>
        /\ enc'[e].pc \in {"drain", "exited"} => ~is_running_'[e]
        /\ enc'[e].pc = "exited" => in_buf_q'[e] = << >>
  <2>1. e \in ToSet(Initial) => (enc[e].pc \in {"drain", "exited"} => ~is_running_[e])
    BY DEF StopInv, EndInv
  <2>2. CASE EncGet(e)
    <3>1. CASE ~is_running_[e]
      BY <1>1, <2>2, <3>1 DEF EncGet, EncStates
    <3>2. CASE is_running_[e]
      BY <1>1, <2>2, <3>2 DEF EncGet
    <3> QED BY <3>1, <3>2
  <2>3. CASE EncEncode(e) \/ EncEos(e) \/ EncReturn(e)
    BY <1>1, <2>3 DEF EncEncode, EncEos, EncReturn, EncStates
  <2>4. CASE EncDrain(e)
    BY <1>1, <1>2, <2>1, <2>4 DEF EncDrain
  <2> QED BY <2>2, <2>3, <2>4 DEF EncWork
<1>9. \A d \in Encoders : Served(d)' <=> Served(d)
  BY <1>1 DEF Served
<1>10. EndInv'
  <2> SUFFICES ASSUME NEW d \in ToSet(Initial)
               PROVE  /\ Ended(d)' => Served(d)'
                      /\ enc'[d].pc \in {"drain", "exited"} => ~is_running_'[d]
                      /\ enc'[d].pc = "exited" => in_buf_q'[d] = << >>
    BY DEF EndInv
  <2>1. d \in Encoders /\ (Ended(d) => Served(d))
    BY InitialIs DEF StopInv, EndInv
  <2>2. CASE d = e
    BY <1>7, <1>8, <1>9, <2>1, <2>2
  <2>3. CASE d # e
    BY <1>2, <1>9, <2>1, <2>3 DEF StopInv, EndInv, Ended
  <2> QED BY <2>2, <2>3
<1> QED BY <1>4, <1>5, <1>10 DEF StopInv

\* and Stop itself goes from one stage to the next when that is so.
LEMMA StopCallStopInv == ASSUME Invs, StopInv, StopCall PROVE StopInv'
<1> USE DEF ApiGoto, ApiOnly
<1>1. /\ vpp' = vpp /\ dropped' = dropped /\ srcpads' = srcpads /\ enc' = enc
      /\ in_buf_q' = in_buf_q
      /\ is_running_ \in [Encoders \cup {VPP} -> BOOLEAN]
      /\ srcpads = Initial
  BY DEF StopCall, StopVpp, StopVppJoined, StopEncoder, StopEncoderJoined,
         Invs, QueueInv, CallsInv, StopInv, FixedInv
<1>2. FixedInv'
  BY <1>1 DEF StopCall, StopVpp, StopVppJoined, StopEncoder, StopEncoderJoined,
         StopInv, FixedInv
<1>3. EndInv'
  <2>1. \A e \in Encoders : Served(e)' <=> Served(e)
    BY <1>1 DEF Served
  <2>2. CASE \A e \in Encoders : is_running_'[e] = is_running_[e]
    <3>1. \A e \in Encoders : Ended(e)' <=> Ended(e)
      BY <1>1, <2>2 DEF Ended
    <3> QED BY <1>1, <2>1, <2>2, <3>1, InitialIs DEF StopInv, EndInv
  <2>3. CASE StopEncoder
    <3>1. \A e \in Encoders : Served(e)
      BY <2>3 DEF StopEncoder, StopInv, OrderInv, Served
    <3>2. \A e \in Encoders : is_running_'[e] => is_running_[e]
      BY <1>1, <2>3 DEF StopEncoder
    <3> QED BY <1>1, <2>1, <3>1, <3>2, InitialIs DEF StopInv, EndInv
  <2> QED BY <1>1, <2>2, <2>3, InitialIs
         DEF StopCall, StopVpp, StopVppJoined, StopEncoderJoined
<1>4. OrderInv'
  <2>1. CASE StopVpp
    BY <2>1 DEF StopVpp, OrderInv
  <2>2. CASE StopVppJoined
    <3>1. api'.pc = "stopEnc" /\ api'.e = Initial[1] /\ vpp'.pc = "exited"
      BY <1>1, <2>2 DEF StopVppJoined
    <3>2. ASSUME NEW i \in DOMAIN Initial, NEW j \in DOMAIN Initial,
                 Initial[i] = api'.e, j < i
          PROVE  FALSE
      <4>1. i = 1
        BY <3>1, <3>2, InitialIs
      <4> QED BY <3>2, <4>1, InitialIs
    <3> QED BY <3>1, <3>2 DEF OrderInv
  <2>3. CASE StopEncoder
    BY <1>1, <2>3 DEF StopEncoder, StopInv, OrderInv
  <2>4. CASE StopEncoderJoined
    <3>1. /\ api.pc = "joinEnc" /\ enc[api.e].pc = "exited" /\ vpp.pc = "exited"
          /\ api.e \in ToSet(Initial)
          /\ \A i, j \in 1 .. Len(Initial) :
               Initial[i] = api.e /\ j < i => enc[Initial[j]].pc = "exited"
      BY <1>1, <2>4, InitialIs
         DEF StopEncoderJoined, StopInv, OrderInv, Invs, QueueInv, CallsInv
    <3>2. PICK i \in 1 .. Len(Initial) : Initial[i] = api.e
      BY <3>1, InitialIs
    <3>3. i = CHOOSE j \in DOMAIN srcpads : srcpads[j] = api.e
      BY <1>1, <3>2, InitialIs
    <3>4. NextEncoder(api.e) = IF i = Len(Initial) THEN None ELSE Initial[i + 1]
      BY <1>1, <3>3 DEF NextEncoder
    <3>5. ASSUME NEW j \in 1 .. Len(Initial), j <= i
          PROVE  enc[Initial[j]].pc = "exited"
      <4>1. j = i \/ j < i
        BY <3>5
      <4> QED BY <3>1, <3>2, <4>1
    <3>6. CASE i = Len(Initial)
      <4>1. \A e \in ToSet(Initial) : enc[e].pc = "exited"
        <5>1. \A j \in 1 .. Len(Initial) : j <= i
          BY <3>6
        <5> QED BY <3>5, <5>1, InitialIs
      <4>2. api'.pc = "stopped"
        BY <2>4, <3>4, <3>6 DEF StopEncoderJoined
      <4> QED BY <1>1, <3>1, <4>1, <4>2 DEF OrderInv
    <3>7. CASE i # Len(Initial)
      <4>1. i + 1 \in 1 .. Len(Initial)
        <5>1. Len(Initial) \in Nat
          BY InitialIs
        <5> QED BY ONLY <3>7, <5>1, i \in 1 .. Len(Initial)
      <4>2. NextEncoder(api.e) = Initial[i + 1] /\ Initial[i + 1] # None
        BY <3>4, <3>7, <4>1, InitialIs
      <4>3. api'.pc = "stopEnc" /\ api'.e = Initial[i + 1]
        BY <2>4, <4>2 DEF StopEncoderJoined
      <4>4. ASSUME NEW k \in 1 .. Len(Initial), NEW j \in 1 .. Len(Initial),
                   Initial[k] = api'.e, j < k
            PROVE  enc[Initial[j]].pc = "exited"
        <5>1. k = i + 1
          BY <4>1, <4>3, <4>4, InitialIs
        <5>2. j <= i
          BY <4>4, <5>1
        <5> QED BY <3>5, <5>2
      <4> QED BY <1>1, <3>1, <4>3, <4>4, InitialIs DEF OrderInv
    <3> QED BY <3>6, <3>7
  <2> QED BY <2>1, <2>2, <2>3, <2>4 DEF StopCall
<1> QED BY <1>2, <1>3, <1>4 DEF StopInv

\* Every step keeps what the stages of Stop have waited for.
LEMMA StepStopInv == Invs /\ StopInv /\ [PipelineNext]_vars => StopInv'
<1> SUFFICES ASSUME Invs, StopInv, [PipelineNext]_vars PROVE StopInv'
  OBVIOUS
<1>1. CASE UNCHANGED vars
  BY <1>1 DEF vars, StopInv, FixedInv, EndInv, OrderInv, Ended, Served
<1> QED
  BY <1>1, VppStepStopInv, EncStepStopInv, StopCallStopInv
     DEF PipelineNext, Finished

\* When MsdkXcoder::Stop has joined the last thread, every buffer has come back:
\* nothing is queued and the Dispatcher has no open loan.
THEOREM StopReturnsEverything == PipelineSpec => []AllReturnedAfterStop
<1>1. Invs /\ StopInv => AllReturnedAfterStop
  <2> SUFFICES ASSUME Invs, StopInv, api.pc = "stopped"
               PROVE  /\ \A e \in Encoders : in_buf_q[e] = << >>
                      /\ \A s \in Surfaces : sur_ref_map_[s] = 0
    BY DEF AllReturnedAfterStop
  <2>1. \A e \in Encoders : /\ in_buf_q[e] = << >>
                            /\ enc[e].pc \in {"none", "exited"}
    BY DEF Invs, QueueInv, StartInv, StopInv, FixedInv, EndInv, OrderInv
  <2>2. vpp.todo = << >>
    BY DEF StopInv, OrderInv, Invs, IInv, PadsInv
  <2>3. ASSUME NEW s \in Surfaces PROVE sur_ref_map_[s] = 0
    <3>1. Queued(s) = {} /\ InHand(s) = {}
      BY <2>1 DEF Queued, InHand
    <3>2. ToServe(s) = 0 /\ dropped[s] = 0
      BY <2>2 DEF ToServe, StopInv, FixedInv
    <3>3. Cardinality({}) = 0
      BY FS_EmptySet
    <3> QED BY <3>1, <3>2, <3>3 DEF Invs, CountInv, RefsMatchHolders, Loans
  <2> QED BY <2>1, <2>3
<1>2. [PipelineNext]_vars => [Next]_vars
  BY DEF Next, HotPlugNext
<1>3. Invs /\ [Next]_vars => Invs'
  BY StepIInv, StepQueueInv, StepCountInv DEF Invs
<1>4. Init => Invs /\ StopInv
  BY InitIInv, InitQueueInv, InitCountInv, InitStopInv DEF Invs
<1> QED BY <1>1, <1>2, <1>3, <1>4, StepStopInv, PTL DEF PipelineSpec
=============================================================================
