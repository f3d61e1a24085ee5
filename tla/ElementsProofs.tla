--------------------------- MODULE ElementsProofs ---------------------------
(***************************************************************************)
(* No surface gets lost between VPPElement and its inputs, nor between a   *)
(* decoder and the element behind it, for any number of surfaces, inputs   *)
(* and calls and any film, and the decoder sends each picture once and in  *)
(* order.  The invariants are of the components; as only one of them moves *)
(* in a step of MCElements, they hold there too.                           *)
(***************************************************************************)
EXTENDS MCElements, XcoderGraphProofs, FunctionTheorems

-----------------------------------------------------------------------------
(* VPPElement: types, then where the surfaces are, then what its thread has *)
(* found out.                                                               *)

Buffers == {"frame", "reset", "eos"}
PadStates == [ready : {"none", "frame", "eos"}, org : BOOLEAN, reset : BOOLEAN]
VppStates == [is_running_ : BOOLEAN, started : BOOLEAN, codec_init_ : BOOLEAN,
              all_eos : BOOLEAN]
Setups == [number : Nat, flag : BOOLEAN, inputs : SUBSET Inputs]

VinTypes ==
  /\ sinkpads_ \in Seq(Inputs) /\ IsInjective(sinkpads_)
  /\ vpp_comp_map_ \in [Inputs -> PadStates]
  /\ combo_type_ \in {"BLOCKS", "CUSTOM"}
  /\ queue \in [Inputs -> Seq(Buffers)] /\ \A i \in Inputs : Len(queue[i]) <= QLen
  /\ spare \in [Inputs -> Nat]
  /\ feed \in [Inputs -> {"off", "on", "stopping", "ended"}]
  /\ vpc \in {"top", "first", "collect", "setup", "clear", "render", "exit", "drain", "done",
              "failed"}
  /\ vpp \in VppStates /\ setup \in Setups
  /\ stream_cnt_ \in Nat /\ eos_cnt \in Nat /\ fetched \in BOOLEAN
  /\ detaching \notin {"none", "all"} => detaching \in Linked

\* The surfaces of an input that somebody has.
Placed(i) ==
  spare[i] + FramesIn(queue[i]) + (IF vpp_comp_map_[i].ready = "frame" THEN 1 ELSE 0)

VppEnding == vpc \in {"exit", "drain", "done"}

\* A surface is lost only by a VPP that counted no video, which then ends.
VinSurfaces ==
  /\ \A i \in Inputs \ Linked :
       queue[i] = << >> /\ vpp_comp_map_[i] = NewPad /\ spare[i] <= Surfaces
  /\ \A i \in Linked : Placed(i) <= Surfaces
  /\ CountedVideo \/ ~VppEnding => \A i \in Linked : Placed(i) = Surfaces

\* The end of a stream is counted only while there is one to come; frames of
\* inputs that were not counted ask for a new set-up.
VinCounts ==
  /\ vpc = "first" => ~vpp.started
  /\ vpc \in {"collect", "setup"} => vpp.started
  /\ vpc \in {"clear", "render"} => vpp.codec_init_
  /\ vpp.codec_init_ => vpp.started
  /\ vpp.started => vpp.codec_init_ \/ vpc \in {"setup", "failed"} \/ VppEnding
  /\ vpp.codec_init_ /\ ~VppEnding =>
       /\ vpc # "failed"
       /\ IsFiniteSet(setup.inputs) /\ setup.inputs # {}
       /\ stream_cnt_ = Cardinality(setup.inputs \cap VideoIn)
       /\ stream_cnt_ = 0 \/ eos_cnt < stream_cnt_
  /\ vpp.codec_init_ =>
       \A i \in Linked : vpp_comp_map_[i].org => i \in setup.inputs \/ setup.flag
  /\ \A i \in Linked : vpp_comp_map_[i].ready = "frame" => vpp_comp_map_[i].org
  /\ vpc = "clear" => Linked \subseteq setup.inputs
  /\ FramesAreConfigured

VInv == VinTypes /\ VinSurfaces /\ VinCounts

-----------------------------------------------------------------------------
(* Queues of frames and marks. *)

One(condition) == IF condition THEN 1 ELSE 0

LEMMA FramesAreFinite ==
  ASSUME NEW q \in Seq(Buffers)
  PROVE  /\ IsFiniteSet({k \in DOMAIN q : q[k] = "frame"})
         /\ FramesIn(q) \in Nat
<1>1. DOMAIN q = 1 .. Len(q) /\ Len(q) \in Nat
  BY LenProperties
<1>2. IsFiniteSet(1 .. Len(q))
  BY <1>1, FS_Interval
<1> QED BY <1>1, <1>2, FS_Subset, FS_CardinalityType DEF FramesIn

LEMMA NoFrames == FramesIn(<< >>) = 0
<1>1. {k \in DOMAIN << >> : << >>[k] = "frame"} = {}
  OBVIOUS
<1> QED BY <1>1, FS_EmptySet DEF FramesIn

LEMMA FramePushed ==
  ASSUME NEW q \in Seq(Buffers), NEW b \in Buffers
  PROVE  /\ Append(q, b) \in Seq(Buffers) /\ Len(Append(q, b)) = Len(q) + 1
         /\ FramesIn(Append(q, b)) = FramesIn(q) + One(b = "frame")
<1> DEFINE F == {k \in DOMAIN q : q[k] = "frame"}
           n == Len(q)
<1>1. /\ Append(q, b) \in Seq(Buffers) /\ Len(Append(q, b)) = n + 1 /\ n \in Nat
      /\ \A k \in 1 .. n : Append(q, b)[k] = q[k]
      /\ Append(q, b)[n + 1] = b
  BY AppendProperties
<1>2. DOMAIN Append(q, b) = 1 .. n + 1 /\ DOMAIN q = 1 .. n
  BY <1>1, LenProperties
<1>3. 1 .. n + 1 = (1 .. n) \cup {n + 1} /\ n + 1 \notin 1 .. n
  BY <1>1
<1>4. {k \in DOMAIN Append(q, b) : Append(q, b)[k] = "frame"}
        = IF b = "frame" THEN F \cup {n + 1} ELSE F
  BY <1>1, <1>2, <1>3
<1>5. n + 1 \notin F
  BY <1>2, <1>3
<1>6. IsFiniteSet(F) /\ Cardinality(F) \in Nat
  BY FramesAreFinite, FS_CardinalityType
<1>7. FramesIn(Append(q, b)) = IF b = "frame" THEN Cardinality(F) + 1 ELSE Cardinality(F)
  <2> HIDE DEF F, n
  <2> QED BY <1>4, <1>5, <1>6, FS_AddElement DEF FramesIn
<1>8. FramesIn(q) = Cardinality(F)
  BY DEF FramesIn
<1> QED BY <1>1, <1>6, <1>7, <1>8 DEF One

LEMMA FrameTaken ==
  ASSUME NEW q \in Seq(Buffers), q # << >>
  PROVE  /\ Head(q) \in Buffers /\ Tail(q) \in Seq(Buffers)
         /\ Len(Tail(q)) = Len(q) - 1 /\ Len(q) \in Nat \ {0}
         /\ FramesIn(q) = FramesIn(Tail(q)) + One(Head(q) = "frame")
<1> DEFINE n == Len(q)
           F == {k \in DOMAIN q : q[k] = "frame"}
           G == {k \in DOMAIN Tail(q) : Tail(q)[k] = "frame"}
           up == [k \in G |-> k + 1]
<1>1. /\ n \in Nat \ {0} /\ Head(q) \in Buffers /\ Head(q) = q[1]
      /\ Tail(q) \in Seq(Buffers) /\ Len(Tail(q)) = n - 1
      /\ \A k \in 1 .. n - 1 : Tail(q)[k] = q[k + 1]
  BY HeadTailProperties, EmptySeq
<1>2. DOMAIN Tail(q) = 1 .. n - 1 /\ DOMAIN q = 1 .. n
  BY <1>1, LenProperties
<1>3. up \in Bijection(G, F \ {1})
  <2>1. up \in [G -> F \ {1}]
    BY <1>1, <1>2
  <2>2. \A j, k \in G : up[j] = up[k] => j = k
    BY <1>1, <1>2
  <2>3. ASSUME NEW k \in F \ {1} PROVE \E j \in G : up[j] = k
    <3>1. k - 1 \in 1 .. n - 1 /\ (k - 1) + 1 = k
      BY <1>1, <1>2, <2>3
    <3>2. Tail(q)[k - 1] = q[k]
      BY <1>1, <3>1
    <3>3. k - 1 \in G
      BY <1>2, <2>3, <3>1, <3>2
    <3> QED BY <3>1, <3>3
  <2> HIDE DEF G, F, up
  <2> QED BY <2>1, <2>2, <2>3, Fun_IsBij
<1>4. IsFiniteSet(F) /\ IsFiniteSet(G)
  BY <1>1, FramesAreFinite
<1>5. Cardinality(G) = Cardinality(F \ {1})
  <2>1. ExistsBijection(G, F \ {1})
    BY <1>3 DEF ExistsBijection
  <2> HIDE DEF G, F
  <2> QED BY <1>4, <2>1, FS_Bijection
<1>6. 1 \in F <=> Head(q) = "frame"
  BY <1>1, <1>2
<1>7. Cardinality(F) \in Nat /\ Cardinality(G) \in Nat
  BY <1>4, FS_CardinalityType
<1>8. Cardinality(F) = Cardinality(G) + One(Head(q) = "frame")
  <2>1. Cardinality(F \ {1}) = IF 1 \in F THEN Cardinality(F) - 1 ELSE Cardinality(F)
    <3> HIDE DEF F
    <3> QED BY <1>4, FS_RemoveElement
  <2> HIDE DEF G, F
  <2> QED BY <1>5, <1>6, <1>7, <2>1 DEF One
<1> QED BY <1>1, <1>8 DEF FramesIn

-----------------------------------------------------------------------------
(* What each step of VPPElement does to them.                                *)

LEMMA InitVInv == VinInit => VInv
<1> SUFFICES ASSUME VinInit PROVE VInv
  OBVIOUS
<1> USE DEF VinInit
<1>1. FirstIn \in Inputs /\ Surfaces \in Nat /\ QLen \in Nat
  BY VinAssumption DEF Inputs
<1>2. /\ <<FirstIn>> \in Seq(Inputs) /\ Len(<<FirstIn>>) = 1
      /\ IsInjective(<<FirstIn>>) /\ ToSet(<<FirstIn>>) = {FirstIn}
  <2>1. /\ <<FirstIn>> \in Seq(Inputs) /\ Len(<<FirstIn>>) = 1
        /\ DOMAIN <<FirstIn>> = {1} /\ <<FirstIn>>[1] = FirstIn
    BY <1>1
  <2> QED BY <2>1 DEF IsInjective, ToSet
<1>3. NewPad \in PadStates /\ NewPad.ready = "none" /\ ~NewPad.org
  BY DEF NewPad, PadStates
<1>4. VinTypes
  <2>1. << >> \in Seq(Buffers) /\ Len(<< >>) = 0
    BY EmptySeq
  <2>2. queue \in [Inputs -> Seq(Buffers)] /\ \A i \in Inputs : Len(queue[i]) <= QLen
    BY <1>1, <2>1
  <2>3. vpp \in VppStates /\ setup \in Setups
    BY DEF VppStates, Setups
  <2>4. feed \in [Inputs -> {"off", "on", "stopping", "ended"}] /\ spare \in [Inputs -> Nat]
    BY <1>1
  <2>5. sinkpads_ \in Seq(Inputs) /\ IsInjective(sinkpads_)
    BY <1>2
  <2>6. vpp_comp_map_ \in [Inputs -> PadStates]
    BY <1>3
  <2> QED BY <2>2, <2>3, <2>4, <2>5, <2>6 DEF VinTypes
<1>5. Linked = {FirstIn}
  BY <1>2 DEF Linked
<1>6. \A i \in Inputs : Placed(i) = Surfaces
  BY <1>1, <1>3, NoFrames DEF Placed
<1>7. VinSurfaces
  BY <1>1, <1>3, <1>5, <1>6 DEF VinSurfaces
<1>8. VinCounts
  BY <1>1, <1>3, <1>5 DEF VinCounts, FramesAreConfigured, VppEnding
<1> QED BY <1>4, <1>7, <1>8 DEF VInv

LEMMA BeginRoundKeeps == ASSUME VInv, BeginRound PROVE VInv'
<1> USE DEF VInv, BeginRound, pads, traffic
<1>1. VinTypes'
  <2>1. Len(sinkpads_) \in Nat
    BY LenProperties DEF VinTypes
  <2>2. setup' \in Setups
    BY <2>1 DEF VinTypes, Setups
  <2>3. vpc' \in {"exit", "first", "top", "collect"}
    OBVIOUS
  <2> QED BY <2>2, <2>3 DEF VinTypes, Linked
<1>2. VinSurfaces'
  BY DEF VinSurfaces, Linked, Placed, CountedVideo, VppEnding, VinTypes, Setups
<1>3. VinCounts'
  BY DEF VinCounts, Linked, VppEnding, VinTypes, Setups, FramesAreConfigured
<1> QED BY <1>1, <1>2, <1>3

LEMMA LinkedAreInputs == VinTypes => Linked \subseteq Inputs
BY MembersOfSeq DEF VinTypes, Linked

\* A buffer leaves the queue of a pad.
LEMMA BufferTaken ==
  ASSUME VinTypes, NEW p \in Inputs, queue[p] # << >>, Take(p)
  PROVE  /\ Head(queue[p]) \in Buffers
         /\ queue' \in [Inputs -> Seq(Buffers)] /\ \A i \in Inputs : Len(queue'[i]) <= QLen
         /\ FramesIn(queue[p]) = FramesIn(queue'[p]) + One(Head(queue[p]) = "frame")
         /\ FramesIn(queue'[p]) \in Nat
         /\ \A i \in Inputs \ {p} : queue'[i] = queue[i]
<1>1. queue[p] \in Seq(Buffers) /\ Len(queue[p]) <= QLen /\ QLen \in Nat
  BY VinAssumption DEF VinTypes
<1>2. /\ Head(queue[p]) \in Buffers /\ Tail(queue[p]) \in Seq(Buffers)
      /\ Len(Tail(queue[p])) = Len(queue[p]) - 1 /\ Len(queue[p]) \in Nat
      /\ FramesIn(queue[p]) = FramesIn(Tail(queue[p])) + One(Head(queue[p]) = "frame")
  BY <1>1, FrameTaken
<1>3. FramesIn(Tail(queue[p])) \in Nat
  BY <1>2, FramesAreFinite
<1>4. queue' = [queue EXCEPT ![p] = Tail(queue[p])] /\ queue \in [Inputs -> Seq(Buffers)]
  BY DEF Take, VinTypes
<1>5. /\ queue' \in [Inputs -> Seq(Buffers)] /\ queue'[p] = Tail(queue[p])
      /\ \A i \in Inputs \ {p} : queue'[i] = queue[i]
  BY <1>2, <1>4
<1>6. \A i \in Inputs : Len(queue'[i]) <= QLen
  BY <1>1, <1>2, <1>5 DEF VinTypes
<1> QED BY <1>2, <1>3, <1>5, <1>6

\* The pads of inputs that are not linked are empty.
LEMMA TakenIsLinked == ASSUME VInv, NEW p \in Inputs, queue[p] # << >> PROVE p \in Linked
BY DEF VInv, VinSurfaces

LEMMA ExceptOutside ==
  ASSUME NEW S, NEW T, NEW f \in [S -> T], NEW p, p \notin S, NEW v
  PROVE  [f EXCEPT ![p] = v] = f
OBVIOUS

LEMMA StoreIs ==
  ASSUME VinTypes, NEW p, NEW b
  PROVE  /\ p \in Inputs /\ b \in {"none", "frame", "eos"} =>
              /\ Store(p, b) \in [Inputs -> PadStates]
              /\ Store(p, b)[p].ready = b /\ Store(p, b)[p].org
              /\ \A i \in Inputs \ {p} : Store(p, b)[i] = vpp_comp_map_[i]
         /\ p \notin Inputs => Store(p, b) = vpp_comp_map_
<1> DEFINE m == [vpp_comp_map_ EXCEPT ![p].ready = b]
<1>0. vpp_comp_map_ \in [Inputs -> PadStates]
  BY DEF VinTypes
<1>1. Store(p, b) = [m EXCEPT ![p].org = TRUE]
  BY DEF Store
<1>2. CASE p \in Inputs /\ b \in {"none", "frame", "eos"}
  <2>1. /\ m \in [Inputs -> PadStates] /\ m[p].ready = b
        /\ \A i \in Inputs \ {p} : m[i] = vpp_comp_map_[i]
    BY <1>0, <1>2 DEF PadStates
  <2> HIDE DEF m
  <2> QED BY <1>1, <1>2, <2>1 DEF PadStates
<1>3. CASE p \notin Inputs
  <2>1. m = vpp_comp_map_
    BY <1>0, <1>3, ExceptOutside
  <2> HIDE DEF m
  <2> QED BY <1>0, <1>1, <1>3, <2>1, ExceptOutside
<1> QED BY <1>2, <1>3

LEMMA PrepareFirstKeeps == ASSUME VInv, PrepareFirst PROVE VInv'
<1> USE DEF VInv
<1>1. CASE todo = << >>
  <2> USE <1>1 DEF PrepareFirst
  <2>1. VinTypes'
    <3>1. vpp' \in VppStates
      BY DEF VinTypes, VppStates
    <3> QED BY <3>1 DEF VinTypes, Linked
  <2>2. VinSurfaces'
    BY DEF VinSurfaces, Linked, Placed, CountedVideo, VppEnding, VinTypes
  <2>3. VinCounts'
    BY DEF VinCounts, Linked, VppEnding, VinTypes, VppStates, FramesAreConfigured
  <2> QED BY <2>1, <2>2, <2>3
<1>2. CASE todo # << >>
  <2>0. PICK p : p = Head(todo)
    OBVIOUS
  <2>1. /\ UNCHANGED <<sinkpads_, combo_type_, spare, feed, vpp, setup, stream_cnt_, eos_cnt, detaching>>
        /\ FirstFromPad(p) /\ vpc = "first" /\ vpc' \in {"first", "exit"}
    BY <1>2, <2>0 DEF PrepareFirst
  <2>2. ~vpp.started /\ ~vpp.codec_init_ /\ (\A i \in Linked : Placed(i) = Surfaces)
    BY <2>1 DEF VinCounts, VinSurfaces, VppEnding, VinTypes, VppStates
  <2>3. CASE /\ p \in Inputs /\ queue[p] # << >> /\ Take(p)
             /\ vpp_comp_map_[p].ready # "frame"
             /\ vpp_comp_map_' = IF Head(queue[p]) = "frame" THEN Store(p, "frame")
                                                             ELSE vpp_comp_map_
             /\ fetched' \in BOOLEAN
    <3>1. p \in Linked
      BY <2>3, TakenIsLinked
    <3>2. /\ vpp_comp_map_' \in [Inputs -> PadStates]
          /\ \A i \in Inputs \ {p} : vpp_comp_map_'[i] = vpp_comp_map_[i]
          /\ vpp_comp_map_'[p].ready = "frame" <=> Head(queue[p]) = "frame"
          /\ vpp_comp_map_'[p].ready = "frame" => vpp_comp_map_'[p].org
      <4>1. CASE Head(queue[p]) = "frame"
        BY <2>3, <4>1, StoreIs DEF VinTypes
      <4>2. CASE Head(queue[p]) # "frame"
        BY <2>3, <4>2 DEF VinTypes
      <4> QED BY <4>1, <4>2
    <3>3. Linked' = Linked
      BY <2>1 DEF Linked
    <3>4. VinTypes'
      <4>1. queue' \in [Inputs -> Seq(Buffers)] /\ \A i \in Inputs : Len(queue'[i]) <= QLen
        BY <2>3, BufferTaken
      <4> QED BY <2>1, <2>3, <3>2, <3>3, <4>1 DEF VinTypes
    <3>5. \A i \in Linked : Placed(i)' = Placed(i)
      <4>1. \A i \in Linked \ {p} : Placed(i)' = Placed(i)
        BY <2>1, <2>3, <3>2, BufferTaken, <3>4, MembersOfSeq DEF Placed, VinTypes, Linked
      <4>2. Placed(p)' = Placed(p)
        <5>1. spare[p] \in Nat /\ FramesIn(queue'[p]) \in Nat
          BY <2>3, BufferTaken DEF VinTypes
        <5>2. FramesIn(queue[p]) = FramesIn(queue'[p]) + One(Head(queue[p]) = "frame")
          BY <2>3, BufferTaken
        <5>3. Placed(p)' = spare[p] + FramesIn(queue'[p])
                            + (IF vpp_comp_map_'[p].ready = "frame" THEN 1 ELSE 0)
          BY <2>1 DEF Placed
        <5> QED BY <2>3, <3>2, <5>1, <5>2, <5>3 DEF Placed, One
      <4> QED BY <4>1, <4>2
    <3>6. VinSurfaces'
      BY <2>1, <2>2, <2>3, <3>1, <3>2, <3>3, <3>5, BufferTaken, VinAssumption DEF VinSurfaces
    <3>7. VinCounts'
      BY <2>1, <2>2, <3>2, <3>3, LinkedAreInputs DEF VinCounts, VppEnding, FramesAreConfigured
    <3> QED BY <3>4, <3>6, <3>7
  <2>4. CASE UNCHANGED <<queue, vpp_comp_map_>> /\ fetched' \in BOOLEAN
    <3>1. VinTypes'
      BY <2>1, <2>4 DEF VinTypes, Linked
    <3>2. VinSurfaces'
      BY <2>1, <2>2, <2>4 DEF VinSurfaces, Linked, Placed, CountedVideo, VppEnding
    <3>3. VinCounts'
      BY <2>1, <2>2, <2>4 DEF VinCounts, VppEnding, FramesAreConfigured, Linked
    <3> QED BY <3>1, <3>2, <3>3
  <2>5. CASE p \notin Inputs
    <3>1. UNCHANGED <<queue, vpp_comp_map_>> /\ fetched' \in BOOLEAN
      <4>1. Take(p) => queue' = queue
        BY <2>5, ExceptOutside DEF Take, VinTypes
      <4>2. Store(p, "frame") = vpp_comp_map_ /\ fetched \in BOOLEAN
        BY <2>5, StoreIs DEF VinTypes
      <4>3. CASE UNCHANGED <<queue, vpp_comp_map_, fetched>>
        BY <4>2, <4>3
      <4>4. CASE /\ Take(p)
                 /\ vpp_comp_map_' = IF Head(queue[p]) = "frame" THEN Store(p, "frame")
                                                                 ELSE vpp_comp_map_
                 /\ fetched' = (fetched \/ (Head(queue[p]) = "frame" /\ p \in VideoIn))
        BY <4>1, <4>2, <4>4
      <4> QED BY <2>1, <4>3, <4>4 DEF FirstFromPad
    <3> QED BY <2>4, <3>1
  <2> QED BY <2>1, <2>3, <2>4, <2>5 DEF FirstFromPad, VinTypes
<1> QED BY <1>1, <1>2

LEMMA SizeSeenIs ==
  ASSUME VinTypes, NEW p \in Inputs, NEW b \in Buffers
  PROVE  /\ SizeSeen(p, b) \in PadStates
         /\ SizeSeen(p, b).ready = vpp_comp_map_[p].ready
         /\ SizeSeen(p, b).org <=> vpp_comp_map_[p].org \/ b \in {"frame", "reset"}
<1>1. vpp_comp_map_[p] \in PadStates
  BY DEF VinTypes
<1> QED BY <1>1 DEF SizeSeen, PadStates, Buffers

LEMMA RunEnds ==
  ASSUME VinTypes, NEW a \in BOOLEAN, EndOfRun(a)
  PROVE  /\ vpp' \in VppStates /\ vpc' = "exit"
         /\ vpp'.started = vpp.started /\ vpp'.codec_init_ = vpp.codec_init_
BY DEF VinTypes, VppStates, EndOfRun

\* Whether a buffer that is counted is the last end of a stream.
LEMMA TheLastEnd ==
  ASSUME VInv, vpc = "collect", NEW ends,
         NEW b, ends = eos_cnt \/ (b = "eos" /\ ends = eos_cnt + 1)
  PROVE  /\ CountedVideo /\ stream_cnt_ = ends => b = "eos"
         /\ ends \in Nat
         /\ stream_cnt_ # ends => stream_cnt_ = 0 \/ ends < stream_cnt_
<1>1. vpp.codec_init_ /\ ~VppEnding /\ eos_cnt \in Nat /\ stream_cnt_ \in Nat
  BY DEF VInv, VinCounts, VinTypes, VppStates, VppEnding
<1>2. /\ IsFiniteSet(setup.inputs) /\ setup.inputs # {}
      /\ stream_cnt_ = Cardinality(setup.inputs \cap VideoIn)
      /\ stream_cnt_ = 0 \/ eos_cnt < stream_cnt_
  BY <1>1 DEF VInv, VinCounts
<1>3. stream_cnt_ = 0 => ~CountedVideo
  <2>1. IsFiniteSet(setup.inputs \cap VideoIn)
    BY <1>2, FS_Subset
  <2> QED BY <1>2, <2>1, FS_EmptySet DEF CountedVideo
<1> QED BY <1>1, <1>2, <1>3

LEMMA GetCompBufKeeps ==
  ASSUME VInv, vpc = "collect", NEW p, GetCompBufFromPad(p),
         UNCHANGED <<sinkpads_, dec_region_list_, combo_type_, feed, fetched, detaching>>
  PROVE  VInv'
<1> DEFINE ends == IF Head(queue[p]) = "eos" /\ p \notin OverlayIn THEN eos_cnt + 1 ELSE eos_cnt
<1>0. PICK b : b = Head(queue[p])
  OBVIOUS
<1>1. /\ queue[p] # << >> /\ Take(p) /\ eos_cnt' = ends
      /\ setup' = [setup EXCEPT !.flag = @ \/ AsksForSetup(p, b)]
  BY <1>0 DEF GetCompBufFromPad
<1>2. /\ setup' \in Setups /\ setup'.inputs = setup.inputs /\ setup'.number = setup.number
      /\ setup.flag \/ AsksForSetup(p, b) => setup'.flag
  BY <1>1 DEF VInv, VinTypes, Setups
<1>3. Linked' = Linked /\ Linked \subseteq Inputs /\ (CountedVideo' <=> CountedVideo)
  BY <1>2, LinkedAreInputs DEF Linked, VInv, CountedVideo
<1>4. /\ CountedVideo /\ stream_cnt_ = ends => b = "eos"
      /\ ends \in Nat
      /\ stream_cnt_ # ends => stream_cnt_ = 0 \/ ends < stream_cnt_
  BY <1>0, TheLastEnd
<1>5. vpp.codec_init_ /\ ~VppEnding /\ vpp.started
  BY DEF VInv, VinCounts, VinTypes, VppStates, VppEnding
<1>6. /\ \A i \in Linked : Placed(i) = Surfaces /\ Placed(i) \in Nat
      /\ \A i \in Linked : vpp_comp_map_[i].ready = "frame" => vpp_comp_map_[i].org
      /\ \A i \in Linked : vpp_comp_map_[i].org => i \in setup.inputs \/ setup.flag
  BY <1>5, VinAssumption DEF VInv, VinSurfaces, VinCounts
<1>7. ASSUME p \in Inputs
      PROVE  /\ p \in Linked /\ b \in Buffers
             /\ queue' \in [Inputs -> Seq(Buffers)] /\ \A i \in Inputs : Len(queue'[i]) <= QLen
             /\ FramesIn(queue[p]) = FramesIn(queue'[p]) + One(b = "frame")
             /\ FramesIn(queue'[p]) \in Nat /\ spare[p] \in Nat
             /\ \A i \in Inputs \ {p} : queue'[i] = queue[i]
             /\ SizeSeen(p, b) \in PadStates
             /\ SizeSeen(p, b).ready = vpp_comp_map_[p].ready
             /\ SizeSeen(p, b).org <=> vpp_comp_map_[p].org \/ b \in {"frame", "reset"}
  <2>1. p \in Linked
    BY <1>1, <1>7, TakenIsLinked
  <2>2. b \in Buffers
    BY <1>0, <1>1, <1>7, BufferTaken DEF VInv
  <2> QED BY <1>0, <1>1, <1>7, <2>1, <2>2, BufferTaken, SizeSeenIs DEF VInv, VinTypes
<1>8. ASSUME p \in Inputs, b \in {"frame", "reset"}
      PROVE  vpp_comp_map_[p].org \/ setup'.flag
  BY <1>2, <1>8 DEF AsksForSetup
<1>9. CASE /\ p \notin OverlayIn /\ stream_cnt_ = ends
           /\ stream_cnt_' = 0 /\ EndOfRun(TRUE)
           /\ vpp_comp_map_' = [vpp_comp_map_ EXCEPT ![p] = SizeSeen(p, b)]
           /\ UNCHANGED <<spare, todo>>
  <2>1. /\ vpp' \in VppStates /\ vpc' = "exit"
        /\ vpp'.started /\ vpp'.codec_init_
    BY <1>5, <1>9, RunEnds DEF VInv
  <2>2. CASE p \in Inputs
    <3>1. /\ vpp_comp_map_' \in [Inputs -> PadStates] /\ vpp_comp_map_'[p] = SizeSeen(p, b)
          /\ \A i \in Inputs \ {p} : vpp_comp_map_'[i] = vpp_comp_map_[i]
      BY <1>7, <1>9, <2>2 DEF VInv, VinTypes
    <3>2. VinTypes'
      BY <1>1, <1>2, <1>3, <1>4, <1>7, <1>9, <2>1, <2>2, <3>1 DEF VInv, VinTypes
    <3>3. /\ \A i \in Linked \ {p} : Placed(i)' = Placed(i)
          /\ Placed(p)' = Placed(p) - One(b = "frame")
      <4>1. \A i \in Linked \ {p} : Placed(i)' = Placed(i)
        BY <1>3, <1>7, <1>9, <2>2, <3>1 DEF Placed
      <4>2. Placed(p)' = Placed(p) - One(b = "frame")
        <5>1. vpp_comp_map_'[p].ready = vpp_comp_map_[p].ready
          BY <1>7, <2>2, <3>1
        <5>2. Placed(p)' = spare[p] + FramesIn(queue'[p])
                            + (IF vpp_comp_map_[p].ready = "frame" THEN 1 ELSE 0)
          BY <1>9, <5>1 DEF Placed
        <5>3. /\ spare[p] \in Nat /\ FramesIn(queue'[p]) \in Nat
              /\ FramesIn(queue[p]) = FramesIn(queue'[p]) + One(b = "frame")
          BY <1>7, <2>2
        <5> QED BY <5>2, <5>3 DEF Placed, One
      <4> QED BY <4>1, <4>2
    <3>4. VinSurfaces'
      <4>1. \A i \in Linked : Placed(i)' <= Surfaces
        BY <1>6, <3>3, VinAssumption DEF One
      <4>2. CountedVideo => \A i \in Linked : Placed(i)' = Surfaces
        BY <1>4, <1>6, <1>9, <3>3, VinAssumption DEF One
      <4>3. \A i \in Inputs \ Linked :
              queue'[i] = << >> /\ vpp_comp_map_'[i] = NewPad /\ spare'[i] <= Surfaces
        BY <1>7, <1>9, <2>2, <3>1 DEF VInv, VinSurfaces
      <4> QED BY <1>3, <2>1, <4>1, <4>2, <4>3 DEF VinSurfaces, VppEnding
    <3>5. VinCounts'
      <4>1. \A i \in Linked : vpp_comp_map_'[i].org => i \in setup'.inputs \/ setup'.flag
        BY <1>2, <1>3, <1>6, <1>7, <1>8, <2>2, <3>1
      <4>2. \A i \in Linked : vpp_comp_map_'[i].ready = "frame" => vpp_comp_map_'[i].org
        BY <1>3, <1>6, <1>7, <2>2, <3>1
      <4> QED BY <1>3, <2>1, <4>1, <4>2 DEF VinCounts, VppEnding, FramesAreConfigured
    <3> QED BY <3>2, <3>4, <3>5 DEF VInv
  <2>3. CASE p \notin Inputs
    <3>1. queue' = queue /\ vpp_comp_map_' = vpp_comp_map_
      BY <1>1, <1>9, <2>3, ExceptOutside DEF VInv, VinTypes, Take
    <3>2. VinTypes'
      BY <1>1, <1>2, <1>3, <1>4, <1>9, <2>1, <3>1 DEF VInv, VinTypes
    <3>3. VinSurfaces'
      BY <1>3, <1>6, <1>9, <2>1, <3>1, VinAssumption
      DEF VInv, VinSurfaces, VppEnding, Placed
    <3>4. VinCounts'
      BY <1>2, <1>3, <1>6, <2>1, <3>1 DEF VinCounts, VppEnding, FramesAreConfigured
    <3> QED BY <3>2, <3>3, <3>4 DEF VInv
  <2> QED BY <2>2, <2>3
<1>10. CASE /\ ~(p \notin OverlayIn /\ stream_cnt_ = ends)
            /\ spare' = ReturnReady(p)
            /\ vpp_comp_map_' = [vpp_comp_map_ EXCEPT
                 ![p] = [SizeSeen(p, b) EXCEPT !.ready = IF b = "reset" THEN "none" ELSE b]]
            /\ UNCHANGED <<stream_cnt_, vpp, vpc>>
  <2>1. stream_cnt_ = 0 \/ eos_cnt' < stream_cnt_
    <3>1. CASE p \in OverlayIn
      <4>1. ends = eos_cnt
        BY <3>1
      <4> QED BY <1>1, <1>5, <4>1 DEF VInv, VinCounts
    <3>2. CASE p \notin OverlayIn
      BY <1>1, <1>4, <1>10, <3>2
    <3> QED BY <3>1, <3>2
  <2>2. CASE p \in Inputs
    <3>1. /\ vpp_comp_map_' \in [Inputs -> PadStates]
          /\ vpp_comp_map_'[p].ready = (IF b = "reset" THEN "none" ELSE b)
          /\ vpp_comp_map_'[p].org <=> SizeSeen(p, b).org
          /\ \A i \in Inputs \ {p} : vpp_comp_map_'[i] = vpp_comp_map_[i]
      <4>1. [SizeSeen(p, b) EXCEPT !.ready = IF b = "reset" THEN "none" ELSE b] \in PadStates
        BY <1>7, <2>2 DEF PadStates, Buffers
      <4>2. /\ vpp_comp_map_' \in [Inputs -> PadStates]
            /\ vpp_comp_map_'[p] = [SizeSeen(p, b) EXCEPT !.ready = IF b = "reset" THEN "none" ELSE b]
            /\ \A i \in Inputs \ {p} : vpp_comp_map_'[i] = vpp_comp_map_[i]
        BY <1>10, <2>2, <4>1 DEF VInv, VinTypes
      <4> QED BY <1>7, <2>2, <4>2 DEF PadStates
    <3>2. /\ spare' \in [Inputs -> Nat]
          /\ spare'[p] = spare[p] + One(vpp_comp_map_[p].ready = "frame")
          /\ \A i \in Inputs \ {p} : spare'[i] = spare[i]
      BY <1>7, <1>10, <2>2 DEF VInv, VinTypes, ReturnReady, One
    <3>3. VinTypes'
      BY <1>1, <1>2, <1>3, <1>4, <1>7, <1>10, <2>2, <3>1, <3>2 DEF VInv, VinTypes
    <3>4. \A i \in Linked : Placed(i)' = Placed(i)
      <4>1. \A i \in Linked \ {p} : Placed(i)' = Placed(i)
        BY <1>3, <1>7, <2>2, <3>1, <3>2 DEF Placed
      <4>2. Placed(p)' = Placed(p)
        BY <1>7, <2>2, <3>1, <3>2 DEF Placed, One
      <4> QED BY <4>1, <4>2
    <3>5. VinSurfaces'
      <4>1. \A i \in Inputs \ Linked :
              queue'[i] = << >> /\ vpp_comp_map_'[i] = NewPad /\ spare'[i] <= Surfaces
        BY <1>7, <2>2, <3>1, <3>2 DEF VInv, VinSurfaces
      <4> QED BY <1>3, <1>6, <3>4, <4>1, VinAssumption DEF VinSurfaces
    <3>6. VinCounts'
      BY <1>2, <1>3, <1>5, <1>6, <1>7, <1>8, <1>10, <2>1, <2>2, <3>1
      DEF VInv, VinCounts, VppEnding, FramesAreConfigured
    <3> QED BY <3>3, <3>5, <3>6 DEF VInv
  <2>3. CASE p \notin Inputs
    <3>1. queue' = queue /\ vpp_comp_map_' = vpp_comp_map_ /\ spare' = spare
      BY <1>1, <1>10, <2>3, ExceptOutside DEF VInv, VinTypes, Take, ReturnReady
    <3>2. VinTypes'
      BY <1>1, <1>2, <1>3, <1>4, <1>10, <3>1 DEF VInv, VinTypes
    <3>3. VinSurfaces'
      BY <1>3, <1>6, <1>10, <3>1, VinAssumption
      DEF VInv, VinSurfaces, VppEnding, Placed
    <3>4. VinCounts'
      BY <1>2, <1>3, <1>5, <1>6, <1>10, <2>1, <3>1
      DEF VInv, VinCounts, VppEnding, FramesAreConfigured
    <3> QED BY <3>2, <3>3, <3>4 DEF VInv
  <2> QED BY <2>2, <2>3
<1> QED BY <1>0, <1>1, <1>9, <1>10 DEF GetCompBufFromPad

LEMMA PrepareNextKeeps == ASSUME VInv, PrepareNext PROVE VInv'
<1> USE DEF PrepareNext
<1>1. CASE GetCompBufFromPad(Head(todo)) /\ vpc = "collect"
           /\ UNCHANGED <<sinkpads_, dec_region_list_, combo_type_, feed, fetched, detaching>>
  <2>1. PICK p : p = Head(todo)
    OBVIOUS
  <2>2. GetCompBufFromPad(p)
    BY <1>1, <2>1
  <2> QED BY <1>1, <2>2, GetCompBufKeeps
<1>2. CASE /\ vpc = "collect" /\ vpc' \in {"collect", "setup", "exit"}
           /\ UNCHANGED <<sinkpads_, dec_region_list_, combo_type_, feed, fetched, detaching,
                          queue, spare, vpp_comp_map_, vpp, setup, stream_cnt_, eos_cnt>>
  <2>1. VinTypes'
    BY <1>2 DEF VInv, VinTypes, Linked
  <2>2. VinSurfaces'
    BY <1>2 DEF VInv, VinSurfaces, Linked, Placed, CountedVideo, VppEnding
  <2>3. VinCounts'
    BY <1>2 DEF VInv, VinCounts, Linked, VppEnding, FramesAreConfigured
  <2> QED BY <2>1, <2>2, <2>3 DEF VInv
<1> QED BY <1>1, <1>2

LEMMA InitVppIs ==
  ASSUME VInv, vpc = "setup", HasFrame, InitVpp
  PROVE  /\ setup' \in Setups /\ setup'.inputs = Linked /\ setup'.flag = setup.flag
         /\ stream_cnt_' \in Nat /\ eos_cnt' = 0
         /\ IsFiniteSet(setup'.inputs) /\ setup'.inputs # {}
         /\ stream_cnt_' = Cardinality(setup'.inputs \cap VideoIn)
         /\ stream_cnt_' = 0 \/ eos_cnt' < stream_cnt_'
<1>1. setup' \in Setups /\ setup'.inputs = Linked /\ setup'.flag = setup.flag
  BY LinkedAreInputs DEF VInv, InitVpp, VinTypes, Setups
<1>2. IsFiniteSet(Linked)
  <2>1. DOMAIN sinkpads_ = 1 .. Len(sinkpads_) /\ Len(sinkpads_) \in Nat
    BY LenProperties DEF VInv, VinTypes
  <2>2. sinkpads_ \in Surjection(1 .. Len(sinkpads_), Linked)
    <3>1. sinkpads_ \in [1 .. Len(sinkpads_) -> Linked]
      BY <2>1, ElementOfSeq DEF VInv, VinTypes, Linked, ToSet
    <3>2. \A x \in Linked : \E k \in 1 .. Len(sinkpads_) : sinkpads_[k] = x
      BY <2>1 DEF Linked, ToSet
    <3> QED BY <3>1, <3>2, Fun_IsSurj
  <2>3. IsFiniteSet(1 .. Len(sinkpads_))
    BY <2>1, FS_Interval
  <2> QED BY <2>2, <2>3, FS_Surjection
<1>3. Linked # {}
  BY DEF HasFrame
<1>4. stream_cnt_' = Cardinality(Linked \cap VideoIn) /\ eos_cnt' = 0
  BY DEF InitVpp
<1>5. Cardinality(Linked \cap VideoIn) \in Nat
  BY <1>2, FS_Subset, FS_CardinalityType
<1> QED BY <1>1, <1>2, <1>3, <1>4, <1>5

LEMMA SetUpKeeps == ASSUME VInv, SetUp PROVE VInv'
<1>1. /\ vpc = "setup"
      /\ UNCHANGED <<sinkpads_, vpp_comp_map_, combo_type_, queue, spare, feed, fetched, detaching>>
  BY DEF SetUp, pads, traffic
<1>2. /\ Linked' = Linked /\ Linked \subseteq Inputs
      /\ \A i \in Linked : Placed(i)' = Surfaces /\ Placed(i) = Surfaces
  BY <1>1, LinkedAreInputs DEF Linked, VInv, VinSurfaces, VppEnding, Placed
<1>3. VinSurfaces'
  BY <1>1, <1>2, VinAssumption DEF VInv, VinSurfaces
<1>4. CASE /\ HasFrame /\ InitVpp /\ vpc' = "clear"
           /\ vpp' \in VppStates /\ vpp'.codec_init_ /\ vpp'.started = vpp.started
  <2>1. VinTypes'
    BY <1>1, <1>2, <1>4, InitVppIs DEF VInv, VinTypes
  <2>2. vpp.started
    BY <1>1 DEF VInv, VinCounts
  <2>3. VinCounts'
    BY <1>1, <1>2, <1>4, <2>2, InitVppIs DEF VInv, VinCounts, VppEnding, FramesAreConfigured
  <2> QED BY <1>3, <2>1, <2>3 DEF VInv
<1>5. CASE /\ HasFrame /\ InitVpp /\ vpc' = "failed" /\ UNCHANGED vpp /\ ~vpp.codec_init_
  <2>1. VinTypes'
    BY <1>1, <1>2, <1>5, InitVppIs DEF VInv, VinTypes
  <2>2. VinCounts'
    BY <1>1, <1>2, <1>5, InitVppIs DEF VInv, VinCounts, VppEnding, FramesAreConfigured
  <2> QED BY <1>3, <2>1, <2>2 DEF VInv
<1>6. CASE /\ UNCHANGED <<setup, stream_cnt_, eos_cnt>> /\ \E a \in BOOLEAN : EndOfRun(a)
  <2>1. /\ vpp' \in VppStates /\ vpc' = "exit"
        /\ vpp'.started = vpp.started /\ vpp'.codec_init_ = vpp.codec_init_
    BY <1>6, RunEnds DEF VInv
  <2>2. VinTypes'
    BY <1>1, <1>2, <1>6, <2>1 DEF VInv, VinTypes
  <2>3. VinCounts'
    BY <1>1, <1>2, <1>6, <2>1 DEF VInv, VinCounts, VppEnding, FramesAreConfigured
  <2> QED BY <1>3, <2>2, <2>3 DEF VInv
<1>7. CASE /\ UNCHANGED <<setup, stream_cnt_, eos_cnt, vpp>> /\ vpp.codec_init_
           /\ vpc' = "top" \/ (vpc' = "render" /\ ~setup.flag)
  <2>1. VinTypes'
    BY <1>1, <1>2, <1>7 DEF VInv, VinTypes
  <2>2. VinCounts'
    BY <1>1, <1>2, <1>7 DEF VInv, VinCounts, VppEnding, FramesAreConfigured
  <2> QED BY <1>3, <2>1, <2>2 DEF VInv
<1>8. vpp \in VppStates
  BY DEF VInv, VinTypes
<1>9. CASE ~vpp.codec_init_
  <2>1. CASE ~HasFrame /\ EndOfRun(TRUE) /\ UNCHANGED <<setup, stream_cnt_, eos_cnt>>
    BY <1>6, <2>1
  <2>2. CASE HasFrame /\ InitVpp /\ vpc' = "clear" /\ vpp' = [vpp EXCEPT !.codec_init_ = TRUE]
    <3>1. vpp' \in VppStates /\ vpp'.codec_init_ /\ vpp'.started = vpp.started
      BY <1>8, <2>2 DEF VppStates
    <3> QED BY <1>4, <2>2, <3>1
  <2>3. CASE HasFrame /\ InitVpp /\ vpc' = "failed" /\ UNCHANGED vpp
    BY <1>5, <1>9, <2>3
  <2> QED BY <1>9, <2>1, <2>2, <2>3 DEF SetUp
<1>10. CASE vpp.codec_init_
  <2>1. CASE HasFrame /\ InitVpp /\ vpc' = "clear" /\ UNCHANGED vpp
    BY <1>4, <1>8, <1>10, <2>1
  <2>2. CASE /\ UNCHANGED <<setup, stream_cnt_, eos_cnt>>
             /\ \/ vpc' = "render" /\ ~setup.flag /\ UNCHANGED vpp
                \/ vpc' = "top" /\ UNCHANGED vpp
                \/ EndOfRun(FALSE)
    BY <1>6, <1>7, <1>10, <2>2
  <2> QED BY <1>10, <2>1, <2>2 DEF SetUp
<1> QED BY <1>9, <1>10

LEMMA ClearFlagsKeeps == ASSUME VInv, ClearFlags PROVE VInv'
<1> USE DEF VInv, ClearFlags, pads, traffic
<1>1. Len(sinkpads_) \in Nat
  BY LenProperties DEF VinTypes
<1>2. setup' \in Setups /\ setup'.inputs = setup.inputs
  BY <1>1 DEF VinTypes, Setups
<1>3. VinTypes'
  BY <1>2 DEF VinTypes, Linked
<1>4. VinSurfaces'
  BY <1>2 DEF VinSurfaces, Linked, Placed, CountedVideo, VppEnding
<1>5. VinCounts'
  BY <1>2 DEF VinCounts, Linked, VppEnding, FramesAreConfigured
<1> QED BY <1>3, <1>4, <1>5

LEMMA ComposeKeeps == ASSUME VInv, Compose PROVE VInv'
<1> USE DEF VInv, Compose, pads, traffic
<1>1. VinTypes'
  BY DEF VinTypes, Linked
<1>2. VinSurfaces'
  BY DEF VinSurfaces, Linked, Placed, CountedVideo, VppEnding
<1>3. VinCounts'
  BY DEF VinCounts, Linked, VppEnding, FramesAreConfigured
<1> QED BY <1>1, <1>2, <1>3

LEMMA ExitKeeps == ASSUME VInv, Exit PROVE VInv'
<1> USE DEF VInv, Exit, pads, traffic
<1>1. /\ vpp' \in VppStates /\ vpp'.started = vpp.started
      /\ vpp'.codec_init_ = vpp.codec_init_
  BY DEF VinTypes, VppStates
<1>2. VinTypes'
  BY <1>1 DEF VinTypes, Linked
<1>3. VinSurfaces'
  BY DEF VinSurfaces, Linked, Placed, CountedVideo, VppEnding
<1>4. VinCounts'
  BY <1>1 DEF VinCounts, Linked, VppEnding, FramesAreConfigured
<1> QED BY <1>2, <1>3, <1>4

LEMMA DrainKeeps == ASSUME VInv, Drain PROVE VInv'
<1>1. /\ UNCHANGED <<sinkpads_, combo_type_, feed, fetched, vpp, setup, stream_cnt_, eos_cnt, detaching>>
      /\ vpc = "drain" /\ vpc' = "done"
  BY DEF Drain
<1>2. Linked' = Linked /\ Linked \subseteq Inputs
  BY <1>1, LinkedAreInputs DEF Linked, VInv
<1>3. ASSUME NEW i \in Inputs \ Linked
      PROVE  spare'[i] = spare[i] /\ queue'[i] = queue[i] /\ vpp_comp_map_'[i] = vpp_comp_map_[i]
  BY <1>3 DEF Drain
<1>4. ASSUME NEW i \in Linked
      PROVE  /\ spare'[i] = Placed(i) /\ queue'[i] = << >>
             /\ vpp_comp_map_'[i] = [vpp_comp_map_[i] EXCEPT !.ready = "none"]
  BY <1>2, <1>4 DEF Drain, Placed
<1>5. ASSUME NEW i \in Inputs
      PROVE  /\ queue[i] \in Seq(Buffers) /\ FramesIn(queue[i]) \in Nat
             /\ Placed(i) \in Nat /\ vpp_comp_map_[i] \in PadStates
  <2>1. queue[i] \in Seq(Buffers) /\ spare[i] \in Nat /\ vpp_comp_map_[i] \in PadStates
    BY <1>5 DEF VInv, VinTypes
  <2>2. FramesIn(queue[i]) \in Nat
    BY <2>1, FramesAreFinite
  <2> QED BY <2>1, <2>2 DEF Placed
<1>6. << >> \in Seq(Buffers) /\ Len(<< >>) = 0 /\ QLen \in Nat
  BY EmptySeq, VinAssumption
<1>10. ASSUME NEW i \in Linked
       PROVE  /\ vpp_comp_map_'[i] \in PadStates
              /\ vpp_comp_map_'[i].ready = "none" /\ vpp_comp_map_'[i].org = vpp_comp_map_[i].org
  <2>1. vpp_comp_map_[i] \in PadStates
    BY <1>2, <1>5, <1>10
  <2>2. vpp_comp_map_'[i] = [vpp_comp_map_[i] EXCEPT !.ready = "none"]
    BY <1>4, <1>10
  <2> QED BY <2>1, <2>2 DEF PadStates
<1>7. spare' \in [Inputs -> Nat]
  <2>1. \A i \in Inputs : spare'[i] \in Nat
    BY <1>3, <1>4, <1>5 DEF VInv, VinTypes
  <2> QED BY <2>1 DEF Drain
<1>8. queue' \in [Inputs -> Seq(Buffers)] /\ \A i \in Inputs : Len(queue'[i]) <= QLen
  BY <1>6 DEF Drain, VInv, VinTypes
<1>9. vpp_comp_map_' \in [Inputs -> PadStates]
  <2>1. \A i \in Inputs : vpp_comp_map_'[i] \in PadStates
    BY <1>3, <1>5, <1>10
  <2> QED BY <2>1 DEF Drain
<1>11. VinTypes'
  BY <1>1, <1>2, <1>7, <1>8, <1>9 DEF VInv, VinTypes
<1>12. \A i \in Linked : Placed(i)' = Placed(i)
  <2>1. \A i \in Linked : Placed(i)' = Placed(i) + 0 + 0
    BY <1>4, <1>10, NoFrames DEF Placed
  <2> QED BY <1>2, <1>5, <2>1
<1>13. VinSurfaces'
  BY <1>1, <1>2, <1>3, <1>12 DEF VInv, VinSurfaces, CountedVideo, VppEnding
<1>14. VinCounts'
  BY <1>1, <1>2, <1>10 DEF VInv, VinCounts, VppEnding, FramesAreConfigured
<1> QED BY <1>11, <1>13, <1>14 DEF VInv

LEMMA BufferPushed ==
  ASSUME VInv, NEW p \in Linked, NEW b \in Buffers, Room(p), Push(p, b)
  PROVE  /\ queue' \in [Inputs -> Seq(Buffers)] /\ \A i \in Inputs : Len(queue'[i]) <= QLen
         /\ FramesIn(queue'[p]) = FramesIn(queue[p]) + One(b = "frame" /\ vpp.is_running_)
         /\ \A i \in Inputs \ {p} : queue'[i] = queue[i]
         /\ FramesIn(queue[p]) \in Nat
<1>1. /\ queue \in [Inputs -> Seq(Buffers)] /\ \A i \in Inputs : Len(queue[i]) <= QLen
      /\ p \in Inputs /\ queue[p] \in Seq(Buffers) /\ QLen \in Nat
  BY LinkedAreInputs, VinAssumption DEF VInv, VinTypes
<1>2. FramesIn(queue[p]) \in Nat /\ Len(queue[p]) \in Nat
  BY <1>1, FramesAreFinite, LenProperties
<1>3. CASE vpp.is_running_
  <2>1. /\ Append(queue[p], b) \in Seq(Buffers) /\ Len(Append(queue[p], b)) = Len(queue[p]) + 1
        /\ FramesIn(Append(queue[p], b)) = FramesIn(queue[p]) + One(b = "frame")
    BY <1>1, FramePushed
  <2>2. Len(queue[p]) < QLen
    BY <1>3 DEF Room
  <2>3. /\ queue' \in [Inputs -> Seq(Buffers)] /\ queue'[p] = Append(queue[p], b)
        /\ \A i \in Inputs \ {p} : queue'[i] = queue[i]
    BY <1>1, <1>3, <2>1 DEF Push
  <2>4. Len(queue'[p]) <= QLen
    BY <1>1, <1>2, <2>1, <2>2, <2>3
  <2>5. \A i \in Inputs : Len(queue'[i]) <= QLen
    <3>1. \A i \in Inputs \ {p} : Len(queue'[i]) <= QLen
      BY <1>1, <2>3
    <3> QED BY <2>4, <3>1
  <2> QED BY <1>2, <1>3, <2>1, <2>3, <2>5
<1>4. CASE ~vpp.is_running_
  BY <1>1, <1>2, <1>4 DEF Push, One
<1> QED BY <1>3, <1>4

LEMMA InputKeeps == ASSUME VInv, NEW p \in Inputs, Input(p) PROVE VInv'
<1>1. UNCHANGED <<sinkpads_, vpp_comp_map_, combo_type_, vpc, fetched, vpp, setup, stream_cnt_,
                  eos_cnt, detaching>>
  BY DEF Input, pads, thread
<1>2. Linked' = Linked /\ Linked \subseteq Inputs
  BY <1>1, LinkedAreInputs DEF Linked, VInv
<1>3. VinCounts'
  BY <1>1, <1>2 DEF VInv, VinCounts, VppEnding, FramesAreConfigured
<1>4. vpp_comp_map_[p] \in PadStates /\ spare[p] \in Nat
  BY DEF VInv, VinTypes
<1>5. CASE Produce(p)
  <2>1. /\ p \in Linked /\ vpp.is_running_ /\ Room(p) /\ Push(p, "frame") /\ spare[p] > 0
        /\ spare' = [spare EXCEPT ![p] = @ - 1] /\ UNCHANGED feed
    BY <1>5 DEF Produce
  <2>2. /\ queue' \in [Inputs -> Seq(Buffers)] /\ \A i \in Inputs : Len(queue'[i]) <= QLen
        /\ FramesIn(queue'[p]) = FramesIn(queue[p]) + 1 /\ FramesIn(queue[p]) \in Nat
        /\ \A i \in Inputs \ {p} : queue'[i] = queue[i]
    BY <2>1, BufferPushed DEF Buffers, One
  <2>3. /\ spare' \in [Inputs -> Nat] /\ spare'[p] = spare[p] - 1
        /\ \A i \in Inputs \ {p} : spare'[i] = spare[i]
    BY <1>4, <2>1 DEF VInv, VinTypes
  <2>4. VinTypes'
    BY <1>1, <1>2, <2>1, <2>2, <2>3 DEF VInv, VinTypes
  <2>5. \A i \in Linked : Placed(i)' = Placed(i)
    <3>1. \A i \in Linked \ {p} : Placed(i)' = Placed(i)
      BY <1>1, <1>2, <2>2, <2>3 DEF Placed
    <3>2. Placed(p)' = Placed(p)
      BY <1>1, <1>4, <2>2, <2>3 DEF Placed
    <3> QED BY <3>1, <3>2
  <2>6. VinSurfaces'
    BY <1>1, <1>2, <2>1, <2>2, <2>3, <2>5 DEF VInv, VinSurfaces, CountedVideo, VppEnding
  <2> QED BY <1>3, <2>4, <2>6 DEF VInv
<1>6. CASE DecoderReset(p) \/ EndOfStream(p) \/ Stopped(p)
  <2>1. /\ p \in Linked /\ Room(p)
        /\ \/ Push(p, "reset")
           \/ Push(p, "eos")
        /\ UNCHANGED spare
        /\ feed' \in [Inputs -> {"off", "on", "stopping", "ended"}]
    BY <1>6 DEF DecoderReset, EndOfStream, Stopped, VInv, VinTypes
  <2>2. /\ queue' \in [Inputs -> Seq(Buffers)] /\ \A i \in Inputs : Len(queue'[i]) <= QLen
        /\ FramesIn(queue'[p]) = FramesIn(queue[p])
        /\ \A i \in Inputs \ {p} : queue'[i] = queue[i]
    BY <2>1, BufferPushed DEF Buffers, One
  <2>3. VinTypes'
    BY <1>1, <1>2, <2>1, <2>2 DEF VInv, VinTypes
  <2>4. \A i \in Linked : Placed(i)' = Placed(i)
    BY <1>1, <1>2, <2>1, <2>2 DEF Placed
  <2>5. VinSurfaces'
    BY <1>1, <1>2, <2>1, <2>2, <2>4 DEF VInv, VinSurfaces, CountedVideo, VppEnding
  <2> QED BY <1>3, <2>3, <2>5 DEF VInv
<1>7. CASE OverlayEnds(p)
  <2>1. UNCHANGED <<queue, spare>> /\ feed' \in [Inputs -> {"off", "on", "stopping", "ended"}]
    BY <1>7 DEF OverlayEnds, VInv, VinTypes
  <2>2. VinTypes'
    BY <1>1, <1>2, <2>1 DEF VInv, VinTypes
  <2>3. VinSurfaces'
    BY <1>1, <1>2, <2>1 DEF VInv, VinSurfaces, CountedVideo, VppEnding, Placed
  <2> QED BY <1>3, <2>2, <2>3 DEF VInv
<1> QED BY <1>5, <1>6, <1>7 DEF Input

LEMMA NewPadAddedKeeps == ASSUME VInv, NEW p \in Inputs, NewPadAdded(p) PROVE VInv'
<1>1. /\ p \notin Linked /\ MutexFree /\ vpp.is_running_ /\ detaching = "none"
      /\ sinkpads_' = Append(sinkpads_, p)
      /\ vpp_comp_map_' = [vpp_comp_map_ EXCEPT ![p] = NewPad]
      /\ feed' = [feed EXCEPT ![p] = "on"]
      /\ spare' = [spare EXCEPT ![p] = Surfaces]
      /\ UNCHANGED <<combo_type_, queue, vpc, fetched, vpp, setup, stream_cnt_, eos_cnt, detaching>>
  BY DEF NewPadAdded, Call, thread
<1>2. /\ sinkpads_' \in Seq(Inputs) /\ IsInjective(sinkpads_') /\ Linked' = Linked \cup {p}
      /\ Linked \subseteq Inputs
  BY <1>1, ListGrows, LinkedAreInputs DEF VInv, VinTypes, Linked
<1>3. NewPad \in PadStates /\ NewPad.ready = "none" /\ ~NewPad.org /\ Surfaces \in Nat
  BY VinAssumption DEF NewPad, PadStates
<1>4. /\ vpp_comp_map_' \in [Inputs -> PadStates] /\ vpp_comp_map_'[p] = NewPad
      /\ \A i \in Inputs \ {p} : vpp_comp_map_'[i] = vpp_comp_map_[i]
      /\ spare' \in [Inputs -> Nat] /\ spare'[p] = Surfaces
      /\ \A i \in Inputs \ {p} : spare'[i] = spare[i]
      /\ feed' \in [Inputs -> {"off", "on", "stopping", "ended"}]
  BY <1>1, <1>3 DEF VInv, VinTypes
<1>5. VinTypes'
  BY <1>1, <1>2, <1>4 DEF VInv, VinTypes
<1>6. /\ \A i \in Linked : Placed(i)' = Placed(i)
      /\ Placed(p)' = Surfaces
  <2>1. \A i \in Linked : Placed(i)' = Placed(i)
    BY <1>1, <1>2, <1>4 DEF Placed
  <2>2. queue'[p] = << >>
    BY <1>1 DEF VInv, VinSurfaces
  <2>3. Placed(p)' = Surfaces + 0 + 0
    BY <1>3, <1>4, <2>2, NoFrames DEF Placed
  <2> QED BY <1>3, <2>1, <2>3
<1>7. VinSurfaces'
  BY <1>1, <1>2, <1>3, <1>4, <1>6 DEF VInv, VinSurfaces, CountedVideo, VppEnding
<1>8. VinCounts'
  BY <1>1, <1>2, <1>3, <1>4 DEF VInv, VinCounts, VppEnding, FramesAreConfigured, MutexFree
<1> QED BY <1>5, <1>7, <1>8 DEF VInv

LEMMA PadRemovedKeeps == ASSUME VInv, NEW p \in Inputs, PadRemoved(p) PROVE VInv'
<1>1. /\ detaching = p /\ MutexFree
      /\ sinkpads_' = PadErased(p)
      /\ vpp_comp_map_' = [vpp_comp_map_ EXCEPT ![p] = NewPad]
      /\ queue' = [queue EXCEPT ![p] = << >>]
      /\ spare' = IF vpp.is_running_
                  THEN [spare EXCEPT ![p] = @ + FramesIn(queue[p])
                                            + (IF vpp_comp_map_[p].ready = "frame" THEN 1 ELSE 0)]
                  ELSE spare
      /\ feed' = [feed EXCEPT ![p] = "off"] /\ detaching' = "none"
      /\ UNCHANGED <<combo_type_, vpc, fetched, vpp, setup, stream_cnt_, eos_cnt>>
  BY DEF PadRemoved, thread
<1>2. p \in Linked
  BY <1>1, VinAssumption DEF VInv, VinTypes, Inputs
<1>3. /\ sinkpads_' \in Seq(Inputs) /\ IsInjective(sinkpads_') /\ Linked' = Linked \ {p}
      /\ Linked \subseteq Inputs
  BY <1>1, <1>2, ListLoses, LinkedAreInputs DEF VInv, VinTypes, Linked, PadErased, Without
<1>4. /\ NewPad \in PadStates /\ << >> \in Seq(Buffers) /\ Len(<< >>) = 0
      /\ QLen \in Nat /\ Surfaces \in Nat
  BY VinAssumption, EmptySeq DEF NewPad, PadStates
<1>5. /\ vpp_comp_map_' \in [Inputs -> PadStates] /\ vpp_comp_map_'[p] = NewPad
      /\ \A i \in Inputs \ {p} : vpp_comp_map_'[i] = vpp_comp_map_[i]
      /\ queue' \in [Inputs -> Seq(Buffers)] /\ queue'[p] = << >>
      /\ \A i \in Inputs \ {p} : queue'[i] = queue[i]
      /\ feed' \in [Inputs -> {"off", "on", "stopping", "ended"}]
  BY <1>1, <1>4 DEF VInv, VinTypes
<1>6. \A i \in Inputs : Len(queue'[i]) <= QLen
  <2>1. \A i \in Inputs \ {p} : Len(queue'[i]) <= QLen
    BY <1>5 DEF VInv, VinTypes
  <2>2. Len(queue'[p]) <= QLen
    BY <1>4, <1>5
  <2> QED BY <2>1, <2>2
<1>7. queue[p] \in Seq(Buffers) /\ spare[p] \in Nat /\ FramesIn(queue[p]) \in Nat
  BY FramesAreFinite DEF VInv, VinTypes
<1>8. /\ spare' \in [Inputs -> Nat] /\ spare'[p] <= Surfaces
      /\ \A i \in Inputs \ {p} : spare'[i] = spare[i]
  <2>1. Placed(p) \in Nat /\ Placed(p) <= Surfaces /\ spare[p] <= Placed(p)
    BY <1>2, <1>7 DEF VInv, VinSurfaces, Placed
  <2>2. spare' = IF vpp.is_running_ THEN [spare EXCEPT ![p] = Placed(p)] ELSE spare
    BY <1>1 DEF Placed
  <2> QED BY <1>4, <1>7, <2>1, <2>2 DEF VInv, VinTypes
<1>9. VinTypes'
  BY <1>1, <1>3, <1>5, <1>6, <1>8 DEF VInv, VinTypes
<1>10. \A i \in Linked \ {p} : Placed(i)' = Placed(i)
  BY <1>3, <1>5, <1>8 DEF Placed
<1>11. VinSurfaces'
  BY <1>1, <1>2, <1>3, <1>5, <1>8, <1>10 DEF VInv, VinSurfaces, CountedVideo, VppEnding
<1>12. VinCounts'
  BY <1>1, <1>3, <1>5 DEF VInv, VinCounts, VppEnding, FramesAreConfigured, MutexFree
<1> QED BY <1>9, <1>11, <1>12 DEF VInv

LEMMA CallsKeep ==
  ASSUME VInv,
         \/ \E i \in Inputs : BeginDetach(i)
         \/ StopAll \/ StopVpp \/ AskAgain \/ \E layout : SetCompRegion(layout)
  PROVE  VInv'
<1>1. /\ UNCHANGED <<sinkpads_, vpp_comp_map_, queue, spare, vpc, fetched, stream_cnt_, eos_cnt>>
      /\ combo_type_' \in {"BLOCKS", "CUSTOM"}
      /\ feed' \in [Inputs -> {"off", "on", "stopping", "ended"}]
  BY DEF BeginDetach, StopAll, StopVpp, AskAgain, SetCompRegion, Call, StopInput, VInv, VinTypes,
         pads, traffic, thread
<1>2. detaching' \notin {"none", "all"} => detaching' \in Linked
  BY DEF BeginDetach, StopAll, StopVpp, AskAgain, SetCompRegion, Call, StopInput, VInv, VinTypes
<1>3. /\ vpp' \in VppStates /\ vpp'.started = vpp.started /\ vpp'.codec_init_ = vpp.codec_init_
  BY DEF BeginDetach, StopAll, StopVpp, AskAgain, SetCompRegion, Call, StopInput, VInv, VinTypes,
         VppStates, thread
<1>4. /\ setup' \in Setups /\ setup'.inputs = setup.inputs /\ (setup.flag => setup'.flag)
  BY DEF BeginDetach, StopAll, StopVpp, AskAgain, SetCompRegion, Call, StopInput, VInv, VinTypes,
         VppStates, Setups, thread
<1>5. Linked' = Linked
  BY <1>1 DEF Linked
<1>6. VinTypes'
  BY <1>1, <1>2, <1>3, <1>4, <1>5 DEF VInv, VinTypes
<1>7. VinSurfaces'
  BY <1>1, <1>4, <1>5 DEF VInv, VinSurfaces, CountedVideo, VppEnding, Placed
<1>8. VinCounts'
  BY <1>1, <1>3, <1>4, <1>5 DEF VInv, VinCounts, VppEnding, FramesAreConfigured
<1> QED BY <1>6, <1>7, <1>8 DEF VInv

LEMMA UnchangedVInv == ASSUME VInv, UNCHANGED vinVars PROVE VInv'
<1> USE DEF VInv, vinVars, pads, traffic, thread
<1>1. VinTypes'
  BY DEF VinTypes, Linked
<1>2. VinSurfaces'
  BY DEF VinSurfaces, Linked, CountedVideo, VppEnding, Placed
<1>3. VinCounts'
  BY DEF VinCounts, Linked, VppEnding, FramesAreConfigured
<1> QED BY <1>1, <1>2, <1>3

LEMMA StepVInv == VInv /\ [VinNext]_vinVars => VInv'
<1> SUFFICES ASSUME VInv, [VinNext]_vinVars PROVE VInv'
  OBVIOUS
<1>1. CASE VppThread
  BY <1>1, BeginRoundKeeps, PrepareFirstKeeps, PrepareNextKeeps, SetUpKeeps, ClearFlagsKeeps,
     ComposeKeeps, ExitKeeps, DrainKeeps DEF VppThread
<1>2. CASE Application
  BY <1>2, NewPadAddedKeeps, PadRemovedKeeps, CallsKeep DEF Application
<1>3. CASE \E i \in Inputs : Input(i)
  BY <1>3, InputKeeps
<1>4. CASE UNCHANGED vinVars
  BY <1>4, UnchangedVInv
<1> QED BY <1>1, <1>2, <1>3, <1>4 DEF VinNext

LEMMA VInvIsSafe == VInv => VinTypeOK /\ SurfacesAreSomewhere /\ FramesAreConfigured
<1> SUFFICES ASSUME VInv PROVE VinTypeOK /\ SurfacesAreSomewhere /\ FramesAreConfigured
  OBVIOUS
<1>1. Linked \subseteq Inputs
  BY LinkedAreInputs DEF VInv
<1>2. SurfacesAreSomewhere
  BY DEF VInv, VinSurfaces, SurfacesAreSomewhere, Placed
<1>3. \A i \in Inputs : ToSet(queue[i]) \subseteq Buffers
  BY MembersOfSeq DEF VInv, VinTypes
<1>4. spare \in [Inputs -> 0 .. Surfaces]
  <2>1. ASSUME NEW i \in Inputs PROVE spare[i] <= Surfaces
    <3>1. queue[i] \in Seq(Buffers) /\ spare[i] \in Nat
      BY DEF VInv, VinTypes
    <3>2. FramesIn(queue[i]) \in Nat /\ Surfaces \in Nat
      BY <3>1, FramesAreFinite, VinAssumption
    <3>3. i \in Linked => spare[i] <= Surfaces
      BY <3>1, <3>2 DEF VInv, VinSurfaces, Placed
    <3> QED BY <3>3 DEF VInv, VinSurfaces
  <2>2. spare \in [Inputs -> Nat] /\ Surfaces \in Nat
    BY VinAssumption DEF VInv, VinTypes
  <2> QED BY <2>1, <2>2
<1> QED BY <1>1, <1>2, <1>3, <1>4 DEF VInv, VinTypes, VinTypeOK, VinCounts, PadStates, Buffers


-----------------------------------------------------------------------------
(* The decoder: types, then who holds a surface.                            *)

Counts == 0 .. Limit - 1
Kinds == {"key1", "key2", "p", "odd"}
Units == [kind : Kinds, num : 1 .. rnum]
Slots == [addr : Addresses, unit : 1 .. rnum]
Frames == [kind : {"frame"}, addr : Addresses, unit : 1 .. rnum, gen : Nat]
Marks == [kind : {"reset", "eos"}, addr : {0}, unit : {0}, gen : Nat]

\* The codec has been given a surface that it does not work into yet.
Picked == size # 0 /\ dpc \in {"move", "count", "ask", "look"}
InHand == dpc \in {"sync", "push"}

ReaderTypes ==
  /\ film \in Films /\ rpc \in {"read", "push", "done"}
  /\ {rrun, drun, again, peer, none, ended} \subseteq BOOLEAN
  /\ rat \in 0 .. Len(film.units) /\ rloop \in 0 .. film.loops /\ rnum \in Nat
  /\ rpc = "push" => rat > 0 /\ rnum > 0
  /\ netq \in [data : Seq(Units), eos : BOOLEAN]
  /\ mempool \in [data : Seq(Units), eof : BOOLEAN] /\ Len(mempool.data) <= PoolRoom

PictureTypes ==
  /\ dpc \in {"top", "wait", "surface", "move", "count", "ask", "header", "look", "sync", "push",
              "pushReset", "pushEos", "lastEos", "update", "exit", "left", "done", "crashed"}
  /\ size \in 0 .. 2 /\ seen \in 0 .. PoolRoom /\ took \in 0 .. 1 /\ gen \in Nat
  /\ dpc \in {"wait", "header"} => size = 0
  /\ dpc \in {"surface", "look"} => size # 0
  /\ dpc \in {"header", "look"} => seen <= Len(mempool.data)
  /\ surfaces \subseteq Addresses /\ Locked \in [Addresses -> Counts]
  /\ core \in Seq(Slots) /\ Len(core) <= DecDelay
  /\ hand \in [addr : Addresses \cup {0}, unit : 0 .. rnum]
  /\ InHand => hand \in Slots
  /\ Picked => hand.addr \in surfaces
  /\ padq \in Seq(Frames \cup Marks) /\ Len(padq) <= PadRoom /\ out \subseteq Frames

DecoderTypes == ReaderTypes /\ PictureTypes

\* The addresses in a sequence of slots or buffers; a mark has none.
AddrsOf(q) == {q[i].addr : i \in DOMAIN q} \ {0}
Apart(q) == \A i, j \in DOMAIN q : q[i].addr = q[j].addr /\ q[i].addr # 0 => i = j

InCore == AddrsOf(core)
Queued == AddrsOf(padq)
Outside == {b.addr : b \in out}
Worked == IF InHand THEN {hand.addr} ELSE {}
Held == InCore \cup Queued \cup Outside \cup Worked

\* Each surface that is held has one holder and one lock, and is of the pool
\* there is; the pool is given up only when nobody holds any.
Kept ==
  /\ dpc # "crashed"
  /\ Apart(core) /\ Apart(padq) /\ \A b, c \in out : b.addr = c.addr => b = c
  /\ InCore \cap Queued = {} /\ InCore \cap Outside = {} /\ InCore \cap Worked = {}
  /\ Queued \cap Outside = {} /\ Queued \cap Worked = {} /\ Outside \cap Worked = {}
  /\ \A a \in Addresses : Locked[a] = IF a \in Held THEN 1 ELSE 0
  /\ Held \subseteq surfaces
  /\ \A b \in Sent : b.gen = gen
  /\ Picked => hand.addr \notin Held
  /\ size = 0 => core = << >>
  /\ size = 0 => surfaces = {} \/ dpc \in {"wait", "exit", "lastEos", "done"}

DInv == DecoderTypes /\ ("slow" \notin dfault => Kept)

LEMMA AddrPut ==
  ASSUME NEW T, NEW q \in Seq(T), NEW x \in T
  PROVE  /\ Append(q, x) \in Seq(T) /\ Len(Append(q, x)) = Len(q) + 1
         /\ AddrsOf(Append(q, x)) = AddrsOf(q) \cup ({x.addr} \ {0})
         /\ Apart(q) /\ x.addr \notin AddrsOf(q) => Apart(Append(q, x))
         /\ ToSet(Append(q, x)) = ToSet(q) \cup {x}
<1> DEFINE n == Len(q)
           r == Append(q, x)
<1>1. /\ r \in Seq(T) /\ Len(r) = n + 1 /\ n \in Nat
      /\ \A k \in 1 .. n : r[k] = q[k]
      /\ r[n + 1] = x
  BY AppendProperties
<1>2. DOMAIN r = 1 .. n + 1 /\ DOMAIN q = 1 .. n
  BY <1>1, LenProperties
<1>3. 1 .. n + 1 = (1 .. n) \cup {n + 1} /\ n + 1 \notin 1 .. n
  BY <1>1
<1>4. ToSet(r) = ToSet(q) \cup {x}
  BY ListGrows
<1> HIDE DEF n, r
<1>5. AddrsOf(r) = AddrsOf(q) \cup ({x.addr} \ {0})
  <2>1. {r[i].addr : i \in DOMAIN r} = {q[i].addr : i \in DOMAIN q} \cup {x.addr}
    BY <1>1, <1>2, <1>3
  <2> QED BY <2>1 DEF AddrsOf
<1>6. ASSUME Apart(q), x.addr \notin AddrsOf(q) PROVE Apart(r)
  <2>1. \A i \in 1 .. n : r[i].addr = x.addr => x.addr = 0
    BY <1>1, <1>2, <1>6 DEF AddrsOf
  <2>2. SUFFICES ASSUME NEW i \in DOMAIN r, NEW j \in DOMAIN r,
                        r[i].addr = r[j].addr, r[i].addr # 0
                 PROVE  i = j
    BY DEF Apart
  <2>3. CASE i \in 1 .. n /\ j \in 1 .. n
    BY <1>1, <1>2, <1>6, <2>2, <2>3 DEF Apart
  <2>4. CASE i = n + 1 \/ j = n + 1
    BY <1>1, <1>2, <1>3, <2>1, <2>2, <2>4
  <2> QED BY <1>2, <1>3, <2>3, <2>4
<1> QED BY <1>1, <1>4, <1>5, <1>6 DEF n, r

LEMMA AddrTaken ==
  ASSUME NEW T, NEW q \in Seq(T), q # << >>
  PROVE  /\ Head(q) \in T /\ Tail(q) \in Seq(T) /\ Len(Tail(q)) = Len(q) - 1
         /\ Len(q) \in Nat \ {0}
         /\ AddrsOf(q) = AddrsOf(Tail(q)) \cup ({Head(q).addr} \ {0})
         /\ Apart(q) => Apart(Tail(q)) /\ Head(q).addr \notin AddrsOf(Tail(q))
         /\ ToSet(q) = ToSet(Tail(q)) \cup {Head(q)}
<1> DEFINE n == Len(q)
           t == Tail(q)
<1>1. /\ n \in Nat \ {0} /\ Head(q) \in T /\ Head(q) = q[1]
      /\ t \in Seq(T) /\ Len(t) = n - 1
      /\ \A k \in 1 .. n - 1 : t[k] = q[k + 1]
  BY HeadTailProperties, EmptySeq
<1>2. DOMAIN t = 1 .. n - 1 /\ DOMAIN q = 1 .. n
  BY <1>1, LenProperties
<1> HIDE DEF n, t
<1>3. ASSUME NEW k \in DOMAIN t PROVE k + 1 \in DOMAIN q /\ k + 1 # 1 /\ q[k + 1] = t[k]
  BY <1>1, <1>2
<1>4. ASSUME NEW j \in DOMAIN q PROVE j = 1 \/ \E k \in DOMAIN t : q[j] = t[k]
  <2>1. CASE j # 1
    <3>1. j - 1 \in DOMAIN t /\ (j - 1) + 1 = j
      BY <1>1, <1>2, <2>1
    <3>2. q[(j - 1) + 1] = t[j - 1]
      BY <1>3, <3>1
    <3> QED BY <3>1, <3>2
  <2> QED BY <2>1
<1>5. ToSet(q) = ToSet(t) \cup {Head(q)} /\ 1 \in DOMAIN q
  <2>1. 1 \in DOMAIN q
    BY <1>1, <1>2
  <2>2. ToSet(t) \cup {Head(q)} \subseteq ToSet(q)
    BY <1>1, <1>3, <2>1 DEF ToSet
  <2>3. ToSet(q) \subseteq ToSet(t) \cup {Head(q)}
    BY <1>1, <1>4 DEF ToSet
  <2> QED BY <2>1, <2>2, <2>3
<1>6. {q[i].addr : i \in DOMAIN q} = {t[i].addr : i \in DOMAIN t} \cup {Head(q).addr}
  <2>1. {t[i].addr : i \in DOMAIN t} \cup {Head(q).addr} \subseteq {q[i].addr : i \in DOMAIN q}
    BY <1>1, <1>3, <1>5
  <2>2. {q[i].addr : i \in DOMAIN q} \subseteq {t[i].addr : i \in DOMAIN t} \cup {Head(q).addr}
    BY <1>1, <1>4
  <2> QED BY <2>1, <2>2
<1>7. ASSUME Apart(q) PROVE Apart(t) /\ Head(q).addr \notin AddrsOf(t)
  <2>1. ASSUME NEW i \in DOMAIN t, NEW j \in DOMAIN t, t[i].addr = t[j].addr, t[i].addr # 0
        PROVE  i = j
    <3>1. q[i + 1].addr = q[j + 1].addr /\ q[i + 1].addr # 0
      BY <1>3, <2>1
    <3>2. i + 1 = j + 1
      BY <1>3, <1>7, <3>1 DEF Apart
    <3> QED BY <1>1, <1>2, <3>2
  <2>2. ASSUME NEW i \in DOMAIN t, t[i].addr = Head(q).addr, t[i].addr # 0 PROVE FALSE
    <3>1. q[i + 1].addr = q[1].addr /\ q[i + 1].addr # 0 /\ i + 1 # 1
      BY <1>1, <1>3, <2>2
    <3> QED BY <1>3, <1>5, <1>7, <3>1 DEF Apart
  <2> QED BY <2>1, <2>2 DEF AddrsOf, Apart
<1> QED BY <1>1, <1>5, <1>6, <1>7 DEF AddrsOf, n, t

\* Min is defined by what it is; every set of naturals has one.
LEMMA MinIsLeast ==
  ASSUME NEW S, S \subseteq Nat, S # {}
  PROVE  Min(S) \in S /\ \A y \in S : Min(S) <= y
<1>1. IsWellFoundedOn(OpToRel(<, Nat), Nat)
  BY NatLessThanWellFounded
<1>2. PICK x \in S : \A y \in S : ~ (<< y, x >> \in OpToRel(<, Nat))
  BY <1>1, WFMin
<1>3. ASSUME NEW y \in S PROVE x <= y
  <2>1. ~ (<< y, x >> \in OpToRel(<, Nat))
    BY <1>2
  <2> QED BY <2>1 DEF OpToRel
<1> QED BY <1>3 DEF Min

\* Films and what is in them.
LEMMA FilmsAre ==
  ASSUME DecoderTypes
  PROVE  /\ film.units \in Seq(Kinds) /\ film.loops \in Nat /\ Len(film.units) \in Nat
         /\ PoolRoom \in Nat \ {0} /\ PadRoom \in Nat \ {0} /\ DecDelay \in Nat
BY DecAssumption, LenProperties DEF DecoderTypes, ReaderTypes, FilmParameters, Kinds

LEMMA Faults == ASSUME NEW what, DecFault(what) PROVE "slow" \notin dfault
BY DEF DecFault

\* A step that leaves the surfaces where they are.
LEMMA SameHolders ==
  ASSUME Kept, UNCHANGED <<core, surfaces, gen, Locked, padq, out, size>>,
         Worked' = Worked, dpc' # "crashed", Picked' => hand'.addr \notin Held,
         size = 0 => surfaces = {} \/ dpc' \in {"wait", "exit", "lastEos", "done"}
  PROVE  Kept'
<1>1. /\ InCore' = InCore /\ Queued' = Queued /\ Outside' = Outside /\ Sent' = Sent
      /\ Apart(core)' = Apart(core) /\ Apart(padq)' = Apart(padq)
  BY DEF InCore, Queued, Outside, AddrsOf, Apart, Sent
<1>2. Held' = Held
  BY <1>1 DEF Held
<1> QED BY <1>1, <1>2 DEF Kept

LEMMA ReaderKeeps ==
  ASSUME DInv, Reader \/ ReadFails \/ ReaderStop
  PROVE  DInv'
<1>1. /\ UNCHANGED <<film, dpc, drun, size, again, input_bs_, pictures, downstream>>
      /\ "slow" \notin dfault' => "slow" \notin dfault
  BY DEF Reader, ReadNextFrame, PushData, ReadEof, ReadThreadOver, ReadFails, ReaderStop,
         readerVars, input_bs_, pictures, downstream, decHistory, DecFault
<1>2. Kept => Kept'
  BY <1>1, SameHolders DEF Kept, Worked, InHand, Picked, pictures, downstream, Held, InCore,
     Queued, Outside, AddrsOf
<1>3. /\ rnum' \in Nat /\ rnum <= rnum'
      /\ rpc' \in {"read", "push", "done"}
      /\ rat' \in 0 .. Len(film.units) /\ rloop' \in 0 .. film.loops
      /\ rpc' = "push" => rat' > 0 /\ rnum' > 0
      /\ rrun' \in BOOLEAN
  <2>1. /\ rat \in 0 .. Len(film.units) /\ rloop \in 0 .. film.loops /\ rnum \in Nat
        /\ rpc = "push" => rat > 0 /\ rnum > 0
        /\ rpc \in {"read", "push", "done"} /\ rrun \in BOOLEAN
        /\ film.loops \in Nat /\ Len(film.units) \in Nat
    BY FilmsAre DEF DInv, DecoderTypes, ReaderTypes
  <2>2. CASE ReadNextFrame
    BY <2>1, <2>2 DEF ReadNextFrame
  <2>3. CASE PushData \/ ReaderStop \/ ReadThreadOver
    <3>1. /\ UNCHANGED <<rat, rloop, rnum>>
          /\ rpc' \in {"read", "done"} \/ rpc' = rpc
      BY <2>3 DEF PushData, ReaderStop, ReadThreadOver
    <3>2. rrun' = rrun \/ rrun' = FALSE
      BY <2>3 DEF PushData, ReaderStop, ReadThreadOver
    <3>3. rrun' \in BOOLEAN
      BY <2>1, <3>2
    <3> QED BY <2>1, <3>1, <3>3
  <2>4. CASE ReadEof
    <3>1. rpc' = rpc /\ rpc = "read" /\ rnum' = rnum
      BY <2>4 DEF ReadEof
    <3>2. (rat' = rat \/ rat' = 0) /\ (rloop' = rloop \/ (rloop < film.loops /\ rloop' = rloop + 1))
      BY <2>4 DEF ReadEof
    <3>3. rrun' = rrun \/ rrun' = FALSE
      BY <2>4 DEF ReadEof
    <3>4. rrun' \in BOOLEAN
      BY <2>1, <3>3
    <3> QED BY <2>1, <3>1, <3>2, <3>4
  <2>5. CASE ReadFails
    <3>1. rpc' = "done" /\ UNCHANGED <<rat, rloop, rnum>>
      BY <2>5 DEF ReadFails
    <3>2. rrun' = rrun \/ rrun' = (rat = Len(film.units) /\ rloop < film.loops)
      BY <2>5 DEF ReadFails
    <3>3. rrun' \in BOOLEAN
      BY <2>1, <3>2
    <3> QED BY <2>1, <3>1, <3>3
  <2> QED BY <2>2, <2>3, <2>4, <2>5 DEF Reader
<1>4. Units \subseteq Units' /\ Slots \subseteq Slots' /\ Frames \subseteq Frames'
  BY <1>3 DEF Units, Slots, Frames, DInv, DecoderTypes, ReaderTypes
<1>5. /\ Seq(Units) \subseteq Seq(Units') /\ Seq(Slots) \subseteq Seq(Slots')
      /\ Seq(Frames \cup Marks) \subseteq Seq(Frames' \cup Marks)
  BY <1>4, SeqMonotonic
<1>6. /\ netq' \in [data : Seq(Units'), eos : BOOLEAN]
      /\ mempool' \in [data : Seq(Units'), eof : BOOLEAN] /\ Len(mempool'.data) <= PoolRoom
      /\ Len(mempool'.data) >= Len(mempool.data)
  <2>1. /\ netq \in [data : Seq(Units'), eos : BOOLEAN]
        /\ mempool \in [data : Seq(Units'), eof : BOOLEAN] /\ Len(mempool.data) <= PoolRoom
        /\ Len(mempool.data) \in Nat /\ PoolRoom \in Nat
        /\ mempool.data \in Seq(Units') /\ netq.data \in Seq(Units')
    <3>1. /\ netq \in [data : Seq(Units), eos : BOOLEAN]
          /\ mempool \in [data : Seq(Units), eof : BOOLEAN] /\ Len(mempool.data) <= PoolRoom
      BY DEF DInv, DecoderTypes, ReaderTypes
    <3>2. Len(mempool.data) \in Nat
      BY <3>1, LenProperties
    <3> QED BY <1>5, <3>1, <3>2, DecAssumption
  <2>2. CASE UNCHANGED <<netq, mempool>>
    BY <2>1, <2>2
  <2>3. CASE EndOfData
    <3>1. netq' \in [data : Seq(Units'), eos : BOOLEAN]
      BY <2>1, <2>3 DEF EndOfData
    <3>2. mempool' = [mempool EXCEPT !.eof = @ \/ ~film.rtsp]
      BY <2>3 DEF EndOfData
    <3>3. mempool' \in [data : Seq(Units'), eof : BOOLEAN] /\ mempool'.data = mempool.data
      BY <2>1, <3>2
    <3> QED BY <2>1, <3>1, <3>3
  <2>4. CASE PushData
    <3>1. PICK unit : /\ unit = [kind |-> film.units[rat], num |-> rnum]
                      /\ \/ /\ netq' = [netq EXCEPT !.data = Append(@, unit)]
                            /\ UNCHANGED mempool
                         \/ /\ Len(mempool.data) < PoolRoom
                            /\ mempool' = [mempool EXCEPT !.data = Append(@, unit)]
                            /\ UNCHANGED netq
      BY <2>4 DEF PushData
    <3>2. unit \in Units'
      <4>1. rat \in 1 .. Len(film.units) /\ rnum \in 1 .. rnum' /\ film.units \in Seq(Kinds)
        BY <1>3, <2>4, FilmsAre DEF PushData, DInv, DecoderTypes, ReaderTypes
      <4>2. film.units[rat] \in Kinds
        BY <4>1, ElementOfSeq
      <4> QED BY <3>1, <4>1, <4>2 DEF Units
    <3>3. /\ Append(netq.data, unit) \in Seq(Units') /\ Append(mempool.data, unit) \in Seq(Units')
          /\ Len(Append(mempool.data, unit)) = Len(mempool.data) + 1
      BY <2>1, <3>2, AppendProperties
    <3>4. ASSUME netq' = [netq EXCEPT !.data = Append(@, unit)], UNCHANGED mempool
          PROVE  /\ netq' \in [data : Seq(Units'), eos : BOOLEAN]
                 /\ mempool' \in [data : Seq(Units'), eof : BOOLEAN]
                 /\ Len(mempool'.data) <= PoolRoom /\ Len(mempool'.data) >= Len(mempool.data)
      <4>1. netq' = [data |-> Append(netq.data, unit), eos |-> netq.eos]
        BY <2>1, <3>4
      <4>2. netq.eos \in BOOLEAN
        BY <2>1
      <4>3. netq' \in [data : Seq(Units'), eos : BOOLEAN]
        BY <3>3, <4>1, <4>2
      <4> QED BY <2>1, <3>4, <4>3
    <3>5. ASSUME mempool' = [mempool EXCEPT !.data = Append(@, unit)], UNCHANGED netq,
                 Len(mempool.data) < PoolRoom
          PROVE  /\ netq' \in [data : Seq(Units'), eos : BOOLEAN]
                 /\ mempool' \in [data : Seq(Units'), eof : BOOLEAN]
                 /\ Len(mempool'.data) <= PoolRoom /\ Len(mempool'.data) >= Len(mempool.data)
      <4>1. netq' \in [data : Seq(Units'), eos : BOOLEAN]
        BY <2>1, <3>5
      <4>2. /\ mempool' \in [data : Seq(Units'), eof : BOOLEAN]
            /\ mempool'.data = Append(mempool.data, unit)
        BY <2>1, <3>3, <3>5
      <4>3. Len(mempool'.data) = Len(mempool.data) + 1
        BY <3>3, <4>2
      <4> QED BY <2>1, <3>5, <4>1, <4>2, <4>3
    <3> QED BY <3>1, <3>4, <3>5
  <2> QED BY <2>2, <2>3, <2>4
      DEF Reader, ReadNextFrame, ReadEof, ReadThreadOver, ReadFails, ReaderStop
<1>7. PictureTypes'
  <2>1. /\ InHand' = InHand /\ Picked' = Picked
    BY <1>1 DEF InHand, Picked, pictures
  <2>2. hand' \in [addr : Addresses \cup {0}, unit : 0 .. rnum'] /\ (InHand => hand' \in Slots')
    <3>1. hand' = hand /\ rnum \in Nat /\ (InHand => hand \in Slots)
          /\ hand \in [addr : Addresses \cup {0}, unit : 0 .. rnum]
      BY <1>1 DEF DInv, DecoderTypes, PictureTypes, ReaderTypes, pictures
    <3>2. 0 .. rnum \subseteq 0 .. rnum'
      BY <1>3, <3>1
    <3> QED BY <1>4, <3>1, <3>2
  <2>3. core' \in Seq(Slots') /\ padq' \in Seq(Frames' \cup Marks') /\ out' \subseteq Frames'
    <3>1. /\ core' = core /\ core \in Seq(Slots) /\ padq' = padq
          /\ padq \in Seq(Frames \cup Marks) /\ out' = out /\ out \subseteq Frames
      BY <1>1 DEF DInv, DecoderTypes, PictureTypes, pictures, downstream
    <3>2. Marks' = Marks
      BY DEF Marks
    <3>3. padq' \in Seq(Frames' \cup Marks)
      BY <1>5, <3>1
    <3> QED BY <1>4, <1>5, <3>1, <3>2, <3>3
  <2>4. dpc \in {"header", "look"} => seen <= Len(mempool'.data)
    <3>1. Len(mempool.data) \in Nat /\ Len(mempool'.data) \in Nat
      <4>1. mempool.data \in Seq(Units) /\ mempool'.data \in Seq(Units')
        BY <1>6 DEF DInv, DecoderTypes, ReaderTypes
      <4> QED BY <4>1, LenProperties
    <3>2. seen \in Nat /\ (dpc \in {"header", "look"} => seen <= Len(mempool.data))
      BY DecAssumption DEF DInv, DecoderTypes, PictureTypes
    <3> QED BY <1>6, <3>1, <3>2
  <2> QED BY <1>1, <2>1, <2>2, <2>3, <2>4
      DEF DInv, DecoderTypes, PictureTypes, pictures, downstream, input_bs_
<1>8. ReaderTypes'
  BY <1>1, <1>3, <1>6 DEF DInv, DecoderTypes, ReaderTypes, input_bs_, downstream
<1> QED BY <1>1, <1>2, <1>7, <1>8 DEF DInv, DecoderTypes

\* Steps of the decoder's thread that leave every surface to its holder.
Follows ==
  \/ dpc' = dpc
  \/ dpc = "top" /\ dpc' = IF size = 0 THEN "move" ELSE "surface"
  \/ dpc \in {"move", "count"} /\ dpc' \in {"count", "ask"}
  \/ dpc \in {"move", "ask"} /\ dpc' = IF size = 0 THEN "header" ELSE "look"
  \/ dpc = "look" /\ dpc' \in {"top", "update", "pushReset", "pushEos"}
  \/ dpc = "sync" /\ dpc' = "push"
  \/ dpc = "update" /\ dpc' = "top"
  \/ dpc = "header" /\ dpc' \in {"top", "left"}
  \/ dpc \in {"top", "wait", "surface"} /\ dpc' = "exit"
  \/ dpc = "exit" /\ dpc' \in {"done", "lastEos"}

LEMMA MovesOn ==
  ASSUME DInv, ReaderTypes', UNCHANGED <<rnum, size, core, hand, surfaces, gen, Locked, padq, out>>,
         seen' \in 0 .. PoolRoom, took' \in 0 .. 1,
         dpc' \in {"header", "look"} => seen' <= Len(mempool'.data),
         "slow" \in dfault => "slow" \in dfault',
         Follows
  PROVE  DInv'
<1>1. /\ InHand' = InHand /\ (Picked' => Picked)
      /\ dpc' # "crashed" \/ dpc' = dpc
      /\ dpc \in {"wait", "exit", "lastEos", "done"} => dpc' \in {"wait", "exit", "lastEos", "done"}
      /\ dpc' \in {"wait", "header"} => size = 0
      /\ dpc' \in {"surface", "look"} => size # 0
      /\ dpc' \in {"top", "wait", "surface", "move", "count", "ask", "header", "look", "sync",
                   "push", "pushReset", "pushEos", "lastEos", "update", "exit", "left", "done",
                   "crashed"}
  <2>1. /\ dpc \in {"wait", "header"} => size = 0
        /\ dpc \in {"surface", "look"} => size # 0
        /\ dpc \in {"top", "wait", "surface", "move", "count", "ask", "header", "look", "sync",
                    "push", "pushReset", "pushEos", "lastEos", "update", "exit", "left", "done",
                    "crashed"}
        /\ size' = size
    BY DEF DInv, DecoderTypes, PictureTypes
  <2> QED BY <2>1 DEF Follows, InHand, Picked
<1>2. PictureTypes'
  BY <1>1 DEF DInv, DecoderTypes, PictureTypes, Slots, Frames
<1>3. Kept => Kept'
  <2>1. SUFFICES ASSUME Kept PROVE Kept'
    OBVIOUS
  <2>2. /\ dpc' # "crashed" /\ Worked' = Worked
        /\ Picked' => hand'.addr \notin Held
        /\ size = 0 => surfaces = {} \/ dpc' \in {"wait", "exit", "lastEos", "done"}
    BY <1>1, <2>1 DEF Kept, Worked
  <2> QED BY <2>1, <2>2, SameHolders
<1> QED BY <1>2, <1>3 DEF DInv, DecoderTypes

LEMMA ReaderTypesStay ==
  ASSUME ReaderTypes, UNCHANGED <<film, rpc, rrun, rat, rloop, rnum, netq, mempool>>,
         again' \in BOOLEAN, none' \in BOOLEAN, ended' \in BOOLEAN, drun' \in BOOLEAN,
         peer' \in BOOLEAN
  PROVE  ReaderTypes'
BY DEF ReaderTypes, Units

\* What is in the pool and the Stream, taken apart.
LEMMA DataAre ==
  ASSUME DInv
  PROVE  /\ mempool.data \in Seq(Units) /\ Len(mempool.data) \in 0 .. PoolRoom
         /\ netq.data \in Seq(Units) /\ mempool.eof \in BOOLEAN /\ netq.eos \in BOOLEAN
         /\ PoolRoom \in Nat
         /\ mempool \in [data : Seq(Units), eof : BOOLEAN]
         /\ netq \in [data : Seq(Units), eos : BOOLEAN]
         /\ seen \in 0 .. PoolRoom /\ took \in 0 .. 1
         /\ again \in BOOLEAN /\ none \in BOOLEAN /\ ended \in BOOLEAN /\ drun \in BOOLEAN
         /\ peer \in BOOLEAN
<1>1. /\ mempool \in [data : Seq(Units), eof : BOOLEAN]
      /\ netq \in [data : Seq(Units), eos : BOOLEAN] /\ Len(mempool.data) <= PoolRoom
      /\ again \in BOOLEAN /\ none \in BOOLEAN /\ ended \in BOOLEAN /\ drun \in BOOLEAN
      /\ peer \in BOOLEAN
  BY DEF DInv, DecoderTypes, ReaderTypes
<1>2. seen \in 0 .. PoolRoom /\ took \in 0 .. 1
  BY DEF DInv, DecoderTypes, PictureTypes
<1>3. PoolRoom \in Nat /\ mempool.data \in Seq(Units) /\ netq.data \in Seq(Units)
  BY <1>1, DecAssumption
<1>4. Len(mempool.data) \in Nat
  BY <1>3, LenProperties
<1> QED BY <1>1, <1>2, <1>3, <1>4

\* Steps that change neither pool nor surfaces.
QuietStep ==
  \/ LoopTop /\ (~drun \/ ~again)
  \/ (WaitSurfaces \/ PickSurface) /\ ~drun
  \/ CountBlocks \/ UpdateBitStream \/ LookAgain \/ WantsMoreData \/ NewSequenceHeader
  \/ SkipFrame \/ DeviceFails \/ AfterLoop \/ DecoderStop
  \/ FlushDecoder /\ core = << >>
  \/ SyncOperation /\ dpc' = "push"

LEMMA QuietKeeps == ASSUME DInv, QuietStep PROVE DInv'
<1>1. /\ UNCHANGED <<film, rpc, rrun, rat, rloop, rnum, netq, mempool, size, core, surfaces, gen,
                     Locked, padq, out, hand, peer>>
      /\ "slow" \in dfault => "slow" \in dfault'
  BY DEF QuietStep, LoopTop, WaitSurfaces, PickSurface, CountBlocks, UpdateBitStream, LookAgain,
         WantsMoreData, NewSequenceHeader, SkipFrame, DeviceFails, AfterLoop, DecoderStop,
         FlushDecoder, SyncOperation, DecFault, reader, readerVars, pictures, downstream,
         decHistory, Found, GiveOut
<1>2. Follows
  BY DEF QuietStep, LoopTop, WaitSurfaces, PickSurface, CountBlocks, UpdateBitStream, LookAgain,
         WantsMoreData, NewSequenceHeader, SkipFrame, DeviceFails, AfterLoop, DecoderStop,
         FlushDecoder, SyncOperation, Follows, Look, ToDecode, Found
<1>3. again' \in BOOLEAN /\ none' \in BOOLEAN /\ ended' \in BOOLEAN /\ drun' \in BOOLEAN
  <2>1. again' = again \/ again' = TRUE \/ again' = FALSE
    BY DEF QuietStep, LoopTop, WaitSurfaces, PickSurface, CountBlocks, UpdateBitStream,
           LookAgain, WantsMoreData, NewSequenceHeader, SkipFrame, DeviceFails, AfterLoop,
           DecoderStop, FlushDecoder, SyncOperation, input_bs_, Found
  <2>2. none' = none \/ none' = (netq.data = << >>)
    BY DEF QuietStep, LoopTop, WaitSurfaces, PickSurface, CountBlocks, UpdateBitStream,
           LookAgain, WantsMoreData, NewSequenceHeader, SkipFrame, DeviceFails, AfterLoop,
           DecoderStop, FlushDecoder, SyncOperation, input_bs_, Found
  <2>3. ended' = ended \/ ended' = TRUE
    BY DEF QuietStep, LoopTop, WaitSurfaces, PickSurface, CountBlocks, UpdateBitStream,
           LookAgain, WantsMoreData, NewSequenceHeader, SkipFrame, DeviceFails, AfterLoop,
           DecoderStop, FlushDecoder, SyncOperation, input_bs_, Found
  <2>4. drun' = drun \/ drun' = FALSE
    BY DEF QuietStep, LoopTop, WaitSurfaces, PickSurface, CountBlocks, UpdateBitStream,
           LookAgain, WantsMoreData, NewSequenceHeader, SkipFrame, DeviceFails, AfterLoop,
           DecoderStop, FlushDecoder, SyncOperation, input_bs_, Found
  <2>5. again \in BOOLEAN /\ none \in BOOLEAN /\ ended \in BOOLEAN /\ drun \in BOOLEAN
    BY DataAre
  <2>6. again' \in BOOLEAN
    BY <2>1, <2>5
  <2>7. none' \in BOOLEAN
    BY <2>2, <2>5
  <2>8. ended' \in BOOLEAN
    BY <2>3, <2>5
  <2>9. drun' \in BOOLEAN
    BY <2>4, <2>5
  <2> QED BY <2>6, <2>7, <2>8, <2>9
<1>4. /\ seen' \in 0 .. PoolRoom /\ took' \in 0 .. 1
      /\ dpc' \in {"header", "look"} => seen' <= Len(mempool'.data)
  <2>1. /\ seen' = seen \/ seen' = Len(mempool.data)
        /\ took' = took \/ took' \in {0, 1}
        /\ seen' = Len(mempool.data) \/ dpc' = dpc \/ dpc' \notin {"header", "look"}
    BY DEF QuietStep, LoopTop, WaitSurfaces, PickSurface, CountBlocks, UpdateBitStream, LookAgain,
           WantsMoreData, NewSequenceHeader, SkipFrame, DeviceFails, AfterLoop, DecoderStop,
           FlushDecoder, SyncOperation, input_bs_, Found, NewOffset, Look, ToDecode
  <2>2. dpc \in {"header", "look"} => seen <= Len(mempool.data)
    BY DEF DInv, DecoderTypes, PictureTypes
  <2> QED BY <1>1, <2>1, <2>2, DataAre
<1>5. ReaderTypes'
  BY <1>1, <1>3, ReaderTypesStay, DataAre DEF DInv, DecoderTypes
<1> QED BY <1>1, <1>2, <1>4, <1>5, MovesOn

\* Units go from the Stream into the pool, and leave it.
LEMMA MoveBlockKeeps == ASSUME DInv, MoveBlock PROVE DInv'
<1>1. /\ UNCHANGED <<film, rpc, rrun, rat, rloop, rnum, drun, again, seen, none, ended, took, size,
                     core, surfaces, gen, Locked, padq, out, hand, peer, dfault>>
      /\ dpc = "move" /\ dpc' \in {"move", "count"}
  BY DEF MoveBlock, readerVars, input_bs_, pictures, downstream
<1>2. ReaderTypes'
  <2>1. CASE UNCHANGED <<netq, mempool>>
    BY <1>1, <2>1, ReaderTypesStay, DataAre DEF DInv, DecoderTypes
  <2>2. CASE ~ UNCHANGED <<netq, mempool>>
    <3>1. /\ Len(mempool.data) < PoolRoom /\ netq.data # << >>
          /\ netq' = [netq EXCEPT !.data = Tail(@)]
          /\ mempool' = [mempool EXCEPT !.data = Append(@, Head(netq.data))]
      BY <2>2 DEF MoveBlock
    <3>2. /\ Tail(netq.data) \in Seq(Units) /\ Head(netq.data) \in Units
      BY <3>1, DataAre, HeadTailProperties
    <3>3. /\ Append(mempool.data, Head(netq.data)) \in Seq(Units)
          /\ Len(Append(mempool.data, Head(netq.data))) = Len(mempool.data) + 1
      BY <3>2, DataAre, AppendProperties
    <3>4. /\ netq' \in [data : Seq(Units), eos : BOOLEAN]
          /\ mempool' \in [data : Seq(Units), eof : BOOLEAN]
          /\ mempool'.data = Append(mempool.data, Head(netq.data))
      BY <3>1, <3>2, <3>3, DataAre
    <3>5. Len(mempool'.data) <= PoolRoom
      BY <3>1, <3>3, <3>4, DataAre
    <3>6. Units' = Units
      BY <1>1 DEF Units
    <3> QED BY <1>1, <3>4, <3>5, <3>6 DEF DInv, DecoderTypes, ReaderTypes
  <2> QED BY <2>1, <2>2
<1> QED BY <1>1, <1>2, MovesOn, DataAre DEF Follows

LEMMA AskEndOfStreamKeeps == ASSUME DInv, AskEndOfStream PROVE DInv'
<1>1. /\ UNCHANGED <<film, rpc, rrun, rat, rloop, rnum, netq, drun, again, none, ended, took, size,
                     core, surfaces, gen, Locked, padq, out, hand, peer, dfault>>
      /\ dpc = "ask" /\ dpc' = IF size = 0 THEN "header" ELSE "look"
      /\ seen' = Len(mempool.data)
      /\ mempool' = [mempool EXCEPT !.eof = @ \/ (none /\ netq.eos)]
  BY DEF AskEndOfStream, Found, reader, readerVars, pictures, downstream
<1>2. mempool' \in [data : Seq(Units), eof : BOOLEAN] /\ mempool'.data = mempool.data
  BY <1>1, DataAre
<1>3. Units' = Units
  BY <1>1 DEF Units
<1>4. ReaderTypes'
  BY <1>1, <1>2, <1>3 DEF DInv, DecoderTypes, ReaderTypes
<1> QED BY <1>1, <1>2, <1>4, MovesOn, DataAre DEF Follows

\* A sequence of units without its first ones.
LEMMA UnitsLeft ==
  ASSUME DInv, NEW n \in Nat
  PROVE  LET left == SubSeq(mempool.data, n + 1, Len(mempool.data))
         IN  left \in Seq(Units) /\ Len(left) <= PoolRoom
<1> DEFINE m == Len(mempool.data)
           left == SubSeq(mempool.data, n + 1, m)
<1>1. mempool.data \in Seq(Units) /\ m \in 0 .. PoolRoom /\ PoolRoom \in Nat
  BY DataAre
<1>2. \A i \in n + 1 .. m : mempool.data[i] \in Units
  BY <1>1, ElementOfSeq
<1>3. /\ left \in Seq(Units)
      /\ Len(left) = IF n + 1 <= m THEN m - (n + 1) + 1 ELSE 0
  <2> HIDE DEF m
  <2> QED BY <1>1, <1>2, SubSeqProperties
<1> QED BY <1>1, <1>3

LEMMA UpdateMemPoolKeeps == ASSUME DInv, UpdateMemPool PROVE DInv'
<1>1. /\ UNCHANGED <<film, rpc, rrun, rat, rloop, rnum, netq, drun, again, seen, none, ended, size,
                     core, surfaces, gen, Locked, padq, out, hand, peer, dfault>>
      /\ dpc = "update" /\ dpc' = "top" /\ took' = 0
      /\ mempool' = [mempool EXCEPT !.data = SubSeq(@, took + 1, Len(@))]
  BY DEF UpdateMemPool, reader, readerVars, pictures, downstream
<1>2. /\ SubSeq(mempool.data, took + 1, Len(mempool.data)) \in Seq(Units)
      /\ Len(SubSeq(mempool.data, took + 1, Len(mempool.data))) <= PoolRoom
  BY DataAre, UnitsLeft
<1>3. mempool' \in [data : Seq(Units), eof : BOOLEAN] /\ Len(mempool'.data) <= PoolRoom
  BY <1>1, <1>2, DataAre
<1>4. Units' = Units
  BY <1>1 DEF Units
<1>5. ReaderTypes'
  BY <1>1, <1>3, <1>4 DEF DInv, DecoderTypes, ReaderTypes
<1> QED BY <1>1, <1>5, MovesOn, DataAre DEF Follows

-----------------------------------------------------------------------------
(* Locks and the sets of addresses. *)

LEMMA Modulo ==
  /\ \A x \in Int : x % Limit \in Counts
  /\ (0 + 1) % Limit = 1 /\ (1 - 1) % Limit = 0 /\ (1 + (-1)) % Limit = 0
  /\ (0 - 0) % Limit = 0 /\ (1 - 0) % Limit = 1
<1>1. Limit \in Nat /\ Limit > 1
  BY DEF Limit
<1>2. \A x \in Int : x % Limit \in 0 .. Limit - 1
  BY <1>1
<1>3. 1 % Limit = 1 /\ 0 % Limit = 0
  BY <1>1
<1> QED BY <1>2, <1>3 DEF Counts

LEMMA CountsAreNumbers == Counts \subseteq Nat /\ 0 \in Counts
BY DEF Counts, Limit

LEMMA LockIs ==
  ASSUME Locked \in [Addresses -> Counts], NEW a \in Addresses, NEW by \in {1, -1}, Lock(a, by)
  PROVE  /\ Locked' \in [Addresses -> Counts]
         /\ \A o \in Addresses \ {a} : Locked'[o] = Locked[o]
         /\ by = 1 /\ Locked[a] = 0 => Locked'[a] = 1
         /\ by = -1 /\ Locked[a] = 1 => Locked'[a] = 0
<1> DEFINE w == (Locked[a] + by) % Limit
<1>1. Locked' = [Locked EXCEPT ![a] = w]
  BY DEF Lock
<1>2. /\ w \in Counts
      /\ by = 1 /\ Locked[a] = 0 => w = 1
      /\ by = -1 /\ Locked[a] = 1 => w = 0
  <2>1. Locked[a] \in Nat
    BY CountsAreNumbers
  <2>2. Locked[a] + by \in Int
    BY <2>1
  <2> QED BY <2>1, <2>2, Modulo
<1> HIDE DEF w
<1> QED BY <1>1, <1>2

LEMMA PicturesAre ==
  ASSUME DInv
  PROVE  /\ Locked \in [Addresses -> Counts] /\ surfaces \subseteq Addresses
         /\ Addresses \subseteq Nat \ {0} /\ rnum \in Nat /\ gen \in Nat
         /\ core \in Seq(Slots) /\ Len(core) \in 0 .. DecDelay /\ DecDelay \in Nat
         /\ padq \in Seq(Frames \cup Marks) /\ Len(padq) \in 0 .. PadRoom /\ PadRoom \in Nat
         /\ out \subseteq Frames
         /\ InHand => hand \in Slots
         /\ Picked => hand.addr \in surfaces /\ hand.addr \in Addresses
         /\ hand \in [addr : Addresses \cup {0}, unit : 0 .. rnum]
<1>1. /\ Locked \in [Addresses -> Counts] /\ surfaces \subseteq Addresses /\ rnum \in Nat
      /\ core \in Seq(Slots) /\ Len(core) <= DecDelay /\ gen \in Nat
      /\ padq \in Seq(Frames \cup Marks) /\ Len(padq) <= PadRoom
      /\ out \subseteq Frames
      /\ InHand => hand \in Slots
      /\ Picked => hand.addr \in surfaces
      /\ hand \in [addr : Addresses \cup {0}, unit : 0 .. rnum]
  BY DEF DInv, DecoderTypes, PictureTypes, ReaderTypes
<1>2. Len(core) \in Nat /\ Len(padq) \in Nat
  BY <1>1, LenProperties
<1>3. Addresses \subseteq Nat \ {0} /\ PadRoom \in Nat /\ DecDelay \in Nat
  BY DecAssumption
<1> QED BY <1>1, <1>2, <1>3

LEMMA HoldersAre ==
  ASSUME DInv
  PROVE  /\ InCore \subseteq Addresses /\ Queued \subseteq Addresses /\ Outside \subseteq Addresses
         /\ Worked \subseteq Addresses
         /\ \A b \in ToSet(padq) : b.kind = "frame" => b \in Frames /\ b.addr \in Queued
         /\ \A a \in Queued : \E b \in ToSet(padq) : b.kind = "frame" /\ b.addr = a
         /\ \A b \in Sent : b \in Frames /\ b.addr \in Queued \cup Outside
         /\ InCore = {s.addr : s \in ToSet(core)}
<1>1. \A i \in DOMAIN core : core[i] \in Slots
  BY PicturesAre, LenProperties
<1>2. \A i \in DOMAIN padq : padq[i] \in Frames \cup Marks
  BY PicturesAre, LenProperties
<1>3. /\ \A s \in Slots : s.addr \in Addresses
      /\ \A b \in Frames : b.addr \in Addresses /\ b.kind = "frame"
      /\ \A b \in Marks : b.addr = 0 /\ b.kind # "frame"
      /\ 0 \notin Addresses
  BY PicturesAre DEF Slots, Frames, Marks
<1>4. InCore \subseteq Addresses /\ InCore = {s.addr : s \in ToSet(core)}
  BY <1>1, <1>3 DEF InCore, AddrsOf, ToSet
<1>5. Queued \subseteq Addresses
  BY <1>2, <1>3 DEF Queued, AddrsOf
<1>6. \A b \in ToSet(padq) : b.kind = "frame" => b \in Frames /\ b.addr \in Queued
  BY <1>2, <1>3 DEF Queued, AddrsOf, ToSet
<1>7. \A a \in Queued : \E b \in ToSet(padq) : b.kind = "frame" /\ b.addr = a
  BY <1>2, <1>3 DEF Queued, AddrsOf, ToSet
<1>8. Outside \subseteq Addresses /\ \A b \in out : b \in Frames /\ b.addr \in Outside
  BY <1>3, PicturesAre DEF Outside
<1>9. Worked \subseteq Addresses
  BY <1>3, PicturesAre DEF Worked
<1> QED BY <1>4, <1>5, <1>6, <1>7, <1>8, <1>9 DEF Sent

LEMMA SameAddress ==
  ASSUME NEW T, NEW q \in Seq(T), Apart(q), NEW a, a # 0
  PROVE  Cardinality({s \in ToSet(q) : s.addr = a}) = One(a \in AddrsOf(q))
<1> DEFINE H == {s \in ToSet(q) : s.addr = a}
<1>1. CASE a \in AddrsOf(q)
  <2>1. PICK i \in DOMAIN q : q[i].addr = a
    BY <1>1 DEF AddrsOf
  <2>2. H = {q[i]}
    BY <2>1 DEF ToSet, Apart
  <2>3. Cardinality(H) = 1
    <3> HIDE DEF H
    <3> QED BY <2>2, FS_Singleton
  <2> QED BY <1>1, <2>3 DEF One
<1>2. CASE a \notin AddrsOf(q)
  <2>1. H = {}
    BY <1>2 DEF AddrsOf, ToSet
  <2>2. Cardinality(H) = 0
    <3> HIDE DEF H
    <3> QED BY <2>1, FS_EmptySet
  <2> QED BY <1>2, <2>2 DEF One
<1> QED BY <1>1, <1>2

LEMMA NumberIsFinite ==
  ASSUME NEW T, NEW q \in Seq(T), NEW a
  PROVE  Cardinality({s \in ToSet(q) : s.addr = a}) \in Nat
<1>1. Len(q) \in Nat /\ DOMAIN q = 1 .. Len(q)
  BY LenProperties
<1>2. IsFiniteSet(1 .. Len(q))
  BY <1>1, FS_Interval
<1>3. IsFiniteSet({q[i] : i \in 1 .. Len(q)})
  <2> DEFINE N == 1 .. Len(q)
             M == {q[i] : i \in N}
             f == [i \in N |-> q[i]]
  <2>1. f \in Surjection(N, M)
    BY DEF Surjection
  <2>2. IsFiniteSet(M)
    <3> HIDE DEF N, M, f
    <3> QED BY <1>2, <2>1, FS_Surjection DEF N
  <2> QED BY <2>2
<1>4. IsFiniteSet(ToSet(q))
  BY <1>1, <1>3 DEF ToSet
<1>5. IsFiniteSet({s \in ToSet(q) : s.addr = a})
  BY <1>4, FS_Subset
<1> QED BY <1>5, FS_CardinalityType

\* What the codec and the thread hold changes, nothing downstream.
LEMMA CoreMoves ==
  ASSUME Kept, UNCHANGED <<surfaces, gen, padq, out, size>>, size # 0,
         dpc' # "crashed", ~Picked', Apart(core)', InCore' \cap Worked' = {},
         (InCore' \cup Worked') \cap (Queued \cup Outside) = {},
         InCore' \cup Worked' \subseteq surfaces,
         \A a \in Addresses : Locked'[a] = IF a \in Held' THEN 1 ELSE 0
  PROVE  Kept'
<1>1. Queued' = Queued /\ Outside' = Outside /\ Apart(padq)' = Apart(padq) /\ Sent' = Sent
  BY DEF Queued, Outside, AddrsOf, Apart, Sent
<1>2. Held' \subseteq surfaces'
  BY <1>1 DEF Held, Kept
<1> QED BY <1>1, <1>2 DEF Kept

\* The codec is closed: what it held is locked no longer.
LEMMA CloseKeeps == ASSUME DInv, LoopTop, drun, again PROVE DInv'
<1>1. /\ UNCHANGED <<film, rpc, rrun, rat, rloop, rnum, netq, mempool, drun, seen, none, ended, took,
                     surfaces, gen, padq, out, hand, peer, dfault>>
      /\ dpc = "top" /\ dpc' = "wait" /\ again' = FALSE /\ size' = 0 /\ core' = << >>
  BY DEF LoopTop, reader, readerVars, input_bs_, downstream, decHistory
<1>2. Locked' = [a \in Addresses |->
                   (Locked[a] - Cardinality({s \in ToSet(core) : s.addr = a})) % Limit]
  BY DEF LoopTop
<1>3. Locked' \in [Addresses -> Counts]
  <2>1. ASSUME NEW a \in Addresses
        PROVE  (Locked[a] - Cardinality({s \in ToSet(core) : s.addr = a})) % Limit \in Counts
    <3>1. Locked[a] \in Nat /\ Cardinality({s \in ToSet(core) : s.addr = a}) \in Nat
      BY PicturesAre, NumberIsFinite, CountsAreNumbers
    <3>2. Locked[a] - Cardinality({s \in ToSet(core) : s.addr = a}) \in Int
      BY <3>1
    <3> QED BY <3>2, Modulo
  <2> QED BY <1>2, <2>1
<1>4. /\ InHand' = InHand /\ ~InHand /\ ~Picked'
      /\ Slots' = Slots /\ Frames' = Frames /\ << >> \in Seq(Slots) /\ Len(<< >>) = 0
  BY <1>1, EmptySeq DEF InHand, Picked, Slots, Frames
<1>5. ReaderTypes'
  BY <1>1, ReaderTypesStay, DataAre DEF DInv, DecoderTypes
<1>6. PictureTypes'
  <2>1. core' \in Seq(Slots') /\ Len(core') <= DecDelay
    BY <1>1, <1>4, PicturesAre
  <2> QED BY <1>1, <1>3, <1>4, <2>1 DEF DInv, DecoderTypes, PictureTypes
<1>7. ASSUME Kept PROVE Kept'
  <2>1. /\ InCore' = {} /\ Queued' = Queued /\ Outside' = Outside /\ Sent' = Sent /\ Worked' = {}
        /\ Apart(core') /\ Apart(padq)' = Apart(padq) /\ Worked = {}
    <3>1. DOMAIN << >> = {}
      OBVIOUS
    <3> QED BY <1>1, <1>4, <3>1 DEF InCore, Queued, Outside, Sent, AddrsOf, Apart, Worked
  <2>2. ASSUME NEW a \in Addresses PROVE Locked'[a] = IF a \in Held' THEN 1 ELSE 0
    <3>1. Cardinality({s \in ToSet(core) : s.addr = a}) = One(a \in InCore)
      BY <1>7, SameAddress, PicturesAre DEF Kept, InCore
    <3>2. Locked[a] = IF a \in Held THEN 1 ELSE 0
      BY <1>7 DEF Kept
    <3>3. a \in Held' <=> a \in Held /\ a \notin InCore
      BY <1>7, <2>1 DEF Kept, Held
    <3>4. CASE a \in InCore
      <4>1. Locked[a] = 1 /\ a \notin Held'
        BY <3>2, <3>3, <3>4 DEF Held
      <4> QED BY <1>2, <3>1, <3>4, <4>1, Modulo DEF One
    <3>5. CASE a \notin InCore /\ a \in Held
      BY <1>2, <3>1, <3>2, <3>3, <3>5, Modulo DEF One
    <3>6. CASE a \notin InCore /\ a \notin Held
      BY <1>2, <3>1, <3>2, <3>3, <3>6, Modulo DEF One
    <3> QED BY <3>4, <3>5, <3>6
  <2>3. Held' \subseteq Held
    BY <2>1 DEF Held
  <2> QED BY <1>1, <1>4, <1>7, <2>1, <2>2, <2>3 DEF Kept
<1> QED BY <1>1, <1>5, <1>6, <1>7 DEF DInv, DecoderTypes

\* With every surface released, or with time run out, the pool is freed.
LEMMA FreeKeeps == ASSUME DInv, WaitSurfaces, drun PROVE DInv'
<1>1. /\ UNCHANGED <<film, rpc, rrun, rat, rloop, rnum, netq, mempool, drun, again, seen, none, ended,
                     took, size, core, gen, padq, out, hand, peer>>
      /\ dpc = "wait" /\ dpc' = "move" /\ surfaces' = {}
      /\ \/ AllReleased /\ dfault' = dfault
         \/ dfault' = {"slow"}
      /\ Locked' = [a \in Addresses |-> 0]
  BY DEF WaitSurfaces, DecFault, reader, readerVars, input_bs_, downstream, decHistory
<1>2. size = 0
  BY <1>1 DEF DInv, DecoderTypes, PictureTypes
<1>3. /\ InHand' = InHand /\ ~InHand /\ ~Picked'
      /\ Slots' = Slots /\ Frames' = Frames /\ Locked' \in [Addresses -> Counts]
  BY <1>1, <1>2, CountsAreNumbers DEF InHand, Picked, Slots, Frames
<1>4. ReaderTypes'
  BY <1>1, ReaderTypesStay, DataAre DEF DInv, DecoderTypes
<1>5. PictureTypes'
  BY <1>1, <1>2, <1>3 DEF DInv, DecoderTypes, PictureTypes
<1>6. ASSUME Kept, AllReleased PROVE Kept'
  <2>1. Held = {}
    <3>1. ASSUME NEW a \in Held PROVE FALSE
      <4>1. a \in surfaces /\ a \in Addresses
        BY <1>6, PicturesAre DEF Kept
      <4>2. Locked[a] = 1 /\ Locked[a] = 0
        BY <1>6, <4>1 DEF Kept, AllReleased
      <4> QED BY <4>2
    <3> QED BY <3>1
  <2>2. /\ InCore' = InCore /\ Queued' = Queued /\ Outside' = Outside /\ Sent' = Sent
        /\ Apart(core)' = Apart(core) /\ Apart(padq)' = Apart(padq) /\ Worked' = Worked
    BY <1>1, <1>3 DEF InCore, Queued, Outside, Sent, AddrsOf, Apart, Worked
  <2>3. Held' = {}
    BY <2>1, <2>2 DEF Held
  <2> QED BY <1>1, <1>2, <1>3, <1>6, <2>2, <2>3 DEF Kept
<1> QED BY <1>1, <1>4, <1>5, <1>6 DEF DInv, DecoderTypes

LEMMA PickKeeps == ASSUME DInv, PickSurface, drun PROVE DInv'
<1> DEFINE S == {a \in surfaces : Locked[a] = 0}
<1>1. /\ UNCHANGED <<film, rpc, rrun, rat, rloop, rnum, netq, mempool, drun, again, seen, none, ended,
                     took, size, core, surfaces, gen, Locked, padq, out, peer, dfault>>
      /\ dpc = "surface" /\ dpc' = "move"
      /\ hand' = [addr |-> Min(S), unit |-> 0] /\ S # {}
  BY DEF PickSurface, reader, readerVars, input_bs_, downstream, decHistory
<1>2. Min(S) \in S
  <2>1. S \subseteq Nat
    BY PicturesAre
  <2> HIDE DEF S
  <2> QED BY <1>1, <2>1, MinIsLeast
<1>3. /\ hand' \in [addr : Addresses \cup {0}, unit : 0 .. rnum]
      /\ hand'.addr \in surfaces /\ hand'.addr \in Addresses /\ Locked[hand'.addr] = 0
  BY <1>1, <1>2, PicturesAre
<1>4. size # 0 /\ ~InHand /\ ~InHand' /\ Slots' = Slots /\ Frames' = Frames
  BY <1>1 DEF DInv, DecoderTypes, PictureTypes, InHand, Slots, Frames
<1> HIDE DEF S
<1>5. ReaderTypes'
  BY <1>1, ReaderTypesStay, DataAre DEF DInv, DecoderTypes
<1>6. PictureTypes'
  BY <1>1, <1>3, <1>4 DEF DInv, DecoderTypes, PictureTypes
<1>7. ASSUME Kept PROVE Kept'
  <2>1. hand'.addr \notin Held
    BY <1>3, <1>7 DEF Kept
  <2>2. Worked' = Worked
    BY <1>4 DEF Worked
  <2> QED BY <1>1, <1>4, <1>7, <2>1, <2>2, SameHolders
<1> QED BY <1>1, <1>5, <1>6, <1>7 DEF DInv, DecoderTypes

\* A new pool is allocated only where nobody holds a surface of the old one.
LEMMA DecodeHeaderKeeps == ASSUME DInv, DecodeHeader PROVE DInv'
<1>1. PICK over : /\ over \in Nat
                  /\ mempool' = [mempool EXCEPT !.data = SubSeq(@, over + 1, Len(@))]
                  /\ \/ dpc' = "top" /\ UNCHANGED <<size, surfaces, gen, dfault>>
                     \/ DecFault("init") /\ dpc' = "left" /\ UNCHANGED <<size, surfaces, gen>>
                     \/ /\ dpc' = "surface" /\ gen' = gen + 1 /\ size' \in {1, 2}
                        /\ surfaces' \in IF gen = 0 THEN {1 .. DecSurfaces}
                                         ELSE kSubset(DecSurfaces, Addresses)
                        /\ UNCHANGED dfault
  <2> DEFINE units == SubSeq(mempool.data, 1, seen)
             first == {i \in 1 .. seen : IsKey(units[i])}
             over == IF first = {} THEN seen ELSE Min(first) - 1
  <2>1. over \in Nat
    <3>1. seen \in Nat
      BY DataAre
    <3>2. first \subseteq Nat /\ first \subseteq 1 .. seen
      BY <3>1
    <3>3. first # {} => Min(first) \in first
      <4> HIDE DEF first
      <4> QED BY <3>2, MinIsLeast
    <3>4. ASSUME first # {} PROVE Min(first) - 1 \in Nat
      <4>1. Min(first) \in 1 .. seen
        BY <3>2, <3>3, <3>4
      <4> QED BY <3>1, <4>1
    <3> HIDE DEF first, units
    <3> QED BY <3>1, <3>4
  <2>2. mempool' = [mempool EXCEPT !.data = SubSeq(@, over + 1, Len(@))]
    BY DEF DecodeHeader
  <2>3. \/ dpc' = "top" /\ UNCHANGED <<size, surfaces, gen, dfault>>
        \/ DecFault("init") /\ dpc' = "left" /\ UNCHANGED <<size, surfaces, gen>>
        \/ /\ dpc' = "surface" /\ gen' = gen + 1 /\ size' = SizeOf(units[over + 1])
           /\ surfaces' \in IF gen = 0 THEN {1 .. DecSurfaces}
                            ELSE kSubset(DecSurfaces, Addresses)
           /\ UNCHANGED dfault
    BY DEF DecodeHeader
  <2>4. SizeOf(units[over + 1]) \in {1, 2}
    BY DEF SizeOf
  <2> HIDE DEF over, units
  <2> QED BY <2>1, <2>2, <2>3, <2>4
<1>2. /\ UNCHANGED <<film, rpc, rrun, rat, rloop, rnum, netq, drun, again, seen, none, ended, took,
                     core, Locked, padq, out, hand, peer>>
      /\ dpc = "header"
  BY DEF DecodeHeader, reader, readerVars, input_bs_, downstream
<1>3. size = 0
  BY <1>2 DEF DInv, DecoderTypes, PictureTypes
<1>4. ReaderTypes'
  <2>1. /\ SubSeq(mempool.data, over + 1, Len(mempool.data)) \in Seq(Units)
        /\ Len(SubSeq(mempool.data, over + 1, Len(mempool.data))) <= PoolRoom
    BY <1>1, UnitsLeft
  <2>2. mempool' \in [data : Seq(Units), eof : BOOLEAN] /\ Len(mempool'.data) <= PoolRoom
    BY <1>1, <2>1, DataAre
  <2>3. Units' = Units
    BY <1>2 DEF Units
  <2> QED BY <1>2, <2>2, <2>3 DEF DInv, DecoderTypes, ReaderTypes
<1>5. CASE dpc' = "top" \/ dpc' = "left"
  <2>1. UNCHANGED <<size, surfaces, gen>> /\ ("slow" \in dfault => "slow" \in dfault')
    BY <1>1, <1>5 DEF DecFault
  <2> QED BY <1>2, <1>4, <1>5, <2>1, MovesOn, DataAre DEF Follows
<1>6. CASE dpc' = "surface"
  <2>1. size' \in {1, 2} /\ gen' \in Nat /\ dfault' = dfault
    BY <1>1, <1>6, PicturesAre
  <2>2. surfaces' \subseteq Addresses
    <3>1. 1 .. DecSurfaces \subseteq Addresses
      BY DecAssumption
    <3>2. \A s \in kSubset(DecSurfaces, Addresses) : s \subseteq Addresses
      BY DEF kSubset
    <3>3. surfaces' \in IF gen = 0 THEN {1 .. DecSurfaces} ELSE kSubset(DecSurfaces, Addresses)
      BY <1>1, <1>6
    <3> QED BY <3>1, <3>2, <3>3
  <2>3. ~InHand /\ ~InHand' /\ ~Picked' /\ Slots' = Slots /\ Frames' = Frames
    BY <1>2, <1>6 DEF InHand, Picked, Slots, Frames
  <2>4. PictureTypes'
    BY <1>2, <1>6, <2>1, <2>2, <2>3 DEF DInv, DecoderTypes, PictureTypes
  <2>5. ASSUME Kept PROVE Kept'
    <3>1. surfaces = {} /\ Held = {} /\ core = << >>
      BY <1>2, <1>3, <2>5 DEF Kept
    <3>2. /\ InCore' = InCore /\ Queued' = Queued /\ Outside' = Outside /\ Sent' = Sent
          /\ Apart(core)' = Apart(core) /\ Apart(padq)' = Apart(padq) /\ Worked' = Worked
      BY <1>2, <2>3 DEF InCore, Queued, Outside, Sent, AddrsOf, Apart, Worked
    <3>3. Held' = {} /\ Sent = {}
      <4>1. \A b \in Sent : b.addr \in Held
        BY HoldersAre DEF Held
      <4> QED BY <3>1, <3>2, <4>1 DEF Held
    <3>4. \A a \in Addresses : Locked'[a] = IF a \in Held' THEN 1 ELSE 0
      BY <1>2, <2>5, <3>1, <3>3 DEF Kept
    <3>5. size' # 0
      BY <2>1
    <3>6. /\ InCore' = {} /\ Queued' = {} /\ Outside' = {} /\ Worked' = {}
          /\ Sent' = {} /\ Apart(core)' /\ Apart(padq)'
      BY <2>5, <3>2, <3>3 DEF Held, Kept
    <3>7. \A b, c \in out' : b.addr = c.addr => b = c
      BY <1>2, <2>5 DEF Kept
    <3> QED BY <1>6, <2>3, <3>3, <3>4, <3>5, <3>6, <3>7 DEF Kept
  <2> QED BY <1>4, <2>1, <2>4, <2>5 DEF DInv, DecoderTypes
<1> QED BY <1>1, <1>5, <1>6

\* The picture decoded is locked by the codec, which may give one out.
LEMMA DecodeKeeps == ASSUME DInv, DecodeFrameAsync PROVE DInv'
<1> DEFINE x == [hand EXCEPT !.unit = Unit.num]
           held == Append(core, x)
<1>1. /\ UNCHANGED <<film, rpc, rrun, rat, rloop, rnum, netq, mempool, drun, again, seen, none, ended,
                     size, surfaces, gen, padq, out, peer, dfault>>
      /\ dpc = "look" /\ seen > 0 /\ took' = 1 /\ Lock(hand.addr, 1)
      /\ \/ /\ Len(held) > DecDelay
            /\ hand' = Head(held) /\ core' = Tail(held) /\ dpc' = "sync"
         \/ /\ ~(Len(held) > DecDelay)
            /\ dpc' = "update" /\ core' = held /\ hand' = hand
  BY DEF DecodeFrameAsync, ToDecode, Look, GiveOut, reader, readerVars, downstream, decHistory
<1>2. /\ size # 0 /\ Picked /\ ~InHand /\ seen <= Len(mempool.data)
  BY <1>1 DEF DInv, DecoderTypes, PictureTypes, Picked, InHand
<1>3. hand.addr \in surfaces /\ hand.addr \in Addresses /\ hand.addr # 0
  BY <1>2, PicturesAre
<1>4. Unit \in Units
  <2>1. Len(mempool.data) # 0 /\ mempool.data \in Seq(Units)
    BY <1>1, <1>2, DataAre
  <2>2. mempool.data # << >>
    BY <2>1, EmptySeq
  <2> QED BY <2>1, <2>2, HeadTailProperties DEF Unit
<1>5. x \in Slots /\ x.addr = hand.addr
  BY <1>3, <1>4, PicturesAre DEF Slots, Units
<1> HIDE DEF x
<1>6. /\ held \in Seq(Slots) /\ Len(held) = Len(core) + 1
      /\ AddrsOf(held) = InCore \cup {hand.addr}
      /\ Apart(core) /\ hand.addr \notin InCore => Apart(held)
      /\ core \in Seq(Slots) /\ Len(core) \in 0 .. DecDelay /\ DecDelay \in Nat
  BY <1>3, <1>5, AddrPut, PicturesAre DEF InCore
<1>7. /\ Head(held) \in Slots /\ Tail(held) \in Seq(Slots) /\ Len(Tail(held)) = Len(held) - 1
      /\ AddrsOf(held) = AddrsOf(Tail(held)) \cup ({Head(held).addr} \ {0})
      /\ Apart(held) => Apart(Tail(held)) /\ Head(held).addr \notin AddrsOf(Tail(held))
      /\ Head(held).addr # 0
  <2>1. held # << >>
    BY <1>6, EmptySeq
  <2>2. Head(held) \in Slots
    BY <1>6, <2>1, AddrTaken
  <2>3. Head(held).addr # 0
    BY <2>2, PicturesAre DEF Slots
  <2> HIDE DEF held
  <2> QED BY <1>6, <2>1, <2>2, <2>3, AddrTaken
<1>8. /\ Locked' \in [Addresses -> Counts]
      /\ \A o \in Addresses \ {hand.addr} : Locked'[o] = Locked[o]
      /\ Locked[hand.addr] = 0 => Locked'[hand.addr] = 1
  BY <1>1, <1>3, LockIs, PicturesAre
<1> HIDE DEF held
<1>9. ~Picked' /\ Slots' = Slots /\ Frames' = Frames
  BY <1>1 DEF Picked, Slots, Frames
<1>10. ReaderTypes'
  BY <1>1, ReaderTypesStay, DataAre DEF DInv, DecoderTypes
<1>11. PictureTypes'
  <2>1. core' \in Seq(Slots) /\ Len(core') <= DecDelay
    BY <1>1, <1>6, <1>7
  <2>2. hand' \in [addr : Addresses \cup {0}, unit : 0 .. rnum] /\ (InHand' => hand' \in Slots)
    <3>1. \A s \in Slots : s \in [addr : Addresses \cup {0}, unit : 0 .. rnum]
      BY PicturesAre DEF Slots
    <3> QED BY <1>1, <1>7, <3>1, PicturesAre DEF InHand
  <2> QED BY <1>1, <1>2, <1>8, <1>9, <2>1, <2>2 DEF DInv, DecoderTypes, PictureTypes
<1>12. ASSUME Kept PROVE Kept'
  <2>1. hand.addr \notin Held /\ Worked = {} /\ Locked[hand.addr] = 0
    BY <1>2, <1>3, <1>12 DEF Kept, Worked
  <2>2. Apart(held)
    BY <1>6, <1>12, <2>1 DEF Kept, Held
  <2>3. /\ Apart(core)' /\ InCore' \cap Worked' = {}
        /\ InCore' \cup Worked' = InCore \cup {hand.addr} /\ dpc' # "crashed"
    <3>1. CASE dpc' = "sync"
      <4>1. hand' = Head(held) /\ core' = Tail(held)
        BY <1>1, <3>1
      <4>2. InCore' = AddrsOf(Tail(held)) /\ Worked' = {Head(held).addr} /\ Apart(core)'
        BY <1>7, <2>2, <3>1, <4>1 DEF InCore, Worked, InHand, AddrsOf, Apart
      <4> QED BY <1>6, <1>7, <2>2, <3>1, <4>2
    <3>2. CASE dpc' = "update"
      <4>1. core' = held
        BY <1>1, <3>2
      <4>2. InCore' = AddrsOf(held) /\ Worked' = {} /\ Apart(core)'
        BY <2>2, <3>2, <4>1 DEF InCore, Worked, InHand, AddrsOf, Apart
      <4> QED BY <1>6, <3>2, <4>2
    <3> QED BY <1>1, <3>1, <3>2
  <2>4. Queued' = Queued /\ Outside' = Outside
    BY <1>1 DEF Queued, Outside, AddrsOf
  <2>5. Held' = Held \cup {hand.addr}
    BY <2>1, <2>3, <2>4 DEF Held
  <2>6. ASSUME NEW a \in Addresses PROVE Locked'[a] = IF a \in Held' THEN 1 ELSE 0
    BY <1>8, <1>12, <2>1, <2>5 DEF Kept
  <2>7. (InCore' \cup Worked') \cap (Queued \cup Outside) = {} /\ InCore' \cup Worked' \subseteq surfaces
    BY <1>3, <1>12, <2>1, <2>3 DEF Kept, Held
  <2> QED BY <1>1, <1>2, <1>9, <1>12, <2>3, <2>6, <2>7, CoreMoves
<1> QED BY <1>1, <1>10, <1>11, <1>12 DEF DInv, DecoderTypes

LEMMA FlushKeeps == ASSUME DInv, FlushDecoder, core # << >> PROVE DInv'
<1>1. /\ UNCHANGED <<film, rpc, rrun, rat, rloop, rnum, netq, mempool, drun, again, seen, none, ended,
                     took, size, surfaces, gen, Locked, padq, out, peer, dfault>>
      /\ dpc = "look" /\ dpc' = "sync" /\ hand' = Head(core) /\ core' = Tail(core)
  BY DEF FlushDecoder, Look, GiveOut, reader, readerVars, input_bs_, downstream, decHistory
<1>2. size # 0 /\ Worked = {} /\ ~Picked' /\ Slots' = Slots /\ Frames' = Frames
  BY <1>1 DEF DInv, DecoderTypes, PictureTypes, Picked, InHand, Worked, Slots, Frames
<1>3. /\ hand' \in Slots /\ core' \in Seq(Slots) /\ Len(core') = Len(core) - 1
      /\ InCore = AddrsOf(core') \cup ({hand'.addr} \ {0})
      /\ Apart(core) => Apart(core') /\ hand'.addr \notin AddrsOf(core')
  BY <1>1, AddrTaken, PicturesAre DEF InCore
<1>4. hand'.addr # 0 /\ hand' \in [addr : Addresses \cup {0}, unit : 0 .. rnum]
  BY <1>3, PicturesAre DEF Slots
<1>5. ReaderTypes'
  BY <1>1, ReaderTypesStay, DataAre DEF DInv, DecoderTypes
<1>6. Len(core') <= DecDelay
  BY <1>3, PicturesAre
<1>7. PictureTypes'
  BY <1>1, <1>2, <1>3, <1>4, <1>6 DEF DInv, DecoderTypes, PictureTypes
<1>8. ASSUME Kept PROVE Kept'
  <2>1. InCore' = AddrsOf(core') /\ Worked' = {hand'.addr} /\ Apart(core)'
    BY <1>1, <1>3, <1>8 DEF InCore, Worked, InHand, AddrsOf, Apart, Kept
  <2>2. InCore' \cap Worked' = {} /\ InCore' \cup Worked' = InCore
    BY <1>3, <1>4, <1>8, <2>1 DEF Kept
  <2>3. Queued' = Queued /\ Outside' = Outside
    BY <1>1 DEF Queued, Outside, AddrsOf
  <2>4. Held' = Held
    BY <1>2, <2>2, <2>3 DEF Held
  <2>5. ASSUME NEW a \in Addresses PROVE Locked'[a] = IF a \in Held' THEN 1 ELSE 0
    BY <1>1, <1>8, <2>4 DEF Kept
  <2>6. (InCore' \cup Worked') \cap (Queued \cup Outside) = {} /\ InCore' \cup Worked' \subseteq surfaces
    BY <1>8, <2>2 DEF Kept, Held
  <2> QED BY <1>1, <1>2, <1>8, <2>1, <2>2, <2>5, <2>6, CoreMoves
<1> QED BY <1>1, <1>5, <1>7, <1>8 DEF DInv, DecoderTypes

\* A picture that goes nowhere: its synchronisation failed, or there is no one
\* to take it.
LEMMA DroppedKeeps ==
  ASSUME DInv, UNCHANGED <<film, rpc, rrun, rat, rloop, rnum, netq, mempool, drun, again, seen, none,
                           ended, took, size, core, hand, surfaces, gen, padq, out, peer>>,
         InHand, dpc' = "update", Lock(hand.addr, -1), "slow" \in dfault => "slow" \in dfault'
  PROVE  DInv'
<1>1. hand.addr \in Addresses /\ Worked = {hand.addr}
  BY PicturesAre DEF Slots, Worked
<1>2. /\ Locked' \in [Addresses -> Counts]
      /\ \A o \in Addresses \ {hand.addr} : Locked'[o] = Locked[o]
      /\ Locked[hand.addr] = 1 => Locked'[hand.addr] = 0
  BY <1>1, LockIs, PicturesAre
<1>3. ~Picked' /\ ~InHand' /\ Worked' = {} /\ Slots' = Slots /\ Frames' = Frames
  BY DEF Picked, InHand, Worked, Slots, Frames
<1>4. ReaderTypes'
  BY ReaderTypesStay, DataAre DEF DInv, DecoderTypes
<1>5. PictureTypes'
  BY <1>2, <1>3 DEF DInv, DecoderTypes, PictureTypes
<1>6. ASSUME Kept PROVE Kept'
  <2>1. /\ InCore' = InCore /\ Queued' = Queued /\ Outside' = Outside /\ Sent' = Sent
        /\ Apart(core)' = Apart(core) /\ Apart(padq)' = Apart(padq)
    BY DEF InCore, Queued, Outside, Sent, AddrsOf, Apart
  <2>2. hand.addr \in Held /\ Held' = Held \ {hand.addr}
    BY <1>1, <1>3, <1>6, <2>1 DEF Held, Kept
  <2>3. ASSUME NEW a \in Addresses PROVE Locked'[a] = IF a \in Held' THEN 1 ELSE 0
    BY <1>1, <1>2, <1>6, <2>2 DEF Kept
  <2>4. size = 0 => surfaces = {}
    BY <1>6 DEF Kept, InHand
  <2> QED BY <1>3, <1>6, <2>1, <2>2, <2>3, <2>4 DEF Kept
<1> QED BY <1>4, <1>5, <1>6 DEF DInv, DecoderTypes

LEMMA SyncKeeps == ASSUME DInv, SyncOperation PROVE DInv'
<1>1. CASE dpc' = "push"
  BY <1>1, QuietKeeps DEF QuietStep
<1>2. CASE dpc' # "push"
  <2>1. /\ UNCHANGED <<film, rpc, rrun, rat, rloop, rnum, netq, mempool, drun, again, seen, none,
                       ended, took, size, core, hand, surfaces, gen, padq, out, peer>>
        /\ InHand /\ dpc' = "update" /\ Lock(hand.addr, -1)
        /\ "slow" \in dfault => "slow" \in dfault'
    BY <1>2 DEF SyncOperation, reader, readerVars, input_bs_, downstream, InHand, DecFault
  <2> QED BY <2>1, DroppedKeeps
<1> QED BY <1>1, <1>2

-----------------------------------------------------------------------------
(* The queue behind the decoder and the element there. *)

LEMMA PushFrameKeeps == ASSUME DInv, PushFrame PROVE DInv'
<1>1. /\ UNCHANGED <<film, rpc, rrun, rat, rloop, rnum, netq, mempool, drun, again, seen, none, ended,
                     took, size, core, hand, surfaces, gen, out, peer, dfault>>
      /\ dpc = "push" /\ dpc' = "update" /\ InHand
      /\ \/ /\ peer /\ Len(padq) < PadRoom
            /\ padq' = Append(padq, Frame(hand)) /\ Locked' = Locked
         \/ Lock(hand.addr, -1) /\ padq' = padq
  BY DEF PushFrame, reader, readerVars, input_bs_, InHand
<1>2. CASE padq' = padq /\ Lock(hand.addr, -1)
  BY <1>1, <1>2, DroppedKeeps
<1>3. CASE /\ Len(padq) < PadRoom
           /\ padq' = Append(padq, Frame(hand)) /\ Locked' = Locked
  <2>1. /\ Frame(hand) \in Frames /\ Frame(hand).addr = hand.addr /\ hand.addr \in Addresses
        /\ Frame(hand).kind = "frame" /\ Frame(hand).gen = gen /\ hand.addr # 0
    BY <1>1, PicturesAre DEF Frame, Frames, Slots
  <2>2. /\ padq' \in Seq(Frames \cup Marks) /\ Len(padq') = Len(padq) + 1
        /\ AddrsOf(padq') = Queued \cup {hand.addr}
        /\ Apart(padq) /\ hand.addr \notin Queued => Apart(padq')
        /\ ToSet(padq') = ToSet(padq) \cup {Frame(hand)}
    BY <1>3, <2>1, AddrPut, PicturesAre DEF Queued
  <2>3. /\ ~Picked' /\ ~InHand' /\ Worked' = {} /\ Worked = {hand.addr}
        /\ Slots' = Slots /\ Frames' = Frames /\ Marks' = Marks
    BY <1>1 DEF Picked, InHand, Worked, Slots, Frames, Marks
  <2>4. ReaderTypes'
    BY <1>1, ReaderTypesStay, DataAre DEF DInv, DecoderTypes
  <2>5. Len(padq') <= PadRoom
    BY <1>3, <2>2, PicturesAre
  <2>6. PictureTypes'
    BY <1>1, <1>3, <2>2, <2>3, <2>5 DEF DInv, DecoderTypes, PictureTypes
  <2>7. ASSUME Kept PROVE Kept'
    <3>1. /\ InCore' = InCore /\ Outside' = Outside /\ Apart(core)' = Apart(core)
          /\ Queued' = Queued \cup {hand.addr} /\ Sent' = Sent \cup {Frame(hand)}
      BY <1>1, <2>1, <2>2 DEF InCore, Outside, Queued, AddrsOf, Apart, Sent
    <3>2. Held' = Held
      BY <2>3, <3>1 DEF Held
    <3>3. Apart(padq)'
      <4>1. hand.addr \notin Queued
        BY <2>3, <2>7 DEF Kept
      <4>2. Apart(padq')
        BY <2>2, <2>7, <4>1 DEF Kept
      <4> QED BY <4>2 DEF Apart
    <3>4. /\ InCore' \cap Queued' = {} /\ Queued' \cap Outside' = {}
      BY <2>3, <2>7, <3>1 DEF Kept
    <3>5. \A b \in Sent' : b.gen = gen'
      BY <1>1, <2>1, <2>7, <3>1 DEF Kept
    <3>6. size = 0 => surfaces = {}
      BY <1>1, <2>7 DEF Kept
    <3> QED BY <1>1, <1>3, <2>3, <2>7, <3>1, <3>2, <3>3, <3>4, <3>5, <3>6 DEF Kept
  <2> QED BY <1>1, <2>4, <2>6, <2>7 DEF DInv, DecoderTypes
<1> QED BY <1>1, <1>2, <1>3

\* The queue or what the next element has changes, not who is held downstream.
LEMMA DownstreamKeeps ==
  ASSUME DInv, ReaderTypes',
         UNCHANGED <<rnum, mempool, dpc, seen, took, size, core, hand, surfaces, gen, Locked, dfault>>,
         padq' \in Seq(Frames \cup Marks), Len(padq') <= PadRoom, out' \subseteq Frames,
         Kept => /\ Queued' \cup Outside' = Queued \cup Outside /\ Queued' \cap Outside' = {}
                 /\ Apart(padq') /\ (\A b, c \in out' : b.addr = c.addr => b = c)
                 /\ Sent' = Sent
  PROVE  DInv'
<1>1. /\ InHand' = InHand /\ Picked' = Picked /\ Worked' = Worked
      /\ Slots' = Slots /\ Frames' = Frames /\ Marks' = Marks
  BY DEF InHand, Picked, Worked, Slots, Frames, Marks
<1>2. PictureTypes'
  BY <1>1 DEF DInv, DecoderTypes, PictureTypes
<1>3. ASSUME Kept PROVE Kept'
  <2>1. InCore' = InCore /\ Apart(core)' = Apart(core) /\ Apart(padq)' = Apart(padq')
    BY DEF InCore, AddrsOf, Apart
  <2>2. Held' = Held
    BY <1>1, <1>3, <2>1 DEF Held
  <2>3. /\ InCore' \cap Queued' = {} /\ InCore' \cap Outside' = {} /\ InCore' \cap Worked' = {}
        /\ Queued' \cap Outside' = {} /\ Queued' \cap Worked' = {} /\ Outside' \cap Worked' = {}
    BY <1>1, <1>3, <2>1 DEF Kept
  <2> QED BY <1>1, <1>3, <2>1, <2>2, <2>3 DEF Kept
<1> QED BY <1>2, <1>3 DEF DInv, DecoderTypes

\* A mark has no surface.
LEMMA PushMarkKeeps ==
  ASSUME DInv,
         \/ PushMark("pushReset", "reset", "update") \/ PushMark("pushEos", "eos", "exit")
         \/ PushMark("lastEos", "eos", "done")
  PROVE  DInv'
<1>1. /\ UNCHANGED <<film, rpc, rrun, rat, rloop, rnum, netq, mempool, drun, again, seen, none, ended,
                     took, size, core, hand, surfaces, gen, Locked, out, peer, dfault>>
      /\ \/ dpc = "pushReset" /\ dpc' = "update"
         \/ dpc = "pushEos" /\ dpc' = "exit"
         \/ dpc = "lastEos" /\ dpc' = "done"
  BY DEF PushMark, reader, readerVars, input_bs_, pictures, decHistory
<1>2. \/ padq' = padq
      \/ Len(padq) < PadRoom /\ \E what \in {"reset", "eos"} : padq' = Append(padq, Mark(what))
  BY DEF PushMark
<1>3. \A what \in {"reset", "eos"} : /\ Mark(what) \in Marks /\ Mark(what).addr = 0
                                    /\ Mark(what).kind # "frame"
  BY PicturesAre DEF Mark, Marks
<1>4. /\ padq' \in Seq(Frames \cup Marks) /\ Len(padq') <= PadRoom
      /\ Queued' = Queued /\ (Apart(padq) => Apart(padq')) /\ Sent' = Sent
  <2>1. CASE padq' = padq
    BY <1>1, <2>1, PicturesAre DEF Queued, AddrsOf, Sent, Apart
  <2>2. ASSUME Len(padq) < PadRoom, NEW what \in {"reset", "eos"}, padq' = Append(padq, Mark(what))
        PROVE  /\ padq' \in Seq(Frames \cup Marks) /\ Len(padq') <= PadRoom
               /\ Queued' = Queued /\ (Apart(padq) => Apart(padq')) /\ Sent' = Sent
    <3>1. Mark(what) \in Marks /\ Mark(what).addr = 0 /\ Mark(what).kind # "frame"
      BY <1>3
    <3>2. 0 \notin AddrsOf(padq)
      BY DEF AddrsOf
    <3>3. /\ padq' \in Seq(Frames \cup Marks) /\ Len(padq') = Len(padq) + 1
          /\ AddrsOf(padq') = AddrsOf(padq)
          /\ Apart(padq) => Apart(padq')
          /\ ToSet(padq') = ToSet(padq) \cup {Mark(what)}
      <4>1. PICK m \in Frames \cup Marks : m = Mark(what)
        BY <3>1
      <4>2. /\ padq' = Append(padq, m) /\ m.addr = 0 /\ {m.addr} \ {0} = {}
        BY <2>2, <3>1, <4>1
      <4>3. /\ Append(padq, m) \in Seq(Frames \cup Marks) /\ Len(Append(padq, m)) = Len(padq) + 1
            /\ AddrsOf(Append(padq, m)) = AddrsOf(padq) \cup ({m.addr} \ {0})
            /\ Apart(padq) /\ m.addr \notin AddrsOf(padq) => Apart(Append(padq, m))
            /\ ToSet(Append(padq, m)) = ToSet(padq) \cup {m}
        BY AddrPut, PicturesAre
      <4> QED BY <3>2, <4>1, <4>2, <4>3
    <3>4. Queued' = Queued
      BY <3>3 DEF Queued, AddrsOf
    <3>5. Sent' = Sent
      BY <1>1, <3>1, <3>3 DEF Sent
    <3> QED BY <2>2, <3>3, <3>4, <3>5, PicturesAre
  <2> QED BY <1>2, <2>1, <2>2
<1>5. /\ ~InHand /\ ~InHand' /\ ~Picked' /\ Slots' = Slots /\ Frames' = Frames /\ Marks' = Marks
      /\ Worked' = Worked
  BY <1>1 DEF InHand, Picked, Slots, Frames, Marks, Worked
<1>6. ReaderTypes'
  BY <1>1, ReaderTypesStay, DataAre DEF DInv, DecoderTypes
<1>7. PictureTypes'
  BY <1>1, <1>4, <1>5 DEF DInv, DecoderTypes, PictureTypes
<1>8. ASSUME Kept PROVE Kept'
  <2>1. /\ InCore' = InCore /\ Apart(core)' = Apart(core) /\ Apart(padq)' = Apart(padq')
        /\ Outside' = Outside
    BY <1>1 DEF InCore, Outside, AddrsOf, Apart
  <2>2. Held' = Held
    BY <1>4, <1>5, <2>1 DEF Held
  <2>3. size = 0 => surfaces = {} \/ dpc' \in {"exit", "done"}
    BY <1>1, <1>8 DEF Kept
  <2> QED BY <1>1, <1>4, <1>5, <1>8, <2>1, <2>2, <2>3 DEF Kept
<1> QED BY <1>1, <1>6, <1>7, <1>8 DEF DInv, DecoderTypes

LEMMA PeerTakesKeeps == ASSUME DInv, PeerTakes PROVE DInv'
<1>1. /\ UNCHANGED <<film, rpc, rrun, rat, rloop, rnum, netq, mempool, dpc, drun, again, seen, none,
                     ended, took, size, core, hand, surfaces, gen, Locked, dfault>>
      /\ padq # << >> /\ padq' = Tail(padq)
      /\ peer' = (Head(padq).kind # "eos")
      /\ out' = out \cup {b \in {Head(padq)} : b.kind = "frame"}
  BY DEF PeerTakes, reader, readerVars, input_bs_, pictures, decHistory
<1> DEFINE b == Head(padq)
<1>2. /\ b \in Frames \cup Marks /\ padq' \in Seq(Frames \cup Marks) /\ Len(padq') = Len(padq) - 1
      /\ Queued = AddrsOf(padq') \cup ({b.addr} \ {0})
      /\ Apart(padq) => Apart(padq') /\ b.addr \notin AddrsOf(padq')
      /\ ToSet(padq) = ToSet(padq') \cup {b}
  BY <1>1, AddrTaken, PicturesAre DEF Queued
<1>3. /\ b.kind = "frame" => b \in Frames /\ b.addr \in Addresses /\ b.addr # 0
      /\ b.kind # "frame" => b.addr = 0
  BY <1>2, PicturesAre DEF Frames, Marks
<1>4. out' = IF b.kind = "frame" THEN out \cup {b} ELSE out
  BY <1>1
<1> HIDE DEF b
<1>5. out' \subseteq Frames /\ Len(padq') <= PadRoom
  BY <1>2, <1>3, <1>4, PicturesAre
<1>6. Sent' = Sent
  BY <1>2, <1>4 DEF Sent
<1>7. peer' \in BOOLEAN
  BY <1>1
<1>8. ReaderTypes'
  BY <1>1, <1>7, ReaderTypesStay, DataAre DEF DInv, DecoderTypes
<1>9. ASSUME Kept
      PROVE  /\ Queued' \cup Outside' = Queued \cup Outside /\ Queued' \cap Outside' = {}
             /\ Apart(padq') /\ \A c, d \in out' : c.addr = d.addr => c = d
  <2>1. /\ Queued' = AddrsOf(padq') /\ Apart(padq') /\ b.addr \notin Queued'
        /\ Queued \cap Outside = {} /\ \A c, d \in out : c.addr = d.addr => c = d
    BY <1>2, <1>9 DEF Kept, Queued, AddrsOf
  <2>2. CASE b.kind = "frame"
    <3>1. Outside' = Outside \cup {b.addr} /\ Queued = Queued' \cup {b.addr}
      BY <1>2, <1>3, <1>4, <2>1, <2>2 DEF Outside
    <3>2. \A c \in out : c.addr # b.addr
      BY <2>1, <3>1 DEF Outside
    <3> QED BY <1>4, <2>1, <2>2, <3>1, <3>2
  <2>3. CASE b.kind # "frame"
    <3>1. Outside' = Outside /\ Queued = Queued'
      BY <1>2, <1>3, <1>4, <2>1, <2>3 DEF Outside
    <3> QED BY <1>4, <2>1, <2>3, <3>1
  <2> QED BY <2>2, <2>3
<1> QED BY <1>1, <1>2, <1>5, <1>6, <1>8, <1>9, DownstreamKeeps

LEMMA PeerStopsKeeps == ASSUME DInv, PeerStops PROVE DInv'
<1>1. /\ UNCHANGED <<film, rpc, rrun, rat, rloop, rnum, netq, mempool, dpc, drun, again, seen, none,
                     ended, took, size, core, hand, surfaces, gen, Locked, dfault>>
      /\ peer' = FALSE /\ padq' = << >> /\ out' = Sent
  BY DEF PeerStops, reader, readerVars, input_bs_, pictures, decHistory
<1>2. out' \subseteq Frames
  BY <1>1, HoldersAre
<1>3. /\ padq' \in Seq(Frames \cup Marks) /\ Len(padq') <= PadRoom
  BY <1>1, EmptySeq, PicturesAre
<1>4. DOMAIN << >> = {}
  OBVIOUS
<1>5. Sent' = Sent /\ Queued' = {} /\ Apart(padq')
  BY <1>1, <1>4 DEF Sent, Queued, AddrsOf, Apart, ToSet
<1>6. Outside' = Queued \cup Outside
  BY <1>1, HoldersAre DEF Sent, Outside
<1>7. ReaderTypes'
  BY <1>1, ReaderTypesStay, DataAre DEF DInv, DecoderTypes
<1>8. ASSUME Kept PROVE \A c, d \in out' : c.addr = d.addr => c = d
  <2>1. SUFFICES ASSUME NEW c \in Sent, NEW d \in Sent, c.addr = d.addr PROVE c = d
    BY <1>1
  <2>2. /\ Apart(padq) /\ Queued \cap Outside = {}
        /\ \A e, f \in out : e.addr = f.addr => e = f
    BY <1>8 DEF Kept
  <2>3. /\ \A e \in ToSet(padq) : e.kind = "frame" => e.addr \in Queued /\ e.addr # 0
        /\ \A e \in out : e.addr \in Outside
    BY HoldersAre, PicturesAre DEF Outside
  <2>4. CASE c \in out /\ d \in out
    BY <2>1, <2>2, <2>4
  <2>5. CASE c \notin out /\ d \notin out
    <3>1. c \in ToSet(padq) /\ d \in ToSet(padq) /\ c.addr # 0
      BY <2>3, <2>5 DEF Sent
    <3> QED BY <2>1, <2>2, <3>1 DEF ToSet, Apart
  <2>6. CASE (c \in out) # (d \in out)
    BY <2>1, <2>2, <2>3, <2>6 DEF Sent
  <2> QED BY <2>4, <2>5, <2>6
<1> QED BY <1>1, <1>2, <1>3, <1>5, <1>6, <1>7, <1>8, DownstreamKeeps

\* A surface comes back and finds its pool.
LEMMA RecycleKeeps == ASSUME DInv, NEW b \in out, Recycle(b) PROVE DInv'
<1>1. /\ UNCHANGED <<film, rpc, rrun, rat, rloop, rnum, netq, mempool, drun, again, seen, none, ended,
                     took, size, core, hand, surfaces, gen, padq, peer, dfault>>
      /\ out' = out \ {b}
      /\ dpc' = IF surfaces = {} THEN "crashed" ELSE dpc
      /\ IF b.addr \in surfaces THEN Lock(b.addr, -1) ELSE UNCHANGED Locked
  BY DEF Recycle, reader, readerVars, input_bs_, decHistory
<1>2. b.addr \in Addresses
  BY PicturesAre DEF Frames
<1>3. Locked' \in [Addresses -> Counts]
  BY <1>1, <1>2, LockIs, PicturesAre
<1>4. /\ InHand' => InHand /\ (Picked' => Picked)
      /\ Slots' = Slots /\ Frames' = Frames /\ Marks' = Marks
  BY <1>1 DEF InHand, Picked, Slots, Frames, Marks
<1>5. ReaderTypes'
  BY <1>1, ReaderTypesStay, DataAre DEF DInv, DecoderTypes
<1>6. PictureTypes'
  BY <1>1, <1>3, <1>4 DEF DInv, DecoderTypes, PictureTypes, Picked, InHand
<1>7. ASSUME Kept PROVE Kept'
  <2>1. b.addr \in Outside /\ b.addr \in surfaces /\ b.addr \in Held /\ Locked[b.addr] = 1
    BY <1>2, <1>7 DEF Kept, Held, Outside
  <2>2. /\ dpc' = dpc /\ Lock(b.addr, -1)
        /\ \A o \in Addresses \ {b.addr} : Locked'[o] = Locked[o]
        /\ Locked'[b.addr] = 0
    <3>1. dpc' = dpc /\ Lock(b.addr, -1)
      BY <1>1, <2>1
    <3> QED BY <1>2, <2>1, <3>1, LockIs, PicturesAre
  <2>3. /\ InCore' = InCore /\ Queued' = Queued /\ Worked' = Worked /\ Picked' = Picked
        /\ Apart(core)' = Apart(core) /\ Apart(padq)' = Apart(padq)
    BY <1>1, <2>2 DEF InCore, Queued, Worked, AddrsOf, Apart, InHand, Picked
  <2>4. Outside' = Outside \ {b.addr}
    BY <1>1, <1>7 DEF Outside, Kept
  <2>5. Held' = Held \ {b.addr}
    BY <1>7, <2>1, <2>3, <2>4 DEF Held, Kept
  <2>6. Sent' \subseteq Sent
    BY <1>1 DEF Sent
  <2>7. ASSUME NEW a \in Addresses PROVE Locked'[a] = IF a \in Held' THEN 1 ELSE 0
    BY <1>7, <2>2, <2>5 DEF Kept
  <2>8. \A c, d \in out' : c.addr = d.addr => c = d
    BY <1>1, <1>7 DEF Kept
  <2> QED BY <1>1, <1>7, <2>2, <2>3, <2>4, <2>5, <2>6, <2>7, <2>8 DEF Kept
<1> QED BY <1>1, <1>5, <1>6, <1>7 DEF DInv, DecoderTypes

LEMMA InitDInv == DecInit => DInv
<1> SUFFICES ASSUME DecInit PROVE DInv
  OBVIOUS
<1>1. /\ film \in Films /\ film \in FilmParameters /\ PoolRoom \in Nat /\ PadRoom \in Nat
      /\ DecDelay \in Nat
  BY DecAssumption DEF DecInit
<1>2. Len(film.units) \in Nat /\ film.loops \in Nat
  BY <1>1, LenProperties DEF FilmParameters
<1>3. /\ << >> \in Seq(Units) /\ << >> \in Seq(Slots) /\ << >> \in Seq(Frames \cup Marks)
      /\ Len(<< >>) = 0 /\ DOMAIN << >> = {}
  BY EmptySeq
<1>4. netq \in [data : Seq(Units), eos : BOOLEAN] /\ mempool \in [data : Seq(Units), eof : BOOLEAN]
      /\ Len(mempool.data) = 0
  BY <1>3 DEF DecInit
<1>5. ReaderTypes
  <2>1. {rrun, drun, again, peer, none, ended} \subseteq BOOLEAN
    BY DEF DecInit
  <2>2. /\ rpc = "read" /\ rat = 0 /\ rloop = 0 /\ rnum = 0
    BY DEF DecInit
  <2>3. rat \in 0 .. Len(film.units) /\ rloop \in 0 .. film.loops /\ Len(mempool.data) <= PoolRoom
    BY <1>1, <1>2, <1>4, <2>2
  <2> QED BY <1>1, <1>4, <2>1, <2>2, <2>3 DEF ReaderTypes
<1>6. ~InHand /\ ~Picked /\ Locked \in [Addresses -> Counts] /\ rnum = 0
  BY CountsAreNumbers DEF DecInit, InHand, Picked
<1>7. hand \in [addr : Addresses \cup {0}, unit : 0 .. rnum]
  BY DEF DecInit, NoSurface
<1>8. PictureTypes
  BY <1>1, <1>3, <1>4, <1>6, <1>7 DEF PictureTypes, DecInit
<1>9. /\ InCore = {} /\ Queued = {} /\ Outside = {} /\ Worked = {} /\ Sent = {}
      /\ Apart(core) /\ Apart(padq)
  BY <1>3, <1>6 DEF DecInit, InCore, Queued, Outside, Worked, Sent, AddrsOf, Apart, ToSet
<1>10. Kept
  BY <1>6, <1>9 DEF Kept, Held, DecInit
<1> QED BY <1>5, <1>8, <1>10 DEF DInv, DecoderTypes

LEMMA UnchangedDInv == ASSUME DInv, UNCHANGED decVars PROVE DInv'
<1>1. UNCHANGED <<film, rpc, rrun, rat, rloop, rnum, netq, mempool, dpc, drun, again, seen, none,
                  ended, took, size, core, hand, surfaces, gen, Locked, padq, out, peer, dfault>>
  BY DEF decVars, readerVars, input_bs_, pictures, downstream
<1>2. ReaderTypes'
  BY <1>1, ReaderTypesStay, DataAre DEF DInv, DecoderTypes
<1>3. dpc \in {"header", "look"} => seen <= Len(mempool.data)
  BY DEF DInv, DecoderTypes, PictureTypes
<1> QED BY <1>1, <1>2, <1>3, MovesOn, DataAre DEF Follows

LEMMA StepDInv == DInv /\ [DecoderNext]_decVars => DInv'
<1> SUFFICES ASSUME DInv, [DecoderNext]_decVars PROVE DInv'
  OBVIOUS
<1>1. CASE Reader \/ ReadFails \/ ReaderStop
  BY <1>1, ReaderKeeps
<1>2. CASE DecoderThread
  <2>1. CASE LoopTop
    BY <2>1, QuietKeeps, CloseKeeps DEF QuietStep
  <2>2. CASE WaitSurfaces
    BY <2>2, QuietKeeps, FreeKeeps DEF QuietStep
  <2>3. CASE PickSurface
    BY <2>3, QuietKeeps, PickKeeps DEF QuietStep
  <2>4. CASE FlushDecoder
    BY <2>4, QuietKeeps, FlushKeeps DEF QuietStep
  <2>5. CASE MoveBlock \/ AskEndOfStream \/ UpdateMemPool \/ DecodeHeader
    BY <2>5, MoveBlockKeeps, AskEndOfStreamKeeps, UpdateMemPoolKeeps, DecodeHeaderKeeps
  <2>6. CASE DecodeFrameAsync \/ SyncOperation \/ PushFrame
    BY <2>6, DecodeKeeps, SyncKeeps, PushFrameKeeps
  <2>7. CASE \/ CountBlocks \/ UpdateBitStream \/ LookAgain \/ WantsMoreData \/ NewSequenceHeader
             \/ SkipFrame \/ DeviceFails \/ AfterLoop
    BY <2>7, QuietKeeps DEF QuietStep
  <2>8. CASE \/ PushMark("pushReset", "reset", "update") \/ PushMark("pushEos", "eos", "exit")
             \/ PushMark("lastEos", "eos", "done")
    BY <2>8, PushMarkKeeps
  <2> QED BY <1>2, <2>1, <2>2, <2>3, <2>4, <2>5, <2>6, <2>7, <2>8 DEF DecoderThread
<1>3. CASE DecoderStop
  BY <1>3, QuietKeeps DEF QuietStep
<1>4. CASE PeerTakes \/ PeerStops \/ PeerReturns
  BY <1>4, PeerTakesKeeps, PeerStopsKeeps, RecycleKeeps DEF PeerReturns
<1>5. CASE UNCHANGED decVars
  BY <1>5, UnchangedDInv
<1> QED BY <1>1, <1>2, <1>3, <1>4, <1>5 DEF DecoderNext

LEMMA DInvKeepsSurfaces == DInv => DecoderKeepsSurfaces
<1> SUFFICES ASSUME DInv, "slow" \notin dfault
             PROVE  /\ dpc # "crashed"
                    /\ \A a \in Addresses : Locked[a] = Holders(a) /\ Locked[a] <= 1
                    /\ \A b \in Sent : b.gen = gen /\ b.addr \in surfaces
  BY DEF DecoderKeepsSurfaces
<1>1. Kept
  BY DEF DInv
<1>2. ASSUME NEW a \in Addresses PROVE Locked[a] = Holders(a) /\ Locked[a] <= 1
  <2>1. Cardinality({s \in ToSet(core) : s.addr = a}) = One(a \in InCore)
    BY <1>1, PicturesAre, SameAddress DEF Kept, InCore
  <2>2. Cardinality({b \in Sent : b.addr = a}) = One(a \in Queued \cup Outside)
    <3> DEFINE H == {b \in Sent : b.addr = a}
    <3>1. CASE a \in Queued \cup Outside
      <4>1. PICK b \in Sent : b.addr = a
        BY <3>1, HoldersAre DEF Sent, Outside
      <4>2. ASSUME NEW c \in Sent, c.addr = a PROVE c = b
        <5>1. /\ \A e \in ToSet(padq) : e.kind = "frame" => e.addr \in Queued /\ e.addr # 0
              /\ \A e \in out : e.addr \in Outside
          BY HoldersAre, PicturesAre DEF Outside
        <5>2. CASE c \in out /\ b \in out
          BY <1>1, <4>1, <4>2, <5>2 DEF Kept
        <5>3. CASE c \notin out /\ b \notin out
          <6>1. c \in ToSet(padq) /\ b \in ToSet(padq) /\ c.addr # 0
            BY <4>1, <4>2, <5>1, <5>3 DEF Sent
          <6> QED BY <1>1, <4>1, <4>2, <6>1 DEF ToSet, Apart, Kept
        <5>4. CASE (c \in out) # (b \in out)
          BY <1>1, <4>1, <4>2, <5>1, <5>4 DEF Sent, Kept
        <5> QED BY <5>2, <5>3, <5>4
      <4>3. H = {b}
        BY <4>1, <4>2
      <4>4. Cardinality(H) = 1
        <5> HIDE DEF H
        <5> QED BY <4>3, FS_Singleton
      <4> QED BY <3>1, <4>4 DEF One
    <3>2. CASE a \notin Queued \cup Outside
      <4>1. H = {}
        BY <3>2, HoldersAre
      <4>2. Cardinality(H) = 0
        <5> HIDE DEF H
        <5> QED BY <4>1, FS_EmptySet
      <4> QED BY <3>2, <4>2 DEF One
    <3> QED BY <3>1, <3>2
  <2>3. (IF dpc \in {"sync", "push"} /\ hand.addr = a THEN 1 ELSE 0) = One(a \in Worked)
    BY DEF One, Worked, InHand
  <2>4. Holders(a) = One(a \in InCore) + One(a \in Queued \cup Outside) + One(a \in Worked)
    BY <2>1, <2>2, <2>3 DEF Holders
  <2>5. Locked[a] = IF a \in Held THEN 1 ELSE 0
    BY <1>1 DEF Kept
  <2>6. One(a \in InCore) + One(a \in Queued \cup Outside) + One(a \in Worked) = One(a \in Held)
    BY <1>1 DEF One, Held, Kept
  <2> QED BY <2>4, <2>5, <2>6 DEF One
<1>3. \A b \in Sent : b.gen = gen /\ b.addr \in surfaces
  BY <1>1, HoldersAre DEF Kept, Held
<1> QED BY <1>1, <1>2, <1>3 DEF Kept

LEMMA DInvIsTyped == DInv => DecTypeOK
<1> SUFFICES ASSUME DInv PROVE DecTypeOK
  OBVIOUS
<1>1. \A b \in Sent : b.addr \in Addresses /\ b.unit \in 1 .. rnum
  BY HoldersAre DEF Frames
<1>2. Locked \in [Addresses -> Counts]
  BY PicturesAre
<1>3. /\ film \in Films /\ rpc \in {"read", "push", "done"} /\ {rrun, drun, again, peer} \subseteq BOOLEAN
      /\ rat \in 0 .. Len(film.units) /\ rloop \in 0 .. film.loops /\ rnum \in Nat
      /\ Len(mempool.data) <= PoolRoom
  BY DEF DInv, DecoderTypes, ReaderTypes
<1>4. /\ dpc \in {"top", "wait", "surface", "move", "count", "ask", "header", "look", "sync", "push",
                  "pushReset", "pushEos", "lastEos", "update", "exit", "left", "done", "crashed"}
      /\ size \in 0 .. 2 /\ seen \in 0 .. PoolRoom /\ took \in 0 .. 1
      /\ surfaces \subseteq Addresses
      /\ Len(padq) <= PadRoom /\ Len(core) <= DecDelay
  BY DEF DInv, DecoderTypes, PictureTypes
<1> QED BY <1>1, <1>2, <1>3, <1>4, Zenon DEF DecTypeOK, Counts

-----------------------------------------------------------------------------
(* Where the pictures are: units are numbered in the order they were read,  *)
(* so that the sets of numbers say what is in front of what.                *)

\* Units that were pushed, those that left the pool too, and those the decoder
\* is through with.
Pushed == IF rpc = "push" THEN rnum - 1 ELSE rnum
Behind == Pushed - Len(netq.data) - Len(mempool.data)
Decoded == Behind + took

UnitsOf(q) == {q[i].unit : i \in DOMAIN q}
Rising(q) == \A i, j \in DOMAIN q : i < j => q[i].unit < q[j].unit
Before(A, B) == \A a \in A, b \in B : a < b

CoreUnits == UnitsOf(core)
HandUnit == IF InHand THEN {hand.unit} ELSE {}
ShownUnits == {shown[i] : i \in DOMAIN shown}
MissedUnits == {m[1] : m \in missed}
SizeKeys == {"key1", "key2"}

\* The numbers and the kinds of the units follow from how many were read.
Counted ==
  /\ rnum = rloop * Len(film.units) + rat
  /\ film.rtsp \/ netq.data = << >>
  /\ Behind \in Nat
  /\ \A i \in 1 .. Len(mempool.data) :
       mempool.data[i].num = Behind + i /\ mempool.data[i].kind = KindOf(Behind + i)
  /\ \A i \in 1 .. Len(netq.data) :
       LET n == Behind + Len(mempool.data) + i
       IN  netq.data[i].num = n /\ netq.data[i].kind = KindOf(n)

\* What the codec holds is given up: it waits for a new set-up, or for nothing.
Stuck == again \/ dpc \in {"exit", "lastEos", "done", "crashed"}

\* Each unit the decoder is through with was sent or given up or is in the
\* thread's hand or in the codec, in this order, and the codec holds the last
\* of those that are pictures.
InOrder ==
  /\ shown \in Seq(Nat) /\ \A i, j \in DOMAIN shown : i < j => shown[i] < shown[j]
  /\ Rising(core)
  /\ Before(ShownUnits, HandUnit) /\ Before(ShownUnits, CoreUnits) /\ Before(HandUnit, CoreUnits)
  /\ 1 .. Decoded = ShownUnits \cup HandUnit \cup CoreUnits \cup MissedUnits
  /\ MissedUnits \cap ShownUnits = {} /\ MissedUnits \cap HandUnit = {}
  /\ Stuck \/ MissedUnits \cap CoreUnits = {}
  /\ \A c \in CoreUnits, n \in 1 .. Decoded : c < n /\ KindOf(n) # "odd" => n \in CoreUnits

\* A header came soon after.
ResetAfter(n) ==
  \E k \in n + 1 .. rnum :
    /\ KindOf(k) \in SizeKeys
    /\ Cardinality({i \in n .. k - 1 : KindOf(i) # "odd"}) <= DecDelay

Reasons ==
  \A m \in missed :
    /\ m[2] = "header" => \A n \in 1 .. m[1] : KindOf(n) \notin SizeKeys
    /\ m[2] = "odd" => KindOf(m[1]) = "odd"
    /\ m[2] = "reset" => ResetAfter(m[1])

\* The header the codec is to be set up for is the next unit.
HeaderNext == took = 0 /\ mempool.data # << >> /\ mempool.data[1].kind \in SizeKeys

\* What the decoder's thread knows at each place of its loop.
Phases ==
  /\ took = 1 => mempool.data # << >> /\ dpc \in {"sync", "push", "update", "crashed"}
  /\ ended /\ ~early => mempool.data = << >> /\ netq.data = << >>
  /\ size = 0 => core = << >>
  /\ size # 0 => surfaces # {} /\ gen # 0
  /\ InHand => size # 0
  /\ gen = 0 => \A n \in 1 .. Decoded : KindOf(n) \notin SizeKeys
  /\ size = 0 /\ gen # 0 => HeaderNext
  /\ again => /\ HeaderNext /\ CoreUnits \subseteq MissedUnits
              /\ dpc \in {"pushReset", "update", "top", "crashed"}
  /\ dpc = "pushReset" => again
  /\ dpc = "header" /\ gen # 0 => seen # 0
  /\ dpc = "pushEos" => core = << >> /\ ended

FInv == Counted /\ InOrder /\ Reasons /\ Phases

\* Sums, products and places in the film.
LEMMA NextProduct == \A k, n \in Nat : (k + 1) * n = k * n + n
BY SMTT(30)

LEMMA Remainder ==
  ASSUME NEW L \in Nat, L > 0, NEW k \in Nat, NEW r \in 0 .. L - 1
  PROVE  (k * L + r) % L = r
BY SMTT(30)

\* The unit that was read last is where the reader is in the film.
LEMMA KindRead ==
  ASSUME DInv, Counted, rpc = "push"
  PROVE  KindOf(rnum) = film.units[rat]
<1> DEFINE L == Len(film.units)
<1>1. rat \in 1 .. L /\ L \in Nat /\ rloop \in Nat /\ rnum \in Nat
  BY FilmsAre DEF DInv, DecoderTypes, ReaderTypes
<1>2. rnum = rloop * L + rat
  BY DEF Counted
<1> HIDE DEF L
<1>3. rloop * L \in Nat
  BY <1>1
<1>4. rnum - 1 = rloop * L + (rat - 1) /\ rat - 1 \in 0 .. L - 1 /\ L > 0
  BY <1>1, <1>2, <1>3
<1>5. (rnum - 1) % L = rat - 1
  BY <1>1, <1>4, Remainder
<1>6. ((rnum - 1) % L) + 1 = rat
  BY <1>1, <1>5
<1> QED BY <1>6 DEF KindOf, L

LEMMA KindsStay == ASSUME film' = film PROVE \A n : KindOf(n)' = KindOf(n)
BY DEF KindOf

LEMMA SeqIs ==
  ASSUME NEW S, NEW q \in Seq(S)
  PROVE  DOMAIN q = 1 .. Len(q) /\ Len(q) \in Nat /\ \A i \in DOMAIN q : q[i] \in S
BY LenProperties, ElementOfSeq

\* What the numbers are, taken apart.
LEMMA NumbersAre ==
  ASSUME DInv, FInv
  PROVE  /\ rnum \in Nat /\ Pushed \in Nat /\ Pushed <= rnum
         /\ mempool.data \in Seq(Units) /\ Len(mempool.data) \in Nat
         /\ netq.data \in Seq(Units) /\ Len(netq.data) \in Nat
         /\ Behind \in Nat /\ Behind + Len(mempool.data) + Len(netq.data) = Pushed
         /\ took \in {0, 1} /\ took <= Len(mempool.data)
         /\ Decoded \in Nat /\ Decoded = Behind + took /\ Decoded <= rnum
         /\ core \in Seq(Slots) /\ Len(core) \in Nat /\ Len(core) <= DecDelay /\ DecDelay \in Nat
         /\ CoreUnits \subseteq Nat /\ HandUnit \subseteq Nat /\ ShownUnits \subseteq Nat
<1>1. /\ rnum \in Nat /\ (rpc = "push" => rnum > 0)
  BY DEF DInv, DecoderTypes, ReaderTypes
<1>2. /\ mempool.data \in Seq(Units) /\ Len(mempool.data) \in Nat
      /\ netq.data \in Seq(Units) /\ Len(netq.data) \in Nat /\ took \in {0, 1}
  BY DataAre, LenProperties
<1>3. took = 1 => Len(mempool.data) > 0
  <2>1. took = 1 => mempool.data # << >>
    BY DEF FInv, Phases
  <2> QED BY <1>2, <2>1, EmptySeq
<1>4. Behind \in Nat
  BY DEF FInv, Counted
<1>5. Pushed \in Nat /\ Pushed <= rnum /\ (rpc # "push" => Pushed = rnum)
  BY <1>1 DEF Pushed
<1>6. core \in Seq(Slots) /\ Len(core) \in Nat /\ Len(core) <= DecDelay /\ DecDelay \in Nat
  BY PicturesAre
<1>7. CoreUnits \subseteq Nat
  <2>1. \A i \in DOMAIN core : core[i] \in Slots
    BY <1>6, SeqIs
  <2> QED BY <1>1, <2>1 DEF CoreUnits, UnitsOf, Slots
<1>8. HandUnit \subseteq Nat
  BY <1>1, PicturesAre DEF HandUnit, Slots
<1>9. ShownUnits \subseteq Nat
  <2>1. shown \in Seq(Nat)
    BY DEF FInv, InOrder
  <2>2. \A i \in DOMAIN shown : shown[i] \in Nat
    BY <2>1, SeqIs
  <2> QED BY <2>2 DEF ShownUnits
<1>10. Behind + Len(mempool.data) + Len(netq.data) = Pushed
  BY <1>2, <1>5 DEF Behind
<1>11. Decoded \in Nat /\ Decoded = Behind + took
  BY <1>2, <1>4 DEF Decoded
<1>12. took \in Nat /\ took <= Len(mempool.data)
  <2>1. CASE took = 1
    BY <1>2, <1>3, <2>1
  <2>2. CASE took = 0
    BY <1>2, <2>2
  <2> QED BY <1>2, <2>1, <2>2
<1>13. Decoded <= rnum
  <2> DEFINE m == Len(mempool.data)
             n == Len(netq.data)
  <2>1. /\ m \in Nat /\ n \in Nat /\ Behind \in Nat /\ rnum \in Nat /\ took \in Nat
        /\ Pushed <= rnum /\ Behind + m + n = Pushed /\ took <= m
    BY <1>1, <1>2, <1>4, <1>5, <1>10, <1>12
  <2> HIDE DEF m, n
  <2>2. Behind + took <= rnum
    BY <2>1
  <2> QED BY <1>11, <2>2
<1> QED BY <1>1, <1>2, <1>4, <1>5, <1>6, <1>7, <1>8, <1>9, <1>10, <1>11, <1>12, <1>13

(* What a step does not touch stays so. *)

LEMMA CountedStays ==
  ASSUME Counted, UNCHANGED <<film, rpc, rat, rloop, rnum>>,
         netq'.data = netq.data, mempool'.data = mempool.data
  PROVE  Counted' /\ Behind' = Behind
<1>1. Behind' = Behind
  BY DEF Behind, Pushed
<1>2. \A n : KindOf(n)' = KindOf(n)
  BY KindsStay
<1> QED BY <1>1, <1>2 DEF Counted

LEMMA OrderStays ==
  ASSUME InOrder, UNCHANGED <<shown, missed, core, film>>, HandUnit' = HandUnit,
         Decoded' = Decoded, Stuck => Stuck'
  PROVE  InOrder'
<1>1. /\ ShownUnits' = ShownUnits /\ CoreUnits' = CoreUnits /\ MissedUnits' = MissedUnits
  BY DEF ShownUnits, CoreUnits, UnitsOf, MissedUnits
<1>2. \A n : KindOf(n)' = KindOf(n)
  BY KindsStay
<1>3. Rising(core)' = Rising(core)
  BY DEF Rising
<1> QED BY <1>1, <1>2, <1>3 DEF InOrder, Before

LEMMA ReasonsStay ==
  ASSUME Reasons, MissedUnits \subseteq Nat, UNCHANGED <<missed, film>>,
         rnum \in Nat, rnum' \in Nat, rnum <= rnum'
  PROVE  Reasons'
<1>1. \A n : KindOf(n)' = KindOf(n)
  BY KindsStay
<1>2. ASSUME NEW m \in missed, ResetAfter(m[1]) PROVE ResetAfter(m[1])'
  <2>1. PICK k \in m[1] + 1 .. rnum :
          /\ KindOf(k) \in SizeKeys
          /\ Cardinality({i \in m[1] .. k - 1 : KindOf(i) # "odd"}) <= DecDelay
    BY <1>2 DEF ResetAfter
  <2>2. {i \in m[1] .. k - 1 : KindOf(i) # "odd"}' = {i \in m[1] .. k - 1 : KindOf(i) # "odd"}
    BY <1>1
  <2>3. m[1] \in Nat
    BY DEF MissedUnits
  <2>4. k \in m[1] + 1 .. rnum'
    BY <2>1, <2>3
  <2> QED BY <1>1, <2>1, <2>2, <2>4 DEF ResetAfter
<1> QED BY <1>1, <1>2 DEF Reasons

LEMMA DecodedStays ==
  ASSUME Counted, UNCHANGED <<film, rpc, rat, rloop, rnum, took>>,
         netq'.data = netq.data, mempool'.data = mempool.data
  PROVE  Decoded' = Decoded
BY CountedStays DEF Decoded

\* The phases the decoder goes through without a unit going anywhere.
LEMMA PhasesStay ==
  ASSUME Phases, UNCHANGED <<film, core, missed, gen, took>>,
         netq'.data = netq.data, mempool'.data = mempool.data, Decoded' = Decoded,
         size' = size, again' = again \/ again' = FALSE,
         surfaces' = surfaces \/ size = 0,
         took = 1 => dpc' \in {"sync", "push", "update", "crashed"},
         ended' /\ ~early' => (ended /\ ~early) \/ (mempool.data = << >> /\ netq.data = << >>),
         InHand' => InHand,
         again' => dpc' \in {"pushReset", "update", "top", "crashed"},
         dpc' = "pushReset" => again',
         dpc' = "header" /\ gen # 0 => seen' # 0,
         dpc' = "pushEos" => core = << >> /\ ended'
  PROVE  Phases'
<1>1. \A n : KindOf(n)' = KindOf(n)
  BY KindsStay
<1>2. CoreUnits' = CoreUnits /\ MissedUnits' = MissedUnits
  BY DEF CoreUnits, UnitsOf, MissedUnits
<1>3. HeaderNext' = HeaderNext
  BY DEF HeaderNext
<1> QED BY <1>1, <1>2, <1>3 DEF Phases

Idle ==
  \/ LoopTop /\ (~drun \/ ~again)
  \/ WaitSurfaces \/ PickSurface \/ CountBlocks \/ AskEndOfStream \/ UpdateBitStream
  \/ LookAgain \/ WantsMoreData \/ DeviceFails \/ AfterLoop \/ DecoderStop
  \/ FlushDecoder /\ core = << >>
  \/ SyncOperation /\ dpc' = "push"
  \/ PushMark("pushReset", "reset", "update") \/ PushMark("pushEos", "eos", "exit")
  \/ PushMark("lastEos", "eos", "done")
  \/ PeerTakes \/ PeerStops \/ PeerReturns

LEMMA IdleFrames == ASSUME DInv, DInv', FInv, Idle PROVE FInv'
<1>1. /\ UNCHANGED <<film, rpc, rat, rloop, rnum, netq, size, core, gen, shown, missed, took>>
      /\ mempool'.data = mempool.data
  <2>1. UNCHANGED <<film, rpc, rat, rloop, rnum, netq, size, core, gen, shown, missed, took>>
    BY DEF Idle, LoopTop, WaitSurfaces, PickSurface, CountBlocks, AskEndOfStream, UpdateBitStream,
           LookAgain, WantsMoreData, DeviceFails, AfterLoop, DecoderStop, FlushDecoder,
           SyncOperation, PushMark, PeerTakes, PeerStops, PeerReturns, Recycle, reader, readerVars,
           pictures, downstream, decHistory, input_bs_, Found
  <2>2. CASE AskEndOfStream
    BY <2>1, <2>2, DataAre DEF AskEndOfStream
  <2>3. CASE ~AskEndOfStream
    <3>1. mempool' = mempool
      BY <2>3 DEF Idle, LoopTop, WaitSurfaces, PickSurface, CountBlocks, UpdateBitStream,
           LookAgain, WantsMoreData, DeviceFails, AfterLoop, DecoderStop, FlushDecoder,
           SyncOperation, PushMark, PeerTakes, PeerStops, PeerReturns, Recycle
    <3> QED BY <2>1, <3>1
  <2> QED BY <2>1, <2>2, <2>3
<1>2. Counted' /\ Decoded' = Decoded
  BY <1>1, CountedStays, DecodedStays DEF FInv
<1>3. /\ again' = again \/ again' = FALSE
      /\ surfaces' = surfaces \/ size = 0
      /\ hand' = hand \/ ~InHand
      /\ InHand' = InHand
      /\ Stuck => Stuck'
      /\ dpc' = "pushReset" => dpc = "pushReset" /\ again' = again
      /\ dpc' = "pushEos" => core = << >> /\ ended'
      /\ took = 1 => dpc' \in {"sync", "push", "update", "crashed"}
      /\ again' => dpc' \in {"pushReset", "update", "top", "crashed"}
  <2>1. /\ took = 1 => dpc \in {"sync", "push", "update", "crashed"}
        /\ again => dpc \in {"pushReset", "update", "top", "crashed"}
        /\ dpc = "pushEos" => core = << >> /\ ended
        /\ InHand => size # 0 /\ surfaces # {}
    BY DEF FInv, Phases
  <2>2. dpc = "wait" => size = 0
    BY DEF DInv, DecoderTypes, PictureTypes
  <2>3. CASE LoopTop /\ (~drun \/ ~again)
    BY <2>1, <2>3 DEF LoopTop, InHand, Stuck, pictures, input_bs_
  <2>8. CASE WaitSurfaces \/ PickSurface
    BY <2>1, <2>2, <2>8 DEF WaitSurfaces, PickSurface, InHand, Stuck, pictures, input_bs_
  <2>9. CASE CountBlocks \/ AskEndOfStream \/ UpdateBitStream
    BY <2>1, <2>9 DEF CountBlocks, AskEndOfStream, UpdateBitStream, Found, InHand, Stuck, pictures,
       input_bs_
  <2>4. CASE LookAgain \/ WantsMoreData \/ DeviceFails
    BY <2>1, <2>4 DEF LookAgain, WantsMoreData, DeviceFails, InHand, Stuck, pictures, input_bs_, Look
  <2>10. CASE AfterLoop \/ DecoderStop
    BY <2>1, <2>10 DEF AfterLoop, DecoderStop, InHand, Stuck, pictures, input_bs_, DecLeft
  <2>5. CASE \/ FlushDecoder /\ core = << >>
             \/ SyncOperation /\ dpc' = "push"
    BY <2>1, <2>5 DEF FlushDecoder, SyncOperation, InHand, Stuck, pictures, input_bs_, Look, Flush
  <2>6. CASE \/ PushMark("pushReset", "reset", "update") \/ PushMark("pushEos", "eos", "exit")
             \/ PushMark("lastEos", "eos", "done")
    BY <2>1, <2>6 DEF PushMark, InHand, Stuck, pictures, input_bs_
  <2>7. CASE PeerTakes \/ PeerStops \/ PeerReturns
    BY <2>1, <2>7 DEF PeerTakes, PeerStops, PeerReturns, Recycle, InHand, Stuck, pictures, input_bs_
  <2> QED BY <2>3, <2>4, <2>5, <2>6, <2>7, <2>8, <2>9, <2>10 DEF Idle
<1>4. /\ ended' /\ ~early' => (ended /\ ~early) \/ (mempool.data = << >> /\ netq.data = << >>)
      /\ dpc' = "header" /\ gen # 0 => seen' # 0
  <2>1. (ended' = ended /\ early' = early) \/ WantsMoreData
    BY DEF Idle, LoopTop, WaitSurfaces, PickSurface, CountBlocks, AskEndOfStream, UpdateBitStream,
           LookAgain, DeviceFails, AfterLoop, DecoderStop, FlushDecoder,
           SyncOperation, PushMark, PeerTakes, PeerStops, PeerReturns, Recycle,
           decHistory, input_bs_, Found
  <2>2. ASSUME dpc' = "header", gen # 0 PROVE seen' # 0
    <3>1. CASE AskEndOfStream \/ UpdateBitStream
      <4>1. seen' = Len(mempool.data) /\ size = 0
        BY <2>2, <3>1 DEF AskEndOfStream, UpdateBitStream, Found
      <4>2. mempool.data # << >> /\ mempool.data \in Seq(Units)
        BY <2>2, <4>1, DataAre DEF FInv, Phases, HeaderNext
      <4> QED BY <4>1, <4>2, EmptySeq
    <3>2. CASE ~(AskEndOfStream \/ UpdateBitStream)
      <4>1. dpc = "header" /\ seen' = seen
        BY <2>2, <3>2 DEF Idle, LoopTop, WaitSurfaces, PickSurface, CountBlocks,
           LookAgain, WantsMoreData, DeviceFails, AfterLoop, DecoderStop, FlushDecoder,
           SyncOperation, PushMark, PeerTakes, PeerStops, PeerReturns, Recycle, input_bs_
      <4> QED BY <2>2, <4>1 DEF FInv, Phases
    <3> QED BY <3>1, <3>2
  <2>3. CASE WantsMoreData
    BY <2>2, <2>3 DEF WantsMoreData
  <2> QED BY <2>1, <2>2, <2>3
<1>5. Phases'
  <2>1. dpc' = "pushReset" => again'
    BY <1>3 DEF FInv, Phases
  <2>2. InHand' => InHand
    BY <1>3
  <2> QED BY <1>1, <1>2, <1>3, <1>4, <2>1, <2>2, PhasesStay DEF FInv
<1>6. InOrder'
  <2>1. HandUnit' = HandUnit
    BY <1>3 DEF HandUnit
  <2> QED BY <1>1, <1>2, <1>3, <2>1, OrderStays DEF FInv
<1>7. Reasons'
  <2>1. MissedUnits \subseteq Nat /\ rnum \in Nat
    BY NumbersAre DEF FInv, InOrder
  <2> QED BY <1>1, <2>1, ReasonsStay DEF FInv
<1> QED BY <1>2, <1>5, <1>6, <1>7 DEF FInv

\* A step that leaves alone what the decoder is through with.
LEMMA OthersStay ==
  ASSUME DInv, FInv, DInv', Counted', Behind' = Behind,
         UNCHANGED <<film, dpc, size, again, seen, took, hand, core, surfaces, gen, shown, missed,
                     ended>>,
         rnum <= rnum',
         Len(mempool.data) <= Len(mempool'.data),
         mempool.data # << >> => mempool'.data # << >> /\ mempool'.data[1] = mempool.data[1],
         ended /\ ~early' => (ended /\ ~early) /\ mempool'.data = << >> /\ netq'.data = << >>
  PROVE  FInv'
<1>1. Decoded' = Decoded
  BY DEF Decoded
<1>2. HandUnit' = HandUnit /\ (Stuck => Stuck') /\ InHand' = InHand
  BY DEF HandUnit, InHand, Stuck
<1>3. InOrder'
  BY <1>1, <1>2, OrderStays DEF FInv
<1>4. Reasons'
  <2>1. MissedUnits \subseteq Nat /\ rnum \in Nat
    BY NumbersAre DEF FInv, InOrder
  <2>2. rnum' \in Nat
    BY DEF DInv, DecoderTypes, ReaderTypes
  <2> QED BY <2>1, <2>2, ReasonsStay DEF FInv
<1>5. Phases'
  <2>1. \A n : KindOf(n)' = KindOf(n)
    BY KindsStay
  <2>2. CoreUnits' = CoreUnits /\ MissedUnits' = MissedUnits
    BY DEF CoreUnits, UnitsOf, MissedUnits
  <2>3. HeaderNext => HeaderNext'
    BY DEF HeaderNext
  <2>4. ended' /\ ~early' => mempool'.data = << >> /\ netq'.data = << >>
    OBVIOUS
  <2>5. took = 1 => mempool'.data # << >>
    BY DEF FInv, Phases
  <2> QED BY <1>1, <1>2, <2>1, <2>2, <2>3, <2>4, <2>5 DEF FInv, Phases
<1> QED BY <1>3, <1>4, <1>5 DEF FInv

LEMMA ReaderFrames == ASSUME DInv, FInv, DInv', Reader \/ ReadFails \/ ReaderStop PROVE FInv'
<1>1. /\ UNCHANGED <<film, dpc, size, again, seen, took, hand, core, surfaces, gen, shown, missed,
                     ended>>
  BY DEF Reader, ReadNextFrame, PushData, ReadEof, ReadThreadOver, ReadFails, ReaderStop,
         readerVars, input_bs_, pictures, downstream, decHistory
<1>2. /\ mempool.data \in Seq(Units) /\ netq.data \in Seq(Units)
      /\ Len(mempool.data) \in Nat /\ Len(netq.data) \in Nat /\ rnum \in Nat
      /\ Behind \in Nat /\ Behind + Len(mempool.data) + Len(netq.data) = Pushed
  BY NumbersAre
<1>3. \A n : KindOf(n)' = KindOf(n)
  BY <1>1, KindsStay
<1>4. CASE PushData
  <2> DEFINE unit == [kind |-> film.units[rat], num |-> rnum]
  <2>1. /\ rpc = "push" /\ rpc' = "read" /\ UNCHANGED <<rat, rloop, rnum>>
        /\ IF film.rtsp
           THEN netq' = [netq EXCEPT !.data = Append(@, unit)] /\ UNCHANGED mempool
           ELSE /\ mempool' = [mempool EXCEPT !.data = Append(@, unit)] /\ UNCHANGED netq
        /\ early' = (early \/ ended)
    BY <1>4 DEF PushData
  <2>2. unit.num = rnum /\ unit.kind = KindOf(rnum)
    BY <2>1, KindRead DEF FInv
  <2>3. Pushed = rnum - 1 /\ Pushed' = rnum
    BY <2>1 DEF Pushed
  <2>4. unit \in Units'
    <3>1. rat > 0 /\ rat \in 0 .. Len(film.units) /\ rnum > 0 /\ rnum' = rnum /\ Units' = Units
      BY <2>1 DEF DInv, DecoderTypes, ReaderTypes, Units
    <3>2. film.units[rat] \in Kinds
      BY <3>1, FilmsAre, ElementOfSeq DEF DInv
    <3> QED BY <1>2, <3>1, <3>2 DEF Units
  <2> HIDE DEF unit
  <2>7. ~(ended /\ ~early')
    BY <2>1
  <2>5. CASE film.rtsp
    <3>1. netq'.data = Append(netq.data, unit) /\ mempool' = mempool
      BY <2>1, <2>5, DataAre
    <3>2. /\ Len(netq'.data) = Len(netq.data) + 1
          /\ \A i \in 1 .. Len(netq.data) : netq'.data[i] = netq.data[i]
          /\ netq'.data[Len(netq.data) + 1] = unit
      BY <1>2, <2>4, <3>1, AppendProperties
    <3>3. Behind' = Behind
      BY <1>2, <2>3, <3>1, <3>2 DEF Behind
    <3>4. rnum = Behind + Len(mempool.data) + (Len(netq.data) + 1)
      <4> DEFINE m == Len(mempool.data)
                 n == Len(netq.data)
      <4>1. m \in Nat /\ n \in Nat /\ Behind \in Nat /\ rnum \in Nat /\ Behind + m + n = rnum - 1
        BY <1>2, <2>3
      <4> HIDE DEF m, n
      <4>2. rnum = Behind + m + (n + 1)
        BY <4>1
      <4> QED BY <4>2 DEF m, n
    <3>5. ASSUME NEW i \in 1 .. Len(netq'.data)
          PROVE  LET n == Behind + Len(mempool.data) + i
                 IN  netq'.data[i].num = n /\ netq'.data[i].kind = KindOf(n)
      <4>1. CASE i = Len(netq.data) + 1
        BY <2>2, <3>2, <3>4, <4>1
      <4>2. CASE i \in 1 .. Len(netq.data)
        BY <3>2, <4>2 DEF FInv, Counted
      <4> QED BY <1>2, <3>2, <4>1, <4>2
    <3>6. Counted'
      BY <1>1, <1>3, <2>1, <2>5, <3>1, <3>3, <3>5 DEF FInv, Counted
    <3> QED BY <1>1, <1>2, <2>1, <2>7, <3>1, <3>3, <3>6, OthersStay
  <2>6. CASE ~film.rtsp
    <3>1. mempool'.data = Append(mempool.data, unit) /\ netq' = netq
      BY <2>1, <2>6, DataAre
    <3>2. /\ Len(mempool'.data) = Len(mempool.data) + 1
          /\ \A i \in 1 .. Len(mempool.data) : mempool'.data[i] = mempool.data[i]
          /\ mempool'.data[Len(mempool.data) + 1] = unit
      BY <1>2, <2>4, <3>1, AppendProperties
    <3>3. netq.data = << >> /\ Len(netq.data) = 0
      BY <2>6, EmptySeq DEF FInv, Counted
    <3>4. Behind' = Behind
      BY <1>2, <2>3, <3>1, <3>2 DEF Behind
    <3>5. rnum = Behind + (Len(mempool.data) + 1)
      BY <1>2, <2>3, <3>3
    <3>6. ASSUME NEW i \in 1 .. Len(mempool'.data)
          PROVE  mempool'.data[i].num = Behind + i /\ mempool'.data[i].kind = KindOf(Behind + i)
      <4>1. CASE i = Len(mempool.data) + 1
        BY <2>2, <3>2, <3>5, <4>1
      <4>2. CASE i \in 1 .. Len(mempool.data)
        BY <3>2, <4>2 DEF FInv, Counted
      <4> QED BY <1>2, <3>2, <4>1, <4>2
    <3>7. Counted'
      BY <1>1, <1>3, <2>1, <2>6, <3>1, <3>3, <3>4, <3>6 DEF FInv, Counted
    <3>8. mempool.data # << >> => mempool'.data # << >> /\ mempool'.data[1] = mempool.data[1]
      BY <1>2, <3>1, <3>2, EmptySeq
    <3>9. Len(mempool.data) <= Len(mempool'.data) /\ rnum <= rnum'
      BY <1>2, <2>1, <3>2
    <3> QED BY <1>1, <1>2, <2>1, <2>7, <3>1, <3>2, <3>4, <3>7, <3>8, <3>9, OthersStay
  <2> QED BY <2>5, <2>6
<1>5. CASE ~PushData
  <2>1. netq'.data = netq.data /\ mempool'.data = mempool.data /\ early' = early
    <3>1. /\ early' = early
          /\ UNCHANGED <<netq, mempool>> \/ EndOfData
      BY <1>5 DEF Reader, ReadNextFrame, ReadEof, ReadThreadOver, ReadFails, ReaderStop, decHistory
    <3>2. CASE EndOfData
      BY <3>1, <3>2, DataAre DEF EndOfData
    <3> QED BY <3>1, <3>2
  <2>2. /\ Pushed' = Pushed /\ rnum <= rnum' /\ rnum' = rloop' * Len(film.units) + rat'
    <3>1. /\ rloop \in Nat /\ rat \in Nat /\ Len(film.units) \in Nat
          /\ rnum = rloop * Len(film.units) + rat
      <4>1. film.loops \in Nat /\ Len(film.units) \in Nat
        BY FilmsAre DEF DInv
      <4>2. rloop \in 0 .. film.loops /\ rat \in 0 .. Len(film.units)
        BY DEF DInv, DecoderTypes, ReaderTypes
      <4>3. rnum = rloop * Len(film.units) + rat
        BY DEF FInv, Counted
      <4> QED BY <4>1, <4>2, <4>3
    <3>2. CASE ReadNextFrame
      <4>1. /\ rnum' = rnum + 1 /\ rat' = rat + 1 /\ rloop' = rloop
            /\ rpc = "read" /\ rpc' = "push"
        BY <3>2 DEF ReadNextFrame
      <4>2. Pushed' = Pushed /\ rnum <= rnum'
        BY <1>2, <4>1 DEF Pushed
      <4>3. rloop * Len(film.units) \in Nat
        BY <3>1
      <4>4. rnum' = rloop * Len(film.units) + (rat + 1)
        <5> DEFINE p == rloop * Len(film.units)
        <5>1. rnum = p + rat /\ p \in Nat /\ rat \in Nat
          BY <3>1, <4>3
        <5> HIDE DEF p
        <5>2. rnum + 1 = p + (rat + 1)
          BY <5>1
        <5> QED BY <4>1, <5>2 DEF p
      <4> QED BY <4>1, <4>2, <4>4
    <3>3. CASE ReadEof
      <4>1. /\ rnum' = rnum /\ rpc' = rpc
            /\ \/ UNCHANGED <<rat, rloop>>
               \/ rat = Len(film.units) /\ rat' = 0 /\ rloop' = rloop + 1
        BY <3>3 DEF ReadEof
      <4>2. (rloop + 1) * Len(film.units) = rloop * Len(film.units) + Len(film.units)
        BY <3>1, NextProduct
      <4> QED BY <1>2, <3>1, <4>1, <4>2 DEF Pushed
    <3>4. CASE ReadThreadOver \/ ReadFails \/ ReaderStop
      <4>1. /\ rpc' = rpc \/ (rpc = "read" /\ rpc' = "done")
            /\ UNCHANGED <<rat, rloop, rnum>>
        BY <3>4 DEF ReadThreadOver, ReadFails, ReaderStop
      <4> QED BY <1>2, <3>1, <4>1 DEF Pushed
    <3> QED BY <1>5, <3>2, <3>3, <3>4 DEF Reader
  <2>3. Behind' = Behind
    BY <2>1, <2>2 DEF Behind
  <2>4. Counted'
    BY <1>1, <1>3, <2>1, <2>2, <2>3 DEF FInv, Counted
  <2>5. ended /\ ~early' => (ended /\ ~early) /\ mempool'.data = << >> /\ netq'.data = << >>
    BY <2>1 DEF FInv, Phases
  <2> QED BY <1>1, <1>2, <2>1, <2>2, <2>3, <2>4, <2>5, OthersStay
<1> QED BY <1>4, <1>5

LEMMA MoveBlockFrames == ASSUME DInv, FInv, DInv', MoveBlock PROVE FInv'
<1>1. CASE UNCHANGED <<netq, mempool>>
  <2>1. UNCHANGED <<film, rpc, rat, rloop, rnum, size, core, gen, shown, missed, took,
                    again, surfaces, hand, ended, early, seen>>
    BY DEF MoveBlock, readerVars, pictures, input_bs_, decHistory
  <2>2. dpc = "move" /\ dpc' \in {"move", "count"}
    BY DEF MoveBlock
  <2>3. Counted' /\ Decoded' = Decoded
    BY <1>1, <2>1, CountedStays, DecodedStays DEF FInv
  <2>4. Phases'
    BY <1>1, <2>1, <2>2, <2>3, PhasesStay DEF FInv, Phases, InHand
  <2>5. InOrder'
    <3>1. HandUnit' = HandUnit /\ (Stuck => Stuck')
      BY <2>1, <2>2 DEF HandUnit, InHand, Stuck
    <3> QED BY <2>1, <2>3, <3>1, OrderStays DEF FInv
  <2>6. Reasons'
    <3>1. MissedUnits \subseteq Nat /\ rnum \in Nat
      BY NumbersAre DEF FInv, InOrder
    <3> QED BY <2>1, <3>1, ReasonsStay DEF FInv
  <2> QED BY <2>3, <2>4, <2>5, <2>6 DEF FInv
<1>2. CASE ~ UNCHANGED <<netq, mempool>>
  <2>1. /\ netq.data # << >> /\ film.rtsp
        /\ netq' = [netq EXCEPT !.data = Tail(@)]
        /\ mempool' = [mempool EXCEPT !.data = Append(@, Head(netq.data))]
        /\ UNCHANGED <<film, rpc, rat, rloop, rnum, dpc, size, core, gen, shown, missed, took,
                       again, surfaces, hand, ended, early, seen>>
    BY <1>2 DEF MoveBlock, readerVars, pictures, input_bs_, decHistory
  <2> DEFINE m == Len(mempool.data)
             n == Len(netq.data)
  <2>2. /\ mempool.data \in Seq(Units) /\ netq.data \in Seq(Units) /\ m \in Nat /\ n \in Nat
        /\ Behind \in Nat /\ Behind + m + n = Pushed /\ rnum \in Nat
    BY NumbersAre
  <2>3. netq'.data = Tail(netq.data) /\ mempool'.data = Append(mempool.data, Head(netq.data))
    BY <2>1, DataAre
  <2>4. /\ Head(netq.data) = netq.data[1] /\ Head(netq.data) \in Units /\ n >= 1
        /\ Len(netq'.data) = n - 1
        /\ \A i \in 1 .. n - 1 : netq'.data[i] = netq.data[i + 1]
    BY <2>1, <2>2, <2>3, HeadTailProperties, EmptySeq
  <2>5. /\ Len(mempool'.data) = m + 1
        /\ \A i \in 1 .. m : mempool'.data[i] = mempool.data[i]
        /\ mempool'.data[m + 1] = netq.data[1]
    BY <2>2, <2>3, <2>4, AppendProperties
  <2>6. Pushed' = Pushed /\ \A k : KindOf(k)' = KindOf(k)
    BY <2>1, KindsStay DEF Pushed
  <2>7. Behind' = Behind
    <3>1. Behind' = Pushed' - Len(netq'.data) - Len(mempool'.data)
      BY DEF Behind
    <3> HIDE DEF m, n
    <3> QED BY <2>2, <2>4, <2>5, <2>6, <3>1
  <2>8. /\ \A i \in 1 .. m : mempool.data[i].num = Behind + i
                             /\ mempool.data[i].kind = KindOf(Behind + i)
        /\ \A i \in 1 .. n : netq.data[i].num = Behind + m + i
                             /\ netq.data[i].kind = KindOf(Behind + m + i)
    BY DEF FInv, Counted
  <2> HIDE DEF m, n
  <2>9. ASSUME NEW i \in 1 .. m + 1
        PROVE  mempool'.data[i].num = Behind + i /\ mempool'.data[i].kind = KindOf(Behind + i)
    <3>1. CASE i = m + 1
      <4>1. 1 \in 1 .. n /\ Behind + m + 1 = Behind + (m + 1)
        BY <2>2, <2>4
      <4> QED BY <2>5, <2>8, <3>1, <4>1
    <3>2. CASE i \in 1 .. m
      BY <2>5, <2>8, <3>2
    <3> QED BY <2>2, <3>1, <3>2
  <2>10. ASSUME NEW i \in 1 .. n - 1
         PROVE  /\ netq'.data[i].num = Behind + (m + 1) + i
                /\ netq'.data[i].kind = KindOf(Behind + (m + 1) + i)
    <3>1. i + 1 \in 1 .. n /\ Behind + m + (i + 1) = Behind + (m + 1) + i
      BY <2>2
    <3> QED BY <2>4, <2>8, <3>1
  <2>11. Counted'
    <3>1. rnum' = rloop' * Len(film'.units) + rat' /\ film'.rtsp
      BY <2>1 DEF FInv, Counted
    <3>2. Behind' \in Nat /\ Len(mempool'.data) = m + 1 /\ Len(netq'.data) = n - 1
      BY <2>2, <2>4, <2>5, <2>7
    <3>3. \A i \in 1 .. Len(mempool'.data) :
            mempool'.data[i].num = Behind' + i /\ mempool'.data[i].kind = KindOf(Behind' + i)
      BY <2>6, <2>7, <2>9, <3>2
    <3>4. \A i \in 1 .. Len(netq'.data) :
            /\ netq'.data[i].num = Behind' + Len(mempool'.data) + i
            /\ netq'.data[i].kind = KindOf(Behind' + Len(mempool'.data) + i)
      BY <2>6, <2>7, <2>10, <3>2
    <3> QED BY <2>6, <3>1, <3>2, <3>3, <3>4 DEF Counted
  <2>12. mempool.data # << >> => mempool'.data # << >> /\ mempool'.data[1] = mempool.data[1]
    BY <2>2, <2>5, EmptySeq DEF m
  <2>13. ended => early
    BY <2>1 DEF FInv, Phases
  <2> QED BY <2>1, <2>2, <2>5, <2>7, <2>11, <2>12, <2>13, OthersStay DEF m
<1> QED BY <1>1, <1>2

-----------------------------------------------------------------------------
(* Units leave the pool. *)

\* The first n units of the pool are gone from it.
LEMMA DropFirst ==
  ASSUME DInv, FInv, NEW n \in Nat, n <= Len(mempool.data),
         UNCHANGED <<film, rpc, rat, rloop, rnum, netq>>,
         mempool'.data = SubSeq(mempool.data, n + 1, Len(mempool.data))
  PROVE  /\ Counted' /\ Behind' = Behind + n
         /\ Len(mempool'.data) = Len(mempool.data) - n
         /\ \A i \in 1 .. Len(mempool.data) - n : mempool'.data[i] = mempool.data[n + i]
<1> DEFINE m == Len(mempool.data)
<1>1. /\ mempool.data \in Seq(Units) /\ m \in Nat
      /\ Behind \in Nat /\ Behind + m + Len(netq.data) = Pushed /\ Len(netq.data) \in Nat
  BY NumbersAre
<1>2. /\ Len(mempool'.data) = m - n
      /\ \A i \in 1 .. m - n : mempool'.data[i] = mempool.data[n + i]
  <2>1. \A i \in n + 1 .. m : mempool.data[i] \in Units
    BY <1>1, ElementOfSeq
  <2>2. /\ Len(mempool'.data) = IF n + 1 <= m THEN m - (n + 1) + 1 ELSE 0
        /\ \A i \in 1 .. m - (n + 1) + 1 : mempool'.data[i] = mempool.data[n + 1 + i - 1]
    <3> HIDE DEF m
    <3> QED BY <1>1, <2>1, SubSeqProperties DEF m
  <2> HIDE DEF m
  <2>3. Len(mempool'.data) = m - n
    BY <1>1, <2>2 DEF m
  <2>4. ASSUME NEW i \in 1 .. m - n PROVE mempool'.data[i] = mempool.data[n + i]
    <3>1. i \in 1 .. m - (n + 1) + 1 /\ n + 1 + i - 1 = n + i
      BY <1>1
    <3> QED BY <2>2, <3>1
  <2> QED BY <2>3, <2>4
<1> HIDE DEF m
<1>3. Behind' = Behind + n
  <2>1. Behind' = Pushed' - Len(netq'.data) - Len(mempool'.data) /\ Pushed' = Pushed
    BY DEF Behind, Pushed
  <2> QED BY <1>1, <1>2, <2>1
<1>4. \A k : KindOf(k)' = KindOf(k)
  BY KindsStay
<1>5. /\ \A i \in 1 .. m : mempool.data[i].num = Behind + i
                           /\ mempool.data[i].kind = KindOf(Behind + i)
      /\ \A i \in 1 .. Len(netq.data) : netq.data[i].num = Behind + m + i
                                       /\ netq.data[i].kind = KindOf(Behind + m + i)
  BY DEF FInv, Counted, m
<1>6. ASSUME NEW i \in 1 .. m - n
      PROVE  /\ mempool'.data[i].num = Behind + n + i
             /\ mempool'.data[i].kind = KindOf(Behind + n + i)
  <2>1. n + i \in 1 .. m /\ Behind + (n + i) = Behind + n + i
    BY <1>1
  <2> QED BY <1>2, <1>5, <2>1
<1>7. ASSUME NEW i \in 1 .. Len(netq.data)
      PROVE  /\ netq.data[i].num = Behind + n + (m - n) + i
             /\ netq.data[i].kind = KindOf(Behind + n + (m - n) + i)
  <2>1. Behind + n + (m - n) + i = Behind + m + i
    BY <1>1
  <2> QED BY <1>5, <2>1
<1>8. Behind + n \in Nat
  BY <1>1
<1>9. Counted'
  BY <1>2, <1>3, <1>4, <1>6, <1>7, <1>8 DEF FInv, Counted
<1> QED BY <1>2, <1>3, <1>9 DEF m

LEMMA UpdateMemPoolFrames == ASSUME DInv, FInv, DInv', UpdateMemPool PROVE FInv'
<1>1. /\ UNCHANGED <<film, rpc, rat, rloop, rnum, netq, size, again, hand, core, surfaces, gen, shown,
                     missed, ended, early>>
      /\ dpc = "update" /\ dpc' = "top" /\ took' = 0
      /\ mempool'.data = SubSeq(mempool.data, took + 1, Len(mempool.data))
  BY DataAre DEF UpdateMemPool, reader, readerVars, pictures, input_bs_, decHistory
<1>2. /\ took \in Nat /\ took <= Len(mempool.data) /\ Len(mempool.data) \in Nat /\ Behind \in Nat
      /\ Decoded = Behind + took /\ mempool.data \in Seq(Units)
      /\ Len(netq.data) \in Nat /\ rnum \in Nat
  BY NumbersAre
<1>3. /\ Counted' /\ Behind' = Behind + took
      /\ Len(mempool'.data) = Len(mempool.data) - took
      /\ \A i \in 1 .. Len(mempool.data) - took : mempool'.data[i] = mempool.data[took + i]
  BY <1>1, <1>2, DropFirst
<1>4. Decoded' = Decoded
  BY <1>1, <1>2, <1>3 DEF Decoded
<1>5. HandUnit' = HandUnit /\ (Stuck => Stuck') /\ ~InHand'
  BY <1>1 DEF HandUnit, InHand, Stuck
<1>6. InOrder'
  BY <1>1, <1>4, <1>5, OrderStays DEF FInv
<1>7. Reasons'
  <2>1. MissedUnits \subseteq Nat
    BY NumbersAre DEF FInv, InOrder
  <2> QED BY <1>1, <1>2, <2>1, ReasonsStay DEF FInv
<1>8. Phases'
  <2>1. \A n : KindOf(n)' = KindOf(n)
    BY <1>1, KindsStay
  <2>2. CoreUnits' = CoreUnits /\ MissedUnits' = MissedUnits
    BY <1>1 DEF CoreUnits, UnitsOf, MissedUnits
  <2>3. mempool'.data \in Seq(Units')
    BY DataAre DEF DInv, DecoderTypes, ReaderTypes
  <2>4. HeaderNext => HeaderNext'
    <3>1. SUFFICES ASSUME HeaderNext PROVE HeaderNext'
      OBVIOUS
    <3>2. took = 0 /\ Len(mempool.data) > 0
      BY <1>2, <3>1, EmptySeq DEF HeaderNext
    <3>3. mempool'.data[1] = mempool.data[1] /\ Len(mempool'.data) > 0
      BY <1>2, <1>3, <3>2
    <3> QED BY <1>1, <2>3, <3>1, <3>3, EmptySeq DEF HeaderNext
  <2>5. mempool.data = << >> => mempool'.data = << >>
    BY <1>2, <1>3, <2>3, EmptySeq
  <2> QED BY <1>1, <1>4, <1>5, <2>1, <2>2, <2>4, <2>5 DEF FInv, Phases
<1> QED BY <1>3, <1>6, <1>7, <1>8 DEF FInv

\* The codec is closed on what was given up already.
LEMMA CloseFrames == ASSUME DInv, FInv, DInv', LoopTop, drun, again PROVE FInv'
<1>1. /\ UNCHANGED <<film, rpc, rat, rloop, rnum, netq, mempool, hand, surfaces, gen, shown, missed,
                     ended, early, took>>
      /\ dpc = "top" /\ dpc' = "wait" /\ size' = 0 /\ core' = << >> /\ again' = FALSE
  BY DEF LoopTop, reader, readerVars, input_bs_, decHistory
<1>2. Counted' /\ Decoded' = Decoded
  BY <1>1, CountedStays, DecodedStays DEF FInv
<1>3. /\ CoreUnits' = {} /\ HandUnit = {} /\ HandUnit' = {} /\ MissedUnits' = MissedUnits
      /\ ShownUnits' = ShownUnits /\ \A n : KindOf(n)' = KindOf(n)
  BY <1>1, KindsStay DEF CoreUnits, UnitsOf, HandUnit, InHand, MissedUnits, ShownUnits
<1>4. CoreUnits \subseteq MissedUnits /\ HeaderNext
  BY DEF FInv, Phases
<1>5. InOrder'
  BY <1>1, <1>2, <1>3, <1>4 DEF FInv, InOrder, Before, Rising
<1>6. Reasons'
  <2>1. MissedUnits \subseteq Nat /\ rnum \in Nat
    BY NumbersAre DEF FInv, InOrder
  <2> QED BY <1>1, <2>1, ReasonsStay DEF FInv
<1>7. Phases'
  <2>1. HeaderNext'
    BY <1>1, <1>4 DEF HeaderNext
  <2> QED BY <1>1, <1>2, <1>3, <2>1 DEF FInv, Phases, InHand
<1> QED BY <1>2, <1>5, <1>6, <1>7 DEF FInv

\* DecodeHeader goes over the units in front of the first header; there are
\* none when the codec was closed for a header.
LEMMA HeaderFound ==
  ASSUME DInv, FInv, DecodeHeader
  PROVE  \E over \in 0 .. seen :
           /\ mempool'.data = SubSeq(mempool.data, over + 1, Len(mempool.data))
           /\ missed' = missed \cup {<<mempool.data[i].num, "header">> : i \in 1 .. over}
           /\ \A i \in 1 .. over : mempool.data[i].kind \notin SizeKeys
           /\ gen # 0 => over = 0
           /\ \/ gen = 0 /\ over = seen /\ dpc' = "top" /\ UNCHANGED <<size, surfaces, gen>>
              \/ /\ over < seen /\ mempool.data[over + 1].kind \in SizeKeys
                 /\ \/ dpc' = "left" /\ UNCHANGED <<size, surfaces, gen>>
                    \/ dpc' = "surface" /\ size' # 0 /\ surfaces' # {} /\ gen' = gen + 1
<1> DEFINE units == SubSeq(mempool.data, 1, seen)
           first == {i \in 1 .. seen : IsKey(units[i])}
           over == IF first = {} THEN seen ELSE Min(first) - 1
<1>1. /\ mempool.data \in Seq(Units) /\ Len(mempool.data) \in Nat /\ seen \in Nat
      /\ seen <= Len(mempool.data)
  BY DataAre, NumbersAre DEF DecodeHeader, DInv, DecoderTypes, PictureTypes
<1>2. \A i \in 1 .. seen : units[i] = mempool.data[i]
  <2>1. \A i \in 1 .. seen : mempool.data[i] \in Units
    BY <1>1, ElementOfSeq
  <2> QED BY <1>1, <2>1, SubSeqProperties
<1>3. /\ mempool'.data = SubSeq(mempool.data, over + 1, Len(mempool.data))
      /\ missed' = missed \cup {<<units[i].num, "header">> : i \in 1 .. over}
  BY DataAre DEF DecodeHeader
<1>4. IF first = {}
      THEN dpc' = "top" /\ UNCHANGED <<size, surfaces, gen>>
      ELSE \/ dpc' = "left" /\ UNCHANGED <<size, surfaces, gen>>
           \/ /\ dpc' = "surface" /\ size' = SizeOf(units[over + 1]) /\ gen' = gen + 1
              /\ surfaces' \in IF gen = 0 THEN {1 .. DecSurfaces}
                               ELSE kSubset(DecSurfaces, Addresses)
  BY DEF DecodeHeader
<1>5. first \subseteq 1 .. seen /\ first \subseteq Nat
      /\ \A i \in 1 .. seen : i \in first <=> mempool.data[i].kind \in SizeKeys
  BY <1>1, <1>2 DEF IsKey, SizeKeys
<1> HIDE DEF first, units
<1>6. CASE first = {}
  <2>1. over = seen
    BY <1>6
  <2>2. gen = 0
    <3>1. ASSUME gen # 0 PROVE FALSE
      <4>1. dpc = "header" /\ size = 0
        BY DEF DecodeHeader, DInv, DecoderTypes, PictureTypes
      <4>2. HeaderNext /\ seen # 0
        BY <3>1, <4>1 DEF FInv, Phases
      <4>3. 1 \in 1 .. seen
        BY <1>1, <4>2
      <4> QED BY <1>5, <1>6, <4>2, <4>3 DEF HeaderNext
    <3> QED BY <3>1
  <2>3. \A i \in 1 .. seen : mempool.data[i].kind \notin SizeKeys
    BY <1>5, <1>6
  <2>4. {<<units[i].num, "header">> : i \in 1 .. over}
          = {<<mempool.data[i].num, "header">> : i \in 1 .. seen}
    BY <1>2, <2>1
  <2>5. mempool'.data = SubSeq(mempool.data, seen + 1, Len(mempool.data))
    BY <1>3, <2>1
  <2>6. missed' = missed \cup {<<mempool.data[i].num, "header">> : i \in 1 .. seen}
    BY <1>3, <2>4
  <2>7. seen \in 0 .. seen
    BY <1>1
  <2> QED BY <1>4, <1>6, <2>2, <2>3, <2>5, <2>6, <2>7
<1>7. CASE first # {}
  <2> DEFINE k == Min(first)
  <2>1. k \in first /\ \A i \in first : k <= i
    BY <1>5, <1>7, MinIsLeast
  <2> HIDE DEF k
  <2>2. over = k - 1 /\ k \in 1 .. seen
    BY <1>5, <1>7, <2>1 DEF k
  <2>3. over \in 0 .. seen /\ over < seen /\ over + 1 = k
    BY <1>1, <2>2
  <2> HIDE DEF over
  <2>4. \A i \in 1 .. over : mempool.data[i].kind \notin SizeKeys
    BY <1>1, <1>5, <2>1, <2>2, <2>3
  <2>5. mempool.data[over + 1].kind \in SizeKeys
    BY <1>5, <2>1, <2>2, <2>3
  <2>6. gen # 0 => over = 0
    <3>1. ASSUME gen # 0, over # 0 PROVE FALSE
      <4>1. dpc = "header" /\ size = 0
        BY DEF DecodeHeader, DInv, DecoderTypes, PictureTypes
      <4>2. HeaderNext
        BY <3>1, <4>1 DEF FInv, Phases
      <4>3. 1 \in 1 .. over
        BY <2>3, <3>1
      <4> QED BY <2>4, <4>2, <4>3 DEF HeaderNext
    <3> QED BY <3>1
  <2>7. {<<units[i].num, "header">> : i \in 1 .. over}
          = {<<mempool.data[i].num, "header">> : i \in 1 .. over}
    <3>1. \A i \in 1 .. over : i \in 1 .. seen
      BY <1>1, <2>3
    <3> QED BY <1>2, <3>1
  <2>8. missed' = missed \cup {<<mempool.data[i].num, "header">> : i \in 1 .. over}
    BY <1>3, <2>7
  <2>9. ASSUME dpc' # "left" PROVE size' # 0 /\ surfaces' # {} /\ gen' = gen + 1 /\ dpc' = "surface"
    <3>1. /\ size' = SizeOf(units[over + 1]) /\ gen' = gen + 1 /\ dpc' = "surface"
          /\ surfaces' \in IF gen = 0 THEN {1 .. DecSurfaces} ELSE kSubset(DecSurfaces, Addresses)
      BY <1>4, <1>7, <2>9
    <3>2. DecSurfaces \in Nat \ {0}
      BY DecAssumption
    <3>3. 1 \in 1 .. DecSurfaces
      BY <3>2
    <3>4. {} \notin kSubset(DecSurfaces, Addresses)
      <4>1. \A s \in kSubset(DecSurfaces, Addresses) : Cardinality(s) = DecSurfaces
        BY DEF kSubset
      <4> QED BY <3>2, <4>1, FS_EmptySet
    <3>5. surfaces' # {}
      BY <3>1, <3>3, <3>4
    <3> QED BY <3>1, <3>5 DEF SizeOf
  <2>10. UNCHANGED <<size, surfaces, gen>> \/ dpc' # "left"
    BY <1>4, <1>7
  <2> QED BY <1>3, <2>3, <2>4, <2>5, <2>6, <2>8, <2>9, <2>10
<1> QED BY <1>6, <1>7

LEMMA DecodeHeaderFrames == ASSUME DInv, FInv, DInv', DecodeHeader PROVE FInv'
<1>1. /\ UNCHANGED <<film, rpc, rat, rloop, rnum, netq, again, hand, core, shown, ended, early, took>>
      /\ dpc = "header" /\ size = 0
  BY DEF DecodeHeader, reader, readerVars, input_bs_, DInv, DecoderTypes, PictureTypes
<1>2. PICK over \in 0 .. seen :
           /\ mempool'.data = SubSeq(mempool.data, over + 1, Len(mempool.data))
           /\ missed' = missed \cup {<<mempool.data[i].num, "header">> : i \in 1 .. over}
           /\ \A i \in 1 .. over : mempool.data[i].kind \notin SizeKeys
           /\ gen # 0 => over = 0
           /\ \/ gen = 0 /\ over = seen /\ dpc' = "top" /\ UNCHANGED <<size, surfaces, gen>>
              \/ /\ over < seen /\ mempool.data[over + 1].kind \in SizeKeys
                 /\ \/ dpc' = "left" /\ UNCHANGED <<size, surfaces, gen>>
                    \/ dpc' = "surface" /\ size' # 0 /\ surfaces' # {} /\ gen' = gen + 1
  BY HeaderFound
<1>3. /\ mempool.data \in Seq(Units) /\ Len(mempool.data) \in Nat /\ seen \in Nat
      /\ seen <= Len(mempool.data) /\ over \in Nat /\ over <= Len(mempool.data)
      /\ Behind \in Nat /\ rnum \in Nat
  <2>1. seen \in Nat /\ seen <= Len(mempool.data)
    BY <1>1, DataAre DEF DInv, DecoderTypes, PictureTypes
  <2> QED BY <2>1, NumbersAre
<1>4. took = 0 /\ core = << >> /\ ~again /\ ~Stuck
  <2>1. took = 0 /\ core = << >> /\ ~again
    BY <1>1, NumbersAre DEF FInv, Phases
  <2> QED BY <1>1, <2>1 DEF Stuck
<1>5. /\ Counted' /\ Behind' = Behind + over
      /\ Len(mempool'.data) = Len(mempool.data) - over
      /\ \A i \in 1 .. Len(mempool.data) - over : mempool'.data[i] = mempool.data[over + i]
  BY <1>1, <1>2, <1>3, DropFirst
<1>6. Decoded = Behind /\ Decoded' = Behind + over /\ \A n : KindOf(n)' = KindOf(n)
  BY <1>1, <1>3, <1>4, <1>5, KindsStay DEF Decoded
<1>7. /\ CoreUnits = {} /\ CoreUnits' = {} /\ HandUnit = {} /\ HandUnit' = {}
      /\ ShownUnits' = ShownUnits
  BY <1>1, <1>2, <1>4 DEF CoreUnits, UnitsOf, HandUnit, InHand, ShownUnits
<1>8. \A i \in 1 .. over : mempool.data[i].num = Behind + i /\ mempool.data[i].kind = KindOf(Behind + i)
  <2>1. \A i \in 1 .. over : i \in 1 .. Len(mempool.data)
    BY <1>3
  <2> QED BY <2>1 DEF FInv, Counted
<1>9. MissedUnits' = MissedUnits \cup {Behind + i : i \in 1 .. over}
  <2>1. {<<mempool.data[i].num, "header">> : i \in 1 .. over} = {<<Behind + i, "header">> : i \in 1 .. over}
    BY <1>8
  <2>2. missed' = missed \cup {<<Behind + i, "header">> : i \in 1 .. over}
    BY <1>2, <2>1
  <2>3. \A i \in 1 .. over : <<Behind + i, "header">>[1] = Behind + i
    OBVIOUS
  <2>4. MissedUnits' = MissedUnits \cup {<<Behind + i, "header">>[1] : i \in 1 .. over}
    BY <2>2, Zenon DEF MissedUnits
  <2> QED BY <2>3, <2>4
<1>10. {Behind + i : i \in 1 .. over} = Behind + 1 .. Behind + over
  <2>1. \A n \in Behind + 1 .. Behind + over : n - Behind \in 1 .. over /\ n = Behind + (n - Behind)
    BY <1>3
  <2>2. \A i \in 1 .. over : Behind + i \in Behind + 1 .. Behind + over
    BY <1>3
  <2> QED BY <2>1, <2>2
<1>11. InOrder'
  <2>1. 1 .. Behind + over = 1 .. Behind \cup (Behind + 1 .. Behind + over)
    BY <1>3
  <2>2. 1 .. Decoded = ShownUnits \cup MissedUnits
    BY <1>7 DEF FInv, InOrder
  <2>3. ShownUnits \cap (Behind + 1 .. Behind + over) = {}
    BY <1>3, <1>6, <2>2
  <2>4. 1 .. Decoded' = ShownUnits' \cup HandUnit' \cup CoreUnits' \cup MissedUnits'
    BY <1>6, <1>7, <1>9, <1>10, <2>1, <2>2
  <2>5. MissedUnits' \cap ShownUnits' = {}
    BY <1>7, <1>9, <1>10, <2>3 DEF FInv, InOrder
  <2>6. Rising(core)'
    BY <1>1, <1>4 DEF Rising
  <2> QED BY <1>1, <1>7, <2>4, <2>5, <2>6 DEF FInv, InOrder, Before
<1>12. gen = 0 => \A n \in 1 .. Behind + over : KindOf(n) \notin SizeKeys
  <2> SUFFICES ASSUME gen = 0, NEW n \in 1 .. Behind + over PROVE KindOf(n) \notin SizeKeys
    OBVIOUS
  <2>1. CASE n \in 1 .. Behind
    BY <1>6, <2>1 DEF FInv, Phases
  <2>2. CASE n \notin 1 .. Behind
    <3>1. n \in {Behind + i : i \in 1 .. over}
      BY <1>3, <1>10, <2>2
    <3> QED BY <1>2, <1>8, <3>1
  <2> QED BY <2>1, <2>2
<1>13. Reasons'
  <2>1. SUFFICES ASSUME NEW m \in missed'
                 PROVE  /\ m[2] = "header" => \A n \in 1 .. m[1] : KindOf(n) \notin SizeKeys
                        /\ m[2] = "odd" => KindOf(m[1]) = "odd"
                        /\ m[2] = "reset" => ResetAfter(m[1])'
    BY <1>6 DEF Reasons
  <2>2. CASE m \in missed
    <3>1. ResetAfter(m[1])' <=> ResetAfter(m[1])
      BY <1>1, <1>6 DEF ResetAfter
    <3> QED BY <2>2, <3>1 DEF FInv, Reasons
  <2>3. CASE m \notin missed
    <3>1. PICK i \in 1 .. over : m = <<mempool.data[i].num, "header">>
      BY <1>2, <2>3
    <3>2. m[1] = Behind + i /\ m[2] = "header" /\ gen = 0
      BY <1>2, <1>3, <1>8, <3>1
    <3>3. \A n \in 1 .. m[1] : n \in 1 .. Behind + over
      BY <1>3, <3>2
    <3> QED BY <1>12, <3>2, <3>3
  <2> QED BY <2>2, <2>3
<1>14. Phases'
  <2>1. mempool'.data \in Seq(Units')
    BY DataAre DEF DInv, DecoderTypes, ReaderTypes
  <2>2. mempool.data = << >> => mempool'.data = << >>
    BY <1>3, <1>5, <2>1, EmptySeq
  <2>3. ASSUME gen # 0 PROVE HeaderNext'
    <3>1. HeaderNext /\ over = 0
      BY <1>1, <1>2, <2>3 DEF FInv, Phases
    <3>2. Len(mempool.data) > 0
      BY <1>3, <3>1, EmptySeq DEF HeaderNext
    <3>3. mempool'.data[1] = mempool.data[1] /\ Len(mempool'.data) > 0
      BY <1>3, <1>5, <3>1, <3>2
    <3> QED BY <1>1, <2>1, <3>1, <3>3, EmptySeq DEF HeaderNext
  <2>4. gen' \in Nat /\ gen \in Nat
    BY DEF DInv, DecoderTypes, PictureTypes
  <2>5. CASE dpc' \in {"top", "left"}
    BY <1>1, <1>2, <1>4, <1>6, <1>7, <1>12, <2>2, <2>3, <2>5 DEF FInv, Phases, InHand
  <2>6. CASE dpc' = "surface"
    <3>1. size' # 0 /\ surfaces' # {} /\ gen' # 0
      BY <1>2, <2>4, <2>6
    <3> QED BY <1>1, <1>4, <1>7, <2>2, <2>6, <3>1 DEF FInv, Phases, InHand
  <2> QED BY <1>2, <2>5, <2>6
<1> QED BY <1>5, <1>11, <1>13, <1>14 DEF FInv

-----------------------------------------------------------------------------
(* Units go into the codec and come out. *)

LEMMA FirstOfRising ==
  ASSUME NEW S, NEW q \in Seq(S), q # << >>, Rising(q)
  PROVE  /\ Rising(Tail(q)) /\ UnitsOf(q) = {Head(q).unit} \cup UnitsOf(Tail(q))
         /\ \A u \in UnitsOf(Tail(q)) : Head(q).unit < u
<1> DEFINE n == Len(q)
           t == Tail(q)
<1>1. /\ DOMAIN q = 1 .. n /\ n \in Nat /\ n >= 1 /\ Head(q) = q[1]
      /\ t \in Seq(S) /\ Len(t) = n - 1 /\ \A i \in 1 .. n - 1 : t[i] = q[i + 1]
  BY LenProperties, HeadTailProperties, EmptySeq
<1>2. DOMAIN t = 1 .. n - 1
  BY <1>1, LenProperties
<1> HIDE DEF n, t
<1>3. Rising(t)
  <2> SUFFICES ASSUME NEW i \in 1 .. n - 1, NEW j \in 1 .. n - 1, i < j PROVE t[i].unit < t[j].unit
    BY <1>2 DEF Rising
  <2>1. i + 1 \in 1 .. n /\ j + 1 \in 1 .. n /\ i + 1 < j + 1
    BY <1>1
  <2> QED BY <1>1, <2>1 DEF Rising
<1>4. \A i \in 1 .. n - 1 : t[i].unit \in UnitsOf(q) /\ q[1].unit < t[i].unit
  <2> SUFFICES ASSUME NEW i \in 1 .. n - 1
               PROVE  t[i].unit \in UnitsOf(q) /\ q[1].unit < t[i].unit
    OBVIOUS
  <2>1. 1 \in 1 .. n /\ i + 1 \in 1 .. n /\ 1 < i + 1
    BY <1>1
  <2> QED BY <1>1, <2>1 DEF Rising, UnitsOf
<1>5. UnitsOf(t) = {t[i].unit : i \in 1 .. n - 1} /\ UnitsOf(q) = {q[i].unit : i \in 1 .. n}
  BY <1>1, <1>2 DEF UnitsOf
<1>6. ASSUME NEW i \in 1 .. n PROVE q[i].unit \in {q[1].unit} \cup UnitsOf(t)
  <2>1. CASE i = 1
    BY <2>1
  <2>2. CASE i # 1
    <3>1. i - 1 \in 1 .. n - 1 /\ t[i - 1] = q[i]
      BY <1>1, <2>2
    <3> QED BY <1>5, <3>1
  <2> QED BY <2>1, <2>2
<1>7. q[1].unit \in UnitsOf(q)
  BY <1>1 DEF UnitsOf
<1>8. UnitsOf(q) = {q[1].unit} \cup UnitsOf(t)
  BY <1>4, <1>5, <1>6, <1>7
<1> QED BY <1>1, <1>3, <1>4, <1>5, <1>8 DEF t

LEMMA LastOfRising ==
  ASSUME NEW S, NEW q \in Seq(S), Rising(q), NEW x \in S, \A u \in UnitsOf(q) : u < x.unit
  PROVE  Rising(Append(q, x)) /\ UnitsOf(Append(q, x)) = UnitsOf(q) \cup {x.unit}
<1> DEFINE n == Len(q)
           r == Append(q, x)
<1>1. /\ DOMAIN q = 1 .. n /\ n \in Nat
      /\ r \in Seq(S) /\ Len(r) = n + 1 /\ \A i \in 1 .. n : r[i] = q[i]
      /\ r[n + 1] = x
  BY LenProperties, AppendProperties
<1>2. DOMAIN r = 1 .. n + 1
  BY <1>1, LenProperties
<1> HIDE DEF n, r
<1>3. Rising(r)
  <2> SUFFICES ASSUME NEW i \in 1 .. n + 1, NEW j \in 1 .. n + 1, i < j PROVE r[i].unit < r[j].unit
    BY <1>2 DEF Rising
  <2>1. CASE j = n + 1
    <3>1. i \in 1 .. n
      BY <1>1, <2>1
    <3> QED BY <1>1, <2>1, <3>1 DEF UnitsOf
  <2>2. CASE j # n + 1
    <3>1. i \in 1 .. n /\ j \in 1 .. n
      BY <1>1, <2>2
    <3> QED BY <1>1, <3>1 DEF Rising
  <2> QED BY <2>1, <2>2
<1>4. UnitsOf(r) = UnitsOf(q) \cup {x.unit}
  <2>1. \A i \in 1 .. n + 1 : i \in 1 .. n \/ i = n + 1
    BY <1>1
  <2>2. 1 .. n \subseteq 1 .. n + 1 /\ n + 1 \in 1 .. n + 1
    BY <1>1
  <2> QED BY <1>1, <1>2, <2>1, <2>2 DEF UnitsOf
<1> QED BY <1>3, <1>4 DEF r

\* The codec takes the next unit or none, and gives the first of its pictures
\* into the thread's hand, or none.
LEMMA OrderMoves ==
  ASSUME InOrder, Decoded \in Nat, ~Stuck, HandUnit = {}, UNCHANGED <<film, shown, missed>>,
         Decoded' = Decoded \/ Decoded' = Decoded + 1,
         Rising(core'), Before(HandUnit', CoreUnits'),
         HandUnit' \cup CoreUnits' = CoreUnits \cup (Decoded + 1 .. Decoded')
  PROVE  InOrder'
<1>1. \A n : KindOf(n)' = KindOf(n)
  BY KindsStay
<1>2. ShownUnits' = ShownUnits /\ MissedUnits' = MissedUnits
  BY DEF ShownUnits, MissedUnits
<1> DEFINE New == Decoded + 1 .. Decoded'
<1>3. /\ 1 .. Decoded' = 1 .. Decoded \cup New /\ \A n \in New : n = Decoded + 1 /\ n = Decoded'
      /\ (1 .. Decoded) \cap New = {}
  OBVIOUS
<1> HIDE DEF New
<1>4. /\ 1 .. Decoded = ShownUnits \cup CoreUnits \cup MissedUnits
      /\ Before(ShownUnits, CoreUnits)
      /\ MissedUnits \cap ShownUnits = {} /\ MissedUnits \cap CoreUnits = {}
      /\ \A c \in CoreUnits, n \in 1 .. Decoded : c < n /\ KindOf(n) # "odd" => n \in CoreUnits
  BY DEF InOrder
<1>5. HandUnit' \cup CoreUnits' = CoreUnits \cup New
  BY DEF New
<1>6. 1 .. Decoded' = ShownUnits' \cup HandUnit' \cup CoreUnits' \cup MissedUnits'
  BY <1>2, <1>3, <1>4, <1>5
<1>7. Before(ShownUnits, New)
  <2>1. \A s \in ShownUnits : s \in 1 .. Decoded
    BY <1>4
  <2> QED BY <1>3, <2>1 DEF Before
<1>8. Before(ShownUnits', HandUnit') /\ Before(ShownUnits', CoreUnits')
  BY <1>2, <1>4, <1>5, <1>7 DEF Before
<1>9. /\ MissedUnits' \cap ShownUnits' = {} /\ MissedUnits' \cap HandUnit' = {}
      /\ MissedUnits' \cap CoreUnits' = {}
  BY <1>2, <1>3, <1>4, <1>5
<1>10. ASSUME NEW c \in CoreUnits', NEW n \in 1 .. Decoded', c < n, KindOf(n) # "odd"
       PROVE  n \in CoreUnits'
  <2>1. n \notin HandUnit'
    <3>1. ASSUME n \in HandUnit' PROVE FALSE
      <4>1. n < c
        BY <3>1 DEF Before
      <4>2. c \in 1 .. Decoded'
        BY <1>6
      <4> QED BY <1>10, <4>1, <4>2
    <3> QED BY <3>1
  <2>2. CASE n \in New
    BY <1>5, <2>1, <2>2
  <2>3. CASE n \in 1 .. Decoded
    <3>1. c \notin New
      <4>1. ASSUME c \in New PROVE FALSE
        <5>1. c = Decoded + 1
          BY <1>3, <4>1
        <5> QED BY <1>10, <2>3, <5>1
      <4> QED BY <4>1
    <3>2. c \in CoreUnits
      BY <1>5, <3>1
    <3>3. n \in CoreUnits
      BY <1>4, <1>10, <2>3, <3>2
    <3> QED BY <1>5, <2>1, <3>3
  <2> QED BY <1>3, <2>2, <2>3
<1>11. shown' \in Seq(Nat) /\ \A i, j \in DOMAIN shown' : i < j => shown'[i] < shown'[j]
  BY DEF InOrder
<1> QED BY <1>1, <1>6, <1>8, <1>9, <1>10, <1>11 DEF InOrder, Before, Rising

\* What UpdateBitStream found is there to look at.
LEMMA UnitSeen ==
  ASSUME DInv, FInv, ToDecode
  PROVE  /\ took = 0 /\ Unit = mempool.data[1] /\ Len(mempool.data) >= 1 /\ mempool.data # << >>
         /\ Unit \in Units /\ Unit.num = Decoded + 1 /\ Unit.kind = KindOf(Decoded + 1)
         /\ Decoded + 1 <= rnum /\ ~Stuck /\ HandUnit = {}
         /\ ended => early
         /\ size # 0 /\ surfaces # {} /\ gen # 0 /\ ~again
<1>1. dpc = "look" /\ seen > 0
  BY DEF ToDecode, Look
<1>2. /\ mempool.data \in Seq(Units) /\ Len(mempool.data) \in Nat /\ Behind \in Nat
      /\ Decoded = Behind + took /\ took \in {0, 1} /\ rnum \in Nat /\ Pushed <= rnum
      /\ Behind + Len(mempool.data) + Len(netq.data) = Pushed /\ Len(netq.data) \in Nat
      /\ Pushed \in Nat
  BY NumbersAre
<1>3. Len(mempool.data) >= 1
  <2>1. seen \in Nat /\ seen <= Len(mempool.data)
    BY <1>1, DataAre DEF DInv, DecoderTypes, PictureTypes
  <2> QED BY <1>1, <1>2, <2>1
<1>4. mempool.data # << >>
  BY <1>2, <1>3, EmptySeq
<1>5. took = 0 /\ ~again /\ (ended => early)
  BY <1>1, <1>2, <1>4 DEF FInv, Phases
<1>6. Unit = mempool.data[1] /\ Unit \in Units
  BY <1>2, <1>4, HeadTailProperties DEF Unit
<1>7. Decoded = Behind /\ 1 \in 1 .. Len(mempool.data)
  BY <1>2, <1>3, <1>5
<1>8. Unit.num = Decoded + 1 /\ Unit.kind = KindOf(Decoded + 1)
  BY <1>6, <1>7 DEF FInv, Counted
<1> DEFINE b == Behind  m == Len(mempool.data)  n == Len(netq.data)  p == Pushed  d == Decoded
<1>9. d + 1 <= rnum
  <2>1. /\ b \in Nat /\ m \in Nat /\ n \in Nat /\ p \in Nat /\ rnum \in Nat /\ b + m + n = p
        /\ p <= rnum /\ d = b /\ m >= 1
    BY <1>2, <1>3, <1>7
  <2> HIDE DEF b, m, n, p, d
  <2> QED BY <2>1
<1>10. ~Stuck /\ HandUnit = {}
  BY <1>1, <1>5 DEF Stuck, HandUnit, InHand
<1>11. size # 0 /\ surfaces # {} /\ gen # 0
  BY <1>1 DEF DInv, DecoderTypes, PictureTypes, FInv, Phases
<1> QED BY <1>3, <1>4, <1>5, <1>6, <1>8, <1>9, <1>10, <1>11

LEMMA DecodeFrames == ASSUME DInv, FInv, DInv', DecodeFrameAsync PROVE FInv'
<1> DEFINE x == [hand EXCEPT !.unit = Unit.num]
           held == Append(core, x)
<1>1. /\ UNCHANGED <<film, rpc, rat, rloop, rnum, netq, mempool, again, ended, early, size, surfaces,
                     gen, shown, missed>>
      /\ ToDecode /\ SameSize /\ took' = 1
      /\ \/ hand' = Head(held) /\ core' = Tail(held) /\ dpc' = "sync"
         \/ dpc' = "update" /\ core' = held
  BY DEF DecodeFrameAsync, GiveOut, reader, readerVars, downstream, decHistory
<1>2. /\ took = 0 /\ mempool.data # << >> /\ Unit \in Units /\ Unit.num = Decoded + 1
      /\ ~Stuck /\ HandUnit = {} /\ (ended => early) /\ size # 0 /\ surfaces # {} /\ gen # 0
      /\ ~again
  BY <1>1, UnitSeen
<1>3. Counted' /\ Behind' = Behind
  BY <1>1, CountedStays DEF FInv
<1>4. Decoded \in Nat /\ Decoded = Behind + took /\ Behind \in Nat /\ core \in Seq(Slots)
  BY NumbersAre
<1>5. Decoded' = Decoded + 1
  BY <1>1, <1>2, <1>3, <1>4 DEF Decoded
<1>6. x \in Slots /\ x.unit = Decoded + 1
  <2>1. hand.addr \in Addresses /\ hand \in [addr : Addresses \cup {0}, unit : 0 .. rnum]
    <3>1. Picked
      BY <1>1, <1>2 DEF Picked, ToDecode, Look
    <3> QED BY <3>1, PicturesAre
  <2> QED BY <1>2, <2>1 DEF Slots, Units
<1> HIDE DEF x
<1>7. \A u \in CoreUnits : u < x.unit
  <2>1. \A u \in CoreUnits : u \in 1 .. Decoded
    BY DEF FInv, InOrder
  <2> QED BY <1>4, <1>6, <2>1
<1>8. Rising(held) /\ UnitsOf(held) = CoreUnits \cup {Decoded + 1}
  BY <1>4, <1>6, <1>7, LastOfRising DEF FInv, InOrder, CoreUnits
<1>9. /\ held \in Seq(Slots) /\ held # << >>
  BY <1>4, <1>6, AppendProperties, EmptySeq
<1> HIDE DEF held
<1>10. /\ Rising(Tail(held)) /\ UnitsOf(held) = {Head(held).unit} \cup UnitsOf(Tail(held))
       /\ \A u \in UnitsOf(Tail(held)) : Head(held).unit < u
  BY <1>8, <1>9, FirstOfRising
<1>11. /\ Rising(core') /\ Before(HandUnit', CoreUnits')
       /\ HandUnit' \cup CoreUnits' = CoreUnits \cup {Decoded + 1}
  <2>1. CASE dpc' = "sync"
    <3>1. HandUnit' = {Head(held).unit} /\ CoreUnits' = UnitsOf(Tail(held)) /\ core' = Tail(held)
      BY <1>1, <2>1 DEF HandUnit, InHand, CoreUnits, UnitsOf
    <3> QED BY <1>8, <1>10, <3>1 DEF Before
  <2>2. CASE dpc' = "update"
    <3>1. HandUnit' = {} /\ CoreUnits' = UnitsOf(held) /\ core' = held
      BY <1>1, <2>2 DEF HandUnit, InHand, CoreUnits, UnitsOf
    <3> QED BY <1>8, <3>1 DEF Before
  <2> QED BY <1>1, <2>1, <2>2
<1>12. Decoded + 1 .. Decoded' = {Decoded + 1}
  BY <1>4, <1>5
<1>13. InOrder'
  BY <1>1, <1>2, <1>4, <1>5, <1>11, <1>12, OrderMoves DEF FInv
<1>14. Reasons'
  <2>1. MissedUnits \subseteq Nat /\ rnum \in Nat
    BY NumbersAre DEF FInv, InOrder
  <2> QED BY <1>1, <2>1, ReasonsStay DEF FInv
<1>15. Phases'
  BY <1>1, <1>2 DEF Phases, InHand
<1> QED BY <1>3, <1>13, <1>14, <1>15 DEF FInv

LEMMA FlushFrames == ASSUME DInv, FInv, DInv', FlushDecoder, core # << >> PROVE FInv'
<1>1. /\ UNCHANGED <<film, rpc, rat, rloop, rnum, netq, mempool, again, ended, early, size, surfaces,
                     gen, shown, missed, took>>
      /\ dpc = "look" /\ dpc' = "sync" /\ hand' = Head(core) /\ core' = Tail(core)
  BY DEF FlushDecoder, Look, GiveOut, reader, readerVars, input_bs_, downstream, decHistory
<1>2. Counted' /\ Decoded' = Decoded
  BY <1>1, CountedStays, DecodedStays DEF FInv
<1>3. Decoded \in Nat /\ core \in Seq(Slots) /\ took \in {0, 1}
  BY NumbersAre
<1>4. /\ Rising(Tail(core)) /\ CoreUnits = {Head(core).unit} \cup UnitsOf(Tail(core))
      /\ \A u \in UnitsOf(Tail(core)) : Head(core).unit < u
  BY <1>3, FirstOfRising DEF FInv, InOrder, CoreUnits
<1>5. HandUnit' = {Head(core).unit} /\ CoreUnits' = UnitsOf(Tail(core)) /\ HandUnit = {}
  BY <1>1 DEF HandUnit, InHand, CoreUnits, UnitsOf
<1>6. ~again /\ ~Stuck /\ size # 0 /\ surfaces # {} /\ gen # 0
  BY <1>1 DEF FInv, Phases, Stuck, DInv, DecoderTypes, PictureTypes
<1>7. Decoded + 1 .. Decoded' = {}
  BY <1>2, <1>3
<1>8. InOrder'
  <2>1. Rising(core') /\ Before(HandUnit', CoreUnits')
    BY <1>1, <1>4, <1>5 DEF Before
  <2> QED BY <1>1, <1>2, <1>3, <1>4, <1>5, <1>6, <1>7, <2>1, OrderMoves DEF FInv
<1>9. Reasons'
  <2>1. MissedUnits \subseteq Nat /\ rnum \in Nat
    BY NumbersAre DEF FInv, InOrder
  <2> QED BY <1>1, <2>1, ReasonsStay DEF FInv
<1>10. Phases'
  <2>1. took = 0
    BY <1>1, <1>3 DEF FInv, Phases
  <2> QED BY <1>1, <1>6, <2>1 DEF FInv, Phases, InHand
<1> QED BY <1>2, <1>8, <1>9, <1>10 DEF FInv

\* A unit that will never be sent is noted, for a reason of its own.
LEMMA ReasonsGrow ==
  ASSUME Reasons, NEW more, missed' = missed \cup more, UNCHANGED <<film, rnum>>,
         \A m \in more :
           /\ m[2] = "header" => \A n \in 1 .. m[1] : KindOf(n) \notin SizeKeys
           /\ m[2] = "odd" => KindOf(m[1]) = "odd"
           /\ m[2] = "reset" => ResetAfter(m[1])
  PROVE  Reasons'
<1>1. \A n : KindOf(n)' = KindOf(n)
  BY KindsStay
<1>2. ASSUME NEW n, ResetAfter(n) PROVE ResetAfter(n)'
  <2>1. PICK k \in n + 1 .. rnum :
          /\ KindOf(k) \in SizeKeys
          /\ Cardinality({i \in n .. k - 1 : KindOf(i) # "odd"}) <= DecDelay
    BY <1>2 DEF ResetAfter
  <2>2. {i \in n .. k - 1 : KindOf(i) # "odd"}' = {i \in n .. k - 1 : KindOf(i) # "odd"}
    BY <1>1
  <2> QED BY <1>1, <2>1, <2>2 DEF ResetAfter
<1>3. ASSUME NEW m \in missed'
      PROVE  /\ m[2] = "header" => \A n \in 1 .. m[1] : KindOf(n) \notin SizeKeys
             /\ m[2] = "odd" => KindOf(m[1]) = "odd"
             /\ m[2] = "reset" => ResetAfter(m[1])
  BY <1>3 DEF Reasons
<1> QED BY <1>1, <1>2, <1>3 DEF Reasons

\* What the codec holds when the header of another size comes was taken since,
\* but for the pictures that have none.
LEMMA ResetHolds ==
  ASSUME DInv, FInv, ToDecode, IsKey(Unit), NEW c \in CoreUnits
  PROVE  ResetAfter(c)
<1> DEFINE k == Decoded + 1
           A == {i \in c .. k - 1 : KindOf(i) # "odd"}
<1>1. /\ k <= rnum /\ KindOf(k) \in SizeKeys
  BY UnitSeen DEF IsKey, SizeKeys
<1>2. /\ Decoded \in Nat /\ rnum \in Nat /\ DecDelay \in Nat /\ core \in Seq(Slots)
      /\ Len(core) \in Nat /\ Len(core) <= DecDelay /\ DOMAIN core = 1 .. Len(core)
  BY NumbersAre, SeqIs
<1>3. c \in 1 .. Decoded /\ \A n \in 1 .. Decoded : c < n /\ KindOf(n) # "odd" => n \in CoreUnits
  BY DEF FInv, InOrder
<1>4. A \subseteq CoreUnits
  <2>1. ASSUME NEW i \in A PROVE i \in CoreUnits
    <3>1. i \in 1 .. Decoded /\ (i = c \/ c < i) /\ KindOf(i) # "odd"
      BY <1>2, <1>3
    <3> QED BY <1>3, <3>1
  <2> QED BY <2>1
<1>5. IsFiniteSet(1 .. Len(core)) /\ Cardinality(1 .. Len(core)) = Len(core)
  <2> DEFINE n == Len(core)
  <2>1. n \in Nat
    BY <1>2
  <2> HIDE DEF n
  <2>2. IsFiniteSet(1 .. n) /\ Cardinality(1 .. n) = n
    BY <2>1, FS_Interval
  <2> QED BY <2>2 DEF n
<1>6. IsFiniteSet(CoreUnits) /\ Cardinality(CoreUnits) <= Len(core)
  <2>1. CoreUnits = {core[i].unit : i \in 1 .. Len(core)}
    BY <1>2 DEF CoreUnits, UnitsOf
  <2> DEFINE f == [i \in 1 .. Len(core) |-> core[i].unit]
  <2>2. f \in [1 .. Len(core) -> CoreUnits] /\ \A t \in CoreUnits : \E i \in 1 .. Len(core) : f[i] = t
    BY <2>1
  <2> HIDE DEF f
  <2>3. f \in Surjection(1 .. Len(core), CoreUnits)
    BY <2>2, Fun_IsSurj, Zenon
  <2> QED BY <1>5, <2>3, FS_Surjection
<1>7. Cardinality(A) <= Cardinality(CoreUnits) /\ Cardinality(A) \in Nat /\ Cardinality(CoreUnits) \in Nat
  BY <1>4, <1>6, FS_Subset, FS_CardinalityType
<1>8. Cardinality(A) <= DecDelay
  BY <1>2, <1>6, <1>7
<1>9. k \in c + 1 .. rnum
  BY <1>1, <1>2, <1>3
<1> QED BY <1>1, <1>8, <1>9 DEF ResetAfter

LEMMA NewHeaderFrames == ASSUME DInv, FInv, DInv', NewSequenceHeader PROVE FInv'
<1> DEFINE more == {<<s.unit, "reset">> : s \in ToSet(core)}
<1>1. /\ UNCHANGED <<film, rpc, rat, rloop, rnum, netq, mempool, ended, early, size, surfaces,
                     gen, shown, hand, core>>
      /\ ToDecode /\ IsKey(Unit) /\ took' = 0 /\ dpc' = "pushReset" /\ again'
      /\ missed' = missed \cup more
  BY DEF NewSequenceHeader, NewOffset, reader, readerVars, pictures, downstream
<1>2. /\ took = 0 /\ mempool.data # << >> /\ Unit = mempool.data[1]
      /\ ~Stuck /\ HandUnit = {} /\ (ended => early) /\ size # 0 /\ surfaces # {} /\ gen # 0
  BY <1>1, UnitSeen
<1>3. Counted' /\ Decoded' = Decoded
  BY <1>1, <1>2, CountedStays, DecodedStays DEF FInv
<1>4. \A n : KindOf(n)' = KindOf(n)
  BY <1>1, KindsStay
<1>5. /\ \A m \in more : m[2] = "reset" /\ m[1] \in CoreUnits
      /\ \A c \in CoreUnits : <<c, "reset">> \in more
  <2>1. core \in Seq(Slots) /\ DOMAIN core = 1 .. Len(core)
    BY NumbersAre, SeqIs
  <2>2. ToSet(core) = {core[i] : i \in DOMAIN core}
    BY <2>1 DEF ToSet
  <2> QED BY <2>2 DEF CoreUnits, UnitsOf
<1> HIDE DEF more
<1>6. /\ ShownUnits' = ShownUnits /\ HandUnit' = {} /\ CoreUnits' = CoreUnits
      /\ (Rising(core))' = Rising(core)
  BY <1>1 DEF ShownUnits, HandUnit, InHand, CoreUnits, UnitsOf, Rising
<1>7. MissedUnits' = MissedUnits \cup CoreUnits
  <2>1. \A c \in CoreUnits : <<c, "reset">>[1] = c
    OBVIOUS
  <2>2. CoreUnits \subseteq {m[1] : m \in more} /\ {m[1] : m \in more} \subseteq CoreUnits
    BY <1>5, <2>1
  <2>3. MissedUnits' = MissedUnits \cup {m[1] : m \in more}
    BY <1>1 DEF MissedUnits
  <2> QED BY <2>2, <2>3
<1>8. InOrder'
  <2>1. ShownUnits \subseteq Nat /\ CoreUnits \subseteq Nat
    BY NumbersAre
  <2>2. CoreUnits \cap ShownUnits = {}
    BY <2>1 DEF FInv, InOrder, Before
  <2>3. Stuck'
    BY <1>1 DEF Stuck
  <2>4. MissedUnits' \cap ShownUnits' = {} /\ MissedUnits' \cap HandUnit' = {}
    BY <1>2, <1>6, <1>7, <2>2 DEF FInv, InOrder
  <2>5. 1 .. Decoded' = ShownUnits' \cup HandUnit' \cup CoreUnits' \cup MissedUnits'
    BY <1>2, <1>3, <1>6, <1>7 DEF FInv, InOrder
  <2>6. Rising(core)' /\ Before(ShownUnits', HandUnit') /\ Before(ShownUnits', CoreUnits')
        /\ Before(HandUnit', CoreUnits')
    BY <1>2, <1>6 DEF FInv, InOrder
  <2>7. \A c \in CoreUnits', n \in 1 .. Decoded' : c < n /\ KindOf(n) # "odd" => n \in CoreUnits'
    BY <1>3, <1>6 DEF FInv, InOrder
  <2>8. shown' \in Seq(Nat) /\ \A i, j \in DOMAIN shown' : i < j => shown'[i] < shown'[j]
    BY <1>1 DEF FInv, InOrder
  <2> QED BY <1>4, <2>3, <2>4, <2>5, <2>6, <2>7, <2>8 DEF InOrder, Before, Rising
<1>9. Reasons'
  <2>1. \A c \in CoreUnits : ResetAfter(c)
    BY <1>1, ResetHolds
  <2> QED BY <1>1, <1>5, <2>1, ReasonsGrow DEF FInv
<1>10. Phases'
  <2>1. HeaderNext'
    BY <1>1, <1>2 DEF HeaderNext, IsKey, SizeKeys
  <2> QED BY <1>1, <1>2, <1>6, <1>7, <2>1 DEF Phases, InHand
<1> QED BY <1>3, <1>8, <1>9, <1>10 DEF FInv

LEMMA SkipFrames == ASSUME DInv, FInv, DInv', SkipFrame PROVE FInv'
<1>1. /\ UNCHANGED <<film, rpc, rat, rloop, rnum, netq, mempool, again, ended, early, size, surfaces,
                     gen, shown, hand, core>>
      /\ ToDecode /\ Unit.kind = "odd" /\ took' = 1 /\ dpc' = "update"
      /\ missed' = missed \cup {<<Unit.num, "odd">>}
  BY DEF SkipFrame, reader, readerVars, pictures, downstream
<1>2. /\ took = 0 /\ mempool.data # << >> /\ Unit.num = Decoded + 1 /\ KindOf(Decoded + 1) = "odd"
      /\ ~Stuck /\ HandUnit = {} /\ (ended => early) /\ size # 0 /\ surfaces # {} /\ gen # 0 /\ ~again
  BY <1>1, UnitSeen
<1>3. Counted' /\ Behind' = Behind
  BY <1>1, CountedStays DEF FInv
<1>4. Decoded \in Nat /\ Decoded = Behind + took /\ Behind \in Nat
  BY NumbersAre
<1>5. Decoded' = Decoded + 1
  BY <1>1, <1>2, <1>3, <1>4 DEF Decoded
<1>6. \A n : KindOf(n)' = KindOf(n)
  BY <1>1, KindsStay
<1>7. /\ ShownUnits' = ShownUnits /\ HandUnit' = {} /\ CoreUnits' = CoreUnits
      /\ (Rising(core))' = Rising(core)
  BY <1>1 DEF ShownUnits, HandUnit, InHand, CoreUnits, UnitsOf, Rising
<1>8. MissedUnits' = MissedUnits \cup {Decoded + 1}
  <2>1. MissedUnits' = MissedUnits \cup {<<Unit.num, "odd">>[1]}
    BY <1>1 DEF MissedUnits
  <2> QED BY <1>2, <2>1
<1>9. InOrder'
  <2>1. /\ 1 .. Decoded' = 1 .. Decoded \cup {Decoded + 1} /\ Decoded + 1 \notin 1 .. Decoded
    BY <1>4, <1>5
  <2>2. /\ 1 .. Decoded = ShownUnits \cup CoreUnits \cup MissedUnits
        /\ Before(ShownUnits, CoreUnits) /\ Rising(core)
        /\ MissedUnits \cap ShownUnits = {} /\ MissedUnits \cap CoreUnits = {}
        /\ \A c \in CoreUnits, n \in 1 .. Decoded : c < n /\ KindOf(n) # "odd" => n \in CoreUnits
    BY <1>2 DEF FInv, InOrder
  <2>3. 1 .. Decoded' = ShownUnits' \cup HandUnit' \cup CoreUnits' \cup MissedUnits'
    BY <1>7, <1>8, <2>1, <2>2
  <2>4. /\ MissedUnits' \cap ShownUnits' = {} /\ MissedUnits' \cap HandUnit' = {}
        /\ MissedUnits' \cap CoreUnits' = {}
    BY <1>7, <1>8, <2>1, <2>2
  <2>5. Before(ShownUnits', HandUnit') /\ Before(ShownUnits', CoreUnits') /\ Before(HandUnit', CoreUnits')
    BY <1>7, <2>2 DEF Before
  <2>6. \A c \in CoreUnits', n \in 1 .. Decoded' : c < n /\ KindOf(n) # "odd" => n \in CoreUnits'
    BY <1>2, <1>7, <2>1, <2>2
  <2>7. shown' \in Seq(Nat) /\ \A i, j \in DOMAIN shown' : i < j => shown'[i] < shown'[j]
    BY <1>1 DEF FInv, InOrder
  <2> QED BY <1>6, <1>7, <2>2, <2>3, <2>4, <2>5, <2>6, <2>7 DEF InOrder, Before, Rising
<1>10. Reasons'
  <2> DEFINE more == {<<Unit.num, "odd">>}
  <2>1. \A m \in more : m[1] = Decoded + 1 /\ m[2] = "odd"
    BY <1>2
  <2>2. missed' = missed \cup more
    BY <1>1
  <2> HIDE DEF more
  <2>3. \A m \in more : KindOf(m[1]) = "odd" /\ m[2] = "odd"
    BY <1>2, <2>1
  <2> QED BY <1>1, <2>2, <2>3, ReasonsGrow DEF FInv
<1>11. Phases'
  BY <1>1, <1>2 DEF Phases, InHand
<1> QED BY <1>3, <1>9, <1>10, <1>11 DEF FInv

\* What is in the thread's hand is newer than what was sent and older than what
\* the codec holds.
LEMMA HandIs ==
  ASSUME DInv, FInv, InHand
  PROVE  /\ HandUnit = {hand.unit} /\ hand.unit \in Nat /\ hand.unit \in 1 .. Decoded
         /\ hand.unit \notin ShownUnits \cup CoreUnits \cup MissedUnits
         /\ \A s \in ShownUnits : s < hand.unit
         /\ ~Stuck /\ ~again /\ size # 0 /\ surfaces # {} /\ gen # 0
         /\ took \in {0, 1} /\ took = 1 => mempool.data # << >>
<1>1. HandUnit = {hand.unit}
  BY DEF HandUnit
<1>2. HandUnit \subseteq Nat /\ ShownUnits \subseteq Nat /\ CoreUnits \subseteq Nat /\ took \in {0, 1}
  BY NumbersAre
<1>3. /\ Before(ShownUnits, HandUnit) /\ Before(HandUnit, CoreUnits) /\ MissedUnits \cap HandUnit = {}
  BY DEF FInv, InOrder
<1>4. hand.unit \notin ShownUnits \cup CoreUnits /\ \A s \in ShownUnits : s < hand.unit
  <2>1. ~(hand.unit < hand.unit)
    BY <1>1, <1>2
  <2> QED BY <1>1, <1>3, <2>1 DEF Before
<1>5. ~again /\ ~Stuck /\ size # 0 /\ surfaces # {} /\ gen # 0 /\ (took = 1 => mempool.data # << >>)
  BY DEF FInv, Phases, Stuck, InHand
<1>6. hand.unit \in 1 .. Decoded
  BY <1>1 DEF FInv, InOrder
<1> QED BY <1>1, <1>2, <1>3, <1>4, <1>5, <1>6

\* The picture in the thread's hand is dropped.
LEMMA DroppedFrames ==
  ASSUME DInv, FInv, DInv', InHand, dpc' = "update", NEW why, why \notin {"header", "odd", "reset"},
         UNCHANGED <<film, rpc, rat, rloop, rnum, netq, mempool, again, ended, early, size, surfaces,
                     gen, shown, hand, core, took>>,
         missed' = missed \cup {<<hand.unit, why>>}
  PROVE  FInv'
<1>1. Counted' /\ Decoded' = Decoded
  BY CountedStays, DecodedStays DEF FInv
<1>2. \A n : KindOf(n)' = KindOf(n)
  BY KindsStay
<1>3. /\ ShownUnits' = ShownUnits /\ HandUnit' = {} /\ CoreUnits' = CoreUnits
      /\ (Rising(core))' = Rising(core)
  BY DEF ShownUnits, HandUnit, InHand, CoreUnits, UnitsOf, Rising
<1>4. MissedUnits' = MissedUnits \cup HandUnit
  <2>1. MissedUnits' = MissedUnits \cup {<<hand.unit, why>>[1]}
    BY DEF MissedUnits
  <2> QED BY <2>1, HandIs
<1>5. InOrder'
  <2>1. 1 .. Decoded' = ShownUnits' \cup HandUnit' \cup CoreUnits' \cup MissedUnits'
    BY <1>1, <1>3, <1>4 DEF FInv, InOrder
  <2>2. /\ MissedUnits' \cap ShownUnits' = {} /\ MissedUnits' \cap HandUnit' = {}
        /\ MissedUnits' \cap CoreUnits' = {}
    BY <1>3, <1>4, HandIs DEF FInv, InOrder
  <2>3. Before(ShownUnits', HandUnit') /\ Before(ShownUnits', CoreUnits') /\ Before(HandUnit', CoreUnits')
    BY <1>3 DEF FInv, InOrder, Before
  <2>4. \A c \in CoreUnits', n \in 1 .. Decoded' : c < n /\ KindOf(n) # "odd" => n \in CoreUnits'
    BY <1>1, <1>3 DEF FInv, InOrder
  <2>5. shown' \in Seq(Nat) /\ \A i, j \in DOMAIN shown' : i < j => shown'[i] < shown'[j]
    BY DEF FInv, InOrder
  <2>6. Rising(core)
    BY DEF FInv, InOrder
  <2> QED BY <1>2, <1>3, <2>1, <2>2, <2>3, <2>4, <2>5, <2>6 DEF InOrder, Before, Rising
<1>6. Reasons'
  <2> DEFINE more == {<<hand.unit, why>>}
  <2>1. \A m \in more : m[2] \notin {"header", "odd", "reset"}
    OBVIOUS
  <2>2. missed' = missed \cup more
    OBVIOUS
  <2> HIDE DEF more
  <2> QED BY <2>1, <2>2, ReasonsGrow DEF FInv
<1>7. Phases'
  BY <1>1, <1>2, HandIs DEF FInv, Phases, InHand
<1> QED BY <1>1, <1>5, <1>6, <1>7 DEF FInv

LEMMA SyncFrames == ASSUME DInv, FInv, DInv', SyncOperation PROVE FInv'
<1>1. CASE dpc' = "push"
  BY <1>1, IdleFrames DEF Idle
<1>2. CASE dpc' # "push"
  <2>1. /\ UNCHANGED <<film, rpc, rat, rloop, rnum, netq, mempool, again, ended, early, size, surfaces,
                       gen, shown, hand, core, took>>
        /\ InHand /\ dpc' = "update" /\ missed' = missed \cup {<<hand.unit, "sync">>}
    BY <1>2 DEF SyncOperation, InHand, reader, readerVars, input_bs_, downstream
  <2> QED BY <2>1, DroppedFrames
<1> QED BY <1>1, <1>2

LEMMA PushFrameFrames == ASSUME DInv, FInv, DInv', PushFrame PROVE FInv'
<1>1. /\ UNCHANGED <<film, rpc, rat, rloop, rnum, netq, mempool, again, ended, early, size, surfaces,
                     gen, hand, core, took>>
      /\ InHand /\ dpc' = "update"
  BY DEF PushFrame, InHand, reader, readerVars, input_bs_
<1>2. CASE ~peer
  <2>1. shown' = shown /\ missed' = missed \cup {<<hand.unit, "gone">>}
    BY <1>2 DEF PushFrame
  <2> QED BY <1>1, <2>1, DroppedFrames
<1>3. CASE peer
  <2>1. shown' = Append(shown, hand.unit) /\ missed' = missed
    BY <1>3 DEF PushFrame
  <2>2. Counted' /\ Decoded' = Decoded
    BY <1>1, CountedStays, DecodedStays DEF FInv
  <2>3. \A n : KindOf(n)' = KindOf(n)
    BY <1>1, KindsStay
  <2>4. /\ MissedUnits' = MissedUnits /\ HandUnit' = {} /\ CoreUnits' = CoreUnits
        /\ (Rising(core))' = Rising(core)
    BY <1>1, <2>1 DEF MissedUnits, HandUnit, InHand, CoreUnits, UnitsOf, Rising
  <2> DEFINE n == Len(shown)
  <2>5. shown \in Seq(Nat) /\ n \in Nat /\ DOMAIN shown = 1 .. n
    BY SeqIs DEF FInv, InOrder
  <2>6. /\ shown' \in Seq(Nat) /\ DOMAIN shown' = 1 .. n + 1 /\ shown'[n + 1] = hand.unit
        /\ \A i \in 1 .. n : shown'[i] = shown[i]
    <3>1. hand.unit \in Nat
      BY <1>1, HandIs
    <3>2. /\ shown' \in Seq(Nat) /\ Len(shown') = n + 1 /\ shown'[n + 1] = hand.unit
          /\ \A i \in 1 .. n : shown'[i] = shown[i]
      BY <2>1, <2>5, <3>1, AppendProperties
    <3> QED BY <3>2, LenProperties
  <2> HIDE DEF n
  <2>7. /\ 1 .. n + 1 = 1 .. n \cup {n + 1} /\ \A i \in 1 .. n : i < n + 1
    BY <2>5
  <2>8. ShownUnits' = ShownUnits \cup HandUnit
    <3>1. HandUnit = {hand.unit}
      BY <1>1, HandIs
    <3> QED BY <2>5, <2>6, <2>7, <3>1 DEF ShownUnits
  <2>9. \A i, j \in DOMAIN shown' : i < j => shown'[i] < shown'[j]
    <3>1. ASSUME NEW i \in 1 .. n + 1, NEW j \in 1 .. n + 1, i < j PROVE shown'[i] < shown'[j]
      <4>1. i \in 1 .. n
        BY <2>5, <3>1
      <4>2. CASE j \in 1 .. n
        BY <2>5, <2>6, <3>1, <4>1, <4>2 DEF FInv, InOrder
      <4>3. CASE j = n + 1
        <5>1. shown[i] \in ShownUnits
          BY <2>5, <4>1 DEF ShownUnits
        <5> QED BY <1>1, <2>6, <4>1, <4>3, <5>1, HandIs
      <4> QED BY <2>7, <4>2, <4>3
    <3> QED BY <2>6, <3>1
  <2>10. InOrder'
    <3>1. HandUnit = {hand.unit}
      BY <1>1, HandIs
    <3>2. 1 .. Decoded' = ShownUnits' \cup HandUnit' \cup CoreUnits' \cup MissedUnits'
      BY <2>2, <2>4, <2>8 DEF FInv, InOrder
    <3>3. /\ MissedUnits' \cap ShownUnits' = {} /\ MissedUnits' \cap HandUnit' = {}
          /\ MissedUnits' \cap CoreUnits' = {}
      BY <1>1, <2>4, <2>8, HandIs DEF FInv, InOrder
    <3>4. Before(ShownUnits', HandUnit') /\ Before(ShownUnits', CoreUnits') /\ Before(HandUnit', CoreUnits')
      BY <2>4, <2>8 DEF FInv, InOrder, Before
    <3>5. \A c \in CoreUnits', k \in 1 .. Decoded' : c < k /\ KindOf(k) # "odd" => k \in CoreUnits'
      BY <2>2, <2>4 DEF FInv, InOrder
    <3>6. Rising(core)
      BY DEF FInv, InOrder
    <3> QED BY <2>3, <2>4, <2>6, <2>9, <3>2, <3>3, <3>4, <3>5, <3>6 DEF InOrder, Before, Rising
  <2>11. Reasons'
    <3>1. MissedUnits \subseteq Nat /\ rnum \in Nat
      BY NumbersAre DEF FInv, InOrder
    <3> QED BY <1>1, <2>1, <3>1, ReasonsStay DEF FInv
  <2>12. Phases'
    BY <1>1, <2>1, <2>2, <2>3, HandIs DEF FInv, Phases, InHand
  <2> QED BY <2>2, <2>10, <2>11, <2>12 DEF FInv
<1> QED BY <1>2, <1>3

LEMMA InitFInv == DecInit => FInv
<1> SUFFICES ASSUME DecInit PROVE FInv
  OBVIOUS
<1>1. /\ rpc = "read" /\ rat = 0 /\ rloop = 0 /\ rnum = 0 /\ netq.data = << >> /\ mempool.data = << >>
      /\ dpc = "top" /\ size = 0 /\ again = FALSE /\ ended = FALSE /\ took = 0 /\ core = << >>
      /\ gen = 0 /\ shown = << >> /\ missed = {} /\ film \in Films
  BY DEF DecInit
<1>2. Len(film.units) \in Nat
  BY InitDInv, FilmsAre DEF DInv
<1>3. Pushed = 0 /\ Len(netq.data) = 0 /\ Len(mempool.data) = 0
  <2>1. Len(<< >>) = 0
    BY EmptySeq, Zenon
  <2> QED BY <1>1, <2>1 DEF Pushed
<1>4. Behind = 0 /\ Decoded = 0
  <2>1. Behind = 0 - 0 - 0
    BY <1>3 DEF Behind
  <2>2. Behind = 0
    BY <2>1
  <2> QED BY <1>1, <2>2 DEF Decoded
<1>5. Counted
  <2>1. \A k \in Nat : 0 * k + 0 = 0
    OBVIOUS
  <2> QED BY <1>1, <1>2, <1>3, <1>4, <2>1 DEF Counted
<1>6. /\ ShownUnits = {} /\ HandUnit = {} /\ CoreUnits = {} /\ MissedUnits = {} /\ Rising(core)
      /\ DOMAIN shown = {} /\ shown \in Seq(Nat)
  <2>1. DOMAIN << >> = {} /\ << >> \in Seq(Nat)
    BY EmptySeq
  <2> QED BY <1>1, <2>1 DEF ShownUnits, HandUnit, InHand, CoreUnits, UnitsOf, MissedUnits, Rising
<1>7. 1 .. Decoded = {}
  BY <1>4
<1>8. InOrder
  BY <1>6, <1>7 DEF InOrder, Before
<1>9. Reasons /\ Phases
  BY <1>1, <1>7 DEF Reasons, Phases, InHand
<1> QED BY <1>5, <1>8, <1>9 DEF FInv

LEMMA UnchangedFInv == ASSUME DInv, FInv, UNCHANGED decVars PROVE FInv'
<1>1. /\ UNCHANGED <<film, rpc, rat, rloop, rnum, netq, mempool, again, ended, early, size, surfaces,
                     gen, shown, missed, hand, core, took, dpc, seen>>
  BY DEF decVars, readerVars, input_bs_, pictures, decHistory
<1>2. Counted' /\ Decoded' = Decoded
  BY <1>1, CountedStays, DecodedStays DEF FInv
<1>3. InOrder'
  <2>1. HandUnit' = HandUnit
    BY <1>1 DEF HandUnit, InHand
  <2>2. Stuck => Stuck'
    BY <1>1 DEF Stuck
  <2> QED BY <1>1, <1>2, <2>1, <2>2, OrderStays DEF FInv
<1>4. Reasons'
  <2>1. MissedUnits \subseteq Nat /\ rnum \in Nat
    BY NumbersAre DEF FInv, InOrder
  <2> QED BY <1>1, <2>1, ReasonsStay DEF FInv
<1>5. \A n : KindOf(n)' = KindOf(n)
  BY <1>1, KindsStay
<1>6. Phases'
  BY <1>1, <1>2, <1>5 DEF FInv, Phases, HeaderNext, InHand, CoreUnits, UnitsOf, MissedUnits
<1> QED BY <1>2, <1>3, <1>4, <1>6 DEF FInv

LEMMA StepFInv == DInv /\ FInv /\ [DecoderNext]_decVars => FInv'
<1> SUFFICES ASSUME DInv, FInv, [DecoderNext]_decVars PROVE FInv'
  OBVIOUS
<1> DInv'
  BY StepDInv
<1>1. CASE Reader \/ ReadFails \/ ReaderStop
  BY <1>1, ReaderFrames
<1>2. CASE DecoderThread
  <2>1. CASE LoopTop
    BY <2>1, IdleFrames, CloseFrames DEF Idle
  <2>2. CASE FlushDecoder
    BY <2>2, IdleFrames, FlushFrames DEF Idle
  <2>3. CASE MoveBlock \/ UpdateMemPool \/ DecodeHeader \/ DecodeFrameAsync
    BY <2>3, MoveBlockFrames, UpdateMemPoolFrames, DecodeHeaderFrames, DecodeFrames
  <2>4. CASE NewSequenceHeader \/ SkipFrame \/ SyncOperation \/ PushFrame
    BY <2>4, NewHeaderFrames, SkipFrames, SyncFrames, PushFrameFrames
  <2>5. CASE \/ WaitSurfaces \/ PickSurface \/ CountBlocks \/ AskEndOfStream \/ UpdateBitStream
             \/ LookAgain \/ WantsMoreData \/ DeviceFails \/ AfterLoop
    BY <2>5, IdleFrames DEF Idle
  <2>6. CASE \/ PushMark("pushReset", "reset", "update") \/ PushMark("pushEos", "eos", "exit")
             \/ PushMark("lastEos", "eos", "done")
    BY <2>6, IdleFrames DEF Idle
  <2> QED BY <1>2, <2>1, <2>2, <2>3, <2>4, <2>5, <2>6 DEF DecoderThread
<1>3. CASE DecoderStop \/ PeerTakes \/ PeerStops \/ PeerReturns
  BY <1>3, IdleFrames DEF Idle
<1>4. CASE UNCHANGED decVars
  BY <1>4, UnchangedFInv
<1> QED BY <1>1, <1>2, <1>3, <1>4 DEF DecoderNext

\* The header after which a unit was lost is the next one, or comes after it.
LEMMA BeforeTheNextKey ==
  ASSUME NEW n \in Nat, rnum \in Nat, DecDelay \in Nat, ResetAfter(n)
  PROVE  Cardinality({i \in n .. NextKey(n) - 1 : KindOf(i) # "odd"}) <= DecDelay
<1>1. PICK k \in n + 1 .. rnum :
        /\ KindOf(k) \in SizeKeys
        /\ Cardinality({i \in n .. k - 1 : KindOf(i) # "odd"}) <= DecDelay
  BY DEF ResetAfter
<1>2. k \in Nat /\ k > n /\ k \in 1 .. rnum
  BY <1>1
<1> DEFINE S == Keys({m \in 1 .. rnum : m > n})
<1>3. k \in S /\ S \subseteq Nat
  BY <1>1, <1>2 DEF Keys, SizeKeys
<1>4. Min(S) \in Nat /\ Min(S) <= k
  <2> HIDE DEF S
  <2> QED BY <1>3, MinIsLeast
<1>5. NextKey(n) = Min(S)
  BY DEF NextKey
<1> HIDE DEF S
<1> DEFINE next == NextKey(n)
           A == {i \in n .. next - 1 : KindOf(i) # "odd"}
           B == {i \in n .. k - 1 : KindOf(i) # "odd"}
<1>6. next \in Nat /\ next <= k
  BY <1>4, <1>5
<1> HIDE DEF next
<1>7. A \subseteq B
  BY <1>2, <1>6
<1>8. IsFiniteSet(B)
  <2>1. n \in Int /\ k - 1 \in Int
    BY <1>2
  <2>2. IsFiniteSet(n .. k - 1)
    BY <2>1, FS_Interval, Zenon
  <2>3. B \subseteq n .. k - 1
    OBVIOUS
  <2> HIDE DEF B
  <2> QED BY <2>2, <2>3, FS_Subset
<1>9. Cardinality(B) <= DecDelay
  BY <1>1
<1>10. Cardinality(A) <= Cardinality(B) /\ Cardinality(A) \in Nat /\ Cardinality(B) \in Nat
  <2> HIDE DEF A, B
  <2> QED BY <1>7, <1>8, FS_Subset, FS_CardinalityType
<1> HIDE DEF A, B
<1>11. Cardinality(A) <= DecDelay
  BY <1>9, <1>10
<1> QED BY <1>11 DEF A, next

LEMMA FInvSends == DInv /\ FInv => FramesAreSent
<1> SUFFICES ASSUME DInv, FInv PROVE FramesAreSent
  OBVIOUS
<1>1. /\ shown \in Seq(Nat) /\ DOMAIN shown = 1 .. Len(shown)
      /\ \A i, j \in 1 .. Len(shown) : i < j => shown[i] < shown[j]
  BY SeqIs DEF FInv, InOrder
<1>2. ToSet(shown) = ShownUnits
  BY DEF ToSet, ShownUnits
<1>3. rnum \in Nat /\ DecDelay \in Nat /\ Decoded \in Nat
  BY NumbersAre
<1>4. ASSUME NEW m \in missed
      PROVE  /\ m[1] \notin ToSet(shown)
             /\ m[2] = "header" => Keys(1 .. m[1]) = {}
             /\ m[2] = "odd" => KindOf(m[1]) = "odd"
             /\ m[2] = "reset" =>
                  Cardinality({n \in m[1] .. NextKey(m[1]) - 1 : KindOf(n) # "odd"}) <= DecDelay
  <2>1. m[1] \in MissedUnits
    BY <1>4 DEF MissedUnits
  <2>2. m[1] \notin ToSet(shown) /\ m[1] \in Nat
    BY <1>2, <2>1 DEF FInv, InOrder
  <2>3. m[2] = "header" => Keys(1 .. m[1]) = {}
    BY <1>4 DEF FInv, Reasons, Keys, SizeKeys
  <2>4. m[2] = "odd" => KindOf(m[1]) = "odd"
    BY <1>4 DEF FInv, Reasons
  <2>5. m[2] = "reset" => ResetAfter(m[1])
    BY <1>4 DEF FInv, Reasons
  <2> QED BY <1>3, <2>2, <2>3, <2>4, <2>5, BeforeTheNextKey
<1>5. ASSUME NEW n \in 1 .. rnum PROVE n \in Gone \cup OnTheirWay
  <2> DEFINE b == Behind  l == Len(mempool.data)  r == Len(netq.data)
  <2>1. /\ b \in Nat /\ l \in Nat /\ r \in Nat /\ b + l + r = Pushed
        /\ (Decoded = b \/ Decoded = b + 1)
        /\ mempool.data \in Seq(Units) /\ netq.data \in Seq(Units)
    BY NumbersAre
  <2>2. /\ \A i \in 1 .. l : mempool.data[i].num = b + i
        /\ \A i \in 1 .. r : netq.data[i].num = b + l + i
    BY DEF FInv, Counted
  <2>3. /\ DOMAIN mempool.data = 1 .. l /\ DOMAIN netq.data = 1 .. r
    BY <2>1, SeqIs
  <2>4. Pushed = rnum \/ (Pushed = rnum - 1 /\ Unpushed = {rnum})
    BY DEF Pushed, Unpushed
  <2> HIDE DEF b, l, r
  <2>5. CASE n \in 1 .. Decoded
    <3>1. n \in ShownUnits \cup HandUnit \cup CoreUnits \cup MissedUnits
      BY <2>5 DEF FInv, InOrder
    <3>2. CoreUnits \subseteq OnTheirWay
      BY DEF CoreUnits, UnitsOf, ToSet, OnTheirWay
    <3>3. HandUnit \subseteq OnTheirWay
      BY DEF HandUnit, InHand, OnTheirWay
    <3> QED BY <1>2, <3>1, <3>2, <3>3 DEF Gone, MissedUnits
  <2>6. CASE n - b \in 1 .. l
    <3>1. mempool.data[n - b].num = n
      BY <2>1, <2>2, <2>6
    <3>2. mempool.data[n - b] \in ToSet(mempool.data)
      BY <2>3, <2>6 DEF ToSet
    <3> QED BY <3>1, <3>2 DEF OnTheirWay
  <2>7. CASE n - b - l \in 1 .. r
    <3>1. netq.data[n - b - l].num = n
      BY <2>1, <2>2, <2>7
    <3>2. netq.data[n - b - l] \in ToSet(netq.data)
      BY <2>3, <2>7 DEF ToSet
    <3> QED BY <3>1, <3>2 DEF OnTheirWay
  <2>8. CASE n = rnum /\ Unpushed = {rnum}
    BY <2>8 DEF OnTheirWay
  <2>9. \/ n \in 1 .. Decoded \/ n - b \in 1 .. l \/ n - b - l \in 1 .. r
        \/ n = rnum /\ Pushed = rnum - 1
    <3> DEFINE p == Pushed  d == Decoded
    <3>1. /\ p = b + l + r /\ (d = b \/ d = b + 1) /\ (p = rnum \/ p = rnum - 1)
      BY <2>1, <2>4
    <3> HIDE DEF p, d
    <3>2. n \in 1 .. d \/ n - b \in 1 .. l \/ n - b - l \in 1 .. r \/ (n = rnum /\ p = rnum - 1)
      BY <1>3, <2>1, <3>1
    <3> QED BY <3>2 DEF p, d
  <2> QED BY <1>3, <2>4, <2>5, <2>6, <2>7, <2>8, <2>9
<1>6. ASSUME dpc = "pushEos", ~early PROVE OnTheirWay = Unpushed
  <2>1. core = << >> /\ mempool.data = << >> /\ netq.data = << >>
    BY <1>6 DEF FInv, Phases
  <2>2. ToSet(<< >>) = {}
    <3>1. DOMAIN << >> = {}
      BY EmptySeq
    <3> QED BY <3>1 DEF ToSet
  <2> QED BY <1>6, <2>1, <2>2 DEF OnTheirWay
<1> QED BY <1>1, <1>4, <1>5, <1>6 DEF FramesAreSent

-----------------------------------------------------------------------------
(* The three components together: only one of them moves. *)

Components == GInv /\ GraphCounts /\ VInv /\ DInv /\ FInv

LEMMA ComponentsInvariant == Spec => []Components
<1>1. Init => Components
  BY InitGInv, InitVInv, InitDInv, InitFInv DEF Init, Components, GraphInit, GraphCounts
<1>2. Components /\ [Next]_vars => Components'
  <2> SUFFICES ASSUME Components, [Next]_vars PROVE Components'
    OBVIOUS
  <2>1. /\ [GraphNext]_graphVars /\ [VinNext]_vinVars /\ [DecoderNext]_decVars
    BY DEF Next, vars
  <2>2. GInv' /\ VInv' /\ DInv' /\ FInv'
    BY <2>1, StepGInv, StepVInv, StepDInv, StepFInv DEF Components
  <2> QED BY <2>1, <2>2, StepCounts DEF Components
<1> QED BY <1>1, <1>2, PTL DEF Spec

\* Whatever the calls, streams and films, the transcoder's lists name elements it
\* created, nothing deleted runs, the queues of VPPElement and DecoderElement
\* stay within their room and their lock counts within 16 bits.
THEOREM ElementsStayTyped == Spec => []TypeOK
<1>1. Components => TypeOK
  BY VInvIsSafe, DInvIsTyped, GInvHasTypes DEF Components, TypeOK
<1> QED BY ComponentsInvariant, <1>1, PTL

\* However inputs are attached, detached, stopped, reset or ended, for any
\* number of surfaces and inputs, every surface of a linked input is with its
\* producer, in the pad's queue or shown, unless the last set-up counted no
\* video; and over any film each surface of a decoder is locked once for each
\* who holds it, nobody holds one of a pool that was freed, and none comes back
\* to no pool, unless half a second was not enough for it.
THEOREM SurfacesStayKept == Spec => []SurfacesAreKept
<1>1. Components => SurfacesAreKept
  BY VInvIsSafe, DInvKeepsSurfaces DEF Components, SurfacesAreKept
<1> QED BY ComponentsInvariant, <1>1, PTL

\* No picture is composed from a frame of an input that was attached or reset
\* since the processor was set up; and over any film a decoder sends each
\* picture once and in order, or has one of the named reasons not to, and none
\* is on its way when it sends the end of the stream, unless the data was taken
\* for ended too early.
THEOREM FramesStayRight == Spec => []FramesAreRight
<1>1. Components => FramesAreRight
  BY VInvIsSafe, FInvSends DEF Components, FramesAreRight
<1> QED BY ComponentsInvariant, <1>1, PTL
=============================================================================
