----------------------------- MODULE MCElements -----------------------------
(* Three components in one run: part says which of them moves, so that      *)
(* their state spaces add up.                                               *)
EXTENDS XcoderGraph, VppInput, Decoder

VARIABLE part

vars == <<graphVars, vinVars, decVars, part>>

Film(units, rtsp, loops) == [units |-> units, rtsp |-> rtsp, loops |-> loops]

\* A size that changes, from a file and from a network; a file read again that
\* begins without a header and has a new size without one; never a header.
FilmsDef ==
  {Film(<<"key1", "p", "key2">>, FALSE, 0), Film(<<"key1", "key2">>, TRUE, 0),
   Film(<<"odd", "key1">>, FALSE, 1), Film(<<"p">>, TRUE, 0)}

Init ==
  /\ part \in {"graph", "vpp", "decoder"} /\ GraphInit /\ VinInit /\ DecInit
  /\ part # "decoder" => film = CHOOSE f \in Films : TRUE

Next ==
  /\ UNCHANGED part
  /\ \/ part = "graph" /\ GraphNext /\ UNCHANGED <<vinVars, decVars>>
     \/ part = "vpp" /\ VinNext /\ UNCHANGED <<graphVars, decVars>>
     \/ part = "decoder" /\ DecoderNext /\ UNCHANGED <<graphVars, vinVars>>

\* The threads of VPP, reader and decoder go on, an overlay and an input told to
\* stop do, and the element behind the decoder takes what it is sent and gives it
\* back.  Nothing need fail, and nobody need stop an element.
Spec ==
  /\ Init /\ [][Next]_vars
  /\ WF_vinVars(part = "vpp" /\ VppThread)
  /\ \A i \in Inputs : WF_vinVars(part = "vpp" /\ InputGoesOn(i))
  /\ WF_decVars(part = "decoder" /\ Reader) /\ WF_decVars(part = "decoder" /\ DecoderThread)
  /\ WF_decVars(part = "decoder" /\ PeerTakes) /\ WF_decVars(part = "decoder" /\ PeerReturns)

\* The types of the components.
TypeOK == GraphTypeOK /\ VinTypeOK /\ DecTypeOK

\* Surfaces of an input are in one place (VPPElement), and those of a decoder
\* are locked as often as they are held, over a change of size (HandleProcess-
\* Decode), but for the cases the two name.
SurfacesAreKept == SurfacesAreSomewhere /\ DecoderKeepsSurfaces

\* The VPP composes what it was set up for, and the decoder sends each picture
\* once and in order or has one of the named reasons not to.
FramesAreRight == FramesAreConfigured /\ FramesAreSent

\* A VPP ends with its inputs and a decoder with its data, and the element
\* behind hears of it, but for the cases the two name.
ElementsEnd == VppEndsWithItsInputs /\ DecoderEnds
=============================================================================
