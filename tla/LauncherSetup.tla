--------------------------- MODULE LauncherSetup ---------------------------
(* Launcher of app/msdk_smta: from what the lines ask for, the sinks, the    *)
(* source and the transcoder with its VPPs and encoders are built, one pair  *)
(* of VPP and encoder after the other, and started.                          *)
EXTENDS CodecSetup

CONSTANTS
  Sources,  \* the pictures of the files that can be opened, by name
  Files     \* the names of the other files that can be opened

VARIABLES
  input,  \* the pictures of the source, once it is open
  spare,  \* suggestSurfaceNum: what the encoders ask of the decoder's surfaces
  built,  \* the pairs attached so far
  sinks   \* how many sinks there are

setupVars == <<cmdVars, input, spare, built, sinks>>

NotOpen == [width |-> 0, height |-> 0, rate |-> 0, struct |-> "none"]

SetupInit ==
  CmdInit /\ input = NotOpen /\ spare = 0 /\ built = << >> /\ sinks = 0

lineUnchanged == UNCHANGED <<mode, line, typed, more, par, sts, rows>>

----------------------------------------------------------------------------
(* What a pair of VPP and encoder asks for.                                 *)

\* CheckNeedVPP: the line asks for another picture than the source has.
CheckNeedVPP(v, in) ==
  \/ v.nDstHeight \notin {0, in.height}
  \/ v.nDstWidth \notin {0, in.width}
  \/ v.dFrameRate \notin {0, in.rate}
  \/ v.bDenoiseEnabled \/ v.bComposition \/ v.bEnableDeinterlacing
  \/ v.nPicStruct # "UNKNOWN"

\* It makes an unknown rate 30 first.
RateKnown(v, in) ==
  IF in.rate = 0 THEN [v EXCEPT !.dFrameRate = Or(@, 30)] ELSE v

\* The surfaces an encoder holds back: it looks ahead, or puts pictures in
\* another order.
CalCuEncRequestSurface(e) ==
  (IF e.nLADepth # 0 THEN e.nLADepth ELSE IF e.bLABRC THEN 40 ELSE 0)
    + (IF e.bPreEnc THEN 2 ELSE 1) * e.nGopRefDist
    + (IF e.nDSstrength # 0 THEN Or(e.nRefNum, 4) ELSE 0)

\* Those the decoder adds for the encoders it feeds without a VPP.
GetDecOuputSurfNum(encs, vpps, in) ==
  Max({0} \cup {CalCuEncRequestSurface(encs[i]) :
                  i \in {j \in DOMAIN encs : ~CheckNeedVPP(vpps[j], in)}})

\* AddPicBlendInfo and AttachPicBlend: the reader of the picture blended in,
\* and the settings that are handed on.
PicBlend(p) ==
  IF p.fourcc \notin {"NV12", "RGB4"} THEN [reader |-> "PICTURE"]
  ELSE [reader |-> "YUV",
        alpha |-> IF p.AlphaEnable # 0 THEN p.GlobalAlpha ELSE 0,
        luma  |-> IF p.LumaKeyEnable # 0 THEN <<p.LumaKeyMin, p.LumaKeyMax>>
                  ELSE <<0, 0>>]

----------------------------------------------------------------------------
(* Launcher::Init: multi frame encode, then pair after pair.                *)

\* Mutant: only the lines after the one that asks are looked at.
SameFramesOfLaterLines(encs, i) ==
  [j \in DOMAIN encs |->
     IF j > i /\ encs[i].nMFEFrames > 1 /\ encs[j].nMFEFrames \notin {0, encs[i].nMFEFrames}
     THEN [encs[j] EXCEPT !.nMFEFrames = encs[i].nMFEFrames,
                          !.nMFEMode = IF @ < 2 THEN 2 ELSE @]
     ELSE encs[j]]

SameFrames(encs, i) ==
  [j \in DOMAIN encs |->
     IF encs[i].nMFEFrames > 1 /\ encs[j].nMFEFrames \notin {0, encs[i].nMFEFrames}
     THEN [encs[j] EXCEPT !.nMFEFrames = encs[i].nMFEFrames,
                          !.nMFEMode = IF @ < 2 THEN 2 ELSE @]
     ELSE encs[j]]
SameMode(encs, i) ==
  [j \in DOMAIN encs |->
     IF encs[i].nMFEMode >= 2 /\ encs[j].nMFEMode \notin {0, encs[i].nMFEMode}
     THEN [encs[j] EXCEPT !.nMFEMode = encs[i].nMFEMode]
     ELSE encs[j]]

\* The encoders take the frames and the mode of the last that asks for more
\* than one frame, for a mode above 1.
EqualiseMfe ==
  /\ pc = "setup"
  /\ LET after[i \in 0..Len(lists.enc)] ==
           IF i = 0 THEN lists.enc ELSE SameMode(SameFrames(after[i - 1], i), i)
     IN lists' = [lists EXCEPT !.enc = after[Len(lists.enc)]]
  /\ pc' = "building"
  /\ lineUnchanged /\ UNCHANGED <<input, spare, built, sinks>>

Pair == Len(built) + 1
Building == pc = "building" /\ Pair <= Len(lists.enc)

\* Init answers an error, and main ends.
GivesUp ==
  /\ pc' = "refused"
  /\ lineUnchanged /\ UNCHANGED <<lists, input, spare, built, sinks>>

\* No line names a source: the first entry of an empty list is asked for, and
\* nobody catches the exception.
NoSource == Building /\ lists.dec = << >> /\ GivesUp

AddNewSink ==
  /\ Building /\ lists.dec # << >> /\ sinks < Pair
  /\ \/ /\ sinks' = Pair
        /\ lineUnchanged /\ UNCHANGED <<pc, lists, input, spare, built>>
     \/ GivesUp

\* InitInputCfg, and the surfaces asked of the decoder.
OpenSource ==
  /\ Building /\ sinks = 1 /\ input = NotOpen
  /\ IF lists.dec[1].strSrcURI \notin DOMAIN Sources THEN GivesUp
     ELSE LET in == Sources[lists.dec[1].strSrcURI]
              vpps == [i \in DOMAIN lists.vpp |-> RateKnown(lists.vpp[i], in)]
          IN /\ input' = in
             /\ lists' = [lists EXCEPT !.vpp = vpps]
             /\ spare' = GetDecOuputSurfNum(lists.enc, vpps, in)
             /\ lineUnchanged /\ UNCHANGED <<pc, built, sinks>>

\* InitVppCfg, InitOutputCfg, then MsdkXcoder's Init for the first pair and
\* AttachVpp for the others. An Init that fails ends the program; nobody looks
\* at the result of AttachVpp, and the pair's sink has no encoder.
AttachPair ==
  /\ Building /\ sinks = Pair /\ input # NotOpen
  /\ LET enc == lists.enc[Pair]
         vpp == lists.vpp[Pair]
         needed == CheckNeedVPP(vpp, input)
         picture == IF needed THEN VppOutput(vpp, input) ELSE input
         surfaces == IF needed THEN CalCuEncRequestSurface(enc) ELSE spare
         blend == IF vpp.bComposition THEN {PicBlend(vpp.compositionParams)} ELSE {}
         pair == [surfaces |-> surfaces, blend |-> blend, picture |-> picture,
                  asked |-> lists.asked[Pair]]
     IN IF ~(FilesRead(enc) \subseteq Files) THEN GivesUp
        ELSE \/ /\ built' = Append(built, Codec(enc, picture, par.inp.bUseHW) @@ pair)
                /\ lineUnchanged /\ UNCHANGED <<pc, lists, input, spare, sinks>>
             \/ Pair = 1 /\ GivesUp
             \/ /\ Pair > 1
                /\ built' = Append(built, [element |-> "none", parts |-> << >>] @@ pair)
                /\ lineUnchanged /\ UNCHANGED <<pc, lists, input, spare, sinks>>

\* Launcher::Run, once Init is through with the pairs, be there none.
Run ==
  /\ pc = "building" /\ Pair > Len(lists.enc)
  /\ pc' = "running"
  /\ lineUnchanged /\ UNCHANGED <<lists, input, spare, built, sinks>>

SetupNext ==
  \/ CmdNext /\ UNCHANGED <<input, spare, built, sinks>>
  \/ EqualiseMfe \/ NoSource \/ AddNewSink \/ OpenSource \/ AttachPair \/ Run

----------------------------------------------------------------------------
(* Properties. The encoders that were attached; what a line has asked for.  *)

SetupTypeOK ==
  /\ pc \in {"start", "line", "between", "setup", "building", "running", "refused"}
  /\ mode \in Modes /\ more \in 0..MaxOptions[mode] /\ rows \in 0..MaxLines
  /\ sts \in {"UNSUPPORTED", "NONE"}
  /\ DOMAIN par.enc = DOMAIN EncParams /\ DOMAIN par.vpp = DOMAIN Fresh(par).vpp
  /\ Len(lists.enc) = Len(lists.vpp) /\ Len(lists.enc) = Len(lists.asked)
  /\ Len(built) <= sinks /\ sinks <= Len(lists.enc)
  /\ \A i \in DOMAIN lists.enc :
       LET e == lists.enc[i]
       IN /\ {e.nQP, e.nBitRate, e.nLADepth, e.nGopRefDist, e.nIdrInterval} \subseteq U16
          /\ e.nTargetUsage \in 0..255 /\ e.nCodecProfile[2] # ""
  /\ spare \in Nat

Attached == {i \in DOMAIN built : built[i].element # "none"}
Asks(asked, name) == \E o \in asked : o[1].text = name
AsksWord(asked, name, w) == \E o \in asked : o[1].text = name /\ o[2].text = w
AsksFei(asked) == \E f \in {"-encode", "-preenc", "-enc", "-pak", "-encpak"} :
                    Asks(asked, f)

\* One line asks for frames of one encoder, a later one for several.
FramesRaisedLate ==
  \E i \in DOMAIN lists.asked : \E j \in 1..(i - 1) :
    /\ <<Word("-mfe_frames"), Num(1)>> \in lists.asked[j]
    /\ \E n \in 2..4 : <<Word("-mfe_frames"), Num(n)>> \in lists.asked[i]

\* Encoders that share frames agree how many, and in which mode: "should be
\* the same for all sessions". A mode an encoder is given with its frames
\* after its turn is not made the same any more.
MfeAgrees ==
  pc \in {"building", "running"} =>
    \A e, f \in Range(lists.enc) :
      /\ e.nMFEFrames > 1 => f.nMFEFrames \in {0, e.nMFEFrames}
      /\ e.nMFEMode > 1 => f.nMFEMode \in {0, e.nMFEMode} \/ FramesRaisedLate

\* The FEI functions a line asks for are the parts of its encoder. There is
\* no ENC or PAK of H.265, and none of them for MPEG-2.
FunctionsAreBuilt ==
  \A i \in Attached :
    LET asked == PipelineOf(lists.enc[i])
    IN \/ asked \subseteq DOMAIN built[i].parts
       \/ built[i].element = "HEVC_FEI" /\ asked \subseteq {"bENC", "bPAK"}
       \/ built[i].element = "ENCODER" /\ asked \subseteq {"bENC", "bPAK"}

\* -la or -lad with an FEI encoder: what was verified to be a constant QP is
\* none any more, and the encoder's Init stops halfway.
LostByLookAhead(i) ==
  Asks(built[i].asked, "-encode")
    /\ (Asks(built[i].asked, "-la") \/ Asks(built[i].asked, "-lad"))

\* What the parts of one encoder have in common they give the same value,
\* though each works it out again. Not so: the H.265 encoder makes the first
\* picture of a GOP an IDR only once, motion estimation of H.265 has no search
\* parameters but those of a window, the order of H.265 pictures by
\* the vectors of a file takes the number of references for the distance, and in
\* H.264 only the encoder leaves out B references where there can be none.
Differ(i, f) ==
  \/ built[i].element = "HEVC_FEI" /\ f = "IdrInterval"
  \/ built[i].element = "HEVC_FEI" /\ f = "SearchWindow"
       /\ Asks(built[i].asked, "-search_window")
  \/ built[i].element = "HEVC_FEI" /\ Asks(built[i].asked, "-mvin")
       /\ f \in {"GopRefDist", "NumRefFrame"}
  \/ f = "BRefType" /\ Asks(built[i].asked, "-encode")
       /\ AdjustedBRefType(lists.enc[i]) = "UNKNOWN"
  \/ LostByLookAhead(i) /\ f \in {"RateControlMethod", "QP", "NumSlice",
                                  "NumRefFrame", "EncodedOrder"}
PartsAgree ==
  \A i \in Attached : \A p, q \in DOMAIN built[i].parts :
    LET a == built[i].parts[p]
        b == built[i].parts[q]
    IN \A f \in (DOMAIN a \cap DOMAIN b) \ {"MVPredictor"} :
         a[f] = b[f] \/ Differ(i, f)

\* A B picture has references of both sides, a P picture one, none more than
\* the part can have.
ReferencesFit ==
  \A i \in Attached : \A p \in DOMAIN built[i].parts :
    LET c == built[i].parts[p]
    IN "NumRefActiveP" \in DOMAIN c =>
         /\ c.NumRefActiveP \in 1..(IF p = "bPAK" THEN 16 ELSE 4)
         /\ c.GopRefDist > 1 =>
              /\ c.NumRefActiveBL0 \in 1..(IF p = "bPAK" THEN 16 ELSE 4)
                   \/ ~Asks(built[i].asked, "-gopRefDist")
              /\ c.NumRefActiveBL1 \in 1..(IF p = "bPAK" THEN 16 ELSE 2)
                   \/ DOMAIN built[i].parts = {"tasks", "bPAK"}

\* The slices of ENC and PAK share out the picture, each macroblock once,
\* unless there are so many that the first ones have used it up.
SlicesTile ==
  \A i \in Attached : \A p \in DOMAIN built[i].parts \cap {"bENC", "bPAK"} :
    LET s == built[i].parts[p].Slices
        fields == NumFields(built[i].picture)
        height == Align(built[i].picture.height, 16 * fields) \div (16 * fields)
        width == Align(built[i].picture.width, 16) \div 16
        n == Cardinality(DOMAIN s)
        usedUp == (n - 1) * ((height + n - 1) \div n) > height
    IN usedUp \/ /\ \A k \in 0..(n - 2) :
                      s[k].MBAddress + s[k].NumMBs = s[k + 1].MBAddress
                 /\ s[n - 1].MBAddress + s[n - 1].NumMBs = height * width

\* The QP of a slice is that of the encoder; a QP of 0 becomes 26.
QpIsKept ==
  \A i \in Attached : \A p \in DOMAIN built[i].parts \cap {"bENC", "bPAK"} :
    LET c == built[i].parts[p]
    IN \A k \in DOMAIN c.Slices :
         c.PicInitQP + c.Slices[k].SliceQPDelta = c.QP \/ c.QP = 0

\* The pictures an encoder puts in another order are in the surfaces asked
\* for, where the line says how far it goes.
SurfacesCover ==
  \A i \in Attached : \A p \in DOMAIN built[i].parts :
    /\ Asks(built[i].asked, "-gopRefDist") /\ built[i].element # "VP8"
         /\ "GopRefDist" \in DOMAIN built[i].parts[p]
           => built[i].surfaces >= built[i].parts[p].GopRefDist
    /\ "LookAheadDepth" \in DOMAIN built[i].parts[p]
         => built[i].surfaces >= built[i].parts[p].LookAheadDepth

SetupFits ==
  /\ MfeAgrees /\ FunctionsAreBuilt /\ PartsAgree /\ ReferencesFit
  /\ SlicesTile /\ QpIsKept /\ SurfacesCover

----------------------------------------------------------------------------
(* What the options promise: each reaches a parameter of the encoder.       *)

\* The parameter an option with a number is for.
NumberFor ==
     "-b" :> "TargetKbps" @@ "-qp" :> "QP" @@ "-l" :> "NumSlice"
  @@ "-gopPicSize" :> "GopPicSize" @@ "-gopRefDist" :> "GopRefDist"
  @@ "-idrInterval" :> "IdrInterval" @@ "-refnum" :> "NumRefFrame"
  @@ "-u" :> "TargetUsage" @@ "-lad" :> "LookAheadDepth"
  @@ "-repartitioncheck" :> "RepartitionCheckEnable"
  @@ "-mfe_frames" :> "MaxNumFrames" @@ "-mfe_mode" :> "MFMode"
  @@ "-mfe_timeout" :> "Timeout" @@ "-search_path" :> "SearchPath"
  @@ "-len_sp" :> "LenSP" @@ "-sub_mb_part_mask" :> "SubMBPartMask"
  @@ "-sub_pel_mode" :> "SubPelMode" @@ "-search_window" :> "SearchWindow"
  @@ "-ref_window_w" :> "RefWidth" @@ "-ref_window_h" :> "RefHeight"
  @@ "-num_active_P" :> "NumRefActiveP" @@ "-num_active_BL0" :> "NumRefActiveBL0"
  @@ "-num_active_BL1" :> "NumRefActiveBL1" @@ "-preenc" :> "DSstrength"
  @@ "-dblk_idc" :> "DisableDeblockingFilterIdc"
  @@ "-dblk_alpha" :> "SliceAlphaC0OffsetDiv2"
  @@ "-dblk_beta" :> "SliceBetaOffsetDiv2"
  @@ "-chroma_qpi_offset" :> "ChromaQPIndexOffset"
  @@ "-s_chroma_qpi_offset" :> "SecondChromaQPIndexOffset"
  @@ "-n_mvpredictors_P_l0" :> "NumMVPredictorsP"
  @@ "-n_mvpredictors_B_l0" :> "NumMVPredictorsBL0"
  @@ "-n_mvpredictors_B_l1" :> "NumMVPredictorsBL1"
  @@ "-num_predictorsL0" :> "NumMvPredictors0"
  @@ "-num_predictorsL1" :> "NumMvPredictors1"
  @@ "-num_framepartitions" :> "NumFramePartitions"

\* The parameter and the value a flag or a word is for.
ValueFor ==
     <<Word("-mbbrc")>> :> <<"MBBRC", TRUE>>
  @@ <<Word("-bref")>> :> <<"BRefType", "PYRAMID">>
  @@ <<Word("-nobref")>> :> <<"BRefType", "OFF">>
  @@ <<Word("-ppyr")>> :> <<"PRefType", "PYRAMID">>
  @@ <<Word("-gpb"), Word("off")>> :> <<"GPB", "OFF">>
  @@ <<Word("-qrep")>> :> <<"Statistics", TRUE>>
  @@ <<Word("-gopOptFlag"), Word("STRICT")>> :> <<"GopOptFlag", {"STRICT"}>>
  @@ <<Word("-multi_pred_l0")>> :> <<"MultiPredL0", TRUE>>
  @@ <<Word("-adjust_distortion")>> :> <<"DistortionType", TRUE>>
  @@ <<Word("-colocated_mb_distortion")>> :> <<"ColocatedMbDistortion", TRUE>>
  @@ <<Word("-mbsize")>> :> <<"MBSizeCtrl", TRUE>>
  @@ <<Word("-repartition_check_fei")>> :> <<"FeiRepartitionCheckEnable", TRUE>>
  @@ <<Word("-transform_8x8_mode_flag")>> :> <<"Transform8x8ModeFlag", TRUE>>
  @@ <<Word("-adaptive_search")>> :> <<"AdaptiveSearch", 1>>
  @@ <<Word("-forceCtuSplit")>> :> <<"ForceCtuSplit", 1>>
  @@ <<Word("-tiles"), Word("2X2")>> :> <<"NumTileRows", 2>>

\* The options with an effect on the same parameter.
Alone(o, asked) ==
  \A q \in asked \ {o} : q[1].text # o[1].text
    /\ (o \in DOMAIN ValueFor /\ q \in DOMAIN ValueFor
          => ValueFor[o][1] # ValueFor[q][1])

\* <<parameter, value>> of what is asked by an option alone for it.
Promises(asked) ==
  {ValueFor[o] : o \in {q \in asked \cap DOMAIN ValueFor : Alone(q, asked)}}
    \cup {<<NumberFor[o[1].text], CHOOSE n \in o[2].value : TRUE>> :
            o \in {q \in asked : /\ q[1].text \in DOMAIN NumberFor
                                 /\ q[2].value \notin {{}, {0}}
                                 /\ Alone(q, asked)}}

\* The parameters the help names for an encoder, by its element.
For(element) ==
  LET every == {"TargetKbps", "QP", "NumSlice", "GopPicSize", "GopRefDist",
                "IdrInterval", "NumRefFrame", "GopOptFlag", "BRefType",
                "MaxNumFrames", "MFMode"}
      search == {"SearchPath", "LenSP", "SubPelMode", "SearchWindow", "RefWidth",
                 "RefHeight", "AdaptiveSearch", "MultiPredL0", "NumRefActiveP",
                 "DSstrength"}
  IN CASE element = "ENCODER" ->
            every \cup {"TargetUsage", "MBBRC", "LookAheadDepth",
                        "RepartitionCheckEnable", "Timeout"}
       [] element = "HEVC_ENC" ->
            every \cup {"TargetUsage", "PRefType", "GPB", "NumTileRows"}
       [] element = "AVC_FEI" ->
            every \cup search
              \cup {"SubMBPartMask", "DistortionType", "ColocatedMbDistortion",
                    "MBSizeCtrl", "FeiRepartitionCheckEnable", "NumRefActiveBL0",
                    "NumMVPredictorsP", "DisableDeblockingFilterIdc",
                    "SliceAlphaC0OffsetDiv2", "ChromaQPIndexOffset",
                    "Transform8x8ModeFlag"}
       [] element = "HEVC_FEI" ->
            every \cup search
              \cup {"PRefType", "GPB", "Statistics", "NumMvPredictors0",
                    "ForceCtuSplit", "NumFramePartitions"}
       [] OTHER -> {"TargetKbps"}

\* It is another option that decides: a rate control with a bit rate has no
\* QP and the other way round, a search window by number stands for the other
\* search parameters, B references need B pictures, only so many references
\* can be active, encoders share multi frame encode, and what only H.264 and
\* H.264 in hardware has is not for MPEG-2 and software.
Overruled(i, f, v) ==
  LET e == lists.enc[i]
  IN \/ f = "QP" /\ EncCfg(EncOptions(e)).nRateControlMethod # "CQP"
     \/ f = "TargetKbps" /\ ("tasks" \in DOMAIN built[i].parts
                               \/ e.nRateControlMethod = "CQP")
     \/ e.nSearchWindow # 0 /\ f \in {"SearchPath", "LenSP", "RefWidth",
                                      "RefHeight", "AdaptiveSearch"}
     \/ f = "BRefType" /\ AdjustedBRefType(e) = "UNKNOWN"
     \/ f = "NumRefActiveP" /\ v > 4
     \/ f = "MaxNumFrames" /\ e.nMFEFrames # v
     \/ f = "MFMode" /\ e.nMFEMode # v
     \/ e.nEncodeId = "MPEG2" /\ f \in {"LookAheadDepth", "MBBRC", "BRefType",
                                        "RepartitionCheckEnable"}
     \/ ~par.inp.bUseHW /\ f = "RepartitionCheckEnable"

\* Parts that are not there need no parameters.
NotAskedOf(i, f) ==
  LET parts == DOMAIN built[i].parts
  IN \/ f = "DSstrength" /\ "bPreEnc" \notin parts
     \/ f \in {"MaxNumFrames", "MFMode", "NumMvPredictors0", "ForceCtuSplit",
               "NumFramePartitions"} /\ "bEncode" \notin parts
     \/ f \in {"SearchPath", "LenSP", "SubPelMode", "SearchWindow", "RefWidth",
               "RefHeight", "AdaptiveSearch", "MultiPredL0", "SubMBPartMask",
               "DistortionType", "ColocatedMbDistortion", "MBSizeCtrl",
               "FeiRepartitionCheckEnable"} /\ parts \subseteq {"tasks", "bPAK"}
     \/ f = "Statistics" /\ "bPreEnc" \notin parts

\* What no code hands on: for all encoders, for H.265 ones, for the FEI ones.
Dropped(i, f) ==
  \/ f \in {"PRefType", "GPB", "Statistics", "NumTileRows"}
  \/ f = "GopOptFlag" /\ built[i].element \in {"ENCODER", "HEVC_ENC"}
  \/ f \in {"BRefType", "MaxNumFrames", "MFMode"}
       /\ built[i].element \in {"HEVC_ENC", "HEVC_FEI"}
  \/ f = "IdrInterval" /\ built[i].element = "HEVC_FEI"
  \/ f = "NumRefFrame" /\ built[i].element = "AVC_FEI"
  \/ f \in {"ChromaQPIndexOffset", "Transform8x8ModeFlag"}
       /\ Asks(built[i].asked, "-encode")
  \/ built[i].element = "HEVC_FEI" /\ f = "SearchWindow"
  \/ built[i].element = "HEVC_FEI" /\ Asks(built[i].asked, "-mvin")
       /\ f \in {"GopRefDist", "NumRefFrame"}
  \/ LostByLookAhead(i) /\ f \in {"NumSlice", "NumRefFrame", "MaxNumFrames",
                                  "MFMode"}

Reaches(parts, f, v) ==
  LET has == {p \in DOMAIN parts : f \in DOMAIN parts[p]}
  IN has # {} /\ \A p \in has : parts[p][f] = v

\* An option the help names for an encoder, and nothing else decides about,
\* is in every part of it that has the parameter, and in one at least.
OptionsReachEncoder ==
  \A i \in Attached : \A promise \in Promises(built[i].asked) :
    LET f == promise[1]
    IN \/ f \notin For(built[i].element)
       \/ Reaches(built[i].parts, f, promise[2])
       \/ Overruled(i, f, promise[2]) \/ NotAskedOf(i, f) \/ Dropped(i, f)
=============================================================================
