----------------------------- MODULE MCServices -----------------------------
(* The program before and beside the pipelines, in one run: part says        *)
(* whether command lines are turned into elements, the elements that have no *)
(* codec move, or threads are waited for, joined and deleted.                *)
EXTENDS LauncherSetup, CodecPlugins, Threads

VARIABLE part

vars == <<setupVars, overlayVars, threadVars, part>>

\* Words of a command line.

O(name) == <<Word(name)>>
ON(name, n) == <<Word(name), Num(n)>>
OW(name, w) == <<Word(name), Word(w)>>

SourcesDef ==
  [f \in {"p", "i", "s"} |->
     CASE f = "p" -> [width |-> 1920, height |-> 1080, rate |-> 30, struct |-> "PROGRESSIVE"]
       [] f = "i" -> [width |-> 720, height |-> 576, rate |-> 25, struct |-> "TFF"]
       [] f = "s" -> [width |-> 176, height |-> 144, rate |-> 0, struct |-> "PROGRESSIVE"]]
FilesDef == {"mv"}
ParFilesDef == "c" :> <<<<"stream", 1>>, <<"picstruct", 1>>, <<"height", 40>>, <<"width", 40>>,
   <<"LumaKeyMin", 16>>, <<"LumaKeyEnable", 1>>, <<"LumaKeyMax", 200>>>>
RoiFilesDef == "r" :> <<0, 1, 1, 0, 0, 16, 16, 2>> @@ "bad" :> <<0, 1, 2, 0, 0, 16, 16, 2>>

In(codec, f) == OW("-i::" \o codec, f)
Out(codec) == OW("-o::" \o codec, "out")
Rtp == <<Word("-o::h264::rtp"), Word("10.0.0.1"), Num(5000)>>
Cqp == <<OW("-rc", "CQP"), ON("-qp", 30)>>

\* Options that are refused: their value is missing or not one of theirs.
Refused ==
  {O("-b"), O("-mvin"), O("-rc"), O("-gpb"), OW("-gopOptFlag", "OPEN"), O("-loop"), OW("-u", "WRONG"),
   OW("-log", "NOISE"), O("-composite"), OW("-composite", "none"), ON("-denoise", 200),
   OW("-tiles", "0X2"), OW("-clevel", "99"), O("-i::h264"), O("-o::h264"), OW("-i::vp8", "p")}

EndsDef == [m \in Modes |->
  CASE m = "PIPELINE" ->
    {<<In("h264", "p"), Out("h264")>>, <<In("h265", "i"), Out("h265")>>,
     <<In("h264", "p"), Out("h264")>> \o Cqp \o <<ON("-preenc", 4), O("-encode")>>,
     <<In("h264", "i"), Out("h264")>> \o Cqp \o <<O("-encode")>>,
     <<In("h264", "s"), Out("h264")>> \o Cqp \o <<O("-encpak")>>,
     <<In("h264", "p"), Out("h264")>> \o Cqp \o <<O("-pak")>>,
     <<In("h264", "p"), Out("h265")>> \o Cqp \o <<ON("-preenc", 0), O("-encode"), ON("-gopRefDist", 2)>>,
     <<In("mpeg2", "i"), Out("mpeg2")>>, <<In("h264", "p")>> \o <<Rtp>>,
     <<In("h264", "p"), O("-o::null")>>,
     <<In("h264", "none"), Out("h264")>>, <<O("-o::sink"), Out("h264")>>}
  [] m = "DECODE" -> {<<O("-i::source"), In("h264", "p")>>}
  [] m = "ENCODE_VPP" -> {<<O("-o::sink"), Out("h264")>>}]

OptionsDef == [m \in Modes |->
  CASE m = "PIPELINE" ->
     {ON("-b", 4000), ON("-qp", 0), ON("-qp", 40), OW("-rc", "CQP"), ON("-l", 6), ON("-gopRefDist", 1), ON("-gopRefDist", 3),
      ON("-gopPicSize", 16), ON("-idrInterval", 1), ON("-refnum", 2), ON("-u", 7), OW("-u", "SPEED"),
      ON("-lad", 20), ON("-lad", 8), O("-la"), ON("-repartitioncheck", 16), O("-mbbrc"), 
      O("-bref"), O("-nobref"), O("-ppyr"), OW("-gpb", "off"), O("-qrep"), OW("-gopOptFlag", "STRICT"),
      OW("-tiles", "2X2"), OW("-cprofile", "BASELINE"), OW("-clevel", "41"), 
      ON("-search_path", 1), ON("-len_sp", 20), ON("-sub_mb_part_mask", 3), ON("-intra_part_mask", 6), 
      ON("-sub_pel_mode", 1), ON("-search_window", 0), ON("-ref_window_w", 24),
      ON("-num_active_P", 2), ON("-num_active_BL0", 2), ON("-num_active_BL1", 2), ON("-num_active_P", 5),
      ON("-dblk_idc", 1), ON("-dblk_alpha", 2), ON("-chroma_qpi_offset", 2),
      ON("-n_mvpredictors_P_l0", 2), ON("-num_predictorsL0", 2), ON("-num_framepartitions", 4),
      O("-multi_pred_l0"), O("-adjust_distortion"), O("-mbsize"), O("-repartition_check_fei"),
      O("-transform_8x8_mode_flag"), O("-adaptive_search"), O("-forceCtuSplit"),
      OW("-mvin", "mv"), OW("-weights", "none"), ON("-mfe_timeout", 40), ON("-mfe_frames", 2), ON("-mfe_mode", 3),
      O("-sw"), ON("-f", 50), ON("-w", 352), O("-deinterlace"), O("-bff"), <<Word("-denoise"), Num(30)>>, O("-denoise"),
      OW("-composite", "c"), OW("-roi_file", "r"), OW("-roi_file", "bad"), OW("-log", "ALL"), ON("-loop", 2), O("-unknown"), OW("-rc", "VBR")}
     \cup Refused
  [] m = "DECODE" -> {ON("-loop", 2)}
  [] m = "ENCODE_VPP" -> {ON("-mfe_frames", 1), ON("-mfe_frames", 2), ON("-mfe_mode", 1), ON("-mfe_mode", 3)}]
MaxOptionsDef == [m \in Modes |-> IF m = "DECODE" THEN 0 ELSE 2]

\* Elements without a codec: every way their input is accepted, converted,
\* refused or found wanting.
Text(t, size, b) == [kind |-> "string", text |-> t, plsize |-> size, black |-> b]
Bmp(b, off, p) == [kind |-> "picture", bmp |-> TRUE, bits |-> b, offset |-> off, packed |-> p,
                   w |-> 30, h |-> 20]
Raw(o) == [kind |-> "yuv", opens |-> TRUE, fourcc |-> "NV12", frames |-> 3, w |-> 32, h |-> 16,
           opaque |-> o]
OverlaysDef ==
  {Text(<<7, 0, 12>>, 32, FALSE), Text(<<7>>, 64, FALSE), Text(<<7>>, 32, TRUE),
   Text(<<7, -1>>, 32, FALSE), Bmp(24, 54, FALSE), Bmp(16, 66, TRUE), Bmp(8, 1078, FALSE),
   Bmp(32, 70, FALSE), Raw(FALSE), Raw(TRUE),
   [kind |-> "writer", stream |-> TRUE], [kind |-> "writer", stream |-> FALSE]}

Init == /\ part \in {"setup", "overlays", "threads"}
        /\ SetupInit /\ OverlayInit /\ ThreadsInit
        /\ part # "overlays" => ele = Raw(FALSE)

Next ==
  /\ UNCHANGED part
  /\ \/ part = "setup" /\ SetupNext /\ UNCHANGED <<overlayVars, threadVars>>
     \/ part = "overlays" /\ OverlayNext /\ UNCHANGED <<setupVars, threadVars>>
     \/ part = "threads" /\ ThreadsNext /\ UNCHANGED <<setupVars, overlayVars>>

\* The two threads of an overlay run, and the element behind a reader takes what it
\* is sent and gives it back; nobody has to send frames, to stop or to leave. All
\* threads of a session run; signals and spurious wake-ups need not come.
Spec ==
  /\ Init /\ [][Next]_vars
  /\ WF_overlayVars(part = "overlays" /\ Execute)
  /\ WF_overlayVars(part = "overlays" /\ ReaderThread)
  /\ WF_overlayVars(part = "overlays" /\ WriterThread)
  /\ WF_overlayVars(part = "overlays" /\ PeerTakes)
  /\ WF_overlayVars(part = "overlays" /\ PeerReturns)
  /\ WF_threadVars(part = "threads" /\ MainThread)
  /\ \A t \in AllThreads : WF_threadVars(part = "threads" /\ Worker(t))

\* The types of all parts.
TypeOK == SetupTypeOK /\ PluginTypeOK /\ ThreadsTypeOK

\* Surfaces of the elements without a codec, and the threads of all elements and
\* of their helpers, have an owner until nobody uses them any more.
OwnersKeep == OverlaysKeepSurfaces /\ ThreadsAreKept

\* The elements without a codec end when they are told to, and the main thread
\* when the threads it waits for have ended.
ServicesEnd == OverlaysEnd /\ (part = "threads" ~> MainIsOver)
=============================================================================
