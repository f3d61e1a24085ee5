----------------------------- MODULE CodecSetup -----------------------------
(* From the parameters of a line to those of the codec: Launcher and         *)
(* MsdkXcoder copy them into configurations, the element of the encoder and  *)
(* its parts copy them into what they give the media library, each with      *)
(* defaults of its own. Parameters are called as in mfxInfoMFX and in the    *)
(* extension buffers; one with value 0 or "UNKNOWN" is left to the library.  *)
EXTENDS CommandLine

Or(n, default) == IF n = 0 THEN default ELSE n
Least(a, b) == IF a < b THEN a ELSE b
Align(n, a) == ((n + a - 1) \div a) * a

----------------------------------------------------------------------------
(* Launcher: the options of the transcoder.                                 *)

\* The FEI functions the options ask for; ENCPAK is both of its parts.
PipelineOf(e) ==
  {f \in {"bPreEnc", "bEncode"} : e[f]}
    \cup {f \in {"bENC", "bPAK"} : e[f] \/ e.bENCPAK}

\* The files of an encoder: those that are read must be there.
FilesRead(e) ==
  LET functions == PipelineOf(e)
  IN {e[f] : f \in {"mvinFile", "weightFile"}
        \cup (IF functions = {"bPAK"} THEN {"mvoutFile"} ELSE {})
        \cup (IF "bPAK" \in functions /\ functions \cap {"bENC", "bEncode"} = {}
              THEN {"mbcodeoutFile"} ELSE {})} \ {""}

\* InitOutputCfg: some options are for some codecs, and -ppyr, -gpb and -qrep
\* stay behind. Any other codec is taken for VP8.
EncOptions(e) ==
  LET AVC == e.nEncodeId = "AVC"
      known == e.nEncodeId \in {"AVC", "HEVC", "MPEG2"}
      HEVC == e.nEncodeId = "HEVC"
  IN [e EXCEPT
       !.nEncodeId = IF known THEN @ ELSE "VP8",
       !.nRateControlMethod = IF e.bLABRC \/ e.nLADepth # 0 THEN "LA" ELSE @,
       !.nLADepth = IF AVC THEN @ ELSE 0,
       !.bRefType = IF AVC THEN @ ELSE "UNKNOWN",
       !.pRefType = "UNKNOWN", !.nGPB = "UNKNOWN", !.bQualityRepack = FALSE,
       !.nCodecProfile = IF known THEN @ ELSE EncParams.nCodecProfile,
       !.nTargetUsage = IF known THEN @ ELSE 0,
       !.nGopRefDist = IF known THEN @ ELSE 0,
       !.nGopOptFlag = IF known THEN @ ELSE {},
       !.nGopPicSize = IF known THEN @ ELSE 0,
       !.nIdrInterval = IF known THEN @ ELSE 0,
       !.nTileRows = IF HEVC THEN @ ELSE 0,
       !.nTileColumns = IF HEVC THEN @ ELSE 0,
       !.bENC = "bENC" \in PipelineOf(e), !.bPAK = "bPAK" \in PipelineOf(e)]

\* Mutant: the distance of a line is overwritten by the default.
EncCfgOfDefaultDistance(o) ==
  IF o.nEncodeId = "VP8" THEN [o EXCEPT !.nRateControlMethod = "0", !.nQP = 0, !.nRefNum = 0,
                      !.nSlices = 0]
  ELSE [o EXCEPT !.nTargetUsage = Or(@, 4), !.nGopRefDist = 4,
                 !.nGopPicSize = Or(@, 30), !.nSlices = Or(@, 1),
                 !.nQP = IF o.nRateControlMethod = "CQP" THEN @ ELSE 0,
                 !.nBitRate = IF o.nRateControlMethod = "CQP" THEN 0 ELSE @]

\* ReadEncConfig of MsdkXcoder: defaults for the GOP and the usage. An encoder
\* of VP8 is given the bit rate and no more.
EncCfg(o) ==
  IF o.nEncodeId = "VP8" THEN [o EXCEPT !.nRateControlMethod = "0", !.nQP = 0, !.nRefNum = 0,
                      !.nSlices = 0]
  ELSE [o EXCEPT !.nTargetUsage = Or(@, 4), !.nGopRefDist = Or(@, 4),
                 !.nGopPicSize = Or(@, 30), !.nSlices = Or(@, 1),
                 !.nQP = IF o.nRateControlMethod = "CQP" THEN @ ELSE 0,
                 !.nBitRate = IF o.nRateControlMethod = "CQP" THEN 0 ELSE @]

\* The element GetElementType picks for an encoder.
ElementType(o) ==
  IF PipelineOf(o) = {}
  THEN CASE o.nEncodeId = "HEVC" -> "HEVC_ENC"
         [] o.nEncodeId = "VP8" -> "VP8"
         [] OTHER -> "ENCODER"
  ELSE CASE o.nEncodeId = "AVC" -> "AVC_FEI"
         [] o.nEncodeId = "HEVC" -> "HEVC_FEI"
         [] OTHER -> "ENCODER"

PictureStructs == {"PROGRESSIVE", "TFF", "BFF"}

\* ReadVppConfig of MsdkXcoder: what is not asked for is not set, and a level
\* of denoising above 100 becomes the library's own.
VppCfg(v) ==
  [v EXCEPT !.nDenoiseLevel = IF ~v.bDenoiseEnabled THEN "off"
                              ELSE IF @ <= 100 THEN @ ELSE "default"]

\* Launcher::InitVppCfg: what the VPP makes of a picture.
VppOutput(v, in) ==
  [width  |-> Or(v.nDstWidth, in.width), height |-> Or(v.nDstHeight, in.height),
   rate   |-> Or(v.dFrameRate, in.rate),
   struct |-> IF v.bEnableDeinterlacing THEN "PROGRESSIVE"
              ELSE IF v.nPicStruct # "UNKNOWN" THEN v.nPicStruct ELSE in.struct,
   denoise |-> VppCfg(v).nDenoiseLevel]

----------------------------------------------------------------------------
(* The parts of an encoder. A picture is the surface the first buffer has.  *)

StructOf(picture) ==
  IF picture.struct \in PictureStructs THEN picture.struct ELSE "UNKNOWN"
NumFields(picture) == IF StructOf(picture) = "PROGRESSIVE" THEN 1 ELSE 2

\* What every part takes as it is.
Gop(c) == [GopRefDist |-> c.nGopRefDist, GopPicSize |-> c.nGopPicSize,
           IdrInterval |-> c.nIdrInterval, NumSlice |-> c.nSlices,
           CodecProfile |-> c.nCodecProfile, CodecLevel |-> c.nCodecLevel]

\* What the FEI parts have besides: always a constant QP.
FeiGop(c) ==
  [GopOptFlag |-> c.nGopOptFlag, RateControlMethod |-> "CQP", QP |-> c.nQP]
    @@ Gop(c)

\* B references that refer to each other, where there are B pictures.
AdjustedBRefType(c) ==
  IF c.nCodecProfile = <<"AVC", "BASELINE">> \/ c.nGopRefDist = 1 THEN "UNKNOWN"
  ELSE c.bRefType

\* The rate of MPEG-2 is a whole number the standard has.
Mpeg2Rate(rate) == IF rate \in {24, 25, 30, 50, 60} THEN rate ELSE 30

\* EncoderElement::Init and InitEncoder, with "default" for a rate worked out
\* from the size of the picture.
EncoderSetup(c, picture, hw) ==
  LET AVC == c.nEncodeId = "AVC"
      rc == IF c.nRateControlMethod = "0" THEN "VBR" ELSE c.nRateControlMethod
      avc == [MaxDecFrameBuffering |-> c.nRefNum,
              VuiNalHrdParameters |-> rc \in {"CBR", "VBR"},
              MBBRC |-> c.bMBBRC,
              LookAheadDepth |-> IF rc = "LA" THEN c.nLADepth ELSE 0,
              BRefType |-> AdjustedBRefType(c),
              RepartitionCheckEnable |->
                IF hw THEN c.nRepartitionCheckMode ELSE 0]
      other == [TargetUsage |-> c.nTargetUsage, RateControlMethod |-> rc,
                QP |-> c.nQP, NumRefFrame |-> c.nRefNum,
                TargetKbps |-> IF rc # "CQP" /\ c.nBitRate = 0 THEN "default"
                               ELSE c.nBitRate,
                MaxNumFrames |-> c.nMFEFrames, MFMode |-> c.nMFEMode,
                Timeout |-> c.nMFETimeout, PicStruct |-> StructOf(picture),
                FrameRate |-> IF c.nEncodeId = "MPEG2" THEN Mpeg2Rate(picture.rate)
                              ELSE picture.rate,
                IOPattern |-> IF hw THEN "VIDEO" ELSE "SYSTEM"]
  IN other @@ [Gop(c) EXCEPT !.GopRefDist = Or(@, 4), !.GopPicSize = Or(@, 30)]
       @@ (IF AVC THEN avc ELSE << >>)

\* HevcEncoderElement::Init: what it takes of its configuration. Look-ahead,
\* B references and the rate control of macroblocks are kept and not used.
HevcInit(c) ==
  [TargetUsage |-> c.nTargetUsage, QP |-> c.nQP, TargetKbps |-> c.nBitRate,
   RateControlMethod |-> IF c.nRateControlMethod = "0" THEN "VBR" ELSE c.nRateControlMethod,
   NumRefFrame |-> Or(c.nRefNum, 4)]
    @@ Gop(c)

\* InitEncoder of it adds what the first picture says.
HevcSetup(c, picture) ==
  LET init == HevcInit(c)
  IN [init EXCEPT !.TargetKbps =
        IF init.RateControlMethod \notin {"CQP", "VBR"} /\ @ = 0 THEN "default" ELSE @]
     @@ [PicStruct |-> StructOf(picture), FrameRate |-> picture.rate,
         Width |-> Align(picture.width, 32), Height |-> Align(picture.height, 32),
         HEVCParam |-> 8 \in {picture.width % 16, picture.height % 16}]

\* The references of list 1 a part settles on when it meets the pictures.
ActiveBL1(given, picture) ==
  IF StructOf(picture) = "PROGRESSIVE" THEN 1
  ELSE IF given = 0 \/ given > 2 THEN 2 ELSE given

Window(c) == [SearchPath |-> c.nSearchPath, LenSP |-> c.nLenSP,
              RefWidth |-> c.nRefWidth, RefHeight |-> c.nRefHeight,
              SearchWindow |-> c.nSearchWindow, SubPelMode |-> c.nSubPelMode,
              AdaptiveSearch |-> c.nAdaptiveSearch]

Partitions(c) == [SubMBPartMask |-> c.nSubMBPartMask,
                  IntraPartMask |-> c.nIntraPartMask]

NumRef(c) == Least(4, c.nGopRefDist + 1)

\* H264FEIEncoderPreenc::Init; the Inits of ENC and PAK set the same and the
\* references of B pictures.
AvcPreencInit(c) == FeiGop(c) @@ [NumRefFrame |-> NumRef(c), EncodedOrder |-> TRUE]
AvcEncInit(c) == AvcPreencInit(c) @@ [BRefType |-> c.bRefType]

\* H264FEIEncoderPreenc::InitPreenc, with the control buffers that
\* AllocExtBuffers of the element fills for it.
AvcPreenc(c, picture) ==
  Window(c) @@ Partitions(c) @@ AvcPreencInit(c)
    @@ [Qp |-> c.nQP, DSstrength |-> c.nDSstrength, PicStruct |-> StructOf(picture),
        NumRefActiveP |-> c.nRefActiveP, NumRefActiveBL0 |-> c.nRefActiveBL0,
        NumRefActiveBL1 |-> ActiveBL1(c.nRefActiveBL1, picture),
        MVPredictor |-> c.mvinFile # "",
        MVOutput |-> c.mvoutFile # "" \/ c.bEncode \/ c.bENC]

\* The predictors a frame brings to the encoder.
FrameControl(c, picture) ==
  Window(c) @@ Partitions(c)
    @@ [MultiPredL0 |-> c.bMultiPredL0, MultiPredL1 |-> c.bMultiPredL1,
        DistortionType |-> c.bDistortionType,
        FeiRepartitionCheckEnable |-> c.bRepartitionCheckEnable,
        MBSizeCtrl |-> c.bMBSize,
        ColocatedMbDistortion |-> c.bColocatedMbDistortion,
        MVPredictor |-> c.mvinFile # "" \/ c.bEncode \/ c.bPreEnc,
        NumMVPredictors |-> Least(4, NumRef(c) * NumFields(picture))]

\* The deblocking every slice asks for.
Deblocking(c) ==
  [DisableDeblockingFilterIdc |-> c.nDisableDeblockingIdc,
   SliceAlphaC0OffsetDiv2 |-> c.nSliceAlphaC0OffsetDiv2,
   SliceBetaOffsetDiv2 |-> c.nSliceBetaOffsetDiv2]

\* H264FEIEncoderEncode::Init and InitEncode. Init gives up halfway when the
\* rate control is no constant QP, and nobody looks at its result.
AvcEncode(c, picture) ==
  LET whole == c.nRateControlMethod = "CQP"
      Multi(n) == IF whole THEN n ELSE 0
  IN FrameControl(c, picture)
     @@ (IF whole THEN FeiGop(c)
         ELSE [FeiGop(c) EXCEPT !.RateControlMethod = "0", !.QP = 0, !.NumSlice = 0])
     @@ [NumRefFrame |-> IF whole THEN NumRef(c) ELSE 0, EncodedOrder |-> whole,
         PicStruct |-> StructOf(picture), BRefType |-> AdjustedBRefType(c),
         NumRefActiveP |-> c.nRefActiveP, NumRefActiveBL0 |-> c.nRefActiveBL0,
         NumRefActiveBL1 |-> ActiveBL1(c.nRefActiveBL1, picture),
         WeightedPred |-> whole /\ c.weightFile # "",
         MaxNumFrames |-> Multi(c.nMFEFrames), MFMode |-> Multi(c.nMFEMode),
         Timeout |-> IF c.nMFEFrames = 0 /\ c.nMFEMode = 0 THEN 0
                     ELSE Multi(c.nMFETimeout)]
     @@ Deblocking(c)

\* The picture parameter set of ENC and PAK.
FeiPPS(c) ==
  Deblocking(c) @@ [PicInitQP |-> 26, ChromaQPIndexOffset |-> c.nChromaQPIndexOffset,
   SecondChromaQPIndexOffset |-> c.nSecondChromaQPIndexOffset,
   Transform8x8ModeFlag |->
     (c.nIntraPartMask \div 2) % 4 # 3 \/ c.bTransform8x8ModeFlag]

\* Their slices: rows of macroblocks are dealt out in 16 bits, and the QP is
\* what the slice adds to that of the set.
SliceHeaders(c, picture) ==
  LET fields == NumFields(picture)
      height == Align(picture.height, 16 * fields) \div (16 * fields)
      width == Align(picture.width, 16) \div 16
      each == (height + c.nSlices - 1) \div c.nSlices
      left(n) == (height - n * each) % 65536
  IN [n \in 0..(c.nSlices - 1) |->
       [MBAddress |-> n * each * width, NumMBs |-> Least(each, left(n)) * width,
        SliceQPDelta |-> Or(c.nQP, 26) - 26]]

\* H264FEIEncoderENC::InitEnc.
AvcEnc(c, picture) ==
  FrameControl(c, picture) @@ AvcEncInit(c) @@ FeiPPS(c)
    @@ [PicStruct |-> StructOf(picture), Slices |-> SliceHeaders(c, picture),
        NumRefActiveP |-> c.nRefActiveP, NumRefActiveBL0 |-> c.nRefActiveBL0,
        NumRefActiveBL1 |-> ActiveBL1(c.nRefActiveBL1, picture),
        PicOrderCntType |->
          IF NumFields(picture) = 2 \/ c.nGopRefDist > 1 THEN 0 ELSE 2]

\* H264FEIEncoderPAK::Init and InitPak: PAK alone may use more references.
AvcPak(c, picture) ==
  LET limit == IF PipelineOf(c) = {"bPAK"} THEN 16 ELSE NumFields(picture)
      others == PipelineOf(c) \ {"bPAK"} # {}
  IN AvcEncInit(c) @@ FeiPPS(c)
     @@ [PicStruct |-> StructOf(picture), Slices |-> SliceHeaders(c, picture),
         NumRefActiveP |-> c.nRefActiveP, NumRefActiveBL0 |-> c.nRefActiveBL0,
         NumRefActiveBL1 |->
           Least(limit, IF others THEN ActiveBL1(c.nRefActiveBL1, picture)
                        ELSE c.nRefActiveBL1),
         PicOrderCntType |->
           IF NumFields(picture) = 2 \/ c.nGopRefDist > 1 THEN 0 ELSE 2]

\* SetSequenceParameters: what the tasks of the element are made with.
AvcTasks(c, picture) ==
  LET refs == IF c.bEncode THEN AvcEncode(c, picture).NumRefFrame ELSE NumRef(c)
      many == Least(4, refs * NumFields(picture))
  IN [GopRefDist |-> c.nGopRefDist, GopPicSize |-> c.nGopPicSize,
      IdrInterval |-> c.nIdrInterval, GopOptFlag |-> c.nGopOptFlag,
      NumRefFrame |-> refs, BRefType |-> c.bRefType,
      PicStruct |-> StructOf(picture),
      NumMVPredictorsP |->
        IF c.bNPredSpecified_Pl0 THEN c.nMVPredictors_Pl0 ELSE many,
      NumMVPredictorsBL0 |->
        IF c.bNPredSpecified_Bl0 THEN c.nMVPredictors_Bl0 ELSE many,
      NumMVPredictorsBL1 |->
        IF c.bNPredSpecified_Bl1 THEN c.nMVPredictors_Bl1 ELSE many]

\* H264FEIEncoderElement::Init: the parts the options ask for.
AvcFeiSetup(c, picture) ==
  [part \in {"tasks"} \cup PipelineOf(c) |->
     CASE part = "tasks" -> AvcTasks(c, picture)
       [] part = "bPreEnc" -> AvcPreenc(c, picture)
       [] part = "bEncode" -> AvcEncode(c, picture)
       [] part = "bENC" -> AvcEnc(c, picture)
       [] part = "bPAK" -> AvcPak(c, picture)]

----------------------------------------------------------------------------
(* H.265: motion estimation by an H.264 part, then the encoder.             *)

HevcNumRef(c) == IF c.nRefNum # 0 THEN c.nRefNum ELSE NumRef(c)

HevcActives(c, picture) ==
  [NumRefActiveP |-> c.nRefActiveP, NumRefActiveBL0 |-> c.nRefActiveBL0,
   NumRefActiveBL1 |-> ActiveBL1(c.nRefActiveBL1, picture),
   PRefType |-> c.pRefType]

\* H265FEIEncoderPreenc::Init and InitPreenc, with InitExtBuffers of the
\* element: a search window of its own, no part masks of its own.
HevcPreenc(c, picture) ==
  [FeiGop(c) EXCEPT !.IdrInterval = Or(@, 65535)] @@ HevcActives(c, picture)
    @@ [NumRefFrame |-> HevcNumRef(c), EncodedOrder |-> TRUE, Qp |-> c.nQP,
        DSstrength |-> c.nDSstrength, PicStruct |-> StructOf(picture),
        BRefType |-> c.bRefType, GPB |-> "UNKNOWN",
        SubPelMode |-> c.nSubPelMode, SubMBPartMask |-> 0,
        IntraPartMask |-> c.nIntraPartMask, AdaptiveSearch |-> c.nAdaptiveSearch,
        SearchWindow |-> Or(c.nSearchWindow, 5),
        Statistics |-> c.bQualityRepack, DSSurfaces |-> HevcNumRef(c) + 5]

\* H265FEIEncoderEncode::Init gives up halfway like that of H.264.
HevcEncodeInit(c) ==
  IF c.nRateControlMethod = "CQP" THEN FeiGop(c) @@ [NumRefFrame |-> HevcNumRef(c)]
  ELSE [FeiGop(c) EXCEPT !.RateControlMethod = "0", !.QP = 0, !.NumSlice = 0]
         @@ [NumRefFrame |-> 0]

\* Its InitEncode has an interval of IDR pictures of its own, and compares the
\* profile with that of H.264 baseline.
HevcEncode(c, picture) ==
  LET init == HevcEncodeInit(c)
  IN Window(c) @@ HevcActives(c, picture) @@ [init EXCEPT !.IdrInterval = 65535]
     @@ [EncodedOrder |-> c.bPreEnc \/ c.mvinFile # "",
         PicStruct |-> StructOf(picture), BRefType |-> AdjustedBRefType(c),
         GPB |-> c.nGPB, NumMvPredictors0 |-> c.nNumMvPredictors0,
         NumMvPredictors1 |-> c.nNumMvPredictors1,
         MultiPredL0 |-> c.bMultiPredL0, MultiPredL1 |-> c.bMultiPredL1,
         MVPredictor |-> c.nMVPredictor, ForceCtuSplit |-> c.nForceCtuSplit,
         NumFramePartitions |-> c.nNumFramePartitions]

\* GetVideoParams of the element, whose GopRefDist is set where NumRefFrame
\* should be.
HevcVideoParams(c) ==
  [GopRefDist |-> NumRef(c), GopPicSize |-> c.nGopPicSize, IdrInterval |-> c.nIdrInterval,
   GopOptFlag |-> c.nGopOptFlag, NumRefFrame |-> 0, BRefType |-> c.bRefType]

\* EncodeOrderControl, where there is one: it goes by the parameters of
\* PREENC or, when the vectors come from a file, by those of the element.
HevcTasks(c, picture) ==
  IF c.bPreEnc
  THEN LET p == HevcPreenc(c, picture)
       IN [GopRefDist |-> p.GopRefDist, GopPicSize |-> p.GopPicSize,
           IdrInterval |-> p.IdrInterval, GopOptFlag |-> p.GopOptFlag,
           NumRefFrame |-> p.NumRefFrame, BRefType |-> p.BRefType]
  ELSE HevcVideoParams(c)

HevcFeiSetup(c, picture) ==
  [part \in (PipelineOf(c) \cap {"bPreEnc", "bEncode"})
              \cup (IF c.bPreEnc \/ c.mvinFile # "" THEN {"tasks"} ELSE {}) |->
     CASE part = "tasks" -> HevcTasks(c, picture)
       [] part = "bPreEnc" -> HevcPreenc(c, picture)
       [] part = "bEncode" -> HevcEncode(c, picture)]

\* The encoder of a line: its element and the parameters of its parts.
Codec(e, picture, hw) ==
  LET o == EncOptions(e)
      c == EncCfg(o)
      type == ElementType(o)
  IN [element |-> type,
      parts |-> CASE type = "AVC_FEI" -> AvcFeiSetup(c, picture)
                  [] type = "HEVC_FEI" -> HevcFeiSetup(c, picture)
                  [] type = "HEVC_ENC" -> [encode |-> HevcSetup(c, picture)]
                  [] OTHER -> [encode |-> EncoderSetup(c, picture, hw)]]
=============================================================================
