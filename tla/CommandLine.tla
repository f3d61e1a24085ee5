---------------------------- MODULE CommandLine ----------------------------
(* CmdProcessor of app/msdk_smta/cmdProcessor.cpp: the words of a command    *)
(* line, or of the lines of a par file, become the parameters of a decoder,  *)
(* of encoders and of VPPs. A line is read option by option; what it asks is *)
(* then verified and corrected. The user types a line as it is read: an      *)
(* option is chosen when the one before it has been read.                    *)
EXTENDS Integers, SequencesExt

CONSTANTS
  Ends,       \* what a line of a mode may begin with: options, in order
  Options,    \* what may follow it: the options, each with its values
  MaxOptions, \* how many of them may follow in a line of a mode (a bound)
  MaxLines,   \* how many lines a par file has (a bound)
  ParFiles,   \* the composition files that can be read, each a sequence of
              \* <<key, value>>
  RoiFiles    \* the files of regions that can be read, each a sequence of
              \* numbers: first frame, last frame, regions, five numbers each

VARIABLES
  pc,     \* what ParseCmdLine is doing
  mode,   \* paramMode of the line
  line,   \* the words of the line not read yet
  typed,  \* the options the line has so far
  more,   \* how many may follow
  par,    \* decInputParams, encInputParams, vppInputParams, m_inputParams
  sts,    \* the status ParseParFile keeps from line to line
  lists,  \* decParamsList, encParamsList, vppParamsList, and, for every
          \* encoder, the options asked of it
  rows    \* the lines read so far

cmdVars == <<pc, mode, line, typed, more, par, sts, lists, rows>>

Modes == {"PIPELINE", "DECODE", "ENCODE_VPP"}

\* A word, and a word that sscanf reads as a number.
Word(s) == [text |-> s, value |-> {}]
Num(n) == [text |-> "", value |-> {n}]

U16Max == 65535
U16 == 0..U16Max
\* What sscanf stores of a number with the formats hhu, hu, hd and u.
Stored(format, n) ==
  CASE format = "hhu" -> n % 256
    [] format = "hu"  -> n % 65536
    [] format = "hd"  -> ((n + 32768) % 65536) - 32768
    [] format = "u"   -> n

----------------------------------------------------------------------------
(* The default parameters.                                                  *)

DecParams == [nDecodeId |-> "none", strSrcURI |-> "", bIsLoopMode |-> FALSE,
              nLoopNum |-> U16Max, bInputByFPS |-> FALSE]

\* The parameters of the FEI functions.
FEICtrlParams ==
  [nDSstrength |-> 0, nSearchPath |-> 0, nLenSP |-> 57, nSubMBPartMask |-> 0,
   nIntraPartMask |-> 0, nSubPelMode |-> 3, nAdaptiveSearch |-> 0,
   nSearchWindow |-> 5, nRefWidth |-> 32, nRefHeight |-> 32, feiQP |-> 0,
   nMVPredictors_Pl0 |-> 1, nMVPredictors_Bl0 |-> 1, nMVPredictors_Bl1 |-> 0,
   nRefActiveP |-> 0, nRefActiveBL0 |-> 0, nRefActiveBL1 |-> 0,
   nNumMvPredictors0 |-> 3, nNumMvPredictors1 |-> 1, nMVPredictor |-> 0,
   nForceCtuSplit |-> 0, nNumFramePartitions |-> 1,
   nDisableDeblockingIdc |-> 0, nSliceAlphaC0OffsetDiv2 |-> 0,
   nSliceBetaOffsetDiv2 |-> 0, nChromaQPIndexOffset |-> 0,
   nSecondChromaQPIndexOffset |-> 0, bRepartitionCheckEnable |-> FALSE,
   bMultiPredL0 |-> FALSE, bMultiPredL1 |-> FALSE, bDistortionType |-> FALSE,
   bColocatedMbDistortion |-> FALSE, bNPredSpecified_Pl0 |-> FALSE,
   bNPredSpecified_Bl0 |-> FALSE, bNPredSpecified_Bl1 |-> FALSE,
   bMBSize |-> FALSE, bTransform8x8ModeFlag |-> FALSE,
   bRepackPreencMV |-> FALSE]

EncParams ==
  [nEncodeId |-> "none", strDstURI |-> "", outputType |-> "E_NONE",
   nBitRate |-> 0, nSlices |-> 0, nMaxSliceSize |-> 0, nQP |-> U16Max,
   bLABRC |-> FALSE, bMBBRC |-> FALSE, nLADepth |-> 0,
   nRateControlMethod |-> "CBR", nTargetUsage |-> 4,
   nCodecProfile |-> <<"none", "UNKNOWN">>, nCodecLevel |-> "UNKNOWN",
   nGopOptFlag |-> {}, nGopPicSize |-> 0, nGopRefDist |-> 0, nRefNum |-> 0,
   nIdrInterval |-> 0, bRefType |-> "UNKNOWN", pRefType |-> "SIMPLE",
   nGPB |-> "ON", nTileRows |-> 0, nTileColumns |-> 0, bDump |-> FALSE,
   encHW |-> TRUE, nMFEFrames |-> 0, nMFEMode |-> 0, nMFETimeout |-> 0,
   nRepartitionCheckMode |-> 0, bPreEnc |-> FALSE, bEncode |-> FALSE,
   bPAK |-> FALSE, bENC |-> FALSE, bENCPAK |-> FALSE,
   bQualityRepack |-> FALSE, mvinFile |-> "", mvoutFile |-> "",
   mbcodeoutFile |-> "", weightFile |-> "", extRoiData |-> << >>]
    @@ FEICtrlParams

sVppParams ==
  [nPicStruct |-> "UNKNOWN", bDenoiseEnabled |-> FALSE,
   nDenoiseLevel |-> U16Max, bEnableDeinterlacing |-> FALSE,
   dFrameRate |-> 0, nDstWidth |-> 0, nDstHeight |-> 0,
   bComposition |-> FALSE, nSuggestSurface |-> 0]

\* The picture a VPP blends in: its place, its size, the keys that mix it.
CompositionParams ==
  [stream |-> "", fourcc |-> "", picstruct |-> 0, width |-> 0, height |-> 0,
   framerate |-> 0, cropx |-> 0, cropy |-> 0, cropw |-> 0, croph |-> 0,
   dstx |-> 0, dsty |-> 0, dstw |-> 0, dsth |-> 0, AlphaEnable |-> 0,
   GlobalAlpha |-> 0, PixelAlphaEnable |-> 0, LumaKeyEnable |-> 0,
   LumaKeyMin |-> 0, LumaKeyMax |-> 0]

InputParams == [bStatistics |-> FALSE, strSessionName |-> "",
                strWorkID |-> "", bIsJoin |-> FALSE, bUseHW |-> TRUE]

----------------------------------------------------------------------------
(* The options, by what they do with the word after them. Each table gives  *)
(* the parameter an option sets: its record, its field.                     *)

\* Options without a value, 767-924 of ParseParams.
EncoderFlags ==
     "-la"          :> <<"enc", "bLABRC", TRUE>>
  @@ "-mbbrc"       :> <<"enc", "bMBBRC", TRUE>>
  @@ "-tff"         :> <<"vpp", "nPicStruct", "TFF">>
  @@ "-bff"         :> <<"vpp", "nPicStruct", "BFF">>
  @@ "-bref"        :> <<"enc", "bRefType", "PYRAMID">>
  @@ "-nobref"      :> <<"enc", "bRefType", "OFF">>
  @@ "-ppyr"        :> <<"enc", "pRefType", "PYRAMID">>
  @@ "-stats"       :> <<"inp", "bStatistics", TRUE>>
  @@ "-inputbyFPS"  :> <<"dec", "bInputByFPS", TRUE>>
  @@ "-join"        :> <<"inp", "bIsJoin", TRUE>>
  @@ "-d"           :> <<"enc", "bDump", TRUE>>
  @@ "-deinterlace" :> <<"vpp", "bEnableDeinterlacing", TRUE>>

\* Those of the FEI functions.
FeiFlags ==
  [o \in {"-encode", "-pak", "-enc", "-encpak", "-repartition_check_fei",
          "-multi_pred_l0", "-multi_pred_l1", "-adjust_distortion",
          "-colocated_mb_distortion", "-mbsize", "-transform_8x8_mode_flag",
          "-repack_preenc_mv", "-qrep"} |->
     <<"enc",
       CASE o = "-encode" -> "bEncode" [] o = "-pak" -> "bPAK"
         [] o = "-enc" -> "bENC"       [] o = "-encpak" -> "bENCPAK"
         [] o = "-repartition_check_fei" -> "bRepartitionCheckEnable"
         [] o = "-multi_pred_l0" -> "bMultiPredL0"
         [] o = "-multi_pred_l1" -> "bMultiPredL1"
         [] o = "-adjust_distortion" -> "bDistortionType"
         [] o = "-colocated_mb_distortion" -> "bColocatedMbDistortion"
         [] o = "-mbsize" -> "bMBSize"
         [] o = "-transform_8x8_mode_flag" -> "bTransform8x8ModeFlag"
         [] o = "-repack_preenc_mv" -> "bRepackPreencMV"
         [] o = "-qrep" -> "bQualityRepack",
       TRUE>>]
  @@ "-forceCtuSplit"   :> <<"enc", "nForceCtuSplit", 1>>
  @@ "-adaptive_search" :> <<"enc", "nAdaptiveSearch", 1>>

Flags == EncoderFlags @@ FeiFlags

\* An option with a number: the parameter, the format and what is refused.
N(rec, field, format, ok) == [rec |-> rec, field |-> field,
                              format |-> format, ok |-> ok]
AnyNumber == 0..2147483647

EncoderNumbers ==
     "-f"   :> N("vpp", "dFrameRate", "u", AnyNumber)
  @@ "-b"   :> N("enc", "nBitRate", "u", AnyNumber)
  @@ "-lad" :> N("enc", "nLADepth", "hu", 10..100)
  @@ "-repartitioncheck" :> N("enc", "nRepartitionCheckMode", "hu", {16, 32})
  @@ "-qp"  :> N("enc", "nQP", "hu", U16)
  @@ "-w"   :> N("vpp", "nDstWidth", "hu", U16)
  @@ "-h"   :> N("vpp", "nDstHeight", "hu", U16)
  @@ "-l"   :> N("enc", "nSlices", "hu", U16)
  @@ "-gopPicSize"  :> N("enc", "nGopPicSize", "hu", U16)
  @@ "-gopRefDist"  :> N("enc", "nGopRefDist", "hu", U16)
  @@ "-refnum"      :> N("enc", "nRefNum", "hu", U16)
  @@ "-idrInterval" :> N("enc", "nIdrInterval", "hu", U16)

MfeNumbers ==
     "-mfe_frames"  :> N("enc", "nMFEFrames", "hu", U16)
  @@ "-mfe_mode"    :> N("enc", "nMFEMode", "hu", U16)
  @@ "-mfe_timeout" :> N("enc", "nMFETimeout", "u", AnyNumber)

\* 998-1063: predictors, active references, deblocking, chroma.
PredictorNumbers ==
     "-n_mvpredictors_P_l0" :> N("enc", "nMVPredictors_Pl0", "hu", U16)
  @@ "-n_mvpredictors_B_l0" :> N("enc", "nMVPredictors_Bl0", "hu", U16)
  @@ "-n_mvpredictors_B_l1" :> N("enc", "nMVPredictors_Bl1", "hu", U16)
  @@ "-num_active_P"     :> N("enc", "nRefActiveP", "hu", U16)
  @@ "-num_active_BL0"   :> N("enc", "nRefActiveBL0", "hu", U16)
  @@ "-num_active_BL1"   :> N("enc", "nRefActiveBL1", "hu", U16)
  @@ "-num_predictorsL0" :> N("enc", "nNumMvPredictors0", "hu", U16)
  @@ "-num_predictorsL1" :> N("enc", "nNumMvPredictors1", "hu", U16)
  @@ "-mvPBlocksize"     :> N("enc", "nMVPredictor", "hu", U16)
  @@ "-num_framepartitions" :> N("enc", "nNumFramePartitions", "hu", U16)
  @@ "-dblk_idc"   :> N("enc", "nDisableDeblockingIdc", "hu", 0..2)
  @@ "-dblk_alpha" :> N("enc", "nSliceAlphaC0OffsetDiv2", "hd", -6..6)
  @@ "-dblk_beta"  :> N("enc", "nSliceBetaOffsetDiv2", "hd", -6..6)
  @@ "-chroma_qpi_offset" :> N("enc", "nChromaQPIndexOffset", "hd", -12..12)
  @@ "-s_chroma_qpi_offset" :>
       N("enc", "nSecondChromaQPIndexOffset", "hd", -12..12)

\* 1085-1147: the search.
SearchNumbers ==
     "-search_path" :> N("enc", "nSearchPath", "hu", 0..2)
  @@ "-len_sp"      :> N("enc", "nLenSP", "hu", 1..63)
  @@ "-sub_mb_part_mask" :> N("enc", "nSubMBPartMask", "hu", 0..126)
  @@ "-intra_part_mask"  :> N("enc", "nIntraPartMask", "hu", 0..6)
  @@ "-sub_pel_mode"  :> N("enc", "nSubPelMode", "hu", {0, 1, 3})
  @@ "-search_window" :> N("enc", "nSearchWindow", "hu", 0..8)
  @@ "-ref_window_w"  :> N("enc", "nRefWidth", "hu", 0..64)
  @@ "-ref_window_h"  :> N("enc", "nRefHeight", "hu", 0..64)

\* -preenc sets a flag as well (SideEffect).
PreencNumber == "-preenc" :> N("enc", "nDSstrength", "hhu", {0, 1, 2, 4, 8})

Numbers == EncoderNumbers @@ MfeNumbers @@ PredictorNumbers @@ SearchNumbers
             @@ PreencNumber

\* A word that is no number leaves the parameter as it was, except for -qp.
NeedsNumber == {"-qp"}

\* The flags some options with a number set besides.
SideEffect(o, p) ==
  CASE o = "-preenc" -> [p EXCEPT !.enc.bPreEnc = TRUE]
    [] o = "-n_mvpredictors_P_l0" -> [p EXCEPT !.enc.bNPredSpecified_Pl0 = TRUE]
    [] o = "-n_mvpredictors_B_l0" -> [p EXCEPT !.enc.bNPredSpecified_Bl0 = TRUE]
    [] o = "-n_mvpredictors_B_l1" -> [p EXCEPT !.enc.bNPredSpecified_Bl1 = TRUE]
    [] OTHER -> p

\* Options with a file name or another name, and the parameter they set.
Names ==
     "-name"    :> <<"inp", "strSessionName">>
  @@ "-work_id" :> <<"inp", "strWorkID">>
  @@ "-mvout"   :> <<"enc", "mvoutFile">>
  @@ "-mbcode"  :> <<"enc", "mbcodeoutFile">>
  @@ "-mvin"    :> <<"enc", "mvinFile">>
  @@ "-weights" :> <<"enc", "weightFile">>

----------------------------------------------------------------------------
(* Options with a word of their own language. Each of these answers the     *)
(* value for the parameter, and "refused" for a word it does not know.      *)

ParseRateControlMethod(w) ==
  IF w \in {"CBR", "VBR", "AVBR", "CQP"} THEN w ELSE "0"

ParseCodecProfile(w, codec) ==
  IF w \in CASE codec = "AVC" -> {"BASELINE", "MAIN", "EXTENDED", "HIGH",
                     "CONSTRAINED_BASELINE", "CONSTRAINED_HIGH",
                     "PROGRESSIVE_HIGH"}
             [] codec = "MPEG2" -> {"SIMPLE", "MAIN", "HIGH"}
             [] codec = "HEVC" -> {"MAIN", "MAIN10", "MAINSP", "REXT"}
             [] OTHER -> {}
    THEN <<codec, w>> ELSE "refused"

\* The level 1b is compared with the word in capitals: it is never found.
ParseCodecLevel(w, codec) ==
  IF w \in CASE codec = "AVC" -> {"1", "11", "12", "13", "2", "21", "22", "3",
                     "31", "32", "4", "41", "42", "5", "51", "52"}
             [] codec = "MPEG2" -> {"LOW", "MAIN", "HIGH", "HIGH1440"}
             [] codec = "HEVC" -> {"1", "2", "21", "3", "31", "4", "41", "5",
                     "51", "52", "6", "61", "62", "MAIN", "HIGH"}
             [] OTHER -> {}
    THEN w ELSE "refused"

\* A number is taken as it is.
ParseTargetUsage(t) ==
  CASE t.text = "QUALITY" -> {1}
    [] t.text = "BALANCED" -> {4}
    [] t.text = "SPEED" -> {7}
    [] OTHER -> {n % 65536 : n \in t.value}

LogFlags == {"ALL", "VIDEO", "LOOP", "SYNC_START", "DISPATCH", "TIME", "AUDIO",
             "AUDIO_DEC", "AUDIO_ENC", "STREAM_OUTPUT", "STREAM_INPUT",
             "SPLITTER", "FFMPEG"}
\* The flags of the word, taken apart at its colons.
ParseLogFlags(flags) == flags \subseteq LogFlags

\* Rows and columns, for an HEVC encoder named before.
ParseTiles(w, codec) ==
  IF codec # "HEVC" THEN <<0, 0>>
  ELSE CASE w = "2X2" -> <<2, 2>> [] w = "4X1" -> <<4, 1>> [] OTHER -> <<0, 0>>

\* A key of the file sets its parameter; the two sizes are aligned, the
\* height to fields unless a line before said the picture is progressive,
\* and a value of a mixing key counts only once its switch is on.
ParseCompositionParfile(file) ==
  LET Aligned(n, a) == ((n + a - 1) \div a) * a
      Switch(k) == CASE k = "GlobalAlpha" -> "AlphaEnable"
                     [] k \in {"LumaKeyMin", "LumaKeyMax"} -> "LumaKeyEnable"
                     [] OTHER -> "none"
      after[i \in 0..Len(file)] ==
        IF i = 0 THEN CompositionParams
        ELSE LET p == after[i - 1]
                 k == file[i][1]
                 v == file[i][2]
             IN IF \/ k \notin DOMAIN p
                   \/ Switch(k) # "none" /\ p[Switch(k)] = 0
                   \/ k = "stream" /\ Cardinality({j \in 1..(i - 1) :
                                         file[j][1] = "stream"}) > 1
                THEN p
                ELSE [p EXCEPT ![k] =
                        CASE k = "width" -> Aligned(v, 16)
                          [] k = "height" ->
                               Aligned(v, IF p.picstruct = 1 THEN 16 ELSE 32)
                          [] OTHER -> v]
  IN after[Len(file)]

\* The regions of each frame; a file that says it has more regions than it
\* lists is refused. A later entry for a frame replaces an earlier one.
ParseRoiFile(items) ==
  LET next(i) == i + 3 + 5 * items[i + 2]
      fits[i \in 1..(Len(items) + 1)] ==
        i > Len(items) \/ /\ items[i + 2] \in 0..256
                          /\ next(i) - 1 <= Len(items)
                          /\ fits[next(i)]
      data[i \in 1..(Len(items) + 1)] ==
        IF i > Len(items) THEN << >>
        ELSE data[next(i)] @@ [f \in items[i]..items[i + 1] |-> items[i + 2]]
  IN IF fits[1] THEN {data[1]} ELSE {}

----------------------------------------------------------------------------
(* VerifyAndCorrectInputParams, part by part, in its order.                 *)

\* A source and a destination are named where the mode needs them.
EndsAreNamed(p, m) ==
  /\ m # "ENCODE_VPP" => p.dec.strSrcURI # ""
  /\ m # "DECODE" => p.enc.outputType # "E_NONE" \/ p.enc.nEncodeId = "NULL"
  /\ p.enc.outputType # "E_NONE" => p.enc.strDstURI # ""

\* A constant QP is given and is one.
QpFits(p, m) ==
  m # "DECODE" /\ p.enc.nRateControlMethod = "CQP" => p.enc.nQP <= 51

\* The software codecs: both ends of the line, and no look ahead.
SoftwareFits(p) ==
  ~p.inp.bUseHW =>
    /\ {p.enc.nEncodeId, p.dec.nDecodeId} \subseteq {"AVC", "MPEG2"}
    /\ ~p.enc.bLABRC

\* An IDR interval needs a GOP.
GopFits(p) ==
  /\ p.enc.nEncodeId = "AVC" => p.enc.nIdrInterval \in {0, 1}
  /\ p.enc.nIdrInterval # 0 => p.enc.nGopPicSize # 0 /\ p.enc.nGopRefDist # 0

\* The FEI functions one encoder may be built from.
FeiPipelines ==
  {{}, {"bPreEnc"}, {"bENC"}, {"bPAK"}, {"bEncode"}, {"bENCPAK"},
   {"bENC", "bPAK"}, {"bPreEnc", "bEncode"}, {"bPreEnc", "bENC", "bPAK"},
   {"bPreEnc", "bENCPAK"}}

FeiFunctions(e) ==
  {f \in {"bPreEnc", "bENC", "bPAK", "bENCPAK", "bEncode"} : e[f]}

\* What the FEI functions ask of the other parameters.
FeiFits(p) ==
  LET e == p.enc
  IN /\ FeiFunctions(e) \in FeiPipelines
     /\ e.nMVPredictors_Pl0 <= 4
     /\ e.nMVPredictors_Bl0 <= 4
     /\ e.nMVPredictors_Bl1 <= 4
     /\ e.bPreEnc \/ e.bEncode =>
          /\ e.nRateControlMethod = "CQP"
          /\ e.nEncodeId \in {"AVC", "HEVC"}
          /\ e.nSearchWindow = 0 =>
               /\ e.nRefHeight # 0 /\ e.nRefHeight % 4 = 0
               /\ e.nRefWidth # 0 /\ e.nRefWidth % 4 = 0
               /\ e.nRefHeight * e.nRefWidth <= 2048
     /\ e.nEncodeId = "HEVC" =>
          /\ e.nSearchPath <= 2
          /\ ~(e.bPreEnc /\ e.mvinFile # "")
          /\ e.nNumMvPredictors0 <= 4 /\ e.nNumMvPredictors1 <= 4
          /\ e.nNumFramePartitions \in {1, 2, 4, 8, 16}
          /\ e.nRefActiveP <= 3 /\ e.nRefActiveBL0 <= 3
          /\ e.nRefActiveBL1 <= 1

\* A search window by number puts the other search parameters out of use.
CorrectSearch(e) ==
  IF ~(e.bPreEnc \/ e.bEncode) THEN e
  ELSE [e EXCEPT
    !.nDSstrength = IF @ = 1 THEN 0 ELSE @,
    !.nLenSP = IF e.nSearchWindow # 0 THEN 0 ELSE IF @ = 0 THEN 57 ELSE @,
    !.nSearchPath = IF e.nSearchWindow # 0 THEN 0 ELSE @,
    !.nAdaptiveSearch = IF e.nSearchWindow # 0 THEN 0 ELSE @,
    !.nRefWidth = IF e.nSearchWindow # 0 THEN 0 ELSE @,
    !.nRefHeight = IF e.nSearchWindow # 0 THEN 0 ELSE @]

\* The active references: defaults and limits of each codec.
CorrectReferences(e) ==
  LET Given(n, default) == IF n = 0 THEN default ELSE n
      limit == IF e.bPAK THEN 16 ELSE 4
      Capped(n) == IF n = 0 \/ n > limit THEN limit ELSE n
  IN IF e.nEncodeId = "HEVC"
     THEN [e EXCEPT
       !.nRefActiveP = Given(@, 3),
       !.nRefActiveBL0 = IF e.nGopRefDist < 2 THEN 0 ELSE Given(@, 3),
       !.nRefActiveBL1 = IF e.nGopRefDist < 2 THEN 0 ELSE Given(@, 1)]
     ELSE [e EXCEPT !.nRefActiveP = Capped(@), !.nRefActiveBL0 = Capped(@)]

\* The 8x8 transform, the intra partitions and the profile are brought
\* together; bits 2 and 4 of the mask switch 8x8 and 4x4 off.
CorrectPartitions(e) ==
  LET byProfile == e.nCodecProfile \notin
        {"AVC"} \X {"MAIN", "BASELINE", "CONSTRAINED_BASELINE"}
      byMask == e.nIntraPartMask \div 2 = 0
      on == e.bTransform8x8ModeFlag \/ byProfile
      agree == byProfile = byMask /\ byMask = e.bTransform8x8ModeFlag
      odd == e.nIntraPartMask % 2
      set == IF agree THEN e
             ELSE [e EXCEPT
               !.bTransform8x8ModeFlag = on,
               !.nIntraPartMask = IF on THEN odd ELSE 6 + odd,
               !.nCodecProfile = IF on /\ ~byProfile THEN <<"AVC", "HIGH">> ELSE @]
  IN IF ~set.bTransform8x8ModeFlag /\ set.nIntraPartMask # 0
     THEN [set EXCEPT !.nIntraPartMask = 6]
     ELSE set

Accepted(p, m) ==
  EndsAreNamed(p, m) /\ QpFits(p, m) /\ SoftwareFits(p) /\ GopFits(p)
    /\ FeiFits(p)

VerifyAndCorrectInputParams(p) ==
  [p EXCEPT !.enc = CorrectPartitions(CorrectReferences(CorrectSearch(
                      [p.enc EXCEPT !.feiQP = p.enc.nQP])))]

----------------------------------------------------------------------------
(* The handlers of the options. Each reads the option and its value.        *)

Fresh(p) == [dec |-> DecParams, enc |-> EncParams, vpp |-> sVppParams
               @@ [compositionParams |-> CompositionParams],
             inp |-> p.inp]

CmdInit ==
  /\ pc = "start" /\ mode = "PIPELINE" /\ line = << >> /\ typed = {} /\ more = 0
  /\ par = Fresh([inp |-> InputParams])
  /\ sts = "UNSUPPORTED" /\ rows = 0
  /\ lists = [dec |-> << >>, enc |-> << >>, vpp |-> << >>, asked |-> << >>]

Option == line[1].text
Value == line[2]
Reading(o) == pc = "line" /\ line # << >> /\ Option \in o
HasValue == Len(line) >= 2
Read(n) == line' = SubSeq(line, n + 1, Len(line))

\* The option has set p, and n words are read.
Sets(p, n) ==
  /\ par' = p
  /\ Read(n)
  /\ UNCHANGED <<pc, mode, typed, more, sts, lists, rows>>

Refuse ==
  /\ pc' = "refused"
  /\ UNCHANGED <<mode, line, typed, more, par, sts, lists, rows>>

\* -i::codec: the codec, and the source after it.
SourceCodecs == "-i::h264" :> "AVC" @@ "-i::h265" :> "HEVC"
                  @@ "-i::mpeg2" :> "MPEG2"
ParseSource ==
  /\ Reading(DOMAIN SourceCodecs \cup {"-i::source", "-i::vp8"})
  /\ IF Option = "-i::source" THEN Sets(par, 1)
     ELSE IF Option = "-i::vp8" \/ ~HasValue THEN Refuse
     ELSE Sets([par EXCEPT !.dec.nDecodeId = SourceCodecs[Option],
                           !.dec.strSrcURI = Value.text], 2)

\* -o::codec, a file or an address and a port; a transport it does not know
\* leaves the output without a type.
SinkCodecs ==
     "-o::h264" :> <<"AVC", "E_FILE", 2>> @@ "-o::h265" :> <<"HEVC", "E_FILE", 2>>
  @@ "-o::mpeg2" :> <<"MPEG2", "E_FILE", 2>> @@ "-o::null" :> <<"NULL", "", 1>>
  @@ "-o::h264::rtp" :> <<"AVC", "E_RTP_ES", 3>>
  @@ "-o::h264::rtp::ts" :> <<"AVC", "E_RTP_TS", 3>>
  @@ "-o::h264::udp" :> <<"AVC", "", 3>>
ParseSink ==
  /\ Reading(DOMAIN SinkCodecs \cup {"-o::sink", "-o::vp8"})
  /\ IF Option = "-o::sink" THEN Sets(par, 1)
     ELSE IF Option = "-o::vp8" \/ Len(line) < SinkCodecs[Option][3] THEN Refuse
     ELSE LET s == SinkCodecs[Option]
          IN Sets([par EXCEPT
               !.enc.nEncodeId = s[1],
               !.enc.outputType = IF s[2] = "" THEN @ ELSE s[2],
               !.enc.strDstURI = IF s[3] = 1 THEN @ ELSE Value.text], s[3])

ParseFlag ==
  /\ Reading(DOMAIN Flags)
  /\ LET f == Flags[Option] IN Sets([par EXCEPT ![f[1]][f[2]] = f[3]], 1)

\* -sw: the whole program and this encoder.
ParseSoftware ==
  /\ Reading({"-sw"})
  /\ Sets([par EXCEPT !.inp.bUseHW = FALSE, !.enc.encHW = FALSE], 1)

\* What a number option leaves in its parameter.
ReadNumber(o) ==
  LET t == Numbers[o]
      old == par[t.rec][t.field]
  IN IF Value.value = {} THEN old
     ELSE Stored(t.format, CHOOSE n \in Value.value : TRUE)

ParseNumber ==
  /\ Reading(DOMAIN Numbers)
  /\ LET t == Numbers[Option]
     IN IF \/ ~HasValue
           \/ Value.value = {} /\ Option \in NeedsNumber
           \/ ReadNumber(Option) \notin t.ok
        THEN Refuse
        ELSE Sets([SideEffect(Option, par) EXCEPT
                     ![t.rec][t.field] = ReadNumber(Option)], 2)

ParseName ==
  /\ Reading(DOMAIN Names)
  /\ LET f == Names[Option]
     IN IF HasValue THEN Sets([par EXCEPT ![f[1]][f[2]] = Value.text], 2)
        ELSE Refuse

\* Profile and level need the codec before them.
ParseCodecWord ==
  /\ Reading({"-rc", "-cprofile", "-clevel", "-u"})
  /\ LET codec == par.enc.nEncodeId
         prof == ParseCodecProfile(Value.text, codec)
         lvl == ParseCodecLevel(Value.text, codec)
         usage == ParseTargetUsage(Value)
     IN CASE ~HasValue -> Refuse
          [] HasValue /\ Option = "-rc" ->
               Sets([par EXCEPT !.enc.nRateControlMethod =
                       ParseRateControlMethod(Value.text)], 2)
          [] HasValue /\ Option = "-cprofile" ->
               IF prof = "refused" THEN Refuse
               ELSE Sets([par EXCEPT !.enc.nCodecProfile = prof], 2)
          [] HasValue /\ Option = "-clevel" ->
               IF lvl = "refused" THEN Refuse
               ELSE Sets([par EXCEPT !.enc.nCodecLevel = lvl], 2)
          [] HasValue /\ Option = "-u" ->
               IF usage = {} THEN Refuse
               ELSE \E n \in usage : Sets([par EXCEPT !.enc.nTargetUsage = n], 2)

\* Options of the GOP and the tiles.
ParseGopWord ==
  /\ Reading({"-gopOptFlag", "-gpb", "-tiles"})
  /\ LET tiles == ParseTiles(Value.text, par.enc.nEncodeId)
     IN CASE ~HasValue -> Refuse
          [] HasValue /\ Option = "-gopOptFlag" ->
               IF Value.text \in {"CLOSED", "STRICT"}
               THEN Sets([par EXCEPT !.enc.nGopOptFlag = @ \cup {Value.text}], 2)
               ELSE Refuse
          [] HasValue /\ Option = "-gpb" ->
               Sets([par EXCEPT !.enc.nGPB =
                       IF Value.text = "on" THEN "ON" ELSE "OFF"], 2)
          [] HasValue /\ Option = "-tiles" ->
               IF 0 \in {tiles[1], tiles[2]} THEN Refuse
               ELSE Sets([par EXCEPT !.enc.nTileRows = tiles[1],
                                     !.enc.nTileColumns = tiles[2]], 2)

\* -log, -loop and -denoise. The level of -denoise may be missing: a word
\* that is no level is read as the next option, but only while no -denoise
\* before has set a level.
ParseLog ==
  /\ Reading({"-log"})
  /\ IF HasValue /\ ParseLogFlags({Value.text}) THEN Sets(par, 2) ELSE Refuse
ParseLoop ==
  /\ Reading({"-loop"})
  /\ IF ~HasValue THEN Refuse
     ELSE LET n == IF Value.value = {} THEN 0
                   ELSE (CHOOSE v \in Value.value : TRUE) % 65536
          IN Sets([par EXCEPT !.dec.bIsLoopMode = TRUE,
                              !.dec.nLoopNum = IF n = 0 THEN 1 ELSE n], 2)
ParseDenoise ==
  /\ Reading({"-denoise"})
  /\ LET old == par.vpp.nDenoiseLevel
         level == IF ~HasValue \/ Value.value = {} THEN old
                  ELSE (CHOOSE v \in Value.value : TRUE) % 65536
         read == HasValue /\ level # U16Max
     IN IF read /\ level > 100 THEN Refuse
        ELSE Sets([par EXCEPT !.vpp.bDenoiseEnabled = TRUE,
                              !.vpp.nDenoiseLevel = level], IF read THEN 2 ELSE 1)

\* The options with a file of their own.
ParseFile ==
  /\ Reading({"-composite", "-roi_file"})
  /\ CASE ~HasValue -> Refuse
       [] HasValue /\ Option = "-composite" ->
            IF Value.text \notin DOMAIN ParFiles THEN Refuse
            ELSE Sets([par EXCEPT !.vpp.bComposition = TRUE,
                         !.vpp.compositionParams =
                            ParseCompositionParfile(ParFiles[Value.text])], 2)
       [] HasValue /\ Option = "-roi_file" ->
            LET data == IF Value.text \in DOMAIN RoiFiles
                        THEN ParseRoiFile(RoiFiles[Value.text]) ELSE {}
            IN IF data = {} THEN Refuse
               ELSE \E d \in data : Sets([par EXCEPT !.enc.extRoiData = d], 2)

Known == DOMAIN SourceCodecs \cup DOMAIN SinkCodecs \cup DOMAIN Flags
           \cup DOMAIN Numbers \cup DOMAIN Names
           \cup {"-i::source", "-i::vp8", "-o::sink", "-o::vp8", "-sw", "-rc",
                 "-cprofile", "-clevel", "-u", "-gopOptFlag", "-gpb", "-tiles",
                 "-log", "-loop", "-denoise", "-composite", "-roi_file"}

\* A word it does not know is reported, and the word after it is dropped.
UnknownArgument ==
  /\ pc = "line" /\ line # << >> /\ Option \notin Known
  /\ Sets(par, 2)

----------------------------------------------------------------------------
(* Lines.                                                                   *)

\* The user types one more option.
TypeOption ==
  /\ pc = "line" /\ line = << >> /\ more > 0
  /\ \E o \in Options[mode] : line' = o /\ typed' = typed \cup {o}
  /\ more' = more - 1
  /\ UNCHANGED <<pc, mode, par, sts, lists, rows>>

BeginLine(m) ==
  /\ pc' = "line" /\ mode' = m /\ more' = MaxOptions[m] /\ rows' = rows + 1
  /\ \E e \in Ends[m] : line' = FlattenSeq(e) /\ typed' = Range(e)
  /\ par' = Fresh(par)
  /\ UNCHANGED <<sts, lists>>

\* -params: the rest of the command line is the line.
ParamsOfCmdLine == pc = "start" /\ BeginLine("PIPELINE")

\* -par or -par_str: lines, until their end.
ParFile ==
  /\ pc = "start"
  /\ pc' = "between"
  /\ UNCHANGED <<mode, line, typed, more, par, sts, lists, rows>>

\* No argument, -?, -h, another first word, a par file that is not there.
HelpOnly == pc = "start" /\ Refuse

LineOfParFile ==
  /\ pc = "between" /\ rows < MaxLines
  /\ \E m \in {"DECODE", "ENCODE_VPP"} : BeginLine(m)

\* A line with neither -i::source nor -o::sink is not parsed: what ends the
\* reading is the status of the line before, or that there was none.
LineOfNeither ==
  /\ pc = "between" /\ rows < MaxLines
  /\ IF sts = "NONE"
     THEN /\ rows' = rows + 1
          /\ UNCHANGED <<pc, mode, line, typed, more, par, sts, lists>>
     ELSE Refuse

EndOfParFile ==
  /\ pc = "between"
  /\ pc' = "setup"
  /\ UNCHANGED <<mode, line, typed, more, par, sts, lists, rows>>

\* Mutant: a line of a par file keeps no parameters of its VPP.
EndOfLineForgetsVpp ==
  /\ pc = "line" /\ line = << >> /\ Accepted(par, mode)
  /\ LET p == VerifyAndCorrectInputParams(par)
         kept == CASE mode = "PIPELINE" -> {"dec", "enc", "vpp", "asked"}
                   [] mode = "DECODE" -> {"dec"}
                   [] mode = "ENCODE_VPP" -> {"enc", "asked"}
     IN /\ lists' = [r \in DOMAIN lists |->
            IF r \notin kept THEN lists[r]
            ELSE Append(lists[r], IF r = "asked" THEN typed ELSE p[r])]
        /\ par' = p /\ sts' = "NONE"
        /\ pc' = IF mode = "PIPELINE" THEN "setup" ELSE "between"
        /\ UNCHANGED <<mode, line, typed, more, rows>>

\* The end of a line: what it asks for is verified and kept.
EndOfLine ==
  /\ pc = "line" /\ line = << >>
  /\ IF ~Accepted(par, mode) THEN Refuse
     ELSE LET p == VerifyAndCorrectInputParams(par)
              kept == CASE mode = "PIPELINE" -> {"dec", "enc", "vpp", "asked"}
                        [] mode = "DECODE" -> {"dec"}
                        [] mode = "ENCODE_VPP" -> {"enc", "vpp", "asked"}
          IN /\ lists' = [r \in DOMAIN lists |->
                 IF r \notin kept THEN lists[r]
                 ELSE Append(lists[r], IF r = "asked" THEN typed ELSE p[r])]
             /\ par' = p
             /\ sts' = "NONE"
             /\ pc' = IF mode = "PIPELINE" THEN "setup" ELSE "between"
             /\ UNCHANGED <<mode, line, typed, more, rows>>

CmdNext ==
  \/ ParamsOfCmdLine \/ ParFile \/ HelpOnly
  \/ LineOfParFile \/ LineOfNeither \/ EndOfParFile
  \/ TypeOption \/ EndOfLine
  \/ ParseSource \/ ParseSink \/ ParseFlag \/ ParseSoftware \/ ParseNumber
  \/ ParseName \/ ParseCodecWord \/ ParseGopWord \/ ParseLog \/ ParseLoop
  \/ ParseDenoise \/ ParseFile \/ UnknownArgument
=============================================================================
