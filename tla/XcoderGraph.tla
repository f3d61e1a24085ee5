----------------------------- MODULE XcoderGraph -----------------------------
(***************************************************************************)
(* MsdkXcoder as the owner of a graph of elements: the calls that build    *)
(* it (Init), change it while it runs (AttachInput, DetachInput,           *)
(* AttachVpp, DetachVpp, AttachOutput, DetachOutput), pass a request to    *)
(* one element (the setters), run it (Start, Join, Stop) and take it apart *)
(* (CleanUpResource).                                                      *)
(*                                                                         *)
(* MsdkXcoder::mutex makes the calls exclude each other, so that a call is *)
(* one step here.  Three things do overlap with a call: a VPP thread that  *)
(* ends by itself (VppEnds); the timed calls of the string and     *)
(* picture overlays, which poll the VPP without the mutex; and Stop, which *)
(* takes no lock in this build, so that it can come while Join waits.      *)
(* How an element thread leaves its loop is the subject of Fanout and      *)
(* Session: here a joined thread has returned.                             *)
(*                                                                         *)
(* Elements are numbered in the order of their creation.                   *)
(***************************************************************************)
EXTENDS Integers, Sequences, FiniteSets, SequencesExt, FiniteSetsExt, Functions

CONSTANTS DecCodecs,    \* input codecs the application asks for
          EncCodecs,    \* output codecs the application asks for
          Built,        \* optional element types compiled in (ENABLE_xxx)
          MaxElements,  \* bound: elements ever created
          MaxCalls      \* bound: calls the application makes

VARIABLES
  kind,           \* the ElementType of every element ever created
  live,           \* elements not deleted
  running,        \* elements with is_running_
  threads,        \* elements with thread_created_
  dec_list_, del_dec_list_, vpp_list_,
  dec_dis_map_, vpp_dis_map_,
  enc_multimap_,  \* pairs <<VPP or Null, encoder>>
  links,          \* pairs <<element, element its src pad leads to>>
  session_list_,  \* number of sessions
  m_pAllocArray,  \* number of entries
  freed,          \* how many of them name an allocator that is deleted
  xcoder,         \* done_init_, is_running_, m_bRender_, render_, and whether
                  \* a thread is in Join or the resources were cleaned up
  timed,          \* the timed overlay call: pc, vpp, the decoder it replaces
  asked,          \* elements that the last call passed its request to
  ret,            \* "ok" or "failed": what the last call answered
  lost,           \* history: elements that no list names and no one deleted
  calls           \* for the bound

heap == <<kind, live>>
workers == <<running, threads>>
shape == <<dec_list_, vpp_list_, dec_dis_map_, vpp_dis_map_, enc_multimap_, links>>
drivers == <<session_list_, m_pAllocArray>>
graphVars == <<heap, workers, shape, del_dec_list_, drivers, freed, xcoder, timed,
               asked, ret, lost, calls>>

Null == 0
NoOne == [pc |-> "idle", vpp |-> Null, dec |-> Null]
Elements == 1 .. Len(kind)
DecTypes == {"DECODER", "VP8_DEC", "SW_DEC", "STRING_DEC", "BMP_DEC", "YUV_READER"}
EncTypes == {"ENCODER", "VP8_ENC", "HEVC_ENC", "AVC_FEI_ENCODER", "HEVC_FEI_ENCODER"}
OfKind(types) == {e \in Elements : kind[e] \in types}
Encs == {p[2] : p \in enc_multimap_}
Listed == ToSet(dec_list_) \cup ToSet(vpp_list_) \cup Encs
Dispatchers == Range(dec_dis_map_) \cup Range(vpp_dis_map_)

GraphInit ==
  /\ kind = << >> /\ live = {} /\ running = {} /\ threads = {}
  /\ dec_list_ = << >> /\ del_dec_list_ = << >> /\ vpp_list_ = << >>
  /\ dec_dis_map_ = << >> /\ vpp_dis_map_ = << >> /\ enc_multimap_ = {}
  /\ links = {} /\ session_list_ = 0 /\ m_pAllocArray = 0 /\ freed = 0
  /\ xcoder = [done_init_ |-> FALSE, is_running_ |-> FALSE, m_bRender_ |-> FALSE,
               render_ |-> Null, joining |-> FALSE, cleaned |-> FALSE]
  /\ timed = NoOne /\ asked = {} /\ ret = "ok" /\ lost = {} /\ calls = 0

-----------------------------------------------------------------------------
(* Which element a configuration asks for, and whether the build has it. *)

GetElementType(type, codec, swCodecPref) ==
  CASE type = "ENCODER" /\ codec = "VP8" -> "VP8_ENC"
    [] type = "ENCODER" /\ codec = "HEVC" -> "HEVC_ENC"
    [] type = "FEI_ENCODER" /\ codec = "AVC" -> "AVC_FEI_ENCODER"
    [] type = "FEI_ENCODER" /\ codec = "HEVC" -> "HEVC_FEI_ENCODER"
    [] type \in {"ENCODER", "FEI_ENCODER"} -> "ENCODER"
    [] type = "DECODER" /\ codec = "VP8" /\ swCodecPref -> "VP8_DEC"
    [] OTHER -> "DECODER"

\* A class that is not compiled in leaves the element NULL.
createElement(type) ==
  IF type \in {"DECODER", "ENCODER", "VPP", "RENDER"} \cup Built THEN type ELSE "NULL"

\* Only Init knows the software JPEG decoder, only AttachInput the YUV reader.
DecElement(call, codec) ==
  createElement(
    CASE codec = "VP8" -> GetElementType("DECODER", codec, TRUE)
      [] codec = "STRING" -> "STRING_DEC"
      [] codec = "PICTURE" -> "BMP_DEC"
      [] codec = "JPEG" /\ call = "Init" -> "SW_DEC"
      [] codec = "YUV" /\ call = "AttachInput" -> "YUV_READER"
      [] OTHER -> "DECODER")

EncElement(codec, fei) ==
  createElement(GetElementType(IF fei THEN "FEI_ENCODER" ELSE "ENCODER", codec, TRUE))

-----------------------------------------------------------------------------
(* Pieces of the calls. *)

\* A call takes the mutex; Join keeps it while it waits.
Enter ==
  /\ ~xcoder.joining /\ ~xcoder.cleaned /\ calls < MaxCalls
  /\ calls' = calls + 1

\* The mutex is taken by the thread of a timed call, once its time has come.
MayLock == ~xcoder.joining /\ ~xcoder.cleaned

Answer(r) == ret' = r /\ asked' = {}

Refuse ==
  /\ Answer("failed")
  /\ UNCHANGED <<heap, workers, shape, del_dec_list_, drivers, freed, xcoder, lost>>

\* The first n of the session and allocator pairs a call needs are made.
CreateSessionAllocator(n) ==
  /\ session_list_' = session_list_ + n
  /\ m_pAllocArray' = m_pAllocArray + n

Create(types) ==
  /\ kind' = kind \o types
  /\ live' = live \cup (Len(kind) + 1 .. Len(kind) + Len(types))

\* mutant: an element attached to a running graph waits for the next Start.
StartAtNextStart(active, passive) == UNCHANGED workers

\* Elements that are started when the graph already runs.
StartIfRunning(active, passive) ==
  IF xcoder.is_running_
  THEN /\ running' = running \cup active \cup passive
       /\ threads' = threads \cup active
  ELSE UNCHANGED workers

\* BaseElement::Stop of each of S: the threads have returned.
StopElements(S) ==
  /\ running' = running \ S
  /\ threads' = threads \ S

SomeVppEnded == xcoder.is_running_ /\ ~ (ToSet(vpp_list_) \subseteq running)

\* erase, at the place where the loop over a list found e.
Without(s, e) == RemoveAt(s, CHOOSE i \in DOMAIN s : s[i] = e)

\* map[key] = value of a std::map.
Assign(map, key, value) ==
  [k \in DOMAIN map \cup {key} |-> IF k = key THEN value ELSE map[k]]

\* mutant: only the source pads of a deleted element are unlinked.
LinksFrom(S) == {l \in links : l[1] \in S}

\* UnlinkPrevElement and UnlinkNextElement of each of S.
LinksOf(S) == {l \in links : l[1] \in S \/ l[2] \in S}

-----------------------------------------------------------------------------
(* Init. *)

\* The driver refuses a session, or a codec that is not built is asked for:
\* what was created stays in the lists, done_init_ stays FALSE.
InitFails(withVpp, output, dcodec, got) ==
  LET want == IF withVpp THEN 4 ELSE 3
      dec == DecElement("Init", dcodec)
      made == IF got < want \/ dec = "NULL" THEN << >>
              ELSE <<dec, "DIS">> \o (IF withVpp THEN <<"VPP", "DIS">> ELSE << >>)
  IN /\ Create(made)
     /\ session_list_' = got
     /\ m_pAllocArray' = Max({got - 1, 0})
     /\ dec_list_' = IF made = << >> THEN << >> ELSE <<1>>
     /\ dec_dis_map_' = IF made = << >> THEN << >> ELSE [d \in {1} |-> 2]
     /\ vpp_list_' = IF Len(made) = 4 THEN <<3>> ELSE << >>
     /\ vpp_dis_map_' = IF Len(made) = 4 THEN [v \in {3} |-> 4] ELSE << >>
     /\ xcoder' = [xcoder EXCEPT !.m_bRender_ = output = "render"]
     /\ Answer("failed")
     /\ UNCHANGED <<workers, enc_multimap_, links, del_dec_list_, freed, lost>>

InitSucceeds(withVpp, output, dcodec, ecodec, fei, extra) ==
  LET out == IF withVpp THEN 5 ELSE 3
      last == IF output = "render" THEN "RENDER" ELSE EncElement(ecodec, fei)
      made == <<DecElement("Init", dcodec), "DIS">>
                \o (IF withVpp THEN <<"VPP", "DIS">> ELSE << >>) \o <<last>>
  IN /\ Create(made)
     /\ session_list_' = out - 1 + extra
     /\ m_pAllocArray' = out - 2
     /\ dec_list_' = <<1>> /\ dec_dis_map_' = [d \in {1} |-> 2]
     /\ vpp_list_' = IF withVpp THEN <<3>> ELSE << >>
     /\ vpp_dis_map_' = IF withVpp THEN [v \in {3} |-> 4] ELSE << >>
     /\ enc_multimap_' = IF output = "render" THEN {}
                         ELSE {<<IF withVpp THEN 3 ELSE Null, out>>}
     /\ links' = {<<e, e + 1>> : e \in 1 .. out - 1}
     /\ xcoder' = [xcoder EXCEPT !.done_init_ = TRUE,
                                 !.m_bRender_ = output = "render",
                                 !.render_ = IF output = "render" THEN out ELSE Null]
     /\ Answer("ok")
     /\ UNCHANGED <<workers, del_dec_list_, freed, lost>>

\* Without a VPP there is no render mode.  An FEI encoder that runs PreENC
\* and ENC asks for one session more.
XcoderInit(withVpp, output, dcodec, ecodec, fei) ==
  LET want == IF withVpp THEN 4 ELSE 3
      missing == DecElement("Init", dcodec) = "NULL"
                 \/ (output = "enc" /\ EncElement(ecodec, fei) = "NULL")
  IN /\ calls = 0 /\ Enter
     /\ withVpp \/ output = "enc"
     /\ UNCHANGED timed
     /\ \/ Refuse
        \/ \E got \in 0 .. want : /\ got < want \/ missing \/ fei
                                  /\ InitFails(withVpp, output, dcodec, got)
        \/ /\ ~missing
           /\ \E extra \in (IF fei THEN {0, 1} ELSE {0}) :
                InitSucceeds(withVpp, output, dcodec, ecodec, fei, extra)

-----------------------------------------------------------------------------
(* Inputs. *)

DetachRefused(dec) ==
  ~xcoder.done_init_ \/ dec = Null \/ Len(dec_list_) = 1

\* The decoder is stopped and kept for the next AttachInput to delete; its
\* dispatcher is deleted at once.
DetachInputDo(dec) ==
  \/ /\ DetachRefused(dec) \/ dec \notin ToSet(dec_list_)
     /\ Refuse
  \/ /\ ~DetachRefused(dec) /\ dec \in ToSet(dec_list_)
     /\ dec_list_' = Without(dec_list_, dec)
     /\ LET dis == dec_dis_map_[dec]
        IN /\ StopElements({dec, dis})
           /\ dec_dis_map_' = Restrict(dec_dis_map_, DOMAIN dec_dis_map_ \ {dec})
           /\ links' = {l \in links : l[1] \notin {dec, dis}}
           /\ live' = live \ {dis}
     /\ del_dec_list_' = Append(del_dec_list_, dec)
     /\ Answer("ok")
     /\ UNCHANGED <<kind, vpp_list_, vpp_dis_map_, enc_multimap_, drivers, freed, xcoder, lost>>

AttachInputRefused(vpp) ==
  \/ vpp # Null /\ vpp \notin ToSet(vpp_list_)
  \/ IF vpp = Null THEN SomeVppEnded ELSE xcoder.is_running_ /\ vpp \notin running

\* Decoders detached before are deleted first, whatever becomes of the call.
\* Without a handle the input goes to every VPP.
AttachInputDo(vpp, codec) ==
  LET dec == Len(kind) + 1
      dis == dec + 1
      reclaimed == live \ ToSet(del_dec_list_)
      targets == IF vpp = Null THEN ToSet(vpp_list_) ELSE {vpp}
      type == DecElement("AttachInput", codec)
  IN \/ ~xcoder.done_init_ /\ Refuse
     \/ /\ xcoder.done_init_
        /\ del_dec_list_' = << >>
        /\ UNCHANGED <<vpp_list_, vpp_dis_map_, enc_multimap_, freed, xcoder, lost>>
        /\ \/ /\ live' = reclaimed
              /\ \/ UNCHANGED drivers    \* a bad handle, or no session
                 \/ ~AttachInputRefused(vpp) /\ type = "NULL" /\ CreateSessionAllocator(1)
              /\ Answer("failed")
              /\ UNCHANGED <<kind, workers, dec_list_, dec_dis_map_, links>>
           \/ /\ ~AttachInputRefused(vpp) /\ type # "NULL"
              /\ CreateSessionAllocator(1)
              /\ kind' = kind \o <<type, "DIS">>
              /\ live' = reclaimed \cup {dec, dis}
              /\ dec_list_' = Append(dec_list_, dec)
              /\ dec_dis_map_' = Assign(dec_dis_map_, dec, dis)
              /\ links' = links \cup {<<dec, dis>>} \cup {<<dis, v>> : v \in targets}
              /\ StartIfRunning({dec}, {dis})
              /\ Answer("ok")

DetachInput(dec) == Enter /\ DetachInputDo(dec) /\ UNCHANGED timed

AttachInput(vpp, codec) ==
  Enter /\ Len(kind) + 2 <= MaxElements /\ AttachInputDo(vpp, codec) /\ UNCHANGED timed

-----------------------------------------------------------------------------
(* Outputs. *)

\* A VPP goes with its dispatcher and its encoders: all of them are stopped,
\* but only the last one the loop met is deleted.
DetachVpp(vpp) ==
  /\ Enter /\ UNCHANGED timed
  /\ \/ /\ \/ xcoder.m_bRender_ \/ ~xcoder.done_init_ \/ Len(vpp_list_) = 1
           \/ vpp \notin ToSet(vpp_list_)
        /\ Refuse
     \/ /\ ~xcoder.m_bRender_ /\ xcoder.done_init_ /\ Len(vpp_list_) # 1
        /\ vpp \in ToSet(vpp_list_)
        /\ LET dis == vpp_dis_map_[vpp]
               encs == {p[2] : p \in {q \in enc_multimap_ : q[1] = vpp}}
               gone == {vpp, dis, Max(encs)}
           IN /\ vpp_list_' = Without(vpp_list_, vpp)
              /\ vpp_dis_map_' = Restrict(vpp_dis_map_, DOMAIN vpp_dis_map_ \ {vpp})
              /\ enc_multimap_' = {p \in enc_multimap_ : p[1] # vpp}
              /\ links' = links \ LinksOf({vpp, dis})
              /\ StopElements({vpp, dis} \cup encs)
              /\ live' = live \ gone
              /\ lost' = lost \cup (encs \ gone)
        /\ Answer("ok")
        /\ UNCHANGED <<kind, dec_list_, del_dec_list_, dec_dis_map_, drivers, freed, xcoder>>

\* A complete new chain.  An element that cannot be created ends the call;
\* those created before it are in no list.
AttachVpp(dcodec, ecodec, fei) ==
  LET vpp == Len(kind) + 1
      dec == Len(kind) + 4
      enctype == EncElement(ecodec, fei)
      dectype == DecElement("AttachVpp", dcodec)
      made == <<"VPP", "DIS">> \o (IF enctype = "NULL" THEN << >> ELSE <<enctype>>)
  IN /\ Enter /\ Len(kind) + 5 <= MaxElements /\ UNCHANGED timed
     /\ \/ Refuse
        \/ /\ ~xcoder.m_bRender_ /\ xcoder.done_init_ /\ ~SomeVppEnded
           /\ UNCHANGED <<del_dec_list_, freed, xcoder>>
           /\ \/ /\ \E got \in 0 .. 2 : CreateSessionAllocator(got)
                 /\ Answer("failed")
                 /\ UNCHANGED <<heap, workers, shape, lost>>
              \/ /\ enctype = "NULL" \/ dectype = "NULL"
                 /\ CreateSessionAllocator(3)
                 /\ Create(made)
                 /\ lost' = lost \cup (vpp .. vpp + Len(made) - 1)
                 /\ Answer("failed")
                 /\ UNCHANGED <<workers, shape>>
              \/ /\ enctype # "NULL" /\ dectype # "NULL"
                 /\ CreateSessionAllocator(3)
                 /\ Create(made \o <<dectype, "DIS">>)
                 /\ dec_list_' = Append(dec_list_, dec)
                 /\ dec_dis_map_' = Assign(dec_dis_map_, dec, dec + 1)
                 /\ vpp_list_' = Append(vpp_list_, vpp)
                 /\ vpp_dis_map_' = Assign(vpp_dis_map_, vpp, vpp + 1)
                 /\ enc_multimap_' = enc_multimap_ \cup {<<vpp, vpp + 2>>}
                 /\ links' = links \cup {<<dec, dec + 1>>, <<dec + 1, vpp>>,
                                         <<vpp, vpp + 1>>, <<vpp + 1, vpp + 2>>}
                 /\ StartIfRunning({vpp + 2, vpp, dec}, {vpp + 1, dec + 1})
                 /\ Answer("ok")
                 /\ UNCHANGED lost

\* What AttachVppOutput leaves when it fails: nothing; an allocator that it
\* deletes though m_pAllocArray names it; or a VPP in no list, with its
\* session closed or, when it is the PreENC session that fails, still open.
AttachVppOutputHalfway(withVpp, made, type, fei) ==
  /\ Answer("failed")
  /\ UNCHANGED <<workers, vpp_list_, vpp_dis_map_, enc_multimap_, links>>
  /\ \/ UNCHANGED <<heap, drivers, freed, lost>>
     \/ /\ withVpp
        /\ m_pAllocArray' = m_pAllocArray + 1
        /\ freed' = freed + 1
        /\ UNCHANGED <<heap, session_list_, lost>>
     \/ /\ type = "NULL" \/ fei
        /\ LET pairs == IF withVpp THEN 2 ELSE 1
           IN /\ session_list_' = session_list_ + IF type = "NULL" THEN 0 ELSE pairs
              /\ m_pAllocArray' = m_pAllocArray + pairs
        /\ Create(made)
        /\ lost' = lost \cup (Len(kind) + 1 .. Len(kind) + Len(made))
        /\ UNCHANGED freed

\* AttachVpp(VppOptions, EncOptions): a new output fed by every input, through
\* a VPP of its own or straight from the decoders.
AttachVppOutput(withVpp, ecodec, fei) ==
  LET first == Len(kind) + 1
      enc == IF withVpp THEN first + 2 ELSE first
      made == IF withVpp THEN <<"VPP", "DIS">> ELSE << >>
      type == EncElement(ecodec, fei)
      pairs == IF withVpp THEN 2 ELSE 1
  IN /\ Enter /\ Len(kind) + 3 <= MaxElements /\ UNCHANGED timed
     /\ \/ Refuse
        \/ /\ xcoder.done_init_ /\ ~(withVpp /\ SomeVppEnded)
           /\ UNCHANGED <<dec_list_, dec_dis_map_, del_dec_list_, xcoder>>
           /\ \/ AttachVppOutputHalfway(withVpp, made, type, fei)
              \/ /\ type # "NULL"
                 /\ session_list_' \in {session_list_ + pairs,
                                        session_list_ + pairs + IF fei THEN 1 ELSE 0}
                 /\ m_pAllocArray' = m_pAllocArray + pairs
                 /\ Create(made \o <<type>>)
                 /\ vpp_list_' = IF withVpp THEN Append(vpp_list_, first) ELSE vpp_list_
                 /\ vpp_dis_map_' = IF withVpp THEN Assign(vpp_dis_map_, first, first + 1)
                                    ELSE vpp_dis_map_
                 /\ enc_multimap_' = enc_multimap_ \cup
                                       {<<IF withVpp THEN first ELSE Null, enc>>}
                 /\ links' = links
                      \cup {<<d, first>> : d \in Range(dec_dis_map_)}
                      \cup {<<e, e + 1>> : e \in first .. enc - 1}
                 /\ StartIfRunning({first, enc}, first + 1 .. enc - 1)
                 /\ Answer("ok")
                 /\ UNCHANGED <<lost, freed>>

\* One more encoder on a VPP, refused when that VPP has ended.
AttachOutput(vpp, ecodec, fei) ==
  LET enc == Len(kind) + 1
      type == EncElement(ecodec, fei)
  IN /\ Enter /\ enc <= MaxElements
     /\ UNCHANGED <<timed, del_dec_list_, xcoder, freed, lost, dec_list_, vpp_list_,
                    dec_dis_map_, vpp_dis_map_>>
     /\ \/ /\ Answer("failed")
           /\ UNCHANGED <<heap, workers, enc_multimap_, links>>
           /\ \/ UNCHANGED drivers
              \/ type = "NULL" /\ xcoder.done_init_ /\ CreateSessionAllocator(1)
        \/ /\ xcoder.done_init_ /\ ~xcoder.m_bRender_ /\ type # "NULL"
           /\ vpp \in ToSet(vpp_list_)
           /\ ~ (xcoder.is_running_ /\ vpp \notin running)
           /\ CreateSessionAllocator(1)
           /\ Create(<<type>>)
           /\ enc_multimap_' = enc_multimap_ \cup {<<vpp, enc>>}
           /\ links' = links \cup {<<vpp_dis_map_[vpp], enc>>}
           /\ StartIfRunning({enc}, {})
           /\ Answer("ok")

\* The last encoder of a VPP stays.
DetachOutput(enc) ==
  LET siblings(p) == {q \in enc_multimap_ : q[1] = p[1]}
      found == {p \in enc_multimap_ : p[2] = enc /\ Cardinality(siblings(p)) > 1}
  IN /\ Enter
     /\ UNCHANGED <<timed, kind, dec_list_, del_dec_list_, vpp_list_, dec_dis_map_,
                    vpp_dis_map_, drivers, freed, xcoder, lost>>
     /\ IF ~xcoder.done_init_ \/ found = {}
        THEN Answer("failed") /\ UNCHANGED <<live, workers, enc_multimap_, links>>
        ELSE /\ enc_multimap_' = enc_multimap_ \ found
             /\ StopElements({enc})
             /\ links' = links \ LinksOf({enc})
             /\ live' = live \ {enc}
             /\ Answer("ok")

-----------------------------------------------------------------------------
(* Requests to one element: the handle is looked up, and the element asked. *)

Ask(S, r) ==
  /\ Enter
  /\ asked' = S /\ ret' = r
  /\ UNCHANGED <<heap, workers, shape, del_dec_list_, drivers, freed, xcoder, timed, lost>>

\* ForceKeyFrame, SetBitrate, AppendEncoderROI: an unknown handle is asserted
\* against; where assertions are compiled out, the answer is still 0.
AskEncoder(handle) ==
  IF xcoder.done_init_ THEN Ask(Encs \cap {handle}, "ok") ELSE Ask({}, "failed")

\* Only the plain encoder marks references.  NULL asks every encoder that can.
MarkReference(handle) ==
  LET able == {e \in Encs : kind[e] = "ENCODER"}
  IN IF ~xcoder.done_init_ \/ (handle # Null /\ handle \notin able)
     THEN Ask({}, "failed")
     ELSE IF handle = Null THEN Ask(able, "ok")
     ELSE \E r \in {"ok", "failed"} : Ask({handle}, r)

MarkLTR(handle) == MarkReference(handle)
MarkRL(handle) == MarkReference(handle)
ForceKeyFrame(handle) == AskEncoder(handle)
SetBitrate(handle) == AskEncoder(handle)
AppendEncoderROI(handle) == AskEncoder(handle)

\* The calls that look a VPP up, and answer whether it is there.
AskVpp(handle) ==
  IF xcoder.done_init_ /\ handle \in ToSet(vpp_list_)
  THEN Ask({handle}, "ok") ELSE Ask({}, "failed")

SetResolution(vpp) == AskVpp(vpp)
SetBackgroundColor(vpp) == AskVpp(vpp)
SetKeepRatio(vpp) == AskVpp(vpp)

\* The master input of a combination is named by its dispatcher, the inputs
\* of a layout by theirs: the VPP knows an input by the dispatcher it is
\* linked to.  Only COMBO_MASTER needs a master.
SetComboType(vpp, master) ==
  LET named == {master} \cap DOMAIN dec_dis_map_
  IN \/ /\ vpp \in ToSet(vpp_list_) /\ (master = Null \/ named # {})
        /\ Ask({vpp} \cup {dec_dis_map_[d] : d \in named}, "ok")
     \/ /\ vpp \notin ToSet(vpp_list_) \/ named = {}
        /\ Ask({}, "failed")

SetCustomLayout(vpp, inputs) ==
  IF vpp \in ToSet(vpp_list_)
  THEN Ask({vpp} \cup {dec_dis_map_[i] : i \in inputs \cap DOMAIN dec_dis_map_}, "ok")
  ELSE Ask({}, "failed")

-----------------------------------------------------------------------------
(* Overlays at a given time: the VPP is looked up, then polled without the  *)
(* mutex until it has made enough frames or ended.                          *)

TimedIdle == timed.pc = "idle" /\ ~xcoder.cleaned

TimedBegin(op, vpp, dec) ==
  /\ TimedIdle /\ ~xcoder.joining /\ calls < MaxCalls
  /\ calls' = calls + 1
  /\ vpp \in ToSet(vpp_list_)
  /\ timed' = [pc |-> op, vpp |-> vpp, dec |-> dec]
  /\ UNCHANGED <<heap, workers, shape, del_dec_list_, drivers, freed, xcoder, asked, ret, lost>>

StringOperateAttach(vpp) == TimedBegin("attach", vpp, Null)
PicOperateAttach(vpp) == TimedBegin("attach", vpp, Null)
StringOperateDetach(vpp, dec) == dec # Null /\ TimedBegin("detach", vpp, dec)
PicOperateDetach(vpp, dec) == dec # Null /\ TimedBegin("detach", vpp, dec)
StringOperateChange(vpp, dec) == dec # Null /\ TimedBegin("change", vpp, dec)
PicOperateChange(vpp, dec) == dec # Null /\ TimedBegin("change", vpp, dec)

\* The VPP ended before its time came.
TimedGivesUp ==
  /\ timed.pc \in {"attach", "detach", "change"}
  /\ timed.vpp \notin running
  /\ timed' = NoOne
  /\ UNCHANGED <<heap, workers, shape, del_dec_list_, drivers, freed, xcoder, asked, ret, lost, calls>>

TimedAttach(codec) ==
  /\ timed.pc = "attach" /\ MayLock /\ Len(kind) + 2 <= MaxElements
  /\ AttachInputDo(timed.vpp, codec)
  /\ timed' = NoOne /\ UNCHANGED calls

\* A change is a detachment and, 10 ms later, an attachment.
TimedDetach ==
  /\ timed.pc \in {"detach", "change"} /\ MayLock
  /\ DetachInputDo(timed.dec)
  /\ timed' = IF timed.pc = "change" THEN [timed EXCEPT !.pc = "attach"] ELSE NoOne
  /\ UNCHANGED calls

-----------------------------------------------------------------------------
(* Running and ending. *)

\* The application starts a transcoder that does not run.
StartXcoder ==
  LET active == Listed
      passive == Dispatchers \cup ({xcoder.render_} \ {Null})
  IN /\ Enter /\ ~xcoder.is_running_
     /\ running' = running \cup active \cup passive
     /\ threads' = threads \cup active
     /\ xcoder' = [xcoder EXCEPT !.is_running_ = TRUE]
     /\ Answer("ok")
     /\ UNCHANGED <<heap, shape, del_dec_list_, drivers, freed, timed, lost>>

\* A VPP ends by itself: end of data, or a failure.  Of the other elements no
\* call reads whether they still run.
VppEnds(v) ==
  /\ v \in running
  /\ running' = running \ {v}
  /\ UNCHANGED <<heap, threads, shape, del_dec_list_, drivers, freed, xcoder, timed,
                 asked, ret, lost, calls>>

JoinBegin ==
  /\ Enter
  /\ xcoder' = [xcoder EXCEPT !.joining = TRUE]
  /\ UNCHANGED <<heap, workers, shape, del_dec_list_, drivers, freed, timed, asked, ret, lost>>

JoinEnd ==
  /\ xcoder.joining
  /\ threads' = threads \ Listed
  /\ running' = running \ Listed
  /\ xcoder' = [xcoder EXCEPT !.joining = FALSE, !.is_running_ = FALSE]
  /\ UNCHANGED <<heap, shape, del_dec_list_, drivers, freed, timed,
                 asked, ret, lost, calls>>

StopXcoder ==
  /\ ~xcoder.cleaned /\ calls < MaxCalls
  /\ calls' = calls + 1
  /\ StopElements(Listed \cup Dispatchers)
  /\ xcoder' = [xcoder EXCEPT !.is_running_ = FALSE]
  /\ UNCHANGED <<heap, shape, del_dec_list_, drivers, freed, timed, asked, ret, lost>>

\* mutant: the decoders that were detached are forgotten.
InLists == Listed \cup Dispatchers \cup {xcoder.render_}

Owned == Listed \cup Dispatchers \cup ToSet(del_dec_list_) \cup {xcoder.render_}

\* Deleting an element stops it first.  The lists are emptied: what no list
\* names stays.
CleanUpResource ==
  LET all == Owned
  IN /\ ~xcoder.joining /\ ~xcoder.cleaned /\ timed = NoOne
     /\ live' = live \ all
     /\ StopElements(all)
     /\ links' = {l \in links : l[1] \notin all \/ l[2] \notin all}
     /\ enc_multimap_' = {} /\ vpp_dis_map_' = << >> /\ vpp_list_' = << >>
     /\ dec_dis_map_' = << >> /\ dec_list_' = << >> /\ del_dec_list_' = << >>
     /\ session_list_' = 0 /\ m_pAllocArray' = 0
     /\ xcoder' = [xcoder EXCEPT !.cleaned = TRUE, !.is_running_ = FALSE, !.render_ = Null]
     /\ asked' = {}
     /\ UNCHANGED <<kind, freed, timed, ret, lost, calls>>

\* The handles an application can hold: every decoder, VPP and encoder ever
\* created, those already detached included, or none.
Handles(types) == {Null} \cup OfKind(types)

GraphNext ==
  \/ \E withVpp, fei \in BOOLEAN, output \in {"enc", "render"},
        d \in DecCodecs, c \in EncCodecs : XcoderInit(withVpp, output, d, c, fei)
  \/ \E d \in Handles(DecTypes) : DetachInput(d)
  \/ \E v \in Handles({"VPP"}), d \in DecCodecs : AttachInput(v, d)
  \/ \E v \in Handles({"VPP"}) : DetachVpp(v)
  \/ \E d \in DecCodecs, c \in EncCodecs : AttachVpp(d, c, FALSE)
  \/ \E withVpp, fei \in BOOLEAN, c \in EncCodecs : AttachVppOutput(withVpp, c, fei)
  \/ \E v \in Handles({"VPP"}), c \in EncCodecs : AttachOutput(v, c, FALSE)
  \/ \E e \in Handles(EncTypes) :
       \/ DetachOutput(e) \/ MarkLTR(e) \/ MarkRL(e)
       \/ ForceKeyFrame(e) \/ SetBitrate(e) \/ AppendEncoderROI(e)
  \/ \E v \in Handles({"VPP"}) :
       \/ SetResolution(v) \/ SetBackgroundColor(v) \/ SetKeepRatio(v)
       \/ StringOperateAttach(v) \/ PicOperateAttach(v)
       \/ SetCustomLayout(v, OfKind(DecTypes))
  \/ \E v \in Handles({"VPP"}), d \in Handles(DecTypes) :
       \/ SetComboType(v, d)
       \/ StringOperateDetach(v, d) \/ PicOperateDetach(v, d)
       \/ StringOperateChange(v, d) \/ PicOperateChange(v, d)
  \/ TimedGivesUp \/ TimedDetach \/ \E d \in DecCodecs : TimedAttach(d)
  \/ StartXcoder \/ JoinBegin \/ JoinEnd \/ StopXcoder \/ CleanUpResource
  \/ \E v \in OfKind({"VPP"}) : VppEnds(v)

GraphSpec == GraphInit /\ [][GraphNext]_graphVars

-----------------------------------------------------------------------------
(* Properties. *)

GraphTypeOK ==
  /\ kind \in Seq(DecTypes \cup EncTypes \cup {"DIS", "VPP", "RENDER"})
  /\ live \subseteq Elements
  /\ threads \subseteq live /\ running \subseteq live
  /\ enc_multimap_ \subseteq ({Null} \cup Elements) \X Elements
  /\ links \subseteq Elements \X Elements
  /\ session_list_ \in Nat /\ m_pAllocArray \in Nat /\ freed \in 0 .. m_pAllocArray + calls

\* What the lists and maps of a transcoder say of its elements is true at the
\* end of every call, whatever calls and failures came before: they name only
\* elements that are not deleted, no element twice; each decoder and VPP is
\* linked to its dispatcher and each encoder to the dispatcher of its VPP; no
\* pad leads to a deleted element.  (An encoder without a VPP is linked to the
\* decoders there were when it was attached: AttachInput links a later one to
\* VPPs only.)
GraphIsWhole ==
  /\ Listed \cup Dispatchers \cup ToSet(del_dec_list_) \cup asked \subseteq live
  /\ ToSet(dec_list_) \cap ToSet(del_dec_list_) = {}
  /\ DOMAIN dec_dis_map_ = ToSet(dec_list_) /\ IsInjective(dec_list_)
  /\ DOMAIN vpp_dis_map_ = ToSet(vpp_list_) /\ IsInjective(vpp_list_)
  /\ \A l \in links : l[1] \in live /\ l[2] \in live
  /\ xcoder.done_init_ =>
       /\ \A d \in ToSet(dec_list_) : <<d, dec_dis_map_[d]>> \in links
       /\ \A v \in ToSet(vpp_list_) : <<v, vpp_dis_map_[v]>> \in links
       /\ \A p \in enc_multimap_ :
            p[1] # Null => <<vpp_dis_map_[p[1]], p[2]>> \in links
       /\ xcoder.m_bRender_ \/ xcoder.cleaned \/ enc_multimap_ # {}

\* Between Start and Stop or Join every element in the lists has its thread,
\* however late it was attached; and no element outside them has one, detached
\* and forgotten ones included.
ThreadsFollowTheTranscoder ==
  threads = IF xcoder.is_running_ THEN Listed ELSE {}

\* After CleanUpResource nothing that the transcoder created is left but the
\* elements a DetachVpp or a failed AttachVpp dropped from every list; none of
\* those is linked to or has a thread.
CleanUpDeletesAll ==
  xcoder.cleaned =>
    /\ live = lost /\ links = {} /\ threads = {}
    /\ session_list_ = 0 /\ m_pAllocArray = 0
=============================================================================
