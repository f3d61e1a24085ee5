------------------------------- MODULE MCFei -------------------------------
(* The two FEI encoders in one run: part says which of them moves.          *)
EXTENDS FeiTasks, FeiHevc

VARIABLE part

vars == <<feiVars, hevcVars, part>>

\* Every shape of mini-GOP and picture, then the rarer choices one by one.
Usual ==
  [refDist |-> 3, asked |-> TRUE, gopSize |-> 5, idrDist |-> 10, strict |-> FALSE,
   closed |-> FALSE, bref |-> "pyramid", struct |-> "prog", activeP |-> 3, activeBL0 |-> 3,
   pipeline |-> "preenc+encode", ds |-> FALSE, noVpp |-> FALSE, recon |-> 9]
AvcConfigs ==
  {[Usual EXCEPT !.refDist = rd, !.bref = br, !.struct = ps,
                 !.activeP = IF ps = "prog" THEN 3 ELSE 5, !.activeBL0 = IF ps = "prog" THEN 3 ELSE 5]
     : rd \in 1 .. 4, br \in {"off", "pyramid"}, ps \in {"prog", "tff", "bff"}}
  \cup {[Usual EXCEPT !.gopSize = 6, !.idrDist = 6, !.strict = st, !.closed = cl,
                      !.bref = "unknown", !.pipeline = "encode", !.noVpp = TRUE]
          : st \in BOOLEAN, cl \in BOOLEAN}
  \cup {[Usual EXCEPT !.pipeline = "preenc", !.ds = TRUE],
        [Usual EXCEPT !.pipeline = "preenc", !.ds = TRUE, !.noVpp = TRUE],
        [Usual EXCEPT !.pipeline = "enc+pak", !.noVpp = TRUE],
        [Usual EXCEPT !.ds = TRUE, !.noVpp = TRUE, !.refDist = 4, !.bref = "off"],
        [Usual EXCEPT !.ds = TRUE, !.noVpp = TRUE, !.struct = "tff"],
        [Usual EXCEPT !.pipeline = "enc+pak"],
        [Usual EXCEPT !.pipeline = "enc+pak", !.recon = 4],
        [Usual EXCEPT !.refDist = 4, !.asked = FALSE, !.closed = TRUE, !.gopSize = 4, !.idrDist = 4]}

Common ==
  [dist |-> 3, gopSize |-> 5, idrInterval |-> 2, closed |-> FALSE, bpyramid |-> TRUE,
   ppyramid |-> FALSE, refnum |-> 0, activeP |-> 3, activeBL0 |-> 3,
   pipeline |-> "preenc+encode", ds |-> TRUE, predictors |-> 0, noVpp |-> FALSE]
AllHevcConfigs ==
  {[Common EXCEPT !.dist = d, !.bpyramid = bp, !.closed = cl]
     : d \in 0 .. 4, bp \in BOOLEAN, cl \in BOOLEAN}
  \cup {[Common EXCEPT !.idrInterval = id, !.gopSize = 4] : id \in {0, 1}}
  \cup {[Common EXCEPT !.dist = d, !.ppyramid = TRUE, !.bpyramid = FALSE, !.gopSize = g]
          : d \in 1 .. 4, g \in {5, 12}}
  \cup {[Common EXCEPT !.pipeline = "preenc", !.noVpp = TRUE],
        [Common EXCEPT !.pipeline = "encode", !.noVpp = TRUE],
        [Common EXCEPT !.pipeline = "mvin"],
        [Common EXCEPT !.pipeline = "mvin", !.predictors = 2],
        [Common EXCEPT !.dist = 6, !.ppyramid = TRUE, !.gopSize = 10, !.idrInterval = 0]}
  \cup {[Common EXCEPT !.refnum = n, !.bpyramid = bp] : n \in {1, 2, 6}, bp \in BOOLEAN}
  \cup {[Common EXCEPT !.refnum = 2, !.dist = 4, !.activeP = 1, !.activeBL0 = 1],
        [Common EXCEPT !.refnum = 2, !.ppyramid = TRUE, !.bpyramid = FALSE, !.gopSize = 12,
                       !.activeP = 2, !.activeBL0 = 2]}

Init == part \in {"avc", "hevc"} /\ FeiInit /\ HevcInit
  /\ (part = "avc" => hevcPar = Common) /\ (part = "hevc" => feiPar = Usual)

Next ==
  /\ UNCHANGED part
  /\ \/ part = "avc" /\ FeiNext /\ UNCHANGED hevcVars
     \/ part = "hevc" /\ HevcNext /\ UNCHANGED feiVars

Spec == /\ Init /\ [][Next]_vars
        /\ (part = "avc" => FeiFairness) /\ (part = "hevc" => HevcFairness)

\* The H.264 encoder keeps the tasks that its buffer of decoded pictures names,
\* and not many more, and finds what it set aside for them.
AvcKeepsItsPool == FeiTypeOK /\ FeiBufferIsHeld /\ FeiSetsSuffice /\ FeiPredictorsMatch

\* It has what its pictures refer to, in the stream as well, codes each frame
\* once, and finds what it set aside for itself enough for every order.
AvcKeepsItsOrder ==
  FeiListsAreHeld /\ FeiStreamDecodes /\ FeiFramesComeOnce /\ FeiSurfacesSuffice /\ FeiResetEnds

\* The H.265 encoder, its queue and buffer of decoded pictures within their
\* bounds, has the surfaces that its pictures refer to, locks no others, and
\* codes each frame once.
HevcKeepsItsFrames == HevcTypeOK /\ HevcRefsAreHeld /\ HevcFramesComeOnce

\* The H.265 encoder finds a task, a reference and a surface when it needs one.
HevcGoesOn == HevcListsFilled /\ HevcResourcesSuffice

\* Either thread ends once its input ends or the pipeline stops.
EncodersEnd == (part = "avc" => FeiEnds) /\ (part = "hevc" => HevcEnds)
=============================================================================
