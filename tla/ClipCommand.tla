----------------------------- MODULE ClipCommand -----------------------------
(***************************************************************************)
(* The ffmpeg command of a clip (clip_processing/pipeline.py, cropping/,   *)
(* watermark/, schemas/processing_config.py): its seeks and its filter     *)
(* graph.  A filter is [kind, ins, outs] with the labels it joins.         *)
(***************************************************************************)
EXTENDS Integers, Sequences, FiniteSets, SequencesExt

CropStrategy == {"CENTER_CROP", "FIT_WITH_BLUR_BACKGROUND"}
WatermarkMode == {"none", "authorized_overlay", "authorized_remove"}

Configs ==
  [mode : WatermarkMode, authorized : BOOLEAN, asset : BOOLEAN, region : BOOLEAN,
   crop : CropStrategy, fps : BOOLEAN]

(* WatermarkConfig.check_authorization *)
ConfigIsAccepted(config) ==
  /\ config.mode # "none" => config.authorized
  /\ config.mode = "authorized_overlay" => config.asset
  /\ config.mode = "authorized_remove" => config.region

(* max(0.0, start_seconds - _COARSE_SEEK_MARGIN_SECONDS)                    *)
CoarseSeek(start) == IF start > 2 THEN start - 2 ELSE 0
ResidualSeek(start) == start - CoarseSeek(start)

-----------------------------------------------------------------------------
Filter(kind, ins, outs) == [kind |-> kind, ins |-> ins, outs |-> outs]

(* build_crop_filter *)
CropFilters(crop, input) ==
  IF crop = "CENTER_CROP" THEN <<Filter("crop", {input}, {"cropped"})>>
  ELSE << Filter("split", {input}, {"bgsrc", "fgsrc"}),
          Filter("blur", {"bgsrc"}, {"bg"}),
          Filter("scale", {"fgsrc"}, {"fg"}),
          Filter("join", {"bg", "fg"}, {"cropped"}) >>

(* The overlay image is the second input file when the asset was found.     *)
OverlayPresent(config, found) == config.mode = "authorized_overlay" /\ found

Inputs(config, found) == {"0:v"} \cup IF OverlayPresent(config, found) THEN {"1:v"} ELSE {}

(* Mutant: the overlay is asked for although its file is not there. *)
WithOverlayAlways(config, found) == config.mode = "authorized_overlay"

WithOverlay(config, found) == config.mode = "authorized_overlay" /\ OverlayPresent(config, found)

(* The parts of _build_filter_complex in their order, each with the label   *)
(* the next one starts from.                                                *)
AfterRemoval(config) == IF config.mode = "authorized_remove" THEN "delogoed" ELSE "0:v"
AfterOverlay(config, found) == IF WithOverlay(config, found) THEN "wmapplied" ELSE "cropped"
FinalLabel(config, found) == IF config.fps THEN "fpsed" ELSE AfterOverlay(config, found)

FilterGraph(config, found) ==
  (IF config.mode = "authorized_remove" THEN <<Filter("delogo", {"0:v"}, {"delogoed"})>> ELSE <<>>)
  \o CropFilters(config.crop, AfterRemoval(config))
  \o (IF WithOverlay(config, found)
        THEN << Filter("opacity", {"1:v"}, {"wm"}),
                Filter("overlay", {"cropped", "wm"}, {"wmapplied"}) >>
        ELSE <<>>)
  \o (IF config.fps THEN <<Filter("fps", {AfterOverlay(config, found)}, {"fpsed"})>> ELSE <<>>)

-----------------------------------------------------------------------------
(* Properties *)

(* For every configuration that is accepted the graph is one ffmpeg can     *)
(* run: a filter reads what an input file or an earlier filter offers,      *)
(* nothing is offered twice, and each label but the mapped one is read once *)
(* - the image's too, when its file has disappeared since the upload.       *)
(* Nothing is removed or laid over without authorization                    *)
(* (processing_config.py:33-39).                                            *)
GraphIsWired(config, found) ==
  LET graph == FilterGraph(config, found)
      Offered(n) == Inputs(config, found) \cup UNION {graph[m].outs : m \in 1 .. n - 1}
      Readers(label) == {n \in DOMAIN graph : label \in graph[n].ins}
      labels == Offered(Len(graph) + 1)
  IN ConfigIsAccepted(config) =>
       /\ \A n \in DOMAIN graph :
            graph[n].ins \subseteq Offered(n) /\ graph[n].outs \cap Offered(n) = {}
       /\ \A label \in labels :
            Cardinality(Readers(label)) = IF label = FinalLabel(config, found) THEN 0 ELSE 1
       /\ FinalLabel(config, found) \in labels
       /\ (\E n \in DOMAIN graph : graph[n].kind \in {"delogo", "overlay"}) => config.authorized

(* The two seeks together reach the start, the first is not before the      *)
(* video, and the decoder never has more than the margin to skip.           *)
SeeksReachStart(start) ==
  /\ CoarseSeek(start) >= 0
  /\ CoarseSeek(start) + ResidualSeek(start) = start
  /\ ResidualSeek(start) \in 0 .. 2
=============================================================================
