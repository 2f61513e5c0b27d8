---------------------------- MODULE ClipAnalysis ----------------------------
(***************************************************************************)
(* From the submitted JSON to clips that can be cut: json_validation/,     *)
(* schemas/analysis.py, timecode.py.  No state: each definition is a       *)
(* function of a document.                                                 *)
(*                                                                         *)
(* A native document is [version, complete, clips]; a raw clip is          *)
(* [id, complete, typed, start, end].  A foreign one is a sequence of      *)
(* processing steps.  A time is [h, m, s], or Malformed, or Missing.       *)
(***************************************************************************)
EXTENDS Integers, Sequences, FiniteSets, SequencesExt

Malformed == [h |-> -1, m |-> -1, s |-> -1]
Missing == [h |-> -2, m |-> -2, s |-> -2]
Time == [h : Nat, m : 0 .. 59, s : 0 .. 59]

RawClip == [id : Int, rank : Int, notes : Seq(STRING), complete : BOOLEAN, typed : BOOLEAN,
            start : Time \cup {Malformed}, end : Time \cup {Malformed}]

Step == [action : STRING, number : Int, start : Time \cup {Malformed, Missing},
         end : Time \cup {Malformed, Missing}, note : STRING]

(* The elements of s at the places in N, in their order: SelectSeq, written *)
(* as a function whose values a proof can speak of.                         *)
Where(s, N) ==
  LET kept[n \in 0 .. Len(s)] ==
        IF n = 0 THEN <<>>
        ELSE IF n \in N THEN Append(kept[n - 1], s[n]) ELSE kept[n - 1]
  IN kept[Len(s)]

(* Mutant: minutes counted as hours are. *)
ParseTimecodeSwapped(t) == t.h * 3600 + t.m + t.s * 60

(* parse_timecode of a string HH:MM:SS; MM and SS are below 60.             *)
ParseTimecode(t) == t.h * 3600 + t.m * 60 + t.s

(* format_timecode; round() takes a half to the even second.                *)
FormatTimecode(tenths) ==
  LET whole == tenths \div 10
      total == whole + IF tenths % 10 > 5 \/ (tenths % 10 = 5 /\ whole % 2 = 1) THEN 1 ELSE 0
  IN [h |-> total \div 3600, m |-> (total % 3600) \div 60, s |-> total % 60]

Error(code) == [ok |-> FALSE, error |-> code, clips |-> <<>>]
Accepted(clips) == [ok |-> TRUE, error |-> "", clips |-> clips]

-----------------------------------------------------------------------------
(* Native documents. *)

(* validate_clip_range *)
RangeIsValid(raw) ==
  /\ raw.start # Malformed /\ raw.end # Malformed
  /\ ParseTimecode(raw.end) > ParseTimecode(raw.start)

ValidatedClip(raw) ==
  [id |-> raw.id, rank |-> raw.rank, notes |-> raw.notes,
   start |-> ParseTimecode(raw.start), end |-> ParseTimecode(raw.end),
   duration |-> ParseTimecode(raw.end) - ParseTimecode(raw.start)]

(* parse_and_check_shape *)
ShapeError(doc) ==
  ~ doc.complete \/ doc.version = "absent" \/ doc.clips = <<>>
    \/ \E n \in DOMAIN doc.clips : ~ doc.clips[n].complete

IdsDiffer(clips) == IsInjective([n \in DOMAIN clips |-> clips[n].id])

(* v1_0.validate, the checks in their order.                                *)
ValidateV1(doc) ==
  IF ShapeError(doc) THEN Error("MISSING_REQUIRED_FIELD")
  ELSE IF \E n \in DOMAIN doc.clips : ~ doc.clips[n].typed THEN Error("INVALID_SCHEMA")
  ELSE IF ~ IdsDiffer(doc.clips) THEN Error("DUPLICATE_CLIP_ID")
  ELSE IF \E n \in DOMAIN doc.clips : ~ RangeIsValid(doc.clips[n]) THEN Error("INVALID_TIMESTAMP")
  ELSE Accepted([n \in DOMAIN doc.clips |-> ValidatedClip(doc.clips[n])])

(* validate_analysis_json, after the translation.                           *)
ValidateNative(doc) ==
  IF doc.version \in {"absent", "null"} /\ ShapeError(doc) THEN Error("MISSING_REQUIRED_FIELD")
  ELSE IF doc.version # "1.0" THEN Error("UNSUPPORTED_SCHEMA_VERSION")
  ELSE ValidateV1(doc)

-----------------------------------------------------------------------------
(* Foreign documents: a step is [action, number, start, end, note], number  *)
(* 0 when it has none, note "" when nothing is to be said about it.         *)
IsTrim(step) == step.action = "trim"
HasTimes(step) == step.start # Missing /\ step.end # Missing

StepClip(step, before, notes) ==
  [id |-> IF step.number = 0 THEN before + 1 ELSE step.number, rank |-> before + 1,
   start |-> step.start, end |-> step.end, notes |-> notes,
   complete |-> TRUE, typed |-> TRUE]

(* Mutant: the notes are not cleared after the clip that got them. *)
TakeStepNotesKept(acc, step) ==
  IF ~ IsTrim(step)
    THEN IF step.note = "" THEN acc ELSE [acc EXCEPT !.notes = Append(@, step.note)]
  ELSE IF ~ HasTimes(step) THEN acc
  ELSE [acc EXCEPT !.clips = Append(@, StepClip(step, Len(@), acc.notes))]

(* One iteration of the loop of _translate_processing_steps.                *)
TakeStep(acc, step) ==
  IF ~ IsTrim(step)
    THEN IF step.note = "" THEN acc ELSE [acc EXCEPT !.notes = Append(@, step.note)]
  ELSE IF ~ HasTimes(step) THEN acc
  ELSE [clips |-> Append(acc.clips, StepClip(step, Len(acc.clips), acc.notes)), notes |-> <<>>]

(* What is left over goes to the last clip. *)
AttachRest(acc) ==
  IF acc.clips = <<>> THEN acc.clips
  ELSE [acc.clips EXCEPT ![Len(acc.clips)].notes = @ \o acc.notes]

TranslateSteps(steps) ==
  [version |-> "1.0", complete |-> TRUE,
   clips |-> AttachRest(FoldLeft(TakeStep, [clips |-> <<>>, notes |-> <<>>], steps))]

(* Python writes the times as they came: a malformed one is refused later.  *)
ValidateForeign(steps) == ValidateNative(TranslateSteps(steps))

-----------------------------------------------------------------------------
(* Selection. *)

(* check_clip_within_video; the length of the video is in tenths of seconds. *)
WithinVideo(clip, tenths) == clip.start >= 0 /\ clip.end * 10 <= tenths

(* generate_and_queue takes the clips inside the video, create_job of       *)
(* routes_jobs.py those that are named, in the order of the document.       *)
SelectInside(clips, tenths) == Where(clips, {n \in DOMAIN clips : WithinVideo(clips[n], tenths)})
SelectNamed(clips, wanted) == Where(clips, {n \in DOMAIN clips : clips[n].id \in wanted})

-----------------------------------------------------------------------------
(* Properties *)

Notes(steps) ==
  Where([n \in DOMAIN steps |-> steps[n].note], {n \in DOMAIN steps : steps[n].note # ""})

CutSteps(steps) ==
  Where(steps, {n \in DOMAIN steps : IsTrim(steps[n]) /\ HasTimes(steps[n])})

(* foreign_formats.py:71-107 treats it clip by clip: a note goes to the clip *)
(* that follows it, the rest to the last.  Said of the whole document: the  *)
(* clips are the trim steps that have times, in their order and ranked so;  *)
(* the notes of the clips one after the other are the notes of the document, *)
(* none lost, repeated or out of order; and when the tool numbers none of   *)
(* its steps, the names made up here never clash, so that what can be cut   *)
(* is accepted.                                                             *)
TranslationIsFaithful(steps) ==
  LET clips == TranslateSteps(steps).clips
      cut == CutSteps(steps)
  IN /\ Len(clips) = Len(cut)
     /\ \A n \in DOMAIN cut :
          clips[n].start = cut[n].start /\ clips[n].end = cut[n].end /\ clips[n].rank = n
     /\ cut # <<>> => FlattenSeq([n \in DOMAIN clips |-> clips[n].notes]) = Notes(steps)
     /\ cut # <<>> /\ (\A n \in DOMAIN cut : cut[n].number = 0 /\ RangeIsValid(cut[n])) =>
          ValidateForeign(steps).ok

(* What is accepted can be cut: the ids name one clip each, all clips of    *)
(* the document are there in its order, each is a range of times that reads *)
(* back as it was written, and what is selected lies inside the video and   *)
(* keeps the order, by whatever route it was selected.                      *)
AcceptedIsCuttable(doc, tenths, wanted) ==
  LET result == ValidateNative(doc)
      clips == result.clips
      inside == SelectInside(clips, tenths)
  IN result.ok =>
       /\ Len(clips) = Len(doc.clips)
       /\ Cardinality({clips[n].id : n \in DOMAIN clips}) = Len(clips)
       /\ \A n \in DOMAIN clips :
            /\ clips[n].start < clips[n].end
            /\ FormatTimecode(10 * clips[n].start) = doc.clips[n].start
            /\ FormatTimecode(10 * clips[n].end) = doc.clips[n].end
       /\ \A n \in DOMAIN inside : inside[n].end * 10 <= tenths
       /\ SelectNamed(inside, wanted) = SelectInside(SelectNamed(clips, wanted), tenths)
=============================================================================
