----------------------------- MODULE Algorithms -----------------------------
(***************************************************************************)
(* The parts of the backend that keep no state, asked one question each:   *)
(* the only step picks an input, and the properties are said of what it    *)
(* picked.                                                                 *)
(***************************************************************************)
EXTENDS ClipAnalysis, ClipCommand, CostGuard

CONSTANTS
  Steps,      \* processing steps of a foreign document
  MaxSteps,   \* bound: their number in one document
  RawClips,   \* clips of a native document, before validation
  MaxClips,   \* bound: their number in one document
  Versions,   \* what a document can say of its version
  Lengths,    \* lengths of videos, in tenths of seconds
  Wanted,     \* sets of clip ids that a job is created with
  Starts,     \* where clips begin, in seconds
  MaxRows     \* bound: rows of one platform, and the times of their updates

ASSUME AlgorithmsAssumption ==
  /\ Steps \subseteq Step
  /\ \A step \in Steps : IsTrim(step) => step.note = ""
  /\ RawClips \subseteq RawClip
  /\ Versions \subseteq STRING /\ Lengths \subseteq Int /\ Starts \subseteq Nat
  /\ {MaxSteps, MaxClips, MaxRows} \subseteq Nat

VARIABLE case

Accounts(platform) ==
  BoundedSeq([status : StatusesOf(platform), updated : 0 .. MaxRows, extra : {ExtraOf(platform)},
              readable : BOOLEAN, age : Ages], MaxRows)

Documents == [version : Versions, complete : BOOLEAN, clips : BoundedSeq(RawClips, MaxClips)]

-----------------------------------------------------------------------------
Init == case = [kind |-> "none"]

PickSteps ==
  \E steps \in BoundedSeq(Steps, MaxSteps) : case' = [kind |-> "foreign", steps |-> steps]

PickDocument ==
  \E doc \in Documents, tenths \in Lengths, wanted \in Wanted :
     case' = [kind |-> "native", doc |-> doc, tenths |-> tenths, wanted |-> wanted]

PickCommand ==
  \E config \in Configs, found \in BOOLEAN, start \in Starts :
     case' = [kind |-> "command", config |-> config, found |-> found, start |-> start]

PickAccounts ==
  \E platform \in Platforms, settings \in Settings : \E accounts \in Accounts(platform) :
     case' = [kind |-> "accounts", platform |-> platform, settings |-> settings, accounts |-> accounts]

Next == case.kind = "none" /\ (PickSteps \/ PickDocument \/ PickCommand \/ PickAccounts)

Spec == Init /\ [][Next]_case

-----------------------------------------------------------------------------
(* The properties of the modules, said of the input picked. *)
(* _translate_processing_steps loses and invents nothing. *)
ForeignIsFaithful == case.kind = "foreign" => TranslationIsFaithful(case.steps)

(* What validate_analysis_json accepts and the routes select can be cut. *)
NativeIsCuttable ==
  case.kind = "native" => AcceptedIsCuttable(case.doc, case.tenths, case.wanted)

(* The command build_ffmpeg_args makes is one ffmpeg can run. *)
CommandIsSound ==
  case.kind = "command" => GraphIsWired(case.config, case.found) /\ SeeksReachStart(case.start)

(* The capability report agrees with what worker and provider ask for. *)
ReportAgrees ==
  case.kind = "accounts" => ReportIsWorthTrying(case.platform, case.settings, case.accounts)
=============================================================================
