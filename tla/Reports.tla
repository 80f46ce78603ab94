------------------------------- MODULE Reports --------------------------------
(* What compare prints of a judged pair: a line for every signal, as text   *)
(* or as JSON, and with --explain also what was not asked for and the       *)
(* thresholds (src/src/report.rs, src/src/report/json.rs; the reasons come  *)
(* from src/src/classification.rs). The two formats are written by hand in  *)
(* two files. A line is what it tells: how the signal came out, which way   *)
(* it leans, what it was held against; the wording is left out.             *)
EXTENDS Comparison

Explanations == {"AskedSignals", "AllSignals"}

Signals == {"structure", "leaves", "imports", "distance", "types", "callers", "callees"}

(* Reason: the signal, its value if there is one, or the cause why there is *)
(* none, its lean and its threshold if it has any.                          *)
Reason(signal, value, lean, held) ==
  [signal |-> signal, value |-> value, lean |-> lean, held |-> held]

NoValue == Absent
Unheld == {}

(* The ways in which a signal may come out (classification/signal.rs).      *)
StructureKinds == {"Measured", "NoTokens"}
LeafKinds == {"NoDivergence", "Diverged", "Unaligned", "NoTokens"}
ImportKinds == {"Measured", "NoDeclaration", "ReboundSpelling", "UnreadableDeclaration"}
SeparationKinds == {"Directories", "Declared"}

(* SemanticsUnavailable *)
Unavailables ==
  {"NotAsked", "NotACandidate", "DocumentUnopenable", "WorkspaceRootUndecidable", "LspUnusable"}

TypeKinds ==
  {"unifiable", "notUnifiable", "NoName"} \cup Unavailables \cup (ToSet(TypeReasons) \ {"Failed"})

CallerKinds ==
  {"Measured", "NoName"} \cup Unavailables \cup (ToSet(CallerReasons) \ {"Failed", "Unreachable"})

CalleeKinds == {"Measured", "NoName"} \cup Unavailables \cup (ToSet(CalleeReasons) \ {"Failed"})

KindsOf == [structure |-> StructureKinds, leaves |-> LeafKinds, imports |-> ImportKinds,
            distance |-> SeparationKinds, types |-> TypeKinds, callers |-> CallerKinds,
            callees |-> CalleeKinds]

(* An exchange that failed is a server that could not be used.              *)

ToldOf(kind) == IF kind \in {"Failed", "Unreachable"} THEN "LspUnusable" ELSE kind

ValueOf(signal) == IF signal.kind = "Measured" THEN signal.overlap ELSE signal.cause

(* reasons_of                                                               *)
ReasonsOf(m, thresholds) ==
  LET judged == Judged(m, thresholds)
      leans == Judge!LeansOf(judged, Crossed)
      similar == Judge!IsStructurallySimilar(judged.structure, Crossed.structure)
      steps == m.separation.declared = {}
  IN  [structure |-> Reason(IF m.structure = Absent THEN "NoTokens" ELSE "Measured", m.structure,
                            IF similar THEN "extract" ELSE "neither", {thresholds.structure}),
       leaves    |-> Reason(m.leaves, NoValue, leans.leaves, Unheld),
       imports   |-> Reason(m.imports.kind, ValueOf(m.imports), leans.imports, {thresholds.imports}),
       distance  |-> Reason(IF steps THEN "Directories" ELSE "Declared",
                            IF steps THEN m.separation.steps ELSE m.separation.declared,
                            leans.distance, {Judge!SeparateDirectorySteps}),
       types     |-> Reason(ToldOf(m.types.kind), ValueOf(m.types), leans.types, Unheld),
       callers   |-> Reason(ToldOf(m.callers.kind), ValueOf(m.callers), leans.callers,
                            {thresholds.callers}),
       callees   |-> Reason(ToldOf(m.callees.kind), ValueOf(m.callees), leans.callees,
                            {SharedCalleeDomainsThreshold})]

(* At most one line is printed of a signal.                                 *)
Says(status, reason, held) ==
  {[status |-> status, signal |-> reason.signal, value |-> reason.value,
    lean |-> reason.lean, held |-> held]}
SaysNothing == {}

-----------------------------------------------------------------------------
(* report.rs: the threshold stands behind the value, where that is written. *)

(* applied_threshold_text_of, applied_steps_text_of                         *)
AppliedText(reason, explanation) ==
  IF explanation = "AskedSignals" THEN Unheld ELSE reason.held

(* structural_similarity_text_of: what --threshold did can always be seen.  *)
StructureText(reason) ==
  IF reason.signal = "Measured" THEN Says("measured", reason, reason.held)
  ELSE Says("unmeasurable", reason, Unheld)

(* leaf_divergence_text_of                                                  *)
LeavesText(reason, explanation) ==
  CASE reason.signal \in {"NoDivergence", "Diverged"} -> Says("measured", reason, Unheld)
    [] reason.signal = "NoTokens" -> Says("unmeasurable", reason, Unheld)
    [] OTHER ->
         IF explanation = "AllSignals" THEN Says("notAsked", reason, Unheld) ELSE SaysNothing

(* import_overlap_text_of                                                   *)
ImportsText(reason, explanation) ==
  IF reason.signal = "Measured" THEN Says("measured", reason, AppliedText(reason, explanation))
  ELSE Says("unmeasurable", reason, Unheld)

(* module_distance_text_of                                                  *)
DistanceText(reason, explanation) ==
  IF reason.signal = "Directories" THEN Says("measured", reason, AppliedText(reason, explanation))
  ELSE Says("measured", reason, Unheld)

(* semantics_unavailable_text_of                                            *)
UnavailableText(reason, explanation) ==
  CASE reason.signal = "NotAsked" ->
         IF explanation = "AllSignals" THEN Says("notAsked", reason, Unheld) ELSE SaysNothing
    [] reason.signal = "NotACandidate" -> Says("notAsked", reason, Unheld)
    [] OTHER -> Says("unmeasurable", reason, Unheld)

(* type_signature_text_of                                                   *)
TypesText(reason, explanation) ==
  CASE reason.signal \in {"unifiable", "notUnifiable"} -> Says("measured", reason, Unheld)
    [] reason.signal \in Unavailables -> UnavailableText(reason, explanation)
    [] OTHER -> Says("unmeasurable", reason, Unheld)

(* caller_domain_overlap_text_of, callee_domain_overlap_text_of             *)
DomainsText(reason, explanation) ==
  CASE reason.signal = "Measured" -> Says("measured", reason, AppliedText(reason, explanation))
    [] reason.signal \in Unavailables -> UnavailableText(reason, explanation)
    [] OTHER -> Says("unmeasurable", reason, Unheld)

(* text_of                                                                  *)
PairText(reasons, explanation) ==
  [structure |-> StructureText(reasons.structure),
   leaves    |-> LeavesText(reasons.leaves, explanation),
   imports   |-> ImportsText(reasons.imports, explanation),
   distance  |-> DistanceText(reasons.distance, explanation),
   types     |-> TypesText(reasons.types, explanation),
   callers   |-> DomainsText(reasons.callers, explanation),
   callees   |-> DomainsText(reasons.callees, explanation)]

-----------------------------------------------------------------------------
(* report/json.rs: first the value with its status, or none; the threshold  *)
(* is added to what has become of the value.                                *)
Valued(status) == {status}
NoStatus == {}

OverlapStatus(kind) == Valued(IF kind = "Measured" THEN "measured" ELSE "unmeasurable")

(* leaf_divergence_value_of                                                 *)
LeavesStatus(kind, explanation) ==
  IF kind = "Unaligned"
  THEN IF explanation = "AllSignals" THEN Valued("notAsked") ELSE NoStatus
  ELSE Valued(IF kind = "NoTokens" THEN "unmeasurable" ELSE "measured")

(* Mistake: what keeps a pair from being asked about is left out, too.      *)
Slip_UnavailableStatus(reason, explanation) ==
  IF reason \in {"NotAsked", "NotACandidate"}
  THEN IF explanation = "AllSignals" THEN Valued("notAsked") ELSE NoStatus
  ELSE Valued("unmeasurable")

(* semantics_unavailable_value_of                                           *)
UnavailableStatus(reason, explanation) ==
  IF reason = "NotAsked" /\ explanation = "AskedSignals" THEN NoStatus
  ELSE Valued(IF reason \in {"NotAsked", "NotACandidate"} THEN "notAsked" ELSE "unmeasurable")

(* type_signature_value_of                                                  *)
TypesStatus(kind, explanation) ==
  CASE kind \in Unavailables -> UnavailableStatus(kind, explanation)
    [] kind \in {"unifiable", "notUnifiable"} -> Valued("measured")
    [] OTHER -> Valued("unmeasurable")

(* caller_domain_value_of, callee_domain_value_of                           *)
DomainsStatus(kind, explanation) ==
  IF kind \in Unavailables THEN UnavailableStatus(kind, explanation) ELSE OverlapStatus(kind)

(* measured_threshold_of                                                    *)
MeasuredHeld(statuses, held) == IF statuses = Valued("measured") THEN held ELSE Unheld

(* explained_threshold_of                                                   *)
ExplainedHeld(statuses, held, explanation) ==
  IF explanation = "AllSignals" THEN MeasuredHeld(statuses, held) ELSE Unheld

(* explained_steps_of                                                       *)
ExplainedSteps(reason, explanation) ==
  IF explanation = "AllSignals" /\ reason.signal = "Directories" THEN reason.held ELSE Unheld

(* signal_value_of                                                          *)
SignalJson(statuses, reason, held) == UNION {Says(status, reason, held) : status \in statuses}

OverlapJson(statuses, reason, explanation) ==
  SignalJson(statuses, reason, ExplainedHeld(statuses, reason.held, explanation))

(* json_of, reason_value_of                                                 *)
PairJson(reasons, explanation) ==
  LET overlap(kind) == OverlapStatus(kind)
      domains(kind) == DomainsStatus(kind, explanation)
      structure == overlap(reasons.structure.signal)
      leaves == LeavesStatus(reasons.leaves.signal, explanation)
      types == TypesStatus(reasons.types.signal, explanation)
  IN  [structure |-> SignalJson(structure, reasons.structure,
                                MeasuredHeld(structure, reasons.structure.held)),
       leaves    |-> SignalJson(leaves, reasons.leaves, Unheld),
       imports   |-> OverlapJson(overlap(reasons.imports.signal), reasons.imports, explanation),
       distance  |-> SignalJson(Valued("measured"), reasons.distance,
                                ExplainedSteps(reasons.distance, explanation)),
       types     |-> SignalJson(types, reasons.types, Unheld),
       callers   |-> OverlapJson(domains(reasons.callers.signal), reasons.callers, explanation),
       callees   |-> OverlapJson(domains(reasons.callees.signal), reasons.callees, explanation)]

-----------------------------------------------------------------------------
(* Properties.                                                              *)

(* Nothing is told in one format and kept back in the other.                *)
FormatsAgree(reasons) ==
  \A explanation \in Explanations : PairText(reasons, explanation) = PairJson(reasons, explanation)

(* What --explain adds is what was not asked for, and thresholds.           *)
WithoutHeld(line) == [line EXCEPT !.held = Unheld]

ExplainOnlyAdds(reasons) ==
  LET brief == PairText(reasons, "AskedSignals")
      full == PairText(reasons, "AllSignals")
  IN  \A s \in Signals :
        /\ \A line \in brief[s] : \E more \in full[s] : WithoutHeld(more) = WithoutHeld(line)
        /\ \A line \in full[s] : brief[s] = {} => line.status = "notAsked"

(* The verdict, worked out again by somebody who has nothing but the lines: *)
(* a signal of which there is no line does not lean.                        *)
LeanToldOf(lines) == IF lines = {} THEN "neither" ELSE (CHOOSE line \in lines : TRUE).lean

ToldVerdict(told) ==
  Judge!VerdictOf(LeanToldOf(told.structure) = "extract",
                  [s \in Signals \ {"structure"} |-> LeanToldOf(told[s])])

(* With the thresholds, the leans can be checked, too.                      *)
Bears(line) ==
  line.status = "measured" /\ line.held # Unheld =>
    \A held \in line.held :
      line.lean = "extract" <=>
        IF line.signal = "Directories" THEN line.value < held ELSE AtLeast(line.value, held)

ShowsWhy(m, thresholds) ==
  LET reasons == ReasonsOf(m, thresholds)
  IN  /\ FormatsAgree(reasons) /\ ExplainOnlyAdds(reasons)
      /\ \A explanation \in Explanations :
           LET told == PairText(reasons, explanation)
           IN  /\ ToldVerdict(told) = VerdictOf(m, thresholds)
               /\ \A s \in Signals : \A line \in told[s] : Bears(line)

(* The report shows why the verdict is what it is: both formats tell the    *)
(* same, leave nothing out that leans either way, and with --explain the    *)
(* leans follow from the values and the thresholds next to them (Reason in  *)
(* classification/reason.rs, Explanation in report.rs, json_of in json.rs). *)
(* And whatever happens to a pair, there is a word for it.                  *)
ReportShowsWhy ==
  stage = Turn("report") =>
    /\ ShowsWhy(MeasuredPair, settings.thresholds)
    /\ LET reasons == ReasonsOf(MeasuredPair, settings.thresholds)
       IN  \A s \in Signals : reasons[s].signal \in KindsOf[s]

-----------------------------------------------------------------------------
(* What there is a word for, of what comes back for a question.             *)
CallersReplies == {"Answered", "NoAnswer", "Unreadable", "ServerStillWorking", "NotSupported"}
CalleesReplies ==
  {"Answered", "NoItem", "SeveralItems", "NoCallees", "Unreadable", "ServerStillWorking", "NotSupported"}

IsAnAnswer(answer, reasons, replies) ==
  answer.kind \in ToSet(reasons) \/ (answer.kind = "Asked" /\ answer.said.kind \in replies)

HasAWord(q, answer) ==
  /\ q = "types" => answer.kind = "Normalized" \/ ReportedReason(answer) \in ToSet(TypeReasons)
  /\ q = "membership" => answer.kind \in MembershipKinds \ {"Unasked"}
  /\ q = "callers" => IsAnAnswer(answer, CallerReasons, CallersReplies)
  /\ q = "callees" => IsAnAnswer(answer, CalleeReasons, CalleesReplies)

(* The inductive invariant behind it: who is asked reads the languages of   *)
(* both functions, whose files can be shown to it, and for all that came    *)
(* back, and for what kept the rest from being asked, there is a word.      *)
WordsInStep ==
  /\ server \in DOMAIN Servers /\ setup \in {"none", "NoName"} \cup Unavailables
  /\ stage \in {Turn("prepare")} \cup {Course[i] : i \in 1..10} =>
       \A s \in Sides : Supports(Servers[server].language, pair[s].grammar)
  /\ stage \in {Course[i] : i \in 1..10} => \A s \in Sides : pair[s].openable
  /\ \A i \in Asking : setup = "none" /\ stage \in Beyond(i) => HasAWord(Course[i][1], AnswerAt(i))
=============================================================================
