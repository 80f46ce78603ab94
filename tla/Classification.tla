--------------------------- MODULE Classification ---------------------------
(***************************************************************************)
(* Stage 3 of dryguard: from the seven signals measured on one pair of     *)
(* functions to EXTRACT-CANDIDATE, DO-NOT-EXTRACT or REVIEW                *)
(* (src/src/classification.rs).                                            *)
(*                                                                         *)
(* Every signal first becomes a lean, and the leans alone decide the       *)
(* verdict.  The state is what one judgement starts from: the signals of   *)
(* the pair, built up as the pipeline builds them (Signals::new, then the  *)
(* declared domains, then what the language servers answered), and the     *)
(* thresholds that the settings and the command line can move.             *)
(*                                                                         *)
(* A similarity is a level of 0..MaxLevel: the decision compares it with a *)
(* threshold and does nothing else with it.  The many reasons why a signal *)
(* could not be measured all lean nowhere; they are the one value Absent.  *)
(***************************************************************************)
EXTENDS Integers

CONSTANTS
  MaxLevel,        \* the similarity 1.0; 0 is 0.0
  CalleeThreshold, \* SHARED_CALLEE_DOMAINS_THRESHOLD
  MaxSteps,        \* bound on the directory steps between two files
  Domains,         \* names declared under [domains]
  Absent           \* a signal not asked for or not measurable; a file no declaration covers

Levels == 0..MaxLevel

(* SEPARATE_DIRECTORY_STEPS *)
SeparateDirectorySteps == 2

ASSUME LevelsAssumption == MaxLevel \in Nat /\ CalleeThreshold \in Levels /\ MaxSteps \in Nat

ASSUME AbsentAssumption ==
  /\ Absent \notin Levels \union Domains
  /\ Absent \notin {"unifiable", "notUnifiable", "noDivergence", "diverged"}

(* DeclaredDomains: what each of the two files is covered by, at least one *)
(* of them by something.                                                   *)
DeclaredDomains == {d \in [a : Domains \union {Absent}, b : Domains \union {Absent}] :
                      d.a # Absent \/ d.b # Absent}

(* The two files are measured by the directory steps between them until a  *)
(* declaration replaces the steps (ModuleSeparation).                      *)
Separations == [steps : 0..MaxSteps, declared : {{}} \union {{d} : d \in DeclaredDomains}]

Overlaps == Levels \union {Absent}

Signals == [structure  : Overlaps,       \* Absent: one of the two has no tokens
            leaves     : {"noDivergence", "diverged", Absent},
            imports    : Overlaps,
            separation : Separations,
            types      : {"unifiable", "notUnifiable", Absent},
            callers    : Overlaps,
            callees    : Overlaps]

(* ConfiguredThresholds: the thresholds that can be moved from outside.    *)
Thresholds == [structure : Levels, imports : Levels, callers : Levels]

Verdicts == {"EXTRACT-CANDIDATE", "DO-NOT-EXTRACT", "REVIEW"}

VARIABLES signals, configured
vars == <<signals, configured>>

-----------------------------------------------------------------------------
(* The leans.                                                              *)

(* Mistake: the two sides of the threshold swapped.                        *)
Slip_SidesSwapped(overlap, threshold) ==
  IF overlap = Absent THEN "neither"
  ELSE IF overlap >= threshold THEN "separate" ELSE "extract"

OverlapLean(overlap, threshold) ==
  IF overlap = Absent THEN "neither"
  ELSE IF overlap >= threshold THEN "extract" ELSE "separate"

IsStructurallySimilar(structure, threshold) ==
  structure # Absent /\ structure >= threshold

LeafLean(leaves) == IF leaves = "diverged" THEN "separate" ELSE "neither"

TypeLean(types) ==
  IF types = "unifiable" THEN "extract"
  ELSE IF types = "notUnifiable" THEN "separate" ELSE "neither"

IsSameDomain(d) == d.a # Absent /\ d.a = d.b

DistanceLean(separation) ==
  IF IF separation.declared = {} THEN separation.steps < SeparateDirectorySteps
                                 ELSE \A d \in separation.declared : IsSameDomain(d)
  THEN "extract" ELSE "separate"

LeansOf(s, t) == [leaves   |-> LeafLean(s.leaves),
                  imports  |-> OverlapLean(s.imports, t.imports),
                  distance |-> DistanceLean(s.separation),
                  types    |-> TypeLean(s.types),
                  callers  |-> OverlapLean(s.callers, t.callers),
                  callees  |-> OverlapLean(s.callees, CalleeThreshold)]

-----------------------------------------------------------------------------
(* From the leans to the verdict.  A domain match is "same", "separate" or *)
(* "undecidable".                                                          *)

(* Where the two are placed: what they import, then how far apart they are.*)
PlacementMatch(leans) ==
  IF leans.imports = "extract" THEN "same"
  ELSE IF leans.imports = "separate" /\ leans.distance = "separate" THEN "separate"
  ELSE "undecidable"

(* What callers and callees say together; "unobserved" if neither leans.   *)
ObservedMatch(leans) ==
  LET observed == {leans.callers, leans.callees} \ {"neither"}
  IN  IF observed = {} THEN "unobserved"
      ELSE IF observed = {"extract"} THEN "same"
      ELSE IF observed = {"separate"} THEN "separate" ELSE "undecidable"

(* Mistake: callers and callees overlaid on the placement one at a time    *)
(* (the form that the doc of observed_domain_match_of argues against).     *)
Slip_OneAtATime(placement, leans) ==
  LET Overlay(match, lean) == IF lean = "neither" THEN match
                              ELSE LET said == IF lean = "extract" THEN "same" ELSE "separate"
                                   IN  IF match \in {said, "undecidable"} THEN said
                                       ELSE "undecidable"
  IN  Overlay(Overlay(placement, leans.callers), leans.callees)

(* The observation refines the placement and never overrules it.           *)
DomainMatch(placement, leans) ==
  LET observed == ObservedMatch(leans)
  IN  IF observed = "unobserved" THEN placement
      ELSE IF placement \in {observed, "undecidable"} THEN observed
      ELSE "undecidable"

(* Mistake: a missing type signature counts for the candidate.             *)
Slip_NoHoverNoMatter(placement) == "EXTRACT-CANDIDATE"

(* Without a type signature only the placement makes a candidate.          *)
Stage1SharedDomainVerdict(placement) ==
  IF placement = "same" THEN "EXTRACT-CANDIDATE" ELSE "REVIEW"

SharedDomainVerdict(leans, placement) ==
  IF leans.leaves = "separate" \/ leans.types = "separate" THEN "REVIEW"
  ELSE IF leans.types = "extract" THEN "EXTRACT-CANDIDATE"
  ELSE Stage1SharedDomainVerdict(placement)

(* Mistake: a pair that is not similar counts as an incidental duplicate.  *)
Slip_DissimilarIsIncidental(similar, leans) ==
  LET placement == PlacementMatch(leans)
      match     == DomainMatch(placement, leans)
  IN  IF similar /\ match = "same" THEN SharedDomainVerdict(leans, placement)
      ELSE IF ~similar \/ match = "separate" THEN "DO-NOT-EXTRACT" ELSE "REVIEW"

VerdictOf(similar, leans) ==
  LET placement == PlacementMatch(leans)
      match     == DomainMatch(placement, leans)
  IN  IF ~similar THEN "REVIEW"
      ELSE IF match = "same" THEN SharedDomainVerdict(leans, placement)
      ELSE IF match = "separate" THEN "DO-NOT-EXTRACT" ELSE "REVIEW"

(* classification_of *)
ClassificationOf(s, t) ==
  VerdictOf(IsStructurallySimilar(s.structure, t.structure), LeansOf(s, t))

-----------------------------------------------------------------------------
(* Signals::new: Stage 2 has not been asked.                               *)
Init ==
  /\ signals \in {s \in Signals : /\ s.separation.declared = {}
                                  /\ <<s.types, s.callers, s.callees>>
                                       = <<Absent, Absent, Absent>>}
  /\ configured \in Thresholds

(* Signals::with_declared_domains *)
WithDeclaredDomains ==
  \E d \in DeclaredDomains :
    /\ signals' = [signals EXCEPT !.separation.declared = {d}]
    /\ UNCHANGED configured

(* Signals::with_semantics and Signals::with_callee_domain_overlap, as the *)
(* pipeline calls them one after the other.                                *)
WithSemantics ==
  \E types \in {"unifiable", "notUnifiable", Absent}, callers, callees \in Overlaps :
    /\ signals' = [signals EXCEPT !.types = types, !.callers = callers, !.callees = callees]
    /\ UNCHANGED configured

(* The with_* setters of ConfiguredThresholds.                             *)
WithThreshold ==
  \E key \in {"structure", "imports", "callers"}, level \in Levels :
    /\ configured' = [configured EXCEPT ![key] = level]
    /\ UNCHANGED signals

Next == WithDeclaredDomains \/ WithSemantics \/ WithThreshold

Spec == Init /\ [][Next]_vars

-----------------------------------------------------------------------------
(* Properties.                                                             *)

verdict == ClassificationOf(signals, configured)

(* The signals are those the builders of Signals can make, and the verdict *)
(* is one of the three labels (classification/signal.rs, verdict.rs).      *)
TypeOK ==
  /\ signals \in Signals
  /\ configured \in Thresholds
  /\ verdict \in Verdicts

(* What the environment can fail to give: unreadable imports and, with no  *)
(* server or a failing one, the three signals of Stage 2.                  *)
Losable == {"imports", "types", "callers", "callees"}

Without(s, lost) == [k \in DOMAIN s |-> IF k \in lost THEN Absent ELSE s[k]]

Opposite == [v \in {"EXTRACT-CANDIDATE", "DO-NOT-EXTRACT"} |->
               IF v = "DO-NOT-EXTRACT" THEN "EXTRACT-CANDIDATE" ELSE "DO-NOT-EXTRACT"]

(* An environment in which some signals cannot be measured (no server, a   *)
(* server that failed, unreadable imports) may judge the pair less firmly, *)
(* but it never gives the opposite advice: whatever set of signals is lost,*)
(* a candidate for extraction does not become DO-NOT-EXTRACT nor the other *)
(* way round (module doc of classification.rs, lost signals lean nowhere). *)
LossNeverReverses ==
  \A lost \in SUBSET Losable : \A v \in DOMAIN Opposite :
    verdict = v => ClassificationOf(Without(signals, lost), configured) # Opposite[v]

Firmness(v) == IF v = "EXTRACT-CANDIDATE" THEN 2 ELSE IF v = "REVIEW" THEN 1 ELSE 0

(* The measurements that say more for keeping the two apart than s[k] does,*)
(* among those that were made.                                             *)
FurtherApart(s, k) ==
  IF s[k] = Absent THEN {}
  ELSE IF k \in {"imports", "callers", "callees"} THEN {l \in Levels : l < s[k]}
  ELSE IF k = "leaves" THEN {"diverged"} ELSE {"notUnifiable"}

FurtherSeparations(separation) ==
  IF separation.declared = {}
  THEN {[separation EXCEPT !.steps = n] : n \in separation.steps..MaxSteps}
  ELSE {[separation EXCEPT !.declared = {d}] : d \in {e \in DeclaredDomains : ~IsSameDomain(e)}}

(* Evidence pulls the verdict its own way: a pair measured to share fewer  *)
(* imports, callers or callees, to lie further apart, to diverge in its    *)
(* leaves or not to unify is never judged closer to extraction than it was *)
(* (the table of signals in the module doc of classification.rs).          *)
EvidencePullsItsWay ==
  /\ \A k \in {"leaves", "imports", "types", "callers", "callees"} :
       \A v \in FurtherApart(signals, k) :
         Firmness(ClassificationOf([signals EXCEPT ![k] = v], configured)) <= Firmness(verdict)
  /\ \A v \in FurtherSeparations(signals.separation) :
       Firmness(ClassificationOf([signals EXCEPT !.separation = v], configured))
         <= Firmness(verdict)

(* A pair whose type signature could not be had is a candidate only if     *)
(* Stage 1 alone makes it one: observed callers and callees do not promote *)
(* it, so an environment that lost only the hover is not the more lenient  *)
(* (doc of stage1_shared_domain_verdict_of).                               *)
ObservationDoesNotPromote ==
  verdict = "EXTRACT-CANDIDATE" /\ signals.types = Absent =>
    ClassificationOf(Without(signals, {"types", "callers", "callees"}), configured)
      = "EXTRACT-CANDIDATE"

(* Raising the structural threshold never makes a claim: a pair that falls *)
(* below it becomes REVIEW and every other verdict stays as it was         *)
(* (doc of verdict_of; --threshold overrides the settings).                *)
StricterStructureClaimsNothing ==
  [][/\ signals' = signals
     /\ configured' = [configured EXCEPT !.structure = configured'.structure]
     /\ configured'.structure >= configured.structure
     => verdict' \in {verdict, "REVIEW"}]_vars

(* What the module doc says of losing signals (classification.rs:61-63):   *)
(* they lean nowhere, and the more of them are lost the more the verdict   *)
(* moves to REVIEW.  So losing signals leaves the verdict or makes it      *)
(* REVIEW.                                                                 *)
LosingSignalsMovesToReview ==
  \A lost \in SUBSET Losable :
    ClassificationOf(Without(signals, lost), configured) \in {verdict, "REVIEW"}

=============================================================================
