------------------------ MODULE ClassificationProofs ------------------------
(***************************************************************************)
(* What Classification promises, for every number of levels, every         *)
(* threshold and every set of declared domains.                            *)
(*                                                                         *)
(* The verdict sees the signals only through their leans, so each theorem  *)
(* is a lemma on leans (a finite case analysis) and the fact that the      *)
(* change of the signals it speaks of changes the leans in a certain way.  *)
(***************************************************************************)
EXTENDS Classification, TLAPS

Lean == {"extract", "separate", "neither"}

Leans == [leaves : Lean, imports : Lean, distance : Lean, types : Lean,
          callers : Lean, callees : Lean]

(* The placement, the observation and their combination are domain matches.*)
LEMMA MatchTypes ==
  ASSUME NEW l \in Leans
  PROVE  /\ PlacementMatch(l) \in {"same", "separate", "undecidable"}
         /\ DomainMatch(PlacementMatch(l), l) \in {"same", "separate", "undecidable"}
BY DEF PlacementMatch, DomainMatch, ObservedMatch

(* ObservedMatch without its set of leans, for the case analyses below.    *)
LEMMA ObservedCases ==
  ASSUME NEW l \in Leans
  PROVE  /\ l.callers = "neither" /\ l.callees = "neither" => ObservedMatch(l) = "unobserved"
         /\ l.callers = "extract" /\ l.callees # "separate" => ObservedMatch(l) = "same"
         /\ l.callees = "extract" /\ l.callers # "separate" => ObservedMatch(l) = "same"
         /\ l.callers = "separate" /\ l.callees # "extract" => ObservedMatch(l) = "separate"
         /\ l.callees = "separate" /\ l.callers # "extract" => ObservedMatch(l) = "separate"
         /\ l.callers = "extract" /\ l.callees = "separate" => ObservedMatch(l) = "undecidable"
         /\ l.callers = "separate" /\ l.callees = "extract" => ObservedMatch(l) = "undecidable"
BY DEF ObservedMatch, Leans, Lean

LEMMA VerdictTypes ==
  ASSUME NEW l \in Leans, NEW similar \in BOOLEAN
  PROVE  VerdictOf(similar, l) \in Verdicts
BY DEF VerdictOf, SharedDomainVerdict, Stage1SharedDomainVerdict, Verdicts

LEMMA LeansAreLeans ==
  ASSUME NEW s \in Signals, NEW t \in Thresholds
  PROVE  LeansOf(s, t) \in Leans
BY DEF LeansOf, LeafLean, OverlapLean, DistanceLean, TypeLean, Leans, Lean

(* However many leans are lost, a pair's verdict is not reversed: the      *)
(* placement and the observation cannot be lost on one side and gained on  *)
(* the other.                                                              *)
LEMMA LeanLoss ==
  ASSUME NEW l \in Leans, NEW m \in Leans, NEW similar \in BOOLEAN,
         m.leaves = l.leaves, m.distance = l.distance,
         m.imports \in {l.imports, "neither"}, m.types \in {l.types, "neither"},
         m.callers \in {l.callers, "neither"}, m.callees \in {l.callees, "neither"}
  PROVE  /\ VerdictOf(similar, l) = "EXTRACT-CANDIDATE" => VerdictOf(similar, m) # "DO-NOT-EXTRACT"
         /\ VerdictOf(similar, l) = "DO-NOT-EXTRACT" => VerdictOf(similar, m) # "EXTRACT-CANDIDATE"
<1>1. /\ l.imports \in Lean /\ l.callers \in Lean /\ l.callees \in Lean /\ l.distance \in Lean
  BY DEF Leans
<1>2. VerdictOf(similar, l) = "EXTRACT-CANDIDATE" =>
        /\ DomainMatch(PlacementMatch(l), l) = "same"
        /\ similar
  BY DEF VerdictOf
<1>3. VerdictOf(similar, l) = "DO-NOT-EXTRACT" =>
        DomainMatch(PlacementMatch(l), l) = "separate"
  BY DEF VerdictOf, SharedDomainVerdict, Stage1SharedDomainVerdict
<1>4. VerdictOf(similar, m) = "EXTRACT-CANDIDATE" => DomainMatch(PlacementMatch(m), m) = "same"
  BY DEF VerdictOf
<1>5. VerdictOf(similar, m) = "DO-NOT-EXTRACT" => DomainMatch(PlacementMatch(m), m) = "separate"
  BY DEF VerdictOf, SharedDomainVerdict, Stage1SharedDomainVerdict
<1>6. DomainMatch(PlacementMatch(l), l) = "same" => DomainMatch(PlacementMatch(m), m) # "separate"
  BY <1>1, ObservedCases DEF DomainMatch, PlacementMatch, Lean
<1>7. DomainMatch(PlacementMatch(l), l) = "separate" => DomainMatch(PlacementMatch(m), m) # "same"
  BY <1>1, ObservedCases DEF DomainMatch, PlacementMatch, Lean
<1> QED BY <1>2, <1>3, <1>4, <1>5, <1>6, <1>7

(* A pair some of whose leans move to the side of keeping apart is judged  *)
(* no closer to extraction.                                                *)
LEMMA LeanMonotone ==
  ASSUME NEW l \in Leans, NEW m \in Leans, NEW similar \in BOOLEAN,
         m.leaves \in {l.leaves, "separate"}, m.distance \in {l.distance, "separate"},
         m.imports \in {l.imports, "separate"}, m.types \in {l.types, "separate"},
         m.callers \in {l.callers, "separate"}, m.callees \in {l.callees, "separate"}
  PROVE  Firmness(VerdictOf(similar, m)) <= Firmness(VerdictOf(similar, l))
<1>1. /\ l.imports \in Lean /\ l.callers \in Lean /\ l.callees \in Lean /\ l.distance \in Lean
      /\ l.types \in Lean /\ l.leaves \in Lean
  BY DEF Leans
<1>2. PlacementMatch(m) = "same" => PlacementMatch(l) = "same"
  BY <1>1 DEF PlacementMatch, Lean
<1>3. DomainMatch(PlacementMatch(m), m) = "same" => DomainMatch(PlacementMatch(l), l) = "same"
  BY <1>1, ObservedCases DEF DomainMatch, PlacementMatch, Lean
<1>4. DomainMatch(PlacementMatch(l), l) = "separate" =>
        DomainMatch(PlacementMatch(m), m) = "separate"
  BY <1>1, ObservedCases DEF DomainMatch, PlacementMatch, Lean
<1>5. SharedDomainVerdict(m, PlacementMatch(m)) = "EXTRACT-CANDIDATE" =>
        SharedDomainVerdict(l, PlacementMatch(l)) = "EXTRACT-CANDIDATE"
  BY <1>1, <1>2 DEF SharedDomainVerdict, Stage1SharedDomainVerdict, Lean
<1>6. /\ SharedDomainVerdict(m, PlacementMatch(m)) \in {"EXTRACT-CANDIDATE", "REVIEW"}
      /\ SharedDomainVerdict(l, PlacementMatch(l)) \in {"EXTRACT-CANDIDATE", "REVIEW"}
  BY DEF SharedDomainVerdict, Stage1SharedDomainVerdict
<1> QED BY <1>3, <1>4, <1>5, <1>6, MatchTypes DEF VerdictOf, Firmness

-----------------------------------------------------------------------------
(* What the changes of the signals do to the leans.                        *)

LEMMA LossOfSignals ==
  ASSUME NEW s \in Signals, NEW t \in Thresholds, NEW lost \in SUBSET Losable
  PROVE  /\ Without(s, lost) \in Signals
         /\ Without(s, lost).structure = s.structure
         /\ LeansOf(Without(s, lost), t).leaves = LeansOf(s, t).leaves
         /\ LeansOf(Without(s, lost), t).distance = LeansOf(s, t).distance
         /\ \A k \in Losable : LeansOf(Without(s, lost), t)[k]
                                = IF k \in lost THEN "neither" ELSE LeansOf(s, t)[k]
<1> DEFINE w == Without(s, lost)
<1>1. /\ w.structure = s.structure /\ w.leaves = s.leaves /\ w.separation = s.separation
      /\ w.imports = (IF "imports" \in lost THEN Absent ELSE s.imports)
      /\ w.types = (IF "types" \in lost THEN Absent ELSE s.types)
      /\ w.callers = (IF "callers" \in lost THEN Absent ELSE s.callers)
      /\ w.callees = (IF "callees" \in lost THEN Absent ELSE s.callees)
  BY DEF Without, Signals, Losable
<1>2. w \in Signals
  BY <1>1 DEF Without, Signals, Overlaps
<1>3. TypeLean(Absent) = "neither"
  BY AbsentAssumption DEF TypeLean
<1> HIDE DEF w
<1>4. \A k \in Losable : LeansOf(w, t)[k] = IF k \in lost THEN "neither" ELSE LeansOf(s, t)[k]
  BY <1>1, <1>3 DEF LeansOf, Losable, OverlapLean
<1>5. LeansOf(w, t).leaves = LeansOf(s, t).leaves /\ LeansOf(w, t).distance = LeansOf(s, t).distance
  BY <1>1 DEF LeansOf
<1> QED BY <1>1, <1>2, <1>4, <1>5 DEF w

(* A lower overlap leans where the higher one did or to keeping apart.     *)
LEMMA LowerOverlap ==
  ASSUME NEW x \in Levels, NEW y \in Levels, y < x, NEW threshold \in Levels
  PROVE  OverlapLean(y, threshold) \in {OverlapLean(x, threshold), "separate"}
BY LevelsAssumption, AbsentAssumption DEF OverlapLean, Levels

LEMMA FurtherMeasurement ==
  ASSUME NEW s \in Signals, NEW t \in Thresholds,
         NEW k \in {"leaves", "imports", "types", "callers", "callees"},
         NEW v \in FurtherApart(s, k)
  PROVE  LET m == LeansOf([s EXCEPT ![k] = v], t)
             l == LeansOf(s, t)
         IN  /\ [s EXCEPT ![k] = v] \in Signals
             /\ m \in Leans
             /\ m.leaves \in {l.leaves, "separate"} /\ m.distance \in {l.distance, "separate"}
             /\ m.imports \in {l.imports, "separate"} /\ m.types \in {l.types, "separate"}
             /\ m.callers \in {l.callers, "separate"} /\ m.callees \in {l.callees, "separate"}
<1>1. CASE k = "leaves"
  <2>1. v = "diverged"
    BY <1>1 DEF FurtherApart
  <2>2. [s EXCEPT ![k] = v] \in Signals
    BY <1>1, <2>1 DEF Signals
  <2> QED BY <1>1, <2>1, <2>2, LeansAreLeans DEF LeansOf, Signals, LeafLean
<1>2. CASE k = "types"
  <2>1. v = "notUnifiable"
    BY <1>2 DEF FurtherApart
  <2>2. [s EXCEPT ![k] = v] \in Signals
    BY <1>2, <2>1 DEF Signals
  <2> QED BY <1>2, <2>1, <2>2, LeansAreLeans DEF LeansOf, Signals, TypeLean
<1>3. CASE k \in {"imports", "callers", "callees"}
  <2>1. s[k] \in Levels /\ v \in Levels /\ v < s[k]
    BY <1>3 DEF FurtherApart, Signals, Overlaps
  <2>2. [s EXCEPT ![k] = v] \in Signals
    BY <1>3, <2>1 DEF Signals, Overlaps
  <2>3. /\ OverlapLean(v, t.imports) \in {OverlapLean(s[k], t.imports), "separate"}
        /\ OverlapLean(v, t.callers) \in {OverlapLean(s[k], t.callers), "separate"}
        /\ OverlapLean(v, CalleeThreshold) \in {OverlapLean(s[k], CalleeThreshold), "separate"}
    BY <2>1, LowerOverlap, LevelsAssumption DEF Thresholds
  <2>4. CASE k = "imports"
    BY <2>2, <2>3, <2>4, LeansAreLeans DEF LeansOf, Signals
  <2>5. CASE k = "callers"
    BY <2>2, <2>3, <2>5, LeansAreLeans DEF LeansOf, Signals
  <2>6. CASE k = "callees"
    BY <2>2, <2>3, <2>6, LeansAreLeans DEF LeansOf, Signals
  <2> QED BY <1>3, <2>4, <2>5, <2>6
<1> QED BY <1>1, <1>2, <1>3

LEMMA FurtherSeparation ==
  ASSUME NEW s \in Signals, NEW t \in Thresholds, NEW v \in FurtherSeparations(s.separation)
  PROVE  LET m == LeansOf([s EXCEPT !.separation = v], t)
             l == LeansOf(s, t)
         IN  /\ m \in Leans
             /\ m.distance \in {l.distance, "separate"}
             /\ m.leaves = l.leaves /\ m.imports = l.imports /\ m.types = l.types
             /\ m.callers = l.callers /\ m.callees = l.callees
<1>1. s.separation \in Separations
  BY DEF Signals
<1>2. /\ v \in Separations
      /\ DistanceLean(v) \in {DistanceLean(s.separation), "separate"}
  <2>1. CASE s.separation.declared = {}
    <3>1. PICK n \in s.separation.steps..MaxSteps : v = [s.separation EXCEPT !.steps = n]
      BY <2>1 DEF FurtherSeparations
    <3>2. n \in 0..MaxSteps /\ s.separation.steps \in 0..MaxSteps /\ n >= s.separation.steps
      BY <1>1, LevelsAssumption DEF Separations
    <3>3. v.declared = {} /\ v.steps = n
      BY <1>1, <2>1, <3>1 DEF Separations
    <3>4. v \in Separations
      BY <1>1, <3>1, <3>2 DEF Separations
    <3> QED BY <2>1, <3>2, <3>3, <3>4 DEF DistanceLean, SeparateDirectorySteps
  <2>2. CASE s.separation.declared # {}
    <3>1. PICK d \in DeclaredDomains : ~IsSameDomain(d) /\ v = [s.separation EXCEPT !.declared = {d}]
      BY <2>2 DEF FurtherSeparations
    <3>2. v.declared = {d} /\ v \in Separations
      BY <1>1, <3>1 DEF Separations
    <3> QED BY <3>1, <3>2 DEF DistanceLean
  <2> QED BY <2>1, <2>2
<1>3. [s EXCEPT !.separation = v] \in Signals
  BY <1>2 DEF Signals
<1> QED BY <1>2, <1>3, LeansAreLeans DEF LeansOf, Signals

-----------------------------------------------------------------------------
(* The theorems of the specification.                                      *)

LEMMA SimilarIsBoolean ==
  ASSUME NEW s \in Signals, NEW t \in Thresholds
  PROVE  IsStructurallySimilar(s.structure, t.structure) \in BOOLEAN
BY DEF IsStructurallySimilar

(* The builders of Signals and the setters of the thresholds keep the      *)
(* state in its type, and every judgement ends in one of the three labels. *)
THEOREM TypeCorrect == Spec => []TypeOK
<1> DEFINE SignalsOK == signals \in Signals /\ configured \in Thresholds
<1>1. Init => SignalsOK
  BY DEF Init
<1>2. SignalsOK /\ [Next]_vars => SignalsOK'
  <2> SUFFICES ASSUME SignalsOK, [Next]_vars PROVE SignalsOK'
    OBVIOUS
  <2>1. CASE WithDeclaredDomains
    <3>1. PICK d \in DeclaredDomains :
            signals' = [signals EXCEPT !.separation.declared = {d}] /\ UNCHANGED configured
      BY <2>1 DEF WithDeclaredDomains
    <3>2. [signals.separation EXCEPT !.declared = {d}] \in Separations
      BY DEF Signals, Separations
    <3>3. signals' = [signals EXCEPT !.separation = [signals.separation EXCEPT !.declared = {d}]]
      BY <3>1
    <3> QED BY <3>1, <3>2, <3>3 DEF Signals
  <2>2. CASE WithSemantics
    BY <2>2 DEF WithSemantics, Signals
  <2>3. CASE WithThreshold
    BY <2>3 DEF WithThreshold, Thresholds
  <2>4. CASE UNCHANGED vars
    BY <2>4 DEF vars
  <2> QED BY <2>1, <2>2, <2>3, <2>4 DEF Next
<1>3. SignalsOK => TypeOK
  BY LeansAreLeans, SimilarIsBoolean, VerdictTypes DEF TypeOK, verdict, ClassificationOf
<1> QED BY <1>1, <1>2, <1>3, PTL DEF Spec

(* Losing measurements never turns the advice into its opposite.           *)
THEOREM LossNeverReversesTheAdvice == Spec => []LossNeverReverses
<1>1. TypeOK => LossNeverReverses
  <2> SUFFICES ASSUME TypeOK, NEW lost \in SUBSET Losable, NEW v \in DOMAIN Opposite,
                      verdict = v
               PROVE  ClassificationOf(Without(signals, lost), configured) # Opposite[v]
    BY DEF LossNeverReverses
  <2> DEFINE w == Without(signals, lost)
             l == LeansOf(signals, configured)
             m == LeansOf(w, configured)
             similar == IsStructurallySimilar(signals.structure, configured.structure)
  <2>1. signals \in Signals /\ configured \in Thresholds
    BY DEF TypeOK
  <2>2. /\ w \in Signals /\ w.structure = signals.structure
        /\ m.leaves = l.leaves /\ m.distance = l.distance
        /\ \A k \in Losable : m[k] = IF k \in lost THEN "neither" ELSE l[k]
    BY <2>1, LossOfSignals
  <2>3. l \in Leans /\ m \in Leans /\ similar \in BOOLEAN
    BY <2>1, <2>2, LeansAreLeans, SimilarIsBoolean
  <2>4. /\ m.imports \in {l.imports, "neither"} /\ m.types \in {l.types, "neither"}
        /\ m.callers \in {l.callers, "neither"} /\ m.callees \in {l.callees, "neither"}
    BY <2>2 DEF Losable
  <2>5. verdict = VerdictOf(similar, l) /\ ClassificationOf(w, configured) = VerdictOf(similar, m)
    BY <2>2 DEF verdict, ClassificationOf
  <2> HIDE DEF w, l, m, similar
  <2>6. /\ verdict = "EXTRACT-CANDIDATE" => VerdictOf(similar, m) # "DO-NOT-EXTRACT"
        /\ verdict = "DO-NOT-EXTRACT" => VerdictOf(similar, m) # "EXTRACT-CANDIDATE"
    BY <2>2, <2>3, <2>4, <2>5, LeanLoss
  <2>7. ClassificationOf(w, configured) # Opposite[v]
    BY <2>5, <2>6 DEF Opposite
  <2> QED BY <2>7 DEF w
<1> QED BY <1>1, TypeCorrect, PTL

(* More evidence for keeping two functions apart never brings the verdict  *)
(* closer to extracting them.                                              *)
THEOREM EvidencePulls == Spec => []EvidencePullsItsWay
<1>1. TypeOK => EvidencePullsItsWay
  <2> SUFFICES ASSUME TypeOK PROVE EvidencePullsItsWay
    OBVIOUS
  <2> DEFINE l == LeansOf(signals, configured)
             similar == IsStructurallySimilar(signals.structure, configured.structure)
  <2>1. /\ signals \in Signals /\ configured \in Thresholds
        /\ l \in Leans /\ similar \in BOOLEAN /\ verdict = VerdictOf(similar, l)
    BY LeansAreLeans, SimilarIsBoolean DEF TypeOK, verdict, ClassificationOf
  <2>2. ASSUME NEW k \in {"leaves", "imports", "types", "callers", "callees"},
               NEW v \in FurtherApart(signals, k)
        PROVE  Firmness(ClassificationOf([signals EXCEPT ![k] = v], configured))
                 <= Firmness(verdict)
    <3> DEFINE s2 == [signals EXCEPT ![k] = v]
               m == LeansOf(s2, configured)
    <3>1. /\ m \in Leans
          /\ m.leaves \in {l.leaves, "separate"} /\ m.distance \in {l.distance, "separate"}
          /\ m.imports \in {l.imports, "separate"} /\ m.types \in {l.types, "separate"}
          /\ m.callers \in {l.callers, "separate"} /\ m.callees \in {l.callees, "separate"}
      BY <2>1, <2>2, FurtherMeasurement
    <3>2. s2.structure = signals.structure
      BY <2>1, <2>2 DEF Signals
    <3>3. ClassificationOf(s2, configured) = VerdictOf(similar, m)
      BY <3>2 DEF ClassificationOf
    <3> HIDE DEF s2, m, l, similar
    <3>4. Firmness(ClassificationOf(s2, configured)) <= Firmness(verdict)
      BY <2>1, <3>1, <3>3, LeanMonotone
    <3> QED BY <3>4 DEF s2
  <2>3. ASSUME NEW v \in FurtherSeparations(signals.separation)
        PROVE  Firmness(ClassificationOf([signals EXCEPT !.separation = v], configured))
                 <= Firmness(verdict)
    <3> DEFINE s2 == [signals EXCEPT !.separation = v]
               m == LeansOf(s2, configured)
    <3>1. /\ m \in Leans
          /\ m.distance \in {l.distance, "separate"}
          /\ m.leaves = l.leaves /\ m.imports = l.imports /\ m.types = l.types
          /\ m.callers = l.callers /\ m.callees = l.callees
      BY <2>1, <2>3, FurtherSeparation
    <3>2. s2.structure = signals.structure
      BY <2>1 DEF Signals
    <3>3. ClassificationOf(s2, configured) = VerdictOf(similar, m)
      BY <3>2 DEF ClassificationOf
    <3> HIDE DEF s2, m, l, similar
    <3>4. Firmness(ClassificationOf(s2, configured)) <= Firmness(verdict)
      BY <2>1, <3>1, <3>3, LeanMonotone
    <3> QED BY <3>4 DEF s2
  <2> QED BY <2>2, <2>3 DEF EvidencePullsItsWay
<1> QED BY <1>1, TypeCorrect, PTL

(* Without a type signature only Stage 1 makes a candidate.                *)
THEOREM ObservationNeverPromotes == Spec => []ObservationDoesNotPromote
<1>1. TypeOK => ObservationDoesNotPromote
  <2> SUFFICES ASSUME TypeOK, verdict = "EXTRACT-CANDIDATE", signals.types = Absent
               PROVE  ClassificationOf(Without(signals, {"types", "callers", "callees"}), configured)
                        = "EXTRACT-CANDIDATE"
    BY DEF ObservationDoesNotPromote
  <2> DEFINE lost == {"types", "callers", "callees"}
             w == Without(signals, lost)
             l == LeansOf(signals, configured)
             m == LeansOf(w, configured)
             similar == IsStructurallySimilar(signals.structure, configured.structure)
  <2>1. signals \in Signals /\ configured \in Thresholds /\ lost \in SUBSET Losable
    BY DEF TypeOK, Losable
  <2>2. /\ w \in Signals /\ w.structure = signals.structure
        /\ m.leaves = l.leaves /\ m.distance = l.distance
        /\ \A k \in Losable : m[k] = IF k \in lost THEN "neither" ELSE l[k]
    BY <2>1, LossOfSignals
  <2>3. l \in Leans /\ m \in Leans
    BY <2>1, <2>2, LeansAreLeans
  <2>4. /\ m.imports = l.imports /\ m.types = "neither"
        /\ m.callers = "neither" /\ m.callees = "neither"
    BY <2>2 DEF Losable
  <2>5. l.types = "neither"
    BY AbsentAssumption DEF LeansOf, TypeLean
  <2>6. verdict = VerdictOf(similar, l) /\ ClassificationOf(w, configured) = VerdictOf(similar, m)
    BY <2>2 DEF verdict, ClassificationOf
  <2> HIDE DEF w, l, m, similar, lost
  <2>7. /\ similar /\ l.leaves # "separate" /\ PlacementMatch(l) = "same"
    BY <2>5, <2>6 DEF VerdictOf, SharedDomainVerdict, Stage1SharedDomainVerdict
  <2>8. PlacementMatch(m) = "same" /\ ObservedMatch(m) = "unobserved"
    BY <2>2, <2>3, <2>4, <2>7, ObservedCases DEF PlacementMatch
  <2>9. VerdictOf(similar, m) = "EXTRACT-CANDIDATE"
    BY <2>2, <2>4, <2>7, <2>8 DEF VerdictOf, DomainMatch, SharedDomainVerdict,
                                  Stage1SharedDomainVerdict
  <2> QED BY <2>6, <2>9 DEF w, lost
<1> QED BY <1>1, TypeCorrect, PTL

(* A stricter structural threshold makes no claim it did not make before.  *)
THEOREM StricterClaimsNothing == Spec => StricterStructureClaimsNothing
<1>1. ASSUME TypeOK, TypeOK', signals' = signals,
             configured' = [configured EXCEPT !.structure = configured'.structure],
             configured'.structure >= configured.structure
      PROVE  verdict' \in {verdict, "REVIEW"}
  <2>1. /\ signals \in Signals /\ configured \in Thresholds /\ configured' \in Thresholds
    BY <1>1 DEF TypeOK
  <2>2. configured'.imports = configured.imports /\ configured'.callers = configured.callers
    BY <1>1, <2>1 DEF Thresholds
  <2>3. LeansOf(signals', configured') = LeansOf(signals, configured)
    BY <1>1, <2>2 DEF LeansOf
  <2>4. IsStructurallySimilar(signals'.structure, configured'.structure) =>
          IsStructurallySimilar(signals.structure, configured.structure)
    BY <1>1, <2>1, LevelsAssumption, AbsentAssumption
    DEF IsStructurallySimilar, Thresholds, Signals, Overlaps, Levels
  <2>5. \A b \in BOOLEAN, l \in Leans : ~b => VerdictOf(b, l) = "REVIEW"
    BY DEF VerdictOf
  <2>6. LeansOf(signals, configured) \in Leans
    BY <2>1, LeansAreLeans
  <2>7. IsStructurallySimilar(signals'.structure, configured'.structure) \in BOOLEAN
    BY DEF IsStructurallySimilar
  <2> QED BY <2>3, <2>4, <2>5, <2>6, <2>7 DEF verdict, ClassificationOf
<1> QED BY <1>1, TypeCorrect, PTL DEF StricterStructureClaimsNothing
=============================================================================
