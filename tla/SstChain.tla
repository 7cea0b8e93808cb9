------------------------------ MODULE SstChain ------------------------------
(***************************************************************************)
(* One scene on its way from the brightness temperatures to the verdict:   *)
(* screen_clouds and retrieve_sst (process_scene), then colocate,          *)
(* compute_stats and evaluate (validate_product).                          *)
(*                                                                         *)
(* Temperatures are integers, in a unit as fine as one likes, or NaN;      *)
(* locations have one coordinate. Statistics are kept as the sums they are *)
(* quotients of, and compared without dividing.                            *)
(***************************************************************************)
EXTENDS Integers, FiniteSetsExt

CONSTANTS
  Pixel, RefPixel,         \* pixels of the scene and of the official product
  NaN,                     \* a float that is not a number
  Scenes, References,      \* what L1Scene and L2Reference may hold
  BtCloudThreshold, UseL1CloudFlag,              \* CloudScreeningConfig
  A0, A1, A2, ValidMin, ValidMax,                \* SstConfig
  Tolerance, MaxAbsBias, MaxRmse, MinPctWithinTol,
  MinMatchCount, MinQualityLevel,                \* ValidationConfig
  BboxMargin               \* _BBOX_MARGIN_DEG

Float == Int \cup {NaN}

ASSUME SstChainAssumption ==
  /\ NaN \notin Int
  /\ IsFiniteSet(Pixel)
  /\ Scenes \subseteq [Pixel -> [s8 : Float, s9 : Float, flags : Nat, lat : Float]]
  /\ References \subseteq [RefPixel -> [sst : Float, quality : Int, lat : Float]]
  /\ UseL1CloudFlag \in BOOLEAN
  /\ {BtCloudThreshold, A0, A1, A2, ValidMin, ValidMax} \subseteq Int
  /\ {Tolerance, MaxAbsBias, MaxRmse, MinPctWithinTol, MinMatchCount, BboxMargin} \subseteq Nat
  /\ MinQualityLevel \in Int

VARIABLES
  pc,         \* the next function to be called
  scene,      \* L1Scene
  reference,  \* L2Reference
  derived,    \* DerivedSstProduct
  pairs,      \* MatchupSet
  stats,      \* ValidationStats
  passed      \* ValidationResult.passed

vars == <<pc, scene, reference, derived, pairs, stats, passed>>

-----------------------------------------------------------------------------
(* Floats: a comparison with NaN is false, arithmetic with NaN gives NaN.  *)

IsFinite(x) == x # NaN
GE(x, y)    == IsFinite(x) /\ x >= y
LT(x, y)    == IsFinite(x) /\ x < y
GT(x, y)    == IsFinite(x) /\ x > y
Abs(x)      == IF x < 0 THEN -x ELSE x

-----------------------------------------------------------------------------
(* Processing.                                                             *)

\* Mutant: cold is asked for directly, which lets NaN through.
ColdIfBelow(px) == LT(px.s8, BtCloudThreshold)

\* Below the threshold, or no number.
Cold(px) == ~GE(px.s8, BtCloudThreshold)

\* screen_clouds: cold, or bit 0 of cloud_flags where the configuration uses it.
Screened(px) == Cold(px) \/ (UseL1CloudFlag /\ px.flags % 2 = 1)

\* The split-window formula of retrieve_sst, output_offset_k being part of A0.
Raw(px) == IF IsFinite(px.s8) /\ IsFinite(px.s9) THEN A0 + A1 * px.s8 + A2 * (px.s8 - px.s9) ELSE NaN

\* retrieve_sst for one pixel: cloudy is NaN; out of range is flagged, not clamped.
Retrieved(px) ==
  LET sst == IF Screened(px) THEN NaN ELSE Raw(px)
  IN  [sst |-> sst, cloud |-> Screened(px),
       outOfRange |-> ~Screened(px) /\ (LT(sst, ValidMin) \/ GT(sst, ValidMax))]

Process ==
  /\ pc = "process" /\ pc' = "colocate"
  /\ derived' = [d \in Pixel |-> Retrieved(scene[d])]
  /\ UNCHANGED <<scene, reference, pairs, stats, passed>>

-----------------------------------------------------------------------------
(* Co-location.                                                            *)

\* Mutant: pixels flagged as out of range are compared too.
UsableFlagged == {d \in Pixel : ~derived[d].cloud /\ IsFinite(derived[d].sst) /\ IsFinite(scene[d].lat)}

\* The derived pixels to be matched: clear, in range, finite.
Usable ==
  {d \in Pixel : /\ ~derived[d].cloud /\ ~derived[d].outOfRange
                 /\ IsFinite(derived[d].sst) /\ IsFinite(scene[d].lat)}

\* The bounding box of the usable pixels, with its margin.
InBox(lat) ==
  /\ \E d \in Usable : scene[d].lat - BboxMargin <= lat
  /\ \E d \in Usable : lat <= scene[d].lat + BboxMargin

\* Mutant: the quality filter comes before the search for the nearest.
TargetsOfQuality ==
  {r \in RefPixel : /\ IsFinite(reference[r].sst) /\ IsFinite(reference[r].lat)
                    /\ reference[r].quality >= MinQualityLevel
                    /\ InBox(reference[r].lat)}

\* The reference pixels that can be matched, whatever their quality.
Targets ==
  {r \in RefPixel : /\ IsFinite(reference[r].sst) /\ IsFinite(reference[r].lat)
                    /\ InBox(reference[r].lat)}

Distance(d, r) == Abs(scene[d].lat - reference[r].lat)

\* The nearest neighbour in the tree of targets; which of several is open.
IsNearest(d, r) == r \in Targets /\ \A q \in Targets : Distance(d, r) <= Distance(d, q)

\* colocate: the usable pixels with their nearest target, if its quality will do.
Colocate ==
  /\ pc = "colocate" /\ pc' = "judge"
  /\ \/ Targets = {} /\ pairs' = {}
     \/ \E nn \in [Usable -> Targets] :
          /\ \A d \in Usable : IsNearest(d, nn[d])
          /\ pairs' = {<<d, nn[d]>> : d \in {u \in Usable : reference[nn[u]].quality >= MinQualityLevel}}
  /\ UNCHANGED <<scene, reference, derived, stats, passed>>

-----------------------------------------------------------------------------
(* Statistics and the gate.                                                *)

Diff(p) == derived[p[1]].sst - reference[p[2]].sst

NoStats == [count |-> 0, sum |-> NaN, squares |-> NaN, within |-> NaN]

\* Mutant: the percentage is taken of the usable pixels.
ComputeStatsOfUsable ==
  IF pairs = {} THEN NoStats
  ELSE [count   |-> Cardinality(pairs),
        sum     |-> SumFunction([p \in pairs |-> Diff(p)]),
        squares |-> SumFunction([p \in pairs |-> Diff(p) * Diff(p)]),
        within  |-> Cardinality(Usable)]

\* Mutant: the differences are not squared.
ComputeStatsUnsquared ==
  IF pairs = {} THEN NoStats
  ELSE [count   |-> Cardinality(pairs),
        sum     |-> SumFunction([p \in pairs |-> Diff(p)]),
        squares |-> SumFunction([p \in pairs |-> Abs(Diff(p))]),
        within  |-> Cardinality({p \in pairs : Abs(Diff(p)) <= Tolerance})]

\* compute_stats: bias = sum / count, rmse^2 = squares / count, pct = 100 within / count.
ComputeStats ==
  IF pairs = {} THEN NoStats
  ELSE [count   |-> Cardinality(pairs),
        sum     |-> SumFunction([p \in pairs |-> Diff(p)]),
        squares |-> SumFunction([p \in pairs |-> Diff(p) * Diff(p)]),
        within  |-> Cardinality({p \in pairs : Abs(Diff(p)) <= Tolerance})]

\* Mutant: a statistic fails only if it is beyond its bound, which NaN never is.
EvaluateNotBeyond(s) ==
  /\ s.count >= MinMatchCount
  /\ ~(IsFinite(s.sum) /\ Abs(s.sum) > MaxAbsBias * s.count)
  /\ ~GT(s.squares, MaxRmse * MaxRmse * s.count)
  /\ ~(IsFinite(s.within) /\ 100 * s.within < MinPctWithinTol * s.count)

\* evaluate: every check holds, and none does of a statistic that is no number.
Evaluate(s) ==
  /\ s.count >= MinMatchCount
  /\ IsFinite(s.sum) /\ Abs(s.sum) <= MaxAbsBias * s.count
  /\ IsFinite(s.squares) /\ s.squares <= MaxRmse * MaxRmse * s.count
  /\ IsFinite(s.within) /\ 100 * s.within >= MinPctWithinTol * s.count

\* validate_product after colocate.
Judge ==
  /\ pc = "judge" /\ pc' = "done"
  /\ stats' = ComputeStats
  /\ passed' = Evaluate(ComputeStats)
  /\ UNCHANGED <<scene, reference, derived, pairs>>

Init ==
  /\ pc = "process"
  /\ scene \in Scenes /\ reference \in References
  /\ derived = [d \in Pixel |-> [sst |-> NaN, cloud |-> TRUE, outOfRange |-> FALSE]]
  /\ pairs = {} /\ stats = NoStats /\ passed = FALSE

Next == Process \/ Colocate \/ Judge
Spec == Init /\ [][Next]_vars

-----------------------------------------------------------------------------
(* Properties.                                                             *)

TypeOK ==
  /\ pc \in {"process", "colocate", "judge", "done"}
  /\ scene \in Scenes /\ reference \in References
  /\ derived \in [Pixel -> [sst : Float, cloud : BOOLEAN, outOfRange : BOOLEAN]]
  /\ pairs \subseteq Pixel \X RefPixel
  /\ passed \in BOOLEAN
  /\ stats = NoStats \/ /\ stats.count \in Nat \ {0} /\ stats.within \in 0 .. stats.count
                        /\ stats.squares \in Nat /\ stats.sum \in Int

\* No clear pixel is without a measured S8 at or above the threshold, whatever is
\* missing in the scene; a pixel neither cloudy nor flagged holds the formula's
\* value within the valid range, or NaN where S9 is missing (screen, retrieve_sst).
DerivedIsSound ==
  pc # "process" =>
    \A d \in Pixel : ~derived[d].cloud =>
      /\ scene[d].s8 \in Int /\ scene[d].s8 >= BtCloudThreshold
      /\ IF scene[d].s9 \in Int
         THEN /\ derived[d].sst = A0 + A1 * scene[d].s8 + A2 * (scene[d].s8 - scene[d].s9)
              /\ derived[d].outOfRange <=> derived[d].sst \notin ValidMin .. ValidMax
         ELSE derived[d].sst = NaN

\* Whatever is missing, cold, cloudy or out of range anywhere: a comparison is
\* between an SST in the valid range, of two measured bands, and an official SST
\* of the quality asked for; no pixel is compared twice.
PairsAreSound ==
  \A p \in pairs :
    /\ scene[p[1]].s8 \in Int /\ scene[p[1]].s9 \in Int
    /\ derived[p[1]].sst \in ValidMin .. ValidMax
    /\ reference[p[2]].sst \in Int /\ reference[p[2]].quality >= MinQualityLevel
    /\ \A q \in pairs : p[1] = q[1] => p = q

\* A pair's reference is the nearest one with an SST, of any quality, unless that
\* one is farther from the pixel than the margin of the box colocate searches.
NearestWithinMargin ==
  \A p \in pairs : \A r \in RefPixel :
    reference[r].sst \in Int /\ reference[r].lat \in Int /\ Distance(p[1], r) < Distance(p[1], p[2])
      => Distance(p[1], r) > BboxMargin

\* An inconclusive run is never a pass, even if the configuration asks for no
\* minimum of matchups: the gate has seen a comparison, and enough of them.
PassIsEarned ==
  passed => pairs # {} /\ Cardinality(pairs) >= MinMatchCount

\* The statistics bear each other out: the bias is not above the RMSE, the RMSE not
\* above the tolerance when every pair is within it, and not below what the pairs
\* beyond it alone amount to.
StatsAgree ==
  stats # NoStats =>
    /\ stats.sum * stats.sum <= stats.count * stats.squares
    /\ stats.within = stats.count => stats.squares <= stats.count * Tolerance * Tolerance
    /\ (stats.count - stats.within) * (Tolerance * Tolerance) <= stats.squares
=============================================================================
