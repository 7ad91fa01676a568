-------------------------- MODULE UtmReportProofs --------------------------
(***************************************************************************)
(* Proofs about UtmReport for every set of viewers, whatever the portal    *)
(* answers them and whatever a scan returns.                               *)
(*                                                                         *)
(* A capability is cached by portal and proved on one viewer's token, and  *)
(* leads may be switched off or on while it is being proved.  So the       *)
(* invariant relates what a report has concluded to what the portal        *)
(* answered when it was asked (ProofInv), and to whether the viewer had a  *)
(* record of the kind for the probe to count, not to what it would be now. *)
(*                                                                         *)
(* The bucket ladder is about sums over finite sets.  Their laws are       *)
(* proved by induction over the subsets of a finite set, stated of a set   *)
(* of sets (SubsetInduction) rather than of an operator; what the ladder   *)
(* needs of them is SumOfParts.  Every table the report prints is then the *)
(* keys of the scan regrouped by some function of the key (GroupedBy): the *)
(* rows by Onto, a facet by the value it is relabelled to.  Which values    *)
(* keep their name is a matter of counting who is ahead (TopCounts).       *)
(***************************************************************************)
EXTENDS UtmReport, FiniteSetTheorems, TLAPS

Phases == {"probe", "legacy", "scan"}
Verdicts == Spelling \cup {"none"}

IsReport(r) ==
    r = [phase |-> r.phase, viewer |-> r.viewer, warm |-> r.warm, can |-> r.can,
         cacheable |-> r.cacheable, tagless |-> r.tagless,
         sees |-> r.sees, seen |-> r.seen, asked |-> r.asked]

Asking == report # NoReport /\ report.phase \in Phases

PortalInv ==
    /\ build \in [Kind -> [Spelling -> Answer]]
    /\ rights \in [Viewer -> SUBSET Kind]
    /\ reports \in 0 .. MaxReports

\* A capability reads at least one leg.
Reads(can) == can \in [Kind -> Verdicts] /\ \E k \in Kind : can[k] # "none"

CacheInv == cache = NoCapability \/ Reads(cache)

\* What is known of one kind, what the portal answered, and whom it answered.
Proved(can, asked, seen, k) ==
    /\ can = "none" => asked["legacy"] = "absent"
    /\ can \in Spelling => asked[can] = "ok" \/ (asked[can] = "ignores" /\ k \notin seen)

RequestInv ==
    Asking =>
        /\ IsReport(report)
        /\ report.viewer \in Viewer
        /\ report.asked \in [Kind -> [Spelling -> Answer]]
        /\ report.can \in [Kind -> Verdicts \cup {"unknown"}]
        /\ report.phase = "scan" => Reads(report.can)

\* Whatever a cacheable report has concluded was answered so.
ProofInv ==
    Asking /\ ~report.warm /\ report.cacheable /\ report.phase \in {"legacy", "scan"} =>
        \A k \in Kind : Proved(report.can[k], report.asked[k], report.seen, k)

LegsInv ==
    report # NoReport /\ report.phase = "answered" =>
        report.legs # {} /\ report.legs \subseteq rights[report.viewer]

UtmInv == PortalInv /\ CacheInv /\ RequestInv /\ ProofInv /\ LegsInv

LEMMA UtmInvImplies == UtmInv => TypeOK
BY DEF UtmInv, PortalInv, CacheInv, LegsInv, Reads, Verdicts, TypeOK, Shown

LEMMA InitIsSafe == Init => UtmInv
<1> SUFFICES ASSUME Init PROVE UtmInv  OBVIOUS
<1>1. PortalInv  BY UtmReportAssumption DEF Init, PortalInv
<1>2. CacheInv  BY DEF Init, CacheInv
<1>3. report = NoReport  BY DEF Init
<1> QED  BY <1>1, <1>2, <1>3 DEF UtmInv, RequestInv, ProofInv, LegsInv, Asking

-----------------------------------------------------------------------------
(* The probes *)

\* What a report must have before a verdict is drawn from it: a conclusion on
\* every kind, each proved or on a kind without tags.
Ready(r) ==
    /\ IsReport(r) /\ r.viewer \in Viewer
    /\ r.asked \in [Kind -> [Spelling -> Answer]] /\ r.can \in [Kind -> Verdicts]
    /\ ~r.warm /\ r.cacheable =>
          \A k \in Kind : \/ Proved(r.can[k], r.asked[k], r.seen, k)
                          \/ k \in r.tagless /\ r.can[k] # "none"

LEMMA RefusedIsSafe ==
  ASSUME NEW code, report' = Refused(code)
  PROVE  RequestInv' /\ ProofInv' /\ LegsInv' /\ ~Shown'
<1>1. report'.phase = "refused"  BY DEF Refused
<1> QED  BY <1>1 DEF Shown, RequestInv, ProofInv, LegsInv, Asking, Phases

LEMMA VerdictIsSafe ==
  ASSUME NEW r, Ready(r), report' = Concluded(r)
  PROVE  RequestInv' /\ ProofInv' /\ LegsInv' /\ ~Shown'
<1>1. CASE r.can = [k \in Kind |-> "none"]
  BY <1>1, RefusedIsSafe DEF Concluded
<1>2. CASE \E k \in r.tagless : r.can[k] # "none"
  BY <1>2, RefusedIsSafe DEF Concluded
<1>3. CASE r.can # [k \in Kind |-> "none"] /\ ~ \E k \in r.tagless : r.can[k] # "none"
  <2>1. report' = [r EXCEPT !.phase = "scan"]  BY <1>3 DEF Concluded
  <2>2. /\ IsReport(report') /\ report'.phase = "scan" /\ report'.viewer = r.viewer
        /\ report'.can = r.can /\ report'.asked = r.asked /\ report'.seen = r.seen
        /\ report'.warm = r.warm /\ report'.cacheable = r.cacheable
    BY <2>1 DEF Ready, IsReport
  <2>3. \E k \in Kind : r.can[k] # "none"  BY <1>3 DEF Ready
  <2>4. RequestInv'
    BY <2>2, <2>3 DEF RequestInv, Ready, Reads, Verdicts
  <2>5. ~r.warm /\ r.cacheable => \A k \in Kind : Proved(r.can[k], r.asked[k], r.seen, k)
    BY <1>3 DEF Ready
  <2>6. ProofInv'  BY <2>2, <2>5 DEF ProofInv
  <2>7. LegsInv'  BY <2>2 DEF LegsInv
  <2> QED  BY <2>2, <2>4, <2>6, <2>7 DEF Shown
<1> QED  BY <1>1, <1>2, <1>3

\* A leg that says something of the build is proved by what the build answered,
\* unless it only says that a kind has no tags.
LEMMA LegIsProved ==
  ASSUME PortalInv, NEW k \in Kind, NEW spelling \in Spelling, NEW blank, NEW seen,
         k \in seen <=> k \in report.sees, SaysOfBuild(k, spelling, blank)
  PROVE  \/ Proved(Leg(k, spelling, blank), build[k], seen, k)
         \/ /\ build[k][spelling] = "untagged" /\ spelling = "legacy"
            /\ Decide(k, spelling, blank) = "demote" /\ Leg(k, spelling, blank) # "none"
<1>1. build[k][spelling] \in Answer  BY DEF PortalInv
<1>2. spelling # "none"  BY DEF Spelling
<1>3. CASE Decide(k, spelling, blank) = "ok"
  <2>1. build[k][spelling] = "ok" \/ (build[k][spelling] = "ignores" /\ k \notin seen)
    BY <1>1, <1>3 DEF Decide, Answer
  <2>2. Leg(k, spelling, blank) = spelling  BY <1>3 DEF Leg
  <2> QED  BY <1>2, <2>1, <2>2 DEF Proved
<1>4. CASE /\ spelling = "legacy" /\ build[k][spelling] = "absent"
           /\ Decide(k, spelling, blank) = "demote"
  <2>1. Leg(k, spelling, blank) = "none"  BY <1>4 DEF Leg
  <2> QED  BY <1>4, <2>1 DEF Proved, Spelling
<1>5. CASE /\ spelling = "legacy" /\ build[k][spelling] = "untagged"
           /\ Decide(k, spelling, blank) = "demote"
  <2>1. Leg(k, spelling, blank) = "legacy"  BY <1>5 DEF Leg
  <2> QED  BY <1>5, <2>1
<1> QED  BY <1>3, <1>4, <1>5 DEF SaysOfBuild

LEMMA LegIsAChoice ==
  ASSUME NEW k, NEW spelling \in Spelling, NEW blank
  PROVE  Leg(k, spelling, blank) \in Verdicts
BY DEF Leg, Verdicts

LEMMA ProbeStep ==
  ASSUME NEW blank
  PROVE  UtmInv /\ Probe(blank) => RequestInv' /\ ProofInv' /\ LegsInv' /\ ~Shown'
<1> SUFFICES ASSUME UtmInv, Probe(blank) PROVE RequestInv' /\ ProofInv' /\ LegsInv' /\ ~Shown'
  OBVIOUS
<1> DEFINE demoted == {k \in Kind : Decide(k, "item", blank) = "demote"}
           can == [k \in Kind |-> IF k \in demoted THEN "unknown" ELSE Leg(k, "item", blank)]
           says == \A k \in Kind \ demoted : SaysOfBuild(k, "item", blank)
           r == [report EXCEPT !.can = can, !.cacheable = says, !.asked = build,
                               !.seen = report.sees]
<1>1. /\ report # NoReport /\ report.phase = "probe"
      /\ report' = IF demoted = {} THEN Concluded(r) ELSE [r EXCEPT !.phase = "legacy"]
  BY Zenon DEF Probe
<1>2. IsReport(report) /\ report.viewer \in Viewer
  BY <1>1 DEF UtmInv, RequestInv, Asking, Phases
<1>3. \A k \in Kind \ demoted : can[k] = Leg(k, "item", blank) /\ can[k] \in Verdicts
  BY LegIsAChoice DEF Spelling
<1>4. \A k \in demoted : can[k] = "unknown"  OBVIOUS
<1>5. can \in [Kind -> Verdicts \cup {"unknown"}]  BY <1>3, <1>4
<1>6. says => \A k \in Kind \ demoted : Proved(can[k], build[k], report.sees, k)
  BY <1>3, LegIsProved DEF UtmInv, Spelling
<1>7. demoted \subseteq Kind /\ build \in [Kind -> [Spelling -> Answer]]
  BY DEF UtmInv, PortalInv
<1>8. \A k \in demoted : Proved(can[k], build[k], report.sees, k)
  BY <1>4 DEF Proved, Spelling
<1> HIDE DEF demoted, can, says
<1>9. /\ IsReport(r) /\ r.viewer = report.viewer /\ r.asked = build /\ r.can = can
      /\ r.seen = report.sees
      /\ r.cacheable = says /\ r.warm = report.warm /\ r.tagless = report.tagless
      /\ r.phase = "probe"
  <2>1. ASSUME NEW said, NEW s,
               s = [report EXCEPT !.can = can, !.cacheable = said, !.asked = build,
                                  !.seen = report.sees]
        PROVE  /\ IsReport(s) /\ s.viewer = report.viewer /\ s.asked = build /\ s.can = can
               /\ s.seen = report.sees
               /\ s.cacheable = said /\ s.warm = report.warm /\ s.tagless = report.tagless
               /\ s.phase = report.phase
    BY <1>2, <2>1 DEF IsReport
  <2> QED  BY <1>1, <2>1, Zenon
<1> HIDE DEF r
<1>10. CASE demoted = {}
  <2>1. can \in [Kind -> Verdicts]  BY <1>3, <1>5, <1>10
  <2>2. Ready(r)  BY <1>2, <1>6, <1>7, <1>9, <1>10, <2>1 DEF Ready
  <2> QED  BY <1>1, <1>10, <2>2, VerdictIsSafe
<1>11. CASE demoted # {}
  <2>1. report' = [r EXCEPT !.phase = "legacy"]  BY <1>1, <1>11
  <2>2. /\ IsReport(report') /\ report'.phase = "legacy" /\ report'.viewer = r.viewer
        /\ report'.can = r.can /\ report'.asked = r.asked /\ report'.seen = r.seen
        /\ report'.warm = r.warm /\ report'.cacheable = r.cacheable
    BY <1>9, <2>1 DEF IsReport
  <2>3. RequestInv'  BY <1>2, <1>5, <1>7, <1>9, <2>2 DEF RequestInv
  <2>4. says => \A k \in Kind : Proved(can[k], build[k], report.sees, k)  BY <1>6, <1>8
  <2>5. ProofInv'  BY <1>9, <2>2, <2>4 DEF ProofInv
  <2>6. LegsInv'  BY <2>2 DEF LegsInv
  <2> QED  BY <2>2, <2>3, <2>5, <2>6 DEF Shown
<1> QED  BY <1>10, <1>11

LEMMA ProbeLegacyStep ==
  ASSUME NEW blank
  PROVE  UtmInv /\ ProbeLegacy(blank) => RequestInv' /\ ProofInv' /\ LegsInv' /\ ~Shown'
<1> SUFFICES ASSUME UtmInv, ProbeLegacy(blank) PROVE RequestInv' /\ ProofInv' /\ LegsInv' /\ ~Shown'
  OBVIOUS
<1> DEFINE demoted == {k \in Kind : report.can[k] = "unknown"}
           tagless == {k \in demoted : /\ build[k]["legacy"] = "untagged"
                                       /\ Decide(k, "legacy", blank) = "demote"}
           can == [k \in Kind |-> IF k \in demoted THEN Leg(k, "legacy", blank)
                                  ELSE report.can[k]]
           says == \A k \in demoted : SaysOfBuild(k, "legacy", blank)
           asked == [k \in Kind |-> IF k \in demoted THEN build[k] ELSE report.asked[k]]
           seen == (report.seen \ demoted) \cup (demoted \cap report.sees)
           r == [report EXCEPT !.can = can, !.cacheable = @ /\ says, !.tagless = tagless,
                               !.asked = asked, !.seen = seen]
<1>1. report # NoReport /\ report.phase = "legacy" /\ report' = Concluded(r)
  BY Zenon DEF ProbeLegacy
<1>2. /\ IsReport(report) /\ report.viewer \in Viewer
      /\ report.can \in [Kind -> Verdicts \cup {"unknown"}]
      /\ report.asked \in [Kind -> [Spelling -> Answer]]
  BY <1>1 DEF UtmInv, RequestInv, Asking, Phases
<1>3. can \in [Kind -> Verdicts]
  <2>1. \A k \in demoted : can[k] \in Verdicts  BY LegIsAChoice DEF Spelling
  <2>2. \A k \in Kind \ demoted : can[k] \in Verdicts  BY <1>2
  <2> QED  BY <2>1, <2>2
<1>4. asked \in [Kind -> [Spelling -> Answer]]
  BY <1>2 DEF UtmInv, PortalInv
<1>5. says => \A k \in demoted :
        Proved(can[k], asked[k], seen, k) \/ (k \in tagless /\ can[k] # "none")
  <2> SUFFICES ASSUME says, NEW k \in demoted
               PROVE  Proved(can[k], asked[k], seen, k) \/ (k \in tagless /\ can[k] # "none")
    OBVIOUS
  <2>1. can[k] = Leg(k, "legacy", blank) /\ asked[k] = build[k]  OBVIOUS
  <2>2. SaysOfBuild(k, "legacy", blank) /\ PortalInv /\ "legacy" \in Spelling
        /\ (k \in seen <=> k \in report.sees)
    BY DEF UtmInv, Spelling
  <2> QED  BY <2>1, <2>2, LegIsProved
<1>6. ~report.warm /\ report.cacheable =>
        \A k \in Kind \ demoted : Proved(can[k], asked[k], seen, k)
  BY <1>1 DEF UtmInv, ProofInv, Asking, Phases, Proved
<1> HIDE DEF demoted, can, says, asked, tagless, seen
<1>7. /\ IsReport(r) /\ r.viewer = report.viewer /\ r.asked = asked /\ r.can = can
      /\ r.seen = seen
      /\ r.warm = report.warm /\ r.tagless = tagless
      /\ r.cacheable = (report.cacheable /\ says)
  <2>1. ASSUME NEW said, NEW s,
               s = [report EXCEPT !.can = can, !.cacheable = said, !.tagless = tagless,
                                  !.asked = asked, !.seen = seen]
        PROVE  /\ IsReport(s) /\ s.viewer = report.viewer /\ s.asked = asked /\ s.can = can
               /\ s.seen = seen
               /\ s.warm = report.warm /\ s.tagless = tagless /\ s.cacheable = said
    BY <1>2, <2>1 DEF IsReport
  <2> QED  BY <2>1, Zenon
<1> HIDE DEF r
<1>8. ~r.warm /\ r.cacheable => ~report.warm /\ report.cacheable /\ says
  BY <1>7, Zenon
<1>9. Ready(r)
  <2>1. ~r.warm /\ r.cacheable =>
          \A k \in Kind : Proved(can[k], asked[k], seen, k) \/ (k \in tagless /\ can[k] # "none")
    BY <1>5, <1>6, <1>8
  <2> QED  BY <1>2, <1>3, <1>4, <1>7, <2>1 DEF Ready
<1> QED  BY <1>1, <1>9, VerdictIsSafe

-----------------------------------------------------------------------------
(* Opening and answering *)

LEMMA OpenStep ==
  ASSUME NEW v \in Viewer, NEW sees
  PROVE  UtmInv /\ Open(v, sees) => RequestInv' /\ ProofInv' /\ LegsInv'
<1> SUFFICES ASSUME UtmInv, Open(v, sees) PROVE RequestInv' /\ ProofInv' /\ LegsInv'
  OBVIOUS
<1>1. /\ IsReport(report') /\ report'.viewer = v /\ report'.can = cache
      /\ report'.asked = build
      /\ report'.phase = IF cache = NoCapability THEN "probe" ELSE "scan"
  BY DEF Open, IsReport
<1>2. report'.phase = "scan" => report'.warm
  BY DEF Open
<1>3. cache \in [Kind -> Verdicts \cup {"unknown"}] /\ (cache # NoCapability => Reads(cache))
  BY DEF UtmInv, CacheInv, Reads, NoCapability, Kind, Verdicts
<1>4. RequestInv'  BY <1>1, <1>3 DEF RequestInv, UtmInv, PortalInv
<1>5. ProofInv'  BY <1>1, <1>2 DEF ProofInv
<1>6. LegsInv'  BY <1>1 DEF LegsInv
<1> QED  BY <1>4, <1>5, <1>6

LEMMA ViewReads ==
  ASSUME NEW can, Reads(can)
  PROVE  Legs(View(can)) # {} /\ Legs(View(can)) \subseteq Kind
BY DEF Reads, View, Legs, Kind, Verdicts

\* Dropping a lead leg that is gone leaves the other one.
LEMMA DroppingLeavesALeg ==
  ASSUME NEW can, Legs(can) # {}, Legs(can) \subseteq Kind
  PROVE  Legs(can) \ Dropped(can) # {}
<1>1. Dropped(can) \subseteq {"lead"}  BY DEF Dropped
<1>2. Cardinality({"lead"}) = 1  BY FS_Singleton
<1>3. CASE Legs(can) = {"lead"}
  <2>1. Dropped(can) = {}  BY <1>2, <1>3 DEF Dropped
  <2> QED  BY <2>1
<1>4. CASE Legs(can) # {"lead"}
  <2>1. "deal" \in Legs(can)  BY <1>4 DEF Kind
  <2> QED  BY <1>1, <2>1
<1> QED  BY <1>3, <1>4

LEMMA ScanStep ==
  ASSUME NEW rows, NEW untold
  PROVE  UtmInv /\ Scan(rows, untold) => RequestInv' /\ ProofInv' /\ LegsInv' /\ CacheInv'
<1> SUFFICES ASSUME UtmInv, Scan(rows, untold)
             PROVE  RequestInv' /\ ProofInv' /\ LegsInv' /\ CacheInv'
  OBVIOUS
<1> DEFINE view == View(report.can)
           legs == Legs(view) \ Dropped(view)
<1>1. report # NoReport /\ report.phase = "scan" /\ rights' = rights  BY DEF Scan, portal
<1>2. Reads(report.can)  BY <1>1 DEF UtmInv, RequestInv, Asking, Phases
<1>3. legs # {}  BY <1>2, ViewReads, DroppingLeavesALeg
<1> HIDE DEF legs
<1>4. \/ \E code : report' = Refused(code)
      \/ /\ legs \subseteq rights[report.viewer]
         /\ report'.phase = "answered" /\ report'.viewer = report.viewer
         /\ report'.legs = legs
  BY DEF Scan, legs
<1>5. cache' \in {cache, NoCapability, report.can}
  BY DEF Scan, CachedWhole
<1>6. CacheInv'  BY <1>2, <1>5 DEF UtmInv, CacheInv
<1>7. CASE \E code : report' = Refused(code)  BY <1>6, <1>7, RefusedIsSafe
<1>8. CASE /\ legs \subseteq rights[report.viewer]
           /\ report'.phase = "answered" /\ report'.viewer = report.viewer
           /\ report'.legs = legs
  BY <1>1, <1>3, <1>6, <1>8 DEF RequestInv, ProofInv, LegsInv, Asking, Phases
<1> QED  BY <1>4, <1>7, <1>8

\* What was concluded is of the records the probe counted, not of those there
\* are by now.
LEMMA RecordsStep ==
  ASSUME NEW k
  PROVE  UtmInv /\ RecordsChange(k) => RequestInv' /\ ProofInv' /\ LegsInv' /\ ~Shown'
<1> SUFFICES ASSUME UtmInv, RecordsChange(k)
             PROVE  RequestInv' /\ ProofInv' /\ LegsInv' /\ ~Shown'
  OBVIOUS
<1>1. report # NoReport /\ report.phase \in {"probe", "legacy", "scan"}  BY DEF RecordsChange
<1>2. PICK s : report' = [report EXCEPT !.sees = s]  BY DEF RecordsChange
<1>3. IsReport(report)  BY <1>1 DEF UtmInv, RequestInv, Asking, Phases
<1>4. /\ IsReport(report') /\ report'.phase = report.phase /\ report'.viewer = report.viewer
      /\ report'.can = report.can /\ report'.asked = report.asked /\ report'.seen = report.seen
      /\ report'.warm = report.warm /\ report'.cacheable = report.cacheable
  BY <1>2, <1>3 DEF IsReport
<1>5. RequestInv'  BY <1>1, <1>4 DEF UtmInv, RequestInv, Asking, Phases
<1>6. ProofInv'  BY <1>1, <1>4 DEF UtmInv, ProofInv, Asking, Phases
<1>7. LegsInv' /\ ~Shown'  BY <1>1, <1>4 DEF LegsInv, Shown
<1> QED  BY <1>5, <1>6, <1>7

-----------------------------------------------------------------------------
(* The invariant *)

LEMMA PortalStep == PortalInv /\ [Next]_vars => PortalInv'
<1> SUFFICES ASSUME PortalInv, [Next]_vars PROVE PortalInv'  OBVIOUS
<1>1. rights' = rights
  BY DEF Next, vars, portal, Open, Fail, Close, Probe, ProbeLegacy, Scan, RecordsChange,
     SwitchLeads, SwitchMode, Expire
<1>2. build' \in [Kind -> [Spelling -> Answer]]
  BY UtmReportAssumption
  DEF PortalInv, Next, vars, portal, Open, Fail, Close, Probe, ProbeLegacy, Scan,
      RecordsChange, SwitchLeads, SwitchMode, Expire
<1>3. reports' \in 0 .. MaxReports
  <2>1. reports' = reports \/ (reports < MaxReports /\ reports' = reports + 1)
    BY DEF Next, vars, portal, Open, Fail, Close, Probe, ProbeLegacy, Scan, RecordsChange,
       SwitchLeads, SwitchMode, Expire
  <2> QED  BY <2>1, UtmReportAssumption DEF PortalInv
<1> QED  BY <1>1, <1>2, <1>3 DEF PortalInv

LEMMA UtmStep == UtmInv /\ [Next]_vars => UtmInv'
<1> SUFFICES ASSUME UtmInv, [Next]_vars PROVE UtmInv'  OBVIOUS
<1>1. PortalInv'  BY PortalStep DEF UtmInv
<1>2. CacheInv'
  <2>1. CASE cache' \in {cache, NoCapability}  BY <2>1 DEF UtmInv, CacheInv
  <2>2. CASE \E rows \in Scans, untold \in SUBSET Kind : Scan(rows, untold)  BY <2>2, ScanStep
  <2> QED
    BY <2>1, <2>2 DEF Next, vars, portal, Open, Fail, Close, Probe, ProbeLegacy, RecordsChange,
       SwitchLeads, SwitchMode, Expire
<1>3. RequestInv' /\ ProofInv' /\ LegsInv'
  <2>1. CASE Fail
    <3>1. report' = Refused("failed")  BY <2>1 DEF Fail
    <3> QED  BY <3>1, RefusedIsSafe
  <2>2. CASE Close
    BY <2>2 DEF Close, RequestInv, ProofInv, LegsInv, Asking
  <2>3. CASE UNCHANGED <<report, rights>>
    BY <2>3 DEF UtmInv, RequestInv, ProofInv, LegsInv, Asking, IsReport
  <2>4. CASE SwitchLeads \/ SwitchMode \/ Expire \/ UNCHANGED vars
    <3>1. UNCHANGED <<report, rights>>
      BY <2>4 DEF SwitchLeads, SwitchMode, Expire, vars, portal
    <3> QED  BY <2>3, <3>1
  <2>5. ASSUME NEW k \in Kind, RecordsChange(k) PROVE RequestInv' /\ ProofInv' /\ LegsInv'
    BY <2>5, RecordsStep
  <2> QED
    BY <2>1, <2>2, <2>4, <2>5, OpenStep, ProbeStep, ProbeLegacyStep, ScanStep DEF Next
<1> QED  BY <1>1, <1>2, <1>3 DEF UtmInv

\* The rows of an answer are some of those the scan returned.
RowsInv ==
    Shown => /\ IsFiniteSet(DOMAIN report.rows)
             /\ \A i \in DOMAIN report.rows :
                  /\ report.rows[i].tags \in [Dimension -> Value \cup {NoTag}]
                  /\ report.rows[i].account # NoMoney => report.rows[i].native # NoMoney

LEMMA RowsStep == UtmInv /\ RowsInv /\ [Next]_vars => RowsInv'
<1> SUFFICES ASSUME UtmInv, RowsInv, [Next]_vars PROVE RowsInv'  OBVIOUS
<1>1. ASSUME NEW rows \in Scans, NEW untold, Scan(rows, untold) PROVE RowsInv'
  <2> DEFINE view == View(report.can)
             legs == Legs(view) \ Dropped(view)
             read == [i \in {j \in DOMAIN rows : rows[j].kind \in legs \cap report.sees}
                         |-> rows[i]]
  <2>1. DOMAIN read \subseteq DOMAIN rows /\ \A i \in DOMAIN read : read[i] = rows[i]
    OBVIOUS
  <2>2. /\ IsFiniteSet(DOMAIN rows)
        /\ \A i \in DOMAIN rows : rows[i].tags \in [Dimension -> Value \cup {NoTag}]
    BY UtmReportAssumption DEF Record
  <2> HIDE DEF legs, read
  <2>3. (\E code : report' = Refused(code)) \/ report'.rows = read
    BY <1>1 DEF Scan, legs, read
  <2>4. IsFiniteSet(DOMAIN read)  BY <2>1, <2>2, FS_Subset
  <2> QED
    BY <2>1, <2>2, <2>3, <2>4, RefusedIsSafe, ConversionAssumption DEF RowsInv
<1>2. CASE report' = report  BY <1>2 DEF RowsInv, Shown
<1>3. CASE ~Shown'  BY <1>3 DEF RowsInv
<1>4. CASE \E v \in Viewer : \E sees \in SUBSET rights[v] : Open(v, sees)  BY <1>3, <1>4 DEF Open, Shown
<1>5. CASE Fail \/ Close
  BY <1>3, <1>5, RefusedIsSafe DEF Fail, Close, Shown
<1>6. CASE \E blank \in SUBSET Kind : Probe(blank) \/ ProbeLegacy(blank)
  BY <1>3, <1>6, ProbeStep, ProbeLegacyStep
<1>7. CASE \E k \in Kind : RecordsChange(k)  BY <1>3, <1>7, RecordsStep
<1> QED
  BY <1>1, <1>2, <1>4, <1>5, <1>6, <1>7 DEF Next, vars, SwitchLeads, SwitchMode, Expire

LEMMA OneAtMost ==
  ASSUME NEW S, IsFiniteSet(S), Cardinality(S) <= 1, NEW x \in S, NEW y \in S
  PROVE  x = y
<1>1. Cardinality({x}) = 1  BY FS_Singleton
<1>2. {x} \in SUBSET S /\ Cardinality(S) \in Nat  BY FS_CardinalityType
<1>3. Cardinality({x}) <= Cardinality(S) /\ (Cardinality(S) = Cardinality({x}) => S = {x})
  BY <1>2, FS_Subset
<1>4. S = {x}  BY <1>1, <1>2, <1>3
<1> QED  BY <1>4

LEMMA CurrenciesAreFinite ==
  ASSUME NEW rows, IsFiniteSet(DOMAIN rows)
  PROVE  IsFiniteSet(Currencies(rows))
<1> DEFINE f == [i \in Priced(rows) |-> CurrencyIn(Source(rows), rows[i])]
           T == {CurrencyIn(Source(rows), rows[i]) : i \in Priced(rows)}
<1>1. Priced(rows) \subseteq DOMAIN rows  BY DEF Priced
<1>2. IsFiniteSet(Priced(rows))  BY <1>1, FS_Subset
<1>3. f \in Surjection(Priced(rows), T)  BY DEF Surjection
<1>4. IsFiniteSet(T)  BY <1>2, <1>3, FS_Surjection
<1>5. Currencies(rows) \subseteq T  BY DEF Currencies
<1> QED  BY <1>4, <1>5, FS_Subset

\* Every priced deal carries an amount in the source that was chosen.
LEMMA SourceIsThere ==
  ASSUME RowsInv, Shown, NEW i \in Priced(report.rows)
  PROVE  CurrencyIn(Source(report.rows), report.rows[i]) # NoMoney
<1>1. CASE Source(report.rows) = "account"
  BY <1>1 DEF Source, CurrencyIn
<1>2. CASE Source(report.rows) = "native"
  <2>1. i \in DOMAIN report.rows
        /\ (report.rows[i].account # NoMoney \/ report.rows[i].native # NoMoney)
    BY DEF Priced
  <2> QED  BY <1>2, <2>1 DEF RowsInv, CurrencyIn
<1> QED  BY <1>1, <1>2 DEF Source

LEMMA TrustedIsOneCurrency == RowsInv => OneCurrency
<1> DEFINE cur(n) == CurrencyIn(Source(report.rows), report.rows[n])
<1> SUFFICES ASSUME RowsInv, Shown, Trusted(report.rows),
                    NEW i \in Priced(report.rows), NEW j \in Priced(report.rows)
             PROVE  cur(i) # NoMoney /\ (Unnamed \notin {cur(i), cur(j)} => cur(i) = cur(j))
  BY DEF OneCurrency
<1>1. cur(i) # NoMoney /\ cur(j) # NoMoney  BY SourceIsThere
<1>2. ASSUME Unnamed \notin {cur(i), cur(j)} PROVE cur(i) = cur(j)
  <2>1. cur(i) \in Currencies(report.rows) /\ cur(j) \in Currencies(report.rows)
    BY <1>1, <1>2 DEF Currencies
  <2>2. IsFiniteSet(Currencies(report.rows))  BY CurrenciesAreFinite DEF RowsInv
  <2>3. Cardinality(Currencies(report.rows)) <= 1  BY DEF Trusted
  <2> HIDE DEF cur
  <2> QED  BY <2>1, <2>2, <2>3, OneAtMost
<1> QED  BY <1>1, <1>2

\* What enters the cache was concluded by a report of this capability, and a leg
\* of it returned a row.
LEMMA CachedIsProved ==
  ASSUME UtmInv, [Next]_vars, cache' \notin {cache, NoCapability}
  PROVE  /\ \A k \in Kind :
              IF cache'[k] = "none" THEN report.asked[k]["legacy"] = "absent"
              ELSE \/ report.asked[k][cache'[k]] = "ok"
                   \/ report.asked[k][cache'[k]] = "ignores" /\ k \notin report.seen
         /\ \E k \in Kind :
              /\ cache'[k] # "none"
              /\ \/ report.asked[k][cache'[k]] = "ok"
                 \/ k \in report.sees \ report.seen
<1>1. PICK rows \in Scans, untold \in SUBSET Kind : Scan(rows, untold)
  BY DEF Next, vars, portal, Open, Fail, Close, Probe, ProbeLegacy, RecordsChange,
     SwitchLeads, SwitchMode, Expire
<1> DEFINE legs == Legs(View(report.can)) \ Dropped(View(report.can))
           read == [i \in {j \in DOMAIN rows : rows[j].kind \in legs \cap report.sees}
                       |-> rows[i]]
           counted == {read[i].kind : i \in DOMAIN read} \ untold
<1>2. /\ report # NoReport /\ report.phase = "scan"
      /\ cache' = report.can /\ ~report.warm /\ report.cacheable /\ Evidence(counted)
  BY <1>1 DEF Scan, CachedWhole
<1>3. /\ \A k \in Kind : Proved(report.can[k], report.asked[k], report.seen, k)
      /\ Reads(report.can)
  BY <1>2 DEF UtmInv, ProofInv, RequestInv, Asking, Phases
<1>4. \A k \in Kind : IF cache'[k] = "none" THEN report.asked[k]["legacy"] = "absent"
        ELSE \/ report.asked[k][cache'[k]] = "ok"
             \/ report.asked[k][cache'[k]] = "ignores" /\ k \notin report.seen
  BY <1>2, <1>3 DEF Proved, Reads, Verdicts
<1>5. PICK k \in legs : k \in report.sees
  <2>1. PICK i \in DOMAIN read : TRUE  BY <1>2 DEF Evidence
  <2> QED  BY <2>1
<1>6. k \in Kind /\ report.can[k] # "none"
  BY <1>3, <1>5 DEF Reads, Legs, View, Kind
<1> QED  BY <1>2, <1>4, <1>5, <1>6

-----------------------------------------------------------------------------
(* Sums over finite sets *)

\* The sum of one column of the aggregates of some keys, as _Acc.merge adds it.
ColumnSum(a, k, S) == MapThenSumSet(LAMBDA x : a[x][k], S)

Some(s) == CHOOSE x \in s : TRUE

Sums(sum, a, k, S) ==
    sum = [s \in SUBSET S |-> IF s = {} THEN 0
                              ELSE LET x == CHOOSE x \in s : TRUE IN a[x][k] + sum[s \ {x}]]

LEMMA ColumnSumIsChosen ==
  ASSUME NEW a, NEW k, NEW S
  PROVE  ColumnSum(a, k, S) = (CHOOSE sum : Sums(sum, a, k, S))[S]
BY DEF ColumnSum, MapThenSumSet, MapThenFoldSet, Sums

LEMMA SumsAt ==
  ASSUME NEW sum, NEW a, NEW k, NEW S, Sums(sum, a, k, S), NEW s \in SUBSET S
  PROVE  sum[s] = IF s = {} THEN 0 ELSE a[Some(s)][k] + sum[s \ {Some(s)}]
BY DEF Sums, Some

LEMMA SomeIsIn == ASSUME NEW s, s # {} PROVE Some(s) \in s
BY DEF Some

\* Induction over the subsets of a finite set: G holds the sets it is true of.
LEMMA SubsetInduction ==
  ASSUME NEW U, IsFiniteSet(U), NEW G,
         \A s \in SUBSET U : (\A t \in SUBSET s : t # s => t \in G) => s \in G
  PROVE  \A s \in SUBSET U : s \in G
<1> DEFINE bad == {s \in SUBSET U : s \notin G}
<1> SUFFICES ASSUME bad # {} PROVE FALSE  OBVIOUS
<1>1. FiniteSubsetsOf(U) = SUBSET U  BY FS_FiniteSubsetsOfFinite
<1>2. IsWellFoundedOn(StrictSubsetOrdering(U), SUBSET U)
  <2>1. IsWellFoundedOn(StrictSubsetOrdering(U), FiniteSubsetsOf(U))
    BY FS_StrictSubsetOrderingWellFounded
  <2> QED  BY <1>1, <2>1, Zenon
<1>3. PICK s \in bad : \A t \in bad : ~ (<<t, s>> \in StrictSubsetOrdering(U))
  <2>1. bad \subseteq SUBSET U  OBVIOUS
  <2> HIDE DEF bad
  <2> QED  BY <1>2, <2>1, WFMin
<1>4. \A t \in SUBSET s : t # s => t \in G
  <2> SUFFICES ASSUME NEW t \in SUBSET s, t # s PROVE t \in G  OBVIOUS
  <2>1. t \in SUBSET U /\ s \in SUBSET U  BY <1>3
  <2>2. <<t, s>> \in StrictSubsetOrdering(U)  BY <2>1 DEF StrictSubsetOrdering
  <2> QED  BY <1>3, <2>1, <2>2
<1> QED  BY <1>3, <1>4

LEMMA SumsAgree ==
  ASSUME NEW U, IsFiniteSet(U), NEW S \in SUBSET U, NEW T \in SUBSET U, NEW a, NEW k,
         NEW f, NEW g, Sums(f, a, k, S), Sums(g, a, k, T)
  PROVE  \A s \in SUBSET (S \cap T) : f[s] = g[s]
<1> DEFINE G == {s \in SUBSET (S \cap T) : f[s] = g[s]}
<1>1. IsFiniteSet(S \cap T)  BY FS_Subset
<1>2. ASSUME NEW s \in SUBSET (S \cap T), \A t \in SUBSET s : t # s => t \in G
      PROVE  s \in G
  <2>1. /\ f[s] = IF s = {} THEN 0 ELSE a[Some(s)][k] + f[s \ {Some(s)}]
        /\ g[s] = IF s = {} THEN 0 ELSE a[Some(s)][k] + g[s \ {Some(s)}]
    BY SumsAt
  <2>2. CASE s = {}  BY <2>1, <2>2
  <2>3. CASE s # {}
    <3>1. s \ {Some(s)} \in SUBSET s /\ s \ {Some(s)} # s  BY <2>3, SomeIsIn
    <3>2. f[s \ {Some(s)}] = g[s \ {Some(s)}]  BY <1>2, <3>1
    <3> QED  BY <2>1, <2>3, <3>2
  <2> QED  BY <2>2, <2>3
<1>3. \A s \in SUBSET (S \cap T) : s \in G
  <2> HIDE DEF G
  <2>1. PICK both : both = S \cap T  OBVIOUS
  <2>2. \A s \in SUBSET both : (\A t \in SUBSET s : t # s => t \in G) => s \in G
    BY <1>2, <2>1
  <2>3. IsFiniteSet(both)  BY <1>1, <2>1
  <2>4. \A s \in SUBSET both : s \in G  BY <2>2, <2>3, SubsetInduction
  <2> QED  BY <2>1, <2>4
<1> QED  BY <1>3

LEMMA SumsExist ==
  ASSUME NEW U, IsFiniteSet(U), NEW a, NEW k
  PROVE  \A S \in SUBSET U : \E sum : Sums(sum, a, k, S)
<1> DEFINE G == {S \in SUBSET U : \E sum : Sums(sum, a, k, S)}
           sumOf(S) == CHOOSE sum : Sums(sum, a, k, S)
<1>1. ASSUME NEW T \in SUBSET U, \A t \in SUBSET T : t # T => t \in G
      PROVE  T \in G
  <2> DEFINE g == [s \in SUBSET T |-> IF s = {} THEN 0
                     ELSE a[Some(s)][k] + sumOf(s \ {Some(s)})[s \ {Some(s)}]]
  <2>1. ASSUME NEW t \in SUBSET T, t # T PROVE Sums(sumOf(t), a, k, t)
    <3>1. \E sum : Sums(sum, a, k, t)  BY <1>1, <2>1
    <3> QED  BY <3>1
  <2> HIDE DEF sumOf
  <2>2. ASSUME NEW t \in SUBSET T, t # T PROVE g[t] = sumOf(t)[t]
    <3>1. Sums(sumOf(t), a, k, t)  BY <2>1, <2>2
    <3>2. CASE t = {}
      <4>1. sumOf(t)[t] = 0  BY <3>1, <3>2, SumsAt
      <4> QED  BY <3>2, <4>1
    <3>3. CASE t # {}
      <4>1. PICK u : u = t \ {Some(t)}  OBVIOUS
      <4>2. u \in SUBSET t /\ u # t /\ u # T /\ u \in SUBSET T
        BY <2>2, <3>3, <4>1, SomeIsIn
      <4>3. sumOf(t)[t] = a[Some(t)][k] + sumOf(t)[u]  BY <3>1, <3>3, <4>1, SumsAt
      <4>4. Sums(sumOf(u), a, k, u)  BY <2>1, <4>2
      <4>5. sumOf(t)[u] = sumOf(u)[u]
        <5>1. u \in SUBSET U /\ t \in SUBSET U /\ u \in SUBSET (t \cap u)  BY <4>2
        <5> QED  BY <3>1, <4>4, <5>1, SumsAgree
      <4>6. g[t] = a[Some(t)][k] + sumOf(u)[u]  BY <3>3, <4>1
      <4> QED  BY <4>3, <4>5, <4>6
    <3> QED  BY <3>2, <3>3
  <2>3. ASSUME NEW s \in SUBSET T
        PROVE  g[s] = IF s = {} THEN 0 ELSE a[Some(s)][k] + g[s \ {Some(s)}]
    <3>1. CASE s = {}  BY <3>1
    <3>2. CASE s # {}
      <4>1. PICK u : u = s \ {Some(s)}  OBVIOUS
      <4>2. u \in SUBSET T /\ u # T  BY <3>2, <4>1, SomeIsIn
      <4>3. g[u] = sumOf(u)[u]  BY <2>2, <4>2
      <4>4. g[s] = a[Some(s)][k] + sumOf(u)[u]  BY <3>2, <4>1
      <4> QED  BY <3>2, <4>1, <4>3, <4>4
    <3> QED  BY <3>1, <3>2
  <2>4. g = [s \in SUBSET T |-> g[s]]  OBVIOUS
  <2>5. Sums(g, a, k, T)
    <3> HIDE DEF g
    <3> QED  BY <2>3, <2>4 DEF Sums, Some
  <2> QED  BY <2>5
<1>2. \A S \in SUBSET U : S \in G
  <2> HIDE DEF G
  <2> QED  BY <1>1, SubsetInduction
<1> QED  BY <1>2

LEMMA SumOfNothing ==
  ASSUME NEW a, NEW k
  PROVE  ColumnSum(a, k, {}) = 0
<1>1. PICK sum : sum = CHOOSE f : Sums(f, a, k, {})  OBVIOUS
<1>2. \E f : Sums(f, a, k, {})  BY FS_EmptySet, SumsExist
<1>3. Sums(sum, a, k, {})  BY <1>1, <1>2
<1>4. sum[{}] = 0  BY <1>3, SumsAt
<1> QED  BY <1>1, <1>4, ColumnSumIsChosen

LEMMA SumUnfolds ==
  ASSUME NEW S, IsFiniteSet(S), S # {}, NEW a, NEW k
  PROVE  ColumnSum(a, k, S) = a[Some(S)][k] + ColumnSum(a, k, S \ {Some(S)})
<1>1. PICK rest : rest = S \ {Some(S)}  OBVIOUS
<1>2. rest \in SUBSET S  BY <1>1
<1>3. PICK f : f = CHOOSE sum : Sums(sum, a, k, S)  OBVIOUS
<1>4. PICK g : g = CHOOSE sum : Sums(sum, a, k, rest)  OBVIOUS
<1>5. Sums(f, a, k, S)
  <2>1. \E sum : Sums(sum, a, k, S)  BY SumsExist
  <2> QED  BY <1>3, <2>1
<1>6. Sums(g, a, k, rest)
  <2>1. \E sum : Sums(sum, a, k, rest)  BY <1>2, SumsExist
  <2> QED  BY <1>4, <2>1
<1>7. f[S] = a[Some(S)][k] + f[rest]  BY <1>1, <1>5, SumsAt
<1>8. f[rest] = g[rest]
  <2>1. rest \in SUBSET (S \cap rest)  BY <1>2
  <2> QED  BY <1>2, <1>5, <1>6, <2>1, SumsAgree
<1> QED  BY <1>1, <1>3, <1>4, <1>7, <1>8, ColumnSumIsChosen

Numbers(a, k, U) == \A x \in U : a[x][k] \in Int

LEMMA SumIsAnInteger ==
  ASSUME NEW U, IsFiniteSet(U), NEW a, NEW k, Numbers(a, k, U)
  PROVE  \A S \in SUBSET U : ColumnSum(a, k, S) \in Int
<1> DEFINE G == {S \in SUBSET U : ColumnSum(a, k, S) \in Int}
<1>1. ASSUME NEW S \in SUBSET U, \A t \in SUBSET S : t # S => t \in G
      PROVE  S \in G
  <2>1. CASE S = {}  BY <2>1, SumOfNothing
  <2>2. CASE S # {}
    <3>1. S \ {Some(S)} \in SUBSET S /\ S \ {Some(S)} # S /\ Some(S) \in U
      BY <2>2, SomeIsIn
    <3>2. ColumnSum(a, k, S \ {Some(S)}) \in Int  BY <1>1, <3>1
    <3>3. IsFiniteSet(S)  BY FS_Subset
    <3>4. ColumnSum(a, k, S) = a[Some(S)][k] + ColumnSum(a, k, S \ {Some(S)})
      BY <2>2, <3>3, SumUnfolds
    <3> QED  BY <3>1, <3>2, <3>4 DEF Numbers
  <2> QED  BY <2>1, <2>2
<1>2. \A S \in SUBSET U : S \in G
  <2> HIDE DEF G
  <2> QED  BY <1>1, SubsetInduction
<1> QED  BY <1>2

Plus(m, n) == m + n

\* Any element may be added last.
LEMMA SumWithout ==
  ASSUME NEW U, IsFiniteSet(U), NEW a, NEW k, Numbers(a, k, U),
         NEW V \in SUBSET U, NEW z \in V
  PROVE  ColumnSum(a, k, V) = Plus(a[z][k], ColumnSum(a, k, V \ {z}))
<1> DEFINE G == {S \in SUBSET U : \A x \in S :
                   ColumnSum(a, k, S) = a[x][k] + ColumnSum(a, k, S \ {x})}
<1>1. ASSUME NEW S \in SUBSET U, \A t \in SUBSET S : t # S => t \in G
      PROVE  S \in G
  <2> SUFFICES ASSUME NEW x \in S
               PROVE  ColumnSum(a, k, S) = a[x][k] + ColumnSum(a, k, S \ {x})
    OBVIOUS
  <2>1. PICK c \in S : c = Some(S)  BY SomeIsIn
  <2>2. IsFiniteSet(S) /\ IsFiniteSet(S \ {x})  BY FS_Subset
  <2>3. ColumnSum(a, k, S) = a[c][k] + ColumnSum(a, k, S \ {c})  BY <2>1, <2>2, SumUnfolds
  <2>4. CASE x = c  BY <2>3, <2>4
  <2>5. CASE x # c
    <3>1. PICK both : both = (S \ {c}) \ {x} /\ both = (S \ {x}) \ {c}  OBVIOUS
    <3>2. S \ {c} \in G
      <4>1. S \ {c} \in SUBSET S /\ S \ {c} # S  OBVIOUS
      <4> HIDE DEF G
      <4> QED  BY <1>1, <4>1
    <3>3. S \ {x} \in G
      <4>1. S \ {x} \in SUBSET S /\ S \ {x} # S  OBVIOUS
      <4> HIDE DEF G
      <4> QED  BY <1>1, <4>1
    <3>4. ColumnSum(a, k, S \ {c}) = a[x][k] + ColumnSum(a, k, both)
      BY <2>5, <3>1, <3>2
    <3>5. ColumnSum(a, k, S \ {x}) = a[c][k] + ColumnSum(a, k, both)
      BY <2>5, <3>1, <3>3
    <3>6. /\ both \in SUBSET U /\ ColumnSum(a, k, both) \in Int
          /\ a[x][k] \in Int /\ a[c][k] \in Int
      BY <3>1, SumIsAnInteger DEF Numbers
    <3>7. PICK m \in Int, n \in Int, o \in Int :
            m = ColumnSum(a, k, both) /\ n = a[x][k] /\ o = a[c][k]
      BY <3>6
    <3>8. ColumnSum(a, k, S) = o + (n + m)  BY <2>3, <3>4, <3>7
    <3>9. ColumnSum(a, k, S \ {x}) = o + m  BY <3>5, <3>7
    <3>10. o + (n + m) = n + (o + m)  OBVIOUS
    <3> QED  BY <3>7, <3>8, <3>9, <3>10
  <2> QED  BY <2>4, <2>5
<1>2. \A S \in SUBSET U : S \in G
  <2> HIDE DEF G
  <2> QED  BY <1>1, SubsetInduction
<1> QED  BY <1>2 DEF Plus

LEMMA SumOfDisjoint ==
  ASSUME NEW U, IsFiniteSet(U), NEW a, NEW k, Numbers(a, k, U),
         NEW T \in SUBSET U
  PROVE  \A S \in SUBSET U : S \cap T = {} =>
           ColumnSum(a, k, S \cup T) = ColumnSum(a, k, S) + ColumnSum(a, k, T)
<1> DEFINE G == {S \in SUBSET U : S \cap T = {} =>
                   ColumnSum(a, k, S \cup T) = ColumnSum(a, k, S) + ColumnSum(a, k, T)}
<1>1. ASSUME NEW S \in SUBSET U, \A t \in SUBSET S : t # S => t \in G
      PROVE  S \in G
  <2> SUFFICES ASSUME S \cap T = {}
               PROVE  ColumnSum(a, k, S \cup T) = ColumnSum(a, k, S) + ColumnSum(a, k, T)
    OBVIOUS
  <2>0. ColumnSum(a, k, T) \in Int  BY SumIsAnInteger
  <2>1. CASE S = {}
    <3>1. S \cup T = T /\ ColumnSum(a, k, S) = 0  BY <2>1, SumOfNothing
    <3>2. PICK n \in Int : n = ColumnSum(a, k, T)  BY <2>0
    <3>3. ColumnSum(a, k, S \cup T) = n  BY <3>1, <3>2
    <3>4. n = 0 + n  OBVIOUS
    <3> QED  BY <3>1, <3>2, <3>3, <3>4
  <2>2. CASE S # {}
    <3>1. PICK e \in S : TRUE  BY <2>2
    <3>2. PICK rest : rest = S \ {e}  OBVIOUS
    <3>3. rest \in SUBSET S /\ rest # S /\ rest \cap T = {}  BY <3>2
    <3>4. rest \in G
      <4> HIDE DEF G
      <4> QED  BY <1>1, <3>3
    <3>5. ColumnSum(a, k, rest \cup T) = ColumnSum(a, k, rest) + ColumnSum(a, k, T)
      BY <3>3, <3>4
    <3>6. (S \cup T) \ {e} = rest \cup T /\ S \cup T \in SUBSET U  BY <3>2
    <3> HIDE DEF G
    <3>7. e \in S \cup T  OBVIOUS
    <3>8. ColumnSum(a, k, S) = Plus(a[e][k], ColumnSum(a, k, rest))
      BY <3>2, SumWithout
    <3>9. ColumnSum(a, k, S \cup T) = Plus(a[e][k], ColumnSum(a, k, (S \cup T) \ {e}))
      BY <3>6, <3>7, SumWithout
    <3>10. a[e][k] \in Int /\ ColumnSum(a, k, rest) \in Int  BY <3>3, SumIsAnInteger DEF Numbers
    <3>11. PICK m \in Int, n \in Int, o \in Int :
             m = a[e][k] /\ n = ColumnSum(a, k, rest) /\ o = ColumnSum(a, k, T)
      BY <2>0, <3>10
    <3>12. ColumnSum(a, k, S \cup T) = m + (n + o)  BY <3>5, <3>6, <3>9, <3>11 DEF Plus
    <3>13. ColumnSum(a, k, S) = m + n  BY <3>8, <3>11 DEF Plus
    <3>14. m + (n + o) = (m + n) + o  OBVIOUS
    <3> QED  BY <3>11, <3>12, <3>13, <3>14
  <2> QED  BY <2>1, <2>2
<1>2. \A S \in SUBSET U : S \in G
  <2> HIDE DEF G
  <2> QED  BY <1>1, SubsetInduction
<1> QED  BY <1>2

\* The sums of the parts of a partition add up to the sum of the whole.
Parts(part, Y, U) ==
    part \in [Y -> SUBSET U] /\ \A y, z \in Y : y # z => part[y] \cap part[z] = {}

Whole(part, S) == UNION {part[y] : y \in S}

SumsOf(b, a, k, part, Y) == \A y \in Y : b[y][k] = ColumnSum(a, k, part[y])

LEMMA SumOfParts ==
  ASSUME NEW U, IsFiniteSet(U), NEW a, NEW k, Numbers(a, k, U),
         NEW Y, IsFiniteSet(Y), NEW part, Parts(part, Y, U), NEW b, SumsOf(b, a, k, part, Y),
         NEW V \in SUBSET Y
  PROVE  ColumnSum(b, k, V) = ColumnSum(a, k, Whole(part, V))
<1> USE DEF Parts, SumsOf
<1> DEFINE whole(S) == Whole(part, S)
           G == {S \in SUBSET Y : ColumnSum(b, k, S) = ColumnSum(a, k, whole(S))}
<1>1. ASSUME NEW S \in SUBSET Y, \A t \in SUBSET S : t # S => t \in G
      PROVE  S \in G
  <2>1. CASE S = {}
    <3>1. whole(S) = {}  BY <2>1 DEF Whole
    <3> HIDE DEF whole
    <3> QED  BY <2>1, <3>1, SumOfNothing
  <2>2. CASE S # {}
    <3>1. PICK y \in S : TRUE  BY <2>2
    <3>2. PICK rest : rest = S \ {y}  OBVIOUS
    <3>3. rest \in SUBSET S /\ rest # S  BY <3>2
    <3>4. rest \in G
      <4> HIDE DEF G
      <4> QED  BY <1>1, <3>3
    <3>5. whole(S) = part[y] \cup whole(rest)  BY <3>2 DEF Whole
    <3>6. part[y] \cap whole(rest) = {}  BY <3>2 DEF Whole
    <3>7. part[y] \in SUBSET U /\ whole(rest) \in SUBSET U  BY <3>3 DEF Whole
    <3> HIDE DEF whole
    <3>8. ColumnSum(a, k, whole(S)) = ColumnSum(a, k, part[y]) + ColumnSum(a, k, whole(rest))
      BY <3>5, <3>6, <3>7, SumOfDisjoint
    <3>9. Numbers(b, k, Y)  BY SumIsAnInteger DEF Numbers
    <3>10. ColumnSum(b, k, S) = Plus(b[y][k], ColumnSum(b, k, rest))
      <4> HIDE DEF G
      <4> QED  BY <3>2, <3>9, SumWithout
    <3>11. b[y][k] = ColumnSum(a, k, part[y])  OBVIOUS
    <3>12. ColumnSum(b, k, rest) = ColumnSum(a, k, whole(rest))  BY <3>4
    <3> QED  BY <3>8, <3>10, <3>11, <3>12 DEF Plus
  <2> QED  BY <2>1, <2>2
<1>2. \A S \in SUBSET Y : S \in G
  <2> HIDE DEF G
  <2> QED  BY <1>1, SubsetInduction
<1> QED  BY <1>2

-----------------------------------------------------------------------------
(* The bucket ladder *)

LEMMA MergedIsColumns ==
  ASSUME NEW a, NEW S
  PROVE  Merged(a, S) = [k \in Kind |-> ColumnSum(a, k, S)]
BY DEF Merged, ColumnSum

Summable(a, X) == IsFiniteSet(X) /\ \A k \in Kind : Numbers(a, k, X)

\* b is a with its keys regrouped by h.
GroupedBy(b, a, h) ==
    b = [y \in {h[x] : x \in DOMAIN a} |-> Merged(a, {x \in DOMAIN a : h[x] = y})]

From(a, h, S) == {x \in DOMAIN a : h[x] \in S}

\* Aggregates regrouped add up to what they were made of.
LEMMA Regrouped ==
  ASSUME NEW a, Summable(a, DOMAIN a), NEW h, NEW b, GroupedBy(b, a, h),
         NEW S, S \subseteq DOMAIN b
  PROVE  Merged(b, S) = Merged(a, From(a, h, S))
<1>1. PICK Y : Y = {h[x] : x \in DOMAIN a}  OBVIOUS
<1>2. IsFiniteSet(Y)
  <2>1. PICK g : g = [x \in DOMAIN a |-> h[x]]  OBVIOUS
  <2>2. g \in Surjection(DOMAIN a, Y)  BY <1>1, <2>1 DEF Surjection
  <2>3. IsFiniteSet(DOMAIN a)  BY DEF Summable
  <2> QED  BY <2>2, <2>3, FS_Surjection
<1>3. PICK part : part = [y \in Y |-> {x \in DOMAIN a : h[x] = y}]  OBVIOUS
<1>4. Parts(part, Y, DOMAIN a)  BY <1>1, <1>3 DEF Parts
<1>5. S \in SUBSET Y /\ \A y \in Y : b[y] = Merged(a, part[y])
  BY <1>1, <1>3 DEF GroupedBy
<1>6. Whole(part, S) = From(a, h, S)  BY <1>1, <1>3, <1>5 DEF Whole, From
<1>7. ASSUME NEW k \in Kind
      PROVE  ColumnSum(b, k, S) = ColumnSum(a, k, From(a, h, S))
  <2>1. SumsOf(b, a, k, part, Y)
    <3> SUFFICES ASSUME NEW y \in Y PROVE b[y][k] = ColumnSum(a, k, part[y])
      BY DEF SumsOf
    <3>1. b[y] = [c \in Kind |-> ColumnSum(a, c, part[y])]  BY <1>5, MergedIsColumns
    <3> QED  BY <3>1
  <2>2. Numbers(a, k, DOMAIN a) /\ IsFiniteSet(DOMAIN a)  BY DEF Summable
  <2>3. ColumnSum(b, k, S) = ColumnSum(a, k, Whole(part, S))
    BY <1>2, <1>4, <1>5, <2>1, <2>2, SumOfParts
  <2> QED  BY <1>6, <2>3
<1> QED  BY <1>7, MergedIsColumns

\* The keys of a scan, with their aggregates.
Accumulated(raw) ==
    /\ Summable(raw, DOMAIN raw)
    /\ DOMAIN raw \subseteq [Dimension -> Value \cup {NoTag}]

Tagged(rows) ==
    /\ IsFiniteSet(DOMAIN rows)
    /\ \A i \in DOMAIN rows : rows[i].tags \in [Dimension -> Value \cup {NoTag}]

LEMMA RawIsAccumulated ==
  ASSUME NEW rows, Tagged(rows)
  PROVE  Accumulated(Raw(rows))
<1>1. PICK raw : raw = Raw(rows)  OBVIOUS
<1>2. PICK keys : keys = {rows[i].tags : i \in DOMAIN rows}  OBVIOUS
<1>3. DOMAIN raw = keys
      /\ \A key \in keys, k \in Kind :
           raw[key][k] = Cardinality({i \in DOMAIN rows : rows[i].tags = key /\ rows[i].kind = k})
  BY <1>1, <1>2 DEF Raw
<1>4. IsFiniteSet(keys)
  <2>1. PICK g : g = [i \in DOMAIN rows |-> rows[i].tags]  OBVIOUS
  <2>2. g \in Surjection(DOMAIN rows, keys)  BY <1>2, <2>1 DEF Surjection
  <2> QED  BY <2>2, FS_Surjection DEF Tagged
<1>5. ASSUME NEW key \in keys, NEW k \in Kind PROVE raw[key][k] \in Int
  <2>1. {i \in DOMAIN rows : rows[i].tags = key /\ rows[i].kind = k} \in SUBSET DOMAIN rows
    OBVIOUS
  <2>2. Cardinality({i \in DOMAIN rows : rows[i].tags = key /\ rows[i].kind = k}) \in Nat
    BY <2>1, FS_Subset, FS_CardinalityType DEF Tagged
  <2> QED  BY <1>3, <2>2
<1>6. keys \subseteq [Dimension -> Value \cup {NoTag}]  BY <1>2 DEF Tagged
<1> QED  BY <1>1, <1>3, <1>4, <1>5, <1>6 DEF Accumulated, Summable, Numbers

\* A facet with its residue is the keys regrouped by the remap of their value.
LEMMA WireIsByRemap ==
  ASSUME NEW raw, Accumulated(raw), NEW facets, facets = Facets(raw), NEW d \in Dimension,
         NEW h, h = [key \in DOMAIN raw |-> Remap(facets, d, key[d])]
  PROVE  GroupedBy(FacetWire(facets[d]), raw, h)
<1>1. PICK values : values = facets[d]  OBVIOUS
<1>2. PICK g : g = [key \in DOMAIN raw |-> key[d]]  OBVIOUS
<1>3. GroupedBy(values, raw, g)
  <2>1. values = [v \in {key[d] : key \in DOMAIN raw} |->
                    Merged(raw, {key \in DOMAIN raw : key[d] = v})]
    BY <1>1 DEF Facets
  <2>2. {g[key] : key \in DOMAIN raw} = {key[d] : key \in DOMAIN raw}  BY <1>2
  <2>3. \A v : {key \in DOMAIN raw : g[key] = v} = {key \in DOMAIN raw : key[d] = v}
    BY <1>2
  <2> QED  BY <2>1, <2>2, <2>3 DEF GroupedBy
<1>4. PICK kept : kept = Kept(values)  OBVIOUS
<1>5. PICK rest : rest = DOMAIN values \ kept  OBVIOUS
<1>6. kept \subseteq DOMAIN values /\ Other \notin DOMAIN values
  <2>1. DOMAIN values \subseteq Value \cup {NoTag}  BY <1>2, <1>3 DEF Accumulated, GroupedBy
  <2>2. Other \notin Value \cup {NoTag}  BY UtmReportAssumption DEF Other, NoTag
  <2> QED  BY <1>4, <2>1, <2>2 DEF Kept
<1>7. \A key \in DOMAIN raw :
        /\ g[key] \in DOMAIN values
        /\ h[key] = IF g[key] \in kept THEN g[key] ELSE Other
  BY <1>1, <1>2, <1>3, <1>4 DEF Remap, GroupedBy
<1>8. PICK names : names = kept \cup (IF rest = {} THEN {} ELSE {Other})  OBVIOUS
<1>9. names = {h[key] : key \in DOMAIN raw}
  <2>1. ASSUME NEW v \in names PROVE v \in {h[key] : key \in DOMAIN raw}
    <3>1. CASE v \in kept
      <4>1. PICK key \in DOMAIN raw : g[key] = v  BY <1>3, <1>6, <3>1 DEF GroupedBy
      <4> QED  BY <1>7, <3>1, <4>1
    <3>2. CASE v = Other /\ rest # {}
      <4>1. PICK w \in rest : TRUE  BY <3>2
      <4>2. PICK key \in DOMAIN raw : g[key] = w  BY <1>3, <1>5, <4>1 DEF GroupedBy
      <4> QED  BY <1>5, <1>7, <3>2, <4>1, <4>2
    <3> QED  BY <1>8, <2>1, <3>1, <3>2
  <2>2. ASSUME NEW key \in DOMAIN raw PROVE h[key] \in names
    BY <1>5, <1>7, <1>8
  <2> QED  BY <2>1, <2>2
<1>10. FacetWire(values) = [v \in names |-> IF v = Other THEN Merged(values, rest) ELSE values[v]]
  BY <1>4, <1>5, <1>8 DEF FacetWire
<1>11. ASSUME NEW v \in names
       PROVE  (IF v = Other THEN Merged(values, rest) ELSE values[v])
                = Merged(raw, {key \in DOMAIN raw : h[key] = v})
  <2>1. CASE v = Other
    <3>1. Merged(values, rest) = Merged(raw, {key \in DOMAIN raw : g[key] \in rest})
      <4>1. rest \in SUBSET DOMAIN values  BY <1>5
      <4>2. Merged(values, rest) = Merged(raw, From(raw, g, rest))
        BY <1>3, <4>1, Regrouped DEF Accumulated
      <4> QED  BY <4>2 DEF From
    <3>2. {key \in DOMAIN raw : g[key] \in rest} = {key \in DOMAIN raw : h[key] = v}
      BY <1>5, <1>6, <1>7, <2>1
    <3> QED  BY <2>1, <3>1, <3>2
  <2>2. CASE v # Other
    <3>1. v \in DOMAIN values /\ v \in kept  BY <1>6, <1>8, <2>2
    <3>2. values[v] = Merged(raw, {key \in DOMAIN raw : g[key] = v})  BY <1>3, <3>1 DEF GroupedBy
    <3>3. {key \in DOMAIN raw : g[key] = v} = {key \in DOMAIN raw : h[key] = v}
      BY <1>7, <2>2, <3>1
    <3> QED  BY <2>2, <3>2, <3>3
  <2> QED  BY <2>1, <2>2
<1> QED  BY <1>1, <1>9, <1>10, <1>11 DEF GroupedBy

\* Totals do not see how the keys are grouped.
LEMMA TotalsStay ==
  ASSUME NEW raw, Accumulated(raw), NEW h, NEW b, GroupedBy(b, raw, h)
  PROVE  Totals(b) = Totals(raw)
<1>1. Merged(b, DOMAIN b) = Merged(raw, From(raw, h, DOMAIN b))
  BY Regrouped DEF Accumulated
<1>2. From(raw, h, DOMAIN b) = DOMAIN raw  BY DEF From, GroupedBy
<1> QED  BY <1>1, <1>2 DEF Totals

Onto(facets, dims, lifted, key) ==
    [d \in dims |-> IF d \in lifted THEN Collapsed ELSE Remap(facets, d, key[d])]

AddsUp(raw, facets, dims, lifted, rows) ==
    /\ Totals(rows) = Totals(raw)
    /\ \A d \in dims \ lifted :
         FacetWire(facets[d]) = [v \in {p[d] : p \in DOMAIN rows} |->
                                   Merged(rows, {p \in DOMAIN rows : p[d] = v})]

LEMMA RowsAddUp ==
  ASSUME NEW raw, Accumulated(raw), NEW facets, facets = Facets(raw),
         NEW dims \in SUBSET Dimension, NEW lifted, NEW rows,
         rows = Project(raw, facets, dims, lifted)
  PROVE  AddsUp(raw, facets, dims, lifted, rows)
<1>1. PICK h : h = [key \in DOMAIN raw |-> Onto(facets, dims, lifted, key)]  OBVIOUS
<1>2. GroupedBy(rows, raw, h)
  <2>1. rows = [p \in {Onto(facets, dims, lifted, key) : key \in DOMAIN raw} |->
                  Merged(raw, {key \in DOMAIN raw : Onto(facets, dims, lifted, key) = p})]
    BY DEF Project, Onto
  <2>2. {h[key] : key \in DOMAIN raw} = {Onto(facets, dims, lifted, key) : key \in DOMAIN raw}
    BY <1>1
  <2>3. \A p : {key \in DOMAIN raw : h[key] = p}
                 = {key \in DOMAIN raw : Onto(facets, dims, lifted, key) = p}
    BY <1>1
  <2>4. PICK keys : keys = {h[key] : key \in DOMAIN raw}  OBVIOUS
  <2>5. ASSUME NEW p
        PROVE  Merged(raw, {key \in DOMAIN raw : Onto(facets, dims, lifted, key) = p})
                 = Merged(raw, {key \in DOMAIN raw : h[key] = p})
    BY <2>3
  <2>6. rows = [p \in keys |-> Merged(raw, {key \in DOMAIN raw : h[key] = p})]
    BY <2>1, <2>2, <2>4, <2>5
  <2> QED  BY <2>4, <2>6 DEF GroupedBy
<1>3. Totals(rows) = Totals(raw)  BY <1>2, TotalsStay
<1>4. ASSUME NEW d \in dims \ lifted
      PROVE  FacetWire(facets[d]) = [v \in {p[d] : p \in DOMAIN rows} |->
                                       Merged(rows, {p \in DOMAIN rows : p[d] = v})]
  <2>1. PICK r : r = [key \in DOMAIN raw |-> Remap(facets, d, key[d])]  OBVIOUS
  <2>2. FacetWire(facets[d])
          = [v \in {r[key] : key \in DOMAIN raw} |->
               Merged(raw, {key \in DOMAIN raw : r[key] = v})]
    BY <2>1, WireIsByRemap DEF GroupedBy
  <2>3. \A key \in DOMAIN raw : h[key][d] = r[key]  BY <1>1, <2>1 DEF Onto
  <2>4. {p[d] : p \in DOMAIN rows} = {r[key] : key \in DOMAIN raw}
    <3>1. DOMAIN rows = {h[key] : key \in DOMAIN raw}  BY <1>2 DEF GroupedBy
    <3> QED  BY <2>3, <3>1
  <2>5. ASSUME NEW v
        PROVE  Merged(rows, {p \in DOMAIN rows : p[d] = v})
                 = Merged(raw, {key \in DOMAIN raw : r[key] = v})
    <3>1. PICK S \in SUBSET DOMAIN rows : S = {p \in DOMAIN rows : p[d] = v}  OBVIOUS
    <3>2. Merged(rows, S) = Merged(raw, From(raw, h, S))
      BY <1>2, <3>1, Regrouped DEF Accumulated
    <3>3. From(raw, h, S) = {key \in DOMAIN raw : r[key] = v}
      BY <1>2, <2>3, <3>1 DEF From, GroupedBy
    <3> QED  BY <3>1, <3>2, <3>3
  <2>6. PICK names : names = {r[key] : key \in DOMAIN raw}  OBVIOUS
  <2>7. FacetWire(facets[d])
          = [v \in names |-> Merged(rows, {p \in DOMAIN rows : p[d] = v})]
    BY <2>2, <2>5, <2>6
  <2> QED  BY <2>4, <2>6, <2>7
<1> QED  BY <1>3, <1>4 DEF AddsUp

LEMMA FacetsAddUp ==
  ASSUME NEW raw, Accumulated(raw), NEW facets, facets = Facets(raw), NEW d \in Dimension
  PROVE  Totals(FacetWire(facets[d])) = Totals(raw)
<1>1. PICK h : h = [key \in DOMAIN raw |-> Remap(facets, d, key[d])]  OBVIOUS
<1> QED  BY <1>1, WireIsByRemap, TotalsStay

LEMMA TaggedIsWhole == (Shown => Tagged(report.rows)) => NothingDropped
<1> SUFFICES ASSUME Shown, Tagged(report.rows) PROVE NothingDropped
  BY DEF NothingDropped
<1>1. PICK raw : raw = Raw(report.rows)  OBVIOUS
<1>2. PICK facets : facets = Facets(raw)  OBVIOUS
<1>3. Accumulated(raw)  BY <1>1, RawIsAccumulated
<1>4. \A d \in Dimension : Totals(FacetWire(facets[d])) = Totals(raw)
  BY <1>2, <1>3, FacetsAddUp
<1>5. ASSUME NEW dims \in {Dimension, {"source", "term"}}
      PROVE  \E lifted \in {CollapsedOf(raw, facets, dims)} :
             \E rows \in {Project(raw, facets, dims, lifted)} :
                /\ Totals(rows) = Totals(raw)
                /\ \A d \in dims \ lifted :
                     FacetWire(facets[d]) =
                        [v \in {p[d] : p \in DOMAIN rows} |->
                            Merged(rows, {p \in DOMAIN rows : p[d] = v})]
  <2>1. dims \in SUBSET Dimension  BY DEF Dimension
  <2>2. PICK lifted : lifted = CollapsedOf(raw, facets, dims)  OBVIOUS
  <2>3. PICK rows : rows = Project(raw, facets, dims, lifted)  OBVIOUS
  <2>4. AddsUp(raw, facets, dims, lifted, rows)  BY <1>2, <1>3, <2>1, <2>3, RowsAddUp
  <2> QED  BY <2>2, <2>3, <2>4 DEF AddsUp
<1> QED  BY <1>1, <1>2, <1>4, <1>5 DEF NothingDropped

-----------------------------------------------------------------------------
(* The ranking *)

\* The values of a facet, as _ranked compares them.
Weighed(values, S) ==
    IsFiniteSet(S) /\ \A v \in S : v \in Int /\ Weight(values[v]) \in Int

Ranks(values, S, v) == Cardinality({w \in S : Ahead(values, w, v)})

Top(values, S, n) == {v \in S : Ranks(values, S, v) < n}

LEMMA AheadOrders ==
  ASSUME NEW values, NEW S, Weighed(values, S), NEW u \in S, NEW v \in S, NEW w \in S
  PROVE  /\ ~Ahead(values, v, v)
         /\ Ahead(values, u, v) /\ Ahead(values, v, w) => Ahead(values, u, w)
         /\ u # v => Ahead(values, u, v) \/ Ahead(values, v, u)
         /\ Ahead(values, u, v) => ~Ahead(values, v, u)
<1>1. PICK a \in Int, b \in Int, c \in Int :
        a = Weight(values[u]) /\ b = Weight(values[v]) /\ c = Weight(values[w])
  BY DEF Weighed
<1>2. u \in Int /\ v \in Int /\ w \in Int  BY DEF Weighed
<1>3. /\ Ahead(values, v, v) <=> b > b \/ (b = b /\ v < v)
      /\ Ahead(values, u, v) <=> a > b \/ (a = b /\ u < v)
      /\ Ahead(values, v, u) <=> b > a \/ (b = a /\ v < u)
      /\ Ahead(values, v, w) <=> b > c \/ (b = c /\ v < w)
      /\ Ahead(values, u, w) <=> a > c \/ (a = c /\ u < w)
  BY <1>1 DEF Ahead
<1> QED  BY <1>2, <1>3

IsLast(values, S, m) == m \in S /\ \A v \in S \ {m} : Ahead(values, v, m)

LEMMA LastExists ==
  ASSUME NEW values, NEW S, Weighed(values, S)
  PROVE  \A T \in SUBSET S : T # {} => \E m : IsLast(values, T, m)
<1> DEFINE G == {T \in SUBSET S : T # {} => \E m : IsLast(values, T, m)}
<1>1. ASSUME NEW T \in SUBSET S, \A t \in SUBSET T : t # T => t \in G
      PROVE  T \in G
  <2> SUFFICES ASSUME T # {} PROVE \E m : IsLast(values, T, m)  OBVIOUS
  <2>1. PICK e \in T : TRUE  OBVIOUS
  <2>2. PICK rest \in SUBSET T : rest = T \ {e}  OBVIOUS
  <2>3. CASE rest = {}
    <3>1. IsLast(values, T, e)  BY <2>2, <2>3 DEF IsLast
    <3> QED  BY <3>1
  <2>4. CASE rest # {}
    <3>1. rest \in G
      <4>1. rest # T  BY <2>1, <2>2
      <4> HIDE DEF G
      <4> QED  BY <1>1, <4>1
    <3>2. PICK m : IsLast(values, rest, m)  BY <2>4, <3>1
    <3>3. m \in rest /\ m \in S /\ e \in S /\ m # e  BY <2>1, <2>2, <3>2 DEF IsLast
    <3>4. CASE Ahead(values, e, m)
      <4>1. IsLast(values, T, m)  BY <2>2, <3>2, <3>3, <3>4 DEF IsLast
      <4> QED  BY <4>1
    <3>5. CASE Ahead(values, m, e)
      <4>1. ASSUME NEW v \in T \ {e} PROVE Ahead(values, v, e)
        <5>1. CASE v = m  BY <3>5, <5>1
        <5>2. CASE v # m
          <6>1. Ahead(values, v, m) /\ v \in S  BY <2>2, <3>2, <5>2 DEF IsLast
          <6> QED  BY <3>3, <3>5, <6>1, AheadOrders
        <5> QED  BY <5>1, <5>2
      <4>2. IsLast(values, T, e)  BY <4>1 DEF IsLast
      <4> QED  BY <4>2
    <3> QED  BY <3>3, <3>4, <3>5, AheadOrders
  <2> QED  BY <2>3, <2>4
<1>2. \A T \in SUBSET S : T \in G
  <2> HIDE DEF G
  <2>1. IsFiniteSet(S)  BY DEF Weighed
  <2> QED  BY <1>1, <2>1, SubsetInduction
<1> QED  BY <1>2

Lesser(m, n) == IF m <= n THEN m ELSE n

\* The last element has all the others ahead of it, and is ahead of none.
LEMMA TopGrows ==
  ASSUME NEW values, NEW S, Weighed(values, S), NEW m, IsLast(values, S, m), NEW n \in Nat,
         NEW rest, rest = S \ {m}
  PROVE  Top(values, S, n)
           = Top(values, rest, n) \cup (IF Cardinality(rest) < n THEN {m} ELSE {})
<1>1. m \in S /\ rest \in SUBSET S  BY DEF IsLast
<1>2. Ranks(values, S, m) = Cardinality(rest)
  <2>1. ~Ahead(values, m, m)  BY <1>1, AheadOrders
  <2>2. {w \in S : Ahead(values, w, m)} = rest  BY <2>1 DEF IsLast
  <2> QED  BY <2>2 DEF Ranks
<1>3. ASSUME NEW v \in rest PROVE Ranks(values, S, v) = Ranks(values, rest, v)
  <2>1. v \in S /\ Ahead(values, v, m)  BY DEF IsLast
  <2>2. ~Ahead(values, m, v)  BY <1>1, <2>1, AheadOrders
  <2>3. {w \in S : Ahead(values, w, v)} = {w \in rest : Ahead(values, w, v)}  BY <2>2
  <2> QED  BY <2>3 DEF Ranks
<1> QED  BY <1>1, <1>2, <1>3 DEF Top

LEMMA TopCounts ==
  ASSUME NEW values, NEW S, Weighed(values, S), NEW n \in Nat
  PROVE  \A T \in SUBSET S : Cardinality(Top(values, T, n)) = Lesser(n, Cardinality(T))
<1> DEFINE G == {T \in SUBSET S : Cardinality(Top(values, T, n)) = Lesser(n, Cardinality(T))}
<1>0. IsFiniteSet(S)  BY DEF Weighed
<1>1. ASSUME NEW T \in SUBSET S, \A t \in SUBSET T : t # T => t \in G
      PROVE  T \in G
  <2>1. CASE T = {}
    <3>1. Top(values, T, n) = {}  BY <2>1 DEF Top
    <3>2. Cardinality({}) = 0  BY FS_EmptySet
    <3> QED  BY <2>1, <3>1, <3>2 DEF Lesser
  <2>2. CASE T # {}
    <3>1. PICK m : IsLast(values, T, m)  BY <2>2, LastExists
    <3>2. PICK rest : rest = T \ {m}  OBVIOUS
    <3>3. m \in T /\ rest \in SUBSET T /\ rest # T  BY <3>1, <3>2 DEF IsLast
    <3>4. rest \in G
      <4> HIDE DEF G
      <4> QED  BY <1>1, <3>3
    <3>5. IsFiniteSet(T) /\ IsFiniteSet(rest)  BY <1>0, <3>3, FS_Subset
    <3>6. Cardinality(rest) \in Nat /\ Cardinality(T) = Cardinality(rest) + 1
      <4>1. Cardinality(rest \cup {m}) = Cardinality(rest) + 1
        BY <3>2, <3>5, FS_AddElement
      <4>2. T = rest \cup {m}  BY <3>2, <3>3
      <4> QED  BY <3>5, <4>1, <4>2, FS_CardinalityType
    <3>7. Weighed(values, T)  BY <3>5 DEF Weighed
    <3>8. Top(values, T, n)
            = Top(values, rest, n) \cup (IF Cardinality(rest) < n THEN {m} ELSE {})
      BY <3>1, <3>2, <3>7, TopGrows
    <3>9. Cardinality(Top(values, rest, n)) = Lesser(n, Cardinality(rest))  BY <3>4
    <3>10. m \notin Top(values, rest, n) /\ IsFiniteSet(Top(values, rest, n))
      <4>1. Top(values, rest, n) \in SUBSET rest  BY DEF Top
      <4> QED  BY <3>2, <3>5, <4>1, FS_Subset
    <3>11. Cardinality(Top(values, rest, n) \cup {m})
             = Cardinality(Top(values, rest, n)) + 1
      BY <3>10, FS_AddElement
    <3> HIDE DEF G
    <3>12. PICK c \in Nat : c = Cardinality(rest)  BY <3>6
    <3>13. Cardinality(Top(values, T, n)) = Lesser(n, Cardinality(T))
      <4>1. CASE c < n
        <5>1. Lesser(n, c) = c /\ Lesser(n, c + 1) = c + 1  BY <4>1 DEF Lesser
        <5>2. Top(values, T, n) = Top(values, rest, n) \cup {m}  BY <3>8, <3>12, <4>1
        <5> QED  BY <3>6, <3>9, <3>11, <3>12, <5>1, <5>2
      <4>2. CASE ~(c < n)
        <5>1. Lesser(n, c) = n /\ Lesser(n, c + 1) = n  BY <4>2 DEF Lesser
        <5>2. Top(values, T, n) = Top(values, rest, n)  BY <3>8, <3>12, <4>2
        <5> QED  BY <3>6, <3>9, <3>12, <5>1, <5>2
      <4> QED  BY <4>1, <4>2
    <3> QED  BY <3>13 DEF G
  <2> QED  BY <2>1, <2>2
<1>2. \A T \in SUBSET S : T \in G
  <2> HIDE DEF G
  <2> QED  BY <1>0, <1>1, SubsetInduction
<1> QED  BY <1>2

LEMMA FacetIsWeighed ==
  ASSUME NEW raw, Accumulated(raw), NEW facets, facets = Facets(raw), NEW d \in Dimension
  PROVE  Weighed(facets[d], DOMAIN facets[d])
<1>1. PICK names : names = {key[d] : key \in DOMAIN raw}  OBVIOUS
<1>2. facets[d] = [v \in names |-> Merged(raw, {key \in DOMAIN raw : key[d] = v})]
  BY <1>1 DEF Facets
<1>3. DOMAIN facets[d] = names  BY <1>2
<1>4. IsFiniteSet(names)
  <2>1. PICK g : g = [key \in DOMAIN raw |-> key[d]]  OBVIOUS
  <2>2. g \in Surjection(DOMAIN raw, names)  BY <1>1, <2>1 DEF Surjection
  <2> QED  BY <2>2, FS_Surjection DEF Accumulated, Summable
<1>5. names \subseteq Int
  <2>1. names \subseteq Value \cup {NoTag}  BY <1>1 DEF Accumulated
  <2> QED  BY <2>1, UtmReportAssumption DEF NoTag
<1>6. ASSUME NEW v \in names PROVE Weight(facets[d][v]) \in Int
  <2>1. PICK S \in SUBSET DOMAIN raw : S = {key \in DOMAIN raw : key[d] = v}  OBVIOUS
  <2>2. facets[d][v] = [k \in Kind |-> ColumnSum(raw, k, S)]
    BY <1>2, <2>1, MergedIsColumns
  <2>3. \A k \in Kind : ColumnSum(raw, k, S) \in Int
    BY SumIsAnInteger DEF Accumulated, Summable
  <2>4. facets[d][v]["lead"] \in Int /\ facets[d][v]["deal"] \in Int
    BY <2>2, <2>3 DEF Kind
  <2> QED  BY <2>4 DEF Weight
<1> QED  BY <1>3, <1>4, <1>5, <1>6 DEF Weighed

LEMMA RankIsMonotone ==
  ASSUME NEW values, NEW S, Weighed(values, S), NEW v \in S, NEW w \in S, Ahead(values, w, v)
  PROVE  /\ Ranks(values, S, w) \in Nat /\ Ranks(values, S, v) \in Nat
         /\ Ranks(values, S, w) <= Ranks(values, S, v)
<1>1. PICK A \in SUBSET S : A = {x \in S : Ahead(values, x, w)}  OBVIOUS
<1>2. PICK B \in SUBSET S : B = {x \in S : Ahead(values, x, v)}  OBVIOUS
<1>3. A \subseteq B  BY <1>1, <1>2, AheadOrders
<1>4. IsFiniteSet(S) /\ IsFiniteSet(A) /\ IsFiniteSet(B)  BY FS_Subset DEF Weighed
<1>5. Cardinality(A) <= Cardinality(B)  BY <1>3, <1>4, FS_Subset
<1> QED  BY <1>1, <1>2, <1>4, <1>5, FS_CardinalityType DEF Ranks

-----------------------------------------------------------------------------
\* Everything is typed, and an answered report reads at least one leg and none
\* its viewer may not read (utm_stats.py:735).
THEOREM TypeCorrect == Spec => []TypeOK
BY UtmInvImplies, InitIsSafe, UtmStep, PTL DEF Spec

\* What fills a portal's capability cache, for any viewers, rights, builds and
\* scans (_capability, _report): a leg enters it as missing only when its methods
\* were, as readable only when its filter held or when the viewer had no record of
\* its kind to count; and one leg at least held, unless a record of its kind came
\* up between the probe and the scan.  That both hold is false of the code.
THEOREM TheCacheIsFilledOnEvidence == Spec => CachedOnEvidence
<1>1. UtmInv /\ [Next]_vars =>
        [cache' \notin {cache, NoCapability} =>
           /\ \A k \in Kind :
                IF cache'[k] = "none" THEN report.asked[k]["legacy"] = "absent"
                ELSE \/ report.asked[k][cache'[k]] = "ok"
                     \/ report.asked[k][cache'[k]] = "ignores" /\ k \notin report.seen
           /\ \E k \in Kind :
                /\ cache'[k] # "none"
                /\ \/ report.asked[k][cache'[k]] = "ok"
                   \/ k \in report.sees \ report.seen]_vars
  BY CachedIsProved
<1> QED  BY <1>1, InitIsSafe, UtmStep, PTL DEF Spec, CachedOnEvidence

\* An amount is printed only when every priced deal is in it, in no two
\* of them naming different currencies, whatever rows a scan returns (_amounts).
THEOREM AmountsAreOfOneCurrency == Spec => []OneCurrency
<1>1. Init => RowsInv  BY DEF Init, RowsInv, Shown
<1> QED
  BY <1>1, InitIsSafe, UtmStep, RowsStep, TrustedIsOneCurrency, PTL DEF Spec

\* The caps relabel and never drop (_remaps, _project, _combinations): whatever
\* rows a scan returns and whatever the caps are, the rows of the table add up to
\* the totals, so does every facet with its residue (_facet_wire), and a
\* dimension still in the key reads in the rows exactly as in its facet.
THEOREM TheLadderDropsNothing == Spec => []NothingDropped
<1>1. Init => RowsInv  BY DEF Init, RowsInv, Shown
<1>2. RowsInv => (Shown => Tagged(report.rows))  BY DEF RowsInv, Tagged
<1>3. RowsInv => NothingDropped  BY <1>2, TaggedIsWhole
<1> QED
  BY <1>1, <1>3, InitIsSafe, UtmStep, RowsStep, PTL DEF Spec

\* _remaps and _facet_wire keep as many values of a dimension as the cap allows,
\* all of them if they fit, and those are the heaviest: whatever is folded into
\* "other" weighs no more than any value that is shown.
THEOREM TheHeaviestAreShown ==
  ASSUME NEW rows, Tagged(rows), NEW d \in Dimension, NEW values,
         values = Facets(Raw(rows))[d]
  PROVE  /\ Cardinality(Kept(values)) = Lesser(ValueCap, Cardinality(DOMAIN values))
         /\ \A v \in Kept(values), w \in DOMAIN values \ Kept(values) : Ahead(values, v, w)
<1>1. PICK S : S = DOMAIN values  OBVIOUS
<1>2. Weighed(values, S)  BY <1>1, RawIsAccumulated, FacetIsWeighed
<1>3. Kept(values) = Top(values, S, ValueCap)  BY <1>1 DEF Kept, Top, Ranks
<1>4. ValueCap \in Nat  BY UtmReportAssumption
<1>5. Cardinality(Kept(values)) = Lesser(ValueCap, Cardinality(S))
  <2>1. S \in SUBSET S  OBVIOUS
  <2> QED  BY <1>2, <1>3, <1>4, <2>1, TopCounts
<1>6. ASSUME NEW v \in Kept(values), NEW w \in S \ Kept(values) PROVE Ahead(values, v, w)
  <2>1. v \in S /\ v # w /\ Ranks(values, S, v) < ValueCap /\ ~(Ranks(values, S, w) < ValueCap)
    BY <1>3 DEF Top
  <2>2. ~Ahead(values, w, v)
    <3> SUFFICES ASSUME Ahead(values, w, v) PROVE FALSE  OBVIOUS
    <3>1. /\ Ranks(values, S, w) \in Nat /\ Ranks(values, S, v) \in Nat
          /\ Ranks(values, S, w) <= Ranks(values, S, v)
      BY <1>2, <2>1, RankIsMonotone
    <3> QED  BY <1>4, <2>1, <3>1
  <2> QED  BY <1>2, <2>1, <2>2, AheadOrders
<1> QED  BY <1>1, <1>5, <1>6
=============================================================================
