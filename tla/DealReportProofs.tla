-------------------------- MODULE DealReportProofs --------------------------
(***************************************************************************)
(* Proofs about DealReport for every set of viewers and every number of    *)
(* deals, pages, edits and reports.                                        *)
(*                                                                         *)
(* A report outlives what it was decided on: deals move while it is read,  *)
(* and verdict and dictionary may expire or change under it.  So the       *)
(* invariant says what the report itself carries: whose token it is read   *)
(* with once an identity was proved (WhoInv), that a proved dialect is     *)
(* proved of this build, which does not change (DialectInv), and that      *)
(* whatever was counted belonged to the report at some moment (CountInv).  *)
(*                                                                         *)
(* What a report may lose is counted (LossInv).  A deal that no page still *)
(* to be read asks for is missed.  The pages of a stream have no gap, so   *)
(* one edit, which moves every place behind it by one, can move one deal   *)
(* of each of its streams past the page that was to bring it, and no more. *)
(***************************************************************************)
EXTENDS DealReport, FiniteSetTheorems, TLAPS

Phases == {"warm", "identify", "probe", "preflight", "first", "pages", "answered"}
Unread == {"warm", "identify", "probe", "preflight"}

IsReport(r) ==
    r = [viewer |-> r.viewer, token |-> r.token, legs |-> r.legs, item |-> r.item,
         probe |-> r.probe, proved |-> r.proved, phase |-> r.phase, totals |-> r.totals,
         assigned |-> r.assigned, pending |-> r.pending, counted |-> r.counted,
         untold |-> r.untold, shifts |-> r.shifts, ever |-> r.ever, always |-> r.always]

WorldInv ==
    /\ deal \in [Deal -> Record \cup {Gone}]
    /\ build \in [declares : SUBSET Key, applies : SUBSET Key]
    /\ build.applies \subseteq build.declares
    /\ rule \in BOOLEAN

CacheInv ==
    /\ verdict \in [honoured : {"unknown", "yes", "no"}, legs : BOOLEAN]
    /\ dictionary \in [Viewer -> Viewer \cup {None}]
    /\ window \in [Viewer -> 0 .. ReportLimit]
    /\ VerdictIsTrue
    /\ \A v \in Viewer : dictionary[v] \in {v, None}

\* From the first batch on, a report is read with its viewer's own token.
WhoInv ==
    /\ IsReport(report)
    /\ report.viewer \in Viewer /\ report.token \in Viewer
    /\ report.legs \in BOOLEAN /\ report.untold \in BOOLEAN /\ report.phase \in Phases
    /\ report.phase \notin {"warm", "identify"} => report.token = report.viewer

\* On crm.item.list, a proof covers every key the report sends.
DialectInv ==
    /\ report.item \in BOOLEAN /\ report.proved \in BOOLEAN
    /\ report.proved /\ report.item => Sent \subseteq build.applies

Counted == {d \in Deal : report.counted[d] > 0}

CountInv ==
    /\ report.counted \in [Deal -> 0 .. 1] /\ report.totals \in [Key -> Nat]
    /\ report.phase \in Unread => Counted = {}
    /\ report.phase \in {"first", "pages"} =>
          /\ report.pending \in Seq(Sent \X Nat)
          /\ Counting(deal) \subseteq report.ever
    /\ report.proved => Counted \subseteq report.ever

ReportInv == report # NoReport => WhoInv /\ DialectInv /\ CountInv

DealInv == WorldInv /\ CacheInv /\ ReportInv

LEMMA DealInvImplies ==
  DealInv => TypeOK /\ OnlyThePeriod /\ VerdictIsTrue /\ NothingBorrowed
BY DEF DealInv, WorldInv, CacheInv, ReportInv, WhoInv, CountInv, Counted, Shown,
  TypeOK, OnlyThePeriod, NothingBorrowed

LEMMA CardinalityIsNatural ==
  ASSUME NEW S, S \subseteq Deal
  PROVE  Cardinality(S) \in Nat
<1>1. IsFiniteSet(Deal)  BY DealReportAssumption, FS_Interval DEF Deal
<1> QED  BY <1>1, FS_Subset, FS_CardinalityType

LEMMA InitIsSafe == Init => DealInv
<1> SUFFICES ASSUME Init PROVE DealInv  OBVIOUS
<1>1. WorldInv
  BY ShapesAssumption, BuildsAssumption DEF Init, WorldInv
<1>2. CacheInv
  BY DealReportAssumption DEF Init, CacheInv, Unproven, VerdictIsTrue
<1>3. ReportInv  BY DEF Init, ReportInv
<1> QED  BY <1>1, <1>2, <1>3 DEF DealInv

-----------------------------------------------------------------------------
(* Who reads *)

LEMMA OpenedIsAReport ==
  ASSUME CacheInv, WorldInv, NEW v \in Viewer, NEW t \in Viewer, NEW e \in Filters,
         report' = Opened(v, t, e)
  PROVE  WhoInv'
<1>1. IsReport(report')  BY DEF Opened, IsReport
<1>2. report'.viewer = v /\ report'.token = t /\ report'.legs = rule /\ ~report'.untold
      /\ report'.untold \in BOOLEAN
  BY DEF Opened
<1>3. report'.phase \in {"warm", "identify"}  BY DEF Opened
<1> QED  BY <1>1, <1>2, <1>3 DEF WhoInv, WorldInv, Phases

LEMMA WorldStep == WorldInv /\ [Next]_vars => WorldInv'
<1> SUFFICES ASSUME WorldInv, [Next]_vars PROVE WorldInv'  OBVIOUS
<1>1. build' = build
  BY DEF Next, vars, Admit, Refuse, Identify, Begin, ReadPage, Answered, Probe, Edit,
     NameStages, Expire
<1>2. deal' \in [Deal -> Record \cup {Gone}]
  BY ShapesAssumption
  DEF WorldInv, Next, vars, Admit, Refuse, Identify, Begin, ReadPage, Answered, Probe,
    Edit, NameStages, Expire
<1>3. rule' \in BOOLEAN
  BY DEF WorldInv, Next, vars, Admit, Refuse, Identify, Begin, ReadPage, Answered, Probe,
    Edit, NameStages, Expire
<1> QED  BY <1>1, <1>2, <1>3 DEF WorldInv

-----------------------------------------------------------------------------
(* What is kept between reports *)

LEMMA VerdictOfAProof ==
  ASSUME WorldInv, NEW failed \in BOOLEAN, NEW baseline,
         HonourVerdict(failed, baseline) = "yes"
  PROVE  Sent \subseteq build.applies
BY DEF HonourVerdict

LEMMA LegsAreSent ==
  /\ "created" \in Sent /\ Sent \subseteq Key
  /\ report.legs => Sent = Key /\ Leg \subseteq Sent
BY DEF Sent, Key

LEMMA IdentifyKeepsCaches == DealInv /\ Identify => CacheInv'
<1> SUFFICES ASSUME DealInv, Identify PROVE CacheInv'  OBVIOUS
<1>1. UNCHANGED <<build, dictionary, window>>  BY DEF Identify
<1>2. report.legs \in BOOLEAN  BY DEF Identify, DealInv, ReportInv, WhoInv
<1>3. verdict' = verdict \/ verdict' = [honoured |-> "no", legs |-> report.legs]
  BY DEF Identify
<1> QED  BY <1>1, <1>2, <1>3 DEF DealInv, CacheInv, VerdictIsTrue

LEMMA ProbeKeepsCaches == ASSUME NEW failed \in BOOLEAN PROVE DealInv /\ Probe(failed) => CacheInv'
<1> SUFFICES ASSUME DealInv, Probe(failed) PROVE CacheInv'  OBVIOUS
<1>1. UNCHANGED <<build, window>>  BY DEF Probe
<1>2. /\ report # NoReport /\ report.phase = "probe"
      /\ dictionary' = [dictionary EXCEPT ![report.viewer] = report.token]
  BY DEF Probe
<1>3. report.token = report.viewer /\ report.viewer \in Viewer /\ report.legs \in BOOLEAN
  BY <1>2 DEF DealInv, ReportInv, WhoInv
<1>4. /\ dictionary' \in [Viewer -> Viewer \cup {None}]
      /\ \A v \in Viewer : dictionary'[v] \in {v, None}
  BY <1>2, <1>3 DEF DealInv, CacheInv
<1> DEFINE baseline == Cardinality({d \in Deal : Sees(report.token, deal[d])})
           answer == HonourVerdict(failed, baseline)
<1>5. \/ verdict' = verdict
      \/ answer \in {"yes", "no"} /\ verdict' = [honoured |-> answer, legs |-> report.legs]
  <2>1. answer \in {"unknown", "yes", "no"}  BY DEF HonourVerdict
  <2> HIDE DEF answer
  <2>2. verdict' = LET given == IF report.probe /\ report.item THEN answer ELSE "unknown"
                   IN  IF given = "unknown" THEN verdict
                       ELSE [honoured |-> given, legs |-> report.legs]
    BY Zenon DEF Probe, answer, baseline
  <2> QED  BY <2>1, <2>2
<1>6. CASE verdict' = verdict
  BY <1>1, <1>4, <1>6 DEF DealInv, CacheInv, VerdictIsTrue
<1>7. CASE answer \in {"yes", "no"} /\ verdict' = [honoured |-> answer, legs |-> report.legs]
  <2>1. verdict'.honoured \in {"yes", "no"} /\ verdict'.legs = report.legs
        /\ verdict' \in [honoured : {"unknown", "yes", "no"}, legs : BOOLEAN]
    BY <1>3, <1>7
  <2>2. VerdictIsTrue'
    BY <1>1, <1>7, <2>1, VerdictOfAProof, LegsAreSent DEF DealInv, VerdictIsTrue
  <2> QED  BY <1>1, <1>4, <2>1, <2>2 DEF DealInv, CacheInv
<1> QED  BY <1>5, <1>6, <1>7

LEMMA AdmitKeepsCaches ==
  ASSUME NEW v \in Viewer, NEW t \in Viewer, NEW e \in Filters
  PROVE  DealInv /\ Admit(v, t, e) => CacheInv'
<1> SUFFICES ASSUME DealInv, Admit(v, t, e) PROVE CacheInv'  OBVIOUS
<1>1. window[v] \in 0 .. ReportLimit /\ window[v] < ReportLimit /\ ReportLimit \in Nat
  BY DealReportAssumption DEF Admit, MayReport, DealInv, CacheInv
<1>2. window' \in [Viewer -> 0 .. ReportLimit]
  BY <1>1 DEF Admit, DealInv, CacheInv
<1> QED  BY <1>2 DEF Admit, DealInv, CacheInv, VerdictIsTrue

LEMMA ExpireKeepsCaches == DealInv /\ Expire => CacheInv'
<1> SUFFICES ASSUME DealInv, Expire PROVE CacheInv'  OBVIOUS
<1>1. build' = build  BY DEF Expire
<1>2. CASE verdict' = Unproven /\ UNCHANGED <<dictionary, window>>
  BY <1>1, <1>2 DEF Unproven, DealInv, CacheInv, VerdictIsTrue
<1>3. CASE \E v \in Viewer : /\ dictionary' = [dictionary EXCEPT ![v] = None]
                             /\ UNCHANGED <<verdict, window>>
  BY <1>1, <1>3 DEF DealInv, CacheInv, VerdictIsTrue
<1>4. CASE \E v \in Viewer : /\ window[v] > 0
                             /\ window' = [window EXCEPT ![v] = @ - 1]
                             /\ UNCHANGED <<verdict, dictionary>>
  <2>1. PICK v \in Viewer : window[v] > 0 /\ window' = [window EXCEPT ![v] = @ - 1]
    BY <1>4
  <2>2. window[v] - 1 \in 0 .. ReportLimit
    BY <2>1, DealReportAssumption DEF DealInv, CacheInv
  <2> QED  BY <1>1, <1>4, <2>1, <2>2 DEF DealInv, CacheInv, VerdictIsTrue
<1> QED  BY <1>2, <1>3, <1>4 DEF Expire

LEMMA CacheStep == DealInv /\ [Next]_vars => CacheInv'
<1> SUFFICES ASSUME DealInv, [Next]_vars PROVE CacheInv'  OBVIOUS
<1>1. CASE UNCHANGED <<build, verdict, dictionary, window>>
  BY <1>1 DEF DealInv, CacheInv, VerdictIsTrue
<1>2. \/ UNCHANGED <<build, verdict, dictionary, window>>
      \/ \E v, t \in Viewer, e \in Filters : Admit(v, t, e)
      \/ Identify \/ (\E failed \in BOOLEAN : Probe(failed)) \/ Expire
  BY DEF Next, vars, Refuse, Begin, ReadPage, Answered, Edit, NameStages
<1> QED
  BY <1>1, <1>2, IdentifyKeepsCaches, ProbeKeepsCaches, AdmitKeepsCaches,
     ExpireKeepsCaches

-----------------------------------------------------------------------------
(* One step of the report inside the gate *)

LEMMA SameReport ==
  ReportInv /\ UNCHANGED <<report, deal, build>> => ReportInv'
BY DEF ReportInv, WhoInv, DialectInv, CountInv, Counted, IsReport, Sent, Counting, Brings,
  Asked

\* A verdict that is known covers the keys of the report it is known for.
LEMMA KnownIsProved ==
  ASSUME CacheInv, DialectKnown(rule), ItemDialect
  PROVE  (IF rule THEN Key ELSE {"created"}) \subseteq build.applies
<1>1. verdict.honoured = "yes" /\ (rule => verdict.legs)
  BY DEF CacheInv, DialectKnown, ItemDialect
<1> QED  BY <1>1 DEF CacheInv, VerdictIsTrue, Key

LEMMA AdmitStep ==
  ASSUME NEW v \in Viewer, NEW t \in Viewer, NEW e \in Filters
  PROVE  DealInv /\ Admit(v, t, e) => ReportInv'
<1> SUFFICES ASSUME DealInv, Admit(v, t, e) PROVE ReportInv'  OBVIOUS
<1>1. report' = Opened(v, t, e) /\ build' = build  BY DEF Admit
<1>2. WhoInv'  BY <1>1, OpenedIsAReport DEF DealInv
<1>3. DialectInv'
  <2>1. /\ report'.item = ItemDialect /\ report'.proved = DialectKnown(rule)
        /\ report'.legs = rule
    BY <1>1 DEF Opened
  <2>2. ItemDialect \in BOOLEAN /\ DialectKnown(rule) \in BOOLEAN
    BY DEF ItemDialect, DialectKnown
  <2>3. Sent' = IF rule THEN Key ELSE {"created"}  BY <2>1 DEF Sent
  <2> QED  BY <1>1, <2>1, <2>2, <2>3, KnownIsProved DEF DialectInv, DealInv
<1>4. CountInv'
  <2>1. /\ report'.counted = [d \in Deal |-> 0] /\ report'.totals = [k \in Key |-> 0]
        /\ report'.phase \in Unread
    BY <1>1 DEF Opened, Unread
  <2>2. Counted' = {}  BY <2>1 DEF Counted
  <2> QED  BY <2>1, <2>2 DEF CountInv, Unread
<1> QED  BY <1>2, <1>3, <1>4 DEF ReportInv

\* What every step on an open report leaves alone.
Kept ==
    /\ IsReport(report')
    /\ report'.viewer = report.viewer /\ report'.token = report.token
    /\ report'.legs = report.legs /\ report'.assigned = report.assigned

LEMMA IdentifyStep == DealInv /\ Identify => ReportInv'
<1> SUFFICES ASSUME DealInv, Identify, report' # NoReport PROVE ReportInv'
  BY DEF ReportInv
<1>1. WhoInv /\ DialectInv /\ CountInv /\ report.phase = "identify"
  BY DEF Identify, DealInv, ReportInv
<1> DEFINE missing == report.item /\ ~ (Sent \subseteq build.declares)
<1>2. /\ Identified
      /\ report' = [report EXCEPT !.phase = "probe", !.item = @ /\ ~missing,
                                 !.proved = @ \/ missing]
      /\ build' = build /\ deal' = deal
  BY DEF Identify
<1>3. /\ Kept /\ report'.phase = "probe" /\ report'.counted = report.counted
      /\ report'.totals = report.totals
      /\ report'.item = (report.item /\ ~missing) /\ report'.proved = (report.proved \/ missing)
      /\ report'.ever = report.ever /\ report'.untold = report.untold
  BY <1>1, <1>2 DEF WhoInv, IsReport, Kept
<1>4. WhoInv'  BY <1>1, <1>2, <1>3 DEF WhoInv, Kept, Identified, Phases
<1>5. Sent' = Sent  BY <1>3 DEF Sent, Kept
<1>6. DialectInv'
  BY <1>1, <1>2, <1>3, <1>5, Zenon DEF DialectInv
<1>7. CountInv'
  <2>1. Counted' = {} /\ "identify" \in Unread /\ "probe" \in Unread
    BY <1>1, <1>3 DEF CountInv, Counted, Unread
  <2> QED  BY <1>1, <1>3, <2>1 DEF CountInv
<1> QED  BY <1>4, <1>6, <1>7 DEF ReportInv

LEMMA ProbeStep == ASSUME NEW failed \in BOOLEAN PROVE DealInv /\ Probe(failed) => ReportInv'
<1> SUFFICES ASSUME DealInv, Probe(failed) PROVE ReportInv'  OBVIOUS
<1>1. WhoInv /\ DialectInv /\ CountInv /\ report.phase = "probe"
  BY DEF Probe, DealInv, ReportInv
<1>2. PICK answer \in {"unknown", "yes", "no"} :
        /\ answer = "yes" => Sent \subseteq build.applies
        /\ report' = [report EXCEPT !.phase = "preflight", !.item = @ /\ answer # "no",
                                   !.proved = @ \/ answer # "unknown"]
  <2> DEFINE baseline == Cardinality({d \in Deal : Sees(report.token, deal[d])})
             answer == IF report.probe /\ report.item THEN HonourVerdict(failed, baseline)
                       ELSE "unknown"
  <2>1. report' = [report EXCEPT !.phase = "preflight", !.item = @ /\ answer # "no",
                                   !.proved = @ \/ answer # "unknown"]
    BY Zenon DEF Probe
  <2>2. /\ answer \in {"unknown", "yes", "no"}
        /\ answer = "yes" => Sent \subseteq build.applies
    BY DEF HonourVerdict
  <2> HIDE DEF answer
  <2> QED  BY <2>1, <2>2
<1>3. build' = build  BY DEF Probe
<1>4. /\ Kept /\ report'.phase = "preflight" /\ report'.counted = report.counted
      /\ report'.totals = report.totals /\ report'.ever = report.ever
      /\ report'.untold = report.untold
      /\ report'.item = (report.item /\ answer # "no")
      /\ report'.proved = (report.proved \/ answer # "unknown")
  BY <1>1, <1>2 DEF WhoInv, IsReport, Kept
<1>5. WhoInv'  BY <1>1, <1>4 DEF WhoInv, Kept, Phases
<1>6. Sent' = Sent  BY <1>4 DEF Sent, Kept
<1>7. DialectInv'
  <2>1. report'.proved /\ report'.item => Sent \subseteq build.applies
    BY <1>1, <1>2, <1>4 DEF DialectInv
  <2>2. report'.item \in BOOLEAN /\ report'.proved \in BOOLEAN
    BY <1>4, Zenon
  <2> QED  BY <1>3, <1>6, <2>1, <2>2, Zenon DEF DialectInv
<1>8. CountInv'
  <2>1. Counted' = {} /\ "probe" \in Unread /\ "preflight" \in Unread
    BY <1>1, <1>4 DEF CountInv, Counted, Unread
  <2> QED  BY <1>1, <1>4, <2>1 DEF CountInv
<1> QED  BY <1>5, <1>7, <1>8 DEF ReportInv

LEMMA BeginStep == DealInv /\ Begin => ReportInv'
<1> SUFFICES ASSUME DealInv, Begin, report' # NoReport PROVE ReportInv'
  BY DEF ReportInv
<1>1. WhoInv /\ DialectInv /\ CountInv /\ report.phase \in {"warm", "preflight"}
  BY DEF Begin, DealInv, ReportInv
<1>2. /\ Identified /\ deal' = deal /\ build' = build
      /\ report' = [report EXCEPT !.phase = "first", !.pending = FirstPages,
                                 !.ever = Counting(deal), !.always = Bringing(deal)]
  BY DEF Begin
<1>3. /\ Kept /\ report'.phase = "first" /\ report'.counted = report.counted
      /\ report'.totals = report.totals /\ report'.ever = Counting(deal)
      /\ report'.item = report.item /\ report'.proved = report.proved
      /\ report'.pending = FirstPages /\ report'.untold = report.untold
  BY <1>1, <1>2 DEF WhoInv, IsReport, Kept
<1>4. WhoInv'  BY <1>1, <1>2, <1>3 DEF WhoInv, Kept, Identified, Phases
<1>5. Sent' = Sent  BY <1>3 DEF Sent, Kept
<1>6. DialectInv'  BY <1>1, <1>2, <1>3, <1>5 DEF DialectInv
<1>7. CountInv'
  <2>1. Counted' = {} /\ "first" \notin Unread
    BY <1>1, <1>3 DEF CountInv, Counted, Unread
  <2>2. Counting(deal)' = Counting(deal)
    BY <1>2, <1>3 DEF Counting, Brings, Asked, Sent, Kept
  <2>3. FirstPages \in Seq(Sent \X Nat)
    <3>1. CASE report.legs
      <4>1. FirstPages = << <<"created", 0>>, <<"moved", 0>>, <<"updated", 0>> >>
        BY <3>1 DEF FirstPages, Streams
      <4>2. "created" \in Sent /\ "moved" \in Sent /\ "updated" \in Sent
        BY <3>1 DEF Sent, Key, Leg
      <4> QED  BY <4>1, <4>2
    <3>2. CASE ~report.legs
      BY <3>2 DEF FirstPages, Streams, Sent
    <3> QED  BY <3>1, <3>2
  <2> QED  BY <1>1, <1>3, <1>5, <2>1, <2>2, <2>3 DEF CountInv
<1> QED  BY <1>4, <1>6, <1>7 DEF ReportInv

-----------------------------------------------------------------------------
(* The pages *)

LEMMA PagesAreOfTheStream ==
  ASSUME NEW stream \in Sent, NEW total \in Nat
  PROVE  PagesOf(stream, total) \in Seq(Sent \X Nat)
<1> DEFINE n == IF total = 0 THEN 0 ELSE (total - 1) \div PageSize
<1>1. PageSize \in Nat \ {0}  BY DealReportAssumption
<1>2. n \in Nat  BY <1>1
<1> HIDE DEF n
<1>3. \A i \in 1 .. n : <<stream, i * PageSize>> \in Sent \X Nat
  BY <1>1, <1>2
<1>4. PagesOf(stream, total) = [i \in 1 .. n |-> <<stream, i * PageSize>>]
  BY DEF PagesOf, n
<1> QED  BY <1>2, <1>3, <1>4

LEMMA MorePagesAreSent ==
  ASSUME NEW totals \in [Key -> Nat], report.legs \in BOOLEAN
  PROVE  MorePages(totals) \in Seq(Sent \X Nat)
<1>1. PagesOf("created", totals["created"]) \in Seq(Sent \X Nat)
  BY PagesAreOfTheStream, LegsAreSent DEF Key
<1>2. CASE report.legs
  <2>1. PagesOf("moved", totals["moved"]) \in Seq(Sent \X Nat)
    BY <1>2, PagesAreOfTheStream, LegsAreSent DEF Key, Leg
  <2>2. PagesOf("updated", totals["updated"]) \in Seq(Sent \X Nat)
    BY <1>2, PagesAreOfTheStream, LegsAreSent DEF Key, Leg
  <2> QED  BY <1>1, <1>2, <2>1, <2>2 DEF MorePages
<1>3. CASE ~report.legs
  BY <1>1, <1>3 DEF MorePages
<1> QED  BY <1>2, <1>3

\* What a page adds to a proved report belongs to it at this moment.
LEMMA FoldedBelongs ==
  ASSUME DialectInv, report.token = report.viewer, report.proved, NEW stream \in Sent, NEW start, NEW d \in Deal,
         d \in Page(stream, start), Folds(stream, d)
  PROVE  d \in Counting(deal)
<1>1. Selects(stream, deal[d])  BY DEF Page, Selection
<1>2. ~report.item \/ stream \in build.applies  BY DEF DialectInv
<1>3. stream \in deal[d].in /\ Sees(report.viewer, deal[d]) /\ Asked(deal[d])
  BY <1>1, <1>2 DEF Selects
<1>4. stream \in Key /\ (stream = "created" \/ deal[d].column = "named")
  BY LegsAreSent DEF Folds
<1> QED  BY <1>3, <1>4 DEF Counting, Brings

LEMMA ReadPageStep ==
  ASSUME NEW told \in BOOLEAN PROVE DealInv /\ ReadPage(told) => ReportInv'
<1> SUFFICES ASSUME DealInv, ReadPage(told), report' # NoReport PROVE ReportInv'
  BY DEF ReportInv
<1>1. /\ WhoInv /\ DialectInv /\ CountInv
      /\ report.phase \in {"first", "pages"} /\ report.pending # <<>>
      /\ UNCHANGED <<deal, build>>
  BY DEF ReadPage, DealInv, ReportInv
<1> DEFINE stream == Head(report.pending)[1]
           start == Head(report.pending)[2]
           totals == IF start = 0 /\ told
                     THEN [report.totals EXCEPT ![stream] = Cardinality(Selection(stream))]
                     ELSE report.totals
           last == report.phase = "first" /\ Len(report.pending) = 1
           todo == Remaining(totals)
           phase == IF todo = <<>> THEN "answered"
                    ELSE IF last THEN "pages" ELSE report.phase
           counted == [d \in Deal |-> IF d \in Page(stream, start) /\ Folds(stream, d)
                                      THEN report.counted[d] + 1 ELSE report.counted[d]]
<1>2. report' = [report EXCEPT !.totals = totals, !.pending = todo,
                               !.untold = @ \/ ~told, !.phase = phase, !.counted = counted]
  BY Zenon DEF ReadPage
<1>3. stream \in Sent /\ Tail(report.pending) \in Seq(Sent \X Nat)
  BY <1>1 DEF CountInv
<1>4. totals \in [Key -> Nat]
  <2>1. Cardinality(Selection(stream)) \in Nat
    BY CardinalityIsNatural DEF Selection
  <2> QED  BY <1>1, <2>1 DEF CountInv
<1>5. todo \in Seq(Sent \X Nat)
  BY <1>1, <1>3, <1>4, MorePagesAreSent DEF Remaining, WhoInv
<1>6. phase \in {"first", "pages", "answered"}  BY <1>1
<1>7. counted \in [Deal -> 0 .. 1]
  BY <1>1 DEF CountInv, Folds
<1>8. \A d \in Deal : counted[d] > 0 =>
        d \in Counted \/ (d \in Page(stream, start) /\ Folds(stream, d))
  BY <1>1 DEF CountInv, Counted
<1> HIDE DEF stream, start, totals, last, todo, phase, counted
<1>9. /\ Kept /\ report'.phase = phase /\ report'.counted = counted
      /\ report'.totals = totals /\ report'.pending = todo /\ report'.ever = report.ever
      /\ report'.item = report.item /\ report'.proved = report.proved
      /\ report'.untold = (report.untold \/ ~told)
  BY <1>1, <1>2 DEF WhoInv, IsReport, Kept
<1>10. Sent' = Sent  BY <1>9 DEF Sent, Kept
<1>11. WhoInv'
  <2>1. report'.untold \in BOOLEAN  BY <1>9
  <2> QED  BY <1>1, <1>6, <1>9, <2>1 DEF WhoInv, Kept, Phases
<1>12. DialectInv'  BY <1>1, <1>9, <1>10 DEF DialectInv
<1>13. CountInv'
  <2>1. report'.phase \notin Unread  BY <1>6, <1>9 DEF Unread
  <2>2. Counting(deal)' = Counting(deal)
    BY <1>1, <1>9 DEF Counting, Brings, Asked, Sent, Kept
  <2>3. Counting(deal) \subseteq report.ever  BY <1>1 DEF CountInv
  <2>4. ASSUME report.proved PROVE Counted' \subseteq report.ever
    <3>1. Counted \subseteq report.ever  BY <1>1, <2>4 DEF CountInv
    <3>2. ASSUME NEW d \in Deal, counted[d] > 0 PROVE d \in report.ever
      <4>1. CASE d \in Counted  BY <3>1, <4>1
      <4>2. CASE d \in Page(stream, start) /\ Folds(stream, d)
        BY <1>1, <1>3, <2>3, <2>4, <4>2, FoldedBelongs DEF WhoInv
      <4> QED  BY <1>8, <3>2, <4>1, <4>2
    <3> QED  BY <1>9, <3>2 DEF Counted
  <2>5. report'.proved => Counted' \subseteq report'.ever
    BY <1>9, <2>4
  <2> QED  BY <1>4, <1>5, <1>7, <1>9, <1>10, <2>1, <2>2, <2>3, <2>5 DEF CountInv
<1> QED  BY <1>11, <1>12, <1>13 DEF ReportInv

-----------------------------------------------------------------------------
(* People edit deals while they are read *)

LEMMA EditStep ==
  ASSUME NEW d \in Deal, NEW r \in Shapes
  PROVE  DealInv /\ Edit(d, r) => ReportInv'
<1> SUFFICES ASSUME DealInv, Edit(d, r), report' # NoReport PROVE ReportInv'
  BY DEF ReportInv
<1> DEFINE now == [deal EXCEPT ![d] = r]
<1>1. /\ report # NoReport /\ deal' = now /\ build' = build
      /\ report' = [report EXCEPT !.shifts = @ + Shifts(d, r),
                       !.ever = @ \cup Counting(now),
                       !.always = [k \in Key |-> @[k] \cap Bringing(now)[k]]]
  BY DEF Edit
<1>2. WhoInv /\ DialectInv /\ CountInv  BY <1>1 DEF DealInv, ReportInv
<1>3. /\ Kept /\ report'.phase = report.phase /\ report'.counted = report.counted
      /\ report'.totals = report.totals /\ report'.pending = report.pending
      /\ report'.ever = report.ever \cup Counting(now) /\ report'.untold = report.untold
      /\ report'.item = report.item /\ report'.proved = report.proved
  BY <1>1, <1>2 DEF WhoInv, IsReport, Kept
<1>4. Sent' = Sent  BY <1>3 DEF Sent, Kept
<1>5. WhoInv'  BY <1>2, <1>3 DEF WhoInv, Kept
<1>6. DialectInv'  BY <1>1, <1>2, <1>3, <1>4 DEF DialectInv
<1>7. CountInv'
  <2>1. Counting(deal)' = Counting(now)
    BY <1>1, <1>3 DEF Counting, Brings, Asked, Sent, Kept
  <2>2. Counted' = Counted  BY <1>3 DEF Counted
  <2> QED  BY <1>2, <1>3, <1>4, <2>1, <2>2 DEF CountInv
<1> QED  BY <1>5, <1>6, <1>7 DEF ReportInv

LEMMA ReportStep == DealInv /\ [Next]_vars => ReportInv'
<1> SUFFICES ASSUME DealInv, [Next]_vars PROVE ReportInv'  OBVIOUS
<1>1. CASE Refuse \/ Answered  BY <1>1 DEF Refuse, Answered, ReportInv
<1>2. CASE NameStages \/ Expire \/ UNCHANGED vars
  BY <1>2, SameReport DEF NameStages, Expire, vars, DealInv
<1> QED
  BY <1>1, <1>2, AdmitStep, IdentifyStep, ProbeStep, BeginStep, ReadPageStep, EditStep
  DEF Next

LEMMA DealStep == DealInv /\ [Next]_vars => DealInv'
BY WorldStep, CacheStep, ReportStep DEF DealInv

-----------------------------------------------------------------------------
(* Places in a selection *)

Before(S, d) == {e \in S : e < d}

LEMMA DealsAreFinite ==
  ASSUME NEW S \in SUBSET Deal
  PROVE  IsFiniteSet(S) /\ Cardinality(S) \in Nat
<1>1. IsFiniteSet(Deal)  BY DealReportAssumption, FS_Interval DEF Deal
<1> QED  BY <1>1, FS_Subset, FS_CardinalityType

LEMMA DealsAreNumbers == Deal \subseteq Nat
BY DealReportAssumption DEF Deal

LEMMA SmallerSet ==
  ASSUME NEW T \in SUBSET Deal, NEW S \in SUBSET T
  PROVE  Cardinality(S) <= Cardinality(T)
BY DealsAreFinite, FS_Subset

LEMMA OneMore ==
  ASSUME NEW S \in SUBSET Deal, NEW T \in SUBSET Deal, NEW x, T \subseteq S \cup {x}
  PROVE  Cardinality(T) <= Cardinality(S) + 1
<1>1. IsFiniteSet(S) /\ Cardinality(S) \in Nat  BY DealsAreFinite
<1>2. IsFiniteSet(S \cup {x})
      /\ Cardinality(S \cup {x}) = IF x \in S THEN Cardinality(S) ELSE Cardinality(S) + 1
  BY <1>1, FS_AddElement
<1>3. Cardinality(T) <= Cardinality(S \cup {x})  BY <1>2, FS_Subset
<1>4. Cardinality(T) \in Nat  BY DealsAreFinite
<1> QED  BY <1>1, <1>2, <1>3, <1>4

LEMMA UnionIsNoLarger ==
  ASSUME NEW S \in SUBSET Deal, NEW T \in SUBSET Deal
  PROVE  Cardinality(S \cup T) <= Cardinality(S) + Cardinality(T)
<1>1. /\ IsFiniteSet(S) /\ IsFiniteSet(T) /\ Cardinality(S) \in Nat /\ Cardinality(T) \in Nat
      /\ Cardinality(S \cap T) \in Nat
  BY DealsAreFinite
<1>2. Cardinality(S \cup T) = Cardinality(S) + Cardinality(T) - Cardinality(S \cap T)
  BY <1>1, FS_Union
<1> QED  BY <1>1, <1>2

\* Two deals of a selection do not share a place.
LEMMA PlacesDiffer ==
  ASSUME NEW S \in SUBSET Deal, NEW d \in S, NEW e \in Deal, d < e
  PROVE  Cardinality(Before(S, d)) < Cardinality(Before(S, e))
<1>1. Before(S, d) \in SUBSET Deal /\ Before(S, e) \in SUBSET Deal  BY DEF Before
<1>2. d \notin Before(S, d)  BY DealsAreNumbers DEF Before
<1>3. Before(S, d) \cup {d} \subseteq Before(S, e)
  <2>1. ASSUME NEW x \in S, x < d PROVE x < e
    <3>1. x \in Nat /\ d \in Nat /\ e \in Nat  BY DealsAreNumbers
    <3> QED  BY <2>1, <3>1
  <2>2. d \in Before(S, e)  BY DEF Before
  <2>3. Before(S, d) \subseteq Before(S, e)  BY <2>1 DEF Before
  <2> QED  BY <2>2, <2>3
<1>4. /\ IsFiniteSet(Before(S, d)) /\ Cardinality(Before(S, d)) \in Nat
      /\ IsFiniteSet(Before(S, e)) /\ Cardinality(Before(S, e)) \in Nat
  BY <1>1, DealsAreFinite
<1>5. Cardinality(Before(S, d) \cup {d}) = Cardinality(Before(S, d)) + 1
  BY <1>2, <1>4, FS_AddElement
<1>6. Cardinality(Before(S, d) \cup {d}) <= Cardinality(Before(S, e))
  BY <1>3, <1>4, FS_Subset
<1> QED  BY <1>4, <1>5, <1>6

LEMMA PlaceBelowTotal ==
  ASSUME NEW S \in SUBSET Deal, NEW d \in S
  PROVE  Cardinality(Before(S, d)) < Cardinality(S)
<1>1. Before(S, d) \in SUBSET S /\ Before(S, d) # S  BY DealsAreNumbers DEF Before
<1>2. IsFiniteSet(S) /\ Cardinality(S) \in Nat /\ Cardinality(Before(S, d)) \in Nat
  BY <1>1, DealsAreFinite
<1>3. Cardinality(Before(S, d)) <= Cardinality(S) /\ Cardinality(Before(S, d)) # Cardinality(S)
  BY <1>1, <1>2, FS_Subset
<1> QED  BY <1>2, <1>3

\* A change of one deal moves the place of another by one at most.
LEMMA PlaceMoves ==
  ASSUME NEW S \in SUBSET Deal, NEW T \in SUBSET Deal, NEW x,
         T \subseteq S \cup {x}, NEW e \in Deal
  PROVE  Cardinality(Before(T, e)) <= Cardinality(Before(S, e)) + 1
<1>1. Before(T, e) \subseteq Before(S, e) \cup {x}  BY DEF Before
<1>2. Before(T, e) \in SUBSET Deal /\ Before(S, e) \in SUBSET Deal  BY DEF Before
<1> QED  BY <1>1, <1>2, OneMore

LEMMA PlaceRises ==
  ASSUME NEW S \in SUBSET Deal, NEW T \in SUBSET S, NEW e \in Deal
  PROVE  Cardinality(Before(T, e)) <= Cardinality(Before(S, e))
<1>1. Before(T, e) \in SUBSET Before(S, e) /\ Before(S, e) \in SUBSET Deal  BY DEF Before
<1> QED  BY <1>1, SmallerSet

-----------------------------------------------------------------------------
(* Pages *)

\* The pages of one stream follow each other, without a gap and in order.
Shaped(pages) ==
    \A i, j \in 1 .. Len(pages) : i <= j /\ pages[i][1] = pages[j][1] =>
        /\ pages[j][2] = pages[i][2] + (j - i) * PageSize
        /\ \A m \in i .. j : pages[m][1] = pages[i][1]

Asks(pages, i, k, x) ==
    pages[i][1] = k /\ pages[i][2] <= x /\ x < pages[i][2] + PageSize

\* The place x of stream k is on one of the pages.
Within(pages, k, x) == \E i \in 1 .. Len(pages) : Asks(pages, i, k, x)

LEMMA PageSizeIsPositive == PageSize \in Nat \ {0}
BY DealReportAssumption

LEMMA Quotient ==
  ASSUME NEW x \in Nat, NEW p \in Nat \ {0}
  PROVE  /\ x \div p \in Nat /\ (x \div p) * p <= x /\ x < (x \div p) * p + p
<1>1. x \div p \in Int /\ x \div p >= 0  BY SMTT(30)
<1>2. (x \div p) * p <= x  BY SMTT(30)
<1>3. x < (x \div p) * p + p  BY SMTT(30)
<1> QED  BY <1>1, <1>2, <1>3

LEMMA LaterPagesStartLater ==
  ASSUME NEW a \in Nat, NEW b \in Nat, NEW p \in Nat \ {0}, NEW n \in Nat,
         a = b + (n + 1) * p
  PROVE  b + p <= a
<1>1. (n + 1) * p = n * p + p /\ n * p \in Nat  OBVIOUS
<1>2. PICK m \in Nat : m = n * p  BY <1>1
<1>3. a = b + m + p  BY <1>1, <1>2
<1> QED  BY <1>2, <1>3

\* The page of a place is none behind the page of a later place.
LEMMA PageOfAPlace ==
  ASSUME NEW a \in Nat, NEW y \in Nat, NEW p \in Nat \ {0}, NEW gap \in Nat, a <= y,
         y < a + gap * p + p
  PROVE  \E q \in 0 .. gap : a + q * p <= y /\ y < a + q * p + p
<1>1. PICK w \in Nat : y = a + w  OBVIOUS
<1>2. PICK q \in Nat : q * p <= w /\ w < q * p + p  BY Quotient
<1>3. PICK s \in Nat : s = q * p  OBVIOUS
<1>4. PICK g \in Nat : g = gap * p  OBVIOUS
<1>5. q <= gap
  <2> SUFFICES ASSUME q > gap PROVE FALSE  OBVIOUS
  <2>1. PICK n \in Nat : q = gap + (n + 1)
    <3>1. q - gap - 1 \in Nat  OBVIOUS
    <3> QED  BY <3>1
  <2>2. s = g + (n + 1) * p  BY <1>3, <1>4, <2>1
  <2>3. g + p <= s  BY <2>2, LaterPagesStartLater
  <2> QED  BY <1>1, <1>2, <1>3, <1>4, <2>3
<1> QED  BY <1>1, <1>2, <1>3, <1>5

\* What lies between two places that are asked for is asked for.
LEMMA PagesAreConvex ==
  ASSUME NEW pages, Len(pages) \in Nat, Shaped(pages), NEW k,
         \A i \in 1 .. Len(pages) : pages[i][2] \in Nat,
         NEW x \in Nat, NEW y \in Nat, NEW z \in Nat, x <= y, y <= z,
         Within(pages, k, x), Within(pages, k, z)
  PROVE  Within(pages, k, y)
<1>1. PICK i \in 1 .. Len(pages) : Asks(pages, i, k, x)  BY DEF Within
<1>2. PICK j \in 1 .. Len(pages) : Asks(pages, j, k, z)  BY DEF Within
<1>3. PICK p \in Nat \ {0} : p = PageSize  BY PageSizeIsPositive
<1>4. PICK a \in Nat : a = pages[i][2]  OBVIOUS
<1>5. PICK b \in Nat : b = pages[j][2]  OBVIOUS
<1>6. a <= x /\ x < a + p /\ b <= z /\ z < b + p
  BY <1>1, <1>2, <1>3, <1>4, <1>5 DEF Asks
<1>7. CASE i > j
  <2>1. PICK n \in Nat : i - j = n + 1
    <3>1. i - j - 1 \in Nat  BY <1>7
    <3> QED  BY <3>1
  <2>2. j <= i /\ pages[j][1] = pages[i][1]  BY <1>1, <1>2, <1>7 DEF Asks
  <2>3. pages[i][2] = pages[j][2] + (i - j) * PageSize  BY <2>2 DEF Shaped
  <2>4. a = b + (n + 1) * p  BY <1>3, <1>4, <1>5, <2>1, <2>3
  <2>5. b + p <= a  BY <2>4, LaterPagesStartLater
  <2>6. a <= x /\ x <= y /\ y <= z /\ z < b + p  BY <1>6
  <2>7. p \in Nat  BY <1>3
  <2> QED  BY <2>5, <2>6, <2>7
<1>8. CASE i <= j
  <2>1. PICK gap \in Nat : gap = j - i  BY <1>8
  <2>2. pages[i][1] = k /\ pages[j][1] = k  BY <1>1, <1>2 DEF Asks
  <2>3. /\ pages[j][2] = pages[i][2] + (j - i) * PageSize
        /\ \A m \in i .. j : pages[m][1] = pages[i][1]
    BY <1>8, <2>2 DEF Shaped
  <2>4. b = a + gap * p  BY <1>3, <1>4, <1>5, <2>1, <2>3
  <2>5. a <= y /\ y < a + gap * p + p
    <3>1. y < b + p
      <4>1. p \in Nat  BY <1>3
      <4> QED  BY <1>6, <4>1
    <3>2. a <= y  BY <1>6
    <3> QED  BY <2>4, <3>1, <3>2
  <2>6. PICK q \in 0 .. gap : a + q * p <= y /\ y < a + q * p + p
    BY <2>5, PageOfAPlace
  <2>7. PICK m \in i .. j : m = i + q  BY <1>8, <2>1
  <2>8. m \in 1 .. Len(pages) /\ i <= m /\ m - i = q /\ pages[m][1] = k
    BY <2>2, <2>3, <2>7
  <2>9. pages[m][2] = a + q * p
    <3>1. pages[m][2] = pages[i][2] + (m - i) * PageSize  BY <2>2, <2>8 DEF Shaped
    <3> QED  BY <1>3, <1>4, <2>8, <3>1
  <2>10. Asks(pages, m, k, y)  BY <1>3, <2>6, <2>8, <2>9 DEF Asks
  <2> QED  BY <2>8, <2>10 DEF Within
<1> QED  BY <1>7, <1>8

\* The plan of one stream.
PagesIn(total) == IF total = 0 THEN 0 ELSE (total - 1) \div PageSize

LEMMA PlanOfAStream ==
  ASSUME NEW k, NEW total \in Nat
  PROVE  /\ PagesIn(total) \in Nat /\ Len(PagesOf(k, total)) = PagesIn(total)
         /\ \A i \in 1 .. PagesIn(total) :
              PagesOf(k, total)[i] = <<k, i * PageSize>> /\ i * PageSize \in Nat
<1>1. PICK p \in Nat \ {0} : p = PageSize  BY PageSizeIsPositive
<1>2. PagesIn(total) \in Nat
  <2>1. CASE total = 0  BY <2>1 DEF PagesIn
  <2>2. CASE total # 0
    <3>1. total - 1 \in Nat  BY <2>2
    <3> QED  BY <1>1, <2>2, <3>1, Quotient DEF PagesIn
  <2> QED  BY <2>1, <2>2
<1>3. PagesOf(k, total) = [i \in 1 .. PagesIn(total) |-> <<k, i * PageSize>>]
  BY DEF PagesOf, PagesIn
<1>4. \A i \in 1 .. PagesIn(total) : i * PageSize \in Nat  BY <1>1, <1>2
<1> QED  BY <1>2, <1>3, <1>4

LEMMA PlanIsShaped ==
  ASSUME NEW k, NEW total \in Nat
  PROVE  /\ Shaped(PagesOf(k, total)) /\ Len(PagesOf(k, total)) \in Nat
         /\ \A i \in 1 .. Len(PagesOf(k, total)) : PagesOf(k, total)[i][2] \in Nat
<1> DEFINE pages == PagesOf(k, total)
<1>1. /\ Len(pages) \in Nat
      /\ \A i \in 1 .. Len(pages) : pages[i][1] = k /\ pages[i][2] = i * PageSize
                                    /\ pages[i][2] \in Nat
  BY PlanOfAStream
<1> HIDE DEF pages
<1>2. ASSUME NEW i \in 1 .. Len(pages), NEW j \in 1 .. Len(pages), i <= j
      PROVE  pages[j][2] = pages[i][2] + (j - i) * PageSize
  <2>1. PICK p \in Nat : p = PageSize  BY PageSizeIsPositive
  <2>2. j * p = i * p + (j - i) * p  BY <1>1
  <2> QED  BY <1>1, <2>1, <2>2
<1>3. Shaped(pages)  BY <1>1, <1>2 DEF Shaped
<1> QED  BY <1>1, <1>3 DEF pages

\* The pages after the first reach the last place the total promises.
LEMMA PlanReachesTheEnd ==
  ASSUME NEW k, NEW total \in Nat, NEW x \in Nat, PageSize <= x, x < total
  PROVE  Within(PagesOf(k, total), k, x)
<1>1. PICK p \in Nat \ {0} : p = PageSize  BY PageSizeIsPositive
<1>2. PICK last \in Nat : last = total - 1  OBVIOUS
<1>3. PICK q \in Nat : q = x \div p /\ q * p <= x /\ x < q * p + p  BY <1>1, Quotient
<1>4. PICK n \in Nat : n = last \div p /\ n * p <= last /\ last < n * p + p
  BY <1>1, Quotient
<1>5. PagesIn(total) = n  BY <1>1, <1>2, <1>4 DEF PagesIn
<1>6. q # 0
  <2> SUFFICES ASSUME q = 0 PROVE FALSE  OBVIOUS
  <2>1. q * p = 0  BY <1>1
  <2> QED  BY <1>1, <1>3, <2>1
<1>7. q <= n
  <2> SUFFICES ASSUME q > n PROVE FALSE  OBVIOUS
  <2>1. PICK m \in Nat : q = n + 1 + m  OBVIOUS
  <2>2. q * p = n * p + p + m * p /\ m * p \in Nat /\ n * p \in Nat  BY <1>1, <2>1
  <2> QED  BY <1>1, <1>2, <1>3, <1>4, <2>2
<1>8. q \in 1 .. PagesIn(total) /\ Len(PagesOf(k, total)) = PagesIn(total)
  BY <1>5, <1>6, <1>7, PlanOfAStream
<1>9. PagesOf(k, total)[q] = <<k, q * PageSize>>  BY <1>8, PlanOfAStream
<1> QED  BY <1>1, <1>3, <1>8, <1>9 DEF Within, Asks

-----------------------------------------------------------------------------
(* What a report has lost *)

\* What a stream had to bring all along, it has to bring now.
Belongs == \A k \in Key : report.always[k] \subseteq Bringing(deal)[k]

\* The first page of a stream is still to be read, or the pages its total
\* promises are.
Unasked(k) ==
    report.phase = "first" /\ \E i \in 1 .. Len(report.pending) : report.pending[i][1] = k

Plan(k) ==
    IF report.phase = "first" THEN PagesOf(k, report.totals[k]) ELSE report.pending

ToCome(k, x) == Unasked(k) \/ Within(Plan(k), k, x)

Missed(k) ==
    {d \in report.always[k] : report.counted[d] = 0 /\ ~ToCome(k, Place(k, d))}

LossBound ==
    ~report.untold =>
        Cardinality(Missed("created")) + Cardinality(Missed("moved"))
            + Cardinality(Missed("updated")) <= report.shifts

Scanned == report.phase \in {"first", "pages", "answered"}

\* What is lost for good was moved by an edit, once every total was told.
LossInv ==
    report # NoReport =>
      /\ report.shifts \in Nat
      /\ report.phase = "first" => \A i \in 1 .. Len(report.pending) : report.pending[i][2] = 0
      /\ report.phase = "pages" => Shaped(report.pending)
      /\ report.phase = "answered" => report.pending = <<>>
      /\ Scanned => Belongs /\ LossBound

LEMMA PlacesAreNumbers ==
  ASSUME NEW k, NEW d
  PROVE  /\ Selection(k) \in SUBSET Deal /\ Place(k, d) \in Nat
         /\ Place(k, d) = Cardinality(Before(Selection(k), d))
<1>1. Selection(k) \in SUBSET Deal  BY DEF Selection
<1>2. Place(k, d) = Cardinality(Before(Selection(k), d))  BY DEF Place, Before
<1>3. Before(Selection(k), d) \in SUBSET Deal  BY <1>1 DEF Before
<1> QED  BY <1>1, <1>2, <1>3, DealsAreFinite

\* A report reads with its viewer's eyes, so each of its deals is in the
\* selection of the stream that has to bring it, and is folded from there.
LEMMA OwnedIsSelected ==
  ASSUME report.token = report.viewer, Belongs, NEW k \in Key, NEW d \in report.always[k]
  PROVE  /\ d \in Deal /\ d \in Selection(k) /\ k \in Sent
         /\ report.counted[d] = 0 => Folds(k, d)
<1>1. d \in Deal /\ Brings(k, deal[d])  BY DEF Belongs, Bringing
<1>2. Selects(k, deal[d])  BY <1>1 DEF Brings, Selects
<1> QED  BY <1>1, <1>2 DEF Brings, Selection, Folds

LEMMA MissedAreDeals ==
  ASSUME Belongs, NEW k \in Key
  PROVE  Missed(k) \in SUBSET Deal
BY DEF Missed, Belongs, Bringing

\* A page that asks for the place of a deal its stream has to bring counts it.
LEMMA PageFinds ==
  ASSUME report.token = report.viewer, Belongs, NEW k \in Key, NEW d \in report.always[k],
         NEW start, start <= Place(k, d), Place(k, d) < start + PageSize,
         report.counted[d] = 0
  PROVE  d \in Page(k, start) /\ Folds(k, d)
BY OwnedIsSelected DEF Page

LEMMA NothingIsUnread ==
  ASSUME NEW k, NEW x
  PROVE  ~Within(<<>>, k, x)
BY DEF Within

-----------------------------------------------------------------------------
(* Plans put together *)

LEMMA RestOfPages ==
  ASSUME NEW S, NEW pages \in Seq(S), pages # <<>>
  PROVE  /\ Tail(pages) \in Seq(S) /\ Len(Tail(pages)) = Len(pages) - 1
         /\ \A i \in 1 .. Len(Tail(pages)) : i + 1 \in 1 .. Len(pages) /\ Tail(pages)[i] = pages[i + 1]
         /\ 1 \in 1 .. Len(pages) /\ Head(pages) = pages[1]
OBVIOUS

LEMMA RestIsShaped ==
  ASSUME NEW S, NEW pages \in Seq(S), pages # <<>>, Shaped(pages)
  PROVE  Shaped(Tail(pages))
<1> DEFINE rest == Tail(pages)
<1>1. /\ rest \in Seq(S) /\ Len(rest) = Len(pages) - 1 /\ Len(rest) \in Nat
      /\ \A i \in 1 .. Len(rest) : i + 1 \in 1 .. Len(pages) /\ rest[i] = pages[i + 1]
  BY RestOfPages
<1> HIDE DEF rest
<1>2. ASSUME NEW i \in 1 .. Len(rest), NEW j \in 1 .. Len(rest), i <= j,
             rest[i][1] = rest[j][1]
      PROVE  /\ rest[j][2] = rest[i][2] + (j - i) * PageSize
             /\ \A m \in i .. j : rest[m][1] = rest[i][1]
  <2>1. /\ i + 1 <= j + 1 /\ pages[i + 1][1] = pages[j + 1][1]
        /\ i + 1 \in 1 .. Len(pages) /\ j + 1 \in 1 .. Len(pages)
    BY <1>1, <1>2
  <2>2. /\ pages[j + 1][2] = pages[i + 1][2] + ((j + 1) - (i + 1)) * PageSize
        /\ \A m \in i + 1 .. j + 1 : pages[m][1] = pages[i + 1][1]
    BY <2>1 DEF Shaped
  <2>3. (j + 1) - (i + 1) = j - i  OBVIOUS
  <2>4. ASSUME NEW m \in i .. j PROVE rest[m][1] = rest[i][1]
    <3>1. m \in 1 .. Len(rest) /\ m + 1 \in i + 1 .. j + 1  BY <1>1
    <3>2. pages[m + 1][1] = pages[i + 1][1]  BY <2>2, <3>1
    <3>3. rest[m] = pages[m + 1] /\ rest[i] = pages[i + 1]  BY <1>1, <3>1
    <3> QED  BY <3>2, <3>3
  <2> QED  BY <1>1, <2>2, <2>3, <2>4
<1> QED  BY <1>2 DEF Shaped, rest

\* What the rest of the plan does not ask for, its head did.
LEMMA WithinTheRest ==
  ASSUME NEW S, NEW pages \in Seq(S), pages # <<>>, NEW k, NEW x,
         Within(pages, k, x), ~Within(Tail(pages), k, x)
  PROVE  Head(pages)[1] = k /\ Head(pages)[2] <= x /\ x < Head(pages)[2] + PageSize
<1>1. PICK i \in 1 .. Len(pages) : Asks(pages, i, k, x)  BY DEF Within
<1>2. CASE i = 1  BY <1>1, <1>2, RestOfPages DEF Asks
<1>3. CASE i # 1
  <2>1. i - 1 \in 1 .. Len(Tail(pages)) /\ Tail(pages)[i - 1] = pages[i]
    BY <1>3, RestOfPages
  <2>2. Asks(Tail(pages), i - 1, k, x)  BY <1>1, <2>1 DEF Asks
  <2> QED  BY <2>1, <2>2 DEF Within
<1> QED  BY <1>2, <1>3

\* Two plans that share no stream, one behind the other.
Apart(a, b) == \A i \in 1 .. Len(a), j \in 1 .. Len(b) : a[i][1] # b[j][1]

LEMMA PlansJoin ==
  ASSUME NEW S, NEW a \in Seq(S), NEW b \in Seq(S), Shaped(a), Shaped(b), Apart(a, b)
  PROVE  /\ Shaped(a \o b)
         /\ \A k, x : Within(a, k, x) \/ Within(b, k, x) => Within(a \o b, k, x)
<1> DEFINE c == a \o b
<1>1. /\ Len(a) \in Nat /\ Len(b) \in Nat /\ Len(c) \in Nat /\ Len(c) = Len(a) + Len(b)
      /\ \A i \in 1 .. Len(a) : i \in 1 .. Len(c) /\ c[i] = a[i]
      /\ \A i \in 1 .. Len(b) : i + Len(a) \in 1 .. Len(c) /\ c[i + Len(a)] = b[i]
  OBVIOUS
<1> HIDE DEF c
<1>2. ASSUME NEW k, NEW x, Within(a, k, x) \/ Within(b, k, x) PROVE Within(c, k, x)
  <2>1. CASE Within(a, k, x)
    <3>1. PICK i \in 1 .. Len(a) : Asks(a, i, k, x)  BY <2>1 DEF Within
    <3>2. i \in 1 .. Len(c) /\ Asks(c, i, k, x)  BY <1>1, <3>1 DEF Asks
    <3> QED  BY <3>2 DEF Within
  <2>2. CASE Within(b, k, x)
    <3>1. PICK i \in 1 .. Len(b) : Asks(b, i, k, x)  BY <2>2 DEF Within
    <3>2. i + Len(a) \in 1 .. Len(c) /\ Asks(c, i + Len(a), k, x)  BY <1>1, <3>1 DEF Asks
    <3> QED  BY <3>2 DEF Within
  <2> QED  BY <1>2, <2>1, <2>2
<1>3. Shaped(c)
  <2> SUFFICES ASSUME NEW i \in 1 .. Len(c), NEW j \in 1 .. Len(c), i <= j, c[i][1] = c[j][1]
               PROVE  /\ c[j][2] = c[i][2] + (j - i) * PageSize
                      /\ \A m \in i .. j : c[m][1] = c[i][1]
    BY DEF Shaped
  <2>1. Len(a) \in Nat /\ Len(b) \in Nat /\ Len(c) \in Nat  BY <1>1
  <2>2. CASE j <= Len(a)
    <3>1. i \in 1 .. Len(a) /\ j \in 1 .. Len(a) /\ c[i] = a[i] /\ c[j] = a[j]
      BY <1>1, <2>1, <2>2
    <3>2. /\ a[j][2] = a[i][2] + (j - i) * PageSize
          /\ \A m \in i .. j : a[m][1] = a[i][1]
      BY <3>1 DEF Shaped
    <3>3. \A m \in i .. j : m \in 1 .. Len(a) /\ c[m] = a[m]  BY <1>1, <2>1, <2>2
    <3> QED  BY <3>1, <3>2, <3>3
  <2>3. CASE i > Len(a)
    <3>1. PICK u \in 1 .. Len(b) : i = u + Len(a)
      <4>1. i - Len(a) \in 1 .. Len(b) /\ i \in Int  BY <1>1, <2>1, <2>3
      <4>2. (i - Len(a)) + Len(a) = i  BY <2>1, <4>1
      <4> QED  BY <4>1, <4>2
    <3>2. PICK v \in 1 .. Len(b) : j = v + Len(a)
      <4>1. j - Len(a) \in 1 .. Len(b) /\ j \in Int  BY <1>1, <2>1, <2>3
      <4>2. (j - Len(a)) + Len(a) = j  BY <2>1, <4>1
      <4> QED  BY <4>1, <4>2
    <3>3. c[i] = b[u] /\ c[j] = b[v] /\ u <= v /\ j - i = v - u
      <4>1. c[i] = b[u] /\ c[j] = b[v]  BY <1>1, <3>1, <3>2
      <4>2. PICK n \in Nat : n = Len(a)  BY <2>1
      <4>3. i = u + n /\ j = v + n /\ i <= j /\ u \in Int /\ v \in Int  BY <2>1, <3>1, <3>2, <4>2
      <4>4. u <= v /\ j - i = v - u  BY <4>3
      <4> QED  BY <4>1, <4>4
    <3>4. /\ b[v][2] = b[u][2] + (v - u) * PageSize
          /\ \A m \in u .. v : b[m][1] = b[u][1]
      BY <3>3 DEF Shaped
    <3>5. ASSUME NEW m \in i .. j PROVE c[m][1] = c[i][1]
      <4>1. PICK n \in Nat : n = Len(a)  BY <2>1
      <4>2. PICK w \in u .. v : m = w + Len(a)
        <5>1. i = u + n /\ j = v + n /\ u \in Int /\ v \in Int  BY <2>1, <3>1, <3>2, <4>1
        <5>2. m \in Int /\ u + n <= m /\ m <= v + n  BY <5>1
        <5>3. m - n \in u .. v /\ m = (m - n) + n  BY <5>1, <5>2
        <5> QED  BY <4>1, <5>3
      <4>3. w \in 1 .. Len(b)  BY <2>1
      <4> QED  BY <1>1, <3>3, <3>4, <4>2, <4>3
    <3> QED  BY <3>3, <3>4, <3>5
  <2>4. CASE i <= Len(a) /\ j > Len(a)
    <3>1. i \in 1 .. Len(a) /\ c[i] = a[i]  BY <1>1, <2>1, <2>4
    <3>2. PICK v \in 1 .. Len(b) : j = v + Len(a)
      <4>1. j - Len(a) \in 1 .. Len(b) /\ j \in Int  BY <1>1, <2>1, <2>4
      <4>2. (j - Len(a)) + Len(a) = j  BY <2>1, <4>1
      <4> QED  BY <4>1, <4>2
    <3>3. c[j] = b[v]  BY <1>1, <3>2
    <3> QED  BY <3>1, <3>2, <3>3 DEF Apart
  <2> QED  BY <2>1, <2>2, <2>3, <2>4
<1> QED  BY <1>2, <1>3 DEF c

LEMMA PlanIsOfItsStream ==
  ASSUME NEW k \in Key, NEW total \in Nat
  PROVE  /\ PagesOf(k, total) \in Seq(Key \X Nat)
         /\ \A i \in 1 .. Len(PagesOf(k, total)) : PagesOf(k, total)[i][1] = k
<1>1. /\ PagesIn(total) \in Nat /\ Len(PagesOf(k, total)) = PagesIn(total)
      /\ \A i \in 1 .. PagesIn(total) :
           PagesOf(k, total)[i] = <<k, i * PageSize>> /\ i * PageSize \in Nat
  BY PlanOfAStream
<1>2. PagesOf(k, total) = [i \in 1 .. PagesIn(total) |-> <<k, i * PageSize>>]
  BY DEF PagesOf, PagesIn
<1>3. \A i \in 1 .. PagesIn(total) : <<k, i * PageSize>> \in Key \X Nat  BY <1>1
<1>4. PagesOf(k, total) \in Seq(Key \X Nat)  BY <1>1, <1>2, <1>3
<1> QED  BY <1>1, <1>4

LEMMA AllPlans ==
  ASSUME NEW totals \in [Key -> Nat], report.legs \in BOOLEAN
  PROVE  /\ Shaped(MorePages(totals))
         /\ \A k \in Sent, x \in Nat :
              Within(PagesOf(k, totals[k]), k, x) => Within(MorePages(totals), k, x)
<1>1. PICK a : a = PagesOf("created", totals["created"])  OBVIOUS
<1>2. PICK b : b = PagesOf("moved", totals["moved"])  OBVIOUS
<1>3. PICK c : c = PagesOf("updated", totals["updated"])  OBVIOUS
<1>4. /\ "created" \in Key /\ totals["created"] \in Nat
      /\ "moved" \in Key /\ totals["moved"] \in Nat
      /\ "updated" \in Key /\ totals["updated"] \in Nat
  BY DEF Key, Leg
<1>5. a \in Seq(Key \X Nat) /\ Shaped(a) /\ \A i \in 1 .. Len(a) : a[i][1] = "created"
  BY <1>1, <1>4, PlanIsShaped, PlanIsOfItsStream
<1>6. b \in Seq(Key \X Nat) /\ Shaped(b) /\ \A i \in 1 .. Len(b) : b[i][1] = "moved"
  BY <1>2, <1>4, PlanIsShaped, PlanIsOfItsStream
<1>7. c \in Seq(Key \X Nat) /\ Shaped(c) /\ \A i \in 1 .. Len(c) : c[i][1] = "updated"
  BY <1>3, <1>4, PlanIsShaped, PlanIsOfItsStream
<1>8. CASE ~report.legs
  <2>1. MorePages(totals) = a  BY <1>1, <1>5, <1>8 DEF MorePages
  <2>2. Sent = {"created"}  BY <1>8 DEF Sent
  <2> QED  BY <1>1, <1>5, <2>1, <2>2
<1>9. CASE report.legs
  <2>1. PICK legs : legs = b \o c  OBVIOUS
  <2>2. /\ legs \in Seq(Key \X Nat) /\ Shaped(legs)
        /\ \A k, x : Within(b, k, x) \/ Within(c, k, x) => Within(legs, k, x)
    <3>1. Apart(b, c)  BY <1>6, <1>7 DEF Apart
    <3>2. legs \in Seq(Key \X Nat)  BY <1>6, <1>7, <2>1
    <3> QED  BY <1>6, <1>7, <2>1, <3>1, <3>2, PlansJoin
  <2>3. \A i \in 1 .. Len(legs) : legs[i][1] \in {"moved", "updated"}
    <3>1. /\ Len(b) \in Nat /\ Len(c) \in Nat /\ Len(legs) = Len(b) + Len(c)
          /\ \A i \in 1 .. Len(legs) : legs[i] = IF i <= Len(b) THEN b[i] ELSE c[i - Len(b)]
      BY <1>6, <1>7, <2>1
    <3>2. ASSUME NEW i \in 1 .. Len(legs), i > Len(b) PROVE i - Len(b) \in 1 .. Len(c)
      BY <3>1, <3>2
    <3>3. ASSUME NEW i \in 1 .. Len(legs) PROVE legs[i][1] \in {"moved", "updated"}
      <4>1. CASE i <= Len(b)
        <5>1. i \in 1 .. Len(b) /\ legs[i] = b[i]  BY <3>1, <4>1
        <5> QED  BY <1>6, <5>1
      <4>2. CASE i > Len(b)
        <5>1. i - Len(b) \in 1 .. Len(c) /\ legs[i] = c[i - Len(b)]  BY <3>1, <3>2, <4>2
        <5> QED  BY <1>7, <5>1
      <4> QED  BY <3>1, <4>1, <4>2
    <3> QED  BY <3>3
  <2>4. Apart(a, legs)  BY <1>5, <2>3 DEF Apart
  <2>5. /\ Shaped(a \o legs)
        /\ \A k, x : Within(a, k, x) \/ Within(legs, k, x) => Within(a \o legs, k, x)
    BY <1>5, <2>2, <2>4, PlansJoin
  <2>6. MorePages(totals) = a \o legs  BY <1>1, <1>2, <1>3, <1>9, <2>1 DEF MorePages
  <2>7. Sent = {"created", "moved", "updated"}  BY <1>9 DEF Sent, Key, Leg
  <2>8. ASSUME NEW k \in Sent, NEW x \in Nat, Within(PagesOf(k, totals[k]), k, x)
        PROVE  Within(a \o legs, k, x)
    <3>1. CASE k = "created"  BY <1>1, <2>5, <2>8, <3>1
    <3>2. CASE k = "moved"  BY <1>2, <2>2, <2>5, <2>8, <3>2
    <3>3. CASE k = "updated"  BY <1>3, <2>2, <2>5, <2>8, <3>3
    <3> QED  BY <2>7, <3>1, <3>2, <3>3
  <2> QED  BY <2>5, <2>6, <2>8
<1> QED  BY <1>8, <1>9

-----------------------------------------------------------------------------
(* One step, seen by what it can lose *)

\* The columns of a report a step on it may change.
SameScan ==
    /\ IsReport(report) /\ Kept /\ report'.item = report.item

LEMMA SelectionStays ==
  ASSUME SameScan, UNCHANGED <<deal, build>>, NEW k, NEW d
  PROVE  Selection(k)' = Selection(k) /\ Place(k, d)' = Place(k, d)
BY DEF SameScan, Kept, Selection, Selects, Asked, Place

LEMMA BringingStays ==
  ASSUME SameScan, UNCHANGED deal
  PROVE  Bringing(deal)' = Bringing(deal)
BY DEF SameScan, Kept, Bringing, Brings, Asked, Sent

\* A step that loses nothing keeps the bound.
LEMMA NothingMoreIsLost ==
  ASSUME Belongs, LossBound, report.shifts \in Nat, report'.shifts = report.shifts,
         report'.untold = report.untold,
         \A k \in Key : Missed(k)' \subseteq Missed(k)
  PROVE  LossBound'
<1>1. \A k \in Key : Missed(k) \in SUBSET Deal  BY MissedAreDeals
<1>2. ASSUME NEW k \in Key
      PROVE  /\ Cardinality(Missed(k)) \in Nat /\ Cardinality(Missed(k)') \in Nat
             /\ Cardinality(Missed(k)') <= Cardinality(Missed(k))
  BY <1>1, SmallerSet, DealsAreFinite
<1>3. "created" \in Key /\ "moved" \in Key /\ "updated" \in Key  BY DEF Key, Leg
<1>4. PICK a \in Nat, b \in Nat, c \in Nat, u \in Nat, v \in Nat, w \in Nat :
        /\ a = Cardinality(Missed("created")) /\ u = Cardinality(Missed("created")')
        /\ b = Cardinality(Missed("moved")) /\ v = Cardinality(Missed("moved")')
        /\ c = Cardinality(Missed("updated")) /\ w = Cardinality(Missed("updated")')
        /\ u <= a /\ v <= b /\ w <= c
  BY <1>2, <1>3
<1> QED  BY <1>4 DEF LossBound

LEMMA PageLosesNothing ==
  ASSUME NEW told \in BOOLEAN, DealInv, LossInv, ReadPage(told), report' # NoReport
  PROVE  LossInv'
<1>1. /\ WhoInv /\ CountInv /\ report # NoReport
      /\ report.phase \in {"first", "pages"} /\ report.pending # <<>>
      /\ UNCHANGED <<deal, build>>
  BY DEF ReadPage, DealInv, ReportInv
<1>2. PICK stream : stream = Head(report.pending)[1]  OBVIOUS
<1>3. PICK start : start = Head(report.pending)[2]  OBVIOUS
<1>4. PICK totals : totals = IF start = 0 /\ told
                     THEN [report.totals EXCEPT ![stream] = Cardinality(Selection(stream))]
                     ELSE report.totals
  OBVIOUS
<1>5. PICK rest : rest = Tail(report.pending)  OBVIOUS
<1>6. PICK todo : todo = Remaining(totals)  OBVIOUS
<1> DEFINE last == report.phase = "first" /\ Len(report.pending) = 1
           phase == IF todo = <<>> THEN "answered"
                    ELSE IF last THEN "pages" ELSE report.phase
           counted == [d \in Deal |-> IF d \in Page(stream, start) /\ Folds(stream, d)
                                      THEN report.counted[d] + 1 ELSE report.counted[d]]
<1>7. report' = [report EXCEPT !.totals = totals, !.pending = todo,
                               !.untold = @ \/ ~told, !.phase = phase, !.counted = counted]
  BY <1>2, <1>3, <1>4, <1>6, Zenon DEF ReadPage
<1>8. /\ SameScan /\ report'.totals = totals /\ report'.pending = todo
      /\ report'.phase = phase /\ report'.counted = counted
      /\ report'.always = report.always /\ report'.shifts = report.shifts
      /\ report'.untold = (report.untold \/ ~told)
  BY <1>1, <1>7 DEF WhoInv, IsReport, Kept, SameScan
<1>9. /\ report.pending \in Seq(Sent \X Nat) /\ stream \in Sent /\ start \in Nat
      /\ Sent \subseteq Key /\ rest \in Seq(Sent \X Nat)
  <2>1. Sent \subseteq Key  BY LegsAreSent
  <2> QED  BY <1>1, <1>2, <1>3, <1>5, <2>1 DEF CountInv
<1>10. totals \in [Key -> Nat] /\ \A k \in Key : k # stream => totals[k] = report.totals[k]
  <2>1. Cardinality(Selection(stream)) \in Nat
    BY CardinalityIsNatural DEF Selection
  <2> QED  BY <1>1, <1>4, <1>9, <2>1 DEF CountInv
<1>11. /\ report.token = report.viewer /\ report.legs \in BOOLEAN
       /\ Belongs /\ LossBound /\ report.shifts \in Nat
       /\ report.phase = "first" => \A i \in 1 .. Len(report.pending) : report.pending[i][2] = 0
       /\ report.phase = "pages" => Shaped(report.pending)
  BY <1>1 DEF WhoInv, LossInv, Scanned
<1>12. todo = IF report.phase = "first" /\ rest = <<>> THEN MorePages(totals) ELSE rest
  BY <1>5, <1>6 DEF Remaining
<1>13. Len(rest) = Len(report.pending) - 1 /\ Len(report.pending) \in Nat
       /\ (rest = <<>> <=> Len(rest) = 0)
       /\ \A i \in 1 .. Len(rest) :
            i + 1 \in 1 .. Len(report.pending) /\ rest[i] = report.pending[i + 1]
  <2>1. /\ Len(rest) = Len(report.pending) - 1
        /\ \A i \in 1 .. Len(rest) :
             i + 1 \in 1 .. Len(report.pending) /\ rest[i] = report.pending[i + 1]
    BY <1>1, <1>5, <1>9, RestOfPages
  <2>2. Len(report.pending) \in Nat  BY <1>9
  <2>3. rest = <<>> <=> Len(rest) = 0  BY <1>9
  <2> QED  BY <2>1, <2>2, <2>3
<1>14. last <=> report.phase = "first" /\ rest = <<>>  BY <1>13
<1> HIDE DEF last, counted
<1>15. \/ phase = "answered" /\ todo = <<>>
       \/ phase = "pages" /\ todo # <<>> /\ (last \/ report.phase = "pages")
       \/ phase = "first" /\ todo # <<>> /\ ~last /\ report.phase = "first"
  <2>1. CASE todo = <<>>  BY <2>1
  <2>2. CASE todo # <<>> /\ last  BY <2>2
  <2>3. CASE todo # <<>> /\ ~last
    <3>1. phase = report.phase  BY <2>3
    <3> QED  BY <1>1, <2>3, <3>1
  <2> QED  BY <2>1, <2>2, <2>3
<1> HIDE DEF phase
<1>16. ASSUME NEW k \in Key, NEW d \in Deal
       PROVE  Place(k, d)' = Place(k, d) /\ Place(k, d) \in Nat
  BY <1>1, <1>8, SelectionStays, PlacesAreNumbers
<1>18. Bringing(deal)' = Bringing(deal)  BY <1>1, <1>8, BringingStays
<1>19. ASSUME told, NEW k \in Key, NEW d \in report.always[k], counted[d] = 0,
              ToCome(k, Place(k, d))
       PROVE  ToCome(k, Place(k, d))'
  <2>1. /\ d \in Deal /\ d \in Selection(k) /\ k \in Sent
        /\ report.counted[d] = 0 => Folds(k, d)
    BY <1>11, OwnedIsSelected
  <2>2. report.counted[d] = 0 /\ ~(d \in Page(stream, start) /\ Folds(stream, d))
    BY <1>1, <1>19, <2>1 DEF counted, CountInv
  <2>3. PICK x \in Nat : x = Place(k, d)  BY <1>16, <2>1
  <2>4. x = Place(k, d)'  BY <1>16, <2>1, <2>3
  <2>5. k = stream => ~(start <= x /\ x < start + PageSize)
    BY <1>11, <2>2, <2>3, PageFinds
  <2>6. x < Cardinality(Selection(k))
    <3>1. Selection(k) \in SUBSET Deal /\ x = Cardinality(Before(Selection(k), d))
      BY <2>3, PlacesAreNumbers
    <3> QED  BY <2>1, <3>1, PlaceBelowTotal
  <2>7. SUFFICES ToCome(k, x)'  BY <2>4
  <2>8. ToCome(k, x)  BY <1>19, <2>3
  <2>9. CASE report.phase = "pages"
    <3>1. ~Unasked(k) /\ Plan(k) = report.pending  BY <2>9 DEF Unasked, Plan
    <3>2. Within(report.pending, k, x)  BY <2>8, <3>1 DEF ToCome
    <3>3. Within(rest, k, x)
      BY <1>1, <1>2, <1>3, <1>5, <1>9, <2>5, <3>2, WithinTheRest
    <3>4. todo = rest /\ phase # "first"  BY <1>12, <1>15, <2>9
    <3>5. Within(todo, k, x)'  
      <4>1. Within(todo, k, x)  BY <3>3, <3>4
      <4> QED  BY <4>1 DEF Within, Asks
    <3> QED  BY <1>8, <3>4, <3>5 DEF ToCome, Plan
  <2>10. CASE report.phase = "first"
    <3>1. start = 0
      BY <1>1, <1>3, <1>9, <1>11, <2>10, RestOfPages
    <3>2. Within(PagesOf(k, totals[k]), k, x) \/ (~last /\ Unasked(k)')
      <4>1. CASE k = stream
        <5>1. totals[k] = Cardinality(Selection(k)) /\ totals[k] \in Nat
          BY <1>1, <1>4, <1>10, <1>19, <3>1, <4>1 DEF CountInv
        <5>2. PICK p \in Nat \ {0} : p = PageSize  BY PageSizeIsPositive
        <5>3. PageSize <= x
          BY <2>5, <3>1, <4>1, <5>2
        <5> QED  BY <2>6, <5>1, <5>3, PlanReachesTheEnd
      <4>2. CASE k # stream /\ Within(Plan(k), k, x)
        BY <1>10, <2>10, <4>2 DEF Plan
      <4>3. CASE k # stream /\ Unasked(k)
        <5>1. PICK i \in 1 .. Len(report.pending) : report.pending[i][1] = k
          BY <4>3 DEF Unasked
        <5>2. i # 1  BY <1>1, <1>2, <1>9, <4>3, <5>1, RestOfPages
        <5>3. i - 1 \in 1 .. Len(rest) /\ rest[i - 1] = report.pending[i]
          <6>1. i - 1 \in 1 .. Len(rest)  BY <1>13, <5>2
          <6>2. rest[i - 1] = report.pending[(i - 1) + 1]  BY <1>13, <6>1
          <6> QED  BY <6>1, <6>2
        <5>4. rest # <<>>  BY <5>3, <1>13
        <5>5. todo = rest /\ phase = "first" /\ ~last
          BY <1>12, <1>14, <1>15, <2>10, <5>4
        <5> QED  BY <1>8, <5>1, <5>3, <5>5 DEF Unasked
      <4> QED  BY <2>8, <4>1, <4>2, <4>3 DEF ToCome
    <3>3. CASE Unasked(k)'  BY <3>3 DEF ToCome
    <3>4. CASE Within(PagesOf(k, totals[k]), k, x) /\ last
      <4>1. todo = MorePages(totals) /\ phase # "first"  BY <1>12, <1>14, <1>15, <3>4
      <4>2. Within(todo, k, x)  BY <1>10, <1>11, <2>1, <3>4, <4>1, AllPlans
      <4>3. Within(todo, k, x)'  BY <4>2 DEF Within, Asks
      <4> QED  BY <1>8, <4>1, <4>3 DEF ToCome, Plan
    <3>5. CASE Within(PagesOf(k, totals[k]), k, x) /\ ~last
      <4>1. todo = rest /\ rest # <<>>  BY <1>12, <1>14, <2>10, <3>5
      <4>2. phase = "first"  BY <1>15, <2>10, <3>5, <4>1
      <4>3. Plan(k)' = PagesOf(k, totals[k])  BY <1>8, <4>2 DEF Plan, PagesOf
      <4>4. Within(PagesOf(k, totals[k]), k, x)'  
        BY <3>5 DEF Within, Asks, PagesOf
      <4> QED  BY <3>5, <4>3 DEF ToCome, Within, Asks
    <3> QED  BY <3>2, <3>3, <3>4, <3>5
  <2> QED  BY <1>1, <2>9, <2>10
<1>20. ASSUME told, NEW k \in Key PROVE Missed(k)' \subseteq Missed(k)
  <2> SUFFICES ASSUME NEW d \in Missed(k)' PROVE d \in Missed(k)  OBVIOUS
  <2>1. d \in report.always[k] /\ counted[d] = 0 /\ ~ToCome(k, Place(k, d))'
    BY <1>8 DEF Missed
  <2>2. d \in Deal  BY <1>11, <2>1 DEF Belongs, Bringing
  <2>3. report.counted[d] = 0
    BY <1>1, <2>1, <2>2 DEF CountInv, counted
  <2>4. ~ToCome(k, Place(k, d))  BY <1>19, <1>20, <2>1
  <2> QED  BY <2>1, <2>3, <2>4 DEF Missed
<1>21. LossBound'
  <2>1. CASE told
    <3>1. report'.untold = report.untold  BY <1>1, <1>8, <2>1 DEF WhoInv
    <3> QED  BY <1>8, <1>11, <1>20, <2>1, <3>1, NothingMoreIsLost
  <2>2. CASE ~told  BY <1>8, <2>2 DEF LossBound
  <2> QED  BY <2>1, <2>2
<1>22. report'.phase = "first" => \A i \in 1 .. Len(report'.pending) : report'.pending[i][2] = 0
  <2> SUFFICES ASSUME phase = "first", NEW i \in 1 .. Len(todo) PROVE todo[i][2] = 0
    BY <1>8
  <2>1. todo = rest /\ report.phase = "first"  BY <1>12, <1>14, <1>15
  <2>2. i + 1 \in 1 .. Len(report.pending) /\ rest[i] = report.pending[i + 1]
    BY <1>13, <2>1
  <2> QED  BY <1>11, <2>1, <2>2
<1>23. report'.phase = "pages" => Shaped(report.pending)'
  <2> SUFFICES ASSUME phase = "pages" PROVE Shaped(todo)
    BY <1>8 DEF Shaped
  <2>1. CASE last
    BY <1>10, <1>11, <1>12, <1>14, <2>1, AllPlans
  <2>2. CASE report.phase = "pages"
    BY <1>1, <1>5, <1>9, <1>11, <1>12, <2>2, RestIsShaped
  <2> QED  BY <1>15, <2>1, <2>2
<1>24. report'.phase = "answered" => report'.pending = <<>>  BY <1>8, <1>15
<1> QED
  <2>1. report'.shifts \in Nat /\ Belongs'  BY <1>8, <1>11, <1>18 DEF Belongs
  <2> QED  BY <2>1, <1>21, <1>22, <1>23, <1>24 DEF LossInv

-----------------------------------------------------------------------------
(* What an edit loses *)

\* The plan of a stream is in order, whether it is promised or being read.
LEMMA PlanIsInOrder ==
  ASSUME CountInv, report.phase \in {"first", "pages", "answered"},
         report.phase = "pages" => Shaped(report.pending),
         report.phase = "answered" => report.pending = <<>>, NEW k \in Key
  PROVE  /\ Shaped(Plan(k)) /\ Len(Plan(k)) \in Nat
         /\ \A i \in 1 .. Len(Plan(k)) : Plan(k)[i][2] \in Nat
<1>1. CASE report.phase = "first"
  <2>1. report.totals[k] \in Nat  BY DEF CountInv
  <2> QED  BY <1>1, <2>1, PlanIsShaped DEF Plan
<1>2. CASE report.phase = "pages"
  <2>1. report.pending \in Seq(Sent \X Nat)  BY <1>2 DEF CountInv
  <2> QED  BY <1>2, <2>1 DEF Plan
<1>3. CASE report.phase = "answered"
  BY <1>3 DEF Plan, Shaped
<1> QED  BY <1>1, <1>2, <1>3

\* If a change of one deal takes two deals out of the plan, the plan had a gap.
LEMMA OneIsLost ==
  ASSUME NEW S \in SUBSET Deal, NEW T \in SUBSET Deal, NEW x,
         T = S \cup {x} \/ S = T \cup {x},
         NEW pages, Len(pages) \in Nat, Shaped(pages), NEW k,
         \A i \in 1 .. Len(pages) : pages[i][2] \in Nat,
         NEW d \in S \cap T, NEW e \in S \cap T, d < e,
         Within(pages, k, Cardinality(Before(S, d))), Within(pages, k, Cardinality(Before(S, e))),
         ~Within(pages, k, Cardinality(Before(T, d))), ~Within(pages, k, Cardinality(Before(T, e)))
  PROVE  FALSE
<1>1. PICK a : a = Cardinality(Before(S, d))  OBVIOUS
<1>2. PICK b : b = Cardinality(Before(S, e))  OBVIOUS
<1>3. PICK u : u = Cardinality(Before(T, d))  OBVIOUS
<1>4. PICK v : v = Cardinality(Before(T, e))  OBVIOUS
<1>5. a \in Nat /\ b \in Nat /\ u \in Nat /\ v \in Nat
  <2>1. /\ Before(S, d) \in SUBSET Deal /\ Before(S, e) \in SUBSET Deal
        /\ Before(T, d) \in SUBSET Deal /\ Before(T, e) \in SUBSET Deal
    BY DEF Before
  <2> QED  BY <1>1, <1>2, <1>3, <1>4, <2>1, DealsAreFinite
<1>6. a < b  BY <1>1, <1>2, PlacesDiffer
<1>7. Within(pages, k, a) /\ Within(pages, k, b) /\ ~Within(pages, k, u) /\ ~Within(pages, k, v)
  BY <1>1, <1>2, <1>3, <1>4
<1>8. CASE T = S \cup {x}
  <2>1. u <= a + 1  BY <1>1, <1>3, <1>8, PlaceMoves
  <2>2. a <= u  BY <1>1, <1>3, <1>8, PlaceRises
  <2>3. u <= b  BY <1>5, <1>6, <2>1
  <2> QED  BY <1>5, <1>7, <2>2, <2>3, PagesAreConvex
<1>9. CASE S = T \cup {x}
  <2>1. b <= v + 1  BY <1>2, <1>4, <1>9, PlaceMoves
  <2>2. v <= b  BY <1>2, <1>4, <1>9, PlaceRises
  <2>3. a <= v  BY <1>5, <1>6, <2>1
  <2> QED  BY <1>5, <1>7, <2>2, <2>3, PagesAreConvex
<1> QED  BY <1>8, <1>9

Moves(k, d, r) == Selects(k, deal[d]) # Selects(k, r)

\* An edit is in as many streams as it moves rows of.
LEMMA ShiftsAdd ==
  ASSUME NEW d, NEW r
  PROVE  Shifts(d, r) = (IF Moves("created", d, r) THEN 1 ELSE 0)
                        + (IF Moves("moved", d, r) THEN 1 ELSE 0)
                        + (IF Moves("updated", d, r) THEN 1 ELSE 0)
<1> DEFINE Of(k) == IF Moves(k, d, r) THEN {k} ELSE {}
           One(k) == IF Moves(k, d, r) THEN 1 ELSE 0
<1>1. Shifts(d, r) = Cardinality(Of("created") \cup Of("moved") \cup Of("updated"))
  <2>1. {k \in Key : Moves(k, d, r)} = Of("created") \cup Of("moved") \cup Of("updated")
    BY DEF Key, Leg
  <2> QED  BY <2>1 DEF Shifts, Moves
<1>2. Cardinality(Of("created")) = One("created") /\ IsFiniteSet(Of("created"))
  BY FS_EmptySet, FS_Singleton
<1>3. ASSUME NEW S, IsFiniteSet(S), NEW k, k \notin S
      PROVE  /\ IsFiniteSet(S \cup Of(k))
             /\ Cardinality(S \cup Of(k)) = Cardinality(S) + One(k)
  <2>1. CASE Moves(k, d, r)
    <3>1. Of(k) = {k} /\ One(k) = 1  BY <2>1
    <3>2. IsFiniteSet(S \cup {k}) /\ Cardinality(S \cup {k}) = Cardinality(S) + 1
      BY <1>3, FS_AddElement
    <3>3. S \cup Of(k) = S \cup {k}  BY <3>1
    <3> HIDE DEF Of, One
    <3> QED  BY <3>1, <3>2, <3>3
  <2>2. CASE ~Moves(k, d, r)
    <3>1. S \cup Of(k) = S /\ One(k) = 0  BY <2>2
    <3>2. PICK n \in Nat : n = Cardinality(S)  BY <1>3, FS_CardinalityType
    <3>3. IsFiniteSet(S \cup Of(k)) /\ Cardinality(S \cup Of(k)) = n
      <4> HIDE DEF Of, One
      <4> QED  BY <1>3, <3>1, <3>2
    <3> HIDE DEF Of, One
    <3>4. n + One(k) = n  BY <3>1
    <3> QED  BY <3>2, <3>3, <3>4
  <2> QED  BY <2>1, <2>2
<1>4. "moved" \notin Of("created") /\ "updated" \notin Of("created") \cup Of("moved")
  OBVIOUS
<1> HIDE DEF Of
<1>5. /\ IsFiniteSet(Of("created") \cup Of("moved"))
      /\ Cardinality(Of("created") \cup Of("moved")) = One("created") + One("moved")
  BY <1>2, <1>3, <1>4
<1>6. Cardinality((Of("created") \cup Of("moved")) \cup Of("updated"))
        = One("created") + One("moved") + One("updated")
  BY <1>3, <1>4, <1>5
<1> QED  BY <1>1, <1>6

LEMMA EditIsBounded ==
  ASSUME NEW d \in Deal, NEW r \in Shapes, DealInv, LossInv, Edit(d, r), report # NoReport
  PROVE  LossInv'
<1> DEFINE now == [deal EXCEPT ![d] = r]
<1>1. /\ WhoInv /\ CountInv /\ WorldInv /\ deal[d].here
      /\ deal' = now /\ build' = build
      /\ report' = [report EXCEPT !.shifts = @ + Shifts(d, r),
                       !.ever = @ \cup Counting(now),
                       !.always = [k \in Key |-> @[k] \cap Bringing(now)[k]]]
  BY DEF Edit, DealInv, ReportInv
<1>2. /\ SameScan /\ report'.phase = report.phase /\ report'.counted = report.counted
      /\ report'.totals = report.totals /\ report'.pending = report.pending
      /\ report'.shifts = report.shifts + Shifts(d, r)
      /\ report'.always = [k \in Key |-> report.always[k] \cap Bringing(now)[k]]
      /\ report'.untold = report.untold
  BY <1>1 DEF WhoInv, IsReport, Kept, SameScan
<1>3. /\ report.shifts \in Nat
      /\ report.phase = "first" => \A i \in 1 .. Len(report.pending) : report.pending[i][2] = 0
      /\ report.phase = "pages" => Shaped(report.pending)
      /\ report.phase = "answered" => report.pending = <<>>
  BY <1>1 DEF LossInv
<1>4. Shifts(d, r) \in Nat  BY ShiftsAdd
<1>5. /\ Bringing(deal)' = Bringing(now) /\ Belongs'
      /\ \A k \in Key : report'.always[k] = report.always[k] \cap Bringing(now)[k]
  <2>1. Bringing(deal)' = Bringing(now)
    BY <1>1, <1>2 DEF SameScan, Kept, Bringing, Brings, Asked, Sent
  <2> QED  BY <1>2, <2>1 DEF Belongs
<1>6. Scanned' => Scanned  BY <1>2 DEF Scanned
<1>7. ASSUME Scanned PROVE LossBound'
  <2>1. /\ report.token = report.viewer /\ Belongs
        /\ LossBound /\ report.phase \in {"first", "pages", "answered"}
    BY <1>1, <1>7 DEF WhoInv, Scanned, LossInv
  <2>3. ASSUME NEW k \in Key
        PROVE  /\ Plan(k)' = Plan(k) /\ Unasked(k)' = Unasked(k)
               /\ \A x : ToCome(k, x)' = ToCome(k, x)
    BY <1>2 DEF Plan, Unasked, ToCome, Within, Asks, PagesOf
  <2>5. ASSUME NEW k \in Key, NEW e \in report'.always[k]
        PROVE  /\ e \in Deal /\ e \in report.always[k]
               /\ e \in Selection(k) /\ e \in Selection(k)'
    <3>1. e \in report.always[k] /\ e \in Bringing(now)[k]  BY <1>5, <2>5
    <3>2. e \in Selection(k) /\ e \in Deal  BY <2>1, <3>1, OwnedIsSelected
    <3>3. Selects(k, now[e])  BY <2>1, <3>1 DEF Bringing, Brings, Selects
    <3>4. Selection(k)' = {f \in Deal : Selects(k, now[f])}
      BY <1>1, <1>2 DEF Selection, Selects, Asked, SameScan, Kept
    <3> QED  BY <3>1, <3>2, <3>3, <3>4
  <2>6. ASSUME NEW k \in Key
        PROVE  /\ Moves(k, d, r) => Selection(k)' = Selection(k) \cup {d}
                                    \/ Selection(k) = Selection(k)' \cup {d}
               /\ ~Moves(k, d, r) => Selection(k)' = Selection(k)
    <3>1. Selection(k)' = {f \in Deal : Selects(k, now[f])}
      BY <1>1, <1>2 DEF Selection, Selects, Asked, SameScan, Kept
    <3>2. now[d] = r /\ \A f \in Deal : f # d => now[f] = deal[f]  BY <1>1 DEF WorldInv
    <3>3. \A f \in Deal : f # d => (f \in Selection(k)' <=> f \in Selection(k))
      BY <3>1, <3>2 DEF Selection
    <3>4. (d \in Selection(k)' <=> Selects(k, r)) /\ (d \in Selection(k) <=> Selects(k, deal[d]))
      BY <3>1, <3>2 DEF Selection
    <3>5. Selection(k) \subseteq Deal /\ Selection(k)' \subseteq Deal  BY <3>1 DEF Selection
    <3>6. Selects(k, r) \in BOOLEAN /\ Selects(k, deal[d]) \in BOOLEAN  BY DEF Selects
    <3>7. CASE Selects(k, r) /\ ~Selects(k, deal[d])
      <4>1. Selection(k)' = Selection(k) \cup {d}  BY <3>3, <3>4, <3>5, <3>7
      <4> QED  BY <3>7, <4>1 DEF Moves
    <3>8. CASE ~Selects(k, r) /\ Selects(k, deal[d])
      <4>1. Selection(k) = Selection(k)' \cup {d}  BY <3>3, <3>4, <3>5, <3>8
      <4> QED  BY <3>8, <4>1 DEF Moves
    <3>9. CASE Selects(k, r) = Selects(k, deal[d])
      <4>1. Selection(k)' = Selection(k)  BY <3>3, <3>4, <3>5, <3>9
      <4> QED  BY <3>9, <4>1 DEF Moves
    <3> QED  BY <3>6, <3>7, <3>8, <3>9
  <2>7. ASSUME NEW k \in Key
        PROVE  /\ Cardinality(Missed(k)) \in Nat /\ Cardinality(Missed(k)') \in Nat
               /\ Cardinality(Missed(k)')
                    <= Cardinality(Missed(k)) + (IF Moves(k, d, r) THEN 1 ELSE 0)
    <3>1. Missed(k) \in SUBSET Deal  BY <2>1, MissedAreDeals
    <3>2. Missed(k)' \in SUBSET Deal
      BY <2>5 DEF Missed
    <3>3. Cardinality(Missed(k)) \in Nat /\ Cardinality(Missed(k)') \in Nat
      BY <3>1, <3>2, DealsAreFinite
    <3>4. \A e \in Missed(k)' : e \notin Missed(k) =>
             /\ e \in Deal /\ e \in Selection(k) /\ e \in Selection(k)'
             /\ Within(Plan(k), k, Place(k, e)) /\ ~Within(Plan(k), k, Place(k, e)')
             /\ Place(k, e) # Place(k, e)'
      <4> SUFFICES ASSUME NEW e \in Missed(k)', e \notin Missed(k)
                   PROVE  /\ e \in Deal /\ e \in Selection(k) /\ e \in Selection(k)'
                          /\ Within(Plan(k), k, Place(k, e))
                          /\ ~Within(Plan(k), k, Place(k, e)')
                          /\ Place(k, e) # Place(k, e)'
        OBVIOUS
      <4>1. e \in report'.always[k] /\ report.counted[e] = 0 /\ ~ToCome(k, Place(k, e))'
        BY <1>2 DEF Missed
      <4>2. ToCome(k, Place(k, e))  BY <2>5, <4>1 DEF Missed
      <4>3. ~ToCome(k, Place(k, e)')
        <5>1. ~(Unasked(k)' \/ Within(Plan(k), k, Place(k, e))')  BY <4>1 DEF ToCome
        <5>2. ~Within(Plan(k), k, Place(k, e)')
          BY <2>3, <5>1 DEF Within, Asks
        <5> QED  BY <2>3, <5>1, <5>2 DEF ToCome
      <4>4. ~Unasked(k)  BY <4>3 DEF ToCome
      <4> QED  BY <2>5, <4>1, <4>2, <4>3, <4>4 DEF ToCome
    <3>5. CASE Missed(k)' \subseteq Missed(k)
      <4>1. Cardinality(Missed(k)') <= Cardinality(Missed(k))  BY <3>1, <3>5, SmallerSet
      <4> QED  BY <3>3, <4>1
    <3>6. CASE ~ (Missed(k)' \subseteq Missed(k))
      <4>1. PICK e \in Missed(k)' : e \notin Missed(k)  BY <3>6
      <4>2. Moves(k, d, r)
        <5> SUFFICES ASSUME ~Moves(k, d, r) PROVE FALSE  OBVIOUS
        <5>1. Selection(k)' = Selection(k)  BY <2>6
        <5>2. Place(k, e)' = Place(k, e)  BY <5>1 DEF Place
        <5> QED  BY <3>4, <4>1, <5>2
      <4>3. /\ Shaped(Plan(k)) /\ Len(Plan(k)) \in Nat
            /\ \A i \in 1 .. Len(Plan(k)) : Plan(k)[i][2] \in Nat
        BY <1>1, <1>3, <2>1, PlanIsInOrder
      <4>4. PICK S \in SUBSET Deal : S = Selection(k)  BY DEF Selection
      <4>5. PICK T \in SUBSET Deal : T = Selection(k)'  BY DEF Selection
      <4>6. T = S \cup {d} \/ S = T \cup {d}  BY <2>6, <4>2, <4>4, <4>5
      <4>7. \A f : Place(k, f) = Cardinality(Before(S, f))
                   /\ Place(k, f)' = Cardinality(Before(T, f))
        BY <4>4, <4>5 DEF Place, Before
      <4>8. PICK pages : pages = Plan(k)  OBVIOUS
      <4>9. ASSUME NEW f \in Missed(k)', f \notin Missed(k), NEW g \in Missed(k)',
                   g \notin Missed(k), f < g
            PROVE  FALSE
        <5>1. /\ f \in S \cap T /\ g \in S \cap T
              /\ Within(pages, k, Cardinality(Before(S, f)))
              /\ Within(pages, k, Cardinality(Before(S, g)))
              /\ ~Within(pages, k, Cardinality(Before(T, f)))
              /\ ~Within(pages, k, Cardinality(Before(T, g)))
          BY <3>4, <4>4, <4>5, <4>7, <4>8, <4>9
        <5> QED  BY <4>3, <4>6, <4>8, <4>9, <5>1, OneIsLost
      <4>10. Missed(k)' \subseteq Missed(k) \cup {e}
        <5> SUFFICES ASSUME NEW f \in Missed(k)', f \notin Missed(k), f # e PROVE FALSE
          OBVIOUS
        <5>1. e \in Nat /\ f \in Nat  BY <3>2, <4>1, DealsAreNumbers
        <5>2. e < f \/ f < e  BY <5>1
        <5> QED  BY <4>1, <4>9, <5>2
      <4>11. Cardinality(Missed(k)') <= Cardinality(Missed(k)) + 1
        BY <3>1, <3>2, <4>10, OneMore
      <4> QED  BY <3>3, <4>2, <4>11
    <3> QED  BY <3>5, <3>6
  <2>8. ASSUME NEW k \in Key
        PROVE  \E a \in Nat, u \in Nat, i \in {0, 1} :
                 /\ a = Cardinality(Missed(k)) /\ u = Cardinality(Missed(k)')
                 /\ i = (IF Moves(k, d, r) THEN 1 ELSE 0) /\ u <= a + i
    <3>1. PICK i \in {0, 1} : i = IF Moves(k, d, r) THEN 1 ELSE 0  OBVIOUS
    <3> QED  BY <2>7, <3>1
  <2>9. "created" \in Key /\ "moved" \in Key /\ "updated" \in Key  BY DEF Key, Leg
  <2>10. PICK a \in Nat, u \in Nat, i \in {0, 1} :
           /\ a = Cardinality(Missed("created")) /\ u = Cardinality(Missed("created")')
           /\ i = (IF Moves("created", d, r) THEN 1 ELSE 0) /\ u <= a + i
    BY <2>8, <2>9
  <2>11. PICK b \in Nat, v \in Nat, j \in {0, 1} :
           /\ b = Cardinality(Missed("moved")) /\ v = Cardinality(Missed("moved")')
           /\ j = (IF Moves("moved", d, r) THEN 1 ELSE 0) /\ v <= b + j
    BY <2>8, <2>9
  <2>12. PICK c \in Nat, w \in Nat, l \in {0, 1} :
           /\ c = Cardinality(Missed("updated")) /\ w = Cardinality(Missed("updated")')
           /\ l = (IF Moves("updated", d, r) THEN 1 ELSE 0) /\ w <= c + l
    BY <2>8, <2>9
  <2>13. Shifts(d, r) = i + j + l  BY <2>10, <2>11, <2>12, ShiftsAdd
  <2>14. PICK s \in Nat : s = report.shifts  BY <1>3
  <2>15. report'.shifts = s + (i + j + l)  BY <1>2, <2>13, <2>14
  <2>16. CASE report.untold  BY <1>2, <2>16 DEF LossBound
  <2>17. CASE ~report.untold
    <3>1. a + b + c <= s  BY <2>1, <2>10, <2>11, <2>12, <2>14, <2>17 DEF LossBound
    <3>2. u <= a + i /\ v <= b + j /\ w <= c + l  BY <2>10, <2>11, <2>12
    <3>3. u + v + w <= s + (i + j + l)  BY <3>1, <3>2
    <3> QED  BY <2>10, <2>11, <2>12, <2>15, <3>3 DEF LossBound
  <2> QED  BY <1>1, <2>16, <2>17 DEF WhoInv
<1>8. Shaped(report.pending)' <=> Shaped(report.pending)  BY <1>2 DEF Shaped
<1>9. report'.shifts \in Nat  BY <1>2, <1>3, <1>4
<1> QED  BY <1>2, <1>3, <1>5, <1>6, <1>7, <1>8, <1>9 DEF LossInv

-----------------------------------------------------------------------------
LEMMA InitLosesNothing == Init => LossInv
BY DEF Init, LossInv

LEMMA BeginLosesNothing ==
  ASSUME DealInv, LossInv, Begin, report' # NoReport
  PROVE  LossInv'
<1>1. /\ WhoInv /\ CountInv /\ report # NoReport /\ report.shifts \in Nat
      /\ Identified /\ deal' = deal /\ build' = build
      /\ report' = [report EXCEPT !.phase = "first", !.pending = FirstPages,
                                 !.ever = Counting(deal), !.always = Bringing(deal)]
  BY DEF Begin, DealInv, ReportInv, LossInv
<1>2. /\ SameScan /\ report'.phase = "first" /\ report'.pending = FirstPages
      /\ report'.always = Bringing(deal) /\ report'.shifts = report.shifts
      /\ report'.counted = report.counted /\ report'.untold = report.untold
  BY <1>1 DEF WhoInv, IsReport, Kept, SameScan
<1>3. Belongs'  BY <1>1, <1>2, BringingStays DEF Belongs
<1>4. FirstPages =
        IF report.legs THEN <<<<"created", 0>>, <<"moved", 0>>, <<"updated", 0>>>>
        ELSE <<<<"created", 0>>>>
  BY DEF FirstPages, Streams
<1>5. /\ \A i \in 1 .. Len(FirstPages) : FirstPages[i][2] = 0
      /\ \A k \in Sent : \E i \in 1 .. Len(FirstPages) : FirstPages[i][1] = k
  <2>1. CASE report.legs
    <3>1. /\ Len(FirstPages) = 3 /\ FirstPages[1] = <<"created", 0>>
          /\ FirstPages[2] = <<"moved", 0>> /\ FirstPages[3] = <<"updated", 0>>
      BY <1>4, <2>1
    <3>2. Sent = {"created", "moved", "updated"}  BY <2>1 DEF Sent, Key, Leg
    <3> QED  BY <3>1, <3>2
  <2>2. CASE ~report.legs
    <3>1. Len(FirstPages) = 1 /\ FirstPages[1] = <<"created", 0>>  BY <1>4, <2>2
    <3>2. Sent = {"created"}  BY <2>2 DEF Sent
    <3> QED  BY <3>1, <3>2
  <2> QED  BY <2>1, <2>2
<1>6. ASSUME NEW k \in Key PROVE Missed(k)' = {}
  <2>1. CASE k \in Sent
    <3>1. Unasked(k)'  BY <1>2, <1>5, <2>1 DEF Unasked
    <3> QED  BY <3>1 DEF Missed, ToCome
  <2>2. CASE k \notin Sent
    <3>1. report'.always[k] = {}  BY <1>2, <2>2 DEF Bringing, Brings
    <3> QED  BY <3>1 DEF Missed
  <2> QED  BY <2>1, <2>2
<1>7. Missed("created")' = {} /\ Missed("moved")' = {} /\ Missed("updated")' = {}
  BY <1>6 DEF Key, Leg
<1>8. LossBound'  BY <1>1, <1>2, <1>7, FS_EmptySet DEF LossBound
<1> QED  BY <1>1, <1>2, <1>3, <1>5, <1>8 DEF LossInv

LEMMA LossStep == DealInv /\ LossInv /\ [Next]_vars => LossInv'
<1> SUFFICES ASSUME DealInv, LossInv, [Next]_vars, report' # NoReport PROVE LossInv'
  BY DEF LossInv
<1>1. CASE \E v, t \in Viewer, e \in Filters : Admit(v, t, e)
  <2>1. report'.shifts = 0 /\ report'.phase \in {"warm", "identify"}
    BY <1>1 DEF Admit, Opened
  <2> QED  BY <2>1 DEF LossInv, Scanned
<1>2. CASE Identify \/ \E failed \in BOOLEAN : Probe(failed)
  <2>1. WhoInv /\ report.shifts \in Nat
    BY <1>2 DEF Identify, Probe, DealInv, ReportInv, LossInv
  <2>2. report'.shifts = report.shifts /\ report'.phase \in {"probe", "preflight"}
    <3>1. CASE Identify
      BY <2>1, <3>1 DEF Identify, WhoInv, IsReport
    <3>2. CASE \E failed \in BOOLEAN : Probe(failed)
      <4>1. \E item, proved : report' = [report EXCEPT !.phase = "preflight", !.item = item,
                                                       !.proved = proved]
        BY <3>2, Zenon DEF Probe
      <4> QED  BY <2>1, <4>1 DEF WhoInv, IsReport
    <3> QED  BY <1>2, <3>1, <3>2
  <2> QED  BY <2>1, <2>2 DEF LossInv, Scanned
<1>3. CASE \E d \in Deal : \E r \in Shapes : Edit(d, r)
  <2>1. report # NoReport  BY <1>3 DEF Edit
  <2> QED  BY <1>3, <2>1, EditIsBounded
<1>4. CASE UNCHANGED <<deal, build, report>>
  <2>1. \A k, d : Place(k, d)' = Place(k, d)
    BY <1>4 DEF Place, Selection, Selects, Asked
  <2>2. ASSUME NEW k PROVE Missed(k)' = Missed(k)
    <3>1. Unasked(k)' = Unasked(k) /\ Plan(k)' = Plan(k)
      BY <1>4 DEF Unasked, Plan, PagesOf
    <3>2. \A d : ToCome(k, Place(k, d))' = ToCome(k, Place(k, d))
      BY <2>1, <3>1 DEF ToCome, Within, Asks
    <3> QED  BY <1>4, <3>2 DEF Missed
  <2>3. Belongs' = Belongs  BY <1>4 DEF Belongs, Bringing, Brings, Asked, Sent
  <2>4. LossBound' = LossBound  BY <1>4, <2>2 DEF LossBound
  <2>5. Shaped(report.pending)' <=> Shaped(report.pending)  BY <1>4 DEF Shaped
  <2> QED  BY <1>4, <2>3, <2>4, <2>5 DEF LossInv, Scanned
<1>5. CASE Refuse \/ Answered
  BY <1>5 DEF Refuse, Answered
<1> QED
  BY <1>1, <1>2, <1>3, <1>4, <1>5, BeginLosesNothing, PageLosesNothing
  DEF Next, vars, NameStages, Expire

LEMMA LossIsCounted ==
  ASSUME DealInv, LossInv
  PROVE  LossIsBounded
<1> SUFFICES ASSUME Shown, ~report.untold PROVE Cardinality(Lost) <= report.shifts
  BY DEF LossIsBounded
<1>1. /\ report.phase = "answered" /\ report.pending = <<>> /\ report.shifts \in Nat
      /\ Belongs /\ LossBound
  BY DEF Shown, LossInv, Scanned
<1>2. ASSUME NEW k, NEW x PROVE ~ToCome(k, x)
  BY <1>1, NothingIsUnread DEF ToCome, Unasked, Plan
<1>3. Lost \subseteq Missed("created") \cup Missed("moved") \cup Missed("updated")
  BY <1>2 DEF Lost, Missed, Key, Leg
<1>4. "created" \in Key /\ "moved" \in Key /\ "updated" \in Key  BY DEF Key, Leg
<1>5. PICK a \in SUBSET Deal : a = Missed("created")  BY <1>1, <1>4, MissedAreDeals
<1>6. PICK b \in SUBSET Deal : b = Missed("moved")  BY <1>1, <1>4, MissedAreDeals
<1>7. PICK c \in SUBSET Deal : c = Missed("updated")  BY <1>1, <1>4, MissedAreDeals
<1>8. Cardinality(a \cup b) <= Cardinality(a) + Cardinality(b)  BY UnionIsNoLarger
<1>9. Cardinality(a \cup b \cup c) <= Cardinality(a \cup b) + Cardinality(c)
  BY UnionIsNoLarger
<1>10. Lost \in SUBSET (a \cup b \cup c) /\ a \cup b \cup c \in SUBSET Deal
  BY <1>3, <1>5, <1>6, <1>7
<1>11. Cardinality(Lost) <= Cardinality(a \cup b \cup c)  BY <1>10, SmallerSet
<1>12. /\ Cardinality(a) \in Nat /\ Cardinality(b) \in Nat /\ Cardinality(c) \in Nat
       /\ Cardinality(a \cup b) \in Nat /\ Cardinality(a \cup b \cup c) \in Nat
       /\ Cardinality(Lost) \in Nat
  BY <1>10, DealsAreFinite
<1>13. Cardinality(a) + Cardinality(b) + Cardinality(c) <= report.shifts
  BY <1>1, <1>5, <1>6, <1>7 DEF LossBound
<1> QED  BY <1>1, <1>8, <1>9, <1>11, <1>12, <1>13

-----------------------------------------------------------------------------
(* Every column is typed, no deal is counted twice although two streams    *)
(* return it and pages drift (deal_stats.py:23-31), and nobody gets more   *)
(* reports than the window allows (_charge_report).                        *)
THEOREM TypeCorrect == Spec => []TypeOK
BY DealInvImplies, InitIsSafe, DealStep, PTL DEF Spec

\* A report on a proved dialect counts only deals that belonged to it at some
\* moment of the scan, however deals are edited meanwhile (_fold, _legs).
THEOREM OnlyThePeriodIsCounted == Spec => []OnlyThePeriod
BY DealInvImplies, InitIsSafe, DealStep, PTL DEF Spec

\* The verdict cached for the portal is true of its build, whichever viewer's
\* probe left it there (honour_verdict, _dialect_known).
THEOREM VerdictsAreTrue == Spec => []VerdictIsTrue
BY DealInvImplies, InitIsSafe, DealStep, PTL DEF Spec

\* No report and no dictionary is read on somebody else's token (_identity_ok
\* in the warm batch as well as in the cold one).
THEOREM NobodyBorrows == Spec => []NothingBorrowed
BY DealInvImplies, InitIsSafe, DealStep, PTL DEF Spec

\* An answered report has lost no more deals than the edits made while it was
\* read moved between its pages: no rung truncates, and the pages its totals
\* promise reach the end of every stream (_scan, _fold and the order of
\* _streams, deal_stats.py).
THEOREM NoReportLosesMore == Spec => []LossIsBounded
BY LossIsCounted, InitLosesNothing, LossStep, InitIsSafe, DealStep, PTL DEF Spec
=============================================================================
