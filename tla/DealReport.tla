----------------------------- MODULE DealReport -----------------------------
(***************************************************************************)
(* The live deal report of one portal: services/deal_stats.py with the     *)
(* commands of bitrix/deals.py and the rule of services/deal_period.py.    *)
(* A report is read page by page, by offset, from a CRM that people edit   *)
(* meanwhile, on a dialect whose filters were probed at most an hour ago.  *)
(*                                                                         *)
(* One portal: its gate (a Semaphore(1)) admits one report at a time.  A   *)
(* request that waits half a second at a gate is refused without having    *)
(* touched anything, so it is not a step here.  A batch is read command by *)
(* command, which allows every interleaving with an edit a batch allows.   *)
(* The CRM and the answers of Bitrix24 are external.                       *)
(***************************************************************************)
EXTENDS Integers, Sequences, FiniteSets

CONSTANTS
    Viewer,        \* users who open the page
    Admin,         \* those with access = 'all'; the others are pinned to themselves
    MaxDeal,       \* deal ids are 1 .. MaxDeal
    PageSize,      \* DEAL_PAGE_SIZE
    ScanCap,       \* DEAL_SCAN_CAP
    ReportLimit,   \* DEAL_REPORT_LIMIT per viewer and window
    MaxEdits,      \* bound: changes of the CRM
    MaxReports,    \* bound: admitted reports
    Shapes,        \* bound: the records a deal may be
    Builds,        \* bound: the portals considered
    Filters,       \* bound: the employees a viewer may narrow the report to
    None

ASSUME DealReportAssumption ==
    /\ Admin \subseteq Viewer /\ None \notin Viewer
    /\ {MaxDeal, PageSize, ReportLimit} \subseteq Nat \ {0}
    /\ {ScanCap, MaxEdits, MaxReports} \subseteq Nat

VARIABLES
    deal,      \* the CRM: what each deal is now
    build,     \* which keys crm.item.list declares and which it applies
    rule,      \* the administrator named stages (portals.deal_period_rule)
    verdict,   \* _dialect_cache[portal]
    dictionary,\* _dictionary_cache: whose token read the entry of each viewer
    window,    \* reports charged to each viewer in the current window
    report,    \* the report inside the portal gate
    edits, reports

vars == <<deal, build, rule, verdict, dictionary, window, report, edits, reports>>

Deal == 1 .. MaxDeal
Leg == {"moved", "updated"}
Key == {"created"} \cup Leg

\* A deal: the selections of the period it is in, the viewer it is assigned
\* to, and its column: a named stage, a stage with the same bare status id in
\* another funnel, or neither.
Record == {r \in [here : BOOLEAN, in : SUBSET Key, owner : Viewer,
                  column : {"named", "namesake", "plain"}] :
             r.here /\ (r.column = "plain" => r.in \subseteq {"created"})}

Gone == [here |-> FALSE, in |-> {}, owner |-> None, column |-> "plain"]

ASSUME ShapesAssumption == Shapes \subseteq Record \cup {Gone}

ASSUME BuildsAssumption ==
    \A b \in Builds : /\ b \in [declares : SUBSET Key, applies : SUBSET Key]
                      /\ b.applies \subseteq b.declares

Unproven == [honoured |-> "unknown", legs |-> FALSE]

NoReport == [phase |-> "none"]

-----------------------------------------------------------------------------
(* What Bitrix24 answers *)

\* The CRM rights of a token.
Sees(viewer, r) == r.here /\ (viewer \in Admin \/ r.owner = viewer)

\* assigned_to: no filter at all, or the owners asked for by @assignedById.
Asked(r) == report.assigned = {} \/ r.owner \in report.assigned

\* The fallback dialect is believed; a key crm.item.list does not apply is
\* ignored, and the period with it.
Selects(stream, r) ==
    /\ Sees(report.token, r) /\ Asked(r)
    /\ stream \in r.in \/ (report.item /\ stream \notin build.applies)

Selection(stream) == {d \in Deal : Selects(stream, deal[d])}

\* A page by offset, by id ascending; past the end of the selection it is empty.
Place(stream, d) == Cardinality({e \in Selection(stream) : e < d})

Page(stream, start) ==
    {d \in Selection(stream) : start <= Place(stream, d) /\ Place(stream, d) < start + PageSize}

\* The streams _streams lists.
Sent == IF report.legs THEN Key ELSE {"created"}

\* Owner decision 3, stream by stream: created in the period or, in a named
\* stage, moved or modified in it.
Brings(stream, r) ==
    /\ stream \in Sent \cap r.in /\ Sees(report.viewer, r) /\ Asked(r)
    /\ stream = "created" \/ r.column = "named"

Bringing(now) == [k \in Key |-> {d \in Deal : Brings(k, now[d])}]

Counting(now) == {d \in Deal : \E k \in Key : Brings(k, now[d])}

-----------------------------------------------------------------------------
Init ==
    /\ deal \in [Deal -> Shapes]
    /\ build \in Builds
    /\ rule \in BOOLEAN
    /\ verdict = Unproven
    /\ dictionary = [v \in Viewer |-> None]
    /\ window = [v \in Viewer |-> 0]
    /\ report = NoReport
    /\ edits = 0 /\ reports = 0

(* _dialect_known and _dialect_for: a verdict that applied to the legs is  *)
(* needed only by a report that sends them; the fallback needs no probe.   *)
KnownForCreation(legs) == verdict.honoured # "unknown"

DialectKnown(legs) ==
    /\ verdict.honoured # "unknown"
    /\ verdict.legs \/ ~legs \/ verdict.honoured = "no"

ItemDialect == verdict.honoured # "no"

\* _charge_report.
MayReport(viewer) == window[viewer] < ReportLimit

\* The start of _report, with the portal row as it was read: warm on a cached
\* dictionary and a live verdict.  Everybody but a viewer with access = 'all' is
\* pinned to their own deals.  "token" is whose Bitrix24 token the browser
\* posted; "untold" and the fields after it are for the properties.
Opened(viewer, token, employees) ==
    [viewer |-> viewer, token |-> token, legs |-> rule, item |-> ItemDialect,
     assigned |-> IF viewer \in Admin THEN employees ELSE {viewer},
     probe |-> ~DialectKnown(rule), proved |-> DialectKnown(rule),
     phase |-> IF dictionary[viewer] # None /\ DialectKnown(rule) THEN "warm" ELSE "identify",
     totals |-> [k \in Key |-> 0], pending |-> <<>>, counted |-> [d \in Deal |-> 0],
     untold |-> FALSE, shifts |-> 0, ever |-> {}, always |-> [k \in Key |-> {}]]

\* load_deal_report behind its gates: the viewer is charged last, and a viewer
\* over the limit is refused before any request.
Admit(viewer, token, employees) ==
    /\ report = NoReport /\ reports < MaxReports
    /\ MayReport(viewer)
    /\ window' = [window EXCEPT ![viewer] = @ + 1]
    /\ reports' = reports + 1
    /\ report' = Opened(viewer, token, employees)
    /\ UNCHANGED <<deal, build, rule, verdict, dictionary, edits>>

\* _run_batch: an error, a timeout, the deadline or the operating budget ends
\* the report with a code at any point; nothing of it is shown.
Refuse ==
    /\ report # NoReport /\ report.phase # "answered"
    /\ report' = NoReport
    /\ UNCHANGED <<deal, build, rule, verdict, dictionary, window, edits, reports>>

\* _identity_ok on the first batch, the warm one as well as the cold one.
IdentifiedWhenCold == report.phase = "warm" \/ report.token = report.viewer

Identified == report.token = report.viewer

\* The cold path's first batch: identity, funnels and the declared names.  A
\* missing name sends the list to the fallback dialect, and is remembered.
Identify ==
    /\ report # NoReport /\ report.phase = "identify"
    /\ IF ~Identified
       THEN report' = NoReport /\ UNCHANGED verdict
       ELSE LET missing == report.item /\ ~ (Sent \subseteq build.declares)
            IN  /\ report' = [report EXCEPT !.phase = "probe", !.item = @ /\ ~missing,
                                            !.proved = @ \/ missing]
                /\ verdict' = IF missing THEN [honoured |-> "no", legs |-> report.legs] ELSE verdict
    /\ UNCHANGED <<deal, build, rule, dictionary, window, edits, reports>>

(* honour_verdict of the future-dated probes, with the unfiltered baseline *)
(* and any command of the batch allowed to have failed on its own.         *)
VerdictOfAnyZero(failed, baseline) ==
    IF failed \/ baseline = 0 \/ Sent \subseteq build.applies THEN "yes" ELSE "no"

HonourVerdict(failed, baseline) ==
    IF failed \/ baseline = 0 THEN "unknown"
    ELSE IF Sent \subseteq build.applies THEN "yes" ELSE "no"

\* The second batch: stages and, when no live verdict covers the keys this
\* report sends, the probes; then the dictionary is cached for this viewer.
Probe(failed) ==
    /\ report # NoReport /\ report.phase = "probe"
    /\ LET probes == report.probe /\ report.item
           baseline == Cardinality({d \in Deal : Sees(report.token, deal[d])})
           answer == IF probes THEN HonourVerdict(failed, baseline) ELSE "unknown"
       IN  /\ failed => probes
           /\ verdict' = IF answer = "unknown" THEN verdict
                         ELSE [honoured |-> answer, legs |-> report.legs]
           /\ report' = [report EXCEPT !.phase = "preflight", !.item = @ /\ answer # "no",
                                       !.proved = @ \/ answer # "unknown"]
    /\ dictionary' = [dictionary EXCEPT ![report.viewer] = report.token]
    /\ UNCHANGED <<deal, build, rule, window, edits, reports>>

-----------------------------------------------------------------------------
(* _scan: page 0 of every stream is the preflight, its totals gate the     *)
(* scan, and the pages still pending are the ones those totals promise.    *)

\* Keys in the order _streams lists them.
Streams == IF report.legs THEN <<"created", "moved", "updated">> ELSE <<"created">>

FirstPages == [i \in DOMAIN Streams |-> <<Streams[i], 0>>]

\* range(DEAL_PAGE_SIZE, total, DEAL_PAGE_SIZE), stream by stream.
PagesBefore(stream, total) ==
    [i \in 1 .. (IF total <= 1 THEN 0 ELSE (total - 2) \div PageSize) |-> <<stream, i * PageSize>>]

PagesOf(stream, total) ==
    [i \in 1 .. (IF total = 0 THEN 0 ELSE (total - 1) \div PageSize) |-> <<stream, i * PageSize>>]

MorePages(totals) ==
    PagesOf("created", totals["created"])
        \o (IF report.legs
            THEN PagesOf("moved", totals["moved"]) \o PagesOf("updated", totals["updated"])
            ELSE <<>>)

\* _fold: by id once; a leg's row only into a named column, and not marked
\* seen otherwise, since the creation stream may still return it.
FoldsAgain(stream, d) == stream = "created" \/ deal[d].column = "named"

Folds(stream, d) ==
    /\ report.counted[d] = 0
    /\ stream = "created" \/ deal[d].column = "named"

\* The identity is proved before anything is folded; a cold report proved it
\* in Identify.
Begin ==
    /\ report # NoReport /\ report.phase \in {"warm", "preflight"}
    /\ report' = IF ~Identified THEN NoReport
                 ELSE [report EXCEPT !.phase = "first", !.pending = FirstPages,
                                     !.ever = Counting(deal), !.always = Bringing(deal)]
    /\ UNCHANGED <<deal, build, rule, verdict, dictionary, window, edits, reports>>

\* The cap is on the sum over the streams, at least the size of their union.
TooLarge(totals) == totals["created"] + totals["moved"] + totals["updated"] > ScanCap

\* What is left to read once the page at the head is folded.
Remaining(totals) ==
    LET rest == Tail(report.pending)
    IN  IF report.phase = "first" /\ rest = <<>> THEN MorePages(totals) ELSE rest

\* One page command answered; one that errored is Refuse.  A page 0 without a
\* total promises no further page: "total_of(...) or 0".
ReadPage(told) ==
    /\ report # NoReport /\ report.phase \in {"first", "pages"} /\ report.pending # <<>>
    /\ LET stream == Head(report.pending)[1]
           start == Head(report.pending)[2]
           rows == Page(stream, start)
           totals == IF start = 0 /\ told
                     THEN [report.totals EXCEPT ![stream] = Cardinality(Selection(stream))]
                     ELSE report.totals
           last == report.phase = "first" /\ Len(report.pending) = 1
           todo == Remaining(totals)
       IN  /\ told \/ start = 0
           /\ report' = IF last /\ TooLarge(totals)
                     THEN NoReport
                     ELSE [report EXCEPT !.totals = totals, !.pending = todo,
                             !.untold = @ \/ ~told,
                             !.phase = IF todo = <<>> THEN "answered"
                                      ELSE IF last THEN "pages" ELSE @,
                             !.counted = [d \in Deal |->
                                IF d \in rows /\ Folds(stream, d) THEN @[d] + 1 ELSE @[d]]]
    /\ UNCHANGED <<deal, build, rule, verdict, dictionary, window, edits, reports>>

\* The response is sent and both gates are released.
Answered ==
    /\ report # NoReport /\ report.phase = "answered"
    /\ report' = NoReport
    /\ UNCHANGED <<deal, build, rule, verdict, dictionary, window, edits, reports>>

-----------------------------------------------------------------------------
(* The world meanwhile *)

\* In how many selections of this report a change of one deal moves the rows
\* behind it.
Shifts(d, r) == Cardinality({k \in Key : Selects(k, deal[d]) # Selects(k, r)})

\* A deal is edited, reassigned, moved to a stage or deleted (external).  No
\* edit changes the creation time; a new deal has the highest id, behind every
\* page a running report has still to read, and is left out.
Edit(d, r) ==
    /\ edits < MaxEdits /\ reports > 0 /\ deal[d].here /\ r # deal[d]
    /\ r.here => ("created" \in r.in <=> "created" \in deal[d].in)
    /\ deal' = [deal EXCEPT ![d] = r]
    /\ edits' = edits + 1
    /\ report' = IF report = NoReport THEN report
                 ELSE [report EXCEPT !.shifts = @ + Shifts(d, r),
                                     !.ever = @ \cup Counting([deal EXCEPT ![d] = r]),
                                     !.always = [k \in Key |->
                                         @[k] \cap Bringing([deal EXCEPT ![d] = r])[k]]]
    /\ UNCHANGED <<build, rule, verdict, dictionary, window, reports>>

\* store_deal_period_rule from the Settings page; a running report keeps the
\* portal row it was admitted with.
NameStages ==
    /\ report = NoReport /\ reports > 0 /\ reports < MaxReports
    /\ rule' = ~rule
    /\ UNCHANGED <<deal, build, verdict, dictionary, window, report, edits, reports>>

\* _DIALECT_TTL_S, deal_dictionary_ttl_sec and _REPORT_WINDOW_S run out.
Expire ==
    /\ report = NoReport /\ reports < MaxReports
    /\ \/ verdict' = Unproven /\ UNCHANGED <<dictionary, window>>
       \/ \E v \in Viewer : /\ dictionary' = [dictionary EXCEPT ![v] = None]
                            /\ UNCHANGED <<verdict, window>>
       \/ \E v \in Viewer : /\ window[v] > 0
                            /\ window' = [window EXCEPT ![v] = @ - 1]
                            /\ UNCHANGED <<verdict, dictionary>>
    /\ UNCHANGED <<deal, build, rule, report, edits, reports>>

Next ==
    \/ \E v, t \in Viewer, employees \in Filters : Admit(v, t, employees)
    \/ Refuse \/ Identify \/ Begin \/ Answered
    \/ \E failed \in BOOLEAN : Probe(failed)
    \/ \E told \in BOOLEAN : ReadPage(told)
    \/ \E d \in Deal : \E r \in Shapes : Edit(d, r)
    \/ NameStages \/ Expire

Spec == Init /\ [][Next]_vars

-----------------------------------------------------------------------------
(* Properties *)

Shown == report # NoReport /\ report.phase = "answered"

\* Types; the counters stay where the code keeps them: no deal is counted
\* twice ("drift can only ever lose a row, never double one",
\* deal_stats.py:23-31), although two streams return it and pages drift, and a
\* viewer never gets more reports than the window allows.
TypeOK ==
    /\ deal \in [Deal -> Record \cup {Gone}]
    /\ build.applies \subseteq build.declares
    /\ verdict \in [honoured : {"unknown", "yes", "no"}, legs : BOOLEAN]
    /\ dictionary \in [Viewer -> Viewer \cup {None}]
    /\ window \in [Viewer -> 0 .. ReportLimit]
    /\ report # NoReport => report.counted \in [Deal -> 0 .. 1]

\* The deals one stream had to bring from the first page to the last and that
\* are not in the answer.  One that passes from one stream to another while it
\* is read is promised by neither.
Lost == {d \in Deal : report.counted[d] = 0 /\ \E k \in Key : d \in report.always[k]}

\* An answered report whose first pages all told their totals has lost no more
\* deals than the edits made while it was read moved between its pages, stream by
\* stream: a report nobody disturbed counts every deal of owner decision 3.
LossIsBounded == Shown /\ ~report.untold => Cardinality(Lost) <= report.shifts

\* A report drawn on a proved dialect counts only deals that belonged to it at
\* some moment of the scan: neither a namesake of a named stage, nor a deal of
\* a period whose filter the build ignored.
OnlyThePeriod ==
    Shown /\ report.proved => {d \in Deal : report.counted[d] > 0} \subseteq report.ever

\* The verdict of the whole portal is never one that a viewer without deals,
\* or a probe without the legs, could not have proved.
VerdictIsTrue ==
    verdict.honoured = "yes" =>
        /\ "created" \in build.applies
        /\ verdict.legs => Leg \subseteq build.applies

\* No report is answered, and no dictionary kept for a viewer, on the token of
\* somebody else: the warm path proves the identity as the cold one does.
NothingBorrowed ==
    /\ Shown => report.token = report.viewer
    /\ \A v \in Viewer : dictionary[v] \in {v, None}

-----------------------------------------------------------------------------
(* Said of the code and not kept by it (README, "Divergences"); no run of *)
(* the project checks what follows.                                       *)

\* architecture.md, the honour probe: "a year-2999 probe in the exact flat
\* shape the period sends proves the filter is applied".  Does every report on
\* crm.item.list have that proof?
EveryReportIsProved ==
    Shown => {d \in Deal : report.counted[d] > 0} \subseteq report.ever

\* "Every rung of the budget ladder REFUSES; none truncates" (deal_stats.py:41), of
\* every answered report, a first page without a total included.
NoneTruncates == Shown => Cardinality(Lost) <= report.shifts
=============================================================================
