----------------------------- MODULE UtmReport ------------------------------
(***************************************************************************)
(* The live UTM report of one portal, services/utm_stats.py with the       *)
(* commands of bitrix/utm.py: which legs and which spelling a portal       *)
(* answers (the capability, cached by portal although every viewer asks on *)
(* a token of their own), and the bucket ladder that folds the rows.       *)
(* Paging is the deal report's (DealReport) over one stream per kind; here *)
(* a scan is one step, and so is the identity check, already told there.   *)
(*                                                                         *)
(* The answers of Bitrix24 and the rights of its users are external.       *)
(***************************************************************************)
EXTENDS Integers, FiniteSets, FiniteSetsExt

CONSTANTS
    Viewer,
    Admin,           \* viewers who read every kind
    Value,           \* the values of a tag: positive, ordered as their text is
    ValueCap,        \* UTM_VALUE_CAP
    CombinationCap,  \* UTM_COMBINATION_CAP
    MaxReports,      \* bound: reports
    Builds,          \* bound: the portals considered
    Scans            \* bound: what a scan may return, functions to records

VARIABLES
    build,   \* per kind, what each spelling answers here
    mode,    \* "classic" or "simple": whether leads exist beside deals
    rights,  \* the kinds each viewer may read
    cache,   \* _capability_cache[portal]
    report, reports

portal == <<build, mode, rights>>

vars == <<portal, cache, report, reports>>

Kind == {"lead", "deal"}
Spelling == {"item", "legacy"}

\* Its fields and its period filter hold; no tag is declared; a core field is not;
\* the filter is dropped without a word; the method is not there.
Answer == {"ok", "untagged", "coreless", "ignores", "absent"}
Dimension == {"source", "content", "term"}

\* BUCKET_NONE, BUCKET_OTHER and BUCKET_COLLAPSED: no value is spelled so.
NoTag == 0
Other == -1
Collapsed == -2

NoMoney == "none"
Unnamed == "unnamed"

\* One row, its tags normalised, with the currency of each amount it carries:
\* NoMoney without an amount, Unnamed for an amount whose currency is empty.
Record == [kind : Kind, tags : [Dimension -> Value \cup {NoTag}],
           account : STRING, native : STRING]

ASSUME UtmReportAssumption ==
    /\ Value \subseteq Nat \ {0}
    /\ {ValueCap, CombinationCap} \subseteq Nat \ {0} /\ MaxReports \in Nat
    /\ Admin \subseteq Viewer /\ Builds \subseteq [Kind -> [Spelling -> Answer]]
    /\ \A rows \in Scans : IsFiniteSet(DOMAIN rows) /\ \A i \in DOMAIN rows : rows[i] \in Record

\* opportunityAccount is Bitrix24's own conversion of opportunity: it is never
\* there alone (bitrix/utm.py, Money).
ASSUME ConversionAssumption ==
    \A rows \in Scans : \A i \in DOMAIN rows :
        rows[i].account # NoMoney => rows[i].native # NoMoney

-----------------------------------------------------------------------------
(* Aggregates.  _fold keys every record on all its tags; the aggregate of  *)
(* a key counts its leads and its deals.                                   *)

Raw(rows) ==
    [key \in {rows[i].tags : i \in DOMAIN rows} |->
        [k \in Kind |-> Cardinality({i \in DOMAIN rows : rows[i].tags = key /\ rows[i].kind = k})]]

\* _Acc.merge over some of the keys.
Merged(accs, keys) == [k \in Kind |-> MapThenSumSet(LAMBDA key : accs[key][k], keys)]

Totals(accs) == Merged(accs, DOMAIN accs)

Weight(acc) == acc["lead"] + acc["deal"]

\* _facets: the exact marginals of every dimension.
Facets(raw) ==
    [d \in Dimension |->
        [v \in {key[d] : key \in DOMAIN raw} |-> Merged(raw, {key \in DOMAIN raw : key[d] = v})]]

\* _ranked: by weight descending, then by the value itself.
Ahead(values, w, v) ==
    Weight(values[w]) > Weight(values[v]) \/ (Weight(values[w]) = Weight(values[v]) /\ w < v)

Kept(values) == {v \in DOMAIN values : Cardinality({w \in DOMAIN values : Ahead(values, w, v)}) < ValueCap}

KeptBeforeOther(values) ==
    {v \in DOMAIN values : Cardinality({w \in DOMAIN values : Ahead(values, w, v)}) < ValueCap - 1}

\* _remaps: past the cap a value is relabelled, never dropped.
RemapPastCap(facets, d, v) == IF v \in KeptBeforeOther(facets[d]) THEN v ELSE Other

Remap(facets, d, v) == IF v \in Kept(facets[d]) THEN v ELSE Other

\* _project: the keys folded onto the dimensions asked for.
Project(raw, facets, dims, collapsed) ==
    LET onto(key) == [d \in dims |-> IF d \in collapsed THEN Collapsed ELSE Remap(facets, d, key[d])]
    IN  [p \in {onto(key) : key \in DOMAIN raw} |->
            Merged(raw, {key \in DOMAIN raw : onto(key) = p})]

\* _combinations: the dimensions lifted out of the key, in _COLLAPSE_ORDER, until
\* the rows fit or nothing is left to lift.
CollapsedOf(raw, facets, dims) ==
    LET fits(lifted) == Cardinality(DOMAIN Project(raw, facets, dims, lifted)) <= CombinationCap
        first == {"term"} \cap dims
    IN  IF fits({}) THEN {} ELSE IF fits(first) THEN first ELSE {"term", "content"} \cap dims

\* _facet_wire: the values kept, and the rest as one row.
FacetWire(values) ==
    LET rest == DOMAIN values \ Kept(values)
    IN  [v \in Kept(values) \cup (IF rest = {} THEN {} ELSE {Other}) |->
            IF v = Other THEN Merged(values, rest) ELSE values[v]]

(* _amounts: one source for the whole report, and no number at all when    *)
(* its amounts are in more than one currency.                              *)
Priced(rows) == {i \in DOMAIN rows : rows[i].kind = "deal"
                                     /\ (rows[i].account # NoMoney \/ rows[i].native # NoMoney)}

SourceOfAny(rows) == IF \E i \in Priced(rows) : rows[i].account # NoMoney THEN "account" ELSE "native"

Source(rows) ==
    IF Priced(rows) # {} /\ \A i \in Priced(rows) : rows[i].account # NoMoney
    THEN "account" ELSE "native"

CurrencyIn(source, row) == IF source = "account" THEN row.account ELSE row.native

Currencies(rows) ==
    {CurrencyIn(Source(rows), rows[i]) : i \in Priced(rows)} \ {NoMoney, Unnamed}

Trusted(rows) == Cardinality(Currencies(rows)) <= 1

-----------------------------------------------------------------------------
(* The capability *)

NoCapability == [lead |-> "unknown", deal |-> "unknown"]
NoReport == [phase |-> "none"]

Init ==
    /\ build \in Builds
    /\ mode \in {"classic", "simple"}
    /\ rights \in {r \in [Viewer -> SUBSET Kind] : \A v \in Admin : r[v] = Kind}
    /\ cache = NoCapability
    /\ report = NoReport /\ reports = 0

Refused(code) == [phase |-> "refused", viewer |-> report.viewer, code |-> code]

\* _report: warm on a live cached capability, through the probe otherwise.  "sees"
\* are the kinds of which this viewer has a record to see, "seen" and "asked" what
\* that was and what the portal answered when each kind was probed.
Open(viewer, sees) ==
    /\ report = NoReport /\ reports < MaxReports
    /\ reports' = reports + 1
    /\ report' = [phase |-> IF cache = NoCapability THEN "probe" ELSE "scan",
                  viewer |-> viewer, warm |-> cache # NoCapability, can |-> cache,
                  cacheable |-> TRUE, tagless |-> {},
                  sees |-> sees, seen |-> {}, asked |-> build]
    /\ UNCHANGED <<portal, cache>>

\* _run_batch, or a page, failing: an error, a timeout, the deadline.
Fail ==
    /\ report # NoReport /\ report.phase \in {"probe", "legacy", "scan"}
    /\ report' = Refused("failed")
    /\ UNCHANGED <<portal, cache, reports>>

(* _decide for one kind and spelling.  The honour probe counts what this   *)
(* viewer sees of the year 2999 on, so a dropped filter shows only to one  *)
(* who sees something.  "blank" are the kinds whose probe came back        *)
(* without a total, which is usable and never cacheable.                   *)
Decide(kind, spelling, blank) ==
    IF build[kind][spelling] = "absent" THEN "demote"
    ELSE IF kind \notin rights[report.viewer] THEN "unavailable"
    ELSE IF build[kind][spelling] \in {"coreless", "untagged"} THEN "demote"
    ELSE IF kind \in blank THEN "inconclusive"
    ELSE IF build[kind][spelling] = "ignores" /\ kind \in report.sees THEN "demote"
    ELSE "ok"

\* What one probed kind becomes: its spelling, or none; and whether that says
\* anything about the build rather than about the caller.
Leg(kind, spelling, blank) ==
    CASE Decide(kind, spelling, blank) \in {"ok", "inconclusive"} -> spelling
      [] Decide(kind, spelling, blank) = "demote" /\ build[kind][spelling] = "untagged" -> spelling
      [] OTHER -> "none"

SaysUnlessBlank(kind, spelling, blank) == kind \notin blank

SaysOfBuild(kind, spelling, blank) ==
    \/ Decide(kind, spelling, blank) = "ok"
    \/ spelling = "legacy" /\ build[kind][spelling] \in {"absent", "untagged"}
          /\ Decide(kind, spelling, blank) = "demote"

\* The verdict of the last probe: a leg that reads, and a tag both legs carry.
ConcludedFromAny(r) ==
    IF \E k \in r.tagless : r.can[k] # "none" THEN Refused("utm_unsupported")
    ELSE [r EXCEPT !.phase = "scan"]

Concluded(r) ==
    IF r.can = [k \in Kind |-> "none"] THEN Refused("crm_no_access")
    ELSE IF \E k \in r.tagless : r.can[k] # "none" THEN Refused("utm_unsupported")
    ELSE [r EXCEPT !.phase = "scan"]

\* _capability, the universal probe: legs that were not demoted are decided.
Probe(blank) ==
    /\ report # NoReport /\ report.phase = "probe"
    /\ LET demoted == {k \in Kind : Decide(k, "item", blank) = "demote"}
           r == [report EXCEPT
                    !.can = [k \in Kind |-> IF k \in demoted THEN "unknown" ELSE Leg(k, "item", blank)],
                    !.cacheable = \A k \in Kind \ demoted : SaysOfBuild(k, "item", blank),
                    !.asked = build, !.seen = report.sees]
       IN  report' = IF demoted = {} THEN Concluded(r) ELSE [r EXCEPT !.phase = "legacy"]
    /\ UNCHANGED <<portal, cache, reports>>

\* The legacy probe of the demoted kinds.
ProbeLegacy(blank) ==
    /\ report # NoReport /\ report.phase = "legacy"
    /\ LET demoted == {k \in Kind : report.can[k] = "unknown"}
           tagless == {k \in demoted : /\ build[k]["legacy"] = "untagged"
                                       /\ Decide(k, "legacy", blank) = "demote"}
       IN  report' = Concluded([report EXCEPT
                !.can = [k \in Kind |-> IF k \in demoted THEN Leg(k, "legacy", blank) ELSE @[k]],
                !.cacheable = @ /\ \A k \in demoted : SaysOfBuild(k, "legacy", blank),
                !.tagless = tagless,
                !.asked = [k \in Kind |-> IF k \in demoted THEN build[k] ELSE @[k]],
                !.seen = (@ \ demoted) \cup (demoted \cap report.sees)])
    /\ UNCHANGED <<portal, cache, reports>>

\* _deals_only: a Simple-CRM report reads no leads, unless deals cannot be read.
View(can) == IF mode = "simple" /\ can["deal"] # "none" THEN [can EXCEPT !["lead"] = "none"] ELSE can

Legs(can) == {k \in Kind : can[k] # "none"}

Absent(can, k) == build[k][can[k]] = "absent"

\* A lead leg that is gone since the verdict was cached.
Dropped(can) == {k \in Legs(can) \cap {"lead"} : Absent(can, k) /\ Cardinality(Legs(can)) > 1}

CachedView(can, view) == view

CachedWhole(can, view) == can

\* Mutant: the guard of utm_stats.py:1390 dropped.
WithoutEvidence(counted) == TRUE

\* The probe counts nothing to one who sees nothing; page 0 returned a total that
\* says otherwise.  One sum over both legs.
Evidence(counted) == counted # {}

(* _run_scan and the end of _report: page 0 of every leg, the lead leg     *)
(* dropped if its method is gone, the rows folded, and the capability      *)
(* remembered only when a selection counted rows, or evicted if it lied.   *)
(* A page 0 without a total ("untold") counts none.                        *)
Scan(rows, untold) ==
    /\ report # NoReport /\ report.phase = "scan"
    /\ LET view == View(report.can)
           legs == Legs(view) \ Dropped(view)
           read == [i \in {j \in DOMAIN rows : rows[j].kind \in legs \cap report.sees}
                       |-> rows[i]]
           counted == {read[i].kind : i \in DOMAIN read} \ untold
       IN  IF \E k \in legs : Absent(view, k)
           THEN /\ report' = Refused("method_missing") /\ UNCHANGED cache
           ELSE IF ~ (legs \subseteq rights[report.viewer])
           THEN /\ report' = Refused("crm_no_access") /\ UNCHANGED cache
           ELSE /\ report' = [phase |-> "answered", viewer |-> report.viewer, legs |-> legs, rows |-> read]
                /\ cache' = IF Dropped(view) # {} THEN NoCapability
                            ELSE IF ~report.warm /\ report.cacheable /\ Evidence(counted)
                            THEN CachedWhole(report.can, view) ELSE cache
    /\ UNCHANGED <<portal, reports>>

Close ==
    /\ report # NoReport /\ report.phase \in {"answered", "refused"}
    /\ report' = NoReport
    /\ UNCHANGED <<portal, cache, reports>>

-----------------------------------------------------------------------------
(* The portal meanwhile *)

\* An administrator turns leads off or on, or switches the CRM mode (external).
LeadsOff == [s \in Spelling |-> "absent"]

SwitchLeads ==
    /\ report # NoReport => report.phase \in {"probe", "legacy", "scan"}
    /\ reports > 0 /\ reports < MaxReports
    /\ \E b \in Builds : /\ b["deal"] = build["deal"] /\ b # build
                         /\ LeadsOff \in {b["lead"], build["lead"]}
                         /\ build' = b
    /\ UNCHANGED <<mode, rights, cache, report, reports>>

\* The viewer's first record of a kind is created, or the last one given away.
RecordsChange(k) ==
    /\ report # NoReport /\ report.phase \in {"probe", "legacy", "scan"}
    /\ k \in rights[report.viewer]
    /\ report' = [report EXCEPT !.sees = IF k \in @ THEN @ \ {k} ELSE @ \cup {k}]
    /\ UNCHANGED <<portal, cache, reports>>

SwitchMode ==
    /\ report = NoReport /\ reports > 0 /\ reports < MaxReports
    /\ mode' = IF mode = "simple" THEN "classic" ELSE "simple"
    /\ UNCHANGED <<build, rights, cache, report, reports>>

\* UTM_CAPABILITY_TTL_SEC runs out, or the process restarts.
Expire ==
    /\ report = NoReport /\ cache # NoCapability /\ reports < MaxReports
    /\ cache' = NoCapability
    /\ UNCHANGED <<portal, report, reports>>

Next ==
    \/ \E v \in Viewer : \E sees \in SUBSET rights[v] : Open(v, sees)
    \/ Fail \/ Close
    \/ \E blank \in SUBSET Kind : Probe(blank) \/ ProbeLegacy(blank)
    \/ \E rows \in Scans, untold \in SUBSET Kind : Scan(rows, untold)
    \/ \E k \in Kind : RecordsChange(k)
    \/ SwitchLeads \/ SwitchMode \/ Expire

Spec == Init /\ [][Next]_vars

-----------------------------------------------------------------------------
(* Properties *)

Shown == report # NoReport /\ report.phase = "answered"

\* Types; a report is drawn from at least one leg it could read, never as an
\* empty table that could equally mean "you may see none" (utm_stats.py:735).
TypeOK ==
    /\ cache \in [Kind -> Spelling \cup {"none"}] \cup {NoCapability}
    /\ rights \in [Viewer -> SUBSET Kind]
    /\ reports \in 0 .. MaxReports
    /\ Shown => report.legs # {} /\ report.legs \subseteq rights[report.viewer]

\* What fills the cache (_Capability, and the end of _report).  A leg enters it
\* as missing only when its methods were; as readable only when its filter held,
\* or when the viewer saw no record of its kind to prove the contrary; and one
\* leg at least held, unless a record of its kind came up after the probe.
CachedOnEvidence ==
    [][cache' \notin {cache, NoCapability} =>
         /\ \A k \in Kind :
              IF cache'[k] = "none" THEN report.asked[k]["legacy"] = "absent"
              ELSE \/ report.asked[k][cache'[k]] = "ok"
                   \/ report.asked[k][cache'[k]] = "ignores" /\ k \notin report.seen
         /\ \E k \in Kind :
              /\ cache'[k] # "none"
              /\ \/ report.asked[k][cache'[k]] = "ok"
                 \/ k \in report.sees \ report.seen]_vars

\* "a selection that returned rows proves exactly that" (utm_stats.py:1381): a leg
\* is remembered only when its period filter held.  Rows of one leg say it of both.
RememberedLegsHold ==
    [][cache' \notin {cache, NoCapability} =>
         \A k \in Kind : cache'[k] # "none" => report.asked[k][cache'[k]] # "ignores"]_vars

\* The ladder relabels and never drops: whatever was bucketed or collapsed, the
\* rows add up to the totals, so does every facet, and a dimension still in the
\* key reads in the rows exactly as in its facet.
NothingDropped ==
    Shown => \E raw \in {Raw(report.rows)} : \E facets \in {Facets(raw)} :
        /\ \A d \in Dimension : Totals(FacetWire(facets[d])) = Totals(raw)
        /\ \A dims \in {Dimension, {"source", "term"}} :
             \E lifted \in {CollapsedOf(raw, facets, dims)} :
             \E rows \in {Project(raw, facets, dims, lifted)} :
                /\ Totals(rows) = Totals(raw)
                /\ \A d \in dims \ lifted :
                     FacetWire(facets[d]) =
                        [v \in {p[d] : p \in DOMAIN rows} |->
                            Merged(rows, {p \in DOMAIN rows : p[d] = v})]

\* An amount is printed only when every priced deal is in it, and no two of them
\* name different currencies.
OneCurrency ==
    Shown /\ Trusted(report.rows) =>
        \A i, j \in Priced(report.rows) :
            LET currency(n) == CurrencyIn(Source(report.rows), report.rows[n])
            IN  /\ currency(i) # NoMoney
                /\ Unnamed \notin {currency(i), currency(j)} => currency(i) = currency(j)

-----------------------------------------------------------------------------
(* Said of the code and not kept by it (README, "Divergences"); no run of *)
(* the project checks what follows.                                       *)

\* architecture.md:1040, "Both legs refused is 403 crm_no_access": the code of
\* a viewer who can read neither, not of one whom the cache of a colleague put
\* on a leg the cold path would have left out.
RefusedOnlyWithoutLegs ==
    report # NoReport /\ report.phase = "refused" /\ report.code = "crm_no_access" =>
        \A k \in Kind : k \notin rights[report.viewer] \/ "ok" \notin {build[k][s] : s \in Spelling}
=============================================================================
