----------------------------- MODULE CrmMirror -----------------------------
(***************************************************************************)
(* The CRM mirror of one portal, for one entity (deals): the lanes of      *)
(* src/api/app/sync/crm_*.py, as _phase_crm_* of                           *)
(* src/api/app/jobs/definitions.py run them.                               *)
(*                                                                         *)
(*   sweep      re-reads what changed since a watermark, in ID order       *)
(*   backfill   reads history once, newest ID range first                  *)
(*   dirty      re-reads queued IDs and confirms the ones that are missing *)
(*   reconcile  compares counts, then IDs, and queues the differences      *)
(*   patrol     the backfill again, once a week, for edits no sweep sees   *)
(*                                                                         *)
(* The lanes of a visit run one after the other, and a lost fence commits  *)
(* nothing (SyncLease), so a request and the transaction that stores its   *)
(* answer are one step here: nothing else reads or writes the mirror in    *)
(* between.  A request that fails, or a visit that ends in between, leaves *)
(* everything as it was and is no step at all.  The dirty pass makes two   *)
(* requests and two transactions and keeps its steps; so does the daily    *)
(* retention job, which runs beside the visits.                            *)
(*                                                                         *)
(* An answer without the rows it should have (an error, a full page        *)
(* without one usable id) is such a request.  When a lane is due is left   *)
(* open: due_at, the back-off after an error and the share of a method's   *)
(* budget only delay it (RateControl).  Worker and portal share one clock, *)
(* so no slack is allowed for.  The record's fields are a version number.  *)
(***************************************************************************)
EXTENDS Integers, Sequences, FiniteSets, FiniteSetsExt

CONSTANTS
  MaxId,             \* record IDs are 1..MaxId, in the order of creation
  PageSize,          \* rows in a page
  Commands,          \* crm_batch_commands
  MaxWidth,          \* crm_backfill_range_max
  LeafSize,          \* reconcile: a range this small is listed
  Lookback,          \* INITIAL_LOOKBACK of the first sweep
  Overlap,           \* crm_sweep_overlap_sec
  CommitLag,         \* an edit is visible at most this long after its stamp
  MaxShift,          \* the widest shift of a datetime filter
  None,              \* Python's None
  Refused,           \* records whose rows the parser or the database refuses
  StartId,           \* records that exist when CRM analytics is switched on
  MaxTime, MaxChanges, MaxFaults   \* bounds

Ids == 1..MaxId

ASSUME NumberAssumption ==
  /\ MaxId \in Nat /\ StartId \in 0..MaxId
  /\ PageSize \in Nat \ {0} /\ Commands \in Nat \ {0}
  /\ MaxWidth \in Nat \ {0} /\ LeafSize \in Nat \ {0}
  /\ Lookback \in Nat /\ Overlap \in Nat /\ MaxShift \in Nat
  /\ MaxTime \in Nat \ {0} /\ MaxChanges \in Nat /\ MaxFaults \in Nat
ASSUME LagAssumption == CommitLag \in 0..Overlap
ASSUME NoneAssumption == None \notin Int
ASSUME RefusedAssumption == Refused \subseteq Ids

VARIABLES
  now,
  content, bumped, updated,   \* records: version, version at the last change of
                              \* updatedTime, updatedTime
  gone, hidden,               \* deleted; not readable with the stored credential
  zone,                       \* how far the portal shifts a datetime filter
  row,                        \* crm_items
  sweep, walk, recon,         \* crm_lanes: the cursors
  dirty,                      \* crm_dirty: the IDs queued
  refresh,                    \* the dirty pass in progress
  changes, faults,            \* how often the portal changed, a request failed
  seen                        \* ghost: what the properties have to know

recordVars == <<content, bumped, updated, gone, hidden>>
portalVars == <<recordVars, zone>>
laneVars == <<sweep, walk, recon>>
mirrorVars == <<row, laneVars, dirty>>
vars == <<now, portalVars, mirrorVars, refresh, changes, faults, seen>>

Cache == INSTANCE RecordCache WITH Ids <- Ids, content <- content, gone <- gone,
                                   row <- row

-----------------------------------------------------------------------------
(* The portal's answers. *)

Existing == {i \in Ids : content[i] > 0} \ gone
Visible == Existing \ hidden

\* The n smallest members of S, which is what a page of a keyset walk holds.
Lowest(S, n) == {x \in S : Cardinality({y \in S : y <= x}) <= n}

Greatest(S) == IF S = {} THEN 0 ELSE Max(S)

\* crm.item.list above after and below hi, ordered by ID, one page.
Page(after, hi) == Lowest({i \in Visible : after < i /\ i < hi}, PageSize)

-----------------------------------------------------------------------------
(* crm_upsert and crm_deletes: what a read does to the rows. *)

\* upsert_items: a refused row is recorded and left out, the others are written.
\* The version guard (read_at) never refuses: the worker is one, and reads in
\* the order in which it stores.
Upserted(S, versions) ==
  [i \in Ids |-> IF i \in S \ Refused /\ row[i].kind # "deleted"
                 THEN Cache!Copy(versions[i], FALSE) ELSE row[i]]

Stored(S) == Upserted(S, content)

LiveRows == {i \in Ids : row[i].kind = "live"}
LocalIds == {i \in LiveRows : ~row[i].unreadable}

-----------------------------------------------------------------------------
(* The sweep's cursor and its bound (crm_sweep, crm_clock). *)

\* from_json: while nothing is stored, the cursor is made up anew each time.
Since == IF sweep.known THEN sweep.since ELSE now - Lookback

\* What is sent: the shift that was measured is added back; unmeasured, the
\* bound goes as early as any shift could make necessary.
Bound ==
  LET wanted == Since - Overlap IN
  IF sweep.shift = None THEN wanted - MaxShift ELSE wanted + sweep.shift

\* What the portal makes of it.
SweepPage ==
  Lowest({i \in Visible : i > sweep.after /\ updated[i] >= Bound - zone}, PageSize)

\* A row older than this proves that the filter was not honoured.
Floor == (Since - Overlap) - (IF sweep.shift = None THEN 2 * MaxShift ELSE 0)
Disagrees(page) == \E i \in page : updated[i] < Floor

\* The measured shift is ahead of the real one: the portal selects less than
\* was wanted, and no row can show it.
Narrowed == sweep.shift # None /\ sweep.shift > zone

-----------------------------------------------------------------------------
(* Ranges [lo, hi), newest first (crm_ranges, crm_backfill). *)

\* Mutant: the upper end is taken for the last ID of the range.
IdRangeClosed(lo, hi) == [lo |-> lo, hi |-> hi - 1, cursor |-> lo - 1, done |-> FALSE]

IdRange(lo, hi) == [lo |-> lo, hi |-> hi, cursor |-> lo - 1, done |-> FALSE]

CeilDiv(a, b) == (a + b - 1) \div b
AtLeast(a, b) == IF a > b THEN a ELSE b
AtMost(a, b) == IF a < b THEN a ELSE b

\* Everything below hi in ranges of this width, newest first.
PlanRanges(hi, width) ==
  [n \in 1..CeilDiv(hi - 1, width) |->
     IdRange(AtLeast(1, hi - n * width), hi - (n - 1) * width)]

\* plan: open ranges below next until Commands are open or nothing is left.
Planned(open, next, width) ==
  open \o SubSeq(PlanRanges(next, width), 1,
                 AtMost(AtLeast(0, Commands - Len(open)), CeilDiv(next - 1, width)))

\* Mutant: a command that failed moves its range as if it had answered nothing.
AdvancedBlind(r, failed) ==
  LET page == IF failed THEN {} ELSE Page(r.cursor, r.hi)
      last == IF page = {} THEN r.cursor ELSE Max(page) IN
  [r EXCEPT !.cursor = last, !.done = Cardinality(page) < PageSize \/ last >= r.hi - 1]

\* apply_range_batch, one range: a failed command leaves its own range alone.
Advanced(r, failed) ==
  LET page == Page(r.cursor, r.hi)
      last == IF page = {} THEN r.cursor ELSE Max(page) IN
  IF failed \/ r.done THEN r
  ELSE [r EXCEPT !.cursor = last,
                 !.done = Cardinality(page) < PageSize \/ last >= r.hi - 1]

\* settle: done ranges leave from the front only.
Settled(open) ==
  LET front == {n \in 1..Len(open) : \A m \in 1..n : open[m].done} IN
  SubSeq(open, Greatest(front) + 1, Len(open))

-----------------------------------------------------------------------------
FreshWalk(phase, legacy) ==
  [phase |-> phase, high |-> None, width |-> 0, next |-> 0, covered |-> 0, open |-> <<>>,
   legacy |-> legacy]
NoRecon == [started |-> FALSE, queue |-> <<>>, leaves |-> <<>>, parked |-> FALSE]
NoPass == [stage |-> "idle", items |-> {}, present |-> {}, versions |-> <<>>, missing |-> {},
           absent |-> {}, denied |-> {}]

Init ==
  /\ now = 1
  /\ content = [i \in Ids |-> IF i <= StartId THEN 1 ELSE 0]
  /\ bumped = content
  /\ updated = [i \in Ids |-> 0]
  /\ gone = {} /\ hidden = {}
  /\ zone \in -MaxShift..MaxShift
  /\ row = [i \in Ids |-> Cache!NoRow]
  /\ sweep = [known |-> FALSE, since |-> 0, after |-> 0, started |-> None, shift |-> None,
              clock |-> "due", parked |-> FALSE, legacy |-> FALSE]
  /\ walk = FreshWalk("backfill", FALSE)
  /\ recon = NoRecon
  /\ dirty = {} /\ refresh = NoPass
  /\ changes = 0 /\ faults = 0
  /\ seen = [blind |-> FALSE, head |-> 0, narrowed |-> FALSE, hidden |-> {}]

Between == refresh = NoPass      \* no dirty pass is in progress

FaultCounted == faults < MaxFaults /\ faults' = faults + 1
ChangeCounted == changes < MaxChanges /\ changes' = changes + 1

-----------------------------------------------------------------------------
(* The portal: people work in it, time passes, its zone may change. *)

Tick ==
  /\ now < MaxTime
  /\ now' = now + 1
  /\ UNCHANGED <<portalVars, mirrorVars, refresh, changes, faults, seen>>

\* A change is stamped when it is made and visible when it commits.
Stamped(i) == \E lag \in 0..CommitLag : lag <= now /\ updated' = [updated EXCEPT ![i] = now - lag]

Create ==
  /\ ChangeCounted
  /\ \E i \in Ids :
       /\ content[i] = 0 /\ \A j \in 1..(i - 1) : content[j] > 0
       /\ content' = [content EXCEPT ![i] = 1]
       /\ bumped' = [bumped EXCEPT ![i] = 1]
       /\ Stamped(i)
  /\ UNCHANGED <<now, gone, hidden, zone, mirrorVars, refresh, faults, seen>>

Edit ==
  /\ ChangeCounted
  /\ \E i \in Existing :
       /\ content' = [content EXCEPT ![i] = @ + 1]
       /\ bumped' = [bumped EXCEPT ![i] = content[i] + 1]
       /\ Stamped(i)
  /\ UNCHANGED <<now, gone, hidden, zone, mirrorVars, refresh, faults, seen>>

\* "Some edits may not bump it."
SilentEdit ==
  /\ ChangeCounted
  /\ \E i \in Existing : content' = [content EXCEPT ![i] = @ + 1]
  /\ UNCHANGED <<now, bumped, updated, gone, hidden, zone, mirrorVars, refresh, faults, seen>>

Delete ==
  /\ ChangeCounted
  /\ \E i \in Existing : gone' = gone \cup {i}
  /\ UNCHANGED <<now, content, bumped, updated, hidden, zone, mirrorVars, refresh, faults, seen>>

\* The rights of the installer are narrowed, and widened again.
Hide ==
  /\ ChangeCounted
  /\ \E i \in Visible :
       /\ hidden' = hidden \cup {i}
       /\ seen' = [seen EXCEPT !.hidden = @ \cup {i}]
  /\ UNCHANGED <<now, content, bumped, updated, gone, zone, mirrorVars, refresh, faults>>

Show ==
  /\ hidden # {}
  /\ hidden' = {}
  /\ UNCHANGED <<now, content, bumped, updated, gone, zone, mirrorVars, refresh, changes,
                 faults, seen>>

\* Daylight saving, or another user's credential is stored.
ZoneChanges ==
  /\ ChangeCounted
  /\ zone' \in (-MaxShift..MaxShift) \ {zone}
  /\ UNCHANGED <<now, recordVars, mirrorVars, refresh, faults, seen>>

-----------------------------------------------------------------------------
(* _run_crm_sweep *)

Sweepable == Between /\ ~sweep.parked
References == LiveRows # {}
KeepsSweep(c) == sweep' = [c EXCEPT !.known = TRUE, !.since = Since]
Restarted(c) == [c EXCEPT !.after = 0, !.started = None]

\* A measurement is used for ten minutes, then doubted, then made again.
ClockAges ==
  /\ sweep.clock \in {"fresh", "old"}
  /\ sweep' = [sweep EXCEPT !.clock = IF @ = "fresh" THEN "old" ELSE "due"]
  /\ UNCHANGED <<now, portalVars, row, walk, recon, dirty, refresh, changes, faults, seen>>

\* _measure_sweep_clock against a mirrored record.  Answers that are no clean
\* prefix leave the shift as it was.
Measure ==
  /\ Sweepable /\ sweep.clock = "due" /\ References
  /\ \/ /\ UNCHANGED faults
        /\ IF sweep.shift = zone
           THEN KeepsSweep([sweep EXCEPT !.clock = "fresh"])
           ELSE KeepsSweep(Restarted([sweep EXCEPT !.clock = "fresh", !.shift = zone]))
     \/ FaultCounted /\ KeepsSweep([sweep EXCEPT !.clock = "fresh"])
  /\ UNCHANGED <<now, portalVars, row, walk, recon, dirty, refresh, changes, seen>>

ReadyToSweep == Sweepable /\ (sweep.clock # "due" \/ ~References)

\* Mutant: the next pass starts where this one ended.
SweepFromTheEnd ==
  /\ ReadyToSweep /\ ~Disagrees(SweepPage)
  /\ row' = Stored(SweepPage)
  /\ sweep' = IF Cardinality(SweepPage) < PageSize
              THEN Restarted([sweep EXCEPT !.known = TRUE, !.since = now])
              ELSE [sweep EXCEPT !.known = TRUE, !.since = Since, !.after = Max(SweepPage),
                                 !.started = IF @ = None THEN now ELSE @]
  /\ seen' = [seen EXCEPT !.narrowed = @ \/ Narrowed]
  /\ UNCHANGED <<now, portalVars, walk, recon, dirty, refresh, changes, faults>>

\* apply: one page; the pass ends with a page that is not full, and the next
\* one starts where this one STARTED, by the portal's clock.
Sweep ==
  LET started == IF sweep.started = None THEN now ELSE sweep.started IN
  /\ ReadyToSweep /\ ~Disagrees(SweepPage)
  /\ row' = Stored(SweepPage)
  /\ sweep' = IF Cardinality(SweepPage) < PageSize
              THEN Restarted([sweep EXCEPT !.known = TRUE, !.since = started])
              ELSE [sweep EXCEPT !.known = TRUE, !.since = Since, !.after = Max(SweepPage),
                                 !.started = started]
  /\ seen' = [seen EXCEPT !.narrowed = @ \/ Narrowed]
  /\ UNCHANGED <<now, portalVars, walk, recon, dirty, refresh, changes, faults>>

\* A page the bound could not have produced, or one whose ids do not ascend from
\* the cursor (a build that ignores filter or order: FaultCounted): a shift that
\* is not fresh is measured again, otherwise the lane stops for good.
SweepDisagrees ==
  /\ ReadyToSweep
  /\ \/ Disagrees(SweepPage) /\ UNCHANGED faults
     \/ FaultCounted
  /\ IF sweep.shift # None /\ sweep.clock # "fresh"
     THEN KeepsSweep(Restarted([sweep EXCEPT !.clock = "due"]))
     ELSE KeepsSweep([sweep EXCEPT !.parked = TRUE])
  /\ UNCHANGED <<now, portalVars, row, walk, recon, dirty, refresh, changes, seen>>

\* A build without crm.item.list: the pass starts again in the old dialect.
SweepDemoted ==
  /\ ReadyToSweep /\ ~sweep.legacy /\ FaultCounted
  /\ KeepsSweep(Restarted([sweep EXCEPT !.legacy = TRUE]))
  /\ UNCHANGED <<now, portalVars, row, walk, recon, dirty, refresh, changes, seen>>

-----------------------------------------------------------------------------
(* _run_crm_backfill, as the backfill and as the patrol. *)

BackfillDone == walk.phase \in {"done", "patrol", "patrol parked"}
Walking == Between /\ walk.phase \in {"backfill", "done", "patrol"}

Finished(w) == w.high # None /\ w.next <= 1 /\ w.open = <<>>

\* A finished backfill is DONE for ever; a finished patrol waits for the next
\* cycle with a fresh cursor.  The patrol is a lane of its own and learns the
\* dialect itself.
WalkBecomes(w) ==
  walk' = IF ~Finished(w) THEN w
          ELSE FreshWalk("done", w.phase = "patrol" /\ w.legacy)

\* headed: the newest ID is read once, and ranges are cut below it.
ReadHead ==
  LET high == Greatest(Visible) IN
  /\ Walking /\ walk.high = None
  /\ WalkBecomes([walk EXCEPT
       !.phase = IF @ = "done" THEN "patrol" ELSE @,
       !.high = high, !.next = high + 1, !.covered = high + 1,
       !.width = AtLeast(PageSize, AtMost(MaxWidth, CeilDiv(AtLeast(high, 1), Commands)))])
  /\ seen' = IF walk.phase = "backfill"
             THEN [seen EXCEPT !.blind = ~sweep.known, !.head = high] ELSE seen
  /\ UNCHANGED <<now, portalVars, row, sweep, recon, dirty, refresh, changes, faults>>

\* One batch: a page for every open range, some of which may fail.
WalkRanges ==
  /\ Walking /\ walk.high # None
  /\ \E open \in {Planned(walk.open, walk.next, walk.width)} :
       LET next == IF open = <<>> THEN walk.next ELSE AtMost(walk.next, open[Len(open)].lo)
           sent == {n \in 1..Len(open) : ~open[n].done} IN
       \E failed \in SUBSET sent :
       \E answered \in {[n \in 1..Len(open) |-> Advanced(open[n], n \in failed)]} :
         LET left == Settled(answered)
             popped == Len(answered) - Len(left) IN
         /\ IF failed = {} THEN UNCHANGED faults ELSE FaultCounted
         /\ row' = Stored(UNION {Page(open[n].cursor, open[n].hi) : n \in sent \ failed})
         /\ WalkBecomes([walk EXCEPT
              !.next = next, !.open = left,
              !.covered = IF popped = 0 THEN @ ELSE answered[popped].lo])
  /\ UNCHANGED <<now, portalVars, sweep, recon, dirty, refresh, changes, seen>>

\* The portal ignored the ID filter: the lane stops for good.
WalkParked ==
  /\ Walking /\ walk.high # None /\ FaultCounted
  /\ walk' = [walk EXCEPT !.phase = IF @ = "backfill" THEN "backfill parked"
                                    ELSE "patrol parked"]
  /\ UNCHANGED <<now, portalVars, row, sweep, recon, dirty, refresh, changes, seen>>

\* A build without crm.item.list: the ranges already walked stay walked.
WalkDemoted ==
  /\ Walking /\ ~walk.legacy /\ FaultCounted
  /\ walk' = [walk EXCEPT !.legacy = TRUE]
  /\ UNCHANGED <<now, portalVars, row, sweep, recon, dirty, refresh, changes, seen>>

-----------------------------------------------------------------------------
(* _run_crm_dirty, crm_dirty_refresh: list, then get, then two transactions. *)

At(stage) == refresh.stage = stage

\* What is due is open: not_before and held_until only delay an ID.  A listing
\* that failed defers its IDs.
DirtyList ==
  /\ Between
  /\ \E items \in SUBSET dirty \ {{}} :
       refresh' = [NoPass EXCEPT !.stage = "listed", !.items = items,
                     !.present = items \cap Visible,
                     !.versions = [i \in items \cap Visible |-> content[i]],
                     !.missing = items \ Visible]
  /\ UNCHANGED <<now, portalVars, mirrorVars, changes, faults, seen>>

\* Mutant: what the list omitted is taken for deleted.
TrustList ==
  /\ At("listed")
  /\ refresh' = [refresh EXCEPT !.stage = "confirmed", !.absent = refresh.missing]
  /\ UNCHANGED <<now, portalVars, mirrorVars, changes, faults, seen>>

\* crm.item.get of each missing ID.  NOT_FOUND proves a deletion, a refusal
\* does not; an ID that is back, or got no answer, stays queued.
ConfirmAbsent ==
  /\ At("listed")
  /\ \E asked \in SUBSET refresh.missing :
       /\ IF asked = refresh.missing THEN UNCHANGED faults ELSE FaultCounted
       /\ refresh' = [refresh EXCEPT !.stage = "confirmed", !.absent = asked \cap gone,
                        !.denied = (asked \cap hidden) \ gone]
  /\ UNCHANGED <<now, portalVars, mirrorVars, changes, seen>>

\* upsert_items with consume: the rows and their marks in one transaction, the
\* mark of a refused row too (it proves that the record exists).
StoreRows ==
  /\ At("confirmed")
  /\ row' = Upserted(refresh.present, refresh.versions)
  /\ dirty' = dirty \ refresh.present
  /\ refresh' = [refresh EXCEPT !.stage = "stored"]
  /\ UNCHANGED <<now, portalVars, laneVars, changes, faults, seen>>

MarkUnreadable(r) == IF r.kind = "live" THEN [r EXCEPT !.unreadable = TRUE] ELSE r

\* store_refresh: tombstones unless a guard holds them back, unreadable marks.
StoreRest ==
  /\ At("stored")
  /\ \E allowed \in BOOLEAN :
       LET absent == IF allowed THEN refresh.absent ELSE {} IN
       /\ IF absent = refresh.absent THEN UNCHANGED faults ELSE FaultCounted
       /\ row' = [i \in Ids |-> IF i \in absent THEN Cache!Tombstone
                                ELSE IF i \in refresh.denied THEN MarkUnreadable(row[i])
                                ELSE row[i]]
       /\ dirty' = dirty \ (absent \cup refresh.denied)
  /\ refresh' = NoPass
  /\ UNCHANGED <<now, portalVars, laneVars, changes, seen>>

\* A crash, a lost fence, a 503: what was not stored is queued still.
PassAbandoned ==
  /\ ~Between /\ FaultCounted
  /\ refresh' = NoPass
  /\ UNCHANGED <<now, portalVars, mirrorVars, changes, seen>>

-----------------------------------------------------------------------------
(* _run_crm_reconcile *)

Reconciling == Between /\ BackfillDone /\ ~recon.parked
Pair(lo, hi) == [lo |-> lo, hi |-> hi]
Leaf(r) == [lo |-> r.lo, hi |-> r.hi, cursor |-> r.lo - 1, done |-> FALSE]
InRange(S, r) == {i \in S : r.lo <= i /\ i < r.hi}
FirstOf(s) == AtMost(Commands, Len(s))
Rest(s) == SubSeq(s, FirstOf(s) + 1, Len(s))

ReconStart ==
  LET high == Greatest(LiveRows)
      ranges == PlanRanges(high + 1, AtLeast(LeafSize, CeilDiv(high, Commands))) IN
  /\ Reconciling /\ ~recon.started /\ high > 0
  /\ recon' = [recon EXCEPT !.started = TRUE,
                 !.queue = [n \in DOMAIN ranges |-> Pair(ranges[n].lo, ranges[n].hi)]]
  /\ UNCHANGED <<now, portalVars, row, sweep, walk, dirty, refresh, changes, faults, seen>>

\* after_counts of one range: agreed, small enough to list, or split.
Differs(r) == Cardinality(InRange(LocalIds, r)) # Cardinality(InRange(Visible, r))
Small(r) == r.hi - r.lo <= LeafSize
Halves(ranges) ==
  [n \in 1..(2 * Len(ranges)) |->
     LET r == ranges[(n + 1) \div 2]
         middle == (r.lo + r.hi) \div 2
     IN  IF n % 2 = 1 THEN Pair(r.lo, middle) ELSE Pair(middle, r.hi)]

\* Either every count of the batch came back, or nothing is compared.
CountRanges ==
  LET compared == SubSeq(recon.queue, 1, FirstOf(recon.queue))
      split == SelectSeq(compared, LAMBDA r : Differs(r) /\ ~Small(r))
      listed == SelectSeq(compared, LAMBDA r : Differs(r) /\ Small(r)) IN
  /\ Reconciling /\ recon.started /\ recon.queue # <<>>
  /\ recon' = [recon EXCEPT
       !.queue = Rest(@) \o Halves(split),
       !.leaves = @ \o [n \in DOMAIN listed |-> Leaf(listed[n])]]
  /\ UNCHANGED <<now, portalVars, row, sweep, walk, dirty, refresh, changes, faults, seen>>

\* Mutant: only what the portal has and the mirror lacks.
MissingIds(here, there) == there \ here

DifferingIds(here, there) == (here \ there) \cup (there \ here)

\* One page of IDs for each leaf, against the IDs stored in the same stretch.
ListLeaves ==
  LET leaves == SubSeq(recon.leaves, 1, FirstOf(recon.leaves)) IN
  /\ Reconciling /\ recon.started /\ recon.queue = <<>> /\ leaves # <<>>
  /\ \E failed \in SUBSET DOMAIN leaves :
       LET after == [n \in DOMAIN leaves |-> Advanced(leaves[n], n \in failed)]
           upto(n) == IF after[n].done THEN leaves[n].hi - 1 ELSE after[n].cursor
           stretch(S, n) == {i \in S : leaves[n].cursor < i /\ i <= upto(n)}
           differing(n) ==
             DifferingIds(stretch(LocalIds, n), Page(leaves[n].cursor, leaves[n].hi)) IN
       /\ IF failed = {} THEN UNCHANGED faults ELSE FaultCounted
       /\ recon' = [recon EXCEPT !.leaves =
                      SelectSeq(after, LAMBDA leaf : ~leaf.done) \o Rest(@)]
       /\ dirty' = dirty \cup UNION {differing(n) : n \in DOMAIN leaves \ failed}
  /\ UNCHANGED <<now, portalVars, row, sweep, walk, refresh, changes, seen>>

ReconFinish ==
  /\ Reconciling /\ recon.started /\ recon.queue = <<>> /\ recon.leaves = <<>>
  /\ recon' = NoRecon
  /\ UNCHANGED <<now, portalVars, row, sweep, walk, dirty, refresh, changes, faults, seen>>

ReconParked ==
  /\ Reconciling /\ recon.started /\ recon.queue = <<>> /\ FaultCounted
  /\ recon' = [recon EXCEPT !.parked = TRUE]
  /\ UNCHANGED <<now, portalVars, row, sweep, walk, dirty, refresh, changes, seen>>

-----------------------------------------------------------------------------
(* purge_crm_retention, the daily job: ages are left open. *)

Forget ==
  /\ \E i \in Ids : /\ row[i].kind \in {"deleted", "evicted"}
                    /\ row' = [row EXCEPT ![i] = Cache!NoRow]
  /\ UNCHANGED <<now, portalVars, laneVars, dirty, refresh, changes, faults, seen>>

Evict ==
  /\ \E i \in Ids : /\ row[i].kind = "live" /\ row[i].unreadable
                    /\ row' = [row EXCEPT ![i] = Cache!Evicted]
  /\ UNCHANGED <<now, portalVars, laneVars, dirty, refresh, changes, faults, seen>>

-----------------------------------------------------------------------------
Portal == Create \/ Edit \/ SilentEdit \/ Delete \/ Hide \/ Show \/ ZoneChanges

SweepLane == Measure \/ Sweep \/ SweepDisagrees
WalkLane == ReadHead \/ WalkRanges
DirtyLane == DirtyList \/ ConfirmAbsent \/ StoreRows \/ StoreRest
ReconLane == ReconStart \/ CountRanges \/ ListLeaves \/ ReconFinish
Setbacks == SweepDemoted \/ WalkParked \/ WalkDemoted \/ ReconParked \/ PassAbandoned

Next ==
  \/ Tick \/ ClockAges \/ Portal
  \/ SweepLane \/ WalkLane \/ DirtyLane \/ ReconLane \/ Setbacks
  \/ Forget \/ Evict

Spec == Init /\ [][Next]_vars

\* Every visit offers every lane its turn, and the retention job runs daily.
FairSpec ==
  /\ Spec
  /\ WF_vars(SweepLane) /\ WF_vars(WalkLane) /\ WF_vars(DirtyLane) /\ WF_vars(ReconLane)
  /\ WF_vars(Evict)

-----------------------------------------------------------------------------
(* Properties *)

Rows == {Cache!NoRow, Cache!Tombstone, Cache!Evicted}
        \cup {Cache!Copy(c, u) : c \in 1..(MaxChanges + 1), u \in BOOLEAN}

TypeOK ==
  /\ content \in [Ids -> 0..(MaxChanges + 1)] /\ bumped \in [Ids -> 0..(MaxChanges + 1)]
  /\ updated \in [Ids -> 0..MaxTime]
  /\ gone \subseteq Ids /\ hidden \subseteq Ids /\ dirty \subseteq Ids
  /\ row \in [Ids -> Rows]
  /\ sweep.since <= now /\ sweep.after \in 0..MaxId
  /\ \A n \in DOMAIN walk.open :
       LET r == walk.open[n] IN r.lo < r.hi /\ r.cursor \in (r.lo - 1)..(r.hi - 1)
  /\ \A i \in dirty : row[i].kind # "none" \/ content[i] > 0

\* crm_dirty.py 3-5, crm_deletes.py 3-12: rows follow their records, whatever
\* the lanes read and in whatever order they store it; only a deleted record
\* is ever a proven deletion, and it stays one.
ImplementsCache == Cache!CacheSpec

Mirrored(i) == row[i].kind = "live" /\ row[i].content >= bumped[i]

BackfillOwes(i) ==
  /\ walk.phase = "backfill"
  /\ \/ walk.high = None
     \/ i < walk.next
     \/ \E n \in DOMAIN walk.open :
          LET r == walk.open[n] IN ~r.done /\ r.cursor < i /\ i < r.hi

SweepOwes(i) ==
  \/ i > sweep.after /\ updated[i] >= Since - Overlap
  \/ sweep.started # None /\ updated[i] >= sweep.started - Overlap

Owed(i) == BackfillOwes(i) \/ SweepOwes(i) \/ i \in dirty

\* What the properties speak of: records that were readable all along and whose
\* rows are not refused.
Readable == Visible \ (seen.hidden \cup Refused)

LanesRun == ~sweep.parked /\ walk.phase # "backfill parked"

\* crm_sweep.py 7-14: no edit falls between the lanes.  A change that bumps
\* updatedTime and is not in the mirror is ahead of a cursor that will come to
\* it - unless the lane was read with a shift that was too large by then, or
\* the head was read before the sweep had stored its first watermark.
EditsOwed ==
  LanesRun /\ ~seen.narrowed /\ ~seen.blind =>
    \A i \in Readable : Mirrored(i) \/ Owed(i)

\* crm_backfill.py 140-144: covered is a contiguous claim, and a backfill that
\* is done has read everything below the head it started from.
Covered ==
  IF walk.phase \in {"backfill", "backfill parked"}
  THEN IF walk.high = None THEN MaxId + 1 ELSE walk.covered ELSE 1

CoveredIsRead ==
  \A i \in Readable : Covered <= i /\ i <= seen.head => row[i].kind = "live"

Agrees(i) ==
  \/ i \in Visible /\ row[i] = Cache!Copy(content[i], FALSE)
  \/ i \in (hidden \cup Refused) \ gone
  \/ i \in gone /\ row[i].kind # "live"
  \/ content[i] = 0 /\ row[i].kind = "none"

Parked == recon.parked \/ walk.phase \in {"backfill parked", "patrol parked"}

\* The lanes together leave nothing out: deletions, edits that bump nothing,
\* records that were unreadable for a while, edits missed by a sweep.
Converges == <>[](Parked \/ \A i \in Ids : Agrees(i))

-----------------------------------------------------------------------------
(* Said of the code and not kept by it (README, "Divergences"); no run of *)
(* the project checks what follows.                                       *)

\* crm_backfill.py 16-18: "the updatedTime sweep - which starts looking before
\* the backfill does - sees every record created or changed from then on".
SweepStartsFirst ==
  LanesRun /\ ~seen.narrowed =>
    \A i \in Readable : Mirrored(i) \/ Owed(i)

\* crm_reconcile.py:8-11 states the limits of counting: "equal counts can hide a
\* deletion balanced by a creation inside the same range.  The sweep stores the new
\* record, and a later run finds the deletion once the counts differ".
DeletionsAreFound ==
  \A i \in Ids : (i \in gone /\ row[i].kind = "live") ~> (Parked \/ row[i].kind # "live")
=============================================================================
