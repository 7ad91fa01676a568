------------------------------ MODULE CallSync ------------------------------
(***************************************************************************)
(* The call import of one portal: src/api/app/sync/fetch.py, head_fetch.py,*)
(* incremental.py, backfill.py and upsert.py, with the phases of           *)
(* src/api/app/jobs/definitions.py that run them.                          *)
(*                                                                         *)
(* The portal's statistics are the calls 1..newest; new calls append at    *)
(* the end, also between two commands of one batch.  A visit runs the      *)
(* phases head fetch, incremental and backfill.  Each phase sends batches  *)
(* of page commands (fetch_pages), of which any command may fail, and      *)
(* commits what it may: rows, rejected rows and a cursor in one            *)
(* transaction.  A visit may end anywhere.                                 *)
(*                                                                         *)
(* No call is deleted on the portal while it is imported                   *)
(* (docs/architecture.md, section 11, assumption 2), so a window whose     *)
(* page 0 comes back empty (head_fetch.py:440) is not met.  A portal that  *)
(* ignores the ID filter is parked by any phase: SyncLease has that, with  *)
(* leases, fences and uninstall.  The rescan and its bound are LateUpdates.*)
(***************************************************************************)
EXTENDS Integers, FiniteSetsExt

CONSTANTS
  PageSize,          \* rows of a page (PAGE_SIZE, 50)
  BatchPages,        \* portal_sync.batch_pages
  MaxLoops,          \* MAX_LOOPS_PER_VISIT
  BackfillBatches,   \* BACKFILL_BATCHES_PER_VISIT
  HasTotal,          \* whether the portal's answers carry result_total
  Lags,              \* by how many rows result_total may lag
  Refused,           \* calls whose row the parser refuses
  Unstorable,        \* calls whose row the database refuses
  MaxId,             \* bound: calls the portal ever has
  MaxFaults          \* bound: failed commands, expired tokens, stops, aborts

ASSUME SizeAssumption ==
  /\ PageSize \in Nat \ {0} /\ BatchPages \in Nat \ {0}
  /\ MaxLoops \in Nat \ {0} /\ BackfillBatches \in Nat \ {0}
  /\ HasTotal \in BOOLEAN /\ Lags \subseteq Nat
  /\ MaxId \in Nat /\ MaxFaults \in Nat
  /\ Refused \subseteq 1..MaxId /\ Unstorable \subseteq 1..MaxId

VARIABLES
  newest,            \* the portal: its calls are 1..newest
  calls,             \* the calls table
  quarantined,       \* rejected rows on record
  status,            \* portal_sync.backfill_status
  highId, lowId,     \* portal_sync.high_id, low_id (0 for NULL)
  due,               \* SYNC_INTERVAL_SEC have passed since last_incremental_at
  visit,             \* the visit in progress
  batch,             \* its batch in progress
  faults

tableVars == <<calls, quarantined>>
cursorVars == <<status, highId, lowId>>
vars == <<newest, tableVars, cursorVars, due, visit, batch, faults>>

-----------------------------------------------------------------------------
Ids == 1..MaxId
Statuses == {"pending", "head", "running", "done"}
HeadStates == {"pending", "head"}
Stages == {"idle", "enter_head", "head", "window", "enter_incremental", "probe",
           "pack", "extra_incremental", "enter_backfill", "backfill",
           "extra_backfill"}

\* What sync_portal keeps between phases (status, high, low; retried of
\* with_portal_token) and a phase between batches (cursor, base, loops).
Visits == [stage : Stages, status : Statuses, high : 0..MaxId, low : 0..MaxId,
           retried : BOOLEAN, cursor : 0..MaxId, base : 0..MaxId, loops : Nat]

NoVisit == [stage |-> "idle", status |-> "pending", high |-> 0, low |-> 0,
            retried |-> FALSE, cursor |-> 0, base |-> 0, loops |-> 0]

\* FetchOutcome, filled in command by command: good is prefix_len, next is
\* has_next, rows and extra are rows and extra_rows.
Batches == [asc : BOOLEAN, from : 0..MaxId, first : Nat, size : Nat, done : Nat,
            good : Nat, rows : SUBSET Ids, extra : SUBSET Ids,
            rejected : SUBSET Ids, total : 0..MaxId, next : BOOLEAN]

\* size commands, one per page from page first on: ascending over ID > from,
\* or descending over ID <= from.
Request(asc, from, first, size) ==
  [asc |-> asc, from |-> from, first |-> first, size |-> size, done |-> 0,
   good |-> 0, rows |-> {}, extra |-> {}, rejected |-> {}, total |-> 0,
   next |-> FALSE]

NoBatch == Request(TRUE, 0, 0, 0)

Init ==
  /\ newest = 0 /\ calls = {} /\ quarantined = {}
  /\ status = "pending" /\ highId = 0 /\ lowId = 0
  /\ due = TRUE /\ faults = 0
  /\ visit = NoVisit /\ batch = NoBatch

-----------------------------------------------------------------------------
(* fetch_pages: the commands run one after another on the portal. *)

Offset == (batch.first + batch.done) * PageSize

Page ==
  IF batch.asc
  THEN {i \in 1..newest : batch.from + Offset < i /\ i <= batch.from + Offset + PageSize}
  ELSE {i \in 1..newest : batch.from - Offset - PageSize < i /\ i <= batch.from - Offset}

\* result_next: the selection goes on after this page.
More ==
  IF batch.asc THEN batch.from + Offset + PageSize < newest
               ELSE batch.from - Offset - PageSize > 0

\* result_total as the answer may give it; only that of a probe is used.
Totals ==
  IF visit.stage = "probe" /\ HasTotal
  THEN {Max({newest - batch.from - lag, 0}) : lag \in Lags}
  ELSE {0}

Waiting == batch.done < batch.size
Answered == batch.size > 0 /\ batch.done = batch.size
Failed == batch.good < batch.done

CommandOk ==
  /\ Waiting
  /\ \E total \in Totals :
       LET heard == [batch EXCEPT !.done = @ + 1,
                                  !.rejected = @ \cup (Page \cap Refused)]
       IN  batch' = IF Failed
                    THEN [heard EXCEPT !.extra = @ \cup (Page \ Refused)]
                    ELSE [heard EXCEPT !.rows = @ \cup (Page \ Refused),
                                       !.good = @ + 1, !.total = total, !.next = More]
  /\ UNCHANGED <<newest, tableVars, cursorVars, due, visit, faults>>

\* An error of one command, or an answer of a shape that cannot be read.
CommandFails ==
  /\ Waiting /\ faults < MaxFaults
  /\ faults' = faults + 1
  /\ batch' = [batch EXCEPT !.done = @ + 1]
  /\ UNCHANGED <<newest, tableVars, cursorVars, due, visit>>

\* Mutant of Crossable: ids read after a failed command count.
CrossableBehindFailure == batch.rows \cup batch.extra \cup batch.rejected

\* Mutant of Crossable: a rejected row never counts.
CrossableParsed == batch.rows

\* prefix_bx_ids: what a cursor may cross.
Crossable == batch.rows \cup (IF Failed THEN {} ELSE batch.rejected)

\* upsert_calls: a row the database refuses is quarantined on its own.
Store(rows, rejected) ==
  /\ calls' = calls \cup (rows \ Unstorable)
  /\ quarantined' = quarantined \cup rejected \cup (rows \cap Unstorable)

-----------------------------------------------------------------------------
(* Visits and their phases *)

Fault == faults < MaxFaults /\ faults' = faults + 1

OpenVisit ==
  /\ visit.stage = "idle"
  /\ visit' = [NoVisit EXCEPT !.stage = "enter_head", !.status = status,
                              !.high = highId, !.low = lowId]
  /\ UNCHANGED <<newest, tableVars, cursorVars, due, batch, faults>>

\* Leave the phase for stage with what it learned; _absorb may end the visit
\* over a per-command error instead.
PhaseOver(stage, st, high, low) ==
  /\ batch' = NoBatch
  /\ \/ visit' = IF stage = "idle" THEN NoVisit
                  ELSE [NoVisit EXCEPT !.stage = stage, !.status = st,
                                       !.high = high, !.low = low]
     \/ Failed /\ visit' = NoVisit

\* The pacer says stop: no more statistics in this visit.
Stop == Fault /\ visit' = NoVisit /\ batch' = NoBatch

Send(v, request) == visit' = v /\ batch' = request /\ UNCHANGED faults

BeginHead ==
  Send([visit EXCEPT !.stage = "head"], Request(FALSE, newest, 0, 1))

Probe(base) ==
  Send([visit EXCEPT !.stage = "probe", !.base = base, !.cursor = base,
                     !.loops = @ + 1],
       Request(TRUE, base, 0, 1))

ReadBelow(low) ==
  Send([visit EXCEPT !.stage = "backfill", !.cursor = low, !.loops = @ + 1],
       Request(FALSE, low - 1, 0, BatchPages))

EnterHead ==
  /\ visit.stage = "enter_head"
  /\ \/ visit.status \in HeadStates /\ BeginHead
     \/ visit.status \notin HeadStates
        /\ Send([visit EXCEPT !.stage = "enter_incremental"], NoBatch)
  /\ UNCHANGED <<newest, tableVars, cursorVars, due>>

EnterIncremental ==
  /\ visit.stage = "enter_incremental"
  /\ LET runs == visit.status \notin HeadStates /\ due
     IN  \/ runs /\ Probe(visit.high)
         \/ ~runs /\ Send([visit EXCEPT !.stage = "enter_backfill"], NoBatch)
  /\ UNCHANGED <<newest, tableVars, cursorVars, due>>

EnterBackfill ==
  /\ visit.stage = "enter_backfill"
  /\ \/ visit.status = "running" /\ ReadBelow(visit.low)
     \/ visit.status # "running" /\ Send(NoVisit, NoBatch)
  /\ UNCHANGED <<newest, tableVars, cursorVars, due>>

\* A command answers expired_token: the whole outcome is dropped, and
\* with_portal_token runs the phase once more, from what the visit held when
\* the phase began.
TokenExpired ==
  /\ Waiting /\ Fault
  /\ LET again(stage, cursor) ==
           [visit EXCEPT !.stage = stage, !.retried = TRUE, !.loops = 1,
                         !.base = cursor, !.cursor = cursor]
     IN  \/ visit.retried /\ visit' = NoVisit /\ batch' = NoBatch
         \/ /\ ~visit.retried /\ visit.stage \in {"head", "window"}
            /\ visit' = [again("head", 0) EXCEPT !.loops = 0]
            /\ batch' = Request(FALSE, newest, 0, 1)
         \/ /\ ~visit.retried /\ visit.stage \in {"probe", "pack"}
            /\ visit' = again("probe", visit.high)
            /\ batch' = Request(TRUE, visit.high, 0, 1)
         \/ /\ ~visit.retried /\ visit.stage = "backfill"
            /\ visit' = [again("backfill", visit.low) EXCEPT !.base = 0]
            /\ batch' = Request(FALSE, visit.low - 1, 0, BatchPages)
  /\ UNCHANGED <<newest, tableVars, cursorVars, due>>

\* A request fails as a whole, the fence is lost, the process dies.
Abandon ==
  /\ visit.stage # "idle" /\ Fault
  /\ visit' = NoVisit /\ batch' = NoBatch
  /\ UNCHANGED <<newest, tableVars, cursorVars, due>>

-----------------------------------------------------------------------------
(* head_fetch *)

HeadAnswered ==
  /\ visit.stage = "head" /\ Answered
  /\ \/ /\ Failed
        /\ PhaseOver("enter_incremental", visit.status, visit.high, visit.low)
        /\ UNCHANGED <<cursorVars, faults>>
     \/ /\ ~Failed /\ Crossable = {}
        /\ status' = "done" /\ highId' = 0 /\ lowId' = 0
        /\ PhaseOver("enter_incremental", "done", 0, visit.low)
        /\ UNCHANGED faults
     \/ /\ ~Failed /\ Crossable # {}
        /\ status' = "head" /\ UNCHANGED <<highId, lowId>>
        /\ \/ Stop
           \/ Send([visit EXCEPT !.stage = "window"],
                   [Request(FALSE, Max(Crossable), 0, BatchPages) EXCEPT
                      !.extra = batch.rows, !.rejected = batch.rejected])
  /\ UNCHANGED <<newest, tableVars, due>>

\* Mutant of WindowAnswered: low_id from page arithmetic instead of from ids.
WindowAnsweredByOffset ==
  /\ visit.stage = "window" /\ Answered /\ ~Failed
  /\ Store(batch.rows \cup batch.extra, batch.rejected)
  /\ status' = IF batch.next THEN "running" ELSE "done"
  /\ highId' = batch.from
  /\ lowId' = batch.from - batch.size * PageSize + 1
  /\ PhaseOver("enter_incremental", status', highId', lowId')
  /\ UNCHANGED <<newest, due, faults>>

WindowAnswered ==
  /\ visit.stage = "window" /\ Answered
  /\ Store(batch.rows \cup batch.extra, batch.rejected)
  /\ \/ /\ Failed
        /\ PhaseOver("enter_incremental", "head", visit.high, visit.low)
        /\ UNCHANGED cursorVars
     \/ /\ ~Failed
        /\ status' = IF batch.next THEN "running" ELSE "done"
        /\ highId' = batch.from
        /\ lowId' = Min(Crossable)
        /\ PhaseOver("enter_incremental", status', highId', lowId')
  /\ UNCHANGED <<newest, due, faults>>

-----------------------------------------------------------------------------
(* incremental *)

\* _pages_to_pack
PagesToPack ==
  IF ~batch.next THEN 0
  ELSE IF ~HasTotal THEN BatchPages
  ELSE Max({0, Min({(batch.total + PageSize - 1) \div PageSize - 1, BatchPages})})

\* _advance, its first transaction: the rows of the prefix and the cursor.
Reached == Max(Crossable \cup {visit.cursor})

Advance ==
  /\ Store(batch.rows, batch.rejected)
  /\ highId' = IF Reached > visit.cursor THEN Reached ELSE highId
  /\ UNCHANGED <<status, lowId>>

IncrementalOver == PhaseOver("enter_backfill", visit.status, visit.high, visit.low)

\* The end of a loop whose last request was answered without an error.
LoopEnds ==
  \/ /\ ~batch.next \/ visit.loops = MaxLoops
     /\ IncrementalOver /\ UNCHANGED faults
  \/ /\ batch.next /\ visit.loops < MaxLoops
     /\ Stop \/ Probe(Reached)

ProbeAnswered ==
  /\ visit.stage = "probe" /\ Answered
  /\ Advance
  /\ \/ /\ Failed \/ Crossable = {}
        /\ IncrementalOver /\ UNCHANGED faults
     \/ /\ ~Failed /\ Crossable # {} /\ PagesToPack = 0
        /\ LoopEnds
     \/ /\ ~Failed /\ Crossable # {} /\ PagesToPack > 0
        /\ \/ Stop
           \/ Send([visit EXCEPT !.stage = "pack", !.cursor = Reached],
                   Request(TRUE, visit.base, 1, PagesToPack))
  /\ due' = FALSE
  /\ UNCHANGED newest

PackAnswered ==
  /\ visit.stage = "pack" /\ Answered
  /\ Advance
  /\ \/ ~Failed /\ LoopEnds
     \/ Failed /\ batch.extra = {} /\ IncrementalOver /\ UNCHANGED faults
     \/ Failed /\ batch.extra # {}
        /\ Send([visit EXCEPT !.stage = "extra_incremental"], batch)
  /\ due' = FALSE
  /\ UNCHANGED newest

\* _advance, its second transaction: rows behind a failed command, no cursor.
ExtraOfIncremental ==
  /\ visit.stage = "extra_incremental"
  /\ Store(batch.extra, {})
  /\ IncrementalOver
  /\ UNCHANGED <<newest, cursorVars, due, faults>>

-----------------------------------------------------------------------------
(* backfill *)

BackfillOver == PhaseOver("idle", "done", 0, 0)

\* No id to move over: nothing is known, nothing is usable, or nothing is left.
BackfillStays ==
  /\ visit.stage = "backfill" /\ Answered /\ Crossable = {}
  /\ \/ Failed /\ batch.good = 0 /\ UNCHANGED <<tableVars, status>>
     \/ Failed /\ batch.good > 0 /\ Store({}, batch.rejected) /\ UNCHANGED status
     \/ ~Failed /\ status' = "done" /\ UNCHANGED tableVars
  /\ BackfillOver
  /\ UNCHANGED <<newest, highId, lowId, due, faults>>

BackfillMoves ==
  /\ visit.stage = "backfill" /\ Answered /\ Crossable # {}
  /\ LET lowest == Min(Crossable)
         exhausted == ~batch.next /\ ~Failed
     IN  /\ Store(batch.rows, batch.rejected)
         /\ lowId' = lowest
         /\ status' = IF exhausted THEN "done" ELSE status
         /\ \/ /\ Failed /\ batch.extra # {}
               /\ Send([visit EXCEPT !.stage = "extra_backfill"], batch)
            \/ /\ \/ Failed /\ batch.extra = {}
                  \/ exhausted
                  \/ ~Failed /\ visit.loops = BackfillBatches
               /\ BackfillOver /\ UNCHANGED faults
            \/ /\ ~Failed /\ ~exhausted /\ visit.loops < BackfillBatches
               /\ Stop \/ ReadBelow(lowest)
  /\ UNCHANGED <<newest, highId, due>>

ExtraOfBackfill ==
  /\ visit.stage = "extra_backfill"
  /\ Store(batch.extra, {})
  /\ BackfillOver
  /\ UNCHANGED <<newest, cursorVars, due, faults>>

-----------------------------------------------------------------------------
(* The portal and the clock *)

NewCall ==
  /\ newest < MaxId
  /\ newest' = newest + 1
  /\ UNCHANGED <<tableVars, cursorVars, due, visit, batch, faults>>

IntervalPasses ==
  /\ ~due /\ due' = TRUE
  /\ UNCHANGED <<newest, tableVars, cursorVars, visit, batch, faults>>

SyncStep ==
  \/ OpenVisit \/ EnterHead \/ EnterIncremental \/ EnterBackfill
  \/ CommandOk \/ HeadAnswered \/ WindowAnswered
  \/ ProbeAnswered \/ PackAnswered \/ ExtraOfIncremental
  \/ BackfillStays \/ BackfillMoves \/ ExtraOfBackfill

Next ==
  \/ SyncStep \/ CommandFails \/ TokenExpired \/ Abandon
  \/ NewCall \/ IntervalPasses

Spec == Init /\ [][Next]_vars

\* The worker dispatches a portal that is due again and again, and time passes.
FairSpec == Spec /\ WF_vars(SyncStep) /\ WF_vars(IntervalPasses)

-----------------------------------------------------------------------------
(* Properties *)

\* Every variable keeps its type: cursors are ids the portal can have, the
\* carried outcome holds ids of calls (PortalSync, FetchOutcome).
TypeOK ==
  /\ newest \in 0..MaxId
  /\ calls \subseteq Ids /\ quarantined \subseteq Ids
  /\ status \in Statuses /\ highId \in 0..MaxId /\ lowId \in 0..MaxId
  /\ due \in BOOLEAN /\ faults \in 0..MaxFaults
  /\ visit \in Visits /\ batch \in Batches

Known == calls \cup quarantined

\* Once the head fetch has set the cursors, every call between them is stored
\* or on record as rejected, and down to the first call once the backfill is
\* done: a failed page, a late row or a retry leaves no hole the cursors hide
\* (the contiguous prefix rule of fetch.py and prefix_bx_ids).
WindowCovered ==
  /\ status = "running" => lowId..highId \subseteq Known
  /\ status = "done" => 1..highId \subseteq Known

\* Every call ends up stored or on record, the history import ends and the
\* forward cursor catches up, whatever rows are refused: neither an unparsable
\* row nor a failed command pins a cursor forever.
AllImported ==
  <>[](status = "done" /\ highId = newest /\ 1..newest \subseteq Known)

-----------------------------------------------------------------------------
(* Said of the code and not kept by it (README, "Divergences"); no run of *)
(* the project checks what follows.                                       *)

\* A cursor that has been committed is not taken back: high_id only rises and
\* low_id only falls once the head fetch has set them (the retry after a token
\* refresh is said to resume from the committed cursor).
CursorsOnlyAdvance ==
  [][(status \notin HeadStates) => (highId <= highId' /\ lowId' <= lowId)]_vars
=============================================================================
