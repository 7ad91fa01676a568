# Formal models of bitrix24-widget-callanalytics

A Bitrix24 marketplace application that copies the call statistics (and the CRM
data that explains them) of every portal that installed it into its own
PostgreSQL database and serves reports from there. What can go wrong in it is
seldom a formula: it is a worker that writes after it lost its lease, a purge
that races a reinstall, a cursor that crosses a page nobody read, an edit that
falls between two lanes of a mirror. These modules model those parts in TLA+,
TLC checks them on small instances, and TLAPS proves the central safety
properties for every instance.

    tlc -config SyncLeaseTwoWorkers.cfg MCSyncLease     # one of the runs below
    tlapm SyncLeaseProofs.tla                           # one of the proof modules

`PROJECT.json` lists the runs, the source lines of every definition, a mutant
for every checked property, the findings, the hazards and the theorems.

## 1. The system

Three processes share one database. The **api** container serves the iframe
(`/install`, `/app/`, `/events`, `/api/*`). The **worker** container runs a tick
every 15 s: it leases portals that are due and visits each of them in a task of
its own, at most `GLOBAL_PORTAL_CONCURRENCY` at a time, and it purges
uninstalled tenants. **PostgreSQL** is the only thing they share; there is no
queue, and work is derived from columns. docker-compose runs one container of
each; `sync/lease.py` is written for several workers. Two reports (deals, UTM)
do not use the mirror: they read the portal live, on the viewer's own token.

All paths below are under `src/api/app`.

| Component | State it keeps | Operations | Talks to |
|---|---|---|---|
| leases and fence: `sync/lease.py`, dispatcher in `jobs/definitions.py` | `portal_sync.lease_owner, lease_expires_at, run_started_at, sync_generation, next_run_at, consecutive_failures`; `_inflight` | lease, spawn, claim, heartbeat, fenced update, release, terminal status | every phase, through `fenced_update` |
| call import: `sync/fetch.py, head_fetch.py, incremental.py, backfill.py, upsert.py` | `calls`; `high_id, low_id, backfill_status, last_incremental_at` | batches of page commands, prefix rule, commit of rows and cursor | the portal's `voximplant.statistic.get` |
| rescan and recheck: `sync/rescan.py` | `rescan_from_id`, resume point, `refresh_requested_at`, `record_recheck_count` | re-reads of rows that may have changed | call import |
| throttle and budgets: `sync/throttle.py, budgets.py` | `batch_pages, clean_visits, throttle_hits, operating_*`, `sync_method_budgets` | pacing, ladder of batch sizes, back-off | every phase, release |
| lifecycle writers: `services/portals.py` | `portals.status, token_status, purge_pending`, credentials | store credential, mark uninstalled, set token status, CRM switch | handlers, worker |
| handlers: `handlers/install.py, open.py, events.py`; `api/portal.py` | none of their own | decide, from unlocked reads, which lifecycle writer to call | lifecycle writers |
| token refresh: `bitrix/oauth.py` | token pair, `token_version` | single-flight refresh, one retry of a phase | every phase, api |
| purge: `sync/purge.py`, tick (b), (c) | `purge_pending, crm_purge_pending`, `_purging` | chunked delete, final count, finish; retention jobs | all tenant tables |
| CRM mirror: `sync/crm_*.py`, `services/crm_dirty.py` | `crm_items`, `crm_dirty`, lanes with their cursors | backfill, sweep, dirty queue, reconcile, patrol | the portal's `crm.item.*` |
| live reports: `services/deal_stats.py, utm_stats.py`, `bitrix/deals.py, utm.py` | gates, rate windows; `_dialect_cache`, `_dictionary_cache`, `_capability_cache` per portal | probe what the portal's build honours, scan by pages, fold | the portal, as the viewer |
| employees: `sync/employees_refresh.py`, `services/employees.py` | `employees` | placeholders, refresh, viewer upsert | upsert, `/app/` |
| access and sessions: `security/*`, `services/access.py, crm_scope.py, crm_grants.py` | signed session, grant cache | per-request checks | api |
| statistics: `services/stats.py`, `api/*` | none | SQL over committed rows | web |
| client and parsers: `bitrix/*` | none | one request, one typed outcome | phases |
| job scheduler: `jobs/apscheduler_backend.py`, `worker.py` | timers | runs the tick | dispatcher |
| web front end: `src/web` | presentation | - | api |

What makes each of them correct, and what is hard about it:

- **Leases and fence.** Two visits of one portal may overlap: a lease expires
  while a request hangs, a container is paused, a process dies. Uninstall and
  reinstall come from the api at any moment. Yet rows and cursor must always
  fit together, and a visit must never bring back rows of an installation that
  was purged. The transaction reads `now()` when it begins and checks the fence
  when it ends.
- **Call import.** A batch is several commands, any of which may fail alone;
  calls arrive between commands; rows may be refused by the parser or by the
  database; `result_total` lags or is missing; the token may expire anywhere. No
  call may be lost behind a cursor, and no row may pin a cursor for ever.
- **Rescan and recheck.** A call has no modified date, so what changed later is
  found by reading again, within budgets. The window is larger than a pass; rows
  move between pages; a pass may be cut anywhere. Nothing in the window may be
  skipped for ever and no request of a viewer forgotten.
- **Purge.** Runs for minutes, in many transactions, while the tenant may come
  back. It must finish, must not lose its debt and must not run with a visit.
- **Handlers.** Decide on rows read without a lock in one transaction and write
  in another; events are delivered late, twice and out of order.
- **Token refresh.** A refresh token is single-use; api and worker refresh
  concurrently; the exchange happens inside a database transaction.
- **CRM mirror.** Lanes write the same rows, ordered only by version timestamps
  of two clocks; deletions are found by counting; the filter of the sweep is
  shifted by a zone nobody declares. No edit may fall between the lanes.
- **Throttle.** State recovered from columns that other writers also set. The
  back-off must climb without a stored counter, a pause must be earned, and what
  was learned in a bad hour must be unlearned.
- **Live reports.** Offsets drift while people edit; a build of the portal may
  ignore a filter silently; what one viewer's probe showed is cached for the
  whole portal. No number may be invented, doubled or borrowed.

`PROJECT.json` "hazards" lists these at their lines, with the properties that
cover them or the reason why none does.

## 2. Modules

| Module | Models | Checked by | Proved in |
|---|---|---|---|
| `TenantStore` | what the call cache of one portal promises, abstractly | as `ImplementsStore` | - |
| `SyncLease` | leases, fence, visit shell, purge of one portal | `MCSyncLease`, 2 runs | `SyncLeaseProofs` |
| `CallSync` | the call import of one portal, command by command | `MCCallSync`, 2 runs | `CallSyncProofs` |
| `LateUpdates` | window rescan, recheck, a viewer's refresh | `MCLateUpdates` | `LateUpdatesProofs` |
| `RecordCache` | what a mirror of somebody else's records promises, abstractly | as `ImplementsCache` | - |
| `CrmMirror` | the CRM lanes over one entity | `MCCrmMirror`, 1 run | `CrmMirrorProofs` |
| `RateControl` | pacing, back-off, budgets over visits | `MCRateControl` | `RateControlProofs` |
| `PortalLifecycle` | everybody who writes the portal's row | `MCPortalLifecycle`, 2 runs | `PortalLifecycleProofs` |
| `DealReport` | the live deal report | `MCDealReport`, 1 run | `DealReportProofs` |
| `UtmReport` | the live UTM report | `MCUtmReport`, 2 runs | `UtmReportProofs` |

How they fit together. `SyncLease` keeps the concurrency of the worker and
reduces a phase to "import the next call". What it shows (a commit is fenced,
and with one process nobody else writes between two commits of a visit) is what
`CallSync`, `LateUpdates` and `CrmMirror` rest on: each is one kind of phase, in
full, of one visit at a time that may be abandoned before any commit. Whether a
phase runs at all, and when the next visit comes, is `RateControl`. Who changes
status, credential and generation under a running visit is `PortalLifecycle`; of
the visit it keeps only the fence. The reports share nothing with the worker but
the portal they ask, and have modules of their own.

### TenantStore

Five variables: the status, whether a purge is owed, which installation is on
record, the stored rows (each with the installation it was read for) and the
cursor. `Import` appends one call to a complete prefix and moves the cursor with
it; `Uninstalled`, `Reinstalled`, `Deleted` and `PurgeVerified` are the
lifecycle. There is no worker, no lease and no time in it.

### SyncLease

One portal, any number of worker processes.

| TLA+ | Code |
|---|---|
| `status, tokenOk, purgePending` | `portals.status`, `token_status = 'ok'`, `purge_pending` |
| `gen, owner, expires, runStarted, nextRun, failures, cursor` | `portal_sync.sync_generation, lease_owner, lease_expires_at, run_started_at, next_run_at, consecutive_failures, high_id` |
| `calls`, `inst` | the `calls` table; `inst` (ghost) counts installations and tags rows |
| `selection[w]` | the snapshot on which a running `acquire_leases` of process `w` chose the portal |
| `visit[w]` | the task of process `w` in `_inflight`, with the `_Visit` it holds |
| `purge[w]` | the task of process `w` in `_purging` |
| `now` | the database clock |

A lease is granted in two steps: `Select` sees `portals` and `portal_sync` as the
statement's snapshot has them, `Dispatch` holds the lock of the `portal_sync` row
and tests only that row's conditions again (`FOR UPDATE OF portal_sync`), so a
portal uninstalled in between is leased all the same, and `_open_visit` turns it
away. A visit is dispatched (`Spawned`: the coroutine is dropped when the
registry still holds the portal), opened in two steps because the row is read
without a lock and claimed by a fenced update (`ReadPortal`, `ClaimRun`), and
then repeats `Request`, `BeginWrite`, `CommitWrite`, `Heartbeat`. `BeginWrite`
fixes `now()` of the transaction and `CommitWrite` tests the fence, so everything
may happen in between, uninstall included. The exit path is `SaveRateState`,
`Release` or `ReleaseLost`, then `ParkDead` or `ParkDeleted`, which carry no
fence. `TokenExpired` repeats a phase from the cursor the visit started with.
The lifecycle writers are `Uninstall`, `StoreCredential` and `CrmSwitchedOff`;
each bumps the generation and clears the lease in one transaction. The purge
deletes in chunks (any nonempty subset), ends the table on an empty chunk,
counts once more (`PurgeCounted`), accepts what is left if the tenant is back by
the time its status is read (`PurgeExcused`), and clears the flag in a step of
its own. `Crash` loses the tasks of a process and nothing else.

Abstracted: one call per request; `next_run_at` is due, later or never; the
failure counter saturates at the pause limit.

### CallSync

One portal whose calls are `1..newest`; `NewCall` may append one between any two
commands. `batch` is the request in progress, filled in command by command into
what the code calls `FetchOutcome`; `visit` holds what `_Visit` and the running
phase keep. `EnterHead`, `EnterIncremental` and `EnterBackfill` are the guards of
the phases; `HeadAnswered`, `WindowAnswered`, `ProbeAnswered`, `PackAnswered`,
`BackfillStays`, `BackfillMoves` are the code between an answer and the next
request, each one commit; `ExtraOf...` is the second transaction for the rows
behind a failed command. `Crossable` is `prefix_bx_ids`, the heart of the
matter. `CommandFails`, `TokenExpired`, `Stop` and `Abandon` are the failures.

Abstracted: a row is its ID; a row the parser refuses has a usable ID; counters
for the progress bar. `result_total` is given a lag only in the answer of a
probe, the one place its value is used. The branches "no forward progress" and
"no backward progress" cannot be reached while the filter check passes and have
no action. No call is deleted on the portal while it is imported, as section 11
of `docs/architecture.md` assumes (assumption 2): a window whose page 0 comes back
empty (`head_fetch.py:440-452`, which stays in head) is therefore not met. A
portal that ignores the ID filter is parked; that is `FilterViolated` of
`SyncLease`.

### LateUpdates

What happens to a call after it was imported. `portal` and `gone` are the
portal's side: a call is "bare" until its recording is attached
(`RecordingAttached`), and may be deleted. `row` is the stored copy with
`refresh_requested_at` (`flag`) and `record_recheck_count` (`checked`); `bound`
is `rescan_from_id`; `resume` is `_RESUME_FROM`, which lives in the process and
is lost by a restart (`Abandon(TRUE)`).

| Actions | Code |
|---|---|
| `RequestRefresh`, `SelectFlagged`, `ReadFlagged`, `CommitFlagged` | `POST /calls/{id}/refresh` and the refresh phase |
| `Incremental`, `AgedBound` | the incremental phase, one step, with `_age_rescan_bound` |
| `EnterRescan`, `ReadWindow`, `CommitPrefix`, `CommitWindow` | `run_id_window_rescan`: pages by offset, prefix rule, the two transactions of a batch (the prefix, then the rows outside it), resume point |
| `SpendRechecks`, `ReadRechecked`, `CommitRechecked` | the recheck: the budget is committed before the read |
| `TokenExpired`, `Abandon` | the retry of a phase, and every way a visit ends early |

A read and the commit of what it returned are two steps; the portal and viewers
go on between them. Abstracted: `ORDER BY call_start_date` orders like the ID;
ages are three (inside the window, past it, past the recheck); the stamp of
`last_rescan_at` that ends a pass is one step with the last commit of its rows.

### CrmMirror and RecordCache

`RecordCache` says what any mirror promises: a row is a copy of a version its
record really had, it only moves to later ones, it says "deleted" only of a
record that is gone. `CrmMirror` is the code: sweep, backfill, dirty queue,
reconcile and patrol, with `row` for `crm_items`, `sweep`, `walk` and `recon` for
the cursors in `crm_lanes`, `dirty` for `crm_dirty` and `refresh` for the dirty
pass in progress. `walk` serves backfill and patrol, as one routine does in the
code. The portal creates, edits (with or without a new `updatedTime`, which is
visible up to `CommitLag` after its stamp), deletes, hides records from the
installer and shows them again, and shifts its datetime filter (`zone`);
`Measure` is the daily measurement of that shift. `SweepDisagrees`,
`SweepDemoted`, `WalkParked`, `WalkDemoted`, `ReconParked` are the setbacks.
`Refused` are the records whose row the parser or the database refuses:
`Upserted` stores the others and consumes the marks of all, as `upsert_items`
does. `SweepDisagrees` happens on a row that is too early, on IDs that do not
ascend and on a full page without a usable ID, the last two as faults. In the run
no row is refused; the theorems hold with any.

Abstracted: a record is its version; a request and the transaction that stores
its answer are one step, except in the dirty pass, which makes two of each.
Whether a lane is due is left open. There is one clock, so the second of slack the
sweep grants is none. At the bounds of the runs every range of reconcile is small
enough to be listed; splits (`Halves`) happen only in larger instances and in the
proofs. Stage history and dictionaries are left out.

### RateControl

`row` is what `_close_visit` writes to `portal_sync` (delay, error code, the
park the ladder is later recovered from, batch size, clean visits, failures,
operating time and limit); `budget` is `sync_method_budgets`; `visit` is one
visit in progress. `NextPhase` and `PhaseOver` are the phase loop; `Answer`,
`SoftLimit`, `TimeLimit` (429), `QueryLimit` (503), `Transport` and `PageFails`
are what a request may meet (a `Retry-After` of 0 acts like any shorter than the
floor: it replaces the rung), each with all of `_observe`, `_absorb` and
`_block_method` it leads to; `CloseVisit` is `_close_visit` with `release_lease`.
`RungOf` recovers the rung of the ladder from the stored park as
`_previous_ladder_step` does. `CredentialStored`, `Reinstalled` and `Crash`
interrupt. Time is relative: seconds until an event.

### PortalLifecycle

`portal` is the row, `gen` the generation, `lock` the row lock a refresh holds
over its exchange. `job[h]` is a request in progress with what it read of the
row and what it was shown; `refresher[r]` is one `with_portal_token`. Reading,
proving and writing are steps of their own. Outside is the cloud: an app that is
installed, updated and removed, events that carry the time they were made
(`posted`, delivered late, twice, out of order or never, and at times without
it: `NoTime`), and refresh tokens
good for one exchange (`valid`).

| Actions | Code |
|---|---|
| `Install`, `Open`, `Housekeep`, `Reseed`, `Reauthorize`, `StoreCredential` | install page, open page with `_housekeeping` and `_maybe_reseed`, reauthorize |
| `UninstallEvent`, `ProvenEvent`, `KnownInstall`, `UnknownPortal` with `Apply...` | the ladder of `handlers/events.py`: replay check, application token, proof, then the writer |
| `LoadCredential`, `RefreshLock`, `RefreshExchange`, `RefreshCommit`, `RefreshLost`, ... | single-flight refresh with version check and crash |
| `SweepList`, `SweepMark` | `sweep_inferred_uninstalls` |
| `AskSwitch`, `SwitchOff`, `SwitchOn`, `Visit...`, `Purge`, `CrmPurge...` | the CRM switch, a CRM visit reduced to its fence, both purges |

Abstracted: the whole-portal purge is one step here (`SyncLease` has it in
full); placements, display fields, viewer rows, the deal-period rule, event
binding and the audit trail are left out.

### DealReport and UtmReport

`DealReport` reads one report page by page while people edit: the deals created in
the period and, when the administrator named stages, two legs more, moved and
updated in it (`Key`). `build` says which filter keys the portal's build declares
and which it applies; `verdict` and `dictionary` are the process caches, `window`
the rate window, `report` the report inside the portal's gate, with the employees
it is narrowed to (`assigned`: what an administrator chose, the viewer alone for
everybody else). `Admit`, `Refuse`, `Identify`, `Probe`, `Begin`, `ReadPage`,
`Answered` are the rungs; `Edit` changes a deal between any two pages; a first page
may come without its total (`ReadPage(FALSE)`), which the code reads as zero.

`UtmReport` models what differs: the capability of each leg (`Probe`,
`ProbeLegacy`, `Concluded`) and its cache across viewers, the leads switch, and the
ladder that buckets values and collapses dimensions (`Kept`, `Remap`,
`CollapsedOf`, `Project`), with the rule that prints money in one currency or not
at all. `Answer` is what a spelling of a leg may be on a build; `report.sees` the
kinds of which the viewer has a record to see, which decides whether the honour
probe can notice a filter that is ignored, and which changes under a request
(`RecordsChange`). A scan is one step there, with its page 0 told or `untold`, and
`Evidence` is the guard by which it may fill the cache.

## 3. Properties and runs

Passing runs (each takes two minutes or less):

| Run | Instance | Properties |
|---|---|---|
| `lease_two_workers` | 2 processes, one purging; 2 calls, 3 generations, clock to 2, leases of 1 tick, 1 crash; 3.3 million states | `TypeOK`, `RunExcludesPurge`, `CursorCovered`, `ImplementsStore` |
| `lease_deployed` | 1 process with 2 slots, 3 calls, 4 generations, clock to 3, leases of 2 ticks, 2 crashes; 2.1 million | `RowsOfThisInstallation`, `NobodyElseWrites` |
| `call_sync` | 13 calls, 2 rows a page, 3 pages a batch, 2 loops, 2 backfill batches, 3 faults, a page of unparsable rows, one row the database refuses, totals late by a page; 525 thousand | `TypeOK`, `WindowCovered`, `AllImported` |
| `late_updates` | 3 calls one of which the parser refuses, 1 row a page, 2 pages a batch, 2 batches, 1 recheck, 2 events, 1 fault; 311 thousand | `TypeOK`, `ResumeCovered`, `LateIsSeen`, `RequestIsServed` |
| `crm_mirror` | 2 records, pages of 1, 2 commands, time to 2, an overlap and a commit lag of 1, 1 change, 1 fault, a zone shift of 1; 606 thousand | `TypeOK`, `EditsOwed`, `CoveredIsRead`, `ImplementsCache`, `Converges` |
| `portal_lifecycle` | 2 handlers, 2 refreshers, an administrator and a clerk; 3 cloud actions, 2 token pairs, 2 requests; 713 thousand | `TypeOK`, `CredentialIsAdmins`, `RevokedStaysRevoked`, `OptOutIsEmpty`, `OneExchangePerExpiry`, `LateUninstallIgnored`, `OptOutIsHonoured` |
| `rate_control` | the statistics and one other method, seconds of `throttle.py`, 3 troubles; 513 thousand | `TypeOK`, `LadderClimbs`, `PauseIsEarned`, `StatBlockHeld`, `MethodsApart`, `RatesRecover` |
| `deal_report` | 3 deals, 3 streams, pages of 1, a scan cap of 5, 5 portals, 1 edit, 2 reports of 2 viewers; 2.1 million | `TypeOK`, `LossIsBounded`, `OnlyThePeriod`, `VerdictIsTrue`, `NothingBorrowed` |
| `utm_report` | 6 builds, scans of up to 4 of 7 records, caps of 2, 2 reports of 2 viewers; 129 thousand | `TypeOK`, `NothingDropped`, `OneCurrency`, `CachedOnEvidence` |

Worker:

- `RunExcludesPurge`: a run that has started belongs to a portal that is active and
  owes no purge, although its lease may have been granted on a snapshot in which
  that was so and no longer is.
- `RowsOfThisInstallation`: once no purge is owed, every row belongs to the
  installation on record, so a slow visit never brings back what was purged.
- `CursorCovered`: every call up to `high_id` is stored for this installation.
- `NobodyElseWrites`: what a commit overwrites is what its visit last read or
  wrote; the visit may use the cursors it read when it opened.
- `ImplementsStore`: all of that, as a refinement of `TenantStore`.
- `WindowCovered`: between the cursors (and below them once the backfill is
  done) every call is stored or on record as rejected.
- `AllImported`: in the end every call is stored or on record, the backfill is
  done and the forward cursor has caught up.
- `ResumeCovered`: below the resume point everything was re-read since the sweep
  left the floor, but for at most one row for each deletion that shifted a page.
- `LateIsSeen`, `RequestIsServed`: a recording attached to a call in the window
  is found, a viewer's request is served, unless the call is gone (or, for the
  recording, has left the window meanwhile).

Mirror and pacing:

- `EditsOwed`: an edit that is not in the mirror is ahead of some cursor, above a
  watermark or queued; two exceptions are named (section 5).
- `CoveredIsRead`: what the backfill calls covered it has read.
- `ImplementsCache`: the rows are a cache in the sense of `RecordCache`.
- `Converges`: deletions, silent edits, records unreadable for a while: all are
  found in the end unless reconcile or the patrol was parked.
- `LadderClimbs`: the n-th visit in a row that meets a 503 waits the n-th rung,
  although the rung is stored nowhere.
- `PauseIsEarned`: the six hours come only after the charged failures.
- `StatBlockHeld`: an announced block of the statistics is kept, whatever the
  visit met afterwards.
- `MethodsApart`: one method's block neither delays nor shrinks the next visit.
- `RatesRecover`: batch size and limits return to their defaults.

Lifecycle and reports:

- `CredentialIsAdmins`, `RevokedStaysRevoked`, `OneExchangePerExpiry`: whose pair
  is stored; that a revoked one stays away; that who waited for the lock does
  not exchange again.
- `LateUninstallIgnored`: an uninstall wipes the installation its handler read
  only if it is not older than it.
- `OptOutIsEmpty`, `OptOutIsHonoured`: after the purge no CRM row is left, and
  the rows do go.
- `LossIsBounded`: a report whose first pages told their totals loses at most one
  deal for each row an edit moved in its selections, stream by stream, and nothing
  when nobody edits. `OnlyThePeriod`: it counts only
  deals of its period. `VerdictIsTrue`, `NothingBorrowed`: what is cached for
  the portal is true of its build, and no token is used for somebody else.
- `NothingDropped`: buckets and collapsed dimensions relabel and never drop.
  `OneCurrency`: no sum of amounts that name two currencies. `CachedOnEvidence`:
  the portal's capability is filled only by a request that counted a row; a leg is
  missing in it only because its methods are, never for one caller's rights; and a
  leg is readable in it because its filter held, or because the caller saw no
  record of its kind, which the code does not tell apart (run `unproven_leg`).

Runs that TLC refutes, each against a sentence of the source or its docs:

| Run | Property | What happens |
|---|---|---|
| `late_uninstall` | `NoSecondWipe` | an uninstall event is compared with the row its handler read; the portal is removed and installed again before the handler writes, and the old event wipes the new installation |
| `unproven_leg` | `RememberedLegsHold` | a viewer sees records of one kind only; the probe of the other counts zero although its filter is ignored; rows of the first kind pass the guard on the sum of both totals, and both legs are cached for everybody |
| `missing_total` | `WindowCovered` | without `result_total`, pages past the end of the selection are requested and a call that arrives in the middle of the batch is skipped |

`missing_total` needs a portal whose answers lack the total; `call_sync` is the same
module with totals and passes. `unproven_leg` needs a build that ignores a filter,
which the probe exists for.

**Bounds.** The `Max...` constants are guards on counters and bound nothing else;
when they are used up the processes may stop, which is why most runs do not
check deadlock (the `CallSync` runs do, and its portal is never stuck). Three
generations are an installation, its uninstall and its reinstall; a fourth is a
further one or a switch of CRM analytics. One tick of lease and a clock to 2 are
two takeovers. Two calls give a cursor something to run ahead of. Thirteen calls
are two batches and a partial page; three faults are a failed command in each of
two batches and a lost visit, or an expired token on both tries of a phase. In
`late_updates` the window (three calls) is larger than a batch (two commands of
one row), so a pass is cut and resumed, and the refused call is the one the
prefix rule has to cross; a deletion that hides a call from a pass already
resumed takes four calls, and is left to `ResumeIsCovered` (section 4). In `crm_mirror` two records are two ranges of the
backfill, two leaves of reconcile and two sweep pages; the first sweep looks back no
further than the overlap, so that time to 2 already leaves edits behind it; more changes multiply the states
without a new kind of interleaving, since every lane may meet the one change
before, between and after its requests. What one change cannot show is a deletion
balanced by a record that appears in the same range and is stored later: with two
changes the run does not end in five minutes. `portal_lifecycle` has just enough
events for an uninstall that is older than a reinstall, and two handlers and
two refreshers for every pair to interleave. In `rate_control` three troubles
reach the third rung of the ladder, its cap, the pause (after 3) and every mix
of two errors in one visit. In `deal_report` three deals in three selections are
up to nine rows on nine pages, so that a cap of 5 is met exactly, exceeded and not
reached; the one edit moves a deal into or out of any of the selections between
any two pages.

**Fairness.** It is stated where a liveness property is checked.

- `CallSync`: weak fairness of the worker's own steps (the tick runs every 15 s
  for as long as the process lives and dispatches a portal that is due; a visit
  runs to its end or is abandoned) and of time (`IntervalPasses`).
- `LateUpdates`: weak fairness of `VisitStep` and strong fairness of
  `HourPasses`: visits last minutes, and an hour passes between two of them, so
  it is enabled again and again but not continuously.
- `CrmMirror`: weak fairness of each lane, because every visit offers each lane
  its turn, and of the daily retention job.
- `PortalLifecycle`: the tick starts purges every 15 s, and Postgres serves those
  who wait for a row in turn, which is strong fairness for a step that waits for
  a lock others take again and again; a refresher that holds the lock lets go.
- `RateControl`: time, the opening and closing of visits and the end of phases
  weakly; strongly, that each method is asked again and again and is served when
  its troubles are used up.

Nothing is assumed of the portal beyond that: no call, edit or event need
arrive, and faults are bounded in number, not scheduled. A portal whose every
request fails for ever imports nothing, and the code does not promise otherwise.

## 4. Proofs

Eight modules hold theorems. Each is about its module's `Spec`, without fairness,
for every value of the constants that satisfies the assumptions the module names.

`SyncLeaseProofs`, for every set of workers, every number of slots, calls,
generations, crashes and ticks (`WorkerAssumption`, `NumberAssumption`):

| Theorem | States | Needs |
|---|---|---|
| `TypeCorrect` | `Spec => []TypeOK` | - |
| `RunAndPurgeExclude` | `Spec => []RunExcludesPurge` | - |
| `NoRowOfAnEarlierInstallation` | `[]RowsOfThisInstallation` | `SinglePurger` |
| `CursorIsCovered` | `[]CursorCovered` | `SinglePurger` |
| `LeasesImplementStore` | `Spec => Store!StoreSpec` | `SinglePurger` |
| `SoleWriter` | `NobodyElseWrites` | `SoleWorker` |

`SinglePurger` (at most one process runs purges) and `SoleWorker` (one worker
process) are stated as hypotheses of the theorems that need them; both hold of
the deployed stack, and neither can be dropped (section 5).

None of the three safety properties is inductive. A commit is harmless because
of what the visit knows *while its generation is the current one*: its
installation is the one on record and every call up to its own cursor is stored
(`VisitInv`). That knowledge may be stale at any moment; the fence tests the
generation in the very step that writes, so a commit that happens is one whose
knowledge is current. It survives the purge because a purge in progress implies
`purgePending` (`PurgeInv`; this is where `SinglePurger` is needed, another
purger could clear the flag), and `purgePending` implies that no run has started.
A lease alone implies nothing, since it may have been granted on an old snapshot:
the run starts in `ClaimRun`, whose fence carries the generation that `_open_visit`
saw with an active portal without a purge (`ReadInv`), so a generation that still
matches is a portal that still is (`ClaimInv`). It survives uninstall and reinstall because both bump the generation
(`GenerationOutdates`): no visit's generation is ever ahead of the row's.
`SafetyInv` is the conjunction of types, data, purge and visit parts;
`InitSafety` and `SafetyStep` are its two halves, the latter with one case per
action. `StoreStep` maps every step to a step of `TenantStore` or a stutter: a
commit is `Import` because `VisitInv` gives the complete prefix, whatever cursor
the row holds at that moment. `SoleInv` adds to the same invariant that with one
process the stored cursor is the visit's own.

`PortalLifecycleProofs`, for every set of handlers, refreshers and users and
every number of events, token pairs, requests and generations
(`PeopleAssumption`, `BoundAssumption`):

| Theorem | States |
|---|---|
| `TypeCorrect` | `Spec => []TypeOK` |
| `CredentialsAreAdmins` | `Spec => []CredentialIsAdmins` |
| `RevocationIsFinal` | `Spec => []RevokedStaysRevoked` |
| `ExchangesAreSingle` | `Spec => []OneExchangePerExpiry` |
| `OptOutLeavesNothing` | `Spec => []OptOutIsEmpty` |
| `OldUninstallsAreIgnored` | `Spec => LateUninstallIgnored` |

The rows that handlers read are worth nothing by the time they write, so the
invariant does not speak of them. It says what each request carries (`JobInv`:
behind a pair about to be stored stands an administrator's proof; an uninstall
that was let through is no older than the installation it was compared with),
what holds while somebody exchanges (`LockInv`: the lock is theirs alone and the
credential is still there, which keeps `RefreshCommit` from bringing tokens back
to an uninstalled portal), what a CRM visit knows while its generation is current
(`VisitInv`: nobody has opted out) and what any row about to be stored must be
(`Sound`). `JobStep`, `RowStep`, `WriteStep`, `MirrorStep`, `RefresherStep` and
`RefresherWrites` prove it for the six shapes a step has; one lemma per action
shows that the action has one of them.

`CallSyncProofs`, for every page size, batch and loop bound, every set of refused
rows, lag, number of ids and faults (`SizeAssumption`):

| Theorem | States | Needs |
|---|---|---|
| `TypeCorrect` | `Spec => []TypeOK` | - |
| `WindowIsCovered` | `Spec => []WindowCovered` | `HasTotal` |

`HasTotal` (answers carry `result_total`) cannot be dropped: run `missing_total`
refutes the property without it. Types already need two facts of their own: a
window that runs has a `low_id` above 0 (`LowInv`), and its first page holds the
id the visit starts from (`FrontInv`). `WindowInv` adds what the cursors promise
(`CursorInv`, `StatusInv`, `EntryInv`) and what the batch in progress has read so
far (`BatchInv`). Forward, the pages of a batch continue the visit's cursor
without a gap, because a pack is sized by a total that the ids have already
reached, so that every page but the last is full (`ForwardInv`, `PackInv`,
`ProbeInv`); backward, the pages hang together from the first id that was asked
for (`BackwardInv`, `BackfillInv`). Between the pages a call is known or refused,
or it is above everything the cursors claim.

`LateUpdatesProofs`, for every number of calls, page and batch size, set of
refused rows, recheck budget, events and faults (`LateAssumption`):

| Theorem | States |
|---|---|
| `TypeCorrect` | `Spec => []TypeOK` |
| `ResumeIsCovered` | `Spec => []ResumeCovered` |

A pass reads by offset while calls are deleted, and each deletion may move one
call back over the offset, out of the pass (`OneSlipsBy`, a lemma on counting).
`SweepInv` therefore counts, at each point of a pass, what it has gone by and not
read: below the offset of the next batch (`OffsetSo`), below each call of the
batch in hand (`PrefixSo`), its prefix stored or not yet, and below what it will have gone by if another batch
follows (`NextSo`), below the point reached (`ReachedSo`) and the resume point
(`Resumed`); none exceeds the deletions since the sweep left the floor. Places are
counted among all calls not deleted, those to come included (`Live`): IDs only
grow, so a new call takes a place that was known, and no count changes. The two
transactions of a batch are two steps, and the first of them leaves all of this as
it is (`CommitPrefixSweep`).

`CrmMirrorProofs`, for any number of records, pages, ranges, changes, retentions
and failures (`NumberAssumption`, `LagAssumption`, `NoneAssumption`):

| Theorem | States |
|---|---|
| `MirrorImplementsCache` | `Spec => ImplementsCache` |
| `MirrorTypes` | `Spec => []TypeOK` |
| `WhatIsCoveredIsRead` | `Spec => []CoveredIsRead` |
| `NoEditIsLost` | `Spec => []EditsOwed` |

*Refinement.* Every step of every lane maps to "rows follow their records",
"records change" or a stutter of `RecordCache` (`StepMaps`). A row is overwritten
only by a copy not older than it. That is immediate for a page stored in the step
that reads it; the dirty pass reads in one step and stores in another, so
`PassInv` says why its copies are still good: no other lane stores while the pass
works, only retention takes rows away, and what the pass found absent is still
gone.

*Coverage.* `covered` is one number, and the walk settles several ranges at a
time in any order, with failures. `Tiles` says how the number stands for a set:
the ranges still open and the part not yet cut lie below one another without gap
or overlap, and everything between them and the head has been read. Then a record
is either inside an open range above its cursor or has been read (`Been`), and
what was read and never deleted, hidden nor refused (`Steady`) has a live row
(`ReadInv`).
Identifiers are given in order (`OrderInv`), so the head bounds all the records
the backfill must come to; those above it the sweep sees.

*Edits.* A row behind its record is no fault as long as somebody will come:
`Due` names the backfill (the record is in a part not yet read) and the sweep
(its watermark, corrected by the zone, has not passed the edit), and `OwedInv`
adds the queue. The dirty pass is the hard case again, for it takes a record out
of the queue with a copy that may be overtaken meanwhile; `PassOwed` says that
then the edit came after the sweep's watermark, which has it still to see. What
keeps the watermark behind is `SweepInv` (a sweep under way ends at the moment it
*started*, never later), and `BlindInv` excludes the one window README section 5
reports (`SweepStartsFirst`). `CountInv`, `ShapeInv` and `QueueInv` are what only
the types need.

`RateControlProofs`, for every set of methods and whatever readings, resets and
`Retry-After` values the answers carry (`RateAssumption`, and `PowerAssumption`,
which says of the powers of two up to 30 only that they are positive and double:
arithmetic the provers do not have, and TLC evaluates):

| Theorem | States | Needs |
|---|---|---|
| `TypeCorrect` | `Spec => []TypeOK` | - |
| `BlocksAreApart` | `Spec => MethodsApart` | - |
| `BlockIsWaitedOut` | `Spec => StatBlockHeld` | `PauseOutlasts` |
| `PausesAreEarned` | `Spec => PauseIsEarned` | `PauseStandsOut` |
| `TheLadderIsClimbed` | `Spec => []LadderClimbs` | `LadderReaches` |

`TypeInv` holds the types with two facts: a failure is charged at most once for
each trouble (`ChargeInv`), and only what the statistics met parks or blocks the
portal (`LimitInv`). `HoldInv` follows an announced block through the visit: while
it lasts, the statistics are no longer among the methods left, and the visit
carries a park, or closes with a block, that outlasts it; between visits the row's
`due` does. `PauseOutlasts` (no reset is later than the six hours of the failure
pause) is needed because a failure that ends a parked visit replaces its delay by
the pause; a reset is within the hour of the operating time.

The last two hold of the numbers of `throttle.py` and not of all numbers, so each
names its condition. `PauseStandsOut`: no other wait is as long as the six hours,
neither the interval (5 minutes), nor the top of a ladder, nor a reset with its
grace, nor a `Retry-After` (cut to an hour); otherwise a wait of that length would
say nothing about failures. `PauseInv` carries it through the visit and ties what
was charged to the counter in the row. `LadderReaches`: the ladder is at its top
after nine doublings (2 s to 300 s takes eight), for the rung is recovered from a
stored delay by a search that stops at 8. `LadderInv` says which delay a streak of
503 leaves in the row, and `NextRung` that the search finds the rung in it. Both
conditions hold in the run as well.

`DealReportProofs`, for any deals, viewers, page size, budgets, filters, builds and
shapes of a deal (`DealReportAssumption`, `ShapesAssumption`, `BuildsAssumption`):

| Theorem | States |
|---|---|
| `TypeCorrect` | `Spec => []TypeOK` |
| `OnlyThePeriodIsCounted` | `Spec => []OnlyThePeriod` |
| `VerdictsAreTrue` | `Spec => []VerdictIsTrue` |
| `NobodyBorrows` | `Spec => []NothingBorrowed` |
| `NoReportLosesMore` | `Spec => []LossIsBounded` |

`DealInv` says of a report in progress whose token it reads with (`WhoInv`: from
the first batch on the viewer's own, on the warm path as on the cold), what its
dialect was proved for (`DialectInv`: every key it sends) and what it has counted
(`CountInv`: on a proved dialect, only deals that were once in the report; a page
counts what it holds at that moment, which is why `ever` and not the period at the
end is the bound). The caches are true whoever filled them (`CacheInv`).

`NoReportLosesMore` counts. A deal is missed when it was never counted and no page
still to come holds its place, in a stream that had to bring it from the first page
on (`always`, kept stream by stream); `LossInv` bounds the missed deals of the
streams together by the edits so far, as long as every first page told its total. A page
that is read adds nothing, since what leaves the pages to come has just been
counted (`PageLosesNothing`). An edit moves every place behind it by one: because
the pages to come have no gap (`Shaped`, `PagesAreConvex`), only the deal at one
end can fall out of them, one in each stream whose rows the edit moves
(`OneIsLost`, `EditIsBounded`), which is how `shifts` counts it. At the end no
page is to come and what is missed is what is not in the report.

`UtmReportProofs`, for any requests, caps and scans (`UtmReportAssumption`,
`ConversionAssumption`):

| Theorem | States |
|---|---|
| `TypeCorrect` | `Spec => []TypeOK` |
| `TheCacheIsFilledOnEvidence` | `Spec => CachedOnEvidence` |
| `AmountsAreOfOneCurrency` | `Spec => []OneCurrency` |
| `TheLadderDropsNothing` | `Spec => []NothingDropped` |
| `TheHeaviestAreShown` | what `_ranked`, `_remaps` and `_facet_wire` keep, for every scan |

The invariant of a request in progress relates each leg it has concluded to what
the portal answered when it was asked (`asked`) and to the kinds its viewer then had
a record of (`seen`), for as long as the request may still fill the cache: a leg is
missing when both methods were, readable when its filter held or nothing was there
to show that it did not. The step that fills the cache adds the row it counted.
`OneCurrency` rests on `ConversionAssumption`: `opportunityAccount` never comes
without `opportunity`. The code assumes the same: in a
native total a deal with a converted amount only would be left out without being
counted among the rows without an amount (`utm_stats.py` 862-874, 1126-1129).

`TheLadderDropsNothing` is about sums over sets of any size. The library's
induction theorems take an operator, which no prover here can instantiate, so
`SubsetInduction` is stated of a *set* of subsets and proved from the
well-foundedness of strict inclusion on a finite set (the smallest set outside of
it). From it follow the laws of `MapThenSumSet` (any element may be taken first,
disjoint sets add up) and `SumOfParts`: the sums of the parts of a partition add
up to the sum of the whole. The ladder is then one idea used three times. A table
is the keys of the scan regrouped by a function of the key (`GroupedBy`): the rows
by `Onto`, a facet with its residue by the value it is relabelled to
(`WireIsByRemap`). Regrouping keeps totals (`TotalsStay`), and a dimension not
lifted reads the same in both because `Onto` relabels it by the same remap
(`RowsAddUp`). It needs that no tag is spelled like one of the markers of the
ladder (`UtmReportAssumption`: tags are values or none). The code relies on the
same: its markers begin with U+0001, which it takes to be unreachable in a tag
(`bitrix/utm.py` 136-151), and nothing tests a tag for it.

`TheHeaviestAreShown` is about the ranking, which no run asks about: a facet shows
exactly as many values as the cap allows (all of them if they fit), and each ranks
before each that is folded. `TopCounts` counts it by the same induction, taking
away the last value of the ranking at each step; that there is a last one is what
the tie-break of `_ranked` is for.

**Only model-checked.** Liveness (`AllImported`, `LateIsSeen`, `RequestIsServed`,
`Converges`, `RatesRecover`, `OptOutIsHonoured`), which is out of the prover's
reach: it rests on fairness and `ENABLED`. The refuted properties. Every invariant and action property of
a passing run is stated by a theorem.

**What the proofs corrected.** `CASE` takes any arm whose guard holds, and TLC the
first. Two operators had overlapping arms that the code tries in order: `ReadPage`
of `DealReport` (a last page that is also the end of the list) and `Decide` of
`UtmReport`. The runs could not tell; the proofs could not be finished. Both are
now written as `IF` in the code's order. `CrmMirror` assumes `MaxTime > 0`, without
which its first state has no room for a clock.

## 5. Divergences

Places where the code does not do what its comments or documents say. The three
refuted runs are checked; the other properties named here are stated at the end
of their modules and no run checks them.

With a second worker process, which docker-compose does not start but
`sync/lease.py` is written for:

- `NobodyElseWrites` fails: a process that leases a portal again makes the fence
  (owner, generation, expiry) of its own overtaken visit match once more.
- `CursorCovered` fails when both processes purge: the slower purge deletes rows
  of the next installation.

Leases and calls:

- `TerminalIsCurrent`: a visit that lost its fence still parks or uninstalls the
  portal, after a new credential was stored (`definitions.py:1861`).
- A lease may be granted to a portal that was uninstalled after the statement's
  snapshot: `FOR UPDATE OF portal_sync` tests the `portals` half no further. The
  visit turns itself away; the lease sits until it expires.
- `LeasedIsDispatched`: a portal is leased whose coroutine `_spawn` drops; it
  waits for the lease to expire (`definitions.py:2116`).
- `CursorsOnlyAdvance`: after a token refresh a phase starts from the cursor the
  visit holds and may commit it backwards. Nothing is lost, rows are read twice.
- `WindowCovered` without `result_total`: run `missing_total`.

Rescan:

- `ServedByTheAnswer`: `upsert.py:203-205` takes every write of a row for an
  answer to its pending request; a request made between a page's read and its
  commit is cleared by the older copy.
- An expired token during the recheck spends two units of a call's budget in one
  visit, and the docstring of `_read_by_ids`, by which a failed chunk is read
  again later, does not hold for the last unit.
- A deleted call stays flagged for ever and takes one of the newest places of
  each refresh pass. It takes a pass full of them to starve a request.
- `incremental.py:151`: extra rows may take the ageing bound past `high_id`. The
  call at a bound that equals `high_id` is not read again.

Portal row:

- `NoSecondWipe`: run `late_uninstall`. `sweep_inferred_uninstalls` has the same
  shape: it lists candidates and marks them without asking again whether their
  token was repaired. An uninstall event without a `ts` is never judged late at
  all (`events.py:424`); `LateUninstallIgnored` leaves it out.
- Two updates handled at once may leave the older application token beside the
  newer event time.
- An install writes its audit event twice.

Pacing:

- `LimitIsLearned`: `throttle.py:459-475` says a 429 teaches the limit; a soft
  limit in the same visit suppresses it (`definitions.py:1975-1980`).
- A park, or a `Retry-After`, of a visit that ends in a 503 is read as a rung of
  the ladder by the next one.
- Storing a credential of an installed portal makes it due at once, through a
  block, and forgets the learned limit.
- `_relearn_endpoint` goes by the number of failures and by the last error only.

CRM mirror:

- `SweepStartsFirst`: `crm_backfill.py:16-18` relies on a sweep that starts
  before the backfill. The first sweep may still wait for the clock measurement
  when the backfill reads its head; a record changed in between is owed by none
  of the two until the patrol comes. `EditsOwed` excludes exactly this, and a
  zone that moves between two daily measurements so that the sweep filters too
  narrowly.
- `DeletionsAreFound`: `crm_reconcile.py:10-11` counts on the counts differing
  later. A record that the parser or the database refuses is on the portal and never
  in the mirror (`crm_upsert.py:131-160`); a deleted record of its range is in the
  mirror and no longer on the portal. The counts agree in every reconciliation, no
  other lane looks for deletions, and the mirror keeps the record (two records, of
  which record 1 is in `Refused`, show it).

Reports:

- `NoneTruncates`: `deal_stats.py:41` says that every rung refuses and none
  truncates. A first page without a total counts as a selection of zero rows
  (`deal_stats.py:944`): no further page is pending and that page alone is shown as
  the report. `LossIsBounded` sets such answers apart, which `deal_report` has in it.
  The UTM report reads its totals the same way (`utm_stats.py:931`).
- `RememberedLegsHold`: run `unproven_leg`. A Simple-CRM report does the same with
  one leg: it scans the deals, and remembers the leads its probe found nothing of.
- An amount without a currency is added to the sum without a word
  (`utm_stats.py` 869, 873): a report with one named currency and unnamed amounts
  prints a total under that name.
- `EveryReportIsProved`: `architecture.md` section 4.12 promises a probe that
  proves the period filter. A probe command that fails leaves the verdict open
  and the report is drawn all the same (`deal_stats.py:672-697`).
- `RefusedOnlyWithoutLegs`: `architecture.md:1040` reserves the refusal for
  viewers who can read neither leg; a colleague's cached capability can put a
  viewer on a leg whose refusal ends the report.
- `utm_unsupported` is answered when the entities the viewer can read are
  tagless, the document says when both are; and a refused deal leg is served
  from the leads alone where a comment says it ends the report.
- A request that waits for its portal's gate holds a place of the process's.

## 6. Not modelled

- Employees, sessions and principals, access decisions, statistics, parsers and
  client, scheduler, web front end: one request, one statement or one pure
  function each, or presentation. `PROJECT.json` gives the reason for each.
- `CallSync`: rows without a usable ID. A batch made only of such rows would
  leave every cursor where it is (`backfill.py:145-170`).
- `SyncLease`: the rows of the other tenant tables (of them
  only this is left: once the tenant is back, the final count may find some), its
  cooldown after an incomplete one, the retention jobs; fairness of purges between portals.
- `CrmMirror`: IDs are queued by reconcile alone and never during a dirty pass,
  as in the code today, so the guards against marks younger than a read (`seq`,
  `crm_dirty.py:152`) are not exercised; an installer who loses all rights looks like one who was demoted;
  the worker's clock does not step.
- `RateControl`: the spacing of two requests (`Pacer`), relearning an endpoint,
  terminal states, the wake-up of a CRM visit.
- `PortalLifecycle`: placements, viewer rows (an `/app/` open may write one after
  a purge, `open.py:419`), the `crm_mode` tool, rebinding, grants, the
  deal-period rule, the cooldown of a failing OAuth server.
- Reports: gates and rate limits as processes, period arithmetic, layout; in the
  UTM report paging, which is the deal report's.
- Row-level security, encryption of tokens, logging, the audit trail.

## 7. Plan

1. Proofs: the lemmas on sums and on subsets in a module of their own, and the
   hypotheses `SinglePurger` and `HasTotal` weakened to the steps that need them.
2. `Purge`: two portals and the cooldown, for the fairness of tick (b) and the
   tables in their order of deletion.
3. `CrmMirror` with two entities that share one method budget.
4. The gates of the reports as processes.
