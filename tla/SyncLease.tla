----------------------------- MODULE SyncLease -----------------------------
(***************************************************************************)
(* Portal leases and the write fence: src/api/app/sync/lease.py with the   *)
(* dispatcher and the visit shell of src/api/app/jobs/definitions.py.      *)
(*                                                                         *)
(* One portal and the worker processes that take turns visiting it.  A     *)
(* worker leases the portal (acquire_leases), starts a task unless its     *)
(* registry already holds one (_spawn), claims the run (_open_visit) and   *)
(* then repeats: request, transaction with rows and cursor, heartbeat.     *)
(* Each transaction reads now() when it BEGINS and checks the fence when   *)
(* its last statement runs, so the two are separate steps here.  So are    *)
(* the snapshot a lease is decided on and the row lock it is taken under:  *)
(* only portal_sync is locked and looked at again.  The lifecycle writers  *)
(* (uninstall, credential store, CRM switch) bump the generation and clear *)
(* the lease from another process.                                         *)
(*                                                                         *)
(* Data abstracted: a visit imports one call per request, the next ID      *)
(* above the cursor it read when it opened; next_run_at is due, later or   *)
(* never ('infinity'); consecutive_failures saturates at the pause limit.  *)
(***************************************************************************)
EXTENDS Naturals

CONSTANTS
  Worker,            \* worker processes, each one WORKER_ID
  Purger,            \* those whose tick runs purges
  NoOwner,           \* lease_owner IS NULL
  Concurrency,       \* GLOBAL_PORTAL_CONCURRENCY, the slots of one process
  LeaseTicks,        \* LEASE_SECONDS, in clock ticks
  FailuresBeforePause,
  MaxCall,           \* calls the portal has
  MaxClock, MaxGen, MaxCrash   \* bounds of the counters

ASSUME WorkerAssumption == NoOwner \notin Worker /\ Purger \subseteq Worker
ASSUME NumberAssumption ==
  /\ Concurrency \in Nat \ {0}
  /\ LeaseTicks \in Nat \ {0}
  /\ FailuresBeforePause \in Nat \ {0}
  /\ MaxCall \in Nat
  /\ MaxClock \in Nat
  /\ MaxGen \in Nat \ {0}
  /\ MaxCrash \in Nat

VARIABLES
  status, tokenOk, purgePending,       \* portals
  gen, owner, expires, runStarted,     \* portal_sync: the fence and the lease
  nextRun, failures, cursor,           \* portal_sync: schedule and high_id
  calls,                               \* the calls table
  inst,                                \* ghost: the installation on record
  now, crashes,                        \* the database clock; crashes so far
  selection,                           \* per process: the lease statement it runs
  visit,                               \* per process: its task in _inflight
  purge                                \* per process: its task in _purging

portalVars == <<status, tokenOk, purgePending, inst>>
leaseVars == <<owner, expires, runStarted>>
scheduleVars == <<nextRun, failures>>
dataVars == <<calls, cursor>>
rowVars == <<portalVars, gen, leaseVars, scheduleVars, dataVars>>
taskVars == <<visit, purge>>
vars == <<rowVars, now, crashes, selection, taskVars>>

-----------------------------------------------------------------------------
Row(i, n) == [id |-> i, inst |-> n]

\* Where a task is: dispatched but not begun, its row read but not claimed,
\* between requests, response in hand, inside the fenced transaction, due a
\* heartbeat, or on the exit path.
Stages == {"idle", "dispatched", "opening", "open", "fetched", "writing",
           "paced", "closing", "releasing", "parking"}
\* A purge deletes, counts what is left and, when something is, asks whether
\* the tenant is back.
PurgeStages == {"idle", "deleting", "drained", "remaining", "verified"}
Outcomes == {"clean", "throttled", "failed", "dead", "deleted"}

\* gen, start and inst are the snapshot of the row; cursor is where the visit
\* is; begun is now() of the transaction it has open, if any; retried says it refreshed its token;
\* stored (ghost) is high_id as this visit last read or wrote it.
Visits == [stage : Stages, gen : Nat, start : Nat, cursor : Nat, stored : Nat,
           inst : Nat, begun : Nat, retried : BOOLEAN, outcome : Outcomes]

NoVisit == [stage |-> "idle", gen |-> 0, start |-> 0, cursor |-> 0, stored |-> 0,
            inst |-> 0, begun |-> 0, retried |-> FALSE, outcome |-> "clean"]

\* A lease statement that found the portal eligible in its snapshot, and now()
\* of its transaction.
Selections == [on : BOOLEAN, at : Nat]

NoSelection == [on |-> FALSE, at |-> 0]

Ends(w) == visit' = [visit EXCEPT ![w] = NoVisit]
Goes(w, stage) == visit' = [visit EXCEPT ![w].stage = stage]

-----------------------------------------------------------------------------
(* The fence.  t is now() of the transaction, i.e. when it began. *)

\* Mutant: the fence without the generation.
FencedByOwner(w, g, t) == owner = w /\ expires > t

Fenced(w, g, t) == owner = w /\ expires > t /\ gen = g

LeaseCleared ==
  /\ owner' = NoOwner
  /\ expires' = 0
  /\ runStarted' = FALSE

\* expires is meaningful only while there is an owner (both columns are NULL
\* together).
LeaseFree(t) == owner = NoOwner \/ expires < t

Charged(f) == IF f < FailuresBeforePause THEN f + 1 ELSE f

-----------------------------------------------------------------------------
Init ==
  /\ status = "active" /\ tokenOk = TRUE /\ purgePending = FALSE
  /\ inst = 1 /\ gen = 1
  /\ owner = NoOwner /\ expires = 0 /\ runStarted = FALSE
  /\ nextRun = "due" /\ failures = 0
  /\ cursor = 0 /\ calls = {}
  /\ now = 0 /\ crashes = 0
  /\ selection = [w \in Worker |-> NoSelection]
  /\ visit = [w \in Worker |-> NoVisit]
  /\ purge = [w \in Worker |-> "idle"]

Tick ==
  /\ now < MaxClock
  /\ now' = now + 1
  /\ UNCHANGED <<rowVars, crashes, selection, taskVars>>

NextRunComes ==
  /\ nextRun = "later"
  /\ nextRun' = "due"
  /\ UNCHANGED <<portalVars, gen, leaseVars, failures, dataVars, now, crashes, selection, taskVars>>

-----------------------------------------------------------------------------
(* The dispatcher: one _dispatch_due of process w that leases the portal.  *)

Inflight(w) == IF visit[w].stage = "idle" THEN 0 ELSE 1

\* Mutant: acquire_leases without its purge_pending filter.
SyncableWhilePurging == status = "active" /\ tokenOk

Syncable == status = "active" /\ tokenOk /\ ~purgePending

\* An expired lease whose run had started died; one that had not was never
\* dispatched and is taken over free of charge.
RunCrashed == runStarted /\ owner # NoOwner

\* _spawn drops the coroutine when the registry still holds the portal.
Spawned(w) ==
  visit' = IF Inflight(w) = 0 THEN [visit EXCEPT ![w].stage = "dispatched"]
           ELSE visit

\* The statement's snapshot: portals and portal_sync as they stood when it began.
Select(w) ==
  /\ ~selection[w].on
  /\ Inflight(w) < Concurrency
  /\ Syncable /\ nextRun = "due" /\ LeaseFree(now)
  /\ selection' = [selection EXCEPT ![w] = [on |-> TRUE, at |-> now]]
  /\ UNCHANGED <<rowVars, now, crashes, taskVars>>

Selected(w) == selection[w].on /\ nextRun = "due" /\ LeaseFree(selection[w].at)

\* FOR UPDATE OF portal_sync locks that row and repeats its own conditions on
\* what it has become; the portals half stays what the snapshot saw, so a
\* portal uninstalled in between is leased all the same, and _open_visit is
\* what turns its dispatch away.
Dispatch(w) ==
  /\ Selected(w)
  /\ owner' = w
  /\ expires' = selection[w].at + LeaseTicks
  /\ runStarted' = FALSE
  /\ failures' = IF RunCrashed THEN Charged(failures) ELSE failures
  /\ Spawned(w)
  /\ selection' = [selection EXCEPT ![w] = NoSelection]
  /\ UNCHANGED <<portalVars, gen, nextRun, dataVars, now, crashes, purge>>

SelectionGone(w) ==
  /\ selection[w].on /\ ~Selected(w)
  /\ selection' = [selection EXCEPT ![w] = NoSelection]
  /\ UNCHANGED <<rowVars, now, crashes, taskVars>>

-----------------------------------------------------------------------------
(* _open_visit: the row is read without a lock, then claimed by a fenced   *)
(* update carrying the generation that read saw.                           *)

MayOpen(w) == owner = w /\ expires > now /\ Syncable

ReadPortal(w) ==
  /\ visit[w].stage = "dispatched"
  /\ MayOpen(w)
  /\ visit' = [visit EXCEPT ![w] =
       [stage |-> "opening", gen |-> gen, start |-> cursor, cursor |-> cursor,
        stored |-> cursor, inst |-> inst, begun |-> now, retried |-> FALSE,
        outcome |-> "clean"]]
  /\ UNCHANGED <<rowVars, now, crashes, selection, purge>>

AbandonDispatch(w) ==
  /\ visit[w].stage = "dispatched"
  /\ ~MayOpen(w)
  /\ Ends(w)
  /\ UNCHANGED <<rowVars, now, crashes, selection, purge>>

ClaimRun(w) ==
  /\ visit[w].stage = "opening"
  /\ Fenced(w, visit[w].gen, visit[w].begun)
  /\ runStarted' = TRUE
  /\ visit' = [visit EXCEPT ![w].stage = "open", ![w].begun = 0]
  /\ UNCHANGED <<portalVars, gen, owner, expires, scheduleVars, dataVars, now, crashes, selection, purge>>

\* FenceLost here is outside sync_portal's inner try: it leaves the task as an
\* exception, and the registry forgets the task all the same.
ClaimLost(w) ==
  /\ visit[w].stage = "opening"
  /\ ~Fenced(w, visit[w].gen, visit[w].begun)
  /\ Ends(w)
  /\ UNCHANGED <<rowVars, now, crashes, selection, purge>>

-----------------------------------------------------------------------------
(* The phases: request, fenced transaction, heartbeat. *)

\* Mutant: no stop at the end of the portal's history.
RequestPastEnd(w) ==
  /\ visit[w].stage = "open"
  /\ Goes(w, "fetched")
  /\ UNCHANGED <<rowVars, now, crashes, selection, purge>>

Request(w) ==
  /\ visit[w].stage = "open"
  /\ visit[w].cursor < MaxCall
  /\ Goes(w, "fetched")
  /\ UNCHANGED <<rowVars, now, crashes, selection, purge>>

\* with_portal_token refreshes once and calls the phase again, with the
\* cursor the visit holds: the phase returned nothing, so that is still the
\* one it started from.
TokenExpired(w) ==
  /\ visit[w].stage = "open" /\ ~visit[w].retried
  /\ visit' = [visit EXCEPT ![w].cursor = visit[w].start, ![w].retried = TRUE]
  /\ UNCHANGED <<rowVars, now, crashes, selection, purge>>

BeginWrite(w) ==
  /\ visit[w].stage = "fetched"
  /\ visit' = [visit EXCEPT ![w].stage = "writing", ![w].begun = now]
  /\ UNCHANGED <<rowVars, now, crashes, selection, purge>>

\* upsert_calls: rows, then the fenced cursor update, then commit.
CommitWrite(w) ==
  LET next == visit[w].cursor + 1 IN
  /\ visit[w].stage = "writing"
  /\ Fenced(w, visit[w].gen, visit[w].begun)
  /\ calls' = calls \cup {Row(next, visit[w].inst)}
  /\ cursor' = next
  /\ visit' = [visit EXCEPT ![w].stage = "paced", ![w].begun = 0, ![w].cursor = next,
                            ![w].stored = next]
  /\ UNCHANGED <<portalVars, gen, leaseVars, scheduleVars, now, crashes, selection, purge>>

Heartbeat(w) ==
  /\ visit[w].stage = "paced"
  /\ Fenced(w, visit[w].gen, now)
  /\ expires' = now + LeaseTicks
  /\ Goes(w, "open")
  /\ UNCHANGED <<portalVars, gen, owner, runStarted, scheduleVars, dataVars, now, crashes, selection, purge>>

\* The exit path uses nothing of the visit but its fence and how it ended.
Ended(w, o) ==
  visit' = [visit EXCEPT ![w] =
    [NoVisit EXCEPT !.stage = "closing", !.gen = visit[w].gen, !.outcome = o]]

\* The portal ignored an ID filter: block_on_filter_violation parks it in a
\* transaction of its own, with no fence, and the visit ends as terminal.
FilterViolated(w) ==
  /\ visit[w].stage = "fetched"
  /\ tokenOk' = FALSE
  /\ nextRun' = "never"
  /\ Ended(w, "dead")
  /\ UNCHANGED <<status, purgePending, inst, gen, leaseVars, failures, dataVars, now, crashes, selection, purge>>

PhasesOver(w) ==
  /\ visit[w].stage = "open"
  /\ \E o \in Outcomes : Ended(w, o)
  /\ UNCHANGED <<rowVars, now, crashes, selection, purge>>

-----------------------------------------------------------------------------
(* _close_visit: rate state (fenced), release_lease (fenced, a lost fence  *)
(* is only logged), then the terminal status (not fenced).                 *)

SaveRateState(w) ==
  /\ visit[w].stage = "closing"
  /\ Fenced(w, visit[w].gen, now)
  /\ Goes(w, "releasing")
  /\ UNCHANGED <<rowVars, now, crashes, selection, purge>>

\* FenceLost in a phase, in the heartbeat or while saving the rate state:
\* the visit is abandoned and releases nothing.
AbandonVisit(w) ==
  /\ \/ visit[w].stage = "writing" /\ ~Fenced(w, visit[w].gen, visit[w].begun)
     \/ visit[w].stage \in {"paced", "closing"} /\ ~Fenced(w, visit[w].gen, now)
  /\ Ends(w)
  /\ UNCHANGED <<rowVars, now, crashes, selection, purge>>

AfterRelease(w) ==
  IF visit[w].outcome \in {"dead", "deleted"} THEN Goes(w, "parking") ELSE Ends(w)

\* Throttling is not failure: only the other errors are charged.
FailuresAfter(outcome) ==
  CASE outcome = "clean" -> 0
    [] outcome = "throttled" -> failures
    [] OTHER -> Charged(failures)

Release(w) ==
  /\ visit[w].stage = "releasing"
  /\ Fenced(w, visit[w].gen, now)
  /\ LeaseCleared
  /\ nextRun' = "later"
  /\ failures' = FailuresAfter(visit[w].outcome)
  /\ AfterRelease(w)
  /\ UNCHANGED <<portalVars, gen, dataVars, now, crashes, selection, purge>>

ReleaseLost(w) ==
  /\ visit[w].stage = "releasing"
  /\ ~Fenced(w, visit[w].gen, now)
  /\ AfterRelease(w)
  /\ UNCHANGED <<rowVars, now, crashes, selection, purge>>

-----------------------------------------------------------------------------
(* The lifecycle writers of services/portals.py. *)

\* Mutant: mark_uninstalled without the cursor reset.
MarkedUninstalledKeepingCursor ==
  /\ status = "active" /\ gen < MaxGen
  /\ status' = "uninstalled" /\ tokenOk' = FALSE /\ purgePending' = TRUE
  /\ gen' = gen + 1
  /\ LeaseCleared
  /\ nextRun' = "due" /\ failures' = 0
  /\ UNCHANGED <<inst, calls, cursor>>

\* mark_uninstalled on an active portal.
MarkedUninstalled ==
  /\ status = "active" /\ gen < MaxGen
  /\ status' = "uninstalled" /\ tokenOk' = FALSE /\ purgePending' = TRUE
  /\ gen' = gen + 1
  /\ LeaseCleared
  /\ nextRun' = "due" /\ failures' = 0 /\ cursor' = 0
  /\ UNCHANGED <<inst, calls>>

Uninstall == MarkedUninstalled /\ UNCHANGED <<now, crashes, selection, taskVars>>

\* _apply_terminal: whatever the row says by now.
ParkDead(w) ==
  /\ visit[w].stage = "parking" /\ visit[w].outcome = "dead"
  /\ tokenOk' = FALSE
  /\ nextRun' = "never"
  /\ Ends(w)
  /\ UNCHANGED <<status, purgePending, inst, gen, leaseVars, failures, dataVars, now, crashes, selection, purge>>

ParkDeleted(w) ==
  /\ visit[w].stage = "parking" /\ visit[w].outcome = "deleted"
  /\ \/ MarkedUninstalled
     \/ /\ status = "uninstalled"
        /\ UNCHANGED <<rowVars>>
  /\ Ends(w)
  /\ UNCHANGED <<now, crashes, selection, purge>>

\* store_portal_credential: a reinstall resets the cursors, a re-authorization
\* keeps them; ok is FALSE when the build lacks the statistics method.
StoreCredential ==
  /\ gen < MaxGen
  /\ gen' = gen + 1
  /\ LeaseCleared
  /\ nextRun' = "due"
  /\ tokenOk' \in BOOLEAN
  /\ status' = "active"
  /\ IF status = "uninstalled"
     THEN inst' = inst + 1 /\ cursor' = 0 /\ failures' = 0
     ELSE UNCHANGED <<inst, cursor, failures>>
  /\ UNCHANGED <<purgePending, calls, now, crashes, selection, taskVars>>

\* set_crm_analytics(enabled=False) raises the same fence.
CrmSwitchedOff ==
  /\ status = "active" /\ gen < MaxGen
  /\ gen' = gen + 1
  /\ LeaseCleared
  /\ nextRun' = "due"
  /\ UNCHANGED <<portalVars, failures, dataVars, now, crashes, selection, taskVars>>

-----------------------------------------------------------------------------
(* The purge: tick part (b) and purge_portal_data, over the calls table.   *)
(* _purging allows one per process; nothing excludes another process, and  *)
(* purge_pending is not read again once the deletes have begun.            *)

PurgeGoes(w, stage) == purge' = [purge EXCEPT ![w] = stage]

PurgeStart(w) ==
  /\ w \in Purger /\ purge[w] = "idle" /\ purgePending
  /\ PurgeGoes(w, "deleting")
  /\ UNCHANGED <<rowVars, now, crashes, selection, visit>>

\* One transaction of _delete_verified.
PurgeChunk(w) ==
  /\ purge[w] = "deleting"
  /\ \E chunk \in SUBSET calls \ {{}} : calls' = calls \ chunk
  /\ UNCHANGED <<portalVars, gen, leaseVars, scheduleVars, cursor, now, crashes, selection, taskVars>>

\* Mutant: a single chunk per table, full or not.
PurgeDrainedEarly(w) ==
  /\ purge[w] = "deleting"
  /\ PurgeGoes(w, "drained")
  /\ UNCHANGED <<rowVars, now, crashes, selection, visit>>

\* A chunk that deletes nothing ends the loop.
PurgeDrained(w) ==
  /\ purge[w] = "deleting" /\ calls = {}
  /\ PurgeGoes(w, "drained")
  /\ UNCHANGED <<rowVars, now, crashes, selection, visit>>

\* The final counts, over every tenant table: the calls here, and the
\* employees and contexts that the /app/ opens of a returned tenant write.
PurgeCounted(w) ==
  /\ purge[w] = "drained"
  /\ \/ calls = {} /\ PurgeGoes(w, "verified")
     \/ (calls # {} \/ status = "active") /\ PurgeGoes(w, "remaining")
  /\ UNCHANGED <<rowVars, now, crashes, selection, visit>>

\* Rows of a tenant that is back by the time its status is read do not count
\* against the purge.
PurgeExcused(w) ==
  /\ purge[w] = "remaining" /\ status = "active"
  /\ PurgeGoes(w, "verified")
  /\ UNCHANGED <<rowVars, now, crashes, selection, visit>>

\* _finish: the flag is cleared whatever happened since the count.
PurgeFinish(w) ==
  /\ purge[w] = "verified"
  /\ purgePending' = FALSE
  /\ PurgeGoes(w, "idle")
  /\ UNCHANGED <<status, tokenOk, inst, gen, leaseVars, scheduleVars, dataVars,
                 now, crashes, selection, visit>>

\* The chunk limit, a count that is not zero, or an exception: purge_pending
\* stays and a later tick starts again.
PurgeIncomplete(w) ==
  /\ \/ purge[w] = "deleting"
     \/ purge[w] = "remaining" /\ status # "active"
  /\ PurgeGoes(w, "idle")
  /\ UNCHANGED <<rowVars, now, crashes, selection, visit>>

\* The process dies with its tasks; the lease and run_started_at stay in the
\* row.
Crash(w) ==
  /\ crashes < MaxCrash
  /\ crashes' = crashes + 1
  /\ visit[w].stage # "idle" \/ purge[w] # "idle" \/ selection[w].on
  /\ Ends(w)
  /\ PurgeGoes(w, "idle")
  /\ selection' = [selection EXCEPT ![w] = NoSelection]
  /\ UNCHANGED <<rowVars, now>>

-----------------------------------------------------------------------------
Lifecycle == Uninstall \/ StoreCredential \/ CrmSwitchedOff

Leasing(w) == Select(w) \/ Dispatch(w) \/ SelectionGone(w)

Opening(w) == ReadPortal(w) \/ AbandonDispatch(w) \/ ClaimRun(w) \/ ClaimLost(w)

Working(w) == Request(w) \/ TokenExpired(w) \/ BeginWrite(w) \/ CommitWrite(w) \/ Heartbeat(w)
              \/ FilterViolated(w) \/ PhasesOver(w) \/ AbandonVisit(w)

Closing(w) == SaveRateState(w) \/ Release(w) \/ ReleaseLost(w) \/ ParkDead(w)
              \/ ParkDeleted(w)

Purging(w) == PurgeStart(w) \/ PurgeChunk(w) \/ PurgeDrained(w) \/ PurgeCounted(w)
              \/ PurgeExcused(w) \/ PurgeFinish(w) \/ PurgeIncomplete(w)

Next ==
  \/ Tick \/ NextRunComes \/ Lifecycle
  \/ \E w \in Worker : Leasing(w) \/ Opening(w) \/ Working(w) \/ Closing(w)
                       \/ Purging(w) \/ Crash(w)

Spec == Init /\ [][Next]_vars

-----------------------------------------------------------------------------
(* Properties *)

TypeOK ==
  /\ status \in {"active", "uninstalled"}
  /\ tokenOk \in BOOLEAN /\ purgePending \in BOOLEAN
  /\ gen \in Nat /\ inst \in Nat
  /\ owner \in Worker \cup {NoOwner} /\ expires \in Nat /\ runStarted \in BOOLEAN
  /\ nextRun \in {"due", "later", "never"}
  /\ failures \in 0..FailuresBeforePause
  /\ cursor \in 0..MaxCall
  /\ calls \subseteq [id : 1..MaxCall, inst : Nat]
  /\ now \in Nat /\ crashes \in Nat
  /\ visit \in [Worker -> Visits]
  /\ purge \in [Worker -> PurgeStages]
  /\ selection \in [Worker -> Selections]

\* lease.py 173: sync never runs while a purge is owed, and never for an
\* uninstalled portal.  A lease decided on a snapshot may still go to such a
\* portal; no run is ever claimed under one, whatever order selection,
\* uninstall, reinstall, lease expiry and purge come in.
RunExcludesPurge == runStarted => status = "active" /\ ~purgePending

\* lease.py 10-13: a run that read calls before an uninstall never puts them
\* back after the purge; once no purge is owed, every row belongs to the
\* installation on record.
RowsOfThisInstallation ==
  ~purgePending => \A r \in calls : r.inst = inst

\* upsert.py and lease.py 117-120: the cursor and the rows it stands for
\* commit together, so every call up to high_id is in the table - across
\* expiries, takeovers, crashes, uninstalls and purges.
CursorCovered ==
  \A i \in 1..cursor : Row(i, inst) \in calls

\* definitions.py 325-328: the cursors are read once per visit because nobody
\* else writes them while the lease is ours; what a commit overwrites is what
\* this visit itself read or wrote last.
NobodyElseWrites ==
  [][\A w \in Worker : CommitWrite(w) => cursor = visit[w].stored]_vars

Store == INSTANCE TenantStore WITH MaxCall <- MaxCall, status <- status,
           purgePending <- purgePending, inst <- inst, calls <- calls, cursor <- cursor
\* Every behaviour of the leases and fences is one of the abstract store.
ImplementsStore == Store!StoreSpec

-----------------------------------------------------------------------------
(* Said of the code and not kept by it (README, "Divergences"); no run of *)
(* the project checks what follows.                                       *)

\* api/portal.py 521-523, portals.py 535-538: storing a credential ends the
\* block, and no late wipe undoes a reinstall: the terminal status a visit
\* applies is about the generation the visit ran for.
TerminalIsCurrent ==
  [][\A w \in Worker :
       FilterViolated(w) \/ ParkDead(w) \/ (ParkDeleted(w) /\ status = "active")
         => visit[w].gen = gen]_vars

\* definitions.py 2148-2153: only a portal that can be dispatched is leased.
LeasedIsDispatched ==
  \A w \in Worker :
    owner = w /\ expires > now /\ Syncable /\ crashes = 0 => visit[w].stage # "idle"
=============================================================================
