----------------------------- MODULE LateUpdates -----------------------------
(***************************************************************************)
(* How a stored call follows the portal afterwards: sync/rescan.py, the    *)
(* ageing of its bound in sync/incremental.py, the three phases of         *)
(* jobs/definitions.py that run it, and POST /calls/{id}/refresh.          *)
(*                                                                         *)
(* Bitrix24 keeps no modified date.  A call is stored as it looked when it *)
(* ended ("bare") and its recording is attached later; the window rescan,  *)
(* the recheck budget and the viewer's request are what notices.  A read   *)
(* and the commit of what it returned are two steps, and the portal and    *)
(* the viewers go on between them.                                         *)
(*                                                                         *)
(* One portal and one visit at a time (SyncLease); how new calls come in   *)
(* is CallSync's and is one step here.  429, 503 and terminal errors end a *)
(* visit like Abandon.                                                     *)
(***************************************************************************)
EXTENDS Integers, FiniteSets, FiniteSetsExt

CONSTANTS
  PageSize,      \* PAGE_SIZE
  Limit,         \* clamp_pages(batch_pages): commands of a batch
  MaxBatches,    \* MAX_RESCAN_BATCHES
  MaxRechecks,   \* RECHECK_MAX_COUNT
  Refused,       \* calls whose row the parser refuses
  FirstStored,   \* calls imported before this history begins
  MaxId,         \* bound: calls the portal ever has
  MaxEvents,     \* bound: recordings attached, calls deleted, requests of viewers
  MaxFaults      \* bound: failed commands, expired tokens, soft limits, aborts

ASSUME LateAssumption ==
  /\ {PageSize, Limit, MaxBatches, FirstStored} \subseteq Nat \ {0}
  /\ {MaxRechecks, MaxId, MaxEvents, MaxFaults} \subseteq Nat
  /\ FirstStored <= MaxId /\ Refused \subseteq 2..MaxId

VARIABLES
  portal,      \* the portal's copy of each call
  gone,        \* calls deleted there
  row,         \* calls: copy, refresh_requested, record_recheck_count
  age,         \* of each row: within the window, past it, past 30 days
  high, bound, \* portal_sync.high_id, rescan_from_id
  rescanDue, recheckDue,   \* last_rescan_at, last_recheck_at
  resume,      \* _RESUME_FROM of the worker process (0: none)
  visit,       \* the visit in progress
  events, faults,
  swept, drift \* what the properties remember

dueVars == <<rescanDue, recheckDue>>
worldVars == <<portal, gone, age, events>>
seenVars == <<swept, drift>>
vars == <<portal, gone, row, age, high, bound, dueVars, resume, visit, events, faults, seenVars>>

Ids == 1..MaxId
Copies == {"none", "bare", "recorded"}
Stages == {"idle", "refresh_read", "refresh_commit", "incremental", "rescan",
           "rescan_read", "rescan_commit", "recheck", "recheck_read",
           "recheck_commit"}

\* hand: the rows of the last answer; split: those of its prefix are committed and
\* those behind the failed command are not; ids: those asked for; the rest is
\* run_id_window_rescan between two batches.
NoVisit == [stage |-> "idle", retried |-> FALSE, ids |-> {}, hand |-> {}, copies |-> [i \in Ids |-> "none"],
            from |-> 0, offset |-> 0, used |-> 0, reached |-> 0, prefix |-> {},
            failed |-> FALSE, next |-> FALSE, split |-> FALSE]

Unseen == [copy |-> "none", flag |-> FALSE, checked |-> 0]

Present == {i \in Ids : portal[i] # "none"} \ gone

\* ORDER BY ... DESC LIMIT n: ids and call_start_date order calls alike.
NewestOf(S, n) == {i \in S : Cardinality({j \in S : j > i}) < n}

Init ==
  /\ portal = [i \in Ids |-> IF i <= FirstStored THEN "bare" ELSE "none"]
  /\ gone = {}
  /\ row = [i \in Ids |-> IF i \in 1..FirstStored \ Refused
                          THEN [Unseen EXCEPT !.copy = "bare"] ELSE Unseen]
  /\ age = [i \in Ids |-> 0]
  /\ high = FirstStored /\ bound = 1
  /\ rescanDue = TRUE /\ recheckDue = TRUE
  /\ resume = 0 /\ visit = NoVisit
  /\ events = 0 /\ faults = 0
  /\ swept = {} /\ drift = 0

-----------------------------------------------------------------------------
(* The portal, its viewers and the clock *)

Event == events < MaxEvents /\ events' = events + 1

NewCall ==
  /\ \E i \in Ids : /\ portal[i] = "none" /\ \A j \in Ids : j < i => portal[j] # "none"
                    /\ portal' = [portal EXCEPT ![i] = "bare"]
  /\ UNCHANGED <<gone, row, age, high, bound, dueVars, resume, visit, events, faults, seenVars>>

\* The file finishes uploading.
RecordingAttached(i) ==
  /\ i \in Present /\ portal[i] = "bare" /\ Event
  /\ portal' = [portal EXCEPT ![i] = "recorded"]
  /\ UNCHANGED <<gone, row, age, high, bound, dueVars, resume, visit, faults, seenVars>>

\* Between the first read of a pass over the window and its last commit.
Sweeping == visit.stage \in {"rescan_read", "rescan_commit"}

CallDeleted(i) ==
  /\ i \in Present /\ Event
  /\ gone' = gone \cup {i}
  /\ drift' = IF resume = 0 /\ ~Sweeping THEN 0 ELSE drift + 1
  /\ UNCHANGED <<portal, row, age, high, bound, dueVars, resume, visit, faults, swept>>

\* request_refresh, within its rate limit: a keyed UPDATE of a row that exists.
RequestRefresh(i) ==
  /\ row[i].copy # "none" /\ ~row[i].flag /\ Event
  /\ row' = [row EXCEPT ![i].flag = TRUE]
  /\ UNCHANGED <<portal, gone, age, high, bound, dueVars, resume, visit, faults, seenVars>>

At(stage) == visit.stage = stage

\* RESCAN_WINDOW_HOURS, then RECHECK_MAX_AGE_DAYS, go by; the older first.  A
\* visit lasts minutes: days and hours pass between two of them.
Ages(i) ==
  /\ At("idle") /\ row[i].copy # "none" /\ age[i] < 2
  /\ \A j \in Ids : j < i /\ row[j].copy # "none" => age[j] > age[i]
  /\ age' = [age EXCEPT ![i] = @ + 1]
  /\ UNCHANGED <<portal, gone, row, high, bound, dueVars, resume, visit, events, faults, seenVars>>

HourPasses ==
  /\ At("idle") /\ ~rescanDue /\ rescanDue' = TRUE
  /\ UNCHANGED <<worldVars, row, high, bound, recheckDue, resume, visit, faults, seenVars>>

DayPasses ==
  /\ At("idle") /\ ~recheckDue /\ recheckDue' = TRUE
  /\ UNCHANGED <<worldVars, row, high, bound, rescanDue, resume, visit, faults, seenVars>>

-----------------------------------------------------------------------------
(* The visit *)

\* A phase begins with a fresh retry of with_portal_token.
Enter(stage) == [NoVisit EXCEPT !.stage = stage]

Fault(n) == faults + n <= MaxFaults /\ faults' = faults + n

\* should_continue: a soft limit after the viewer's batch is counted; after a
\* batch of the window it may come on every pass.
Stop(stopped) == Fault(IF stopped THEN 1 ELSE 0)

UpsertedKeepingFlag(rows, copies) ==
  [i \in Ids |-> IF i \in rows \ Refused THEN [row[i] EXCEPT !.copy = copies[i]] ELSE row[i]]

\* upsert_calls: every column of the parser's row, and the request is served.
Upserted(rows, copies) ==
  [i \in Ids |-> IF i \in rows \ Refused
                 THEN [row[i] EXCEPT !.copy = copies[i], !.flag = FALSE] ELSE row[i]]

\* The rows of an answer, as the portal has them now.
Copied(rows) == [i \in Ids |-> IF i \in rows THEN portal[i] ELSE "none"]

\* _read_by_ids: any command may fail, and its ids are not in the answer.
ReadByIds(lost, stage) ==
  /\ lost \subseteq visit.ids
  /\ Fault(IF lost = {} THEN 0 ELSE 1)
  /\ visit' = [visit EXCEPT !.stage = stage, !.hand = (visit.ids \ lost) \cap Present,
                            !.copies = Copied((visit.ids \ lost) \cap Present)]

Commit(stage, stopped) ==
  /\ row' = Upserted(visit.hand, visit.copies)
  /\ Stop(stopped)
  /\ visit' = IF stopped THEN NoVisit ELSE Enter(stage)

\* run_refresh_requested: newest first, as many as one batch takes.
SelectFlagged ==
  /\ At("idle")
  /\ \E ids \in {NewestOf({i \in Ids : row[i].flag}, Limit * PageSize)} :
       visit' = IF ids = {} THEN Enter("incremental")
                ELSE [visit EXCEPT !.stage = "refresh_read", !.ids = ids]
  /\ UNCHANGED <<worldVars, row, high, bound, dueVars, resume, faults, seenVars>>

ReadFlagged(lost) ==
  /\ At("refresh_read") /\ ReadByIds(lost, "refresh_commit")
  /\ UNCHANGED <<worldVars, row, high, bound, dueVars, resume, seenVars>>

CommitFlagged(stopped) ==
  /\ At("refresh_commit") /\ Commit("incremental", stopped)
  /\ UNCHANGED <<worldVars, high, bound, dueVars, resume, seenVars>>

\* _age_rescan_bound: the greatest id whose row was already there a window ago.
AgedBound ==
  LET aged == {i \in Ids : row[i].copy # "none" /\ age[i] > 0 /\ i > bound}
  IN  IF aged = {} THEN bound ELSE Max(aged)

\* run_incremental as a whole.
Incremental ==
  /\ At("incremental")
  /\ \E new \in {{i \in Present : i > high}} :
       /\ row' = Upserted(new, portal)
       /\ high' = IF new = {} THEN high ELSE Max(new)
  /\ bound' = AgedBound
  /\ visit' = Enter("rescan")
  /\ UNCHANGED <<worldVars, dueVars, resume, faults, seenVars>>

\* run_id_window_rescan.  A hint from another window is dropped.
ResumeValid == bound < resume /\ resume <= high

StartAtFloor == bound

Start == IF ResumeValid THEN resume ELSE bound

EnterRescan ==
  /\ At("rescan")
  /\ IF ~rescanDue \/ bound >= high
     THEN visit' = Enter("recheck") /\ UNCHANGED <<resume, swept, drift>>
     ELSE /\ visit' = [visit EXCEPT !.stage = "rescan_read", !.from = Start]
          /\ resume' = IF ResumeValid THEN resume ELSE 0
          /\ IF ResumeValid THEN UNCHANGED <<swept, drift>> ELSE swept' = {} /\ drift' = 0
  /\ UNCHANGED <<worldVars, row, high, bound, dueVars, faults>>

\* The page of command c of the batch: FILTER {">=ID": from}, ID ascending.
Place(i) == Cardinality({j \in Present : visit.from <= j /\ j < i})

PageOf(c) ==
  LET first == visit.offset + (c - 1) * PageSize
  IN  {i \in Present : visit.from <= i /\ first <= Place(i) /\ Place(i) < first + PageSize}

\* fetch_pages: the prefix ends at the first command that failed; rows behind
\* it are stored as well.
ReadWindow(failed) ==
  /\ At("rescan_read")
  /\ Fault(IF failed = {} THEN 0 ELSE 1)
  /\ LET good == IF failed = {} THEN Limit ELSE Min(failed) - 1
         prefix == UNION {PageOf(c) : c \in 1..good}
         read == UNION {PageOf(c) : c \in (1..Limit) \ failed}
         left == {i \in Present : Place(i) >= visit.offset + good * PageSize}
     IN  visit' = [visit EXCEPT !.stage = "rescan_commit",
                     !.hand = read, !.copies = Copied(read), !.prefix = prefix, !.failed = failed # {},
                     !.next = good > 0 /\ left # {}]
  /\ UNCHANGED <<worldVars, row, high, bound, dueVars, resume, seenVars>>

\* prefix_bx_ids: refused rows too, when the whole batch was error-free.
CrossedAll == visit.hand

Crossed == IF visit.failed THEN visit.prefix \ Refused ELSE visit.prefix

Reached == Max(Crossed \cup {visit.reached})

\* extra_rows: a transaction of their own, after that of the prefix.
Extra == visit.hand \ visit.prefix

CommitPrefix ==
  /\ At("rescan_commit") /\ ~visit.split /\ Extra # {}
  /\ row' = Upserted(visit.prefix, visit.copies)
  /\ visit' = [visit EXCEPT !.split = TRUE]
  /\ UNCHANGED <<worldVars, high, bound, dueVars, resume, faults, seenVars>>

\* The batch's last rows, then either the next batch or the end of the pass.
CommitWindow(stopped) ==
  /\ At("rescan_commit") /\ (visit.split \/ Extra = {})
  /\ row' = Upserted(IF visit.split THEN Extra ELSE visit.hand, visit.copies)
  /\ stopped => ~visit.failed /\ visit.next
  /\ LET completed == ~visit.failed /\ ~visit.next
         over == visit.failed \/ completed \/ stopped \/ visit.used + 1 = MaxBatches
     IN  IF over
         THEN /\ resume' = IF completed \/ Reached = 0 THEN 0 ELSE Reached + 1
              /\ rescanDue' = FALSE
              /\ swept' = IF resume' = 0 THEN {} ELSE swept \cup visit.hand
              /\ drift' = IF resume' = 0 THEN 0 ELSE drift
              /\ visit' = IF stopped THEN NoVisit ELSE Enter("recheck")
         ELSE /\ visit' = [visit EXCEPT !.stage = "rescan_read", !.used = @ + 1,
                             !.reached = Reached, !.offset = @ + Limit * PageSize]
              /\ swept' = swept \cup visit.hand
              /\ UNCHANGED <<resume, rescanDue, drift>>
  /\ UNCHANGED <<worldVars, high, bound, recheckDue, faults>>

\* run_record_recheck: daily, what is past the window, still without a
\* recording and not asked for twice.
CandidateForEver(i) == row[i].copy = "bare" /\ age[i] = 1

Candidate(i) == row[i].copy = "bare" /\ age[i] = 1 /\ row[i].checked < MaxRechecks

NotDue ==
  /\ At("recheck") /\ ~recheckDue /\ ~visit.retried
  /\ visit' = NoVisit
  /\ UNCHANGED <<worldVars, row, high, bound, dueVars, resume, faults, seenVars>>

\* The budget is spent in the transaction that records the pass.
SpendRechecks ==
  /\ At("recheck") /\ (recheckDue \/ visit.retried)
  /\ \E ids \in {NewestOf({i \in Ids : Candidate(i)}, Limit * PageSize)} :
       /\ row' = [i \in Ids |-> IF i \in ids THEN [row[i] EXCEPT !.checked = @ + 1] ELSE row[i]]
       /\ visit' = IF ids = {} THEN NoVisit
                   ELSE [visit EXCEPT !.stage = "recheck_read", !.ids = ids]
  /\ recheckDue' = FALSE
  /\ UNCHANGED <<worldVars, high, bound, rescanDue, resume, faults, seenVars>>

ReadRechecked(lost) ==
  /\ At("recheck_read") /\ ReadByIds(lost, "recheck_commit")
  /\ UNCHANGED <<worldVars, row, high, bound, dueVars, resume, swept, drift>>

CommitRechecked ==
  /\ At("recheck_commit") /\ Commit("idle", FALSE)
  /\ UNCHANGED <<worldVars, high, bound, dueVars, resume, seenVars>>

\* raise_if_token_expired: nothing of the answer is used; with_portal_token
\* refreshes and runs the phase's function once more, from its first query on.
Again(stage) ==
  CASE stage = "refresh_read" -> "idle"
    [] stage = "rescan_read" -> "rescan"
    [] OTHER -> "recheck"

TokenExpired ==
  /\ visit.stage \in {"refresh_read", "rescan_read", "recheck_read"} /\ ~visit.retried
  /\ Fault(1)
  /\ visit' = [Enter(Again(visit.stage)) EXCEPT !.retried = TRUE]
  /\ UNCHANGED <<worldVars, row, high, bound, dueVars, resume, swept, drift>>

\* The visit ends where it is, its process perhaps with it.
Abandon(restart) ==
  /\ ~At("idle") /\ Fault(1)
  /\ visit' = NoVisit
  /\ resume' = IF restart THEN 0 ELSE resume
  /\ swept' = IF resume' = 0 THEN {} ELSE swept
  /\ drift' = IF resume' = 0 THEN 0 ELSE drift
  /\ UNCHANGED <<worldVars, row, high, bound, dueVars>>

VisitStep ==
  \/ SelectFlagged \/ Incremental \/ EnterRescan \/ NotDue \/ SpendRechecks
  \/ \E lost \in SUBSET visit.ids : ReadFlagged(lost) \/ ReadRechecked(lost)
  \/ \E stopped \in BOOLEAN : CommitFlagged(stopped) \/ CommitWindow(stopped)
  \/ \E failed \in SUBSET (1..Limit) : ReadWindow(failed)
  \/ CommitPrefix \/ CommitRechecked \/ TokenExpired

World ==
  \/ NewCall \/ HourPasses \/ DayPasses
  \/ \E i \in Ids : RecordingAttached(i) \/ CallDeleted(i) \/ RequestRefresh(i) \/ Ages(i)

Next == VisitStep \/ World \/ \E restart \in BOOLEAN : Abandon(restart)

Spec == Init /\ [][Next]_vars

\* The worker goes on with its visits and time passes between them.
FairSpec == Spec /\ WF_vars(VisitStep) /\ SF_vars(HourPasses)

-----------------------------------------------------------------------------
(* Properties *)

\* Types; and the budget of rescan.py:19-21: no call is asked for more often than
\* RECHECK_MAX_COUNT, whatever fails between the budget and the read.
TypeOK ==
  /\ portal \in [Ids -> Copies] /\ gone \subseteq Ids
  /\ row \in [Ids -> [copy : Copies, flag : BOOLEAN, checked : 0..MaxRechecks]]
  /\ age \in [Ids -> 0..2] /\ high \in Ids /\ bound \in Ids /\ resume \in 0..(MaxId + 1)
  /\ visit.stage \in Stages

\* _RESUME_FROM claims only what was read: everything between the floor and the
\* resume point was re-read since the sweep left the floor, but for the rows a
\* deletion meanwhile shifted between two pages (one each).
ResumeCovered ==
  resume # 0 => Cardinality({i \in Present : bound <= i /\ i < resume} \ swept) <= drift

\* A recording attached to a call of the window is found: a window larger than
\* one pass is walked to its end, not read from the floor again every hour.
LateIsSeen ==
  \A i \in Ids \ Refused :
    (row[i].copy = "bare" /\ portal[i] = "recorded")
      ~> (row[i].copy = "recorded" \/ i \in gone \/ i < bound \/ bound >= high)

\* A viewer's request is served, unless the call no longer exists.
RequestIsServed == \A i \in Ids : row[i].flag ~> (~row[i].flag \/ i \in gone)

-----------------------------------------------------------------------------
(* Said of the code and not kept by it (README, "Divergences"); no run of *)
(* the project checks what follows.                                       *)

\* upsert.py:203-205: the request of a row that is written "has, by definition,
\* just been served".  Was the copy that cleared it read after the request?
ServedByTheAnswer ==
  [][\A i \in Ids : row[i].flag /\ ~row'[i].flag => row'[i].copy = portal[i]]_vars
=============================================================================
