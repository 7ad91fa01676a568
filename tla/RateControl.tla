----------------------------- MODULE RateControl -----------------------------
(***************************************************************************)
(* How hard one portal is worked: src/api/app/sync/throttle.py,            *)
(* sync/budgets.py, and how a visit of jobs/definitions.py uses them       *)
(* (_observe, _absorb, _block_method, _previous_ladder_step, _close_visit).*)
(*                                                                         *)
(* A visit asks for one method after the other, the call statistics first. *)
(* Every answer may carry the method's operating time, which stops that    *)
(* method above the soft limit; 429, 503, transport errors and failed      *)
(* pages end or mark the visit, and the close of the visit turns them into *)
(* a delay, a batch size and an operating limit.  The portal, the other    *)
(* applications of the account and a crash choose what happens.            *)
(*                                                                         *)
(* Time is relative: due, reset and blocked are seconds from now, 0 once   *)
(* they have passed; a visit takes no time.                                *)
(***************************************************************************)
EXTENDS Integers, FiniteSets

CONSTANTS
  Method,              \* the methods beside voximplant.statistic.get
  Stat,                \* STATISTIC_METHOD
  DefaultPages, MinPages, CleanToRecover,
  BaseBackoff, MaxBackoff, Grace, Interval,
  FailureBase, FailureMax, FailuresBeforePause, Pause,
  DefaultLimit, LimitFloor,
  LeaseSeconds,
  Readings, Resets, RetryAfters,   \* what answers may say
  MaxTrouble                       \* bound: answers and events other than good ones

ASSUME RateAssumption ==
  /\ Stat \notin Method
  /\ (Method \cup {Stat}) \cap {"none", "choosing", "closing"} = {}
  /\ {DefaultPages, MinPages, CleanToRecover, BaseBackoff, MaxBackoff, Grace, Interval,
      FailureBase, FailureMax, FailuresBeforePause, Pause, DefaultLimit, LimitFloor,
      LeaseSeconds} \subseteq Nat \ {0}
  /\ MinPages <= DefaultPages /\ LimitFloor <= DefaultLimit /\ BaseBackoff <= MaxBackoff
  /\ Readings \subseteq Nat /\ Resets \subseteq Nat /\ RetryAfters \subseteq Nat \ {0}
  /\ MaxTrouble \in 0..30

\* Arithmetic, for the proofs: nothing here is a parameter.
ASSUME PowerAssumption ==
  /\ \A n \in 0..30 : 2 ^ n \in Nat \ {0}
  /\ 2 ^ 0 = 1 /\ \A n \in 0..29 : 2 ^ (n + 1) = 2 * 2 ^ n

VARIABLES
  row,       \* portal_sync, and portals.capabilities.operating_limit_s
  budget,    \* sync_method_budgets, one row for each other method
  visit,     \* the visit in progress
  trouble,   \* how much has gone wrong so far
  seen       \* ghost: what the properties have to know

vars == <<row, budget, visit, trouble, seen>>

All == Method \cup {Stat}
NoDelay == 0
Least(a, b) == IF a < b THEN a ELSE b
Greatest(a, b) == IF a > b THEN a ELSE b
Elapsed(t, d) == Greatest(0, t - d)
Times(base, n, top) == Least(top, base * 2 ^ Least(n, 32))

-----------------------------------------------------------------------------
(* throttle.py: what one observation means. *)

\* 5 * op > 4 * limit: operating_soft_ratio is 0.8.
AboveSoft(op, limit) == 5 * op > 4 * limit

\* 429 with at least 80 % of the limit on our own account.
Ours(op, limit) == 5 * op >= 4 * limit

Learned(op, limit) ==
  IF Ours(op, limit) THEN Least(limit, Greatest(LimitFloor, Least(op, limit))) ELSE limit

ResumeIn(reset) == reset + Grace

\* Mutant: without the lower bound.
HalvedToNothing(pages) == pages \div 2

Halved(pages) == Greatest(MinPages, pages \div 2)

\* 429: never shorter than the reset, longer when Retry-After says so.
BlockedFor(reset, retry) == Greatest(ResumeIn(reset), retry)

\* 503: Retry-After (0: none) or the rung of the ladder.  A Retry-After of
\* zero seconds, or of a date gone by, replaces the rung as any other does and
\* leaves the floor: it behaves like one of 1, which is what RetryAfters holds.
BackOff(retry, attempt) ==
  Greatest(BaseBackoff, IF retry > 0 THEN retry ELSE Times(BaseBackoff, attempt, MaxBackoff))

FailureDelay(failures) ==
  IF failures >= FailuresBeforePause THEN Pause
  ELSE Times(FailureBase, failures - 1, FailureMax)

Recovers(clean) == clean + 1 >= CleanToRecover
CleanAfter(clean) == IF Recovers(clean) THEN 0 ELSE clean + 1

-----------------------------------------------------------------------------
FreshRow == [due |-> 0, code |-> "none", park |-> 0, pages |-> DefaultPages, clean |-> 0,
             failures |-> 0, ours |-> 0, reset |-> 0, limit |-> DefaultLimit]

FreshBudget == [ours |-> 0, reset |-> 0, blocked |-> 0, clean |-> 0, limit |-> DefaultLimit]

\* stopped, used: methods of this visit; parked is the delay the soft limit of
\* the statistics decided (0: none); soft is the first failed page; bud and
\* ours, reset are the visit's copies.
NoVisit == [method |-> "none", left |-> {}, stopped |-> {}, used |-> {}, touched |-> {},
            parked |-> NoDelay, error |-> "none", retry |-> 0, soft |-> FALSE,
            ours |-> 0, reset |-> 0, bud |-> [m \in Method |-> FreshBudget]]

\* streak: 503 visits in a row on the ladder alone (-1: mixed with anything
\* else); charged: failures since the last clean visit; held: seconds until
\* the portal serves the statistics again.
NothingSeen ==
  [streak |-> 0, charged |-> 0, held |-> 0, limited |-> FALSE, evidence |-> FALSE]

Init ==
  /\ row = FreshRow
  /\ budget = [m \in Method |-> FreshBudget]
  /\ visit = NoVisit
  /\ trouble = 0
  /\ seen = NothingSeen

Idle == visit.method = "none"
Asking(m) == visit.method = m
Troubled == trouble < MaxTrouble /\ trouble' = trouble + 1

After(d) ==
  /\ row' = [row EXCEPT !.due = Elapsed(@, d), !.reset = Elapsed(@, d)]
  /\ budget' = [m \in Method |-> [budget[m] EXCEPT !.reset = Elapsed(@, d),
                                                   !.blocked = Elapsed(@, d)]]

Wait ==
  /\ Idle /\ row.due > 0
  /\ After(row.due)
  /\ seen' = [seen EXCEPT !.held = Elapsed(@, row.due)]
  /\ UNCHANGED <<visit, trouble>>

OpenVisit ==
  /\ Idle /\ row.due = 0
  /\ visit' = [NoVisit EXCEPT !.method = "choosing", !.left = All, !.ours = row.ours,
                              !.reset = row.reset, !.bud = budget]
  /\ UNCHANGED <<row, budget, trouble, seen>>

-----------------------------------------------------------------------------
(* The phase loop of sync_portal. *)

Blocked(m) == m \in visit.stopped \/ (m \in Method /\ visit.bud[m].blocked > 0)

\* The statistics phases come first; a phase may find nothing due.
NextPhase(m) ==
  /\ Asking("choosing") /\ m \in visit.left
  /\ m # Stat => Stat \notin visit.left
  /\ visit' = [visit EXCEPT !.left = @ \ {m},
                            !.method = IF Blocked(m) THEN "choosing" ELSE m]
  /\ UNCHANGED <<row, budget, trouble, seen>>

PhaseOver(m) ==
  /\ Asking(m)
  /\ visit' = [visit EXCEPT !.method = "choosing"]
  /\ UNCHANGED <<row, budget, trouble, seen>>

\* _observe for the statistics: the reading is kept, and above the soft limit
\* the portal is parked until the baskets expire.
ObservedStat(op, reset) ==
  LET until == IF reset > 0 THEN reset ELSE visit.reset IN
  [visit EXCEPT !.ours = op, !.reset = until, !.used = @ \cup {Stat},
     !.stopped = IF AboveSoft(op, row.limit) THEN @ \cup {Stat} ELSE @,
     !.parked = IF AboveSoft(op, row.limit) THEN ResumeIn(until) ELSE @]

\* budgets.observe: the same for another method, on its own row.
ObservedOther(m, op, reset) ==
  LET b == visit.bud[m]
      until == IF reset > 0 THEN reset ELSE b.reset
      stop == AboveSoft(op, b.limit) IN
  [visit EXCEPT !.used = @ \cup {m}, !.touched = @ \cup {m},
     !.stopped = IF stop THEN @ \cup {m} ELSE @,
     !.bud[m] = [b EXCEPT !.ours = op, !.reset = until,
                          !.blocked = IF stop THEN ResumeIn(until) ELSE b.blocked,
                          !.clean = IF stop THEN 0 ELSE b.clean]]

Observed(m, op, reset) ==
  IF m = Stat THEN ObservedStat(op, reset) ELSE ObservedOther(m, op, reset)

LimitOf(m) == IF m = Stat THEN row.limit ELSE visit.bud[m].limit

\* An answer below the soft limit; one without a measurement changes nothing.
Answer(m) ==
  /\ Asking(m)
  /\ \E op \in Readings, reset \in Resets :
       ~AboveSoft(op, LimitOf(m)) /\ visit' = Observed(m, op, reset)
  /\ UNCHANGED <<row, budget, trouble, seen>>

\* The portal will not serve the statistics before the reset it announced.
Held(m, reset) ==
  IF m = Stat THEN [seen EXCEPT !.held = Greatest(@, reset), !.limited = TRUE] ELSE seen

\* The pacer answers False, the phase ends, the method is done for this visit.
SoftLimit(m) ==
  /\ Asking(m) /\ Troubled
  /\ \E op \in Readings, reset \in Resets :
       /\ AboveSoft(op, LimitOf(m))
       /\ visit' = [Observed(m, op, reset) EXCEPT !.method = "choosing"]
       /\ seen' = Held(m, reset)
  /\ UNCHANGED <<row, budget>>

Closes(v, error, retry) ==
  visit' = [v EXCEPT !.method = "closing", !.left = {}, !.error = error, !.retry = retry]

\* Mutant: a 429 on any method ends the visit and parks the portal.
BlockPortal(v, m, reset, retry) == Closes(v, "429", retry)

\* _block_method: m waits, and only m.
MethodBlocks(v, m, reset, retry) ==
  LET b == v.bud[m]
      until == IF reset > 0 THEN reset ELSE b.reset IN
  visit' = [v EXCEPT !.method = "choosing", !.touched = @ \cup {m}, !.stopped = @ \cup {m},
              !.bud[m] = [b EXCEPT !.reset = until, !.blocked = BlockedFor(until, retry),
                                   !.clean = 0, !.limit = Learned(b.ours, b.limit)]]

\* 429 OPERATION_TIME_LIMIT, with its time block - which _observe has weighed
\* by then - or without one.  On the statistics it ends the visit.
TimeLimit(m) ==
  /\ Asking(m) /\ Troubled
  /\ \E retry \in RetryAfters \cup {0}, op \in Readings, measured \in BOOLEAN :
     \E reset \in IF measured THEN Resets ELSE {0} :
       /\ \E v \in {IF measured THEN Observed(m, op, reset) ELSE visit} :
            IF m = Stat THEN Closes(v, "429", retry) ELSE MethodBlocks(v, m, reset, retry)
       /\ seen' = [Held(m, reset) EXCEPT !.evidence =
                     @ \/ (m = Stat /\ measured /\ Ours(op, row.limit))]
  /\ UNCHANGED <<row, budget>>

\* 503 QUERY_LIMIT_EXCEEDED: the bucket is per source address, whatever the
\* method; it always ends the visit.
QueryLimit(m) ==
  /\ Asking(m) /\ Troubled
  /\ \E retry \in RetryAfters \cup {0} : Closes(visit, "503", retry)
  /\ UNCHANGED <<row, budget, seen>>

Transport(m) ==
  /\ Asking(m) /\ Troubled
  /\ Closes(visit, "transport", 0)
  /\ UNCHANGED <<row, budget, seen>>

\* One page failed: remembered for the failure counter, the visit goes on.
PageFails(m) ==
  /\ Asking(m) /\ ~visit.soft /\ Troubled
  /\ visit' = [visit EXCEPT !.soft = TRUE]
  /\ UNCHANGED <<row, budget, seen>>

PhasesOver ==
  /\ Asking("choosing") /\ visit.left = {}
  /\ Closes(visit, IF visit.soft THEN "page" ELSE "none", 0)
  /\ UNCHANGED <<row, budget, trouble, seen>>

-----------------------------------------------------------------------------
(* _close_visit *)

Throttling(error) == error \in {"429", "503"}
Charging(error) == error \in {"transport", "page"}

\* _previous_ladder_step: the rung whose delay is closest to the one the last
\* 503 left in the row; 1.5 times a rung is where the next one is closer.
RungOf(delay) ==
  CHOOSE s \in 0..8 :
    /\ \A t \in 0..(s - 1) : 3 * BaseBackoff * 2 ^ t < 2 * delay
    /\ s = 8 \/ 3 * BaseBackoff * 2 ^ s >= 2 * delay

\* Mutant: the rung itself, not the one above it.
SameRung == IF row.code = "503" THEN RungOf(row.park) ELSE 0

\* _backoff_attempt: one rung above the visit before, if that one ended so too.
Attempt == IF row.code = "503" THEN RungOf(row.park) + 1 ELSE 0

\* Mutant: the error decides, the soft limit only when there is none.
DelayOfError(v) ==
  CASE v.error = "429" -> BlockedFor(v.reset, v.retry)
    [] v.error = "503" -> BackOff(v.retry, Attempt)
    [] Charging(v.error) -> FailureDelay(row.failures + 1)
    [] OTHER -> IF v.parked # NoDelay THEN v.parked ELSE Interval

\* The delay of a visit that ends with v.error: the soft limit has decided
\* already, whatever came after it.
Delay(v) ==
  CASE v.parked # NoDelay -> v.parked
    [] v.parked = NoDelay /\ v.error = "429" -> BlockedFor(v.reset, v.retry)
    [] v.parked = NoDelay /\ v.error = "503" -> BackOff(v.retry, Attempt)
    [] v.parked = NoDelay /\ Charging(v.error) -> FailureDelay(row.failures + 1)
    [] OTHER -> Interval

Slowed(v) == v.parked # NoDelay \/ Throttling(v.error)
Undisturbed(v) == v.parked = NoDelay /\ v.error = "none"

\* The rate state of the row after the visit.
PagesAfter(v) ==
  IF Slowed(v) THEN Halved(row.pages)
  ELSE IF Undisturbed(v) /\ Recovers(row.clean) THEN Greatest(row.pages, DefaultPages)
  ELSE row.pages

\* Mutant: quiet visits restore the batch size, and not the limit.
LimitStays(v) ==
  IF v.parked = NoDelay /\ v.error = "429" THEN Learned(v.ours, row.limit) ELSE row.limit

LimitAfter(v) ==
  IF v.parked = NoDelay /\ v.error = "429" THEN Learned(v.ours, row.limit)
  ELSE IF Undisturbed(v) /\ Recovers(row.clean) THEN Greatest(row.limit, DefaultLimit)
  ELSE row.limit

\* The budgets' part: a method that was used and not stopped counts a clean
\* visit towards its limit.
BudgetAfter(v, m) ==
  IF v.error = "none" /\ m \in v.used \ v.stopped
  THEN [v.bud[m] EXCEPT !.clean = CleanAfter(@),
                        !.limit = IF Recovers(v.bud[m].clean) THEN DefaultLimit ELSE @]
  ELSE v.bud[m]

\* Mutant: every error counts as a failure.
FailuresAlways(v) == IF v.error = "none" THEN 0 ELSE row.failures + 1

\* release_lease: throttling is not failure.
FailuresAfter(v) ==
  IF v.error = "none" THEN 0
  ELSE IF Throttling(v.error) THEN row.failures ELSE row.failures + 1

\* release_lease has the last word on next_run_at when the pause is reached.
DueAfter(v) ==
  IF Charging(v.error) /\ FailuresAfter(v) >= FailuresBeforePause THEN Pause ELSE Delay(v)

CountedStreak(v) ==
  IF v.error # "503" THEN 0
  ELSE IF v.parked # NoDelay \/ v.retry > 0 \/ seen.streak < 0 THEN -1
  ELSE seen.streak + 1

CloseVisit ==
  /\ Asking("closing")
  /\ row' = [due |-> DueAfter(visit), code |-> visit.error,
             park |-> IF visit.error = "none" THEN 0 ELSE DueAfter(visit),
             pages |-> PagesAfter(visit),
             clean |-> IF Undisturbed(visit) THEN CleanAfter(row.clean) ELSE 0,
             failures |-> FailuresAfter(visit),
             ours |-> visit.ours, reset |-> visit.reset, limit |-> LimitAfter(visit)]
  /\ budget' = [m \in Method |-> IF m \in visit.touched \cup visit.used
                                 THEN BudgetAfter(visit, m) ELSE budget[m]]
  /\ visit' = NoVisit
  /\ seen' = [seen EXCEPT !.streak = CountedStreak(visit), !.limited = FALSE, !.evidence = FALSE,
                !.charged = IF visit.error = "none" THEN 0
                            ELSE IF Charging(visit.error) THEN @ + 1 ELSE @]
  /\ UNCHANGED trouble

-----------------------------------------------------------------------------
(* What interrupts a visit. *)

\* store_portal_credential of an installed portal: due now, the fence raised;
\* the capabilities are probed again and only crm_mode is kept of the old ones.
CredentialStored ==
  /\ Troubled
  /\ \E limit \in {row.limit, DefaultLimit} :
       row' = [row EXCEPT !.due = 0, !.park = Elapsed(@, row.due), !.limit = limit]
  /\ visit' = NoVisit
  /\ seen' = [NothingSeen EXCEPT !.charged = seen.charged,
                                  !.streak = IF row.code = "503" THEN -1 ELSE 0]
  /\ UNCHANGED budget

\* A reinstall describes nothing of the installation before it.
Reinstalled ==
  /\ Troubled
  /\ row' = FreshRow
  /\ budget' = [m \in Method |-> FreshBudget]
  /\ visit' = NoVisit
  /\ seen' = NothingSeen

\* acquire_leases finds the lease of a run that was never released.
Crash ==
  /\ ~Idle /\ Troubled
  /\ row' = [row EXCEPT !.failures = @ + 1, !.code = "lease_expired", !.park = 0,
                        !.reset = Elapsed(@, LeaseSeconds)]
  /\ budget' = [m \in Method |-> [budget[m] EXCEPT !.reset = Elapsed(@, LeaseSeconds),
                                                   !.blocked = Elapsed(@, LeaseSeconds)]]
  /\ visit' = NoVisit
  /\ seen' = [NothingSeen EXCEPT !.charged = seen.charged + 1]

-----------------------------------------------------------------------------
Asked(m) == Answer(m) \/ SoftLimit(m) \/ TimeLimit(m) \/ QueryLimit(m) \/ Transport(m)
            \/ PageFails(m)

Next ==
  \/ Wait \/ OpenVisit \/ PhasesOver \/ CloseVisit
  \/ \E m \in All : NextPhase(m) \/ PhaseOver(m) \/ Asked(m)
  \/ CredentialStored \/ Reinstalled \/ Crash

Spec == Init /\ [][Next]_vars

\* The clock runs, due portals are visited, and each phase ends; that every
\* method is used again and again is what the phases' own intervals say.
FairSpec ==
  /\ Spec
  /\ WF_vars(Wait) /\ WF_vars(OpenVisit) /\ WF_vars(PhasesOver) /\ WF_vars(CloseVisit)
  /\ \A m \in All :
       WF_vars(NextPhase(m)) /\ WF_vars(PhaseOver(m)) /\ SF_vars(Answer(m))

-----------------------------------------------------------------------------
(* Properties *)

Limits == {DefaultLimit} \cup {Greatest(LimitFloor, op) : op \in Readings}

\* What the columns hold; the batch size and the operating limit stay within
\* the bounds of throttle.py 84-98.
TypeOK ==
  /\ row.due \in Nat /\ row.park \in Nat
  /\ row.code \in {"none", "429", "503", "transport", "page", "lease_expired"}
  /\ row.pages \in MinPages..DefaultPages /\ row.clean \in 0..(CleanToRecover - 1)
  /\ row.failures \in 0..MaxTrouble /\ row.limit \in Limits
  /\ \A m \in Method : /\ budget[m].limit \in Limits
                       /\ budget[m].clean \in 0..(CleanToRecover - 1)
  /\ visit.method \in All \cup {"none", "choosing", "closing"} /\ visit.left \subseteq All

\* definitions.py 1898-1933: the n-th visit in a row that meets a 503 waits the
\* n-th rung, though no counter of such visits is stored anywhere.
LadderClimbs ==
  seen.streak > 0 => row.park = Least(MaxBackoff, BaseBackoff * 2 ^ (seen.streak - 1))

\* throttle.py 559-566, lease.py 290-296: the six hours come after that many
\* failures since the last clean visit, and 429, 503 and soft limits are none.
PauseIsEarned ==
  [][visit.method = "closing" /\ row'.due = Pause => seen'.charged >= FailuresBeforePause]_vars

\* throttle.py 407-411, 468-476: after the portal has announced when it will
\* serve the statistics again, they are not asked for before - whatever else
\* the visit met afterwards.  A stored credential makes the portal due at once,
\* and a crash forgets what was not written.
StatBlockHeld ==
  [][Asking("choosing") /\ visit'.method = Stat => seen.held = 0]_vars

\* budgets.py 1-40, definitions.py 646-660: a method's block is its own.  A
\* visit whose statistics were served is followed by the next one in an
\* interval, with the batch size it had, whatever other methods met.
MethodsApart ==
  [][Asking("closing") /\ visit'.method = "none" /\ row'.code \in {"none", "429"}
       /\ ~seen.limited => row'.due <= Interval /\ row'.pages >= row.pages]_vars

\* throttle.py 100-104, 625-630: once the portal is calm, the batch size and
\* every limit come back to their defaults.
RatesRecover ==
  <>[](/\ row.pages = DefaultPages /\ row.limit = DefaultLimit
       /\ \A m \in Method : budget[m].limit = DefaultLimit)

-----------------------------------------------------------------------------
(* Said of the code and not kept by it (README, "Divergences"); no run of *)
(* the project checks what follows.                                       *)

\* throttle.py 459-475: "When the evidence does point at us, the new ceiling is
\* what we actually got blocked at".
LimitIsLearned ==
  [][Asking("closing") /\ visit'.method = "none" /\ seen.evidence /\ seen'.charged = seen.charged
     /\ visit.ours >= LimitFloor /\ visit.ours < row.limit => row'.limit = visit.ours]_vars

=============================================================================
