------------------------- MODULE RateControlProofs -------------------------
(***************************************************************************)
(* Proofs about RateControl for every set of methods and whatever answers  *)
(* say of times.                                                           *)
(*                                                                         *)
(* TypeInv is the inductive part every theorem rests on.  Three invariants *)
(* are added to it, one per question: HoldInv (what is parked or blocked   *)
(* outlives the visit), PauseInv (the failure counter is what was charged, *)
(* and no delay a visit was told of is the pause) and LadderInv (the rung  *)
(* a streak of 503 has reached is the one its delay is closest to).  The   *)
(* conditions on the numbers of throttle.py that they need are stated      *)
(* where they are needed: PauseOutlasts, PauseStandsOut, LadderReaches.    *)
(***************************************************************************)
EXTENDS RateControl, WellFoundedInduction, TLAPS

Codes == {"none", "429", "503", "transport", "page", "lease_expired"}
Ours0 == Readings \cup {0}

RowSet == [due : Nat, code : Codes, park : Nat, pages : MinPages..DefaultPages,
           clean : 0..(CleanToRecover - 1), failures : Nat, ours : Ours0, reset : Nat,
           limit : Limits]

BudgetSet == [ours : Ours0, reset : Nat, blocked : Nat, clean : 0..(CleanToRecover - 1),
              limit : Limits]

-----------------------------------------------------------------------------
(* Arithmetic *)

LEMMA Positive ==
  /\ MinPages \in Nat \ {0} /\ DefaultPages \in Nat \ {0} /\ MinPages <= DefaultPages
  /\ CleanToRecover \in Nat \ {0} /\ Grace \in Nat \ {0} /\ Interval \in Nat \ {0}
  /\ BaseBackoff \in Nat \ {0} /\ MaxBackoff \in Nat \ {0} /\ BaseBackoff <= MaxBackoff
  /\ FailureBase \in Nat \ {0} /\ FailureMax \in Nat \ {0} /\ Pause \in Nat \ {0}
  /\ FailuresBeforePause \in Nat \ {0} /\ LeaseSeconds \in Nat \ {0}
  /\ DefaultLimit \in Nat \ {0} /\ LimitFloor \in Nat \ {0} /\ LimitFloor <= DefaultLimit
BY RateAssumption

LEMMA LimitsArePositive == Limits \subseteq Nat \ {0} /\ DefaultLimit \in Limits
BY RateAssumption DEF Limits, Greatest

LEMMA LearnedIsALimit ==
  ASSUME NEW op \in Ours0, NEW limit \in Limits
  PROVE  Learned(op, limit) \in Limits
<1>1. limit \in Nat \ {0} /\ op \in Nat /\ LimitFloor \in Nat \ {0}
  BY LimitsArePositive, RateAssumption DEF Ours0
<1>2. CASE ~Ours(op, limit)  BY <1>2 DEF Learned
<1>3. CASE Ours(op, limit) /\ op \in Readings
  <2>1. Greatest(LimitFloor, op) \in Limits  BY <1>3 DEF Limits
  <2>2. Learned(op, limit) = Least(limit, Greatest(LimitFloor, Least(op, limit)))
    BY <1>3 DEF Learned
  <2>3. Least(limit, Greatest(LimitFloor, Least(op, limit)))
          \in {limit, Greatest(LimitFloor, op)}
    BY <1>1 DEF Least, Greatest
  <2> QED  BY <2>1, <2>2, <2>3
<1>4. CASE Ours(op, limit) /\ op = 0
  BY <1>1, <1>4 DEF Ours
<1> QED  BY <1>2, <1>3, <1>4 DEF Ours0

LEMMA ElapsedIsNatural ==
  ASSUME NEW t \in Nat, NEW d \in Nat
  PROVE  Elapsed(t, d) \in Nat /\ Elapsed(t, d) <= t /\ (t <= d => Elapsed(t, d) = 0)
BY DEF Elapsed, Greatest

LEMMA TimesIsNatural ==
  ASSUME NEW base \in Nat \ {0}, NEW n \in 0..30, NEW top \in Nat \ {0}
  PROVE  Times(base, n, top) \in Nat \ {0}
<1>1. Least(n, 32) \in 0..30  BY DEF Least
<1>2. 2 ^ Least(n, 32) \in Nat \ {0}  BY <1>1, PowerAssumption
<1>3. base * 2 ^ Least(n, 32) \in Nat \ {0}  BY <1>2
<1> QED  BY <1>3 DEF Times, Least

LEMMA BlockedForIsNatural ==
  ASSUME NEW reset \in Nat, NEW retry \in Nat
  PROVE  BlockedFor(reset, retry) \in Nat /\ BlockedFor(reset, retry) >= reset
BY RateAssumption DEF BlockedFor, ResumeIn, Greatest

\* A set of rungs has a first one, or there is none below 8.
LEMMA FirstRung ==
  ASSUME NEW S
  PROVE  \E s \in 0..8 : (\A t \in 0..(s - 1) : t \notin S) /\ (s = 8 \/ s \in S)
<1> SUFFICES ASSUME \A s \in 0..8 : ~((\A t \in 0..(s - 1) : t \notin S) /\ (s = 8 \/ s \in S))
             PROVE  FALSE
  OBVIOUS
<1>0. 0 \notin S  OBVIOUS
<1>1. 1 \notin S  BY <1>0
<1>2. 2 \notin S  BY <1>0, <1>1
<1>3. 3 \notin S  BY <1>0, <1>1, <1>2
<1>4. 4 \notin S  BY <1>0, <1>1, <1>2, <1>3
<1>5. 5 \notin S  BY <1>0, <1>1, <1>2, <1>3, <1>4
<1>6. 6 \notin S  BY <1>0, <1>1, <1>2, <1>3, <1>4, <1>5
<1>7. 7 \notin S  BY <1>0, <1>1, <1>2, <1>3, <1>4, <1>5, <1>6
<1>8. \A t \in 0..7 : t \notin S  BY <1>0, <1>1, <1>2, <1>3, <1>4, <1>5, <1>6, <1>7
<1> QED  BY <1>8

\* What _previous_ladder_step answers.
LEMMA RungIsClosest ==
  ASSUME NEW delay \in Nat
  PROVE  /\ RungOf(delay) \in 0..8
         /\ \A t \in 0..(RungOf(delay) - 1) : 3 * BaseBackoff * 2 ^ t < 2 * delay
         /\ RungOf(delay) = 8 \/ 3 * BaseBackoff * 2 ^ RungOf(delay) >= 2 * delay
<1> DEFINE S == {s \in 0..8 : 3 * BaseBackoff * 2 ^ s >= 2 * delay}
<1>1. PICK s \in 0..8 : (\A t \in 0..(s - 1) : t \notin S) /\ (s = 8 \/ s \in S)
  BY FirstRung
<1>2. \A t \in 0..8 : 3 * BaseBackoff * 2 ^ t \in Nat
  <2> TAKE t \in 0..8
  <2>0. t \in 0..30  OBVIOUS
  <2>1. 2 ^ t \in Nat \ {0}  BY <2>0, PowerAssumption
  <2>2. BaseBackoff \in Nat  BY Positive
  <2> QED  BY <2>1, <2>2
<1>3. \A t \in 0..(s - 1) : 3 * BaseBackoff * 2 ^ t < 2 * delay
  <2> SUFFICES ASSUME NEW t \in 0..(s - 1) PROVE 3 * BaseBackoff * 2 ^ t < 2 * delay
    OBVIOUS
  <2>1. t \in 0..8 /\ t \notin S  BY <1>1
  <2>2. ~(3 * BaseBackoff * 2 ^ t >= 2 * delay)  BY <2>1
  <2>3. 3 * BaseBackoff * 2 ^ t \in Nat  BY <1>2, <2>1
  <2> QED  BY <2>2, <2>3
<1>4. s = 8 \/ 3 * BaseBackoff * 2 ^ s >= 2 * delay  BY <1>1
<1> QED  BY <1>3, <1>4 DEF RungOf

LEMMA AttemptIsNatural == row \in RowSet => Attempt \in 0..9
BY RungIsClosest DEF RowSet, Attempt

LEMMA BackOffIsNatural ==
  ASSUME NEW retry \in Nat, NEW attempt \in 0..9
  PROVE  BackOff(retry, attempt) \in Nat
<1>0. attempt \in 0..30  OBVIOUS
<1>1. Times(BaseBackoff, attempt, MaxBackoff) \in Nat  BY <1>0, TimesIsNatural, Positive
<1> QED  BY <1>1, RateAssumption DEF BackOff, Greatest

LEMMA FailureDelayIsNatural ==
  ASSUME NEW failures \in 1..31
  PROVE  FailureDelay(failures) \in Nat
<1>1. Times(FailureBase, failures - 1, FailureMax) \in Nat
  <2>1. failures - 1 \in 0..30  OBVIOUS
  <2> QED  BY <2>1, TimesIsNatural, Positive
<1> QED  BY <1>1, Positive DEF FailureDelay

-----------------------------------------------------------------------------
(* The invariant. *)

Errors == {"none", "429", "503", "transport", "page"}

IsVisit(v) ==
  v = [method |-> v.method, left |-> v.left, stopped |-> v.stopped, used |-> v.used,
       touched |-> v.touched, parked |-> v.parked, error |-> v.error, retry |-> v.retry,
       soft |-> v.soft, ours |-> v.ours, reset |-> v.reset, bud |-> v.bud]

VisitOK(v) ==
  /\ IsVisit(v)
  /\ v.method \in All \cup {"none", "choosing", "closing"} /\ v.left \subseteq All
  /\ v.parked \in Nat /\ v.error \in Errors /\ v.retry \in Nat
  /\ v.ours \in Ours0 /\ v.reset \in Nat /\ v.bud \in [Method -> BudgetSet]

IsSeen(s) ==
  s = [streak |-> s.streak, charged |-> s.charged, held |-> s.held, limited |-> s.limited,
       evidence |-> s.evidence]

\* Whatever is charged to the failure counter was a trouble of its own.
ChargeInv ==
  /\ trouble \in 0..MaxTrouble /\ row.failures <= trouble
  /\ visit.soft \/ Charging(visit.error) => row.failures < trouble

\* Only what the statistics met parks a portal or blocks it.
LimitInv ==
  visit.parked # 0 \/ visit.error = "429" => seen.limited

TypeInv ==
  /\ row \in RowSet /\ budget \in [Method -> BudgetSet]
  /\ VisitOK(visit)
  /\ IsSeen(seen) /\ seen.held \in Nat
  /\ ChargeInv
  /\ LimitInv

LEMMA TypeInvImplies == TypeInv => TypeOK
<1> SUFFICES ASSUME TypeInv PROVE TypeOK  OBVIOUS
<1>1. row.failures \in 0..MaxTrouble  BY RateAssumption DEF TypeInv, RowSet, ChargeInv
<1>2. \A m \in Method : budget[m] \in BudgetSet  BY DEF TypeInv
<1> QED  BY <1>1, <1>2 DEF TypeInv, RowSet, BudgetSet, VisitOK, TypeOK, Codes

LEMMA FreshBudgetIsOne == FreshBudget \in BudgetSet
BY LimitsArePositive, RateAssumption DEF FreshBudget, BudgetSet, Ours0

LEMMA FreshRowIsOne ==
  /\ FreshRow \in RowSet /\ FreshRow.failures = 0 /\ FreshRow.due = 0
  /\ FreshRow.pages = DefaultPages
<1>1. MinPages \in Nat \ {0} /\ DefaultPages \in Nat \ {0} /\ MinPages <= DefaultPages
      /\ CleanToRecover \in Nat \ {0}
  BY RateAssumption
<1> QED  BY <1>1, LimitsArePositive DEF FreshRow, RowSet, Ours0, Codes

\* A visit that has met nothing.
Untroubled(v) ==
  v.parked = 0 /\ v.error = "none" /\ v.soft = FALSE

LEMMA NoVisitIsOne == VisitOK(NoVisit) /\ NoVisit.method = "none" /\ Untroubled(NoVisit)
<1>1. NoVisit.bud \in [Method -> BudgetSet]  BY FreshBudgetIsOne DEF NoVisit
<1>2. IsVisit(NoVisit)  BY DEF NoVisit, IsVisit
<1> QED  BY <1>1, <1>2 DEF NoVisit, NoDelay, VisitOK, Untroubled, Errors, Ours0

LEMMA NothingSeenIsOne ==
  IsSeen(NothingSeen) /\ NothingSeen.held = 0 /\ NothingSeen.limited = FALSE
BY DEF NothingSeen, IsSeen

LEMMA InitTypes == Init => TypeInv
<1> SUFFICES ASSUME Init PROVE TypeInv  OBVIOUS
<1>1. row \in RowSet /\ row.failures = 0  BY FreshRowIsOne DEF Init
<1>2. budget \in [Method -> BudgetSet]  BY FreshBudgetIsOne DEF Init
<1>3. VisitOK(visit) /\ Untroubled(visit)  BY NoVisitIsOne DEF Init
<1>4. ChargeInv
  BY <1>1, <1>3, RateAssumption DEF Init, ChargeInv, Charging, Untroubled
<1>5. LimitInv  BY <1>3 DEF LimitInv, Untroubled
<1> QED  BY <1>1, <1>2, <1>3, <1>4, <1>5, NothingSeenIsOne DEF TypeInv, Init

-----------------------------------------------------------------------------
(* Observations *)

\* What an observation leaves of the visit as it was.
Kept(v) ==
  /\ v.method = visit.method /\ v.left = visit.left /\ v.error = visit.error
  /\ v.retry = visit.retry /\ v.soft = visit.soft

LEMMA ObservedStatFacts ==
  ASSUME VisitOK(visit), NEW op \in Readings, NEW reset \in Nat, NEW v,
         v = ObservedStat(op, reset)
  PROVE  /\ VisitOK(v) /\ Kept(v)
         /\ v.reset = (IF reset > 0 THEN reset ELSE visit.reset)
         /\ v.parked = (IF AboveSoft(op, row.limit) THEN v.reset + Grace ELSE visit.parked)
<1> DEFINE until == IF reset > 0 THEN reset ELSE visit.reset
           stopped == IF AboveSoft(op, row.limit) THEN visit.stopped \cup {Stat}
                      ELSE visit.stopped
           parked == IF AboveSoft(op, row.limit) THEN until + Grace ELSE visit.parked
<1>1. v = [visit EXCEPT !.ours = op, !.reset = until, !.used = @ \cup {Stat},
                        !.stopped = stopped, !.parked = parked]
  BY DEF ObservedStat, ResumeIn
<1>2. until \in Nat /\ parked \in Nat  BY Positive DEF VisitOK
<1>3. parked = (IF AboveSoft(op, row.limit) THEN until + Grace ELSE visit.parked)  OBVIOUS
<1>4. until = (IF reset > 0 THEN reset ELSE visit.reset)  OBVIOUS
<1> HIDE DEF until, stopped, parked
<1>5. /\ IsVisit(v) /\ Kept(v) /\ v.bud = visit.bud /\ v.ours = op /\ v.reset = until
      /\ v.parked = parked
  BY <1>1 DEF VisitOK, IsVisit, Kept
<1>6. VisitOK(v)  BY <1>2, <1>5 DEF VisitOK, Kept, Ours0
<1> QED  BY <1>3, <1>4, <1>5, <1>6

LEMMA ObservedOtherFacts ==
  ASSUME VisitOK(visit), NEW m \in Method, NEW op \in Readings, NEW reset \in Nat, NEW v,
         v = ObservedOther(m, op, reset)
  PROVE  VisitOK(v) /\ Kept(v) /\ v.reset = visit.reset /\ v.parked = visit.parked
<1> DEFINE b == visit.bud[m]
           until == IF reset > 0 THEN reset ELSE b.reset
           stop == AboveSoft(op, b.limit)
           stopped == IF stop THEN visit.stopped \cup {m} ELSE visit.stopped
           blocked == IF stop THEN until + Grace ELSE b.blocked
           clean == IF stop THEN 0 ELSE b.clean
           new == [b EXCEPT !.ours = op, !.reset = until, !.blocked = blocked, !.clean = clean]
<1>1. v = [visit EXCEPT !.used = @ \cup {m}, !.touched = @ \cup {m}, !.stopped = stopped,
                        !.bud[m] = new]
  BY Zenon DEF ObservedOther, ResumeIn
<1>2. b \in BudgetSet  BY DEF VisitOK
<1>3. /\ op \in Ours0 /\ until \in Nat /\ blocked \in Nat
      /\ clean \in 0..(CleanToRecover - 1)
  BY <1>2, Positive DEF BudgetSet, Ours0
<1> HIDE DEF b, until, stopped, blocked, clean
<1>4. new \in BudgetSet  BY <1>2, <1>3 DEF BudgetSet
<1> HIDE DEF new
<1>5. [visit.bud EXCEPT ![m] = new] \in [Method -> BudgetSet]  BY <1>4 DEF VisitOK
<1>6. /\ IsVisit(v) /\ Kept(v) /\ v.bud = [visit.bud EXCEPT ![m] = new]
      /\ v.ours = visit.ours /\ v.reset = visit.reset /\ v.parked = visit.parked
  BY <1>1 DEF VisitOK, IsVisit, Kept
<1> QED  BY <1>5, <1>6 DEF VisitOK, Kept

LEMMA ObservedFacts ==
  ASSUME VisitOK(visit), NEW m \in All, NEW op \in Readings, NEW reset \in Nat, NEW v,
         v = Observed(m, op, reset)
  PROVE  /\ VisitOK(v) /\ Kept(v)
         /\ m = Stat => /\ v.reset = (IF reset > 0 THEN reset ELSE visit.reset)
                        /\ v.parked = (IF AboveSoft(op, row.limit) THEN v.reset + Grace
                                       ELSE visit.parked)
         /\ m # Stat => v.parked = visit.parked
<1>1. CASE m = Stat
  BY <1>1, ObservedStatFacts DEF Observed
<1>2. CASE m # Stat
  <2>1. m \in Method  BY <1>2 DEF All
  <2> QED  BY <1>2, <2>1, ObservedOtherFacts DEF Observed
<1> QED  BY <1>1, <1>2

LEMMA MethodBlocksFacts ==
  ASSUME NEW v, VisitOK(v), NEW m \in Method, NEW reset \in Nat, NEW retry \in Nat,
         MethodBlocks(v, m, reset, retry)
  PROVE  /\ VisitOK(visit') /\ visit'.method = "choosing" /\ visit'.left = v.left
         /\ visit'.parked = v.parked /\ visit'.error = v.error /\ visit'.soft = v.soft
         /\ visit'.reset = v.reset /\ visit'.retry = v.retry
<1> DEFINE b == v.bud[m]
           until == IF reset > 0 THEN reset ELSE b.reset
           blocked == BlockedFor(until, retry)
           limit == Learned(b.ours, b.limit)
           new == [b EXCEPT !.reset = until, !.blocked = blocked, !.clean = 0, !.limit = limit]
<1>1. visit' = [v EXCEPT !.method = "choosing", !.touched = @ \cup {m},
                         !.stopped = @ \cup {m}, !.bud[m] = new]
  BY Zenon DEF MethodBlocks
<1>2. b \in BudgetSet  BY DEF VisitOK
<1>3. until \in Nat  BY <1>2 DEF BudgetSet
<1>4. blocked \in Nat  BY <1>3, BlockedForIsNatural
<1>5. limit \in Limits  BY <1>2, LearnedIsALimit DEF BudgetSet
<1>6. 0 \in 0..(CleanToRecover - 1)  BY Positive
<1> HIDE DEF b, until, blocked, limit
<1>7. new \in BudgetSet  BY <1>2, <1>3, <1>4, <1>5, <1>6 DEF BudgetSet
<1> HIDE DEF new
<1>8. [v.bud EXCEPT ![m] = new] \in [Method -> BudgetSet]  BY <1>7 DEF VisitOK
<1>9. /\ IsVisit(visit') /\ visit'.bud = [v.bud EXCEPT ![m] = new]
      /\ visit'.method = "choosing" /\ visit'.left = v.left /\ visit'.parked = v.parked
      /\ visit'.error = v.error /\ visit'.retry = v.retry /\ visit'.soft = v.soft
      /\ visit'.ours = v.ours /\ visit'.reset = v.reset
  BY <1>1 DEF VisitOK, IsVisit
<1> QED  BY <1>8, <1>9 DEF VisitOK

LEMMA ClosesFacts ==
  ASSUME NEW v, VisitOK(v), NEW error \in Errors, NEW retry \in Nat, Closes(v, error, retry)
  PROVE  /\ VisitOK(visit') /\ visit'.method = "closing" /\ visit'.left = {}
         /\ visit'.error = error /\ visit'.retry = retry
         /\ visit'.parked = v.parked /\ visit'.reset = v.reset /\ visit'.soft = v.soft
<1>1. visit' = [v EXCEPT !.method = "closing", !.left = {}, !.error = error, !.retry = retry]
  BY DEF Closes
<1>2. /\ IsVisit(visit') /\ visit'.method = "closing" /\ visit'.left = {}
      /\ visit'.error = error /\ visit'.retry = retry
      /\ visit'.parked = v.parked /\ visit'.reset = v.reset /\ visit'.soft = v.soft
      /\ visit'.ours = v.ours /\ visit'.bud = v.bud
  BY <1>1 DEF VisitOK, IsVisit
<1> QED  BY <1>2 DEF VisitOK

\* Held: the statistics say when they are served again, no other method does.
LEMMA HeldFacts ==
  ASSUME IsSeen(seen), seen.held \in Nat, NEW m, NEW reset \in Nat, NEW s, s = Held(m, reset)
  PROVE  /\ IsSeen(s) /\ s.held \in Nat
         /\ m = Stat => s.held = Greatest(seen.held, reset) /\ s.limited
         /\ m # Stat => s = seen
<1>1. CASE m = Stat
  <2>1. s = [seen EXCEPT !.held = Greatest(@, reset), !.limited = TRUE]
    BY <1>1 DEF Held
  <2>2. IsSeen(s) /\ s.held = Greatest(seen.held, reset) /\ s.limited = TRUE
    BY <2>1 DEF IsSeen
  <2>3. Greatest(seen.held, reset) \in Nat  BY DEF Greatest
  <2> QED  BY <1>1, <2>2, <2>3
<1>2. CASE m # Stat
  BY <1>2 DEF Held
<1> QED  BY <1>1, <1>2

-----------------------------------------------------------------------------
(* Every step keeps the types. *)

BudgetsElapsed(d) ==
  [m \in Method |-> [budget[m] EXCEPT !.reset = Elapsed(@, d), !.blocked = Elapsed(@, d)]]

LEMMA BudgetsElapse ==
  ASSUME budget \in [Method -> BudgetSet], NEW d \in Nat
  PROVE  BudgetsElapsed(d) \in [Method -> BudgetSet]
<1> SUFFICES ASSUME NEW m \in Method
             PROVE  [budget[m] EXCEPT !.reset = Elapsed(@, d), !.blocked = Elapsed(@, d)]
                      \in BudgetSet
  BY DEF BudgetsElapsed
<1>1. budget[m] \in BudgetSet  OBVIOUS
<1>2. budget[m].reset \in Nat /\ budget[m].blocked \in Nat  BY <1>1 DEF BudgetSet
<1>3. Elapsed(budget[m].reset, d) \in Nat /\ Elapsed(budget[m].blocked, d) \in Nat
  BY <1>2, ElapsedIsNatural
<1> QED  BY <1>1, <1>3 DEF BudgetSet

LEMMA WaitTypes == TypeInv /\ Wait => TypeInv'
<1> SUFFICES ASSUME TypeInv, Wait PROVE TypeInv'  OBVIOUS
<1>1. row \in RowSet /\ row.due \in Nat /\ row.reset \in Nat  BY DEF TypeInv, RowSet
<1>2. Elapsed(row.due, row.due) \in Nat /\ Elapsed(row.reset, row.due) \in Nat
  BY <1>1, ElapsedIsNatural
<1>3. row' \in RowSet /\ row'.failures = row.failures
  BY <1>1, <1>2 DEF Wait, After, RowSet
<1>4. budget' \in [Method -> BudgetSet]
  BY <1>1, BudgetsElapse DEF Wait, After, BudgetsElapsed, TypeInv
<1>5. /\ IsSeen(seen') /\ seen'.held = Elapsed(seen.held, row.due)
      /\ seen'.limited = seen.limited
  BY DEF Wait, TypeInv, IsSeen
<1>6. seen'.held \in Nat  BY <1>1, <1>5, ElapsedIsNatural DEF TypeInv
<1> QED  BY <1>3, <1>4, <1>5, <1>6 DEF Wait, TypeInv, ChargeInv, LimitInv

LEMMA OpenVisitFacts ==
  ASSUME TypeInv, OpenVisit
  PROVE  VisitOK(visit') /\ Untroubled(visit') /\ visit'.method = "choosing"
         /\ visit'.left = All
<1>1. visit' = [NoVisit EXCEPT !.method = "choosing", !.left = All, !.ours = row.ours,
                               !.reset = row.reset, !.bud = budget]
  BY DEF OpenVisit
<1>2. /\ IsVisit(visit') /\ visit'.method = "choosing" /\ visit'.left = All
      /\ visit'.ours = row.ours /\ visit'.reset = row.reset /\ visit'.bud = budget
      /\ visit'.parked = NoVisit.parked /\ visit'.error = NoVisit.error
      /\ visit'.soft = NoVisit.soft /\ visit'.retry = NoVisit.retry
  BY <1>1 DEF NoVisit, IsVisit
<1> QED  BY <1>2, NoVisitIsOne DEF TypeInv, RowSet, VisitOK, Untroubled

LEMMA OpenVisitTypes == TypeInv /\ OpenVisit => TypeInv'
<1> SUFFICES ASSUME TypeInv, OpenVisit PROVE TypeInv'  OBVIOUS
<1> QED
  BY OpenVisitFacts DEF TypeInv, OpenVisit, ChargeInv, LimitInv, Charging, Untroubled

\* A step of the phase loop: the rows stay as they are.
Looking == row' = row /\ budget' = budget

LEMMA SameVisitTypes ==
  ASSUME TypeInv, Looking, trouble' = trouble, seen' = seen, VisitOK(visit'),
         visit'.parked = visit.parked,
         visit'.error = visit.error \/ visit'.error = "none"
           \/ (visit'.error = "page" /\ visit.soft),
         visit'.soft = visit.soft
  PROVE  TypeInv'
<1>1. ChargeInv'  BY DEF TypeInv, Looking, ChargeInv, Charging
<1>2. LimitInv'  BY DEF TypeInv, LimitInv
<1> QED  BY <1>1, <1>2 DEF TypeInv, Looking

\* A step that something has gone wrong in.
LEMMA TroubledTypes ==
  ASSUME TypeInv, Looking, Troubled, IsSeen(seen'), seen'.held \in Nat, VisitOK(visit'),
         seen.limited => seen'.limited,
         visit'.parked # visit.parked => seen'.limited,
         visit'.error = "429" => visit.error = "429" \/ seen'.limited
  PROVE  TypeInv'
<1>1. trouble' \in 0..MaxTrouble /\ row'.failures < trouble'
  BY RateAssumption DEF TypeInv, ChargeInv, Troubled, Looking, RowSet
<1>2. row'.failures <= trouble'  BY <1>1 DEF TypeInv, Looking, RowSet
<1>3. ChargeInv'  BY <1>1, <1>2 DEF ChargeInv
<1>4. LimitInv'  BY DEF TypeInv, LimitInv
<1> QED  BY <1>3, <1>4 DEF TypeInv, Looking

LEMMA NextPhaseFacts ==
  ASSUME TypeInv, NEW m \in All, NextPhase(m)
  PROVE  /\ VisitOK(visit') /\ visit'.left = visit.left \ {m}
         /\ visit'.method \in {"choosing", m}
         /\ visit'.parked = visit.parked /\ visit'.error = visit.error
         /\ visit'.soft = visit.soft
<1> DEFINE method == IF Blocked(m) THEN "choosing" ELSE m
<1>1. visit' = [visit EXCEPT !.left = @ \ {m}, !.method = method]  BY DEF NextPhase
<1>2. method \in {"choosing", m}  OBVIOUS
<1> HIDE DEF method
<1>3. /\ IsVisit(visit') /\ visit'.left = visit.left \ {m} /\ visit'.method = method
      /\ visit'.parked = visit.parked /\ visit'.error = visit.error
      /\ visit'.soft = visit.soft /\ visit'.retry = visit.retry
      /\ visit'.ours = visit.ours /\ visit'.reset = visit.reset /\ visit'.bud = visit.bud
  BY <1>1 DEF TypeInv, VisitOK, IsVisit
<1> QED  BY <1>2, <1>3 DEF TypeInv, VisitOK

LEMMA NextPhaseTypes ==
  ASSUME TypeInv, NEW m \in All, NextPhase(m)
  PROVE  TypeInv'
BY NextPhaseFacts, SameVisitTypes DEF NextPhase, Looking

LEMMA PhaseOverFacts ==
  ASSUME TypeInv, NEW m \in All, PhaseOver(m)
  PROVE  /\ VisitOK(visit') /\ visit'.left = visit.left /\ visit'.method = "choosing"
         /\ visit'.parked = visit.parked /\ visit'.error = visit.error
         /\ visit'.soft = visit.soft
<1>1. visit' = [visit EXCEPT !.method = "choosing"]  BY DEF PhaseOver
<1>2. /\ IsVisit(visit') /\ visit'.left = visit.left /\ visit'.method = "choosing"
      /\ visit'.parked = visit.parked /\ visit'.error = visit.error
      /\ visit'.soft = visit.soft /\ visit'.retry = visit.retry
      /\ visit'.ours = visit.ours /\ visit'.reset = visit.reset /\ visit'.bud = visit.bud
  BY <1>1 DEF TypeInv, VisitOK, IsVisit
<1> QED  BY <1>2 DEF TypeInv, VisitOK

LEMMA PhaseOverTypes ==
  ASSUME TypeInv, NEW m \in All, PhaseOver(m)
  PROVE  TypeInv'
BY PhaseOverFacts, SameVisitTypes DEF PhaseOver, Looking

LEMMA AnswerFacts ==
  ASSUME TypeInv, NEW m \in All, Answer(m)
  PROVE  VisitOK(visit') /\ Kept(visit') /\ visit'.parked = visit.parked
<1>1. PICK op \in Readings, reset \in Resets :
        ~AboveSoft(op, LimitOf(m)) /\ visit' = Observed(m, op, reset)
  BY DEF Answer
<1>2. reset \in Nat  BY RateAssumption
<1>3. m = Stat => ~AboveSoft(op, row.limit)  BY <1>1 DEF LimitOf
<1> QED  BY <1>1, <1>2, <1>3, ObservedFacts DEF TypeInv

LEMMA AnswerTypes ==
  ASSUME TypeInv, NEW m \in All, Answer(m)
  PROVE  TypeInv'
BY AnswerFacts, SameVisitTypes DEF Answer, Looking, Kept

\* The methods' names are not the states' of the phase loop.
LEMMA NamesApart ==
  ASSUME NEW m \in All
  PROVE  m \notin {"none", "choosing", "closing"}
BY RateAssumption DEF All

LEMMA SoftLimitFacts ==
  ASSUME TypeInv, NEW m \in All, SoftLimit(m)
  PROVE  /\ VisitOK(visit') /\ visit'.method = "choosing" /\ visit'.left = visit.left
         /\ visit'.error = visit.error
         /\ IsSeen(seen') /\ seen'.held \in Nat
         /\ m = Stat => /\ seen'.limited
                        /\ \E reset \in Resets : /\ seen'.held = Greatest(seen.held, reset)
                                                 /\ visit'.parked >= reset
         /\ m # Stat => seen' = seen /\ visit'.parked = visit.parked
<1>1. PICK op \in Readings, reset \in Resets :
        /\ AboveSoft(op, LimitOf(m))
        /\ visit' = [Observed(m, op, reset) EXCEPT !.method = "choosing"]
        /\ seen' = Held(m, reset)
  BY DEF SoftLimit
<1>2. reset \in Nat  BY RateAssumption
<1>3. PICK v : v = Observed(m, op, reset)  OBVIOUS
<1>4. /\ VisitOK(v) /\ Kept(v)
      /\ m = Stat => v.reset = (IF reset > 0 THEN reset ELSE visit.reset)
                     /\ v.parked = v.reset + Grace
      /\ m # Stat => v.parked = visit.parked
  BY <1>1, <1>2, <1>3, ObservedFacts DEF TypeInv, LimitOf
<1>5. visit' = [v EXCEPT !.method = "choosing"]  BY <1>1, <1>3
<1>6. /\ IsVisit(visit') /\ visit'.left = v.left /\ visit'.method = "choosing"
      /\ visit'.parked = v.parked /\ visit'.error = v.error
      /\ visit'.soft = v.soft /\ visit'.retry = v.retry
      /\ visit'.ours = v.ours /\ visit'.reset = v.reset /\ visit'.bud = v.bud
  BY <1>4, <1>5 DEF VisitOK, IsVisit
<1>7. VisitOK(visit')  BY <1>4, <1>6 DEF VisitOK
<1>8. /\ IsSeen(seen') /\ seen'.held \in Nat
      /\ m = Stat => seen'.held = Greatest(seen.held, reset) /\ seen'.limited
      /\ m # Stat => seen' = seen
  BY <1>1, <1>2, HeldFacts DEF TypeInv
<1>9. m = Stat => visit'.parked >= reset
  <2>1. v.reset \in Nat /\ Grace \in Nat  BY <1>4, Positive DEF VisitOK
  <2> QED  BY <1>2, <1>4, <1>6, <2>1
<1> QED  BY <1>4, <1>6, <1>7, <1>8, <1>9 DEF Kept

LEMMA SoftLimitTypes ==
  ASSUME TypeInv, NEW m \in All, SoftLimit(m)
  PROVE  TypeInv'
<1>1. Looking /\ Troubled  BY DEF SoftLimit, Looking
<1> QED  BY <1>1, SoftLimitFacts, TroubledTypes

\* A 429 on the statistics closes the visit, with a block that lasts until the
\* reset it told of; on another method it blocks that method only.
LEMMA TimeLimitFacts ==
  ASSUME TypeInv, NEW m \in All, TimeLimit(m)
  PROVE  /\ VisitOK(visit') /\ IsSeen(seen') /\ seen'.held \in Nat
         /\ seen.limited => seen'.limited
         /\ m = Stat =>
              /\ seen'.limited
              /\ visit'.method = "closing" /\ visit'.left = {} /\ visit'.error = "429"
              /\ \E reset \in Resets \cup {0} :
                   /\ seen'.held = Greatest(seen.held, reset)
                   /\ visit'.parked # visit.parked => visit'.parked >= reset
                   /\ BlockedFor(visit'.reset, visit'.retry) >= reset
         /\ m # Stat =>
              /\ seen'.held = seen.held /\ visit'.parked = visit.parked
              /\ visit'.method = "choosing" /\ visit'.left = visit.left
              /\ visit'.error = visit.error
<1>1. PICK retry \in RetryAfters \cup {0}, op \in Readings, measured \in BOOLEAN :
        \E reset \in IF measured THEN Resets ELSE {0} :
          /\ \E v \in {IF measured THEN Observed(m, op, reset) ELSE visit} :
               IF m = Stat THEN Closes(v, "429", retry) ELSE MethodBlocks(v, m, reset, retry)
          /\ seen' = [Held(m, reset) EXCEPT !.evidence =
                        @ \/ (m = Stat /\ measured /\ Ours(op, row.limit))]
  BY DEF TimeLimit
<1>2. PICK reset \in IF measured THEN Resets ELSE {0} :
        /\ \E v \in {IF measured THEN Observed(m, op, reset) ELSE visit} :
             IF m = Stat THEN Closes(v, "429", retry) ELSE MethodBlocks(v, m, reset, retry)
        /\ seen' = [Held(m, reset) EXCEPT !.evidence =
                      @ \/ (m = Stat /\ measured /\ Ours(op, row.limit))]
  BY <1>1
<1>3. reset \in Resets \cup {0} /\ reset \in Nat /\ retry \in Nat
  BY RateAssumption
<1>4. PICK v : /\ v = (IF measured THEN Observed(m, op, reset) ELSE visit)
               /\ IF m = Stat THEN Closes(v, "429", retry)
                  ELSE MethodBlocks(v, m, reset, retry)
  BY <1>2
<1>5. /\ VisitOK(v) /\ Kept(v)
      /\ m = Stat => (reset > 0 => v.reset = reset)
      /\ m = Stat => (v.parked # visit.parked => v.parked = v.reset + Grace)
      /\ m # Stat => v.parked = visit.parked
  <2>1. CASE measured
    BY <1>3, <1>4, <2>1, ObservedFacts DEF TypeInv
  <2>2. CASE ~measured
    <3>1. reset = 0 /\ v = visit  BY <1>4, <2>2
    <3> QED  BY <3>1 DEF TypeInv, Kept
  <2> QED  BY <2>1, <2>2
<1>6. /\ IsSeen(seen') /\ seen'.held \in Nat
      /\ m = Stat => seen'.held = Greatest(seen.held, reset) /\ seen'.limited
      /\ m # Stat => seen'.held = seen.held /\ seen'.limited = seen.limited
  <2>1. PICK s : s = Held(m, reset)  OBVIOUS
  <2>2. /\ IsSeen(s) /\ s.held \in Nat
        /\ m = Stat => s.held = Greatest(seen.held, reset) /\ s.limited
        /\ m # Stat => s = seen
    BY <1>3, <2>1, HeldFacts DEF TypeInv
  <2>3. PICK e : seen' = [s EXCEPT !.evidence = e]
    BY <1>2, <2>1, Zenon
  <2>4. IsSeen(seen') /\ seen'.held = s.held /\ seen'.limited = s.limited
    BY <2>2, <2>3 DEF IsSeen
  <2> QED  BY <2>2, <2>4
<1>7. CASE m = Stat
  <2>1. /\ VisitOK(visit') /\ visit'.method = "closing" /\ visit'.left = {}
        /\ visit'.error = "429" /\ visit'.retry = retry
        /\ visit'.parked = v.parked /\ visit'.reset = v.reset
    BY <1>3, <1>4, <1>5, <1>7, ClosesFacts DEF Errors
  <2>2. v.reset \in Nat /\ v.reset >= reset  BY <1>3, <1>5, <1>7 DEF VisitOK
  <2>3. BlockedFor(visit'.reset, visit'.retry) >= reset
    <3>1. BlockedFor(v.reset, retry) \in Nat /\ BlockedFor(v.reset, retry) >= v.reset
      BY <1>3, <2>2, BlockedForIsNatural
    <3> QED  BY <1>3, <2>1, <2>2, <3>1
  <2>4. visit'.parked # visit.parked => visit'.parked >= reset
    BY <1>3, <1>5, <1>7, <2>1, <2>2, Positive
  <2> QED  BY <1>3, <1>6, <1>7, <2>1, <2>3, <2>4
<1>8. CASE m # Stat
  <2>1. m \in Method  BY <1>8 DEF All
  <2>2. /\ VisitOK(visit') /\ visit'.method = "choosing" /\ visit'.left = v.left
        /\ visit'.parked = v.parked /\ visit'.error = v.error
    BY <1>3, <1>4, <1>5, <1>8, <2>1, MethodBlocksFacts
  <2> QED  BY <1>5, <1>6, <1>8, <2>2 DEF Kept
<1> QED  BY <1>7, <1>8

LEMMA TimeLimitTypes ==
  ASSUME TypeInv, NEW m \in All, TimeLimit(m)
  PROVE  TypeInv'
<1>1. Looking /\ Troubled  BY DEF TimeLimit, Looking
<1> QED  BY <1>1, TimeLimitFacts, TroubledTypes

\* 503 and transport errors close the visit, whatever was asked.
LEMMA ErrorFacts ==
  ASSUME TypeInv, NEW m \in All, QueryLimit(m) \/ Transport(m)
  PROVE  /\ VisitOK(visit') /\ visit'.method = "closing" /\ visit'.left = {}
         /\ visit'.error \in {"503", "transport"}
         /\ visit'.parked = visit.parked
         /\ Looking /\ Troubled /\ seen' = seen
<1>1. CASE QueryLimit(m)
  <2>1. PICK retry \in RetryAfters \cup {0} : Closes(visit, "503", retry)
    BY <1>1 DEF QueryLimit
  <2>2. retry \in Nat /\ "503" \in Errors  BY RateAssumption DEF Errors
  <2> QED  BY <1>1, <2>1, <2>2, ClosesFacts DEF TypeInv, QueryLimit, Looking
<1>2. CASE Transport(m)
  <2>1. 0 \in Nat /\ "transport" \in Errors  BY DEF Errors
  <2>2. Closes(visit, "transport", 0)  BY <1>2 DEF Transport
  <2> QED  BY <1>2, <2>1, <2>2, ClosesFacts DEF TypeInv, Transport, Looking
<1> QED  BY <1>1, <1>2

LEMMA ErrorTypes ==
  ASSUME TypeInv, NEW m \in All, QueryLimit(m) \/ Transport(m)
  PROVE  TypeInv'
<1>1. IsSeen(seen') /\ seen'.held \in Nat /\ visit'.error # "429"
  BY ErrorFacts DEF TypeInv
<1> QED  BY <1>1, ErrorFacts, TroubledTypes

LEMMA PageFailsFacts ==
  ASSUME TypeInv, NEW m \in All, PageFails(m)
  PROVE  /\ VisitOK(visit') /\ visit'.method = visit.method /\ visit'.left = visit.left
         /\ visit'.parked = visit.parked /\ visit'.error = visit.error
         /\ Looking /\ Troubled /\ seen' = seen
<1>1. visit' = [visit EXCEPT !.soft = TRUE]  BY DEF PageFails
<1>2. /\ IsVisit(visit') /\ visit'.left = visit.left /\ visit'.method = visit.method
      /\ visit'.parked = visit.parked /\ visit'.error = visit.error
      /\ visit'.retry = visit.retry
      /\ visit'.ours = visit.ours /\ visit'.reset = visit.reset /\ visit'.bud = visit.bud
  BY <1>1 DEF TypeInv, VisitOK, IsVisit
<1> QED  BY <1>2 DEF TypeInv, VisitOK, PageFails, Looking

LEMMA PageFailsTypes ==
  ASSUME TypeInv, NEW m \in All, PageFails(m)
  PROVE  TypeInv'
<1>1. IsSeen(seen') /\ seen'.held \in Nat  BY PageFailsFacts DEF TypeInv
<1> QED  BY <1>1, PageFailsFacts, TroubledTypes

LEMMA PhasesOverFacts ==
  ASSUME TypeInv, PhasesOver
  PROVE  /\ VisitOK(visit') /\ visit'.method = "closing" /\ visit'.left = {}
         /\ visit'.error = (IF visit.soft THEN "page" ELSE "none")
         /\ visit'.parked = visit.parked /\ visit'.soft = visit.soft
<1>1. PICK error : error = (IF visit.soft THEN "page" ELSE "none")  OBVIOUS
<1>2. error \in Errors /\ 0 \in Nat  BY <1>1 DEF Errors
<1>3. Closes(visit, error, 0)  BY <1>1, Zenon DEF PhasesOver
<1> QED  BY <1>1, <1>2, <1>3, ClosesFacts DEF TypeInv

LEMMA PhasesOverTypes == TypeInv /\ PhasesOver => TypeInv'
<1> SUFFICES ASSUME TypeInv, PhasesOver PROVE TypeInv'  OBVIOUS
<1>1. Looking /\ trouble' = trouble /\ seen' = seen  BY DEF PhasesOver, Looking
<1> QED  BY <1>1, PhasesOverFacts, SameVisitTypes

-----------------------------------------------------------------------------
(* The close of a visit. *)

LEMMA DelayIsNatural == TypeInv => Delay(visit) \in Nat /\ DueAfter(visit) \in Nat
<1> SUFFICES ASSUME TypeInv PROVE Delay(visit) \in Nat /\ DueAfter(visit) \in Nat
  OBVIOUS
<1>1. /\ visit.parked \in Nat /\ visit.reset \in Nat /\ visit.retry \in Nat
      /\ Interval \in Nat /\ Pause \in Nat
  BY Positive DEF TypeInv, VisitOK
<1>2. BlockedFor(visit.reset, visit.retry) \in Nat  BY <1>1, BlockedForIsNatural
<1>3. BackOff(visit.retry, Attempt) \in Nat
  BY <1>1, AttemptIsNatural, BackOffIsNatural DEF TypeInv
<1>4. FailureDelay(row.failures + 1) \in Nat
  <2>1. row.failures \in Nat /\ row.failures <= trouble /\ trouble \in 0..30
    BY RateAssumption DEF TypeInv, RowSet, ChargeInv
  <2>2. row.failures + 1 \in 1..31  BY <2>1
  <2> QED  BY <2>2, FailureDelayIsNatural
<1>5. Delay(visit) \in {visit.parked, BlockedFor(visit.reset, visit.retry),
                        BackOff(visit.retry, Attempt), FailureDelay(row.failures + 1), Interval}
  BY Zenon DEF Delay
<1>6. DueAfter(visit) \in {Pause, Delay(visit)}  BY Zenon DEF DueAfter
<1> QED  BY <1>1, <1>2, <1>3, <1>4, <1>5, <1>6

LEMMA PagesAfterIsOne == TypeInv => PagesAfter(visit) \in MinPages..DefaultPages
<1> SUFFICES ASSUME TypeInv PROVE PagesAfter(visit) \in MinPages..DefaultPages  OBVIOUS
<1>1. row.pages \in MinPages..DefaultPages  BY DEF TypeInv, RowSet
<1>2. Halved(row.pages) \in MinPages..DefaultPages
  BY <1>1, Positive DEF Halved, Greatest
<1>3. Greatest(row.pages, DefaultPages) \in MinPages..DefaultPages
  BY <1>1, Positive DEF Greatest
<1> QED  BY <1>1, <1>2, <1>3 DEF PagesAfter

LEMMA CleanAfterIsOne ==
  ASSUME NEW clean \in 0..(CleanToRecover - 1)
  PROVE  CleanAfter(clean) \in 0..(CleanToRecover - 1)
BY Positive DEF CleanAfter, Recovers

LEMMA LimitAfterIsOne == TypeInv => LimitAfter(visit) \in Limits
<1> SUFFICES ASSUME TypeInv PROVE LimitAfter(visit) \in Limits  OBVIOUS
<1>1. row.limit \in Limits /\ visit.ours \in Ours0  BY DEF TypeInv, RowSet, VisitOK
<1>2. Learned(visit.ours, row.limit) \in Limits  BY <1>1, LearnedIsALimit
<1>3. Greatest(row.limit, DefaultLimit) \in Limits  BY <1>1, LimitsArePositive DEF Greatest
<1> QED  BY <1>1, <1>2, <1>3 DEF LimitAfter

LEMMA BudgetAfterIsOne ==
  ASSUME TypeInv, NEW m \in Method
  PROVE  BudgetAfter(visit, m) \in BudgetSet
<1> DEFINE b == visit.bud[m]
           limit == IF Recovers(b.clean) THEN DefaultLimit ELSE b.limit
<1>1. b \in BudgetSet  BY DEF TypeInv, VisitOK
<1>2. CleanAfter(b.clean) \in 0..(CleanToRecover - 1) /\ limit \in Limits
  BY <1>1, CleanAfterIsOne, LimitsArePositive DEF BudgetSet
<1>3. BudgetAfter(visit, m) \in {[b EXCEPT !.clean = CleanAfter(b.clean), !.limit = limit], b}
  BY Zenon DEF BudgetAfter
<1> HIDE DEF b, limit
<1>4. [b EXCEPT !.clean = CleanAfter(b.clean), !.limit = limit] \in BudgetSet
  BY <1>1, <1>2 DEF BudgetSet
<1> QED  BY <1>1, <1>3, <1>4

LEMMA CloseVisitRow ==
  ASSUME TypeInv, CloseVisit
  PROVE  /\ row' \in RowSet /\ row'.due = DueAfter(visit) /\ row'.code = visit.error
         /\ row'.pages = PagesAfter(visit) /\ row'.failures = FailuresAfter(visit)
<1> DEFINE clean == IF Undisturbed(visit) THEN CleanAfter(row.clean) ELSE 0
           park == IF visit.error = "none" THEN 0 ELSE DueAfter(visit)
<1>1. row' = [due |-> DueAfter(visit), code |-> visit.error, park |-> park,
              pages |-> PagesAfter(visit), clean |-> clean,
              failures |-> FailuresAfter(visit),
              ours |-> visit.ours, reset |-> visit.reset, limit |-> LimitAfter(visit)]
  BY DEF CloseVisit
<1>2. DueAfter(visit) \in Nat /\ park \in Nat  BY DelayIsNatural
<1>3. PagesAfter(visit) \in MinPages..DefaultPages /\ LimitAfter(visit) \in Limits
  BY PagesAfterIsOne, LimitAfterIsOne
<1>4. clean \in 0..(CleanToRecover - 1)
  <2>1. row.clean \in 0..(CleanToRecover - 1)  BY DEF TypeInv, RowSet
  <2>2. CleanAfter(row.clean) \in 0..(CleanToRecover - 1)  BY <2>1, CleanAfterIsOne
  <2> QED  BY <2>2, Positive
<1>5. FailuresAfter(visit) \in Nat  BY DEF TypeInv, RowSet, FailuresAfter
<1>6. visit.error \in Codes /\ visit.ours \in Ours0 /\ visit.reset \in Nat
  BY DEF TypeInv, VisitOK, Errors, Codes
<1> HIDE DEF clean, park
<1> QED  BY <1>1, <1>2, <1>3, <1>4, <1>5, <1>6 DEF RowSet

LEMMA CloseVisitSeen ==
  ASSUME TypeInv, CloseVisit
  PROVE  IsSeen(seen') /\ seen'.held = seen.held
<1>1. PICK streak, charged :
        seen' = [seen EXCEPT !.streak = streak, !.limited = FALSE, !.evidence = FALSE,
                             !.charged = charged]
  BY Zenon DEF CloseVisit
<1> QED  BY <1>1 DEF TypeInv, IsSeen

LEMMA CloseVisitTypes == TypeInv /\ CloseVisit => TypeInv'
<1> SUFFICES ASSUME TypeInv, CloseVisit PROVE TypeInv'  OBVIOUS
<1>1. budget' \in [Method -> BudgetSet]
  <2>1. budget' = [m \in Method |-> IF m \in visit.touched \cup visit.used
                                    THEN BudgetAfter(visit, m) ELSE budget[m]]
    BY DEF CloseVisit
  <2>2. \A m \in Method : budget[m] \in BudgetSet  BY DEF TypeInv
  <2> QED  BY <2>1, <2>2, BudgetAfterIsOne
<1>2. VisitOK(visit') /\ Untroubled(visit')  BY NoVisitIsOne DEF CloseVisit
<1>3. ChargeInv'
  <2>1. trouble' = trouble /\ trouble \in 0..MaxTrouble /\ MaxTrouble \in Nat
        /\ row.failures \in Nat /\ row.failures <= trouble
    BY RateAssumption DEF TypeInv, ChargeInv, CloseVisit, RowSet
  <2>2. FailuresAfter(visit) <= trouble
    <3>1. visit.error \in Errors  BY DEF TypeInv, VisitOK
    <3>2. CASE Charging(visit.error)
      <4>1. row.failures < trouble  BY <3>2 DEF TypeInv, ChargeInv
      <4> QED  BY <2>1, <4>1 DEF FailuresAfter
    <3>3. CASE ~Charging(visit.error)
      <4>1. visit.error = "none" \/ Throttling(visit.error)
        BY <3>1, <3>3 DEF Errors, Charging, Throttling
      <4> QED  BY <2>1, <4>1 DEF FailuresAfter
    <3> QED  BY <3>2, <3>3
  <2>3. ~visit'.soft /\ ~Charging(visit'.error)  BY <1>2 DEF Untroubled, Charging
  <2> QED  BY <2>1, <2>2, <2>3, CloseVisitRow DEF ChargeInv
<1>4. LimitInv'  BY <1>2 DEF Untroubled, LimitInv
<1> QED  BY <1>1, <1>2, <1>3, <1>4, CloseVisitRow, CloseVisitSeen DEF TypeInv

-----------------------------------------------------------------------------
(* Interruptions *)

\* After an interruption there is no visit, and nothing is held.
LEMMA InterruptedTypes ==
  ASSUME TypeInv, row' \in RowSet, budget' \in [Method -> BudgetSet], visit' = NoVisit,
         IsSeen(seen'), seen'.held = 0, Troubled, row'.failures <= row.failures + 1
  PROVE  TypeInv'
<1>1. VisitOK(visit') /\ Untroubled(visit')  BY NoVisitIsOne
<1>2. ChargeInv'
  <2>1. /\ trouble \in 0..MaxTrouble /\ MaxTrouble \in Nat /\ row.failures <= trouble
        /\ row.failures \in Nat /\ row'.failures \in Nat
        /\ trouble < MaxTrouble /\ trouble' = trouble + 1
    BY RateAssumption DEF TypeInv, ChargeInv, RowSet, Troubled
  <2>2. trouble' \in 0..MaxTrouble /\ row'.failures <= trouble'  BY <2>1
  <2>3. ~visit'.soft /\ ~Charging(visit'.error)  BY <1>1 DEF Untroubled, Charging
  <2> QED  BY <2>2, <2>3 DEF ChargeInv
<1>3. LimitInv'  BY <1>1 DEF Untroubled, LimitInv
<1> QED  BY <1>1, <1>2, <1>3 DEF TypeInv

LEMMA CredentialFacts ==
  ASSUME TypeInv, CredentialStored
  PROVE  /\ row' \in RowSet /\ row'.due = 0 /\ row'.pages = row.pages
         /\ row'.failures = row.failures /\ IsSeen(seen') /\ seen'.held = 0
<1>1. PICK limit \in {row.limit, DefaultLimit} :
        row' = [row EXCEPT !.due = 0, !.park = Elapsed(@, row.due), !.limit = limit]
  BY DEF CredentialStored
<1>2. row \in RowSet /\ row.park \in Nat /\ row.due \in Nat /\ limit \in Limits
  BY LimitsArePositive DEF TypeInv, RowSet
<1>3. Elapsed(row.park, row.due) \in Nat  BY <1>2, ElapsedIsNatural
<1>4. PICK streak, charged :
        seen' = [NothingSeen EXCEPT !.charged = charged, !.streak = streak]
  BY Zenon DEF CredentialStored
<1>5. IsSeen(seen') /\ seen'.held = NothingSeen.held
  BY <1>4 DEF NothingSeen, IsSeen
<1> QED  BY <1>1, <1>2, <1>3, <1>5, NothingSeenIsOne DEF RowSet

LEMMA CredentialTypes == TypeInv /\ CredentialStored => TypeInv'
<1> SUFFICES ASSUME TypeInv, CredentialStored PROVE TypeInv'  OBVIOUS
<1>1. row'.failures <= row.failures + 1  BY CredentialFacts DEF TypeInv, RowSet
<1>2. budget' \in [Method -> BudgetSet] /\ visit' = NoVisit /\ Troubled
  BY DEF TypeInv, CredentialStored
<1> QED  BY <1>1, <1>2, CredentialFacts, InterruptedTypes

LEMMA ReinstalledTypes == TypeInv /\ Reinstalled => TypeInv'
<1> SUFFICES ASSUME TypeInv, Reinstalled PROVE TypeInv'  OBVIOUS
<1>1. row' \in RowSet /\ row'.failures = 0 /\ row.failures \in Nat
  BY FreshRowIsOne DEF TypeInv, RowSet, Reinstalled
<1>2. budget' \in [Method -> BudgetSet] /\ visit' = NoVisit /\ Troubled
  BY FreshBudgetIsOne DEF Reinstalled
<1>3. IsSeen(seen') /\ seen'.held = 0  BY NothingSeenIsOne DEF Reinstalled
<1>4. row'.failures <= row.failures + 1  BY <1>1
<1> QED  BY <1>1, <1>2, <1>3, <1>4, InterruptedTypes

LEMMA CrashFacts ==
  ASSUME TypeInv, Crash
  PROVE  /\ row' \in RowSet /\ row'.code = "lease_expired"
         /\ row'.failures = row.failures + 1 /\ IsSeen(seen') /\ seen'.held = 0
<1>1. row \in RowSet /\ row.reset \in Nat /\ row.failures \in Nat /\ LeaseSeconds \in Nat
  BY Positive DEF TypeInv, RowSet
<1>2. Elapsed(row.reset, LeaseSeconds) \in Nat  BY <1>1, ElapsedIsNatural
<1>3. PICK charged : seen' = [NothingSeen EXCEPT !.charged = charged]
  BY Zenon DEF Crash
<1>4. IsSeen(seen') /\ seen'.held = NothingSeen.held
  BY <1>3 DEF NothingSeen, IsSeen
<1>5. row' = [row EXCEPT !.failures = row.failures + 1, !.code = "lease_expired", !.park = 0,
                        !.reset = Elapsed(row.reset, LeaseSeconds)]
  BY Zenon DEF Crash
<1>6. row.failures + 1 \in Nat /\ "lease_expired" \in Codes /\ 0 \in Nat  BY <1>1 DEF Codes
<1>7. row' \in RowSet /\ row'.code = "lease_expired" /\ row'.failures = row.failures + 1
  BY <1>1, <1>2, <1>5, <1>6 DEF RowSet
<1> QED  BY <1>4, <1>7, NothingSeenIsOne

LEMMA CrashTypes == TypeInv /\ Crash => TypeInv'
<1> SUFFICES ASSUME TypeInv, Crash PROVE TypeInv'  OBVIOUS
<1>1. row'.failures <= row.failures + 1  BY CrashFacts DEF TypeInv, RowSet
<1>2. budget' \in [Method -> BudgetSet]
  BY BudgetsElapse, Positive DEF TypeInv, Crash, BudgetsElapsed
<1>3. visit' = NoVisit /\ Troubled  BY DEF Crash
<1> QED  BY <1>1, <1>2, <1>3, CrashFacts, InterruptedTypes

LEMMA StutterTypes == TypeInv /\ UNCHANGED vars => TypeInv'
BY DEF TypeInv, vars, RowSet, BudgetSet, VisitOK, IsVisit, IsSeen, ChargeInv, LimitInv

LEMMA StepTypes == TypeInv /\ [Next]_vars => TypeInv'
<1> SUFFICES ASSUME TypeInv, [Next]_vars PROVE TypeInv'  OBVIOUS
<1>1. ASSUME NEW m \in All, NextPhase(m) \/ PhaseOver(m) \/ Asked(m) PROVE TypeInv'
  BY <1>1, NextPhaseTypes, PhaseOverTypes, AnswerTypes, SoftLimitTypes, TimeLimitTypes,
     ErrorTypes, PageFailsTypes DEF Asked
<1> QED
  BY <1>1, WaitTypes, OpenVisitTypes, PhasesOverTypes, CloseVisitTypes, CredentialTypes,
     ReinstalledTypes, CrashTypes, StutterTypes DEF Next

\* Type correctness: the batch size and every operating limit stay within
\* their bounds, and the failure counter never runs ahead of what went wrong.
THEOREM TypeCorrect == Spec => []TypeOK
<1>1. Spec => []TypeInv  BY InitTypes, StepTypes, PTL DEF Spec
<1> QED  BY <1>1, TypeInvImplies, PTL

-----------------------------------------------------------------------------
(* A method's block is its own. *)

LEMMA StepIsApart ==
  ASSUME TypeInv, [Next]_vars, Asking("closing"), visit'.method = "none",
         row'.code \in {"none", "429"}, ~seen.limited
  PROVE  row'.due <= Interval /\ row'.pages >= row.pages
<1>0. row.pages \in MinPages..DefaultPages /\ MinPages \in Nat /\ DefaultPages \in Nat
      /\ Interval \in Nat
  BY Positive DEF TypeInv, RowSet
<1>1. CASE CloseVisit
  <2>1. visit.parked = 0 /\ visit.error # "429"  BY DEF TypeInv, LimitInv
  <2>2. visit.error = "none"  BY <1>1, <2>1, CloseVisitRow
  <2>3. Delay(visit) = Interval /\ DueAfter(visit) = Interval
    BY <2>1, <2>2 DEF Delay, DueAfter, NoDelay, Charging
  <2>4. PagesAfter(visit) >= row.pages
    BY <1>0, <2>1, <2>2 DEF PagesAfter, Slowed, NoDelay, Throttling, Greatest
  <2> QED  BY <1>0, <1>1, <2>3, <2>4, CloseVisitRow
<1>2. CASE CredentialStored
  BY <1>0, <1>2, CredentialFacts
<1>3. CASE Reinstalled
  BY <1>0, <1>3, FreshRowIsOne DEF Reinstalled
<1>4. CASE Crash
  BY <1>4, CrashFacts
<1>5. ASSUME NEW m \in All, NextPhase(m) \/ PhaseOver(m) \/ Asked(m) PROVE FALSE
  BY <1>5, NamesApart DEF Asking, NextPhase, PhaseOver, Asked, Answer, SoftLimit, TimeLimit,
     QueryLimit, Transport, PageFails
<1>6. ~Wait /\ ~OpenVisit /\ ~PhasesOver /\ ~UNCHANGED vars
  BY DEF Wait, OpenVisit, PhasesOver, Idle, Asking, vars
<1> QED  BY <1>1, <1>2, <1>3, <1>4, <1>5, <1>6 DEF Next

\* A visit whose statistics were served is followed by the next one in an
\* interval, with the batch size it had, whatever the other methods met.
THEOREM BlocksAreApart == Spec => MethodsApart
<1>1. TypeInv /\ [Next]_vars
        => [Asking("closing") /\ visit'.method = "none" /\ row'.code \in {"none", "429"}
              /\ ~seen.limited => row'.due <= Interval /\ row'.pages >= row.pages]_vars
  BY StepIsApart
<1>2. Spec => []TypeInv  BY InitTypes, StepTypes, PTL DEF Spec
<1> QED  BY <1>1, <1>2, PTL DEF Spec, MethodsApart

-----------------------------------------------------------------------------
(* The statistics are not asked for before the portal serves them again.    *)
(* Resets are within the hour of the operating time; the pause of six hours *)
(* outlasts them, so a failure that ends a parked visit cannot shorten it.  *)

PauseOutlasts == \A reset \in Resets : reset <= Pause

\* What is held outlives the visit: the portal is parked or blocked for it.
Parks ==
  \/ visit.parked >= seen.held
  \/ /\ visit.method = "closing" /\ visit.error = "429" /\ visit.parked = 0
     /\ BlockedFor(visit.reset, visit.retry) >= seen.held

HoldInv ==
  /\ seen.held <= Pause
  /\ Idle => seen.held <= row.due
  /\ ~Idle /\ seen.held > 0 => Stat \notin visit.left /\ ~Asking(Stat) /\ Parks
  /\ Stat \in visit.left \/ Asking(Stat) => visit.parked = 0
  /\ Asking(Stat) => Stat \notin visit.left
  /\ Idle => Stat \notin visit.left

LEMMA InitHolds == Init => HoldInv
BY NamesApart, Positive DEF Init, HoldInv, NothingSeen, NoVisit, FreshRow, Idle, Asking, All

\* A step that goes on with the visit, and holds what was held.
LEMMA SameHold ==
  ASSUME TypeInv, HoldInv, ~Idle, visit'.method # "none", seen'.held = seen.held,
         visit'.parked = visit.parked, visit'.left \subseteq visit.left,
         visit.method # "closing",
         visit'.method = Stat => Stat \notin visit'.left,
         visit'.method = Stat => Asking(Stat) \/ Stat \in visit.left
  PROVE  HoldInv'
<1>1. seen.held \in Nat /\ visit.parked \in Nat  BY DEF TypeInv, VisitOK
<1>2. seen.held > 0 => visit.parked >= seen.held /\ Stat \notin visit.left /\ ~Asking(Stat)
  BY DEF HoldInv, Parks
<1>3. seen'.held > 0 => Stat \notin visit'.left /\ ~Asking(Stat)' /\ Parks'
  BY <1>1, <1>2 DEF Parks, Asking
<1>4. Stat \in visit'.left \/ Asking(Stat)' => visit'.parked = 0
  BY DEF HoldInv, Asking
<1>5. seen'.held <= Pause  BY DEF HoldInv
<1>6. ~Idle' /\ (Asking(Stat)' => Stat \notin visit'.left)  BY DEF Idle, Asking
<1> QED  BY <1>3, <1>4, <1>5, <1>6 DEF HoldInv

LEMMA PhaseHolds ==
  ASSUME TypeInv, HoldInv, NEW m \in All,
         NextPhase(m) \/ PhaseOver(m) \/ Answer(m) \/ PageFails(m)
  PROVE  HoldInv'
<1>1. m \notin {"none", "choosing", "closing"} /\ Stat \notin {"none", "choosing", "closing"}
  BY NamesApart DEF All
<1>2. CASE NextPhase(m)
  <2>1. visit.method = "choosing" /\ m \in visit.left /\ seen' = seen
    BY <1>2 DEF NextPhase, Asking
  <2>2. visit'.method = Stat => m = Stat  BY <1>1, <1>2, NextPhaseFacts
  <2> QED  BY <1>1, <1>2, <2>1, <2>2, NextPhaseFacts, SameHold DEF Idle
<1>3. CASE PhaseOver(m)
  <2>1. visit.method = m /\ seen' = seen  BY <1>3 DEF PhaseOver, Asking
  <2> QED  BY <1>1, <1>3, <2>1, PhaseOverFacts, SameHold DEF Idle
<1>4. CASE Answer(m)
  <2>1. visit.method = m /\ seen' = seen  BY <1>4 DEF Answer, Asking
  <2> QED  BY <1>1, <1>4, <2>1, AnswerFacts, SameHold DEF Idle, Kept, Asking, HoldInv
<1>5. CASE PageFails(m)
  <2>1. visit.method = m /\ seen' = seen  BY <1>5 DEF PageFails, Asking
  <2> QED  BY <1>1, <1>5, <2>1, PageFailsFacts, SameHold DEF Idle, Asking, HoldInv
<1> QED  BY <1>2, <1>3, <1>4, <1>5

LEMMA SoftLimitHolds ==
  ASSUME PauseOutlasts, TypeInv, HoldInv, NEW m \in All, SoftLimit(m)
  PROVE  HoldInv'
<1>1. visit.method = m  BY DEF SoftLimit, Asking
<1>2. m \notin {"none", "choosing", "closing"} /\ Stat \notin {"none", "choosing", "closing"}
  BY NamesApart DEF All
<1>3. CASE m = Stat
  <2>1. PICK reset \in Resets : /\ seen'.held = Greatest(seen.held, reset)
                                /\ visit'.parked >= reset
    BY <1>3, SoftLimitFacts
  <2>2. seen.held = 0  BY <1>1, <1>2, <1>3 DEF HoldInv, Idle, Asking, TypeInv
  <2>3. reset \in Nat /\ reset <= Pause  BY RateAssumption DEF PauseOutlasts
  <2>4. seen'.held = reset  BY <2>1, <2>2, <2>3 DEF Greatest
  <2>5. Stat \notin visit'.left /\ visit'.method = "choosing"
    BY <1>1, <1>3, SoftLimitFacts DEF HoldInv, Asking
  <2> QED  BY <1>2, <2>1, <2>3, <2>4, <2>5 DEF HoldInv, Parks, Idle, Asking
<1>4. CASE m # Stat
  BY <1>1, <1>2, <1>4, SoftLimitFacts, SameHold DEF Idle
<1> QED  BY <1>3, <1>4

LEMMA TimeLimitHolds ==
  ASSUME PauseOutlasts, TypeInv, HoldInv, NEW m \in All, TimeLimit(m)
  PROVE  HoldInv'
<1>1. visit.method = m  BY DEF TimeLimit, Asking
<1>2. m \notin {"none", "choosing", "closing"} /\ Stat \notin {"none", "choosing", "closing"}
  BY NamesApart DEF All
<1>3. CASE m = Stat
  <2>1. PICK reset \in Resets \cup {0} :
          /\ seen'.held = Greatest(seen.held, reset)
          /\ visit'.parked # visit.parked => visit'.parked >= reset
          /\ BlockedFor(visit'.reset, visit'.retry) >= reset
    BY <1>3, TimeLimitFacts
  <2>2. seen.held = 0 /\ visit.parked = 0
    BY <1>1, <1>2, <1>3 DEF HoldInv, Idle, Asking, TypeInv
  <2>3. reset \in Nat /\ reset <= Pause  BY RateAssumption, Positive DEF PauseOutlasts
  <2>4. seen'.held = reset  BY <2>1, <2>2, <2>3 DEF Greatest
  <2>5. visit'.left = {} /\ visit'.method = "closing" /\ visit'.error = "429"
    BY <1>3, TimeLimitFacts
  <2>6. Parks'  BY <2>1, <2>2, <2>4, <2>5 DEF Parks
  <2> QED  BY <1>2, <2>3, <2>4, <2>5, <2>6 DEF HoldInv, Idle, Asking
<1>4. CASE m # Stat
  BY <1>1, <1>2, <1>4, TimeLimitFacts, SameHold DEF Idle
<1> QED  BY <1>3, <1>4

LEMMA EndHolds ==
  ASSUME TypeInv, HoldInv,
         PhasesOver \/ \E m \in All : QueryLimit(m) \/ Transport(m)
  PROVE  HoldInv'
<1>1. visit.method \notin {"none", "closing"}
  BY NamesApart DEF PhasesOver, QueryLimit, Transport, Asking
<1>2. Stat \notin {"none", "choosing", "closing"}  BY NamesApart DEF All
<1>3. /\ visit'.method = "closing" /\ visit'.left = {} /\ visit'.parked = visit.parked
      /\ seen' = seen
  BY PhasesOverFacts, ErrorFacts DEF PhasesOver
<1> QED  BY <1>1, <1>2, <1>3, SameHold DEF Idle

LEMMA CloseVisitHolds ==
  ASSUME TypeInv, HoldInv, CloseVisit
  PROVE  HoldInv'
<1>1. /\ visit' = NoVisit /\ NoVisit.method = "none" /\ NoVisit.left = {}
      /\ NoVisit.parked = 0 /\ visit.method = "closing"
  BY NoVisitIsOne DEF CloseVisit, NoVisit, Untroubled, Asking
<1>2. row'.due = DueAfter(visit) /\ seen'.held = seen.held /\ DueAfter(visit) \in Nat
  BY CloseVisitRow, CloseVisitSeen, DelayIsNatural
<1>3. seen.held \in Nat /\ visit.parked \in Nat /\ seen.held <= Pause /\ Pause \in Nat
  BY Positive DEF TypeInv, VisitOK, HoldInv
<1>4. seen.held <= DueAfter(visit)
  <2>1. CASE seen.held = 0
    BY <1>2, <2>1
  <2>2. CASE seen.held > 0 /\ visit.parked >= seen.held
    <3>1. Delay(visit) = visit.parked  BY <1>3, <2>2 DEF Delay, NoDelay
    <3>2. DueAfter(visit) \in {Pause, visit.parked}  BY <3>1 DEF DueAfter
    <3> QED  BY <1>3, <2>2, <3>2
  <2>3. CASE seen.held > 0 /\ ~(visit.parked >= seen.held)
    <3>1. /\ visit.error = "429" /\ visit.parked = 0
          /\ BlockedFor(visit.reset, visit.retry) >= seen.held
      BY <1>1, <2>3 DEF HoldInv, Parks, Idle
    <3>2. DueAfter(visit) = BlockedFor(visit.reset, visit.retry)
      BY <3>1 DEF DueAfter, Delay, NoDelay, Charging
    <3> QED  BY <3>1, <3>2
  <2> QED  BY <1>3, <2>1, <2>2, <2>3
<1>5. Stat # "none"  BY NamesApart DEF All
<1> QED  BY <1>1, <1>2, <1>3, <1>4, <1>5 DEF HoldInv, Idle, Asking

LEMMA OtherHolds ==
  ASSUME TypeInv, HoldInv, Wait \/ OpenVisit \/ CredentialStored \/ Reinstalled \/ Crash
  PROVE  HoldInv'
<1>1. Stat \notin {"none", "choosing", "closing"}  BY NamesApart DEF All
<1>2. seen.held \in Nat /\ row.due \in Nat /\ Pause \in Nat
  BY Positive DEF TypeInv, RowSet
<1>3. CASE Wait
  <2>1. seen.held <= row.due /\ visit' = visit /\ visit.method = "none"
        /\ Stat \notin visit.left
    BY <1>3 DEF Wait, HoldInv, Idle
  <2>2. seen'.held = Elapsed(seen.held, row.due)
    BY <1>3 DEF Wait, TypeInv, IsSeen
  <2>3. row'.due = Elapsed(row.due, row.due)
    BY <1>3 DEF Wait, After, TypeInv, RowSet
  <2>4. seen'.held = 0 /\ row'.due = 0  BY <1>2, <2>1, <2>2, <2>3, ElapsedIsNatural
  <2> QED  BY <1>1, <1>2, <2>1, <2>4 DEF HoldInv, Idle, Asking
<1>4. CASE OpenVisit
  <2>1. seen.held = 0 /\ seen' = seen
    BY <1>2, <1>4 DEF OpenVisit, HoldInv, Idle
  <2> QED  BY <1>1, <1>2, <1>4, <2>1, OpenVisitFacts DEF HoldInv, Idle, Asking, Untroubled
<1>5. CASE CredentialStored \/ Reinstalled \/ Crash
  <2>1. /\ visit' = NoVisit /\ NoVisit.method = "none" /\ NoVisit.left = {}
        /\ NoVisit.parked = 0
    BY <1>5, NoVisitIsOne DEF CredentialStored, Reinstalled, Crash, NoVisit, Untroubled
  <2>2. seen'.held = 0
    BY <1>5, CredentialFacts, CrashFacts, NothingSeenIsOne DEF Reinstalled
  <2>3. row'.due \in Nat
    BY <1>5, CredentialFacts, CrashFacts, FreshRowIsOne DEF Reinstalled, RowSet
  <2> QED  BY <1>1, <1>2, <2>1, <2>2, <2>3 DEF HoldInv, Idle, Asking
<1> QED  BY <1>3, <1>4, <1>5

LEMMA StepHolds ==
  ASSUME PauseOutlasts, TypeInv, HoldInv, [Next]_vars
  PROVE  HoldInv'
<1>1. ASSUME NEW m \in All, NextPhase(m) \/ PhaseOver(m) \/ Asked(m) PROVE HoldInv'
  BY <1>1, PhaseHolds, SoftLimitHolds, TimeLimitHolds, EndHolds DEF Asked
<1>2. CASE UNCHANGED vars
  BY <1>2 DEF vars, HoldInv, Idle, Asking, Parks
<1> QED  BY <1>1, <1>2, OtherHolds, EndHolds, CloseVisitHolds DEF Next

\* The statistics are never asked for before the portal serves them again.
LEMMA StepAsks ==
  ASSUME TypeInv, HoldInv, [Next]_vars, Asking("choosing"), visit'.method = Stat
  PROVE  seen.held = 0
<1>1. Stat \notin {"none", "choosing", "closing"}  BY NamesApart DEF All
<1>2. visit.method = "choosing" /\ seen.held \in Nat  BY DEF Asking, TypeInv
<1>3. ASSUME NEW m \in All, NextPhase(m) PROVE seen.held = 0
  <2>1. m = Stat /\ m \in visit.left  BY <1>1, <1>3, NextPhaseFacts DEF NextPhase
  <2> QED  BY <1>2, <2>1 DEF HoldInv, Idle
<1>4. ASSUME NEW m \in All, PhaseOver(m) \/ Asked(m) PROVE FALSE
  BY <1>2, <1>4, NamesApart DEF Asking, PhaseOver, Asked, Answer, SoftLimit, TimeLimit,
     QueryLimit, Transport, PageFails
<1>5. ~Wait /\ ~OpenVisit /\ ~CloseVisit /\ ~UNCHANGED vars
  BY <1>1, <1>2 DEF Wait, OpenVisit, CloseVisit, Idle, Asking, vars
<1>6. ~PhasesOver /\ ~CredentialStored /\ ~Reinstalled /\ ~Crash
  BY <1>1, PhasesOverFacts, NoVisitIsOne DEF CredentialStored, Reinstalled, Crash
<1> QED  BY <1>3, <1>4, <1>5, <1>6 DEF Next

\* After the portal has announced when it will serve the statistics again, no
\* visit asks for them before, whatever else the visit met.
THEOREM BlockIsWaitedOut ==
  ASSUME PauseOutlasts
  PROVE  Spec => StatBlockHeld
<1>1. TypeInv /\ HoldInv /\ [Next]_vars
        => [Asking("choosing") /\ visit'.method = Stat => seen.held = 0]_vars
  BY StepAsks
<1>2. TypeInv /\ HoldInv /\ [Next]_vars => HoldInv'  BY StepHolds
<1>3. Spec => []TypeInv  BY InitTypes, StepTypes, PTL DEF Spec
<1>4. Spec => [](TypeInv /\ HoldInv)  BY <1>2, <1>3, InitHolds, PTL DEF Spec
<1> QED  BY <1>1, <1>4, PTL DEF Spec, StatBlockHeld

-----------------------------------------------------------------------------
(* What a visit holds when it closes was told to it. *)

\* Every delay of the visit v has been announced, to it or to the visits before.
Told(v) ==
  /\ v.reset \in Resets \cup {visit.reset}
  /\ v.parked \in {visit.parked, v.reset + Grace}
  /\ v.retry \in RetryAfters \cup {0, visit.retry}

\* The streak and the charges are counted when the visit closes.
NothingCounted == seen'.streak = seen.streak /\ seen'.charged = seen.charged

LEMMA ObservedTells ==
  ASSUME VisitOK(visit), NEW m \in All, NEW op \in Readings, NEW reset \in Resets \cup {0},
         NEW v, v = Observed(m, op, reset)
  PROVE  VisitOK(v) /\ Told(v) /\ v.error = visit.error
<1>1. reset \in Nat /\ (reset > 0 => reset \in Resets)  BY RateAssumption
<1>2. CASE m = Stat
  <2>1. v = ObservedStat(op, reset)  BY <1>2 DEF Observed
  <2> QED  BY <1>1, <2>1, ObservedStatFacts DEF Told, Kept
<1>3. CASE m # Stat
  <2>1. m \in Method /\ v = ObservedOther(m, op, reset)  BY <1>3 DEF Observed, All
  <2> QED  BY <1>1, <2>1, ObservedOtherFacts DEF Told, Kept
<1> QED  BY <1>2, <1>3

LEMMA HeldCountsNothing ==
  ASSUME IsSeen(seen), NEW m, NEW reset, NEW s, s = Held(m, reset)
  PROVE  IsSeen(s) /\ s.streak = seen.streak /\ s.charged = seen.charged
BY DEF Held, IsSeen

LEMMA SoftLimitTells ==
  ASSUME TypeInv, NEW m \in All, SoftLimit(m)
  PROVE  Told(visit') /\ NothingCounted /\ visit'.error = visit.error
<1>1. PICK op \in Readings, reset \in Resets :
        /\ visit' = [Observed(m, op, reset) EXCEPT !.method = "choosing"]
        /\ seen' = Held(m, reset)
  BY DEF SoftLimit
<1>2. PICK v : v = Observed(m, op, reset)  OBVIOUS
<1>3. VisitOK(v) /\ Told(v) /\ v.error = visit.error  BY <1>2, ObservedTells DEF TypeInv
<1>4. visit' = [v EXCEPT !.method = "choosing"]  BY <1>1, <1>2
<1>5. visit'.parked = v.parked /\ visit'.reset = v.reset /\ visit'.retry = v.retry
      /\ visit'.error = v.error
  BY <1>3, <1>4 DEF VisitOK, IsVisit
<1>6. NothingCounted  BY <1>1, HeldCountsNothing DEF TypeInv, NothingCounted
<1> QED  BY <1>3, <1>5, <1>6 DEF Told

LEMMA TimeLimitTells ==
  ASSUME TypeInv, NEW m \in All, TimeLimit(m)
  PROVE  Told(visit') /\ NothingCounted /\ visit'.error \in {"429", visit.error}
<1>1. PICK retry \in RetryAfters \cup {0}, op \in Readings, measured \in BOOLEAN :
        \E reset \in IF measured THEN Resets ELSE {0} :
          /\ \E v \in {IF measured THEN Observed(m, op, reset) ELSE visit} :
               IF m = Stat THEN Closes(v, "429", retry) ELSE MethodBlocks(v, m, reset, retry)
          /\ seen' = [Held(m, reset) EXCEPT !.evidence =
                        @ \/ (m = Stat /\ measured /\ Ours(op, row.limit))]
  BY DEF TimeLimit
<1>2. PICK reset \in IF measured THEN Resets ELSE {0} :
        /\ \E v \in {IF measured THEN Observed(m, op, reset) ELSE visit} :
             IF m = Stat THEN Closes(v, "429", retry) ELSE MethodBlocks(v, m, reset, retry)
        /\ seen' = [Held(m, reset) EXCEPT !.evidence =
                      @ \/ (m = Stat /\ measured /\ Ours(op, row.limit))]
  BY <1>1
<1>3. reset \in Resets \cup {0} /\ reset \in Nat /\ retry \in Nat
  BY RateAssumption
<1>4. PICK v : /\ v = (IF measured THEN Observed(m, op, reset) ELSE visit)
               /\ IF m = Stat THEN Closes(v, "429", retry)
                  ELSE MethodBlocks(v, m, reset, retry)
  BY <1>2
<1>5. VisitOK(v) /\ Told(v) /\ v.error = visit.error
  <2>1. CASE measured  BY <1>3, <1>4, <2>1, ObservedTells DEF TypeInv
  <2>2. CASE ~measured  BY <1>4, <2>2 DEF TypeInv, Told
  <2> QED  BY <2>1, <2>2
<1>6. NothingCounted
  <2>1. PICK s : s = Held(m, reset)  OBVIOUS
  <2>2. PICK e : seen' = [s EXCEPT !.evidence = e]  BY <1>2, <2>1, Zenon
  <2> QED  BY <2>1, <2>2, HeldCountsNothing DEF TypeInv, NothingCounted, IsSeen
<1>7. CASE m = Stat
  BY <1>3, <1>4, <1>5, <1>6, <1>7, ClosesFacts DEF Errors, Told
<1>8. CASE m # Stat
  <2>1. m \in Method  BY <1>8 DEF All
  <2>2. visit'.parked = v.parked /\ visit'.reset = v.reset /\ visit'.retry = v.retry
        /\ visit'.error = v.error
    BY <1>3, <1>4, <1>5, <1>8, <2>1, MethodBlocksFacts
  <2> QED  BY <1>5, <1>6, <2>2 DEF Told
<1> QED  BY <1>7, <1>8

LEMMA ClosesTells ==
  ASSUME VisitOK(visit), NEW error \in Errors, NEW retry \in RetryAfters \cup {0},
         Closes(visit, error, retry)
  PROVE  Told(visit') /\ visit'.error = error
<1>1. retry \in Nat  BY RateAssumption
<1> QED  BY <1>1, ClosesFacts DEF Told

\* Whatever a visit asks for, it changes neither the rows nor the counts.
LEMMA AskedTells ==
  ASSUME TypeInv, NEW m \in All, NextPhase(m) \/ PhaseOver(m) \/ Asked(m)
  PROVE  /\ Looking /\ Told(visit') /\ NothingCounted
         /\ visit.method # "none" /\ visit'.method # "none"
         /\ trouble' \in {trouble, trouble + 1}
         /\ visit'.error = "503" => visit.error = "503" \/ trouble' = trouble + 1
<1>0. m \notin {"none", "choosing", "closing"}  BY NamesApart
<1>1. CASE NextPhase(m)
  <2>1. \E method \in {"choosing", m} : visit' = [visit EXCEPT !.left = @ \ {m}, !.method = method]
    BY <1>1 DEF NextPhase
  <2> QED  BY <1>0, <1>1, <2>1 DEF NextPhase, TypeInv, VisitOK, IsVisit, Told, Looking,
              NothingCounted, Asking
<1>2. CASE PhaseOver(m)
  BY <1>0, <1>2 DEF PhaseOver, TypeInv, VisitOK, IsVisit, Told, Looking, NothingCounted, Asking
<1>3. CASE Answer(m)
  <2>1. PICK op \in Readings, reset \in Resets : visit' = Observed(m, op, reset)
    BY <1>3 DEF Answer
  <2>2. Told(visit') /\ visit'.error = visit.error
    BY <2>1, ObservedTells DEF TypeInv
  <2>3. visit'.method = visit.method  BY <1>3, AnswerFacts DEF Kept
  <2> QED  BY <1>0, <1>3, <2>2, <2>3 DEF Answer, Looking, NothingCounted, Asking
<1>4. CASE SoftLimit(m)
  BY <1>0, <1>4, SoftLimitTells, SoftLimitFacts DEF SoftLimit, Looking, Troubled, Asking
<1>5. CASE TimeLimit(m)
  <2>1. visit'.method \in {"choosing", "closing"}  BY <1>5, TimeLimitFacts
  <2> QED  BY <1>0, <1>5, <2>1, TimeLimitTells DEF TimeLimit, Looking, Troubled, Asking
<1>6. CASE QueryLimit(m) \/ Transport(m)
  <2>1. PICK error \in {"503", "transport"}, retry \in RetryAfters \cup {0} :
          Closes(visit, error, retry)
    BY <1>6 DEF QueryLimit, Transport
  <2>2. error \in Errors  BY DEF Errors
  <2>3. Told(visit')  BY <2>1, <2>2, ClosesTells DEF TypeInv
  <2> QED  BY <1>0, <1>6, <2>3, ErrorFacts DEF QueryLimit, Transport, NothingCounted, Troubled,
              Asking
<1>7. CASE PageFails(m)
  <2>1. visit' = [visit EXCEPT !.soft = TRUE]  BY <1>7 DEF PageFails
  <2>2. /\ visit'.method = visit.method /\ visit'.parked = visit.parked
        /\ visit'.error = visit.error /\ visit'.retry = visit.retry /\ visit'.reset = visit.reset
    BY <2>1 DEF TypeInv, VisitOK, IsVisit
  <2> QED  BY <1>0, <1>7, <2>2 DEF PageFails, Told, Looking, NothingCounted, Troubled, Asking
<1> QED  BY <1>1, <1>2, <1>3, <1>4, <1>5, <1>6, <1>7 DEF Asked

LEMMA PhasesOverTells ==
  ASSUME TypeInv, PhasesOver
  PROVE  /\ Looking /\ Told(visit') /\ NothingCounted
         /\ visit.method # "none" /\ visit'.method = "closing"
         /\ trouble' = trouble /\ visit'.error # "503"
<1>1. PICK error \in {"page", "none"} : Closes(visit, error, 0)
  BY DEF PhasesOver
<1>2. error \in Errors  BY DEF Errors
<1>3. Told(visit') /\ visit'.error = error  BY <1>1, <1>2, ClosesTells DEF TypeInv
<1> QED  BY <1>3, PhasesOverFacts DEF PhasesOver, Looking, NothingCounted, Asking

-----------------------------------------------------------------------------
(* What the ends of a visit count. *)

LEMMA OpenVisitReads ==
  ASSUME TypeInv, OpenVisit
  PROVE  /\ visit'.reset = row.reset /\ visit'.retry = 0 /\ visit'.parked = 0
         /\ visit'.error = "none"
BY DEF OpenVisit, NoVisit, NoDelay

LEMMA NoVisitHolds ==
  /\ NoVisit.method = "none" /\ NoVisit.reset = 0 /\ NoVisit.retry = 0 /\ NoVisit.parked = 0
  /\ NoVisit.error = "none"
BY DEF NoVisit, NoDelay

LEMMA CloseVisitCounts ==
  ASSUME TypeInv, CloseVisit
  PROVE  /\ row'.reset = visit.reset
         /\ row'.park = (IF visit.error = "none" THEN 0 ELSE DueAfter(visit))
         /\ seen'.streak = CountedStreak(visit)
         /\ seen'.charged = (IF visit.error = "none" THEN 0
                             ELSE IF Charging(visit.error) THEN seen.charged + 1
                             ELSE seen.charged)
         /\ visit' = NoVisit /\ trouble' = trouble
<1>1. row'.reset = visit.reset
      /\ row'.park = (IF visit.error = "none" THEN 0 ELSE DueAfter(visit))
  BY DEF CloseVisit
<1> DEFINE charged == IF visit.error = "none" THEN 0
                      ELSE IF Charging(visit.error) THEN seen.charged + 1 ELSE seen.charged
<1>2. seen' = [seen EXCEPT !.streak = CountedStreak(visit), !.limited = FALSE,
                           !.evidence = FALSE, !.charged = charged]
  BY Zenon DEF CloseVisit
<1> HIDE DEF charged
<1>3. seen'.streak = CountedStreak(visit) /\ seen'.charged = charged
  BY <1>2 DEF TypeInv, IsSeen
<1> QED  BY <1>1, <1>3 DEF CloseVisit, charged

LEMMA CredentialCounts ==
  ASSUME TypeInv, CredentialStored
  PROVE  /\ row'.reset = row.reset /\ row'.code = row.code
         /\ seen'.charged = seen.charged
         /\ seen'.streak = (IF row.code = "503" THEN -1 ELSE 0)
<1>1. PICK limit \in {row.limit, DefaultLimit} :
        row' = [row EXCEPT !.due = 0, !.park = Elapsed(@, row.due), !.limit = limit]
  BY DEF CredentialStored
<1>2. row'.reset = row.reset /\ row'.code = row.code  BY <1>1 DEF TypeInv, RowSet
<1> QED  BY <1>2 DEF CredentialStored, NothingSeen

LEMMA CrashCounts ==
  ASSUME TypeInv, Crash
  PROVE  /\ row'.reset = Elapsed(row.reset, LeaseSeconds) /\ row'.due = row.due
         /\ seen'.charged = seen.charged + 1 /\ seen'.streak = 0
<1>1. row' = [row EXCEPT !.failures = @ + 1, !.code = "lease_expired", !.park = 0,
                         !.reset = Elapsed(@, LeaseSeconds)]
  BY Zenon DEF Crash
<1>2. row'.reset = Elapsed(row.reset, LeaseSeconds) /\ row'.due = row.due
  BY <1>1 DEF TypeInv, RowSet
<1> QED  BY <1>2 DEF Crash, NothingSeen

LEMMA WaitCounts ==
  ASSUME TypeInv, Wait
  PROVE  /\ row'.reset \in Nat /\ row'.reset <= row.reset /\ row'.code = row.code
         /\ row'.failures = row.failures /\ row'.park = row.park /\ NothingCounted
         /\ visit' = visit /\ trouble' = trouble
<1>1. row' = [row EXCEPT !.due = Elapsed(@, row.due), !.reset = Elapsed(@, row.due)]
  BY DEF Wait, After
<1>2. /\ row'.reset = Elapsed(row.reset, row.due) /\ row'.code = row.code
      /\ row'.failures = row.failures /\ row'.park = row.park
      /\ row.reset \in Nat /\ row.due \in Nat
  BY <1>1 DEF TypeInv, RowSet
<1>3. NothingCounted /\ visit' = visit /\ trouble' = trouble
  BY DEF Wait, NothingCounted, TypeInv, IsSeen
<1> QED  BY <1>2, <1>3, ElapsedIsNatural

-----------------------------------------------------------------------------
(* The pause is earned. *)

\* The pause is six hours; an interval, a rung of either ladder and what a
\* portal may announce (Retry-After is cut to an hour) are shorter.
PauseStandsOut ==
  /\ Interval < Pause /\ MaxBackoff < Pause /\ FailureMax < Pause
  /\ \A reset \in Resets \cup {0} : reset + Grace < Pause
  /\ \A retry \in RetryAfters : retry < Pause

\* What is charged is what the failure counter of the row says; and no delay
\* the visit holds is as long as the pause.
PauseInv ==
  /\ seen.charged = row.failures
  /\ row.reset + Grace < Pause
  /\ visit.reset + Grace < Pause /\ visit.parked < Pause /\ visit.retry < Pause
  /\ visit.method # "none" => row.due = 0

LEMMA InitPauses == ASSUME PauseStandsOut PROVE Init => PauseInv
BY NoVisitHolds, Positive DEF Init, PauseInv, PauseStandsOut, FreshRow, NothingSeen

LEMMA FailuresAreCharged ==
  ASSUME TypeInv, PauseInv, CloseVisit
  PROVE  seen'.charged = FailuresAfter(visit) /\ row'.failures = FailuresAfter(visit)
<1>1. visit.error \in {"none", "429", "503", "transport", "page"}
  BY DEF TypeInv, VisitOK, Errors
<1>2. Throttling(visit.error) \/ Charging(visit.error) \/ visit.error = "none"
  BY <1>1 DEF Throttling, Charging
<1>3. ~(Throttling(visit.error) /\ Charging(visit.error))  BY DEF Throttling, Charging
<1>4. row'.failures = FailuresAfter(visit)  BY CloseVisitRow
<1> QED  BY <1>2, <1>3, <1>4, CloseVisitCounts DEF FailuresAfter, PauseInv

\* A visit that tells of its delays, and leaves the rows, keeps the pause apart.
LEMMA ToldIsShort ==
  ASSUME PauseStandsOut, TypeInv, PauseInv, Looking, Told(visit'), NothingCounted,
         visit.method # "none"
  PROVE  PauseInv'
<1>1. /\ visit.reset \in Nat /\ visit.parked \in Nat /\ visit.retry \in Nat
      /\ Grace \in Nat /\ Pause \in Nat \ {0} /\ Resets \subseteq Nat /\ RetryAfters \subseteq Nat
  BY Positive, RateAssumption DEF TypeInv, VisitOK
<1>2. visit'.reset \in Nat /\ visit'.reset + Grace < Pause
  BY <1>1 DEF Told, PauseStandsOut, PauseInv
<1>3. visit'.parked < Pause  BY <1>1, <1>2 DEF Told, PauseInv
<1>4. visit'.retry < Pause
  <2>1. visit'.retry \in RetryAfters \/ visit'.retry = 0 \/ visit'.retry = visit.retry
    BY DEF Told
  <2>2. CASE visit'.retry \in RetryAfters  BY <2>2 DEF PauseStandsOut
  <2>3. CASE visit'.retry = 0  BY <1>1, <2>3
  <2>4. CASE visit'.retry = visit.retry  BY <2>4 DEF PauseInv
  <2> QED  BY <2>1, <2>2, <2>3, <2>4
<1> QED  BY <1>2, <1>3, <1>4 DEF PauseInv, Looking, NothingCounted

LEMMA PauseStep ==
  ASSUME PauseStandsOut, TypeInv, PauseInv, [Next]_vars
  PROVE  PauseInv'
<1>1. ASSUME NEW m \in All, NextPhase(m) \/ PhaseOver(m) \/ Asked(m) PROVE PauseInv'
  BY <1>1, AskedTells, ToldIsShort
<1>2. CASE PhasesOver  BY <1>2, PhasesOverTells, ToldIsShort
<1>3. /\ row.reset \in Nat /\ visit.reset \in Nat /\ row.failures \in Nat
      /\ Grace \in Nat /\ Pause \in Nat \ {0} /\ LeaseSeconds \in Nat
      /\ 0 + Grace < Pause
  BY Positive DEF TypeInv, VisitOK, RowSet, PauseStandsOut
<1>4. CASE Wait
  <2>1. visit.method = "none"  BY <1>4 DEF Wait, Idle
  <2> QED  BY <1>3, <1>4, <2>1, WaitCounts DEF PauseInv, NothingCounted
<1>5. CASE OpenVisit
  <2>1. row' = row /\ seen' = seen /\ row.due = 0  BY <1>5 DEF OpenVisit
  <2> QED  BY <1>3, <1>5, <2>1, OpenVisitReads DEF PauseInv
<1>6. CASE CloseVisit
  BY <1>3, <1>6, CloseVisitCounts, FailuresAreCharged, NoVisitHolds DEF PauseInv
<1>7. CASE CredentialStored
  <2>1. visit' = NoVisit  BY <1>7 DEF CredentialStored
  <2> QED  BY <1>3, <1>7, <2>1, CredentialCounts, CredentialFacts, NoVisitHolds DEF PauseInv
<1>8. CASE Reinstalled
  <2>1. visit' = NoVisit /\ row' = FreshRow /\ seen' = NothingSeen  BY <1>8 DEF Reinstalled
  <2> QED  BY <1>3, <2>1, NoVisitHolds DEF PauseInv, FreshRow, NothingSeen
<1>9. CASE Crash
  <2>1. visit' = NoVisit  BY <1>9 DEF Crash
  <2>2. row'.reset \in Nat /\ row'.reset <= row.reset
    BY <1>3, <1>9, CrashCounts, ElapsedIsNatural
  <2> QED  BY <1>3, <1>9, <2>1, <2>2, CrashCounts, CrashFacts, NoVisitHolds DEF PauseInv
<1>10. CASE UNCHANGED vars  BY <1>10 DEF vars, PauseInv
<1> QED  BY <1>1, <1>2, <1>4, <1>5, <1>6, <1>7, <1>8, <1>9, <1>10 DEF Next

\* Only a visit that has reached the count is followed by the pause.
LEMMA ShortUnlessFailing ==
  ASSUME PauseStandsOut, TypeInv, PauseInv, visit.method = "closing", DueAfter(visit) = Pause
  PROVE  Charging(visit.error) /\ FailuresAfter(visit) >= FailuresBeforePause
<1> SUFFICES ASSUME ~(Charging(visit.error) /\ FailuresAfter(visit) >= FailuresBeforePause)
             PROVE  FALSE
  OBVIOUS
<1>1. /\ visit.reset \in Nat /\ visit.parked \in Nat /\ visit.retry \in Nat
      /\ Grace \in Nat /\ Pause \in Nat \ {0} /\ row.failures \in Nat
      /\ row.failures <= trouble /\ trouble \in 0..30
  BY Positive, RateAssumption DEF TypeInv, VisitOK, RowSet, ChargeInv
<1>2. DueAfter(visit) = Delay(visit)  BY DEF DueAfter
<1>3. BlockedFor(visit.reset, visit.retry) # Pause
  BY <1>1 DEF BlockedFor, ResumeIn, Greatest, PauseInv
<1>4. BackOff(visit.retry, Attempt) # Pause
  <2>1. Attempt \in 0..30 /\ BaseBackoff \in Nat \ {0} /\ MaxBackoff \in Nat \ {0}
        /\ BaseBackoff <= MaxBackoff
    BY AttemptIsNatural, Positive DEF TypeInv
  <2>2. Times(BaseBackoff, Attempt, MaxBackoff) \in Nat
    BY <2>1, TimesIsNatural
  <2>3. Times(BaseBackoff, Attempt, MaxBackoff) <= MaxBackoff
    <3>1. PICK n : n = BaseBackoff * 2 ^ Least(Attempt, 32)  OBVIOUS
    <3>2. Least(Attempt, 32) \in 0..30  BY <2>1 DEF Least
    <3>3. 2 ^ Least(Attempt, 32) \in Nat  BY <3>2, PowerAssumption
    <3>4. n \in Nat  BY <2>1, <3>1, <3>3
    <3>5. Times(BaseBackoff, Attempt, MaxBackoff) = Least(MaxBackoff, n)
      BY <3>1 DEF Times
    <3> QED  BY <2>1, <3>4, <3>5 DEF Least
  <2>4. PICK rung \in Nat : rung = Times(BaseBackoff, Attempt, MaxBackoff)  BY <2>2
  <2>5. BackOff(visit.retry, Attempt)
          = Greatest(BaseBackoff, IF visit.retry > 0 THEN visit.retry ELSE rung)
    BY <2>4 DEF BackOff
  <2> QED  BY <1>1, <2>1, <2>3, <2>4, <2>5 DEF Greatest, PauseInv, PauseStandsOut
<1>5. Charging(visit.error) => FailureDelay(row.failures + 1) # Pause
  <2> SUFFICES ASSUME Charging(visit.error) PROVE FailureDelay(row.failures + 1) # Pause
    OBVIOUS
  <2>1. FailuresAfter(visit) = row.failures + 1
    BY DEF FailuresAfter, Charging, Throttling
  <2>2. ~(row.failures + 1 >= FailuresBeforePause)  BY <2>1
  <2>3. FailureDelay(row.failures + 1) = Times(FailureBase, row.failures, FailureMax)
    BY <1>1, <2>2 DEF FailureDelay
  <2>4. PICK n : n = FailureBase * 2 ^ Least(row.failures, 32)  OBVIOUS
  <2>5. Least(row.failures, 32) \in 0..30  BY <1>1 DEF Least
  <2>6. 2 ^ Least(row.failures, 32) \in Nat  BY <2>5, PowerAssumption
  <2>7. n \in Nat /\ FailureMax \in Nat  BY <2>4, <2>6, Positive
  <2>8. Times(FailureBase, row.failures, FailureMax) = Least(FailureMax, n)
    BY <2>4 DEF Times
  <2> QED  BY <1>1, <2>3, <2>7, <2>8 DEF Least, PauseStandsOut
<1>6. Interval # Pause /\ visit.parked # Pause
  BY <1>1, Positive DEF PauseStandsOut, PauseInv
<1>7. \/ Delay(visit) \in {visit.parked, BlockedFor(visit.reset, visit.retry),
                           BackOff(visit.retry, Attempt), Interval}
      \/ Charging(visit.error) /\ Delay(visit) = FailureDelay(row.failures + 1)
  <2>1. CASE visit.parked # NoDelay  BY <2>1 DEF Delay
  <2>2. CASE visit.parked = NoDelay /\ Charging(visit.error)
    BY <2>2 DEF Delay, Charging
  <2>3. CASE visit.parked = NoDelay /\ ~Charging(visit.error)
    BY <2>3, Zenon DEF Delay
  <2> QED  BY <2>1, <2>2, <2>3
<1> QED  BY <1>2, <1>3, <1>4, <1>5, <1>6, <1>7

LEMMA StepPauses ==
  ASSUME PauseStandsOut, TypeInv, PauseInv, [Next]_vars, visit.method = "closing",
         row'.due = Pause
  PROVE  seen'.charged >= FailuresBeforePause
<1>0. row.due = 0 /\ Pause # 0  BY Positive DEF PauseInv
<1>1. CASE CloseVisit
  BY <1>1, CloseVisitRow, FailuresAreCharged, ShortUnlessFailing
<1>2. row' # row  BY <1>0
<1>3. ASSUME NEW m \in All, NextPhase(m) \/ PhaseOver(m) \/ Asked(m) PROVE FALSE
  BY <1>2, <1>3, AskedTells DEF Looking
<1>4. ~PhasesOver /\ ~OpenVisit /\ ~Wait /\ ~UNCHANGED vars
  BY <1>2 DEF PhasesOver, OpenVisit, Wait, Idle, vars
<1>5. ~CredentialStored /\ ~Reinstalled /\ ~Crash
  BY <1>0, CredentialFacts, FreshRowIsOne, CrashCounts DEF Reinstalled
<1> QED  BY <1>1, <1>3, <1>4, <1>5 DEF Next

\* throttle.py 559-566, lease.py 290-296: only failures, and as many as it
\* takes, make a portal wait for six hours.
THEOREM PausesAreEarned ==
  ASSUME PauseStandsOut
  PROVE  Spec => PauseIsEarned
<1>1. TypeInv /\ PauseInv /\ [Next]_vars
        => [visit.method = "closing" /\ row'.due = Pause
              => seen'.charged >= FailuresBeforePause]_vars
  BY StepPauses
<1>2. TypeInv /\ PauseInv /\ [Next]_vars => PauseInv'  BY PauseStep
<1>3. Init => PauseInv  BY InitPauses
<1>4. Spec => []TypeInv  BY InitTypes, StepTypes, PTL DEF Spec
<1>5. Spec => [](TypeInv /\ PauseInv)  BY <1>2, <1>3, <1>4, PTL DEF Spec
<1> QED  BY <1>1, <1>5, PTL DEF Spec, PauseIsEarned

-----------------------------------------------------------------------------
(* The ladder is climbed one rung at a time. *)

LEMMA SomeLeast ==
  ASSUME NEW S \in SUBSET Nat, S # {}
  PROVE  \E x \in S : \A y \in S : x <= y
<1>1. PICK x \in S : \A y \in S : ~ (<<y, x>> \in OpToRel(<, Nat))
  BY WFMin, NatLessThanWellFounded
<1>2. \A y \in S : ~ (y < x)  BY <1>1 DEF OpToRel
<1> QED  BY <1>2

LEMMA PowersGrow ==
  ASSUME NEW m \in 0..30, NEW n \in 0..30, m < n
  PROVE  2 * 2 ^ m <= 2 ^ n
<1> DEFINE S == {k \in (m + 1)..30 : ~(2 * 2 ^ m <= 2 ^ k)}
<1>0. n \in (m + 1)..30  OBVIOUS
<1> SUFFICES ASSUME S # {} PROVE FALSE
  BY <1>0
<1>1. S \in SUBSET Nat  OBVIOUS
<1>2. PICK k \in S : \A j \in S : k <= j
  <2> HIDE DEF S
  <2> QED  BY <1>1, SomeLeast
<1>3. k \in (m + 1)..30 /\ ~(2 * 2 ^ m <= 2 ^ k)  OBVIOUS
<1>4. 2 ^ m \in Nat /\ 2 ^ k \in Nat
  <2>1. k \in 0..30  BY <1>3
  <2> HIDE DEF S
  <2> QED  BY <2>1, PowerAssumption
<1>5. k # m + 1
  <2> SUFFICES ASSUME k = m + 1 PROVE FALSE  OBVIOUS
  <2>1. m \in 0..29  BY <1>3
  <2>2. 2 ^ (m + 1) = 2 * 2 ^ m  BY <2>1, PowerAssumption
  <2> QED  BY <1>3, <1>4, <2>2
<1>6. PICK j : j = k - 1  OBVIOUS
<1>7. j \in (m + 1)..30 /\ j \in 0..29 /\ j + 1 = k /\ j < k  BY <1>3, <1>5, <1>6
<1>8. j \notin S
  <2> HIDE DEF S
  <2> QED  BY <1>2, <1>7
<1>9. 2 * 2 ^ m <= 2 ^ j  BY <1>7, <1>8
<1>10. 2 ^ (j + 1) = 2 * 2 ^ j /\ 2 ^ j \in Nat
  <2>1. j \in 0..29 /\ j \in 0..30  BY <1>7
  <2> HIDE DEF S
  <2> QED  BY <2>1, PowerAssumption
<1> QED  BY <1>3, <1>4, <1>7, <1>9, <1>10

\* Seconds on the ladder: 2 at first, and 300 at most; nine doublings reach it.
LadderReaches == MaxBackoff <= BaseBackoff * 2 ^ 9

Rung(streak) == Least(MaxBackoff, BaseBackoff * 2 ^ (streak - 1))

\* A visit that met a 503 above a rung of the ladder waits the next one.
LEMMA NextRung ==
  ASSUME LadderReaches, NEW streak \in 1..30, row \in RowSet, row.code = "503",
         row.park = Rung(streak)
  PROVE  Times(BaseBackoff, Attempt, MaxBackoff) = Rung(streak + 1)
<1>1. /\ BaseBackoff \in Nat \ {0} /\ MaxBackoff \in Nat \ {0} /\ row.park \in Nat
  BY Positive DEF RowSet
<1>2. PICK power : power = 2 ^ (streak - 1)  OBVIOUS
<1>3. power \in Nat \ {0} /\ 2 ^ (streak + 1 - 1) = 2 * power
  <2>1. streak - 1 \in 0..29 /\ streak - 1 \in 0..30 /\ streak + 1 - 1 = (streak - 1) + 1
    OBVIOUS
  <2> QED  BY <1>2, <2>1, PowerAssumption
<1>4. PICK rung : rung = RungOf(row.park)  OBVIOUS
<1>5. /\ rung \in 0..8
      /\ \A t \in 0..(rung - 1) : 3 * BaseBackoff * 2 ^ t < 2 * row.park
      /\ rung = 8 \/ 3 * BaseBackoff * 2 ^ rung >= 2 * row.park
  BY <1>1, <1>4, RungIsClosest
<1>6. Attempt = rung + 1  BY <1>4 DEF Attempt
<1>7. PICK here : here = 2 ^ rung  OBVIOUS
<1>8. here \in Nat \ {0} /\ 2 ^ (rung + 1) = 2 * here
  <2>1. rung \in 0..29 /\ rung \in 0..30  BY <1>5
  <2> QED  BY <1>7, <2>1, PowerAssumption
<1>9. Times(BaseBackoff, Attempt, MaxBackoff) = Least(MaxBackoff, BaseBackoff * (2 * here))
  <2>1. Least(rung + 1, 32) = rung + 1  BY <1>5 DEF Least
  <2> QED  BY <1>6, <1>8, <2>1 DEF Times
<1>10. Rung(streak + 1) = Least(MaxBackoff, BaseBackoff * (2 * power))  BY <1>3 DEF Rung
<1>11. row.park = Least(MaxBackoff, BaseBackoff * power)  BY <1>2 DEF Rung
<1>12. PICK low \in Nat, high \in Nat :
         /\ low = BaseBackoff * power /\ high = BaseBackoff * here
         /\ BaseBackoff * (2 * power) = 2 * low /\ BaseBackoff * (2 * here) = 2 * high
         /\ 3 * BaseBackoff * here = 3 * high
  <2>1. BaseBackoff * power \in Nat /\ BaseBackoff * here \in Nat  BY <1>1, <1>3, <1>8
  <2>2. /\ BaseBackoff * (2 * power) = 2 * (BaseBackoff * power)
        /\ BaseBackoff * (2 * here) = 2 * (BaseBackoff * here)
        /\ 3 * BaseBackoff * here = 3 * (BaseBackoff * here)
    BY <1>1, <1>3, <1>8
  <2> QED  BY <2>1, <2>2
<1>13. CASE low >= MaxBackoff
  <2>1. row.park = MaxBackoff  BY <1>1, <1>11, <1>12, <1>13 DEF Least
  <2>2. 2 * high >= MaxBackoff
    <3>1. CASE rung = 8
      <4>1. 2 ^ 9 = 2 * here  BY <1>8, <3>1
      <4> QED  BY <1>12, <4>1 DEF LadderReaches
    <3>2. CASE rung # 8
      <4>1. 3 * high >= 2 * MaxBackoff  BY <1>5, <1>7, <1>12, <2>1, <3>2
      <4> QED  BY <1>1, <1>12, <4>1
    <3> QED  BY <3>1, <3>2
  <2> QED  BY <1>1, <1>9, <1>10, <1>12, <1>13, <2>2 DEF Least
<1>14. CASE low < MaxBackoff
  <2>1. row.park = low  BY <1>1, <1>11, <1>12, <1>14 DEF Least
  <2>2. streak - 1 <= 8
    <3> SUFFICES ASSUME streak - 1 > 8 PROVE FALSE  OBVIOUS
    <3>1. power >= 2 ^ 9
      <4>1. CASE streak - 1 = 9  BY <1>2, <1>3, <4>1
      <4>2. CASE streak - 1 > 9
        <5>1. 9 \in 0..30 /\ streak - 1 \in 0..30 /\ 9 < streak - 1  BY <4>2
        <5>2. 2 * 2 ^ 9 <= 2 ^ (streak - 1)  BY <5>1, PowersGrow
        <5>3. 2 ^ 9 \in Nat  BY PowerAssumption
        <5> QED  BY <1>2, <1>3, <5>2, <5>3
      <4> QED  BY <4>1, <4>2
    <3>2. BaseBackoff * power >= BaseBackoff * 2 ^ 9
      <4>1. PICK q \in Nat : q = 2 ^ 9  BY PowerAssumption
      <4>2. power >= q  BY <3>1, <4>1
      <4>3. BaseBackoff * power >= BaseBackoff * q  BY <1>1, <1>3, <4>2
      <4> QED  BY <4>1, <4>3
    <3>3. BaseBackoff * 2 ^ 9 \in Nat
      <4>1. 2 ^ 9 \in Nat  BY PowerAssumption
      <4> QED  BY <1>1, <4>1
    <3> QED  BY <1>1, <1>12, <1>14, <3>2, <3>3 DEF LadderReaches
  <2>3. ~(rung > streak - 1)
    <3> SUFFICES ASSUME rung > streak - 1 PROVE FALSE  OBVIOUS
    <3>1. streak - 1 \in 0..(rung - 1)  BY <1>5
    <3>2. 3 * BaseBackoff * 2 ^ (streak - 1) < 2 * row.park  BY <1>5, <3>1
    <3>3. 3 * BaseBackoff * power = 3 * low  BY <1>1, <1>3, <1>12
    <3> QED  BY <1>2, <1>12, <2>1, <3>2, <3>3
  <2>4. ~(rung < streak - 1)
    <3> SUFFICES ASSUME rung < streak - 1 PROVE FALSE  OBVIOUS
    <3>1. rung \in 0..30 /\ streak - 1 \in 0..30 /\ rung # 8  BY <1>5, <2>2
    <3>2. 2 * here <= power  BY <1>2, <1>7, <3>1, PowersGrow
    <3>3. BaseBackoff * (2 * here) <= BaseBackoff * power  BY <1>1, <1>3, <1>8, <3>2
    <3>4. 2 * high <= low  BY <1>12, <3>3
    <3>5. 3 * high >= 2 * low  BY <1>5, <1>7, <1>12, <2>1, <3>1
    <3>6. high > 0  BY <1>1, <1>8, <1>12
    <3> QED  BY <1>12, <3>4, <3>5, <3>6
  <2>5. rung = streak - 1  BY <1>5, <2>3, <2>4
  <2>6. here = power  BY <1>2, <1>7, <2>5
  <2> QED  BY <1>9, <1>10, <2>6
<1> QED  BY <1>12, <1>13, <1>14, <1>1

-----------------------------------------------------------------------------

\* The streak of 503 visits, of which no counter is stored, is in the row: in
\* its code and in the delay it was given.
LadderInv ==
  /\ seen.streak \in -1..30 /\ seen.streak <= trouble
  /\ visit.error = "503" => seen.streak < trouble
  /\ seen.streak = 0 => row.code # "503"
  /\ seen.streak > 0 => row.code = "503" /\ row.park = Rung(seen.streak)

LEMMA InitClimbs == Init => LadderInv
BY NoVisitHolds DEF Init, LadderInv, NothingSeen, FreshRow

LEMMA LadderStays ==
  ASSUME TypeInv, LadderInv, Looking, NothingCounted, trouble' \in {trouble, trouble + 1},
         visit'.error = "503" => visit.error = "503" \/ trouble' = trouble + 1
  PROVE  LadderInv'
<1>1. trouble \in Nat  BY DEF TypeInv, ChargeInv
<1>2. trouble' \in Nat /\ trouble' >= trouble  BY <1>1
<1>3. visit'.error = "503" => seen.streak < trouble'
  BY <1>1, <1>2 DEF LadderInv
<1> QED  BY <1>1, <1>2, <1>3 DEF LadderInv, Looking, NothingCounted, Rung

LEMMA CloseVisitClimbs ==
  ASSUME LadderReaches, TypeInv, LadderInv, CloseVisit
  PROVE  LadderInv'
<1>1. /\ visit'.error = "none" /\ trouble' = trouble /\ trouble \in 0..30
      /\ row'.code = visit.error /\ seen'.streak = CountedStreak(visit)
  BY CloseVisitCounts, CloseVisitRow, NoVisitHolds, RateAssumption DEF TypeInv, ChargeInv
<1>2. CASE visit.error # "503"
  BY <1>1, <1>2 DEF CountedStreak, LadderInv
<1>3. CASE visit.error = "503" /\ (visit.parked # NoDelay \/ visit.retry > 0 \/ seen.streak < 0)
  BY <1>1, <1>3 DEF CountedStreak, LadderInv
<1>4. CASE /\ visit.error = "503"
           /\ ~(visit.parked # NoDelay \/ visit.retry > 0 \/ seen.streak < 0)
  <2>1. seen'.streak = seen.streak + 1  BY <1>1, <1>4 DEF CountedStreak
  <2>2. seen.streak \in 0..29 /\ seen.streak < trouble  BY <1>1, <1>4 DEF LadderInv
  <2>3. row'.park = BackOff(visit.retry, Attempt)
    <3>1. Delay(visit) = BackOff(visit.retry, Attempt)  BY <1>4 DEF Delay, Charging, NoDelay
    <3>2. DueAfter(visit) = Delay(visit)  BY <1>4 DEF DueAfter, Charging
    <3> QED  BY <1>4, <3>1, <3>2, CloseVisitCounts
  <2>4. Times(BaseBackoff, Attempt, MaxBackoff) = Rung(seen.streak + 1)
    <3>1. CASE seen.streak = 0
      <4>1. Attempt = 0  BY <3>1 DEF LadderInv, Attempt
      <4>2. Least(0, 32) = 0  BY DEF Least
      <4>3. Times(BaseBackoff, 0, MaxBackoff) = Least(MaxBackoff, BaseBackoff * 2 ^ 0)
        BY <4>2, Zenon DEF Times
      <4>4. Rung(1) = Least(MaxBackoff, BaseBackoff * 2 ^ 0)
        <5>1. PICK e : e = 1 - 1  OBVIOUS
        <5>2. Rung(1) = Least(MaxBackoff, BaseBackoff * 2 ^ e)  BY <5>1, Zenon DEF Rung
        <5> QED  BY <5>1, <5>2
      <4>5. seen.streak + 1 = 1  BY <3>1
      <4> QED  BY <4>1, <4>3, <4>4, <4>5
    <3>2. CASE seen.streak > 0
      <4>1. seen.streak \in 1..30 /\ row.code = "503" /\ row.park = Rung(seen.streak)
        BY <2>2, <3>2 DEF LadderInv
      <4> QED  BY <4>1, NextRung DEF TypeInv
    <3> QED  BY <2>2, <3>1, <3>2
  <2>5. Rung(seen.streak + 1) \in Nat /\ Rung(seen.streak + 1) >= BaseBackoff
    <3>0. PICK next : next = seen.streak + 1  OBVIOUS
    <3>1. PICK n : n = 2 ^ (next - 1)  OBVIOUS
    <3>2. next - 1 \in 0..30  BY <2>2, <3>0
    <3>3. n \in Nat \ {0}  BY <3>1, <3>2, PowerAssumption
    <3>4. BaseBackoff * n \in Nat /\ BaseBackoff * n >= BaseBackoff  BY <3>3, Positive
    <3>5. Rung(next) = Least(MaxBackoff, BaseBackoff * n)  BY <3>1 DEF Rung
    <3> QED  BY <3>0, <3>4, <3>5, Positive DEF Least
  <2>6. BackOff(visit.retry, Attempt) = Rung(seen.streak + 1)
    <3>1. visit.retry \in Nat /\ ~(visit.retry > 0)  BY <1>4 DEF TypeInv, VisitOK
    <3>2. BackOff(visit.retry, Attempt)
            = Greatest(BaseBackoff, Times(BaseBackoff, Attempt, MaxBackoff))
      BY <3>1 DEF BackOff
    <3> QED  BY <2>4, <2>5, <3>2, Positive DEF Greatest
  <2>7. row'.park = Rung(seen'.streak)  BY <2>1, <2>3, <2>6
  <2>8. Rung(seen.streak)' = Rung(seen'.streak)  BY DEF Rung
  <2> QED  BY <1>1, <1>4, <2>1, <2>2, <2>7, <2>8 DEF LadderInv
<1> QED  BY <1>2, <1>3, <1>4

LEMMA LadderStep ==
  ASSUME LadderReaches, TypeInv, LadderInv, [Next]_vars
  PROVE  LadderInv'
<1>0. trouble \in Nat  BY DEF TypeInv, ChargeInv
<1>1. ASSUME NEW m \in All, NextPhase(m) \/ PhaseOver(m) \/ Asked(m) PROVE LadderInv'
  BY <1>1, AskedTells, LadderStays
<1>2. CASE PhasesOver  BY <1>2, PhasesOverTells, LadderStays
<1>3. CASE Wait
  BY <1>3, WaitCounts DEF LadderInv, NothingCounted, Rung
<1>4. CASE OpenVisit
  BY <1>4, OpenVisitReads DEF OpenVisit, LadderInv, Rung
<1>5. CASE CloseVisit  BY <1>5, CloseVisitClimbs
<1>6. CASE CredentialStored
  <2>1. visit' = NoVisit /\ trouble' = trouble + 1  BY <1>6 DEF CredentialStored, Troubled
  <2> QED  BY <1>0, <1>6, <2>1, CredentialCounts, NoVisitHolds DEF LadderInv
<1>7. CASE Reinstalled
  <2>1. /\ visit' = NoVisit /\ trouble' = trouble + 1 /\ row' = FreshRow
        /\ seen' = NothingSeen
    BY <1>7 DEF Reinstalled, Troubled
  <2> QED  BY <1>0, <2>1, NoVisitHolds DEF LadderInv, FreshRow, NothingSeen
<1>8. CASE Crash
  <2>1. visit' = NoVisit /\ trouble' = trouble + 1  BY <1>8 DEF Crash, Troubled
  <2> QED  BY <1>0, <1>8, <2>1, CrashCounts, CrashFacts, NoVisitHolds DEF LadderInv
<1>9. CASE UNCHANGED vars  BY <1>9 DEF vars, LadderInv, Rung
<1> QED  BY <1>1, <1>2, <1>3, <1>4, <1>5, <1>6, <1>7, <1>8, <1>9 DEF Next

\* definitions.py 1898-1933: from the delay the row kept, each visit in a row
\* that meets a 503 finds the rung above the one before.
THEOREM TheLadderIsClimbed ==
  ASSUME LadderReaches
  PROVE  Spec => []LadderClimbs
<1>1. LadderInv => LadderClimbs  BY DEF LadderInv, LadderClimbs, Rung
<1>2. TypeInv /\ LadderInv /\ [Next]_vars => LadderInv'  BY LadderStep
<1>3. Spec => []TypeInv  BY InitTypes, StepTypes, PTL DEF Spec
<1>4. Spec => [](TypeInv /\ LadderInv)  BY <1>2, <1>3, InitClimbs, PTL DEF Spec
<1> QED  BY <1>1, <1>4, PTL
=============================================================================
