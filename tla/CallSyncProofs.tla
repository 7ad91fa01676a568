--------------------------- MODULE CallSyncProofs ---------------------------
(***************************************************************************)
(* Proofs about CallSync for every page size, batch size, budget of loops, *)
(* set of refused rows, number of calls and number of faults.              *)
(*                                                                         *)
(* The cursors cover what is between them because of what a batch in       *)
(* progress has read: forward the pages continue the visit's cursor        *)
(* without a gap, which takes a total that is never ahead of the portal    *)
(* (ForwardInv, PackInv, ProbeInv); backward they hang together from the   *)
(* first id asked for (BackwardInv).                                       *)
(***************************************************************************)
EXTENDS CallSync, WellFoundedInduction, TLAPS

(* The types, and what they need: a cursor is an id the portal has. *)

\* low_id is an id while the backfill runs, in the row and in the visit.
LowInv ==
  /\ status = "running" => lowId > 0
  /\ visit.status = "running" => visit.low > 0
  /\ visit.stage = "backfill" => visit.status = "running"

Read == batch.rows \cup batch.rejected

\* The window's first page holds the id it starts from.
FrontInv ==
  /\ Read \subseteq 1..newest
  /\ visit.stage = "window" =>
       /\ ~batch.asc /\ batch.first = 0 /\ batch.size > 0
       /\ batch.from \in 1..newest
       /\ batch.good > 0 => batch.from \in Read

TypeInv == TypeOK /\ LowInv /\ FrontInv

-----------------------------------------------------------------------------
(* What the cursors and the batch in progress cover. *)

\* The calls between the cursors, were high_id h, are stored or on record.
Below(h) ==
  /\ status = "running" => lowId..h \subseteq Known
  /\ status = "done" => 1..h \subseteq Known

CursorInv == Below(highId) /\ (status = "running" => lowId \in 1..newest)

\* Apart from the head fetch, which the visit may know less about, the visit
\* knows the status of the row.
StatusInv ==
  visit.stage # "idle" =>
    \/ visit.status = status
    \/ visit.status \in HeadStates /\ status \in HeadStates

\* A phase that may still move high_id starts from a cursor that covers, and
\* the backfill will start from low_id.
EntryInv ==
  /\ visit.stage \in {"head", "window"} => status \in HeadStates
  /\ visit.stage \in {"enter_head", "enter_incremental", "probe", "pack"} =>
       Below(visit.high)
  /\ visit.stage \in {"enter_head", "enter_incremental", "probe", "pack",
                      "extra_incremental", "enter_backfill"} =>
       (status = "running" => visit.low = lowId)

CountInv == batch.good <= batch.done /\ batch.done <= batch.size

\* What a commit of the batch stores when no command failed.
Carried == Read \cup (IF visit.stage = "window" THEN batch.extra ELSE {})

\* Ascending: what may be crossed continues the visit's cursor without a gap.
\* A request of several pages was sized by a total that had been reached, so
\* every page but the last is full.
ForwardInv ==
  visit.stage \in {"probe", "pack"} =>
    /\ batch.asc /\ Below(visit.cursor)
    /\ visit.cursor = batch.from + batch.first * PageSize
    /\ batch.good < batch.size =>
         (visit.cursor + 1)..(batch.from + (batch.first + batch.good) * PageSize)
           \subseteq Read
    /\ \A i \in Crossable : (visit.cursor + 1)..i \subseteq Read

PackInv ==
  visit.stage = "pack" =>
    batch.first = 1 /\ batch.from + batch.size * PageSize < newest

\* The probe's page is full when the selection goes on after it.
ProbeInv ==
  visit.stage = "probe" =>
    /\ batch.first = 0 /\ batch.size = 1 /\ visit.base = batch.from
    /\ \A i \in Read : i <= batch.from + PageSize
    /\ batch.good = 1 /\ batch.next =>
         /\ batch.from + PageSize < newest
         /\ (batch.from + 1)..(batch.from + PageSize) \subseteq Read
    /\ batch.good = 1 /\ batch.total > 0 => batch.from + batch.total <= newest

\* Descending: the pages hang together from the first id asked for, and reach
\* the first call of all when nothing goes on after them.
BackwardInv ==
  visit.stage \in {"head", "window", "backfill"} =>
    /\ ~batch.asc /\ batch.first = 0 /\ batch.size > 0
    /\ batch.from <= newest
    /\ \A i \in 1..batch.from : batch.from - batch.good * PageSize < i => i \in Read
    /\ \A i \in Crossable : i <= batch.from /\ i..batch.from \subseteq Carried
    /\ batch.good > 0 /\ ~batch.next => batch.from <= batch.good * PageSize

BackfillInv ==
  visit.stage = "backfill" =>
    /\ status = "running" /\ visit.low \in 1..newest
    /\ visit.low..highId \subseteq Known
    /\ visit.cursor = batch.from + 1 /\ visit.cursor..highId \subseteq Known

BatchInv ==
  /\ CountInv /\ ForwardInv /\ PackInv /\ ProbeInv /\ BackwardInv /\ BackfillInv

CoverInv == CursorInv /\ StatusInv /\ EntryInv /\ BatchInv

WindowInv == TypeInv /\ CoverInv

-----------------------------------------------------------------------------
(* Least and greatest elements, pages and quotients *)

LEMMA Least ==
  ASSUME NEW S \in SUBSET Nat, S # {}
  PROVE  \E x \in S : \A y \in S : x <= y
<1>1. PICK x \in S : \A y \in S : ~ (<<y, x>> \in OpToRel(<, Nat))
  BY WFMin, NatLessThanWellFounded
<1>2. \A y \in S : ~ (y < x)
  BY <1>1 DEF OpToRel
<1> QED  BY <1>2

LEMMA Greatest ==
  ASSUME NEW n \in Nat, NEW S \in SUBSET (0..n), S # {}
  PROVE  \E x \in S : \A y \in S : x >= y
<1> DEFINE T == {n - x : x \in S}
<1>1. PICK z \in S : TRUE  OBVIOUS
<1>2. T \in SUBSET Nat /\ n - z \in T  OBVIOUS
<1>3. PICK t \in T : \A u \in T : t <= u
  <2> HIDE DEF T
  <2> QED  BY <1>2, Least
<1>4. PICK x \in S : t = n - x  OBVIOUS
<1>5. \A y \in S : n - x <= n - y  BY <1>3, <1>4
<1> QED  BY <1>5

LEMMA MinLeast ==
  ASSUME NEW S \in SUBSET Nat, S # {}
  PROVE  Min(S) \in S /\ \A y \in S : Min(S) <= y
BY Least DEF Min

LEMMA MaxGreatest ==
  ASSUME NEW n \in Nat, NEW S \in SUBSET (0..n), S # {}
  PROVE  Max(S) \in S /\ \A y \in S : y <= Max(S)
<1>1. \E x \in S : \A y \in S : x >= y  BY Greatest
<1> QED  BY <1>1 DEF Max

LEMMA MaxOfTwo ==
  ASSUME NEW a \in Int, NEW b \in Int
  PROVE  Max({a, b}) = IF a >= b THEN a ELSE b
<1> DEFINE m == IF a >= b THEN a ELSE b
<1>1. m \in {a, b} /\ \A y \in {a, b} : m >= y  OBVIOUS
<1>2. Max({a, b}) \in {a, b} /\ \A y \in {a, b} : Max({a, b}) >= y
  BY <1>1 DEF Max
<1> QED  BY <1>1, <1>2

LEMMA MinOfTwo ==
  ASSUME NEW a \in Int, NEW b \in Int
  PROVE  Min({a, b}) = IF a <= b THEN a ELSE b
<1> DEFINE m == IF a <= b THEN a ELSE b
<1>1. m \in {a, b} /\ \A y \in {a, b} : m =< y  OBVIOUS
<1>2. Min({a, b}) \in {a, b} /\ \A y \in {a, b} : Min({a, b}) =< y
  BY <1>1 DEF Min
<1> QED  BY <1>1, <1>2

LEMMA Quotient ==
  ASSUME NEW a \in Nat, NEW b \in Nat \ {0}
  PROVE  a \div b \in Nat /\ (a \div b) * b <= a
OBVIOUS

LEMMA ProductGrows ==
  ASSUME NEW a \in Nat, NEW b \in Nat, NEW c \in Nat, a <= b
  PROVE  a * c \in Nat /\ b * c \in Nat /\ a * c <= b * c
OBVIOUS

-----------------------------------------------------------------------------
(* Types *)

LEMMA FreshRequest ==
  ASSUME NEW asc \in BOOLEAN, NEW from \in 0..MaxId, NEW first \in Nat,
         NEW size \in Nat
  PROVE  Request(asc, from, first, size) \in Batches
BY SizeAssumption DEF Request, Batches

LEMMA NoVisitNoBatch == NoVisit \in Visits /\ NoBatch \in Batches
<1>1. NoVisit \in Visits
  BY SizeAssumption DEF NoVisit, Visits, Statuses, Stages
<1>2. 0 \in 0..MaxId /\ 0 \in Nat  BY SizeAssumption
<1>3. NoBatch \in Batches  BY <1>2, FreshRequest DEF NoBatch
<1> QED  BY <1>1, <1>3

LEMMA Entered ==
  ASSUME NEW stage \in Stages, NEW st \in Statuses,
         NEW high \in 0..MaxId, NEW low \in 0..MaxId
  PROVE  [NoVisit EXCEPT !.stage = stage, !.status = st,
                         !.high = high, !.low = low] \in Visits
BY NoVisitNoBatch, SizeAssumption DEF Visits

LEMMA IdsOfABatch ==
  ASSUME TypeOK
  PROVE  /\ Page \in SUBSET (1..newest) /\ Page \in SUBSET Ids
         /\ Crossable \in SUBSET Ids
<1>1. Page \in SUBSET (1..newest)  BY DEF Page
<1>2. Page \in SUBSET Ids  BY <1>1, SizeAssumption DEF TypeOK, Ids
<1>3. Crossable \in SUBSET Ids  BY DEF TypeOK, Batches, Crossable
<1> QED  BY <1>1, <1>2, <1>3

LEMMA ReachedIsGreatest ==
  ASSUME TypeOK
  PROVE  /\ Reached \in 0..MaxId /\ visit.cursor <= Reached
         /\ Reached = visit.cursor \/ Reached \in Crossable
         /\ \A i \in Crossable : i <= Reached
<1>1. Crossable \in SUBSET Ids  BY IdsOfABatch
<1>2. visit.cursor \in 0..MaxId  BY DEF TypeOK, Visits
<1>3. Crossable \in SUBSET (0..MaxId)
  BY <1>1, SizeAssumption DEF Ids
<1>4. (Crossable \cup {visit.cursor}) \in SUBSET (0..MaxId)
  BY <1>2, <1>3
<1> QED  BY <1>4, <1>2, MaxGreatest, SizeAssumption DEF Reached

LEMMA MinCrossable ==
  ASSUME TypeOK, Crossable # {}
  PROVE  Min(Crossable) \in Crossable /\ \A i \in Crossable : Min(Crossable) <= i
<1>1. Crossable \in SUBSET Nat  BY IdsOfABatch, SizeAssumption DEF Ids
<1> QED  BY <1>1, MinLeast

LEMMA MaxCrossable ==
  ASSUME TypeOK, Crossable # {}
  PROVE  Max(Crossable) \in Crossable /\ \A i \in Crossable : i <= Max(Crossable)
<1>1. Crossable \in SUBSET (0..MaxId)  BY IdsOfABatch, SizeAssumption DEF Ids
<1> QED  BY <1>1, MaxGreatest, SizeAssumption

LEMMA TotalsBelow ==
  ASSUME TypeOK, NEW total \in Totals
  PROVE  total \in 0..MaxId /\ (total > 0 => batch.from + total <= newest)
<1>1. CASE total = 0  BY <1>1, SizeAssumption
<1>2. CASE total # 0
  <2>1. PICK lag \in Lags : total = Max({newest - batch.from - lag, 0})
    BY <1>2 DEF Totals
  <2>2. lag \in Nat /\ newest \in 0..MaxId /\ batch.from \in 0..MaxId
    BY SizeAssumption DEF TypeOK, Batches
  <2> QED  BY <2>1, <2>2, MaxOfTwo, SizeAssumption
<1> QED  BY <1>1, <1>2

\* A pack is sized so that its last page, too, had been begun.
LEMMA PackFits ==
  ASSUME TypeOK
  PROVE  /\ PagesToPack \in Nat
         /\ HasTotal /\ PagesToPack > 0 =>
              batch.next /\ batch.total > 0 /\ PagesToPack * PageSize < batch.total
<1> DEFINE q == (batch.total + PageSize - 1) \div PageSize
<1>1. batch.total \in 0..MaxId  BY DEF TypeOK, Batches
<1>2. /\ batch.total + PageSize - 1 \in Nat
      /\ PageSize \in Nat \ {0} /\ BatchPages \in Nat \ {0}
  BY <1>1, SizeAssumption
<1>3. q \in Nat /\ q * PageSize <= batch.total + PageSize - 1
  BY <1>2, Quotient
<1> HIDE DEF q
<1>4. Min({q - 1, BatchPages}) \in Int /\ Min({q - 1, BatchPages}) <= q - 1
  BY <1>2, <1>3, MinOfTwo
<1>5. /\ Max({0, Min({q - 1, BatchPages})}) \in Nat
      /\ Max({0, Min({q - 1, BatchPages})}) > 0 =>
           Max({0, Min({q - 1, BatchPages})}) <= q - 1
  BY <1>4, <1>3, MaxOfTwo
<1>6. PagesToPack \in Nat /\ (HasTotal /\ PagesToPack > 0 => batch.next /\ PagesToPack + 1 <= q)
  BY <1>5, <1>2, <1>3 DEF PagesToPack, q
<1>7. ASSUME HasTotal, PagesToPack > 0
      PROVE  batch.next /\ batch.total > 0 /\ PagesToPack * PageSize < batch.total
  <2>1. (PagesToPack + 1) * PageSize <= q * PageSize
    BY <1>6, <1>7, <1>3, <1>2, ProductGrows
  <2>2. (PagesToPack + 1) * PageSize = PagesToPack * PageSize + PageSize
    BY <1>6, <1>2
  <2>3. PagesToPack * PageSize \in Nat  BY <1>6, <1>2
  <2>4. PagesToPack * PageSize < batch.total
    BY <2>1, <2>2, <2>3, <1>2, <1>3, <1>1
  <2> QED  BY <2>3, <2>4, <1>6, <1>7, <1>1
<1> QED  BY <1>6, <1>7

-----------------------------------------------------------------------------
(* Every step keeps the types *)

\* What a step writes, in the three shapes it can have.
TableTypes == calls' \subseteq Ids /\ quarantined' \subseteq Ids

CursorTypes ==
  /\ newest' \in 0..MaxId /\ due' \in BOOLEAN
  /\ status' \in Statuses /\ highId' \in 0..MaxId /\ lowId' \in 0..MaxId

VisitTypes == visit' \in Visits /\ batch' \in Batches /\ faults' \in 0..MaxFaults

LEMMA StoredTypes ==
  ASSUME TypeOK, NEW rows \in SUBSET Ids, NEW rejected \in SUBSET Ids,
         Store(rows, rejected)
  PROVE  TableTypes
BY DEF TypeOK, Store, TableTypes

LEMMA BatchSets ==
  ASSUME TypeOK
  PROVE  /\ batch.rows \in SUBSET Ids /\ batch.rejected \in SUBSET Ids
         /\ batch.extra \in SUBSET Ids
BY DEF TypeOK, Batches

LEMMA PhaseOverTypes ==
  ASSUME TypeOK, NEW stage \in Stages, NEW st \in Statuses,
         NEW high \in 0..MaxId, NEW low \in 0..MaxId,
         PhaseOver(stage, st, high, low)
  PROVE  visit' \in Visits /\ batch' \in Batches
<1> DEFINE v == [NoVisit EXCEPT !.stage = stage, !.status = st,
                                !.high = high, !.low = low]
<1>1. batch' = NoBatch  BY DEF PhaseOver
<1>2. v \in Visits  BY Entered
<1>3. visit' = NoVisit \/ visit' = v  BY Zenon DEF PhaseOver
<1> HIDE DEF v
<1> QED  BY <1>1, <1>2, <1>3, NoVisitNoBatch

LEMMA StopTypes ==
  ASSUME TypeOK, Stop
  PROVE  VisitTypes
BY NoVisitNoBatch, SizeAssumption DEF Stop, Fault, VisitTypes, TypeOK

LEMMA SendTypes ==
  ASSUME TypeOK, NEW v \in Visits, NEW request \in Batches, Send(v, request)
  PROVE  VisitTypes
BY DEF Send, VisitTypes, TypeOK

LEMMA BeginHeadTypes ==
  ASSUME TypeOK, BeginHead
  PROVE  VisitTypes
<1>1. [visit EXCEPT !.stage = "head"] \in Visits
  BY DEF TypeOK, Visits, Stages
<1>2. Request(FALSE, newest, 0, 1) \in Batches
  BY FreshRequest DEF TypeOK
<1> QED  BY <1>1, <1>2, SendTypes DEF BeginHead

LEMMA ProbeTypes ==
  ASSUME TypeOK, NEW base \in 0..MaxId, Probe(base)
  PROVE  VisitTypes
<1>0. visit \in Visits /\ visit.loops + 1 \in Nat
  BY SizeAssumption DEF TypeOK, Visits
<1>1. [visit EXCEPT !.stage = "probe", !.base = base, !.cursor = base,
                    !.loops = visit.loops + 1] \in Visits
  BY <1>0 DEF Visits, Stages
<1>2. Request(TRUE, base, 0, 1) \in Batches
  BY FreshRequest
<1> QED  BY <1>1, <1>2, SendTypes DEF Probe

LEMMA ReadBelowTypes ==
  ASSUME TypeOK, NEW low \in 1..MaxId, ReadBelow(low)
  PROVE  VisitTypes
<1>0. visit \in Visits /\ visit.loops + 1 \in Nat /\ low \in 0..MaxId
  BY SizeAssumption DEF TypeOK, Visits
<1>1. [visit EXCEPT !.stage = "backfill", !.cursor = low, !.loops = @ + 1] \in Visits
  BY <1>0 DEF Visits, Stages
<1>3. low - 1 \in 0..MaxId /\ 0 \in Nat /\ BatchPages \in Nat  BY SizeAssumption
<1>2. Request(FALSE, low - 1, 0, BatchPages) \in Batches
  BY <1>3, FreshRequest
<1> QED  BY <1>1, <1>2, SendTypes DEF ReadBelow

LEMMA TypesTogether ==
  ASSUME TableTypes, CursorTypes, VisitTypes
  PROVE  TypeOK'
BY DEF TableTypes, CursorTypes, VisitTypes, TypeOK

LEMMA SameTables ==
  ASSUME TypeOK, UNCHANGED tableVars
  PROVE  TableTypes
BY DEF TypeOK, TableTypes, tableVars

LEMMA SameCursors ==
  ASSUME TypeOK, UNCHANGED <<newest, cursorVars, due>>
  PROVE  CursorTypes
BY DEF TypeOK, CursorTypes, cursorVars

LEMMA PhaseOverSame ==
  ASSUME TypeOK, NEW stage \in Stages, NEW st \in Statuses,
         NEW high \in 0..MaxId, NEW low \in 0..MaxId,
         PhaseOver(stage, st, high, low), UNCHANGED faults
  PROVE  VisitTypes
BY PhaseOverTypes DEF VisitTypes, TypeOK

LEMMA OpenVisitTypes == TypeOK /\ OpenVisit => TypeOK'
<1> SUFFICES ASSUME TypeOK, OpenVisit PROVE TypeOK'  OBVIOUS
<1>1. visit' \in Visits
  <2>1. /\ "enter_head" \in Stages /\ status \in Statuses
        /\ highId \in 0..MaxId /\ lowId \in 0..MaxId
    BY DEF TypeOK, Stages
  <2>2. [NoVisit EXCEPT !.stage = "enter_head", !.status = status,
                        !.high = highId, !.low = lowId] \in Visits
    BY <2>1, Entered
  <2> QED  BY <2>2, Zenon DEF OpenVisit
<1> QED  BY <1>1 DEF OpenVisit, TypeOK, tableVars, cursorVars

LEMMA EnterTypes == TypeOK /\ (EnterHead \/ EnterIncremental) => TypeOK'
<1> SUFFICES ASSUME TypeOK, EnterHead \/ EnterIncremental PROVE TypeOK'  OBVIOUS
<1>1. TableTypes /\ CursorTypes
  BY SameTables, SameCursors DEF EnterHead, EnterIncremental
<1>2. visit.high \in 0..MaxId  BY DEF TypeOK, Visits
<1>3. [visit EXCEPT !.stage = "enter_incremental"] \in Visits
  BY DEF TypeOK, Visits, Stages
<1>4. [visit EXCEPT !.stage = "enter_backfill"] \in Visits
  BY DEF TypeOK, Visits, Stages
<1>5. VisitTypes
  BY <1>2, <1>3, <1>4, BeginHeadTypes, ProbeTypes, SendTypes, NoVisitNoBatch
  DEF EnterHead, EnterIncremental
<1> QED  BY <1>1, <1>5, TypesTogether

LEMMA CommandTypes == TypeOK /\ (CommandOk \/ CommandFails) => TypeOK'
<1> SUFFICES ASSUME TypeOK, CommandOk \/ CommandFails PROVE TypeOK'  OBVIOUS
<1>1. Page \in SUBSET Ids  BY IdsOfABatch
<1>2. batch \in Batches /\ batch.done + 1 \in Nat /\ batch.good + 1 \in Nat
  BY DEF TypeOK, Batches
<1>3. More \in BOOLEAN
  <2>1. CASE batch.asc  BY <2>1 DEF More
  <2>2. CASE ~batch.asc  BY <2>2 DEF More
  <2> QED  BY <2>1, <2>2
<1>4. Page \ Refused \in SUBSET Ids /\ Page \cap Refused \in SUBSET Ids
  BY <1>1
<1>5. CASE CommandFails
  <2>1. [batch EXCEPT !.done = @ + 1] \in Batches  BY <1>2 DEF Batches
  <2> QED  BY <2>1, <1>5, SizeAssumption DEF CommandFails, TypeOK, tableVars, cursorVars
<1>6. CASE CommandOk
  <2>1. PICK total \in Totals :
          LET heard == [batch EXCEPT !.done = @ + 1,
                                     !.rejected = @ \cup (Page \cap Refused)]
          IN  batch' = IF Failed
                       THEN [heard EXCEPT !.extra = @ \cup (Page \ Refused)]
                       ELSE [heard EXCEPT !.rows = @ \cup (Page \ Refused),
                                          !.good = @ + 1, !.total = total, !.next = More]
    BY <1>6 DEF CommandOk
  <2>2. total \in 0..MaxId  BY TotalsBelow
  <2> DEFINE heard == [batch EXCEPT !.done = @ + 1,
                                    !.rejected = @ \cup (Page \cap Refused)]
  <2>3. heard \in Batches /\ heard.good = batch.good
    BY <1>2, <1>4 DEF Batches
  <2> HIDE DEF heard
  <2>4. [heard EXCEPT !.extra = @ \cup (Page \ Refused)] \in Batches
    BY <2>3, <1>4 DEF Batches
  <2>5. [heard EXCEPT !.rows = @ \cup (Page \ Refused),
                      !.good = @ + 1, !.total = total, !.next = More] \in Batches
    BY <2>3, <2>2, <1>2, <1>3, <1>4 DEF Batches
  <2>6. batch' \in Batches
    <3>1. CASE Failed  BY <3>1, <2>1, <2>4 DEF heard
    <3>2. CASE ~Failed  BY <3>2, <2>1, <2>5 DEF heard
    <3> QED  BY <3>1, <3>2
  <2> QED  BY <2>6, <1>6 DEF CommandOk, TypeOK, tableVars, cursorVars
<1> QED  BY <1>5, <1>6

LEMMA FaultTypes == ASSUME TypeOK, Fault PROVE faults' \in 0..MaxFaults
BY SizeAssumption DEF TypeOK, Fault

LEMMA BreakTypes == TypeOK /\ LowInv /\ (TokenExpired \/ Abandon) => TypeOK'
<1> SUFFICES ASSUME TypeOK, LowInv, TokenExpired \/ Abandon PROVE TypeOK'  OBVIOUS
<1>1. TableTypes /\ CursorTypes
  BY SameTables, SameCursors DEF TokenExpired, Abandon
<1>2. faults' \in 0..MaxFaults  BY FaultTypes DEF TokenExpired, Abandon
<1>3. CASE visit' = NoVisit /\ batch' = NoBatch
  BY <1>1, <1>2, <1>3, NoVisitNoBatch, TypesTogether DEF VisitTypes
<1> DEFINE again(stage, cursor) ==
             [visit EXCEPT !.stage = stage, !.retried = TRUE, !.loops = 1,
                           !.base = cursor, !.cursor = cursor]
<1>4. visit \in Visits /\ newest \in 0..MaxId /\ 0 \in 0..MaxId
  BY SizeAssumption DEF TypeOK
<1>5. visit.high \in 0..MaxId /\ visit.low \in 0..MaxId
  BY <1>4 DEF Visits
<1>6. ASSUME NEW stage \in Stages, NEW cursor \in 0..MaxId
      PROVE  again(stage, cursor) \in Visits
  BY <1>4 DEF Visits
<1>7. /\ "head" \in Stages /\ "probe" \in Stages /\ "backfill" \in Stages
  BY DEF Stages
<1> HIDE DEF again
<1>8. CASE visit' = [again("head", 0) EXCEPT !.loops = 0] /\ batch' = Request(FALSE, newest, 0, 1)
  <2>1. again("head", 0) \in Visits  BY <1>6, <1>4, <1>7
  <2>2. visit' \in Visits  BY <2>1, <1>8 DEF Visits
  <2> QED  BY <2>2, <1>1, <1>2, <1>4, <1>8, FreshRequest, TypesTogether DEF VisitTypes
<1>9. CASE visit' = again("probe", visit.high) /\ batch' = Request(TRUE, visit.high, 0, 1)
  BY <1>1, <1>2, <1>5, <1>6, <1>7, <1>9, FreshRequest, TypesTogether DEF VisitTypes
<1>10. CASE /\ visit.stage = "backfill"
            /\ visit' = [again("backfill", visit.low) EXCEPT !.base = 0]
            /\ batch' = Request(FALSE, visit.low - 1, 0, BatchPages)
  <2>1. visit.low - 1 \in 0..MaxId
    BY <1>5, <1>10, SizeAssumption DEF LowInv
  <2>2. again("backfill", visit.low) \in Visits  BY <1>5, <1>6, <1>7
  <2>3. visit' \in Visits  BY <2>2, <1>4, <1>10 DEF Visits
  <2>4. batch' \in Batches
    <3>1. BatchPages \in Nat /\ 0 \in Nat  BY SizeAssumption
    <3> QED  BY <3>1, <2>1, <1>10, FreshRequest
  <2> QED  BY <2>3, <2>4, <1>1, <1>2, TypesTogether DEF VisitTypes
<1> QED  BY <1>3, <1>8, <1>9, <1>10, Zenon DEF TokenExpired, Abandon, again

LEMMA WindowIsRead ==
  ASSUME TypeInv, visit.stage = "window", Answered, ~Failed
  PROVE  batch.from \in Crossable /\ Crossable = Read
BY DEF TypeInv, TypeOK, FrontInv, Batches, Answered, Failed, Crossable, Read

LEMMA HeadTypes == TypeInv /\ (HeadAnswered \/ WindowAnswered) => TypeOK'
<1> SUFFICES ASSUME TypeInv, TypeOK, HeadAnswered \/ WindowAnswered PROVE TypeOK'  BY DEF TypeInv
<1>1. /\ visit.status \in Statuses /\ visit.high \in 0..MaxId /\ visit.low \in 0..MaxId
      /\ visit \in Visits /\ batch \in Batches /\ batch.from \in 0..MaxId /\ 0 \in 0..MaxId
      /\ "enter_incremental" \in Stages
      /\ "done" \in Statuses /\ "head" \in Statuses /\ "running" \in Statuses
  BY SizeAssumption DEF TypeOK, Visits, Batches, Stages, Statuses
<1>2. CASE HeadAnswered
  <2>1. TableTypes  BY <1>2, SameTables DEF HeadAnswered
  <2>2. CursorTypes
    BY <1>2, <1>1 DEF HeadAnswered, TypeOK, CursorTypes, cursorVars
  <2>3. VisitTypes
    <3>1. CASE Crossable # {} /\ Send([visit EXCEPT !.stage = "window"],
                   [Request(FALSE, Max(Crossable), 0, BatchPages) EXCEPT
                      !.extra = batch.rows, !.rejected = batch.rejected])
      <4>1. [visit EXCEPT !.stage = "window"] \in Visits
        BY <1>1 DEF Visits, Stages
      <4>2. Max(Crossable) \in 0..MaxId
        BY <3>1, MaxCrossable, IdsOfABatch, SizeAssumption DEF Ids
      <4>3. Request(FALSE, Max(Crossable), 0, BatchPages) \in Batches
        BY <4>2, FreshRequest, SizeAssumption
      <4>4. [Request(FALSE, Max(Crossable), 0, BatchPages) EXCEPT
               !.extra = batch.rows, !.rejected = batch.rejected] \in Batches
        BY <4>3, BatchSets DEF Batches
      <4> QED  BY <3>1, <4>1, <4>4, SendTypes, Zenon
    <3>2. CASE Stop  BY <3>2, StopTypes
    <3>3. CASE /\ PhaseOver("enter_incremental", visit.status, visit.high, visit.low)
               /\ UNCHANGED faults
      BY <3>3, <1>1, PhaseOverSame
    <3>4. CASE PhaseOver("enter_incremental", "done", 0, visit.low) /\ UNCHANGED faults
      BY <3>4, <1>1, PhaseOverSame
    <3> QED  BY <1>2, <3>1, <3>2, <3>3, <3>4 DEF HeadAnswered
  <2> QED  BY <2>1, <2>2, <2>3, TypesTogether
<1>3. CASE WindowAnswered
  <2>1. TableTypes
    <3>1. batch.rows \cup batch.extra \in SUBSET Ids /\ batch.rejected \in SUBSET Ids
      BY BatchSets
    <3> QED  BY <3>1, <1>3, StoredTypes DEF WindowAnswered
  <2>2. CASE /\ PhaseOver("enter_incremental", "head", visit.high, visit.low)
             /\ UNCHANGED cursorVars
    <3>1. CursorTypes  BY <2>2, <1>3, SameCursors DEF WindowAnswered
    <3>2. VisitTypes  BY <2>2, <1>3, <1>1, PhaseOverSame DEF WindowAnswered
    <3> QED  BY <2>1, <3>1, <3>2, TypesTogether
  <2>3. CASE /\ ~Failed
             /\ status' = IF batch.next THEN "running" ELSE "done"
             /\ highId' = batch.from
             /\ lowId' = Min(Crossable)
             /\ PhaseOver("enter_incremental", status', highId', lowId')
    <3>1. Min(Crossable) \in 0..MaxId
      BY <1>3, <2>3, WindowIsRead, MinCrossable, IdsOfABatch, SizeAssumption
      DEF WindowAnswered, Ids
    <3>2. status' \in Statuses /\ highId' \in 0..MaxId /\ lowId' \in 0..MaxId
      BY <2>3, <3>1, <1>1
    <3>3. CursorTypes  BY <3>2, <1>3 DEF WindowAnswered, CursorTypes, TypeOK
    <3>4. VisitTypes  BY <2>3, <3>2, <1>1, <1>3, PhaseOverSame DEF WindowAnswered
    <3> QED  BY <2>1, <3>3, <3>4, TypesTogether
  <2> QED  BY <1>3, <2>2, <2>3 DEF WindowAnswered
<1> QED  BY <1>2, <1>3

LEMMA AdvanceTypes ==
  ASSUME TypeOK, Advance, newest' = newest, due' \in BOOLEAN
  PROVE  TableTypes /\ CursorTypes
<1>1. TableTypes  BY BatchSets, StoredTypes DEF Advance
<1>2. CursorTypes  BY ReachedIsGreatest DEF Advance, TypeOK, CursorTypes
<1> QED  BY <1>1, <1>2

LEMMA IncrementalOverTypes ==
  ASSUME TypeOK, IncrementalOver, UNCHANGED faults
  PROVE  VisitTypes
<1>1. /\ visit.status \in Statuses /\ visit.high \in 0..MaxId /\ visit.low \in 0..MaxId
      /\ "enter_backfill" \in Stages
  BY DEF TypeOK, Visits, Stages
<1> QED  BY <1>1, PhaseOverSame DEF IncrementalOver

LEMMA LoopEndsTypes ==
  ASSUME TypeOK, LoopEnds
  PROVE  VisitTypes
<1>1. Reached \in 0..MaxId  BY ReachedIsGreatest
<1> QED  BY <1>1, IncrementalOverTypes, StopTypes, ProbeTypes DEF LoopEnds

LEMMA IncrementalTypes ==
  TypeOK /\ (ProbeAnswered \/ PackAnswered \/ ExtraOfIncremental) => TypeOK'
<1> SUFFICES ASSUME TypeOK, ProbeAnswered \/ PackAnswered \/ ExtraOfIncremental
             PROVE  TypeOK'
  OBVIOUS
<1>1. visit \in Visits /\ batch \in Batches /\ visit.base \in 0..MaxId
  BY DEF TypeOK, Visits
<1>2. CASE ProbeAnswered
  <2>1. TableTypes /\ CursorTypes  BY <1>2, AdvanceTypes DEF ProbeAnswered
  <2>2. CASE /\ PagesToPack > 0
             /\ Send([visit EXCEPT !.stage = "pack", !.cursor = Reached],
                     Request(TRUE, visit.base, 1, PagesToPack))
    <3>1. [visit EXCEPT !.stage = "pack", !.cursor = Reached] \in Visits
      BY <1>1, ReachedIsGreatest DEF Visits, Stages
    <3>2. Request(TRUE, visit.base, 1, PagesToPack) \in Batches
      BY <1>1, PackFits, FreshRequest
    <3> QED  BY <2>1, <2>2, <3>1, <3>2, SendTypes, TypesTogether
  <2> QED
    BY <1>2, <2>1, <2>2, IncrementalOverTypes, LoopEndsTypes, StopTypes, TypesTogether
    DEF ProbeAnswered
<1>3. CASE PackAnswered
  <2>1. TableTypes /\ CursorTypes  BY <1>3, AdvanceTypes DEF PackAnswered
  <2>2. [visit EXCEPT !.stage = "extra_incremental"] \in Visits
    BY <1>1 DEF Visits, Stages
  <2>3. VisitTypes
    BY <1>3, <2>2, <1>1, IncrementalOverTypes, LoopEndsTypes, SendTypes DEF PackAnswered
  <2> QED  BY <2>1, <2>3, TypesTogether
<1>4. CASE ExtraOfIncremental
  <2>1. TableTypes
    BY <1>4, BatchSets, StoredTypes, SizeAssumption DEF ExtraOfIncremental
  <2>2. CursorTypes /\ VisitTypes
    BY <1>4, SameCursors, IncrementalOverTypes DEF ExtraOfIncremental
  <2> QED  BY <2>1, <2>2, TypesTogether
<1> QED  BY <1>2, <1>3, <1>4

LEMMA BackfillTypes ==
  TypeOK /\ LowInv /\ (EnterBackfill \/ BackfillStays \/ BackfillMoves \/ ExtraOfBackfill)
    => TypeOK'
<1> SUFFICES ASSUME TypeOK, LowInv,
                    EnterBackfill \/ BackfillStays \/ BackfillMoves \/ ExtraOfBackfill
             PROVE  TypeOK'
  OBVIOUS
<1>1. visit \in Visits /\ batch \in Batches /\ visit.low \in 0..MaxId
  BY DEF TypeOK, Visits
<1>2. ASSUME BackfillOver, UNCHANGED faults PROVE VisitTypes
  <2>1. /\ "idle" \in Stages /\ "done" \in Statuses /\ 0 \in 0..MaxId
    BY SizeAssumption DEF Stages, Statuses
  <2> QED  BY <1>2, <2>1, PhaseOverSame DEF BackfillOver
<1>3. CASE EnterBackfill
  <2>1. TableTypes /\ CursorTypes  BY <1>3, SameTables, SameCursors DEF EnterBackfill
  <2>2. VisitTypes
    BY <1>3, <1>1, ReadBelowTypes, SendTypes, NoVisitNoBatch, SizeAssumption
    DEF EnterBackfill, LowInv
  <2> QED  BY <2>1, <2>2, TypesTogether
<1>4. CASE BackfillStays
  <2>1. TableTypes
    BY <1>4, BatchSets, StoredTypes, SameTables, SizeAssumption DEF BackfillStays
  <2>2. CursorTypes  BY <1>4 DEF BackfillStays, TypeOK, CursorTypes, Statuses
  <2>3. VisitTypes  BY <1>4, <1>2 DEF BackfillStays
  <2> QED  BY <2>1, <2>2, <2>3, TypesTogether
<1>5. CASE BackfillMoves
  <2> DEFINE lowest == Min(Crossable)
             exhausted == ~batch.next /\ ~Failed
  <2>1. lowest \in 1..MaxId
    BY <1>5, MinCrossable, IdsOfABatch DEF BackfillMoves, Ids
  <2>2. TableTypes  BY <1>5, BatchSets, StoredTypes DEF BackfillMoves
  <2>3. lowId' = lowest /\ status' = (IF exhausted THEN "done" ELSE status)
    BY <1>5 DEF BackfillMoves
  <2>4. CursorTypes
    BY <1>5, <2>1, <2>3, SizeAssumption DEF BackfillMoves, TypeOK, CursorTypes, Statuses
  <2>5. [visit EXCEPT !.stage = "extra_backfill"] \in Visits
    BY <1>1 DEF Visits, Stages
  <2>6. VisitTypes
    BY <1>5, <1>1, <1>2, <2>1, <2>5, SendTypes, StopTypes, ReadBelowTypes
    DEF BackfillMoves
  <2> QED  BY <2>2, <2>4, <2>6, TypesTogether
<1>6. CASE ExtraOfBackfill
  <2>1. TableTypes
    BY <1>6, BatchSets, StoredTypes, SizeAssumption DEF ExtraOfBackfill
  <2> QED  BY <1>2, <1>6, <2>1, SameCursors, TypesTogether DEF ExtraOfBackfill
<1> QED  BY <1>3, <1>4, <1>5, <1>6

-----------------------------------------------------------------------------
(* Every step keeps the ids positive and the window's front *)

\* The visit a phase hands on, or none.
HandsOn(stage, st, high, low) ==
  \/ visit' = NoVisit
  \/ /\ visit'.stage = stage /\ visit'.status = st
     /\ visit'.high = high /\ visit'.low = low

LEMMA PhaseOverHandsOn ==
  ASSUME NEW stage, NEW st, NEW high, NEW low, PhaseOver(stage, st, high, low)
  PROVE  HandsOn(stage, st, high, low) /\ batch' = NoBatch
<1> DEFINE v == [NoVisit EXCEPT !.stage = stage, !.status = st,
                                !.high = high, !.low = low]
<1>1. visit' = NoVisit \/ visit' = v  BY Zenon DEF PhaseOver
<1>2. v.stage = stage /\ v.status = st /\ v.high = high /\ v.low = low
  BY DEF NoVisit
<1> HIDE DEF v
<1> QED  BY <1>1, <1>2 DEF HandsOn, PhaseOver

LEMMA NothingInHand ==
  /\ NoVisit.stage = "idle" /\ NoVisit.status = "pending"
  /\ NoBatch.rows = {} /\ NoBatch.rejected = {} /\ NoBatch.done = 0
  /\ NoBatch.good = 0 /\ NoBatch.size = 0
<1>1. NoVisit.stage = "idle" /\ NoVisit.status = "pending"  BY DEF NoVisit
<1> QED  BY <1>1 DEF NoBatch, Request

LEMMA BackfillOverHandsOn ==
  ASSUME BackfillOver
  PROVE  /\ visit' = NoVisit \/ (visit'.stage = "idle" /\ visit'.status = "done")
         /\ batch' = NoBatch
<1>1. HandsOn("idle", "done", 0, 0) /\ batch' = NoBatch
  BY PhaseOverHandsOn, Zenon DEF BackfillOver
<1> QED  BY <1>1 DEF HandsOn

\* A visit that keeps its status and low_id and does not begin the backfill.
Onward(v) ==
  /\ v.status = visit.status /\ v.low = visit.low
  /\ v.stage = "backfill" => visit.stage = "backfill" \/ visit.status = "running"

LEMMA LowOfVisit ==
  ASSUME LowInv, UNCHANGED <<status, lowId>>, Onward(visit') \/ visit' = NoVisit
  PROVE  LowInv'
BY NothingInHand DEF LowInv, Onward

LEMMA OnwardSends ==
  ASSUME TypeOK, NEW stage \in Stages
  PROVE  /\ \A c : [visit EXCEPT !.stage = stage, !.cursor = c].stage = stage
         /\ stage # "backfill" => Onward([visit EXCEPT !.stage = stage])
         /\ stage # "backfill" => \A c : Onward([visit EXCEPT !.stage = stage, !.cursor = c])
BY DEF TypeOK, Visits, Onward

LEMMA BeginOnward ==
  ASSUME TypeOK, NEW b,
         Probe(b) \/ (visit.status = "running" /\ ReadBelow(b))
  PROVE  Onward(visit')
BY DEF TypeOK, Visits, Onward, Probe, ReadBelow, Send

LEMMA HeadOnward ==
  ASSUME TypeOK, BeginHead
  PROVE  Onward(visit')
BY DEF TypeOK, Visits, Onward, BeginHead, Send

LEMMA LowStep == TypeInv /\ [Next]_vars => LowInv'
<1> SUFFICES ASSUME TypeInv, TypeOK, LowInv, [Next]_vars PROVE LowInv'
  BY DEF TypeInv
<1> USE NothingInHand
<1>1. CASE UNCHANGED vars  BY <1>1 DEF vars, cursorVars, LowInv
<1>2. CASE OpenVisit
  <2>1. visit'.status = status /\ visit'.low = lowId /\ visit'.stage = "enter_head"
    BY <1>2 DEF OpenVisit, NoVisit
  <2> QED  BY <2>1, <1>2 DEF OpenVisit, LowInv, cursorVars
<1>3. CASE EnterHead
  <2>1. Onward([visit EXCEPT !.stage = "enter_incremental"])
    BY OnwardSends DEF Stages
  <2>3. Onward(visit')
    BY <1>3, <2>1, HeadOnward, Zenon DEF EnterHead, Send
  <2> QED  BY <1>3, <2>3, LowOfVisit DEF EnterHead, cursorVars
<1>4. CASE EnterIncremental
  <2>1. UNCHANGED <<status, lowId>>  BY <1>4 DEF EnterIncremental, cursorVars
  <2>2. CASE Probe(visit.high)
    <3>1. Onward(visit')  BY <2>2, BeginOnward
    <3> QED  BY <2>1, <3>1, LowOfVisit
  <2>3. CASE visit' = [visit EXCEPT !.stage = "enter_backfill"]
    <3>1. Onward(visit')  BY <2>3, OnwardSends DEF Stages
    <3> QED  BY <2>1, <3>1, LowOfVisit
  <2> QED  BY <1>4, <2>2, <2>3 DEF EnterIncremental, Send
<1>5. CASE EnterBackfill
  BY <1>5, LowOfVisit, BeginOnward DEF EnterBackfill, Send, cursorVars
<1>6. CASE CommandOk \/ CommandFails \/ NewCall \/ IntervalPasses
  BY <1>6 DEF CommandOk, CommandFails, NewCall, IntervalPasses, cursorVars, LowInv
<1>7. CASE HeadAnswered
  <2>1. UNCHANGED <<status, lowId>> \/ status' \in {"done", "head"}
    BY <1>7 DEF HeadAnswered, cursorVars
  <2>2. \/ visit' = NoVisit \/ Onward(visit')
        \/ visit'.status = "done" /\ visit'.stage = "enter_incremental"
    <3>1. CASE PhaseOver("enter_incremental", visit.status, visit.high, visit.low)
      BY <3>1, PhaseOverHandsOn DEF HandsOn, Onward
    <3>2. CASE PhaseOver("enter_incremental", "done", 0, visit.low)
      BY <3>2, PhaseOverHandsOn DEF HandsOn, Onward
    <3>3. Stop => visit' = NoVisit  BY DEF Stop
    <3>4. Onward([visit EXCEPT !.stage = "window"])  BY OnwardSends DEF Stages
    <3> QED  BY <1>7, <3>1, <3>2, <3>3, <3>4, Zenon DEF HeadAnswered, Send
  <2> QED  BY <2>1, <2>2 DEF LowInv, Onward
<1>8. CASE WindowAnswered
  <2>1. CASE PhaseOver("enter_incremental", "head", visit.high, visit.low) /\ UNCHANGED cursorVars
    BY <2>1, PhaseOverHandsOn DEF HandsOn, LowInv, cursorVars
  <2>2. CASE /\ ~Failed /\ lowId' = Min(Crossable)
             /\ PhaseOver("enter_incremental", status', highId', lowId')
    <3>1. lowId' > 0
      BY <2>2, <1>8, WindowIsRead, MinCrossable, IdsOfABatch, SizeAssumption
      DEF WindowAnswered, Ids
    <3> QED  BY <2>2, <3>1, PhaseOverHandsOn DEF HandsOn, LowInv
  <2> QED  BY <1>8, <2>1, <2>2 DEF WindowAnswered
<1>9. CASE ProbeAnswered \/ PackAnswered \/ ExtraOfIncremental
  <2>1. UNCHANGED <<status, lowId>>
    BY <1>9 DEF ProbeAnswered, PackAnswered, ExtraOfIncremental, Advance, cursorVars
  <2>2. IncrementalOver => visit' = NoVisit \/ Onward(visit')
    BY PhaseOverHandsOn DEF IncrementalOver, HandsOn, Onward
  <2>3. LoopEnds => visit' = NoVisit \/ Onward(visit')
    BY <2>2, BeginOnward DEF LoopEnds, Stop
  <2>4. /\ Onward([visit EXCEPT !.stage = "pack", !.cursor = Reached])
        /\ Onward([visit EXCEPT !.stage = "extra_incremental"])
    BY OnwardSends DEF Stages
  <2>5. Stop => visit' = NoVisit  BY DEF Stop
  <2>6. visit' = NoVisit \/ Onward(visit')
    BY <1>9, <2>2, <2>3, <2>4, <2>5, Zenon
    DEF ProbeAnswered, PackAnswered, ExtraOfIncremental, Send
  <2> QED  BY <2>1, <2>6, LowOfVisit
<1>10. CASE BackfillStays \/ ExtraOfBackfill
  <2>1. visit' = NoVisit \/ (visit'.stage = "idle" /\ visit'.status = "done")
    BY <1>10, BackfillOverHandsOn DEF BackfillStays, ExtraOfBackfill
  <2>2. lowId' = lowId /\ (status' = status \/ status' = "done")
    BY <1>10 DEF BackfillStays, ExtraOfBackfill, cursorVars
  <2> QED  BY <2>1, <2>2 DEF LowInv
<1>11. CASE BackfillMoves
  <2>1. lowId' > 0
    BY <1>11, MinCrossable, IdsOfABatch, SizeAssumption DEF BackfillMoves, Ids
  <2>2. BackfillOver => visit' = NoVisit \/ (visit'.stage = "idle" /\ visit'.status = "done")
    BY BackfillOverHandsOn
  <2>3. visit.stage = "backfill" /\ visit.status = "running"
    BY <1>11 DEF BackfillMoves, LowInv
  <2>4. \/ visit' = NoVisit \/ Onward(visit')
        \/ visit'.stage = "idle" /\ visit'.status = "done"
    BY <1>11, <2>2, <2>3, BeginOnward, OnwardSends DEF BackfillMoves, Send, Stop, Stages
  <2> QED  BY <2>1, <2>3, <2>4 DEF LowInv, Onward
<1>12. CASE TokenExpired
  <2>1. visit' = NoVisit \/ Onward(visit')
    BY <1>12 DEF TokenExpired, TypeOK, Visits, Onward
  <2> QED  BY <2>1, <1>12, LowOfVisit DEF TokenExpired, cursorVars
<1>13. CASE Abandon
  BY <1>13, LowOfVisit DEF Abandon, cursorVars
<1> QED
  BY <1>1, <1>2, <1>3, <1>4, <1>5, <1>6, <1>7, <1>8, <1>9, <1>10, <1>11, <1>12, <1>13
  DEF Next, SyncStep

\* Nothing has been read of a request just sent.
Unread == batch'.rows = {} /\ batch'.rejected = {} /\ batch'.good = 0

LEMMA Sent ==
  /\ \A v, asc, from, first, size :
       Send(v, Request(asc, from, first, size)) => visit' = v /\ Unread
  /\ \A v : Send(v, NoBatch) => visit' = v /\ Unread
  /\ \A st, stage, high, low : PhaseOver(stage, st, high, low) => Unread
  /\ Stop => visit' = NoVisit /\ Unread
<1>1. \A asc, from, first, size : batch' = Request(asc, from, first, size) => Unread
  BY DEF Request, Unread
<1>2. batch' = NoBatch => Unread  BY NothingInHand DEF Unread
<1>3. \A st, stage, high, low : PhaseOver(stage, st, high, low) => batch' = NoBatch
  BY DEF PhaseOver
<1>4. Stop => visit' = NoVisit /\ batch' = NoBatch  BY DEF Stop
<1> QED  BY <1>1, <1>2, <1>3, <1>4 DEF Send

LEMMA RequestUnread ==
  ASSUME NEW asc, NEW from, NEW first, NEW size,
         batch' = Request(asc, from, first, size)
  PROVE  Unread
BY DEF Request, Unread

LEMMA Begun ==
  ASSUME TypeOK
  PROVE  /\ BeginHead => Unread /\ visit'.stage = "head"
         /\ \A b : Probe(b) => Unread /\ visit'.stage = "probe"
         /\ \A b : ReadBelow(b) => Unread /\ visit'.stage = "backfill"
<1>1. BeginHead => Unread  BY Sent DEF BeginHead
<1>2. \A b : Probe(b) => Unread  BY Sent DEF Probe
<1>3. \A b : ReadBelow(b) => Unread  BY Sent DEF ReadBelow
<1>4. /\ BeginHead => visit'.stage = "head"
      /\ \A b : Probe(b) => visit'.stage = "probe"
      /\ \A b : ReadBelow(b) => visit'.stage = "backfill"
  BY DEF BeginHead, Probe, ReadBelow, Send, TypeOK, Visits
<1> QED  BY <1>1, <1>2, <1>3, <1>4

LEMMA FrontOfUnread ==
  ASSUME Unread, visit'.stage # "window"
  PROVE  FrontInv'
BY DEF Unread, FrontInv, Read

LEMMA FrontKept ==
  ASSUME FrontInv, newest \in Nat, newest' \in Nat, newest <= newest',
         batch' = batch, visit' = visit \/ visit'.stage # "window"
  PROVE  FrontInv'
<1>1. Read' = Read  BY DEF Read
<1> QED  BY <1>1 DEF FrontInv

\* A command adds its page to the batch: to the prefix, or behind a failure.
LEMMA CommandHeard ==
  ASSUME TypeOK, CommandOk
  PROVE  /\ batch'.asc = batch.asc /\ batch'.from = batch.from
         /\ batch'.first = batch.first /\ batch'.size = batch.size
         /\ batch'.done = batch.done + 1 /\ batch.done < batch.size
         /\ Read' = (IF Failed THEN Read \cup (Page \cap Refused) ELSE Read \cup Page)
         /\ Failed => /\ batch'.rows = batch.rows /\ batch'.good = batch.good
                      /\ batch'.total = batch.total /\ batch'.next = batch.next
                      /\ batch'.extra = batch.extra \cup (Page \ Refused)
         /\ ~Failed => /\ batch'.good = batch.good + 1 /\ batch'.total \in Totals
                       /\ batch'.next = More /\ batch'.extra = batch.extra
         /\ UNCHANGED <<newest, tableVars, cursorVars, due, visit>>
<1> DEFINE heard == [batch EXCEPT !.done = @ + 1,
                                  !.rejected = @ \cup (Page \cap Refused)]
<1>1. PICK total \in Totals :
        batch' = IF Failed
                 THEN [heard EXCEPT !.extra = @ \cup (Page \ Refused)]
                 ELSE [heard EXCEPT !.rows = @ \cup (Page \ Refused),
                                    !.good = @ + 1, !.total = total, !.next = More]
  BY DEF CommandOk
<1>2. batch \in Batches  BY DEF TypeOK
<1>3. /\ heard.done = batch.done + 1 /\ heard.rejected = batch.rejected \cup (Page \cap Refused)
      /\ heard.asc = batch.asc /\ heard.from = batch.from /\ heard.first = batch.first
      /\ heard.size = batch.size /\ heard.good = batch.good /\ heard.rows = batch.rows
      /\ heard.extra = batch.extra /\ heard.total = batch.total /\ heard.next = batch.next
      /\ DOMAIN heard = DOMAIN batch
  BY <1>2 DEF Batches
<1>4. DOMAIN batch = {"asc", "from", "first", "size", "done", "good", "rows", "extra",
                      "rejected", "total", "next"}
  BY <1>2 DEF Batches
<1> HIDE DEF heard
<1>5. CASE Failed
  <2>1. batch' = [heard EXCEPT !.extra = @ \cup (Page \ Refused)]  BY <1>1, <1>5
  <2>2. /\ batch'.extra = batch.extra \cup (Page \ Refused)
        /\ batch'.done = batch.done + 1 /\ batch'.rejected = batch.rejected \cup (Page \cap Refused)
        /\ batch'.asc = batch.asc /\ batch'.from = batch.from /\ batch'.first = batch.first
        /\ batch'.size = batch.size /\ batch'.good = batch.good /\ batch'.rows = batch.rows
        /\ batch'.total = batch.total /\ batch'.next = batch.next
    BY <2>1, <1>3, <1>4
  <2>3. Read' = Read \cup (Page \cap Refused)  BY <2>2 DEF Read
  <2> QED  BY <2>2, <2>3, <1>5 DEF CommandOk, Waiting
<1>6. CASE ~Failed
  <2>1. batch' = [heard EXCEPT !.rows = @ \cup (Page \ Refused),
                               !.good = @ + 1, !.total = total, !.next = More]
    BY <1>1, <1>6
  <2>2. /\ batch'.rows = batch.rows \cup (Page \ Refused)
        /\ batch'.done = batch.done + 1 /\ batch'.rejected = batch.rejected \cup (Page \cap Refused)
        /\ batch'.asc = batch.asc /\ batch'.from = batch.from /\ batch'.first = batch.first
        /\ batch'.size = batch.size /\ batch'.good = batch.good + 1
        /\ batch'.extra = batch.extra /\ batch'.total = total /\ batch'.next = More
    BY <2>1, <1>3, <1>4
  <2>3. Read' = Read \cup Page  BY <2>2 DEF Read
  <2> QED  BY <2>2, <2>3, <1>6 DEF CommandOk, Waiting
<1> QED  BY <1>5, <1>6

LEMMA CommandLost ==
  ASSUME TypeOK, CommandFails
  PROVE  /\ batch'.asc = batch.asc /\ batch'.from = batch.from
         /\ batch'.first = batch.first /\ batch'.size = batch.size
         /\ batch'.done = batch.done + 1 /\ batch.done < batch.size
         /\ batch'.good = batch.good /\ batch'.rows = batch.rows
         /\ batch'.rejected = batch.rejected /\ batch'.extra = batch.extra
         /\ batch'.total = batch.total /\ batch'.next = batch.next
         /\ UNCHANGED <<newest, tableVars, cursorVars, due, visit>>
BY DEF CommandFails, Waiting, TypeOK, Batches

LEMMA FrontStep == TypeInv /\ [Next]_vars => FrontInv'
<1> SUFFICES ASSUME TypeInv, TypeOK, FrontInv, [Next]_vars PROVE FrontInv'
  BY DEF TypeInv
<1> USE NothingInHand
<1>0. newest \in Nat /\ batch \in Batches  BY SizeAssumption DEF TypeOK
<1>1. CASE UNCHANGED vars  BY <1>1, <1>0, FrontKept DEF vars
<1>2. CASE OpenVisit
  <2>1. visit'.stage = "enter_head"  BY <1>2 DEF OpenVisit, NoVisit
  <2> QED  BY <2>1, <1>2, <1>0, FrontKept DEF OpenVisit
<1>3. CASE EnterHead \/ EnterIncremental \/ EnterBackfill
  <2>1. Unread
    BY <1>3, Sent DEF EnterHead, EnterIncremental, EnterBackfill, BeginHead, Probe, ReadBelow
  <2>2. visit'.stage # "window"
    BY <1>3
    DEF EnterHead, EnterIncremental, EnterBackfill, BeginHead, Probe, ReadBelow, Send,
        TypeOK, Visits
  <2> QED  BY <2>1, <2>2, FrontOfUnread
<1>4. CASE CommandOk
  <2>1. Page \in SUBSET (1..newest)  BY IdsOfABatch
  <2>2. Read' \subseteq 1..newest'  BY <2>1, <1>4, CommandHeard DEF FrontInv
  <2>3. ASSUME visit.stage = "window", batch'.good > 0  PROVE  batch.from \in Read'
    <3>1. CASE batch.good > 0  BY <3>1, <2>3, <1>4, CommandHeard DEF FrontInv
    <3>2. CASE ~(batch.good > 0)
      <4>1. ~Failed /\ batch.done = 0 /\ batch.good = 0
        BY <3>2, <2>3, <1>0, <1>4, CommandHeard DEF Failed, Batches
      <4>2. Offset = 0  BY <4>1, <2>3, SizeAssumption DEF Offset, FrontInv
      <4>3. batch.from \in Page
        BY <4>2, <2>3, <1>0, SizeAssumption DEF Page, FrontInv, Batches
      <4> QED  BY <4>1, <4>3, <1>4, CommandHeard
    <3> QED  BY <3>1, <3>2
  <2> QED  BY <2>2, <2>3, <1>4, CommandHeard DEF FrontInv
<1>5. CASE CommandFails
  <2>1. Read' = Read  BY <1>5, CommandLost DEF Read
  <2> QED  BY <2>1, <1>5, CommandLost DEF FrontInv
<1>6. CASE HeadAnswered
  <2>1. CASE Crossable # {} /\ Send([visit EXCEPT !.stage = "window"],
                   [Request(FALSE, Max(Crossable), 0, BatchPages) EXCEPT
                      !.extra = batch.rows, !.rejected = batch.rejected])
    <3> DEFINE r == Request(FALSE, Max(Crossable), 0, BatchPages)
    <3>1. /\ r.asc = FALSE /\ r.from = Max(Crossable) /\ r.first = 0
          /\ r.size = BatchPages /\ r.good = 0 /\ r.rows = {}
          /\ "extra" \in DOMAIN r /\ "rejected" \in DOMAIN r
      BY DEF Request
    <3> HIDE DEF r
    <3>2. batch' = [r EXCEPT !.extra = batch.rows, !.rejected = batch.rejected]
      BY <2>1 DEF Send, r
    <3>3. /\ batch'.asc = FALSE /\ batch'.from = Max(Crossable) /\ batch'.first = 0
          /\ batch'.size = BatchPages /\ batch'.good = 0 /\ Read' = batch.rejected
      BY <3>1, <3>2 DEF Read
    <3>4. Max(Crossable) \in Read
      BY <2>1, MaxCrossable DEF Crossable, Read
    <3> QED  BY <3>3, <3>4, <1>6, SizeAssumption DEF HeadAnswered, FrontInv, Read
  <2>2. CASE PhaseOver("enter_incremental", visit.status, visit.high, visit.low)
    BY <2>2, PhaseOverHandsOn, Sent, FrontOfUnread DEF HandsOn
  <2>3. CASE PhaseOver("enter_incremental", "done", 0, visit.low)
    BY <2>3, PhaseOverHandsOn, Sent, FrontOfUnread DEF HandsOn
  <2>4. CASE Stop  BY <2>4, Sent, FrontOfUnread
  <2> QED  BY <1>6, <2>1, <2>2, <2>3, <2>4 DEF HeadAnswered
<1>7. CASE WindowAnswered
  <2>1. CASE PhaseOver("enter_incremental", "head", visit.high, visit.low)
    BY <2>1, PhaseOverHandsOn, Sent, FrontOfUnread DEF HandsOn
  <2>2. CASE PhaseOver("enter_incremental", status', highId', lowId')
    BY <2>2, PhaseOverHandsOn, Sent, FrontOfUnread DEF HandsOn
  <2> QED  BY <1>7, <2>1, <2>2 DEF WindowAnswered
<1>8. CASE ProbeAnswered \/ PackAnswered \/ ExtraOfIncremental
  <2>1. IncrementalOver => FrontInv'
    BY PhaseOverHandsOn, Sent, FrontOfUnread DEF IncrementalOver, HandsOn
  <2>2. LoopEnds => FrontInv'
    BY <2>1, Begun, Sent, FrontOfUnread DEF LoopEnds
  <2>3. CASE Send([visit EXCEPT !.stage = "pack", !.cursor = Reached],
                  Request(TRUE, visit.base, 1, PagesToPack))
    <3>1. visit'.stage = "pack" /\ Unread
      BY <2>3, Sent DEF TypeOK, Visits, Send
    <3> QED  BY <3>1, FrontOfUnread
  <2>4. CASE Send([visit EXCEPT !.stage = "extra_incremental"], batch)
    <3>1. visit'.stage = "extra_incremental" /\ batch' = batch
      BY <2>4 DEF TypeOK, Visits, Send
    <3>2. newest' = newest
      BY <1>8 DEF ProbeAnswered, PackAnswered, ExtraOfIncremental
    <3> QED  BY <3>1, <3>2, <1>0, FrontKept
  <2>5. Stop => FrontInv'  BY Sent, FrontOfUnread
  <2> QED  BY <1>8, <2>1, <2>2, <2>3, <2>4, <2>5, Zenon
           DEF ProbeAnswered, PackAnswered, ExtraOfIncremental
<1>9. CASE BackfillStays \/ BackfillMoves \/ ExtraOfBackfill
  <2>1. BackfillOver => FrontInv'
    <3>1. BackfillOver => Unread /\ visit'.stage = "idle"
      BY BackfillOverHandsOn DEF Unread
    <3> QED  BY <3>1, FrontOfUnread
  <2>2. CASE Send([visit EXCEPT !.stage = "extra_backfill"], batch)
    <3>1. visit'.stage = "extra_backfill" /\ batch' = batch
      BY <2>2 DEF TypeOK, Visits, Send
    <3> QED  BY <3>1, <1>0, <1>9, FrontKept DEF BackfillStays, BackfillMoves, ExtraOfBackfill
  <2>3. ReadBelow(Min(Crossable)) => FrontInv'
    BY Begun, FrontOfUnread
  <2>4. Stop => FrontInv'  BY Sent, FrontOfUnread
  <2> QED  BY <1>9, <2>1, <2>2, <2>3, <2>4, Zenon
           DEF BackfillStays, BackfillMoves, ExtraOfBackfill
<1>10. CASE TokenExpired
  <2>1. Unread
    <3>1. batch' = NoBatch => Unread  BY DEF Unread
    <3>2. batch' = Request(FALSE, newest, 0, 1) => Unread  BY RequestUnread
    <3>3. batch' = Request(TRUE, visit.high, 0, 1) => Unread  BY RequestUnread
    <3>4. batch' = Request(FALSE, visit.low - 1, 0, BatchPages) => Unread
      BY RequestUnread
    <3> QED  BY <1>10, <3>1, <3>2, <3>3, <3>4, Zenon DEF TokenExpired
  <2>2. visit'.stage # "window"  BY <1>10 DEF TokenExpired, TypeOK, Visits
  <2> QED  BY <2>1, <2>2, FrontOfUnread
<1>11. CASE Abandon
  BY <1>11, FrontOfUnread DEF Abandon, Unread
<1>12. CASE NewCall \/ IntervalPasses
  BY <1>12, <1>0, FrontKept DEF NewCall, IntervalPasses
<1> QED
  BY <1>1, <1>2, <1>3, <1>4, <1>5, <1>6, <1>7, <1>8, <1>9, <1>10, <1>11, <1>12
  DEF Next, SyncStep

-----------------------------------------------------------------------------
(* Type correctness *)

LEMMA InitTypes == Init => TypeInv
<1> SUFFICES ASSUME Init PROVE TypeInv  OBVIOUS
<1>1. TypeOK  BY NoVisitNoBatch, SizeAssumption DEF Init, TypeOK, Statuses
<1>2. LowInv  BY NothingInHand DEF Init, LowInv
<1>3. FrontInv  BY NothingInHand DEF Init, FrontInv, Read
<1> QED  BY <1>1, <1>2, <1>3 DEF TypeInv

LEMMA TypeStep == TypeInv /\ [Next]_vars => TypeInv'
<1> SUFFICES ASSUME TypeInv, TypeOK, LowInv, [Next]_vars PROVE TypeInv'
  BY DEF TypeInv
<1>1. TypeOK'
  <2>1. CASE UNCHANGED vars  BY <2>1 DEF TypeOK, vars, tableVars, cursorVars
  <2>2. CASE NewCall
    <3>1. newest' \in 0..MaxId  BY <2>2, SizeAssumption DEF NewCall, TypeOK
    <3> QED  BY <3>1, <2>2 DEF NewCall, TypeOK, tableVars, cursorVars
  <2>3. CASE IntervalPasses
    BY <2>3 DEF IntervalPasses, TypeOK, tableVars, cursorVars
  <2> QED
    BY <2>1, <2>2, <2>3, OpenVisitTypes, EnterTypes, CommandTypes, BreakTypes, HeadTypes,
       IncrementalTypes, BackfillTypes
    DEF Next, SyncStep
<1> QED  BY <1>1, LowStep, FrontStep DEF TypeInv

\* Every cursor is an id the portal has, every batch holds ids of its calls
\* (PortalSync, FetchOutcome).
THEOREM TypeCorrect == Spec => []TypeOK
<1>1. TypeInv => TypeOK  BY DEF TypeInv
<1> QED  BY <1>1, InitTypes, TypeStep, PTL DEF Spec

-----------------------------------------------------------------------------
(* What a new request starts from *)

\* Below, of the next state, at an id of this one.
BelowNext(h) ==
  /\ status' = "running" => lowId'..h \subseteq Known'
  /\ status' = "done" => 1..h \subseteq Known'

Fetching == {"head", "window", "probe", "pack", "backfill"}

LEMMA StoreKnown ==
  ASSUME NEW rows, NEW rejected, Store(rows, rejected)
  PROVE  Known' = Known \cup rows \cup rejected
BY DEF Store, Known

LEMMA SameKnown == UNCHANGED tableVars => Known' = Known
BY DEF tableVars, Known

LEMMA NoBatchInProgress ==
  ASSUME visit'.stage \notin Fetching, CountInv'
  PROVE  BatchInv'
BY DEF Fetching, BatchInv, ForwardInv, PackInv, ProbeInv, BackwardInv, BackfillInv

LEMMA UnreadCrossable ==
  ASSUME Unread
  PROVE  Read' = {} /\ Crossable' = {}
BY DEF Unread, Read, Crossable

LEMMA RequestFields ==
  ASSUME NEW asc, NEW from, NEW first, NEW size,
         batch' = Request(asc, from, first, size)
  PROVE  /\ batch'.asc = asc /\ batch'.from = from /\ batch'.first = first
         /\ batch'.size = size /\ batch'.done = 0 /\ batch'.good = 0
         /\ batch'.rows = {} /\ batch'.rejected = {} /\ batch'.extra = {}
         /\ Read' = {} /\ Crossable' = {}
<1>1. /\ batch'.asc = asc /\ batch'.from = from /\ batch'.first = first
      /\ batch'.size = size /\ batch'.done = 0 /\ batch'.good = 0
      /\ batch'.rows = {} /\ batch'.rejected = {} /\ batch'.extra = {}
  BY DEF Request
<1>2. Unread  BY <1>1 DEF Unread
<1> QED  BY <1>1, <1>2, UnreadCrossable

\* A probe of what follows b.
LEMMA ProbeCovers ==
  ASSUME NEW b \in 0..MaxId, BelowNext(b),
         visit'.stage = "probe", visit'.cursor = b, visit'.base = b,
         batch'.asc, batch'.from = b, batch'.first = 0, batch'.size = 1,
         batch'.done = 0, batch'.good = 0, Read' = {}, Crossable' = {}
  PROVE  BatchInv'
<1>2. b \in Nat /\ PageSize \in Nat  BY SizeAssumption
<1>3. ForwardInv'
  <2>1. Below(visit.cursor)'  BY DEF Below, BelowNext
  <2> QED  BY <1>2, <2>1 DEF ForwardInv
<1>4. ProbeInv'  BY DEF ProbeInv
<1> QED
  BY <1>3, <1>4
  DEF BatchInv, CountInv, PackInv, BackwardInv, BackfillInv

\* The head: one page down from the newest call.
LEMMA HeadCovers ==
  ASSUME newest' \in 0..MaxId, visit'.stage = "head",
         ~batch'.asc, batch'.from = newest', batch'.first = 0, batch'.size = 1,
         batch'.done = 0, batch'.good = 0, Read' = {}, Crossable' = {}
  PROVE  BatchInv'
<1>2. newest' \in Nat /\ PageSize \in Nat  BY SizeAssumption
<1>a. /\ batch'.size > 0 /\ batch'.from <= newest' /\ ~(batch'.good > 0)
      /\ batch'.from \in Nat /\ batch'.good * PageSize = 0
  BY <1>2
<1>b. \A i \in 1..batch'.from : ~(batch'.from - batch'.good * PageSize < i)
  BY <1>a
<1>3. BackwardInv'
  BY <1>a, <1>b DEF BackwardInv
<1> QED
  BY <1>3
  DEF BatchInv, CountInv, ForwardInv, PackInv, ProbeInv, BackfillInv

\* The pages below b.
LEMMA ReadBelowCovers ==
  ASSUME newest' \in 0..MaxId, NEW b \in 1..newest',
         visit'.stage = "backfill", visit'.cursor = b, status' = "running",
         visit'.low \in 1..newest', visit'.low..highId' \subseteq Known',
         b..highId' \subseteq Known',
         ~batch'.asc, batch'.from = b - 1, batch'.first = 0,
         batch'.size = BatchPages, batch'.done = 0, batch'.good = 0,
         Read' = {}, Crossable' = {}
  PROVE  BatchInv'
<1>2. newest' \in Nat /\ PageSize \in Nat /\ BatchPages \in Nat \ {0} /\ b \in Nat
  BY SizeAssumption
<1>a. /\ batch'.size > 0 /\ batch'.from <= newest' /\ 0 * PageSize = 0
      /\ ~(batch'.good > 0) /\ batch'.from \in Nat
  BY <1>2
<1>b. \A i \in 1..batch'.from : ~(batch'.from - batch'.good * PageSize < i)
  BY <1>2, <1>a
<1>3. BackwardInv'
  BY <1>a, <1>b DEF BackwardInv
<1>4. BackfillInv'  BY <1>2 DEF BackfillInv
<1> QED
  BY <1>2, <1>3, <1>4 DEF BatchInv, CountInv, ForwardInv, PackInv, ProbeInv

-----------------------------------------------------------------------------
(* What a command adds *)

LEMMA CrossableAfter ==
  ASSUME TypeOK, CountInv, CommandOk
  PROVE  /\ CountInv'
         /\ Failed => Crossable' = Crossable /\ Read \subseteq Read'
         /\ ~Failed => /\ Crossable = Read /\ Crossable' = Read \cup Page
                       /\ Read' = Read \cup Page /\ batch.good = batch.done
<1>1. /\ batch.good \in Nat /\ batch.done \in Nat /\ batch.size \in Nat
      /\ batch'.done = batch.done + 1
  BY CommandHeard DEF TypeOK, Batches
<1>2. CountInv'  BY <1>1, CommandHeard DEF CountInv, Failed
<1>3. CASE Failed
  <2>1. batch'.rows = batch.rows /\ batch'.good = batch.good /\ Failed'
    BY <1>1, <1>3, CommandHeard DEF Failed
  <2> QED  BY <1>2, <1>3, <2>1, CommandHeard DEF Crossable, Failed
<1>4. CASE ~Failed
  <2>1. batch.good = batch.done /\ batch'.good = batch.good + 1 /\ ~Failed'
    BY <1>1, <1>4, CommandHeard DEF Failed, CountInv
  <2>2. Crossable = Read /\ Crossable' = Read'
    BY <1>4, <2>1 DEF Crossable, Read, Failed
  <2> QED  BY <1>2, <1>4, <2>1, <2>2, CommandHeard
<1> QED  BY <1>3, <1>4

LEMMA ForwardCommand ==
  ASSUME TypeOK, BatchInv, CommandOk, visit.stage \in {"probe", "pack"}
  PROVE  ForwardInv'
<1>1. CountInv /\ ForwardInv /\ PackInv /\ ProbeInv  BY DEF BatchInv
<1>2. /\ batch.asc /\ visit.cursor = batch.from + batch.first * PageSize
      /\ batch.good < batch.size =>
           (visit.cursor + 1)..(batch.from + (batch.first + batch.good) * PageSize)
             \subseteq Read
      /\ \A i \in Crossable : (visit.cursor + 1)..i \subseteq Read
  BY <1>1 DEF ForwardInv
<1>3. /\ batch.good \in Nat /\ batch.done \in Nat /\ batch.size \in Nat
      /\ batch.first \in Nat /\ batch.from \in Nat /\ newest \in Nat
      /\ visit.cursor \in Nat /\ PageSize \in Nat \ {0} /\ Read \subseteq Nat
  BY SizeAssumption DEF TypeOK, Batches, Visits, Read, Ids
<1>4. /\ visit' = visit /\ batch'.asc = batch.asc /\ batch'.from = batch.from
      /\ batch'.first = batch.first /\ batch'.size = batch.size
      /\ batch.done < batch.size
  BY CommandHeard
<1>5. Below(visit.cursor)'
  <2>1. Below(visit.cursor)  BY <1>1 DEF ForwardInv
  <2> QED
    BY <2>1, CommandHeard, SameKnown DEF Below, cursorVars
<1>6. CASE Failed
  <2>1. batch'.good = batch.good /\ Crossable' = Crossable /\ Read \subseteq Read'
    BY <1>1, <1>6, CrossableAfter, CommandHeard
  <2> QED  BY <1>2, <1>4, <1>5, <2>1 DEF ForwardInv
<1>7. CASE ~Failed
  <2>1. /\ Crossable = Read /\ Crossable' = Read \cup Page /\ Read' = Read \cup Page
        /\ batch.good = batch.done /\ batch'.good = batch.good + 1
    BY <1>1, <1>7, CrossableAfter, CommandHeard
  <2> DEFINE off == (batch.first + batch.good) * PageSize
  <2>2. /\ off \in Nat /\ Offset = off
        /\ (batch.first + (batch.good + 1)) * PageSize = off + PageSize
    BY <1>3, <2>1 DEF Offset
  <2>3. Page = {i \in 1..newest : batch.from + off < i /\ i <= batch.from + off + PageSize}
    BY <2>2, <1>2 DEF Page
  <2>4. (visit.cursor + 1)..(batch.from + off) \subseteq Read
    BY <1>2, <1>4, <2>1
  <2> HIDE DEF off
  <2>5. \A i \in Page : (visit.cursor + 1)..i \subseteq Read \cup Page
    BY <2>2, <2>3, <2>4, <1>3
  <2>6. \A i \in Crossable' : (visit.cursor + 1)..i \subseteq Read'
    BY <2>1, <2>5, <1>2
  <2>7. ASSUME batch.good + 1 < batch.size
        PROVE  (visit.cursor + 1)..(batch.from + off + PageSize) \subseteq Read \cup Page
    <3>1. visit.stage = "pack"
      BY <2>7, <1>1, <1>3 DEF ProbeInv
    <3>2. batch.first = 1 /\ batch.from + batch.size * PageSize < newest
      BY <3>1, <1>1 DEF PackInv
    <3>3. off + PageSize <= batch.size * PageSize
      <4>1. batch.first + (batch.good + 1) <= batch.size  BY <2>7, <3>2, <1>3
      <4> QED  BY <4>1, <2>2, <1>3, ProductGrows
    <3>4. batch.size * PageSize \in Nat  BY <1>3
    <3>5. batch.from + off + PageSize <= newest  BY <3>2, <3>3, <3>4, <1>3, <2>2
    <3> QED  BY <3>5, <2>2, <2>3, <2>4, <1>3
  <2> QED  BY <1>2, <1>3, <1>4, <1>5, <2>1, <2>2, <2>6, <2>7 DEF ForwardInv
<1> QED  BY <1>6, <1>7

LEMMA ProbeCommand ==
  ASSUME TypeOK, BatchInv, CommandOk, visit.stage = "probe"
  PROVE  ProbeInv'
<1>1. CountInv /\ ProbeInv /\ ForwardInv  BY DEF BatchInv
<1>2. /\ batch.first = 0 /\ batch.size = 1 /\ visit.base = batch.from /\ batch.asc
      /\ \A i \in Read : i <= batch.from + PageSize
  BY <1>1 DEF ProbeInv, ForwardInv
<1>3. batch.good \in Nat /\ batch.done \in Nat /\ batch.from \in Nat /\ newest \in Nat
      /\ PageSize \in Nat \ {0}
  BY SizeAssumption DEF TypeOK, Batches
<1>4. batch.done = 0 /\ batch.good = 0 /\ ~Failed
  BY <1>1, <1>2, <1>3, CommandHeard DEF CountInv, Failed
<1>5. Offset = 0  BY <1>2, <1>3, <1>4 DEF Offset
<1>6. Page = {i \in 1..newest : batch.from < i /\ i <= batch.from + PageSize}
  BY <1>2, <1>3, <1>5 DEF Page
<1>7. Read' = Read \cup Page  BY <1>1, <1>4, CrossableAfter
<1>a. More => batch.from + PageSize < newest
  BY <1>2, <1>3, <1>5 DEF More
<1>8. batch'.next => batch.from + PageSize < newest
  BY <1>a, <1>4, CommandHeard
<1>9. batch'.total > 0 => batch.from + batch'.total <= newest
  BY <1>4, CommandHeard, TotalsBelow
<1> QED
  BY <1>2, <1>3, <1>6, <1>7, <1>8, <1>9, CommandHeard DEF ProbeInv

LEMMA BackwardCommand ==
  ASSUME TypeOK, BatchInv, CommandOk, visit.stage \in {"head", "window", "backfill"}
  PROVE  BackwardInv'
<1>1. CountInv /\ BackwardInv  BY DEF BatchInv
<1>2. /\ ~batch.asc /\ batch.first = 0 /\ batch.size > 0 /\ batch.from <= newest
      /\ \A i \in 1..batch.from : batch.from - batch.good * PageSize < i => i \in Read
      /\ \A i \in Crossable : i <= batch.from /\ i..batch.from \subseteq Carried
      /\ batch.good > 0 /\ ~batch.next => batch.from <= batch.good * PageSize
  BY <1>1 DEF BackwardInv
<1>3. /\ batch.good \in Nat /\ batch.done \in Nat /\ batch.size \in Nat
      /\ batch.from \in Nat /\ newest \in Nat /\ PageSize \in Nat \ {0}
  BY SizeAssumption DEF TypeOK, Batches
<1>4. /\ visit' = visit /\ newest' = newest /\ batch'.asc = batch.asc
      /\ batch'.from = batch.from /\ batch'.first = batch.first
      /\ batch'.size = batch.size /\ batch.done < batch.size
  BY CommandHeard
<1>5. Carried \subseteq Carried'
  <2>1. Read \subseteq Read' /\ batch.extra \subseteq batch'.extra
    BY CommandHeard
  <2> QED  BY <2>1, <1>4 DEF Carried
<1>6. CASE Failed
  <2>1. /\ batch'.good = batch.good /\ batch'.next = batch.next
        /\ Crossable' = Crossable /\ Read \subseteq Read'
    BY <1>1, <1>6, CrossableAfter, CommandHeard
  <2> QED  BY <1>2, <1>4, <1>5, <2>1 DEF BackwardInv
<1>7. CASE ~Failed
  <2>1. /\ Crossable = Read /\ Crossable' = Read \cup Page /\ Read' = Read \cup Page
        /\ batch.good = batch.done /\ batch'.good = batch.good + 1 /\ batch'.next = More
    BY <1>1, <1>7, CrossableAfter, CommandHeard
  <2> DEFINE off == batch.good * PageSize
  <2>2. /\ off \in Nat /\ Offset = off /\ (batch.good + 1) * PageSize = off + PageSize
    BY <1>2, <1>3, <2>1 DEF Offset
  <2>3. Page = {i \in 1..newest : batch.from - off - PageSize < i /\ i <= batch.from - off}
    BY <2>2, <1>2 DEF Page
  <2>4. ~More => batch.from <= off + PageSize
    BY <2>2, <1>2, <1>3 DEF More
  <2>5. \A i \in 1..batch.from : batch.from - off < i => i \in Read
    BY <1>2
  <2> HIDE DEF off
  <2>6. \A i \in 1..batch.from : batch.from - (off + PageSize) < i => i \in Read'
    BY <2>1, <2>2, <2>3, <2>5, <1>2, <1>3
  <2>7. \A i \in Page : i \in Nat /\ i <= batch.from /\ batch.from - (off + PageSize) < i
    BY <2>2, <2>3, <1>2, <1>3
  <2>8. \A i \in Page : i..batch.from \subseteq Read'
    <3>1. \A i \in Page : i > 0  BY <2>3, <1>3
    <3> QED  BY <3>1, <2>6, <2>7, <2>2, <1>3
  <2>9. \A i \in Crossable' : i <= batch.from /\ i..batch.from \subseteq Carried'
    <3>1. Read' \subseteq Carried'  BY DEF Carried
    <3> QED  BY <3>1, <2>1, <2>7, <2>8, <1>2, <1>5
  <2>10. batch'.good * PageSize = off + PageSize  BY <2>1, <2>2
  <2>11. ~batch'.next => batch.from <= batch'.good * PageSize
    BY <2>1, <2>4, <2>10
  <2> QED  BY <1>2, <1>4, <2>6, <2>9, <2>10, <2>11 DEF BackwardInv
<1> QED  BY <1>6, <1>7

\* The batch of one visit, and what it was sent for, outlive a command.
LEMMA CommandCovers == TypeOK /\ BatchInv /\ CommandOk => BatchInv'
<1> SUFFICES ASSUME TypeOK, BatchInv, CommandOk PROVE BatchInv'  OBVIOUS
<1>1. CountInv /\ PackInv /\ BackfillInv  BY DEF BatchInv
<1>2. CountInv'  BY <1>1, CrossableAfter
<1>3. /\ visit' = visit /\ newest' = newest /\ batch'.from = batch.from
      /\ batch'.first = batch.first /\ batch'.size = batch.size
      /\ UNCHANGED <<tableVars, cursorVars>>
  BY CommandHeard
<1>4. PackInv'  BY <1>1, <1>3 DEF PackInv
<1>5. BackfillInv'  BY <1>1, <1>3, SameKnown DEF BackfillInv, cursorVars
<1>6. ForwardInv'
  <2>1. CASE visit.stage \in {"probe", "pack"}  BY <2>1, ForwardCommand
  <2>2. CASE visit.stage \notin {"probe", "pack"}  BY <2>2, <1>3 DEF ForwardInv
  <2> QED  BY <2>1, <2>2
<1>7. ProbeInv'
  <2>1. CASE visit.stage = "probe"  BY <2>1, ProbeCommand
  <2>2. CASE visit.stage # "probe"  BY <2>2, <1>3 DEF ProbeInv
  <2> QED  BY <2>1, <2>2
<1>8. BackwardInv'
  <2>1. CASE visit.stage \in {"head", "window", "backfill"}  BY <2>1, BackwardCommand
  <2>2. CASE visit.stage \notin {"head", "window", "backfill"}
    BY <2>2, <1>3 DEF BackwardInv
  <2> QED  BY <2>1, <2>2
<1> QED  BY <1>2, <1>4, <1>5, <1>6, <1>7, <1>8 DEF BatchInv

LEMMA FailureCovers == TypeOK /\ BatchInv /\ CommandFails => BatchInv'
<1> SUFFICES ASSUME TypeOK, BatchInv, CommandFails PROVE BatchInv'  OBVIOUS
<1>1. /\ CountInv /\ ForwardInv /\ PackInv /\ ProbeInv /\ BackwardInv /\ BackfillInv
  BY DEF BatchInv
<1>2. /\ batch'.asc = batch.asc /\ batch'.from = batch.from
      /\ batch'.first = batch.first /\ batch'.size = batch.size
      /\ batch'.done = batch.done + 1 /\ batch.done < batch.size
      /\ batch'.good = batch.good /\ batch'.total = batch.total
      /\ batch'.next = batch.next
      /\ visit' = visit /\ newest' = newest /\ UNCHANGED <<tableVars, cursorVars>>
  BY CommandLost
<1>3. Read' = Read /\ Carried' = Carried  BY CommandLost DEF Read, Carried
<1>4. CountInv'  BY <1>1, <1>2 DEF CountInv, TypeOK, Batches
<1>5. Crossable' \subseteq Crossable
  <2>1. Failed'
    BY <1>1, <1>2 DEF Failed, CountInv, TypeOK, Batches
  <2> QED  BY <2>1, CommandLost DEF Crossable
<1>6. Known' = Known  BY <1>2, SameKnown
<1>7. ForwardInv'
  BY <1>1, <1>2, <1>3, <1>5, <1>6 DEF ForwardInv, Below, cursorVars
<1>8. PackInv' /\ ProbeInv'  BY <1>1, <1>2, <1>3 DEF PackInv, ProbeInv
<1>9. BackwardInv'  BY <1>1, <1>2, <1>3, <1>5 DEF BackwardInv
<1>10. BackfillInv'  BY <1>1, <1>2, <1>6 DEF BackfillInv, cursorVars
<1> QED  BY <1>4, <1>7, <1>8, <1>9, <1>10 DEF BatchInv

\* A new call disturbs no batch: every id it speaks of was there before.
LEMMA GrowthCovers ==
  ASSUME TypeOK, BatchInv, newest' \in Nat, newest <= newest',
         UNCHANGED <<tableVars, cursorVars, visit, batch>>
  PROVE  BatchInv'
<1>1. /\ CountInv /\ ForwardInv /\ PackInv /\ ProbeInv /\ BackwardInv /\ BackfillInv
  BY DEF BatchInv
<1>2. Read' = Read /\ Carried' = Carried /\ Crossable' = Crossable
  BY DEF Read, Carried, Crossable, Failed
<1>3. Known' = Known  BY SameKnown
<1>4. /\ newest \in Nat /\ batch.from \in Nat /\ batch.size \in Nat /\ PageSize \in Nat
      /\ batch.size * PageSize \in Nat /\ batch.total \in Nat
  BY SizeAssumption DEF TypeOK, Batches
<1>5. CountInv' /\ ForwardInv'
  BY <1>1, <1>2, <1>3 DEF CountInv, ForwardInv, Below, cursorVars
<1>6. PackInv' /\ ProbeInv'  BY <1>1, <1>2, <1>4 DEF PackInv, ProbeInv
<1>7. BackwardInv'  BY <1>1, <1>2, <1>4 DEF BackwardInv
<1>8. BackfillInv'
  <2>1. visit.stage = "backfill" => visit.low \in 1..newest'
    BY <1>1, <1>4 DEF BackfillInv
  <2> QED  BY <1>1, <1>3, <2>1 DEF BackfillInv, cursorVars
<1> QED  BY <1>5, <1>6, <1>7, <1>8 DEF BatchInv

-----------------------------------------------------------------------------
(* Between two phases *)

Agree(st) == st = status' \/ (st \in HeadStates /\ status' \in HeadStates)

LEMMA Idles ==
  ASSUME visit'.stage = "idle", CountInv'
  PROVE  StatusInv' /\ EntryInv' /\ BatchInv'
<1>1. BatchInv'  BY NoBatchInProgress DEF Fetching
<1> QED  BY <1>1 DEF StatusInv, EntryInv

LEMMA NoVisitIdles ==
  ASSUME visit' = NoVisit, batch' = NoBatch
  PROVE  StatusInv' /\ EntryInv' /\ BatchInv'
<1>1. visit'.stage = "idle"  BY NothingInHand
<1>2. CountInv'  BY NothingInHand DEF CountInv
<1> QED  BY <1>1, <1>2, Idles

LEMMA EntersIncremental ==
  ASSUME NEW st, NEW high, NEW low,
         PhaseOver("enter_incremental", st, high, low), Agree(st),
         BelowNext(high), status' = "running" => low = lowId'
  PROVE  StatusInv' /\ EntryInv' /\ BatchInv'
<1>1. HandsOn("enter_incremental", st, high, low) /\ batch' = NoBatch
  BY PhaseOverHandsOn
<1>2. CountInv'  BY <1>1, NothingInHand DEF CountInv
<1>3. CASE visit' = NoVisit  BY <1>1, <1>3, NoVisitIdles
<1>4. CASE visit' # NoVisit
  <2>1. /\ visit'.stage = "enter_incremental" /\ visit'.status = st
        /\ visit'.high = high /\ visit'.low = low
    BY <1>1, <1>4 DEF HandsOn
  <2>2. BatchInv'  BY <2>1, <1>2, NoBatchInProgress DEF Fetching
  <2>3. StatusInv'  BY <2>1 DEF StatusInv, Agree
  <2>4. EntryInv'  BY <2>1 DEF EntryInv, Below, BelowNext
  <2> QED  BY <2>2, <2>3, <2>4
<1> QED  BY <1>3, <1>4

LEMMA EntersBackfill ==
  ASSUME IncrementalOver, Agree(visit.status), status' = "running" => visit.low = lowId'
  PROVE  StatusInv' /\ EntryInv' /\ BatchInv'
<1>1. HandsOn("enter_backfill", visit.status, visit.high, visit.low) /\ batch' = NoBatch
  BY PhaseOverHandsOn DEF IncrementalOver
<1>2. CountInv'  BY <1>1, NothingInHand DEF CountInv
<1>3. CASE visit' = NoVisit  BY <1>1, <1>3, NoVisitIdles
<1>4. CASE visit' # NoVisit
  <2>1. /\ visit'.stage = "enter_backfill" /\ visit'.status = visit.status
        /\ visit'.high = visit.high /\ visit'.low = visit.low
    BY <1>1, <1>4 DEF HandsOn
  <2>2. BatchInv'  BY <2>1, <1>2, NoBatchInProgress DEF Fetching
  <2>3. StatusInv'  BY <2>1 DEF StatusInv, Agree
  <2>4. EntryInv'  BY <2>1 DEF EntryInv
  <2> QED  BY <2>2, <2>3, <2>4
<1> QED  BY <1>3, <1>4

LEMMA BackfillEnds == BackfillOver => StatusInv' /\ EntryInv' /\ BatchInv'
<1> SUFFICES ASSUME BackfillOver PROVE StatusInv' /\ EntryInv' /\ BatchInv'  OBVIOUS
<1>1. visit'.stage = "idle" /\ batch' = NoBatch
  BY BackfillOverHandsOn, NothingInHand
<1>2. CountInv'  BY <1>1, NothingInHand DEF CountInv
<1> QED  BY <1>1, <1>2, Idles

LEMMA StopEnds == Stop => StatusInv' /\ EntryInv' /\ BatchInv'
BY NoVisitIdles DEF Stop

LEMMA SameCursorInv ==
  ASSUME TypeOK, CursorInv, UNCHANGED <<newest, cursorVars>>, Known \subseteq Known'
  PROVE  CursorInv'
BY DEF CursorInv, Below, cursorVars

\* The three ways a visit begins to read.
LEMMA BeginsHead ==
  ASSUME TypeOK, BeginHead, newest' = newest, Agree(visit.status), status' \in HeadStates
  PROVE  StatusInv' /\ EntryInv' /\ BatchInv'
<1>1. visit'.stage = "head" /\ visit'.status = visit.status
  BY DEF BeginHead, Send, TypeOK, Visits
<1>2. /\ ~batch'.asc /\ batch'.from = newest' /\ batch'.first = 0 /\ batch'.size = 1
      /\ batch'.done = 0 /\ batch'.good = 0 /\ Read' = {} /\ Crossable' = {}
  BY RequestFields DEF BeginHead, Send
<1>3. newest' \in 0..MaxId  BY DEF TypeOK
<1>4. BatchInv'  BY <1>1, <1>2, <1>3, HeadCovers
<1>5. StatusInv'  BY <1>1 DEF StatusInv, Agree
<1>6. EntryInv'  BY <1>1 DEF EntryInv
<1> QED  BY <1>4, <1>5, <1>6

LEMMA BeginsProbe ==
  ASSUME TypeOK, NEW b \in 0..MaxId, Probe(b), BelowNext(b), BelowNext(visit.high),
         Agree(visit.status), status' = "running" => visit.low = lowId'
  PROVE  StatusInv' /\ EntryInv' /\ BatchInv'
<1>1. /\ visit'.stage = "probe" /\ visit'.status = visit.status
      /\ visit'.base = b /\ visit'.cursor = b
      /\ visit'.high = visit.high /\ visit'.low = visit.low
  BY DEF Probe, Send, TypeOK, Visits
<1>2. /\ batch'.asc /\ batch'.from = b /\ batch'.first = 0 /\ batch'.size = 1
      /\ batch'.done = 0 /\ batch'.good = 0 /\ Read' = {} /\ Crossable' = {}
  <2>1. batch' = Request(TRUE, b, 0, 1)  BY DEF Probe, Send
  <2>2. batch'.rows = {} /\ batch'.rejected = {}  BY <2>1 DEF Request
  <2>3. Read' = {} /\ Crossable' = {}  BY <2>2 DEF Read, Crossable
  <2> QED  BY <2>1, <2>3 DEF Request
<1>3. BatchInv'  BY <1>1, <1>2, ProbeCovers
<1>4. StatusInv'  BY <1>1 DEF StatusInv, Agree
<1>5. EntryInv'  BY <1>1 DEF EntryInv, Below, BelowNext
<1> QED  BY <1>3, <1>4, <1>5

LEMMA BeginsBackfill ==
  ASSUME TypeOK, NEW b \in 1..newest, ReadBelow(b), newest' = newest,
         visit.status = "running", status' = "running",
         visit.low \in 1..newest, visit.low..highId' \subseteq Known',
         b..highId' \subseteq Known'
  PROVE  StatusInv' /\ EntryInv' /\ BatchInv'
<1>1. /\ visit'.stage = "backfill" /\ visit'.status = visit.status
      /\ visit'.cursor = b /\ visit'.low = visit.low
  BY DEF ReadBelow, Send, TypeOK, Visits
<1>2. /\ ~batch'.asc /\ batch'.from = b - 1 /\ batch'.first = 0
      /\ batch'.size = BatchPages /\ batch'.done = 0 /\ batch'.good = 0
      /\ Read' = {} /\ Crossable' = {}
  BY RequestFields DEF ReadBelow, Send
<1>3. newest' \in 0..MaxId  BY DEF TypeOK
<1>4. BatchInv'  BY <1>1, <1>2, <1>3, ReadBelowCovers
<1>5. StatusInv'  BY <1>1 DEF StatusInv
<1>6. EntryInv'  BY <1>1 DEF EntryInv
<1> QED  BY <1>4, <1>5, <1>6

-----------------------------------------------------------------------------
(* Every step keeps what the cursors cover *)

LEMMA CoverFacts ==
  ASSUME WindowInv
  PROVE  /\ TypeInv /\ TypeOK /\ LowInv /\ FrontInv
         /\ CursorInv /\ StatusInv /\ EntryInv /\ BatchInv
         /\ CountInv /\ ForwardInv /\ PackInv /\ ProbeInv /\ BackwardInv /\ BackfillInv
BY DEF WindowInv, CoverInv, TypeInv, BatchInv

LEMMA QuietCovers ==
  WindowInv /\ (UNCHANGED vars \/ CommandOk \/ CommandFails \/ NewCall \/ IntervalPasses)
    => CoverInv'
<1> SUFFICES ASSUME WindowInv,
                    UNCHANGED vars \/ CommandOk \/ CommandFails \/ NewCall \/ IntervalPasses
             PROVE  CoverInv'
  OBVIOUS
<1>1. TypeOK /\ CursorInv /\ StatusInv /\ EntryInv /\ BatchInv  BY CoverFacts
<1>2. /\ visit' = visit /\ UNCHANGED <<tableVars, cursorVars>>
      /\ newest \in Nat /\ newest' \in Nat /\ newest <= newest'
  BY <1>1, CommandHeard, CommandLost, SizeAssumption
  DEF vars, NewCall, IntervalPasses, TypeOK
<1>3. Known' = Known  BY <1>2, SameKnown
<1>4. CursorInv'
  BY <1>1, <1>2, <1>3 DEF CursorInv, Below, cursorVars
<1>5. StatusInv' /\ EntryInv'
  BY <1>1, <1>2, <1>3 DEF StatusInv, EntryInv, Below, cursorVars
<1>6. BatchInv'
  <2>1. CASE CommandOk  BY <1>1, <2>1, CommandCovers
  <2>2. CASE CommandFails  BY <1>1, <2>2, FailureCovers
  <2>3. CASE batch' = batch  BY <1>1, <1>2, <2>3, GrowthCovers
  <2> QED  BY <2>1, <2>2, <2>3 DEF vars, NewCall, IntervalPasses
<1> QED  BY <1>4, <1>5, <1>6 DEF CoverInv

LEMMA EnterCovers ==
  WindowInv /\ (OpenVisit \/ EnterHead \/ EnterIncremental \/ EnterBackfill) => CoverInv'
<1> SUFFICES ASSUME WindowInv,
                    OpenVisit \/ EnterHead \/ EnterIncremental \/ EnterBackfill
             PROVE  CoverInv'
  OBVIOUS
<1>1. TypeOK /\ CursorInv /\ StatusInv /\ EntryInv /\ CountInv /\ LowInv
  BY CoverFacts
<1>2. newest' = newest /\ UNCHANGED <<tableVars, cursorVars>>
  BY DEF OpenVisit, EnterHead, EnterIncremental, EnterBackfill
<1>3. Known' = Known  BY <1>2, SameKnown
<1>4. CursorInv'  BY <1>1, <1>2, <1>3, SameCursorInv
<1>5. status' = status /\ lowId' = lowId /\ highId' = highId  BY <1>2 DEF cursorVars
<1>6. \A h : Below(h) => BelowNext(h)  BY <1>3, <1>5 DEF Below, BelowNext
<1>7. visit.stage # "idle" => Agree(visit.status)
  BY <1>1, <1>5 DEF StatusInv, Agree
<1>8. CASE OpenVisit
  <2>1. /\ visit'.stage = "enter_head" /\ visit'.status = status
        /\ visit'.high = highId /\ visit'.low = lowId /\ batch' = batch
    BY <1>8 DEF OpenVisit, NoVisit
  <2>2. CountInv'  BY <1>1, <2>1 DEF CountInv
  <2>3. BatchInv'  BY <2>1, <2>2, NoBatchInProgress DEF Fetching
  <2>4. StatusInv'  BY <2>1, <1>5 DEF StatusInv
  <2>5. EntryInv'
    <3>1. BelowNext(highId)  BY <1>1, <1>6 DEF CursorInv
    <3> QED  BY <2>1, <3>1, <1>5 DEF EntryInv, Below, BelowNext
  <2> QED  BY <1>4, <2>3, <2>4, <2>5 DEF CoverInv
<1>9. CASE EnterHead
  <2>1. CASE visit.status \in HeadStates /\ BeginHead
    <3>1. Agree(visit.status) /\ status' \in HeadStates
      BY <2>1, <1>9, <1>7 DEF EnterHead, Agree
    <3> QED  BY <2>1, <3>1, <1>1, <1>2, <1>4, BeginsHead DEF CoverInv
  <2>2. CASE Send([visit EXCEPT !.stage = "enter_incremental"], NoBatch)
    <3>1. /\ visit'.stage = "enter_incremental" /\ visit'.status = visit.status
          /\ visit'.high = visit.high /\ visit'.low = visit.low /\ batch' = NoBatch
      BY <2>2, <1>1 DEF Send, TypeOK, Visits
    <3>2. CountInv'  BY <3>1, NothingInHand DEF CountInv
    <3>3. BatchInv'  BY <3>1, <3>2, NoBatchInProgress DEF Fetching
    <3>4. StatusInv'  BY <3>1, <1>7, <1>9 DEF StatusInv, Agree, EnterHead
    <3>5. BelowNext(visit.high) /\ (status' = "running" => visit.low = lowId')
      BY <1>1, <1>5, <1>6, <1>9 DEF EnterHead, EntryInv
    <3>6. EntryInv'  BY <3>1, <3>5 DEF EntryInv, Below, BelowNext
    <3> QED  BY <1>4, <3>3, <3>4, <3>6 DEF CoverInv
  <2> QED  BY <1>9, <2>1, <2>2 DEF EnterHead
<1>10. CASE EnterIncremental
  <2>1. /\ BelowNext(visit.high) /\ (status' = "running" => visit.low = lowId')
        /\ Agree(visit.status)
    BY <1>1, <1>5, <1>6, <1>7, <1>10 DEF EnterIncremental, EntryInv
  <2>2. CASE Probe(visit.high)
    <3>1. visit.high \in 0..MaxId  BY <1>1 DEF TypeOK, Visits
    <3> QED  BY <2>1, <2>2, <3>1, <1>1, <1>4, BeginsProbe DEF CoverInv
  <2>3. CASE Send([visit EXCEPT !.stage = "enter_backfill"], NoBatch)
    <3>1. /\ visit'.stage = "enter_backfill" /\ visit'.status = visit.status
          /\ visit'.high = visit.high /\ visit'.low = visit.low /\ batch' = NoBatch
      BY <2>3, <1>1 DEF Send, TypeOK, Visits
    <3>2. CountInv'  BY <3>1, NothingInHand DEF CountInv
    <3>3. BatchInv'  BY <3>1, <3>2, NoBatchInProgress DEF Fetching
    <3>4. StatusInv'  BY <3>1, <2>1 DEF StatusInv, Agree
    <3>5. EntryInv'  BY <3>1, <2>1 DEF EntryInv
    <3> QED  BY <1>4, <3>3, <3>4, <3>5 DEF CoverInv
  <2> QED  BY <1>10, <2>2, <2>3 DEF EnterIncremental
<1>11. CASE EnterBackfill
  <2>1. CASE visit.status = "running" /\ ReadBelow(visit.low)
    <3>1. status = "running"
      BY <2>1, <1>11, <1>1 DEF EnterBackfill, StatusInv, HeadStates
    <3>2. visit.low = lowId  BY <3>1, <1>11, <1>1 DEF EnterBackfill, EntryInv
    <3>3. visit.low \in 1..newest /\ visit.low..highId \subseteq Known
      BY <3>1, <3>2, <1>1 DEF CursorInv, Below
    <3> QED
      BY <2>1, <3>1, <3>3, <1>1, <1>2, <1>3, <1>4, <1>5, BeginsBackfill DEF CoverInv
  <2>2. CASE Send(NoVisit, NoBatch)
    BY <2>2, <1>4, NoVisitIdles DEF Send, CoverInv
  <2> QED  BY <1>11, <2>1, <2>2 DEF EnterBackfill
<1> QED  BY <1>8, <1>9, <1>10, <1>11

LEMMA BreakCovers == WindowInv /\ (TokenExpired \/ Abandon) => CoverInv'
<1> SUFFICES ASSUME WindowInv, TokenExpired \/ Abandon PROVE CoverInv'  OBVIOUS
<1>1. TypeOK /\ CursorInv /\ StatusInv /\ EntryInv /\ LowInv /\ BackfillInv
  BY CoverFacts
<1>2. newest' = newest /\ UNCHANGED <<tableVars, cursorVars>>
  BY DEF TokenExpired, Abandon
<1>3. Known' = Known  BY <1>2, SameKnown
<1>4. CursorInv'  BY <1>1, <1>2, <1>3, SameCursorInv
<1>5. status' = status /\ lowId' = lowId /\ highId' = highId  BY <1>2 DEF cursorVars
<1>6. \A h : Below(h) => BelowNext(h)  BY <1>3, <1>5 DEF Below, BelowNext
<1>7. visit \in Visits  BY <1>1 DEF TypeOK
<1>8. CASE visit' = NoVisit /\ batch' = NoBatch
  BY <1>8, <1>4, NoVisitIdles DEF CoverInv
<1> DEFINE again(stage, cursor) ==
             [visit EXCEPT !.stage = stage, !.retried = TRUE, !.loops = 1,
                           !.base = cursor, !.cursor = cursor]
<1>9. \A stage, cursor :
        /\ again(stage, cursor).stage = stage /\ again(stage, cursor).status = visit.status
        /\ again(stage, cursor).cursor = cursor /\ again(stage, cursor).base = cursor
        /\ again(stage, cursor).high = visit.high /\ again(stage, cursor).low = visit.low
        /\ DOMAIN again(stage, cursor) = DOMAIN visit
  BY <1>7 DEF Visits
<1>10. {"loops", "base"} \subseteq DOMAIN visit  BY <1>7 DEF Visits
<1> HIDE DEF again
<1>11. CASE /\ visit.stage \in {"head", "window"}
            /\ visit' = [again("head", 0) EXCEPT !.loops = 0]
            /\ batch' = Request(FALSE, newest, 0, 1)
  <2>1. visit'.stage = "head" /\ visit'.status = visit.status
    BY <1>9, <1>10, <1>11
  <2>2. /\ ~batch'.asc /\ batch'.from = newest' /\ batch'.first = 0 /\ batch'.size = 1
        /\ batch'.done = 0 /\ batch'.good = 0 /\ Read' = {} /\ Crossable' = {}
    BY RequestFields, <1>2, <1>11
  <2>3. newest' \in 0..MaxId  BY <1>1, <1>2 DEF TypeOK
  <2>4. BatchInv'  BY <2>1, <2>2, <2>3, HeadCovers
  <2>5. StatusInv'  BY <2>1, <1>1, <1>5, <1>11 DEF StatusInv
  <2>6. EntryInv'  BY <2>1, <1>1, <1>5, <1>11 DEF EntryInv
  <2> QED  BY <1>4, <2>4, <2>5, <2>6 DEF CoverInv
<1>12. CASE /\ visit.stage \in {"probe", "pack"}
            /\ visit' = again("probe", visit.high)
            /\ batch' = Request(TRUE, visit.high, 0, 1)
  <2>1. /\ visit'.stage = "probe" /\ visit'.status = visit.status
        /\ visit'.cursor = visit.high /\ visit'.base = visit.high
        /\ visit'.high = visit.high /\ visit'.low = visit.low
    BY <1>9, <1>12
  <2>2. /\ batch'.asc /\ batch'.from = visit.high /\ batch'.first = 0 /\ batch'.size = 1
        /\ batch'.done = 0 /\ batch'.good = 0 /\ Read' = {} /\ Crossable' = {}
    <3>1. batch' = Request(TRUE, visit.high, 0, 1)  BY <1>12
    <3>2. batch'.rows = {} /\ batch'.rejected = {}  BY <3>1 DEF Request
    <3>3. Read' = {} /\ Crossable' = {}  BY <3>2 DEF Read, Crossable
    <3> QED  BY <3>1, <3>3 DEF Request
  <2>3. BelowNext(visit.high) /\ (status' = "running" => visit.low = lowId')
    BY <1>1, <1>5, <1>6, <1>12 DEF EntryInv
  <2>4. visit.high \in 0..MaxId  BY <1>7 DEF Visits
  <2>5. BatchInv'  BY <2>1, <2>2, <2>3, <2>4, ProbeCovers
  <2>6. StatusInv'  BY <2>1, <1>1, <1>5, <1>12 DEF StatusInv
  <2>7. EntryInv'  BY <2>1, <2>3 DEF EntryInv, Below, BelowNext
  <2> QED  BY <1>4, <2>5, <2>6, <2>7 DEF CoverInv
<1>13. CASE /\ visit.stage = "backfill"
            /\ visit' = [again("backfill", visit.low) EXCEPT !.base = 0]
            /\ batch' = Request(FALSE, visit.low - 1, 0, BatchPages)
  <2>1. /\ visit'.stage = "backfill" /\ visit'.status = visit.status
        /\ visit'.cursor = visit.low /\ visit'.low = visit.low
    BY <1>9, <1>10, <1>13
  <2>2. /\ ~batch'.asc /\ batch'.from = visit.low - 1 /\ batch'.first = 0
        /\ batch'.size = BatchPages /\ batch'.done = 0 /\ batch'.good = 0
        /\ Read' = {} /\ Crossable' = {}
    BY RequestFields, <1>13
  <2>3. /\ status = "running" /\ visit.low \in 1..newest'
        /\ visit.low..highId' \subseteq Known' /\ newest' \in 0..MaxId
    BY <1>1, <1>2, <1>3, <1>5, <1>13 DEF BackfillInv, TypeOK
  <2>4. BatchInv'  BY <2>1, <2>2, <2>3, <1>5, ReadBelowCovers
  <2>5. StatusInv'  BY <2>1, <1>1, <1>5, <1>13 DEF StatusInv
  <2>6. EntryInv'  BY <2>1 DEF EntryInv
  <2> QED  BY <1>4, <2>4, <2>5, <2>6 DEF CoverInv
<1> QED  BY <1>8, <1>11, <1>12, <1>13, Zenon DEF TokenExpired, Abandon, again

LEMMA HeadCrosses == WindowInv /\ HeadAnswered => CoverInv'
<1> SUFFICES ASSUME WindowInv, HeadAnswered PROVE CoverInv'  OBVIOUS
<1>1. /\ TypeOK /\ CursorInv /\ StatusInv /\ EntryInv /\ BackwardInv /\ FrontInv
      /\ visit.stage = "head" /\ status \in HeadStates
  BY CoverFacts DEF HeadAnswered, EntryInv
<1>2. newest' = newest /\ Known' = Known
  BY SameKnown DEF HeadAnswered
<1>3. visit.status \in HeadStates  BY <1>1 DEF StatusInv
<1>4. CASE /\ PhaseOver("enter_incremental", visit.status, visit.high, visit.low)
           /\ UNCHANGED cursorVars
  <2>1. CursorInv'  BY <1>1, <1>2, <1>4, SameCursorInv DEF cursorVars
  <2>2. /\ Agree(visit.status) /\ BelowNext(visit.high)
        /\ (status' = "running" => visit.low = lowId')
    BY <1>1, <1>3, <1>4 DEF Agree, BelowNext, HeadStates, cursorVars
  <2> QED  BY <1>4, <2>1, <2>2, EntersIncremental DEF CoverInv
<1>5. CASE /\ status' = "done" /\ highId' = 0 /\ lowId' = 0
           /\ PhaseOver("enter_incremental", "done", 0, visit.low)
  <2>1. Agree("done") /\ BelowNext(0)  BY <1>5 DEF Agree, BelowNext
  <2>2. CursorInv'  BY <1>5 DEF CursorInv, Below
  <2>3. status' = "running" => visit.low = lowId'  BY <1>5
  <2> QED  BY <1>5, <2>1, <2>2, <2>3, EntersIncremental DEF CoverInv
<1>6. CASE /\ ~Failed /\ Crossable # {}
           /\ status' = "head" /\ UNCHANGED <<highId, lowId>>
           /\ \/ Stop
              \/ Send([visit EXCEPT !.stage = "window"],
                      [Request(FALSE, Max(Crossable), 0, BatchPages) EXCEPT
                         !.extra = batch.rows, !.rejected = batch.rejected])
  <2>1. CursorInv'  BY <1>6 DEF CursorInv, Below
  <2>2. CASE Stop  BY <2>1, <2>2, StopEnds DEF CoverInv
  <2>3. CASE Send([visit EXCEPT !.stage = "window"],
                  [Request(FALSE, Max(Crossable), 0, BatchPages) EXCEPT
                     !.extra = batch.rows, !.rejected = batch.rejected])
    <3> DEFINE r == Request(FALSE, Max(Crossable), 0, BatchPages)
    <3>1. /\ ~r.asc /\ r.from = Max(Crossable) /\ r.first = 0
          /\ r.size = BatchPages /\ r.done = 0 /\ r.good = 0 /\ r.rows = {}
          /\ "extra" \in DOMAIN r /\ "rejected" \in DOMAIN r
      BY DEF Request
    <3> HIDE DEF r
    <3>2. batch' = [r EXCEPT !.extra = batch.rows, !.rejected = batch.rejected]
      BY <2>3 DEF Send, r
    <3>3. /\ ~batch'.asc /\ batch'.from = Max(Crossable) /\ batch'.first = 0
          /\ batch'.size = BatchPages /\ batch'.done = 0 /\ batch'.good = 0
          /\ batch'.rows = {} /\ batch'.rejected = batch.rejected
          /\ batch'.extra = batch.rows
      BY <3>1, <3>2
    <3>4. visit'.stage = "window" /\ visit'.status = visit.status
      BY <2>3, <1>1 DEF Send, TypeOK, Visits
    <3>5. Crossable = Read  BY <1>6 DEF Crossable, Read
    <3>6. Max(Crossable) \in Read /\ \A i \in Read : i <= Max(Crossable)
      BY <1>1, <1>6, <3>5, MaxCrossable
    <3>7. /\ Read' = batch.rejected /\ Crossable' = batch.rejected /\ Carried' = Read
      BY <3>3, <3>4 DEF Read, Crossable, Failed, Carried
    <3>8. Read \subseteq 1..newest /\ newest \in Nat /\ batch.from \in Nat
      BY <1>1, SizeAssumption DEF FrontInv, TypeOK, Batches
    <3>9. \A i \in Read : i <= batch.from /\ i..batch.from \subseteq Read
      BY <1>1, <3>5 DEF BackwardInv, Carried
    <3> DEFINE top == Max(Crossable)
    <3>10. top \in 1..newest /\ top <= batch.from /\ top \in Nat
      <4>1. top \in 1..newest  BY <3>6, <3>8
      <4>2. top <= batch.from  BY <3>6, <3>9
      <4> QED  BY <4>1, <4>2, <3>8
    <3>11. \A i \in Read : i <= top /\ i..top \subseteq Read
      BY <3>6, <3>8, <3>9, <3>10
    <3> HIDE DEF top
    <3>12. batch'.from = top  BY <3>3 DEF top
    <3>13. \A i \in 1..batch'.from : ~(batch'.from - batch'.good * PageSize < i)
      <4>1. batch'.good * PageSize = 0  BY <3>3, SizeAssumption
      <4> QED  BY <4>1, <3>10, <3>12
    <3>14. batch.rejected \subseteq Read /\ BatchPages \in Nat \ {0}
      BY SizeAssumption DEF Read
    <3>15. BackwardInv'
      <4>1. \A i \in Crossable' : i <= batch'.from /\ i..batch'.from \subseteq Carried'
        BY <3>7, <3>11, <3>12, <3>14
      <4>2. batch'.size > 0 /\ batch'.from <= newest' /\ ~(batch'.good > 0)
        BY <1>2, <3>3, <3>8, <3>10, <3>12, <3>14
      <4> QED  BY <3>3, <3>13, <4>1, <4>2 DEF BackwardInv
    <3>16. CountInv'  BY <3>3, <3>14 DEF CountInv
    <3>17. BatchInv'
      BY <3>4, <3>15, <3>16
      DEF BatchInv, ForwardInv, PackInv, ProbeInv, BackfillInv
    <3>18. StatusInv'  BY <3>4, <1>3, <1>6 DEF StatusInv, HeadStates
    <3>19. EntryInv'  BY <3>4, <1>6 DEF EntryInv, HeadStates
    <3> QED  BY <2>1, <3>17, <3>18, <3>19 DEF CoverInv
  <2> QED  BY <1>6, <2>2, <2>3
<1> QED  BY <1>4, <1>5, <1>6 DEF HeadAnswered

LEMMA WindowCrosses == WindowInv /\ WindowAnswered => CoverInv'
<1> SUFFICES ASSUME WindowInv, WindowAnswered PROVE CoverInv'  OBVIOUS
<1>1. /\ TypeInv /\ TypeOK /\ CursorInv /\ StatusInv /\ EntryInv /\ CountInv
      /\ BackwardInv /\ FrontInv
      /\ visit.stage = "window" /\ Answered /\ status \in HeadStates
  BY CoverFacts DEF WindowAnswered, EntryInv
<1>2. /\ newest' = newest
      /\ Known' = Known \cup (batch.rows \cup batch.extra) \cup batch.rejected
  BY StoreKnown DEF WindowAnswered
<1>3. CASE /\ PhaseOver("enter_incremental", "head", visit.high, visit.low)
           /\ UNCHANGED cursorVars
  <2>1. CursorInv'  BY <1>1, <1>2, <1>3, SameCursorInv DEF cursorVars
  <2>2. /\ Agree("head") /\ BelowNext(visit.high)
        /\ (status' = "running" => visit.low = lowId')
    BY <1>1, <1>3 DEF Agree, BelowNext, HeadStates, cursorVars
  <2> QED  BY <1>3, <2>1, <2>2, EntersIncremental DEF CoverInv
<1>4. CASE /\ ~Failed
           /\ status' = IF batch.next THEN "running" ELSE "done"
           /\ highId' = batch.from
           /\ lowId' = Min(Crossable)
           /\ PhaseOver("enter_incremental", status', highId', lowId')
  <2>1. batch.from \in Crossable /\ Crossable = Read
    BY <1>1, <1>4, WindowIsRead
  <2>2. Min(Crossable) \in Read /\ Min(Crossable) \in 1..newest
    BY <1>1, <2>1, MinCrossable DEF FrontInv
  <2>3. Carried \subseteq Known'
    BY <1>1, <1>2 DEF Carried, Read
  <2>4. lowId'..batch.from \subseteq Known'
    BY <1>1, <1>4, <2>1, <2>2, <2>3 DEF BackwardInv
  <2>5. status' = "done" => 1..batch.from \subseteq Known'
    <3>1. batch.good = batch.done /\ batch.good > 0 /\ batch.good \in Nat /\ batch.from \in Nat
      BY <1>1, <1>4, SizeAssumption
      DEF CountInv, Failed, Answered, TypeOK, Batches
    <3>2. status' = "done" => batch.from <= batch.good * PageSize
      BY <1>1, <1>4, <3>1 DEF BackwardInv
    <3>3. batch.good * PageSize \in Nat  BY <3>1, SizeAssumption
    <3>4. \A i \in 1..batch.from : batch.from - batch.good * PageSize < i => i \in Read
      BY <1>1 DEF BackwardInv
    <3>5. status' = "done" => \A i \in 1..batch.from : batch.from - batch.good * PageSize < i
      BY <3>1, <3>2, <3>3
    <3> QED  BY <3>4, <3>5, <2>3 DEF Carried
  <2>6. BelowNext(highId')  BY <1>4, <2>4, <2>5 DEF BelowNext
  <2>7. CursorInv'  BY <1>2, <1>4, <2>2, <2>6 DEF CursorInv, Below, BelowNext
  <2>8. Agree(status') /\ (status' = "running" => lowId' = lowId')  BY DEF Agree
  <2> QED  BY <1>4, <2>6, <2>7, <2>8, EntersIncremental DEF CoverInv
<1> QED  BY <1>3, <1>4 DEF WindowAnswered

\* A commit of the incremental import leaves no hole below what it reached.
LEMMA AdvanceCovers ==
  ASSUME WindowInv, Advance, newest' = newest, visit.stage \in {"probe", "pack"}
  PROVE  /\ BelowNext(Reached) /\ BelowNext(visit.high) /\ CursorInv'
         /\ Agree(visit.status) /\ (status' = "running" => visit.low = lowId')
<1>1. /\ TypeOK /\ CursorInv /\ StatusInv /\ EntryInv /\ ForwardInv
  BY CoverFacts
<1>2. /\ status' = status /\ lowId' = lowId
      /\ Known' = Known \cup batch.rows \cup batch.rejected
      /\ highId' = IF Reached > visit.cursor THEN Reached ELSE highId
  BY StoreKnown DEF Advance
<1>3. Read \subseteq Known' /\ Known \subseteq Known'  BY <1>2 DEF Read
<1>4. visit.cursor \in Nat /\ Reached \in Nat /\ lowId \in Nat
  BY <1>1, ReachedIsGreatest, SizeAssumption DEF TypeOK, Visits
<1>5. (visit.cursor + 1)..Reached \subseteq Known'
  <2>1. CASE Reached = visit.cursor  BY <2>1, <1>4
  <2>2. CASE Reached \in Crossable  BY <2>2, <1>1, <1>3 DEF ForwardInv
  <2> QED  BY <2>1, <2>2, <1>1, ReachedIsGreatest
<1>6. Below(visit.cursor) /\ Below(visit.high) /\ Below(highId)
  BY <1>1 DEF ForwardInv, EntryInv, CursorInv
<1>7. BelowNext(Reached)
  <2>1. status = "running" => lowId..Reached \subseteq Known'
    BY <1>3, <1>4, <1>5, <1>6 DEF Below
  <2>2. status = "done" => 1..Reached \subseteq Known'
    BY <1>3, <1>4, <1>5, <1>6 DEF Below
  <2> QED  BY <1>2, <2>1, <2>2 DEF BelowNext
<1>8. BelowNext(visit.high) /\ BelowNext(highId)
  BY <1>2, <1>3, <1>6 DEF Below, BelowNext
<1>9. CursorInv'
  <2>1. BelowNext(highId')  BY <1>2, <1>7, <1>8
  <2> QED  BY <2>1, <1>1, <1>2 DEF CursorInv, Below, BelowNext
<1>10. Agree(visit.status) /\ (status' = "running" => visit.low = lowId')
  BY <1>1, <1>2 DEF StatusInv, EntryInv, Agree
<1> QED  BY <1>7, <1>8, <1>9, <1>10

LEMMA LoopEndsCovers ==
  ASSUME WindowInv, Advance, newest' = newest, visit.stage \in {"probe", "pack"}, LoopEnds
  PROVE  CoverInv'
<1>1. /\ BelowNext(Reached) /\ BelowNext(visit.high) /\ CursorInv'
      /\ Agree(visit.status) /\ (status' = "running" => visit.low = lowId')
  BY AdvanceCovers
<1>2. TypeOK /\ Reached \in 0..MaxId  BY CoverFacts, ReachedIsGreatest
<1>3. CASE IncrementalOver  BY <1>1, <1>3, EntersBackfill DEF CoverInv
<1>4. CASE Stop  BY <1>1, <1>4, StopEnds DEF CoverInv
<1>5. CASE Probe(Reached)  BY <1>1, <1>2, <1>5, BeginsProbe DEF CoverInv
<1> QED  BY <1>3, <1>4, <1>5 DEF LoopEnds

LEMMA PackSent ==
  ASSUME WindowInv, HasTotal, ProbeAnswered, ~Failed, PagesToPack > 0,
         Send([visit EXCEPT !.stage = "pack", !.cursor = Reached],
              Request(TRUE, visit.base, 1, PagesToPack))
  PROVE  CoverInv'
<1>1. /\ TypeOK /\ CountInv /\ ForwardInv /\ ProbeInv /\ visit.stage = "probe" /\ Answered
      /\ Advance /\ newest' = newest
  BY CoverFacts DEF ProbeAnswered
<1>2. /\ BelowNext(Reached) /\ BelowNext(visit.high) /\ CursorInv'
      /\ Agree(visit.status) /\ (status' = "running" => visit.low = lowId')
  BY <1>1, AdvanceCovers
<1>3. /\ visit'.stage = "pack" /\ visit'.cursor = Reached /\ visit'.status = visit.status
      /\ visit'.high = visit.high /\ visit'.low = visit.low
  BY <1>1 DEF Send, TypeOK, Visits
<1>4. /\ batch'.asc /\ batch'.from = visit.base /\ batch'.first = 1
      /\ batch'.size = PagesToPack /\ batch'.done = 0 /\ batch'.good = 0
      /\ Read' = {} /\ Crossable' = {}
  BY RequestFields DEF Send
<1>5. /\ batch.from \in Nat /\ newest \in Nat /\ PageSize \in Nat \ {0}
      /\ batch.good \in Nat /\ visit.cursor \in Nat /\ batch.total \in Nat
  BY <1>1, SizeAssumption DEF TypeOK, Batches, Visits
<1>6. /\ batch.first = 0 /\ batch.size = 1 /\ visit.base = batch.from
      /\ visit.cursor = batch.from + batch.first * PageSize
      /\ \A i \in Read : i <= batch.from + PageSize
  BY <1>1 DEF ProbeInv, ForwardInv
<1>7. visit.cursor = batch.from  BY <1>5, <1>6
<1>8. batch.good = 1
  BY <1>1, <1>5, <1>6 DEF CountInv, Answered, Failed, TypeOK, Batches
<1>9. batch.next /\ batch.total > 0 /\ PagesToPack * PageSize < batch.total /\ PagesToPack \in Nat
  BY <1>1, PackFits
<1>10. /\ (batch.from + 1)..(batch.from + PageSize) \subseteq Read
       /\ batch.from + batch.total <= newest
  BY <1>1, <1>8, <1>9 DEF ProbeInv
<1>11. Crossable = Read  BY DEF Crossable, Read
<1>12. batch.from + PageSize \in Read  BY <1>5, <1>10
<1>13. Reached = batch.from + PageSize
  <2>1. batch.from + PageSize <= Reached  BY <1>1, <1>11, <1>12, ReachedIsGreatest
  <2>2. Reached <= batch.from + PageSize
    BY <1>1, <1>5, <1>6, <1>7, <1>11, ReachedIsGreatest
  <2>3. Reached \in Nat  BY <1>1, ReachedIsGreatest, SizeAssumption
  <2> QED  BY <2>1, <2>2, <2>3, <1>5
<1>14. ForwardInv'
  <2>1. Below(visit.cursor)'  BY <1>2, <1>3 DEF Below, BelowNext
  <2>2. batch'.first * PageSize = PageSize /\ (batch'.first + batch'.good) * PageSize = PageSize
    BY <1>4, <1>5
  <2>3. visit'.cursor = batch'.from + batch'.first * PageSize
    BY <1>3, <1>4, <1>6, <1>13, <2>2
  <2>4. (visit'.cursor + 1)..(batch'.from + (batch'.first + batch'.good) * PageSize) = {}
    BY <1>3, <1>4, <1>5, <1>6, <1>13, <2>2
  <2> QED  BY <1>4, <2>1, <2>3, <2>4 DEF ForwardInv
<1>15. PackInv'
  <2>1. PagesToPack * PageSize \in Nat  BY <1>5, <1>9
  <2> QED  BY <2>1, <1>1, <1>4, <1>5, <1>6, <1>9, <1>10 DEF PackInv
<1>16. CountInv'  BY <1>4, <1>9 DEF CountInv
<1>17. BatchInv'
  BY <1>3, <1>14, <1>15, <1>16 DEF BatchInv, ProbeInv, BackwardInv, BackfillInv
<1>18. StatusInv'  BY <1>2, <1>3 DEF StatusInv, Agree
<1>19. EntryInv'  BY <1>2, <1>3 DEF EntryInv, Below, BelowNext
<1> QED  BY <1>2, <1>17, <1>18, <1>19 DEF CoverInv

LEMMA IncrementalCrosses ==
  ASSUME HasTotal
  PROVE  WindowInv /\ (ProbeAnswered \/ PackAnswered \/ ExtraOfIncremental) => CoverInv'
<1> SUFFICES ASSUME WindowInv, ProbeAnswered \/ PackAnswered \/ ExtraOfIncremental
             PROVE  CoverInv'
  OBVIOUS
<1>1. ASSUME Advance, newest' = newest, visit.stage \in {"probe", "pack"}
      PROVE  /\ IncrementalOver => CoverInv'
             /\ Stop => CoverInv'
             /\ LoopEnds => CoverInv'
  BY <1>1, AdvanceCovers, EntersBackfill, StopEnds, LoopEndsCovers DEF CoverInv
<1>2. CASE ProbeAnswered
  <2>1. Advance /\ newest' = newest /\ visit.stage \in {"probe", "pack"}
    BY <1>2 DEF ProbeAnswered
  <2> QED  BY <1>1, <1>2, <2>1, PackSent DEF ProbeAnswered
<1>3. CASE PackAnswered
  <2>1. Advance /\ newest' = newest /\ visit.stage \in {"probe", "pack"}
    BY <1>3 DEF PackAnswered
  <2>2. CASE Send([visit EXCEPT !.stage = "extra_incremental"], batch)
    <3>1. /\ CursorInv' /\ Agree(visit.status) /\ (status' = "running" => visit.low = lowId')
      BY <2>1, AdvanceCovers
    <3>2. TypeOK /\ CountInv  BY CoverFacts
    <3>3. /\ visit'.stage = "extra_incremental" /\ visit'.status = visit.status
          /\ visit'.low = visit.low /\ batch' = batch
      BY <2>2, <3>2 DEF Send, TypeOK, Visits
    <3>4. CountInv'  BY <3>2, <3>3 DEF CountInv
    <3>5. BatchInv'  BY <3>3, <3>4, NoBatchInProgress DEF Fetching
    <3>6. StatusInv' /\ EntryInv'  BY <3>1, <3>3 DEF StatusInv, EntryInv, Agree
    <3> QED  BY <3>1, <3>5, <3>6 DEF CoverInv
  <2> QED  BY <1>1, <1>3, <2>1, <2>2 DEF PackAnswered
<1>4. CASE ExtraOfIncremental
  <2>1. TypeOK /\ CursorInv /\ StatusInv /\ EntryInv /\ visit.stage = "extra_incremental"
    BY <1>4, CoverFacts DEF ExtraOfIncremental
  <2>2. Known \subseteq Known' /\ newest' = newest /\ UNCHANGED cursorVars
    BY <1>4, StoreKnown DEF ExtraOfIncremental
  <2>3. CursorInv'  BY <2>1, <2>2, SameCursorInv
  <2>4. Agree(visit.status) /\ (status' = "running" => visit.low = lowId')
    BY <2>1, <2>2 DEF StatusInv, EntryInv, Agree, cursorVars
  <2> QED  BY <1>4, <2>3, <2>4, EntersBackfill DEF ExtraOfIncremental, CoverInv
<1> QED  BY <1>2, <1>3, <1>4

LEMMA BackfillCrosses ==
  WindowInv /\ (BackfillStays \/ BackfillMoves \/ ExtraOfBackfill) => CoverInv'
<1> SUFFICES ASSUME WindowInv, BackfillStays \/ BackfillMoves \/ ExtraOfBackfill
             PROVE  CoverInv'
  OBVIOUS
<1>1. /\ TypeOK /\ CursorInv /\ StatusInv /\ CountInv /\ BackwardInv /\ BackfillInv
      /\ FrontInv /\ LowInv
  BY CoverFacts
<1>2. newest' = newest /\ highId' = highId
  BY DEF BackfillStays, BackfillMoves, ExtraOfBackfill, cursorVars
<1>3. BackfillOver /\ CursorInv' => CoverInv'  BY BackfillEnds DEF CoverInv
<1>4. /\ newest \in Nat /\ highId \in Nat /\ batch.from \in Nat /\ batch.size \in Nat
      /\ batch.good \in Nat /\ batch.done \in Nat /\ PageSize \in Nat \ {0}
      /\ visit.cursor \in Nat
  BY <1>1, SizeAssumption DEF TypeOK, Batches, Visits
<1>5. CASE ExtraOfBackfill
  <2>1. Known \subseteq Known' /\ UNCHANGED cursorVars
    BY <1>5, StoreKnown DEF ExtraOfBackfill
  <2> QED  BY <1>1, <1>2, <1>3, <1>5, <2>1, SameCursorInv DEF ExtraOfBackfill
<1>6. ASSUME visit.stage = "backfill", Answered
      PROVE  /\ status = "running" /\ visit.cursor = batch.from + 1
             /\ visit.cursor..highId \subseteq Known
             /\ visit.low \in 1..newest /\ visit.low..highId \subseteq Known
             /\ ~Failed => batch.good > 0 /\ Crossable = Read
             /\ \A i \in 1..batch.from : batch.from - batch.good * PageSize < i => i \in Read
             /\ \A i \in Crossable : i <= batch.from /\ i..batch.from \subseteq Read
             /\ batch.good > 0 /\ ~batch.next => batch.from <= batch.good * PageSize
  <2>1. ~Failed => batch.good > 0 /\ Crossable = Read
    BY <1>4, <1>6 DEF Answered, Failed, Crossable, Read
  <2>2. Carried = Read  BY <1>6 DEF Carried
  <2> QED  BY <1>1, <1>6, <2>1, <2>2 DEF BackfillInv, BackwardInv
<1>7. CASE BackfillStays
  <2>1. visit.stage = "backfill" /\ Answered /\ Crossable = {} /\ lowId' = lowId
    BY <1>7 DEF BackfillStays
  <2>2. Known \subseteq Known'
    BY <1>7, StoreKnown, SameKnown DEF BackfillStays, tableVars
  <2>3. CASE UNCHANGED status
    <3>1. CursorInv'
      BY <1>1, <1>2, <2>1, <2>2, <2>3, SameCursorInv DEF cursorVars
    <3> QED  BY <1>3, <1>7, <3>1 DEF BackfillStays
  <2>4. CASE ~Failed /\ status' = "done"
    <3>1. batch.good > 0 /\ Read = {}  BY <1>6, <2>1, <2>4
    <3>2. batch.from = 0
      <4>1. batch.good * PageSize \in Nat /\ batch.good * PageSize > 0
        BY <1>4, <3>1
      <4>2. batch.from > 0 => batch.from \in Read
        BY <1>4, <1>6, <2>1, <4>1
      <4> QED  BY <1>4, <3>1, <4>2
    <3>3. 1..highId \subseteq Known  BY <1>6, <2>1, <3>2
    <3>4. CursorInv'  BY <1>2, <2>2, <2>4, <3>3 DEF CursorInv, Below
    <3> QED  BY <1>3, <1>7, <3>4 DEF BackfillStays
  <2> QED  BY <1>7, <2>3, <2>4 DEF BackfillStays
<1>8. CASE BackfillMoves
  <2> DEFINE lowest == Min(Crossable)
             exhausted == ~batch.next /\ ~Failed
  <2>1. /\ visit.stage = "backfill" /\ Answered /\ Crossable # {}
        /\ lowId' = lowest /\ status' = (IF exhausted THEN "done" ELSE status)
    BY <1>8 DEF BackfillMoves
  <2>2. Known' = Known \cup batch.rows \cup batch.rejected
    BY <1>8, StoreKnown DEF BackfillMoves
  <2>3. Read \subseteq Known' /\ Known \subseteq Known'  BY <2>2 DEF Read
  <2>4. lowest \in Crossable /\ lowest \in 1..newest
    BY <1>1, <2>1, MinCrossable DEF FrontInv, Crossable, Read
  <2> HIDE DEF lowest
  <2>5. lowest..highId \subseteq Known'
    <3>1. lowest <= batch.from /\ lowest..batch.from \subseteq Read  BY <1>6, <2>1, <2>4
    <3>2. (batch.from + 1)..highId \subseteq Known  BY <1>6, <2>1
    <3> QED  BY <3>1, <3>2, <2>3, <2>4, <1>4
  <2>6. exhausted => 1..highId \subseteq Known'
    <3> SUFFICES ASSUME exhausted PROVE 1..highId \subseteq Known'  OBVIOUS
    <3>1. batch.good > 0 /\ batch.from <= batch.good * PageSize  BY <1>6, <2>1
    <3>2. batch.good * PageSize \in Nat  BY <1>4
    <3>3. \A i \in 1..batch.from : i \in Read  BY <1>4, <1>6, <2>1, <3>1, <3>2
    <3>4. (batch.from + 1)..highId \subseteq Known  BY <1>6, <2>1
    <3> QED  BY <3>3, <3>4, <2>3, <1>4
  <2>7. CursorInv'
    <3>1. status = "running"  BY <1>6, <2>1
    <3>2. CASE exhausted  BY <3>2, <2>1, <2>6, <1>2 DEF CursorInv, Below
    <3>3. CASE ~exhausted
      BY <3>1, <3>3, <2>1, <2>4, <2>5, <1>2 DEF CursorInv, Below
    <3> QED  BY <3>2, <3>3
  <2>8. CASE Stop  BY <2>7, <2>8, StopEnds DEF CoverInv
  <2>9. CASE BackfillOver  BY <2>7, <2>9, <1>3
  <2>10. CASE Send([visit EXCEPT !.stage = "extra_backfill"], batch) /\ Failed
    <3>1. /\ visit'.stage = "extra_backfill" /\ visit'.status = visit.status /\ batch' = batch
      BY <2>10, <1>1 DEF Send, TypeOK, Visits
    <3>2. CountInv'  BY <3>1, <1>1 DEF CountInv
    <3>3. BatchInv'  BY <3>1, <3>2, NoBatchInProgress DEF Fetching
    <3>4. status' = status  BY <2>1, <2>10
    <3>5. StatusInv' /\ EntryInv'
      BY <3>1, <3>4, <1>1, <2>1 DEF StatusInv, EntryInv
    <3> QED  BY <2>7, <3>3, <3>5 DEF CoverInv
  <2>11. CASE ReadBelow(lowest) /\ ~exhausted
    <3>1. status' = "running" /\ visit.status = "running"
      BY <1>1, <1>6, <2>1, <2>11 DEF LowInv
    <3>2. visit.low \in 1..newest /\ visit.low..highId' \subseteq Known'
      BY <1>2, <1>6, <2>1, <2>3
    <3>3. lowest..highId' \subseteq Known'  BY <2>5, <1>2
    <3> QED
      BY <1>1, <1>2, <2>4, <2>7, <2>11, <3>1, <3>2, <3>3, BeginsBackfill DEF CoverInv
  <2> QED  BY <1>8, <2>8, <2>9, <2>10, <2>11 DEF BackfillMoves, lowest
<1> QED  BY <1>5, <1>7, <1>8

-----------------------------------------------------------------------------
(* What the cursors cover *)

LEMMA InitCovers == Init => WindowInv
<1> SUFFICES ASSUME Init PROVE WindowInv  OBVIOUS
<1>1. TypeInv  BY InitTypes
<1>2. visit.stage = "idle" /\ batch.good = 0 /\ batch.done = 0 /\ batch.size = 0
  BY NothingInHand DEF Init
<1>3. CursorInv  BY DEF Init, CursorInv, Below
<1>4. StatusInv /\ EntryInv  BY <1>2 DEF StatusInv, EntryInv
<1>5. BatchInv
  BY <1>2
  DEF BatchInv, CountInv, ForwardInv, PackInv, ProbeInv, BackwardInv, BackfillInv
<1> QED  BY <1>1, <1>3, <1>4, <1>5 DEF WindowInv, CoverInv

LEMMA CoverStep ==
  ASSUME HasTotal
  PROVE  WindowInv /\ [Next]_vars => WindowInv'
<1> SUFFICES ASSUME WindowInv, [Next]_vars PROVE WindowInv'  OBVIOUS
<1>1. TypeInv'  BY TypeStep DEF WindowInv
<1>2. CoverInv'
  BY QuietCovers, EnterCovers, BreakCovers, HeadCrosses, WindowCrosses,
     IncrementalCrosses, BackfillCrosses
  DEF Next, SyncStep
<1> QED  BY <1>1, <1>2 DEF WindowInv

\* With totals in the portal's answers, every call between the cursors is
\* stored or on record as rejected, whatever fails and whatever is refused
\* (the contiguous prefix rule of fetch.py and prefix_bx_ids).
THEOREM WindowIsCovered ==
  ASSUME HasTotal
  PROVE  Spec => []WindowCovered
<1>1. WindowInv => WindowCovered
  BY DEF WindowInv, CoverInv, CursorInv, Below, WindowCovered
<1> QED  BY <1>1, InitCovers, CoverStep, PTL DEF Spec
=============================================================================
