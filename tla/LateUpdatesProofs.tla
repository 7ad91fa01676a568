------------------------- MODULE LateUpdatesProofs -------------------------
(***************************************************************************)
(* Proofs about LateUpdates for every number of calls, page and batch      *)
(* size, set of refused rows and budget.                                   *)
(*                                                                         *)
(* A pass over the window reads by offset while calls are deleted.  What   *)
(* it has passed without reading is counted against the deletions: one of  *)
(* them moves at most one call over the offset (OneSlipsBy).  Calls that   *)
(* do not exist yet are counted as if they did: ids only grow, so their    *)
(* places are known already.                                               *)
(***************************************************************************)
EXTENDS LateUpdates, FiniteSetTheorems, WellFoundedInduction, TLAPS

-----------------------------------------------------------------------------
(* Least and greatest elements, pages *)

LEMMA SomeLeast ==
  ASSUME NEW S \in SUBSET Nat, S # {}
  PROVE  \E x \in S : \A y \in S : x <= y
<1>1. PICK x \in S : \A y \in S : ~ (<<y, x>> \in OpToRel(<, Nat))
  BY WFMin, NatLessThanWellFounded
<1>2. \A y \in S : ~ (y < x)  BY <1>1 DEF OpToRel
<1> QED  BY <1>2

LEMMA SomeGreatest ==
  ASSUME NEW n \in Nat, NEW S \in SUBSET (0..n), S # {}
  PROVE  \E x \in S : \A y \in S : x >= y
<1> DEFINE T == {n - x : x \in S}
<1>1. PICK z \in S : TRUE  OBVIOUS
<1>2. T \in SUBSET Nat /\ n - z \in T  OBVIOUS
<1>3. PICK t \in T : \A u \in T : t <= u
  <2> HIDE DEF T
  <2> QED  BY <1>2, SomeLeast
<1>4. PICK x \in S : t = n - x  OBVIOUS
<1>5. \A y \in S : n - x <= n - y  BY <1>3, <1>4
<1> QED  BY <1>5

LEMMA MinIsLeast ==
  ASSUME NEW S \in SUBSET Nat, S # {}
  PROVE  Min(S) \in S /\ \A y \in S : Min(S) <= y
BY SomeLeast DEF Min

LEMMA MaxIsOne ==
  ASSUME NEW n \in Nat, NEW S \in SUBSET (0..n), S # {}
  PROVE  Max(S) \in S
<1>1. \E x \in S : \A y \in S : x >= y  BY SomeGreatest
<1> QED  BY <1>1 DEF Max

LEMMA ProductIsNatural ==
  ASSUME NEW a \in Nat, NEW b \in Nat
  PROVE  a * b \in Nat
OBVIOUS

\* A place within a number of pages is on one of them.
LEMMA SomePage ==
  ASSUME NEW p \in Nat, NEW o \in Nat, NEW pages \in Nat, NEW size \in Nat \ {0},
         o <= p, p < o + pages * size
  PROVE  \E c \in 1..pages : o + (c - 1) * size <= p /\ p < o + (c - 1) * size + size
<1> DEFINE S == {c \in Nat : p < o + c * size}
<1>1. pages \in S  OBVIOUS
<1>2. PICK c \in S : \A d \in S : c <= d  BY <1>1, SomeLeast
<1>3. c \in Nat /\ p < o + c * size /\ c <= pages  BY <1>1, <1>2
<1>4. c # 0
  <2> SUFFICES ASSUME c = 0 PROVE FALSE  OBVIOUS
  <2>1. c * size = 0  OBVIOUS
  <2> QED  BY <1>3, <2>1
<1>5. c - 1 \in Nat /\ c - 1 \notin S  BY <1>2, <1>3, <1>4
<1>6. ~(p < o + (c - 1) * size)  BY <1>5
<1>7. (c - 1) * size \in Nat  BY <1>5, ProductIsNatural
<1>8. (c - 1) * size + size = c * size  BY <1>3, <1>5
<1>9. o + (c - 1) * size <= p /\ p < o + (c - 1) * size + size
  BY <1>3, <1>6, <1>7, <1>8
<1> QED  BY <1>3, <1>4, <1>9

\* The first pages end where the last of them does.
LEMMA PagesEnd ==
  ASSUME NEW c \in Nat \ {0}, NEW pages \in Nat, NEW size \in Nat, c <= pages
  PROVE  (c - 1) * size + size <= pages * size
<1>1. (c - 1) * size + size = c * size  OBVIOUS
<1>2. c * size <= pages * size  OBVIOUS
<1>3. c * size \in Nat /\ pages * size \in Nat /\ (c - 1) * size \in Nat
  BY ProductIsNatural
<1> QED  BY <1>1, <1>2, <1>3

-----------------------------------------------------------------------------
(* Counting calls *)

LEMMA MaxIdIsNatural ==
  /\ MaxId \in Nat \ {0} /\ FirstStored \in 1..MaxId /\ MaxRechecks \in Nat
  /\ PageSize \in Nat \ {0} /\ Limit \in Nat \ {0}
BY LateAssumption

LEMMA SetsOfCalls ==
  ASSUME NEW S \in SUBSET Ids
  PROVE  IsFiniteSet(S) /\ Cardinality(S) \in Nat
<1>1. IsFiniteSet(1..MaxId)  BY FS_Interval, MaxIdIsNatural
<1>2. IsFiniteSet(S)  BY <1>1, FS_Subset DEF Ids
<1> QED  BY <1>2, FS_CardinalityType

LEMMA Fewer ==
  ASSUME NEW S \in SUBSET Ids, NEW T \in SUBSET S
  PROVE  Cardinality(T) <= Cardinality(S)
BY SetsOfCalls, FS_Subset

LEMMA FewerThan ==
  ASSUME NEW S \in SUBSET Ids, NEW T \in SUBSET S, NEW n \in Nat, Cardinality(S) <= n
  PROVE  Cardinality(T) <= n
<1>1. Cardinality(T) \in Nat /\ Cardinality(S) \in Nat  BY SetsOfCalls
<1> QED  BY <1>1, Fewer

LEMMA OneMore ==
  ASSUME NEW S \in SUBSET Ids, NEW T \in SUBSET Ids, NEW x, T \subseteq S \cup {x}
  PROVE  Cardinality(T) <= Cardinality(S) + 1
<1>1. IsFiniteSet(S) /\ Cardinality(S) \in Nat  BY SetsOfCalls
<1>2. IsFiniteSet(T) /\ Cardinality(T) \in Nat  BY SetsOfCalls
<1>3. /\ IsFiniteSet(S \cup {x})
      /\ Cardinality(S \cup {x}) = (IF x \in S THEN Cardinality(S) ELSE Cardinality(S) + 1)
  BY <1>1, FS_AddElement
<1>4. Cardinality(T) <= Cardinality(S \cup {x})  BY <1>3, FS_Subset
<1> QED  BY <1>1, <1>2, <1>3, <1>4

\* Where a call stands among those of L from one of them on.
PlaceIn(L, from, i) == Cardinality({j \in L : from <= j /\ j < i})

\* The calls of L that a pass has gone by: below its start, or at an offset
\* below k.
Passed(L, floor, from, k) == {i \in L : floor <= i /\ (i < from \/ PlaceIn(L, from, i) < k)}

LEMMA PlaceIsNatural ==
  ASSUME NEW L \in SUBSET Ids, NEW from, NEW i
  PROVE  PlaceIn(L, from, i) \in Nat
BY SetsOfCalls DEF PlaceIn

LEMMA PlacesGrow ==
  ASSUME NEW L \in SUBSET Ids, NEW from \in Nat, NEW i \in L, NEW j \in L, i <= j
  PROVE  PlaceIn(L, from, i) <= PlaceIn(L, from, j)
<1> DEFINE S(x) == {y \in L : from <= y /\ y < x}
<1>1. L \subseteq Int /\ i \in Int /\ j \in Int  BY MaxIdIsNatural DEF Ids
<1>2. S(j) \in SUBSET Ids  OBVIOUS
<1>3. ASSUME NEW y \in S(i) PROVE y \in S(j)
  <2>1. y \in L /\ from <= y /\ y < i /\ y \in Int  BY <1>1
  <2> QED  BY <1>1, <2>1
<1>4. Cardinality(S(i)) <= Cardinality(S(j))
  <2> HIDE DEF S
  <2>1. S(i) \in SUBSET S(j)  BY <1>3
  <2> QED  BY <1>2, <2>1, Fewer
<1> QED  BY <1>4 DEF PlaceIn

\* No two calls stand at one place.
LEMMA PlacesDiffer ==
  ASSUME NEW L \in SUBSET Ids, NEW from \in Nat, NEW i \in L, NEW j \in L, from <= i, i < j
  PROVE  PlaceIn(L, from, i) < PlaceIn(L, from, j)
<1> DEFINE S(x) == {y \in L : from <= y /\ y < x}
<1>1. L \subseteq Int /\ i \in Int /\ j \in Int  BY MaxIdIsNatural DEF Ids
<1>2. /\ S(i) \in SUBSET Ids /\ S(j) \in SUBSET Ids /\ i \notin S(i)
      /\ (S(i) \cup {i}) \in SUBSET S(j)
  <2>1. S(i) \in SUBSET Ids /\ S(j) \in SUBSET Ids  OBVIOUS
  <2>2. i \notin S(i) /\ i \in S(j)  BY <1>1
  <2>3. ASSUME NEW y \in S(i) PROVE y \in S(j)
    <3>1. y \in L /\ from <= y /\ y < i /\ y \in Int  BY <1>1
    <3> QED  BY <1>1, <3>1
  <2> HIDE DEF S
  <2> QED  BY <2>1, <2>2, <2>3
<1>3. PlaceIn(L, from, i) = Cardinality(S(i)) /\ PlaceIn(L, from, j) = Cardinality(S(j))
  BY DEF PlaceIn
<1> HIDE DEF S
<1>4. Cardinality(S(i)) \in Nat /\ Cardinality(S(j)) \in Nat /\ IsFiniteSet(S(i))
  BY <1>2, SetsOfCalls
<1>5. Cardinality(S(i) \cup {i}) = Cardinality(S(i)) + 1  BY <1>2, <1>4, FS_AddElement
<1>6. Cardinality(S(i) \cup {i}) <= Cardinality(S(j))  BY <1>2, Fewer
<1> QED  BY <1>3, <1>4, <1>5, <1>6

\* A deletion moves a call one place forward at most.
LEMMA PlaceAfterDeletion ==
  ASSUME NEW L \in SUBSET Ids, NEW from \in Nat, NEW i, NEW d
  PROVE  PlaceIn(L, from, i) <= PlaceIn(L \ {d}, from, i) + 1
<1> DEFINE S == {y \in L : from <= y /\ y < i}
           T == {y \in L \ {d} : from <= y /\ y < i}
<1>1. S \in SUBSET Ids /\ T \in SUBSET Ids /\ S \subseteq T \cup {d}  OBVIOUS
<1>2. Cardinality(S) <= Cardinality(T) + 1
  <2> HIDE DEF S, T
  <2> QED  BY <1>1, OneMore
<1> QED  BY <1>2 DEF PlaceIn

\* A deletion lets at most one call slip by the offset.
LEMMA OneSlipsBy ==
  ASSUME NEW L \in SUBSET Ids, NEW floor \in Nat, NEW from \in Nat, NEW k \in Nat,
         NEW d, NEW X
  PROVE  Cardinality(Passed(L \ {d}, floor, from, k) \ X)
           <= Cardinality(Passed(L, floor, from, k) \ X) + 1
<1> DEFINE S == Passed(L, floor, from, k) \ X
           T == Passed(L \ {d}, floor, from, k) \ X
           At_k == {i \in L : from <= i /\ PlaceIn(L, from, i) = k}
<1>0. L \subseteq Nat  BY MaxIdIsNatural DEF Ids
<1>1. S \in SUBSET Ids /\ T \in SUBSET Ids  BY DEF Passed
<1>2. \A i \in T : i \in S \/ i \in At_k
  <2> SUFFICES ASSUME NEW i \in T, i \notin S PROVE i \in At_k  OBVIOUS
  <2>1. i \in L /\ i \in L \ {d} /\ floor <= i /\ i \notin X
        /\ (i < from \/ PlaceIn(L \ {d}, from, i) < k)
    BY DEF Passed
  <2>2. ~(i < from) /\ ~(PlaceIn(L, from, i) < k)  BY <2>1 DEF Passed
  <2>3. PlaceIn(L \ {d}, from, i) < k  BY <2>1, <2>2
  <2>4. PlaceIn(L, from, i) \in Nat /\ PlaceIn(L \ {d}, from, i) \in Nat
    BY PlaceIsNatural
  <2>7. PlaceIn(L, from, i) <= PlaceIn(L \ {d}, from, i) + 1  BY PlaceAfterDeletion
  <2>5. PlaceIn(L, from, i) = k  BY <2>2, <2>3, <2>4, <2>7
  <2>6. from <= i  BY <1>0, <2>1, <2>2
  <2> QED  BY <2>1, <2>5, <2>6
<1>3. \A i, j \in At_k : i = j
  <2> SUFFICES ASSUME NEW i \in At_k, NEW j \in At_k, i < j PROVE FALSE  BY <1>0
  <2>1. PlaceIn(L, from, i) < PlaceIn(L, from, j)  BY PlacesDiffer
  <2> QED  BY <2>1
<1>4. PICK x : \A i \in At_k : i = x
  <2>1. CASE At_k = {}  BY <2>1
  <2>2. CASE At_k # {}  BY <1>3, <2>2
  <2> QED  BY <2>1, <2>2
<1>5. T \subseteq S \cup {x}  BY <1>2, <1>4
<1>6. Cardinality(T) <= Cardinality(S) + 1
  <2> HIDE DEF S, T
  <2> QED  BY <1>1, <1>5, OneMore
<1> QED  BY <1>6

-----------------------------------------------------------------------------
(* Types *)

RowSet == [copy : Copies, flag : BOOLEAN, checked : 0..MaxRechecks]

IsVisit(v) ==
  v = [stage |-> v.stage, retried |-> v.retried, ids |-> v.ids, hand |-> v.hand,
       copies |-> v.copies, from |-> v.from, offset |-> v.offset, used |-> v.used,
       reached |-> v.reached, prefix |-> v.prefix, failed |-> v.failed, next |-> v.next,
       split |-> v.split]

VisitOK(v) ==
  /\ IsVisit(v) /\ v.stage \in Stages
  /\ v.ids \subseteq Ids /\ v.hand \subseteq Ids /\ v.prefix \subseteq Ids
  /\ v.copies \in [Ids -> Copies]
  /\ v.from \in Nat /\ v.offset \in Nat /\ v.reached \in 0..MaxId

TypeInv ==
  /\ portal \in [Ids -> Copies] /\ gone \subseteq Ids
  /\ row \in [Ids -> RowSet] /\ age \in [Ids -> 0..2]
  /\ high \in Ids /\ bound \in Ids /\ resume \in 0..(MaxId + 1)
  /\ VisitOK(visit)
  /\ swept \subseteq Ids /\ drift \in Nat

LEMMA TypeInvImplies == TypeInv => TypeOK
BY DEF TypeInv, TypeOK, VisitOK, RowSet

LEMMA CopiedIsOne ==
  ASSUME portal \in [Ids -> Copies], NEW S
  PROVE  Copied(S) \in [Ids -> Copies]
BY DEF Copied, Copies

LEMMA NoVisitIsOne ==
  /\ VisitOK(NoVisit) /\ NoVisit.stage = "idle" /\ NoVisit.offset = 0 /\ NoVisit.reached = 0
BY MaxIdIsNatural DEF NoVisit, VisitOK, IsVisit, Stages, Copies

LEMMA EnterIsOne ==
  ASSUME NEW stage \in Stages
  PROVE  /\ VisitOK(Enter(stage)) /\ Enter(stage).stage = stage
         /\ Enter(stage).offset = 0 /\ Enter(stage).reached = 0
<1>1. PICK v : v = [NoVisit EXCEPT !.stage = stage]  OBVIOUS
<1>2. /\ IsVisit(v) /\ v.stage = stage /\ v.ids = NoVisit.ids /\ v.hand = NoVisit.hand
      /\ v.copies = NoVisit.copies /\ v.from = NoVisit.from /\ v.offset = NoVisit.offset
      /\ v.reached = NoVisit.reached /\ v.prefix = NoVisit.prefix
  BY <1>1 DEF NoVisit, IsVisit
<1>3. VisitOK(v)  BY <1>2, NoVisitIsOne DEF VisitOK
<1> QED  BY <1>1, <1>2, <1>3, NoVisitIsOne DEF Enter

LEMMA InitTypes == Init => TypeInv
<1> SUFFICES ASSUME Init PROVE TypeInv  OBVIOUS
<1>1. portal \in [Ids -> Copies]  BY DEF Init, Copies
<1>2. row \in [Ids -> RowSet]
  <2>1. 0 \in 0..MaxRechecks  BY MaxIdIsNatural
  <2>2. Unseen \in RowSet  BY <2>1 DEF Unseen, RowSet, Copies
  <2>3. "bare" \in Copies  BY DEF Copies
  <2>4. [Unseen EXCEPT !.copy = "bare"] \in RowSet  BY <2>2, <2>3 DEF RowSet
  <2> QED  BY <2>2, <2>4 DEF Init
<1>3. high \in Ids /\ bound \in Ids /\ resume \in 0..(MaxId + 1)
  BY MaxIdIsNatural DEF Init, Ids
<1> QED  BY <1>1, <1>2, <1>3, NoVisitIsOne DEF Init, TypeInv

\* What an upsert makes of the rows.
LEMMA UpsertedIsOne ==
  ASSUME row \in [Ids -> RowSet], NEW rows, NEW copies \in [Ids -> Copies]
  PROVE  Upserted(rows, copies) \in [Ids -> RowSet]
<1> SUFFICES ASSUME NEW i \in Ids
             PROVE  [row[i] EXCEPT !.copy = copies[i], !.flag = FALSE] \in RowSet
  BY DEF Upserted
<1> QED  BY DEF RowSet

LEMMA NewestAreSome == \A S, n : NewestOf(S, n) \subseteq S
BY DEF NewestOf

LEMMA SelectFlaggedFacts ==
  ASSUME TypeInv, SelectFlagged
  PROVE  /\ VisitOK(visit') /\ visit'.stage \in {"incremental", "refresh_read"}
         /\ visit'.offset \in {0, visit.offset} /\ visit'.reached \in {0, visit.reached}
<1>1. PICK ids \in {NewestOf({i \in Ids : row[i].flag}, Limit * PageSize)} :
        visit' = IF ids = {} THEN Enter("incremental")
                 ELSE [visit EXCEPT !.stage = "refresh_read", !.ids = ids]
  BY DEF SelectFlagged
<1>2. ids \in SUBSET Ids  BY NewestAreSome
<1>3. "incremental" \in Stages /\ "refresh_read" \in Stages  BY DEF Stages
<1>4. CASE ids = {}
  BY <1>1, <1>3, <1>4, EnterIsOne
<1>5. CASE ids # {}
  <2>1. visit' = [visit EXCEPT !.stage = "refresh_read", !.ids = ids]  BY <1>1, <1>5
  <2>2. VisitOK(visit)  BY DEF TypeInv
  <2>3. /\ IsVisit(visit') /\ visit'.stage = "refresh_read" /\ visit'.ids = ids
        /\ visit'.hand = visit.hand /\ visit'.copies = visit.copies /\ visit'.from = visit.from
        /\ visit'.offset = visit.offset /\ visit'.reached = visit.reached
        /\ visit'.prefix = visit.prefix
    BY <2>1, <2>2 DEF VisitOK, IsVisit
  <2>4. VisitOK(visit')  BY <1>2, <1>3, <2>2, <2>3 DEF VisitOK
  <2> QED  BY <2>3, <2>4
<1> QED  BY <1>4, <1>5

LEMMA ReadByIdsFacts ==
  ASSUME TypeInv, NEW lost, NEW stage \in Stages, ReadByIds(lost, stage)
  PROVE  /\ VisitOK(visit') /\ visit'.stage = stage
         /\ visit'.offset = visit.offset /\ visit'.reached = visit.reached
<1> DEFINE hand == (visit.ids \ lost) \cap Present
           copies == Copied((visit.ids \ lost) \cap Present)
<1>1. visit' = [visit EXCEPT !.stage = stage, !.hand = hand, !.copies = copies]
  BY DEF ReadByIds
<1>2. hand \subseteq Ids /\ copies \in [Ids -> Copies]
  BY CopiedIsOne DEF TypeInv, VisitOK
<1> HIDE DEF hand, copies
<1>3. /\ IsVisit(visit') /\ visit'.stage = stage /\ visit'.ids = visit.ids
      /\ visit'.hand = hand /\ visit'.copies = copies /\ visit'.from = visit.from
      /\ visit'.offset = visit.offset /\ visit'.reached = visit.reached
      /\ visit'.prefix = visit.prefix
  BY <1>1 DEF TypeInv, VisitOK, IsVisit
<1> QED  BY <1>2, <1>3 DEF TypeInv, VisitOK

LEMMA CommitFacts ==
  ASSUME TypeInv, NEW stage \in Stages, NEW stopped, Commit(stage, stopped)
  PROVE  /\ row' \in [Ids -> RowSet]
         /\ VisitOK(visit') /\ visit'.stage \in {"idle", stage}
         /\ visit'.offset = 0 /\ visit'.reached = 0
<1>1. row' = Upserted(visit.hand, visit.copies) /\ visit' \in {NoVisit, Enter(stage)}
  BY DEF Commit
<1>2. row' \in [Ids -> RowSet]  BY <1>1, UpsertedIsOne DEF TypeInv, VisitOK
<1> QED  BY <1>1, <1>2, NoVisitIsOne, EnterIsOne

LEMMA AgedBoundIsOne == TypeInv => AgedBound \in Ids /\ bound <= AgedBound
<1> SUFFICES ASSUME TypeInv PROVE AgedBound \in Ids /\ bound <= AgedBound  OBVIOUS
<1> DEFINE aged == {i \in Ids : row[i].copy # "none" /\ age[i] > 0 /\ i > bound}
<1>1. AgedBound = IF aged = {} THEN bound ELSE Max(aged)  BY DEF AgedBound
<1>2. bound \in Ids /\ bound \in Nat  BY MaxIdIsNatural DEF TypeInv, Ids
<1>3. CASE aged # {}
  <2>1. aged \in SUBSET (0..MaxId)  BY DEF Ids
  <2>2. Max(aged) \in aged
    <3> HIDE DEF aged
    <3> QED  BY <1>3, <2>1, MaxIdIsNatural, MaxIsOne
  <2>3. Max(aged) \in Ids /\ Max(aged) > bound  BY <2>2
  <2>4. Max(aged) \in Nat  BY <2>3, MaxIdIsNatural DEF Ids
  <2> QED  BY <1>1, <1>2, <1>3, <2>3, <2>4
<1>4. CASE aged = {}
  BY <1>1, <1>2, <1>4
<1> QED  BY <1>3, <1>4

LEMMA IncrementalFacts ==
  ASSUME TypeInv, Incremental
  PROVE  /\ TypeInv' /\ bound <= bound' /\ visit'.stage = "rescan"
         /\ visit'.offset = 0 /\ visit'.reached = 0
<1>1. PICK new \in {{i \in Present : i > high}} :
        row' = Upserted(new, portal) /\ high' = IF new = {} THEN high ELSE Max(new)
  BY DEF Incremental
<1>2. row' \in [Ids -> RowSet]  BY <1>1, UpsertedIsOne DEF TypeInv
<1>3. high' \in Ids
  <2>1. new \in SUBSET (0..MaxId) /\ new \subseteq Ids  BY DEF Present, Ids
  <2>2. new # {} => Max(new) \in new  BY <2>1, MaxIsOne, MaxIdIsNatural
  <2> QED  BY <1>1, <2>1, <2>2 DEF TypeInv
<1>4. bound' \in Ids /\ bound <= bound'  BY AgedBoundIsOne DEF Incremental
<1>5. "rescan" \in Stages  BY DEF Stages
<1>6. VisitOK(visit') /\ visit'.stage = "rescan" /\ visit'.offset = 0 /\ visit'.reached = 0
  BY <1>5, EnterIsOne DEF Incremental
<1> QED
  BY <1>2, <1>3, <1>4, <1>6 DEF TypeInv, Incremental, worldVars, dueVars, seenVars

LEMMA EnterRescanFacts ==
  ASSUME TypeInv, EnterRescan
  PROVE  /\ VisitOK(visit')
         /\ \/ /\ visit'.stage = "recheck" /\ visit'.offset = 0 /\ visit'.reached = 0
               /\ UNCHANGED <<resume, swept, drift>>
            \/ /\ visit'.stage = "rescan_read" /\ visit'.offset = visit.offset
               /\ visit'.reached = visit.reached /\ visit'.from = Start
               /\ IF ResumeValid THEN UNCHANGED <<resume, swept, drift>>
                  ELSE resume' = 0 /\ swept' = {} /\ drift' = 0
<1>0. "recheck" \in Stages /\ "rescan_read" \in Stages  BY DEF Stages
<1>1. CASE ~rescanDue \/ bound >= high
  BY <1>0, <1>1, EnterIsOne DEF EnterRescan
<1>2. CASE ~(~rescanDue \/ bound >= high)
  <2>1. visit' = [visit EXCEPT !.stage = "rescan_read", !.from = Start]
    BY <1>2 DEF EnterRescan
  <2>2. Start \in Nat  BY MaxIdIsNatural DEF Start, TypeInv, Ids
  <2>3. /\ IsVisit(visit') /\ visit'.stage = "rescan_read" /\ visit'.ids = visit.ids
        /\ visit'.hand = visit.hand /\ visit'.copies = visit.copies /\ visit'.from = Start
        /\ visit'.offset = visit.offset /\ visit'.reached = visit.reached
        /\ visit'.prefix = visit.prefix
    BY <2>1 DEF TypeInv, VisitOK, IsVisit
  <2>4. VisitOK(visit')  BY <1>0, <2>2, <2>3 DEF TypeInv, VisitOK
  <2>5. IF ResumeValid THEN UNCHANGED <<resume, swept, drift>>
        ELSE resume' = 0 /\ swept' = {} /\ drift' = 0
    BY <1>2 DEF EnterRescan
  <2> QED  BY <2>3, <2>4, <2>5
<1> QED  BY <1>1, <1>2

LEMMA EnterRescanTypes == TypeInv /\ EnterRescan => TypeInv'
<1> SUFFICES ASSUME TypeInv, EnterRescan PROVE TypeInv'  OBVIOUS
<1>1. resume' \in 0..(MaxId + 1) /\ swept' \subseteq Ids /\ drift' \in Nat
  BY EnterRescanFacts, MaxIdIsNatural DEF TypeInv
<1> QED  BY <1>1, EnterRescanFacts DEF TypeInv, EnterRescan, worldVars, dueVars

LEMMA PageIsSome == \A c : PageOf(c) \subseteq Ids
BY DEF PageOf, Present

LEMMA ReadWindowFacts ==
  ASSUME TypeInv, NEW failed \in SUBSET (1..Limit), ReadWindow(failed)
  PROVE  \E good \in 0..Limit :
           /\ failed = {} => good = Limit
           /\ \A c \in 1..good : c \notin failed
           /\ visit'.stage = "rescan_commit" /\ visit'.from = visit.from
           /\ visit'.offset = visit.offset /\ visit'.reached = visit.reached
           /\ visit'.hand = UNION {PageOf(c) : c \in (1..Limit) \ failed}
           /\ visit'.prefix = UNION {PageOf(c) : c \in 1..good}
           /\ visit'.failed = (failed # {})
           /\ visit'.next =>
                {i \in Present : Place(i) >= visit.offset + good * PageSize} # {}
           /\ VisitOK(visit')
<1> DEFINE good == IF failed = {} THEN Limit ELSE Min(failed) - 1
           prefix == UNION {PageOf(c) : c \in 1..good}
           read == UNION {PageOf(c) : c \in (1..Limit) \ failed}
           left == {i \in Present : Place(i) >= visit.offset + good * PageSize}
           copies == Copied(read)
           broken == failed # {}
           next == good > 0 /\ left # {}
<1>1. good \in 0..Limit /\ (failed = {} => good = Limit) /\ \A c \in 1..good : c \notin failed
  <2>1. CASE failed = {}  BY <2>1, MaxIdIsNatural
  <2>2. CASE failed # {}
    <3>1. Min(failed) \in failed /\ \A y \in failed : Min(failed) <= y
      BY <2>2, MinIsLeast, MaxIdIsNatural
    <3>2. Min(failed) \in 1..Limit /\ good = Min(failed) - 1  BY <2>2, <3>1
    <3>3. \A c \in 1..good : c \notin failed  BY <3>1, <3>2, MaxIdIsNatural
    <3>4. good \in 0..Limit  BY <3>2, MaxIdIsNatural
    <3> QED  BY <2>2, <3>3, <3>4
  <2> QED  BY <2>1, <2>2
<1>2. visit' = [visit EXCEPT !.stage = "rescan_commit", !.hand = read, !.copies = copies,
                   !.prefix = prefix, !.failed = broken, !.next = next]
  BY Zenon DEF ReadWindow
<1>3. prefix \subseteq Ids /\ read \subseteq Ids  BY PageIsSome
<1>4. copies \in [Ids -> Copies]  BY CopiedIsOne DEF TypeInv
<1>5. next => left # {}  OBVIOUS
<1>6. "rescan_commit" \in Stages  BY DEF Stages
<1>7. /\ IsVisit(visit') /\ visit'.stage = "rescan_commit" /\ visit'.ids = visit.ids
      /\ visit'.hand = read /\ visit'.copies = copies /\ visit'.from = visit.from
      /\ visit'.offset = visit.offset /\ visit'.reached = visit.reached
      /\ visit'.prefix = prefix /\ visit'.failed = broken /\ visit'.next = next
  <2> HIDE DEF good, prefix, read, left, copies, broken, next
  <2> QED  BY <1>2 DEF TypeInv, VisitOK, IsVisit
<1>8. VisitOK(visit')
  <2> HIDE DEF good, prefix, read, left, copies, broken, next
  <2> QED  BY <1>3, <1>4, <1>6, <1>7 DEF TypeInv, VisitOK
<1> QED  BY <1>1, <1>5, <1>7, <1>8

LEMMA ReadWindowTypes ==
  ASSUME TypeInv, NEW failed \in SUBSET (1..Limit), ReadWindow(failed)
  PROVE  TypeInv'
<1>1. VisitOK(visit')  BY ReadWindowFacts
<1> QED  BY <1>1 DEF TypeInv, ReadWindow, worldVars, dueVars, seenVars

\* The resume point is a call of the prefix or the one before.
LEMMA ReachedIsOne ==
  TypeInv => Reached \in 0..MaxId /\ (Reached \in visit.prefix \/ Reached = visit.reached)
<1> SUFFICES ASSUME TypeInv
             PROVE  Reached \in 0..MaxId /\ (Reached \in visit.prefix \/ Reached = visit.reached)
  OBVIOUS
<1> DEFINE S == Crossed \cup {visit.reached}
<1>1. Crossed \subseteq visit.prefix  BY DEF Crossed
<1>2. S \in SUBSET (0..MaxId) /\ S # {}  BY <1>1 DEF TypeInv, VisitOK, Ids
<1>3. Reached = Max(S)  BY DEF Reached
<1>4. Reached \in S
  <2> HIDE DEF S
  <2> QED  BY <1>2, <1>3, MaxIsOne, MaxIdIsNatural
<1> QED  BY <1>1, <1>2, <1>4

LEMMA CommitWindowFacts ==
  ASSUME TypeInv, NEW stopped, CommitWindow(stopped)
  PROVE  /\ row' \in [Ids -> RowSet] /\ VisitOK(visit')
         /\ \/ /\ visit'.stage \in {"idle", "recheck"}
               /\ visit'.offset = 0 /\ visit'.reached = 0
               /\ \/ resume' = 0 /\ swept' = {} /\ drift' = 0
                  \/ /\ Reached # 0 /\ resume' = Reached + 1
                     /\ swept' = swept \cup visit.hand /\ drift' = drift
            \/ /\ ~visit.failed /\ visit.next
               /\ visit'.stage = "rescan_read" /\ visit'.from = visit.from
               /\ visit'.offset = visit.offset + Limit * PageSize /\ visit'.reached = Reached
               /\ swept' = swept \cup visit.hand
               /\ UNCHANGED <<resume, drift>>
<1> DEFINE completed == ~visit.failed /\ ~visit.next
           over == visit.failed \/ completed \/ stopped \/ visit.used + 1 = MaxBatches
<1>1. row' \in [Ids -> RowSet]
  <2>1. PICK rows : row' = Upserted(rows, visit.copies)  BY DEF CommitWindow
  <2> QED  BY <2>1, UpsertedIsOne DEF TypeInv, VisitOK
<1>2. IF over
      THEN /\ resume' = IF completed \/ Reached = 0 THEN 0 ELSE Reached + 1
           /\ rescanDue' = FALSE
           /\ swept' = IF resume' = 0 THEN {} ELSE swept \cup visit.hand
           /\ drift' = IF resume' = 0 THEN 0 ELSE drift
           /\ visit' = IF stopped THEN NoVisit ELSE Enter("recheck")
      ELSE /\ visit' = [visit EXCEPT !.stage = "rescan_read", !.used = @ + 1,
                          !.reached = Reached, !.offset = @ + Limit * PageSize]
           /\ swept' = swept \cup visit.hand
           /\ UNCHANGED <<resume, rescanDue, drift>>
  BY Zenon DEF CommitWindow
<1>3. "recheck" \in Stages /\ "rescan_read" \in Stages  BY DEF Stages
<1>4. Reached \in 0..MaxId  BY ReachedIsOne
<1>5. CASE over
  <2>1. visit' \in {NoVisit, Enter("recheck")}  BY <1>2, <1>5
  <2>2. /\ VisitOK(visit') /\ visit'.stage \in {"idle", "recheck"}
        /\ visit'.offset = 0 /\ visit'.reached = 0
    BY <1>3, <2>1, NoVisitIsOne, EnterIsOne
  <2>3. \/ resume' = 0 /\ swept' = {} /\ drift' = 0
        \/ /\ Reached # 0 /\ resume' = Reached + 1
           /\ swept' = swept \cup visit.hand /\ drift' = drift
    <3>1. Reached + 1 # 0  BY <1>4, MaxIdIsNatural
    <3>2. CASE completed \/ Reached = 0  BY <1>2, <1>5, <3>2
    <3>3. CASE ~(completed \/ Reached = 0)  BY <1>2, <1>5, <3>1, <3>3
    <3> QED  BY <3>2, <3>3
  <2> QED  BY <1>1, <2>2, <2>3
<1>6. CASE ~over
  <2>1. ~visit.failed /\ visit.next  BY <1>6
  <2>2. PICK used, offset :
          /\ offset = visit.offset + Limit * PageSize
          /\ visit' = [visit EXCEPT !.stage = "rescan_read", !.used = used,
                          !.reached = Reached, !.offset = offset]
    BY <1>2, <1>6
  <2>3. offset \in Nat  BY <2>2, ProductIsNatural, MaxIdIsNatural DEF TypeInv, VisitOK
  <2>4. /\ IsVisit(visit') /\ visit'.stage = "rescan_read" /\ visit'.ids = visit.ids
        /\ visit'.hand = visit.hand /\ visit'.copies = visit.copies
        /\ visit'.from = visit.from /\ visit'.offset = offset /\ visit'.reached = Reached
        /\ visit'.prefix = visit.prefix
    BY <2>2 DEF TypeInv, VisitOK, IsVisit
  <2>5. VisitOK(visit')  BY <1>3, <1>4, <2>3, <2>4 DEF TypeInv, VisitOK
  <2>6. swept' = swept \cup visit.hand /\ UNCHANGED <<resume, drift>>  BY <1>2, <1>6
  <2> QED  BY <1>1, <2>1, <2>2, <2>4, <2>5, <2>6
<1> QED  BY <1>5, <1>6

LEMMA CommitPrefixFacts ==
  ASSUME TypeInv, CommitPrefix
  PROVE  /\ row' \in [Ids -> RowSet] /\ VisitOK(visit')
         /\ visit'.stage = visit.stage /\ visit'.hand = visit.hand /\ visit'.from = visit.from
         /\ visit'.offset = visit.offset /\ visit'.reached = visit.reached
         /\ visit'.prefix = visit.prefix /\ visit'.failed = visit.failed
         /\ visit'.next = visit.next
<1>1. row' = Upserted(visit.prefix, visit.copies) /\ visit' = [visit EXCEPT !.split = TRUE]
  BY DEF CommitPrefix
<1>2. row' \in [Ids -> RowSet]  BY <1>1, UpsertedIsOne DEF TypeInv, VisitOK
<1>3. /\ IsVisit(visit') /\ visit'.stage = visit.stage /\ visit'.ids = visit.ids
      /\ visit'.hand = visit.hand /\ visit'.copies = visit.copies /\ visit'.from = visit.from
      /\ visit'.offset = visit.offset /\ visit'.reached = visit.reached
      /\ visit'.prefix = visit.prefix /\ visit'.failed = visit.failed
      /\ visit'.next = visit.next
  BY <1>1 DEF TypeInv, VisitOK, IsVisit
<1>4. VisitOK(visit')  BY <1>3 DEF TypeInv, VisitOK
<1> QED  BY <1>2, <1>3, <1>4

LEMMA CommitWindowTypes ==
  ASSUME TypeInv, NEW stopped, CommitWindow(stopped)
  PROVE  TypeInv'
<1>1. row' \in [Ids -> RowSet] /\ VisitOK(visit')  BY CommitWindowFacts
<1>2. resume' \in 0..(MaxId + 1) /\ swept' \subseteq Ids /\ drift' \in Nat
  <2>1. Reached \in 0..MaxId  BY ReachedIsOne
  <2>2. /\ resume' \in {0, Reached + 1, resume} /\ drift' \in {0, drift}
        /\ swept' \in {{}, swept \cup visit.hand}
    BY CommitWindowFacts
  <2>3. visit.hand \subseteq Ids /\ swept \subseteq Ids  BY DEF TypeInv, VisitOK
  <2>4. resume \in 0..(MaxId + 1) /\ drift \in Nat  BY DEF TypeInv
  <2>5. resume' \in 0..(MaxId + 1)  BY <2>1, <2>2, <2>4, MaxIdIsNatural
  <2> QED  BY <2>2, <2>3, <2>4, <2>5
<1> QED  BY <1>1, <1>2 DEF TypeInv, CommitWindow, worldVars

LEMMA SpendRechecksFacts ==
  ASSUME TypeInv, SpendRechecks
  PROVE  /\ row' \in [Ids -> RowSet]
         /\ VisitOK(visit') /\ visit'.stage \in {"idle", "recheck_read"}
         /\ visit'.offset \in {0, visit.offset} /\ visit'.reached \in {0, visit.reached}
<1>1. PICK ids \in {NewestOf({i \in Ids : Candidate(i)}, Limit * PageSize)} :
        /\ row' = [i \in Ids |-> IF i \in ids THEN [row[i] EXCEPT !.checked = @ + 1] ELSE row[i]]
        /\ visit' = IF ids = {} THEN NoVisit
                    ELSE [visit EXCEPT !.stage = "recheck_read", !.ids = ids]
  BY Zenon DEF SpendRechecks
<1>2. ids \in SUBSET Ids /\ \A i \in ids : Candidate(i)  BY NewestAreSome
<1>3. "recheck_read" \in Stages  BY DEF Stages
<1>4. ASSUME NEW i \in Ids
      PROVE  (IF i \in ids THEN [row[i] EXCEPT !.checked = @ + 1] ELSE row[i]) \in RowSet
  <2>1. row[i] \in RowSet  BY DEF TypeInv
  <2>2. CASE i \in ids
    <3>1. row[i].checked < MaxRechecks /\ row[i].checked \in 0..MaxRechecks
      BY <1>2, <2>1, <2>2 DEF Candidate, RowSet
    <3>2. row[i].checked + 1 \in 0..MaxRechecks  BY <3>1, MaxIdIsNatural
    <3>3. [row[i] EXCEPT !.checked = @ + 1] \in RowSet  BY <2>1, <3>2 DEF RowSet
    <3> QED  BY <2>2, <3>3
  <2> QED  BY <2>1, <2>2
<1>5. row' \in [Ids -> RowSet]  BY <1>1, <1>4
<1>6. CASE ids = {}  BY <1>1, <1>5, <1>6, NoVisitIsOne
<1>7. CASE ids # {}
  <2>1. visit' = [visit EXCEPT !.stage = "recheck_read", !.ids = ids]  BY <1>1, <1>7
  <2>2. VisitOK(visit)  BY DEF TypeInv
  <2>3. /\ IsVisit(visit') /\ visit'.stage = "recheck_read" /\ visit'.ids = ids
        /\ visit'.hand = visit.hand /\ visit'.copies = visit.copies /\ visit'.from = visit.from
        /\ visit'.offset = visit.offset /\ visit'.reached = visit.reached
        /\ visit'.prefix = visit.prefix
    BY <2>1, <2>2 DEF VisitOK, IsVisit
  <2>4. VisitOK(visit')  BY <1>2, <1>3, <2>2, <2>3 DEF VisitOK
  <2> QED  BY <1>5, <2>3, <2>4
<1> QED  BY <1>6, <1>7

LEMMA TokenExpiredFacts ==
  ASSUME TypeInv, TokenExpired
  PROVE  /\ VisitOK(visit') /\ visit'.stage \in {"idle", "rescan", "recheck"}
         /\ visit'.offset = 0 /\ visit'.reached = 0
<1> DEFINE stage == Again(visit.stage)
<1>1. stage \in {"idle", "rescan", "recheck"}  BY DEF TokenExpired, Again
<1>2. stage \in Stages  BY <1>1 DEF Stages
<1>3. visit' = [Enter(stage) EXCEPT !.retried = TRUE]  BY DEF TokenExpired
<1> HIDE DEF stage
<1>4. PICK v : v = Enter(stage)  OBVIOUS
<1>5. VisitOK(v) /\ v.stage = stage /\ v.offset = 0 /\ v.reached = 0  BY <1>2, <1>4, EnterIsOne
<1>6. visit' = [v EXCEPT !.retried = TRUE]  BY <1>3, <1>4
<1>7. /\ IsVisit(visit') /\ visit'.stage = stage /\ visit'.ids = v.ids
      /\ visit'.hand = v.hand /\ visit'.copies = v.copies /\ visit'.from = v.from
      /\ visit'.offset = 0 /\ visit'.reached = 0 /\ visit'.prefix = v.prefix
  BY <1>5, <1>6 DEF VisitOK, IsVisit
<1> QED  BY <1>1, <1>2, <1>5, <1>7 DEF VisitOK

LEMMA RequestTypes ==
  ASSUME TypeInv, NEW i \in Ids, RequestRefresh(i)
  PROVE  row' \in [Ids -> RowSet]
<1>1. row' = [row EXCEPT ![i].flag = TRUE]  BY DEF RequestRefresh
<1>2. [row[i] EXCEPT !.flag = TRUE] \in RowSet  BY DEF TypeInv, RowSet
<1> QED  BY <1>1, <1>2 DEF TypeInv

LEMMA StepTypes == TypeInv /\ [Next]_vars => TypeInv'
<1> SUFFICES ASSUME TypeInv, [Next]_vars PROVE TypeInv'  OBVIOUS
<1> USE DEF worldVars, dueVars, seenVars
<1>1. CASE SelectFlagged
  <2>1. VisitOK(visit')  BY <1>1, SelectFlaggedFacts
  <2> QED  BY <1>1, <2>1 DEF TypeInv, SelectFlagged
<1>2. CASE Incremental  BY <1>2, IncrementalFacts
<1>3. CASE EnterRescan  BY <1>3, EnterRescanTypes
<1>4. CASE NotDue  BY <1>4, NoVisitIsOne DEF TypeInv, NotDue
<1>5. CASE SpendRechecks
  <2>1. row' \in [Ids -> RowSet] /\ VisitOK(visit')  BY <1>5, SpendRechecksFacts
  <2> QED  BY <1>5, <2>1 DEF TypeInv, SpendRechecks
<1>6. ASSUME NEW lost \in SUBSET visit.ids, ReadFlagged(lost) PROVE TypeInv'
  <2>1. "refresh_commit" \in Stages  BY DEF Stages
  <2>2. VisitOK(visit')  BY <1>6, <2>1, ReadByIdsFacts DEF ReadFlagged
  <2> QED  BY <1>6, <2>2 DEF TypeInv, ReadFlagged
<1>7. ASSUME NEW lost \in SUBSET visit.ids, ReadRechecked(lost) PROVE TypeInv'
  <2>1. "recheck_commit" \in Stages  BY DEF Stages
  <2>2. VisitOK(visit')  BY <1>7, <2>1, ReadByIdsFacts DEF ReadRechecked
  <2> QED  BY <1>7, <2>2 DEF TypeInv, ReadRechecked
<1>8. ASSUME NEW stopped \in BOOLEAN, CommitFlagged(stopped) PROVE TypeInv'
  <2>1. "incremental" \in Stages  BY DEF Stages
  <2>2. row' \in [Ids -> RowSet] /\ VisitOK(visit')  BY <1>8, <2>1, CommitFacts DEF CommitFlagged
  <2> QED  BY <1>8, <2>2 DEF TypeInv, CommitFlagged
<1>9. ASSUME NEW stopped \in BOOLEAN, CommitWindow(stopped) PROVE TypeInv'
  BY <1>9, CommitWindowTypes
<1>10. ASSUME NEW failed \in SUBSET (1..Limit), ReadWindow(failed) PROVE TypeInv'
  BY <1>10, ReadWindowTypes
<1>11. CASE CommitRechecked
  <2>1. "idle" \in Stages  BY DEF Stages
  <2>2. row' \in [Ids -> RowSet] /\ VisitOK(visit')
    BY <1>11, <2>1, CommitFacts DEF CommitRechecked
  <2> QED  BY <1>11, <2>2 DEF TypeInv, CommitRechecked
<1>12. CASE TokenExpired
  <2>1. VisitOK(visit')  BY <1>12, TokenExpiredFacts
  <2> QED  BY <1>12, <2>1 DEF TypeInv, TokenExpired
<1>24. CASE CommitPrefix
  <2>1. row' \in [Ids -> RowSet] /\ VisitOK(visit')  BY <1>24, CommitPrefixFacts
  <2> QED  BY <1>24, <2>1 DEF TypeInv, CommitPrefix
<1>13. CASE NewCall
  <2>1. portal' \in [Ids -> Copies]  BY <1>13 DEF TypeInv, NewCall, Copies
  <2> QED  BY <1>13, <2>1 DEF TypeInv, NewCall
<1>14. CASE HourPasses  BY <1>14 DEF TypeInv, HourPasses
<1>15. CASE DayPasses  BY <1>15 DEF TypeInv, DayPasses
<1>16. ASSUME NEW i \in Ids, RecordingAttached(i) PROVE TypeInv'
  <2>1. portal' \in [Ids -> Copies]  BY <1>16 DEF TypeInv, RecordingAttached, Copies
  <2> QED  BY <1>16, <2>1 DEF TypeInv, RecordingAttached
<1>17. ASSUME NEW i \in Ids, CallDeleted(i) PROVE TypeInv'
  <2>1. gone' \subseteq Ids /\ drift' \in Nat  BY <1>17 DEF TypeInv, CallDeleted
  <2> QED  BY <1>17, <2>1 DEF TypeInv, CallDeleted
<1>18. ASSUME NEW i \in Ids, RequestRefresh(i) PROVE TypeInv'
  <2>1. row' \in [Ids -> RowSet]  BY <1>18, RequestTypes
  <2> QED  BY <1>18, <2>1 DEF TypeInv, RequestRefresh
<1>19. ASSUME NEW i \in Ids, Ages(i) PROVE TypeInv'
  <2>1. age' \in [Ids -> 0..2]  BY <1>19 DEF TypeInv, Ages
  <2> QED  BY <1>19, <2>1 DEF TypeInv, Ages
<1>20. ASSUME NEW restart \in BOOLEAN, Abandon(restart) PROVE TypeInv'
  <2>1. resume' \in {0, resume} /\ swept' \in {{}, swept} /\ drift' \in {0, drift}
    BY <1>20 DEF Abandon
  <2>2. resume' \in 0..(MaxId + 1) /\ swept' \subseteq Ids /\ drift' \in Nat
    BY <2>1, MaxIdIsNatural DEF TypeInv
  <2> QED  BY <1>20, <2>2, NoVisitIsOne DEF TypeInv, Abandon
<1>21. CASE UNCHANGED vars  BY <1>21 DEF TypeInv, vars
<1>22. CASE VisitStep
  BY <1>1, <1>2, <1>3, <1>4, <1>5, <1>6, <1>7, <1>8, <1>9, <1>10, <1>11, <1>12, <1>24, <1>22
     DEF VisitStep
<1>23. CASE World
  BY <1>13, <1>14, <1>15, <1>16, <1>17, <1>18, <1>19, <1>23 DEF World
<1> QED  BY <1>20, <1>21, <1>22, <1>23 DEF Next

\* Every variable keeps its type, and with it the budget of rescan.py:19-21: no
\* call is asked for more often than RECHECK_MAX_COUNT, whatever fails between
\* the budget and the read (run_record_recheck).
THEOREM TypeCorrect == Spec => []TypeOK
<1>1. TypeInv => TypeOK  BY TypeInvImplies
<1> QED  BY <1>1, InitTypes, StepTypes, PTL DEF Spec

-----------------------------------------------------------------------------
(* What a sweep has passed without reading *)

\* Not deleted, whether it exists yet or not.
Live == Ids \ gone

Behind(x) == {i \in Live : bound <= i /\ i < x}

PassedAt(k) == Passed(Live, bound, visit.from, k)

Known == swept \cup visit.hand

\* The portal numbers its calls in the order they come.
PortalPrefix == \A i, j \in Ids : j < i /\ portal[i] # "none" => portal[j] # "none"

\* A pass begins at the resume point, or at the floor.
SweepShape ==
  /\ ~Sweeping => visit.offset = 0 /\ visit.reached = 0
  /\ Sweeping => visit.from = (IF resume # 0 THEN resume ELSE bound) /\ bound <= visit.from

Resumed == resume # 0 => Cardinality(Behind(resume) \ swept) <= drift

ReachedSo ==
  Sweeping /\ visit.reached # 0 => Cardinality(Behind(visit.reached + 1) \ swept) <= drift

OffsetSo == At("rescan_read") => Cardinality(PassedAt(visit.offset) \ swept) <= drift

\* What the batch in hand will have passed once it is committed.
PrefixSo ==
  At("rescan_commit") => \A x \in visit.prefix : Cardinality(Behind(x + 1) \ Known) <= drift

NextSo ==
  At("rescan_commit") /\ ~visit.failed /\ visit.next =>
    Cardinality(PassedAt(visit.offset + Limit * PageSize) \ Known) <= drift

SweepInv ==
  /\ PortalPrefix /\ SweepShape
  /\ Resumed /\ ReachedSo /\ OffsetSo /\ PrefixSo /\ NextSo

LEMMA BoundIsNatural ==
  TypeInv => /\ bound \in Nat \ {0} /\ high \in Nat /\ resume \in Nat /\ drift \in Nat
             /\ visit.from \in Nat /\ visit.offset \in Nat /\ visit.reached \in Nat
             /\ visit.offset + Limit * PageSize \in Nat
<1> SUFFICES ASSUME TypeInv
             PROVE  /\ bound \in Nat \ {0} /\ high \in Nat /\ resume \in Nat /\ drift \in Nat
                    /\ visit.from \in Nat /\ visit.offset \in Nat /\ visit.reached \in Nat
                    /\ visit.offset + Limit * PageSize \in Nat
  OBVIOUS
<1>1. bound \in Nat \ {0} /\ high \in Nat /\ resume \in Nat /\ drift \in Nat
  BY MaxIdIsNatural DEF TypeInv, Ids
<1>2. visit.from \in Nat /\ visit.offset \in Nat /\ visit.reached \in Nat
  BY MaxIdIsNatural DEF TypeInv, VisitOK
<1>3. Limit * PageSize \in Nat  BY ProductIsNatural, MaxIdIsNatural
<1> QED  BY <1>1, <1>2, <1>3

LEMMA SweepInvImplies == TypeInv /\ SweepInv => ResumeCovered
<1> SUFFICES ASSUME TypeInv, SweepInv, resume # 0
             PROVE  Cardinality({i \in Present : bound <= i /\ i < resume} \ swept) <= drift
  BY DEF ResumeCovered
<1> DEFINE S == {i \in Present : bound <= i /\ i < resume} \ swept
           T == Behind(resume) \ swept
<1>1. S \subseteq T /\ T \in SUBSET Ids  BY DEF Present, Live, Behind
<1>2. Cardinality(T) <= drift /\ drift \in Nat  BY BoundIsNatural DEF SweepInv, Resumed
<1>3. Cardinality(S) <= drift
  <2> HIDE DEF S, T
  <2> QED  BY <1>1, <1>2, FewerThan
<1> QED  BY <1>3

LEMMA InitSweep == Init => SweepInv
<1> SUFFICES ASSUME Init PROVE SweepInv  OBVIOUS
<1>1. visit.stage = "idle" /\ visit.offset = 0 /\ visit.reached = 0
  BY NoVisitIsOne DEF Init
<1>2. PortalPrefix
  <2>1. portal = [i \in Ids |-> IF i <= FirstStored THEN "bare" ELSE "none"]  BY DEF Init
  <2> QED  BY <2>1, MaxIdIsNatural DEF PortalPrefix, Ids
<1> QED
  BY <1>1, <1>2 DEF Init, SweepInv, Sweeping, At, SweepShape, Resumed, ReachedSo, OffsetSo,
                    PrefixSo, NextSo

\* A step that touches neither the sweep nor what it walks.
LEMMA QuietStep ==
  ASSUME TypeInv, SweepInv, PortalPrefix',
         UNCHANGED <<gone, bound, resume, swept, drift>>,
         \/ visit' = visit
         \/ ~Sweeping' /\ visit'.offset = 0 /\ visit'.reached = 0
  PROVE  SweepInv'
<1>1. CASE visit' = visit
  BY <1>1 DEF SweepInv, Sweeping, At, SweepShape, Resumed, ReachedSo, OffsetSo, PrefixSo, NextSo,
              Behind, PassedAt, Known, Live, Passed, PlaceIn
<1>2. CASE ~Sweeping' /\ visit'.offset = 0 /\ visit'.reached = 0
  <2>1. Resumed'  BY DEF SweepInv, Resumed, Behind, Live
  <2>2. visit'.stage # "rescan_read" /\ visit'.stage # "rescan_commit"  BY <1>2 DEF Sweeping
  <2> QED
    BY <1>2, <2>1, <2>2 DEF SweepInv, Sweeping, At, SweepShape, ReachedSo, OffsetSo, PrefixSo, NextSo
<1> QED  BY <1>1, <1>2

\* The visit ends, or has gone on past the window, and forgets nothing it claims.
LEMMA ClaimStep ==
  ASSUME PortalPrefix', ~Sweeping', visit'.offset = 0, visit'.reached = 0, Resumed'
  PROVE  SweepInv'
<1>1. visit'.stage # "rescan_read" /\ visit'.stage # "rescan_commit"  BY DEF Sweeping
<1> QED  BY <1>1 DEF SweepInv, Sweeping, At, SweepShape, ReachedSo, OffsetSo, PrefixSo, NextSo

LEMMA IncrementalSweep ==
  ASSUME TypeInv, TypeInv', SweepInv, Incremental
  PROVE  SweepInv'
<1>1. /\ bound <= bound' /\ visit'.stage = "rescan" /\ visit'.offset = 0 /\ visit'.reached = 0
  BY IncrementalFacts
<1>2. UNCHANGED <<portal, gone, resume, swept, drift>>
  BY DEF Incremental, worldVars, seenVars
<1>3. PortalPrefix' /\ ~Sweeping'  BY <1>1, <1>2 DEF SweepInv, PortalPrefix, Sweeping
<1>4. Resumed'
  <2> SUFFICES ASSUME resume # 0 PROVE Cardinality((Behind(resume) \ swept)') <= drift
    BY <1>2 DEF Resumed
  <2> DEFINE S == Behind(resume) \ swept
             T == (Behind(resume) \ swept)'
  <2>1. bound \in Nat /\ bound' \in Nat  BY MaxIdIsNatural DEF TypeInv, Ids
  <2>2. Live \subseteq Nat  BY MaxIdIsNatural DEF Live, Ids
  <2>3. S \in SUBSET Ids  BY DEF Behind, Live
  <2>4. \A i \in T : i \in S  BY <1>1, <1>2, <2>1, <2>2 DEF Behind, Live
  <2>5. Cardinality(S) <= drift /\ drift \in Nat  BY BoundIsNatural DEF SweepInv, Resumed
  <2>6. Cardinality(T) <= drift
    <3> HIDE DEF S, T
    <3> QED  BY <2>3, <2>4, <2>5, FewerThan
  <2> QED  BY <2>6
<1> QED  BY <1>1, <1>3, <1>4, ClaimStep

\* Fewer calls lie behind a call than before; at most one more behind an offset.
LEMMA CallDeletedSweep ==
  ASSUME TypeInv, TypeInv', SweepInv, NEW i \in Ids, CallDeleted(i)
  PROVE  SweepInv'
<1>1. /\ UNCHANGED <<portal, bound, resume, visit, swept>>
      /\ Live' = Live \ {i} /\ drift' = IF resume = 0 /\ ~Sweeping THEN 0 ELSE drift + 1
  BY DEF CallDeleted, Live
<1>2. PortalPrefix' /\ SweepShape'
  BY <1>1 DEF SweepInv, PortalPrefix, SweepShape, Sweeping
<1>3. CASE resume = 0 /\ ~Sweeping
  <2>1. visit'.stage # "rescan_read" /\ visit'.stage # "rescan_commit" /\ ~Sweeping' /\ resume' = 0
    BY <1>1, <1>3 DEF Sweeping
  <2> QED
    BY <1>2, <2>1 DEF SweepInv, At, Resumed, ReachedSo, OffsetSo, PrefixSo, NextSo
<1>4. CASE ~(resume = 0 /\ ~Sweeping)
  <2>1. drift' = drift + 1 /\ drift \in Nat  BY <1>1, <1>4, BoundIsNatural
  <2>2. ASSUME NEW x, NEW X, Cardinality(Behind(x) \ X) <= drift
        PROVE  Cardinality((Behind(x))' \ X) <= drift + 1
    <3> DEFINE S == Behind(x) \ X
               T == (Behind(x))' \ X
    <3>1. T \subseteq S /\ S \in SUBSET Ids  BY <1>1 DEF Behind, Live
    <3>2. Cardinality(S) <= drift + 1
      <4>1. Cardinality(S) \in Nat  BY <3>1, SetsOfCalls
      <4> QED  BY <2>1, <2>2, <4>1
    <3>3. Cardinality(T) <= drift + 1
      <4> HIDE DEF S, T
      <4> QED  BY <2>1, <3>1, <3>2, FewerThan
    <3> QED  BY <3>3
  <2>3. ASSUME NEW k \in Nat, NEW X, Cardinality(PassedAt(k) \ X) <= drift
        PROVE  Cardinality((PassedAt(k))' \ X) <= drift + 1
    <3>1. Live \in SUBSET Ids /\ bound \in Nat /\ visit.from \in Nat
      BY BoundIsNatural DEF Live
    <3>2. Cardinality(Passed(Live \ {i}, bound, visit.from, k) \ X)
            <= Cardinality(Passed(Live, bound, visit.from, k) \ X) + 1
      BY <3>1, OneSlipsBy
    <3>3. (PassedAt(k))' = Passed(Live \ {i}, bound, visit.from, k)
      BY <1>1 DEF PassedAt, Passed, PlaceIn
    <3>4. /\ Cardinality(Passed(Live, bound, visit.from, k) \ X) \in Nat
          /\ Cardinality(Passed(Live \ {i}, bound, visit.from, k) \ X) \in Nat
      <4>1. /\ Passed(Live, bound, visit.from, k) \ X \in SUBSET Ids
            /\ Passed(Live \ {i}, bound, visit.from, k) \ X \in SUBSET Ids
        BY <3>1 DEF Passed
      <4> QED  BY <4>1, SetsOfCalls
    <3>5. Cardinality(Passed(Live, bound, visit.from, k) \ X) <= drift  BY <2>3 DEF PassedAt
    <3> QED  BY <2>1, <3>2, <3>3, <3>4, <3>5
  <2>4. Resumed'
    <3> SUFFICES ASSUME resume # 0 PROVE Cardinality((Behind(resume))' \ swept) <= drift + 1
      BY <1>1, <2>1 DEF Resumed
    <3>1. PICK x : x = resume  OBVIOUS
    <3>2. Cardinality((Behind(x))' \ swept) <= drift + 1  BY <2>2, <3>1 DEF SweepInv, Resumed
    <3>3. resume' = x  BY <1>1, <3>1
    <3> QED  BY <3>2, <3>3
  <2>5. ReachedSo'
    <3> SUFFICES ASSUME Sweeping, visit.reached # 0
                 PROVE  Cardinality((Behind(visit.reached + 1))' \ swept) <= drift + 1
      BY <1>1, <2>1 DEF ReachedSo, Sweeping
    <3> QED  BY <1>1, <2>2 DEF SweepInv, ReachedSo
  <2>6. OffsetSo'
    <3> SUFFICES ASSUME At("rescan_read")
                 PROVE  Cardinality((PassedAt(visit.offset))' \ swept) <= drift + 1
      BY <1>1, <2>1 DEF OffsetSo, At
    <3>1. visit.offset \in Nat /\ Cardinality(PassedAt(visit.offset) \ swept) <= drift
      BY BoundIsNatural DEF SweepInv, OffsetSo
    <3> QED  BY <1>1, <2>3, <3>1
  <2>7. PrefixSo'
    <3> SUFFICES ASSUME At("rescan_commit"), NEW x \in visit.prefix
                 PROVE  Cardinality((Behind(x + 1))' \ Known) <= drift + 1
      BY <1>1, <2>1 DEF PrefixSo, At, Known
    <3> QED  BY <2>2 DEF SweepInv, PrefixSo
  <2>8. NextSo'
    <3>1. PICK k : k = visit.offset + Limit * PageSize  OBVIOUS
    <3> SUFFICES ASSUME At("rescan_commit"), ~visit.failed, visit.next
                 PROVE  Cardinality((PassedAt(k))' \ Known) <= drift + 1
      BY <1>1, <2>1, <3>1 DEF NextSo, At, Known
    <3>2. k \in Nat /\ Cardinality(PassedAt(k) \ Known) <= drift
      BY <3>1, BoundIsNatural DEF SweepInv, NextSo
    <3> QED  BY <2>3, <3>2
  <2> QED  BY <1>2, <2>4, <2>5, <2>6, <2>7, <2>8 DEF SweepInv
<1> QED  BY <1>3, <1>4

\* A new sweep has passed nothing; a resumed one, what lies below the point.
LEMMA EnterRescanSweep ==
  ASSUME TypeInv, TypeInv', SweepInv, EnterRescan
  PROVE  SweepInv'
<1>1. UNCHANGED <<portal, gone, bound, high>>  BY DEF EnterRescan, worldVars
<1>2. PortalPrefix'  BY <1>1 DEF SweepInv, PortalPrefix
<1>3. visit.offset = 0 /\ visit.reached = 0
  <2>1. ~Sweeping  BY DEF EnterRescan, At, Sweeping
  <2> QED  BY <2>1 DEF SweepInv, SweepShape
<1>4. CASE /\ visit'.stage = "recheck" /\ visit'.offset = 0 /\ visit'.reached = 0
           /\ UNCHANGED <<resume, swept, drift>>
  <2>1. ~Sweeping'  BY <1>4 DEF Sweeping
  <2> QED  BY <1>1, <1>2, <1>4, <2>1, QuietStep
<1>5. CASE /\ visit'.stage = "rescan_read" /\ visit'.offset = visit.offset
           /\ visit'.reached = visit.reached /\ visit'.from = Start
           /\ IF ResumeValid THEN UNCHANGED <<resume, swept, drift>>
              ELSE resume' = 0 /\ swept' = {} /\ drift' = 0
  <2>1. visit'.offset = 0 /\ visit'.reached = 0 /\ visit'.stage # "rescan_commit"
    BY <1>3, <1>5
  <2>2. bound \in Nat \ {0} /\ resume \in Nat /\ high \in Nat /\ drift \in Nat  BY BoundIsNatural
  <2>3. SweepShape' /\ bound <= visit'.from /\ visit'.from \in Nat
    <3>1. CASE ResumeValid
      BY <1>1, <1>5, <2>2, <3>1 DEF Start, ResumeValid, SweepShape, Sweeping
    <3>2. CASE ~ResumeValid
      BY <1>1, <1>5, <2>2, <3>2 DEF Start, SweepShape, Sweeping
    <3> QED  BY <3>1, <3>2
  <2>4. Resumed'
    <3>1. CASE ResumeValid
      BY <1>1, <1>5, <3>1 DEF SweepInv, Resumed, Behind, Live
    <3>2. CASE ~ResumeValid  BY <1>5, <3>2 DEF Resumed
    <3> QED  BY <3>1, <3>2
  <2>5. OffsetSo'
    <3> SUFFICES Cardinality((PassedAt(visit.offset) \ swept)') <= drift'  BY DEF OffsetSo
    <3>1. \A x \in (PassedAt(visit.offset))' : x \in Live /\ bound <= x /\ x < visit'.from
      <4> SUFFICES ASSUME NEW x \in (PassedAt(visit.offset))'
                   PROVE  x \in Live /\ bound <= x /\ x < visit'.from
        OBVIOUS
      <4>1. x \in Live /\ bound <= x /\ (x < visit'.from \/ PlaceIn(Live', visit'.from, x) < 0)
        BY <1>1, <2>1 DEF PassedAt, Passed, Live
      <4>2. PlaceIn(Live', visit'.from, x) \in Nat
        <5>1. Live' \in SUBSET Ids  BY DEF Live
        <5> QED  BY <5>1, PlaceIsNatural
      <4> QED  BY <4>1, <4>2
    <3>2. CASE ResumeValid
      <4> DEFINE S == Behind(resume) \ swept
                 T == (PassedAt(visit.offset) \ swept)'
      <4>1. visit'.from = resume /\ UNCHANGED <<resume, swept, drift>>
        BY <1>5, <3>2 DEF Start
      <4>2. S \in SUBSET Ids  BY DEF Behind, Live
      <4>3. \A x \in T : x \in S  BY <3>1, <4>1 DEF Behind
      <4>4. Cardinality(S) <= drift
        BY <2>2, <3>2 DEF SweepInv, Resumed, ResumeValid
      <4>5. Cardinality(T) <= drift
        <5> HIDE DEF S, T
        <5> QED  BY <2>2, <4>2, <4>3, <4>4, FewerThan
      <4> QED  BY <4>1, <4>5
    <3>3. CASE ~ResumeValid
      <4>1. visit'.from = bound /\ drift' = 0  BY <1>5, <3>3 DEF Start
      <4>2. Live \subseteq Nat  BY MaxIdIsNatural DEF Live, Ids
      <4>3. (PassedAt(visit.offset))' = {}
        <5> SUFFICES ASSUME NEW x \in (PassedAt(visit.offset))' PROVE FALSE  OBVIOUS
        <5>1. x \in Live /\ bound <= x /\ x < visit'.from  BY <3>1
        <5>2. x \in Nat  BY <4>2, <5>1
        <5> QED  BY <2>2, <4>1, <5>1, <5>2
      <4>4. (PassedAt(visit.offset) \ swept)' = {}  BY <4>3
      <4>5. Cardinality({}) = 0  BY FS_EmptySet
      <4> QED  BY <4>1, <4>4, <4>5
    <3> QED  BY <3>2, <3>3
  <2>6. ReachedSo' /\ PrefixSo' /\ NextSo'
    BY <2>1 DEF ReachedSo, PrefixSo, NextSo, At
  <2> QED  BY <1>2, <2>3, <2>4, <2>5, <2>6 DEF SweepInv
<1> QED  BY <1>4, <1>5, EnterRescanFacts

\* Among the calls the portal has, the places of the model are those of Live.
LEMMA PlaceIsAmongLive ==
  ASSUME PortalPrefix, NEW i \in Present
  PROVE  Place(i) = PlaceIn(Live, visit.from, i)
<1>1. ASSUME NEW j \in Live, j < i PROVE j \in Present
  BY <1>1 DEF PortalPrefix, Present, Live
<1>2. {j \in Present : visit.from <= j /\ j < i} = {j \in Live : visit.from <= j /\ j < i}
  BY <1>1 DEF Present, Live
<1> QED  BY <1>2 DEF Place, PlaceIn

\* A present call at an offset of the first pages is in them.
LEMMA OnAPage ==
  ASSUME TypeInv, PortalPrefix, NEW i \in Present, visit.from <= i, NEW good \in Nat,
         visit.offset <= PlaceIn(Live, visit.from, i),
         PlaceIn(Live, visit.from, i) < visit.offset + good * PageSize
  PROVE  \E c \in 1..good : i \in PageOf(c)
<1>1. Place(i) = PlaceIn(Live, visit.from, i) /\ Place(i) \in Nat
  <2>1. Live \in SUBSET Ids  BY DEF Live
  <2> QED  BY <2>1, PlaceIsAmongLive, PlaceIsNatural
<1>2. visit.offset \in Nat  BY BoundIsNatural
<1>3. PICK c \in 1..good :
        /\ visit.offset + (c - 1) * PageSize <= Place(i)
        /\ Place(i) < visit.offset + (c - 1) * PageSize + PageSize
  BY <1>1, <1>2, MaxIdIsNatural, SomePage
<1>4. i \in PageOf(c)  BY <1>3 DEF PageOf
<1> QED  BY <1>4

\* What a batch passes, it has read.
LEMMA ReadWindowSweep ==
  ASSUME TypeInv, TypeInv', SweepInv, NEW failed \in SUBSET (1..Limit), ReadWindow(failed)
  PROVE  SweepInv'
<1>1. UNCHANGED <<portal, gone, bound, resume, swept, drift>> /\ At("rescan_read")
  BY DEF ReadWindow, worldVars, seenVars
<1>2. PICK good \in 0..Limit :
           /\ failed = {} => good = Limit
           /\ \A c \in 1..good : c \notin failed
           /\ visit'.stage = "rescan_commit" /\ visit'.from = visit.from
           /\ visit'.offset = visit.offset /\ visit'.reached = visit.reached
           /\ visit'.hand = UNION {PageOf(c) : c \in (1..Limit) \ failed}
           /\ visit'.prefix = UNION {PageOf(c) : c \in 1..good}
           /\ visit'.failed = (failed # {})
           /\ visit'.next =>
                {i \in Present : Place(i) >= visit.offset + good * PageSize} # {}
           /\ VisitOK(visit')
  BY ReadWindowFacts
<1>3. good \in Nat /\ Limit \in Nat /\ PageSize \in Nat  BY MaxIdIsNatural
<1>4. PortalPrefix /\ Live \in SUBSET Ids /\ Live \subseteq Nat /\ Live' = Live
  BY <1>1, MaxIdIsNatural DEF SweepInv, Live, Ids
<1>5. /\ bound \in Nat /\ drift \in Nat /\ visit.from \in Nat /\ visit.offset \in Nat
      /\ good * PageSize \in Nat
  BY <1>3, BoundIsNatural, ProductIsNatural
<1>6. Cardinality(PassedAt(visit.offset) \ swept) <= drift
  BY <1>1 DEF SweepInv, OffsetSo
<1>7. \A c \in 1..good : PageOf(c) \subseteq visit'.hand
  BY <1>2, <1>3
\* What is passed later and is in no page was passed before.
<1>8. ASSUME NEW i \in Present, bound <= i, i \notin visit'.hand,
             i < visit.from \/ PlaceIn(Live, visit.from, i) < visit.offset + good * PageSize
      PROVE  i \in PassedAt(visit.offset)
  <2>1. i \in Live /\ i \in Nat  BY <1>4 DEF Present, Live
  <2>2. SUFFICES ASSUME ~(i < visit.from), ~(PlaceIn(Live, visit.from, i) < visit.offset)
                 PROVE  FALSE
    BY <1>8, <2>1 DEF PassedAt, Passed
  <2>3. PlaceIn(Live, visit.from, i) \in Nat  BY <1>4, PlaceIsNatural
  <2>4. PICK c \in 1..good : i \in PageOf(c)
    <3>1. /\ visit.from <= i /\ visit.offset <= PlaceIn(Live, visit.from, i)
          /\ PlaceIn(Live, visit.from, i) < visit.offset + good * PageSize
      BY <1>5, <1>8, <2>1, <2>2, <2>3
    <3> QED  BY <1>3, <1>4, <3>1, OnAPage
  <2> QED  BY <1>7, <1>8, <2>4
\* The calls before one the portal has are calls it has.
<1>9. ASSUME NEW i \in Live, NEW x \in Present, i <= x
      PROVE  i \in Present
  <2>1. i \in Nat /\ x \in Nat /\ x \in Live  BY <1>4 DEF Present, Live
  <2> QED  BY <1>4, <1>9, <2>1 DEF PortalPrefix, Present, Live
<1>10. ASSUME NEW S, S \subseteq Live, \A i \in S : i \in PassedAt(visit.offset) \/ i \in visit'.hand
       PROVE  Cardinality(S \ (swept \cup visit'.hand)) <= drift
  <2> DEFINE R == PassedAt(visit.offset) \ swept
             T == S \ (swept \cup visit'.hand)
  <2>1. R \in SUBSET Ids /\ T \in SUBSET R  BY <1>4, <1>10 DEF PassedAt, Passed
  <2>2. Cardinality(T) <= drift
    <3> HIDE DEF R, T
    <3> QED  BY <1>5, <1>6, <2>1, FewerThan DEF R
  <2> QED  BY <2>2
<1>11. (Known)' = swept \cup visit'.hand  BY <1>1 DEF Known
<1>12. PrefixSo'
  <2> SUFFICES ASSUME NEW x \in visit'.prefix
               PROVE  Cardinality((Behind(x + 1))' \ (swept \cup visit'.hand)) <= drift
    BY <1>1, <1>11 DEF PrefixSo
  <2>1. PICK c \in 1..good : x \in PageOf(c)  BY <1>2
  <2>2. x \in Present /\ x \in Live /\ x \in Nat  BY <1>4, <2>1 DEF PageOf, Present, Live
  <2>3. PlaceIn(Live, visit.from, x) < visit.offset + good * PageSize
    <3>1. Place(x) < visit.offset + (c - 1) * PageSize + PageSize  BY <2>1 DEF PageOf
    <3>2. Place(x) = PlaceIn(Live, visit.from, x)  BY <1>4, <2>2, PlaceIsAmongLive
    <3>3. (c - 1) * PageSize + PageSize <= good * PageSize  BY <1>3, PagesEnd
    <3>4. PlaceIn(Live, visit.from, x) \in Nat /\ (c - 1) * PageSize \in Nat
      BY <1>3, <1>4, PlaceIsNatural, ProductIsNatural
    <3> QED  BY <1>3, <1>5, <3>1, <3>2, <3>3, <3>4
  <2>4. ASSUME NEW i \in (Behind(x + 1))'
        PROVE  i \in Live /\ (i \in PassedAt(visit.offset) \/ i \in visit'.hand)
    <3>0. i \in Live /\ bound <= i /\ i < x + 1  BY <1>1, <1>4 DEF Behind
    <3>1. i \in Live /\ bound <= i /\ i <= x
      <4>1. i \in Nat  BY <1>4, <3>0
      <4> QED  BY <2>2, <3>0, <4>1
    <3>2. PlaceIn(Live, visit.from, i) <= PlaceIn(Live, visit.from, x)
      BY <1>4, <1>5, <2>2, <3>1, PlacesGrow
    <3>3. PlaceIn(Live, visit.from, i) \in Nat /\ PlaceIn(Live, visit.from, x) \in Nat
      BY <1>4, PlaceIsNatural
    <3>4. PlaceIn(Live, visit.from, i) < visit.offset + good * PageSize
      BY <1>5, <2>3, <3>2, <3>3
    <3> QED  BY <1>8, <1>9, <2>2, <3>1, <3>4
  <2> QED  BY <1>10, <2>4
<1>13. NextSo'
  <2> SUFFICES ASSUME ~visit'.failed, visit'.next
               PROVE  Cardinality((PassedAt(visit.offset + Limit * PageSize))' \ (swept \cup visit'.hand)) <= drift
    BY <1>1, <1>2, <1>11 DEF NextSo
  <2>1. good = Limit  BY <1>2
  <2>2. PICK y \in Present : Place(y) >= visit.offset + good * PageSize  BY <1>2
  <2>3. y \in Live /\ y \in Nat /\ Place(y) = PlaceIn(Live, visit.from, y)
    BY <1>4, PlaceIsAmongLive DEF Present, Live
  <2>4. ASSUME NEW i \in (PassedAt(visit.offset + Limit * PageSize))'
        PROVE  i \in Live /\ (i \in PassedAt(visit.offset) \/ i \in visit'.hand)
    <3>1. /\ i \in Live /\ bound <= i /\ i \in Nat
          /\ i < visit.from \/ PlaceIn(Live, visit.from, i) < visit.offset + good * PageSize
      BY <1>1, <1>2, <1>4, <2>1 DEF PassedAt, Passed, PlaceIn
    <3>2. CASE i < visit.from  BY <3>1, <3>2 DEF PassedAt, Passed
    <3>3. CASE ~(i < visit.from)
      <4>1. PlaceIn(Live, visit.from, i) \in Nat /\ PlaceIn(Live, visit.from, y) \in Nat
        BY <1>4, PlaceIsNatural
      <4>2. ~(y <= i)
        <5> SUFFICES ASSUME y <= i PROVE FALSE  OBVIOUS
        <5>1. PlaceIn(Live, visit.from, y) <= PlaceIn(Live, visit.from, i)
          BY <1>4, <1>5, <2>3, <3>1, PlacesGrow
        <5> QED  BY <1>5, <2>2, <2>3, <3>1, <3>3, <4>1, <5>1
      <4>3. i <= y  BY <2>3, <3>1, <4>2
      <4> QED  BY <1>8, <1>9, <3>1, <4>3
    <3> QED  BY <3>2, <3>3
  <2> QED  BY <1>10, <2>4
<1>14. PortalPrefix' /\ SweepShape' /\ Resumed' /\ ReachedSo' /\ OffsetSo'
  BY <1>1, <1>2 DEF SweepInv, PortalPrefix, SweepShape, Sweeping, Resumed, ReachedSo, OffsetSo,
                    At, Behind, Live
<1> QED  BY <1>12, <1>13, <1>14 DEF SweepInv

LEMMA CommitWindowSweep ==
  ASSUME TypeInv, TypeInv', SweepInv, NEW stopped, CommitWindow(stopped)
  PROVE  SweepInv'
<1>1. UNCHANGED <<portal, gone, bound>> /\ At("rescan_commit")
  BY DEF CommitWindow, worldVars
<1>2. PortalPrefix' /\ Live' = Live  BY <1>1 DEF SweepInv, PortalPrefix, Live
<1>3. Live \in SUBSET Ids /\ drift \in Nat  BY BoundIsNatural DEF Live
<1>4. Sweeping  BY <1>1 DEF At, Sweeping
\* Storing the batch leaves no more calls unread.
<1>5. ASSUME NEW S \in SUBSET Ids, Cardinality(S \ swept) <= drift
      PROVE  Cardinality(S \ Known) <= drift
  <2> DEFINE R == S \ swept
             T == S \ Known
  <2>1. R \in SUBSET Ids /\ T \in SUBSET R  BY DEF Known
  <2>2. Cardinality(T) <= drift
    <3> HIDE DEF R, T
    <3> QED  BY <1>3, <1>5, <2>1, FewerThan DEF R
  <2> QED  BY <2>2
<1>6. Reached # 0 => Cardinality(Behind(Reached + 1) \ Known) <= drift
  <2> SUFFICES ASSUME Reached # 0 PROVE Cardinality(Behind(Reached + 1) \ Known) <= drift
    OBVIOUS
  <2>1. CASE Reached \in visit.prefix  BY <1>1, <2>1 DEF SweepInv, PrefixSo
  <2>2. CASE Reached = visit.reached
    <3>1. Behind(visit.reached + 1) \in SUBSET Ids  BY <1>3 DEF Behind
    <3>2. Cardinality(Behind(visit.reached + 1) \ swept) <= drift
      BY <1>4, <2>2 DEF SweepInv, ReachedSo
    <3> QED  BY <1>5, <2>2, <3>1, <3>2
  <2> QED  BY <2>1, <2>2, ReachedIsOne
<1>7. \A x : (Behind(x))' = Behind(x)  BY <1>1, <1>2 DEF Behind
<1>8. CASE /\ visit'.stage \in {"idle", "recheck"}
           /\ visit'.offset = 0 /\ visit'.reached = 0
           /\ \/ resume' = 0 /\ swept' = {} /\ drift' = 0
              \/ /\ Reached # 0 /\ resume' = Reached + 1
                 /\ swept' = swept \cup visit.hand /\ drift' = drift
  <2>1. ~Sweeping'  BY <1>8 DEF Sweeping
  <2>2. Resumed'
    <3>1. CASE resume' = 0  BY <3>1 DEF Resumed
    <3>2. CASE /\ Reached # 0 /\ resume' = Reached + 1
               /\ swept' = swept \cup visit.hand /\ drift' = drift
      <4>1. swept' = Known /\ drift' = drift  BY <3>2 DEF Known
      <4>2. PICK x : x = Reached + 1  OBVIOUS
      <4>3. (Behind(resume))' = Behind(x)
        <5>1. resume' = x  BY <3>2, <4>2
        <5> QED  BY <1>1, <1>2, <5>1 DEF Behind
      <4> QED  BY <1>6, <3>2, <4>1, <4>2, <4>3 DEF Resumed
    <3> QED  BY <1>8, <3>1, <3>2
  <2> QED  BY <1>2, <1>8, <2>1, <2>2, ClaimStep
<1>9. CASE /\ ~visit.failed /\ visit.next
           /\ visit'.stage = "rescan_read" /\ visit'.from = visit.from
           /\ visit'.offset = visit.offset + Limit * PageSize /\ visit'.reached = Reached
           /\ swept' = swept \cup visit.hand
           /\ UNCHANGED <<resume, drift>>
  <2>1. swept' = Known  BY <1>9 DEF Known
  <2>2. SweepShape'
    <3>1. Sweeping'  BY <1>9 DEF Sweeping
    <3> QED  BY <1>1, <1>4, <1>9, <3>1 DEF SweepInv, SweepShape
  <2>3. Resumed'
    <3> SUFFICES ASSUME resume # 0 PROVE Cardinality(Behind(resume) \ Known) <= drift
      BY <1>1, <1>2, <1>9, <2>1 DEF Resumed, Behind
    <3>1. Behind(resume) \in SUBSET Ids  BY <1>3 DEF Behind
    <3>2. Cardinality(Behind(resume) \ swept) <= drift  BY DEF SweepInv, Resumed
    <3> QED  BY <1>5, <3>1, <3>2
  <2>4. ReachedSo'
    <3>1. PICK x : x = Reached  OBVIOUS
    <3>2. (Behind(visit.reached + 1))' = Behind(x + 1)
      <4>1. visit'.reached = x  BY <1>9, <3>1
      <4> QED  BY <1>1, <1>2, <4>1 DEF Behind
    <3> QED  BY <1>6, <1>9, <2>1, <3>1, <3>2 DEF ReachedSo
  <2>5. OffsetSo'
    <3>1. PICK k : k = visit.offset + Limit * PageSize  OBVIOUS
    <3>2. (PassedAt(visit.offset))' = PassedAt(k)
      <4>1. visit'.offset = k /\ visit'.from = visit.from  BY <1>9, <3>1
      <4> QED  BY <1>1, <1>2, <4>1 DEF PassedAt, Passed, PlaceIn
    <3>3. Cardinality(PassedAt(k) \ Known) <= drift
      BY <1>1, <1>9, <3>1 DEF SweepInv, NextSo
    <3> QED  BY <1>9, <2>1, <3>2, <3>3 DEF OffsetSo
  <2>6. PrefixSo' /\ NextSo'
    <3>1. visit'.stage # "rescan_commit"  BY <1>9
    <3> QED  BY <3>1 DEF PrefixSo, NextSo, At
  <2> QED  BY <1>2, <2>2, <2>3, <2>4, <2>5, <2>6 DEF SweepInv
<1> QED  BY <1>8, <1>9, CommitWindowFacts

\* The rows of the prefix are stored; the visit goes on with the same batch.
LEMMA CommitPrefixSweep ==
  ASSUME TypeInv, SweepInv, CommitPrefix
  PROVE  SweepInv'
<1>1. UNCHANGED <<portal, gone, bound, resume, swept, drift>>
  BY DEF CommitPrefix, worldVars, seenVars
<1>2. /\ visit'.stage = visit.stage /\ visit'.hand = visit.hand /\ visit'.from = visit.from
      /\ visit'.offset = visit.offset /\ visit'.reached = visit.reached
      /\ visit'.prefix = visit.prefix /\ visit'.failed = visit.failed
      /\ visit'.next = visit.next
  BY CommitPrefixFacts
<1>3. /\ \A x : (Behind(x))' = Behind(x) /\ (PassedAt(x))' = PassedAt(x)
      /\ Known' = Known /\ (Sweeping <=> Sweeping')
  BY <1>1, <1>2 DEF Behind, PassedAt, Passed, PlaceIn, Live, Known, Sweeping
<1>4. PortalPrefix' /\ SweepShape'
  BY <1>1, <1>2, <1>3 DEF SweepInv, PortalPrefix, SweepShape
<1>5. Resumed' /\ ReachedSo'
  BY <1>1, <1>2, <1>3 DEF SweepInv, Resumed, ReachedSo, Behind, Live
<1>6. OffsetSo' /\ PrefixSo' /\ NextSo'
  BY <1>1, <1>2, <1>3
     DEF SweepInv, OffsetSo, PrefixSo, NextSo, At, Behind, PassedAt, Passed, PlaceIn, Live
<1> QED  BY <1>4, <1>5, <1>6 DEF SweepInv

LEMMA AbandonSweep ==
  ASSUME TypeInv, TypeInv', SweepInv, NEW restart, Abandon(restart)
  PROVE  SweepInv'
<1>1. /\ UNCHANGED <<portal, gone, bound>> /\ visit' = NoVisit
      /\ resume' = 0 \/ (resume' = resume /\ resume # 0 /\ swept' = swept /\ drift' = drift)
  BY DEF Abandon, worldVars
<1>2. PortalPrefix' /\ ~Sweeping' /\ visit'.offset = 0 /\ visit'.reached = 0
  BY <1>1, NoVisitIsOne DEF SweepInv, PortalPrefix, Sweeping
<1>3. Resumed'
  <2>1. CASE resume' = 0  BY <2>1 DEF Resumed
  <2>2. CASE resume' = resume /\ resume # 0 /\ swept' = swept /\ drift' = drift
    BY <1>1, <2>2 DEF SweepInv, Resumed, Behind, Live
  <2> QED  BY <1>1, <2>1, <2>2
<1> QED  BY <1>2, <1>3, ClaimStep

LEMMA StepSweep == TypeInv /\ TypeInv' /\ SweepInv /\ [Next]_vars => SweepInv'
<1> SUFFICES ASSUME TypeInv, TypeInv', SweepInv, [Next]_vars PROVE SweepInv'  OBVIOUS
<1> USE DEF worldVars, dueVars, seenVars
<1>0. /\ PortalPrefix /\ (portal' = portal => PortalPrefix')
      /\ ~Sweeping => visit.offset = 0 /\ visit.reached = 0
  BY DEF SweepInv, PortalPrefix, SweepShape
<1>1. CASE SelectFlagged
  <2>1. visit.offset = 0 /\ visit.reached = 0  BY <1>0, <1>1 DEF SelectFlagged, At, Sweeping
  <2>2. ~Sweeping' /\ visit'.offset = 0 /\ visit'.reached = 0
    BY <1>1, <2>1, SelectFlaggedFacts DEF Sweeping
  <2> QED  BY <1>0, <1>1, <2>2, QuietStep DEF SelectFlagged
<1>2. CASE Incremental  BY <1>2, IncrementalSweep
<1>3. CASE EnterRescan  BY <1>3, EnterRescanSweep
<1>4. CASE NotDue
  <2>1. ~Sweeping' /\ visit'.offset = 0 /\ visit'.reached = 0
    BY <1>4, NoVisitIsOne DEF NotDue, Sweeping
  <2> QED  BY <1>0, <1>4, <2>1, QuietStep DEF NotDue
<1>5. CASE SpendRechecks
  <2>1. visit.offset = 0 /\ visit.reached = 0  BY <1>0, <1>5 DEF SpendRechecks, At, Sweeping
  <2>2. ~Sweeping' /\ visit'.offset = 0 /\ visit'.reached = 0
    BY <1>5, <2>1, SpendRechecksFacts DEF Sweeping
  <2> QED  BY <1>0, <1>5, <2>2, QuietStep DEF SpendRechecks
<1>6. ASSUME NEW lost \in SUBSET visit.ids, ReadFlagged(lost) PROVE SweepInv'
  <2>1. visit.offset = 0 /\ visit.reached = 0  BY <1>0, <1>6 DEF ReadFlagged, At, Sweeping
  <2>2. "refresh_commit" \in Stages  BY DEF Stages
  <2>3. ~Sweeping' /\ visit'.offset = 0 /\ visit'.reached = 0
    BY <1>6, <2>1, <2>2, ReadByIdsFacts DEF ReadFlagged, Sweeping
  <2> QED  BY <1>0, <1>6, <2>3, QuietStep DEF ReadFlagged
<1>7. ASSUME NEW lost \in SUBSET visit.ids, ReadRechecked(lost) PROVE SweepInv'
  <2>1. visit.offset = 0 /\ visit.reached = 0  BY <1>0, <1>7 DEF ReadRechecked, At, Sweeping
  <2>2. "recheck_commit" \in Stages  BY DEF Stages
  <2>3. ~Sweeping' /\ visit'.offset = 0 /\ visit'.reached = 0
    BY <1>7, <2>1, <2>2, ReadByIdsFacts DEF ReadRechecked, Sweeping
  <2> QED  BY <1>0, <1>7, <2>3, QuietStep DEF ReadRechecked
<1>8. ASSUME NEW stopped \in BOOLEAN, CommitFlagged(stopped) PROVE SweepInv'
  <2>1. "incremental" \in Stages  BY DEF Stages
  <2>2. ~Sweeping' /\ visit'.offset = 0 /\ visit'.reached = 0
    BY <1>8, <2>1, CommitFacts DEF CommitFlagged, Sweeping
  <2> QED  BY <1>0, <1>8, <2>2, QuietStep DEF CommitFlagged
<1>9. ASSUME NEW stopped \in BOOLEAN, CommitWindow(stopped) PROVE SweepInv'
  BY <1>9, CommitWindowSweep
<1>10. ASSUME NEW failed \in SUBSET (1..Limit), ReadWindow(failed) PROVE SweepInv'
  BY <1>10, ReadWindowSweep
<1>11. CASE CommitRechecked
  <2>1. "idle" \in Stages  BY DEF Stages
  <2>2. ~Sweeping' /\ visit'.offset = 0 /\ visit'.reached = 0
    BY <1>11, <2>1, CommitFacts DEF CommitRechecked, Sweeping
  <2> QED  BY <1>0, <1>11, <2>2, QuietStep DEF CommitRechecked
<1>12. CASE TokenExpired
  <2>1. ~Sweeping' /\ visit'.offset = 0 /\ visit'.reached = 0
    BY <1>12, TokenExpiredFacts DEF Sweeping
  <2> QED  BY <1>0, <1>12, <2>1, QuietStep DEF TokenExpired
<1>24. CASE CommitPrefix  BY <1>24, CommitPrefixSweep
<1>13. CASE NewCall
  <2>1. PICK n \in Ids : /\ \A j \in Ids : j < n => portal[j] # "none"
                         /\ portal' = [portal EXCEPT ![n] = "bare"]
    BY <1>13 DEF NewCall
  <2>2. PortalPrefix'
    <3> SUFFICES ASSUME NEW i \in Ids, NEW j \in Ids, j < i, portal'[i] # "none"
                 PROVE  portal'[j] # "none"
      BY DEF PortalPrefix
    <3>1. portal[j] # "none" => portal'[j] # "none"  BY <2>1 DEF TypeInv
    <3>2. CASE i = n  BY <2>1, <3>1, <3>2
    <3>3. CASE i # n
      <4>1. portal[i] # "none"  BY <2>1, <3>3 DEF TypeInv
      <4> QED  BY <1>0, <3>1, <4>1 DEF PortalPrefix
    <3> QED  BY <3>2, <3>3
  <2> QED  BY <1>13, <2>2, QuietStep DEF NewCall
<1>14. CASE HourPasses  BY <1>0, <1>14, QuietStep DEF HourPasses
<1>15. CASE DayPasses  BY <1>0, <1>15, QuietStep DEF DayPasses
<1>16. ASSUME NEW i \in Ids, RecordingAttached(i) PROVE SweepInv'
  <2>1. portal[i] # "none" /\ portal' = [portal EXCEPT ![i] = "recorded"]
    BY <1>16 DEF RecordingAttached, Present
  <2>2. \A j \in Ids : portal'[j] # "none" <=> portal[j] # "none"  BY <2>1 DEF TypeInv
  <2>3. PortalPrefix'  BY <1>0, <2>2 DEF PortalPrefix
  <2> QED  BY <1>16, <2>3, QuietStep DEF RecordingAttached
<1>17. ASSUME NEW i \in Ids, CallDeleted(i) PROVE SweepInv'
  BY <1>17, CallDeletedSweep
<1>18. ASSUME NEW i \in Ids, RequestRefresh(i) PROVE SweepInv'
  BY <1>0, <1>18, QuietStep DEF RequestRefresh
<1>19. ASSUME NEW i \in Ids, Ages(i) PROVE SweepInv'
  BY <1>0, <1>19, QuietStep DEF Ages
<1>20. ASSUME NEW restart \in BOOLEAN, Abandon(restart) PROVE SweepInv'
  BY <1>20, AbandonSweep
<1>21. CASE UNCHANGED vars  BY <1>0, <1>21, QuietStep DEF vars
<1>22. CASE VisitStep
  BY <1>1, <1>2, <1>3, <1>4, <1>5, <1>6, <1>7, <1>8, <1>9, <1>10, <1>11, <1>12, <1>24, <1>22
     DEF VisitStep
<1>23. CASE World
  BY <1>13, <1>14, <1>15, <1>16, <1>17, <1>18, <1>19, <1>23 DEF World
<1> QED  BY <1>20, <1>21, <1>22, <1>23 DEF Next

\* A resume point claims only what was read: below it and above the floor no
\* more calls are unread than were deleted since the sweep left the floor, for
\* pages and batches of every size, whatever fails (run_id_window_rescan,
\* rescan.py:226-353).
THEOREM ResumeIsCovered == Spec => []ResumeCovered
<1>1. Init => TypeInv /\ SweepInv  BY InitTypes, InitSweep
<1>2. TypeInv /\ SweepInv /\ [Next]_vars => (TypeInv /\ SweepInv)'
  BY StepTypes, StepSweep
<1>3. TypeInv /\ SweepInv => ResumeCovered  BY SweepInvImplies
<1> QED  BY <1>1, <1>2, <1>3, PTL DEF Spec

=============================================================================
