-------------------------- MODULE CrmMirrorProofs --------------------------
(***************************************************************************)
(* What CrmMirror keeps for every number of records, every page, batch and *)
(* range, every shift of the portal's zone, and any number of changes and  *)
(* failures: it implements RecordCache, its state is well typed, what the  *)
(* bookkeeping calls covered has been read (CoveredIsRead), and a row is   *)
(* behind its record only while a lane still owes the visit (EditsOwed).   *)
(*                                                                         *)
(* The lanes that ask and store in one step copy what the record is then.  *)
(* The dirty pass stores what it read some steps ago: it is safe because   *)
(* no other lane stores a row while it is at work (PassInv: its copies are *)
(* not behind the rows), and because a deletion it has seen stays one.     *)
(*                                                                         *)
(* The inductive invariant has one part per question:                      *)
(*   MirrorInv   records, rows and the pass: no row is ahead of its record *)
(*   KeptInv     a record never hidden nor deleted is absent from the      *)
(*               tombstones and the marks of the pass                      *)
(*   OrderInv    identifiers are given in order, so a head read bounds all *)
(*               the records that existed when it was read                 *)
(*   WalkInv     the open ranges, the claimed part and the part read tile  *)
(*               the identifiers up to the head, with neither gap nor      *)
(*               overlap (Tiles)                                           *)
(*   ReadInv     a steady record the backfill has been at has a live row   *)
(*   HistoryInv  a record's last announced version is one it went through  *)
(*   SweepInv    a sweep under way started after its watermark, and before *)
(*               the present                                               *)
(*   BlindInv    the sweep has no mark only before the first head is read  *)
(*   OwedInv     a steady row that is behind its record is Due: the        *)
(*               backfill or the sweep has still to come to it; what the   *)
(*               pass holds is fresh, or Due as well                       *)
(*   CountInv, ShapeInv, QueueInv  what only the types need                *)
(***************************************************************************)
EXTENDS CrmMirror, FiniteSetTheorems, SequenceTheorems, WellFoundedInduction, TLAPS

IsPass(p) ==
  p = [stage |-> p.stage, items |-> p.items, present |-> p.present, versions |-> p.versions,
       missing |-> p.missing, absent |-> p.absent, denied |-> p.denied]

AnyRow == [kind : {"none", "live", "deleted", "evicted"}, content : Nat,
           unreadable : BOOLEAN]

RecordInv == content \in [Ids -> Nat] /\ gone \subseteq Ids

\* A live row is a copy of a version its record has gone through.
RowInv ==
  /\ row \in [Ids -> AnyRow]
  /\ \A i \in Ids : /\ row[i].content <= content[i]
                    /\ row[i].kind = "live" => row[i].content > 0

\* What the dirty pass holds is a version its record has gone through and not
\* behind the row it is meant for; what it takes for deleted is deleted.
Current(i) ==
  /\ refresh.versions[i] \in Nat \ {0} /\ refresh.versions[i] <= content[i]
  /\ row[i].content <= refresh.versions[i]

PassInv ==
  /\ IsPass(refresh) /\ refresh.present \subseteq Ids
  /\ \A i \in refresh.present : Current(i)
  /\ refresh.absent \subseteq gone

MirrorInv == RecordInv /\ RowInv /\ PassInv

-----------------------------------------------------------------------------
(* What the abstract steps keep. *)

\* Every row a step of the abstract cache makes is a row.
LEMMA FollowersAreRows ==
  ASSUME RecordInv, RowInv, NEW i \in Ids, NEW new, Cache!Follows(i, new)
  PROVE  /\ new \in AnyRow /\ new.content <= content[i]
         /\ new.kind = "live" => new.content > 0
<1> USE DEF RecordInv, RowInv, AnyRow
<1>1. CASE new = row[i]  BY <1>1
<1>2. CASE \E c \in row[i].content..content[i], u \in BOOLEAN :
             c > 0 /\ new = Cache!Copy(c, u)
  <2>1. PICK c \in row[i].content..content[i], u \in BOOLEAN : c > 0 /\ new = Cache!Copy(c, u)
    BY <1>2
  <2>2. c \in Nat /\ c <= content[i]  OBVIOUS
  <2> QED  BY <2>1, <2>2 DEF Cache!Copy
<1>3. 0 <= content[i]  OBVIOUS
<1>4. CASE new = Cache!Tombstone  BY <1>3, <1>4 DEF Cache!Tombstone
<1>5. CASE new = Cache!Evicted  BY <1>3, <1>5 DEF Cache!Evicted
<1>6. CASE new = Cache!NoRow  BY <1>3, <1>6 DEF Cache!NoRow
<1> QED  BY <1>1, <1>2, <1>4, <1>5, <1>6 DEF Cache!Follows

\* The rows stay within their records, whichever abstract step is taken.
LEMMA RowsStayFaithful ==
  ASSUME RecordInv, RowInv, RecordInv', [Cache!CacheNext]_Cache!cacheVars,
         row' = [i \in Ids |-> row'[i]]
  PROVE  RowInv'
<1>1. CASE Cache!RowsFollow
  <2>1. \A i \in Ids : /\ row'[i] \in AnyRow /\ row'[i].content <= content[i]
                       /\ row'[i].kind = "live" => row'[i].content > 0
    BY <1>1, FollowersAreRows DEF Cache!RowsFollow
  <2> QED  BY <1>1, <2>1 DEF RowInv, Cache!RowsFollow
<1>2. CASE Cache!RecordChanges
  <2>1. \A i \in Ids : row[i].content <= content'[i]
    BY <1>2 DEF Cache!RecordChanges, RowInv, RecordInv, AnyRow
  <2> QED  BY <1>2, <2>1 DEF Cache!RecordChanges, RowInv
<1>3. CASE UNCHANGED Cache!cacheVars  BY <1>3 DEF Cache!cacheVars, RowInv
<1> QED  BY <1>1, <1>2, <1>3 DEF Cache!CacheNext

-----------------------------------------------------------------------------
(* The rows. *)

\* A page just read may be stored: each copy is what its record is now.
LEMMA StoringIsFollowing ==
  ASSUME RecordInv, RowInv, NEW S \in SUBSET Visible,
         row' = Stored(S), UNCHANGED <<content, gone>>
  PROVE  Cache!RowsFollow
<1>1. ASSUME NEW i \in Ids PROVE Cache!Follows(i, row'[i])
  <2>1. CASE i \in S \ Refused /\ row[i].kind # "deleted"
    <3>1. row'[i] = Cache!Copy(content[i], FALSE)  BY <2>1 DEF Stored, Upserted
    <3>2. content[i] \in row[i].content..content[i] /\ content[i] > 0
      BY <2>1 DEF RecordInv, RowInv, AnyRow, Visible, Existing
    <3> QED  BY <2>1, <3>1, <3>2 DEF Cache!Follows
  <2>2. CASE ~(i \in S \ Refused /\ row[i].kind # "deleted")
    BY <2>2 DEF Stored, Upserted, Cache!Follows
  <2> QED  BY <2>1, <2>2
<1> QED  BY <1>1 DEF Cache!RowsFollow

LEMMA SweepFollows == MirrorInv /\ Sweep => Cache!RowsFollow
<1> SUFFICES ASSUME MirrorInv, Sweep PROVE Cache!RowsFollow  OBVIOUS
<1>1. SweepPage \subseteq Visible  BY DEF SweepPage, Lowest
<1>2. row' = Stored(SweepPage) /\ UNCHANGED <<content, gone>>
  BY DEF Sweep, portalVars, recordVars
<1> QED  BY <1>1, <1>2, StoringIsFollowing DEF MirrorInv

LEMMA WalkFollows == MirrorInv /\ WalkRanges => Cache!RowsFollow
<1> SUFFICES ASSUME MirrorInv, WalkRanges PROVE Cache!RowsFollow  OBVIOUS
<1>1. PICK open \in {Planned(walk.open, walk.next, walk.width)} :
        \E failed \in SUBSET {n \in 1..Len(open) : ~open[n].done} :
          row' = Stored(UNION {Page(open[n].cursor, open[n].hi) :
                                 n \in {m \in 1..Len(open) : ~open[m].done} \ failed})
  BY Zenon DEF WalkRanges
<1>2. PICK pages \in SUBSET Visible : row' = Stored(pages)
  BY <1>1 DEF Page, Lowest
<1>3. UNCHANGED <<content, gone>>  BY DEF WalkRanges, portalVars, recordVars
<1> QED  BY <1>2, <1>3, StoringIsFollowing DEF MirrorInv

\* The dirty pass stores what it listed, even if the record has moved on.
LEMMA StoreRowsFollows == MirrorInv /\ StoreRows => Cache!RowsFollow
<1> SUFFICES ASSUME MirrorInv, StoreRows PROVE Cache!RowsFollow  OBVIOUS
<1>1. UNCHANGED <<content, gone>>  BY DEF StoreRows, Upserted, portalVars, recordVars
<1>2. ASSUME NEW i \in Ids PROVE Cache!Follows(i, row'[i])
  <2>1. CASE i \in refresh.present \ Refused /\ row[i].kind # "deleted"
    <3>1. row'[i] = Cache!Copy(refresh.versions[i], FALSE)  BY <2>1 DEF StoreRows, Upserted
    <3>2. Current(i) /\ content[i] \in Nat /\ row[i].content \in Nat
      BY <2>1 DEF MirrorInv, PassInv, RecordInv, RowInv, AnyRow
    <3>3. refresh.versions[i] \in row[i].content..content[i] /\ refresh.versions[i] > 0
      BY <3>2 DEF Current
    <3> QED  BY <2>1, <3>1, <3>3 DEF Cache!Follows
  <2>2. CASE ~(i \in refresh.present \ Refused /\ row[i].kind # "deleted")
    BY <2>2 DEF StoreRows, Upserted, Cache!Follows
  <2> QED  BY <2>1, <2>2
<1> QED  BY <1>1, <1>2 DEF Cache!RowsFollow

LEMMA MarkedIsACopy ==
  ASSUME NEW r \in AnyRow, r.kind = "live"
  PROVE  MarkUnreadable(r) = Cache!Copy(r.content, TRUE)
BY DEF MarkUnreadable, AnyRow, Cache!Copy

\* A tombstone stands for a proven deletion; the other marks keep the copy.
LEMMA StoreRestFollows == MirrorInv /\ StoreRest => Cache!RowsFollow
<1> SUFFICES ASSUME MirrorInv, StoreRest PROVE Cache!RowsFollow  OBVIOUS
<1>1. UNCHANGED <<content, gone>>  BY DEF StoreRest, portalVars, recordVars
<1>2. PICK absent \in {refresh.absent, {}} :
        row' = [i \in Ids |-> IF i \in absent THEN Cache!Tombstone
                              ELSE IF i \in refresh.denied THEN MarkUnreadable(row[i])
                              ELSE row[i]]
  BY DEF StoreRest
<1>3. ASSUME NEW i \in Ids PROVE Cache!Follows(i, row'[i])
  <2>1. CASE i \in absent
    <3>1. row'[i] = Cache!Tombstone  BY <1>2, <2>1
    <3>2. i \in gone  BY <2>1 DEF MirrorInv, PassInv
    <3> QED  BY <3>1, <3>2 DEF Cache!Follows
  <2>2. CASE i \notin absent /\ i \in refresh.denied /\ row[i].kind = "live"
    <3>1. row'[i] = MarkUnreadable(row[i])  BY <1>2, <2>2
    <3>2. row'[i] = Cache!Copy(row[i].content, TRUE)
      BY <2>2, <3>1, MarkedIsACopy DEF MirrorInv, RowInv
    <3>3. row[i].content \in row[i].content..content[i] /\ row[i].content > 0
      BY <2>2 DEF MirrorInv, RowInv, RecordInv, AnyRow
    <3> QED  BY <2>2, <3>2, <3>3 DEF Cache!Follows
  <2>3. CASE i \notin absent /\ ~(i \in refresh.denied /\ row[i].kind = "live")
    BY <1>2, <2>3 DEF MarkUnreadable, Cache!Follows
  <2> QED  BY <2>1, <2>2, <2>3
<1> QED  BY <1>1, <1>3 DEF Cache!RowsFollow

LEMMA RetentionFollows == MirrorInv /\ (Forget \/ Evict) => Cache!RowsFollow
<1> SUFFICES ASSUME MirrorInv, Forget \/ Evict PROVE Cache!RowsFollow  OBVIOUS
<1>1. UNCHANGED <<content, gone>>  BY DEF Forget, Evict, portalVars, recordVars
<1>2. PICK i \in Ids, new \in {Cache!NoRow, Cache!Evicted} :
        /\ row' = [row EXCEPT ![i] = new]
        /\ \/ row[i].kind \in {"deleted", "evicted"} /\ new = Cache!NoRow
           \/ row[i].kind = "live" /\ new = Cache!Evicted
  BY DEF Forget, Evict
<1>3. Cache!Follows(i, new)  BY <1>2 DEF Cache!Follows
<1>4. \A j \in Ids : row'[j] = IF j = i THEN new ELSE row[j]
  BY <1>2 DEF MirrorInv, RowInv
<1> QED  BY <1>1, <1>3, <1>4 DEF Cache!RowsFollow, Cache!Follows

-----------------------------------------------------------------------------
(* The records. *)

\* People create, edit and delete records; versions only grow.
LEMMA PortalChangesRecords == MirrorInv /\ Portal => Cache!RecordChanges /\ RecordInv'
<1> SUFFICES ASSUME MirrorInv, Portal PROVE Cache!RecordChanges /\ RecordInv'
  OBVIOUS
<1>1. row' = row
  BY DEF Portal, Create, Edit, SilentEdit, Delete, Hide, Show, ZoneChanges, mirrorVars
<1>2. \A i \in Ids : content[i] \in Nat  BY DEF MirrorInv, RecordInv
<1>3. CASE Create \/ Edit \/ SilentEdit
  <2>1. PICK i \in Ids, c \in Nat : content' = [content EXCEPT ![i] = c] /\ c >= content[i]
    BY <1>2, <1>3 DEF Create, Edit, SilentEdit, Existing
  <2>2. gone' = gone  BY <1>3 DEF Create, Edit, SilentEdit
  <2>3. content' \in [Ids -> Nat]  BY <2>1 DEF MirrorInv, RecordInv
  <2>4. \A j \in Ids : content'[j] >= content[j]
    BY <1>2, <2>1 DEF MirrorInv, RecordInv
  <2> QED  BY <1>1, <2>2, <2>3, <2>4 DEF MirrorInv, RecordInv, Cache!RecordChanges
<1>4. CASE Delete
  <2>1. content' = content  BY <1>4 DEF Delete
  <2>2. gone \subseteq gone' /\ gone' \subseteq Ids
    BY <1>4 DEF Delete, Existing, MirrorInv, RecordInv
  <2> QED  BY <1>1, <1>2, <2>1, <2>2 DEF MirrorInv, RecordInv, Cache!RecordChanges
<1>5. CASE Hide \/ Show \/ ZoneChanges
  <2>1. content' = content /\ gone' = gone
    BY <1>5 DEF Hide, Show, ZoneChanges, recordVars
  <2> QED  BY <1>1, <1>2, <2>1 DEF MirrorInv, RecordInv, Cache!RecordChanges
<1> QED  BY <1>3, <1>4, <1>5 DEF Portal

\* The steps that leave both records and rows alone.
Quiet ==
  \/ Tick \/ ClockAges \/ Measure \/ SweepDisagrees \/ ReadHead
  \/ DirtyList \/ ConfirmAbsent \/ ReconLane \/ Setbacks

Storing == Sweep \/ WalkRanges \/ StoreRows \/ StoreRest \/ Forget \/ Evict

LEMMA NextIsOneOfThree == Next => Portal \/ Quiet \/ Storing
BY Zenon DEF Next, SweepLane, WalkLane, DirtyLane, Quiet, Storing

LEMMA QuietIsQuiet == Quiet \/ UNCHANGED vars => UNCHANGED Cache!cacheVars
BY DEF Quiet, ReconLane, Setbacks, Tick, ClockAges, Measure, SweepDisagrees, ReadHead,
  DirtyList, ConfirmAbsent, ReconStart, CountRanges, ListLeaves, ReconFinish,
  SweepDemoted, WalkParked, WalkDemoted, ReconParked, PassAbandoned,
  vars, portalVars, recordVars, mirrorVars, Cache!cacheVars

LEMMA StoringFollows == MirrorInv /\ Storing => Cache!RowsFollow
BY SweepFollows, WalkFollows, StoreRowsFollows, StoreRestFollows, RetentionFollows
DEF Storing

\* Every step is a step of the abstract cache, or changes nothing it knows of.
LEMMA StepMaps == MirrorInv /\ [Next]_vars => [Cache!CacheNext]_Cache!cacheVars
BY NextIsOneOfThree, PortalChangesRecords, QuietIsQuiet, StoringFollows
DEF Cache!CacheNext

-----------------------------------------------------------------------------
(* The dirty pass. *)

LEMMA NoPassIsPass ==
  /\ IsPass(NoPass) /\ NoPass.stage = "idle"
  /\ NoPass.present = {} /\ NoPass.absent = {}
BY DEF NoPass, IsPass

LEMMA NoPassIsSafe == refresh' = NoPass => PassInv'
BY NoPassIsPass DEF PassInv

\* Nobody else stores a row while the pass is at work, but for the retention
\* job, which only takes rows away.
LEMMA PassWaits ==
  ASSUME MirrorInv, refresh' = refresh,
         Portal \/ Quiet \/ Storing \/ UNCHANGED vars
  PROVE  PassInv'
<1>1. CASE Sweep \/ WalkRanges
  <2>1. refresh = NoPass
    BY <1>1 DEF Sweep, ReadyToSweep, Sweepable, WalkRanges, Walking, Between
  <2> QED  BY <2>1, NoPassIsSafe
<1>2. CASE Forget \/ Evict
  <2>1. UNCHANGED <<content, gone>>  BY <1>2 DEF Forget, Evict, portalVars, recordVars
  <2>2. PICK i \in Ids, new \in {Cache!NoRow, Cache!Evicted} :
          row' = [row EXCEPT ![i] = new] /\ new.content = 0
    <3>1. Cache!NoRow.content = 0 /\ Cache!Evicted.content = 0
      BY DEF Cache!NoRow, Cache!Evicted
    <3> QED  BY <1>2, <3>1 DEF Forget, Evict
  <2>3. \A j \in Ids : row'[j].content \in {row[j].content, 0}
    BY <2>2 DEF MirrorInv, RowInv
  <2> QED  BY <2>1, <2>3 DEF MirrorInv, PassInv, Current
<1>3. CASE StoreRows \/ StoreRest
  <2>1. refresh.stage # refresh'.stage
    <3>1. CASE StoreRows
      <4>1. IsPass(refresh) /\ refresh.stage = "confirmed"
        BY <3>1 DEF StoreRows, Upserted, At, MirrorInv, PassInv
      <4>2. refresh' = [refresh EXCEPT !.stage = "stored"]  BY <3>1 DEF StoreRows, Upserted
      <4> QED  BY <4>1, <4>2 DEF IsPass
    <3>2. CASE StoreRest
      <4>1. refresh.stage = "stored" /\ refresh' = NoPass  BY <3>2 DEF StoreRest, At
      <4> QED  BY <4>1, NoPassIsPass
    <3> QED  BY <1>3, <3>1, <3>2
  <2> QED  BY <2>1
<1>4. CASE Portal
  <2>1. Cache!RecordChanges  BY <1>4, PortalChangesRecords
  <2>2. \A i \in Ids : content[i] \in Nat /\ content'[i] \in Nat /\ content'[i] >= content[i]
    BY <1>4, <2>1, PortalChangesRecords DEF MirrorInv, RecordInv, Cache!RecordChanges
  <2> QED  BY <2>1, <2>2 DEF MirrorInv, PassInv, Current, Cache!RecordChanges
<1>5. CASE Quiet \/ UNCHANGED vars
  <2>1. UNCHANGED <<content, gone, row>>  BY <1>5, QuietIsQuiet DEF Cache!cacheVars
  <2> QED  BY <2>1 DEF MirrorInv, PassInv, Current
<1> QED  BY <1>1, <1>2, <1>3, <1>4, <1>5 DEF Storing

LEMMA ListingIsSafe == MirrorInv /\ DirtyList => PassInv'
<1> SUFFICES ASSUME MirrorInv, DirtyList PROVE PassInv'  OBVIOUS
<1>1. UNCHANGED <<content, gone, row>>
  BY DEF DirtyList, portalVars, recordVars, mirrorVars
<1>2. PICK items \in SUBSET dirty :
        refresh' = [NoPass EXCEPT !.stage = "listed", !.items = items,
                      !.present = items \cap Visible,
                      !.versions = [i \in items \cap Visible |-> content[i]],
                      !.missing = items \ Visible]
  BY DEF DirtyList
<1>3. /\ IsPass(refresh') /\ refresh'.absent = {}
      /\ refresh'.present = items \cap Visible
      /\ refresh'.versions = [i \in items \cap Visible |-> content[i]]
  BY <1>2 DEF NoPass, IsPass
<1>4. \A i \in Visible :
        content[i] \in Nat \ {0} /\ row[i].content <= content[i]
  BY DEF Visible, Existing, MirrorInv, RecordInv, RowInv
<1>5. refresh'.present \subseteq Visible
      /\ \A i \in refresh'.present : refresh'.versions[i] = content[i]
  BY <1>3
<1>6. \A i \in refresh'.present : Current(i)'
  BY <1>1, <1>4, <1>5 DEF Current
<1>7. refresh'.present \subseteq Ids  BY <1>5 DEF Visible, Existing
<1> QED  BY <1>3, <1>6, <1>7 DEF PassInv

\* NOT_FOUND is only taken from a record that is gone.
LEMMA ConfirmingIsSafe == MirrorInv /\ ConfirmAbsent => PassInv'
<1> SUFFICES ASSUME MirrorInv, ConfirmAbsent PROVE PassInv'  OBVIOUS
<1>1. UNCHANGED <<content, gone, row>>
  BY DEF ConfirmAbsent, portalVars, recordVars, mirrorVars
<1>2. PICK absent \in SUBSET gone, denied \in SUBSET hidden :
        refresh' = [refresh EXCEPT !.stage = "confirmed", !.absent = absent,
                                   !.denied = denied]
  BY DEF ConfirmAbsent
<1>3. IsPass(refresh)  BY DEF MirrorInv, PassInv
<1>4. /\ IsPass(refresh') /\ refresh'.absent = absent
      /\ refresh'.present = refresh.present /\ refresh'.versions = refresh.versions
  BY <1>2, <1>3 DEF IsPass
<1> QED  BY <1>1, <1>2, <1>4 DEF MirrorInv, PassInv, Current

\* What the pass has stored stays what it holds, until its second transaction.
LEMMA StoringRowsIsSafe == MirrorInv /\ StoreRows => PassInv'
<1> SUFFICES ASSUME MirrorInv, StoreRows PROVE PassInv'  OBVIOUS
<1>1. UNCHANGED <<content, gone>>  BY DEF StoreRows, Upserted, portalVars, recordVars
<1>2. IsPass(refresh) /\ refresh' = [refresh EXCEPT !.stage = "stored"]
  BY DEF StoreRows, Upserted, MirrorInv, PassInv
<1>3. /\ IsPass(refresh') /\ refresh'.absent = refresh.absent
      /\ refresh'.present = refresh.present /\ refresh'.versions = refresh.versions
  BY <1>2 DEF IsPass
<1>4. \A i \in refresh.present :
        row'[i].content \in {row[i].content, refresh.versions[i]}
  BY DEF StoreRows, Upserted, Cache!Copy, MirrorInv, PassInv
<1>5. \A i \in refresh.present : Current(i)'
  BY <1>1, <1>3, <1>4 DEF MirrorInv, PassInv, Current
<1> QED  BY <1>1, <1>3, <1>5 DEF MirrorInv, PassInv

LEMMA PassMoves ==
  [Next]_vars => DirtyLane \/ PassAbandoned \/ refresh' = refresh
BY DEF Next, vars, Tick, ClockAges, Portal, Create, Edit, SilentEdit, Delete, Hide,
  Show, ZoneChanges, SweepLane, Measure, Sweep, SweepDisagrees, WalkLane, ReadHead,
  WalkRanges, ReconLane, ReconStart, CountRanges, ListLeaves, ReconFinish, Setbacks,
  SweepDemoted, WalkParked, WalkDemoted, ReconParked, Forget, Evict

LEMMA PassStep == MirrorInv /\ [Next]_vars => PassInv'
<1> SUFFICES ASSUME MirrorInv, [Next]_vars PROVE PassInv'  OBVIOUS
<1>1. CASE refresh' = refresh  BY <1>1, NextIsOneOfThree, PassWaits
<1>2. CASE DirtyList  BY <1>2, ListingIsSafe
<1>3. CASE ConfirmAbsent  BY <1>3, ConfirmingIsSafe
<1>4. CASE StoreRows  BY <1>4, StoringRowsIsSafe
<1>5. CASE StoreRest \/ PassAbandoned
  BY <1>5, NoPassIsSafe DEF StoreRest, PassAbandoned
<1> QED  BY <1>1, <1>2, <1>3, <1>4, <1>5, PassMoves DEF DirtyLane

-----------------------------------------------------------------------------
(* The theorem. *)

LEMMA InitMaps == Init => Cache!CacheInit
BY DEF Init, Cache!CacheInit

LEMMA InitIsSafe == Init => MirrorInv
<1> SUFFICES ASSUME Init PROVE MirrorInv  OBVIOUS
<1>1. RecordInv  BY DEF Init, RecordInv
<1>2. RowInv
  <2>1. row = [i \in Ids |-> Cache!NoRow]  BY DEF Init
  <2>2. \A i \in Ids : content[i] \in Nat  BY DEF Init
  <2>3. Cache!NoRow \in AnyRow  BY DEF Cache!NoRow, AnyRow
  <2>4. Cache!NoRow.content = 0 /\ Cache!NoRow.kind = "none"  BY DEF Cache!NoRow
  <2> QED  BY <2>1, <2>2, <2>3, <2>4 DEF RowInv
<1>3. PassInv
  BY NoPassIsPass DEF Init, PassInv
<1> QED  BY <1>1, <1>2, <1>3 DEF MirrorInv

\* No step adds or loses a row altogether.
LEMMA RowsAreKept == MirrorInv /\ [Next]_vars => row' = [i \in Ids |-> row'[i]]
<1> SUFFICES ASSUME MirrorInv, [Next]_vars PROVE row' = [i \in Ids |-> row'[i]]
  OBVIOUS
<1>1. row = [i \in Ids |-> row[i]]  BY DEF MirrorInv, RowInv
<1>2. CASE Sweep  BY <1>2 DEF Sweep, Stored, Upserted
<1>3. CASE WalkRanges
  <2>1. PICK S : row' = Stored(S)  BY <1>3, Zenon DEF WalkRanges
  <2> QED  BY <2>1 DEF Stored, Upserted
<1>4. CASE StoreRows  BY <1>4 DEF StoreRows, Upserted
<1>5. CASE StoreRest
  <2>1. PICK absent :
          row' = [i \in Ids |-> IF i \in absent THEN Cache!Tombstone
                                ELSE IF i \in refresh.denied THEN MarkUnreadable(row[i])
                                ELSE row[i]]
    BY <1>5 DEF StoreRest
  <2> QED  BY <2>1
<1>6. CASE Forget \/ Evict  BY <1>1, <1>6 DEF Forget, Evict
<1>7. CASE Portal \/ Quiet \/ UNCHANGED vars
  BY <1>1, <1>7, PortalChangesRecords, QuietIsQuiet DEF Cache!RecordChanges, Cache!cacheVars
<1> QED  BY <1>2, <1>3, <1>4, <1>5, <1>6, <1>7, NextIsOneOfThree DEF Storing

LEMMA SafetyStep == MirrorInv /\ [Next]_vars => MirrorInv'
<1> SUFFICES ASSUME MirrorInv, [Next]_vars PROVE MirrorInv'  OBVIOUS
<1>1. [Cache!CacheNext]_Cache!cacheVars  BY StepMaps
<1>2. RecordInv'
  <2>1. CASE Portal  BY <2>1, PortalChangesRecords
  <2>2. CASE Storing
    BY <2>2, StoringFollows DEF Cache!RowsFollow, MirrorInv, RecordInv
  <2>3. CASE Quiet \/ UNCHANGED vars
    BY <2>3, QuietIsQuiet DEF Cache!cacheVars, MirrorInv, RecordInv
  <2> QED  BY <2>1, <2>2, <2>3, NextIsOneOfThree
<1>3. row' = [i \in Ids |-> row'[i]]  BY RowsAreKept
<1>4. RowInv'  BY <1>1, <1>2, <1>3, RowsStayFaithful DEF MirrorInv
<1>5. PassInv'  BY PassStep
<1> QED  BY <1>2, <1>4, <1>5 DEF MirrorInv

\* The lanes of sync/crm_*.py implement the abstract cache: whatever they read,
\* fail to read and store late, a row only moves to a later version of its
\* record, says "deleted" only of a record that is gone, and what is known to
\* be gone does not come back (crm_dirty.py 3-5, crm_deletes.py 3-12).
THEOREM MirrorImplementsCache == Spec => ImplementsCache
<1> QED
  BY InitMaps, InitIsSafe, SafetyStep, StepMaps, PTL
  DEF Spec, ImplementsCache, Cache!CacheSpec

-----------------------------------------------------------------------------
(* Counting: pages and their greatest IDs. *)

LEMMA SomeLeast ==
  ASSUME NEW S \in SUBSET Nat, S # {}
  PROVE  \E x \in S : \A y \in S : x <= y
<1>1. PICK x \in S : \A y \in S : ~ (<<y, x>> \in OpToRel(<, Nat))
  BY WFMin, NatLessThanWellFounded
<1>2. \A y \in S : ~ (y < x)  BY <1>1 DEF OpToRel
<1> QED  BY <1>2

LEMMA MaxIdIsNatural == MaxId \in Nat
BY NumberAssumption

LEMMA SomeGreatest ==
  ASSUME NEW n \in Nat, NEW S \in SUBSET (1..n), S # {}
  PROVE  \E x \in S : \A y \in S : x >= y
<1> DEFINE T == {n - x : x \in S}
<1>1. PICK z \in S : TRUE  OBVIOUS
<1>2. T \in SUBSET Nat /\ n - z \in T  OBVIOUS
<1>3. PICK t \in T : \A u \in T : t <= u
  <2> HIDE DEF T
  <2> QED  BY <1>2, SomeLeast
<1>4. PICK x \in S : t = n - x  OBVIOUS
<1>5. \A y \in S : n - x <= n - y  BY <1>3, <1>4
<1> QED  BY <1>5

LEMMA GreatestUpTo ==
  ASSUME NEW n \in Nat, NEW S \in SUBSET (1..n)
  PROVE  /\ Greatest(S) \in 0..n /\ \A y \in S : y <= Greatest(S)
         /\ S = {} => Greatest(S) = 0
         /\ S # {} => Greatest(S) = Max(S) /\ Max(S) \in S
<1>1. CASE S = {}  BY <1>1 DEF Greatest
<1>2. CASE S # {}
  <2>1. \E x \in S : \A y \in S : x >= y  BY <1>2, SomeGreatest
  <2>2. PICK x \in S : x = Max(S) /\ \A y \in S : x >= y  BY <2>1 DEF Max
  <2>3. Greatest(S) = x  BY <1>2, <2>2 DEF Greatest
  <2>4. x \in 0..n /\ \A y \in S : y <= x  BY <2>2
  <2> QED  BY <1>2, <2>2, <2>3, <2>4
<1> QED  BY <1>1, <1>2

LEMMA MaxIsGreatest ==
  ASSUME NEW S \in SUBSET Ids, S # {}
  PROVE  Max(S) \in S /\ \A y \in S : y <= Max(S)
BY GreatestUpTo, MaxIdIsNatural DEF Ids

LEMMA SetsOfIds ==
  ASSUME NEW S \in SUBSET Ids
  PROVE  IsFiniteSet(S) /\ Cardinality(S) \in Nat
<1>1. IsFiniteSet(Ids)  BY FS_Interval, MaxIdIsNatural DEF Ids
<1> QED  BY <1>1, FS_Subset, FS_CardinalityType

\* A page is a lower part of what was asked for,
LEMMA LowestIsLow ==
  ASSUME NEW S \in SUBSET Ids, NEW n \in Nat
  PROVE  /\ Lowest(S, n) \subseteq S
         /\ \A x \in Lowest(S, n), y \in S : y <= x => y \in Lowest(S, n)
<1>1. ASSUME NEW x \in Lowest(S, n), NEW y \in S, y <= x PROVE y \in Lowest(S, n)
  <2> DEFINE X == {z \in S : z <= x}
             Y == {z \in S : z <= y}
  <2>1. X \in SUBSET Ids /\ Y \subseteq X
    <3>1. x \in Int /\ y \in Int /\ \A z \in S : z \in Int  BY DEF Ids, Lowest
    <3>2. \A z \in S : z <= y => z <= x  BY <1>1, <3>1
    <3> QED  BY <3>2
  <2>2. Cardinality(X) <= n  BY DEF Lowest
  <2>3. Cardinality(Y) <= Cardinality(X) /\ Cardinality(X) \in Nat /\ Cardinality(Y) \in Nat
    <3> HIDE DEF X, Y
    <3> QED  BY <2>1, SetsOfIds, FS_Subset
  <2>4. Cardinality(Y) <= n  
    <3> HIDE DEF X, Y
    <3> QED  BY <2>2, <2>3
  <2> QED  BY <2>4 DEF Lowest
<1> QED  BY <1>1 DEF Lowest

\* and all of it when it is not full.
LEMMA ShortPageIsAll ==
  ASSUME NEW S \in SUBSET Ids, NEW n \in Nat, Cardinality(Lowest(S, n)) < n
  PROVE  Lowest(S, n) = S
<1>1. PICK L : L = Lowest(S, n)  OBVIOUS
<1>2. L \subseteq S /\ Cardinality(L) < n  BY <1>1, LowestIsLow
<1> SUFFICES ASSUME S \ L # {} PROVE FALSE  BY <1>1, <1>2
<1>3. PICK m \in S \ L : \A y \in S \ L : m <= y
  <2>1. \A y \in S : y \in Nat  BY DEF Ids
  <2>2. S \ L \in SUBSET Nat  BY <2>1
  <2> QED  BY <2>2, SomeLeast
<1> DEFINE Y == {y \in S : y <= m}
<1>4. Y \subseteq L \cup {m}
  <2>1. \A y \in S : y \in Int  BY DEF Ids
  <2>2. \A y \in S : y <= m => y = m \/ ~ (m <= y)  BY <1>3, <2>1
  <2> QED  BY <1>3, <2>2
<1>5. Cardinality(L \cup {m}) = Cardinality(L) + 1
  BY <1>2, <1>3, SetsOfIds, FS_AddElement
<1>6. Cardinality(Y) <= Cardinality(L \cup {m})
  <2>1. L \cup {m} \in SUBSET Ids  BY <1>2, <1>3
  <2> HIDE DEF Y
  <2> QED  BY <1>4, <2>1, SetsOfIds, FS_Subset
<1>7. Cardinality(Y) <= n
  <2>1. Cardinality(Y) \in Nat /\ Cardinality(L) \in Nat  BY <1>2, SetsOfIds
  <2> HIDE DEF Y
  <2> QED  BY <1>2, <1>5, <1>6, <2>1
<1>8. m \in Lowest(S, n)  BY <1>7 DEF Lowest
<1> QED  BY <1>1, <1>3, <1>8

-----------------------------------------------------------------------------
(* Ranges. *)

AnyRange == [lo : Nat \ {0}, hi : Nat, cursor : Nat, done : BOOLEAN]
RangeInv(r) ==
  r \in AnyRange /\ r.lo < r.hi /\ r.lo <= r.cursor + 1 /\ r.cursor + 1 <= r.hi

Within(r, i) == r.lo <= i /\ i < r.hi
ReadTo(r, i) == Within(r, i) /\ (r.done \/ i <= r.cursor)

\* Open ranges cover the stretch from bottom to top without a gap, newest first.
Tiles(open, top, bottom) ==
  /\ open \in Seq(AnyRange) /\ bottom \in Nat \ {0} /\ top \in Nat /\ bottom <= top
  /\ \A n \in 1..Len(open) :
       RangeInv(open[n]) /\ bottom <= open[n].lo /\ open[n].hi <= top
  /\ \A m, n \in 1..Len(open) : m < n => open[n].hi <= open[m].lo
  /\ \A i \in bottom..(top - 1) : \E n \in 1..Len(open) : Within(open[n], i)

LEMMA ParametersAreNatural ==
  /\ PageSize \in Nat \ {0} /\ Commands \in Nat \ {0} /\ MaxWidth \in Nat \ {0}
  /\ Lookback \in Nat /\ Overlap \in Nat /\ MaxShift \in Nat /\ CommitLag \in 0..Overlap
  /\ MaxTime \in Nat \ {0} /\ MaxChanges \in Nat /\ MaxFaults \in Nat
BY NumberAssumption, LagAssumption

LEMMA Division ==
  ASSUME NEW a \in Nat, NEW b \in Nat \ {0}
  PROVE  CeilDiv(a, b) \in Nat /\ b * CeilDiv(a, b) <= a + b - 1
<1>1. a + b - 1 \in Nat  OBVIOUS
<1>2. PICK c \in Nat : c = a + b - 1  BY <1>1
<1>3. c \div b \in Int /\ c \div b >= 0  BY SMTT(30)
<1>4. b * (c \div b) <= c  BY SMTT(30)
<1> QED  BY <1>2, <1>3, <1>4 DEF CeilDiv

\* A range of the plan starts above what is left for the ranges after it.
LEMMA RangesAreNotEmpty ==
  ASSUME NEW a \in Nat, NEW b \in Nat \ {0}, NEW n \in 1..CeilDiv(a, b)
  PROVE  (n - 1) * b < a /\ (n - 1) * b \in Nat /\ n * b = (n - 1) * b + b
<1>1. PICK q \in Nat : q = CeilDiv(a, b) /\ b * q <= a + b - 1  BY Division
<1>2. n \in Nat /\ n >= 1 /\ n <= q  BY <1>1
<1>3. b * n <= b * q  BY <1>1, <1>2
<1>4. (n - 1) * b = b * n - b /\ n * b = b * n  BY <1>2
<1>5. b * n \in Nat /\ b * q \in Nat /\ n - 1 \in Nat  BY <1>1, <1>2
<1>6. (n - 1) * b \in Nat  BY <1>5
<1> QED  BY <1>1, <1>3, <1>4, <1>5, <1>6

LEMMA PlanOfRanges ==
  ASSUME NEW next \in Nat \ {0}, NEW width \in Nat \ {0}
  PROVE  /\ CeilDiv(next - 1, width) \in Nat
         /\ \A n \in 1..CeilDiv(next - 1, width) :
              LET r == PlanRanges(next, width)[n] IN
              /\ RangeInv(r) /\ r.cursor = r.lo - 1 /\ ~r.done
              /\ r.lo = AtLeast(1, next - n * width)
              /\ r.hi = next - (n - 1) * width /\ r.hi <= next
              /\ n = 1 => r.hi = next
<1>1. PICK q \in Nat : q = CeilDiv(next - 1, width)
  <2>1. next - 1 \in Nat  OBVIOUS
  <2> QED  BY <2>1, Division
<1>2. ASSUME NEW n \in 1..q
      PROVE  LET r == PlanRanges(next, width)[n] IN
              /\ RangeInv(r) /\ r.cursor = r.lo - 1 /\ ~r.done
              /\ r.lo = AtLeast(1, next - n * width)
              /\ r.hi = next - (n - 1) * width /\ r.hi <= next
              /\ n = 1 => r.hi = next
  <2> DEFINE r == PlanRanges(next, width)[n]
  <2>1. r = IdRange(AtLeast(1, next - n * width), next - (n - 1) * width)
    BY <1>1 DEF PlanRanges
  <2>2. PICK below \in Nat : below = (n - 1) * width /\ below < next - 1
                             /\ n * width = below + width
    <3>1. next - 1 \in Nat  OBVIOUS
    <3> QED  BY <1>1, <3>1, RangesAreNotEmpty
  <2>3. PICK lo \in Nat \ {0}, hi \in Nat :
          /\ lo = AtLeast(1, next - n * width) /\ hi = next - (n - 1) * width
          /\ lo < hi /\ hi <= next
    <3>1. AtLeast(1, next - n * width) \in Nat \ {0}
          /\ AtLeast(1, next - n * width) < next - below
      BY <2>2 DEF AtLeast
    <3>2. next - below \in Nat  BY <2>2
    <3> QED  BY <2>2, <3>1, <3>2
  <2>4. r = [lo |-> lo, hi |-> hi, cursor |-> lo - 1, done |-> FALSE]
    BY <2>1, <2>3 DEF IdRange
  <2>5. lo - 1 \in Nat  BY <2>3
  <2>6. r \in AnyRange  BY <2>4, <2>5 DEF AnyRange
  <2>7. r.lo = lo /\ r.hi = hi /\ r.cursor = lo - 1 /\ ~r.done  BY <2>4
  <2>8. n = 1 => (n - 1) * width = 0  OBVIOUS
  <2>9. n = 1 => hi = next  BY <2>3, <2>8
  <2>10. RangeInv(r) /\ r.cursor = r.lo - 1
    <3> HIDE DEF r
    <3> QED  BY <2>3, <2>6, <2>7 DEF RangeInv
  <2> QED  BY <2>3, <2>7, <2>9, <2>10
<1> QED  BY <1>1, <1>2

\* A stretch covered in part and the rest of it make one covered stretch.
LEMMA TilesJoin ==
  ASSUME NEW a, NEW b, NEW top, NEW middle, NEW bottom,
         Tiles(a, top, middle), Tiles(b, middle, bottom)
  PROVE  Tiles(a \o b, top, bottom)
<1>1. /\ a \in Seq(AnyRange) /\ b \in Seq(AnyRange)
      /\ Len(a) \in Nat /\ Len(b) \in Nat
  BY LenProperties DEF Tiles
<1>2. PICK c : c = a \o b  OBVIOUS
<1>3. /\ c \in Seq(AnyRange) /\ Len(c) = Len(a) + Len(b)
      /\ \A n \in 1..Len(a) : c[n] = a[n]
      /\ \A n \in (Len(a) + 1)..Len(c) : n - Len(a) \in 1..Len(b) /\ c[n] = b[n - Len(a)]
  BY <1>1, <1>2, ConcatProperties
<1>4. \A n \in 1..Len(b) : Len(a) + n \in (Len(a) + 1)..Len(c) /\ c[Len(a) + n] = b[n]
  <2> SUFFICES ASSUME NEW n \in 1..Len(b)
               PROVE  Len(a) + n \in (Len(a) + 1)..Len(c) /\ c[Len(a) + n] = b[n]
    OBVIOUS
  <2>1. Len(a) + n \in (Len(a) + 1)..Len(c) /\ (Len(a) + n) - Len(a) = n  BY <1>1, <1>3
  <2> QED  BY <1>3, <2>1
<1>5. /\ bottom \in Nat \ {0} /\ middle \in Nat \ {0} /\ top \in Nat
      /\ bottom <= middle /\ middle <= top
  BY DEF Tiles
<1>6. ASSUME NEW n \in 1..Len(a)
      PROVE  RangeInv(a[n]) /\ middle <= a[n].lo /\ a[n].hi <= top /\ a[n] \in AnyRange
  BY DEF Tiles, RangeInv
<1>7. ASSUME NEW n \in 1..Len(b)
      PROVE  RangeInv(b[n]) /\ bottom <= b[n].lo /\ b[n].hi <= middle /\ b[n] \in AnyRange
  BY DEF Tiles, RangeInv
<1>8. ASSUME NEW n \in 1..Len(c)
      PROVE  RangeInv(c[n]) /\ bottom <= c[n].lo /\ c[n].hi <= top
  <2>1. CASE n <= Len(a)
    <3>1. n \in 1..Len(a) /\ c[n] = a[n]  BY <1>1, <1>3, <2>1
    <3> QED  BY <1>5, <1>6, <3>1 DEF AnyRange
  <2>2. CASE n > Len(a)
    <3>1. n - Len(a) \in 1..Len(b) /\ c[n] = b[n - Len(a)]  BY <1>1, <1>3, <2>2
    <3> QED  BY <1>5, <1>7, <3>1 DEF AnyRange
  <2> QED  BY <1>1, <2>1, <2>2
<1>9. ASSUME NEW m \in 1..Len(c), NEW n \in 1..Len(c), m < n
      PROVE  c[n].hi <= c[m].lo
  <2>1. CASE n <= Len(a)
    <3>1. n \in 1..Len(a) /\ m \in 1..Len(a) /\ c[n] = a[n] /\ c[m] = a[m]
      BY <1>1, <1>3, <1>9, <2>1
    <3> QED  BY <1>9, <3>1 DEF Tiles
  <2>2. CASE n > Len(a) /\ m > Len(a)
    <3>1. /\ n - Len(a) \in 1..Len(b) /\ c[n] = b[n - Len(a)]
          /\ m - Len(a) \in 1..Len(b) /\ c[m] = b[m - Len(a)]
      <4>1. n \in (Len(a) + 1)..Len(c) /\ m \in (Len(a) + 1)..Len(c)  BY <1>1, <2>2
      <4> QED  BY <1>3, <4>1
    <3>2. m - Len(a) < n - Len(a)  BY <1>1, <1>9
    <3> QED  BY <3>1, <3>2 DEF Tiles
  <2>3. CASE n > Len(a) /\ m <= Len(a)
    <3>1. /\ n - Len(a) \in 1..Len(b) /\ c[n] = b[n - Len(a)]
          /\ m \in 1..Len(a) /\ c[m] = a[m]
      <4>1. n \in (Len(a) + 1)..Len(c) /\ m \in 1..Len(a)  BY <1>1, <2>3
      <4> QED  BY <1>3, <4>1
    <3>2. b[n - Len(a)].hi <= middle /\ b[n - Len(a)].hi \in Nat  BY <1>7, <3>1 DEF AnyRange
    <3>3. middle <= a[m].lo /\ a[m].lo \in Nat  BY <1>6, <3>1 DEF AnyRange
    <3> QED  BY <1>5, <3>1, <3>2, <3>3
  <2> QED  BY <1>1, <2>1, <2>2, <2>3
<1>10. ASSUME NEW i \in bottom..(top - 1)
       PROVE  \E n \in 1..Len(c) : Within(c[n], i)
  <2>1. CASE i < middle
    <3>1. i \in bottom..(middle - 1)  BY <1>5, <2>1
    <3>4. PICK n \in 1..Len(b) : Within(b[n], i)  BY <3>1 DEF Tiles
    <3>2. Len(a) + n \in 1..Len(c)  BY <1>1, <1>3
    <3>3. c[Len(a) + n] = b[n]  BY <1>4
    <3> QED  BY <3>2, <3>3, <3>4
  <2>2. CASE i >= middle
    <3>1. PICK n \in 1..Len(a) : Within(a[n], i)  BY <1>5, <2>2 DEF Tiles
    <3>2. n \in 1..Len(c)  BY <1>1, <1>3
    <3> QED  BY <1>3, <3>1, <3>2
  <2> QED  BY <1>5, <2>1, <2>2
<1>11. bottom <= top  BY <1>5
<1> HIDE DEF Tiles
<1>12. Tiles(c, top, bottom)  BY <1>3, <1>5, <1>8, <1>9, <1>10, <1>11 DEF Tiles
<1> QED  BY <1>2, <1>12

CutBelow(next, width, k) == SubSeq(PlanRanges(next, width), 1, k)

\* The first ranges of a plan cover the stretch down to the last of them.
LEMMA PlanTiles ==
  ASSUME NEW next \in Nat \ {0}, NEW width \in Nat \ {0},
         NEW k \in 1..CeilDiv(next - 1, width)
  PROVE  LET plan == CutBelow(next, width, k) IN
         /\ Tiles(plan, next, plan[k].lo) /\ Len(plan) = k /\ plan[k].lo < next
         /\ \A n \in 1..k : plan[n].cursor = plan[n].lo - 1 /\ ~plan[n].done
<1>12. PICK plan : plan = CutBelow(next, width, k)  OBVIOUS
<1>1. PICK q \in Nat : q = CeilDiv(next - 1, width)  BY PlanOfRanges
<1>2. k \in Nat /\ k >= 1 /\ k <= q  BY <1>1
<1> DEFINE s == PlanRanges(next, width)
<1>3. \A n \in 1..q :
        /\ RangeInv(s[n]) /\ s[n].cursor = s[n].lo - 1 /\ ~s[n].done
        /\ s[n].lo = AtLeast(1, next - n * width)
        /\ s[n].hi = next - (n - 1) * width /\ s[n].hi <= next
        /\ n = 1 => s[n].hi = next
  BY <1>1, PlanOfRanges
<1> HIDE DEF s
<1>4. /\ plan \in Seq(AnyRange) /\ Len(plan) = k
      /\ \A n \in 1..k : n \in 1..q /\ plan[n] = s[n]
  <2>1. \A n \in 1..k : n \in 1..q /\ s[n] \in AnyRange  BY <1>2, <1>3 DEF RangeInv
  <2>2. /\ SubSeq(s, 1, k) \in Seq(AnyRange) /\ Len(SubSeq(s, 1, k)) = k
        /\ \A n \in 1..k : SubSeq(s, 1, k)[n] = s[n]
    BY <1>2, <2>1, SubSeqProperties
  <2> QED  BY <1>12, <2>1, <2>2 DEF s, CutBelow
<1>5. \A n \in 1..k :
        /\ RangeInv(plan[n]) /\ plan[n] \in AnyRange
        /\ plan[n].cursor = plan[n].lo - 1 /\ ~plan[n].done
        /\ plan[n].lo = AtLeast(1, next - n * width)
        /\ plan[n].hi = next - (n - 1) * width /\ plan[n].hi <= next
        /\ n = 1 => plan[n].hi = next
  BY <1>3, <1>4 DEF RangeInv
<1>6. \A n \in 1..k : plan[n].lo \in Nat \ {0} /\ plan[n].hi \in Nat
                      /\ plan[n].lo < plan[n].hi
  BY <1>5 DEF RangeInv, AnyRange
<1>7. ASSUME NEW m \in 1..k, NEW n \in 1..k, m < n
      PROVE  plan[n].hi <= plan[m].lo
  <2>1. PICK a \in Nat, b \in Nat : a = m * width /\ b = (n - 1) * width /\ a <= b
    <3>1. m \in Nat /\ n - 1 \in Nat /\ m <= n - 1  BY <1>2, <1>7
    <3>2. m * width \in Nat /\ (n - 1) * width \in Nat  BY <3>1
    <3>3. m * width <= (n - 1) * width  BY <3>1
    <3> QED  BY <3>2, <3>3
  <2>2. plan[m].lo = AtLeast(1, next - a) /\ plan[n].hi = next - b  BY <1>5, <2>1
  <2> QED  BY <2>1, <2>2 DEF AtLeast
<1>8. \A n \in 1..k : plan[k].lo <= plan[n].lo
  <2> SUFFICES ASSUME NEW n \in 1..k PROVE plan[k].lo <= plan[n].lo  OBVIOUS
  <2>1. k \in 1..k  BY <1>2
  <2>2. CASE n = k  BY <1>6, <2>2
  <2>3. CASE n < k
    <3>1. plan[k].hi <= plan[n].lo  BY <1>7, <2>1, <2>3
    <3> QED  BY <1>6, <2>1, <3>1
  <2> QED  BY <1>2, <2>2, <2>3
<1>9. ASSUME NEW i \in plan[k].lo..(next - 1)
      PROVE  \E n \in 1..k : Within(plan[n], i)
  <2> DEFINE S == {n \in 1..k : plan[n].lo <= i}
  <2>1. k \in 1..k /\ i \in Nat /\ i >= 1 /\ i < next /\ plan[k].lo <= i  BY <1>2, <1>6
  <2>2. PICK n \in S : \A m \in S : n <= m
    <3>1. k \in S  BY <2>1
    <3>2. S \in SUBSET Nat  OBVIOUS
    <3> HIDE DEF S
    <3> QED  BY <3>1, <3>2, SomeLeast
  <2>3. n \in 1..k /\ plan[n].lo <= i  BY <2>2
  <2>4. i < plan[n].hi
    <3>1. CASE n = 1  BY <1>5, <2>1, <2>3, <3>1
    <3>2. CASE n # 1
      <4>1. n - 1 \in 1..k  BY <2>3, <3>2
      <4>2. n - 1 \notin S  BY <2>2, <2>3
      <4>3. ~ (plan[n - 1].lo <= i)  BY <4>1, <4>2
      <4> HIDE DEF S
      <4>4. PICK b \in Nat : b = (n - 1) * width
        <5>1. n - 1 \in Nat  BY <4>1
        <5> QED  BY <5>1
      <4>5. plan[n - 1].lo = AtLeast(1, next - b) /\ plan[n].hi = next - b
        BY <1>5, <2>3, <4>1, <4>4
      <4>6. PICK l \in Nat : l = plan[n - 1].lo  BY <1>6, <4>1
      <4>7. l \in {1, next - b}  BY <4>4, <4>5, <4>6 DEF AtLeast
      <4>8. l > i
        <5>1. ~ (l <= i)  BY <4>3, <4>6
        <5>2. i \in Int  BY <2>1
        <5>3. l \in Int  OBVIOUS
        <5> QED  BY <5>1, <5>2, <5>3
      <4>9. next - b > i  BY <2>1, <4>4, <4>7, <4>8
      <4> QED  BY <4>5, <4>9
    <3> QED  BY <3>1, <3>2
  <2> QED  BY <2>3, <2>4 DEF Within
<1>10. k \in 1..k /\ plan[k].lo \in Nat \ {0} /\ plan[k].lo < next
  <2>1. k \in 1..k  BY <1>2
  <2> QED  BY <1>5, <1>6, <2>1
<1>11. Tiles(plan, next, plan[k].lo)
  BY <1>4, <1>5, <1>7, <1>8, <1>9, <1>10 DEF Tiles
<1> QED  BY <1>4, <1>5, <1>10, <1>11, <1>12

LEMMA NothingOpen == \A top, bottom : Tiles(<<>>, top, bottom) => top = bottom
<1> SUFFICES ASSUME NEW top, NEW bottom, Tiles(<<>>, top, bottom) PROVE top = bottom
  OBVIOUS
<1>1. bottom \in Nat /\ top \in Nat /\ bottom <= top  BY DEF Tiles
<1>2. bottom \notin bottom..(top - 1)
  <2>1. Len(<<>>) = 0  OBVIOUS
  <2> QED  BY <2>1 DEF Tiles
<1> QED  BY <1>1, <1>2

\* The end of what is covered, as WalkRanges takes it from the last range.
End(open, next) == IF open = <<>> THEN next ELSE AtMost(next, open[Len(open)].lo)

LEMMA EndIsNext ==
  ASSUME NEW open, NEW top, NEW next, Tiles(open, top, next)
  PROVE  End(open, next) = next
<1>1. CASE open = <<>>  BY <1>1 DEF End
<1>2. CASE open # <<>>
  <2>1. open \in Seq(AnyRange) /\ next \in Nat  BY DEF Tiles
  <2>2. Len(open) \in 1..Len(open)  BY <1>2, <2>1, EmptySeq
  <2>3. next <= open[Len(open)].lo /\ open[Len(open)].lo \in Nat
    BY <2>2 DEF Tiles, RangeInv, AnyRange
  <2> QED  BY <1>2, <2>1, <2>3 DEF End, AtMost
<1> QED  BY <1>1, <1>2

\* New ranges are unread, and are cut right below those that are open.
PlannedSo(planned, open, top, next) ==
  /\ Tiles(planned, top, End(planned, next)) /\ End(planned, next) <= next
  /\ \A n \in 1..Len(planned), i \in Ids :
       ReadTo(planned[n], i) => n \in 1..Len(open) /\ planned[n] = open[n]

LEMMA PlannedTiles ==
  ASSUME NEW open, NEW top, NEW next, NEW width \in Nat \ {0}, Tiles(open, top, next)
  PROVE  PlannedSo(Planned(open, next, width), open, top, next)
<1> USE DEF PlannedSo
<1>1. /\ open \in Seq(AnyRange) /\ Len(open) \in Nat
      /\ next \in Nat \ {0} /\ top \in Nat /\ next <= top
  BY LenProperties DEF Tiles
<1>2. PICK q \in Nat : q = CeilDiv(next - 1, width)  BY <1>1, PlanOfRanges
<1>3. PICK k \in 0..q : k = AtMost(AtLeast(0, Commands - Len(open)), q)
  BY <1>1, <1>2, ParametersAreNatural DEF AtMost, AtLeast
<1>4. PICK plan : plan = CutBelow(next, width, k)  OBVIOUS
<1>5. PICK planned : planned = Planned(open, next, width)  OBVIOUS
<1>6. planned = open \o plan  BY <1>2, <1>3, <1>4, <1>5 DEF Planned, CutBelow
<1>7. CASE k = 0
  <2>1. plan = <<>>  BY <1>4, <1>7, SubSeqEmpty DEF CutBelow
  <2>2. planned = open  BY <1>1, <1>6, <2>1, ConcatEmptySeq
  <2>3. End(planned, next) = next  BY <2>2, EndIsNext
  <2> QED  BY <1>1, <1>5, <2>2, <2>3
<1>8. CASE k # 0
  <2>1. k \in 1..q  BY <1>8
  <2>2. /\ Tiles(plan, next, plan[k].lo) /\ Len(plan) = k /\ plan[k].lo < next
        /\ \A n \in 1..k : plan[n].cursor = plan[n].lo - 1 /\ ~plan[n].done
    <3>1. k \in 1..CeilDiv(next - 1, width)  BY <1>2, <2>1
    <3>2. next \in Nat \ {0}  BY <1>1
    <3> QED  BY <1>4, <3>1, <3>2, PlanTiles
  <2>3. Tiles(planned, top, plan[k].lo)  BY <1>6, <2>2, TilesJoin
  <2>4. plan \in Seq(AnyRange) /\ plan[k].lo \in Nat  BY <2>2 DEF Tiles
  <2>5. /\ Len(planned) = Len(open) + k
        /\ \A n \in 1..Len(planned) :
             planned[n] = IF n <= Len(open) THEN open[n] ELSE plan[n - Len(open)]
    <3>1. /\ Len(open \o plan) = Len(open) + Len(plan)
          /\ \A n \in 1..(Len(open) + Len(plan)) : (open \o plan)[n] =
               IF n <= Len(open) THEN open[n] ELSE plan[n - Len(open)]
      BY <1>1, <2>4, ConcatProperties
    <3> QED  BY <1>6, <2>2, <3>1
  <2>6. End(planned, next) = plan[k].lo
    <3>1. Len(planned) \in 1..Len(planned) /\ ~(Len(planned) <= Len(open))
          /\ Len(planned) - Len(open) = k
      BY <1>1, <2>1, <2>5
    <3>2. planned[Len(planned)] = plan[k]  BY <2>5, <3>1
    <3>3. planned # <<>>  BY <3>1
    <3> QED  BY <1>1, <2>2, <2>4, <3>2, <3>3 DEF End, AtMost
  <2>7. ASSUME NEW n \in 1..Len(planned), NEW i \in Ids, ReadTo(planned[n], i)
        PROVE  n \in 1..Len(open) /\ planned[n] = open[n]
    <3>1. CASE n <= Len(open)  BY <1>1, <2>5, <3>1
    <3>2. CASE n > Len(open)
      <4>1. n - Len(open) \in 1..k /\ planned[n] = plan[n - Len(open)]
        BY <1>1, <2>1, <2>5, <3>2
      <4>2. PICK r \in AnyRange : r = planned[n] /\ r.cursor = r.lo - 1 /\ ~r.done
        BY <2>2, <4>1 DEF Tiles, RangeInv
      <4>3. ~ReadTo(r, i)  BY <4>2, MaxIdIsNatural DEF ReadTo, Within, AnyRange, Ids
      <4> QED  BY <2>7, <4>2, <4>3
    <3> QED  BY <1>1, <2>5, <3>1, <3>2
  <2> QED  BY <1>1, <1>5, <2>2, <2>3, <2>4, <2>6, <2>7
<1> QED  BY <1>3, <1>7, <1>8

-----------------------------------------------------------------------------
(* One range of a batch. *)

\* What a range has read after a batch it had read before, or it is on the
\* page.  A command that failed leaves the range alone.
LEMMA AdvancedReads ==
  ASSUME NEW r, RangeInv(r), NEW failed \in BOOLEAN
  PROVE  LET a == Advanced(r, failed) IN
         /\ RangeInv(a) /\ a.lo = r.lo /\ a.hi = r.hi
         /\ \A i \in Visible : ReadTo(a, i) =>
              ReadTo(r, i) \/ (~failed /\ ~r.done /\ i \in Page(r.cursor, r.hi))
<1>1. CASE failed \/ r.done  BY <1>1 DEF Advanced
<1>2. CASE ~failed /\ ~r.done
  <2>1. PICK S \in SUBSET Ids :
          S = {i \in Visible : r.cursor < i /\ i < r.hi} 
    BY DEF Visible, Existing
  <2>2. PICK page : page = Page(r.cursor, r.hi) /\ page = Lowest(S, PageSize)
    BY <2>1 DEF Page
  <2>3. page \subseteq S /\ \A x \in page, y \in S : y <= x => y \in page
    BY <2>2, LowestIsLow, ParametersAreNatural
  <2>4. Cardinality(page) < PageSize => page = S
    BY <2>2, ShortPageIsAll, ParametersAreNatural
  <2>5. PICK last : last = IF page = {} THEN r.cursor ELSE Max(page)  OBVIOUS
  <2>6. r \in AnyRange /\ r.lo < r.hi /\ r.lo <= r.cursor + 1 /\ r.cursor + 1 <= r.hi
    BY DEF RangeInv
  <2>7. \A i \in S : i \in Nat /\ r.cursor < i /\ i < r.hi  BY <2>1 DEF Ids
  <2>8. /\ last \in Nat /\ r.cursor <= last /\ last < r.hi
        /\ page # {} => last \in page
        /\ page = {} => last = r.cursor
    <3>1. CASE page = {}  BY <2>5, <2>6, <3>1 DEF AnyRange
    <3>2. CASE page # {}
      <4>1. page \in SUBSET Ids  BY <2>1, <2>3
      <4>2. last \in page  BY <2>5, <3>2, <4>1, MaxIsGreatest
      <4> QED  BY <2>3, <2>6, <2>7, <3>2, <4>2 DEF AnyRange
    <3> QED  BY <3>1, <3>2
  <2>9. PICK done \in BOOLEAN : done = (Cardinality(page) < PageSize \/ last >= r.hi - 1)
    OBVIOUS
  <2>10. PICK a : a = Advanced(r, failed)  OBVIOUS
  <2>11. a = [r EXCEPT !.cursor = last, !.done = done]
    BY <1>2, <2>2, <2>5, <2>9, <2>10 DEF Advanced
  <2>12. /\ a \in AnyRange /\ a.lo = r.lo /\ a.hi = r.hi /\ a.cursor = last /\ a.done = done
    BY <2>6, <2>8, <2>11 DEF AnyRange
  <2>13. RangeInv(a)  BY <2>6, <2>8, <2>12 DEF RangeInv, AnyRange
  <2>14. ASSUME NEW i \in Visible, ReadTo(a, i), ~ReadTo(r, i)
         PROVE  i \in page
    <3>1. i \in Nat  BY DEF Visible, Existing, Ids
    <3>2. Within(r, i) /\ (done \/ i <= last)  BY <2>12, <2>14 DEF ReadTo, Within
    <3>3. r.cursor < i /\ i < r.hi
      BY <2>6, <2>14, <3>1, <3>2 DEF ReadTo, Within, AnyRange
    <3>4. i \in S  BY <2>1, <3>3
    <3>5. CASE Cardinality(page) < PageSize  BY <2>4, <3>4, <3>5
    <3>6. CASE i <= last
      BY <2>3, <2>6, <2>8, <3>1, <3>3, <3>4, <3>6 DEF AnyRange
    <3>7. CASE last >= r.hi - 1
      <4>1. i <= last  BY <2>6, <2>8, <3>1, <3>3, <3>7 DEF AnyRange
      <4> QED  BY <3>6, <4>1
    <3> QED  BY <2>9, <3>2, <3>5, <3>6, <3>7
  <2> QED  BY <1>2, <2>2, <2>10, <2>12, <2>13, <2>14
<1> QED  BY <1>1, <1>2

\* The stretch above next is read down to covered, and in part of each range.
Reads(covered, open, i) ==
  covered <= i \/ \E n \in 1..Len(open) : ReadTo(open[n], i)

\* The bounds are what matters to the stretch, not the cursors.
LEMMA SameTiles ==
  ASSUME NEW open, NEW top, NEW bottom, Tiles(open, top, bottom), NEW moved,
         moved = [n \in 1..Len(open) |-> moved[n]],
         \A n \in 1..Len(open) :
           RangeInv(moved[n]) /\ moved[n].lo = open[n].lo /\ moved[n].hi = open[n].hi
  PROVE  Tiles(moved, top, bottom) /\ Len(moved) = Len(open)
<1>1. open \in Seq(AnyRange) /\ Len(open) \in Nat  BY LenProperties DEF Tiles
<1>2. \A n \in 1..Len(open) : moved[n] \in AnyRange  BY DEF RangeInv
<1>3. moved \in [1..Len(open) -> AnyRange]  BY <1>2
<1>4. moved \in Seq(AnyRange) /\ Len(moved) = Len(open)  BY <1>1, <1>3
<1>5. \A i \in bottom..(top - 1) : \E n \in 1..Len(open) : Within(moved[n], i)
  BY DEF Tiles, Within
<1> QED  BY <1>4, <1>5 DEF Tiles

\* Only ranges that are done are settled, so what they cover has been read.
LEMMA SettledTiles ==
  ASSUME NEW open, NEW top, NEW bottom, Tiles(open, top, bottom)
  PROVE  LET left == Settled(open)
             popped == Len(open) - Len(left)
             covered == IF popped = 0 THEN top ELSE open[popped].lo IN
         /\ Tiles(left, covered, bottom)
         /\ \A i \in Ids : Reads(covered, left, i) => Reads(top, open, i)
<1>1. /\ open \in Seq(AnyRange) /\ Len(open) \in Nat
      /\ bottom \in Nat \ {0} /\ top \in Nat /\ bottom <= top
  BY LenProperties DEF Tiles
<1> DEFINE front == {n \in 1..Len(open) : \A m \in 1..n : open[m].done}
<1>2. PICK p \in 0..Len(open) :
        /\ p = Greatest(front)
        /\ \A n \in 1..p : open[n].done
  <2>1. front \in SUBSET (1..Len(open))  OBVIOUS
  <2>2. PICK p \in 0..Len(open) : p = Greatest(front) /\ (p = 0 \/ p \in front)
    <3> HIDE DEF front
    <3> QED  BY <1>1, <2>1, GreatestUpTo
  <2>3. \A n \in 1..p : open[n].done
    <3>1. CASE p = 0  BY <3>1
    <3>2. CASE p \in front  BY <3>2
    <3> QED  BY <2>2, <3>1, <3>2
  <2> QED  BY <2>2, <2>3
<1>3. PICK left : left = Settled(open)  OBVIOUS
<1>4. left = SubSeq(open, p + 1, Len(open))  BY <1>2, <1>3 DEF Settled
<1>5. /\ left \in Seq(AnyRange) /\ Len(left) = Len(open) - p
      /\ \A n \in 1..Len(left) : p + n \in 1..Len(open) /\ left[n] = open[p + n]
  <2>1. \A n \in (p + 1)..Len(open) : open[n] \in AnyRange  BY <1>1, ElementOfSeq
  <2>2. /\ left \in Seq(AnyRange)
        /\ Len(left) = IF p + 1 <= Len(open) THEN Len(open) - (p + 1) + 1 ELSE 0
        /\ \A n \in 1..(Len(open) - (p + 1) + 1) : left[n] = open[(p + 1) + n - 1]
    BY <1>1, <1>4, <2>1, SubSeqProperties
  <2>3. Len(left) = Len(open) - p  BY <1>1, <2>2
  <2>4. ASSUME NEW n \in 1..Len(left) PROVE p + n \in 1..Len(open) /\ left[n] = open[p + n]
    <3>1. p + n \in 1..Len(open) /\ n \in 1..(Len(open) - (p + 1) + 1)
          /\ (p + 1) + n - 1 = p + n
      BY <1>1, <2>3
    <3> QED  BY <2>2, <3>1
  <2> QED  BY <2>2, <2>3, <2>4
<1>6. PICK covered : covered = IF p = 0 THEN top ELSE open[p].lo  OBVIOUS
<1> HIDE DEF front
<1>7. \A n \in 1..Len(open) :
        /\ open[n].lo \in Nat \ {0} /\ open[n].hi \in Nat /\ open[n].lo < open[n].hi
        /\ bottom <= open[n].lo /\ open[n].hi <= top /\ RangeInv(open[n])
  BY DEF Tiles, RangeInv, AnyRange
<1>8. covered \in Nat /\ bottom <= covered /\ covered <= top
  <2>1. CASE p = 0  BY <1>1, <1>6, <2>1
  <2>2. CASE p # 0
    <3>1. p \in 1..Len(open)  BY <2>2
    <3>2. covered = open[p].lo  BY <1>6, <2>2
    <3> QED  BY <1>1, <1>7, <3>1, <3>2
  <2> QED  BY <2>1, <2>2
<1>9. ASSUME NEW n \in 1..Len(left)
      PROVE  RangeInv(left[n]) /\ bottom <= left[n].lo /\ left[n].hi <= covered
  <2>1. p + n \in 1..Len(open) /\ left[n] = open[p + n]  BY <1>5
  <2>2. RangeInv(left[n]) /\ bottom <= left[n].lo /\ left[n].hi <= top  BY <1>7, <2>1
  <2>3. CASE p = 0  BY <1>6, <2>2, <2>3
  <2>4. CASE p # 0
    <3>1. p \in 1..Len(open) /\ p < p + n /\ covered = open[p].lo  BY <1>6, <2>4
    <3> QED  BY <2>1, <2>2, <3>1 DEF Tiles
  <2> QED  BY <2>3, <2>4
<1>10. ASSUME NEW m \in 1..Len(left), NEW n \in 1..Len(left), m < n
       PROVE  left[n].hi <= left[m].lo
  <2>1. /\ p + n \in 1..Len(open) /\ left[n] = open[p + n]
        /\ p + m \in 1..Len(open) /\ left[m] = open[p + m]
    BY <1>5
  <2>2. p + m < p + n  BY <1>10
  <2> QED  BY <2>1, <2>2 DEF Tiles
<1>11. ASSUME NEW i \in bottom..(covered - 1)
       PROVE  \E n \in 1..Len(left) : Within(left[n], i)
  <2>1. i \in bottom..(top - 1) /\ i < covered /\ i \in Nat  BY <1>1, <1>8
  <2>2. PICK n \in 1..Len(open) : Within(open[n], i)  BY <2>1 DEF Tiles
  <2>3. ~(n <= p)
    <3> SUFFICES ASSUME n <= p PROVE FALSE  OBVIOUS
    <3>1. p \in 1..Len(open) /\ covered = open[p].lo  BY <1>6
    <3>2. open[p].lo <= open[n].lo
      <4>1. CASE n = p  BY <1>7, <3>1, <4>1
      <4>2. CASE n < p
        <5>1. open[p].hi <= open[n].lo  BY <3>1, <4>2 DEF Tiles
        <5> QED  BY <1>7, <3>1, <5>1
      <4> QED  BY <4>1, <4>2
    <3> QED  BY <1>7, <2>1, <2>2, <3>1, <3>2 DEF Within
  <2>4. n - p \in 1..Len(left) /\ p + (n - p) = n  BY <1>1, <1>5, <2>3
  <2>5. left[n - p] = open[n]  BY <1>5, <2>4
  <2> QED  BY <2>2, <2>4, <2>5
<1>12. Tiles(left, covered, bottom)
  BY <1>1, <1>5, <1>8, <1>9, <1>10, <1>11 DEF Tiles
<1>13. ASSUME NEW i \in Ids, Reads(covered, left, i) PROVE Reads(top, open, i)
  <2>1. i \in Nat  BY DEF Ids
  <2>2. CASE top <= i  BY <2>2 DEF Reads
  <2>3. CASE covered <= i /\ i < top
    <3>1. p # 0  BY <1>6, <1>8, <2>1, <2>3
    <3>2. p \in 1..Len(open) /\ covered = open[p].lo  BY <1>6, <3>1
    <3>3. i \in bottom..(top - 1)  BY <1>1, <1>8, <2>1, <2>3
    <3>4. PICK n \in 1..Len(open) : Within(open[n], i)  BY <3>3 DEF Tiles
    <3>5. n <= p
      <4> SUFFICES ASSUME p < n PROVE FALSE  OBVIOUS
      <4>1. open[n].hi <= open[p].lo  BY <3>2 DEF Tiles
      <4> QED  BY <1>7, <2>1, <2>3, <3>2, <3>4, <4>1 DEF Within
    <3>6. open[n].done  BY <1>2, <3>5
    <3> QED  BY <3>4, <3>6 DEF Reads, ReadTo
  <2>4. CASE \E n \in 1..Len(left) : ReadTo(left[n], i)
    BY <1>5, <2>4 DEF Reads
  <2> QED  BY <1>1, <1>8, <1>13, <2>1, <2>2, <2>3, <2>4 DEF Reads
<1>14. Len(open) - Len(left) = p  BY <1>1, <1>5
<1> QED  BY <1>3, <1>6, <1>12, <1>13, <1>14

-----------------------------------------------------------------------------
(* The walk. *)

AnyWalk ==
  [phase : {"backfill", "done", "patrol", "backfill parked", "patrol parked"},
   high : Nat \cup {None}, width : Nat, next : Nat, covered : Nat, open : Seq(AnyRange),
   legacy : BOOLEAN]

\* What is open tiles the stretch between what is covered and what is to come.
WalkInv ==
  /\ walk \in AnyWalk
  /\ walk.high = None => walk.open = <<>> /\ walk.phase \in {"backfill", "done"}
  /\ walk.high # None => /\ walk.width > 0 /\ walk.phase # "done"
                         /\ Tiles(walk.open, walk.covered, walk.next)

LEMMA PlannedWalk ==
  ASSUME WalkInv, walk.high # None
  PROVE  LET planned == Planned(walk.open, walk.next, walk.width) IN
         /\ Tiles(planned, walk.covered, End(planned, walk.next))
         /\ End(planned, walk.next) <= walk.next
         /\ \A n \in 1..Len(planned), i \in Ids :
              ReadTo(planned[n], i) => n \in 1..Len(walk.open) /\ planned[n] = walk.open[n]
<1>1. walk \in AnyWalk /\ Tiles(walk.open, walk.covered, walk.next) /\ walk.width > 0
  BY DEF WalkInv
<1>2. walk.width \in Nat  BY <1>1 DEF AnyWalk
<1>3. walk.width \in Nat \ {0}  BY <1>1, <1>2
<1>4. PICK open, top, next, width :
        open = walk.open /\ top = walk.covered /\ next = walk.next /\ width = walk.width
  OBVIOUS
<1>5. width \in Nat \ {0} /\ Tiles(open, top, next)  BY <1>1, <1>3, <1>4
<1>6. PlannedSo(Planned(open, next, width), open, top, next)  BY <1>5, PlannedTiles
<1> QED  BY <1>4, <1>6 DEF PlannedSo

\* One batch: the walk goes down, and what it has read now it had read before,
\* or it is on the pages that are stored in the same step.
LEMMA BatchReads ==
  ASSUME WalkInv, WalkRanges
  PROVE  \E pages \in SUBSET Visible, next \in Nat \ {0}, left \in Seq(AnyRange),
           covered \in Nat :
           /\ row' = Stored(pages)
           /\ WalkBecomes([walk EXCEPT !.next = next, !.open = left, !.covered = covered])
           /\ Tiles(left, covered, next) /\ next <= walk.next
           /\ \A i \in Visible : Reads(covered, left, i) =>
                i \in pages \/ Reads(walk.covered, walk.open, i)
<1>1. PICK open \in {Planned(walk.open, walk.next, walk.width)} :
      \E failed \in SUBSET {n \in 1..Len(open) : ~open[n].done} :
      \E answered \in {[n \in 1..Len(open) |-> Advanced(open[n], n \in failed)]} :
         LET left == Settled(answered)
             popped == Len(answered) - Len(left) IN
         /\ row' = Stored(UNION {Page(open[n].cursor, open[n].hi) :
                                   n \in {m \in 1..Len(open) : ~open[m].done} \ failed})
         /\ WalkBecomes([walk EXCEPT
              !.next = IF open = <<>> THEN walk.next ELSE AtMost(walk.next, open[Len(open)].lo),
              !.open = left,
              !.covered = IF popped = 0 THEN @ ELSE answered[popped].lo])
  BY Zenon DEF WalkRanges
<1>2. PICK failed, answered, pages :
        /\ answered = [n \in 1..Len(open) |-> Advanced(open[n], n \in failed)]
        /\ pages = UNION {Page(open[n].cursor, open[n].hi) :
                            n \in {m \in 1..Len(open) : ~open[m].done} \ failed}
        /\ row' = Stored(pages)
        /\ WalkBecomes([walk EXCEPT
             !.next = IF open = <<>> THEN walk.next ELSE AtMost(walk.next, open[Len(open)].lo),
             !.open = Settled(answered),
             !.covered = IF Len(answered) - Len(Settled(answered)) = 0 THEN walk.covered
                         ELSE answered[Len(answered) - Len(Settled(answered))].lo])
  BY <1>1, Zenon
<1>3. walk.high # None  BY Zenon DEF WalkRanges
<1> DEFINE next == End(open, walk.next)
<1>4. /\ Tiles(open, walk.covered, next) /\ next <= walk.next
      /\ \A n \in 1..Len(open), i \in Ids :
           ReadTo(open[n], i) => n \in 1..Len(walk.open) /\ open[n] = walk.open[n]
  <2>1. open = Planned(walk.open, walk.next, walk.width)  OBVIOUS
  <2> HIDE DEF next
  <2>2. LET planned == Planned(walk.open, walk.next, walk.width) IN
         /\ Tiles(planned, walk.covered, End(planned, walk.next))
         /\ End(planned, walk.next) <= walk.next
         /\ \A n \in 1..Len(planned), i \in Ids :
              ReadTo(planned[n], i) => n \in 1..Len(walk.open) /\ planned[n] = walk.open[n]
    BY <1>3, PlannedWalk
  <2> QED  BY <2>1, <2>2 DEF next
<1>5. \A n \in 1..Len(open) :
        /\ RangeInv(answered[n])
        /\ answered[n].lo = open[n].lo /\ answered[n].hi = open[n].hi
        /\ \A i \in Visible : ReadTo(answered[n], i) => ReadTo(open[n], i) \/ i \in pages
  <2> SUFFICES ASSUME NEW n \in 1..Len(open)
               PROVE  /\ RangeInv(answered[n])
                      /\ answered[n].lo = open[n].lo /\ answered[n].hi = open[n].hi
                      /\ \A i \in Visible :
                           ReadTo(answered[n], i) => ReadTo(open[n], i) \/ i \in pages
    OBVIOUS
  <2>1. RangeInv(open[n])  BY <1>4 DEF Tiles
  <2>2. PICK f \in BOOLEAN : f = (n \in failed)
    <3>1. (n \in failed) \in BOOLEAN  OBVIOUS
    <3> QED  BY <3>1, Zenon
  <2>3. answered[n] = Advanced(open[n], f)  BY <1>2, <2>2
  <2>4. /\ RangeInv(answered[n])
        /\ answered[n].lo = open[n].lo /\ answered[n].hi = open[n].hi
        /\ \A i \in Visible : ReadTo(answered[n], i) =>
             ReadTo(open[n], i)
             \/ (~f /\ ~open[n].done /\ i \in Page(open[n].cursor, open[n].hi))
    BY <2>1, <2>3, AdvancedReads
  <2>5. ~f /\ ~open[n].done => Page(open[n].cursor, open[n].hi) \subseteq pages
    BY <1>2, <2>2
  <2> QED  BY <2>4, <2>5
<1>6. Tiles(answered, walk.covered, next) /\ Len(answered) = Len(open)
  <2>1. answered = [n \in 1..Len(open) |-> answered[n]]  BY <1>2
  <2> HIDE DEF next
  <2> QED  BY <1>4, <1>5, <2>1, SameTiles
<1>7. PICK left, covered :
        /\ left = Settled(answered)
        /\ covered = IF Len(answered) - Len(left) = 0 THEN walk.covered
                     ELSE answered[Len(answered) - Len(left)].lo
        /\ Tiles(left, covered, next)
        /\ \A i \in Ids : Reads(covered, left, i) => Reads(walk.covered, answered, i)
  <2> HIDE DEF next
  <2> QED  BY <1>6, SettledTiles
<1>8. next \in Nat \ {0} /\ left \in Seq(AnyRange) /\ covered \in Nat
  <2> HIDE DEF next
  <2> QED  BY <1>7 DEF Tiles
<1>9. WalkBecomes([walk EXCEPT !.next = next, !.open = left, !.covered = covered])
  BY <1>2, <1>7 DEF End
<1>10. pages \in SUBSET Visible  BY <1>2 DEF Page, Lowest
<1>11. ASSUME NEW i \in Visible, Reads(covered, left, i)
       PROVE  i \in pages \/ Reads(walk.covered, walk.open, i)
  <2>1. i \in Ids  BY DEF Visible, Existing
  <2>2. Reads(walk.covered, answered, i)  BY <1>7, <1>11, <2>1
  <2>3. CASE walk.covered <= i  BY <2>3 DEF Reads
  <2>4. CASE \E n \in 1..Len(open) : ReadTo(answered[n], i)
    <3>1. PICK n \in 1..Len(open) : ReadTo(answered[n], i)  BY <2>4
    <3>2. CASE i \in pages  BY <3>2
    <3>3. CASE ReadTo(open[n], i)
      <4>1. n \in 1..Len(walk.open) /\ ReadTo(walk.open[n], i)  BY <1>4, <2>1, <3>3
      <4> QED  BY <4>1 DEF Reads
    <3> QED  BY <1>5, <3>1, <3>2, <3>3
  <2> QED  BY <1>6, <2>2, <2>3, <2>4 DEF Reads
<1> HIDE DEF next
<1> USE <1>8, <1>10
<1> WITNESS pages \in SUBSET Visible, next \in Nat \ {0}, left \in Seq(AnyRange),
            covered \in Nat
<1> QED  BY <1>2, <1>4, <1>7, <1>9, <1>11

OpenOwes(next, open, i) ==
  i < next \/ \E n \in 1..Len(open) : ~open[n].done /\ open[n].cursor < i /\ i < open[n].hi

\* Every record of the stretch is either read or still to come, and never both.
LEMMA ReadOrToCome ==
  ASSUME NEW open, NEW covered, NEW next, Tiles(open, covered, next), NEW i \in Ids
  PROVE  OpenOwes(next, open, i) <=> ~Reads(covered, open, i)
<1>1. i \in Nat /\ next \in Nat /\ covered \in Nat /\ next <= covered
  BY DEF Tiles, Ids
<1>2. \A n \in 1..Len(open) :
        /\ open[n] \in AnyRange /\ open[n].lo < open[n].hi
        /\ open[n].lo <= open[n].cursor + 1 /\ open[n].cursor + 1 <= open[n].hi
        /\ open[n].lo \in Nat /\ open[n].hi \in Nat /\ open[n].cursor \in Nat
        /\ open[n].done \in BOOLEAN
        /\ next <= open[n].lo /\ open[n].hi <= covered
  BY DEF Tiles, RangeInv, AnyRange
<1>3. CASE i < next
  <2>1. OpenOwes(next, open, i)  BY <1>3 DEF OpenOwes
  <2>2. ~Reads(covered, open, i)  BY <1>1, <1>2, <1>3 DEF Reads, ReadTo, Within
  <2> QED  BY <2>1, <2>2
<1>4. CASE covered <= i
  <2>1. Reads(covered, open, i)  BY <1>4 DEF Reads
  <2>2. ~OpenOwes(next, open, i)  BY <1>1, <1>2, <1>4 DEF OpenOwes
  <2> QED  BY <2>1, <2>2
<1>5. CASE next <= i /\ i < covered
  <2>1. i \in next..(covered - 1)  BY <1>1, <1>5
  <2>2. PICK n \in 1..Len(open) : Within(open[n], i)  BY <2>1 DEF Tiles
  <2>3. \A m \in 1..Len(open) : open[m].lo <= i /\ i < open[m].hi => m = n
    <3> SUFFICES ASSUME NEW m \in 1..Len(open), open[m].lo <= i, i < open[m].hi, m # n
                 PROVE  FALSE
      OBVIOUS
    <3>1. CASE m < n
      <4>1. open[n].hi <= open[m].lo  BY <3>1 DEF Tiles
      <4> QED  BY <1>1, <1>2, <2>2, <4>1 DEF Within
    <3>2. CASE n < m
      <4>1. open[m].hi <= open[n].lo  BY <3>2 DEF Tiles
      <4> QED  BY <1>1, <1>2, <2>2, <4>1 DEF Within
    <3> QED  BY <3>1, <3>2
  <2>4. OpenOwes(next, open, i) <=> ~open[n].done /\ open[n].cursor < i
    <3>1. \A m \in 1..Len(open) :
            ~open[m].done /\ open[m].cursor < i /\ i < open[m].hi => m = n
      BY <1>1, <1>2, <2>3
    <3> QED  BY <1>1, <1>5, <2>2, <3>1 DEF OpenOwes, Within
  <2>5. Reads(covered, open, i) <=> (open[n].done \/ i <= open[n].cursor)
    BY <1>1, <1>5, <2>2, <2>3 DEF Reads, ReadTo, Within
  <2>6. open[n].done \in BOOLEAN /\ open[n].cursor \in Nat  BY <1>2
  <2> QED  BY <1>1, <2>4, <2>5, <2>6
<1> QED  BY <1>1, <1>3, <1>4, <1>5

\* A walk that has come to the end has read all there is.
LEMMA FinishedReadsAll ==
  ASSUME NEW w \in AnyWalk, Tiles(w.open, w.covered, w.next), Finished(w), NEW i \in Ids
  PROVE  Reads(w.covered, w.open, i)
<1>1. w.open = <<>> /\ w.next <= 1 /\ w.next \in Nat /\ w.covered \in Nat
  BY DEF Finished, Tiles
<1>2. w.covered = w.next  BY <1>1, NothingOpen
<1> QED  BY <1>1, <1>2 DEF Reads, Ids

LEMMA FreshWalkIsFresh ==
  ASSUME NEW legacy \in BOOLEAN, NEW phase \in {"backfill", "done"}
  PROVE  LET w == FreshWalk(phase, legacy) IN
         w \in AnyWalk /\ w.phase = phase /\ w.high = None /\ w.open = <<>>
<1>1. <<>> \in Seq(AnyRange)  OBVIOUS
<1>2. PICK none : none = <<>> /\ none \in Seq(AnyRange)  BY <1>1
<1> QED  BY <1>2 DEF FreshWalk, AnyWalk

\* What a walk becomes: it is finished and waits, or it goes on.
LEMMA Becoming ==
  ASSUME NEW w \in AnyWalk, WalkBecomes(w), Tiles(w.open, w.covered, w.next),
         w.width > 0, w.high # None, w.phase # "done"
  PROVE  /\ WalkInv'
         /\ \/ ~Finished(w) /\ walk' = w
            \/ Finished(w) /\ walk'.phase = "done" /\ walk'.high = None
<1>1. CASE Finished(w)
  <2>1. PICK legacy \in BOOLEAN : legacy = (w.phase = "patrol" /\ w.legacy)
    <3>1. (w.phase = "patrol" /\ w.legacy) \in BOOLEAN  OBVIOUS
    <3> QED  BY <3>1, Zenon
  <2>2. walk' = FreshWalk("done", legacy)  BY <1>1, <2>1 DEF WalkBecomes
  <2>3. walk' \in AnyWalk /\ walk'.phase = "done" /\ walk'.high = None /\ walk'.open = <<>>
    BY <2>2, FreshWalkIsFresh
  <2> QED  BY <1>1, <2>3 DEF WalkInv
<1>2. CASE ~Finished(w)
  <2>1. walk' = w  BY <1>2 DEF WalkBecomes
  <2> QED  BY <1>2, <2>1 DEF WalkInv
<1> QED  BY <1>1, <1>2

\* The walk the head is read for.
Headed(high) ==
  [walk EXCEPT
     !.phase = IF @ = "done" THEN "patrol" ELSE @,
     !.high = high, !.next = high + 1, !.covered = high + 1,
     !.width = AtLeast(PageSize, AtMost(MaxWidth, CeilDiv(AtLeast(high, 1), Commands)))]

LEMMA HeadRead ==
  ASSUME WalkInv, ReadHead
  PROVE  \E high \in 0..MaxId :
           /\ high = Greatest(Visible)
           /\ LET w == Headed(high) IN
              /\ w \in AnyWalk /\ WalkBecomes(w) /\ Tiles(w.open, w.covered, w.next)
              /\ w.width > 0 /\ w.high = high /\ w.next = high + 1 /\ w.covered = high + 1
              /\ w.open = <<>> /\ w.phase # "done"
              /\ w.phase = (IF walk.phase = "done" THEN "patrol" ELSE walk.phase)
<1>1. /\ walk \in AnyWalk /\ walk.open = <<>> /\ walk.phase \in {"backfill", "done"}
      /\ WalkBecomes(Headed(Greatest(Visible)))
  <2>1. walk.high = None /\ WalkBecomes(Headed(Greatest(Visible)))
    BY Zenon DEF ReadHead, Headed
  <2> QED  BY <2>1 DEF WalkInv
<1>2. PICK high \in 0..MaxId : high = Greatest(Visible)
  <2>1. Visible \in SUBSET (1..MaxId)  BY DEF Visible, Existing, Ids
  <2> QED  BY <2>1, GreatestUpTo, MaxIdIsNatural
<1>3. PICK width \in Nat \ {0} :
        width = AtLeast(PageSize, AtMost(MaxWidth, CeilDiv(AtLeast(high, 1), Commands)))
  <2>1. AtLeast(high, 1) \in Nat  BY MaxIdIsNatural DEF AtLeast
  <2>2. PICK q \in Nat : q = CeilDiv(AtLeast(high, 1), Commands)
    BY <2>1, Division, ParametersAreNatural
  <2>3. AtMost(MaxWidth, q) \in Nat  BY ParametersAreNatural DEF AtMost
  <2>4. AtLeast(PageSize, AtMost(MaxWidth, q)) \in Nat \ {0}
    BY <2>3, ParametersAreNatural DEF AtLeast
  <2> QED  BY <2>2, <2>4
<1>4. PICK w : w = Headed(high)  OBVIOUS
<1>5. high \in Nat  BY MaxIdIsNatural
<1>6. PICK phase \in {"backfill", "patrol"} :
        phase = IF walk.phase = "done" THEN "patrol" ELSE walk.phase
  BY <1>1
<1>7. w = [walk EXCEPT !.phase = phase, !.high = high, !.next = high + 1,
                       !.covered = high + 1, !.width = width]
  BY <1>3, <1>4, <1>6 DEF Headed
<1>8. /\ w \in AnyWalk /\ w.width = width /\ w.high = high /\ w.next = high + 1
      /\ w.covered = high + 1 /\ w.open = <<>> /\ w.phase = phase
  <2>1. PICK none : none = walk.open  OBVIOUS
  <2>2. /\ w \in AnyWalk /\ w.width = width /\ w.high = high /\ w.next = high + 1
        /\ w.covered = high + 1 /\ w.open = none /\ w.phase = phase
    <3>1. PICK next \in Nat : next = high + 1  BY <1>5
    <3>2. walk \in AnyWalk  BY <1>1
    <3>3. w = [walk EXCEPT !.phase = phase, !.high = high, !.next = next,
                           !.covered = next, !.width = width]
      BY <1>7, <3>1
    <3>4. /\ w.width = width /\ w.high = high /\ w.next = next
          /\ w.covered = next /\ w.open = walk.open /\ w.phase = phase
      BY <3>2, <3>3 DEF AnyWalk
    <3>5. high \in Nat \cup {None} /\ width \in Nat
          /\ phase \in {"backfill", "done", "patrol", "backfill parked", "patrol parked"}
      BY <1>5
    <3>6. w \in AnyWalk  BY <3>2, <3>3, <3>5 DEF AnyWalk
    <3> QED  BY <2>1, <3>1, <3>4, <3>6
  <2> QED  BY <1>1, <2>1, <2>2
<1>9. Tiles(w.open, w.covered, w.next)
  <2>1. <<>> \in Seq(AnyRange) /\ Len(<<>>) = 0  OBVIOUS
  <2>2. \A i \in (high + 1)..(high + 1 - 1) : FALSE  BY <1>5
  <2> QED  BY <1>5, <1>8, <2>1, <2>2 DEF Tiles
<1> QED  BY <1>1, <1>2, <1>4, <1>6, <1>8, <1>9

\* What becomes of the walk in a batch.
Batch(next, left, covered) ==
  [walk EXCEPT !.next = next, !.open = left, !.covered = covered]

LEMMA BatchIsAWalk ==
  ASSUME WalkInv, walk.high # None, NEW next \in Nat \ {0}, NEW left \in Seq(AnyRange),
         NEW covered \in Nat
  PROVE  LET w == Batch(next, left, covered) IN
         /\ w \in AnyWalk /\ w.next = next /\ w.open = left /\ w.covered = covered
         /\ w.high = walk.high /\ w.phase = walk.phase
         /\ w.width > 0 /\ w.high # None /\ w.phase # "done"
BY DEF WalkInv, AnyWalk, Batch

WalkMoves == ReadHead \/ WalkRanges \/ WalkParked \/ WalkDemoted

LEMMA OtherWalks == [Next]_vars => WalkMoves \/ walk' = walk
BY DEF WalkMoves, Next, vars, mirrorVars, laneVars, Tick, ClockAges, Portal, Create, Edit,
    SilentEdit, Delete, Hide, Show, ZoneChanges, SweepLane, Measure, Sweep, SweepDisagrees,
    WalkLane, DirtyLane, DirtyList, ConfirmAbsent, StoreRows, StoreRest, ReconLane,
    ReconStart, CountRanges, ListLeaves, ReconFinish, Setbacks, SweepDemoted, ReconParked,
    PassAbandoned, Forget, Evict

LEMMA WalkStep == WalkInv /\ [Next]_vars => WalkInv'
<1> SUFFICES ASSUME WalkInv, [Next]_vars PROVE WalkInv'  OBVIOUS
<1>1. CASE ReadHead
  <2>1. PICK high \in 0..MaxId :
          LET w == Headed(high) IN
            /\ w \in AnyWalk /\ WalkBecomes(w) /\ Tiles(w.open, w.covered, w.next)
            /\ w.width > 0 /\ w.high = high /\ w.phase # "done"
    BY <1>1, HeadRead
  <2>2. high # None  BY NoneAssumption, MaxIdIsNatural
  <2> QED  BY <2>1, <2>2, Becoming
<1>2. CASE WalkRanges
  <2>1. walk.high # None  BY <1>2, Zenon DEF WalkRanges
  <2>2. PICK next \in Nat \ {0}, left \in Seq(AnyRange), covered \in Nat :
          WalkBecomes(Batch(next, left, covered)) /\ Tiles(left, covered, next)
    BY <1>2, BatchReads DEF Batch
  <2> QED  BY <2>1, <2>2, BatchIsAWalk, Becoming
<1>3. CASE WalkParked
  <2>1. PICK phase \in {"backfill parked", "patrol parked"} :
          walk' = [walk EXCEPT !.phase = phase]
    BY <1>3 DEF WalkParked
  <2>2. walk.high # None  BY <1>3 DEF WalkParked
  <2>3. /\ walk' \in AnyWalk /\ walk'.phase = phase /\ walk'.high = walk.high
        /\ walk'.width = walk.width /\ walk'.open = walk.open
        /\ walk'.covered = walk.covered /\ walk'.next = walk.next
    BY <2>1 DEF WalkInv, AnyWalk
  <2> QED  BY <2>2, <2>3 DEF WalkInv
<1>4. CASE WalkDemoted
  <2>1. walk' = [walk EXCEPT !.legacy = TRUE]  BY <1>4 DEF WalkDemoted
  <2>2. /\ walk' \in AnyWalk /\ walk'.phase = walk.phase /\ walk'.high = walk.high
        /\ walk'.width = walk.width /\ walk'.open = walk.open
        /\ walk'.covered = walk.covered /\ walk'.next = walk.next
    BY <2>1 DEF WalkInv, AnyWalk
  <2> QED  BY <2>2 DEF WalkInv
<1>5. CASE walk' = walk  BY <1>5 DEF WalkInv
<1> QED  BY <1>1, <1>2, <1>3, <1>4, <1>5, OtherWalks DEF WalkMoves

-----------------------------------------------------------------------------
(* What has been read stays read. *)

AnySeen == [blind : BOOLEAN, head : Nat, narrowed : BOOLEAN, hidden : SUBSET Ids]

\* Records that were there to read all along, as far as they exist.
Steady == Ids \ (gone \cup seen.hidden \cup Refused)

\* No lane takes the row of such a record away, or marks it unreadable.
KeptInv ==
  /\ seen \in AnySeen /\ hidden \subseteq seen.hidden
  /\ refresh.denied \subseteq seen.hidden
  /\ \A i \in Steady : row[i].kind \in {"none", "live"} /\ ~row[i].unreadable

\* IDs are given in order.
OrderInv == \A i, j \in Ids : j < i /\ content[i] > 0 => content[j] > 0

InBackfill == walk.phase \in {"backfill", "backfill parked"}
Been(i) == InBackfill => walk.high # None /\ Reads(walk.covered, walk.open, i)

ReadInv ==
  /\ seen.head \in 0..MaxId
  /\ \A i \in Ids : i <= seen.head => content[i] > 0
  /\ InBackfill /\ walk.high = None => seen.head = 0
  /\ \A i \in Steady : i <= seen.head /\ Been(i) => row[i].kind = "live"

LEMMA RecordsStay ==
  MirrorInv /\ [Next]_vars =>
    /\ gone \subseteq gone'
    /\ \A i \in Ids : content[i] \in Nat /\ content'[i] \in Nat /\ content'[i] >= content[i]
<1> SUFFICES ASSUME MirrorInv, [Next]_vars
             PROVE  /\ gone \subseteq gone'
                    /\ \A i \in Ids : content[i] \in Nat /\ content'[i] \in Nat
                                      /\ content'[i] >= content[i]
  OBVIOUS
<1>1. MirrorInv' /\ [Cache!CacheNext]_Cache!cacheVars  BY SafetyStep, StepMaps
<1>2. \A i \in Ids : content[i] \in Nat /\ content'[i] \in Nat
  BY <1>1 DEF MirrorInv, RecordInv
<1> QED  BY <1>1, <1>2
  DEF Cache!CacheNext, Cache!RecordChanges, Cache!RowsFollow, Cache!cacheVars

\* Who changes what the ghosts know.
LEMMA SeenMoves == [Next]_vars => Hide \/ ReadHead \/ Sweep \/ seen' = seen
BY DEF Next, vars, Tick, ClockAges, Portal, Create, Edit, SilentEdit, Delete, Show,
  ZoneChanges, SweepLane, Measure, SweepDisagrees, WalkLane, WalkRanges, DirtyLane,
  DirtyList, ConfirmAbsent, StoreRows, StoreRest, ReconLane, ReconStart, CountRanges,
  ListLeaves, ReconFinish, Setbacks, SweepDemoted, WalkParked, WalkDemoted, ReconParked,
  PassAbandoned, Forget, Evict

LEMMA HiddenMoves == [Next]_vars => Hide \/ Show \/ hidden' = hidden
BY DEF Next, vars, portalVars, recordVars, Tick, ClockAges, Portal, Create, Edit, SilentEdit,
  Delete, ZoneChanges, SweepLane, Measure, Sweep, SweepDisagrees, WalkLane, ReadHead,
  WalkRanges, DirtyLane, DirtyList, ConfirmAbsent, StoreRows, StoreRest, ReconLane,
  ReconStart, CountRanges, ListLeaves, ReconFinish, Setbacks, SweepDemoted, WalkParked,
  WalkDemoted, ReconParked, PassAbandoned, Forget, Evict

\* The head is read for the first backfill; the sweep notes how it was asked.
LEMMA SeenStep ==
  ASSUME KeptInv, [Next]_vars
  PROVE  /\ seen' \in AnySeen /\ seen.hidden \subseteq seen'.hidden
         /\ hidden' \subseteq seen'.hidden
         /\ ~ReadHead => seen'.head = seen.head /\ seen'.blind = seen.blind
<1>1. seen \in AnySeen /\ hidden \subseteq seen.hidden  BY DEF KeptInv
<1>2. CASE Hide
  <2>1. PICK i \in Visible : /\ hidden' = hidden \cup {i}
                             /\ seen' = [seen EXCEPT !.hidden = @ \cup {i}]
    BY <1>2 DEF Hide
  <2>2. i \in Ids  BY DEF Visible, Existing
  <2>3. /\ seen' \in AnySeen /\ seen'.hidden = seen.hidden \cup {i}
        /\ seen'.head = seen.head /\ seen'.blind = seen.blind
    BY <1>1, <2>1, <2>2 DEF AnySeen
  <2> QED  BY <1>1, <2>1, <2>3
<1>3. CASE ReadHead
  <2>1. PICK high \in 0..MaxId, blind \in BOOLEAN :
          seen' \in {seen, [seen EXCEPT !.blind = blind, !.head = high]}
    <3>1. PICK high \in 0..MaxId : high = Greatest(Visible)
      <4>1. Visible \in SUBSET (1..MaxId)  BY DEF Visible, Existing, Ids
      <4> QED  BY <4>1, GreatestUpTo, MaxIdIsNatural
    <3>2. PICK blind \in BOOLEAN : blind = ~sweep.known
      <4>1. (~sweep.known) \in BOOLEAN  OBVIOUS
      <4> QED  BY <4>1, Zenon
    <3>3. seen' \in {seen, [seen EXCEPT !.blind = ~sweep.known, !.head = Greatest(Visible)]}
      BY <1>3, Zenon DEF ReadHead
    <3> QED  BY <3>1, <3>2, <3>3
  <2>2. high \in Nat  BY MaxIdIsNatural
  <2>3. seen' \in AnySeen /\ seen'.hidden = seen.hidden  BY <1>1, <2>1, <2>2 DEF AnySeen
  <2>4. hidden' = hidden  BY <1>3 DEF ReadHead, portalVars, recordVars
  <2> QED  BY <1>1, <1>3, <2>3, <2>4
<1>4. CASE Sweep
  <2>1. PICK narrowed \in BOOLEAN : seen' = [seen EXCEPT !.narrowed = narrowed]
    <3>1. (seen.narrowed \/ Narrowed) \in BOOLEAN  OBVIOUS
    <3>2. PICK narrowed \in BOOLEAN : narrowed = (seen.narrowed \/ Narrowed)
      BY <3>1, Zenon
    <3> QED  BY <1>4, <3>2 DEF Sweep
  <2>2. /\ seen' \in AnySeen /\ seen'.hidden = seen.hidden
        /\ seen'.head = seen.head /\ seen'.blind = seen.blind
    BY <1>1, <2>1 DEF AnySeen
  <2>3. hidden' = hidden  BY <1>4 DEF Sweep, portalVars, recordVars
  <2> QED  BY <1>1, <2>2, <2>3
<1>5. CASE ~Hide /\ ~ReadHead /\ ~Sweep
  <2>1. seen' = seen  BY <1>5, SeenMoves
  <2>2. hidden' = hidden \/ hidden' = {}  BY <1>5, HiddenMoves DEF Show
  <2> QED  BY <1>1, <2>1, <2>2
<1> QED  BY <1>2, <1>3, <1>4, <1>5

\* The row of a steady record is left alone, or takes a copy that is not older.
LEMMA SteadyRows ==
  ASSUME MirrorInv, KeptInv, [Next]_vars, NEW i \in Steady
  PROVE  \/ row'[i] = row[i]
         \/ \E c \in Nat \ {0} : row[i].content <= c /\ row'[i] = Cache!Copy(c, FALSE)
<1>1. i \in Ids /\ i \notin gone /\ i \notin seen.hidden /\ i \notin Refused  BY DEF Steady
<1>2. row[i].kind \in {"none", "live"} /\ ~row[i].unreadable  BY DEF KeptInv
<1>3. content[i] \in Nat /\ row[i].content <= content[i]
  BY <1>1 DEF MirrorInv, RecordInv, RowInv
<1>4. ASSUME NEW S \in SUBSET Visible, row' = Stored(S)
      PROVE  \/ row'[i] = row[i]
             \/ \E c \in Nat \ {0} : row[i].content <= c /\ row'[i] = Cache!Copy(c, FALSE)
  <2>1. CASE i \in S
    <3>1. row'[i] = Cache!Copy(content[i], FALSE)  BY <1>1, <1>2, <1>4, <2>1 DEF Stored, Upserted
    <3>2. content[i] > 0  BY <2>1 DEF Visible, Existing
    <3>3. content[i] \in Nat \ {0}  BY <1>3, <3>2
    <3> QED  BY <1>3, <3>1, <3>3
  <2>2. CASE i \notin S  BY <1>1, <1>4, <2>2 DEF Stored, Upserted
  <2> QED  BY <2>1, <2>2
<1>5. CASE Sweep
  <2>1. SweepPage \in SUBSET Visible /\ row' = Stored(SweepPage)
    BY <1>5 DEF Sweep, SweepPage, Lowest
  <2> QED  BY <1>4, <2>1
<1>6. CASE WalkRanges
  <2>1. PICK S \in SUBSET Visible : row' = Stored(S)
    <3>1. PICK open \in {Planned(walk.open, walk.next, walk.width)} :
            \E failed \in SUBSET {n \in 1..Len(open) : ~open[n].done} :
              row' = Stored(UNION {Page(open[n].cursor, open[n].hi) :
                                     n \in {m \in 1..Len(open) : ~open[m].done} \ failed})
      BY <1>6, Zenon DEF WalkRanges
    <3> QED  BY <3>1 DEF Page, Lowest
  <2> QED  BY <1>4, <2>1
<1>7. CASE StoreRows
  <2>1. CASE i \in refresh.present
    <3>1. row'[i] = Cache!Copy(refresh.versions[i], FALSE)
      BY <1>1, <1>2, <1>7, <2>1 DEF StoreRows, Upserted
    <3>2. Current(i)  BY <2>1 DEF MirrorInv, PassInv
    <3> QED  BY <3>1, <3>2 DEF Current
  <2>2. CASE i \notin refresh.present  BY <1>1, <1>7, <2>2 DEF StoreRows, Upserted
  <2> QED  BY <2>1, <2>2
<1>8. CASE StoreRest
  <2>1. PICK absent \in {refresh.absent, {}} :
          row' = [j \in Ids |-> IF j \in absent THEN Cache!Tombstone
                                ELSE IF j \in refresh.denied THEN MarkUnreadable(row[j])
                                ELSE row[j]]
    BY <1>8 DEF StoreRest
  <2>2. i \notin absent /\ i \notin refresh.denied
    BY <1>1 DEF MirrorInv, PassInv, KeptInv
  <2> QED  BY <1>1, <2>1, <2>2
<1>9. CASE Forget \/ Evict
  <2>1. PICK j, new : j \in Ids /\ row' = [row EXCEPT ![j] = new] /\ j # i
    BY <1>2, <1>9 DEF Forget, Evict
  <2> QED  BY <1>1, <2>1 DEF MirrorInv, RowInv
<1>10. CASE Portal \/ Quiet \/ UNCHANGED vars
  BY <1>10, PortalChangesRecords, QuietIsQuiet DEF Cache!RecordChanges, Cache!cacheVars
<1> QED  BY <1>5, <1>6, <1>7, <1>8, <1>9, <1>10, NextIsOneOfThree DEF Storing

LEMMA SteadyShrinks == MirrorInv /\ KeptInv /\ [Next]_vars => Steady' \subseteq Steady
BY RecordsStay, SeenStep DEF Steady

LEMMA KeptStep == MirrorInv /\ KeptInv /\ [Next]_vars => KeptInv'
<1> SUFFICES ASSUME MirrorInv, KeptInv, [Next]_vars PROVE KeptInv'  OBVIOUS
<1>1. /\ seen' \in AnySeen /\ hidden' \subseteq seen'.hidden
      /\ seen.hidden \subseteq seen'.hidden
  BY SeenStep
<1>2. refresh'.denied \subseteq seen'.hidden
  <2>1. CASE refresh' = refresh  BY <1>1, <2>1 DEF KeptInv
  <2>2. CASE StoreRest \/ PassAbandoned  BY <2>2 DEF StoreRest, PassAbandoned, NoPass
  <2>3. CASE DirtyList  BY <2>3 DEF DirtyList, NoPass
  <2>4. CASE ConfirmAbsent
    <3>1. PICK absent \in SUBSET gone, denied \in SUBSET hidden :
            refresh' = [refresh EXCEPT !.stage = "confirmed", !.absent = absent,
                                       !.denied = denied]
      BY <2>4 DEF ConfirmAbsent
    <3>2. IsPass(refresh)  BY DEF MirrorInv, PassInv
    <3>3. refresh'.denied = denied  BY <3>1, <3>2 DEF IsPass
    <3> QED  BY <1>1, <3>3 DEF KeptInv
  <2>5. CASE StoreRows
    <3>1. IsPass(refresh) /\ refresh' = [refresh EXCEPT !.stage = "stored"]
      BY <2>5 DEF StoreRows, Upserted, MirrorInv, PassInv
    <3>2. refresh'.denied = refresh.denied  BY <3>1 DEF IsPass
    <3> QED  BY <1>1, <3>2 DEF KeptInv
  <2> QED  BY <2>1, <2>2, <2>3, <2>4, <2>5, PassMoves DEF DirtyLane
<1>3. ASSUME NEW i \in Steady'
      PROVE  row'[i].kind \in {"none", "live"} /\ ~row'[i].unreadable
  <2>1. i \in Steady  BY SteadyShrinks
  <2>2. row[i].kind \in {"none", "live"} /\ ~row[i].unreadable  BY <2>1 DEF KeptInv
  <2>3. CASE row'[i] = row[i]  BY <2>2, <2>3
  <2>4. CASE \E c \in Nat \ {0} : row'[i] = Cache!Copy(c, FALSE)
    <3>1. PICK c \in Nat \ {0} : row'[i] = Cache!Copy(c, FALSE)  BY <2>4
    <3> QED  BY <3>1 DEF Cache!Copy
  <2> QED  BY <2>1, <2>3, <2>4, SteadyRows
<1> QED  BY <1>1, <1>2, <1>3 DEF KeptInv

LEMMA ContentMoves ==
  [Next]_vars => Create \/ Edit \/ SilentEdit \/ UNCHANGED <<content, bumped, updated>>
BY DEF Next, vars, portalVars, recordVars, Tick, ClockAges, Portal, Delete, Hide, Show,
  ZoneChanges, SweepLane, Measure, Sweep, SweepDisagrees, WalkLane, ReadHead,
  WalkRanges, DirtyLane, DirtyList, ConfirmAbsent, StoreRows, StoreRest, ReconLane,
  ReconStart, CountRanges, ListLeaves, ReconFinish, Setbacks, SweepDemoted, WalkParked,
  WalkDemoted, ReconParked, PassAbandoned, Forget, Evict

LEMMA OrderStep == MirrorInv /\ OrderInv /\ [Next]_vars => OrderInv'
<1> SUFFICES ASSUME MirrorInv, OrderInv, [Next]_vars,
                    NEW i \in Ids, NEW j \in Ids, j < i, content'[i] > 0
             PROVE  content'[j] > 0
  BY DEF OrderInv
<1>1. /\ content[i] \in Nat /\ content[j] \in Nat /\ content'[j] \in Nat
      /\ content'[j] >= content[j]
  BY RecordsStay
<1>2. CASE content[i] > 0  BY <1>1, <1>2 DEF OrderInv
<1>3. CASE content[i] = 0
  <2>1. PICK k \in Ids : k = i /\ \A m \in 1..(k - 1) : content[m] > 0
    <3>1. content \in [Ids -> Nat]  BY DEF MirrorInv, RecordInv
    <3>2. CASE Create
      <4>1. PICK k \in Ids : /\ \A m \in 1..(k - 1) : content[m] > 0
                             /\ content' = [content EXCEPT ![k] = 1]
        BY <3>2 DEF Create
      <4>2. k = i  BY <1>3, <3>1, <4>1
      <4> QED  BY <4>1, <4>2
    <3>3. CASE Edit \/ SilentEdit
      <4>1. PICK k \in Existing : content' = [content EXCEPT ![k] = @ + 1]
        BY <3>3 DEF Edit, SilentEdit
      <4>2. k # i  BY <1>3, <4>1 DEF Existing
      <4>3. content'[i] = content[i]  BY <3>1, <4>1, <4>2
      <4> QED  BY <1>3, <4>3
    <3> QED  BY <1>3, <3>2, <3>3, ContentMoves
  <2>2. j \in 1..(i - 1)  BY MaxIdIsNatural DEF Ids
  <2> QED  BY <1>1, <2>1, <2>2
<1> QED  BY <1>1, <1>2, <1>3

LEMMA LiveStaysLive ==
  ASSUME MirrorInv, KeptInv, [Next]_vars, NEW i \in Steady, row[i].kind = "live"
  PROVE  row'[i].kind = "live"
<1>1. CASE row'[i] = row[i]  BY <1>1
<1>2. CASE \E c \in Nat \ {0} : row'[i] = Cache!Copy(c, FALSE)  BY <1>2 DEF Cache!Copy
<1> QED  BY <1>1, <1>2, SteadyRows

\* The head that the backfill starts from.
LEMMA HeadSeen ==
  ASSUME KeptInv, ReadHead
  PROVE  IF walk.phase = "backfill"
         THEN seen'.head = Greatest(Visible) /\ seen'.blind = ~sweep.known
         ELSE seen' = seen
<1>1. seen' = IF walk.phase = "backfill"
              THEN [seen EXCEPT !.blind = ~sweep.known, !.head = Greatest(Visible)]
              ELSE seen
  BY Zenon DEF ReadHead
<1> QED  BY <1>1 DEF KeptInv, AnySeen

\* Whatever has been read below the head is in the mirror.
LEMMA ReadStep ==
  ASSUME MirrorInv, KeptInv, OrderInv, WalkInv, ReadInv, [Next]_vars
  PROVE  ReadInv'
<1>1. /\ Steady' \subseteq Steady /\ OrderInv'
      /\ \A i \in Ids : content[i] \in Nat /\ content'[i] \in Nat /\ content'[i] >= content[i]
  BY SteadyShrinks, OrderStep, RecordsStay
<1>2. \A i \in Steady : row[i].kind = "live" => row'[i].kind = "live"  BY LiveStaysLive
<1>3. seen'.head \in 0..MaxId /\ \A i \in Ids : i <= seen'.head => content'[i] > 0
  <2>1. CASE ReadHead /\ walk.phase = "backfill"
    <3>1. PICK high \in 0..MaxId : /\ high = Greatest(Visible)
                                   /\ high = 0 \/ high \in Visible
      <4>1. Visible \in SUBSET (1..MaxId)  BY DEF Visible, Existing, Ids
      <4> QED  BY <4>1, GreatestUpTo, MaxIdIsNatural
    <3>2. seen'.head = high  BY <2>1, <3>1, HeadSeen
    <3>3. ASSUME NEW i \in Ids, i <= high PROVE content[i] > 0
      <4>1. i # 0 /\ i \in Nat  BY DEF Ids
      <4>2. high \in Visible  BY <3>1, <3>3, <4>1
      <4>3. high \in Ids /\ content[high] > 0  BY <4>2 DEF Visible, Existing
      <4> QED  BY <3>3, <4>1, <4>3 DEF OrderInv
    <3> QED  BY <1>1, <3>2, <3>3
  <2>2. CASE ~(ReadHead /\ walk.phase = "backfill")
    <3>1. seen'.head = seen.head  BY <2>2, HeadSeen, SeenStep
    <3> QED  BY <1>1, <3>1 DEF ReadInv
  <2> QED  BY <2>1, <2>2
<1>4. /\ InBackfill' /\ walk'.high = None => seen'.head = 0
      /\ \A i \in Steady' : i <= seen'.head /\ Been(i)' => row'[i].kind = "live"
  <2>1. CASE ReadHead
    <3>1. PICK high \in 0..MaxId, w \in AnyWalk :
            /\ high = Greatest(Visible) /\ w = Headed(high) /\ WalkBecomes(w)
            /\ Tiles(w.open, w.covered, w.next)
            /\ w.width > 0 /\ w.high = high /\ w.next = high + 1 /\ w.covered = high + 1
            /\ w.open = <<>> /\ w.phase # "done"
            /\ w.phase = (IF walk.phase = "done" THEN "patrol" ELSE walk.phase)
      BY <2>1, HeadRead
    <3>2. high # None /\ high \in Nat  BY NoneAssumption, MaxIdIsNatural
    <3>3. \/ ~Finished(w) /\ walk' = w
          \/ Finished(w) /\ walk'.phase = "done" /\ walk'.high = None
      BY <3>1, <3>2, Becoming
    <3>4. CASE walk.phase = "done"
      <4>1. seen'.head = seen.head /\ ~InBackfill /\ ~InBackfill'
        BY <2>1, <3>1, <3>3, <3>4, HeadSeen DEF InBackfill
      <4> QED  BY <1>1, <1>2, <4>1 DEF ReadInv, Been
    <3>5. CASE walk.phase # "done"
      <4>1. walk.phase = "backfill"
        <5>1. walk.high = None  BY <2>1, Zenon DEF ReadHead
        <5> QED  BY <3>5, <5>1 DEF WalkInv
      <4>2. seen'.head = high  BY <2>1, <3>1, <4>1, HeadSeen
      <4>3. CASE Finished(w)
        <5>1. high = 0  BY <3>1, <3>2, <4>3 DEF Finished
        <5>2. \A i \in Steady' : ~(i <= seen'.head)  BY <4>2, <5>1 DEF Steady, Ids
        <5> QED  BY <4>2, <5>1, <5>2
      <4>4. CASE ~Finished(w)
        <5>1. walk' = w  BY <3>3, <4>4
        <5>2. InBackfill' /\ walk'.high # None  BY <3>1, <3>2, <4>1, <5>1 DEF InBackfill
        <5>3. \A i \in Steady' : i <= high => ~Been(i)'
          <6>1. walk'.covered = high + 1 /\ Len(walk'.open) = 0  BY <3>1, <5>1
          <6> QED  BY <3>2, <5>2, <6>1 DEF Been, Reads, Steady, Ids
        <5> QED  BY <4>2, <5>2, <5>3
      <4> QED  BY <4>3, <4>4
    <3> QED  BY <3>4, <3>5
  <2>2. CASE WalkRanges
    <3>1. walk.high # None  BY <2>2, Zenon DEF WalkRanges
    <3>2. PICK pages \in SUBSET Visible, next \in Nat \ {0}, left \in Seq(AnyRange),
             covered \in Nat :
            /\ row' = Stored(pages) /\ WalkBecomes(Batch(next, left, covered))
            /\ Tiles(left, covered, next)
            /\ \A i \in Visible : Reads(covered, left, i) =>
                 i \in pages \/ Reads(walk.covered, walk.open, i)
      BY <2>2, BatchReads DEF Batch
    <3>8. PICK w : w = Batch(next, left, covered)  OBVIOUS
    <3>3. /\ w \in AnyWalk /\ w.next = next /\ w.open = left
          /\ w.covered = covered /\ w.high = walk.high /\ w.phase = walk.phase
          /\ w.width > 0 /\ w.high # None /\ w.phase # "done"
      <4>1. LET u == Batch(next, left, covered) IN
            /\ u \in AnyWalk /\ u.next = next /\ u.open = left /\ u.covered = covered
            /\ u.high = walk.high /\ u.phase = walk.phase
            /\ u.width > 0 /\ u.high # None /\ u.phase # "done"
        BY <3>1, BatchIsAWalk DEF ReadInv
      <4> QED  BY <3>8, <4>1
    <3>4. \/ ~Finished(w) /\ walk' = w
          \/ Finished(w) /\ walk'.phase = "done" /\ walk'.high = None
      BY <3>2, <3>3, <3>8, Becoming
    <3>5. seen' = seen  BY <2>2, Zenon DEF WalkRanges
    <3>6. ~(InBackfill' /\ walk'.high = None)  BY <3>3, <3>4 DEF InBackfill
    <3>7. ASSUME NEW i \in Steady', i <= seen'.head, Been(i)'
          PROVE  row'[i].kind = "live"
      <4>1. i \in Steady /\ i \in Ids /\ i <= seen.head /\ content[i] > 0
        BY <1>1, <3>5, <3>7 DEF Steady, ReadInv
      <4>2. i \in Visible
        BY <4>1 DEF Visible, Existing, Steady, KeptInv
      <4>3. CASE row[i].kind = "live"  BY <1>2, <4>1, <4>3
      <4>4. CASE ~InBackfill
        BY <1>2, <4>1, <4>4 DEF ReadInv, Been
      <4>5. CASE InBackfill
        <5>1. Reads(covered, left, i)
          <6>1. CASE Finished(w)  BY <3>2, <3>3, <4>1, <6>1, FinishedReadsAll
          <6>2. CASE ~Finished(w)
            <7>1. walk' = w  BY <3>4, <6>2
            <7> QED  BY <3>3, <3>7, <4>5, <7>1 DEF Been, InBackfill
          <6> QED  BY <6>1, <6>2
        <5>2. CASE i \in pages
          <6>1. row[i].kind # "deleted" /\ i \notin Refused  BY <4>1 DEF KeptInv, Steady
          <6>2. row'[i] = Cache!Copy(content[i], FALSE)  BY <3>2, <4>1, <5>2, <6>1 DEF Stored, Upserted
          <6> QED  BY <6>2 DEF Cache!Copy
        <5>3. CASE Reads(walk.covered, walk.open, i)
          <6>1. Been(i)  BY <3>1, <5>3 DEF Been
          <6> QED  BY <1>2, <4>1, <6>1 DEF ReadInv
        <5> QED  BY <3>2, <4>2, <5>1, <5>2, <5>3
      <4> QED  BY <4>4, <4>5
    <3> QED  BY <3>6, <3>7
  <2>3. CASE ~ReadHead /\ ~WalkRanges
    <3>1. seen'.head = seen.head  BY <2>3, SeenStep
    <3>2. /\ InBackfill' <=> InBackfill
          /\ walk'.high = walk.high /\ walk'.covered = walk.covered /\ walk'.open = walk.open
      <4>1. CASE WalkParked
        <5>1. PICK phase \in {"backfill parked", "patrol parked"} :
                /\ walk' = [walk EXCEPT !.phase = phase]
                /\ phase = IF walk.phase = "backfill" THEN "backfill parked"
                           ELSE "patrol parked"
          BY <4>1 DEF WalkParked
        <5>2. walk.phase \in {"backfill", "done", "patrol"}
          BY <4>1 DEF WalkParked, Walking
        <5>3. /\ walk'.phase = phase /\ walk'.high = walk.high
              /\ walk'.covered = walk.covered /\ walk'.open = walk.open
          BY <5>1 DEF WalkInv, AnyWalk
        <5> QED  BY <5>1, <5>2, <5>3 DEF InBackfill
      <4>2. CASE WalkDemoted
        <5>1. walk' = [walk EXCEPT !.legacy = TRUE]  BY <4>2 DEF WalkDemoted
        <5>2. /\ walk'.phase = walk.phase /\ walk'.high = walk.high
              /\ walk'.covered = walk.covered /\ walk'.open = walk.open
          BY <5>1 DEF WalkInv, AnyWalk
        <5> QED  BY <5>2 DEF InBackfill
      <4>3. CASE walk' = walk  BY <4>3 DEF InBackfill
      <4> QED  BY <2>3, <4>1, <4>2, <4>3, OtherWalks DEF WalkMoves
    <3>3. \A i \in Ids : Been(i)' => Been(i)  BY <3>2 DEF Been, Reads
    <3>4. Steady \subseteq Ids  BY DEF Steady
    <3> QED  BY <1>1, <1>2, <3>1, <3>2, <3>3, <3>4 DEF ReadInv
  <2> QED  BY <2>1, <2>2, <2>3
<1> QED  BY <1>3, <1>4 DEF ReadInv

LEMMA ReadIsCovered == KeptInv /\ ReadInv => CoveredIsRead
<1> SUFFICES ASSUME KeptInv, ReadInv, NEW i \in Readable,
                    Covered <= i, i <= seen.head
             PROVE  row[i].kind = "live"
  BY DEF CoveredIsRead
<1>1. i \in Steady /\ i \in Nat /\ i # 0  BY DEF Steady, Readable, Visible, Existing, Ids
<1>2. Been(i)
  <2>1. CASE ~InBackfill  BY <2>1 DEF Been
  <2>2. CASE InBackfill /\ walk.high = None
    BY <1>1, <2>2, MaxIdIsNatural DEF ReadInv
  <2>3. CASE InBackfill /\ walk.high # None
    <3>1. Covered = walk.covered  BY <2>3 DEF Covered, InBackfill
    <3> QED  BY <2>3, <3>1 DEF Been, Reads
  <2> QED  BY <2>1, <2>2, <2>3
<1> QED  BY <1>1, <1>2 DEF ReadInv

-----------------------------------------------------------------------------
(* The sweep. *)

AnySweep ==
  [known : BOOLEAN, since : Int, after : Nat, started : Int \cup {None},
   shift : Int \cup {None}, clock : {"due", "fresh", "old"}, parked : BOOLEAN,
   legacy : BOOLEAN]

\* A pass under way started after its watermark, and not in the future.
SweepInv ==
  /\ sweep \in AnySweep /\ now \in Nat /\ zone \in -MaxShift..MaxShift
  /\ updated \in [Ids -> Int]
  /\ sweep.since <= now /\ sweep.after \in 0..MaxId
  /\ sweep.started # None => sweep.since <= sweep.started /\ sweep.started <= now
  /\ sweep.after > 0 => sweep.started # None
  /\ ~sweep.known => sweep.started = None

LEMMA SinceIsPast == SweepInv => Since \in Int /\ Since <= now
BY ParametersAreNatural DEF SweepInv, AnySweep, Since

LEMMA Keeping ==
  ASSUME SweepInv, NEW c \in AnySweep, KeepsSweep(c)
  PROVE  /\ sweep' \in AnySweep /\ sweep'.known /\ sweep'.since = Since
         /\ sweep'.after = c.after /\ sweep'.started = c.started
         /\ sweep'.parked = c.parked /\ sweep'.shift = c.shift
<1>1. PICK since \in Int : since = Since  BY SinceIsPast
<1>2. sweep' = [c EXCEPT !.known = TRUE, !.since = since]  BY <1>1 DEF KeepsSweep
<1> QED  BY <1>1, <1>2 DEF AnySweep

LEMMA Restarting ==
  ASSUME NEW c \in AnySweep
  PROVE  LET r == Restarted(c) IN
         /\ r \in AnySweep /\ r.after = 0 /\ r.started = None
         /\ r.parked = c.parked /\ r.shift = c.shift
BY DEF Restarted, AnySweep

\* The sweep goes on where it is, or starts its pass again, from where the
\* pass had started.
SweepGoes ==
  /\ sweep' \in AnySweep
  /\ sweep.parked => sweep'.parked
  /\ \/ sweep'.known /\ sweep'.since = Since /\ now' = now
     \/ sweep'.known = sweep.known /\ sweep'.since = sweep.since /\ sweep'.started = sweep.started
  /\ \/ sweep'.after = sweep.after /\ sweep'.started = sweep.started
     \/ sweep'.after = 0 /\ sweep'.started = None /\ sweep'.known

LEMMA MeasureGoes == SweepInv /\ Measure => SweepGoes
<1> SUFFICES ASSUME SweepInv, Measure PROVE SweepGoes  OBVIOUS
<1>1. now' = now /\ sweep \in AnySweep /\ ~sweep.parked
  BY DEF Measure, SweepInv, Sweepable
<1>2. CASE KeepsSweep([sweep EXCEPT !.clock = "fresh"])
  <2>1. PICK c : c = [sweep EXCEPT !.clock = "fresh"]  OBVIOUS
  <2>2. c \in AnySweep /\ c.after = sweep.after /\ c.started = sweep.started
    BY <1>1, <2>1 DEF AnySweep
  <2>3. KeepsSweep(c)  BY <1>2, <2>1
  <2> QED  BY <1>1, <2>2, <2>3, Keeping DEF SweepGoes
<1>3. CASE KeepsSweep(Restarted([sweep EXCEPT !.clock = "fresh", !.shift = zone]))
  <2>1. PICK c : c = [sweep EXCEPT !.clock = "fresh", !.shift = zone]  OBVIOUS
  <2>2. zone \in Int  BY ParametersAreNatural DEF SweepInv
  <2>3. c \in AnySweep  BY <1>1, <2>1, <2>2 DEF AnySweep
  <2>4. PICK r \in AnySweep : r = Restarted(c) /\ r.after = 0 /\ r.started = None
    BY <2>3, Restarting
  <2>5. KeepsSweep(r)  BY <1>3, <2>1, <2>4
  <2> QED  BY <1>1, <2>4, <2>5, Keeping DEF SweepGoes
<1> QED  BY <1>2, <1>3 DEF Measure

LEMMA DisagreesGoes == SweepInv /\ SweepDisagrees => SweepGoes
<1> SUFFICES ASSUME SweepInv, SweepDisagrees PROVE SweepGoes  OBVIOUS
<1>1. now' = now /\ sweep \in AnySweep /\ ~sweep.parked
  BY DEF SweepDisagrees, SweepInv, Sweepable, ReadyToSweep
<1>2. CASE KeepsSweep([sweep EXCEPT !.parked = TRUE])
  <2>1. PICK c : c = [sweep EXCEPT !.parked = TRUE]  OBVIOUS
  <2>2. c \in AnySweep /\ c.after = sweep.after /\ c.started = sweep.started
    BY <1>1, <2>1 DEF AnySweep
  <2>3. KeepsSweep(c)  BY <1>2, <2>1
  <2> QED  BY <1>1, <2>2, <2>3, Keeping DEF SweepGoes
<1>3. CASE KeepsSweep(Restarted([sweep EXCEPT !.clock = "due"]))
  <2>1. PICK c : c = [sweep EXCEPT !.clock = "due"]  OBVIOUS
  <2>3. c \in AnySweep  BY <1>1, <2>1 DEF AnySweep
  <2>4. PICK r \in AnySweep : r = Restarted(c) /\ r.after = 0 /\ r.started = None
    BY <2>3, Restarting
  <2>5. KeepsSweep(r)  BY <1>3, <2>1, <2>4
  <2> QED  BY <1>1, <2>4, <2>5, Keeping DEF SweepGoes
<1> QED  BY <1>2, <1>3 DEF SweepDisagrees

LEMMA DemotedGoes == SweepInv /\ SweepDemoted => SweepGoes
<1> SUFFICES ASSUME SweepInv, SweepDemoted PROVE SweepGoes  OBVIOUS
<1>1. now' = now /\ sweep \in AnySweep /\ ~sweep.parked
  BY DEF SweepDemoted, SweepInv, Sweepable, ReadyToSweep
<1>2. KeepsSweep(Restarted([sweep EXCEPT !.legacy = TRUE]))  BY DEF SweepDemoted
<1>3. PICK c : c = [sweep EXCEPT !.legacy = TRUE]  OBVIOUS
<1>4. c \in AnySweep  BY <1>1, <1>3 DEF AnySweep
<1>5. PICK r \in AnySweep : r = Restarted(c) /\ r.after = 0 /\ r.started = None
  BY <1>4, Restarting
<1>6. KeepsSweep(r)  BY <1>2, <1>3, <1>5
<1> QED  BY <1>1, <1>5, <1>6, Keeping DEF SweepGoes

LEMMA ClockGoes == SweepInv /\ ClockAges => SweepGoes
<1> SUFFICES ASSUME SweepInv, ClockAges PROVE SweepGoes  OBVIOUS
<1>1. PICK clock \in {"old", "due"} : sweep' = [sweep EXCEPT !.clock = clock]
  BY DEF ClockAges
<1> QED  BY <1>1 DEF SweepGoes, SweepInv, AnySweep

LEMMA SweepMoves == SweepInv /\ [Next]_vars => SweepGoes \/ Sweep
<1> SUFFICES ASSUME SweepInv, [Next]_vars PROVE SweepGoes \/ Sweep  OBVIOUS
<1>1. sweep' = sweep \/ ClockAges \/ SweepLane \/ SweepDemoted
  BY DEF Next, vars, mirrorVars, laneVars, Tick, Portal, Create, Edit, SilentEdit, Delete,
    Hide, Show, ZoneChanges, WalkLane, ReadHead, WalkRanges, DirtyLane, DirtyList,
    ConfirmAbsent, StoreRows, StoreRest, ReconLane, ReconStart, CountRanges, ListLeaves,
    ReconFinish, Setbacks, WalkParked, WalkDemoted, ReconParked, PassAbandoned, Forget, Evict
<1>2. CASE sweep' = sweep  BY <1>2 DEF SweepGoes, SweepInv
<1> QED  BY <1>1, <1>2, ClockGoes, MeasureGoes, DisagreesGoes, DemotedGoes DEF SweepLane

LEMMA TimeMoves == [Next]_vars => Tick \/ now' = now
BY DEF Next, vars, ClockAges, Portal, Create, Edit, SilentEdit, Delete,
    Hide, Show, ZoneChanges, SweepLane, Measure, Sweep, SweepDisagrees, SweepDemoted,
    WalkLane, ReadHead, WalkRanges, DirtyLane, DirtyList,
    ConfirmAbsent, StoreRows, StoreRest, ReconLane, ReconStart, CountRanges, ListLeaves,
    ReconFinish, Setbacks, WalkParked, WalkDemoted, ReconParked, PassAbandoned, Forget, Evict

LEMMA ZoneMoves == [Next]_vars => ZoneChanges \/ zone' = zone
BY DEF Next, vars, portalVars, ClockAges, Tick, Portal, Create, Edit, SilentEdit, Delete,
    Hide, Show, SweepLane, Measure, Sweep, SweepDisagrees, SweepDemoted,
    WalkLane, ReadHead, WalkRanges, DirtyLane, DirtyList,
    ConfirmAbsent, StoreRows, StoreRest, ReconLane, ReconStart, CountRanges, ListLeaves,
    ReconFinish, Setbacks, WalkParked, WalkDemoted, ReconParked, PassAbandoned, Forget, Evict

\* One page of the sweep.
SweptTo(page, begun) ==
  /\ sweep' \in AnySweep /\ sweep'.known /\ sweep'.parked = sweep.parked
  /\ \/ /\ Cardinality(page) < PageSize
        /\ sweep'.since = begun /\ sweep'.after = 0 /\ sweep'.started = None
     \/ /\ ~(Cardinality(page) < PageSize) /\ page # {}
        /\ sweep'.since = Since /\ sweep'.after = Max(page) /\ sweep'.started = begun

LEMMA Swept ==
  ASSUME SweepInv, Sweep
  PROVE  \E page \in SUBSET Visible, begun \in Int :
           /\ page = SweepPage /\ row' = Stored(page)
           /\ begun = (IF sweep.started = None THEN now ELSE sweep.started)
           /\ Since <= begun /\ begun <= now
           /\ SweptTo(page, begun)
<1>1. PICK page \in SUBSET Visible : page = SweepPage  BY DEF SweepPage, Lowest
<1>2. PICK begun \in Int :
        /\ begun = IF sweep.started = None THEN now ELSE sweep.started
        /\ Since <= begun /\ begun <= now
  <2>1. Since \in Int /\ Since <= now /\ now \in Int /\ sweep.started \in Int \cup {None}
    BY SinceIsPast DEF SweepInv, AnySweep
  <2>2. CASE sweep.started = None  BY <2>1, <2>2
  <2>3. CASE sweep.started # None
    <3>1. sweep.since <= sweep.started /\ sweep.started <= now /\ sweep.known
      BY <2>3 DEF SweepInv, AnySweep
    <3>2. Since = sweep.since  BY <3>1 DEF Since
    <3> QED  BY <2>1, <2>3, <3>1, <3>2
  <2> QED  BY <2>2, <2>3
<1>3. row' = Stored(page)
      /\ sweep' = IF Cardinality(page) < PageSize
                  THEN Restarted([sweep EXCEPT !.known = TRUE, !.since = begun])
                  ELSE [sweep EXCEPT !.known = TRUE, !.since = Since, !.after = Max(page),
                                     !.started = begun]
  BY <1>1, <1>2, Zenon DEF Sweep
<1>4. sweep \in AnySweep  BY DEF SweepInv
<1>5. SweptTo(page, begun)
  <2>1. CASE Cardinality(page) < PageSize
    <3>1. PICK c : c = [sweep EXCEPT !.known = TRUE, !.since = begun]  OBVIOUS
    <3>2. c \in AnySweep /\ c.known /\ c.since = begun /\ c.parked = sweep.parked
      BY <1>4, <3>1 DEF AnySweep
    <3>3. sweep' = [c EXCEPT !.after = 0, !.started = None]
      BY <1>3, <2>1, <3>1 DEF Restarted
    <3> QED  BY <2>1, <3>2, <3>3 DEF SweptTo, AnySweep
  <2>2. CASE ~(Cardinality(page) < PageSize)
    <3>1. page # {}
      <4>1. Cardinality({}) = 0  BY FS_EmptySet
      <4> QED  BY <2>2, <4>1, ParametersAreNatural
    <3>2. page \in SUBSET Ids  BY DEF Visible, Existing
    <3>3. PICK last \in Nat : last = Max(page)
      <4>1. Max(page) \in Ids  BY <3>1, <3>2, MaxIsGreatest
      <4> QED  BY <4>1 DEF Ids
    <3>4. PICK since \in Int : since = Since  BY SinceIsPast
    <3>5. sweep' = [sweep EXCEPT !.known = TRUE, !.since = since, !.after = last,
                                 !.started = begun]
      BY <1>3, <2>2, <3>3, <3>4
    <3>6. /\ sweep' \in AnySweep /\ sweep'.known /\ sweep'.parked = sweep.parked
          /\ sweep'.since = since /\ sweep'.after = last /\ sweep'.started = begun
      BY <1>4, <3>5 DEF AnySweep
    <3> QED  BY <2>2, <3>1, <3>3, <3>4, <3>6 DEF SweptTo
  <2> QED  BY <2>1, <2>2
<1> QED  BY <1>1, <1>2, <1>3, <1>5

HistoryInv == bumped \in [Ids -> Nat] /\ \A i \in Ids : bumped[i] <= content[i]

LEMMA HistoryStep == MirrorInv /\ HistoryInv /\ [Next]_vars => HistoryInv'
<1> SUFFICES ASSUME MirrorInv, HistoryInv, [Next]_vars PROVE HistoryInv'  OBVIOUS
<1>1. /\ content \in [Ids -> Nat] /\ content' \in [Ids -> Nat]
      /\ \A i \in Ids : content'[i] >= content[i]
  BY SafetyStep, RecordsStay DEF MirrorInv, RecordInv
<1>2. CASE bumped' = bumped  BY <1>1, <1>2 DEF HistoryInv
<1>3. CASE Create \/ Edit
  <2>1. PICK i \in Ids, c \in Nat :
          content' = [content EXCEPT ![i] = c] /\ bumped' = [bumped EXCEPT ![i] = c]
    <3>1. CASE Create  BY <3>1 DEF Create
    <3>2. CASE Edit
      <4>1. PICK i \in Existing : /\ content' = [content EXCEPT ![i] = @ + 1]
                                  /\ bumped' = [bumped EXCEPT ![i] = content[i] + 1]
        BY <3>2 DEF Edit
      <4>2. i \in Ids /\ content[i] + 1 \in Nat  BY <1>1, <4>1 DEF Existing
      <4> QED  BY <4>1, <4>2
    <3> QED  BY <1>3, <3>1, <3>2
  <2> QED  BY <1>1, <2>1 DEF HistoryInv
<1> QED  BY <1>2, <1>3, ContentMoves DEF SilentEdit

\* What a change that bumps updatedTime does, and what no other step does.
Untouched(i) ==
  bumped'[i] = bumped[i] /\ updated'[i] = updated[i] /\ (content[i] = 0 => content'[i] = 0)
Touched(i) ==
  updated'[i] \in Int /\ updated'[i] >= now - Overlap /\ UNCHANGED <<sweep, now>>

LEMMA TouchedOrNot ==
  ASSUME MirrorInv, HistoryInv, SweepInv, [Next]_vars, NEW i \in Ids
  PROVE  Untouched(i) \/ Touched(i)
<1>1. /\ content \in [Ids -> Nat] /\ bumped \in [Ids -> Nat] /\ updated \in [Ids -> Int]
      /\ now \in Nat
  BY DEF MirrorInv, RecordInv, HistoryInv, SweepInv
<1>2. CASE Create \/ Edit
  <2>1. PICK k \in Ids, c \in Nat, d \in Nat, lag \in 0..CommitLag :
          /\ content' = [content EXCEPT ![k] = c] /\ bumped' = [bumped EXCEPT ![k] = d]
          /\ updated' = [updated EXCEPT ![k] = now - lag]
    <3>1. CASE Create
      <4>1. PICK k \in Ids : /\ content' = [content EXCEPT ![k] = 1]
                             /\ bumped' = [bumped EXCEPT ![k] = 1] /\ Stamped(k)
        BY <3>1 DEF Create
      <4>2. 1 \in Nat  OBVIOUS
      <4> QED  BY <4>1, <4>2 DEF Stamped
    <3>2. CASE Edit
      <4>1. PICK k \in Existing : /\ content' = [content EXCEPT ![k] = @ + 1]
                                  /\ bumped' = [bumped EXCEPT ![k] = content[k] + 1]
                                  /\ Stamped(k)
        BY <3>2 DEF Edit
      <4>2. k \in Ids /\ content[k] + 1 \in Nat  BY <1>1, <4>1 DEF Existing
      <4> QED  BY <4>1, <4>2 DEF Stamped
    <3> QED  BY <1>2, <3>1, <3>2
  <2>2. UNCHANGED <<sweep, now>>
    BY <1>2 DEF Create, Edit, mirrorVars, laneVars
  <2>3. CASE k # i  BY <1>1, <2>1, <2>3 DEF Untouched
  <2>4. CASE k = i
    <3>1. updated'[i] = now - lag  BY <1>1, <2>1, <2>4
    <3>2. lag \in Nat /\ lag <= Overlap  BY ParametersAreNatural
    <3> QED  BY <1>1, <2>2, <3>1, <3>2, ParametersAreNatural DEF Touched
  <2> QED  BY <2>3, <2>4
<1>3. CASE SilentEdit
  <2>1. PICK k \in Existing : content' = [content EXCEPT ![k] = @ + 1]
    BY <1>3 DEF SilentEdit
  <2>2. content[i] = 0 => k # i  BY <2>1 DEF Existing
  <2>3. content[i] = 0 => content'[i] = 0  BY <1>1, <2>1, <2>2
  <2> QED  BY <1>3, <2>3 DEF SilentEdit, Untouched
<1>4. CASE UNCHANGED <<content, bumped, updated>>  BY <1>4 DEF Untouched
<1> QED  BY <1>2, <1>3, <1>4, ContentMoves

LEMMA SweepStep == MirrorInv /\ HistoryInv /\ SweepInv /\ [Next]_vars => SweepInv'
<1> SUFFICES ASSUME MirrorInv, HistoryInv, SweepInv, [Next]_vars PROVE SweepInv'  OBVIOUS
<1>1. now' \in Nat /\ now <= now' /\ now \in Nat
  BY TimeMoves DEF SweepInv, Tick
<1>2. zone' \in -MaxShift..MaxShift  BY ZoneMoves DEF SweepInv, ZoneChanges
<1>3. updated' \in [Ids -> Int]
  <2>1. CASE Create \/ Edit
    <3>1. PICK k \in Ids, lag \in 0..CommitLag : updated' = [updated EXCEPT ![k] = now - lag]
      BY <2>1 DEF Create, Edit, Stamped, Existing
    <3>2. now - lag \in Int  BY <1>1
    <3> QED  BY <3>1, <3>2 DEF SweepInv
  <2>2. CASE updated' = updated  BY <2>2 DEF SweepInv
  <2> QED  BY <2>1, <2>2, ContentMoves DEF SilentEdit
<1>4. sweep \in AnySweep /\ Since \in Int /\ Since <= now  BY SinceIsPast DEF SweepInv
<1>5. CASE SweepGoes
  <2>1. sweep' \in AnySweep  BY <1>5 DEF SweepGoes
  <2>2. sweep'.since <= now'
    BY <1>1, <1>4, <1>5, <2>1 DEF SweepGoes, SweepInv, AnySweep
  <2>3. sweep'.after \in 0..MaxId  BY <1>5, MaxIdIsNatural DEF SweepGoes, SweepInv
  <2>4. sweep'.after > 0 => sweep'.started # None  BY <1>5 DEF SweepGoes, SweepInv
  <2>5. ~sweep'.known => sweep'.started = None
    BY <1>5 DEF SweepGoes, SweepInv
  <2>6. ASSUME sweep'.started # None
        PROVE  sweep'.since <= sweep'.started /\ sweep'.started <= now'
    <3>1. sweep'.started = sweep.started  BY <1>5, <2>6 DEF SweepGoes
    <3>2. sweep.known  BY <2>6, <3>1 DEF SweepInv
    <3>3. sweep'.since = sweep.since  BY <1>5, <3>2 DEF SweepGoes, Since
    <3>4. sweep.since <= sweep.started /\ sweep.started <= now /\ sweep.started \in Int
      BY <2>6, <3>1 DEF SweepInv, AnySweep
    <3> QED  BY <1>1, <3>1, <3>3, <3>4
  <2> QED  BY <1>1, <1>2, <1>3, <2>1, <2>2, <2>3, <2>4, <2>5, <2>6 DEF SweepInv
<1>6. CASE Sweep
  <2>1. PICK page \in SUBSET Visible, begun \in Int :
          Since <= begun /\ begun <= now /\ SweptTo(page, begun)
    BY <1>6, Swept
  <2>2. page # {} => Max(page) \in 0..MaxId
    <3>1. page \in SUBSET Ids  BY DEF Visible, Existing
    <3>2. Ids \subseteq 0..MaxId  BY MaxIdIsNatural DEF Ids
    <3> QED  BY <3>1, <3>2, MaxIsGreatest
  <2>3. sweep' \in AnySweep /\ sweep'.known  BY <2>1 DEF SweptTo
  <2>4. CASE sweep'.since = begun /\ sweep'.after = 0 /\ sweep'.started = None
    BY <1>1, <1>2, <1>3, <2>1, <2>3, <2>4, MaxIdIsNatural DEF SweepInv
  <2>5. CASE /\ page # {} /\ sweep'.since = Since /\ sweep'.after = Max(page)
             /\ sweep'.started = begun
    <3>1. begun # None  BY NoneAssumption
    <3>2. sweep'.since <= now'  BY <1>1, <1>4, <2>5
    <3>3. sweep'.since <= sweep'.started /\ sweep'.started <= now'  BY <1>1, <2>1, <2>5
    <3> QED  BY <1>1, <1>2, <1>3, <2>2, <2>3, <2>5, <3>1, <3>2, <3>3 DEF SweepInv
  <2> QED  BY <2>1, <2>4, <2>5 DEF SweptTo
<1> QED  BY <1>5, <1>6, SweepMoves

\* As long as the sweep has no watermark the backfill has read no head, or it
\* is known to have started blind.
BlindInv == ~sweep.known /\ ~seen.blind => walk.phase = "backfill" /\ walk.high = None

LEMMA BlindStep == KeptInv /\ SweepInv /\ WalkInv /\ BlindInv /\ [Next]_vars => BlindInv'
<1> SUFFICES ASSUME KeptInv, SweepInv, WalkInv, BlindInv, [Next]_vars,
                    ~sweep'.known, ~seen'.blind
             PROVE  walk'.phase = "backfill" /\ walk'.high = None
  BY DEF BlindInv
<1>1. ~sweep.known
  <2>1. ~Sweep  BY Swept DEF SweptTo
  <2> QED  BY <2>1, SweepMoves DEF SweepGoes
<1>2. walk.phase = "backfill" /\ walk.high = None /\ ~ReadHead
  <2>1. CASE ReadHead
    <3>1. walk.phase # "backfill"  BY <1>1, <2>1, HeadSeen
    <3>2. seen' = seen  BY <2>1, <3>1, HeadSeen
    <3> QED  BY <1>1, <3>1, <3>2 DEF BlindInv
  <2>2. CASE ~ReadHead  BY <1>1, <2>2, SeenStep DEF BlindInv
  <2> QED  BY <2>1, <2>2
<1>3. ~WalkRanges  BY <1>2, Zenon DEF WalkRanges
<1>4. ~WalkParked  BY <1>2 DEF WalkParked
<1>5. CASE WalkDemoted
  <2>1. walk' = [walk EXCEPT !.legacy = TRUE]  BY <1>5 DEF WalkDemoted
  <2>2. walk'.phase = walk.phase /\ walk'.high = walk.high
    BY <2>1 DEF WalkInv, AnyWalk
  <2> QED  BY <1>2, <2>2
<1> QED  BY <1>2, <1>3, <1>4, <1>5, OtherWalks DEF WalkMoves

-----------------------------------------------------------------------------
(* Nothing falls between the lanes. *)

Due(i) == BackfillOwes(i) \/ SweepOwes(i)
Sound == LanesRun /\ ~seen.narrowed /\ ~seen.blind

\* The dirty pass has to bring what its records are now, or another lane owes it.
PassOwed(i) == refresh.versions[i] >= bumped[i] \/ Due(i)

OwedInv ==
  Sound => /\ \A i \in Steady : content[i] > 0 => Mirrored(i) \/ Due(i) \/ i \in dirty
           /\ \A i \in Steady \cap refresh.present : PassOwed(i)

OwnInv ==
  /\ MirrorInv /\ HistoryInv /\ OrderInv /\ KeptInv
  /\ WalkInv /\ ReadInv /\ SweepInv /\ BlindInv

LEMMA OwnStep == OwnInv /\ [Next]_vars => OwnInv'
BY SafetyStep, HistoryStep, OrderStep, KeptStep, WalkStep, ReadStep, SweepStep, BlindStep
DEF OwnInv

\* A lane that has stopped stays stopped; a narrowed sweep is remembered.
LEMMA SoundBefore ==
  ASSUME OwnInv, [Next]_vars, Sound', ~(ReadHead /\ walk.phase = "backfill")
  PROVE  Sound
<1>1. seen'.blind = seen.blind /\ ~seen.blind
  BY HeadSeen, SeenStep DEF OwnInv, Sound
<1>2. ~seen.narrowed
  <2>1. CASE Sweep
    <3>1. seen' = [seen EXCEPT !.narrowed = @ \/ Narrowed]  BY <2>1 DEF Sweep
    <3> QED  BY <3>1 DEF OwnInv, KeptInv, AnySeen, Sound
  <2>2. CASE Hide
    <3>1. PICK i : seen' = [seen EXCEPT !.hidden = @ \cup {i}]  BY <2>2 DEF Hide
    <3> QED  BY <3>1 DEF OwnInv, KeptInv, AnySeen, Sound
  <2>3. CASE ReadHead
    <3>1. walk.phase # "backfill"  BY <2>3
    <3>2. seen' = seen  BY <2>3, <3>1, HeadSeen DEF OwnInv
    <3> QED  BY <3>2 DEF Sound
  <2>4. CASE seen' = seen  BY <2>4 DEF Sound
  <2> QED  BY <2>1, <2>2, <2>3, <2>4, SeenMoves
<1>3. ~sweep.parked
  BY SweepMoves, Swept DEF OwnInv, Sound, LanesRun, SweepGoes, SweptTo
<1>4. walk.phase # "backfill parked"
  <2> SUFFICES ASSUME walk.phase = "backfill parked" PROVE FALSE  OBVIOUS
  <2>1. ~Walking  BY DEF Walking
  <2>2. ~WalkMoves
    BY <2>1, Zenon DEF WalkMoves, ReadHead, WalkRanges, WalkParked, WalkDemoted
  <2> QED  BY <2>2, OtherWalks DEF Sound, LanesRun
<1> QED  BY <1>1, <1>2, <1>3, <1>4 DEF Sound, LanesRun

\* What the backfill owes in terms of its walk.
LEMMA BackfillOwesIs ==
  ASSUME WalkInv, NEW i \in Ids
  PROVE  BackfillOwes(i) <=> /\ walk.phase = "backfill"
                             /\ walk.high = None \/ OpenOwes(walk.next, walk.open, i)
<1>1. walk.open \in Seq(AnyRange)  BY DEF WalkInv, AnyWalk
<1>2. DOMAIN walk.open = 1..Len(walk.open)  BY <1>1, LenProperties
<1> QED  BY <1>2 DEF BackfillOwes, OpenOwes

\* A pass that goes on owes what it owed, one that starts again as well.
LEMMA SweepStillOwes ==
  ASSUME SweepInv, SweepGoes, sweep.known, NEW i \in Ids, updated'[i] = updated[i],
         SweepOwes(i)
  PROVE  SweepOwes(i)'
<1>1. /\ sweep'.known /\ Since = sweep.since /\ Since' = Since /\ Since \in Int
      /\ updated[i] \in Int
  BY DEF SweepGoes, Since, SweepInv, AnySweep
<1>2. CASE sweep'.after = sweep.after /\ sweep'.started = sweep.started
  BY <1>1, <1>2 DEF SweepOwes
<1>3. CASE sweep'.after = 0 /\ sweep'.started = None
  <2>1. i > sweep'.after  BY <1>3 DEF Ids
  <2>2. updated[i] >= Since - Overlap
    <3>1. CASE sweep.started # None /\ updated[i] >= sweep.started - Overlap
      <4>1. sweep.since <= sweep.started /\ sweep.started \in Int /\ Overlap \in Nat
        BY <3>1, ParametersAreNatural DEF SweepInv, AnySweep
      <4> QED  BY <1>1, <3>1, <4>1
    <3> QED  BY <3>1 DEF SweepOwes
  <2> QED  BY <1>1, <2>1, <2>2 DEF SweepOwes
<1> QED  BY <1>2, <1>3 DEF SweepGoes

\* The steps that read nothing owe what was owed.
LEMMA StillDue ==
  ASSUME OwnInv, [Next]_vars, ~Sweep, ~WalkRanges, ~ReadHead, Sound, Sound',
         NEW i \in Ids, updated'[i] = updated[i], Due(i)
  PROVE  Due(i)'
<1>1. BackfillOwes(i) => BackfillOwes(i)'
  <2>1. CASE WalkParked
    <3>1. walk.phase # "backfill"
      <4> SUFFICES ASSUME walk.phase = "backfill" PROVE FALSE  OBVIOUS
      <4>1. walk' = [walk EXCEPT !.phase = "backfill parked"]  BY <2>1 DEF WalkParked
      <4>2. walk'.phase = "backfill parked"  BY <4>1 DEF OwnInv, WalkInv, AnyWalk
      <4> QED  BY <4>2 DEF Sound, LanesRun
    <3> QED  BY <3>1 DEF BackfillOwes
  <2>2. CASE WalkDemoted
    <3>1. walk' = [walk EXCEPT !.legacy = TRUE]  BY <2>2 DEF WalkDemoted
    <3>2. /\ walk'.phase = walk.phase /\ walk'.high = walk.high
          /\ walk'.next = walk.next /\ walk'.open = walk.open
      BY <3>1 DEF OwnInv, WalkInv, AnyWalk
    <3> QED  BY <3>2 DEF BackfillOwes
  <2>3. CASE walk' = walk  BY <2>3 DEF BackfillOwes
  <2> QED  BY <2>1, <2>2, <2>3, OtherWalks DEF WalkMoves
<1>2. CASE ~sweep.known
  <2>1. BackfillOwes(i)  BY <1>2 DEF OwnInv, BlindInv, Sound, BackfillOwes
  <2> QED  BY <1>1, <2>1 DEF Due
<1>3. CASE sweep.known
  <2>1. SweepGoes  BY SweepMoves DEF OwnInv
  <2>2. SweepOwes(i) => SweepOwes(i)'  BY <1>3, <2>1, SweepStillOwes DEF OwnInv
  <2> QED  BY <1>1, <2>2 DEF Due
<1> QED  BY <1>2, <1>3

LEMMA MirroredStays ==
  ASSUME OwnInv, [Next]_vars, NEW i \in Steady, bumped'[i] = bumped[i], Mirrored(i)
  PROVE  Mirrored(i)'
<1>1. row[i].kind = "live" /\ row[i].content >= bumped[i]  BY DEF Mirrored
<1>2. i \in Ids /\ bumped[i] \in Nat /\ row[i].content \in Nat
  BY DEF Steady, OwnInv, HistoryInv, MirrorInv, RowInv, AnyRow
<1>3. CASE row'[i] = row[i]  BY <1>1, <1>3 DEF Mirrored
<1>4. CASE \E c \in Nat \ {0} : row[i].content <= c /\ row'[i] = Cache!Copy(c, FALSE)
  <2>1. PICK c \in Nat : row[i].content <= c /\ row'[i] = Cache!Copy(c, FALSE)  BY <1>4
  <2>2. row'[i].kind = "live" /\ row'[i].content = c  BY <2>1 DEF Cache!Copy
  <2>3. c >= bumped[i]  BY <1>1, <1>2, <2>1
  <2> QED  BY <2>2, <2>3 DEF Mirrored
<1> QED  BY <1>3, <1>4, SteadyRows DEF OwnInv

\* What is stored from a page is mirrored.
LEMMA StoredIsMirrored ==
  ASSUME OwnInv, NEW pages \in SUBSET Visible, row' = Stored(pages), bumped' = bumped,
         NEW i \in Steady, i \in pages
  PROVE  Mirrored(i)'
<1>1. i \in Ids /\ i \notin Refused  BY DEF Steady
<1>2. row[i].kind # "deleted"  BY DEF OwnInv, KeptInv
<1>3. row'[i] = Cache!Copy(content[i], FALSE)  BY <1>1, <1>2 DEF Stored, Upserted
<1>4. row'[i].kind = "live" /\ row'[i].content = content[i]  BY <1>3 DEF Cache!Copy
<1> QED
  BY <1>1, <1>4 DEF Mirrored, OwnInv, HistoryInv, MirrorInv, RecordInv

\* What the sweep asks for holds all that it owes above its cursor.
LEMMA SweepAsksForWhatItOwes ==
  ASSUME SweepInv, ~Narrowed, NEW i \in Visible, i > sweep.after,
         updated[i] >= Since - Overlap
  PROVE  updated[i] >= Bound - zone
<1>1. /\ Since \in Int /\ Overlap \in Nat /\ MaxShift \in Nat /\ zone \in Int
      /\ -MaxShift <= zone /\ updated[i] \in Int /\ sweep.shift \in Int \cup {None}
  BY SinceIsPast, ParametersAreNatural DEF SweepInv, AnySweep, Visible, Existing
<1>2. CASE sweep.shift = None
  <2>1. Bound = Since - Overlap - MaxShift  BY <1>2 DEF Bound
  <2> QED  BY <1>1, <2>1
<1>3. CASE sweep.shift # None
  <2>1. Bound = Since - Overlap + sweep.shift  BY <1>3 DEF Bound
  <2>2. sweep.shift \in Int /\ sweep.shift <= zone  BY <1>1, <1>3 DEF Narrowed
  <2> QED  BY <1>1, <2>1, <2>2
<1> QED  BY <1>2, <1>3

LEMMA SweepDue ==
  ASSUME OwnInv, [Next]_vars, Sweep, ~Narrowed, NEW i \in Steady, content[i] > 0, Due(i)
  PROVE  Due(i)' \/ Mirrored(i)'
<1>1. PICK page \in SUBSET Visible, begun \in Int :
        /\ page = SweepPage /\ row' = Stored(page)
        /\ begun = (IF sweep.started = None THEN now ELSE sweep.started)
        /\ Since <= begun /\ begun <= now
        /\ SweptTo(page, begun)
  BY Swept DEF OwnInv
<1>2. UNCHANGED <<walk, bumped, updated, now>>
  BY DEF Sweep, portalVars, recordVars
<1>3. i \in Visible /\ i \in Ids /\ i \in Nat /\ i > 0
  BY DEF Steady, OwnInv, KeptInv, Visible, Existing, Ids
<1>4. CASE BackfillOwes(i)  BY <1>2, <1>4 DEF Due, BackfillOwes
<1>5. CASE i \in page
  <2>1. bumped' = bumped  BY <1>2
  <2> QED  BY <1>1, <1>5, <2>1, StoredIsMirrored
<1>6. CASE SweepOwes(i) /\ i \notin page
  <2> DEFINE asked == {j \in Visible : j > sweep.after /\ updated[j] >= Bound - zone}
  <2>1. page = Lowest(asked, PageSize) /\ asked \in SUBSET Ids
    BY <1>1 DEF SweepPage, Visible, Existing
  <2>2. /\ page \subseteq asked
        /\ \A x \in page, y \in asked : y <= x => y \in page
        /\ Cardinality(page) < PageSize => page = asked
    <3> HIDE DEF asked
    <3> QED  BY <2>1, LowestIsLow, ShortPageIsAll, ParametersAreNatural
  <2>3. i > sweep.after /\ updated[i] >= Since - Overlap => i \in asked
    BY <1>3, SweepAsksForWhatItOwes DEF OwnInv
  <2> HIDE DEF asked
  <2>4. sweep'.known /\ Since' = sweep'.since  BY <1>1 DEF SweptTo, Since
  <2>5. CASE /\ Cardinality(page) < PageSize
             /\ sweep'.since = begun /\ sweep'.after = 0 /\ sweep'.started = None
    <3>1. ~(i > sweep.after /\ updated[i] >= Since - Overlap)  BY <1>6, <2>2, <2>3, <2>5
    <3>2. sweep.started # None /\ updated[i] >= sweep.started - Overlap
      BY <1>6, <3>1 DEF SweepOwes
    <3>3. begun = sweep.started  BY <1>1, <3>2
    <3>4. i > sweep'.after /\ updated'[i] >= Since' - Overlap
      BY <1>2, <1>3, <2>4, <2>5, <3>2, <3>3
    <3> QED  BY <3>4 DEF Due, SweepOwes
  <2>6. CASE /\ page # {}
             /\ sweep'.since = Since /\ sweep'.after = Max(page) /\ sweep'.started = begun
    <3>1. CASE i > sweep.after /\ updated[i] >= Since - Overlap
      <4>1. page \in SUBSET Ids  BY <2>1, <2>2
      <4>2. PICK last \in Ids : last = Max(page) /\ last \in page
        BY <2>6, <4>1, MaxIsGreatest
      <4>3. ~(i <= last)  BY <1>6, <2>2, <2>3, <3>1, <4>2
      <4>4. last \in Nat  BY DEF Ids
      <4>5. i > last  BY <1>3, <4>3, <4>4
      <4>6. i > sweep'.after /\ updated'[i] >= Since' - Overlap
        BY <1>2, <2>4, <2>6, <3>1, <4>2, <4>5
      <4> QED  BY <4>6 DEF Due, SweepOwes
    <3>2. CASE sweep.started # None /\ updated[i] >= sweep.started - Overlap
      <4>1. begun = sweep.started /\ begun # None  BY <1>1, <3>2
      <4> QED  BY <1>2, <2>6, <3>2, <4>1 DEF Due, SweepOwes
    <3> QED  BY <1>6, <3>1, <3>2 DEF SweepOwes
  <2> QED  BY <1>1, <2>5, <2>6 DEF SweptTo
<1> QED  BY <1>4, <1>5, <1>6 DEF Due

LEMMA BatchDue ==
  ASSUME OwnInv, [Next]_vars, WalkRanges, NEW i \in Steady, content[i] > 0, Due(i)
  PROVE  Due(i)' \/ Mirrored(i)'
<1>1. UNCHANGED <<sweep, bumped, updated, now>>
  BY Zenon DEF WalkRanges, portalVars, recordVars
<1>2. i \in Visible /\ i \in Ids
  BY DEF Steady, OwnInv, KeptInv, Visible, Existing
<1>3. CASE SweepOwes(i)  BY <1>1, <1>3 DEF Due, SweepOwes, Since
<1>4. CASE BackfillOwes(i)
  <2>1. walk.high # None  BY Zenon DEF WalkRanges
  <2>2. PICK pages \in SUBSET Visible, next \in Nat \ {0}, left \in Seq(AnyRange),
           covered \in Nat :
          /\ row' = Stored(pages) /\ WalkBecomes(Batch(next, left, covered))
          /\ Tiles(left, covered, next)
          /\ \A j \in Visible : Reads(covered, left, j) =>
               j \in pages \/ Reads(walk.covered, walk.open, j)
    BY BatchReads DEF Batch, OwnInv
  <2>3. PICK w : w = Batch(next, left, covered)  OBVIOUS
  <2>4. /\ w \in AnyWalk /\ w.next = next /\ w.open = left
        /\ w.covered = covered /\ w.high = walk.high /\ w.phase = walk.phase
        /\ w.width > 0 /\ w.high # None /\ w.phase # "done"
    BY <2>1, <2>3, BatchIsAWalk DEF OwnInv
  <2>5. walk.phase = "backfill" /\ OpenOwes(walk.next, walk.open, i)
    BY <1>2, <1>4, <2>1, BackfillOwesIs DEF OwnInv
  <2>6. ~Reads(walk.covered, walk.open, i)
    BY <1>2, <2>1, <2>5, ReadOrToCome DEF OwnInv, WalkInv
  <2>7. CASE i \in pages
    <3>1. bumped' = bumped  BY <1>1
    <3> QED  BY <2>2, <2>7, <3>1, StoredIsMirrored
  <2>8. CASE i \notin pages
    <3>1. ~Reads(covered, left, i)  BY <1>2, <2>2, <2>6, <2>8
    <3>2. OpenOwes(next, left, i)  BY <1>2, <2>2, <3>1, ReadOrToCome
    <3>3. ~Finished(w)  BY <1>2, <2>2, <2>4, <3>1, FinishedReadsAll
    <3>4. walk' = w /\ WalkInv'  BY <2>2, <2>3, <2>4, <3>3, Becoming
    <3>5. walk'.phase = "backfill" /\ OpenOwes(walk'.next, walk'.open, i)
      BY <2>4, <2>5, <3>2, <3>4
    <3>6. DOMAIN left = 1..Len(left)  BY <2>2, LenProperties
    <3>7. BackfillOwes(i)'
      BY <2>4, <3>4, <3>5, <3>6 DEF BackfillOwes, OpenOwes
    <3> QED  BY <3>7 DEF Due
  <2> QED  BY <2>7, <2>8
<1> QED  BY <1>3, <1>4 DEF Due

\* Once the head is read, everything below it is to come.
LEMMA HeadDue ==
  ASSUME OwnInv, ReadHead, walk.phase = "backfill", NEW i \in Steady, content[i] > 0
  PROVE  Due(i)'
<1>1. i \in Visible /\ i \in Ids /\ i \in Nat /\ i > 0
  BY DEF Steady, OwnInv, KeptInv, Visible, Existing, Ids
<1>2. PICK high \in 0..MaxId, w \in AnyWalk :
        /\ high = Greatest(Visible) /\ WalkBecomes(w)
        /\ Tiles(w.open, w.covered, w.next)
        /\ w.width > 0 /\ w.high = high /\ w.next = high + 1
        /\ w.phase = "backfill"
  BY HeadRead DEF OwnInv
<1>3. i <= high
  <2>1. Visible \in SUBSET (1..MaxId)  BY DEF Visible, Existing, Ids
  <2> QED  BY <1>1, <1>2, <2>1, GreatestUpTo, MaxIdIsNatural
<1>4. high \in Nat /\ high # None  BY NoneAssumption, MaxIdIsNatural
<1>5. ~Finished(w)  BY <1>1, <1>2, <1>3, <1>4 DEF Finished
<1>6. walk' = w  BY <1>2, <1>4, <1>5, Becoming
<1>7. walk'.phase = "backfill" /\ i < walk'.next  BY <1>1, <1>2, <1>3, <1>4, <1>6
<1> QED  BY <1>7 DEF Due, BackfillOwes

LEMMA TouchedIsDue ==
  ASSUME OwnInv, NEW i \in Ids, Touched(i)
  PROVE  Due(i)'
<1>1. /\ updated'[i] \in Int /\ updated'[i] >= now - Overlap /\ now' = now /\ sweep' = sweep
      /\ now \in Nat /\ Overlap \in Nat /\ i \in Nat /\ sweep.after \in Nat
  BY ParametersAreNatural DEF Touched, OwnInv, SweepInv, AnySweep, Ids
<1>2. CASE i > sweep.after
  <2>1. Since' = Since /\ Since \in Int /\ Since <= now
    BY <1>1, SinceIsPast DEF Since, OwnInv
  <2>2. updated'[i] >= Since' - Overlap  BY <1>1, <2>1
  <2> QED  BY <1>1, <1>2, <2>2 DEF Due, SweepOwes
<1>3. CASE ~(i > sweep.after)
  <2>1. sweep.after > 0  BY <1>1, <1>3 DEF Ids
  <2>2. sweep.started # None /\ sweep.started <= now /\ sweep.started \in Int
    BY <2>1 DEF OwnInv, SweepInv, AnySweep
  <2>3. updated'[i] >= sweep'.started - Overlap  BY <1>1, <2>2
  <2> QED  BY <1>1, <2>2, <2>3 DEF Due, SweepOwes
<1> QED  BY <1>2, <1>3

\* Who is owed a record is not forgotten: it is still owed, or in the mirror.
LEMMA DueStep ==
  ASSUME OwnInv, [Next]_vars, Sound', NEW i \in Steady, content[i] > 0,
         updated'[i] = updated[i], Due(i)
  PROVE  Due(i)' \/ Mirrored(i)'
<1>1. i \in Ids  BY DEF Steady
<1>2. CASE ReadHead /\ walk.phase = "backfill"  BY <1>2, HeadDue
<1>3. CASE ~(ReadHead /\ walk.phase = "backfill")
  <2>1. Sound  BY <1>3, SoundBefore
  <2>2. CASE Sweep
    <3>1. ~Narrowed
      <4>1. seen' = [seen EXCEPT !.narrowed = @ \/ Narrowed]  BY <2>2 DEF Sweep
      <4> QED  BY <4>1 DEF OwnInv, KeptInv, AnySeen, Sound
    <3> QED  BY <2>2, <3>1, SweepDue
  <2>3. CASE WalkRanges  BY <2>3, BatchDue
  <2>4. CASE ReadHead
    <3>1. walk.phase # "backfill"  BY <1>3, <2>4
    <3>2. SweepOwes(i)  BY <3>1 DEF Due, BackfillOwes
    <3>3. UNCHANGED <<sweep, now>>  BY <2>4, Zenon DEF ReadHead
    <3> QED  BY <3>2, <3>3 DEF Due, SweepOwes, Since
  <2>5. CASE ~Sweep /\ ~WalkRanges /\ ~ReadHead  BY <1>1, <2>1, <2>5, StillDue
  <2> QED  BY <2>2, <2>3, <2>4, <2>5
<1> QED  BY <1>2, <1>3

\* A mark is dropped with the row that is stored, or with the record.
LEMMA MarksStay ==
  ASSUME OwnInv, [Next]_vars, NEW i \in Steady', i \in dirty, ~StoreRows
  PROVE  i \in dirty'
<1>1. CASE dirty' = dirty  BY <1>1
<1>2. CASE ListLeaves
  <2>1. PICK more : dirty' = dirty \cup more  BY <1>2, Zenon DEF ListLeaves
  <2> QED  BY <2>1
<1>3. CASE StoreRest
  <2>1. PICK absent \in {refresh.absent, {}} : dirty' = dirty \ (absent \cup refresh.denied)
    BY <1>3 DEF StoreRest
  <2>2. i \in Steady  BY SteadyShrinks DEF OwnInv
  <2>3. i \notin absent /\ i \notin refresh.denied
    BY <2>2 DEF Steady, OwnInv, MirrorInv, PassInv, KeptInv
  <2> QED  BY <2>1, <2>3
<1>4. dirty' = dirty \/ ListLeaves \/ StoreRest
  BY DEF Next, vars, mirrorVars, ClockAges, Tick, Portal, Create, Edit, SilentEdit, Delete,
    Hide, Show, ZoneChanges, SweepLane, Measure, Sweep, SweepDisagrees, SweepDemoted,
    WalkLane, ReadHead, WalkRanges, DirtyLane, DirtyList, ConfirmAbsent, ReconLane,
    ReconStart, CountRanges, ReconFinish, Setbacks, WalkParked, WalkDemoted, ReconParked,
    PassAbandoned, Forget, Evict
<1> QED  BY <1>1, <1>2, <1>3, <1>4

\* What the pass stores is mirrored, unless it has become old in the meantime.
LEMMA StoredRowsAreMirrored ==
  ASSUME OwnInv, StoreRows, NEW i \in Steady \cap refresh.present,
         refresh.versions[i] >= bumped[i]
  PROVE  Mirrored(i)'
<1>1. i \in Ids /\ row[i].kind # "deleted" /\ i \notin Refused
  BY DEF Steady, OwnInv, KeptInv
<1>2. row'[i] = Cache!Copy(refresh.versions[i], FALSE)  BY <1>1 DEF StoreRows, Upserted
<1>3. row'[i].kind = "live" /\ row'[i].content = refresh.versions[i]
  BY <1>2 DEF Cache!Copy
<1>4. bumped' = bumped  BY DEF StoreRows, Upserted, portalVars, recordVars
<1> QED  BY <1>3, <1>4 DEF Mirrored

LEMMA MirrorOrDue ==
  ASSUME OwnInv, OwedInv, [Next]_vars, Sound', NEW i \in Steady', content'[i] > 0
  PROVE  Mirrored(i)' \/ Due(i)' \/ i \in dirty'
<1>1. i \in Steady /\ i \in Ids  BY SteadyShrinks DEF OwnInv, Steady
<1>2. content[i] \in Nat  BY <1>1 DEF OwnInv, MirrorInv, RecordInv
<1>3. CASE Touched(i)  BY <1>1, <1>3, TouchedIsDue
<1>4. CASE Untouched(i) /\ ~(ReadHead /\ walk.phase = "backfill")
  <2>1. content[i] > 0 /\ bumped'[i] = bumped[i] /\ updated'[i] = updated[i]
    BY <1>2, <1>4 DEF Untouched
  <2>2. Sound  BY <1>4, SoundBefore
  <2>3. CASE Mirrored(i)  BY <1>1, <2>1, <2>3, MirroredStays
  <2>4. CASE Due(i)  BY <1>1, <2>1, <2>4, DueStep
  <2>5. CASE i \in dirty
    <3>1. CASE ~StoreRows  BY <2>5, <3>1, MarksStay
    <3>2. CASE StoreRows /\ i \notin refresh.present  BY <2>5, <3>2 DEF StoreRows, Upserted
    <3>3. CASE StoreRows /\ i \in refresh.present
      <4>1. CASE refresh.versions[i] >= bumped[i]
        BY <1>1, <3>3, <4>1, StoredRowsAreMirrored
      <4>2. CASE Due(i)  BY <1>1, <2>1, <4>2, DueStep
      <4> QED  BY <1>1, <2>2, <3>3, <4>1, <4>2 DEF OwedInv, PassOwed
    <3> QED  BY <3>1, <3>2, <3>3
  <2> QED  BY <1>1, <2>1, <2>2, <2>3, <2>4, <2>5 DEF OwedInv
<1>5. CASE Untouched(i) /\ ReadHead /\ walk.phase = "backfill"
  <2>1. content[i] > 0  BY <1>2, <1>5 DEF Untouched
  <2> QED  BY <1>1, <1>5, <2>1, HeadDue
<1> QED  BY <1>1, <1>3, <1>4, <1>5, TouchedOrNot DEF OwnInv

LEMMA NoPassHoldsNothing == NoPass.present = {}
BY DEF NoPass

\* The records of the pass are owed for as long as it is at work.
LEMMA PassOwedStep ==
  ASSUME OwnInv, OwedInv, [Next]_vars, Sound', NEW i \in Steady' \cap refresh'.present
  PROVE  PassOwed(i)'
<1>1. i \in Steady /\ i \in Ids  BY SteadyShrinks DEF OwnInv, Steady
<1>2. CASE DirtyList
  <2>1. PICK items \in SUBSET dirty :
          refresh' = [NoPass EXCEPT !.stage = "listed", !.items = items,
                        !.present = items \cap Visible,
                        !.versions = [j \in items \cap Visible |-> content[j]],
                        !.missing = items \ Visible]
    BY <1>2 DEF DirtyList
  <2>2. /\ refresh'.present = items \cap Visible
        /\ refresh'.versions = [j \in items \cap Visible |-> content[j]]
    BY <2>1 DEF NoPass
  <2>3. refresh'.versions[i] = content[i]  BY <2>2
  <2>4. bumped' = bumped  BY <1>2 DEF DirtyList, portalVars, recordVars
  <2>5. content[i] >= bumped[i]
    BY <1>1 DEF OwnInv, HistoryInv, MirrorInv, RecordInv
  <2> QED  BY <2>3, <2>4, <2>5 DEF PassOwed
<1>3. CASE /\ refresh'.present = refresh.present /\ refresh'.versions = refresh.versions
           /\ refresh.present # {}
  <2>1. ~Sweep /\ ~WalkRanges /\ ~ReadHead
    <3>1. refresh # NoPass  BY <1>3, NoPassHoldsNothing
    <3> QED  BY <3>1, Zenon DEF Sweep, ReadyToSweep, Sweepable, WalkRanges, ReadHead, Walking,
           Between
  <2>2. Sound  BY <2>1, SoundBefore
  <2>3. PassOwed(i)  BY <1>1, <1>3, <2>2 DEF OwedInv
  <2>4. CASE Touched(i)  BY <1>1, <2>4, TouchedIsDue DEF PassOwed
  <2>5. CASE Untouched(i)
    <3>1. bumped'[i] = bumped[i] /\ updated'[i] = updated[i]  BY <2>5 DEF Untouched
    <3>2. CASE refresh.versions[i] >= bumped[i]  BY <1>3, <3>1, <3>2 DEF PassOwed
    <3>3. CASE Due(i)
      BY <1>1, <2>1, <2>2, <3>1, <3>3, StillDue DEF PassOwed
    <3> QED  BY <2>3, <3>2, <3>3 DEF PassOwed
  <2> QED  BY <1>1, <2>4, <2>5, TouchedOrNot DEF OwnInv
<1>4. CASE StoreRest \/ PassAbandoned
  <2>1. refresh'.present = {}
    BY <1>4, NoPassHoldsNothing DEF StoreRest, PassAbandoned
  <2> QED  BY <2>1
<1>5. CASE ConfirmAbsent \/ StoreRows
  <2>1. IsPass(refresh)  BY DEF OwnInv, MirrorInv, PassInv
  <2>2. CASE ConfirmAbsent
    <3>1. PICK absent, denied :
            refresh' = [refresh EXCEPT !.stage = "confirmed", !.absent = absent,
                                       !.denied = denied]
      BY <2>2 DEF ConfirmAbsent
    <3>2. refresh'.present = refresh.present /\ refresh'.versions = refresh.versions
      BY <2>1, <3>1 DEF IsPass
    <3> QED  BY <1>3, <3>2
  <2>3. CASE StoreRows
    <3>1. refresh' = [refresh EXCEPT !.stage = "stored"]  BY <2>3 DEF StoreRows, Upserted
    <3>2. refresh'.present = refresh.present /\ refresh'.versions = refresh.versions
      BY <2>1, <3>1 DEF IsPass
    <3> QED  BY <1>3, <3>2
  <2> QED  BY <1>5, <2>2, <2>3
<1>6. CASE refresh' = refresh
  BY <1>3, <1>6
<1> QED  BY <1>2, <1>4, <1>5, <1>6, PassMoves DEF DirtyLane

LEMMA OwedStep == OwnInv /\ OwedInv /\ [Next]_vars => OwedInv'
BY MirrorOrDue, PassOwedStep DEF OwedInv

\* What the lanes promise, in terms of the property.
LEMMA OwedIsOwed == OwnInv /\ OwedInv => EditsOwed
<1> SUFFICES ASSUME OwnInv, OwedInv, Sound, NEW i \in Readable
             PROVE  Mirrored(i) \/ Owed(i)
  BY DEF EditsOwed, Sound
<1>1. i \in Steady /\ content[i] > 0  BY DEF Steady, Readable, Visible, Existing
<1> QED  BY <1>1 DEF OwedInv, Owed, Due

-----------------------------------------------------------------------------
(* Types. *)

\* Numbers stay within the bounds of the model.
CountInv ==
  /\ now \in 1..MaxTime /\ changes \in 0..MaxChanges
  /\ \A i \in Ids : content[i] <= changes + 1
  /\ updated \in [Ids -> Int] /\ \A i \in Ids : 0 <= updated[i] /\ updated[i] <= now

\* Only a live row has contents.
PlainRows ==
  {Cache!NoRow, Cache!Tombstone, Cache!Evicted}
  \cup {Cache!Copy(c, u) : c \in Nat \ {0}, u \in BOOLEAN}
ShapeInv == \A i \in Ids : row[i] \in PlainRows

\* Only records that were created are queued.
QueueInv == dirty \subseteq Ids /\ \A i \in dirty : content[i] > 0

LEMMA TimeIsBounded ==
  ASSUME now \in 1..MaxTime, [Next]_vars
  PROVE  now' \in 1..MaxTime /\ now <= now'
<1>1. MaxTime \in Nat  BY ParametersAreNatural
<1> QED  BY <1>1, TimeMoves DEF Tick

LEMMA CountStep == OwnInv /\ CountInv /\ [Next]_vars => CountInv'
<1> SUFFICES ASSUME OwnInv, CountInv, [Next]_vars PROVE CountInv'  OBVIOUS
<1>1. now' \in 1..MaxTime /\ now <= now' /\ now \in Nat /\ now' \in Nat
  BY TimeIsBounded, ParametersAreNatural DEF CountInv
<1>2. changes' = changes \/ (changes' = changes + 1 /\ changes < MaxChanges)
  BY DEF Next, vars, ChangeCounted, ClockAges, Tick, Portal, Create, Edit, SilentEdit, Delete,
    Hide, Show, ZoneChanges, SweepLane, Measure, Sweep, SweepDisagrees, SweepDemoted,
    WalkLane, ReadHead, WalkRanges, DirtyLane, DirtyList, ConfirmAbsent, StoreRows, StoreRest,
    ReconLane, ReconStart, CountRanges, ListLeaves, ReconFinish, Setbacks, WalkParked,
    WalkDemoted, ReconParked, PassAbandoned, Forget, Evict
<1>3. changes' \in 0..MaxChanges /\ changes \in Nat /\ changes <= changes'
  BY <1>2, ParametersAreNatural DEF CountInv
<1>4. content \in [Ids -> Nat]  BY DEF OwnInv, MirrorInv, RecordInv
<1>5. \A i \in Ids : content'[i] <= changes' + 1
  <2>1. CASE content' = content  BY <1>3, <1>4, <2>1 DEF CountInv
  <2>2. CASE Create \/ Edit \/ SilentEdit
    <3>1. changes' = changes + 1  BY <2>2 DEF Create, Edit, SilentEdit, ChangeCounted
    <3>2. PICK k \in Ids : content' = [content EXCEPT ![k] = content[k] + 1]
      BY <2>2 DEF Create, Edit, SilentEdit, Existing
    <3> QED  BY <1>3, <1>4, <3>1, <3>2 DEF CountInv
  <2> QED  BY <2>1, <2>2, ContentMoves
<1>6. /\ updated' \in [Ids -> Int]
      /\ \A i \in Ids : 0 <= updated'[i] /\ updated'[i] <= now'
  <2>1. CASE updated' = updated  BY <1>1, <2>1 DEF CountInv
  <2>2. CASE Create \/ Edit
    <3>1. PICK k \in Ids, lag \in 0..CommitLag :
            lag <= now /\ updated' = [updated EXCEPT ![k] = now - lag]
      BY <2>2 DEF Create, Edit, Stamped, Existing
    <3>2. PICK at \in Nat : at = now - lag /\ at <= now'
      <4>1. lag \in Nat  BY ParametersAreNatural
      <4> QED  BY <1>1, <3>1, <4>1
    <3>3. updated' = [updated EXCEPT ![k] = at]  BY <3>1, <3>2
    <3> QED  BY <1>1, <3>2, <3>3 DEF CountInv
  <2> QED  BY <2>1, <2>2, ContentMoves DEF SilentEdit
<1> QED  BY <1>1, <1>3, <1>5, <1>6 DEF CountInv

LEMMA ShapeStep == MirrorInv /\ ShapeInv /\ [Next]_vars => ShapeInv'
<1> SUFFICES ASSUME MirrorInv, ShapeInv, [Next]_vars, NEW i \in Ids
             PROVE  row'[i] \in PlainRows
  BY DEF ShapeInv
<1>1. row[i] \in PlainRows  BY DEF ShapeInv
<1>2. [Cache!CacheNext]_Cache!cacheVars  BY StepMaps
<1>3. CASE row' = row  BY <1>1, <1>3
<1>4. CASE Cache!RowsFollow
  <2>1. Cache!Follows(i, row'[i])  BY <1>4 DEF Cache!RowsFollow
  <2>2. \A c \in row[i].content..content[i] : c > 0 => c \in Nat \ {0}  OBVIOUS
  <2> QED  BY <1>1, <2>1, <2>2 DEF Cache!Follows, PlainRows
<1> QED  BY <1>2, <1>3, <1>4 DEF Cache!CacheNext, Cache!RecordChanges, Cache!cacheVars

LEMMA QueueStep == MirrorInv /\ QueueInv /\ [Next]_vars => QueueInv'
<1> SUFFICES ASSUME MirrorInv, QueueInv, [Next]_vars PROVE QueueInv'  OBVIOUS
<1>1. \A i \in Ids : content[i] \in Nat /\ content'[i] \in Nat /\ content'[i] >= content[i]
  BY RecordsStay
<1>2. CASE dirty' \subseteq dirty  BY <1>1, <1>2 DEF QueueInv
<1>3. CASE ListLeaves
  <2>1. ASSUME NEW i \in dirty', i \notin dirty PROVE i \in LocalIds \cup Visible
    <3> DEFINE leaves == SubSeq(recon.leaves, 1, FirstOf(recon.leaves))
    <3>4. PICK failed \in SUBSET DOMAIN leaves :
            LET after == [n \in DOMAIN leaves |-> Advanced(leaves[n], n \in failed)] IN
            dirty' = dirty \cup UNION
              {DifferingIds({j \in LocalIds :
                   leaves[n].cursor < j
                   /\ j <= IF after[n].done THEN leaves[n].hi - 1 ELSE after[n].cursor},
                 Page(leaves[n].cursor, leaves[n].hi)) : n \in DOMAIN leaves \ failed}
      BY <1>3, Zenon DEF ListLeaves
    <3> HIDE DEF leaves
    <3>1. PICK after :
            dirty' = dirty \cup UNION
              {DifferingIds({j \in LocalIds :
                   leaves[n].cursor < j
                   /\ j <= IF after[n].done THEN leaves[n].hi - 1 ELSE after[n].cursor},
                 Page(leaves[n].cursor, leaves[n].hi)) : n \in DOMAIN leaves \ failed}
      BY <3>4, Zenon
    <3>2. PICK n \in DOMAIN leaves \ failed :
            i \in DifferingIds({j \in LocalIds :
                   leaves[n].cursor < j
                   /\ j <= IF after[n].done THEN leaves[n].hi - 1 ELSE after[n].cursor},
                 Page(leaves[n].cursor, leaves[n].hi))
      BY <2>1, <3>1
    <3>3. Page(leaves[n].cursor, leaves[n].hi) \subseteq Visible  BY DEF Page, Lowest
    <3> QED  BY <3>2, <3>3, Zenon DEF DifferingIds
  <2>2. \A i \in LocalIds \cup Visible : i \in Ids /\ content[i] > 0
    BY DEF LocalIds, LiveRows, Visible, Existing, MirrorInv, RowInv, RecordInv, AnyRow
  <2> QED  BY <1>1, <2>1, <2>2 DEF QueueInv
<1>4. dirty' \subseteq dirty \/ ListLeaves
  BY DEF Next, vars, mirrorVars, ClockAges, Tick, Portal, Create, Edit, SilentEdit, Delete,
    Hide, Show, ZoneChanges, SweepLane, Measure, Sweep, SweepDisagrees, SweepDemoted,
    WalkLane, ReadHead, WalkRanges, DirtyLane, DirtyList, ConfirmAbsent, StoreRows, StoreRest,
    ReconLane, ReconStart, CountRanges, ReconFinish, Setbacks, WalkParked, WalkDemoted,
    ReconParked, PassAbandoned, Forget, Evict
<1> QED  BY <1>2, <1>3, <1>4

TypeInv == OwnInv /\ CountInv /\ ShapeInv /\ QueueInv

LEMMA TypesFollow == TypeInv => TypeOK
<1> SUFFICES ASSUME TypeInv PROVE TypeOK  OBVIOUS
<1> USE DEF TypeInv
<1>1. content \in [Ids -> 0..(MaxChanges + 1)] /\ bumped \in [Ids -> 0..(MaxChanges + 1)]
  <2>1. content \in [Ids -> Nat] /\ bumped \in [Ids -> Nat]
    BY DEF OwnInv, MirrorInv, RecordInv, HistoryInv
  <2>2. \A i \in Ids : content[i] <= MaxChanges + 1 /\ bumped[i] <= content[i]
    BY <2>1, ParametersAreNatural DEF CountInv, OwnInv, HistoryInv
  <2> QED  BY <2>1, <2>2, ParametersAreNatural
<1>2. updated \in [Ids -> 0..MaxTime]
  BY ParametersAreNatural DEF CountInv
<1>3. gone \subseteq Ids /\ hidden \subseteq Ids /\ dirty \subseteq Ids
  BY DEF OwnInv, MirrorInv, RecordInv, KeptInv, AnySeen, QueueInv
<1>4. row \in [Ids -> Rows]
  <2>1. ASSUME NEW i \in Ids PROVE row[i] \in Rows
    <3>1. row[i] \in PlainRows /\ row[i].content <= MaxChanges + 1
      <4>1. row[i].content <= content[i] /\ content[i] <= MaxChanges + 1
            /\ row[i].content \in Nat /\ content[i] \in Nat
        BY <1>1 DEF OwnInv, MirrorInv, RowInv, RecordInv, AnyRow
      <4> QED  BY <4>1, ParametersAreNatural DEF ShapeInv
    <3>2. CASE row[i] \in {Cache!NoRow, Cache!Tombstone, Cache!Evicted}
      BY <3>2 DEF Rows
    <3>3. CASE \E c \in Nat \ {0}, u \in BOOLEAN : row[i] = Cache!Copy(c, u)
      <4>1. PICK c \in Nat \ {0}, u \in BOOLEAN : row[i] = Cache!Copy(c, u)  BY <3>3
      <4>2. c \in 1..(MaxChanges + 1)
        BY <3>1, <4>1, ParametersAreNatural DEF Cache!Copy
      <4> QED  BY <4>1, <4>2 DEF Rows
    <3> QED  BY <3>1, <3>2, <3>3 DEF PlainRows
  <2> QED  BY <2>1 DEF OwnInv, MirrorInv, RowInv
<1>5. sweep.since <= now /\ sweep.after \in 0..MaxId  BY DEF OwnInv, SweepInv
<1>6. \A n \in DOMAIN walk.open :
        LET r == walk.open[n] IN r.lo < r.hi /\ r.cursor \in (r.lo - 1)..(r.hi - 1)
  <2>1. CASE walk.high = None
    <3>1. walk.open = <<>>  BY <2>1 DEF OwnInv, WalkInv
    <3> QED  BY <3>1
  <2>2. CASE walk.high # None
    <3>1. Tiles(walk.open, walk.covered, walk.next)  BY <2>2 DEF OwnInv, WalkInv
    <3>2. DOMAIN walk.open = 1..Len(walk.open)  BY <3>1, LenProperties DEF Tiles
    <3>3. \A n \in DOMAIN walk.open : RangeInv(walk.open[n])  BY <3>1, <3>2 DEF Tiles
    <3>4. \A r : RangeInv(r) => r.lo < r.hi /\ r.cursor \in (r.lo - 1)..(r.hi - 1)
      BY DEF RangeInv, AnyRange
    <3> QED  BY <3>3, <3>4
  <2> QED  BY <2>1, <2>2
<1>7. \A i \in dirty : row[i].kind # "none" \/ content[i] > 0  BY DEF QueueInv
<1> QED  BY <1>1, <1>2, <1>3, <1>4, <1>5, <1>6, <1>7 DEF TypeOK

-----------------------------------------------------------------------------
LEMMA InitIsOwn == Init => OwnInv
<1> SUFFICES ASSUME Init PROVE OwnInv  OBVIOUS
<1>1. MirrorInv  BY InitIsSafe
<1>2. HistoryInv
  <2>1. bumped = content  BY DEF Init
  <2>2. content \in [Ids -> Nat]  BY <1>1 DEF MirrorInv, RecordInv
  <2> QED  BY <2>1, <2>2 DEF HistoryInv
<1>3. OrderInv
  <2>1. content = [i \in Ids |-> IF i <= StartId THEN 1 ELSE 0]  BY DEF Init
  <2>2. StartId \in Nat /\ MaxId \in Nat  BY NumberAssumption
  <2> QED  BY <2>1, <2>2 DEF OrderInv, Ids
<1>4. seen = [blind |-> FALSE, head |-> 0, narrowed |-> FALSE, hidden |-> {}]  BY DEF Init
<1>5. KeptInv
  <2>1. seen \in AnySeen /\ seen.hidden = {}  BY <1>4 DEF AnySeen
  <2>2. hidden = {} /\ refresh.denied = {}  BY DEF Init, NoPass
  <2>3. \A i \in Ids : row[i] = Cache!NoRow  BY DEF Init
  <2> QED  BY <2>1, <2>2, <2>3 DEF KeptInv, Steady, Cache!NoRow
<1>6. walk \in AnyWalk /\ walk.phase = "backfill" /\ walk.high = None /\ walk.open = <<>>
  <2>1. walk = FreshWalk("backfill", FALSE)  BY DEF Init
  <2> QED  BY <2>1, FreshWalkIsFresh
<1>7. WalkInv  BY <1>6 DEF WalkInv
<1>8. ReadInv
  <2>1. seen.head = 0  BY <1>4
  <2>2. ~InBackfill \/ walk.high = None  BY <1>6
  <2>3. \A i \in Ids : ~(i <= 0)  BY DEF Ids
  <2> QED  BY <2>1, <2>3, MaxIdIsNatural DEF ReadInv, Steady
<1>9. SweepInv
  <2>1. sweep = [known |-> FALSE, since |-> 0, after |-> 0, started |-> None, shift |-> None,
                 clock |-> "due", parked |-> FALSE, legacy |-> FALSE]
    BY DEF Init
  <2>2. sweep \in AnySweep  BY <2>1 DEF AnySweep
  <2>3. now = 1 /\ zone \in -MaxShift..MaxShift /\ updated \in [Ids -> Int]  BY DEF Init
  <2> QED  BY <2>1, <2>2, <2>3, MaxIdIsNatural DEF SweepInv
<1>10. BlindInv  BY <1>6 DEF BlindInv
<1> QED  BY <1>1, <1>2, <1>3, <1>5, <1>7, <1>8, <1>9, <1>10 DEF OwnInv

LEMMA InitIsOwed == Init => OwedInv
<1> SUFFICES ASSUME Init PROVE OwedInv  OBVIOUS
<1>1. walk.phase = "backfill" /\ walk.high = None  BY DEF Init, FreshWalk
<1>2. refresh.present = {}  BY NoPassHoldsNothing DEF Init
<1> QED  BY <1>1, <1>2 DEF OwedInv, Due, BackfillOwes

LEMMA InitIsTyped == Init => CountInv /\ ShapeInv /\ QueueInv
<1> SUFFICES ASSUME Init PROVE CountInv /\ ShapeInv /\ QueueInv  OBVIOUS
<1>1. CountInv
  <2>1. now = 1 /\ changes = 0 /\ updated = [i \in Ids |-> 0]
        /\ content = [i \in Ids |-> IF i <= StartId THEN 1 ELSE 0]
    BY DEF Init
  <2> QED  BY <2>1, ParametersAreNatural DEF CountInv
<1>2. ShapeInv  BY DEF Init, ShapeInv, PlainRows
<1>3. QueueInv  BY DEF Init, QueueInv
<1> QED  BY <1>1, <1>2, <1>3

\* The mirror's state is what it is meant to be: rows are copies of versions
\* their records went through, cursors lie in their ranges, the watermark is
\* not in the future, and only records that were created are queued.
THEOREM MirrorTypes == Spec => []TypeOK
<1>1. Init => TypeInv  BY InitIsOwn, InitIsTyped DEF TypeInv
<1>2. TypeInv /\ [Next]_vars => TypeInv'
  BY OwnStep, CountStep, ShapeStep, QueueStep DEF TypeInv, OwnInv
<1> QED  BY <1>1, <1>2, TypesFollow, PTL DEF Spec

\* crm_backfill.py 140-144: covered is a contiguous claim; whatever fails and
\* in whatever order ranges are settled, everything from it to the head that
\* could be read all along is in the mirror.
THEOREM WhatIsCoveredIsRead == Spec => []CoveredIsRead
<1>1. OwnInv => CoveredIsRead  BY ReadIsCovered DEF OwnInv
<1> QED  BY <1>1, InitIsOwn, OwnStep, PTL DEF Spec

\* crm_sweep.py 7-14: no edit falls between the lanes, however they are
\* interleaved with it and with each other.
THEOREM NoEditIsLost == Spec => []EditsOwed
<1> QED  BY InitIsOwn, InitIsOwed, OwnStep, OwedStep, OwedIsOwed, PTL DEF Spec
=============================================================================
