-------------------------- MODULE SyncLeaseProofs --------------------------
(***************************************************************************)
(* Proofs about SyncLease for every number of workers, calls, generations, *)
(* crashes and clock ticks.                                                *)
(*                                                                         *)
(* The safety of the call cache is not inductive by itself: that a late    *)
(* write is harmless rests on what a visit KNOWS while its generation is   *)
(* the current one (VisitInv), and that knowledge survives the purge only  *)
(* because a purge in progress implies purge_pending (PurgeInv).           *)
(***************************************************************************)
EXTENDS SyncLease, TLAPS

\* One process runs purges: the deployment has one worker container.
SinglePurger == \A p, q \in Purger : p = q

SoleWorker == \A v, w \in Worker : v = w

\* The stages in which a visit still uses what it read.
Running == {"opening", "open", "fetched", "writing", "paced"}

-----------------------------------------------------------------------------
(* Types *)

RowTypes ==
  /\ status \in {"active", "uninstalled"}
  /\ tokenOk \in BOOLEAN /\ purgePending \in BOOLEAN
  /\ gen \in Nat /\ inst \in Nat
  /\ owner \in Worker \cup {NoOwner} /\ expires \in Nat /\ runStarted \in BOOLEAN
  /\ nextRun \in {"due", "later", "never"}
  /\ failures \in 0..FailuresBeforePause
  /\ cursor \in 0..MaxCall
  /\ now \in Nat /\ crashes \in Nat

CallTypes == calls \subseteq [id : 1..MaxCall, inst : Nat]

\* A visit never asks beyond the portal's last call.
VisitTypes ==
  /\ visit \in [Worker -> Visits]
  /\ \A w \in Worker :
       /\ visit[w].cursor \in 0..MaxCall /\ visit[w].start \in 0..MaxCall
       /\ visit[w].stage \in {"fetched", "writing"} => visit[w].cursor < MaxCall

ProcessTypes ==
  /\ purge \in [Worker -> PurgeStages]
  /\ selection \in [Worker -> Selections]

TypeInv == RowTypes /\ CallTypes /\ VisitTypes /\ ProcessTypes

LEMMA TypeInvImpliesTypeOK == TypeInv => TypeOK
  BY DEF TypeInv, RowTypes, CallTypes, VisitTypes, ProcessTypes, TypeOK

LEMMA NoVisitTyped == NoVisit \in Visits /\ NoVisit.cursor = 0 /\ NoVisit.start = 0 /\ NoVisit.stage = "idle"
  BY DEF NoVisit, Visits, Stages, Outcomes

LEMMA InitTypes == Init => TypeInv
<1> SUFFICES ASSUME Init PROVE TypeInv
  OBVIOUS
<1>1. RowTypes
  <2>1. tokenOk \in BOOLEAN /\ purgePending \in BOOLEAN /\ runStarted \in BOOLEAN
    BY Zenon DEF Init
  <2>2. failures \in 0..FailuresBeforePause /\ cursor \in 0..MaxCall
    BY NumberAssumption, SMT DEF Init
  <2>3. gen \in Nat /\ inst \in Nat /\ expires \in Nat /\ now \in Nat /\ crashes \in Nat
    BY SMT DEF Init
  <2> QED
    BY <2>1, <2>2, <2>3, Zenon DEF Init, RowTypes
<1>2. CallTypes
  BY DEF Init, CallTypes
<1>3. VisitTypes
  BY NoVisitTyped, NumberAssumption DEF Init, VisitTypes
<1>4. ProcessTypes
  BY DEF Init, ProcessTypes, PurgeStages, NoSelection, Selections
<1> QED
  BY <1>1, <1>2, <1>3, <1>4 DEF TypeInv

\* A task that ends, or only changes its stage, stays well formed.
LEMMA EndsTyped ==
  ASSUME VisitTypes, NEW w \in Worker, Ends(w)
  PROVE  VisitTypes'
  BY NoVisitTyped, NumberAssumption DEF Ends, VisitTypes

LEMMA EndedTyped ==
  ASSUME VisitTypes, NEW w \in Worker, NEW o \in Outcomes, Ended(w, o)
  PROVE  VisitTypes'
<1> DEFINE v == [NoVisit EXCEPT !.stage = "closing", !.gen = visit[w].gen, !.outcome = o]
<1>1. visit[w].gen \in Nat
  BY DEF VisitTypes, Visits
<1>2. v \in Visits /\ v.cursor = 0 /\ v.start = 0 /\ v.stage = "closing"
  BY <1>1 DEF NoVisit, Visits, Stages
<1> QED
  BY <1>2, NumberAssumption DEF Ended, VisitTypes

LEMMA GoesTyped ==
  ASSUME VisitTypes, NEW w \in Worker, NEW s \in Stages, Goes(w, s),
         s \in {"fetched", "writing"} => visit[w].cursor < MaxCall
  PROVE  VisitTypes'
  BY DEF Goes, VisitTypes, Visits

LEMMA PurgeGoesTyped ==
  ASSUME ProcessTypes, NEW w \in Worker, NEW s \in PurgeStages, PurgeGoes(w, s),
         selection' \in [Worker -> Selections]
  PROVE  ProcessTypes'
  BY DEF PurgeGoes, ProcessTypes

LEMMA ChargedTyped ==
  ASSUME NEW f \in 0..FailuresBeforePause
  PROVE  Charged(f) \in 0..FailuresBeforePause
  BY NumberAssumption DEF Charged

LEMMA ClearedTyped ==
  ASSUME LeaseCleared
  PROVE  owner' = NoOwner /\ expires' \in Nat /\ runStarted' \in BOOLEAN
<1>1. owner' = NoOwner /\ expires' \in Nat
  BY DEF LeaseCleared
<1>2. runStarted' \in BOOLEAN
  BY Zenon DEF LeaseCleared
<1> QED
  BY <1>1, <1>2

LEMMA MarkedTyped ==
  ASSUME RowTypes, MarkedUninstalled, UNCHANGED <<now, crashes>>
  PROVE  RowTypes'
<1>1. tokenOk' \in BOOLEAN /\ purgePending' \in BOOLEAN
  BY Zenon DEF MarkedUninstalled
<1> QED
  BY <1>1, ClearedTyped, NumberAssumption DEF MarkedUninstalled, RowTypes

-----------------------------------------------------------------------------
(* Types are preserved, one step per action. *)

LEMMA TypesStep == TypeInv /\ [Next]_vars => TypeInv'
<1> SUFFICES ASSUME TypeInv, [Next]_vars PROVE TypeInv'
  OBVIOUS
<1> USE DEF TypeInv
<1>1. CASE UNCHANGED vars
  BY <1>1 DEF vars, portalVars, leaseVars, scheduleVars, dataVars, rowVars, taskVars,
     RowTypes, CallTypes, VisitTypes, ProcessTypes
<1>2. CASE Tick
  BY <1>2 DEF Tick, portalVars, leaseVars, scheduleVars, dataVars, rowVars, taskVars,
     RowTypes, CallTypes, VisitTypes, ProcessTypes
<1>3. CASE NextRunComes
  BY <1>3 DEF NextRunComes, portalVars, leaseVars, dataVars, taskVars,
     RowTypes, CallTypes, VisitTypes, ProcessTypes
<1>4. CASE Lifecycle
  <2>1. CASE Uninstall
    <3>1. RowTypes'
      BY <2>1, MarkedTyped DEF Uninstall
    <3> QED
      BY <2>1, <3>1 DEF Uninstall, MarkedUninstalled, taskVars, CallTypes, VisitTypes, ProcessTypes
  <2>2. CASE StoreCredential
    <3>1. RowTypes'
      <4>1. failures' \in 0..FailuresBeforePause /\ cursor' \in 0..MaxCall /\ inst' \in Nat
        BY <2>2, NumberAssumption DEF StoreCredential, RowTypes
      <4> QED
        BY <2>2, <4>1, ClearedTyped DEF StoreCredential, RowTypes
    <3> QED
      BY <2>2, <3>1 DEF StoreCredential, taskVars, CallTypes, VisitTypes, ProcessTypes
  <2>3. CASE CrmSwitchedOff
    <3>1. RowTypes'
      BY <2>3, ClearedTyped DEF CrmSwitchedOff, portalVars, dataVars, RowTypes
    <3> QED
      BY <2>3, <3>1 DEF CrmSwitchedOff, dataVars, taskVars, CallTypes, VisitTypes, ProcessTypes
  <2> QED
    BY <1>4, <2>1, <2>2, <2>3 DEF Lifecycle
<1>5. ASSUME NEW w \in Worker, Leasing(w) PROVE TypeInv'
  <2>1. CASE Select(w) \/ SelectionGone(w)
    <3>1. NoSelection \in Selections /\ [on |-> TRUE, at |-> now] \in Selections
      BY DEF NoSelection, Selections, RowTypes
    <3> QED
      BY <2>1, <3>1 DEF Select, SelectionGone, portalVars, leaseVars, scheduleVars, dataVars,
         rowVars, taskVars, RowTypes, CallTypes, VisitTypes, ProcessTypes
  <2>2. CASE Dispatch(w)
    <3>1. RowTypes'
      <4>1. runStarted' \in BOOLEAN
        BY <2>2, Zenon DEF Dispatch
      <4>2. failures' \in 0..FailuresBeforePause
        BY <2>2, ChargedTyped DEF Dispatch, RowTypes
      <4>3. expires' \in Nat
        BY <2>2, NumberAssumption DEF Dispatch, ProcessTypes, Selections
      <4> QED
        BY <2>2, <4>1, <4>2, <4>3 DEF Dispatch, portalVars, dataVars, RowTypes
    <3>2. VisitTypes'
      <4>1. CASE Inflight(w) = 0
        BY <2>2, <4>1, GoesTyped DEF Dispatch, Spawned, Goes, Stages
      <4>2. CASE Inflight(w) # 0
        BY <2>2, <4>2 DEF Dispatch, Spawned, VisitTypes
      <4> QED
        BY <4>1, <4>2
    <3>3. ProcessTypes'
      BY <2>2 DEF Dispatch, ProcessTypes, NoSelection, Selections
    <3> QED
      BY <2>2, <3>1, <3>2, <3>3 DEF Dispatch, dataVars, CallTypes
  <2> QED
    BY <1>5, <2>1, <2>2 DEF Leasing
<1>10. ASSUME NEW w \in Worker, Opening(w) PROVE TypeInv'
  <2>2. CASE ReadPortal(w)
    <3>1. [stage |-> "opening", gen |-> gen, start |-> cursor, cursor |-> cursor,
           stored |-> cursor, inst |-> inst, begun |-> now, retried |-> FALSE,
           outcome |-> "clean"] \in Visits
      BY NumberAssumption DEF Visits, Stages, Outcomes, RowTypes
    <3>2. visit' \in [Worker -> Visits]
      BY <2>2, <3>1 DEF ReadPortal, VisitTypes
    <3>3. \A v \in Worker : v # w => visit'[v] = visit[v]
      BY <2>2 DEF ReadPortal, VisitTypes
    <3>4. /\ visit'[w].cursor = cursor /\ visit'[w].start = cursor
          /\ visit'[w].stage = "opening"
      BY <2>2 DEF ReadPortal, VisitTypes
    <3>5. VisitTypes'
      BY <3>2, <3>3, <3>4 DEF VisitTypes, RowTypes
    <3> QED
      BY <2>2, <3>5 DEF ReadPortal, portalVars, leaseVars, scheduleVars, dataVars, rowVars,
         RowTypes, CallTypes, ProcessTypes
  <2>3. CASE AbandonDispatch(w) \/ ClaimLost(w)
    BY <2>3, EndsTyped DEF AbandonDispatch, ClaimLost, portalVars, leaseVars, scheduleVars,
       dataVars, rowVars, RowTypes, CallTypes, ProcessTypes
  <2>4. CASE ClaimRun(w)
    <3>1. VisitTypes'
      <4>1. PICK v \in Visits : v = [visit[w] EXCEPT !.stage = "open", !.begun = 0]
        BY DEF VisitTypes, Visits, Stages
      <4>2. v.cursor = visit[w].cursor /\ v.start = visit[w].start /\ v.stage = "open"
        BY <4>1 DEF VisitTypes, Visits
      <4>3. visit' = [visit EXCEPT ![w] = v]  BY <2>4, <4>1 DEF ClaimRun, VisitTypes
      <4>4. visit[w].stage = "opening"  BY <2>4 DEF ClaimRun
      <4> QED  BY <2>4, <4>2, <4>3, <4>4 DEF ClaimRun, VisitTypes
    <3>2. RowTypes'
      <4>1. runStarted' \in BOOLEAN
        BY <2>4, Zenon DEF ClaimRun
      <4> QED
        BY <2>4, <4>1 DEF ClaimRun, portalVars, scheduleVars, dataVars, RowTypes
    <3> QED
      BY <2>4, <3>1, <3>2 DEF ClaimRun, dataVars, CallTypes, ProcessTypes
  <2> QED
    BY <1>10, <2>2, <2>3, <2>4 DEF Opening
<1>6. ASSUME NEW w \in Worker, Working(w) PROVE TypeInv'
  <2>1. CASE Request(w)
    BY <2>1, GoesTyped DEF Request, Stages, portalVars, leaseVars, scheduleVars,
       dataVars, rowVars, RowTypes, CallTypes, ProcessTypes
  <2>2. CASE BeginWrite(w)
    <3>1. VisitTypes'
      <4>1. now \in Nat  BY DEF RowTypes
      <4>2. PICK v \in Visits : v = [visit[w] EXCEPT !.stage = "writing", !.begun = now]
        BY <4>1 DEF VisitTypes, Visits, Stages
      <4>3. v.cursor = visit[w].cursor /\ v.start = visit[w].start
        BY <4>2 DEF VisitTypes, Visits
      <4>4. visit' = [visit EXCEPT ![w] = v]  BY <2>2, <4>2 DEF BeginWrite, VisitTypes
      <4>5. visit[w].stage = "fetched"  BY <2>2 DEF BeginWrite
      <4> QED  BY <4>3, <4>4, <4>5 DEF VisitTypes
    <3> QED
      BY <2>2, <3>1 DEF BeginWrite, portalVars, leaseVars, scheduleVars, dataVars, rowVars,
         RowTypes, CallTypes, ProcessTypes
  <2>3. CASE CommitWrite(w)
    <3> DEFINE next == visit[w].cursor + 1
    <3>1. next \in 1..MaxCall
      BY <2>3, NumberAssumption DEF CommitWrite, VisitTypes
    <3>2. CallTypes'
      BY <2>3, <3>1 DEF CommitWrite, CallTypes, VisitTypes, Visits, Row
    <3>3. VisitTypes'
      BY <2>3, <3>1, NumberAssumption DEF CommitWrite, VisitTypes, Visits, Stages
    <3>4. RowTypes'
      BY <2>3, <3>1 DEF CommitWrite, portalVars, leaseVars, scheduleVars, RowTypes
    <3> QED
      BY <2>3, <3>2, <3>3, <3>4 DEF CommitWrite, ProcessTypes
  <2>4. CASE Heartbeat(w)
    <3>1. VisitTypes'
      BY <2>4, GoesTyped DEF Heartbeat, Stages
    <3>2. RowTypes'
      BY <2>4, NumberAssumption DEF Heartbeat, portalVars, scheduleVars, dataVars, RowTypes
    <3> QED
      BY <2>4, <3>1, <3>2 DEF Heartbeat, dataVars, CallTypes, ProcessTypes
  <2>5. CASE FilterViolated(w)
    <3>1. VisitTypes'
      BY <2>5, EndedTyped DEF FilterViolated, Outcomes
    <3>2. RowTypes'
      <4>1. tokenOk' \in BOOLEAN
        BY <2>5, Zenon DEF FilterViolated
      <4> QED
        BY <2>5, <4>1 DEF FilterViolated, leaseVars, dataVars, RowTypes
    <3> QED
      BY <2>5, <3>1, <3>2 DEF FilterViolated, dataVars, CallTypes, ProcessTypes
  <2>6. CASE PhasesOver(w)
    <3>1. VisitTypes'
      BY <2>6, EndedTyped DEF PhasesOver
    <3> QED
      BY <2>6, <3>1 DEF PhasesOver, portalVars, leaseVars, scheduleVars, dataVars, rowVars,
         RowTypes, CallTypes, ProcessTypes
  <2>7. CASE AbandonVisit(w)
    BY <2>7, EndsTyped DEF AbandonVisit, portalVars, leaseVars, scheduleVars,
       dataVars, rowVars, RowTypes, CallTypes, ProcessTypes
  <2>8. CASE TokenExpired(w)
    <3>1. VisitTypes'
      BY <2>8 DEF TokenExpired, VisitTypes, Visits
    <3> QED
      BY <2>8, <3>1 DEF TokenExpired, portalVars, leaseVars, scheduleVars, dataVars, rowVars,
         RowTypes, CallTypes, ProcessTypes
  <2> QED
    BY <1>6, <2>1, <2>2, <2>3, <2>4, <2>5, <2>6, <2>7, <2>8 DEF Working
<1>7. ASSUME NEW w \in Worker, Closing(w) PROVE TypeInv'
  <2> DEFINE After == AfterRelease(w)
  <2>0. AfterRelease(w) => VisitTypes'
    BY EndsTyped, GoesTyped DEF AfterRelease, Stages
  <2>1. CASE SaveRateState(w)
    BY <2>1, GoesTyped DEF SaveRateState, Stages, portalVars, leaseVars, scheduleVars,
       dataVars, rowVars, RowTypes, CallTypes, ProcessTypes
  <2>2. CASE Release(w)
    <3>1. FailuresAfter(visit[w].outcome) \in 0..FailuresBeforePause
      BY ChargedTyped, NumberAssumption DEF FailuresAfter, RowTypes
    <3>2. RowTypes'
      BY <2>2, <3>1 DEF Release, LeaseCleared, portalVars, dataVars, RowTypes
    <3> QED
      BY <2>0, <2>2, <3>2 DEF Release, dataVars, CallTypes, ProcessTypes
  <2>3. CASE ReleaseLost(w)
    BY <2>0, <2>3 DEF ReleaseLost, portalVars, leaseVars, scheduleVars, dataVars, rowVars,
       RowTypes, CallTypes, ProcessTypes
  <2>4. CASE ParkDead(w)
    <3>1. RowTypes'
      <4>1. tokenOk' \in BOOLEAN
        BY <2>4, Zenon DEF ParkDead
      <4> QED
        BY <2>4, <4>1 DEF ParkDead, leaseVars, dataVars, RowTypes
    <3> QED
      BY <2>4, <3>1, EndsTyped DEF ParkDead, dataVars, CallTypes, ProcessTypes
  <2>5. CASE ParkDeleted(w)
    <3>1. RowTypes' /\ calls' = calls
      <4>1. CASE MarkedUninstalled
        BY <2>5, <4>1, MarkedTyped DEF ParkDeleted, MarkedUninstalled
      <4>2. CASE UNCHANGED rowVars
        BY <2>5, <4>2 DEF ParkDeleted, portalVars, leaseVars, scheduleVars, dataVars, rowVars,
           RowTypes
      <4> QED
        BY <2>5, <4>1, <4>2 DEF ParkDeleted
    <3> QED
      BY <2>5, <3>1, EndsTyped DEF ParkDeleted, CallTypes, ProcessTypes
  <2> QED
    BY <1>7, <2>1, <2>2, <2>3, <2>4, <2>5 DEF Closing
<1>8. ASSUME NEW w \in Worker, Purging(w) PROVE TypeInv'
  <2>1. CASE PurgeStart(w) \/ PurgeDrained(w) \/ PurgeCounted(w) \/ PurgeExcused(w)
             \/ PurgeIncomplete(w)
    <3>1. UNCHANGED <<rowVars, now, crashes, selection, visit>>
      BY <2>1 DEF PurgeStart, PurgeDrained, PurgeCounted, PurgeExcused, PurgeIncomplete
    <3>2. PICK s \in PurgeStages : PurgeGoes(w, s)
      BY <2>1, Zenon DEF PurgeStart, PurgeDrained, PurgeCounted, PurgeExcused, PurgeIncomplete, PurgeStages
    <3>3. ProcessTypes'
      BY <3>1, <3>2, PurgeGoesTyped DEF ProcessTypes
    <3> QED
      BY <3>1, <3>3 DEF portalVars, leaseVars, scheduleVars, dataVars, rowVars, RowTypes,
         CallTypes, VisitTypes
  <2>2. CASE PurgeChunk(w)
    BY <2>2 DEF PurgeChunk, portalVars, leaseVars, scheduleVars, taskVars,
       RowTypes, CallTypes, VisitTypes, ProcessTypes
  <2>3. CASE PurgeFinish(w)
    <3>1. RowTypes'
      <4>1. purgePending' \in BOOLEAN
        BY <2>3, Zenon DEF PurgeFinish
      <4> QED
        BY <2>3, <4>1 DEF PurgeFinish, leaseVars, scheduleVars, dataVars, RowTypes
    <3> QED
      BY <2>3, <3>1, PurgeGoesTyped DEF PurgeFinish, PurgeStages, ProcessTypes, dataVars,
         CallTypes, VisitTypes
  <2> QED
    BY <1>8, <2>1, <2>2, <2>3 DEF Purging
<1>9. ASSUME NEW w \in Worker, Crash(w) PROVE TypeInv'
  <2>1. selection' \in [Worker -> Selections]
    BY <1>9 DEF Crash, ProcessTypes, NoSelection, Selections
  <2> QED
    BY <1>9, <2>1, EndsTyped, PurgeGoesTyped DEF Crash, PurgeStages, portalVars, leaseVars,
       scheduleVars, dataVars, rowVars, RowTypes, CallTypes
<1> QED
  BY <1>1, <1>2, <1>3, <1>4, <1>5, <1>6, <1>7, <1>8, <1>9, <1>10 DEF Next

\* Type correctness, for every value of the constants.
THEOREM TypeCorrect == Spec => []TypeOK
<1>1. Spec => []TypeInv
  BY InitTypes, TypesStep, PTL DEF Spec
<1> QED
  BY <1>1, TypeInvImpliesTypeOK, PTL

-----------------------------------------------------------------------------
(* The inductive invariant *)

Covered(k) == \A i \in 1..k : Row(i, inst) \in calls

PortalInv ==
  /\ purgePending => cursor = 0
  /\ status = "uninstalled" /\ ~purgePending => calls = {}

\* Deletes happen only while the purge is owed, and no call is written after
\* the last of them.
PurgeInv ==
  \A w \in Worker : purge[w] # "idle" =>
    /\ w \in Purger /\ purgePending
    /\ purge[w] \in {"drained", "remaining", "verified"} => calls = {}

\* What a visit knows as long as its generation is the current one.
VisitInv ==
  \A w \in Worker : visit[w].stage \in Running =>
    /\ visit[w].gen <= gen
    /\ visit[w].gen = gen =>
         /\ status = "active" /\ ~purgePending
         /\ visit[w].inst = inst
         /\ Covered(visit[w].cursor) /\ Covered(visit[w].start)

DataInv == RunExcludesPurge /\ RowsOfThisInstallation /\ CursorCovered /\ PortalInv

SafetyInv == TypeInv /\ DataInv /\ PurgeInv /\ VisitInv

LEMMA InitSafety == Init => SafetyInv
<1> SUFFICES ASSUME Init PROVE SafetyInv
  OBVIOUS
<1>1. DataInv
  BY DEF Init, DataInv, RunExcludesPurge, RowsOfThisInstallation, CursorCovered, PortalInv
<1>2. PurgeInv
  BY DEF Init, PurgeInv
<1>3. VisitInv
  BY NoVisitTyped DEF Init, VisitInv, Running
<1> QED
  BY <1>1, <1>2, <1>3, InitTypes DEF SafetyInv

-----------------------------------------------------------------------------
(* Steps that leave the rows, or the visits, as they are *)

\* No visit starts, and a running one keeps its snapshot.
VisitsKept ==
  \A w \in Worker : visit'[w].stage \in Running =>
    /\ visit[w].stage \in Running
    /\ visit'[w].gen = visit[w].gen
    /\ visit'[w].inst = visit[w].inst
    /\ visit'[w].start = visit[w].start
    /\ visit'[w].cursor \in {visit[w].cursor, visit[w].start}
    /\ visit'[w].stored = visit[w].stored

LEMMA EndsKept ==
  ASSUME VisitTypes, NEW w \in Worker, Ends(w)
  PROVE  VisitsKept
  BY NoVisitTyped DEF Ends, VisitTypes, VisitsKept, Running

LEMMA EndedKept ==
  ASSUME VisitTypes, NEW w \in Worker, NEW o \in Outcomes, Ended(w, o)
  PROVE  VisitsKept
  BY DEF Ended, NoVisit, VisitTypes, VisitsKept, Running

LEMMA GoesKept ==
  ASSUME VisitTypes, NEW w \in Worker, NEW s \in Stages, Goes(w, s),
         visit[w].stage \in Running \/ s \notin Running
  PROVE  VisitsKept
  BY DEF Goes, VisitTypes, VisitsKept, Visits

LEMMA ClaimKept ==
  ASSUME VisitTypes, NEW w \in Worker, ClaimRun(w)
  PROVE  VisitsKept
  BY DEF ClaimRun, VisitTypes, VisitsKept, Visits, Running

LEMMA UnchangedKept == UNCHANGED visit => VisitsKept
  BY DEF VisitsKept

LEMMA QuietRows ==
  ASSUME DataInv, PurgeInv, VisitInv, VisitsKept,
         UNCHANGED <<status, purgePending, inst, gen, calls, cursor>>,
         runStarted' => status = "active" /\ ~purgePending,
         UNCHANGED purge
  PROVE  DataInv' /\ PurgeInv' /\ VisitInv'
<1>1. DataInv'
  BY DEF DataInv, RunExcludesPurge, RowsOfThisInstallation, CursorCovered, PortalInv
<1>2. PurgeInv'
  BY DEF PurgeInv
<1>3. VisitInv'
  BY DEF VisitInv, VisitsKept, Covered
<1> QED
  BY <1>1, <1>2, <1>3

LEMMA QuietRowVars ==
  ASSUME DataInv, PurgeInv, VisitInv, VisitsKept, UNCHANGED rowVars, UNCHANGED purge
  PROVE  DataInv' /\ PurgeInv' /\ VisitInv'
  BY QuietRows DEF DataInv, RunExcludesPurge, rowVars, portalVars, leaseVars,
     scheduleVars, dataVars

\* A higher generation outdates every visit, whatever else changes.
LEMMA GenerationOutdates ==
  ASSUME TypeInv, VisitInv, VisitsKept, gen' = gen + 1
  PROVE  VisitInv'
<1> SUFFICES ASSUME NEW w \in Worker, visit'[w].stage \in Running
             PROVE  visit'[w].gen <= gen' /\ visit'[w].gen # gen'
  BY DEF VisitInv
<1>1. visit[w].gen <= gen /\ visit'[w].gen = visit[w].gen
  BY DEF VisitInv, VisitsKept
<1>2. visit[w].gen \in Nat /\ gen \in Nat
  BY DEF TypeInv, VisitTypes, RowTypes, Visits
<1> QED
  BY <1>1, <1>2

\* mark_uninstalled, whoever calls it.
LEMMA UninstallSafe ==
  ASSUME SafetyInv, MarkedUninstalled, VisitsKept, UNCHANGED purge
  PROVE  DataInv' /\ PurgeInv' /\ VisitInv'
<1>1. purgePending' /\ cursor' = 0 /\ ~runStarted' /\ calls' = calls /\ gen' = gen + 1
  BY DEF MarkedUninstalled, LeaseCleared
<1>2. DataInv'
  BY <1>1 DEF DataInv, RunExcludesPurge, RowsOfThisInstallation, CursorCovered, PortalInv
<1>3. PurgeInv'
  BY <1>1 DEF SafetyInv, PurgeInv
<1>4. VisitInv'
  BY <1>1, GenerationOutdates DEF SafetyInv
<1> QED
  BY <1>2, <1>3, <1>4

LEMMA CredentialSafe ==
  ASSUME SafetyInv, StoreCredential
  PROVE  DataInv' /\ PurgeInv' /\ VisitInv'
<1>1. /\ ~runStarted' /\ gen' = gen + 1
      /\ UNCHANGED <<purgePending, calls, visit, purge>> /\ status' = "active"
  BY DEF StoreCredential, LeaseCleared, taskVars
<1>2. PurgeInv' /\ VisitInv'
  BY <1>1, UnchangedKept, GenerationOutdates DEF SafetyInv, PurgeInv
<1>3. CASE status = "uninstalled"
  <2>1. cursor' = 0
    BY <1>3 DEF StoreCredential
  <2>2. DataInv'
    BY <1>1, <1>3, <2>1 DEF SafetyInv, DataInv, RunExcludesPurge, RowsOfThisInstallation,
       CursorCovered, PortalInv
  <2> QED
    BY <1>2, <2>2
<1>4. CASE status # "uninstalled"
  <2>1. UNCHANGED <<inst, cursor>>
    BY <1>4 DEF StoreCredential
  <2>2. DataInv'
    BY <1>1, <1>4, <2>1 DEF SafetyInv, DataInv, RunExcludesPurge, RowsOfThisInstallation,
       CursorCovered, PortalInv
  <2> QED
    BY <1>2, <2>2
<1> QED
  BY <1>3, <1>4

\* upsert_calls: the fence says the visit's knowledge is current.
LEMMA CommitSafe ==
  ASSUME SafetyInv, NEW w \in Worker, CommitWrite(w)
  PROVE  DataInv' /\ PurgeInv' /\ VisitInv'
<1> DEFINE k == visit[w].cursor
           row == Row(k + 1, inst)
<1>1. /\ status = "active" /\ ~purgePending
      /\ visit[w].inst = inst /\ Covered(k) /\ visit[w].gen = gen
      /\ visit[w].stage \in Running
  BY DEF CommitWrite, Fenced, SafetyInv, VisitInv, Running
<1>2. /\ calls' = calls \cup {row} /\ cursor' = k + 1
      /\ UNCHANGED <<status, purgePending, inst, gen, runStarted, purge>>
  BY <1>1 DEF CommitWrite, portalVars, leaseVars
<1>3. k \in Nat
  BY DEF SafetyInv, TypeInv, VisitTypes
<1>4. \A i \in 1..(k + 1) : Row(i, inst) \in calls'
  BY <1>1, <1>2, <1>3 DEF Covered
<1>5. DataInv'
  <2>1. RunExcludesPurge' /\ PortalInv'
    BY <1>1, <1>2 DEF SafetyInv, DataInv, RunExcludesPurge, PortalInv
  <2>2. RowsOfThisInstallation'
    BY <1>1, <1>2 DEF SafetyInv, DataInv, RowsOfThisInstallation, Row
  <2>3. CursorCovered'
    BY <1>2, <1>4 DEF CursorCovered
  <2> QED
    BY <2>1, <2>2, <2>3 DEF DataInv
<1>6. PurgeInv'
  BY <1>1, <1>2 DEF SafetyInv, PurgeInv
<1>7. VisitInv'
  <2> SUFFICES ASSUME NEW u \in Worker, visit'[u].stage \in Running
               PROVE  /\ visit'[u].gen <= gen
                      /\ visit'[u].gen = gen =>
                           /\ visit'[u].inst = inst
                           /\ \A i \in 1..visit'[u].cursor : Row(i, inst) \in calls'
                           /\ \A i \in 1..visit'[u].start : Row(i, inst) \in calls'
    BY <1>1, <1>2 DEF VisitInv, Covered
  <2>1. CASE u = w
    <3>1. /\ visit'[w].gen = gen /\ visit'[w].inst = inst /\ visit'[w].cursor = k + 1
          /\ visit'[w].start = visit[w].start
      BY <1>1 DEF CommitWrite, SafetyInv, TypeInv, VisitTypes, Visits
    <3>2. \A i \in 1..visit[w].start : Row(i, inst) \in calls'
      BY <1>1, <1>2 DEF SafetyInv, VisitInv, Covered
    <3> QED
      BY <2>1, <3>1, <3>2, <1>4 DEF SafetyInv, TypeInv, RowTypes
  <2>2. CASE u # w
    <3>1. visit'[u] = visit[u]
      BY <2>2 DEF CommitWrite, SafetyInv, TypeInv, VisitTypes
    <3> QED
      BY <3>1, <1>2 DEF SafetyInv, VisitInv, Covered
  <2> QED
    BY <2>1, <2>2
<1> QED
  BY <1>5, <1>6, <1>7

-----------------------------------------------------------------------------
(* Purge steps, when one process purges *)

LEMMA PurgeSafe ==
  ASSUME SinglePurger, SafetyInv, NEW w \in Worker, Purging(w)
  PROVE  DataInv' /\ PurgeInv' /\ VisitInv'
<1> USE DEF SafetyInv
<1>0. purge \in [Worker -> PurgeStages]
  BY DEF TypeInv, ProcessTypes
<1>1. CASE PurgeStart(w)
  <2>1. VisitsKept /\ UNCHANGED rowVars
    BY <1>1, UnchangedKept DEF PurgeStart
  <2>2. PurgeInv'
    BY <1>0, <1>1 DEF PurgeStart, PurgeGoes, PurgeInv, rowVars, portalVars, dataVars
  <2> QED
    BY <2>1, <2>2 DEF rowVars, portalVars, leaseVars, dataVars, DataInv, RunExcludesPurge,
       RowsOfThisInstallation, CursorCovered, PortalInv, VisitInv, VisitsKept, Covered
<1>2. CASE PurgeChunk(w)
  <2>1. /\ purgePending /\ cursor = 0 /\ ~runStarted
        /\ UNCHANGED <<status, purgePending, inst, gen, runStarted, cursor, visit, purge>>
    BY <1>2 DEF PurgeChunk, PurgeInv, DataInv, PortalInv, RunExcludesPurge, portalVars,
       leaseVars, taskVars
  <2>2. calls' \subseteq calls
    BY <1>2 DEF PurgeChunk
  <2>3. DataInv'
    BY <2>1 DEF DataInv, RunExcludesPurge, RowsOfThisInstallation, CursorCovered, PortalInv
  <2>4. PurgeInv' /\ VisitInv'
    BY <2>1, <2>2 DEF PurgeInv, VisitInv
  <2> QED
    BY <2>3, <2>4
<1>3. CASE PurgeDrained(w) \/ PurgeCounted(w) \/ PurgeExcused(w) \/ PurgeIncomplete(w)
  <2>1. VisitsKept /\ UNCHANGED rowVars
    BY <1>3, UnchangedKept DEF PurgeDrained, PurgeCounted, PurgeExcused, PurgeIncomplete
  <2>2. /\ purge' \in [Worker -> PurgeStages]
        /\ \A p \in Worker : p # w => purge'[p] = purge[p]
        /\ w \in Purger /\ purgePending
        /\ purge'[w] \in {"drained", "remaining", "verified"} => calls = {}
    <3>1. CASE PurgeCounted(w)
      BY <1>0, <3>1 DEF PurgeCounted, PurgeGoes, PurgeInv, PurgeStages
    <3>2. CASE PurgeExcused(w)
      BY <1>0, <3>2 DEF PurgeExcused, PurgeGoes, PurgeInv, PurgeStages
    <3>3. CASE PurgeDrained(w) \/ PurgeIncomplete(w)
      BY <1>0, <3>3 DEF PurgeDrained, PurgeIncomplete, PurgeGoes, PurgeInv, PurgeStages
    <3> QED
      BY <1>3, <3>1, <3>2, <3>3
  <2>3. PurgeInv'
    BY <2>1, <2>2 DEF PurgeInv, rowVars, portalVars, dataVars
  <2> QED
    BY <2>1, <2>3 DEF rowVars, portalVars, leaseVars, dataVars, DataInv, RunExcludesPurge,
       RowsOfThisInstallation, CursorCovered, PortalInv, VisitInv, VisitsKept, Covered
<1>4. CASE PurgeFinish(w)
  <2>1. /\ purgePending /\ calls = {} /\ cursor = 0 /\ ~runStarted /\ ~purgePending'
        /\ UNCHANGED <<status, inst, gen, runStarted, calls, cursor, visit>>
    BY <1>4 DEF PurgeFinish, PurgeInv, DataInv, PortalInv, RunExcludesPurge, leaseVars, dataVars
  <2>2. \A p \in Worker : purge'[p] = "idle"
    BY <1>0, <1>4 DEF PurgeFinish, PurgeGoes, PurgeInv, SinglePurger
  <2>3. DataInv' /\ PurgeInv'
    BY <2>1, <2>2 DEF DataInv, RunExcludesPurge, RowsOfThisInstallation, CursorCovered,
       PortalInv, PurgeInv
  <2>4. VisitInv'
    BY <2>1 DEF VisitInv
  <2> QED
    BY <2>3, <2>4
<1> QED
  BY <1>1, <1>2, <1>3, <1>4 DEF Purging

-----------------------------------------------------------------------------
LEMMA SafetyStep == SinglePurger /\ SafetyInv /\ [Next]_vars => SafetyInv'
<1> SUFFICES ASSUME SinglePurger, SafetyInv, [Next]_vars
             PROVE  DataInv' /\ PurgeInv' /\ VisitInv'
  BY TypesStep DEF SafetyInv
<1>0. TypeInv /\ DataInv /\ PurgeInv /\ VisitInv /\ VisitTypes
  BY DEF SafetyInv, TypeInv
<1>1. CASE UNCHANGED vars \/ Tick
  <2>1. UNCHANGED <<rowVars, taskVars>>
    BY <1>1 DEF vars, Tick
  <2> QED
    BY <1>0, <2>1, UnchangedKept, QuietRowVars DEF taskVars
<1>2. CASE NextRunComes
  BY <1>0, <1>2, UnchangedKept, QuietRows DEF NextRunComes, portalVars, leaseVars, dataVars,
     taskVars, DataInv, RunExcludesPurge
<1>3. CASE Lifecycle
  <2>1. CASE Uninstall
    BY <2>1, UnchangedKept, UninstallSafe DEF Uninstall, taskVars
  <2>2. CASE StoreCredential
    BY <2>2, CredentialSafe
  <2>3. CASE CrmSwitchedOff
    <3>1. /\ gen' = gen + 1 /\ ~runStarted'
          /\ UNCHANGED <<status, purgePending, inst, calls, cursor, visit, purge>>
      BY <2>3 DEF CrmSwitchedOff, LeaseCleared, portalVars, dataVars, taskVars
    <3>2. VisitInv'
      BY <1>0, <3>1, UnchangedKept, GenerationOutdates
    <3> QED
      BY <1>0, <3>1, <3>2 DEF DataInv, RunExcludesPurge, RowsOfThisInstallation,
         CursorCovered, PortalInv, PurgeInv
  <2> QED
    BY <1>3, <2>1, <2>2, <2>3 DEF Lifecycle
<1>4. ASSUME NEW w \in Worker, Leasing(w) PROVE DataInv' /\ PurgeInv' /\ VisitInv'
  <2>1. CASE Select(w) \/ SelectionGone(w)
    BY <1>0, <2>1, UnchangedKept, QuietRowVars DEF Select, SelectionGone, taskVars
  <2>2. CASE Dispatch(w)
    <3>1. VisitsKept
      <4>1. CASE Inflight(w) = 0
        BY <1>0, <2>2, <4>1, GoesKept DEF Dispatch, Spawned, Goes, Stages, Running
      <4>2. CASE Inflight(w) # 0
        BY <2>2, <4>2, UnchangedKept DEF Dispatch, Spawned
      <4> QED
        BY <4>1, <4>2
    <3> QED
      BY <1>0, <2>2, <3>1, QuietRows DEF Dispatch, portalVars, dataVars
  <2> QED
    BY <1>4, <2>1, <2>2 DEF Leasing
<1>9. ASSUME NEW w \in Worker, Opening(w) PROVE DataInv' /\ PurgeInv' /\ VisitInv'
  <2>2. CASE ReadPortal(w)
    <3>1. UNCHANGED <<rowVars, purge>> /\ status = "active" /\ ~purgePending
      BY <2>2 DEF ReadPortal, MayOpen, Syncable
    <3>2. /\ visit'[w].gen = gen /\ visit'[w].inst = inst /\ visit'[w].cursor = cursor
          /\ visit'[w].start = cursor
          /\ \A u \in Worker : u # w => visit'[u] = visit[u]
      BY <1>0, <2>2 DEF ReadPortal, VisitTypes
    <3>3. DataInv' /\ PurgeInv'
      BY <1>0, <3>1 DEF rowVars, portalVars, leaseVars, dataVars, DataInv, RunExcludesPurge,
         RowsOfThisInstallation, CursorCovered, PortalInv, PurgeInv
    <3>4. Covered(cursor) /\ gen \in Nat
      BY <1>0 DEF DataInv, CursorCovered, Covered, TypeInv, RowTypes
    <3>5. VisitInv'
      BY <1>0, <3>1, <3>2, <3>4 DEF rowVars, portalVars, dataVars, VisitInv, Covered
    <3> QED
      BY <3>3, <3>5
  <2>3. CASE AbandonDispatch(w) \/ ClaimLost(w)
    BY <1>0, <2>3, EndsKept, QuietRowVars DEF AbandonDispatch, ClaimLost
  <2>4. CASE ClaimRun(w)
    <3>1. VisitsKept
      BY <1>0, <2>4, ClaimKept
    <3>2. status = "active" /\ ~purgePending
      BY <1>0, <2>4 DEF ClaimRun, Fenced, VisitInv, Running
    <3> QED
      BY <1>0, <2>4, <3>1, <3>2, QuietRows DEF ClaimRun, portalVars, dataVars
  <2> QED
    BY <1>9, <2>2, <2>3, <2>4 DEF Opening
<1>5. ASSUME NEW w \in Worker, Working(w) PROVE DataInv' /\ PurgeInv' /\ VisitInv'
  <2>1. CASE Request(w)
    BY <1>0, <2>1, GoesKept, QuietRowVars DEF Request, Stages, Running
  <2>2. CASE BeginWrite(w)
    <3>1. VisitsKept
      BY <1>0, <2>2 DEF BeginWrite, VisitTypes, Visits, VisitsKept, Running
    <3> QED
      BY <1>0, <2>2, <3>1, QuietRowVars DEF BeginWrite
  <2>3. CASE CommitWrite(w)
    BY <2>3, CommitSafe
  <2>4. CASE Heartbeat(w)
    <3>1. VisitsKept
      BY <1>0, <2>4, GoesKept DEF Heartbeat, Stages, Running
    <3> QED
      BY <1>0, <2>4, <3>1, QuietRows DEF Heartbeat, portalVars, dataVars, DataInv,
         RunExcludesPurge
  <2>5. CASE FilterViolated(w)
    <3>1. VisitsKept
      BY <1>0, <2>5, EndedKept DEF FilterViolated, Outcomes
    <3> QED
      BY <1>0, <2>5, <3>1, QuietRows DEF FilterViolated, leaseVars, dataVars, DataInv,
         RunExcludesPurge
  <2>6. CASE PhasesOver(w)
    BY <1>0, <2>6, EndedKept, QuietRowVars DEF PhasesOver
  <2>7. CASE AbandonVisit(w)
    BY <1>0, <2>7, EndsKept, QuietRowVars DEF AbandonVisit
  <2>8. CASE TokenExpired(w)
    <3>1. VisitsKept
      BY <1>0, <2>8 DEF TokenExpired, VisitTypes, Visits, VisitsKept
    <3> QED
      BY <1>0, <2>8, <3>1, QuietRowVars DEF TokenExpired
  <2> QED
    BY <1>5, <2>1, <2>2, <2>3, <2>4, <2>5, <2>6, <2>7, <2>8 DEF Working
<1>6. ASSUME NEW w \in Worker, Closing(w) PROVE DataInv' /\ PurgeInv' /\ VisitInv'
  <2>0. AfterRelease(w) => VisitsKept
    BY <1>0, EndsKept, GoesKept DEF AfterRelease, Stages, Running
  <2>1. CASE SaveRateState(w)
    BY <1>0, <2>1, GoesKept, QuietRowVars DEF SaveRateState, Stages, Running
  <2>2. CASE Release(w)
    <3>1. VisitsKept
      BY <2>0, <2>2 DEF Release
    <3> QED
      BY <1>0, <2>2, <3>1, QuietRows DEF Release, LeaseCleared, portalVars, dataVars
  <2>3. CASE ReleaseLost(w)
    BY <1>0, <2>0, <2>3, QuietRowVars DEF ReleaseLost
  <2>4. CASE ParkDead(w)
    <3>1. VisitsKept
      BY <1>0, <2>4, EndsKept DEF ParkDead
    <3> QED
      BY <1>0, <2>4, <3>1, QuietRows DEF ParkDead, leaseVars, dataVars, DataInv,
         RunExcludesPurge
  <2>5. CASE ParkDeleted(w)
    <3>1. VisitsKept /\ UNCHANGED purge
      BY <1>0, <2>5, EndsKept DEF ParkDeleted
    <3>2. MarkedUninstalled \/ UNCHANGED rowVars
      BY <2>5 DEF ParkDeleted, rowVars
    <3> QED
      BY <1>0, <3>1, <3>2, UninstallSafe, QuietRowVars
  <2> QED
    BY <1>6, <2>1, <2>2, <2>3, <2>4, <2>5 DEF Closing
<1>7. ASSUME NEW w \in Worker, Purging(w) PROVE DataInv' /\ PurgeInv' /\ VisitInv'
  BY <1>7, PurgeSafe
<1>8. ASSUME NEW w \in Worker, Crash(w) PROVE DataInv' /\ PurgeInv' /\ VisitInv'
  <2>1. VisitsKept /\ UNCHANGED rowVars
    BY <1>0, <1>8, EndsKept DEF Crash
  <2>2. PurgeInv'
    BY <1>0, <1>8, <2>1 DEF Crash, PurgeGoes, PurgeInv, TypeInv, ProcessTypes, rowVars,
       portalVars, dataVars
  <2> QED
    BY <1>0, <2>1, <2>2 DEF rowVars, portalVars, leaseVars, dataVars, DataInv,
       RunExcludesPurge, RowsOfThisInstallation, CursorCovered, PortalInv, VisitInv,
       VisitsKept, Covered
<1> QED
  BY <1>1, <1>2, <1>3, <1>4, <1>5, <1>6, <1>7, <1>8, <1>9 DEF Next

LEMMA Safety ==
  ASSUME SinglePurger
  PROVE  Spec => []SafetyInv
<1>1. SafetyInv /\ [Next]_vars => SafetyInv'
  BY SafetyStep
<1> QED
  BY <1>1, InitSafety, PTL DEF Spec

-----------------------------------------------------------------------------
(* What SafetyInv gives *)

\* What a claim relies on, needing no bound on the processes that purge: the
\* portal could be synced in the generation the row was read in.
ReadInv ==
  \A w \in Worker : visit[w].stage = "opening" =>
    /\ visit[w].gen <= gen
    /\ visit[w].gen = gen => status = "active" /\ ~purgePending

ClaimInv == TypeInv /\ ReadInv /\ RunExcludesPurge

LEMMA ClaimStep == ClaimInv /\ [Next]_vars => ClaimInv'
<1> SUFFICES ASSUME ClaimInv, [Next]_vars PROVE ReadInv' /\ RunExcludesPurge'
  BY TypesStep DEF ClaimInv
<1>0. TypeInv /\ VisitTypes /\ ReadInv /\ RunExcludesPurge /\ gen \in Nat
  BY DEF ClaimInv, TypeInv, RowTypes
<1> DEFINE Kept == \A v \in Worker : visit'[v].stage = "opening" => visit'[v] = visit[v]
           Cleared == gen' = gen + 1 /\ ~runStarted'
           Quiet == /\ UNCHANGED <<gen, status>> /\ (purgePending' => purgePending)
                    /\ runStarted' => runStarted
<1>1. ASSUME Kept, Cleared \/ Quiet PROVE ReadInv' /\ RunExcludesPurge'
  <2>1. \A v \in Worker : visit[v].gen \in Nat
    BY <1>0 DEF VisitTypes, Visits
  <2>2. ReadInv'
    <3> SUFFICES ASSUME NEW v \in Worker, visit'[v].stage = "opening"
                 PROVE  /\ visit'[v].gen <= gen'
                        /\ visit'[v].gen = gen' => status' = "active" /\ ~purgePending'
      BY DEF ReadInv
    <3>1. visit'[v] = visit[v] /\ visit[v].gen <= gen /\ visit[v].gen \in Nat
      BY <1>0, <1>1, <2>1 DEF ReadInv
    <3>2. CASE Cleared
      BY <1>0, <3>1, <3>2
    <3>3. CASE Quiet
      BY <1>0, <3>1, <3>3 DEF ReadInv
    <3> QED
      BY <1>1, <3>2, <3>3
  <2>3. RunExcludesPurge'
    BY <1>0, <1>1 DEF RunExcludesPurge
  <2> QED
    BY <2>2, <2>3
<1>2. CASE UNCHANGED vars \/ Tick \/ NextRunComes
  BY <1>1, <1>2 DEF vars, Tick, NextRunComes, rowVars, portalVars, leaseVars, taskVars
<1>3. CASE Lifecycle
  BY <1>1, <1>3 DEF Lifecycle, Uninstall, MarkedUninstalled, StoreCredential, CrmSwitchedOff,
     LeaseCleared, taskVars
<1>4. ASSUME NEW w \in Worker, Ends(w) PROVE Kept
  BY <1>0, <1>4, NoVisitTyped DEF Ends, VisitTypes
<1>5. ASSUME NEW w \in Worker, NEW s \in Stages, Goes(w, s), s # "opening" PROVE Kept
  BY <1>0, <1>5 DEF Goes, VisitTypes, Visits
<1>6. ASSUME NEW w \in Worker, NEW o \in Outcomes, Ended(w, o) PROVE Kept
  BY <1>0, <1>6 DEF Ended, NoVisit, VisitTypes
<1>7. ASSUME NEW w \in Worker, Leasing(w) PROVE Kept /\ Quiet
  <2>1. CASE Select(w) \/ SelectionGone(w)
    BY <2>1 DEF Select, SelectionGone, rowVars, portalVars, leaseVars, taskVars
  <2>2. CASE Dispatch(w)
    <3>1. Quiet
      BY <2>2 DEF Dispatch, portalVars
    <3>2. CASE Inflight(w) = 0
      BY <2>2, <3>1, <3>2, <1>5 DEF Dispatch, Spawned, Goes, Stages
    <3>3. CASE Inflight(w) # 0
      BY <2>2, <3>1, <3>3 DEF Dispatch, Spawned
    <3> QED
      BY <3>2, <3>3
  <2> QED
    BY <1>7, <2>1, <2>2 DEF Leasing
<1>8. ASSUME NEW w \in Worker, Opening(w) PROVE ReadInv' /\ RunExcludesPurge'
  <2>1. CASE ReadPortal(w)
    <3>1. /\ UNCHANGED <<gen, status, purgePending, runStarted>>
          /\ status = "active" /\ ~purgePending
      BY <2>1 DEF ReadPortal, MayOpen, Syncable, rowVars, portalVars, leaseVars
    <3>2. visit'[w].gen = gen /\ \A v \in Worker : v # w => visit'[v] = visit[v]
      BY <1>0, <2>1 DEF ReadPortal, VisitTypes
    <3>3. ReadInv'
      BY <1>0, <3>1, <3>2 DEF ReadInv
    <3> QED
      BY <1>0, <3>1, <3>3 DEF RunExcludesPurge
  <2>2. CASE AbandonDispatch(w) \/ ClaimLost(w)
    BY <1>1, <1>4, <2>2 DEF AbandonDispatch, ClaimLost, rowVars, portalVars, leaseVars
  <2>3. CASE ClaimRun(w)
    <3>1. status = "active" /\ ~purgePending /\ UNCHANGED <<gen, status, purgePending>>
      BY <1>0, <2>3 DEF ClaimRun, Fenced, ReadInv, portalVars
    <3>2. \A v \in Worker : visit'[v].stage = "opening" => visit'[v] = visit[v]
      BY <1>0, <2>3 DEF ClaimRun, VisitTypes, Visits
    <3>3. ReadInv'
      BY <1>0, <3>1, <3>2 DEF ReadInv
    <3> QED
      BY <3>1, <3>3 DEF RunExcludesPurge
  <2> QED
    BY <1>8, <2>1, <2>2, <2>3 DEF Opening
<1>9. ASSUME NEW w \in Worker, Working(w) PROVE Kept /\ Quiet
  <2>1. Quiet
    BY <1>9 DEF Working, Request, TokenExpired, BeginWrite, CommitWrite, Heartbeat,
       FilterViolated, PhasesOver, AbandonVisit, rowVars, portalVars, leaseVars
  <2>2. CASE Request(w) \/ Heartbeat(w)
    BY <1>5, <2>1, <2>2 DEF Request, Heartbeat, Stages
  <2>3. CASE TokenExpired(w) \/ BeginWrite(w) \/ CommitWrite(w)
    BY <1>0, <2>1, <2>3 DEF TokenExpired, BeginWrite, CommitWrite, VisitTypes, Visits
  <2>4. CASE FilterViolated(w) \/ PhasesOver(w)
    BY <1>6, <2>1, <2>4 DEF FilterViolated, PhasesOver, Outcomes
  <2>5. CASE AbandonVisit(w)
    BY <1>4, <2>1, <2>5 DEF AbandonVisit
  <2> QED
    BY <1>9, <2>1, <2>2, <2>3, <2>4, <2>5 DEF Working
<1>10. ASSUME NEW w \in Worker, Closing(w) PROVE Kept /\ (Cleared \/ Quiet)
  <2>0. AfterRelease(w) => Kept
    BY <1>4, <1>5 DEF AfterRelease, Stages
  <2>1. CASE SaveRateState(w)
    BY <1>5, <2>1 DEF SaveRateState, Stages, rowVars, portalVars, leaseVars
  <2>2. CASE Release(w) \/ ReleaseLost(w)
    BY <2>0, <2>2 DEF Release, ReleaseLost, LeaseCleared, rowVars, portalVars, leaseVars
  <2>3. CASE ParkDead(w) \/ ParkDeleted(w)
    BY <1>4, <2>3 DEF ParkDead, ParkDeleted, MarkedUninstalled, LeaseCleared, rowVars,
       portalVars, leaseVars
  <2> QED
    BY <1>10, <2>1, <2>2, <2>3 DEF Closing
<1>11. ASSUME NEW w \in Worker, Purging(w) PROVE Kept /\ Quiet
  BY <1>11 DEF Purging, PurgeStart, PurgeChunk, PurgeDrained, PurgeCounted, PurgeExcused,
     PurgeFinish, PurgeIncomplete, rowVars, portalVars, leaseVars, taskVars
<1>12. ASSUME NEW w \in Worker, Crash(w) PROVE Kept /\ Quiet
  BY <1>4, <1>12 DEF Crash, rowVars, portalVars, leaseVars
<1> QED
  BY <1>1, <1>2, <1>3, <1>7, <1>8, <1>9, <1>10, <1>11, <1>12 DEF Next

\* No run is claimed for a portal that owes a purge or is uninstalled
\* (lease.py 173), whatever order selection, uninstall, reinstall, expiry,
\* takeover, crash and purge come in, and however many processes purge.
THEOREM RunAndPurgeExclude == Spec => []RunExcludesPurge
<1>1. Init => ClaimInv
  BY InitTypes, NoVisitTyped DEF Init, ClaimInv, ReadInv, RunExcludesPurge
<1>2. ClaimInv => RunExcludesPurge
  BY DEF ClaimInv
<1> QED
  BY <1>1, <1>2, ClaimStep, PTL DEF Spec

\* A run of an earlier installation never leaves a row behind the purge
\* (lease.py 10-13).
THEOREM NoRowOfAnEarlierInstallation ==
  ASSUME SinglePurger
  PROVE  Spec => []RowsOfThisInstallation
<1>1. SafetyInv => RowsOfThisInstallation
  BY DEF SafetyInv, DataInv
<1> QED
  BY <1>1, Safety, PTL

\* The cursor never stands for a call that is not in the table (lease.py
\* 117-120, upsert.py 293-367).
THEOREM CursorIsCovered ==
  ASSUME SinglePurger
  PROVE  Spec => []CursorCovered
<1>1. SafetyInv => CursorCovered
  BY DEF SafetyInv, DataInv
<1> QED
  BY <1>1, Safety, PTL

-----------------------------------------------------------------------------
(* Refinement: the leases and fences implement the abstract store. *)

LEMMA StoreInitial == Init => Store!StoreInit
  BY Zenon DEF Init, Store!StoreInit

LEMMA StoreStutters ==
  ASSUME UNCHANGED <<status, purgePending, inst, calls, cursor>>
  PROVE  UNCHANGED Store!storeVars
  BY DEF Store!storeVars

LEMMA UninstallIsAbstract ==
  ASSUME MarkedUninstalled
  PROVE  Store!Uninstalled
  BY Zenon DEF MarkedUninstalled, Store!Uninstalled

LEMMA CommitIsImport ==
  ASSUME SafetyInv, NEW w \in Worker, CommitWrite(w)
  PROVE  Store!Import
<1> DEFINE k == visit[w].cursor
<1>1. /\ status = "active" /\ ~purgePending
      /\ visit[w].inst = inst /\ Covered(k)
  BY DEF CommitWrite, Fenced, SafetyInv, VisitInv, Running
<1>2. k \in 0..(MaxCall - 1)
  BY NumberAssumption DEF CommitWrite, SafetyInv, TypeInv, VisitTypes
<1>3. Store!Prefix(calls, inst, k)
  BY <1>1 DEF Covered, Store!Prefix, Row, Store!Row
<1>4. /\ calls' = calls \cup {Store!Row(k + 1, inst)} /\ cursor' = k + 1
      /\ UNCHANGED <<status, purgePending, inst>>
  BY <1>1 DEF CommitWrite, portalVars, Row, Store!Row
<1> QED
  BY <1>1, <1>2, <1>3, <1>4 DEF Store!Import

LEMMA StoreStep == SinglePurger /\ SafetyInv /\ [Next]_vars => [Store!StoreNext]_(Store!storeVars)
<1> SUFFICES ASSUME SinglePurger, SafetyInv, [Next]_vars
             PROVE  Store!StoreNext \/ UNCHANGED Store!storeVars
  OBVIOUS
<1>1. CASE UNCHANGED vars \/ Tick \/ NextRunComes
  BY <1>1, StoreStutters DEF vars, Tick, NextRunComes, rowVars, portalVars, dataVars
<1>2. CASE Lifecycle
  <2>1. CASE Uninstall
    BY <2>1, UninstallIsAbstract DEF Uninstall, Store!StoreNext
  <2>2. CASE StoreCredential
    <3>1. CASE status = "uninstalled"
      BY <2>2, <3>1 DEF StoreCredential, Store!Reinstalled, Store!StoreNext
    <3>2. CASE status # "uninstalled"
      <4>1. status = "active"
        BY <3>2 DEF SafetyInv, TypeInv, RowTypes
      <4> QED
        BY <2>2, <3>2, <4>1, StoreStutters DEF StoreCredential
    <3> QED
      BY <3>1, <3>2
  <2>3. CASE CrmSwitchedOff
    BY <2>3, StoreStutters DEF CrmSwitchedOff, portalVars, dataVars
  <2> QED
    BY <1>2, <2>1, <2>2, <2>3 DEF Lifecycle
<1>3. ASSUME NEW w \in Worker, Leasing(w) \/ Opening(w) PROVE UNCHANGED Store!storeVars
  BY <1>3, StoreStutters DEF Leasing, Select, Dispatch, SelectionGone, Opening, ReadPortal,
     AbandonDispatch, ClaimRun, ClaimLost, rowVars, portalVars, dataVars
<1>4. ASSUME NEW w \in Worker, Working(w)
      PROVE  Store!StoreNext \/ UNCHANGED Store!storeVars
  <2>1. CASE CommitWrite(w)
    BY <2>1, CommitIsImport DEF Store!StoreNext
  <2>2. CASE Request(w) \/ TokenExpired(w) \/ BeginWrite(w) \/ Heartbeat(w) \/ FilterViolated(w)
             \/ PhasesOver(w) \/ AbandonVisit(w)
    BY <2>2, StoreStutters DEF Request, TokenExpired, BeginWrite, Heartbeat, FilterViolated, PhasesOver,
       AbandonVisit, rowVars, portalVars, dataVars
  <2> QED
    BY <1>4, <2>1, <2>2 DEF Working
<1>5. ASSUME NEW w \in Worker, Closing(w)
      PROVE  Store!StoreNext \/ UNCHANGED Store!storeVars
  <2>1. CASE ParkDeleted(w)
    <3>1. MarkedUninstalled \/ UNCHANGED <<status, purgePending, inst, calls, cursor>>
      BY <2>1 DEF ParkDeleted, rowVars, portalVars, dataVars
    <3> QED
      BY <3>1, UninstallIsAbstract, StoreStutters DEF Store!StoreNext
  <2>2. CASE SaveRateState(w) \/ Release(w) \/ ReleaseLost(w) \/ ParkDead(w)
    BY <2>2, StoreStutters DEF SaveRateState, Release, ReleaseLost, ParkDead, rowVars,
       portalVars, dataVars
  <2> QED
    BY <1>5, <2>1, <2>2 DEF Closing
<1>6. ASSUME NEW w \in Worker, Purging(w)
      PROVE  Store!StoreNext \/ UNCHANGED Store!storeVars
  <2>1. CASE PurgeChunk(w)
    <3>1. purgePending /\ \E chunk \in SUBSET calls : calls' = calls \ chunk
      BY <2>1 DEF PurgeChunk, SafetyInv, PurgeInv
    <3> QED
      BY <2>1, <3>1 DEF PurgeChunk, portalVars, Store!Deleted, Store!StoreNext
  <2>2. CASE PurgeFinish(w)
    <3>1. purgePending /\ calls = {}
      BY <2>2 DEF PurgeFinish, SafetyInv, PurgeInv
    <3> QED
      BY <2>2, <3>1, Zenon DEF PurgeFinish, dataVars, Store!PurgeVerified, Store!StoreNext
  <2>3. CASE PurgeStart(w) \/ PurgeDrained(w) \/ PurgeCounted(w) \/ PurgeExcused(w)
             \/ PurgeIncomplete(w)
    BY <2>3, StoreStutters DEF PurgeStart, PurgeDrained, PurgeCounted, PurgeExcused, PurgeIncomplete,
       rowVars, portalVars, dataVars
  <2> QED
    BY <1>6, <2>1, <2>2, <2>3 DEF Purging
<1>7. ASSUME NEW w \in Worker, Crash(w) PROVE UNCHANGED Store!storeVars
  BY <1>7, StoreStutters DEF Crash, rowVars, portalVars, dataVars
<1> QED
  BY <1>1, <1>2, <1>3, <1>4, <1>5, <1>6, <1>7 DEF Next

\* Every behaviour of the leases, fences and purge is one of TenantStore.
THEOREM LeasesImplementStore ==
  ASSUME SinglePurger
  PROVE  Spec => ImplementsStore
<1>1. SafetyInv /\ [Next]_vars => [Store!StoreNext]_(Store!storeVars)
  BY StoreStep
<1> QED
  BY <1>1, StoreInitial, Safety, PTL DEF Spec, ImplementsStore, Store!StoreSpec

-----------------------------------------------------------------------------
(* One worker process: a commit overwrites what the visit last stored.     *)

\* The running visit of the current generation wrote the cursor last.
SoleInv ==
  \A w \in Worker :
    visit[w].stage \in Running /\ visit[w].gen = gen => visit[w].stored = cursor

\* Whatever a step is, it reads the portal, commits a page, raises the
\* generation, or moves neither the cursor nor a snapshot.
LEMMA StepKinds ==
  ASSUME TypeInv, [Next]_vars
  PROVE  \/ \E w \in Worker : ReadPortal(w) \/ CommitWrite(w)
         \/ VisitsKept /\ gen' = gen + 1
         \/ VisitsKept /\ UNCHANGED <<gen, cursor>>
<1>0. VisitTypes
  BY DEF TypeInv
<1>1. CASE UNCHANGED vars \/ Tick \/ NextRunComes
  BY <1>1, UnchangedKept DEF vars, Tick, NextRunComes, rowVars, dataVars, taskVars
<1>2. CASE Lifecycle
  BY <1>2, UnchangedKept DEF Lifecycle, Uninstall, MarkedUninstalled, StoreCredential,
     CrmSwitchedOff, taskVars
<1>3. ASSUME NEW w \in Worker, Leasing(w) \/ Opening(w), ~ReadPortal(w)
      PROVE  VisitsKept /\ UNCHANGED <<gen, cursor>>
  <2>0. CASE Select(w) \/ SelectionGone(w)
    BY <2>0, UnchangedKept DEF Select, SelectionGone, rowVars, dataVars, taskVars
  <2>1. CASE Dispatch(w)
    <3>1. CASE Inflight(w) = 0
      BY <1>0, <2>1, <3>1, GoesKept DEF Dispatch, Spawned, Goes, Stages, Running, dataVars
    <3>2. CASE Inflight(w) # 0
      BY <2>1, <3>2, UnchangedKept DEF Dispatch, Spawned, dataVars
    <3> QED
      BY <3>1, <3>2
  <2>2. CASE AbandonDispatch(w) \/ ClaimLost(w)
    BY <1>0, <2>2, EndsKept DEF AbandonDispatch, ClaimLost, rowVars, dataVars
  <2>3. CASE ClaimRun(w)
    BY <1>0, <2>3, ClaimKept DEF ClaimRun, rowVars, dataVars
  <2> QED
    BY <1>3, <2>0, <2>1, <2>2, <2>3 DEF Leasing, Opening
<1>4. ASSUME NEW w \in Worker, Working(w), ~CommitWrite(w)
      PROVE  VisitsKept /\ UNCHANGED <<gen, cursor>>
  <2>1. CASE Request(w) \/ Heartbeat(w)
    BY <1>0, <2>1, GoesKept DEF Request, Heartbeat, Stages, Running, rowVars, dataVars
  <2>2. CASE BeginWrite(w) \/ TokenExpired(w)
    BY <1>0, <2>2 DEF BeginWrite, TokenExpired, VisitTypes, Visits, VisitsKept, Running,
       rowVars, dataVars
  <2>3. CASE FilterViolated(w) \/ PhasesOver(w)
    BY <1>0, <2>3, EndedKept DEF FilterViolated, PhasesOver, Outcomes, rowVars, dataVars
  <2>4. CASE AbandonVisit(w)
    BY <1>0, <2>4, EndsKept DEF AbandonVisit, rowVars, dataVars
  <2> QED
    BY <1>4, <2>1, <2>2, <2>3, <2>4 DEF Working
<1>5. ASSUME NEW w \in Worker, Closing(w)
      PROVE  \/ VisitsKept /\ gen' = gen + 1
             \/ VisitsKept /\ UNCHANGED <<gen, cursor>>
  <2>0. AfterRelease(w) => VisitsKept
    BY <1>0, EndsKept, GoesKept DEF AfterRelease, Stages, Running
  <2>1. CASE SaveRateState(w)
    BY <1>0, <2>1, GoesKept DEF SaveRateState, Stages, Running, rowVars, dataVars
  <2>2. CASE Release(w) \/ ReleaseLost(w)
    BY <2>0, <2>2 DEF Release, ReleaseLost, rowVars, dataVars
  <2>3. CASE ParkDead(w) \/ ParkDeleted(w)
    BY <1>0, <2>3, EndsKept DEF ParkDead, ParkDeleted, MarkedUninstalled, rowVars, dataVars
  <2> QED
    BY <1>5, <2>1, <2>2, <2>3 DEF Closing
<1>6. ASSUME NEW w \in Worker, Purging(w) PROVE VisitsKept /\ UNCHANGED <<gen, cursor>>
  BY <1>6, UnchangedKept DEF Purging, PurgeStart, PurgeChunk, PurgeDrained, PurgeCounted, PurgeExcused,
     PurgeFinish, PurgeIncomplete, rowVars, dataVars, taskVars
<1>7. ASSUME NEW w \in Worker, Crash(w) PROVE VisitsKept /\ UNCHANGED <<gen, cursor>>
  BY <1>0, <1>7, EndsKept DEF Crash, rowVars, dataVars
<1> QED
  BY <1>1, <1>2, <1>3, <1>4, <1>5, <1>6, <1>7 DEF Next

LEMMA SoleStep ==
  ASSUME SoleWorker, SafetyInv, SoleInv, [Next]_vars
  PROVE  SoleInv'
<1>0. TypeInv /\ VisitTypes /\ gen \in Nat
  BY DEF SafetyInv, TypeInv, RowTypes
<1>1. ASSUME NEW w \in Worker, ReadPortal(w) PROVE SoleInv'
  <2>1. cursor' = cursor /\ visit'[w].stored = cursor
    BY <1>0, <1>1 DEF ReadPortal, VisitTypes, rowVars, dataVars
  <2> QED
    BY <2>1 DEF SoleInv, SoleWorker
<1>2. ASSUME NEW w \in Worker, CommitWrite(w) PROVE SoleInv'
  <2>1. visit'[w].stored = cursor'
    BY <1>0, <1>2 DEF CommitWrite, VisitTypes, Visits
  <2> QED
    BY <2>1 DEF SoleInv, SoleWorker
<1>3. CASE VisitsKept /\ gen' = gen + 1
  <2>1. \A w \in Worker : visit'[w].stage \in Running => visit'[w].gen # gen'
    <3> SUFFICES ASSUME NEW w \in Worker, visit'[w].stage \in Running
                 PROVE  visit'[w].gen # gen'
      OBVIOUS
    <3>1. visit'[w].gen <= gen /\ visit'[w].gen \in Nat
      BY <1>0, <1>3 DEF VisitsKept, SafetyInv, VisitInv, VisitTypes, Visits
    <3> QED
      BY <1>0, <1>3, <3>1
  <2> QED
    BY <2>1 DEF SoleInv
<1>4. CASE VisitsKept /\ UNCHANGED <<gen, cursor>>
  BY <1>4 DEF SoleInv, VisitsKept
<1> QED
  BY <1>0, <1>1, <1>2, <1>3, <1>4, StepKinds

\* With one worker process nobody else writes the cursor while a visit's lease
\* and generation hold (definitions.py 325-328).  With two the fence cannot
\* tell this lease from an earlier one of the same process (README, Divergences).
THEOREM SoleWriter ==
  ASSUME SoleWorker
  PROVE  Spec => NobodyElseWrites
<1>1. SinglePurger
  BY WorkerAssumption DEF SoleWorker, SinglePurger
<1>2. Init => SoleInv
  BY NoVisitTyped DEF Init, SoleInv, Running
<1>3. SafetyInv /\ SoleInv /\ [Next]_vars => SoleInv'
  BY SoleStep
<1>4. SoleInv => (\A w \in Worker : CommitWrite(w) => cursor = visit[w].stored)
  BY DEF SoleInv, CommitWrite, Fenced, Running
<1>5. Spec => []SafetyInv
  BY <1>1, Safety
<1> QED
  BY <1>2, <1>3, <1>4, <1>5, PTL DEF Spec, NobodyElseWrites

=============================================================================
