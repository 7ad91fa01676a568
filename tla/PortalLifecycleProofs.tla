----------------------- MODULE PortalLifecycleProofs -----------------------
(***************************************************************************)
(* Proofs about PortalLifecycle for every number of handlers, refreshers,  *)
(* users, events and requests.                                             *)
(*                                                                         *)
(* A handler writes what it learned when the row was another one.  What    *)
(* makes that safe is never the row it read: it is what the request itself *)
(* carries (JobInv: the administrator proof behind a pair), the row's lock *)
(* for as long as an exchange takes (LockInv), and the generation a CRM    *)
(* visit was opened with (VisitInv).                                       *)
(***************************************************************************)
EXTENDS PortalLifecycle, TLAPS

Links == (1..links) \cup {None}
Statuses == {"none", "active", "uninstalled"}
TokenHealth == {"ok", "method_missing", "reauth_required"}
Names == {"install", "update", "uninstall"}

Rows == [status : Statuses, version : Nat, owner : User \cup {None}, refresh : Links,
         access : {"none", "good", "old"}, tokenStatus : TokenHealth,
         appToken : Nat \cup {None}, completed : 0..clock, lastEvent : 0..clock,
         purge : BOOLEAN, optOut : BOOLEAN, crmPurge : BOOLEAN]

Reads == [tokenStatus : TokenHealth, completed : Nat]

Jobs == [kind : Names \cup {"idle", "open", "reauthorize", "unknown", "switch"},
         stage : {"idle", "opened", "kept", "proved", "asked"},
         row : Reads \cup {None}, by : User \cup {None}, link : Links,
         ts : 0..clock, token : Nat \cup {None}]

Refreshes == [stage : {"idle", "loaded", "locked", "exchanged"}, version : Nat, link : Links]

Events == [name : Names, ts : 0..clock, token : Nat]

CloudTypes ==
  /\ clock \in Nat /\ links \in Nat /\ valid \subseteq 1..links
  /\ cloud.token \in Nat /\ posted \subseteq Events

RowTypes ==
  /\ portal \in Rows
  /\ gen \in Nat /\ lock \in Refresher \cup {None} /\ visit \in 0..gen \cup {None}

TaskTypes ==
  /\ job \in [Handler -> Jobs]
  /\ refresher \in [Refresher -> Refreshes]

TypeInv == CloudTypes /\ RowTypes /\ TaskTypes

-----------------------------------------------------------------------------
(* The invariant. *)

\* Behind a pair about to be stored stands an administrator; an uninstall that
\* was let through is no older than the installation its handler read, if it
\* says when it was made.
Admissible(j) ==
  /\ j.stage \in {"kept", "proved"} \/ j.kind = "unknown" => j.by \in Admin
  /\ j.kind = "uninstall" /\ j.stage = "asked" /\ j.ts # NoTime => j.ts >= j.row.completed

JobInv == \A h \in Handler : Admissible(job[h])

\* Who exchanges holds the lock, alone, on a credential that is there.
LockInv ==
  /\ \A r \in Refresher : refresher[r].stage \in {"locked", "exchanged"} <=> lock = r
  /\ lock # None => portal.refresh # None

\* A visit the fence would let through was opened while nobody had opted out.
VisitInv == visit # None /\ visit = gen => ~portal.optOut

\* Of whatever row a handler is about to store.
Sound(row) ==
  /\ row.refresh # None => row.owner \in Admin
  /\ row.status = "uninstalled" => row.refresh = None /\ row.access = "none"
  /\ row.access = "none" => row.refresh = None

RowInv == Sound(portal) /\ OptOutIsEmpty

SafetyInv == TypeInv /\ JobInv /\ LockInv /\ VisitInv /\ RowInv /\ OneExchangePerExpiry

LEMMA TypeInvImpliesTypeOK == TypeInv /\ LockInv => TypeOK
<1> SUFFICES ASSUME TypeInv, LockInv PROVE TypeOK
  OBVIOUS
<1> USE DEF TypeInv
<1>1. lock # None <=> \E r \in Refresher : refresher[r].stage \in {"locked", "exchanged"}
  BY PeopleAssumption DEF RowTypes, LockInv
<1>2. portal.completed <= clock /\ portal.lastEvent <= clock
  BY DEF CloudTypes, RowTypes, Rows
<1>3. visit = None \/ visit <= gen
  BY DEF RowTypes
<1> QED
  BY <1>1, <1>2, <1>3 DEF TypeOK, CloudTypes, RowTypes, Rows, Links, Statuses

-----------------------------------------------------------------------------
(* Initially. *)

\* What a stored credential does to a row.
LEMMA CredentialTyped ==
  ASSUME NEW row \in Rows, NEW version \in Nat, NEW by \in User, NEW link \in Links,
         NEW token \in Nat \cup {None}, NEW done \in 0..clock
  PROVE  [row EXCEPT !.status = "active", !.version = version, !.owner = by, !.refresh = link,
                     !.access = "good", !.appToken = token, !.completed = done] \in Rows
  BY DEF Rows, Statuses

LEMMA InitSafety == Init => SafetyInv
<1> SUFFICES ASSUME Init PROVE SafetyInv
  OBVIOUS
<1>1. CloudTypes
  BY DEF Init, CloudTypes, Events
<1>2. RowTypes
  <2>1. gen \in Nat /\ lock \in Refresher \cup {None} /\ visit \in 0..gen \cup {None}
    BY DEF Init
  <2>2. CASE clock = 0 /\ portal = Empty
    BY <2>1, <2>2 DEF RowTypes, Rows, Empty, Links, Statuses, TokenHealth
  <2>3. CASE clock = 1 /\ links = 1 /\ \E a \in Admin : portal = Installed(a, 1)
    <3>1. PICK a \in Admin : portal = Installed(a, 1)
      BY <2>3
    <3>2. Empty \in Rows
      BY <2>3 DEF Empty, Rows, Links, Statuses, TokenHealth
    <3>3. Installed(a, 1) \in Rows
      <4>1. a \in User /\ 1 \in Links /\ 1 \in 0..clock
        BY <2>3, PeopleAssumption DEF Links
      <4> QED
        BY <3>2, <4>1, CredentialTyped DEF Installed
    <3> QED
      BY <2>1, <3>1, <3>3 DEF RowTypes
  <2> QED
    BY <2>2, <2>3 DEF Init
<1>3. TaskTypes
  <2>1. clock \in Nat
    BY DEF Init
  <2>2. NoJob \in Jobs
    BY <2>1 DEF NoJob, Jobs, Links
  <2>3. NotRefreshing \in Refreshes
    BY DEF NotRefreshing, Refreshes, Links
  <2> QED
    BY <2>2, <2>3 DEF Init, TaskTypes
<1>4. JobInv
  BY DEF Init, JobInv, Admissible, NoJob
<1>5. LockInv
  BY PeopleAssumption DEF Init, LockInv, NotRefreshing
<1>6. RowInv /\ VisitInv
  <2>1. VisitInv /\ OptOutIsEmpty
    BY DEF Init, VisitInv, OptOutIsEmpty
  <2>2. CASE portal = Empty
    BY <2>1, <2>2 DEF RowInv, Sound, Empty
  <2>3. CASE \E a \in Admin : portal = Installed(a, 1)
    BY <2>1, <2>3 DEF RowInv, Sound, Installed, Empty
  <2> QED
    BY <2>2, <2>3 DEF Init
<1>7. OneExchangePerExpiry
  BY DEF Init, OneExchangePerExpiry, NotRefreshing
<1> QED
  BY <1>1, <1>2, <1>3, <1>4, <1>5, <1>6, <1>7 DEF SafetyInv, TypeInv

-----------------------------------------------------------------------------
(* The shapes of a step. *)

\* What was typed stays typed when time passes and pairs are made.
LEMMA BoundsGrow ==
  ASSUME clock \in Nat, links \in Nat, clock' \in Nat, links' \in Nat,
         clock <= clock', links <= links'
  PROVE  Rows \subseteq Rows' /\ Jobs \subseteq Jobs' /\ Refreshes \subseteq Refreshes'
         /\ Events \subseteq Events'
<1>1. Links \subseteq Links' /\ 0..clock \subseteq 0..clock'
  BY DEF Links
<1>2. Rows \subseteq Rows'
  BY <1>1 DEF Rows
<1>3. Jobs \subseteq Jobs'
  BY <1>1 DEF Jobs
<1>4. Refreshes \subseteq Refreshes'
  BY <1>1 DEF Refreshes
<1>5. Events \subseteq Events'
  BY <1>1 DEF Events
<1> QED
  BY <1>2, <1>3, <1>4, <1>5

LEMMA ExchangedTyped ==
  ASSUME CloudTypes, UNCHANGED cloudVars, Exchanged \/ UNCHANGED chainVars
  PROVE  CloudTypes' /\ links <= links'
<1>1. Events' = Events
  BY DEF cloudVars, Events
<1>2. links' \in Nat /\ links <= links' /\ valid' \subseteq 1..links'
  <2>1. CASE Exchanged
    BY <2>1 DEF CloudTypes, Exchanged
  <2>2. CASE UNCHANGED chainVars
    BY <2>2 DEF CloudTypes, chainVars
  <2> QED
    BY <2>1, <2>2
<1> QED
  BY <1>1, <1>2 DEF CloudTypes, cloudVars

\* A request begins, goes on or ends; the row is left alone.
LEMMA JobStep ==
  ASSUME SafetyInv, NEW h \in Handler, NEW j \in Jobs', Becomes(h, j), Admissible(j),
         Exchanged \/ UNCHANGED chainVars,
         UNCHANGED <<cloudVars, portal, gen, lock, refresher, crmVars>>
  PROVE  SafetyInv'
<1> USE DEF SafetyInv, TypeInv
<1>1. CloudTypes' /\ links <= links' /\ clock' = clock
  BY ExchangedTyped DEF cloudVars
<1>2. Rows \subseteq Rows' /\ Jobs \subseteq Jobs' /\ Refreshes \subseteq Refreshes'
  BY <1>1, BoundsGrow DEF CloudTypes
<1>3. RowTypes'
  BY <1>2 DEF RowTypes, crmVars
<1>4. TaskTypes'
  BY <1>2 DEF TaskTypes, Becomes
<1>5. JobInv'
  BY DEF JobInv, Becomes, TaskTypes
<1>6. LockInv' /\ OneExchangePerExpiry' /\ VisitInv' /\ RowInv'
  BY DEF LockInv, OneExchangePerExpiry, VisitInv, RowInv, Sound, OptOutIsEmpty, crmVars, At
<1> QED
  BY <1>1, <1>3, <1>4, <1>5, <1>6

\* The row is written by somebody who waited for its lock.
LEMMA RowStep ==
  ASSUME SafetyInv, RowFree, NEW row \in Rows, portal' = row, Sound(row),
         UNCHANGED <<cloudVars, chainVars, lock, refresher, visit>>,
         gen' = gen \/ gen' = gen + 1,
         row.optOut => portal.optOut \/ gen' = gen + 1,
         row.optOut /\ ~row.crmPurge => ~mirror',
         job' \in [Handler -> Jobs], \A h \in Handler : job'[h] = job[h] \/ Admissible(job'[h])
  PROVE  SafetyInv'
<1> USE DEF SafetyInv, TypeInv
<1>1. CloudTypes' /\ Rows' = Rows /\ Jobs' = Jobs /\ Refreshes' = Refreshes
  BY DEF CloudTypes, cloudVars, chainVars, Rows, Jobs, Refreshes, Events, Links
<1>2. RowTypes'
  BY <1>1 DEF RowTypes
<1>3. TaskTypes'
  BY <1>1 DEF TaskTypes
<1>4. JobInv'
  <2> SUFFICES ASSUME NEW h \in Handler PROVE Admissible(job'[h])
    BY DEF JobInv, Admissible
  <2>1. CASE job'[h] = job[h]
    BY <2>1 DEF JobInv
  <2> QED
    BY <2>1
<1>5. LockInv' /\ OneExchangePerExpiry'
  BY PeopleAssumption DEF LockInv, OneExchangePerExpiry, RowFree
<1>6. VisitInv'
  <2>1. CASE gen' = gen
    BY <2>1 DEF VisitInv, RowTypes
  <2>2. CASE gen' = gen + 1
    <3>1. visit = None \/ visit # gen'
      BY <2>2 DEF RowTypes
    <3> QED
      BY <3>1 DEF VisitInv
  <2> QED
    BY <2>1, <2>2
<1>7. RowInv'
  BY DEF RowInv, Sound, OptOutIsEmpty
<1> QED
  BY <1>1, <1>2, <1>3, <1>4, <1>5, <1>6, <1>7

\* What a row says of CRM analytics is as it was.
SameCrm(row) == row.optOut = portal.optOut /\ row.crmPurge = portal.crmPurge

LEMMA WriteStep ==
  ASSUME SafetyInv, RowFree, NEW row \in Rows, portal' = row, Sound(row), SameCrm(row),
         UNCHANGED <<cloudVars, chainVars, lock, refresher, crmVars>>,
         gen' = gen \/ gen' = gen + 1,
         job' \in [Handler -> Jobs], \A h \in Handler : job'[h] = job[h] \/ Admissible(job'[h])
  PROVE  SafetyInv'
<1>1. row.optOut => portal.optOut
  BY DEF SameCrm
<1>2. row.optOut /\ ~row.crmPurge => ~mirror'
  BY DEF SameCrm, SafetyInv, RowInv, OptOutIsEmpty, crmVars
<1>3. visit' = visit
  BY DEF crmVars
<1> QED
  BY <1>1, <1>2, <1>3, RowStep

LEMMA DoneTyped ==
  ASSUME TypeInv, NEW h \in Handler, Done(h)
  PROVE  /\ job' \in [Handler -> Jobs]
         /\ \A g \in Handler : job'[g] = job[g] \/ Admissible(job'[g])
<1>1. NoJob \in Jobs
  BY DEF TypeInv, CloudTypes, NoJob, Jobs, Links
<1>2. Admissible(NoJob)
  BY DEF Admissible, NoJob
<1> QED
  BY <1>1, <1>2 DEF TypeInv, TaskTypes, Done, Becomes

-----------------------------------------------------------------------------
(* What a handler stores. *)

LEMMA StoredSound ==
  ASSUME TypeInv, NEW by \in Admin, NEW link \in Links, NEW token \in Nat \cup {None},
         NEW health \in TokenHealth
  PROVE  LET row == Stored(by, link, token, health)
         IN  row \in Rows /\ Sound(row) /\ SameCrm(row)
<1> USE DEF TypeInv, RowTypes, CloudTypes
<1>1. Given(token) \in Nat \cup {None}
  BY DEF Given, Rows
<1>2. portal.version + 1 \in Nat /\ by \in User /\ clock \in 0..clock
  BY PeopleAssumption DEF Rows
<1>3. Stored(by, link, token, health) \in Rows
  BY <1>1, <1>2 DEF Stored, Rows, Statuses
<1>4. Sound(Stored(by, link, token, health)) /\ SameCrm(Stored(by, link, token, health))
  BY DEF Stored, Rows, Sound, SameCrm
<1> QED
  BY <1>3, <1>4

LEMMA UninstalledSound ==
  ASSUME TypeInv
  PROVE  Uninstalled(portal) \in Rows /\ Sound(Uninstalled(portal)) /\ SameCrm(Uninstalled(portal))
<1> USE DEF TypeInv, RowTypes
<1>1. portal.version + 1 \in Nat /\ None \in Links
  BY DEF Rows, Links
<1>2. Uninstalled(portal) \in Rows
  BY <1>1 DEF Uninstalled, Rows, Statuses, TokenHealth
<1>3. Sound(Uninstalled(portal)) /\ SameCrm(Uninstalled(portal))
  BY DEF Uninstalled, Rows, Sound, SameCrm
<1> QED
  BY <1>2, <1>3

LEMMA TouchedSound ==
  ASSUME TypeInv, NEW row \in Rows, Sound(row), SameCrm(row), NEW ts \in 0..clock
  PROVE  Touched(row, ts) \in Rows /\ Sound(Touched(row, ts)) /\ SameCrm(Touched(row, ts))
<1>1. CASE ts > row.lastEvent
  <2>1. [row EXCEPT !.lastEvent = ts] \in Rows
    BY DEF Rows
  <2>2. Sound([row EXCEPT !.lastEvent = ts]) /\ SameCrm([row EXCEPT !.lastEvent = ts])
    BY DEF Rows, Sound, SameCrm
  <2> QED
    BY <1>1, <2>1, <2>2 DEF Touched
<1>2. CASE ~(ts > row.lastEvent)
  BY <1>2 DEF Touched
<1> QED
  BY <1>1, <1>2

LEMMA AppTokenSound ==
  ASSUME SafetyInv, NEW token \in Nat \cup {None}
  PROVE  LET row == [portal EXCEPT !.appToken = token]
         IN  row \in Rows /\ Sound(row) /\ SameCrm(row)
  BY DEF SafetyInv, TypeInv, RowTypes, RowInv, Rows, Sound, SameCrm

-----------------------------------------------------------------------------
(* Requests begin. *)

LEMMA CloudMoves ==
  ASSUME SafetyInv, NEW name \in Names, NEW app, NEW token \in Nat,
         Happens(name, app, token), valid' \subseteq valid
  PROVE  SafetyInv'
<1> USE DEF SafetyInv, TypeInv
<1>1. Happens(name, app, token)
  OBVIOUS
<1>2. clock' = clock + 1 /\ links' = links
  BY <1>1 DEF Happens
<1>3. Rows \subseteq Rows' /\ Jobs \subseteq Jobs' /\ Refreshes \subseteq Refreshes' /\ Events \subseteq Events'
  BY <1>2, BoundsGrow DEF CloudTypes
<1>4. cloud'.token \in Nat
  BY <1>1 DEF Happens
<1>5. CloudTypes'
  <2>1. [name |-> name, ts |-> clock + 1, token |-> cloud'.token] \in Events'
    BY <1>2, <1>4 DEF Events, CloudTypes
  <2> QED
    BY <1>1, <1>2, <1>3, <1>4, <2>1 DEF CloudTypes, Happens, Event
<1>6. RowTypes' /\ TaskTypes'
  BY <1>1, <1>3 DEF RowTypes, TaskTypes, Happens, crmVars
<1>7. JobInv' /\ LockInv' /\ VisitInv' /\ RowInv' /\ OneExchangePerExpiry'
  BY <1>1 DEF Happens, crmVars, JobInv, Admissible, LockInv, VisitInv, RowInv, Sound, OptOutIsEmpty,
     OneExchangePerExpiry
<1> QED
  BY <1>5, <1>6, <1>7

LEMMA NewLink ==
  ASSUME TypeInv, Exchanged
  PROVE  links' \in Nat /\ links <= links' /\ links + 1 \in Links'
  BY DEF TypeInv, CloudTypes, Exchanged, Links

LEMMA ReadTyped == TypeInv => RowRead \in Reads
  BY DEF TypeInv, RowTypes, CloudTypes, RowRead, Reads, Rows

LEMMA FreshJob == ASSUME TypeInv, UNCHANGED cloudVars PROVE NoJob \in Jobs'
  BY DEF TypeInv, CloudTypes, cloudVars, NoJob, Jobs, Links

LEMMA InstallStep == ASSUME SafetyInv, NEW h \in Handler, Install(h) PROVE SafetyInv'
<1> USE DEF SafetyInv
<1>1. PICK by \in Admin, token \in {cloud.token, None} :
        Becomes(h, [NoJob EXCEPT !.kind = "install", !.stage = "proved", !.by = by,
                                 !.link = links + 1, !.token = token])
  BY DEF Install
<1> DEFINE j == [NoJob EXCEPT !.kind = "install", !.stage = "proved", !.by = by,
                              !.link = links + 1, !.token = token]
<1>2. links + 1 \in Links' /\ by \in User /\ token \in Nat \cup {None}
  BY NewLink, PeopleAssumption DEF Install, TypeInv, CloudTypes
<1>3. NoJob \in Jobs'
  BY FreshJob DEF Install, cloudVars
<1>4. j \in Jobs'
  BY <1>2, <1>3 DEF Jobs, Names
<1>5. Admissible(j)
  BY <1>3 DEF Jobs, Admissible
<1> QED
  BY <1>1, <1>4, <1>5, JobStep DEF Install

LEMMA OpenStep == ASSUME SafetyInv, NEW h \in Handler, Open(h) PROVE SafetyInv'
<1> USE DEF SafetyInv
<1>1. NoJob \in Jobs' /\ RowRead \in Reads /\ cloud.token \in Nat
  BY FreshJob, ReadTyped DEF Open, cloudVars, TypeInv, CloudTypes
<1>2. CASE portal.status = "active"
  <2>1. PICK by \in User : Becomes(h, [NoJob EXCEPT !.kind = "open", !.stage = "opened",
                                        !.row = RowRead, !.by = by, !.token = cloud.token])
    BY <1>2 DEF Open
  <2> DEFINE j == [NoJob EXCEPT !.kind = "open", !.stage = "opened", !.row = RowRead,
                                !.by = by, !.token = cloud.token]
  <2>2. j \in Jobs'
    BY <1>1 DEF Jobs
  <2>3. Admissible(j)
    BY <1>1 DEF Jobs, Admissible
  <2> QED
    BY <1>2, <2>1, <2>2, <2>3, JobStep DEF Open
<1>3. CASE portal.status # "active"
  <2>1. PICK by \in Admin : Becomes(h, [NoJob EXCEPT !.kind = "open", !.stage = "proved",
                               !.row = RowRead, !.by = by, !.link = links + 1,
                               !.token = cloud.token])
    BY <1>3 DEF Open
  <2> DEFINE j == [NoJob EXCEPT !.kind = "open", !.stage = "proved", !.row = RowRead,
                                !.by = by, !.link = links + 1, !.token = cloud.token]
  <2>2. Exchanged /\ links + 1 \in Links' /\ by \in User
    BY <1>3, NewLink, PeopleAssumption DEF Open
  <2>3. j \in Jobs'
    BY <1>1, <2>2 DEF Jobs
  <2>4. Admissible(j)
    BY <1>1 DEF Jobs, Admissible
  <2> QED
    BY <2>1, <2>2, <2>3, <2>4, JobStep DEF Open
<1> QED
  BY <1>2, <1>3

LEMMA ReseedStep == ASSUME SafetyInv, NEW h \in Handler, Reseed(h) PROVE SafetyInv'
<1> USE DEF SafetyInv
<1>1. CASE Done(h) /\ UNCHANGED chainVars
  BY <1>1, FreshJob, JobStep DEF Reseed, Done, Admissible, NoJob, cloudVars
<1>2. CASE Exchanged /\ Becomes(h, [job[h] EXCEPT !.stage = "proved", !.link = links + 1])
  <2> DEFINE j == [job[h] EXCEPT !.stage = "proved", !.link = links + 1]
  <2>1. job[h] \in Jobs /\ Jobs \subseteq Jobs' /\ links + 1 \in Links'
    BY <1>2, NewLink, BoundsGrow DEF Reseed, TypeInv, TaskTypes, CloudTypes, cloudVars
  <2>2. j \in Jobs'
    BY <2>1 DEF Jobs
  <2>3. job[h].kind = "open" /\ job[h].by \in Admin
    BY DEF Reseed, At, JobInv, Admissible
  <2>4. Admissible(j)
    BY <2>1, <2>3 DEF Jobs, Admissible
  <2> QED
    BY <1>2, <2>2, <2>4, JobStep DEF Reseed
<1> QED
  BY <1>1, <1>2 DEF Reseed

LEMMA ReauthorizeStep == ASSUME SafetyInv, NEW h \in Handler, Reauthorize(h) PROVE SafetyInv'
<1> USE DEF SafetyInv
<1>1. NoJob \in Jobs' /\ RowRead \in Reads
  BY FreshJob, ReadTyped DEF Reauthorize, cloudVars
<1>2. PICK by \in Admin : Becomes(h, [NoJob EXCEPT !.kind = "reauthorize",
             !.stage = "proved", !.row = RowRead, !.by = by, !.link = links + 1])
  BY DEF Reauthorize
<1> DEFINE j == [NoJob EXCEPT !.kind = "reauthorize", !.stage = "proved", !.row = RowRead,
                              !.by = by, !.link = links + 1]
<1>3. links + 1 \in Links' /\ by \in User
  BY NewLink, PeopleAssumption DEF Reauthorize
<1>4. j \in Jobs'
  BY <1>1, <1>3 DEF Jobs
<1>5. Admissible(j)
  BY <1>1 DEF Jobs, Admissible
<1> QED
  BY <1>2, <1>4, <1>5, JobStep DEF Reauthorize

LEMMA AskSwitchStep == ASSUME SafetyInv, NEW h \in Handler, AskSwitch(h) PROVE SafetyInv'
<1> USE DEF SafetyInv
<1> DEFINE j == [NoJob EXCEPT !.kind = "switch", !.stage = "asked", !.row = RowRead]
<1>1. NoJob \in Jobs' /\ RowRead \in Reads
  BY FreshJob, ReadTyped DEF AskSwitch, cloudVars
<1>2. j \in Jobs'
  BY <1>1 DEF Jobs
<1>3. Admissible(j)
  BY <1>1 DEF Jobs, Admissible
<1> QED
  BY <1>2, <1>3, JobStep DEF AskSwitch

LEMMA DeliveredTyped == CloudTypes => Delivered \subseteq Events
BY DEF CloudTypes, Delivered, Events, NoTime

\* The job an event starts carries the event and what was read beside it.
LEMMA AskedTyped ==
  ASSUME TypeInv, UNCHANGED cloudVars, NEW e \in Delivered
  PROVE  /\ Asked(e) \in Jobs' /\ e \in Events
         /\ Asked(e).kind = e.name /\ Asked(e).stage = "asked" /\ Asked(e).ts = e.ts
         /\ Asked(e).row = RowRead
<1>1. NoJob \in Jobs' /\ RowRead \in Reads /\ e \in Events /\ clock' = clock
  BY FreshJob, ReadTyped, DeliveredTyped DEF TypeInv, CloudTypes, cloudVars
<1>2. e.name \in Names /\ e.ts \in 0..clock' /\ e.token \in Nat
  BY <1>1 DEF Events
<1> QED
  BY <1>1, <1>2 DEF Asked, Jobs

LEMMA UninstallEventStep ==
  ASSUME SafetyInv, NEW h \in Handler, UninstallEvent(h) PROVE SafetyInv'
<1> USE DEF SafetyInv
<1>1. PICK e \in Delivered : e.name = "uninstall" /\ Admitted(portal, e) /\ Becomes(h, Asked(e))
  BY DEF UninstallEvent
<1>2. Asked(e) \in Jobs' /\ e \in Events /\ Asked(e).kind = "uninstall"
      /\ Asked(e).stage = "asked" /\ Asked(e).ts = e.ts /\ Asked(e).row = RowRead
  BY <1>1, AskedTyped DEF UninstallEvent, cloudVars
<1>3. e.ts # NoTime => e.ts >= portal.completed
  <2>1. e.ts # NoTime => ~(e.ts < portal.completed)
    BY <1>1 DEF Admitted, Replay
  <2>2. e.ts \in Nat /\ portal.completed \in Nat
    BY <1>2 DEF Events, TypeInv, RowTypes, CloudTypes, Rows
  <2> QED
    BY <2>1, <2>2
<1>4. Admissible(Asked(e))
  BY <1>2, <1>3 DEF Admissible, RowRead
<1> QED
  BY <1>1, <1>2, <1>4, JobStep DEF UninstallEvent

LEMMA ProvenEventStep ==
  ASSUME SafetyInv, NEW h \in Handler, ProvenEvent(h) PROVE SafetyInv'
<1> USE DEF SafetyInv
<1>1. PICK e \in Delivered, by \in User :
        /\ e.name \in {"update", "install"}
        /\ Becomes(h, [Asked(e) EXCEPT !.by = by, !.link = links + 1])
  BY DEF ProvenEvent
<1> DEFINE j == [Asked(e) EXCEPT !.by = by, !.link = links + 1]
<1>2. Asked(e) \in Jobs' /\ Asked(e).kind = e.name /\ Asked(e).stage = "asked"
  BY AskedTyped DEF ProvenEvent, cloudVars
<1>3. links + 1 \in Links'
  BY NewLink DEF ProvenEvent
<1>4. j \in Jobs'
  BY <1>2, <1>3 DEF Jobs
<1>5. j.kind \in {"update", "install"} /\ j.stage = "asked"
  BY <1>1, <1>2 DEF Jobs
<1>6. Admissible(j)
  BY <1>5 DEF Admissible
<1> QED
  BY <1>1, <1>4, <1>6, JobStep DEF ProvenEvent

LEMMA UnknownPortalStep ==
  ASSUME SafetyInv, NEW h \in Handler, UnknownPortal(h) PROVE SafetyInv'
<1> USE DEF SafetyInv
<1>1. PICK e \in Delivered, by \in Admin :
        Becomes(h, [Asked(e) EXCEPT !.kind = "unknown", !.by = by, !.link = links + 1])
  BY DEF UnknownPortal
<1> DEFINE j == [Asked(e) EXCEPT !.kind = "unknown", !.by = by, !.link = links + 1]
<1>2. Asked(e) \in Jobs'
  BY AskedTyped DEF UnknownPortal, cloudVars
<1>3. links + 1 \in Links' /\ by \in User
  BY NewLink, PeopleAssumption DEF UnknownPortal
<1>4. j \in Jobs'
  BY <1>2, <1>3 DEF Jobs
<1>5. Admissible(j)
  BY <1>2 DEF Jobs, Admissible
<1> QED
  BY <1>1, <1>4, <1>5, JobStep DEF UnknownPortal

LEMMA RefuseUpdateStep ==
  ASSUME SafetyInv, NEW h \in Handler, RefuseUpdate(h) PROVE SafetyInv'
  BY FreshJob, JobStep DEF SafetyInv, RefuseUpdate, Done, Admissible, NoJob, cloudVars

-----------------------------------------------------------------------------
(* Requests, and the daily sweep, write the row. *)

LEMMA HousekeepStep == ASSUME SafetyInv, NEW h \in Handler, Housekeep(h) PROVE SafetyInv'
<1> USE DEF SafetyInv, TypeInv
<1>1. job[h] \in Jobs /\ job[h].kind = "open" /\ job[h].token \in Nat \cup {None}
  BY DEF Housekeep, At, TaskTypes, Jobs
<1>2. portal' \in Rows /\ Sound(portal') /\ SameCrm(portal')
  BY <1>1, AppTokenSound DEF Housekeep, RowTypes, RowInv, SameCrm
<1>3. /\ job' \in [Handler -> Jobs]
      /\ \A g \in Handler : job'[g] = job[g] \/ Admissible(job'[g])
  <2>1. CASE job[h].by \notin Admin
    BY <2>1, DoneTyped DEF Housekeep
  <2>2. CASE job[h].by \in Admin
    <3> DEFINE j == [job[h] EXCEPT !.stage = "kept"]
    <3>1. j \in Jobs
      BY <1>1 DEF Jobs
    <3>2. Admissible(j)
      BY <1>1, <2>2 DEF Jobs, Admissible
    <3>3. Becomes(h, j)
      BY <2>2 DEF Housekeep
    <3> QED
      BY <3>1, <3>2, <3>3 DEF Becomes, TaskTypes
  <2> QED
    BY <2>1, <2>2
<1> QED
  BY <1>2, <1>3, WriteStep DEF Housekeep

LEMMA StoreCredentialStep ==
  ASSUME SafetyInv, NEW h \in Handler, StoreCredential(h) PROVE SafetyInv'
<1> USE DEF SafetyInv, TypeInv
<1>1. job[h].by \in Admin /\ job[h].link \in Links /\ job[h].token \in Nat \cup {None}
  BY DEF StoreCredential, JobInv, Admissible, TaskTypes, Jobs
<1>2. portal' \in Rows /\ Sound(portal') /\ SameCrm(portal')
  BY <1>1, StoredSound DEF StoreCredential, TokenStatuses, TokenHealth
<1> QED
  BY <1>2, DoneTyped, WriteStep DEF StoreCredential, GenerationRaised

LEMMA SameRow ==
  ASSUME SafetyInv PROVE portal \in Rows /\ Sound(portal) /\ SameCrm(portal)
  BY DEF SafetyInv, TypeInv, RowTypes, RowInv, SameCrm

LEMMA ApplyUninstallStep ==
  ASSUME SafetyInv, NEW h \in Handler, ApplyUninstall(h) PROVE SafetyInv'
<1> USE DEF SafetyInv, TypeInv
<1>1. job[h].ts \in 0..clock
  BY DEF TaskTypes, Jobs
<1>2. portal' \in Rows /\ Sound(portal') /\ SameCrm(portal')
  BY <1>1, SameRow, UninstalledSound, TouchedSound DEF ApplyUninstall
<1>3. gen' = gen \/ gen' = gen + 1
  BY DEF ApplyUninstall, GenerationRaised
<1> QED
  BY <1>2, <1>3, DoneTyped, WriteStep DEF ApplyUninstall

LEMMA ApplyUpdateStep ==
  ASSUME SafetyInv, NEW h \in Handler, ApplyUpdate(h) PROVE SafetyInv'
<1> USE DEF SafetyInv, TypeInv
<1>1. job[h].ts \in 0..clock /\ job[h].link \in Links /\ job[h].token \in Nat \cup {None}
  BY DEF TaskTypes, Jobs
<1>2. CASE Reseeds(h)
  <2> DEFINE row == Stored(job[h].by, job[h].link, job[h].token, "ok")
  <2>1. row \in Rows /\ Sound(row) /\ SameCrm(row)
    BY <1>1, <1>2, StoredSound DEF Reseeds, TokenHealth
  <2>2. portal' = Touched(row, job[h].ts) /\ gen' = gen + 1
    BY <1>2 DEF ApplyUpdate, GenerationRaised
  <2>3. portal' \in Rows /\ Sound(portal') /\ SameCrm(portal')
    BY <1>1, <2>1, <2>2, TouchedSound
  <2> QED
    BY <2>2, <2>3, DoneTyped, WriteStep DEF ApplyUpdate
<1>3. CASE ~Reseeds(h)
  <2> DEFINE row == [portal EXCEPT !.appToken = job[h].token]
  <2>1. row \in Rows /\ Sound(row) /\ SameCrm(row)
    BY <1>1, AppTokenSound
  <2>2. portal' = Touched(row, job[h].ts) /\ gen' = gen
    BY <1>3 DEF ApplyUpdate
  <2>3. portal' \in Rows /\ Sound(portal') /\ SameCrm(portal')
    BY <1>1, <2>1, <2>2, TouchedSound
  <2> QED
    BY <2>2, <2>3, DoneTyped, WriteStep DEF ApplyUpdate
<1> QED
  BY <1>2, <1>3

LEMMA SeedAppTokenStep ==
  ASSUME SafetyInv, NEW h \in Handler, SeedAppToken(h) PROVE SafetyInv'
<1> USE DEF SafetyInv, TypeInv
<1>1. job[h].ts \in 0..clock /\ job[h].token \in Nat \cup {None}
  BY DEF TaskTypes, Jobs
<1>2. portal' \in Rows /\ Sound(portal') /\ SameCrm(portal')
  BY <1>1, AppTokenSound, TouchedSound DEF SeedAppToken
<1> QED
  BY <1>2, DoneTyped, WriteStep DEF SeedAppToken

LEMMA KnownInstallStep == ASSUME SafetyInv, KnownInstall PROVE SafetyInv'
<1> USE DEF SafetyInv, TypeInv
<1>1. PICK e \in Delivered : portal' = Touched(portal, e.ts)
  BY DEF KnownInstall
<1>2. e.ts \in 0..clock
  BY DeliveredTyped DEF CloudTypes, Events
<1>3. portal' \in Rows /\ Sound(portal') /\ SameCrm(portal')
  BY <1>1, <1>2, SameRow, TouchedSound
<1> QED
  BY <1>3, WriteStep DEF KnownInstall, TaskTypes

LEMMA CreateFromEventStep ==
  ASSUME SafetyInv, NEW h \in Handler, CreateFromEvent(h) PROVE SafetyInv'
<1> USE DEF SafetyInv, TypeInv
<1>1. job[h].ts \in 0..clock /\ job[h].link \in Links /\ job[h].token \in Nat \cup {None}
  BY DEF TaskTypes, Jobs
<1>2. job[h].by \in Admin
  BY DEF CreateFromEvent, At, JobInv, Admissible
<1> DEFINE row == Stored(job[h].by, job[h].link, job[h].token, "ok")
<1>3. row \in Rows /\ Sound(row) /\ SameCrm(row)
  BY <1>1, <1>2, StoredSound DEF TokenHealth
<1>4. portal' \in Rows /\ Sound(portal') /\ SameCrm(portal')
  BY <1>1, <1>3, TouchedSound DEF CreateFromEvent
<1> QED
  BY <1>4, DoneTyped, WriteStep DEF CreateFromEvent, GenerationRaised

LEMMA SweepMarkStep == ASSUME SafetyInv, SweepMark PROVE SafetyInv'
<1> USE DEF SafetyInv, TypeInv
<1>1. portal' \in Rows /\ Sound(portal') /\ SameCrm(portal')
  BY SameRow, UninstalledSound DEF SweepMark
<1>2. gen' = gen \/ gen' = gen + 1
  BY DEF SweepMark, GenerationRaised
<1> QED
  BY <1>1, <1>2, WriteStep DEF SweepMark, TaskTypes

-----------------------------------------------------------------------------
(* The CRM switch, the visit and the purges. *)

LEMMA SwitchOffStep == ASSUME SafetyInv, NEW h \in Handler, SwitchOff(h) PROVE SafetyInv'
<1> USE DEF SafetyInv, TypeInv
<1> DEFINE row == [portal EXCEPT !.optOut = TRUE, !.crmPurge = TRUE]
<1>1. row \in Rows /\ Sound(row) /\ row.crmPurge
  BY DEF RowTypes, RowInv, Rows, Sound
<1>2. portal' = row /\ gen' = gen + 1
  BY DEF SwitchOff, GenerationRaised
<1> QED
  BY <1>1, <1>2, DoneTyped, RowStep DEF SwitchOff, crmVars

LEMMA SwitchOnStep == ASSUME SafetyInv, NEW h \in Handler, SwitchOn(h) PROVE SafetyInv'
<1> USE DEF SafetyInv, TypeInv
<1> DEFINE row == [portal EXCEPT !.optOut = FALSE]
<1>1. row \in Rows /\ Sound(row) /\ ~row.optOut
  BY DEF RowTypes, RowInv, Rows, Sound
<1>2. portal' = row
  BY DEF SwitchOn
<1> QED
  BY <1>1, <1>2, DoneTyped, RowStep DEF SwitchOn, crmVars

LEMMA PurgeStep == ASSUME SafetyInv, Purge PROVE SafetyInv'
<1> USE DEF SafetyInv, TypeInv
<1> DEFINE row == [portal EXCEPT !.purge = FALSE]
<1>1. row \in Rows /\ Sound(row) /\ row.optOut = portal.optOut
  BY DEF RowTypes, RowInv, Rows, Sound
<1>2. portal' = row /\ ~mirror'
  BY DEF Purge
<1> QED
  BY <1>1, <1>2, RowStep DEF Purge, TaskTypes

LEMMA CrmPurgeFinishesStep == ASSUME SafetyInv, CrmPurgeFinishes PROVE SafetyInv'
<1> USE DEF SafetyInv, TypeInv
<1>1. CASE mirror
  BY <1>1, SameRow, RowStep DEF CrmPurgeFinishes, TaskTypes, RowInv, OptOutIsEmpty
<1>2. CASE ~mirror
  <2> DEFINE row == [portal EXCEPT !.crmPurge = FALSE]
  <2>1. row \in Rows /\ Sound(row) /\ row.optOut = portal.optOut
    BY DEF RowTypes, RowInv, Rows, Sound
  <2>2. portal' = row /\ ~mirror'
    BY <1>2 DEF CrmPurgeFinishes
  <2> QED
    BY <2>1, <2>2, RowStep DEF CrmPurgeFinishes, TaskTypes
<1> QED
  BY <1>1, <1>2

\* Nobody writes the row; the mirror, the visit or the listing of the sweep changes.
LEMMA MirrorStep ==
  ASSUME SafetyInv, UNCHANGED <<cloudVars, chainVars, portal, gen, lock, job, refresher>>,
         visit' \in {visit, gen, None},
         visit' = visit \/ visit' = None \/ ~portal.optOut,
         mirror' => mirror \/ ~portal.optOut
  PROVE  SafetyInv'
<1> USE DEF SafetyInv, TypeInv
<1>1. CloudTypes' /\ RowTypes' /\ TaskTypes'
  BY DEF CloudTypes, RowTypes, TaskTypes, cloudVars, chainVars, Rows, Jobs, Refreshes, Events, Links
<1>2. JobInv' /\ LockInv' /\ OneExchangePerExpiry'
  BY DEF JobInv, Admissible, LockInv, OneExchangePerExpiry
<1>3. VisitInv' /\ RowInv'
  BY DEF VisitInv, RowInv, Sound, OptOutIsEmpty
<1> QED
  BY <1>1, <1>2, <1>3

LEMMA CrmStep ==
  ASSUME SafetyInv, Crm \/ SweepList \/ CrmPurgeDeletes
  PROVE  SafetyInv'
<1>1. CASE VisitOpens
  BY <1>1, MirrorStep DEF VisitOpens, CrmActive
<1>2. CASE VisitStores
  <2>1. ~portal.optOut
    BY <1>2 DEF VisitStores, SafetyInv, VisitInv
  <2> QED
    BY <1>2, <2>1, MirrorStep DEF VisitStores
<1>3. CASE VisitEnds
  BY <1>3, MirrorStep DEF VisitEnds
<1>4. CASE SweepList
  BY <1>4, MirrorStep DEF SweepList, crmVars
<1>5. CASE CrmPurgeDeletes
  BY <1>5, MirrorStep DEF CrmPurgeDeletes
<1> QED
  BY <1>1, <1>2, <1>3, <1>4, <1>5 DEF Crm

-----------------------------------------------------------------------------
(* The token refresh. *)

LEMMA NotRefreshingTyped == NotRefreshing \in Refreshes /\ NotRefreshing.stage = "idle"
  BY DEF NotRefreshing, Refreshes, Links

LEMMA AccessExpiresStep == ASSUME SafetyInv, AccessExpires PROVE SafetyInv'
<1> USE DEF SafetyInv, TypeInv
<1>1. /\ portal' \in Rows /\ Sound(portal') /\ SameCrm(portal')
      /\ portal'.refresh = portal.refresh /\ portal'.access = "old"
  BY DEF AccessExpires, RowTypes, RowInv, Rows, Sound, SameCrm
<1>2. CloudTypes' /\ RowTypes' /\ TaskTypes'
  BY <1>1 DEF AccessExpires, CloudTypes, RowTypes, TaskTypes, cloudVars, chainVars, crmVars,
     Rows, Jobs, Refreshes, Events, Links
<1>3. JobInv' /\ LockInv' /\ OneExchangePerExpiry'
  BY <1>1 DEF AccessExpires, JobInv, Admissible, LockInv, OneExchangePerExpiry
<1>4. VisitInv' /\ RowInv'
  BY <1>1 DEF AccessExpires, VisitInv, RowInv, Sound, SameCrm, OptOutIsEmpty, crmVars
<1> QED
  BY <1>2, <1>3, <1>4

\* Lock and stage move together.
LockFollows(r, s) ==
  \/ lock' = lock /\ (s.stage \in {"locked", "exchanged"} <=> lock = r)
  \/ lock = None /\ lock' = r /\ s.stage = "locked"
  \/ lock = r /\ lock' = None /\ s.stage = "idle"

\* One refresher moves and the row stays.
LEMMA RefresherStep ==
  ASSUME SafetyInv, NEW r \in Refresher, NEW s \in Refreshes',
         refresher' = [refresher EXCEPT ![r] = s],
         UNCHANGED <<cloudVars, portal, gen, job, crmVars>>,
         CloudTypes', links <= links',
         LockFollows(r, s),
         s.stage = "locked" => portal.access = "old",
         lock' = r => portal.refresh # None
  PROVE  SafetyInv'
<1> USE DEF SafetyInv, TypeInv
<1>1. Rows \subseteq Rows' /\ Jobs \subseteq Jobs' /\ Refreshes \subseteq Refreshes'
  BY BoundsGrow DEF CloudTypes, cloudVars
<1>2. RowTypes'
  BY <1>1 DEF RowTypes, LockFollows, crmVars
<1>3. TaskTypes'
  BY <1>1 DEF TaskTypes
<1>4. LockInv'
  <2>1. lock' # None => portal'.refresh # None
    BY PeopleAssumption DEF LockInv, LockFollows
  <2>2. ASSUME NEW q \in Refresher
        PROVE  refresher'[q].stage \in {"locked", "exchanged"} <=> lock' = q
    <3>1. CASE q = r
      BY <3>1, PeopleAssumption DEF LockFollows, TaskTypes
    <3>2. CASE q # r
      BY <3>2, PeopleAssumption DEF LockInv, LockFollows, TaskTypes
    <3> QED
      BY <3>1, <3>2
  <2> QED
    BY <2>1, <2>2 DEF LockInv
<1>5. OneExchangePerExpiry'
  BY DEF OneExchangePerExpiry, TaskTypes
<1>6. JobInv' /\ VisitInv' /\ RowInv'
  BY DEF JobInv, Admissible, VisitInv, RowInv, Sound, OptOutIsEmpty, crmVars
<1> QED
  BY <1>2, <1>3, <1>4, <1>5, <1>6

\* One refresher ends its exchange and gives the lock back with the row.
LEMMA RefresherWrites ==
  ASSUME SafetyInv, NEW r \in Refresher, refresher[r].stage \in {"locked", "exchanged"},
         NEW row \in Rows, portal' = row, Sound(row), SameCrm(row),
         refresher' = [refresher EXCEPT ![r] = NotRefreshing], lock' = None,
         UNCHANGED <<cloudVars, chainVars, gen, job, crmVars>>
  PROVE  SafetyInv'
<1> USE DEF SafetyInv, TypeInv
<1>1. CloudTypes' /\ RowTypes' /\ TaskTypes'
  BY NotRefreshingTyped DEF CloudTypes, RowTypes, TaskTypes, cloudVars, chainVars, crmVars,
     Rows, Jobs, Refreshes, Events, Links
<1>2. lock = r
  BY DEF LockInv
<1>3. LockInv' /\ OneExchangePerExpiry'
  BY <1>2, PeopleAssumption, NotRefreshingTyped
     DEF LockInv, OneExchangePerExpiry, TaskTypes
<1>4. JobInv' /\ VisitInv' /\ RowInv'
  BY DEF JobInv, Admissible, VisitInv, RowInv, Sound, SameCrm, OptOutIsEmpty, crmVars
<1> QED
  BY <1>1, <1>3, <1>4

LEMMA RefreshStep == ASSUME SafetyInv, NEW r \in Refresher, Refresh(r) PROVE SafetyInv'
<1> USE DEF SafetyInv, TypeInv
<1>1. refresher[r] \in Refreshes /\ (refresher[r].stage \in {"locked", "exchanged"} <=> lock = r)
  BY DEF TaskTypes, LockInv
<1>2. CASE LoadCredential(r)
  <2> DEFINE s == [stage |-> "loaded", version |-> portal.version, link |-> None]
  <2>1. s \in Refreshes' /\ CloudTypes'
    BY <1>2 DEF LoadCredential, RowTypes, Rows, Refreshes, Links, CloudTypes, Events,
       cloudVars, chainVars
  <2>2. LockFollows(r, s) /\ lock' # r
    BY <1>1, <1>2 DEF LoadCredential, LockFollows
  <2>3. /\ refresher' = [refresher EXCEPT ![r] = s] /\ links <= links'
        /\ UNCHANGED <<cloudVars, portal, gen, job, crmVars>>
    BY <1>2 DEF LoadCredential, chainVars, CloudTypes
  <2> QED
    BY <2>1, <2>2, <2>3, RefresherStep
<1>3. CASE RefreshLock(r)
  <2> DEFINE s == [refresher[r] EXCEPT !.stage = "locked"]
  <2>1. s \in Refreshes /\ s.stage = "locked"
    BY <1>1 DEF Refreshes
  <2>2. Refreshes' = Refreshes /\ CloudTypes' /\ links' = links
    BY <1>3 DEF RefreshLock, Refreshes, Links, CloudTypes, Events, cloudVars, chainVars
  <2>3. portal.access = "old" /\ portal.refresh # None
    <3>1. portal.refresh # None /\ refresher[r].version = portal.version /\ portal.access # "good"
      BY <1>3 DEF RefreshLock, NoRefreshNeeded
    <3>2. portal.access # "none"
      BY <3>1 DEF RowInv, Sound
    <3> QED
      BY <3>1, <3>2 DEF RowTypes, Rows
  <2>4. LockFollows(r, s)
    BY <1>3, <2>1 DEF RefreshLock, RowFree, LockFollows
  <2>5. /\ refresher' = [refresher EXCEPT ![r] = s] /\ links <= links'
        /\ UNCHANGED <<cloudVars, portal, gen, job, crmVars>>
    BY <1>3, <2>2 DEF RefreshLock, CloudTypes
  <2> QED
    BY <2>1, <2>2, <2>3, <2>4, <2>5, RefresherStep
<1>4. CASE RefreshSpared(r)
  <2>1. NotRefreshing \in Refreshes' /\ CloudTypes' /\ links' = links
    BY <1>4, NotRefreshingTyped
       DEF RefreshSpared, Refreshes, Links, CloudTypes, Events, cloudVars, chainVars
  <2>2. LockFollows(r, NotRefreshing) /\ lock' # r
    BY <1>4, PeopleAssumption, NotRefreshingTyped DEF RefreshSpared, RowFree, LockFollows
  <2>3. /\ refresher' = [refresher EXCEPT ![r] = NotRefreshing] /\ links <= links'
        /\ UNCHANGED <<cloudVars, portal, gen, job, crmVars>>
    BY <1>4, <2>1 DEF RefreshSpared, CloudTypes
  <2> QED
    BY <2>1, <2>2, <2>3, NotRefreshingTyped, RefresherStep
<1>5. CASE RefreshExchange(r)
  <2> DEFINE s == [refresher[r] EXCEPT !.stage = "exchanged", !.link = links + 1]
  <2>1. CloudTypes' /\ links' = links + 1
    BY <1>5 DEF RefreshExchange, CloudTypes, Events, cloudVars
  <2>2. refresher[r] \in Refreshes' /\ links + 1 \in Links'
    BY <1>1, <1>5, <2>1, BoundsGrow DEF RefreshExchange, CloudTypes, Links, cloudVars
  <2>3. s \in Refreshes' /\ s.stage = "exchanged"
    BY <2>2 DEF Refreshes
  <2>4. refresher' = [refresher EXCEPT ![r] = s] /\ lock = r /\ lock' = r /\ portal.refresh # None
    BY <1>1, <1>5, PeopleAssumption DEF RefreshExchange, LockInv
  <2> QED
    <3>1. LockFollows(r, s)
      BY <2>3, <2>4 DEF LockFollows
    <3>2. links <= links' /\ UNCHANGED <<cloudVars, portal, gen, job, crmVars>>
      BY <1>5, <2>1 DEF RefreshExchange, CloudTypes
    <3> QED
      BY <2>1, <2>3, <2>4, <3>1, <3>2, RefresherStep
<1>6. CASE RefreshRefused(r)
  <2> DEFINE row == [portal EXCEPT !.tokenStatus = "reauth_required"]
  <2>1. row \in Rows /\ Sound(row) /\ SameCrm(row)
    BY DEF RowTypes, RowInv, Rows, TokenHealth, Sound, SameCrm
  <2> QED
    BY <1>6, <2>1, RefresherWrites DEF RefreshRefused
<1>7. CASE RefreshCommit(r)
  <2> DEFINE row == [portal EXCEPT !.refresh = refresher[r].link, !.access = "good",
                                   !.version = @ + 1]
  <2>1. refresher[r].link \in Links /\ portal.version + 1 \in Nat
    BY <1>1 DEF Refreshes, RowTypes, Rows
  <2>2. row \in Rows /\ SameCrm(row) /\ row.owner = portal.owner /\ row.status = portal.status
    BY <2>1 DEF RowTypes, Rows, SameCrm
  <2>3. portal.refresh # None
    BY <1>1, <1>7, PeopleAssumption DEF RefreshCommit, LockInv
  <2>4. Sound(row)
    BY <2>2, <2>3 DEF Sound, RowInv
  <2> QED
    BY <1>7, <2>2, <2>4, RefresherWrites DEF RefreshCommit
<1>8. CASE RefreshLost(r)
  BY <1>8, SameRow, RefresherWrites DEF RefreshLost
<1> QED
  BY <1>2, <1>3, <1>4, <1>5, <1>6, <1>7, <1>8 DEF Refresh

-----------------------------------------------------------------------------
(* Every step. *)

LEMMA RequestStep == ASSUME SafetyInv, NEW h \in Handler, Request(h) PROVE SafetyInv'
  BY InstallStep, OpenStep, HousekeepStep, ReseedStep, ReauthorizeStep, StoreCredentialStep,
     UninstallEventStep, ApplyUninstallStep, ProvenEventStep, ApplyUpdateStep,
     RefuseUpdateStep, SeedAppTokenStep, UnknownPortalStep, CreateFromEventStep,
     AskSwitchStep, SwitchOffStep, SwitchOnStep DEF Request

LEMMA CloudStep == ASSUME SafetyInv, Cloud PROVE SafetyInv'
<1> USE DEF SafetyInv, TypeInv
<1> DEFINE next == cloud.token + 1
<1>0. next \in Nat /\ cloud.token \in Nat /\ {"install", "update", "uninstall"} \subseteq Names
  BY DEF CloudTypes, Names
<1>1. CASE AppInstalled
  <2>1. Happens("install", TRUE, next) /\ valid' \subseteq valid
    BY <1>1 DEF AppInstalled
  <2> HIDE DEF next
  <2> QED
    BY <1>0, <2>1, CloudMoves
<1>2. CASE AppUpdated
  <2>1. Happens("update", TRUE, next) /\ valid' \subseteq valid
    BY <1>2 DEF AppUpdated
  <2> HIDE DEF next
  <2> QED
    BY <1>0, <2>1, CloudMoves
<1>3. CASE AppRemoved
  BY <1>0, <1>3, CloudMoves DEF AppRemoved
<1> QED
  BY <1>1, <1>2, <1>3 DEF Cloud

LEMMA SafetyStep == SafetyInv /\ [Next]_vars => SafetyInv'
<1> SUFFICES ASSUME SafetyInv, [Next]_vars PROVE SafetyInv'
  OBVIOUS
<1>1. CASE UNCHANGED vars
  <2>1. UNCHANGED <<cloudVars, chainVars, portal, gen, lock, job, refresher, crmVars>>
    BY <1>1 DEF vars
  <2> QED
    BY <2>1, MirrorStep DEF crmVars
<1>2. CASE \E h \in Handler : Request(h)
  BY <1>2, RequestStep
<1>3. CASE \E r \in Refresher : Refresh(r)
  BY <1>3, RefreshStep
<1>4. CASE Crm \/ SweepList \/ CrmPurgeDeletes
  BY <1>4, CrmStep
<1>5. CASE Purge \/ CrmPurgeFinishes \/ SweepMark
  BY <1>5, PurgeStep, CrmPurgeFinishesStep, SweepMarkStep
<1>6. CASE Cloud \/ AccessExpires \/ KnownInstall
  BY <1>6, CloudStep, AccessExpiresStep, KnownInstallStep
<1> QED
  BY <1>1, <1>2, <1>3, <1>4, <1>5, <1>6 DEF Next, PurgeJob

LEMMA Safety == Spec => []SafetyInv
  BY InitSafety, SafetyStep, PTL DEF Spec

-----------------------------------------------------------------------------
(* Theorems *)

\* Every reachable state is well typed: services/portals.py and oauth.py keep a
\* row whose lock is held exactly while somebody refreshes.
THEOREM TypeCorrect == Spec => []TypeOK
<1>1. SafetyInv => TypeOK
  BY TypeInvImpliesTypeOK DEF SafetyInv
<1> QED
  BY <1>1, Safety, PTL

\* portals.py 2-3: a stored credential is an administrator's, whatever the
\* handlers read before.
THEOREM CredentialsAreAdmins == Spec => []CredentialIsAdmins
<1>1. SafetyInv => CredentialIsAdmins
  BY DEF SafetyInv, RowInv, Sound, CredentialIsAdmins
<1> QED
  BY <1>1, Safety, PTL

\* portals.py 514-520: no write that was in flight brings a revoked credential back.
THEOREM RevocationIsFinal == Spec => []RevokedStaysRevoked
<1>1. SafetyInv => RevokedStaysRevoked
  BY DEF SafetyInv, RowInv, Sound, RevokedStaysRevoked
<1> QED
  BY <1>1, Safety, PTL

\* oauth.py 660-664: nobody exchanges a pair that still works.
THEOREM ExchangesAreSingle == Spec => []OneExchangePerExpiry
<1>1. SafetyInv => OneExchangePerExpiry
  BY DEF SafetyInv
<1> QED
  BY <1>1, Safety, PTL

\* portals.py 577-586: an opted-out portal whose purge is over holds no CRM rows.
THEOREM OptOutLeavesNothing == Spec => []OptOutIsEmpty
<1>1. SafetyInv => OptOutIsEmpty
  BY DEF SafetyInv, RowInv
<1> QED
  BY <1>1, Safety, PTL

\* events.py 414-429: an uninstall that says when it was made, older than the
\* installation its handler read, never wipes that installation.
THEOREM OldUninstallsAreIgnored == Spec => LateUninstallIgnored
<1>1. SafetyInv /\ [Next]_vars =>
        [\A h \in Handler :
           At(h, "uninstall", "asked") /\ job[h].ts # NoTime /\ Applies(h) /\ Wipes
           => \/ job[h].ts >= portal.completed
              \/ job[h].row.completed # portal.completed]_vars
  BY DEF SafetyInv, JobInv, Admissible, At
<1> QED
  BY <1>1, Safety, PTL DEF Spec, LateUninstallIgnored
=============================================================================
