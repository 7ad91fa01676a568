-------------------------- MODULE PortalLifecycle --------------------------
(***************************************************************************)
(* The row of one portal and everybody who writes it: the install, open    *)
(* and event handlers (src/api/app/handlers), the settings api             *)
(* (src/api/app/api/portal.py), the token refresh of the worker and of the *)
(* api (src/api/app/bitrix/oauth.py), the daily sweep and the CRM switch.  *)
(*                                                                         *)
(* A handler reads the row without a lock, talks to Bitrix24 for seconds,  *)
(* and writes in a transaction of its own (src/api/app/services/portals.py *)
(* locks the row there, and reads some of it again).  Reading, proving and *)
(* writing are separate steps; a refused proof, a failed request or a      *)
(* crash before the write leaves the row as it was and is no step at all.  *)
(* The token refresh holds the row's lock while it exchanges.              *)
(*                                                                         *)
(* Outside: an account of the cloud in which the app is installed, updated *)
(* and removed.  Its events carry the time they were made, and arrive      *)
(* late, twice, out of order, without that time or not at all.  A refresh  *)
(* token is good for one exchange.  Display fields, the placements and the *)
(* audit trail are left out; SyncLease has the lease and the purge in      *)
(* full.                                                                   *)
(***************************************************************************)
EXTENDS Naturals, FiniteSets

CONSTANTS
  Handler,           \* requests served at the same time
  Refresher,         \* who runs with_portal_token: the worker, the api
  User, Admin,       \* of the portal
  None,              \* NULL
  MaxClock, MaxLinks, MaxRequests, MaxGen   \* bounds

ASSUME PeopleAssumption ==
  Admin \subseteq User /\ None \notin User /\ None \notin Refresher
ASSUME BoundAssumption ==
  MaxClock \in Nat /\ MaxLinks \in Nat /\ MaxRequests \in Nat /\ MaxGen \in Nat

VARIABLES
  clock,      \* the cloud's time: one tick for each thing done there
  cloud,      \* is the app installed there, and its application_token
  posted,     \* the lifecycle events made so far
  valid,      \* refresh tokens that an exchange would accept, by number
  links,      \* how many refresh tokens were made
  portal,     \* the row of portals
  gen,        \* portal_sync.sync_generation
  lock,       \* who holds the row's lock over an exchange
  job,        \* per handler: the request it serves
  refresher,  \* per refresher: where with_portal_token is
  sweep,      \* sweep_inferred_uninstalls has listed the portal
  mirror,     \* the CRM mirror holds rows of this portal
  visit,      \* generation of the visit that is mirroring, or None
  emptied,    \* the CRM purge has deleted and has yet to count
  requests    \* requests started

cloudVars == <<clock, cloud, posted>>
chainVars == <<valid, links>>
crmVars == <<mirror, visit, emptied>>
vars == <<cloudVars, chainVars, portal, gen, lock, job, refresher, sweep, crmVars, requests>>

-----------------------------------------------------------------------------
Empty == [status |-> "none", version |-> 0, owner |-> None, refresh |-> None,
          access |-> "none", tokenStatus |-> "ok", appToken |-> None, completed |-> 0,
          lastEvent |-> 0, purge |-> FALSE, optOut |-> FALSE, crmPurge |-> FALSE]

Installed(by, link) ==
  [Empty EXCEPT !.status = "active", !.version = 1, !.owner = by, !.refresh = link,
                !.access = "good", !.appToken = 1, !.completed = 1]

\* What a handler goes by of the row it read.
RowRead == [tokenStatus |-> portal.tokenStatus, completed |-> portal.completed]

NoJob == [kind |-> "idle", stage |-> "idle", row |-> None, by |-> None, link |-> None,
          ts |-> 0, token |-> None]

NotRefreshing == [stage |-> "idle", version |-> 0, link |-> None]

Init ==
  /\ \/ /\ clock = 0 /\ cloud = [app |-> FALSE, token |-> 0] /\ posted = {}
        /\ valid = {} /\ links = 0 /\ portal = Empty /\ gen = 0
     \/ /\ clock = 1 /\ cloud = [app |-> TRUE, token |-> 1] /\ posted = {}
        /\ valid = {1} /\ links = 1 /\ \E a \in Admin : portal = Installed(a, 1)
        /\ gen = 1
  /\ lock = None
  /\ job = [h \in Handler |-> NoJob]
  /\ refresher = [r \in Refresher |-> NotRefreshing]
  /\ sweep = FALSE /\ mirror = FALSE /\ visit = None /\ emptied = FALSE
  /\ requests = 0

-----------------------------------------------------------------------------
(* The cloud. *)

Event(name) == [name |-> name, ts |-> clock + 1, token |-> cloud'.token]

Happens(name, app, token) ==
  /\ clock < MaxClock
  /\ clock' = clock + 1
  /\ cloud' = [app |-> app, token |-> token]
  /\ posted' = posted \cup {Event(name)}
  /\ UNCHANGED <<portal, gen, lock, job, refresher, sweep, crmVars, requests, links>>

AppInstalled == ~cloud.app /\ Happens("install", TRUE, cloud.token + 1) /\ UNCHANGED valid
AppUpdated == cloud.app /\ Happens("update", TRUE, cloud.token + 1) /\ UNCHANGED valid
AppRemoved == cloud.app /\ Happens("uninstall", FALSE, cloud.token) /\ valid' = {}

-----------------------------------------------------------------------------
(* services/portals.py: the writers of the row.  None of them waits for a  *)
(* read that a handler made earlier, all of them wait for the lock.        *)

\* Mutant: a writer that does not wait for a refresh in progress.
RowUnlocked == TRUE

RowFree == lock = None

Given(token) == IF token = None THEN portal.appToken ELSE token

\* store_portal_credential.  The CRM columns survive even a reinstall.
Stored(by, link, token, status) ==
  [portal EXCEPT !.status = "active", !.version = @ + 1, !.owner = by, !.refresh = link,
                 !.access = "good", !.tokenStatus = status, !.appToken = Given(token),
                 !.completed = clock]

\* mark_uninstalled, where it applies.  application_token is kept.
Uninstalled(row) ==
  [row EXCEPT !.status = "uninstalled", !.version = @ + 1, !.refresh = None,
              !.access = "none", !.tokenStatus = "reauth_required", !.purge = TRUE]

\* _touch_last_event_ts
Touched(row, ts) == IF ts > row.lastEvent THEN [row EXCEPT !.lastEvent = ts] ELSE row

GenerationRaised == gen < MaxGen /\ gen' = gen + 1

-----------------------------------------------------------------------------
(* Requests. *)

Idle(h) == job[h].kind = "idle"
At(h, kind, stage) == job[h].kind = kind /\ job[h].stage = stage
Becomes(h, j) == job' = [job EXCEPT ![h] = j]
Done(h) == Becomes(h, NoJob)

Arrives(h) == Idle(h) /\ requests < MaxRequests /\ requests' = requests + 1

\* exchange_refresh_token of a pair that the request brought.
Exchanged ==
  /\ cloud.app /\ links < MaxLinks
  /\ links' = links + 1
  /\ valid' = valid \cup {links + 1}

\* install: exchange and admin proof, in one round before anything is written.
Install(h) ==
  /\ Arrives(h) /\ Exchanged
  /\ \E by \in Admin, token \in {cloud.token, None} :
       Becomes(h, [NoJob EXCEPT !.kind = "install", !.stage = "proved", !.by = by,
                                !.link = links + 1, !.token = token])
  /\ UNCHANGED <<cloudVars, portal, gen, lock, refresher, sweep, crmVars>>

\* open: of an active portal the opener is identified, with any rights; any
\* other portal is healed, for which the opener has to be an administrator.
Open(h) ==
  /\ Arrives(h)
  /\ IF portal.status = "active"
     THEN /\ cloud.app
          /\ \E by \in User : Becomes(h, [NoJob EXCEPT !.kind = "open", !.stage = "opened",
                               !.row = RowRead, !.by = by, !.token = cloud.token])
          /\ UNCHANGED chainVars
     ELSE /\ Exchanged
          /\ \E by \in Admin : Becomes(h, [NoJob EXCEPT !.kind = "open", !.stage = "proved",
                               !.row = RowRead, !.by = by, !.link = links + 1,
                               !.token = cloud.token])
  /\ UNCHANGED <<cloudVars, portal, gen, lock, refresher, sweep, crmVars>>

\* _housekeeping: under the lock, whatever the row has become.
Housekeep(h) ==
  /\ At(h, "open", "opened") /\ RowFree
  /\ portal' = IF job[h].by \in Admin THEN [portal EXCEPT !.appToken = job[h].token]
               ELSE portal
  /\ IF job[h].by \in Admin THEN Becomes(h, [job[h] EXCEPT !.stage = "kept"]) ELSE Done(h)
  /\ UNCHANGED <<cloudVars, chainVars, gen, lock, refresher, sweep, crmVars, requests>>

\* _maybe_reseed of an administrator: due when the token is not healthy or old,
\* and when the endpoint had to be learnt again; refused for ten minutes after.
Reseed(h) ==
  /\ At(h, "open", "kept")
  /\ \/ Exchanged /\ Becomes(h, [job[h] EXCEPT !.stage = "proved", !.link = links + 1])
     \/ job[h].row.tokenStatus = "ok" /\ Done(h) /\ UNCHANGED chainVars
  /\ UNCHANGED <<cloudVars, portal, gen, lock, refresher, sweep, crmVars, requests>>

\* reauthorize: the caller's own pair, of an active portal.
Reauthorize(h) ==
  /\ Arrives(h) /\ portal.status = "active" /\ Exchanged
  /\ \E by \in Admin : Becomes(h, [NoJob EXCEPT !.kind = "reauthorize", !.stage = "proved",
                        !.row = RowRead, !.by = by, !.link = links + 1])
  /\ UNCHANGED <<cloudVars, portal, gen, lock, refresher, sweep, crmVars>>

\* What the method.get of the install said; the rest of the paths keep it.
TokenStatuses == {"ok", "method_missing"}

StoreCredential(h) ==
  /\ job[h].kind \in {"install", "open", "reauthorize"} /\ job[h].stage = "proved"
  /\ RowFree /\ GenerationRaised
  /\ \E status \in TokenStatuses :
       portal' = Stored(job[h].by, job[h].link, job[h].token, status)
  /\ Done(h)
  /\ UNCHANGED <<cloudVars, chainVars, lock, refresher, sweep, crmVars, requests>>

-----------------------------------------------------------------------------
(* The ladder of handlers/events.py. *)

\* _event_ts: an event without a time, or with one that cannot be read.
NoTime == 0

\* What may be delivered of the events made.
Delivered == posted \cup {[e EXCEPT !.ts = NoTime] : e \in posted}

\* Mutant: without the second clock.
ReplayOfLast(row, e) == e.ts # NoTime /\ e.ts <= row.lastEvent

\* _is_replay: what has no time cannot be judged, and passes.
Replay(row, e) ==
  /\ e.ts # NoTime
  /\ \/ e.ts <= row.lastEvent
     \/ e.name = "uninstall" /\ e.ts < row.completed

\* Rules 1 and 2 for a known portal.
Admitted(row, e) ==
  /\ ~Replay(row, e)
  /\ row.appToken # None /\ e.name # "update" => row.appToken = e.token
  /\ e.name = "uninstall" => row.appToken # None

Known == portal.status # "none"

Asked(e) == [NoJob EXCEPT !.kind = e.name, !.stage = "asked", !.row = RowRead,
                          !.ts = e.ts, !.token = e.token]

\* An uninstall needs no proof beyond the ladder's.
UninstallEvent(h) ==
  /\ Arrives(h) /\ Known /\ portal.status # "uninstalled"
  /\ \E e \in Delivered : /\ e.name = "uninstall" /\ Admitted(portal, e)
                       /\ Becomes(h, Asked(e))
  /\ UNCHANGED <<cloudVars, chainVars, portal, gen, lock, refresher, sweep, crmVars>>

\* _handle_uninstall: the transition, unless the row says it was applied.
ApplyUninstall(h) ==
  /\ At(h, "uninstall", "asked") /\ RowFree
  /\ IF portal.status = "active"
     THEN portal' = Touched(Uninstalled(portal), job[h].ts) /\ GenerationRaised
     ELSE portal' = Touched(portal, job[h].ts) /\ UNCHANGED gen
  /\ Done(h)
  /\ UNCHANGED <<cloudVars, chainVars, lock, refresher, sweep, crmVars, requests>>

\* An update, and the first install event of a portal that knows no
\* application_token: an administrator's access token (of bearer) and an
\* exchange (of somebody's pair) that lands on this member_id.
ProvenEvent(h) ==
  /\ Arrives(h) /\ portal.status # "none" /\ Exchanged
  /\ \E e \in Delivered, bearer \in Admin, by \in User :
       /\ Admitted(portal, e)
       /\ \/ e.name = "update" /\ portal.status # "uninstalled"
          \/ e.name = "install" /\ portal.appToken = None
       /\ Becomes(h, [Asked(e) EXCEPT !.by = by, !.link = links + 1])
  /\ UNCHANGED <<cloudVars, portal, gen, lock, refresher, sweep, crmVars>>

\* Mutant: the proof of the bearer is taken for a proof of the pair.
ReseedsUnproved(h) == job[h].row.tokenStatus # "ok"

\* An update repairs a credential that is not healthy - was not, when the row
\* was read - and asks user.admin of the pair it is about to store.
Reseeds(h) == job[h].row.tokenStatus # "ok" /\ job[h].by \in Admin

ApplyUpdate(h) ==
  LET after == IF Reseeds(h) THEN Stored(job[h].by, job[h].link, job[h].token, "ok")
               ELSE [portal EXCEPT !.appToken = job[h].token] IN
  /\ At(h, "update", "asked") /\ RowFree
  /\ Reseeds(h) \/ job[h].row.tokenStatus = "ok"
  /\ portal' = Touched(after, job[h].ts)
  /\ IF Reseeds(h) THEN GenerationRaised ELSE UNCHANGED gen
  /\ Done(h)
  /\ UNCHANGED <<cloudVars, chainVars, lock, refresher, sweep, crmVars, requests>>

\* The exchanged pair is not an administrator's: the whole event is refused.
RefuseUpdate(h) ==
  /\ At(h, "update", "asked") /\ job[h].row.tokenStatus # "ok" /\ job[h].by \notin Admin
  /\ Done(h)
  /\ UNCHANGED <<cloudVars, chainVars, portal, gen, lock, refresher, sweep, crmVars, requests>>

SeedAppToken(h) ==
  /\ At(h, "install", "asked") /\ RowFree
  /\ portal' = Touched([portal EXCEPT !.appToken = job[h].token], job[h].ts)
  /\ Done(h)
  /\ UNCHANGED <<cloudVars, chainVars, gen, lock, refresher, sweep, crmVars, requests>>

\* _handle_known_install with nothing to learn: only the clock moves.
KnownInstall ==
  /\ Known /\ portal.appToken # None /\ RowFree /\ requests < MaxRequests
  /\ \E e \in Delivered : /\ e.name = "install" /\ Admitted(portal, e)
                       /\ portal' = Touched(portal, e.ts)
  /\ requests' = requests + 1
  /\ UNCHANGED <<cloudVars, chainVars, gen, lock, job, refresher, sweep, crmVars>>

\* _handle_unknown_portal: an install or update event makes the row.
UnknownPortal(h) ==
  /\ Arrives(h) /\ ~Known /\ Exchanged
  /\ \E e \in Delivered, by \in Admin :
       /\ e.name # "uninstall"
       /\ Becomes(h, [Asked(e) EXCEPT !.kind = "unknown", !.by = by, !.link = links + 1])
  /\ UNCHANGED <<cloudVars, portal, gen, lock, refresher, sweep, crmVars>>

CreateFromEvent(h) ==
  /\ At(h, "unknown", "asked") /\ RowFree /\ GenerationRaised
  /\ portal' = Touched(Stored(job[h].by, job[h].link, job[h].token, "ok"), job[h].ts)
  /\ Done(h)
  /\ UNCHANGED <<cloudVars, chainVars, lock, refresher, sweep, crmVars, requests>>

-----------------------------------------------------------------------------
(* with_portal_token: the single-flight refresh. *)

AccessExpires ==
  /\ portal.access = "good"
  /\ portal' = [portal EXCEPT !.access = "old"]
  /\ UNCHANGED <<cloudVars, chainVars, gen, lock, job, refresher, sweep, crmVars, requests>>

\* _load_credential, without a lock.
LoadCredential(r) ==
  /\ refresher[r].stage = "idle" /\ portal.access # "none" /\ links < MaxLinks
  /\ refresher' = [refresher EXCEPT ![r] = [stage |-> "loaded", version |-> portal.version,
                                            link |-> None]]
  /\ UNCHANGED <<cloudVars, chainVars, portal, gen, lock, job, sweep, crmVars, requests>>

\* The token still works, or somebody else has stored a newer one, or none is
\* left: there is nothing to exchange.
NoRefreshNeeded(r) ==
  \/ refresher[r].version = portal.version /\ portal.access = "good"
  \/ refresher[r].version # portal.version
  \/ portal.refresh = None

\* Mutant: the version is not compared.
RefreshWithoutVersion(r) ==
  /\ refresher[r].stage = "loaded" /\ RowFree /\ portal.refresh # None
  /\ refresher[r].version # portal.version \/ portal.access = "old"
  /\ lock' = r
  /\ refresher' = [refresher EXCEPT ![r].stage = "locked"]
  /\ UNCHANGED <<cloudVars, chainVars, portal, gen, job, sweep, crmVars, requests>>

RefreshLock(r) ==
  /\ refresher[r].stage = "loaded" /\ RowFree /\ ~NoRefreshNeeded(r)
  /\ lock' = r
  /\ refresher' = [refresher EXCEPT ![r].stage = "locked"]
  /\ UNCHANGED <<cloudVars, chainVars, portal, gen, job, sweep, crmVars, requests>>

RefreshSpared(r) ==
  /\ refresher[r].stage = "loaded" /\ RowFree /\ NoRefreshNeeded(r)
  /\ refresher' = [refresher EXCEPT ![r] = NotRefreshing]
  /\ UNCHANGED <<cloudVars, chainVars, portal, gen, lock, job, sweep, crmVars, requests>>

\* The exchange rotates the refresh token at the server.
RefreshExchange(r) ==
  /\ refresher[r].stage = "locked" /\ portal.refresh \in valid /\ links < MaxLinks
  /\ links' = links + 1
  /\ valid' = (valid \ {portal.refresh}) \cup {links + 1}
  /\ refresher' = [refresher EXCEPT ![r].stage = "exchanged", ![r].link = links + 1]
  /\ UNCHANGED <<cloudVars, portal, gen, lock, job, sweep, crmVars, requests>>

\* invalid_grant: the chain is dead, and the row says so.
RefreshRefused(r) ==
  /\ refresher[r].stage = "locked" /\ portal.refresh \notin valid
  /\ portal' = [portal EXCEPT !.tokenStatus = "reauth_required"]
  /\ lock' = None
  /\ refresher' = [refresher EXCEPT ![r] = NotRefreshing]
  /\ UNCHANGED <<cloudVars, chainVars, gen, job, sweep, crmVars, requests>>

RefreshCommit(r) ==
  /\ refresher[r].stage = "exchanged"
  /\ portal' = [portal EXCEPT !.refresh = refresher[r].link, !.access = "good",
                              !.version = @ + 1]
  /\ lock' = None
  /\ refresher' = [refresher EXCEPT ![r] = NotRefreshing]
  /\ UNCHANGED <<cloudVars, chainVars, gen, job, sweep, crmVars, requests>>

\* The process dies, or the answer is lost: the new pair was never stored.
RefreshLost(r) ==
  /\ refresher[r].stage \in {"locked", "exchanged"}
  /\ lock' = None
  /\ refresher' = [refresher EXCEPT ![r] = NotRefreshing]
  /\ UNCHANGED <<cloudVars, chainVars, portal, gen, job, sweep, crmVars, requests>>

-----------------------------------------------------------------------------
(* sweep_inferred_uninstalls: list, then one transaction for each portal.  *)
(* The grace period is over at any time.                                   *)

SweepList ==
  /\ ~sweep /\ portal.status = "active" /\ portal.tokenStatus = "reauth_required"
  /\ sweep' = TRUE
  /\ UNCHANGED <<cloudVars, chainVars, portal, gen, lock, job, refresher, crmVars, requests>>

SweepMark ==
  /\ sweep /\ RowFree
  /\ IF portal.status = "active" THEN portal' = Uninstalled(portal) /\ GenerationRaised
     ELSE UNCHANGED <<portal, gen>>
  /\ sweep' = FALSE
  /\ UNCHANGED <<cloudVars, chainVars, lock, job, refresher, crmVars, requests>>

-----------------------------------------------------------------------------
(* CRM analytics: the switch, the tool, the visit and the two purges. *)

\* The endpoint read the row as active; the transaction does not ask again.
AskSwitch(h) ==
  /\ Arrives(h) /\ portal.status = "active"
  /\ Becomes(h, [NoJob EXCEPT !.kind = "switch", !.stage = "asked", !.row = RowRead])
  /\ UNCHANGED <<cloudVars, chainVars, portal, gen, lock, refresher, sweep, crmVars>>

\* Mutant: off without raising the fence.
SwitchOffUnfenced(h) ==
  /\ At(h, "switch", "asked") /\ RowFree /\ ~portal.optOut
  /\ portal' = [portal EXCEPT !.optOut = TRUE, !.crmPurge = TRUE]
  /\ Done(h)
  /\ UNCHANGED <<cloudVars, chainVars, gen, lock, refresher, sweep, crmVars, requests>>

SwitchOff(h) ==
  /\ At(h, "switch", "asked") /\ RowFree /\ ~portal.optOut
  /\ portal' = [portal EXCEPT !.optOut = TRUE, !.crmPurge = TRUE]
  /\ GenerationRaised
  /\ Done(h)
  /\ UNCHANGED <<cloudVars, chainVars, lock, refresher, sweep, crmVars, requests>>

\* On leaves a purge that is still owed where it is.
SwitchOn(h) ==
  /\ At(h, "switch", "asked") /\ RowFree /\ portal.optOut
  /\ portal' = [portal EXCEPT !.optOut = FALSE]
  /\ Done(h)
  /\ UNCHANGED <<cloudVars, chainVars, gen, lock, refresher, sweep, crmVars, requests>>

\* _crm_active, for a portal that is leased at all.  The operator's crm_mode and
\* the fleet's flag are further reasons not to open such a visit.
CrmActive ==
  /\ portal.status = "active" /\ portal.tokenStatus = "ok" /\ ~portal.purge
  /\ ~portal.optOut /\ ~portal.crmPurge

VisitOpens ==
  /\ visit = None /\ CrmActive
  /\ visit' = gen
  /\ UNCHANGED <<cloudVars, chainVars, portal, gen, lock, job, refresher, sweep, mirror,
                 emptied, requests>>

VisitStores ==
  /\ visit # None /\ visit = gen
  /\ mirror' = TRUE
  /\ UNCHANGED <<cloudVars, chainVars, portal, gen, lock, job, refresher, sweep, visit,
                 emptied, requests>>

VisitEnds ==
  /\ visit # None
  /\ visit' = None
  /\ UNCHANGED <<cloudVars, chainVars, portal, gen, lock, job, refresher, sweep, mirror,
                 emptied, requests>>

\* purge_portal_data, in one step.
Purge ==
  /\ portal.purge /\ RowFree /\ ~emptied
  /\ mirror' = FALSE
  /\ portal' = [portal EXCEPT !.purge = FALSE]
  /\ UNCHANGED <<cloudVars, chainVars, gen, lock, job, refresher, sweep, visit, emptied,
                 requests>>

\* purge_crm_data: delete, then count, and finish only on zero.  tick starts it
\* when no whole-portal purge is owed.
CrmPurgeDeletes ==
  /\ portal.crmPurge /\ ~portal.purge /\ ~emptied
  /\ mirror' = FALSE
  /\ emptied' = TRUE
  /\ UNCHANGED <<cloudVars, chainVars, portal, gen, lock, job, refresher, sweep, visit,
                 requests>>

CrmPurgeFinishes ==
  /\ emptied /\ RowFree
  /\ portal' = IF mirror THEN portal ELSE [portal EXCEPT !.crmPurge = FALSE]
  /\ emptied' = FALSE
  /\ UNCHANGED <<cloudVars, chainVars, gen, lock, job, refresher, sweep, mirror, visit,
                 requests>>

-----------------------------------------------------------------------------
Cloud == AppInstalled \/ AppUpdated \/ AppRemoved

Request(h) ==
  \/ Install(h) \/ Open(h) \/ Housekeep(h) \/ Reseed(h) \/ Reauthorize(h)
  \/ StoreCredential(h)
  \/ UninstallEvent(h) \/ ApplyUninstall(h)
  \/ ProvenEvent(h) \/ ApplyUpdate(h) \/ RefuseUpdate(h) \/ SeedAppToken(h)
  \/ UnknownPortal(h) \/ CreateFromEvent(h)
  \/ AskSwitch(h) \/ SwitchOff(h) \/ SwitchOn(h)

Refresh(r) ==
  \/ LoadCredential(r) \/ RefreshLock(r) \/ RefreshSpared(r) \/ RefreshExchange(r)
  \/ RefreshRefused(r) \/ RefreshCommit(r) \/ RefreshLost(r)

Crm == VisitOpens \/ VisitStores \/ VisitEnds

PurgeJob == Purge \/ CrmPurgeDeletes \/ CrmPurgeFinishes

Next ==
  \/ Cloud \/ AccessExpires \/ KnownInstall \/ SweepList \/ SweepMark \/ Crm \/ PurgeJob
  \/ \E h \in Handler : Request(h)
  \/ \E r \in Refresher : Refresh(r)

Spec == Init /\ [][Next]_vars

\* The tick comes every 15 seconds; a lock is held for one exchange, and those
\* who wait for a row are served in turn.
FairSpec ==
  /\ Spec
  /\ SF_vars(Purge) /\ WF_vars(CrmPurgeDeletes) /\ SF_vars(CrmPurgeFinishes)
  /\ \A r \in Refresher : WF_vars(RefreshCommit(r) \/ RefreshRefused(r) \/ RefreshLost(r))

-----------------------------------------------------------------------------
(* Properties *)

TypeOK ==
  /\ portal.status \in {"none", "active", "uninstalled"}
  /\ portal.refresh \in (1..links) \cup {None} /\ valid \subseteq 1..links
  /\ portal.owner \in User \cup {None}
  /\ portal.completed <= clock /\ portal.lastEvent <= clock
  /\ lock \in Refresher \cup {None}
  /\ visit = None \/ visit <= gen
  /\ lock # None <=> \E r \in Refresher : refresher[r].stage \in {"locked", "exchanged"}

\* portals.py 2-3 and 230-240: whatever path stores a credential, and however
\* the paths interleave, what the worker syncs with belongs to an
\* administrator.
CredentialIsAdmins == portal.refresh # None => portal.owner \in Admin

\* portals.py 487-494, 514-520: an uninstalled portal has no API tokens, and no
\* refresh that was in flight brings them back.
RevokedStaysRevoked ==
  portal.status = "uninstalled" => portal.refresh = None /\ portal.access = "none"

\* oauth.py 660-664: whoever is about to exchange holds the lock on a token that
\* has expired; the one who waited for the lock uses what the other one stored,
\* and nobody stores another pair meanwhile.
OneExchangePerExpiry ==
  \A r \in Refresher : refresher[r].stage = "locked" => portal.access = "old"

Applies(h) == ~Idle(h) /\ job'[h] = NoJob
Wipes == portal.status = "active" /\ portal'.status = "uninstalled"

\* events.py 414-429: the uninstall of an earlier installation, if it says when it
\* was made, does not wipe this one, unless this one was stored while the event was being handled.
LateUninstallIgnored ==
  [][\A h \in Handler :
       At(h, "uninstall", "asked") /\ job[h].ts # NoTime /\ Applies(h) /\ Wipes
       => \/ job[h].ts >= portal.completed
          \/ job[h].row.completed # portal.completed]_vars

\* portals.py 537-538, of an event that says when it was made: "a retried uninstall is a logged no-op, never a second
\* wipe that could undo a reinstall performed in between".
NoSecondWipe ==
  [][\A h \in Handler :
       At(h, "uninstall", "asked") /\ job[h].ts # NoTime /\ Applies(h) /\ Wipes
       => job[h].ts >= portal.completed]_vars

\* portals.py 577-586: once the purge it asked for is over, an opted-out portal
\* holds no CRM rows, whichever visit was in flight when the switch was pressed.
OptOutIsEmpty == portal.optOut /\ ~portal.crmPurge => ~mirror

\* portals.py 577-586, definitions.py 2246-2263: the rows do go.
OptOutIsHonoured == portal.optOut ~> (~mirror \/ ~portal.optOut)

=============================================================================
