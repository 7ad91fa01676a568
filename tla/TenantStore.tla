---------------------------- MODULE TenantStore ----------------------------
(***************************************************************************)
(* What the call cache of one portal promises, with no worker, lease or    *)
(* transaction in sight.  A portal is installed, imports its call history  *)
(* in ascending ID order, may be uninstalled and installed again, and      *)
(* owes the deletion of everything it held once it was uninstalled.        *)
(*                                                                         *)
(* A row carries the installation it was read for.  An import appends one  *)
(* call to a prefix that is already complete and moves the cursor to it    *)
(* in the same step.  SyncLease is the detailed specification: leases,     *)
(* fences, several worker processes, a clock and crashes.                  *)
(***************************************************************************)
EXTENDS Naturals

CONSTANT MaxCall     \* calls a portal has; the bound of the cursor

VARIABLES
  status,            \* portals.status
  purgePending,      \* portals.purge_pending
  inst,              \* which installation of the portal is on record
  calls,             \* the calls table: rows [id, inst]
  cursor             \* portal_sync.high_id

storeVars == <<status, purgePending, inst, calls, cursor>>

Row(i, n) == [id |-> i, inst |-> n]

\* Calls 1..k of installation n are all in the table.
Prefix(table, n, k) == \A i \in 1..k : Row(i, n) \in table

StoreInit ==
  /\ status = "active"
  /\ purgePending = FALSE
  /\ inst = 1
  /\ calls = {}
  /\ cursor = 0

Import ==
  /\ status = "active" /\ ~purgePending
  /\ \E k \in 0..(MaxCall - 1) :
       /\ Prefix(calls, inst, k)
       /\ calls' = calls \cup {Row(k + 1, inst)}
       /\ cursor' = k + 1
  /\ UNCHANGED <<status, purgePending, inst>>

Uninstalled ==
  /\ status = "active"
  /\ status' = "uninstalled"
  /\ purgePending' = TRUE
  /\ cursor' = 0
  /\ UNCHANGED <<inst, calls>>

Reinstalled ==
  /\ status = "uninstalled"
  /\ status' = "active"
  /\ inst' = inst + 1
  /\ cursor' = 0
  /\ UNCHANGED <<purgePending, calls>>

Deleted ==
  /\ purgePending
  /\ \E chunk \in SUBSET calls : calls' = calls \ chunk
  /\ UNCHANGED <<status, purgePending, inst, cursor>>

PurgeVerified ==
  /\ purgePending /\ calls = {}
  /\ purgePending' = FALSE
  /\ UNCHANGED <<status, inst, calls, cursor>>

StoreNext == Import \/ Uninstalled \/ Reinstalled \/ Deleted \/ PurgeVerified

StoreSpec == StoreInit /\ [][StoreNext]_storeVars

=============================================================================
