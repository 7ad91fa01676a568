---------------------------- MODULE RecordCache ----------------------------
(***************************************************************************)
(* What a mirror of somebody else's records promises, with no lane, page   *)
(* or filter in sight.  A record is created, edited and deleted by its     *)
(* owner.  A row is a copy of some version its record went through; it     *)
(* only ever moves to a later one, it says "deleted" only of a record that *)
(* is gone, and what is known to be gone never comes back.                 *)
(*                                                                         *)
(* CrmMirror is the detailed specification.                                *)
(***************************************************************************)
EXTENDS Naturals

CONSTANT Ids

VARIABLES
  content,     \* version of each record; 0 before it is created
  gone,        \* the records that were deleted
  row          \* what the mirror has of each record

cacheVars == <<content, gone, row>>

NoRow == [kind |-> "none", content |-> 0, unreadable |-> FALSE]
Copy(c, u) == [kind |-> "live", content |-> c, unreadable |-> u]
Tombstone == [kind |-> "deleted", content |-> 0, unreadable |-> FALSE]
Evicted == [kind |-> "evicted", content |-> 0, unreadable |-> FALSE]

CacheInit ==
  /\ content \in [Ids -> {0, 1}]
  /\ gone = {}
  /\ row = [i \in Ids |-> NoRow]

\* The records change; the mirror does not know.
RecordChanges ==
  /\ \A i \in Ids : content'[i] >= content[i]
  /\ gone \subseteq gone'
  /\ UNCHANGED row

\* What one row may become, given what its record is now.
Follows(i, new) ==
  \/ new = row[i]
  \/ /\ row[i].kind # "deleted"
     /\ \E c \in row[i].content..content[i], u \in BOOLEAN : c > 0 /\ new = Copy(c, u)
  \/ i \in gone /\ new = Tombstone
  \/ row[i].kind = "live" /\ new = Evicted
  \/ row[i].kind \in {"deleted", "evicted"} /\ new = NoRow

RowsFollow ==
  /\ \A i \in Ids : Follows(i, row'[i])
  /\ UNCHANGED <<content, gone>>

CacheNext == RecordChanges \/ RowsFollow

CacheSpec == CacheInit /\ [][CacheNext]_cacheVars

=============================================================================
