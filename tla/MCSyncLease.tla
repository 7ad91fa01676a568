---------------------------- MODULE MCSyncLease ----------------------------
(* Instances of one or two worker processes over one portal; the .cfg files *)
(* give the sizes.                                                          *)
EXTENDS SyncLease
=============================================================================
