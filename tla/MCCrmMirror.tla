---------------------------- MODULE MCCrmMirror ----------------------------
(***************************************************************************)
(* Instances of CrmMirror: time and ID bounds are in the configurations.   *)
(***************************************************************************)
EXTENDS CrmMirror

=============================================================================
