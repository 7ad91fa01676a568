------------------------- MODULE MCPortalLifecycle -------------------------
(***************************************************************************)
(* Instances of PortalLifecycle.  Handlers do not differ, nor do those who *)
(* refresh; the symmetry is used where no liveness is checked.             *)
(***************************************************************************)
EXTENDS PortalLifecycle, TLC

Symmetry == Permutations(Handler) \cup Permutations(Refresher)

=============================================================================
