---------------------------- MODULE MCCallSync ----------------------------
(* One portal of a few calls, two rows to a page. *)
EXTENDS CallSync

PageUnparsable == {3, 4}
OneUnstorable == {6}
NoCalls == {}
Exact == {0}
APageLate == {0, 2}
=============================================================================
