---------------------------- MODULE MCIndexPump ----------------------------
(***************************************************************************)
(* IndexPump for TLC: two modules, of which the second imports the first.  *)
(***************************************************************************)
EXTENDS IndexPump

Edge == {<<2, 1>>}
=============================================================================
