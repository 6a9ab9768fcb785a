---------------------------- MODULE MCLiveIndex ----------------------------
(***************************************************************************)
(* LiveIndex for TLC.  Files are interchangeable, and so are the contents  *)
(* other than none, so of initial states that differ only in which is      *)
(* which, one is enough.                                                   *)
(***************************************************************************)
EXTENDS LiveIndex

CONSTANTS m1, m2

MCInit ==
    /\ Init
    /\ index[m1] >= index[m2]
    /\ index[m1] = 2 => index[m2] = 1

MCSpec == MCInit /\ [][Next]_vars /\ Fairness
=============================================================================
