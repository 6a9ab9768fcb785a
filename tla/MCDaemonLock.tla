----------------------------- MODULE MCDaemonLock -----------------------------
(***************************************************************************)
(* The store lock on small sets of processes: enough for a holder that     *)
(* dies and two claims that race for what it left.                         *)
(***************************************************************************)
EXTENDS DaemonLock, TLC

Symmetry == Permutations(Daemons)

=============================================================================
