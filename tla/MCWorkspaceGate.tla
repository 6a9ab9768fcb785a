-------------------------- MODULE MCWorkspaceGate --------------------------
(***************************************************************************)
(* Two writers, one of them the parse pump; a bounded read; and two staged *)
(* reads, one with a budget and one without, that share the pump's run as  *)
(* their pre-work.                                                         *)
(***************************************************************************)
EXTENDS WorkspaceGate

CONSTANTS pump, writer, bounded, hasty, patient

MCCalls     == {pump, writer, bounded, hasty, patient}
MCExclusive == {pump, writer}
MCBounded   == {bounded, hasty}
MCStaged    == {hasty, patient}
MCAhead     == [c \in MCStaged |-> pump]
=============================================================================
