------------------------------- MODULE RWLock -------------------------------
(***************************************************************************)
(* What the workspace gate promises (src/core/src/workspaceGate.ts:50-57,  *)
(* 132-137): a first-come first-served readers/writer lock.  The line of   *)
(* callers is a sequence and the holders are a set; nothing is counted.    *)
(* Whoever is admitted comes from the front of the line, every step leaves *)
(* compatible holders, and only a caller still in the line may give up.    *)
(***************************************************************************)
EXTENDS Naturals, Sequences, SequencesExt

CONSTANTS Calls, Exclusive

VARIABLES line, held

lockVars == <<line, held>>

Compatible(H) == \A c, d \in H : c # d => c \notin Exclusive

\* The front of the line `q` may join the holders `H`, as far as they agree.
Serve(q, H) ==
    \E n \in 0..Len(q) :
        LET admitted == ToSet(SubSeq(q, 1, n)) IN
        /\ Compatible(H \cup admitted)
        /\ line' = SubSeq(q, n + 1, Len(q))
        /\ held' = H \cup admitted

Init == line = <<>> /\ held = {}

Join(c) == /\ c \notin held \cup ToSet(line)
           /\ Serve(Append(line, c), held)

Release(c) == c \in held /\ Serve(line, held \ {c})

GiveUp(c) == \E i \in 1..Len(line) : line[i] = c /\ Serve(RemoveAt(line, i), held)

Next == \E c \in Calls : Join(c) \/ Release(c) \/ GiveUp(c)

Spec == Init /\ [][Next]_lockVars
=============================================================================
