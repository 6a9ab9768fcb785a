---------------------------- MODULE AtomicSteps ----------------------------
(***************************************************************************)
(* What a client sees of refactor transactions when nobody else touches    *)
(* the files: a file changes only as a request asks, a step changes all    *)
(* its files at once or none, Undo takes the newest one back, Revert puts  *)
(* back every opening content, and nothing is written inside a transaction *)
(* that Revert could not put back.  A daemon that dies shows none of it    *)
(* half done.                                                              *)
(* (docs/architecture.md, "Refactor transactions".)                        *)
(***************************************************************************)
EXTENDS Sequences, SequencesExt

CONSTANTS Modules, Contents, None

VARIABLES
    files,    \* what each file holds
    open,     \* a transaction is open
    opening,  \* the content a tracked file had when it was first tracked
    stack,    \* for each step, the contents it replaced
    asked     \* the new content the request under way is to give a file

vars == <<files, open, opening, stack, asked>>

Nothing == [m \in Modules |-> None]

Init ==
    /\ files \in [Modules -> Contents]
    /\ open = FALSE
    /\ opening = Nothing
    /\ stack = <<>>
    /\ asked = Nothing

Open ==
    /\ ~ open
    /\ open' = TRUE
    /\ UNCHANGED <<files, opening, stack, asked>>

Track(m) ==
    /\ open /\ opening[m] = None
    /\ opening' = [opening EXCEPT ![m] = files[m]]
    /\ UNCHANGED <<files, open, stack, asked>>

\* A gated write is asked for, and its file tracked.
AskToWrite(m) ==
    /\ asked = Nothing
    /\ \E c \in Contents : asked' = [asked EXCEPT ![m] = c]
    /\ opening' = IF open /\ opening[m] = None THEN [opening EXCEPT ![m] = files[m]] ELSE opening
    /\ UNCHANGED <<files, open, stack>>

AskForStep ==
    /\ asked = Nothing
    /\ asked' \in [Modules -> Contents \cup {None}]
    /\ UNCHANGED <<files, open, opening, stack>>

\* A request is refused, or the daemon dies before it is done.
GiveUp ==
    /\ asked' = Nothing
    /\ UNCHANGED <<files, open, opening, stack>>

ToChange == {m \in Modules : asked[m] # None}

\* Every file asked for changes at once, and no other.
Change ==
    /\ files' = [m \in Modules |-> IF m \in ToChange THEN asked[m] ELSE files[m]]
    /\ asked' = Nothing

\* A gated write.
Write ==
    /\ open => \A m \in ToChange : opening[m] # None
    /\ Change
    /\ UNCHANGED <<open, opening, stack>>

\* A step, within a transaction or in one of its own: it records the files of R, those it changes and
\* maybe some that it only plans.
Step(R) ==
    /\ ToChange \subseteq R
    /\ Change
    /\ IF open
       THEN /\ \A m \in R : opening[m] # None
            /\ stack' = Append(stack, [m \in Modules |-> IF m \in R THEN files[m] ELSE None])
       ELSE UNCHANGED stack
    /\ UNCHANGED <<open, opening>>

Undo ==
    /\ stack # <<>>
    /\ files' = [m \in Modules |-> IF Last(stack)[m] # None THEN Last(stack)[m] ELSE files[m]]
    /\ stack' = Front(stack)
    /\ UNCHANGED <<open, opening, asked>>

Settle ==
    /\ open
    /\ open' = FALSE /\ opening' = Nothing /\ stack' = <<>>
    /\ UNCHANGED asked

Commit == Settle /\ UNCHANGED files

Revert ==
    /\ Settle
    /\ files' = [m \in Modules |-> IF opening[m] # None THEN opening[m] ELSE files[m]]

Next ==
    \/ Open \/ AskForStep \/ GiveUp \/ Write \/ Undo \/ Commit \/ Revert
    \/ \E m \in Modules : Track(m) \/ AskToWrite(m)
    \/ \E R \in SUBSET Modules : Step(R)

Spec == Init /\ [][Next]_vars
=============================================================================
