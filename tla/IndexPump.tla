----------------------------- MODULE IndexPump -----------------------------
(***************************************************************************)
(* The index pump and the debts it pays (core/src/indexPump.ts,            *)
(* rebindScheduler.ts, the batches of store.ts).                           *)
(*                                                                         *)
(* A parse that moves a module's surface records the move; whoever imports *)
(* the module then holds references bound against what is gone, and owes a *)
(* parse.  The pump, one run at a time, upgrades outlines, asks who binds  *)
(* against the moves the single-file roads left, and pays what is owed.    *)
(* Its writes share a batch that may be lost; theirs commit at once.       *)
(*                                                                         *)
(* Each parse runs under the exclusive gate and is one step, with the      *)
(* store's writes in it.  Between a parse and the settlement of its moves  *)
(* the gate is free: other roads write meanwhile.  Who imports whom is     *)
(* fixed, and the resolver that answers it may fail.                       *)
(***************************************************************************)
EXTENDS Integers, FiniteSets, SequencesExt

CONSTANTS
    Modules,        \* module names, as numbers: their order is the store's
    Imports,        \* pairs <<n, m>>: n imports m
    MaxWrites,      \* bound: modules refused at first, single-file writes and restored files
    MaxMoves,       \* bound: parses that move a surface
    MaxOrders,      \* bound: orders
    MaxTroubles     \* bound: lost batches, faults, outages, restarts together

ASSUME PumpAssumption ==
    /\ Modules \subseteq Nat \ {0} /\ IsFiniteSet(Modules)
    /\ Imports \subseteq Modules \X Modules
    /\ MaxWrites \in Nat /\ MaxMoves \in Nat /\ MaxOrders \in Nat /\ MaxTroubles \in Nat

VARIABLES
    db,             \* the store as its own connection reads it: the open batch included
    committed,      \* the store as a crash or a lost batch leaves it
    broken,         \* modules whose bytes on disk no provider parses
    process,        \* which daemon and provider process answer: a number per restart
    pc,             \* the pump: off, turn, hold, owing, ending
    job,            \* what it parses: for an order, for a debt, for the backlog
    work,           \* between hold and settlement: the moves read, and the order of their writes
    lost,           \* the pass of this run lost its batch
    orders,         \* modules ordered in full by callers that wait
    unasked,        \* a set in insertion order: written by single-file roads, nobody asked for yet
    upgradeWanted, rebindQueued, recovering,
    recovery,       \* the recovery timer is armed
    upgradeFailed,  \* modules set aside from the backlog
    cursor,         \* rebindCursor: the debt tried last in this run
    resolvePending, \* modules whose moves the resolver left unanswered
    resolveRetry,   \* its timer is armed
    gaveUp,         \* history: how this daemon came to want no more: a fault, a loss after its last turn
    used            \* the bounds' counters

asideVars == <<upgradeFailed, resolvePending, resolveRetry>>
flagVars == <<upgradeWanted, recovering, recovery, gaveUp>>
vars == <<db, committed, broken, process, pc, job, work, lost, orders, unasked, rebindQueued, cursor,
          asideVars, flagVars, used>>

\* Names a surface may gain or lose.
Names == 1..MaxMoves

NoJob == [kind |-> "none", of |-> 0]
Jobs == [kind : {"order", "rebind", "upgrade"}, of : Modules]
NoMoves == [m \in Modules |-> {}]
NoWork == [moves |-> NoMoves, order |-> <<>>]

NotOwed == [state |-> "no", in |-> 0]
Payable == [state |-> "payable", in |-> 0]
Held(reason) == [state |-> reason, in |-> process]

\* The rows of the store: how deep a module was read, its pending move (the names merged), the parse
\* it owes, whether its last parse failed.  History: stale facts, parsed before a move of an import,
\* and why a module fell through one of the gaps known of (section 5 of the README).
Stores == [depth : [Modules -> {"outline", "full"}],
           move : [Modules -> SUBSET Names],
           owed : [Modules -> [state : {"no", "payable", "outage", "refusal"}, in : 0..MaxTroubles]],
           failing : SUBSET Modules,
           stale : SUBSET Modules,
           gap : [Modules -> {"none", "order", "merged", "unread", "refused"}]]

TypeOK ==
    /\ db \in Stores /\ committed \in Stores
    /\ broken \subseteq Modules /\ process \in 0..MaxTroubles
    /\ pc \in {"off", "turn", "hold", "owing", "ending"}
    /\ job \in Jobs \cup {NoJob} /\ (pc = "hold" => job # NoJob) /\ (job # NoJob => pc \in {"hold", "owing"})
    /\ work.moves \in [Modules -> SUBSET Names] /\ work.order \in Seq(Modules)
    /\ lost \in BOOLEAN /\ (lost => pc # "off")
    /\ orders \in Seq(Modules) /\ IsInjective(orders)
    /\ unasked \in Seq(Modules) /\ IsInjective(unasked)
    /\ upgradeWanted \in BOOLEAN /\ rebindQueued \in BOOLEAN /\ recovering \in BOOLEAN
    /\ recovery \in BOOLEAN /\ gaveUp \subseteq {"fault", "loss"} /\ resolveRetry \in BOOLEAN
    /\ upgradeFailed \subseteq Modules /\ resolvePending \subseteq Modules
    /\ cursor \in Modules \cup {0}
    /\ used.writes \in 0..MaxWrites /\ used.moves \in 0..MaxMoves
    /\ used.orders \in 0..MaxOrders /\ used.troubles \in 0..MaxTroubles

\* An index of any depth after a warm scan that found nothing to parse; the pump was asked to upgrade.
\* A module may parse as an outline and not in full.
Init ==
    /\ db \in [depth : [Modules -> {"outline", "full"}], move : {NoMoves},
               owed : {[m \in Modules |-> NotOwed]}, failing : {{}}, stale : {{}},
               gap : {[m \in Modules |-> "none"]}]
    /\ committed = db
    /\ broken \in SUBSET {m \in Modules : db.depth[m] = "outline"}
    /\ Cardinality(broken) <= MaxWrites /\ process = 0
    /\ pc = "turn" /\ job = NoJob /\ work = NoWork /\ lost = FALSE
    /\ orders = <<>> /\ unasked = <<>>
    /\ upgradeWanted = TRUE /\ rebindQueued = FALSE /\ recovering = FALSE /\ recovery = FALSE
    /\ upgradeFailed = {} /\ cursor = 0 /\ resolvePending = {} /\ resolveRetry = FALSE
    /\ gaveUp = {}
    /\ used = [writes |-> Cardinality(broken), moves |-> 0, orders |-> 0, troubles |-> 0]

-----------------------------------------------------------------------------
(***************************************************************************)
(* The store                                                               *)
(***************************************************************************)

ImportersOf(m) == {n \in Modules \ {m} : <<n, m>> \in Imports}
Outline(d) == {m \in Modules : d.depth[m] = "outline"}

\* `rebindable`: an outline has no references to rebind, and a refused parse is about its own bytes.
Rebindable(d, m) == m \notin Outline(d) \cup d.failing

\* replaceFile of m, whose surface moved by `names`: the failure is over, the debt paid, the move
\* merged into what is pending, and the outages of the provider that answered are payable again.
\* A module imported by one that was written after it, with its own place in `unasked` kept, falls
\* into the gap "order".
Parsed(d, m, names) ==
    LET hit == IF names = {} THEN {} ELSE ImportersOf(m) \ Outline(d)
        after(n) == \E i, j \in 1..Len(unasked) : i < j /\ unasked[i] = m /\ unasked[j] = n
        merged(n) == pc = "owing" /\ work.moves[m] = d.move[m] \cup names /\ Contains(work.order, n) IN
    [depth |-> [d.depth EXCEPT ![m] = "full"],
     move |-> [d.move EXCEPT ![m] = @ \cup names],
     owed |-> [n \in Modules |-> IF n = m THEN NotOwed
                               ELSE IF d.owed[n].state = "outage" THEN Payable
                               ELSE d.owed[n]],
     failing |-> d.failing \ {m},
     stale |-> (d.stale \ {m}) \cup hit,
     gap |-> [n \in Modules |-> IF n = m THEN "none"
                              ELSE IF n \in hit /\ after(n) THEN "order"
                              ELSE IF n \in hit /\ merged(n) THEN "merged"
                              ELSE d.gap[n]]]

\* unblockOutages found a debt to unblock.
Unblocks(d, m) == \E n \in Modules \ {m} : d.owed[n].state = "outage"

\* `refuseParse`: the facts stay, the failure is recorded.
Refused(d, m) == [d EXCEPT !.failing = @ \cup {m}]

\* `holdRebind`: the debt of m, there or not, is held back.
HeldBack(d, m, reason) == [d EXCEPT !.owed[m] = Held(reason)]

\* The names a parse may move, within the bound.  They are interchangeable: a new one is the next.
Moves == {{}} \cup (IF used.moves < MaxMoves THEN {{x} : x \in 1..(used.moves + 1)} ELSE {})

Count(names) == IF names = {} THEN 0 ELSE 1

\* A settlement: the modules of `owed` owe a parse, the moves in `moves` are acknowledged unless
\* something was merged into them since.  A failing module among `passed` falls into the gap "refused".
SettleMoves(d, moves, owed, passed) ==
    [d EXCEPT !.owed = [n \in Modules |-> IF n \in owed /\ d.owed[n] = NotOwed THEN Payable ELSE d.owed[n]],
              !.move = [m \in Modules |-> IF moves[m] = d.move[m] THEN {} ELSE d.move[m]],
              !.gap = [n \in Modules |-> IF n \in passed THEN "refused" ELSE d.gap[n]]]

-----------------------------------------------------------------------------
(***************************************************************************)
(* Who binds against a move                                                *)
(***************************************************************************)

Moved(moves) == {m \in Modules : moves[m] # {}}

\* The place of a module in the order of writes, or 0.
Place(order, m) == IF Contains(order, m) THEN CHOOSE i \in 1..Len(order) : order[i] = m ELSE 0

\* `readAfter`: n was written after every move here.
ReadAfter(n, moves, order) ==
    /\ Contains(order, n)
    /\ \A m \in Moved(moves) : Place(order, n) > Place(order, m)

\* `dependentsOf`: the importers of what moved.
Dependents(moves) == UNION {ImportersOf(m) : m \in Moved(moves)}

\* Those that must be asked to parse again, whether or not they can be.
Unread(moves, order) == {n \in Dependents(moves) : ~ReadAfter(n, moves, order)}

\* The moves pending for a set of modules.
PendingMoves(d, of) == [m \in Modules |-> IF m \in of THEN d.move[m] ELSE {}]

-----------------------------------------------------------------------------
(***************************************************************************)
(* Runs                                                                    *)
(***************************************************************************)

\* The modules `of` are taken for readers of what moved before them, though they parsed nothing since:
\* the stale ones fall into a gap.
TakenForRead(d, of, gap) ==
    LET missed == {n \in of \cap d.stale : \E m \in Modules : n \in ImportersOf(m) /\ d.move[m] # {}} IN
    [d EXCEPT !.gap = [n \in Modules |-> IF n \in missed THEN gap ELSE @[n]]]

\* Modules in the store's order.
Sorted(of) ==
    CHOOSE s \in [1..Cardinality(of) -> of] : \A i, j \in 1..Cardinality(of) : i < j => s[i] < s[j]

\* `startRun` in process p: the store becomes d and what restarted since a debt was held back is asked again; what
\* the resolver left comes last in `unasked`, unless it is there already.
StartRun(d, u, p) ==
    /\ pc' = "turn" /\ cursor' = 0 /\ rebindQueued' = FALSE
    /\ db' = [TakenForRead(d, resolvePending \ ToSet(u), "order") EXCEPT
                !.owed = [m \in Modules |->
                    IF @[m].state \in {"outage", "refusal"} /\ @[m].in # p THEN Payable ELSE @[m]]]
    /\ committed' = db'
    /\ unasked' = u \o Sorted(resolvePending \ ToSet(u))
    /\ resolvePending' = {}

\* `ensurePumping`, with the store d, committed as far as c, the set u and the flag rebindQueued.
EnsurePumping(d, c, u, queued, p) ==
    IF pc = "off"
    THEN StartRun(d, u, p)
    ELSE /\ db' = d /\ committed' = c /\ unasked' = u /\ rebindQueued' = queued
         /\ UNCHANGED <<pc, cursor, resolvePending>>

-----------------------------------------------------------------------------
(***************************************************************************)
(* Other roads                                                             *)
(***************************************************************************)

\* A single-file road under the gate: the bytes of m change, are parsed and committed at once, the
\* open batch before them.  Nobody asks who binds against it: the pump will.
Writes(m, d, queued) ==
    /\ used.writes < MaxWrites
    /\ EnsurePumping(d, d, IF Contains(unasked, m) THEN unasked ELSE Append(unasked, m), queued,
                     process)
    /\ UNCHANGED <<process, job, work, lost, orders, resolveRetry, flagVars>>

WriteFile(m, names) ==
    /\ Writes(m, Parsed(db, m, names), rebindQueued \/ Unblocks(db, m))
    /\ broken' = broken \ {m} /\ upgradeFailed' = upgradeFailed \ {m}
    /\ used' = [used EXCEPT !.writes = @ + 1, !.moves = @ + Count(names)]

WriteRefused(m) ==
    /\ Writes(m, TakenForRead(Refused(db, m), {m}, "refused"), rebindQueued)
    /\ broken' = broken \cup {m} /\ upgradeFailed' = upgradeFailed \cup {m}
    /\ used' = [used EXCEPT !.writes = @ + 1]

WriteDown(m) ==
    /\ used.troubles < MaxTroubles
    /\ Writes(m, TakenForRead(db, {m}, "unread"), rebindQueued)
    /\ UNCHANGED <<broken, upgradeFailed>>
    /\ used' = [used EXCEPT !.writes = @ + 1, !.troubles = @ + 1]

\* The watcher sees m with the bytes the index holds: nothing is parsed, but a debt held back by its
\* refusal is payable again.
Restore(m) ==
    LET held == db.owed[m].state = "refusal"
        d == [db EXCEPT !.owed[m] = Payable] IN
    /\ m \in broken /\ used.writes < MaxWrites
    /\ used' = [used EXCEPT !.writes = @ + 1]
    /\ broken' = broken \ {m}
    /\ IF held THEN EnsurePumping(d, d, unasked, TRUE, process)
       ELSE UNCHANGED <<db, committed, unasked, rebindQueued, pc, cursor, resolvePending>>
    /\ UNCHANGED <<process, job, work, lost, orders, upgradeFailed, resolveRetry, flagVars>>

Waiting(m) == Contains(orders, m) \/ job = [kind |-> "order", of |-> m]

\* `requestFull` for an outline.
RequestFull(m) ==
    /\ m \in Outline(db) /\ ~Waiting(m) /\ used.orders < MaxOrders
    /\ used' = [used EXCEPT !.orders = @ + 1]
    /\ orders' = Append(orders, m)
    /\ EnsurePumping(db, committed, unasked, rebindQueued, process)
    /\ UNCHANGED <<broken, process, job, work, lost, upgradeFailed, resolveRetry, flagVars>>

\* A provider's process starts again: what its predecessor failed or refused may be asked again.
Respawned ==
    /\ used.troubles < MaxTroubles
    /\ used' = [used EXCEPT !.troubles = @ + 1]
    /\ process' = process + 1
    /\ EnsurePumping(db, committed, unasked, TRUE, process + 1)
    /\ UNCHANGED <<broken, job, work, lost, orders, upgradeFailed, resolveRetry, flagVars>>

\* The retry of `retryResolving`.
ResolveAgain ==
    /\ resolveRetry
    /\ resolveRetry' = FALSE
    /\ EnsurePumping(db, committed, unasked, TRUE, process)
    /\ UNCHANGED <<broken, process, job, work, lost, orders, upgradeFailed, flagVars, used>>

\* The timer of `recoverLater`.
RecoveryFires ==
    /\ recovery
    /\ recovery' = FALSE /\ recovering' = TRUE
    /\ EnsurePumping(db, committed, unasked, rebindQueued, process)
    /\ UNCHANGED <<broken, process, job, work, lost, orders, upgradeFailed, resolveRetry, upgradeWanted,
                   gaveUp, used>>

\* The batch's timer or its bound: what is batched becomes durable.
CommitBatch ==
    /\ pc # "off" /\ committed # db
    /\ committed' = db
    /\ UNCHANGED <<db, broken, process, pc, job, work, lost, orders, unasked, rebindQueued, cursor,
                   asideVars, flagVars, used>>

\* `loseBatch`: the batch is rolled back, and the pass writes nothing more.
LoseBatch ==
    /\ pc # "off" /\ ~lost /\ used.troubles < MaxTroubles
    /\ used' = [used EXCEPT !.troubles = @ + 1]
    /\ pc = "ending" => committed # db
    /\ db' = committed /\ lost' = TRUE
    /\ UNCHANGED <<committed, broken, process, pc, job, work, orders, unasked, rebindQueued, cursor,
                   asideVars, flagVars>>

\* The daemon dies, and the next one scans: it reads again what is broken, drops the failure of what
\* it finds as indexed, and settles the moves its predecessor left.
Restart ==
    LET whole == [committed EXCEPT !.failing = @ \ {m \in Modules \ broken : committed.depth[m] = "full"}]
        dependents == Dependents(whole.move) IN
    /\ used.troubles < MaxTroubles
    /\ used' = [used EXCEPT !.troubles = @ + 1]
    /\ process' = process + 1
    /\ pc' = "turn" /\ cursor' = 0 /\ rebindQueued' = FALSE
    /\ db' = LET d == SettleMoves(whole, whole.move, {n \in dependents : Rebindable(whole, n)},
                                  dependents \cap whole.failing) IN
             [d EXCEPT !.owed = [m \in Modules |-> IF @[m] = NotOwed THEN NotOwed ELSE Payable]]
    /\ committed' = db'
    /\ job' = NoJob /\ work' = NoWork /\ lost' = FALSE
    /\ orders' = <<>> /\ unasked' = <<>>
    /\ upgradeWanted' = TRUE /\ recovering' = FALSE /\ recovery' = FALSE /\ gaveUp' = {}
    /\ upgradeFailed' = broken /\ resolvePending' = {} /\ resolveRetry' = FALSE
    /\ UNCHANGED broken

-----------------------------------------------------------------------------
(***************************************************************************)
(* Turns of the pump                                                       *)
(***************************************************************************)

ownUnchanged == <<broken, process, lost, used>>

\* `recover`: every move of the committed store owes its dependents again, and what failed in the lost
\* batch only is let back into the backlog.  A run that found the backlog empty before its batch was
\* lost left nobody to want it.
Recover ==
    /\ pc = "turn" /\ recovering
    /\ recovering' = FALSE
    /\ upgradeFailed' = upgradeFailed \cap db.failing
    /\ gaveUp' = IF upgradeWanted \/ Outline(db) \subseteq upgradeFailed' THEN gaveUp
                 ELSE gaveUp \cup {"loss"}
    /\ pc' = "owing" /\ work' = [moves |-> db.move, order |-> <<>>]
    /\ UNCHANGED <<db, committed, job, orders, unasked, rebindQueued, cursor, resolvePending,
                   resolveRetry, upgradeWanted, recovery, ownUnchanged>>

\* The next order; what is no outline any more needs no parse.
TakeOrder ==
    /\ pc = "turn" /\ ~recovering /\ orders # <<>>
    /\ orders' = Tail(orders)
    /\ IF Head(orders) \in Outline(db)
       THEN pc' = "hold" /\ job' = [kind |-> "order", of |-> Head(orders)]
       ELSE UNCHANGED <<pc, job>>
    /\ UNCHANGED <<db, committed, work, unasked, rebindQueued, cursor, asideVars, flagVars, ownUnchanged>>

Background == pc = "turn" /\ ~recovering /\ orders = <<>>

\* `rebindStep`: takes what the single-file roads wrote, and its moves, under the gate.
Drain ==
    /\ Background /\ unasked # <<>>
    /\ unasked' = <<>>
    /\ pc' = "owing" /\ work' = [moves |-> PendingMoves(db, ToSet(unasked)), order |-> unasked]
    /\ UNCHANGED <<db, committed, job, orders, rebindQueued, cursor, asideVars, flagVars, ownUnchanged>>

\* `owedRebindAfter`: the payable debts past the cursor.
Debts == {m \in Modules : db.owed[m].state = "payable" /\ m > cursor}
Backlog == Outline(db) \ upgradeFailed
First(s) == CHOOSE m \in s : \A n \in s : m <= n

\* `rebindStep`: the next payable debt, each once in a run.
NextDebt ==
    /\ Background /\ unasked = <<>> /\ Debts # {}
    /\ cursor' = First(Debts)
    /\ pc' = "hold" /\ job' = [kind |-> "rebind", of |-> First(Debts)]
    /\ UNCHANGED <<db, committed, work, orders, unasked, rebindQueued, asideVars, flagVars, ownUnchanged>>

\* The backlog's first outline, or the end of the run.
Upgrade ==
    /\ Background /\ unasked = <<>> /\ Debts = {}
    /\ IF upgradeWanted /\ Backlog # {}
       THEN /\ pc' = "hold" /\ job' = [kind |-> "upgrade", of |-> First(Backlog)]
            /\ UNCHANGED upgradeWanted
       ELSE /\ pc' = "ending" /\ upgradeWanted' = FALSE
            /\ UNCHANGED job
    /\ UNCHANGED <<db, committed, work, orders, unasked, rebindQueued, cursor, asideVars, recovering,
                   recovery, gaveUp, ownUnchanged>>

\* The hold is over: what moved of its module is read.
Reads(d) ==
    /\ db' = d
    /\ pc' = "owing" /\ work' = [moves |-> PendingMoves(d, {job.of}), order |-> <<job.of>>]
    /\ UNCHANGED <<committed, broken, process, job, lost, orders, unasked, cursor, resolvePending,
                   resolveRetry, flagVars>>

\* `upgradeOne`, re-read under the gate: the module was upgraded meanwhile.
AlreadyFull ==
    /\ pc = "hold" /\ ~lost /\ job.kind # "rebind" /\ job.of \notin Outline(db)
    /\ Reads(db)
    /\ UNCHANGED <<upgradeFailed, rebindQueued, used>>

Parses == pc = "hold" /\ ~lost /\ (job.kind = "rebind" \/ job.of \in Outline(db))

\* The parse lands, and may move the surface.
ParseLands(names) ==
    /\ Parses /\ job.of \notin broken
    /\ Reads(Parsed(db, job.of, names))
    /\ upgradeFailed' = upgradeFailed \ {job.of}
    /\ rebindQueued' = (rebindQueued \/ Unblocks(db, job.of))
    /\ used' = [used EXCEPT !.moves = @ + Count(names)]

\* A mutant of ParseRefused: the refused module stays in the backlog.
ParseRefusedInBacklog ==
    /\ Parses /\ job.of \in broken
    /\ Reads(LET d == Refused(db, job.of) IN
             IF job.kind = "rebind" THEN HeldBack(d, job.of, "refusal") ELSE d)
    /\ UNCHANGED <<upgradeFailed, rebindQueued, used>>

\* The provider refuses the bytes: set aside from the backlog, and a debt held back.
ParseRefused ==
    /\ Parses /\ job.of \in broken
    /\ Reads(LET d == Refused(db, job.of) IN
             IF job.kind = "rebind" THEN HeldBack(d, job.of, "refusal") ELSE d)
    /\ upgradeFailed' = upgradeFailed \cup {job.of}
    /\ UNCHANGED <<rebindQueued, used>>

\* No provider answers: the debt held back, or the outline set aside.
ParseDown ==
    /\ Parses /\ used.troubles < MaxTroubles
    /\ used' = [used EXCEPT !.troubles = @ + 1]
    /\ Reads(IF job.kind = "rebind" THEN HeldBack(db, job.of, "outage") ELSE db)
    /\ upgradeFailed' = IF job.kind = "rebind" THEN upgradeFailed ELSE upgradeFailed \cup {job.of}
    /\ UNCHANGED rebindQueued

\* The turn is over; an order among its causes is resolved or rejected.
TurnOver ==
    /\ pc' = "turn" /\ job' = NoJob /\ work' = NoWork

\* `oweDependents` with every importer read: the debt and the acknowledgement are one write.
Settle ==
    LET unread == Unread(work.moves, work.order)
        owed == {n \in unread : Rebindable(db, n)} IN
    /\ pc = "owing" /\ ~lost
    /\ db' = SettleMoves(db, work.moves, owed, unread \ (Outline(db) \cup owed))
    /\ rebindQueued' = (rebindQueued \/ owed # {})
    /\ TurnOver
    /\ UNCHANGED <<committed, orders, unasked, cursor, asideVars, flagVars, ownUnchanged>>

\* A mutant of SettlePartly: the moves are acknowledged with what was found.
SettlePartlyForGood(found) ==
    LET owed == {n \in found : Rebindable(db, n)} IN
    /\ pc = "owing" /\ ~lost /\ Moved(work.moves) # {} /\ used.troubles < MaxTroubles
    /\ found \subseteq Unread(work.moves, work.order)
    /\ used' = [used EXCEPT !.troubles = @ + 1]
    /\ db' = SettleMoves(db, work.moves, owed, {})
    /\ resolvePending' = resolvePending \cup Moved(work.moves)
    /\ resolveRetry' = TRUE
    /\ rebindQueued' = (rebindQueued \/ owed # {})
    /\ TurnOver
    /\ UNCHANGED <<committed, broken, process, lost, orders, unasked, cursor, upgradeFailed, flagVars>>

\* `oweDependents` after a fault of the resolver: what it found owes, the moves stay, a retry is armed.
SettlePartly(found) ==
    LET owed == {n \in found : Rebindable(db, n)} IN
    /\ pc = "owing" /\ ~lost /\ Moved(work.moves) # {} /\ used.troubles < MaxTroubles
    /\ found \subseteq Unread(work.moves, work.order)
    /\ used' = [used EXCEPT !.troubles = @ + 1]
    /\ db' = SettleMoves(db, NoMoves, owed, {})
    /\ resolvePending' = resolvePending \cup Moved(work.moves)
    /\ resolveRetry' = TRUE
    /\ rebindQueued' = (rebindQueued \/ owed # {})
    /\ TurnOver
    /\ UNCHANGED <<committed, broken, process, lost, orders, unasked, cursor, upgradeFailed, flagVars>>

\* A mutant of WriteThrows: the job stays when its run ends.
WriteThrowsKeepingJob ==
    /\ pc \in {"hold", "owing"} /\ lost
    /\ pc' = IF job.kind = "order" THEN "turn" ELSE "ending"
    /\ work' = NoWork
    /\ UNCHANGED <<db, committed, job, orders, unasked, rebindQueued, cursor, asideVars, flagVars,
                   ownUnchanged>>

\* A write of a pass that lost its batch throws: an order is rejected and the run goes on, anything
\* else ends it.
WriteThrows ==
    /\ pc \in {"hold", "owing"} /\ lost
    /\ pc' = IF job.kind = "order" THEN "turn" ELSE "ending"
    /\ job' = NoJob /\ work' = NoWork
    /\ UNCHANGED <<db, committed, orders, unasked, rebindQueued, cursor, asideVars, flagVars,
                   ownUnchanged>>

\* Another fault outside an order ends the run, its orders rejected and its plans dropped: what is
\* owed stays in the store.
Fault ==
    /\ pc \in {"turn", "hold", "owing"} /\ ~lost /\ job.kind # "order" /\ used.troubles < MaxTroubles
    /\ used' = [used EXCEPT !.troubles = @ + 1]
    /\ pc' = "ending" /\ job' = NoJob /\ work' = NoWork
    /\ committed' = db
    /\ orders' = <<>> /\ unasked' = <<>>
    /\ upgradeWanted' = FALSE /\ rebindQueued' = FALSE /\ recovering' = FALSE
    /\ gaveUp' = gaveUp \cup {"fault"}
    /\ UNCHANGED <<db, broken, process, lost, cursor, asideVars, recovery>>

\* A mutant of EndRun: the finally looks at the orders alone.
EndRunForOrders ==
    /\ pc = "ending"
    /\ lost' = FALSE
    /\ recovery' = (recovery \/ lost)
    /\ orders' = IF lost THEN <<>> ELSE orders
    /\ IF orders' # <<>>
       THEN StartRun(db, unasked, process)
       ELSE /\ pc' = "off" /\ committed' = db
            /\ UNCHANGED <<db, unasked, rebindQueued, cursor, resolvePending>>
    /\ UNCHANGED <<broken, process, job, work, upgradeFailed, resolveRetry, upgradeWanted, recovering,
                   gaveUp, used>>

\* A mutant of EndRun: the finally does not look at the orders.
EndRunForBackground ==
    /\ pc = "ending"
    /\ lost' = FALSE
    /\ recovery' = (recovery \/ lost)
    /\ orders' = IF lost THEN <<>> ELSE orders
    /\ IF (unasked # <<>> \/ rebindQueued \/ upgradeWanted \/ recovering) /\ ~recovery'
       THEN StartRun(db, unasked, process)
       ELSE /\ pc' = "off" /\ committed' = db
            /\ UNCHANGED <<db, unasked, rebindQueued, cursor, resolvePending>>
    /\ UNCHANGED <<broken, process, job, work, upgradeFailed, resolveRetry, upgradeWanted, recovering,
                   gaveUp, used>>

\* The pass commits, or throws its loss: then a recovery is armed and the orders are rejected.  The
\* finally starts another run if work arrived, background work only while no recovery is armed.
EndRun ==
    /\ pc = "ending"
    /\ lost' = FALSE
    /\ recovery' = (recovery \/ lost)
    /\ orders' = IF lost THEN <<>> ELSE orders
    /\ IF \/ orders' # <<>>
          \/ (unasked # <<>> \/ rebindQueued \/ upgradeWanted \/ recovering) /\ ~recovery'
       THEN StartRun(db, unasked, process)
       ELSE /\ pc' = "off" /\ committed' = db
            /\ UNCHANGED <<db, unasked, rebindQueued, cursor, resolvePending>>
    /\ UNCHANGED <<broken, process, job, work, upgradeFailed, resolveRetry, upgradeWanted, recovering,
                   gaveUp, used>>

-----------------------------------------------------------------------------
Pump ==
    \/ Recover \/ TakeOrder \/ Drain \/ NextDebt \/ Upgrade
    \/ AlreadyFull \/ (\E names \in Moves : ParseLands(names)) \/ ParseRefused
    \/ Settle \/ WriteThrows \/ EndRun

Next ==
    \/ Pump
    \/ ParseDown
    \/ \E found \in SUBSET Modules : SettlePartly(found)
    \/ Fault
    \/ \E m \in Modules :
         \/ \E names \in Moves : WriteFile(m, names)
         \/ WriteRefused(m)
         \/ WriteDown(m)
         \/ Restore(m)
         \/ RequestFull(m)
    \/ Respawned
    \/ ResolveAgain
    \/ RecoveryFires
    \/ CommitBatch
    \/ LoseBatch
    \/ Restart

\* The pump's next step is taken and its timers fire; the gate serves it (WorkspaceGate).
Fairness == WF_vars(Pump) /\ WF_vars(ResolveAgain) /\ WF_vars(RecoveryFires)

Spec == Init /\ [][Next]_vars /\ Fairness

-----------------------------------------------------------------------------
(***************************************************************************)
(* Properties                                                              *)
(***************************************************************************)

\* Stale, and neither a debt nor a pending move of an import remembers it.
Forgotten(d, n) ==
    /\ n \in d.stale /\ d.owed[n] = NotOwed
    /\ \A m \in Modules : n \in ImportersOf(m) => d.move[m] = {}

\* Nothing stale is forgotten, whatever is lost, dies or fails: in the store and in what a crash would
\* leave of it, a module parsed before a move of its import owes a parse, or the move is still pending
\* ("Read, not taken", pendingMoves; settleMoves).  Except through the gaps.
NothingForgotten ==
    \A d \in {db, committed}, n \in Modules : Forgotten(d, n) => d.gap[n] # "none"

\* Every order is resolved or rejected: by its parse, by a lost batch or by a fault; work that arrives
\* as a run ends starts another (ensurePumping's finally).
EveryOrderSettles ==
    \A m \in Modules : Waiting(m) ~> ~Waiting(m)

\* Whatever is stale is parsed again, unless its own parse is what fails, across lost batches and
\* restarts, as long as no fault stops the pump: its flags, its timers and its cursor lose nothing.
StaleIsParsed ==
    \A n \in Modules :
        n \in db.stale ~> \/ n \notin db.stale
                          \/ db.owed[n].state \in {"outage", "refusal"} \/ db.gap[n] # "none"
                          \/ "fault" \in gaveUp

\* The pump comes to rest with its backlog empty but for what was set aside: no failure makes it spin,
\* and nothing makes it stop before.
ComesToRest ==
    <>[](pc = "off" /\ (Backlog = {} \/ gaveUp # {}))

\* What a refusal leaves unread is read once the file parses again ("an outage or a refusal waits,
\* never dropped", rebindDependents).
RefusalsWait ==
    \A n \in Modules : Forgotten(db, n) /\ db.gap[n] = "refused" => n \in broken
=============================================================================
