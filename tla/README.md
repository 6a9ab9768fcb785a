# Formal models of the nyaa-lexicon daemon

TLA+ modules for the parts of nyaa-lexicon whose correctness depends on order: who may run, who
may write, what a crash leaves behind. TLC checks them on small instances; TLAPS proves the most
important invariants for every value of the constants. All paths are relative to the repository
root (`src/`); unless another package is named, a file is in `src/core/src/`.

    tlc -workers 2 -config MCWorkspaceGate.cfg MCWorkspaceGate.tla
    tlapm WorkspaceGate_proofs.tla

`PROJECT.json` lists every run, the mutant that shows each property can fail, the source lines of
each definition, and the findings.

## 1. The system

One daemon serves one workspace. It claims a lock file, opens a SQLite store, recovers what a dead
daemon left half done, starts one process per language provider, scans the workspace, and then
answers requests of editors (LSP adapter) and agents (MCP adapter) that reach it through the client
package, while a watcher feeds it the files that change.

| Component | State | Operations | Speaks to |
|---|---|---|---|
| Workspace gate (`workspaceGate.ts`, `deadline.ts`, `dispatch.ts`) | readers, writing, waiting | exclusive, shared, sharedWithin, within | every request, watcher batch and parse runs under it |
| Refactor journal (`transactions.ts`, `refactorStep.ts`, `stepRunners.ts`, `sourceWriter.ts`, `sourceWorkspace.ts`) | open transaction, baselines, known states, steps and images, recovery intent, all in SQLite; the files themselves | start, track, noteWrite, writeFile, journaledStep, undo, revert, commit, recover | under the exclusive gate; owes reparses to the pump |
| Store lock (`daemonLock.ts`, `daemon.ts`, `projectStores.ts`) | lock file, staging files, what each claim remembers | claimLock, releaseLock, lostLock, deleteProjectStore, finishAbandonedDelete | other processes, through the file system only |
| Daemon process (`daemonCli.ts`) | startup step, in-flight count | main, shutdown, releaseEverything | orders all the others |
| Client step ids (`transactions.ts` 703-787) | planning, writing, answered, cancelled, interrupted | claim, proceed, cancel, answer, abandon | makes a client's retry safe |
| Provider supervisor (`supervisor.ts`, `requestQueue.ts`) | running and starting processes, deaths, phase, queue | start, respawn, stopAll, request, close, reopen | provider processes over stdio |
| Index pump (`indexPump.ts`, `indexer.ts`) | orders, unasked, upgradeWanted, recovering, pumping | requestFull, upgradeRemaining, ensurePumping, pump, recover | takes the gate per file |
| Rebind scheduler (`rebindScheduler.ts`) | pending moves, owed rebinds, retry timers | settle, queueRebinds, retryResolving, holdRebind | store and pump |
| Live index and watcher (`liveIndex.ts`, `watcher.ts`) | held batches, tail, lost paths | push, apply, retryLost, sweep, stop | gate, indexer |
| Store (`store.ts`, `storeRows.ts`, migrations), purge and seeding (`storePurge.ts`, `indexSeed.ts`) | tables, pending purge, staged files | transactions, batches, scrub, install | SQLite |
| Knowledge (`subjects.ts`, `notes.ts`) | subjects, notes, bindings | rebind, rebindBack, sweep | journal, indexer |
| Relations, secret policy, planners, graph algorithms, cache, slots, linger, routing, frames | small, local | | |
| Client (`src/client/src/`), protocol, providers, adapters | connection, lock decision | ensureDaemon, decideFromLock, retire, reconnect | lock file, socket |

What is hard in it:

- **Interleaving in one process.** JavaScript interleaves at every `await`; a promise that is
  resolved resumes its awaiter later. The gate's admission, the pump's restart, the respawn's
  handshake and the result cache all act on state read before an await.
- **Interleaving between processes.** Daemons, deletes and editors share files and nothing else.
- **Crashes.** Steps change several files and several rows; recovery has the journal and the disk.
- **Failure half way.** A write is refused or throws, a restore meets a directory or a disk error.
- **Time.** Budgets, linger, warming grace, backoffs, each racing what it bounds.

`PROJECT.json` lists these under `hazards`, at their lines; those of the parts not modelled yet name
the module that is planned for them.

What makes each component correct: the gate excludes, serves in order and answers bounded reads in
time; a step changes all its files or none, and undo and revert restore exactly, whatever dies in
between; one process at a time acts on a store; a provider's death fails its requests once and never
leaves a process behind; whatever owes a parse is parsed or still owed; what a batch's transaction
lost is read again, and no batch is applied out of order; a retried client step runs once.

## 2. Modules

| Module | What it is |
|---|---|
| `WorkspaceGate` | the gate, with the calls that take it |
| `RWLock` | what it promises: a first-come first-served readers/writer lock, without counters |
| `MCWorkspaceGate` | instance for TLC |
| `WorkspaceGate_proofs` | theorems for any finite set of callers |
| `RefactorJournal` | the journal, the step executor, startup recovery, editors and crashes |
| `AtomicSteps` | what it promises when nobody else writes: files change only as asked, and steps at once or not at all |
| `MCRefactorJournal` | instance for TLC, shared by the four journal runs |
| `RefactorShape_proofs` | theorems for any files, contents and troubles: what the journal and each phase look like |
| `RefactorJournal_proofs` | on top of it, what the journal says of the files, and its refinement of `AtomicSteps` |
| `Extrema` | least and greatest members of sets of numbers, for the proofs |
| `DaemonLock` | the lock file and the processes around it |
| `MCDaemonLock` | instance for TLC, shared by the three lock runs |
| `DaemonLock_proofs` | theorems for any number of processes |
| `RequestQueue` | the queue in front of one provider process, as operators |
| `Supervisor` | one provider id: its processes, handshakes, deaths and respawns, its queue, policy and verdicts |
| `MCSupervisor` | instance for TLC |
| `Supervisor_proofs` | theorems for any number of processes, callers and policies |
| `IndexPump` | the pump, the moves and the parses owed for them, the shared batch |
| `MCIndexPump` | instance for TLC, shared by the two index runs |
| `IndexPump_proofs` | theorems for any modules, imports, moves and troubles |
| `LiveIndex` | watcher, held-back batches, serialized work and the warm scan, over the same batch |
| `MCLiveIndex` | instance for TLC |
| `LiveIndex_proofs` | theorems for any files, edits and failures |

Operators named as variations of an action (`ExpireReleasing`, `RevertOnlyDrifted`, ...) are the
mutants: the action with a plausible bug. They are not part of any specification; each stands just
before the definition it replaces.

### WorkspaceGate

`readers`, `writing` and `waiting` are the class's fields; `phase` says where each call is between
its arrival and its return; `spent` that its budget is used up. Every synchronous span of the code is
one action: `Enter` is `push; pump` with the immediate withdrawal of a read that has nothing left,
`Expire` the timer's `withdraw` or `ahead` giving up, `Resume` the microtask after `admit()`,
`Finish` the `finally`. `Pump` is the loop: it admits the longest prefix of the queue at which the
loop's own conditions stop (`PumpStops`), not a set chosen to be right. A staged read's pre-work is
a call of its own (`Ahead`) that takes the gate exclusively, and a second staged read joins the one
in flight. That call is one hold of the gate in the model; the code takes the gate once per file
(`dispatch.ts:256`, `:271`), so it holds it for shorter and queues more often. It is one more writer
either way, and a read that waits for it waits for its end.

The pump that follows a withdrawal has nothing to do while only reads are bounded: whatever keeps a
read out keeps out whoever stood behind it. It would matter for bounded writers.

### RefactorJournal

Every request runs under the exclusive gate, so `op` holds the one operation in progress, volatile;
`tx`, `baseline`, `known`, `steps`, `intent` are the journal's tables for the open transaction, and
`disk` is the workspace. An action is one durable effect: one `journalWrite` or one file replaced
(`writeSourceFile` is a rename), with the checks made on the way to it. Between two actions an editor
may `Save`, and the daemon may `Crash`; `Startup` runs `recover` before anything else. `strange` and
`due` are history variables for the properties: files the journal need not describe, and files a
transaction wrote or was asked to hold. A content stands for its bytes and their hash. A path in the
way (a directory, a link, a guarded file) and a disk error are the two ways a restore fails, as in
the code, which treats them differently during recovery (`UnwindBlocked`, `UnwindFails`).

A look at a file and the write that follows it within one function are one step, except where the
code itself reads first and acts after an await, a loop or a journal write: step planning, the images
of `beginStep`, undo's check, revert's recorded states. `JournalImage` merges two writes: a module's
baseline (`transactions.ts:837`) and its image in the step (`:850`). A death between them leaves a
module that is tracked with the content it has on disk and is not written yet; the step's other
modules are in the same unfinished state with or without it.

### DaemonLock

Each `node:fs` call is a step: staging, link, read, rename, the two halves of `releaseLock`, the
removal. `stolen` is the local `stolenRole`, `attempt` the loop counter; `custom` says which of the
two removals applies. A process is one run of a program and makes one claim. `owed` (a delete died
unfinished), `taken` (a lock was removed by a process that had not read it), `last` and `retired`
(who let requests in) are history variables.

A request is two steps. `LetIn` is the read of the lock and the start of the handler, in one turn
(`daemon.ts:129-138`); `Answer` is the answer, after whatever the handler awaited, and looks at
nothing. `asked` holds the daemons with requests in between (`inFlight` of `daemonCli.ts`). A daemon
whose lock is lost closes its server, so it is `cut` and answers nobody; one that stops
(`releasing`) still answers what it let in, until `stop()` removes the lock and cuts the connections
in the same turn (`ReleaseReads`).

### Supervisor and RequestQueue

One provider id. `os`, `handshake`, `answered`, `previous` describe processes in the order they were
spawned; `starting` is the supervisor's set of that name, `published`, `deaths`, `queue`, `believed`
(`policyRevision`) the entry of its map, `due` the respawn timers, which outlive their entry. The
core never sees a death, only the exit event: `Dies` and `Exit` are two steps, `BrokenPipe` the write
that fails between them. `Publish` is the end both of `start` and of `respawn`, `watchForExit`
included; a process may have died while its handshake was answered, so the entry may come with a
closed queue (`Publish`'s alternatives). `StopAll` also takes away the starts under way, whose caller
then finds itself `TornDown`. `stage` says whether the running request installs the policy or is sent,
`judge` what the process was last told. `RequestQueue` gives the queue after each call and whom a
close rejects; the pump of the queue is synchronous, so it has no step of its own.

`announced` (deaths the exit listeners heard of) and `doubted` are history variables. `doubted`
excepts one case from `AsksUnderPolicy`, described in section 5.

### IndexPump

`db` is the store as its connection reads it, the open batch included; `committed` what a crash or
`loseBatch` leaves. A row has the depth a module was read at, the move pending for it (the names its
surface gained or lost), the parse it owes and why that is held back, and whether its last parse
failed. `orders`, `unasked`, `upgradeWanted`, `rebindQueued`, `recovering`, `upgradeFailed`,
`rebindCursor` (`cursor`), `resolvePending` are the fields of those names; `pc`, `job`, `work`, `lost`
are the locals of the run in progress. A parse with its store writes is one step, under the gate;
between a parse and the settlement of the moves it left the gate is free, so any other road (a
single-file write, a refusal, a provider outage, a restore, an order, a respawn, a lost batch) may
come in between: `hold` and `owing` are two stations. `EndRun` is the commit of the pass and the
`finally` of `ensurePumping`.

`stale` and `gap` are history: which modules hold references bound before a move of what they import,
and whether that fell through one of the gaps listed in section 5. `gaveUp` says how this daemon came
to want no more.

### LiveIndex

A file is one number, its content; `index` is the content the index was read from. `pending`, `armed`
and `flights` are the watcher's burst, its timer, and the flushes that wait for git; `held` what is
held back during the warm scan; `tail` and `job` the promise chain of batches and sweeps and how far
the first one is; `lost` and `retry` the paths of lost batches; `scan` the warm scan. A batch holds the
gate for several steps (`BatchEnters`, `BatchWrites`, then how it ends), in which files are
edited, flushes land and its transaction is lost; a scan takes the gate once per file. An event
carries what its read found, which only decides whether the file is read again: the content written
is that of the moment of the write.

A batch ends in one of three ways: it is through (`BatchEnds`), its transaction was lost and its paths are
read again later (`BatchFails`), or anything else threw, and it is reported and dropped with the
files it had not come to (`BatchThrows`). One file alone may be passed over with its old row
(`BatchLeaves`, `ScanLeaves`): its provider is down, its parse is refused, or reading it throws. `missed` is a
history variable: the files so dropped, until they are edited or read again.

The proof is about held-back batches: see section 4.

## 3. Runs

| Run | Bounds | Shows |
|---|---|---|
| `gate` | 5 calls: 2 writers, 1 bounded read, 2 staged reads (one bounded) | mutual exclusion, counting, no lost wakeup, budgets, refinement of `RWLock`, no starvation, bounded answers |
| `journal` | 2 files, 2 contents, 2 requests, 1 save, 1 crash, 1 fault | what is written is tracked and nothing else; known states; undo and revert restore; own transactions are settled |
| `journal_atomic` | 2 files, 2 contents, 2 requests, 2 crashes, no other writer | refinement of `AtomicSteps`; every request and recovery ends |
| `journal_pending_undo` | as `journal`, 1 fault | finding 1 |
| `journal_refusal` | 2 saves, 1 request | finding 2 |
| `lock` | 2 daemons, 1 delete, 3 rounds, 2 kills, 1 refused removal | claims are named while locks are removed as read; requests are let in in order; two daemons do not go on together |
| `lock_race` | no kills | finding 3 |
| `lock_resume` | 1 kill | finding 4 |
| `supervisor` | 1 caller, 4 processes, 2 respawns, 2 revisions, 3 starts, stops and policy changes | no orphan, final stops, bounded respawns, requests under the policy, verdicts to their process, every request settles, the provider comes back |
| `index_pump` | 2 modules, 1 import, 2 writes, 2 moves, 1 order, 1 trouble | nothing stale is forgotten; orders settle; debts are paid; the pump rests |
| `index_refused` | 3 writes, 1 move, no trouble | finding 5 |
| `live_index` | 2 files, 2 contents, 2 edits, 1 trouble | batches wait for the scan; the index catches up but for what was reported and dropped; stop quiesces |

Why the bounds are enough. *Gate*: conflicts are pairwise, a queue of five holds a writer in front
of, between and behind readers, and calls repeat without end, so queues and streams of readers meet
in every order; the proofs need no bound. *Journal*: a step over two files has a first and a second
write, so it can be cut before, between and after; two requests make a step above a step, an undo of
either, a gated write under a step; three kinds of trouble meet two at a time (`MaxTroubles`).
*Lock*: a thief, the process it robs and a third that links in between are all there; three rounds
(the code has four) let the loop run out with three processes. *Supervisor*: three starts and stops
are two starts crossed by a stop, or a start crossed by two; four processes are a start with its two
respawns and one more. *Index pump*: the debts of one importer and one imported module, with each kind of
trouble in every window. The importer comes after the imported module in the order of the store; the
same properties held, outside the runs, with the importer first (`Imports = {<<1, 2>>}`), and with 3 writes
and 2 troubles (16.5 million states, beyond the time a run may take). *Live index*: an edit during a batch
about another file, or two of the same file, and one trouble in any window: a loss, or something dropped; the files may differ from the index at the start, at the price of an edit each, and of
initial states that differ only in the names of files or contents `MCInit` keeps one.
Files and contents, and daemons, are
interchangeable, so the safety runs of the journal's and the lock's counterexamples use symmetry; runs
with liveness do not.

Deadlock is checked except where the system may stop: in the lock runs every process may end, in the
other three components all may rest once the bounded inputs are used up, or the daemon exits.

Fairness:

- *Gate*: weak fairness of entering, resuming, answering and expiring, each a queued microtask or a
  due timer of the event loop. Nothing makes work settle: `NobodyStarves` assumes it explicitly
  (`WorkSettles`), `BoundedAnswered` does not.
- *Journal*: weak fairness of the daemon's own next step and of its restart. Clients, editors,
  crashes and faults are never obliged to act. A reindex, the one wait inside, has time limits.
- *Lock*: weak fairness of each started process. `FindLost` being fair says a daemon is asked again
  some time: clients reconnect, and the linger retires a daemon nobody asks. Starting, shutting
  down, dying, letting a request in and answering it are not fair.
- *Supervisor*: every handshake and request has a timer and respawns have theirs; a signalled process
  dies of the signal; exits are delivered; a verdict is written in the same turn. Providers need not
  answer, and need not die by themselves.
- *Index pump*: the pump's next step (the gate serves it, as `BoundedAnswered` and `NobodyStarves` say of
  the gate) and its two timers. Writes, orders, respawns, troubles are never obliged to come.
- *Live index*: the debounce and retry timers, git's answer (it has a time limit), the gate for scan
  and batches, the timer that commits the batch. Edits stop by the bound, as `CatchesUp` needs: under
  edits without end there is nothing to catch up with.

## 4. Proofs

`WorkspaceGate_proofs` assumes only that the calls are finite and classified as the constants'
assumption says. The inductive invariant (`IInv`) says that the queue, the counters and the phases are
consistent (the queue has no repetition and is exactly the calls whose phase is `queued`; the counters
are the holders; a writer among them is alone) and adds `FrontIsKeptOut`. `PumpAdmits` says what a
pump does, given a queue and counters that fit, and `PumpConsistent`, `PumpKeepsOut` and `PumpServes`
that the outcome fits, keeps out whoever is left in front, and is a `Serve` of the lock; each action
is then a change that fits, followed by a pump. The strengthening is needed because the counters alone
do not say who holds: `WritesRunAlone` is about phases. `NeverWaitsSpent` needs one fact more
(`SpentLeave`), that no queued call's budget is spent, and that a pump queues nobody.

The journal is proved in two modules, for any finite set of files, any contents and any numbers of
requests, saves, deaths and faults. The assumption added to the bounds is that `None`, which stands
for no row, is none of the rows. `RefactorShape_proofs` shows `Shape`, which speaks of the journal and
the operation only: the steps are numbered upwards (`Ascending`), so "the newest step" and "the step
of this number" are what they seem (`NextStepNo` is a fresh, greatest number: `MaxIsGreatest`); only the
newest step can be under way (`OpShape`); and what a phase has left to do is part of what the journal
lists (`PhaseShape`), so every image a phase reads exists. `TypeOK` and `IntentHasItsStep` are parts of
it: no action removes a step but the one that clears the intent naming it.

`RefactorJournal_proofs` adds four invariants, each inductive under `Shape`, and a fifth for the refinement.

- `TrackingInv`: what is owed to a revert (`due`) and what any step has an image of is tracked. To
  release a module is safe because `fresh`, what the step claimed for itself, is covered by no older step
  and written by nobody yet. `WrittenIsTracked` follows. `CleanInv` is the other direction: what is
  tracked is due, or claimed by the operation under way.
- `DiskInv`: what each phase knows of the files no editor touched: what is written so far holds its
  output, what is not holds the image, what is restored so far holds what it was restored to. A file in
  the middle of a restore is the one that had the content recorded when it was looked at. `UndoRestores`
  and `RevertRestores` read off the last step of a restore without a conflict.
- `DriftInv`: every difference between a tracked file and its known state is accounted for
  (`AllExplained`) by an unfinished step that holds one of its two images of the file, or by the step
  being undone; and each phase removes its step from the account of the files it is done with
  (`PhaseDrift`), so that finalizing, undoing or unwinding the step leaves nothing unexplained. At rest
  there is no such step: `KnownIsOnDisk`. It says nothing during a revert, which closes the transaction.
- `KeptInv`: when recovery keeps a step, an unfinished step is numbered above all that it has still to
  come to, so it is in the journal when recovery ends: `OwnIsSettled`.

The refinement. `ImplementsAtomicSteps` gives `AtomicSteps` the files as a client is shown them
(`Shown`): while the newest step is unfinished or being undone, with the contents it found; once a revert
is recorded, with the opening contents. What is asked for is the plan's text until the step is journaled and
the step's own images from then on. So a step happens where it is finalized (`Finalize` is `Step`), an undo
or a revert where its intent is recorded, and every other durable effect is hidden: writes, restores,
a fix that changes a file (its output is part of the step), recovery, a death (which at most gives up
what was asked). `StepsAreAtomic` proves it for any files, contents, requests and deaths, under
`[]Undisturbed`: no save by anyone else and no fault so far. The hypothesis is not for convenience. A
save changes a file nobody asked for, and a restore that fails leaves an undo half done for anyone to
see, with findings 1 and 2 as what may follow. Under it the fifth invariant, `QuietInv`, holds: only the newest step
is unfinished or undone (`QuietJournal`), nothing stands in the way of an undo, a revert or a recovery
(`QuietOp`), and each file holds exactly what the phase says it has reached (`QuietStep`,
`QuietRestore`); in particular, of a step cut by a death every file holds one of its two images, and that is what
lets recovery put them all back. `MappedAs` reads off what is shown and asked; there is then a lemma for
each action. `StepsAreAtomicAlone` is the case of the run: with no saves and no faults to spend, `Spec` implements
`AtomicSteps` outright.

`DaemonLock_proofs` is for any disjoint sets of processes and any bounds. Types need that a
contending process has a round left (`RoundsLeft`), so the counter stays in range. `ClaimsAreNamed` is
not inductive alone: a thief's rename keeps it only because what the thief read is dead and the dead
stay dead (`StaleIsDead`), so a lock removed as read is no live claim's. `RequestsInOrder` has two
parts. The first rests on a process linking once: whoever let a request in is past its link
(`ServersPast`), so once another has let one in the lock never names it again (`RetiredPast`). The
second says who may answer, without a look at the lock when it does: a daemon with a request under way
has published its handler and not yet released its lock, or has been cut (`AskedServe`), so it is among
those acting on a claim, and `ClaimsAreNamed` names it. `ThiefResumes` rests on two facts: until its
claim is open, a claim that last read a dead delete carries that delete's role to its daemon
(`ThiefKnows`), also past a move of the directory, which makes the claim forget both; and a delete that
dies unfinished held the lock, so by `ClaimsAreNamed` no daemon was at work.

`Supervisor_proofs` has three arguments. The processes: each is starting, in the map or signalled, never
two of these (`Custody`), so taking one out of the first two places must signal it; what waits for a
respawn or is about to be replaced is dead for good (`Lives`), so a respawn never pushes a live process
out of the map; and an entry has one respawn under way at most, as a timer or as a child
(`OneRespawn`), which is why a death and a failed handshake cannot both count past the cap. The queue:
something is awaited exactly for a running request of a process in the map (`StageFits`), a closed queue
is empty, and unless an install is under way or timed out the revision taken to be installed is the last
one told (`PolicyKnown`), which carries `AsksUnderPolicy` from the request that installs the policy to
those after it. The lineages: `Root` is recursive over `previous`, and TLAPS only knows a function
defined by recursion as one that satisfies its equation if any does. A process replaces an older one
(`Older`), so one does (`RootUnfolds`, the least number of processes for which none would), and spawning
a process changes no root but its own (`RootStable`). Then an entry's lineage has grown by one process
per death counted, the last one aside (`LineLimit`): a respawn starts from a death under the cap, a
failed handshake costs another, and a child that takes its entry's place brings its deaths. Hence
`LineageBounded`. It is assumed that what stands for no process and for no work is neither.

`LiveIndex_proofs` shows `BatchesWaitForScan` for any files, contents and numbers of edits and
failures. `applyEvents` refuses a batch that finds a scan under way and drops it, so what must hold is
that none ever comes in the first place. `IInv` says why: until the scan is through or failed for good,
over however many lost transactions, batches are held back (`HeldUnderScan`); while they are, the tail has only sweeps
and no lost batch is due (`NothingQueued`); the work in hand is the tail's first (`JobInHand`). The
retry timer is what makes the strengthening necessary: it queues a batch without asking whether batches
are held back, which is safe because only a batch that was applied can have been lost. `MoreInv` is the
rest of `TypeOK`: what waits has a timer, a sweep is queued as its timer is spent and so at most once
(`TailSteps` says how the tail changes), a batch in hand writes files of its own. It is assumed that the
workspace has finitely many files.

`IndexPump_proofs` shows `NothingForgotten` for any modules, imports, writes, moves and troubles.
`Forgotten` is too weak to be kept by itself: that some move of an import is pending says nothing of
the settlement that will answer it. So `Remembered` follows one such move, for every stale module nobody
owes a parse (`Exposed`): the module has no place after it in `unasked`, and if a settlement is under
way that would acknowledge the move as it stands, none in its order either (`Remembers`). It must hold
of `db` and, without the settlement, of `committed`, since a lost batch puts the one in the place of the
other while `unasked` stays. Each road keeps it by its own rule: a parse appends its module or finds it
there (gap `order`), and may merge into a move just read (gap `merged`); a road that reads nothing takes
a place (gaps `unread`, `refused`); `Drain` turns `unasked` into the order of a settlement
(`OrderTakenOver`); a settlement owes whoever has no place after all it answers (`SettledRemembered`,
which needs that every move it answers has a place, `Ordered`); a restart settles with no order at all.
That the four gaps suffice is thus no matter of the bounds. `Plans` is the rest of `TypeOK`. It is
assumed that the workspace has finitely many modules.

Only model-checked: all liveness (`NobodyStarves`, `BoundedAnswered`, `AlwaysAnswered`, `Heals`, and the
liveness of the supervisor, the pump and the live index), which is beyond the prover like `ENABLED`.
Every invariant and action property of the passing runs is proved. Induction is available only as the least
number that fails (`LeastNumber`), which is how `Extrema` and the lineages use it.

## 5. Findings

1. **A step above a pending undo** (`journal_pending_undo`). After an undo whose restore failed, the
   intent stays. A step may still join the transaction; the next `undo()` resumes the old intent,
   restores the older step's images over the newer step's text without comparing, and removes the
   older step. `undo()`'s doc says it restores the newest step (`transactions.ts:1011`).
2. **A refusal that accepts any drift** (`journal_refusal`). An own step that fails after writing
   undoes itself, awaits a reindex and reverts its transaction with the drift it finds, so an editor's
   save made during the reindex is overwritten (`refactorStep.ts:208`, against `:267`).
3. **Two claims at once** (`lock_race`). Between reading a stale lock and renaming it away another
   process may link; the rename takes the live lock (`daemonLock.ts:88`, against `:3`). No death is
   needed: a lock released between the failed link and the read counts as stale. What still
   holds is in run `lock`: the loser finds out at its next request, and once another daemon has
   let a request in, it lets in none. A request it had let in before may still be answered late, after
   answers of its successor: the lock is not read again after the wait, though `daemon.ts:128` says
   "Never answer from a lost store". That takes this same race (`RequestsInOrder` holds the rest),
   so it is not a finding of its own.
4. **A delete that is not resumed** (`lock_resume`). Only the process that renamed a dead delete's
   lock away knows it was a delete's; if another links first, it opens what is left
   (`daemonLock.ts:84`, against `daemonCli.ts:381`). The same is lost when a daemon that inherited
   the delete dies before finishing it, when the thief's second round reads no lock, and when the
   directory is moved meanwhile.
5. **A refusal that drops a debt** (`index_refused`). `oweDependents` owes a parse only to importers
   that can be parsed again, then acknowledges the move. An importer whose last parse was refused is
   skipped; when the file is put back as it was indexed, nothing parses it, and its references stay
   bound against what is gone (`rebindScheduler.ts:397`, which says an outage or a refusal waits,
   "never dropped").

`IndexPump`'s `gap` names the ways a stale module is known to be left without a debt; `NothingForgotten`
and `StaleIsParsed` hold but for them. `refused` is finding 5. `order`: a module written twice keeps its
first place in `unasked`, and modules the resolver left open come last whenever they were written, so a
module may look as if it was read after a move it was read before (`indexer.ts:855`,
`indexPump.ts:204-208`, `rebindScheduler.ts:247-261`). `merged`: a move merged into an identical row
between the read of it and the settlement is acknowledged with it (`store.ts:1690-1712`). `unread`: a
write whose provider is down takes a place in that order though it read nothing (`indexer.ts:855`).
Besides, `upgradeWanted` is cleared by a run that sees no backlog in the open batch; if that batch is
then lost, `recover` does not set it again and the outlines wait for the next request
(`gaveUp = "loss"`, `indexPump.ts:181-184`, `:94-97`).

Noted while modelling, not claimed as defects: an installation of the policy that runs out of time leaves
`policyRevision` as it was while the provider may apply the new one, so a later change back is not sent
(`supervisor.ts:620-640`; `AsksUnderPolicy` excepts it by `doubted`); a phase notification read after the
exit overwrites the phase; a provider that alternates between initializing and ready extends a held
request each time; `RequestQueue.reopen` has no caller; a "deleted" event read before another road
indexed the file again makes the batch forget it until the next event; a sweep that waits for the gate as
`stop()` lands still runs once; a step that only reindexes an edited file clears its
`edited` marker; a refused own step ignores the answer of its revert; an output without a hash is not
checked before an undo; a resumed undo does not check again, by design; an own transaction retained by
recovery and then undone by a client stays open until the next recovery; `releaseLock` reads and then
removes, so it may remove a successor's lock that replaced a stolen one; the lock is released before
the store is closed (`daemonCli.ts:274-276`, deliberate).

## 6. Not modelled

In the supervisor: the routing of paths to providers, phases and progress as clients see them, what a
respawn invalidates. In the index pump: progress reports, orders of several modules, the batch road of
`rebindDependents` with its cap, exports and unbound names, the depth of a surface, modules that vanish;
who imports whom is fixed. In the live index: the policy's evidence, subscriptions, links, guarded and
ignored files, imports that pull files in, the lengths of debounces.

`CatchesUp` does not promise that the index settles on a file whose last read was reported and dropped
(`missed`): the code promises no more (`liveIndex.ts:69`). These are the files a batch had not come to
when something other than a lost transaction threw (`liveIndex.ts:109-112`, `:242-244`; the check at
`indexer.ts:2377` is one such throw), a file whose provider is down or whose parse is refused (`indexer.ts:1056-1063`)
and a file whose read throws (`indexer.ts:2309`, `:2338`, `workspaceScan.ts:137`). They keep their rows until
they are edited again, or read by a later batch or scan.

In the journal: rebinds and issues, the `edited` marker, the settlement ledger and its images,
client step ids, revision checks (`asShown`), policy changes (`settle`, `readmit`). In the lock: a
lock file that does not parse (it reads as a dead daemon's), the process mark behind `isAlive`, the
registry of projects, leftover moved-aside directories. Providers' parsers, planners' text work,
renderers, adapters, generated code and scripts are out of scope: data without interleaving. They are
most of the repository's lines (tokenizers, parsers and grammars of the language providers, and the
corpora they are tested with), which is why the modelled share of all lines is small while the parts
with state and concurrency are largely covered.

## 7. Plan

1. `WorkspaceGate`, `RWLock`: done, proved.
2. `RefactorJournal`, `AtomicSteps`: done, proved, the refinement included.
3. `DaemonLock`: done, proved.
4. `RequestQueue`, `Supervisor`: done, proved.
5. `IndexPump` with the rebind debts: done, proved.
6. `LiveIndex`: done, proved.
7. `ClientSteps` and `EnsureDaemon` on `DaemonLock`: a retried step runs once; clients of different
   versions settle on one daemon.
8. `Slots`, `Linger`, `ResultCache`: capacity, no stop while used, no stale answer.
9. Algorithms against reference definitions: strongly connected components, move order, edits.
