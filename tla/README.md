# Verification of the Ordinary agent runtime

TLA+ models of AgentArbor, checked with TLC and proved with TLAPS. AgentArbor is
a desktop agent workbench in TypeScript: a user talks to a model in a
conversation, the model asks for tools (files, shell, MCP), some of them need the
user's confirmation, and all of it must survive cancels, crashes and failing
writes without losing track of what was done in the outside world.

Paths are relative to `src/src/` of the repository unless they start with `src/`.

## 1. The system

`createPanelRuntime()` (`app/panel-server/runtime.ts`) composes the process. A
message travels

    request-handler -> ordinary-routes -> OrdinaryAgentFeature -> execution port
        -> Agent Session loop -> harness -> ToolCenter

and everything is one Node.js process: there are no threads, and the hard
behaviour comes from asynchronous tasks that interleave at every `await`.

| component | state it keeps | operations | what is hard | what makes it correct |
|---|---|---|---|---|
| Session write fence (`adapters/intelligence/session-write-fence.ts`) | current generation, status, recovery target and memoised promises of each, a FIFO | acquire, runWhenIdle, write, revokeTo, release | revoke and release run outside of the FIFO; restores fail and are retried | one writer; a restored leaf stands; no successor before the restore |
| Agent Session repository (`adapters/intelligence/file-system-agent-session-repository.ts`) | transcripts on disk, one fence for each | open, write, read, delete | deletion beside writers | a deleted transcript has no writer |
| Run state machine (`app/ordinary-agent/state.ts`) | snapshot: status, Session phase, accepted tool round, facts, confirmations | transitions, checkpoints, merge and reconciliation of facts | facts arrive late, twice or not at all | final facts and terminal statuses stand; what is recorded is true |
| Ordinary feature (`app/ordinary-agent/ordinary-agent-feature.ts`) | live handles of each run (execution, controller, continuation, reservation, buffered results, finalization, cleanup, retry timers), conversation controls, activation pumps | submit, cancel, decide, recover, delete, release | six tasks share the handles of a run | the conversation goes on; stable runs are quiet; nothing is executed without its approval |
| Execution port (`app/ordinary-agent/agent-loop-execution.ts`) | resource lease, Session control of a run | execute, finalizeSession | finalization before, during and after acquisition | finalized once, restore before release |
| Agent Session loop (`adapters/intelligence/agent-session-loop.ts`) | prepared calls, results, pending approvals, checkpoints | execute, decide, cancel, release | parallel tools, pauses while others run | the Session and the snapshot agree |
| Conversation of the feature (same file, `conversation-projection.ts`, `conversation-control-repository.ts`) | conversation documents, the documents of all runs, activation pumps with their timers, birth reconciliation, deletion cleanups | submit, repeat, cancel, roll back, delete, recover | the pump decides on documents it took before an `await`; saves that throw although they were stored | turns are served in order, once, and none after the deletion |
| Attachments, run repository (`app/ordinary-agent/*repository.ts`) | attachment manifests, snapshots with a revision | save with compare-and-swap, stage and commit, collect | several documents for one fact | no lost revision; no orphan |
| Space workflows (`app/panel-server/space-conversation-*.ts`, `app/spaces/`) | journals with a phase | birth and deletion of conversations, deletion of Spaces | a crash between phases, admissions meanwhile | each phase once; no conversation without an owner |
| Process registry (`app/runtime-guard/process-registry.ts`) | records of spawned processes | register, exit, kill, cleanup | exit and kill results race | a record ends in the state that is true |
| Runtime directory lease (`app/panel-server/runtime-directory-lease.ts`) | owner file | acquire, take over, release | two processes start at once | one owner |
| Remote collaboration, vault sync, update (`app/remote-collaboration/`, `app/content-vault-sync/`, `app/app-update/`) | inbox, outbox, cursors; revisions; download state | deliver, apply, publish; merge; install | lost and repeated messages | a command is applied once |
| Tool center, skills, configuration, knowledge, user interfaces | registries, files, projections | sequential | little | outside of the models |

`PROJECT.json` lists every component with its status and the hazards of the code
line by line.

## 2. Plan and what became of it

The order is by weight: what can corrupt a transcript first, then what a run
promises to the user, then what stands around it.

| step | modules | state |
|---|---|---|
| 1 | `SingleWriterTranscript`, `SessionWriteFence` | checked, safety and refinement proved |
| 2 | `OrdinaryRunState`, `OrdinaryRun`: one run with all of its tasks | checked; types, `Final`, the confirmation gate, the truth of the facts and the scheduling barrier proved |
| 3 | `TurnQueue`, `OrdinaryConversation`: several runs, the pump, submission, rollback, deletion, recovery | checked; safety and refinement proved |
| 4 | `SpaceLifetime`, `SpaceWorkflows`: two coordinators, three journals and queues | checked, safety and refinement proved |
| 5 | `ProcessRegistry` | checked, safety proved |
| 6 | composition of run and fence: the leaf a run restores, checkpoints that move it | open |
| 7 | `ManagedAttachments`, remote inbox and outbox, `RuntimeDirectoryLease` | open |

How the modules stand to each other. `OrdinaryRun` extends `OrdinaryRunState` and
takes the fence as a lease that is acquired, restored and released.
`OrdinaryConversation` takes a run as five positions and what its end still owes
(`owed`, the finalization `OrdinaryRun` details). `SpaceWorkflows` takes a
conversation as none, live or deleted, and the deletion of one (which is
`Delete` of `OrdinaryConversation`) as a call that succeeds or fails.
`ProcessRegistry` is what the phase `processes_stopped` calls. There are three
abstract specifications, each with a refinement that is checked:
`SingleWriterTranscript`, `TurnQueue` and `SpaceLifetime`.

## 3. Modules

### SingleWriterTranscript, SessionWriteFence

The fence issues *generations* (leases to write). Calls are split into what runs
in the turn of the caller (`RevokeCall` records the target and queues a restore,
`ReleaseCall` memoises its promise) and the queued operation, which is refused or
enters the storage and finishes in a later step (`WriteEnter`/`WriteDone`), so
that another call may come in between. `Fault` lets any storage operation fail.
`ForeignMove` changes the file behind the fence, which `AcquireMismatch` is for.

| code | model |
|---|---|
| `tail`, the running operation | `queue`, `entered` |
| `currentGeneration`, `nextGenerationId` | `current`, `issued` |
| `StorageGeneration.status`, `recoveryTargetLeafId`, `revokedLeafId` | `status`, `recoveryTarget`, `revokedLeaf` |
| `revokePromise` (none, under way, fulfilled) | `revocation` |
| `releasePromise` | `releaseAsked` |
| the transcript file | `leaf`, `lastEntry`, `deleted` |

The guard in the code against another generation with an unfinished restore is
kept in `RevokeStart` though `QueuedRevokeOwnsFence` shows that it never fires.

`SingleWriterTranscript` is what the fence promises: at most one writer, only the
writer moves the leaf, and a restored leaf stands until the next writer is
admitted. `ImplementsTranscript` is the refinement: the abstract writer is the
current generation while it is active.

### OrdinaryRunState

The snapshot of a run and its transitions as operators; each `Can...` is the
conjunction of the exceptions the transition throws. A tool call has one fact.
`reported`, `refused`, `unaccepted`, `lost` and `unknown` stand for the results
the code tells apart by status and error code (a result; not executed; the owner
did not accept the result; confirmation lost before execution; outcome unknown).
`round` is `pendingToolRound`, the write-ahead record of the calls the Session
accepted.

### OrdinaryRun

One run in its process. Each write of the snapshot is queued per run in the code
and a task awaits it, so it is one step that commits or throws. Between two steps
of a task everything may happen that its `await` admits.

| code | model |
|---|---|
| `runExecution`, the operation of `decideApproval` | tasks `execute`, `decide`: `pc`, `outcome` |
| `executions`, `approvalReservations`, `controllers` (and signal), `continuations` | `execution`, `reserved`, `controller`, `aborted`, `continuation` |
| `acceptedToolResults` | `accepted` |
| harness, tool calls and approval coordinator of the loop | `harness`, `halted`, `tool`, `result`, `pending` |
| `ActiveSessionControl` and the Session lease | `session` |
| `sessionFinalizationPending` / `...Failures` | `finalization` |
| cleanup task, its timer and arguments | `cleanup`, `cleanupCont`, `cleanupFin` |
| activation pump, completion retry timer | `pump`, `retry` |
| what the tools did to the outside world | `effect` (history variable) |

`Crash` keeps only `run` (and `effect`); `RecoverApproval`, `RecoverRound`,
`RecoverRunning` and `Recovered` are `recoverPersistedRuns`. A recovery that
throws isolates the conversation until the next start (`markConversationUnavailable`).

Abstractions, all of them deliberate: the run is the first turn of its
conversation; nested tool calls, a second confirmation of the same call, usage,
reasoning and timeline are left out; the buffer is flushed in one step, in which
any subset of its writes may fail; a paused task that finds its buffer empty ends
in the step of the pause; the two attempts of one finalization count as one
fault; a save that reports an error was not committed; leaf positions are the
fence module's subject; the pump is the part of it that works on this run.

### TurnQueue, OrdinaryConversation

One conversation with up to `MaxRun` runs. The operations that take the key of the
conversation (`enqueue("conversation:...")`) run one at a time; `op` is the one that holds
it, with its position between two awaits. Everything else runs beside it.

| code | model |
|---|---|
| conversation document, tombstone; run snapshots; transcript and its branch | `control`, `run`, `session`, `branch` |
| `documents` (what the feature knows of its runs) | `known` |
| `executions`, `sessionFinalizationPending` / `...Failures`, `cancellationCleanupTasks` and timers | `live`, `owed`, `cleanup` |
| `sessionControls` of the execution port: the runs that hold the Session's lease | `open` |
| `successorActivationPumps`: `activateConversationOnce`, merged requests, retry timer | `pump` (with the documents it took, `view`), `timer` |
| `submitTurn` with `pendingUncommittedConversationBirths` | `Submit`, `OpReconciles`, `OpAwaits`, `OpControls`, `OpStores`, `OpStarts`, `OpRechecks`, `OpJoins`, `OpTakesBack` |
| `cancel`, `rollbackConversation`, `deleteConversation` | `Cancel`, `Rollback` and `OpMoves`, `Delete`, `OpBuries` and `OpCancels` (with `Cancelled`, `Recancelled`) |
| `conversationCleanupTasks` and timers, `pendingUncommittedConversationCleanups` | `sweep`, `doomed` |
| `visibleOrdinaryConversationRuns`, `nextEligibleQueuedRun`, `isSchedulingBarrierCleared` | `Visible`, `NextEligible`, `Cleared` |
| `recoverPersistedRuns`, `readyPromise` | `RecoverRemains`, `RecoverRuns`, `RecoveryEnds` |

The pump is the heart of it: `PumpChooses` reads what `view` held when the attempt
began, while runs end, are submitted, cancelled and deleted; `Request` made in the
meantime is merged (`merged`) and answered by that attempt. A save may be stored and
throw (`birth`), in which case nothing is taken back before it was looked up. Left
out: titles and pins, attachments, the evidence of tools, and the approval of a run
(it is running for the queue). A read of the transcript's branch may fail where the code
reads it: in the pump (`PumpChooses`, `PumpStarts`), in a submission that has created its
conversation (`OpControls`; the conversation stays without a run) and after the start, for
the answer to the client (`OpStarts`). The other throw of the projection
(`conversation-projection.ts:15`, durable runs without a branch) needs a transcript whose
branch is gone under its runs, which no modelled step leaves. A tombstone whose save threw
may be on disk all the same (`buried`): memory has an old revision of the document then, its
later saves are refused, and the next start finds the deletion. A deletion goes through the
runs it took when it had its tombstone (`op.left`), those that have ended since included
(`Recancelled`). A finalization gives the Session back once: a second one,
asked for by another owner, finds no control and fails without anything having gone
wrong (`Finalizes`, `FinalizationFails`).

`TurnQueue` is the promise: every turn waits behind another one or none, one turn
at a time is active, a turn starts once and only after the one before is over.
`TurnOf` is the refinement mapping: a turn is over when its run has ended *and* its
Session was given back.

### SpaceLifetime, SpaceWorkflows

A Space, its conversations and the two coordinators of
`space-conversation-coordinator.ts`. Each has a journal on disk, a FIFO
(`serialize`) and markers in memory; whatever is created in the Space queues for
admission; all bodies run under one lock (`runExclusive`).

| code | model |
|---|---|
| tree of Spaces; memory and knowledge; conversation documents | `tree`, `memory`, `conv` |
| link journal (birth, or the phase of a deletion); deletion journal | `link`, `record` |
| `deletingConversationIds`, `deletingSpaceIds` | `deleting`, `marked` |
| admission FIFO, FIFO of the link coordinator, of the deletion coordinator, `runExclusive` | `admission` and `admitted`, `links` and `linkPc`, `removals` and `removalPc`, `lock` |
| `submit` for a new conversation: admission, ownership, birth record, creation | `AskSubmit`, `AdmissionTurn`, `LinkLocks`, `LinkLooks`, `LinkOwns`, `LinkCreates`, `LinkSettles` |
| `deleteConversation`, `resumeDelete` | `AskDelete`, `LinkLooks`, `LinkResumes` (`Resume`) |
| a turn in an existing conversation, a write to memory or knowledge | `AskTurn`, `TurnQueues`, `AskRemember`, `AdmittedRuns` |
| `deleteSpace`, its five phases | `AskRemoval`, `RemovalEnters`, `RemovalLocks`, `RemovalLooks`, `RemovalWorks` |
| the start of the application: both `ready()` | `Start`, `ReadyLinks`, `ReadyRemoval` |

Every phase may fail (`Upset`) and the process may crash between any two of them. An
admission looks at the marker, the journal record and the tree in one step
(`AdmissionTurn`). A deletion writes its record and removes the tree inside a turn of the same
FIFO, and records are resumed outside of it only before requests are served, so neither
changes between the reads; a marker set between them has the effect of one set after the last,
because its deletion queues behind the admission.
`SpaceLifetime` says that nothing is created in a Space that is being closed, that
the Space goes last and that nothing comes back.

### ProcessRegistry

The records of background processes, the command tool that starts a process and
registers it some awaits later, and the four kinds of cleanup (`cleanupByRun`,
`cleanupResourceRecords`, `stopOwned`, `cleanupOwnedProcesses`). A
cleanup takes its records once (`Begins`), sets one after the other to `killing`
(`Proceeds`) and awaits `killTree` (`KillReturns`, with the answers a kill-tree can
give); then it reads the record again. `Cleanups` and `Shutdowns` are the calls that may be
under way at once, each of any of the first three kinds or a shutdown; `cur`, `todo`, `taken`
and `pending` are the local variables of each call. `os` is the process itself, which the
records are compared with.

## 4. Runs

Each property has a mutant in `PROJECT.json`: a plausible slip in one mapped
definition under which TLC finds the property violated. The faulty operators
stand beside the definitions they replace, with the comment "A faulty ...".

| run | bounds | what it shows |
|---|---|---|
| `fence` | 3 generations, 1 entry, FIFO of 3, 1 fault, 1 foreign move | restores are not overtaken, a deletion is exclusive, a successor is admitted after the restore |
| `fence_live` | 2 generations, 1 entry, FIFO of 3, 2 faults | restores happen; the fence implements `SingleWriterTranscript` |
| `run` | calls a, b, c of which a, b need a confirmation, rounds of 2, 1 fault, 1 crash, 1 cancel | facts are honest, effects accounted for, gates honoured, stable runs quiet, the barrier opens after the restore |
| `run_ends` | calls a, b (a gated), rounds of 1, 3 faults, 1 crash, 2 cancels | a running run has an executor; a run that ended frees the queue and becomes stable; a delivered response is completed or blocked, never failed |
| `conversation` | 3 runs, 1 upset | turns are served as `TurnQueue` serves them, none starts after the deletion, no run without its conversation |
| `conversation_live` | 2 runs, 2 upsets | of two runs of one submission at most one stands; a queued turn starts, a deletion is carried out, the key is given back |
| `space` | 2 conversations, 4 requests, 2 upsets | nothing outlives its Space; the marker covers the journal; admitted work runs in an open Space; no circle of waiting; a restart finishes what was open; `SpaceLifetime` is implemented |
| `processes` | 2 processes, two cleanups of any kind and a shutdown | records and permissions tell the truth; shutdown misses nothing; a revocation stands and settles |

Why these bounds. Two generations are the least for an old writer and its
successor, the third lets a second successor be admitted over the first one; a
FIFO of three holds a write, a revoke and a release, or a deletion between two
acquisitions. Two calls in a round are the least for anything parallel, a third
call makes a second round possible; one fault is enough for a retry to race
another task, three exhaust the block that replaces a completion and its retry.
A conversation of three runs has a predecessor, the run in question and one behind
it; an upset is a failing read or write, a crash, a rollback or a deletion, so one of
them meets every position of the others, and the run with two adds a crash or a
failure during the deletion. Two conversations let a Space's deletion meet one that
is being born and one that is being deleted; four requests are a birth, a turn, and
the deletions of both; two upsets are a failure and a crash, or two crashes. Two
processes let every cleanup await one while the other changes; two calls of any kind beside a
shutdown are every pair of kinds, a kind with itself included, and the proofs hold for any
number of calls.

The symmetry of `run` permutes the gated calls and that run checks no liveness.
Deadlock is checked in `processes` (a cleanup can always be asked for) and not in
the others, because they end: bounded generations, a finished run, a conversation
with all of its runs over, no request left.

### Exceptions the properties name

A passing property that holds only up to a case says so in its own text, because the
code behaves that way:

* `StableIsQuiet` while no write failed, or one and the user did not cancel: a pause whose
  results cannot be remembered is not released, and its harness stays behind when the
  run ends.
* `BarrierAfterRestore` while the user cancelled at most once: see the list below.
* `RunningIsExecuted` except after two failed writes, and except for a run whose last
  outcome contradicts the record: no end can be stored with it, and nobody executes the
  run any more. `ResponseSettles` has the same case, when a pause was refused.
* `ExecutedOnce` has two parts. That two runs of one submission never both *stand* (are
  running, or on the branch) has no exception. That only one of them is executed at all holds
  with at most one upset: see the list below for what two of them do.
* `EndedReleasesQueue` and `EndedBecomesStable` with at most one fault, and not with
  a fault and a cancel together (the second not with a cancel): see the list below.
* `DeletionCompletes` leaves the transcript behind when the Session lease is
  (`LeaseIsLeft`): the pump is what retries the finalization of a run that ended by
  itself, and it does not look at deleted conversations. A restart cleans up.
* `ServesInOrder` and `QueuedStarts` except for a hidden run (`Hides`), and
  `QueuedStarts` except for a lost request (`missed`), both findings, and except for a
  finalization that fails for ever (`Stuck`), in the list below.

### Disagreements between the code and what is said of it

Four runs expect a violation; each is a finding in `PROJECT.json` with the quoted line.

| run | what TLC finds |
|---|---|
| `run_pause` | two parallel calls need a confirmation; the pause for the first holds the second one's approval fact without its request, and the assertion of the state machine fails the run |
| `conversation_hidden` | a run ends between the capture of its start leaf and its first entry; it is in no class of visible turns and the turns queued behind it are hidden with it |
| `conversation_wakeup` | a request for activation that is merged into an attempt of the pump which took its documents before is lost |
| `processes_exit` | a process exits while a cleanup stops another one; by its stale record it is signalled and relabelled |

More of them were met while modelling. They are in the models, and the properties are
stated around them, but no run of its own is kept for them:

* a second cancel drops the Session finalization of the first when the continuation's
  release has to be retried (`ordinary-agent-feature.ts:2645`);
* a result that conflicts with the reconciled round stays buffered and keeps the queue
  closed (`:1407`);
* pump and cleanup retry the same finalization (`:2686`). The port forgets the run's
  control with the first that succeeds (`agent-loop-execution.ts:120`), so one that comes
  after it fails for ever unless the run never started (`:1253`), and the queue behind
  that run waits until a restart, against the comment at `:1592`;
* a pause that is refused (see `run_pause`) leaves no end either: its outcome still says
  that the call waits for a confirmation, the snapshot says by then that it was refused,
  and so the run stays `running` without an executor (`:1346`);
* a task that ends with a pause settles what came in meanwhile and then reads the run
  again. If the user has decided by then the run is running, and the task reconciles the
  round the resumed loop is in: a call that waits or is under way becomes `lost` or
  `unknown`, its result conflicts and nobody can end the run. If the user cancels it and
  the finalization has to be repeated, it counts as stable with its harness still alive
  (`:1386`);
* a result that the loop was told was not stored, although a later write stores it from
  the buffer, conflicts with the record in every later outcome (`:1375`);
* a first turn whose start fails after the pump was asked may be started by the pump. If
  the look at what the birth had stored fails too, the birth is taken back under that
  run, and a repeated submission is executed again (`:2239`);
* a cancel between a pause and its admission leaves the controller behind, and the run
  never becomes stable (`:1369`);
* the finalization of a cancelled run waits for the harness, so a model call that
  ignores its abort holds the queue (`:1238`); `FairSpec` assumes that calls end;
* a turn looks at the marker of its conversation before it queues for admission and
  not again, so a deletion of that conversation may begin in between
  (`panel-server/ordinary-routes.ts:164`);
* two deletions of one conversation that overlap: the first to end removes the marker
  the second still needs (`space-conversation-coordinator.ts:326`);
* a process that was marked as exited while an unconfirmed kill was awaited keeps the
  permission `stop_pending` (`runtime-guard/process-registry.ts:543`);
* a background process that is registered after its reference was revoked has an active
  permission (`local-workspace-command-tools.ts:1427`).

### Fairness

Weak fairness of tasks, everywhere: a promise settles and a timer fires. It is stated
per task, not for the whole next-state relation, because the tasks are independent.
Nothing obliges the user to submit, decide, cancel or delete, or the process to crash.

* `OrdinaryRun`: also the model and the tools end some time.
* `OrdinaryConversation`: the holder of the key, the pump, each execution and each
  cleanup, the sweep and the recovery. A submission that awaits the pump (`OpJoins`) has
  strong fairness: the promise it awaits is that of one attempt and settles, though by
  the time it is looked at another attempt may be under way.
* `SpaceWorkflows`: the heads of the two queues, the deletion, and a restart after a
  crash; a turn that has looked at the marker goes on to queue.
* `ProcessRegistry`: `killTree` has a timeout of its own; the command tool comes to
  its registration; the exit of a child is reported. Processes need not end by
  themselves, and a kill need not succeed.
* `SessionWriteFence`: the owner of a generation that chose a recovery target goes on
  asking for the restore (the retries of the finalization); that is strong fairness
  only because the FIFO is bounded in the model and may be full when the call is made.

## 5. Proofs

All theorems hold for every value of the constants that satisfies the assumption named
in the module (`BoundsAssumption`: bounds are natural numbers, at least one generation,
at least one conversation; `KindsAssumption`: the kinds are sets of processes).

| module | theorems |
|---|---|
| `SessionWriteFence_proofs` | `FenceInvariant`, `TypeCorrect`, `RestoreIsNotOvertaken` (`QueuedRevokeOwnsFence`), `RestoreStands` (`RestoredLeafStands`), `DeletionIsExclusive` (`DeletedHasNoWriter`), `AdmissionIsSafe` (`AdmitsAfterRestore`), `FenceImplementsTranscript` (`ImplementsTranscript`, if nothing moves the leaf behind the fence) |
| `OrdinaryRun_proofs` | `TypeCorrect`, `FinalStands` (`Final`), `GateInvariant`, `GateIsHonoured` (`GateHonoured`), `AwaitingHasContinuation` (`AwaitingIsLive`) |
| `OrdinaryRunFacts_proofs` | `FactInvariant`, `FactsAreHonest` (`HonestFacts`), `EffectsAreRecorded` (`NoSilentEffect`), `BarrierInvariant`, `BarrierFollowsRestore` (`BarrierAfterRestore`) |
| `OrdinaryRunEnd_proofs` | `CallInvariant`, `ExecutionInvariant`, `OutcomeInvariant`, `RunningHasItsExecution` (`RunningIsExecuted`), `HarnessInvariant`, `QuietInvariant`, `StableRunsAreQuiet` (`StableIsQuiet`), `ResponseInvariant`, `ResponsesAreNotFailures` (`ResponseIsNotFailure`) |
| `OrdinaryConversation_proofs` | `ConversationInvariant`, `ConversationTypes`, `DeletionIsFinal` (`NothingStartsAfterDeletion`) |
| `OrdinaryConversationOrder_proofs` | `OwnedInvariant`, `RunsHaveTheirConversation` (`RunsAreOwned`), `OrderInvariant`, `TurnsAreServedInOrder` (`ServesInOrder`), `SubmissionsStandOnce` (`ExecutedOnce`) |
| `SpaceWorkflows_proofs` | `SpaceInvariant`, `SpaceTypes`, `SpaceLeavesNoOrphans` (`NoOrphans`), `MarkerIsSet` (`MarkerCoversRecord`), `AdmissionsAreOpen` (`AdmittedIsOpen`), `SpaceImplementsLifetime` (`ImplementsLifetime`) |
| `ProcessRegistry_proofs` | `RegistryInvariant`, `RegistryTypes`, `StoppedTellsTheTruth` (`StoppedIsDead`), `KillingHasAnOwner` (`KillingIsOwned`), `ShutdownIsComplete` (`ShutdownMissesNothing`), `RevocationIsFinal` (`RevocationStands`) |

Each rests on an inductive invariant, because the safety properties are not inductive as
they stand.

**The fence.** That a restored leaf stands needs that no write awaits the storage once
the generation is revoked, which needs that a write in the storage belongs to the
active current generation (`HeadKeepsItsGround`), that only the newest generation holds
the fence (`OneHolder`), that each pending revocation has exactly one operation in the
FIFO (`OneRevocation`) and that a chosen target is owed until it is restored
(`TargetIsOwed`). Their conjunction with the properties is `FenceInv`. There is one
lemma for each action, and lemmas on what `Append` and `Tail` do to a FIFO. The
refinement maps each step to `Open`, `Write`, `Close`, `Restore` or a stutter.

**The run.** The snapshot changes only by the transitions of `OrdinaryRunState`, so
`OrdinaryRun_proofs` first shows what each of them keeps: those that only record
(`StillStep`) leave status, confirmations and decisions alone, an end (`EndStep`)
leaves the decisions alone, and all of them keep terminal statuses and final facts.
Then each action is shown to make one of those transitions, or none.

**The gate.** A decision puts a tool on its way only because the tool waits for it,
which relates the confirmations in the snapshot to those pending in the loop
(`AwaitingIsLive`). Nothing else may remove one of those meanwhile: the harness is told
to stop only after the run has ended or its pause was refused (`HaltedIsOver`), and the
outcome of the loop is in the hands of one task, which is gone when the run waits
(`OneTaskInLoop`). `GateIsClosed` says where a tool is that has not run yet. Their
conjunction is `GateInv`.

**The facts.** A fact comes to the snapshot from the buffer of accepted results, from
the results of the loop or from an outcome the loop handed out, each of which may be
much older than the step that copies it. `HonestFacts` is inductive only together with
the truth of all these books (`BooksAreTrue`), and truth has to survive what the call
does next (`TrueOf`). That nothing is left out needs `WrittenAhead`: whatever was taken
up stands in the open round until it has a final fact, and a run becomes stable only
with its round closed; `RoundsInTurn` says that no call is taken up behind a round
that is still open, `AsksForOpen` that no lost confirmation is asked for. Their
conjunction is `FactInv`. Most actions only copy between the books (`CalmKeeps`).

**The barrier.** It is cleared when no finalization is asked for and no cleanup still
has the continuation to release, so `BarrierInv` says that a run that ended and still holds the writer has
one or the other: the finalization, which stays noted while it fails and is retried, or
a cleanup that is going to ask for it once the continuation is released
(`CleanupOwes`). Every step but a cancel, an acquisition and a crash keeps that in the
same way (`Tidy`).

**The execution.** That a run which is running is not forgotten takes three invariants.
`ExecutionInv` says who has the run in hand: one task at a time holds the loop, its
outcome or the Session (`OneTaskHolds`), a decision takes over from a task that may still
be settling its pause (`DecisionTakesOver`), and nobody holds a run that waits
(`WaitsAtRest`). `CallInv` says that a result is accepted once, and that one which cannot
be remembered was not stored (`MismatchBooks`). `OutcomeInv` then follows a task to its
end: if it leaves the run running, two writes failed, or the outcome it had contradicts the
record. It is inductive because a contradiction is one with a final fact, and final facts
stand (`ContradictionStands`); a pause that is released because it could not be admitted
becomes contradicted when the harness refuses the calls it said were waiting
(`Unanswered`, `ToolAnswers`).

**The rest.** A run is stable when no handle is left; that no harness is at work then has to
be shown from who let go of it. A task that ends a run finalizes the Session, which waits
for the harness, but one that catches a pause it cannot remember leaves it behind.
`HeldInv` says that a harness at work is held by a continuation or a task, or was
`Forsaken`, and lists what is left over in that case: after one fault the run is still running; with
no fault the buffer has a final result other than the recorded one (`Clashes`), or a cancel
ended the run under a task whose controller stays. None of them is stable. That a pause is
caught without a fault only with such a clash, and only when no other task is at work, needs
`AgreeInv` (until the first task has settled its pause all that is said of a call
is its last result). `EndInv` says that without a fault only a cancel ends a run whose
harness is at work, and that its cleanup waits for the harness, so that nobody settles the
buffer under the clash (`ClashStands`). They rest on where the Session and the tasks are
while the harness works (`HarnessInv`) and on the order of the cleanup (`CleanupInv`).

**The response.** A run can fail only by a task that has a failure to store. `ResponseInv`
says that after the response no such failure agrees with the record, so that its write is
refused. The only tasks that may still catch something are those that release a pause; that
pause said of a call that it waits, and the model answers only when every call has its final
fact (`ModelInv`), which contradicts it. A harness whose run had failed before, or whose
pause was caught, has a result that was not accepted and does not come back to the model
(`RefusalInv`), and `cancelled` is the outcome only of a run that ended (`AbortInv`).

**The conversation.** Once a deletion was reported as done, the pump may still hold a
candidate it chose before. It does not start, because the candidate has to be held and
queued, and nothing held is queued. `DeletionBooks` says why that stays so: a confirmed
deletion has its tombstone; whoever adds a queued run has seen a live document
(`op.pc` in `store` and later), and such an operation cannot be overtaken by the
sweep of an uncommitted birth, which is settled before the document is looked at
(`doomed`).

**Ownership.** A save that throws may have been stored, so neither the control record nor
its absence says what the operation at work, the sweep or a recovery knows. `OwnedBooks`
says it for each of them: what a birth and its cleanup (`BirthBooks`, `SweepBooks`) and
the holder of the key (`OpBooks`) have on disk and in memory, and that a process that is
down holds nothing (`DownBooks`). `RunsAreOwned` follows.

**The order.** The pump chooses by documents that may be several steps old, so that the
choice was right then does not say that it is right when the run starts. `OrderInv` says
that at most one run is busy (it runs, or its Session is not given back), that such a run
is visible and stands before all visible runs that wait (`QueueBooks`), and that a
candidate stays next however old the view is: since the view was taken no run came in
before it, those on the branch stayed there, and what was over stayed over
(`ClaimBooks`). It needs that the visible chain grows at its end only, which the lemmas on
`Chain`, `Loose` and `OnBranch` say of every way a document changes: `Chain` is the least
set that is closed under "is behind", and those lemmas use that least set where the code
loops. With it each step is a step of `TurnQueue` or a stutter, unless a hidden run
(`Hides`) broke the chain: `TurnsAreServedInOrder` says nothing of what the pump does while
there is one.

**Once.** Without a bound on what goes wrong, `StandInv` says that of two runs of one
submission at most one stands. A repeated submission is refused while a run with its key is
held, so a second one is stored only when the first was not held: it was taken back, left by
a save that threw, or lost with the process. `HeldBooks` says that what is stored and not
held has no entry while a submission can go on, that the predecessor of a run that is being
stored is held, and that nothing stands behind a run that is not. `TwinBooks` follows from
the first link of the chain behind the older run: as long as the older one is stored nothing
up to the younger one is behind it, and as long as it stands nothing up to the younger one
does. Each step either lets runs fade (`Fades`, `Lets`), or adds one that stands, which is a
start (`StartsStand`, by the order above), a birth (`StoresStand`) or a recovery
(`RecoveryStand`). For the second part, before the first upset every stored run is held, so a
repeated key is known (`FreshBooks`); between the first and the second two runs of one key may
exist, but one of the two has no entry and never starts: it is not held, or it has ended
(`Inert`). `OnceInv` is the conjunction of these with the invariants above. The guard on the
upsets cannot go from the second part: with two of them the first execution may be taken back
under the submission, and the next one is executed again.

**The Space.** `DiskBooks` says what each phase of the deletion journal guarantees of
the stores; `WorkBooks` that what the deletion at work has still to delete covers what
is owned; `QueueBooks` what the position of an admission, a link job and a deletion
guarantee of each other (a first message is in the link FIFO only while it is what is
admitted, so a deletion that is past its admission finds no birth under way);
`MarkerBooks` that a waiting deletion keeps the Space closed; `Quiet` that requests wait
for `ready()`. Their conjunction is `SpaceInv`, from which every step maps to a step
of `SpaceLifetime` or a stutter.

**The registry.** `Books` ties `cur`, `todo` and `taken` of each cleanup to registered
processes, `ShutdownCovers` and `RevokeCovers` say that what a cleanup took is waiting,
being stopped, unconfirmed or dead. Their conjunction with the properties is
`RegistryInv`.

Every safety property, action property and refinement that a run checks is proved.
Model-checked only: all liveness (`RestoreHappens`, `EndedReleasesQueue`,
`EndedBecomesStable`, `ResponseSettles`, `DeletionCompletes`, `QueuedStarts`,
`KeyIsReleased`, `QueuesDrain`, `RestartFinishes`, `RevocationSettles`), which the prover
does not handle.

## 6. Not modelled

The repository has some 180 000 lines, most of which are user interfaces (`panel-ui`,
`mobile-ui`, `desktop`), read models that project state owned elsewhere, tools whose
effects are outside of the process, and loaders of files; the models cover the part
that decides under concurrency and failure, and the share of all lines they stand for
is small and will stay so. `PROJECT.json` has a reason for every component. In short:

* *Worth modelling next*: `ManagedAttachments` (staging and collection against turns),
  the inbox and outbox of remote collaboration, the runtime directory lease, the
  composition of fence and run.
* *The same again*: reference deletion inside a Space has a third journal with the
  shape of the two modelled ones; a Workspace is deleted as a Space is, without a
  journal; restore takes the lock of the Space workflows.
* *Seen from outside*: the run snapshot repository is a save that succeeds, fails, or
  fails after it was stored; its manifest is a cache that recovery rebuilds. The
  transcript store is a leaf that moves, or does not.
* *Left out for good*: user interfaces and read models; configuration, skills and
  sub-agents (sequential loading); the shell, file and MCP tools themselves; the
  merge of vault revisions and context compaction (data and heuristics); the archived
  multi-agent code in `deferred/` and `domain/`.
