----------------------- MODULE OrdinaryConversation -----------------------
(***************************************************************************)
(* One conversation of the Ordinary feature with all of its runs: who may  *)
(* be submitted, which queued run the activation pump starts, and how the  *)
(* conversation is born, rolled back, deleted and recovered                *)
(* (app/ordinary-agent/ordinary-agent-feature.ts).                         *)
(*                                                                         *)
(* The operations that take the key of the conversation run one at a time; *)
(* `op` is the one that holds it.  Beside it run the executions, the       *)
(* cleanups of cancelled runs, the pump and the sweep that removes what a  *)
(* deleted conversation leaves.  What one run does between its end and the *)
(* release of its Session is the subject of OrdinaryRun; here it is owed   *)
(* (`owed`) until a finalization succeeds.                                 *)
(***************************************************************************)
EXTENDS Naturals, FiniteSets

CONSTANTS
    MaxRun,       \* runs the conversation may have
    MaxUpset      \* failing reads and writes, crashes, rollbacks and deletions, all together

ASSUME BoundsAssumption ==
    /\ MaxRun \in Nat /\ MaxUpset \in Nat

VARIABLES
    \* on disk
    control,    \* the conversation document: none, live or deleted (a tombstone)
    session,    \* the transcript exists
    branch,     \* the runs with entries on the active branch of the transcript
    run,        \* the snapshot of each run
    \* in memory
    proc,       \* live, recovering, down, or isolated (conversation unavailable)
    known,      \* documents: the runs the feature holds
    live,       \* runs with an execution
    open,       \* runs whose execution port has a Session control
    owed,       \* the Session finalization of each run: no, pending, failed
    cleanup,    \* the cleanup task of a cancelled run: off, on, retry (timer)
    pump,       \* the attempt of the activation pump: position, view and candidate
    timer,      \* the pump's retry timer
    op,         \* the holder of the conversation key
    birth,      \* a conversation save with an unknown result
    buried,     \* a tombstone that was stored by a save that threw: memory does not have it
    sweep,      \* the conversation cleanup
    doomed,     \* an uncommitted conversation waits for its cleanup
    \* history and bounds
    missed,     \* an attempt ended idle with a run to start and a request merged into it
    confirmed,  \* a deletion was reported as done
    upsets

diskVars  == <<control, session, branch, run>>
tailVars  == <<live, open, owed, cleanup>>
pumpVars  == <<pump, timer>>
sweepVars == <<sweep, doomed>>
vars == <<diskVars, proc, known, tailVars, pumpVars, op, birth, buried, sweepVars,
          missed, confirmed, upsets>>

Runs     == 1 .. MaxRun
Terminal == {"completed", "failed", "cancelled"}
Present  == Terminal \union {"queued", "running"}

Absent == [status |-> "absent", phase |-> "none", behind |-> 0, key |-> 0]
NoView == [r \in Runs |-> Absent]
NoPump == [pc |-> "idle", view |-> NoView, cand |-> 0, merged |-> FALSE]
NoOp   == [pc |-> "idle", kind |-> "none", then |-> "none",
           key |-> 0, after |-> 0, run |-> 0, left |-> {}, created |-> FALSE]
NoSweep == [pc |-> "off", mode |-> "none", asked |-> {}, todo |-> {},
            failed |-> FALSE, fresh |-> FALSE]

Init ==
    /\ control = "none" /\ session = FALSE /\ branch = {} /\ run = NoView
    /\ proc = "live" /\ known = {} /\ live = {} /\ open = {}
    /\ owed = [r \in Runs |-> "no"] /\ cleanup = [r \in Runs |-> "off"]
    /\ pump = NoPump /\ timer = FALSE
    /\ op = NoOp /\ birth = FALSE /\ buried = FALSE /\ sweep = NoSweep /\ doomed = FALSE
    /\ missed = FALSE /\ confirmed = FALSE
    /\ upsets = 0

\* A read or write fails, the process crashes, or the user rolls back or deletes.
Upset == upsets < MaxUpset /\ upsets' = upsets + 1

Live == proc \in {"live", "recovering"}

-----------------------------------------------------------------------------
(* What is visible of a conversation: the runs on the branch, then the chain *)
(* of those behind the last one that have no entries yet.                    *)

Greatest(S) == IF S = {} THEN 0 ELSE CHOOSE r \in S : \A q \in S : q <= r
Least(S)    == IF S = {} THEN 0 ELSE CHOOSE r \in S : \A q \in S : r <= q

\* The documents as a task holds them between two reads.
Documents == [r \in Runs |-> IF r \in known THEN run[r] ELSE Absent]

OnBranch(d) == {r \in branch : d[r].phase = "entered"}

\* isPendingOrPreSessionTerminal
Pends(d, r) ==
    \/ d[r].status \in {"queued", "running"}
    \/ d[r].status \in Terminal /\ d[r].phase = "none"

Loose(d) == {r \in Runs \ OnBranch(d) : Pends(d, r)}

\* The set has the runs that are behind the branch, and those behind one of it.
ChainClosed(d, C) ==
    \A r \in Loose(d) : d[r].behind \in {Greatest(OnBranch(d))} \union C => r \in C

\* Run after run, each behind the one before it.
Chain(d) ==
    LET loose == Loose(d)
    IN  {r \in loose : \A C \in SUBSET loose : ChainClosed(d, C) => r \in C}

Visible(d) == OnBranch(d) \union Chain(d)

\* Two pending successors of one run: visibleOrdinaryConversationRuns throws.
Ambiguous(d) ==
    \E r, q \in Chain(d) : r # q /\ d[r].behind = d[q].behind

\* A faulty Cleared: the finalization of the Session is not waited for.
ClearedUnfinalized(d, r) ==
    /\ d[r].status \in Terminal
    /\ d[r].status = "cancelled" \/ r \notin live

\* isSchedulingBarrierCleared, the state as held and the handles as they are now.
Cleared(d, r) ==
    /\ d[r].status \in Terminal /\ owed[r] = "no"
    /\ d[r].status = "cancelled" \/ r \notin live

\* nextEligibleQueuedRun, 0 for none
NextEligible(d) ==
    LET first == Least({r \in Visible(d) : d[r].status = "queued"})
    IN  IF first # 0 /\ \A r \in Visible(d) : r < first => Cleared(d, r)
        THEN first ELSE 0

-----------------------------------------------------------------------------
(* The activation pump. *)

\* requestConversationActivation: a request that meets an attempt joins it.
Request(d) ==
    /\ timer' = FALSE
    /\ pump' = IF pump.pc # "idle" THEN [pump EXCEPT !.merged = TRUE]
               ELSE IF control = "deleted" THEN pump
               ELSE [NoPump EXCEPT !.pc = "read", !.view = d]

\* An attempt that starts nothing.
PumpEnds ==
    /\ pump' = NoPump /\ UNCHANGED timer
    /\ missed' = (missed \/ (pump.merged /\ NextEligible(Documents) # 0))

PumpFails == pump' = NoPump /\ timer' = TRUE /\ UNCHANGED missed

PumpKeeps == UNCHANGED <<control, session, branch, proc, known, cleanup, op, birth,
                         buried, sweepVars, confirmed>>

\* What the holder of the run's key finds in memory before it reads the branch again.
Startable(r) == r \in known /\ run[r].status = "queued" /\ control # "deleted"

Claims(r) ==
    /\ pump' = [pump EXCEPT !.pc = "claimed", !.view = Documents, !.cand = r]
    /\ UNCHANGED <<timer, missed>>

FailedTail(d) ==
    {r \in Visible(d) : d[r].status \in Terminal /\ ~Cleared(d, r) /\ owed[r] = "failed"}

\* The branch of the transcript was read: choose with the documents held before.  The key
\* of a candidate is taken to look at it again.
PumpChooses ==
    /\ Live /\ pump.pc \in {"read", "reread"}
    /\ LET d    == pump.view
           next == NextEligible(d)
       IN  \/ /\ CASE Ambiguous(d) -> PumpFails
                    [] next # 0 /\ ~Ambiguous(d) ->
                         IF Startable(next) THEN Claims(next) ELSE PumpEnds
                    [] next = 0 /\ ~Ambiguous(d) /\ pump.pc = "read" /\ FailedTail(d) # {} ->
                         /\ pump' = [pump EXCEPT !.pc = "finalize", !.cand = Least(FailedTail(d))]
                         /\ UNCHANGED <<timer, missed>>
                    [] OTHER -> PumpEnds
              /\ UNCHANGED upsets
           \/ Upset /\ PumpFails
    /\ UNCHANGED <<run, live, open, owed>> /\ PumpKeeps

\* finalizeExecutionSession succeeds once; a call that met the one that succeeded succeeds
\* with it.
Finalizes(r) ==
    /\ r \in open \/ run[r].phase = "none" \/ owed[r] = "no"
    /\ open' = open \ {r} /\ owed' = [owed EXCEPT ![r] = "no"]
    /\ UNCHANGED upsets

\* It fails, or comes when another call has succeeded and taken the Session control away:
\* then it throws for ever, unless the run never started.
FinalizationFails(r) ==
    /\ IF r \in open THEN Upset ELSE run[r].phase # "none" /\ UNCHANGED upsets
    /\ owed' = [owed EXCEPT ![r] = "failed"] /\ UNCHANGED open

\* retryFailedSessionFinalization, then the documents are read anew.
PumpFinalizes ==
    /\ Live /\ pump.pc = "finalize"
    /\ \/ /\ Finalizes(pump.cand)
          /\ pump' = [pump EXCEPT !.pc = "reread", !.view = Documents]
          /\ UNCHANGED <<timer, missed>>
       \/ owed[pump.cand] = "failed" /\ FinalizationFails(pump.cand) /\ PumpFails
    /\ UNCHANGED <<run, live>> /\ PumpKeeps

\* The run starts, and its execution creates the Session control.
Running(r) ==
    /\ run' = [run EXCEPT ![r].status = "running"]
    /\ live' = live \union {r} /\ open' = open \union {r}

PumpStarts ==
    /\ Live /\ pump.pc = "claimed"
    /\ LET r == pump.cand
           d == pump.view
       IN  \/ IF Ambiguous(d) THEN PumpFails /\ UNCHANGED <<run, live, open, upsets>>
              ELSE IF NextEligible(d) # r \/ (d[r].behind # 0 /\ ~Cleared(d, d[r].behind))
              THEN PumpEnds /\ UNCHANGED <<run, live, open, upsets>>
              ELSE \/ /\ run[r].status = "queued" /\ Running(r) /\ pump' = NoPump /\ missed' = FALSE
                      /\ UNCHANGED <<timer, upsets>>
                   \/ run[r].status # "queued" /\ PumpFails /\ UNCHANGED <<run, live, open, upsets>>
           \/ Upset /\ PumpFails /\ UNCHANGED <<run, live, open>>
    /\ UNCHANGED owed /\ PumpKeeps

PumpTimer ==
    /\ Live /\ timer /\ Request(Documents)
    /\ UNCHANGED <<run, live, open, owed, missed, upsets>> /\ PumpKeeps

\* The key of a run is held by the pump while it starts it.
KeyFree(r) == ~(pump.pc = "claimed" /\ pump.cand = r)

-----------------------------------------------------------------------------
(* Executions, and the cleanup of cancelled runs. *)

TailKeeps == UNCHANGED <<control, session, proc, known, op, birth, buried, sweepVars,
                         missed, confirmed>>

\* start_leaf_captured, then input_entry_committed: the first entry of the run.
RunAdvances(r) ==
    /\ Live /\ r \in live /\ run[r].status = "running" /\ run[r].phase # "entered"
    /\ IF run[r].phase = "none"
       THEN run' = [run EXCEPT ![r].phase = "started"] /\ UNCHANGED branch
       ELSE run' = [run EXCEPT ![r].phase = "entered"] /\ branch' = branch \union {r}
    /\ UNCHANGED <<tailVars, pumpVars, upsets>> /\ TailKeeps

\* The run completes or fails; its Session is finalized next, by the same task.
RunEnds(r) ==
    /\ Live /\ r \in live /\ run[r].status = "running"
    /\ \E s \in {"completed", "failed"} :
          /\ s = "completed" => run[r].phase = "entered"
          /\ run' = [run EXCEPT ![r].status = s]
    /\ owed' = [owed EXCEPT ![r] = "pending"]
    /\ UNCHANGED <<branch, live, open, cleanup, pumpVars, upsets>> /\ TailKeeps

RunFinalizes(r) ==
    /\ Live /\ r \in live /\ run[r].status \in {"completed", "failed"} /\ owed[r] = "pending"
    /\ Finalizes(r) \/ FinalizationFails(r)
    /\ UNCHANGED <<run, branch, live, cleanup, pumpVars>> /\ TailKeeps

\* A faulty Wakes: the task behind an execution does not ask the pump.
WakesQuietly(r) == UNCHANGED pumpVars

\* activateSuccessor
Wakes(r) == IF r \in known THEN Request(Documents) ELSE UNCHANGED pumpVars

\* The execution is over; the task that follows it asks the pump.
ExecutionEnds(r) ==
    /\ Live /\ r \in live
    /\ \/ run[r].status = "cancelled"
       \/ run[r].status \in {"completed", "failed"} /\ owed[r] # "pending"
    /\ live' = live \ {r} /\ Wakes(r)
    /\ UNCHANGED <<run, branch, open, owed, cleanup, upsets>> /\ TailKeeps

\* A cancel commits its status, aborts the execution and leaves the rest to a cleanup.
Cancelled(r) ==
    /\ run' = [run EXCEPT ![r].status = "cancelled"]
    /\ cleanup' = [cleanup EXCEPT ![r] = "on"]
    /\ owed' = [owed EXCEPT ![r] = IF @ = "failed" THEN "failed" ELSE "pending"]

CanCancel(r) == r \in known /\ run[r].status \in {"queued", "running"} /\ KeyFree(r)

Cancel(r) ==
    /\ proc = "live" /\ CanCancel(r) /\ Cancelled(r)
    /\ UNCHANGED <<branch, live, open, pumpVars, upsets>> /\ TailKeeps

\* The cleanup, or its retry timer, finalizes the Session and asks the pump.
CleanupFinalizes(r) ==
    /\ Live /\ cleanup[r] # "off"
    /\ \/ Finalizes(r) /\ cleanup' = [cleanup EXCEPT ![r] = "off"] /\ Wakes(r)
       \/ /\ FinalizationFails(r) /\ cleanup' = [cleanup EXCEPT ![r] = "retry"]
          /\ UNCHANGED pumpVars
    /\ UNCHANGED <<run, branch, live>> /\ TailKeeps

-----------------------------------------------------------------------------
(* The conversation cleanup: what a tombstone, or a birth that failed, leaves. *)

\* A faulty SweepActive: a cleanup that waits to be retried counts as one under way.
SweepActiveInRetry == sweep.pc # "off"

SweepActive == sweep.pc \notin {"off", "retry"}

\* scheduleConversationCleanup: a cleanup under way is not started twice.
Schedule(mode, runs) ==
    /\ doomed' = (doomed \/ mode = "uncommitted")
    /\ sweep' = IF SweepActive
                THEN [sweep EXCEPT !.fresh = @ /\ mode = "tombstone"]
                ELSE LET all == runs \union (IF doomed /\ mode = "uncommitted" THEN sweep.asked ELSE {})
                     IN  [pc |-> IF mode = "tombstone" THEN "list" ELSE "runs",
                          mode |-> mode, asked |-> all, todo |-> all,
                          failed |-> FALSE, fresh |-> TRUE]

SweepKeeps == UNCHANGED <<proc, tailVars, pumpVars, op, birth, buried,
                          missed, confirmed>>

Stored == {r \in Runs : run[r].status \in Present}

SweepLists ==
    /\ Live /\ sweep.pc = "list"
    /\ \/ sweep' = [sweep EXCEPT !.pc = "runs", !.todo = @ \union Stored] /\ UNCHANGED upsets
       \/ sweep' = [sweep EXCEPT !.pc = "runs", !.failed = TRUE] /\ Upset
    /\ UNCHANGED <<diskVars, known, doomed>> /\ SweepKeeps

\* A faulty SweepWaits: the execution of the run is not awaited.
SweepWaitsNot(r) == cleanup[r] # "on"

\* The execution of the run and its cancellation cleanup are awaited.
SweepWaits(r) == r \notin live /\ cleanup[r] # "on"

Gone(r) == IF run[r].status \in Present THEN [run EXCEPT ![r].status = "gone"] ELSE run

SweepRun(r) ==
    /\ Live /\ sweep.pc = "runs" /\ r \in sweep.todo /\ SweepWaits(r)
    /\ \/ /\ run' = Gone(r) /\ known' = known \ {r}
          /\ sweep' = [sweep EXCEPT !.todo = @ \ {r}] /\ UNCHANGED upsets
       \/ /\ sweep' = [sweep EXCEPT !.todo = @ \ {r}, !.failed = TRUE] /\ Upset
          /\ UNCHANGED <<run, known>>
    /\ UNCHANGED <<control, session, branch, doomed>> /\ SweepKeeps

\* The lease of a run on the transcript, which its finalization releases.
Leased == live \union open # {}

\* A faulty SweepEnds: a cleanup that met a failure is over.
SweepEndsForGood(failed) == sweep' = NoSweep /\ UNCHANGED doomed

\* A cleanup that met a failure is retried; an uncommitted one stays owed until the
\* attempt that was scheduled last has succeeded.
SweepEnds(failed) ==
    /\ doomed' = (doomed /\ (failed \/ ~sweep.fresh))
    /\ sweep' = CASE failed -> [sweep EXCEPT !.pc = "retry", !.todo = {}, !.failed = FALSE]
                  [] ~failed /\ doomed' -> [NoSweep EXCEPT !.asked = sweep.asked]
                  [] OTHER -> NoSweep

SweepSession ==
    /\ Live /\ sweep.pc = "runs" /\ sweep.todo = {}
    /\ sweep.mode = "tombstone" \/ ~sweep.failed
    /\ \/ /\ ~Leased /\ session' = FALSE /\ branch' = {} /\ UNCHANGED upsets
          /\ IF sweep.mode = "tombstone" THEN SweepEnds(sweep.failed)
             ELSE sweep' = [sweep EXCEPT !.pc = "control"] /\ UNCHANGED doomed
       \/ /\ (Leased /\ UNCHANGED upsets) \/ Upset
          /\ SweepEnds(TRUE) /\ UNCHANGED <<session, branch>>
    /\ UNCHANGED <<control, run, known>> /\ SweepKeeps

SweepControl ==
    /\ Live
    /\ \/ /\ sweep.pc = "control"
          /\ \/ control' = "none" /\ SweepEnds(FALSE) /\ UNCHANGED upsets
             \/ SweepEnds(TRUE) /\ Upset /\ UNCHANGED control
       \/ /\ sweep.pc = "runs" /\ sweep.todo = {} /\ sweep.failed /\ sweep.mode # "tombstone"
          /\ SweepEnds(TRUE) /\ UNCHANGED <<control, upsets>>
    /\ UNCHANGED <<session, branch, run, known>> /\ SweepKeeps

SweepRetries ==
    /\ Live /\ sweep.pc = "retry" /\ Schedule(sweep.mode, sweep.asked)
    /\ UNCHANGED <<diskVars, known, upsets>> /\ SweepKeeps

-----------------------------------------------------------------------------
(* The operations that hold the key of the conversation. *)

OpKeeps == UNCHANGED <<proc, tailVars, buried>>
OpHolds == UNCHANGED <<branch, run, known, missed, confirmed>>
Goto(p) == op' = [op EXCEPT !.pc = p]
Returns == op' = NoOp

\* Where an operation starts once nothing of an earlier birth is owed.
Body(kind) == CASE kind = "submit" -> "control" [] kind = "delete" -> "tombstone"
                [] OTHER -> "move"

\* settlePendingUncommittedConversationCleanup, from its second half.
SettleCleanup(o) ==
    IF doomed
    THEN /\ op' = [o EXCEPT !.pc = "await", !.then = "settle"]
         /\ Schedule("uncommitted", sweep.asked)
    ELSE op' = [o EXCEPT !.pc = Body(o.kind)] /\ UNCHANGED sweepVars

Begins(kind, key) ==
    /\ proc = "live" /\ op.pc = "idle"
    /\ LET o == [NoOp EXCEPT !.kind = kind, !.key = key]
       IN  IF birth THEN op' = [o EXCEPT !.pc = "reconcile", !.then = "settle"]
                         /\ UNCHANGED sweepVars
           ELSE SettleCleanup(o)
    /\ UNCHANGED <<control, session, pumpVars, birth>> /\ OpHolds
    /\ OpKeeps

\* reconcilePendingUncommittedConversationBirth
OpReconciles ==
    /\ Live /\ op.pc = "reconcile"
    /\ \/ /\ Upset /\ Returns /\ UNCHANGED <<session, birth, sweepVars>>
       \/ /\ control = "none" /\ session' = FALSE /\ birth' = FALSE /\ UNCHANGED upsets
          /\ IF op.then = "settle" THEN SettleCleanup(op)
             ELSE Returns /\ UNCHANGED sweepVars
       \/ /\ control = "live" /\ birth' = FALSE
          /\ Schedule("uncommitted", Stored) /\ Goto("await")
          /\ UNCHANGED <<session, upsets>>
       \/ /\ control = "deleted" /\ Returns /\ UNCHANGED <<session, birth, sweepVars, upsets>>
    /\ UNCHANGED <<control, pumpVars>> /\ OpHolds /\ OpKeeps

\* The cleanup the operation awaits has ended, one way or the other.
OpAwaits ==
    /\ Live /\ op.pc = "await" /\ ~SweepActive
    /\ IF op.then = "settle" /\ ~doomed THEN Goto(Body(op.kind)) ELSE Returns
    /\ UNCHANGED <<control, session, pumpVars, birth, sweepVars, upsets>> /\ OpHolds
    /\ OpKeeps

\* A faulty Known: a submission that is repeated is taken for a new one.
KnownNever(key) == FALSE

Known(key) == \E r \in known : run[r].key = key

\* An error of the submission: a conversation it created is taken back.
Throws == IF op.created THEN op' = [op EXCEPT !.pc = "failed"] ELSE Returns

\* submitTurn up to its predecessor, the last visible run; a new conversation is born here.
\* The branch is read to find it: if that fails a new conversation stays without a run.
OpControls ==
    /\ Live /\ op.pc = "control"
    /\ \/ /\ control = "deleted" \/ Known(op.key) \/ Ambiguous(Documents)
          /\ Returns /\ UNCHANGED <<control, session, birth, upsets>>
       \/ /\ control = "live" /\ ~Known(op.key) /\ ~Ambiguous(Documents)
          /\ \/ /\ op' = [op EXCEPT !.pc = "store", !.after = Greatest(Visible(Documents))]
                /\ UNCHANGED upsets
             \/ Upset /\ Returns
          /\ UNCHANGED <<control, session, birth>>
       \/ /\ control = "none" /\ ~Known(op.key) /\ session' = TRUE
          /\ \/ /\ control' = "live" /\ UNCHANGED <<birth, upsets>>
                /\ op' = [op EXCEPT !.pc = "store", !.created = TRUE]
             \/ control' = "live" /\ Upset /\ Returns /\ UNCHANGED birth
             \/ /\ control' \in {"none", "live"} /\ Upset /\ birth' = TRUE
                /\ op' = [op EXCEPT !.pc = "reconcile", !.then = "throw"]
    /\ UNCHANGED <<pumpVars, sweepVars>> /\ OpHolds /\ OpKeeps

Unused == {r \in Runs : run[r].status = "absent"}

\* The snapshot is saved, and then held; a save that throws may have been stored.
OpStores ==
    /\ Live /\ op.pc = "store"
    /\ \/ /\ \/ Unused = {}
             \/ op.after # 0 /\ \E q \in known : run[q].status = "queued" /\ run[q].behind = op.after
          /\ Throws /\ UNCHANGED <<run, known, upsets>>
       \/ /\ Unused # {}
          /\ ~ \E q \in known : op.after # 0 /\ run[q].status = "queued" /\ run[q].behind = op.after
          /\ LET r == Least(Unused)
                 stored == [run EXCEPT ![r] = [status |-> "queued", phase |-> "none",
                                               behind |-> op.after, key |-> op.key]]
             IN  \/ /\ run' = stored /\ known' = known \union {r}
                    /\ op' = [op EXCEPT !.pc = IF op.after = 0 THEN "start" ELSE "recheck",
                                        !.run = r]
                    /\ UNCHANGED upsets
                 \/ /\ run' \in {run, stored} /\ Upset
                    /\ op' = IF op.created THEN [op EXCEPT !.pc = "failed", !.run = r] ELSE NoOp
                    /\ UNCHANGED known
    /\ UNCHANGED <<control, session, branch, pumpVars, birth, sweepVars, missed, confirmed>>
    /\ OpKeeps

\* A run behind nothing is started at once; if that fails the pump will do it.  The answer
\* to the client is read after that, which may fail as well.
OpStarts ==
    /\ Live /\ op.pc = "start" /\ KeyFree(op.run)
    /\ \/ /\ run[op.run].status = "queued" /\ Running(op.run) /\ UNCHANGED pumpVars
          /\ (Returns /\ UNCHANGED upsets) \/ (Upset /\ Throws)
       \/ /\ (run[op.run].status # "queued" /\ UNCHANGED upsets) \/ Upset
          /\ Request(Documents) /\ Throws /\ UNCHANGED <<run, live, open>>
    /\ UNCHANGED <<control, session, branch, known, birth, sweepVars, missed, confirmed>>
    /\ UNCHANGED <<proc, owed, cleanup, buried>>

\* The predecessor may have ended while the run was stored.
OpRechecks ==
    /\ Live /\ op.pc = "recheck"
    /\ IF run[op.after].status \in Terminal THEN Request(Documents) /\ Goto("join")
       ELSE Returns /\ UNCHANGED pumpVars
    /\ UNCHANGED <<control, session, birth, sweepVars, upsets>> /\ OpHolds /\ OpKeeps

OpJoins ==
    /\ Live /\ op.pc = "join" /\ pump.pc = "idle" /\ Returns
    /\ UNCHANGED <<control, session, pumpVars, birth, sweepVars, upsets>> /\ OpHolds
    /\ OpKeeps

\* A faulty Leftover: the run whose save threw is taken to be absent.
LeftoverNone(r) == {}

\* What is stored of a run whose save threw.
Leftover(r) == {r} \intersect Stored

\* cleanupFailedInitialConversationBirth: the repository is asked, not the memory.
OpTakesBack ==
    /\ Live /\ op.pc = "failed"
    /\ \/ op.run \in Stored \intersect known /\ Returns /\ UNCHANGED <<sweepVars, upsets>>
       \/ /\ op.run \notin Stored \intersect known
          /\ Schedule("uncommitted", Leftover(op.run))
          /\ op' = [op EXCEPT !.pc = "await", !.then = "throw"] /\ UNCHANGED upsets
       \/ /\ op.run # 0 /\ Upset /\ Schedule("uncommitted", {op.run})
          /\ op' = [op EXCEPT !.pc = "await", !.then = "throw"]
    /\ UNCHANGED <<control, session, pumpVars, birth>> /\ OpHolds /\ OpKeeps

\* A faulty Unfinished: a queued run is left to its tombstone.
UnfinishedRunning == {r \in known : run[r].status = "running"}

Unfinished == {r \in known : run[r].status \in {"queued", "running"}}

\* deleteConversation: the tombstone first, then every run that has not ended is cancelled
\* in turn.  A save that throws may have been stored: the revision that memory has is an old
\* one then, and every later save of it is refused.
OpBuries ==
    /\ Live /\ op.pc = "tombstone"
    /\ \/ /\ control = "none" \/ buried
          /\ Returns /\ UNCHANGED <<control, buried, upsets>>
       \/ /\ control # "none" /\ ~buried /\ control' = "deleted"
          /\ op' = [op EXCEPT !.pc = "cancel", !.left = Unfinished]
          /\ UNCHANGED <<buried, upsets>>
       \/ /\ control = "live" /\ ~buried /\ Upset /\ buried' \in BOOLEAN
          /\ Returns /\ UNCHANGED control
    /\ UNCHANGED <<proc, tailVars, session, pumpVars, birth, sweepVars>> /\ OpHolds

\* The cancel of a run that has ended since: a finalization that is still owed becomes the
\* work of a cleanup.
Recancelled(r) ==
    /\ cleanup' = IF owed[r] = "no" THEN cleanup ELSE [cleanup EXCEPT ![r] = "on"]
    /\ UNCHANGED <<run, owed>>

OpCancels ==
    /\ Live /\ op.pc = "cancel"
    /\ \/ /\ \E r \in op.left :
                /\ KeyFree(r) /\ op' = [op EXCEPT !.left = @ \ {r}]
                /\ IF r \in Unfinished THEN Cancelled(r) ELSE Recancelled(r)
          /\ UNCHANGED <<sweepVars, confirmed, upsets>>
       \/ /\ op.left = {} /\ Returns /\ Schedule("tombstone", known)
          /\ confirmed' = TRUE /\ UNCHANGED <<run, owed, cleanup, upsets>>
       \/ /\ op.left \intersect Unfinished # {} /\ Upset /\ Returns
          /\ UNCHANGED <<run, owed, cleanup, sweepVars, confirmed>>
    /\ UNCHANGED <<control, session, branch, known, live, open, proc, pumpVars, birth,
                   buried, missed>>

\* rollbackConversation to a completed run, if nothing visible is unfinished and no turn
\* behind it ended without an entry.
OpMoves ==
    /\ Live /\ op.pc = "move" /\ Returns
    /\ LET seen == Visible(Documents)
           targets == {t \in seen : /\ run[t].status = "completed"
                                    /\ \A r \in seen : r > t => run[r].phase # "none"}
       IN  \/ /\ control = "live" /\ ~Ambiguous(Documents) /\ ~Leased
              /\ \A r \in seen : run[r].status \in Terminal
              /\ \E t \in targets : branch' = {r \in branch : r <= t}
           \/ UNCHANGED branch
    /\ UNCHANGED <<control, session, run, known, pumpVars, birth, sweepVars,
                   missed, confirmed, upsets>>
    /\ OpKeeps

-----------------------------------------------------------------------------
(* The process stops at any moment and is started again. *)

Crash ==
    /\ Live /\ Upset
    /\ control' = (IF buried THEN "deleted" ELSE control) /\ buried' = FALSE
    /\ proc' = "down" /\ known' = {} /\ live' = {} /\ open' = {}
    /\ owed' = [r \in Runs |-> "no"] /\ cleanup' = [r \in Runs |-> "off"]
    /\ pump' = NoPump /\ timer' = FALSE /\ op' = NoOp /\ birth' = FALSE
    /\ sweep' = NoSweep /\ doomed' = FALSE
    /\ UNCHANGED <<session, branch, run, missed, confirmed>>

RecoverKeeps == UNCHANGED <<tailVars, op, birth, buried, missed, confirmed, upsets>>

\* recoverPersistedRuns of a conversation that is deleted or never had a run.
RecoverRemains ==
    /\ proc = "down" /\ proc' = "recovering"
    /\ control = "deleted" \/ Stored = {}
    /\ CASE control = "deleted" -> Schedule("tombstone", Stored)
         [] control = "live"    -> Schedule("uncommitted", {})
         [] OTHER               -> UNCHANGED sweepVars
    /\ UNCHANGED <<diskVars, known, pumpVars>> /\ RecoverKeeps

Recovered == [r \in Runs |-> IF run[r].status = "running"
                             THEN [run[r] EXCEPT !.status = "failed"] ELSE run[r]]

\* recoverPersistedRuns of a conversation with runs: what was running is blocked, and the
\* pump is asked for a queued run behind nothing or behind a run that ended.  Without a
\* visible run, or with an ambiguous one, the conversation is unavailable.
RecoverRuns ==
    /\ proc = "down" /\ control = "live" /\ Stored # {}
    /\ run' = Recovered /\ known' = Stored
    /\ IF Ambiguous(Recovered) \/ Visible(Recovered) = {}
       THEN proc' = "isolated" /\ UNCHANGED pumpVars
       ELSE /\ proc' = "recovering"
            /\ IF \E r \in Stored : /\ Recovered[r].status = "queued"
                                    /\ Recovered[r].behind # 0 =>
                                           Recovered[Recovered[r].behind].status \in Terminal
               THEN Request(Recovered) ELSE UNCHANGED pumpVars
    /\ UNCHANGED <<control, session, branch, sweepVars>> /\ RecoverKeeps

\* readyPromise settles when the cleanups and activations of the recovery have.
RecoveryEnds ==
    /\ proc = "recovering" /\ ~SweepActive /\ pump.pc = "idle"
    /\ proc' = "live"
    /\ UNCHANGED <<diskVars, known, pumpVars, sweepVars>> /\ RecoverKeeps

-----------------------------------------------------------------------------

\* The submission identifiers in the order of their first use; a client that sends none has
\* a new one each time.
Submissions == 1 .. 1 + Greatest({run[r].key : r \in Runs})

Submit(key) == Unused # {} /\ Begins("submit", key) /\ UNCHANGED upsets
Delete      == Begins("delete", 0) /\ Upset
Rollback    == Begins("rollback", 0) /\ Upset

Operation ==
    /\ op.pc # "idle"
    /\ \/ OpReconciles \/ OpAwaits \/ OpControls \/ OpStores \/ OpStarts
       \/ OpRechecks \/ OpJoins \/ OpTakesBack \/ OpBuries \/ OpCancels \/ OpMoves

Pump == PumpChooses \/ PumpFinalizes \/ PumpStarts \/ PumpTimer

Execution(r) ==
    /\ r \in live
    /\ RunAdvances(r) \/ RunEnds(r) \/ RunFinalizes(r) \/ ExecutionEnds(r)

Sweep ==
    /\ sweep.pc # "off"
    /\ \/ SweepLists \/ SweepSession \/ SweepControl \/ SweepRetries
       \/ \E r \in Runs : SweepRun(r)

Recovery == proc # "live" /\ (RecoverRemains \/ RecoverRuns \/ RecoveryEnds)

Next ==
    \/ \E key \in Submissions : Submit(key)
    \/ Delete \/ Rollback \/ Operation \/ Pump \/ Sweep \/ Crash \/ Recovery
    \/ \E r \in Runs : Cancel(r) \/ Execution(r) \/ CleanupFinalizes(r)

Spec == Init /\ [][Next]_vars

\* Promises settle and timers fire; nobody has to submit, cancel, delete or crash.  The
\* promise of an attempt settles when that attempt ends, whatever the pump does next.
FairSpec ==
    /\ Spec /\ SF_vars(OpJoins)
    /\ WF_vars(Operation) /\ WF_vars(Pump) /\ WF_vars(Sweep) /\ WF_vars(Recovery)
    /\ \A r \in Runs : WF_vars(Execution(r)) /\ WF_vars(CleanupFinalizes(r))

-----------------------------------------------------------------------------

RunRecord ==
    [status : Present \union {"absent", "gone"}, phase : {"none", "started", "entered"},
     behind : 0 .. MaxRun, key : Nat]

PumpRecord ==
    [pc : {"idle", "read", "reread", "finalize", "claimed"}, view : [Runs -> RunRecord],
     cand : 0 .. MaxRun, merged : BOOLEAN]

OpRecord ==
    [pc : {"idle", "reconcile", "await", "control", "store", "start", "recheck", "join",
           "failed", "tombstone", "cancel", "move"},
     kind : {"none", "submit", "delete", "rollback"}, then : {"none", "settle", "throw"},
     key : Nat, after : 0 .. MaxRun, run : 0 .. MaxRun, left : SUBSET Runs, created : BOOLEAN]

SweepRecord ==
    [pc : {"off", "list", "runs", "control", "retry"}, mode : {"none", "tombstone", "uncommitted"},
     asked : SUBSET Runs, todo : SUBSET Runs, failed : BOOLEAN, fresh : BOOLEAN]

\* Every variable has its type; only a run that has started has an execution.
TypeOK ==
    /\ control \in {"none", "live", "deleted"} /\ session \in BOOLEAN
    /\ branch \subseteq Runs /\ known \subseteq Runs
    /\ live \subseteq Runs /\ open \subseteq Runs
    /\ run \in [Runs -> RunRecord]
    /\ owed \in [Runs -> {"no", "pending", "failed"}]
    /\ cleanup \in [Runs -> {"off", "on", "retry"}]
    /\ \A r \in live : run[r].status \in Terminal \union {"running"}
    /\ proc \in {"live", "recovering", "down", "isolated"}
    /\ pump \in PumpRecord /\ op \in OpRecord /\ sweep \in SweepRecord
    /\ timer \in BOOLEAN /\ birth \in BOOLEAN /\ buried \in BOOLEAN /\ doomed \in BOOLEAN
    /\ missed \in BOOLEAN /\ confirmed \in BOOLEAN /\ upsets \in 0 .. MaxUpset

\* Some run ended between the capture of its start leaf and its first entry: it is not on
\* the branch, and not taken for a turn without entries either.
Hides == \E r \in Runs : run[r].status \in Terminal /\ run[r].phase = "started"

\* A run that waits for its turn is visible in its conversation ("must not hide successors").
QueuedStaysVisible ==
    proc = "live" /\ control = "live" =>
        \A r \in known : run[r].status = "queued" => r \in Visible(Documents)

\* No run is on disk without the document of its conversation.
RunsAreOwned == control = "none" => Stored = {}

\* Two runs of one submission.
Twins(r, q) ==
    /\ r # q /\ run[r].key = run[q].key /\ run[r].key # 0
    /\ run[r].status # "absent" /\ run[q].status # "absent"

\* What the conversation shows of a run is its work: it is running, or on the branch.
Stands(r) == run[r].status \in Present /\ (run[r].status = "running" \/ r \in branch)

\* A turn that a client submits again with the same key is executed at most once.  After
\* one upset at most that is so without exception; after more of them a first execution may
\* have been taken back, rolled back or hidden, but never do two of them stand.
ExecutedOnce ==
    \A r, q \in Runs : Twins(r, q) =>
        /\ ~(Stands(r) /\ Stands(q))
        /\ upsets < 2 => run[r].phase = "none" \/ run[q].phase = "none"

\* The turns of TurnQueue: a turn that ended is active as long as it has the Session.
TurnOf(r) ==
    CASE run[r].status = "absent" -> "none"
      [] run[r].status = "queued" -> "waiting"
      [] run[r].status = "running" \/ (run[r].status \in Terminal /\ r \in open) -> "active"
      [] OTHER -> "over"

Queue == INSTANCE TurnQueue WITH
    turn <- [r \in Runs |-> TurnOf(r)], behind <- [r \in Runs |-> run[r].behind]

\* The conversation implements the queue of turns, as long as no run hides its successors.
ServesInOrder == Queue!Init /\ [][Queue!Next \/ Hides]_(Queue!vars)

\* Once a deletion was reported as done, no run of the conversation starts.
NothingStartsAfterDeletion ==
    [][confirmed => \A r \in Runs : run'[r].status = "running" => run[r].status = "running"]_vars

\* A run that ended by itself and whose Session finalization failed, in a conversation that
\* was deleted: the pump, which would retry it, does not look at deleted conversations.
LeaseIsLeft ==
    control = "deleted" /\ \E r \in Runs : owed[r] = "failed" /\ cleanup[r] = "off"

\* A deletion that was reported as done is carried out, whatever fails meanwhile: no run
\* is left, and no transcript unless its lease is.
DeletionCompletes == confirmed ~> Stored = {} /\ (~session \/ LeaseIsLeft)

\* The Session of a run was finalized, and the retry that came second fails for ever.
Stuck == \E r \in Runs : owed[r] = "failed" /\ r \notin open /\ run[r].phase # "none"

\* A run that waits starts or is given up, unless the attempt of the pump that should have
\* started it had read the conversation before, or it is hidden.
QueuedStarts ==
    \A r \in Runs : run[r].status = "queued" ~>
        \/ run[r].status # "queued" \/ Hides \/ Stuck \/ missed
        \/ control # "live" \/ proc = "isolated" \/ r \notin known

\* As the comment on the second look at the predecessor has it: one of the two paths
\* activates the run.
EitherPathActivates ==
    \A r \in Runs : run[r].status = "queued" ~>
        \/ run[r].status # "queued" \/ Hides
        \/ control # "live" \/ proc = "isolated" \/ r \notin known

\* The key of the conversation is given back.
KeyIsReleased == op.pc # "idle" ~> op.pc = "idle"

=============================================================================
