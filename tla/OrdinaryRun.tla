----------------------------- MODULE OrdinaryRun -----------------------------
(***************************************************************************)
(* One Ordinary run in the process that executes it:                       *)
(* src/app/ordinary-agent/ordinary-agent-feature.ts (the owner of the      *)
(* snapshot and of the run's live handles), agent-loop-execution.ts (the   *)
(* resource lease and the Session control) and                             *)
(* src/adapters/intelligence/agent-session-loop.ts (the harness and its    *)
(* tools).                                                                 *)
(*                                                                         *)
(* Several asynchronous tasks share the run: the execution, the operation  *)
(* that carries an approval decision, the tools of the harness, the clean- *)
(* up of a cancellation, the activation pump and a retry timer.  Snapshot  *)
(* writes of one run are serialized (enqueue), and a task has at most one  *)
(* of them under way, so a write is one step, which commits or fails.      *)
(* Everything between two steps of a task is what its next await lets in.  *)
(***************************************************************************)
EXTENDS OrdinaryRunState

CONSTANTS
    Gated,      \* calls that need the user's confirmation
    MaxRound,   \* bound: calls the model makes in one round
    MaxFault,   \* bound: writes, leases and restores that fail
    MaxCrash,   \* bound: crashes of the process
    MaxCancel   \* bound: cancellations asked for

ASSUME BoundsAssumption ==
    /\ IsFiniteSet(Calls) /\ Gated \subseteq Calls
    /\ MaxRound \in Nat
    /\ MaxFault \in Nat
    /\ MaxCrash \in Nat
    /\ MaxCancel \in Nat

Tasks == {"execute", "decide"}   \* runExecution, the operation of decideApproval

TaskPc == {"off", "loop", "apply", "releaseOk", "releaseErr", "caught",
           "commitFailed", "finalize", "flush", "check"}

OutcomeKind == {"none", "approval_required", "completed", "cancelled", "failed"}

NoOutcome == [kind |-> "none", facts |-> NoFacts, requests |-> {}]

VARIABLES
    run,          \* the durable snapshot
    proc,         \* the process: live, recovering, or this run isolated
    pc, outcome,  \* the tasks
    execution,    \* executions.get(runId)
    reserved,     \* approvalReservations.has(runId)
    controller,   \* controllers.has(runId)
    aborted,      \* its signal
    continuation, \* continuations.has(runId)
    accepted,     \* acceptedToolResults.get(runId)
    harness,      \* the Pi harness
    halted,       \* the harness was told to stop
    tool,         \* where each tool call is in the harness
    result,       \* state.toolResults of the loop
    pending,      \* the approval coordinator's pending confirmations
    session,      \* the Session control of the run and its write lease
    finalization, \* sessionFinalizationPending and sessionFinalizationFailures
    cleanup,      \* the cancellation cleanup task or its retry timer
    cleanupCont,  \* cancellationCleanupContinuations.has(runId)
    cleanupFin,   \* the finalizeSession flag the cleanup task closes over
    pump,         \* the activation pump of the conversation
    retry,        \* the retry timer of a completion that was not committed
    effect,       \* ghost: the outside effect of each tool
    faults, crashes, cancels

taskVars    == <<pc, outcome, execution, reserved>>
handleVars  == <<controller, aborted, continuation>>
harnessVars == <<harness, halted, tool, result, pending, effect>>
sessionVars == <<session, finalization>>
cleanupVars == <<cleanup, cleanupCont, cleanupFin>>
schedVars   == <<pump, retry>>
systemVars  == <<proc, crashes, cancels>>
vars == <<run, taskVars, handleVars, accepted, harnessVars, sessionVars,
          cleanupVars, schedVars, systemVars, faults>>

Init ==
    /\ run = InitialRun /\ proc = "live"
    /\ pc = [t \in Tasks |-> "off"] /\ outcome = [t \in Tasks |-> NoOutcome]
    /\ execution = "none" /\ reserved = FALSE
    /\ controller = FALSE /\ aborted = FALSE /\ continuation = FALSE
    /\ accepted = NoFacts
    /\ harness = "off" /\ halted = FALSE
    /\ tool = [c \in Calls |-> "unused"] /\ result = NoFacts /\ pending = {}
    /\ session = "none" /\ finalization = "clear"
    /\ cleanup = "off" /\ cleanupCont = FALSE /\ cleanupFin = FALSE
    /\ pump = "off" /\ retry = "off"
    /\ effect = [c \in Calls |-> "none"]
    /\ faults = 0 /\ crashes = 0 /\ cancels = 0

-----------------------------------------------------------------------------
(* Writes and the helpers of the feature. *)

Live == proc = "live"

Fault == faults < MaxFault /\ faults' = faults + 1

Commit(r) == run' = r /\ UNCHANGED faults

\* A write that throws: the transition is refused, or the repository fails.
Throws(can) == run' = run /\ ((~can /\ UNCHANGED faults) \/ Fault)

Goto(t, p) == pc' = [pc EXCEPT ![t] = p]

\* rememberToolResults: an accepted final result may not be replaced.
Remembers(c, f) == f = "none" \/ accepted[c] \in {"none", "approval", f}

Remembered(facts) ==
    [c \in Calls |-> IF facts[c] # "none" /\ Remembers(c, facts[c])
                     THEN facts[c] ELSE accepted[c]]

\* forgetPersistedToolResults
Forgotten(r, facts) ==
    [c \in Calls |-> IF facts[c] # "none" /\ r.fact[c] = facts[c]
                     THEN "none" ELSE accepted[c]]

\* A faulty Awaken: the wake-up is lost.
AwakenLost == UNCHANGED pump

\* A scheduling event; one that finds the pump at work is merged into it.
Awaken == pump' = IF pump \in {"off", "timer"} THEN "due" ELSE pump

\* finalizeExecutionSession up to its first await.  Without a Session control it
\* throws, and only a run that never started is forgiven that.
FinalizeStart(r) ==
    IF session # "none" THEN "wait"
    ELSE IF r.phase = "not_started" THEN "ok" ELSE "failed"

\* A faulty Finalizing: the result of the call is taken for the new state.
FinalizingAsCalled(start) == start

Finalizing(start) ==
    CASE start = "ok"     -> "clear"
      [] start = "failed" -> "failed"
      [] OTHER            -> IF finalization = "failed" THEN "failed" ELSE "pending"

\* The task that stored the end of a completed run, or the block of one whose completion
\* was not stored, keeps the response: its finalization only releases the Session.  All
\* others restore the safe leaf first, those asked for later unless the run is completed.
TaskRestores  == run.status \notin {"completed", "blocked"}
LaterRestores == run.status # "completed"

\* Its end: the harness has stopped and the lease is given back, or it fails twice,
\* in the restore (the Session is open) or after it.
FinalizeEnds(ok, restores) ==
    IF ok
    THEN /\ restores => session # "open"
         /\ session # "acquiring" /\ harness = "off"
         /\ session' = "none" /\ finalization' = "clear"
         /\ UNCHANGED faults
    ELSE /\ session # "none" /\ Fault
         /\ finalization' = "failed" /\ UNCHANGED session

\* settleExecution, first part: one write for every result still in the buffer.
FlushAccepted ==
    \E F \in SUBSET {c \in Calls : accepted[c] \notin {"none", run.fact[c]}} :
        LET stays(c) == c \in F \/ ~Compatible(run.fact[c], accepted[c]) IN
        /\ faults + Cardinality(F) <= MaxFault
        /\ faults' = faults + Cardinality(F)
        /\ run' = Merge(run, [c \in Calls |-> IF stays(c) THEN "none" ELSE accepted[c]])
        /\ accepted' = [c \in Calls |-> IF stays(c) THEN accepted[c] ELSE "none"]

\* reconcilePendingToolRound: the facts are saved, then the Session entries are
\* written through a lease of their own, then the closed round is saved.
ReconcilePending(ok) ==
    LET noted == ReconcileRound(run) IN
    IF ok
    THEN /\ session # "open" /\ CanCloseRound(noted, run.round)
         /\ Commit(RoundClosed(noted))
    ELSE \/ session = "open" /\ Commit(noted)
         \/ Fault /\ run' \in {run, noted}

\* settleExecution, second part.
SettleRound(ok) ==
    IF run.status # "awaiting_approval" /\ run.round # {}
    THEN ReconcilePending(ok) /\ accepted' = IF ok THEN NoFacts ELSE accepted
    ELSE /\ ok = (accepted = NoFacts)
         /\ Commit(IF IsTerminal(run) THEN CloseLostApprovals(run) ELSE run)
         /\ UNCHANGED accepted

-----------------------------------------------------------------------------
(* The execution starts: the pump activates the queued run. *)

StartRun ==
    /\ Live /\ run.status = "queued"
    /\ Commit(Start(run))
    /\ Goto("execute", "loop") /\ execution' = "execute"
    /\ controller' = TRUE
    /\ harness' = "acquire" /\ session' = "acquiring"
    /\ UNCHANGED <<outcome, reserved, aborted, continuation, accepted, halted, tool,
                   result, pending, effect, finalization, cleanupVars, schedVars,
                   systemVars>>

\* The loop hands an outcome to the task that awaits it, if any.
Returned(kind, facts, asked) ==
    /\ outcome' = [t \in Tasks |->
           IF pc[t] = "loop" THEN [kind |-> kind, facts |-> facts, requests |-> asked]
           ELSE outcome[t]]
    /\ pc' = [t \in Tasks |->
           IF pc[t] # "loop" THEN pc[t]
           ELSE IF \A c \in Calls : Remembers(c, facts[c]) THEN "apply" ELSE "caught"]
    /\ accepted' = IF \E t \in Tasks : pc[t] = "loop" THEN Remembered(facts) ELSE accepted
    /\ UNCHANGED <<execution, reserved>>

\* resources.acquire; its failure is an outcome without a Session control.
Acquire ==
    /\ harness = "acquire"
    /\ \/ /\ harness' = "start" /\ session' = "open"
          /\ UNCHANGED <<taskVars, accepted, faults>>
       \/ /\ Fault
          /\ harness' = "off" /\ session' = "none"
          /\ Returned(IF aborted THEN "cancelled" ELSE "failed", NoFacts, {})
    /\ UNCHANGED <<run, handleVars, halted, tool, result, pending, effect,
                   finalization, cleanupVars, schedVars, systemVars>>

\* The start leaf and then the input entry are committed.  A failure of the first
\* makes loop.execute throw, one of the second ends the harness.
CaptureStart ==
    /\ harness = "start" /\ run.phase = "not_started"
    /\ \/ /\ CanCaptureStart(run) /\ Commit(StartCaptured(run))
          /\ UNCHANGED <<taskVars, harness>>
       \/ /\ Throws(CanCaptureStart(run))
          /\ harness' = "off" /\ Goto("execute", "caught")
          /\ UNCHANGED <<outcome, execution, reserved>>
    /\ UNCHANGED <<handleVars, accepted, halted, tool, result, pending, effect,
                   sessionVars, cleanupVars, schedVars, systemVars>>

\* What the harness appends goes through the run's lease: a restored Session
\* refuses it, and the checkpoint that follows the entry may be refused too.
Checkpoint(can, r, next) ==
    \/ session = "open" /\ can /\ Commit(r) /\ harness' = next
    \/ Throws(session = "open" /\ can) /\ harness' = "broken"

HarnessKeeps ==
    UNCHANGED <<taskVars, handleVars, accepted, halted, sessionVars, cleanupVars,
                schedVars, systemVars>>

CommitInput ==
    /\ harness = "start" /\ run.phase # "not_started"
    /\ Checkpoint(CanCommitInput(run), InputCommitted(run), "model")
    /\ UNCHANGED <<tool, result, pending, effect>> /\ HarnessKeeps

\* The model asks for a round of calls.
ToolRound(calls) ==
    /\ harness = "model" /\ calls # {} /\ Cardinality(calls) <= MaxRound
    /\ \A c \in calls : tool[c] = "unused"
    /\ Checkpoint(CanAcceptRound(run), RoundAccepted(run, calls), "tools")
    /\ tool' = [c \in Calls |->
           IF c \in calls /\ harness' = "tools" THEN "idle" ELSE tool[c]]
    /\ UNCHANGED <<result, pending, effect>> /\ HarnessKeeps

\* The model answers.
Respond ==
    /\ harness = "model"
    /\ Checkpoint(CanRespond(run), Responded(run), "answered")
    /\ UNCHANGED <<tool, result, pending, effect>> /\ HarnessKeeps

\* Calls of the round the harness is in.
RoundCalls == {c \in Calls : tool[c] \notin {"unused", "closed"}}

\* All results of the round were delivered: its entries are committed.  A result
\* the owner did not accept ends the harness.
CloseRound ==
    /\ harness = "tools" /\ \A c \in RoundCalls : tool[c] = "delivered"
    /\ Checkpoint(CanCloseRound(run, RoundCalls), RoundClosed(run),
                  IF \E c \in Calls : result[c] = "unaccepted" THEN "broken" ELSE "model")
    /\ tool' = [c \in Calls |-> IF c \in RoundCalls THEN "closed" ELSE tool[c]]
    /\ UNCHANGED <<result, pending, effect>> /\ HarnessKeeps

\* The harness ends: answered, failed (provider or maintenance), or aborted.  The
\* resource lease is given back before the outcome is returned.
HarnessStops ==
    /\ harness \in {"start", "model", "answered", "broken"}
    /\ harness' = "off"
    /\ Returned(IF halted THEN "cancelled"
                ELSE IF harness = "answered" THEN "completed" ELSE "failed", result, {})
    /\ UNCHANGED <<run, handleVars, halted, tool, result, pending, effect,
                   sessionVars, cleanupVars, schedVars, systemVars, faults>>

-----------------------------------------------------------------------------
(* Tools. *)

ToolKeeps ==
    UNCHANGED <<taskVars, handleVars, harness, halted, sessionVars, cleanupVars,
                schedVars, systemVars>>

\* onToolResult begins: the result is remembered, and its write is queued.
Returns(c, f) ==
    /\ accepted' = Remembered(OneFact(c, f))
    /\ result' = [result EXCEPT ![c] = IF Remembers(c, f) THEN f ELSE "unaccepted"]
    /\ tool' = [tool EXCEPT ![c] = IF Remembers(c, f) THEN "persisting" ELSE "delivered"]
    /\ UNCHANGED <<run, faults>>

\* Preflight or the first attempt finds that the call needs a confirmation.
ToolGates(c) ==
    /\ tool[c] = "idle" /\ c \in Gated
    /\ Returns(c, "approval")
    /\ UNCHANGED <<pending, effect>> /\ ToolKeeps

\* The call does not run: blocked by preflight, rejected, or stopped before it ran
\* (at once, or while it waits for its confirmation).
ToolRefused(c) ==
    /\ tool[c] \in {"idle", "rejected"} \/ (tool[c] = "gated" /\ halted)
    /\ Returns(c, "refused")
    /\ pending' = pending \ {c}
    /\ UNCHANGED effect /\ ToolKeeps

\* A faulty ToolExecutes: a rejected call runs.
ToolExecutesDecided(c) ==
    /\ (tool[c] = "idle" /\ c \notin Gated) \/ tool[c] \in {"approved", "rejected"}
    /\ tool' = [tool EXCEPT ![c] = "executing"]
    /\ effect' = [effect EXCEPT ![c] = "started"]
    /\ UNCHANGED <<run, faults, accepted, result, pending>> /\ ToolKeeps

ToolExecutes(c) ==
    /\ (tool[c] = "idle" /\ c \notin Gated) \/ tool[c] = "approved"
    /\ tool' = [tool EXCEPT ![c] = "executing"]
    /\ effect' = [effect EXCEPT ![c] = "started"]
    /\ UNCHANGED <<run, faults, accepted, result, pending>> /\ ToolKeeps

ToolEnds(c) ==
    /\ tool[c] = "executing"
    /\ effect' = [effect EXCEPT ![c] = "ended"]
    /\ Returns(c, "reported")
    /\ UNCHANGED pending /\ ToolKeeps

\* persistToolResult ignores a result nobody owns any more.
Disowned(c) == run.status # "running" /\ ~controller /\ accepted[c] = "none"

\* The queued write of onToolResult.  An approval that is stored waits for its
\* decision; a result that is not stored is delivered as a failure.
ToolPersists(c) ==
    /\ tool[c] = "persisting"
    /\ LET f   == result[c]
           can == Disowned(c) \/ Compatible(run.fact[c], f)
       IN
       \/ /\ can
          /\ Commit(IF Disowned(c) THEN run ELSE Merge(run, OneFact(c, f)))
          /\ accepted' = Forgotten(run', OneFact(c, f))
          /\ tool' = [tool EXCEPT ![c] = IF f = "approval" THEN "gated" ELSE "delivered"]
          /\ pending' = IF f = "approval" /\ ~halted THEN pending \cup {c} ELSE pending
          /\ UNCHANGED result
       \/ /\ ~Disowned(c) /\ run.fact[c] # f /\ Throws(can)
          /\ result' = [result EXCEPT ![c] = "unaccepted"]
          /\ tool' = [tool EXCEPT ![c] = "delivered"]
          /\ UNCHANGED <<accepted, pending>>
    /\ UNCHANGED effect /\ ToolKeeps

-----------------------------------------------------------------------------
(* The tasks: what runExecution and decideApproval do with an outcome. *)

TaskKeeps ==
    UNCHANGED <<harnessVars, sessionVars, cleanupVars, schedVars, systemVars>>

\* A confirmation is pending: the loop returns a pause, a snapshot of its results
\* and of the pending confirmations, and goes on with its other tools.
Pause ==
    /\ harness = "tools" /\ pending # {}
    /\ \E t \in Tasks : pc[t] = "loop"
    /\ Returned("approval_required", result, pending)
    /\ UNCHANGED <<run, handleVars, harnessVars, sessionVars, cleanupVars, schedVars,
                   systemVars, faults>>

\* A faulty EndsTask: the controller stays behind.
EndsTaskKeepsController(t) ==
    /\ Goto(t, "off")
    /\ reserved' = (reserved /\ t # "decide")
    /\ execution' = IF execution = t THEN "none" ELSE execution
    /\ Awaken /\ UNCHANGED controller

\* The handles that belong to the task go with it; a pause keeps the controller.
EndsTask(t) ==
    /\ Goto(t, "off")
    /\ controller' = (controller /\ outcome[t].kind = "approval_required")
    /\ reserved' = (reserved /\ t # "decide")
    /\ execution' = IF execution = t THEN "none" ELSE execution
    /\ Awaken

\* The pause and its live continuation are admitted by one write; otherwise the
\* continuation is released, which stops the harness.  A paused task ends at once
\* unless results came in since the snapshot.
ApplyPause(t) ==
    /\ pc[t] = "apply" /\ outcome[t].kind = "approval_required"
    /\ LET o   == outcome[t]
           can == ~continuation /\ CanPause(run, o.facts, o.requests)
           releases(next) ==
               /\ Goto(t, next) /\ halted' = TRUE
               /\ UNCHANGED <<accepted, continuation, execution, reserved, controller, pump>>
       IN
       \/ IsTerminal(run) /\ releases("releaseOk") /\ UNCHANGED <<run, faults>>
       \/ ~IsTerminal(run) /\ Throws(can) /\ releases("releaseErr")
       \/ /\ ~IsTerminal(run) /\ can
          /\ Commit(Paused(run, o.facts, o.requests))
          /\ continuation' = TRUE
          /\ accepted' = Forgotten(run', o.facts)
          /\ IF accepted' = NoFacts
             THEN EndsTask(t)
             ELSE Goto(t, "flush") /\ UNCHANGED <<execution, reserved, controller, pump>>
          /\ UNCHANGED halted
    /\ UNCHANGED <<outcome, aborted, harness, tool, result, pending, effect, sessionVars,
                   cleanupVars, retry, systemVars>>

\* continuation.release() returns when the harness has stopped.
Released(t) ==
    /\ pc[t] \in {"releaseOk", "releaseErr"} /\ harness = "off"
    /\ Goto(t, IF pc[t] = "releaseOk" THEN "flush" ELSE "caught")
    /\ UNCHANGED <<run, outcome, execution, reserved, handleVars, accepted, faults>>
    /\ TaskKeeps

TaskCommitKeeps ==
    UNCHANGED <<outcome, execution, reserved, handleVars, accepted, harnessVars,
                session, cleanupVars, retry, systemVars>>

\* The run ends in status `how` and its Session is finalized, or the write throws.
EndsRun(t, how, facts, otherwise) ==
    \/ /\ CanEnd(run, how, facts)
       /\ Commit(Ended(run, how, facts))
       /\ LET start == FinalizeStart(run') IN
          /\ finalization' = Finalizing(start)
          /\ Goto(t, IF start = "wait" THEN "finalize" ELSE "flush")
    \/ /\ Throws(CanEnd(run, how, facts))
       /\ Goto(t, otherwise) /\ UNCHANGED finalization

\* A faulty ApplyOutcome: a completion that is not stored goes to the catch block.
ApplyOutcomeOrCatch(t) ==
    /\ pc[t] = "apply" /\ outcome[t].kind \in {"completed", "cancelled", "failed"}
    /\ IF IsTerminal(run)
       THEN Goto(t, "flush") /\ UNCHANGED <<run, finalization, faults>>
       ELSE EndsRun(t, outcome[t].kind, outcome[t].facts, "caught")
    /\ UNCHANGED pump /\ TaskCommitKeeps

ApplyOutcome(t) ==
    /\ pc[t] = "apply" /\ outcome[t].kind \in {"completed", "cancelled", "failed"}
    /\ IF IsTerminal(run)
       THEN Goto(t, "flush") /\ UNCHANGED <<run, finalization, faults>>
       ELSE EndsRun(t, outcome[t].kind, outcome[t].facts,
                    IF outcome[t].kind = "completed" THEN "commitFailed" ELSE "caught")
    /\ UNCHANGED pump /\ TaskCommitKeeps

\* The catch block: the run fails, or is cancelled if it was aborted.  A write that
\* throws here ends the task with the run as it is.
Caught(t) ==
    /\ pc[t] = "caught"
    /\ IF IsTerminal(run)
       THEN Goto(t, "flush") /\ UNCHANGED <<run, finalization, faults>>
       ELSE EndsRun(t, IF aborted THEN "cancelled" ELSE "failed", outcome[t].facts, "flush")
    /\ UNCHANGED pump /\ TaskCommitKeeps

\* handleCompletedCommitFailure: a response that was delivered is never rewritten as
\* a failure; the run is blocked, and a timer retries that until it is stored.
CompletionCommitFails(t) ==
    /\ pc[t] = "commitFailed"
    /\ IF IsTerminal(run)
       THEN /\ Goto(t, "flush") /\ Awaken
            /\ UNCHANGED <<run, finalization, retry, faults>>
       ELSE /\ EndsRun(t, "blocked", outcome[t].facts, "flush")
            /\ retry' = IF run' = run THEN "timer" ELSE retry
            /\ UNCHANGED pump
    /\ UNCHANGED <<outcome, execution, reserved, handleVars, accepted, harnessVars,
                   session, cleanupVars, systemVars>>

\* The timer: the same block, and then the finalization, both until they succeed or
\* the run turns out to be terminal.
CompletionRetries ==
    /\ Live /\ retry = "timer"
    /\ IF IsTerminal(run)
       THEN retry' = "off" /\ Awaken /\ UNCHANGED <<run, finalization, faults>>
       ELSE \/ /\ CanEnd(run, "blocked", result)
               /\ Commit(Ended(run, "blocked", result))
               /\ finalization' = Finalizing(FinalizeStart(run'))
               /\ retry' = IF FinalizeStart(run') = "wait" THEN "finalize" ELSE "off"
               /\ UNCHANGED pump
            \/ /\ Throws(CanEnd(run, "blocked", result))
               /\ UNCHANGED <<retry, pump, finalization>>
    /\ UNCHANGED <<taskVars, handleVars, accepted, harnessVars, session, cleanupVars,
                   systemVars>>

CompletionFinalized ==
    /\ retry = "finalize"
    /\ \E ok \in BOOLEAN : FinalizeEnds(ok, FALSE)
    /\ retry' = "off" /\ Awaken
    /\ UNCHANGED <<run, taskVars, handleVars, accepted, harnessVars, cleanupVars,
                   systemVars>>

TaskFinalized(t) ==
    /\ pc[t] = "finalize"
    /\ \E ok \in BOOLEAN : FinalizeEnds(ok, TaskRestores)
    /\ Goto(t, "flush")
    /\ UNCHANGED <<run, outcome, execution, reserved, handleVars, accepted, harnessVars,
                   cleanupVars, schedVars, systemVars>>

\* The finally block: settleExecution, which leaves a paused run alone.
TaskFlushes(t) ==
    /\ pc[t] = "flush"
    /\ FlushAccepted
    /\ IF run.status = "awaiting_approval"
       THEN EndsTask(t)
       ELSE Goto(t, "check") /\ UNCHANGED <<execution, reserved, controller, pump>>
    /\ UNCHANGED <<outcome, aborted, continuation, harnessVars, sessionVars, cleanupVars,
                   retry, systemVars>>

TaskSettles(t) ==
    /\ pc[t] = "check"
    /\ \E ok \in BOOLEAN : SettleRound(ok)
    /\ EndsTask(t)
    /\ UNCHANGED <<outcome, aborted, continuation, harnessVars, sessionVars, cleanupVars,
                   retry, systemVars>>

-----------------------------------------------------------------------------
(* A finalization of the Session, whoever asked for it. *)

\* The leaf is restored before the resource lease is released: from here on the
\* harness cannot write to the Session, and it is told to stop.
SessionRestores ==
    /\ session = "open"
    /\ \/ TaskRestores /\ \E t \in Tasks : pc[t] = "finalize"
       \/ LaterRestores /\ (cleanup = "finalize" \/ pump = "finalize")
    /\ session' = "restored" /\ halted' = TRUE
    /\ UNCHANGED <<run, taskVars, handleVars, accepted, harness, tool, result, pending,
                   effect, finalization, cleanupVars, schedVars, systemVars, faults>>

-----------------------------------------------------------------------------
(* The user decides a confirmation, or cancels the run. *)

\* decideApproval: the reservation, the durable decision and the consumption of the
\* continuation are one step; then the loop releases the tool, whose confirmation is
\* pending (AwaitingIsLive).  The write is queued behind the first one with which the
\* paused task settles what came in meanwhile.
DecideApproval(c, d) ==
    /\ Live /\ ~reserved /\ continuation /\ CanDecide(run, c)
    /\ pc["execute"] = "flush" => Cardinality({k \in Calls : accepted[k] # "none"}) > 1
    /\ Commit(Decided(run, c, d))
    /\ reserved' = TRUE /\ continuation' = FALSE /\ controller' = TRUE
    /\ execution' = "decide"
    /\ Goto("decide", "loop")
    /\ pending' = pending \ {c}
    /\ tool' = [tool EXCEPT ![c] = IF d = "approve_once" THEN "approved" ELSE "rejected"]
    /\ outcome' = [outcome EXCEPT !["decide"] = NoOutcome]
    /\ UNCHANGED <<aborted, accepted, harness, halted, result, effect, sessionVars,
                   cleanupVars, schedVars, systemVars>>

\* The part of the cleanup after the continuation was released, up to an await.
CleanupGoesOn(cont, fin) ==
    /\ cleanupCont' = FALSE /\ cleanupFin' = fin
    /\ controller' = (controller /\ (execution # "none" \/ reserved \/ cont))
    /\ IF fin
       THEN LET start == FinalizeStart(run') IN
            /\ finalization' = Finalizing(start)
            /\ cleanup' = CASE start = "wait"   -> "finalize"
                            [] start = "failed" -> "timer"
                            [] OTHER            -> "settle"
       ELSE cleanup' = "settle" /\ UNCHANGED finalization

\* cancel: the terminal status is committed first (a write that fails changes
\* nothing), the signal is raised, the continuation is handed to the cleanup task,
\* which is scheduled unless it is at work.  A terminal run may be cancelled again.
Cancel ==
    /\ Live /\ cancels < MaxCancel /\ cancels' = cancels + 1
    /\ Commit(IF IsTerminal(run) THEN run ELSE Ended(run, "cancelled", NoFacts))
    /\ aborted' = (aborted \/ controller)
    /\ halted' = (halted \/ controller \/ continuation)
    /\ continuation' = FALSE
    /\ LET fin == ~IsTerminal(run) \/ finalization # "clear" IN
       IF cleanup \notin {"off", "timer"}
       THEN /\ cleanupCont' = (cleanupCont \/ continuation)
            /\ UNCHANGED <<cleanup, cleanupFin, controller, finalization>>
       ELSE IF continuation \/ cleanupCont
       THEN /\ cleanupCont' = TRUE /\ cleanupFin' = fin /\ cleanup' = "release"
            /\ UNCHANGED <<controller, finalization>>
       ELSE CleanupGoesOn(FALSE, fin)
    /\ UNCHANGED <<taskVars, accepted, harness, tool, result, pending, effect, session,
                   schedVars, proc, crashes>>

-----------------------------------------------------------------------------
(* The cleanup of a cancellation. *)

CleanupKeeps == UNCHANGED <<taskVars, aborted, continuation, harnessVars, systemVars>>

CleanupReleases ==
    /\ cleanup = "release"
    /\ \/ /\ harness = "off"
          /\ run' = run /\ CleanupGoesOn(continuation, cleanupFin)
          /\ UNCHANGED faults
       \/ /\ Fault
          /\ cleanup' = "timer"
          /\ UNCHANGED <<run, cleanupCont, cleanupFin, controller, finalization>>
    /\ UNCHANGED <<accepted, session, schedVars>> /\ CleanupKeeps

CleanupFinalized ==
    /\ cleanup = "finalize"
    /\ \E ok \in BOOLEAN :
        FinalizeEnds(ok, LaterRestores) /\ cleanup' = IF ok THEN "settle" ELSE "timer"
    /\ UNCHANGED <<run, accepted, controller, cleanupCont, cleanupFin, schedVars>>
    /\ CleanupKeeps

\* A live execution settles the run itself.
CleanupSettles ==
    /\ cleanup = "settle"
    /\ IF execution # "none" \/ reserved \/ controller
       THEN cleanup' = "off" /\ Awaken
       ELSE cleanup' = "flush" /\ UNCHANGED pump
    /\ UNCHANGED <<run, accepted, controller, cleanupCont, cleanupFin, sessionVars,
                   retry, faults>>
    /\ CleanupKeeps

CleanupFlushes ==
    /\ cleanup = "flush"
    /\ FlushAccepted
    /\ cleanup' = "check"
    /\ UNCHANGED <<controller, cleanupCont, cleanupFin, sessionVars, schedVars>>
    /\ CleanupKeeps

CleanupChecks ==
    /\ cleanup = "check"
    /\ \E ok \in BOOLEAN :
        /\ SettleRound(ok)
        /\ IF ok THEN cleanup' = "off" /\ Awaken ELSE cleanup' = "timer" /\ UNCHANGED pump
    /\ UNCHANGED <<controller, cleanupCont, cleanupFin, sessionVars, retry>>
    /\ CleanupKeeps

\* The retry timer schedules the cleanup with the flag it was scheduled with.
CleanupRetries ==
    /\ Live /\ cleanup = "timer"
    /\ run' = run
    /\ IF cleanupCont
       THEN cleanup' = "release" /\ UNCHANGED <<cleanupCont, cleanupFin, controller, finalization>>
       ELSE CleanupGoesOn(continuation, cleanupFin)
    /\ UNCHANGED <<accepted, session, schedVars, faults>> /\ CleanupKeeps

-----------------------------------------------------------------------------
(* The activation pump, as far as it works on this run (activateConversationOnce). *)

PumpKeeps ==
    UNCHANGED <<taskVars, handleVars, harnessVars, cleanupVars, retry, systemVars>>

\* A run that ended but not by a cancel, with results left in its buffer.
SettlementBlocked ==
    /\ IsTerminal(run) /\ run.status # "cancelled" /\ accepted # NoFacts
    /\ execution = "none" /\ ~controller

PumpStarts ==
    /\ Live /\ pump = "due"
    /\ IF SettlementBlocked
       THEN pump' = "flush" /\ UNCHANGED finalization
       ELSE IF IsTerminal(run) /\ finalization = "failed"
       THEN LET start == FinalizeStart(run) IN
            /\ finalization' = Finalizing(start)
            /\ pump' = CASE start = "wait"   -> "finalize"
                         [] start = "failed" -> "timer"
                         [] OTHER            -> "off"
       ELSE pump' = "off" /\ UNCHANGED finalization
    /\ UNCHANGED <<run, accepted, session, faults>> /\ PumpKeeps

PumpFlushes ==
    /\ pump = "flush"
    /\ FlushAccepted
    /\ pump' = "check"
    /\ UNCHANGED sessionVars /\ PumpKeeps

\* After the settlement the pump looks at the Session finalization as well.
PumpSettles ==
    /\ pump = "check"
    /\ \E ok \in BOOLEAN : SettleRound(ok) /\ pump' = IF ok THEN "due" ELSE "timer"
    /\ UNCHANGED sessionVars /\ PumpKeeps

PumpFinalized ==
    /\ pump = "finalize"
    /\ \E ok \in BOOLEAN :
        FinalizeEnds(ok, LaterRestores) /\ pump' = IF ok THEN "off" ELSE "timer"
    /\ UNCHANGED <<run, accepted>> /\ PumpKeeps

PumpRetries ==
    /\ Live /\ pump = "timer"
    /\ pump' = "due"
    /\ UNCHANGED <<run, accepted, sessionVars, faults>> /\ PumpKeeps

-----------------------------------------------------------------------------
(* The process stops: the snapshot is all that is left.  The next start recovers
   it (recoverPersistedRuns); a failure isolates the run until another start. *)

Crash ==
    /\ crashes < MaxCrash /\ crashes' = crashes + 1
    /\ run.status # "queued"
    /\ proc' = "recovering"
    /\ pc' = [t \in Tasks |-> "off"] /\ outcome' = [t \in Tasks |-> NoOutcome]
    /\ execution' = "none" /\ reserved' = FALSE
    /\ controller' = FALSE /\ aborted' = FALSE /\ continuation' = FALSE
    /\ accepted' = NoFacts
    /\ harness' = "off" /\ halted' = FALSE
    /\ tool' = [c \in Calls |-> "closed"] /\ result' = NoFacts /\ pending' = {}
    /\ session' = "none" /\ finalization' = "clear"
    /\ cleanup' = "off" /\ cleanupCont' = FALSE /\ cleanupFin' = FALSE
    /\ pump' = "off" /\ retry' = "off"
    /\ UNCHANGED <<run, effect, faults, cancels>>

RecoveryKeeps ==
    UNCHANGED <<taskVars, handleVars, accepted, harnessVars, sessionVars, cleanupVars,
                schedVars, crashes, cancels>>

\* A step of the recovery that throws isolates the run.
Isolates == Fault /\ proc' = "isolated"

\* blockLostApproval: the round's facts and the block are one write.
RecoverApproval ==
    /\ proc = "recovering" /\ run.status = "awaiting_approval"
    /\ \/ /\ Commit(Ended(CloseLostApprovals(ReconcileRound(run)), "blocked", NoFacts))
          /\ UNCHANGED proc
       \/ Isolates /\ UNCHANGED run
    /\ RecoveryKeeps

RecoverRound ==
    /\ proc = "recovering" /\ run.status # "awaiting_approval" /\ run.round # {}
    /\ \/ ReconcilePending(TRUE) /\ UNCHANGED proc
       \/ ReconcilePending(FALSE) /\ proc' = "isolated"
    /\ RecoveryKeeps

RecoverRunning ==
    /\ proc = "recovering" /\ run.status = "running" /\ run.round = {}
    /\ \/ Commit(Ended(run, "blocked", NoFacts)) /\ UNCHANGED proc
       \/ Isolates /\ UNCHANGED run
    /\ RecoveryKeeps

\* A faulty Recovered: the runs that were running are left alone.
RecoveredUnblocked ==
    /\ proc = "recovering" /\ run.status # "awaiting_approval" /\ run.round = {}
    /\ proc' = "live"
    /\ UNCHANGED <<run, faults>> /\ RecoveryKeeps

Recovered ==
    /\ proc = "recovering" /\ IsTerminal(run) /\ run.round = {}
    /\ proc' = "live"
    /\ UNCHANGED <<run, faults>> /\ RecoveryKeeps

-----------------------------------------------------------------------------
Harness ==
    \/ Acquire \/ CaptureStart \/ CommitInput
    \/ (\E calls \in SUBSET Calls : ToolRound(calls)) \/ Respond
    \/ CloseRound \/ HarnessStops \/ Pause

Tool(c) ==
    \/ ToolGates(c) \/ ToolRefused(c) \/ ToolExecutes(c)
    \/ ToolEnds(c) \/ ToolPersists(c)

Task(t) ==
    \/ ApplyPause(t) \/ ApplyOutcome(t) \/ Released(t) \/ Caught(t)
    \/ CompletionCommitFails(t) \/ TaskFinalized(t)
    \/ TaskFlushes(t) \/ TaskSettles(t)

Completion == CompletionRetries \/ CompletionFinalized

Cleanup ==
    \/ CleanupReleases \/ CleanupFinalized \/ CleanupSettles
    \/ CleanupFlushes \/ CleanupChecks \/ CleanupRetries

Pump ==
    \/ PumpStarts \/ PumpFlushes \/ PumpSettles \/ PumpFinalized \/ PumpRetries

Recovery == RecoverApproval \/ RecoverRound \/ RecoverRunning \/ Recovered

User ==
    \/ Cancel
    \/ \E c \in Calls, d \in {"approve_once", "reject"} : DecideApproval(c, d)

Next ==
    \/ StartRun \/ Harness \/ (\E c \in Calls : Tool(c)) \/ (\E t \in Tasks : Task(t))
    \/ Completion \/ User \/ Cleanup \/ SessionRestores \/ Pump
    \/ Crash \/ Recovery

Spec == Init /\ [][Next]_vars

\* Promises settle and timers fire, those of the feature.
FairTasks ==
    /\ WF_vars(StartRun) /\ \A t \in Tasks : WF_vars(Task(t))
    /\ WF_vars(SessionRestores) /\ WF_vars(Completion) /\ WF_vars(Cleanup)
    /\ WF_vars(Pump) /\ WF_vars(Recovery)

\* The model and the tools end some time, and every task goes on.  Nothing obliges the
\* user to decide or to cancel.
FairSpec ==
    Spec /\ FairTasks /\ WF_vars(Harness) /\ \A c \in Calls : WF_vars(Tool(c))

-----------------------------------------------------------------------------
(* What other parts of the program rely on. *)

\* A faulty BarrierCleared: the Session finalization is not waited for.
BarrierUnfinalized ==
    /\ IsTerminal(run) /\ run.round = {}
    /\ ~reserved /\ ~continuation /\ ~cleanupCont /\ accepted = NoFacts
    /\ run.status = "cancelled" \/ (~controller /\ execution = "none")

\* isSchedulingBarrierCleared: the next run of the conversation may start.
BarrierCleared ==
    /\ IsTerminal(run) /\ run.round = {}
    /\ ~reserved /\ ~continuation /\ ~cleanupCont
    /\ accepted = NoFacts /\ finalization = "clear"
    /\ run.status = "cancelled" \/ (~controller /\ execution = "none")

\* A faulty Stable: the live handles are not looked at.
StableByFacts ==
    /\ IsTerminal(run) /\ run.round = {}
    /\ \A c \in Calls : run.fact[c] # "approval"
    /\ accepted = NoFacts

\* isStableTerminalState: listeners (memory, experience) may read the run.
Stable ==
    /\ IsTerminal(run) /\ run.round = {}
    /\ \A c \in Calls : run.fact[c] # "approval"
    /\ accepted = NoFacts
    /\ ~reserved /\ ~continuation /\ ~cleanupCont
    /\ ~controller /\ execution = "none"

-----------------------------------------------------------------------------
(* Properties. *)

\* The types, by owner of the state.
TasksOK ==
    /\ pc \in [Tasks -> TaskPc]
    /\ outcome \in [Tasks -> [kind : OutcomeKind, facts : Facts, requests : SUBSET Calls]]
    /\ execution \in Tasks \cup {"none"} /\ reserved \in BOOLEAN

HandlesOK ==
    /\ controller \in BOOLEAN /\ aborted \in BOOLEAN /\ continuation \in BOOLEAN
    /\ accepted \in Facts

HarnessOK ==
    /\ harness \in {"off", "acquire", "start", "model", "tools", "answered", "broken"}
    /\ halted \in BOOLEAN
    /\ tool \in [Calls -> {"unused", "idle", "executing", "persisting", "gated",
                           "approved", "rejected", "delivered", "closed"}]
    /\ result \in Facts /\ pending \subseteq Calls
    /\ effect \in [Calls -> {"none", "started", "ended"}]

SchedulingOK ==
    /\ session \in {"none", "acquiring", "open", "restored"}
    /\ finalization \in {"clear", "pending", "failed"}
    /\ cleanup \in {"off", "release", "finalize", "settle", "flush", "check", "timer"}
    /\ cleanupCont \in BOOLEAN /\ cleanupFin \in BOOLEAN
    /\ pump \in {"off", "due", "flush", "check", "finalize", "timer"}
    /\ retry \in {"off", "timer", "finalize"}

SystemOK ==
    /\ proc \in {"live", "recovering", "isolated"}
    /\ faults \in 0 .. MaxFault /\ crashes \in 0 .. MaxCrash
    /\ cancels \in 0 .. MaxCancel

\* All of them.
TypeOK ==
    /\ run \in RunState
    /\ TasksOK /\ HandlesOK /\ HarnessOK /\ SchedulingOK /\ SystemOK

\* What the snapshot says of a call is true: a reported result comes from a tool that
\* ended, a refused or lost call never ran, in this process or in an earlier one.
HonestFacts ==
    \A c \in Calls :
        /\ run.fact[c] = "reported" => effect[c] = "ended"
        /\ run.fact[c] \in {"refused", "lost"} => effect[c] = "none"

\* A stable run accounts for every call that ran.
NoSilentEffect ==
    Live /\ Stable =>
        \A c \in Calls : effect[c] # "none" =>
            run.fact[c] \in {"reported", "unknown", "unaccepted"}

\* A call that needs a confirmation runs only after a durable approval.
GateHonoured ==
    \A c \in Gated : effect[c] # "none" => run.decision[c] = "approve_once"

\* A stable run is quiet: no tool runs, and nothing more is written for it.  (A pause whose
\* results cannot be remembered is not released; a second fault, or a fault and a cancel,
\* then leave the harness behind.)
StableIsQuiet ==
    Live /\ Stable /\ (faults = 0 \/ (faults = 1 /\ cancels = 0)) =>
        /\ harness = "off"
        /\ \A c \in Calls : tool[c] \in {"unused", "delivered", "closed"}

\* A run that waits for a confirmation has a live continuation, and the loop has
\* every confirmation it asks for.
AwaitingIsLive ==
    Live /\ run.status = "awaiting_approval" => continuation /\ run.requests \subseteq pending

\* Why a gate cannot be passed by without its approval (inductive): a call that did not
\* run yet has no effect, and is approved in the loop only if it is in the snapshot.
GateIsClosed ==
    \A c \in Calls :
        /\ tool[c] \in {"unused", "idle", "gated", "approved", "rejected"} => effect[c] = "none"
        /\ tool[c] = "persisting" /\ result[c] = "approval" => effect[c] = "none"
        /\ tool[c] = "executing" => effect[c] = "started"
        /\ tool[c] = "approved" => run.decision[c] = "approve_once"
        /\ c \in pending => tool[c] = "gated"

\* The loop returns to one task, which is gone while the run waits for a confirmation;
\* a pause that was not admitted yet asks for confirmations that are still pending.
OneTaskInLoop ==
    /\ \A t, u \in Tasks : pc[t] \in {"loop", "apply"} /\ pc[u] \in {"loop", "apply"} => t = u
    /\ Live /\ run.status = "awaiting_approval" => \A t \in Tasks : pc[t] \notin {"loop", "apply"}
    /\ \A t \in Tasks :
        pc[t] = "apply" /\ outcome[t].kind = "approval_required" /\ ~IsTerminal(run) =>
            outcome[t].requests \subseteq pending

\* A harness is told to stop only when its run has ended, or its pause was refused.
HaltedIsOver ==
    /\ halted /\ ~IsTerminal(run) =>
        run.status = "running" /\ \A t \in Tasks : pc[t] \notin {"loop", "apply"}
    /\ cleanup # "off" \/ pump = "finalize" \/ (\E t \in Tasks : pc[t] = "finalize") =>
        IsTerminal(run)
    /\ ~Live \/ run.status = "queued" =>
        harness = "off" /\ \A t \in Tasks : pc[t] = "off"

\* All of it: inductive.
GateInv ==
    /\ TypeOK /\ GateHonoured /\ AwaitingIsLive
    /\ GateIsClosed /\ OneTaskInLoop /\ HaltedIsOver

\* The successor does not start while this run's writer can still move the Session.  (A
\* second cancel may drop the finalization that the first one asked for.)
BarrierAfterRestore ==
    Live /\ BarrierCleared /\ cancels < 2 => session \in {"none", "restored"}

\* A terminal status and a final fact are never taken back.
Final ==
    [][/\ IsTerminal(run) => run'.status = run.status
       /\ \A c \in Calls : run.fact[c] \in FinalFact => run'.fact[c] = run.fact[c]]_vars

\* The assertion of every approval pause holds when the loop pauses.
PauseIsAdmissible ==
    \A t \in Tasks :
        pc[t] = "apply" /\ outcome[t].kind = "approval_required" /\ run.status = "running" =>
            CanPause(run, outcome[t].facts, outcome[t].requests)

\* What the loop returned last.
LastOutcome == IF outcome["decide"].kind # "none" THEN outcome["decide"] ELSE outcome["execute"]

\* A run that is running is being executed, or its response waits to be stored.  One that
\* is not was left behind by two writes that failed, or by a last outcome that does not
\* agree with what is recorded, so that no end of the run can be stored with it.
RunningIsExecuted ==
    Live /\ run.status = "running" =>
        \/ execution # "none" \/ retry # "off" \/ faults > 1
        \/ ~CanMerge(run, LastOutcome.facts)

\* A response that reached the transcript settles: the run does not stay open for it,
\* even if neither its completion nor the block that replaces it can be stored at once.
\* (A pause that was refused or could not be written is the exception, as above.)
ResponseSettles ==
    run.phase = "completion_candidate" ~>
        \/ IsTerminal(run) \/ proc = "isolated"
        \/ (halted \/ faults > 0) /\ \E c \in Gated : run.fact[c] # "none"

\* A run whose response reached the transcript is never recorded as failed.
ResponseIsNotFailure ==
    [][run.phase = "completion_candidate" => run'.status # "failed"]_vars

\* A run that ended lets its successor start, whatever it was doing when it ended, if it
\* was cancelled or met one fault. (With more the settlement of the pump and the
\* finalization that follows it can wait for each other.)
EndedReleasesQueue ==
    IsTerminal(run) ~> BarrierCleared \/ proc = "isolated"
                       \/ faults > 1 \/ (faults = 1 /\ cancels > 0)

\* A run that ended without a cancel and with at most one fault becomes stable, so that
\* its listeners may read it.
EndedBecomesStable ==
    IsTerminal(run) ~> Stable \/ proc = "isolated" \/ faults > 1 \/ cancels > 0

=============================================================================
