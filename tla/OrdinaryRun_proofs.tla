------------------------- MODULE OrdinaryRun_proofs -------------------------
(***************************************************************************)
(* Proofs about OrdinaryRun, for any finite set of tool calls and any      *)
(* bounds: type correctness, that terminal statuses and final facts are    *)
(* never taken back, and the confirmation gate.                            *)
(*                                                                         *)
(* The snapshot changes only by the transitions of OrdinaryRunState.       *)
(* SnapshotStep lists them with the conditions under which the run makes   *)
(* them; every action is shown to make one of them or none (one lemma for  *)
(* each), and each of them to keep the type of the snapshot, a terminal    *)
(* status and the final facts (SnapshotStepKeeps).                         *)
(*                                                                         *)
(* A call that needs a confirmation runs only after its approval was       *)
(* stored, and a run that waits for a confirmation has the continuation    *)
(* that can take the decision: GateInv is inductive.  Most actions are     *)
(* quiet: they leave the tools alone, move no task into the loop, and      *)
(* raise the stop signal or drop the continuation only when the run has    *)
(* ended (QuietKeeps).  The others are looked at one by one.               *)
(***************************************************************************)
EXTENDS OrdinaryRun, FiniteSetTheorems, TLAPS

\* What the snapshot r may become in one step.
Checkpointed(r, s) ==
    \/ CanCaptureStart(r) /\ s = StartCaptured(r)
    \/ CanCommitInput(r) /\ s = InputCommitted(r)
    \/ \E calls \in SUBSET Calls : CanAcceptRound(r) /\ s = RoundAccepted(r, calls)
    \/ \E calls \in SUBSET Calls : CanCloseRound(r, calls) /\ s = RoundClosed(r)
    \/ CanRespond(r) /\ s = Responded(r)

Settled(r, s) ==
    \/ \E facts \in Facts : CanMerge(r, facts) /\ s = Merge(r, facts)
    \/ s = ReconcileRound(r)
    \/ s = RoundClosed(ReconcileRound(r))
    \/ s = CloseLostApprovals(r)

StillStep(r, s) == s = r \/ Checkpointed(r, s) \/ Settled(r, s)

Started(r, s) == r.status = "queued" /\ s = Start(r)

PauseStep(r, s) ==
    \E facts \in Facts, asked \in SUBSET Calls :
        CanPause(r, facts, asked) /\ s = Paused(r, facts, asked)

DecideStep(r, s) ==
    \E c \in Calls, d \in {"approve_once", "reject"} :
        CanDecide(r, c) /\ s = Decided(r, c, d)

EndStep(r, s) ==
    \/ \E how \in Terminal, facts \in Facts :
        CanEnd(r, how, facts) /\ s = Ended(r, how, facts)
    \/ /\ r.status = "awaiting_approval"
       /\ s = Ended(CloseLostApprovals(ReconcileRound(r)), "blocked", NoFacts)

SnapshotStep(r, s) ==
    \/ StillStep(r, s) \/ EndStep(r, s)
    \/ Started(r, s) \/ PauseStep(r, s) \/ DecideStep(r, s)

\* A terminal status and the final facts of r are those of s.
KeepsFinal(r, s) ==
    /\ IsTerminal(r) => s.status = r.status
    /\ \A c \in Calls : r.fact[c] \in FinalFact => s.fact[c] = r.fact[c]

-----------------------------------------------------------------------------
(* The snapshot. *)

\* Merging compatible facts keeps the final ones.
LEMMA MergeKeeps ==
    ASSUME NEW r \in RunState, NEW facts \in Facts
    PROVE  /\ Merge(r, facts) \in RunState
           /\ Merge(r, facts).status = r.status
           /\ CanMerge(r, facts) => KeepsFinal(r, Merge(r, facts))
<1>1. Merge(r, facts) \in RunState /\ Merge(r, facts).status = r.status
    BY DEF Merge, RunState, Facts
<1>2. ASSUME CanMerge(r, facts), NEW c \in Calls, r.fact[c] \in FinalFact
      PROVE  Merge(r, facts).fact[c] = r.fact[c]
    BY <1>2 DEF CanMerge, Compatible, Merge, RunState, Facts, FinalFact
<1>3. QED  BY <1>1, <1>2 DEF KeepsFinal

\* The reconciliation of a round writes over open facts only.
LEMMA ReconcileKeeps ==
    ASSUME NEW r \in RunState
    PROVE  /\ ReconcileRound(r) \in RunState
           /\ ReconcileRound(r).status = r.status
           /\ KeepsFinal(r, ReconcileRound(r))
<1>1. ReconcileRound(r) \in RunState /\ ReconcileRound(r).status = r.status
    BY DEF ReconcileRound, Interrupted, RunState, Facts, Fact, FinalFact
<1>2. ASSUME NEW c \in Calls, r.fact[c] \in FinalFact
      PROVE  ReconcileRound(r).fact[c] = r.fact[c]
    BY <1>2 DEF ReconcileRound, RunState, Facts
<1>3. QED  BY <1>1, <1>2 DEF KeepsFinal

\* So does the closing of the confirmations that were lost.
LEMMA CloseLostKeeps ==
    ASSUME NEW r \in RunState
    PROVE  /\ CloseLostApprovals(r) \in RunState
           /\ CloseLostApprovals(r).status = r.status
           /\ KeepsFinal(r, CloseLostApprovals(r))
<1>1. CloseLostApprovals(r) \in RunState /\ CloseLostApprovals(r).status = r.status
    BY DEF CloseLostApprovals, Interrupted, RunState, Facts, Fact, FinalFact
<1>2. ASSUME NEW c \in Calls, r.fact[c] \in FinalFact
      PROVE  CloseLostApprovals(r).fact[c] = r.fact[c]
    BY <1>2 DEF CloseLostApprovals, RunState, Facts, FinalFact
<1>3. QED  BY <1>1, <1>2 DEF KeepsFinal

\* The end of a run that is not terminal.
LEMMA EndKeeps ==
    ASSUME NEW r \in RunState, NEW how \in Terminal, NEW facts \in Facts,
           CanMerge(r, facts), ~IsTerminal(r)
    PROVE  Ended(r, how, facts) \in RunState /\ KeepsFinal(r, Ended(r, how, facts))
<1> DEFINE m == Merge(r, facts)
<1>1. m \in RunState /\ KeepsFinal(r, m)
    BY MergeKeeps
<1>2. Ended(r, how, facts) =
            [m EXCEPT !.status = how, !.requests = {}, !.phase = EndPhase(r)]
    BY DEF Ended
<1>3. EndPhase(r) \in Phase /\ how \in Status
    BY DEF EndPhase, RunState, Phase, Status
<1>4. Ended(r, how, facts) \in RunState /\ Ended(r, how, facts).fact = m.fact
    BY <1>1, <1>2, <1>3 DEF RunState
<1>5. QED  BY <1>1, <1>4 DEF KeepsFinal

\* Checkpoints and settlements leave the status and the confirmations alone.
LEMMA StillStepKeeps ==
    ASSUME NEW r \in RunState, NEW s, StillStep(r, s)
    PROVE  /\ s \in RunState /\ KeepsFinal(r, s)
           /\ s.status = r.status /\ s.requests = r.requests /\ s.decision = r.decision
<1>1. CASE s = r
    BY <1>1 DEF KeepsFinal
<1>2. CASE Checkpointed(r, s)
    BY <1>2 DEF Checkpointed, KeepsFinal, RunState, Phase, StartCaptured,
       InputCommitted, RoundAccepted, RoundClosed, Responded
<1>3. CASE Settled(r, s)
  <2>1. CASE \E facts \in Facts : CanMerge(r, facts) /\ s = Merge(r, facts)
    BY <2>1, MergeKeeps DEF Merge, RunState
  <2>2. CASE s = ReconcileRound(r)
    BY <2>2, ReconcileKeeps DEF ReconcileRound, RunState
  <2>3. CASE s = RoundClosed(ReconcileRound(r))
    <3>1. s \in RunState /\ s.status = r.status /\ s.fact = ReconcileRound(r).fact
      BY <2>3, ReconcileKeeps DEF RoundClosed, RunState
    <3>2. s.requests = r.requests /\ s.decision = r.decision
      BY <2>3 DEF RoundClosed, ReconcileRound, RunState
    <3>3. QED  BY <3>1, <3>2, ReconcileKeeps DEF KeepsFinal
  <2>4. CASE s = CloseLostApprovals(r)
    BY <2>4, CloseLostKeeps DEF CloseLostApprovals, RunState
  <2>5. QED  BY <1>3, <2>1, <2>2, <2>3, <2>4 DEF Settled
<1>4. QED  BY <1>1, <1>2, <1>3 DEF StillStep

\* The end of a run leaves the decisions alone.
LEMMA EndStepKeeps ==
    ASSUME NEW r \in RunState, NEW s, EndStep(r, s)
    PROVE  /\ s \in RunState /\ KeepsFinal(r, s)
           /\ IsTerminal(s) /\ s.decision = r.decision
<1>1. CASE \E how \in Terminal, facts \in Facts :
                CanEnd(r, how, facts) /\ s = Ended(r, how, facts)
  <2>1. PICK how \in Terminal, facts \in Facts :
                CanEnd(r, how, facts) /\ s = Ended(r, how, facts)
    BY <1>1
  <2>2. CanMerge(r, facts) /\ ~IsTerminal(r)
    BY <2>1 DEF CanEnd, MayEnd, IsTerminal, Terminal
  <2>3. s \in RunState /\ KeepsFinal(r, s)
    BY <2>1, <2>2, EndKeeps
  <2>4. IsTerminal(s) /\ s.decision = r.decision
    BY <2>1 DEF Ended, Merge, RunState, IsTerminal
  <2>5. QED  BY <2>3, <2>4
<1>2. CASE /\ r.status = "awaiting_approval"
           /\ s = Ended(CloseLostApprovals(ReconcileRound(r)), "blocked", NoFacts)
  <2> DEFINE n == CloseLostApprovals(ReconcileRound(r))
  <2>1. n \in RunState /\ n.status = r.status /\ KeepsFinal(r, n)
    BY ReconcileKeeps, CloseLostKeeps DEF KeepsFinal
  <2>2. NoFacts \in Facts /\ CanMerge(n, NoFacts) /\ ~IsTerminal(n) /\ ~IsTerminal(r)
    BY <1>2, <2>1 DEF NoFacts, Facts, Fact, CanMerge, Compatible, IsTerminal, Terminal
  <2>3. s \in RunState /\ KeepsFinal(n, s)
    BY <1>2, <2>1, <2>2, EndKeeps DEF Terminal
  <2>4. IsTerminal(s) /\ s.decision = r.decision
    BY <1>2 DEF Ended, Merge, CloseLostApprovals, ReconcileRound, RunState, IsTerminal,
       Terminal
  <2>5. QED  BY <2>1, <2>2, <2>3, <2>4 DEF KeepsFinal
<1>3. QED  BY <1>1, <1>2 DEF EndStep

\* Every transition keeps the type of the snapshot, a terminal status and final facts.
LEMMA SnapshotStepKeeps ==
    ASSUME NEW r \in RunState, NEW s, SnapshotStep(r, s)
    PROVE  s \in RunState /\ KeepsFinal(r, s)
<1>1. CASE StillStep(r, s)
    BY <1>1, StillStepKeeps
<1>2. CASE EndStep(r, s)
    BY <1>2, EndStepKeeps
<1>3. CASE Started(r, s)
    BY <1>3 DEF Started, Start, RunState, Status, KeepsFinal, IsTerminal, Terminal
<1>4. CASE PauseStep(r, s)
  <2>1. PICK facts \in Facts, asked \in SUBSET Calls :
                CanPause(r, facts, asked) /\ s = Paused(r, facts, asked)
    BY <1>4 DEF PauseStep
  <2> DEFINE m == Merge(r, facts)
  <2>2. CanMerge(r, facts) /\ ~IsTerminal(r)
    BY <2>1 DEF CanPause, IsTerminal, Terminal
  <2>3. m \in RunState /\ KeepsFinal(r, m)
    BY <2>2, MergeKeeps
  <2>4. s \in RunState /\ s.fact = m.fact
    BY <2>1, <2>3 DEF Paused, RunState, Status
  <2>5. QED  BY <2>2, <2>3, <2>4 DEF KeepsFinal
<1>5. CASE DecideStep(r, s)
  <2>1. PICK c \in Calls, d \in {"approve_once", "reject"} :
                CanDecide(r, c) /\ s = Decided(r, c, d)
    BY <1>5 DEF DecideStep
  <2>2. s \in RunState
    BY <2>1 DEF Decided, RunState, Status, Decision
  <2>3. ~IsTerminal(r) /\ s.fact = r.fact
    BY <2>1 DEF CanDecide, Decided, IsTerminal, Terminal, RunState
  <2>4. QED  BY <2>2, <2>3 DEF KeepsFinal
<1>6. QED  BY <1>1, <1>2, <1>3, <1>4, <1>5 DEF SnapshotStep

-----------------------------------------------------------------------------
(* Helpers of the actions. *)

\* The types of all that is not durable.
LiveOK == TasksOK /\ HandlesOK /\ HarnessOK /\ SchedulingOK /\ SystemOK

FaultsOK == faults \in 0 .. MaxFault

\* The buffer of accepted results.
LEMMA BufferType ==
    ASSUME TypeOK, NEW facts \in Facts
    PROVE  /\ Remembered(facts) \in Facts
           /\ \A r : Forgotten(r, facts) \in Facts
    BY DEF TypeOK, HandlesOK, Remembered, Forgotten, Facts, Fact, FinalFact

\* No fact, and one.
LEMMA FactsType ==
    NoFacts \in Facts /\ \A c \in Calls, f \in Fact : OneFact(c, f) \in Facts
    BY DEF NoFacts, OneFact, Facts, Fact, FinalFact

\* A fault stays within its bound, and a write that throws leaves the snapshot alone.
LEMMA FaultType ==
    ASSUME TypeOK
    PROVE  /\ Fault \/ UNCHANGED faults => FaultsOK'
           /\ \A r : Commit(r) => run' = r /\ FaultsOK'
           /\ \A can : Throws(can) => run' = run /\ FaultsOK'
    BY BoundsAssumption DEF TypeOK, SystemOK, Fault, FaultsOK, Commit, Throws

\* The flush of the buffer merges what is compatible.
LEMMA FlushSteps ==
    ASSUME TypeOK, FlushAccepted
    PROVE  StillStep(run, run') /\ accepted' \in Facts /\ FaultsOK'
<1> DEFINE stays(F, c) == c \in F \/ ~Compatible(run.fact[c], accepted[c])
           facts(F)    == [c \in Calls |-> IF stays(F, c) THEN "none" ELSE accepted[c]]
<1>1. PICK F \in SUBSET {c \in Calls : accepted[c] \notin {"none", run.fact[c]}} :
        /\ faults + Cardinality(F) <= MaxFault
        /\ faults' = faults + Cardinality(F)
        /\ run' = Merge(run, facts(F))
        /\ accepted' = [c \in Calls |-> IF stays(F, c) THEN accepted[c] ELSE "none"]
    BY DEF FlushAccepted
<1>2. facts(F) \in Facts /\ accepted' \in Facts
    BY <1>1 DEF TypeOK, HandlesOK, Facts, Fact
<1>3. CanMerge(run, facts(F))
    BY DEF CanMerge, Compatible
<1>4. FaultsOK'
  <2>1. IsFiniteSet(F)
    BY <1>1, BoundsAssumption, FS_Subset
  <2>2. Cardinality(F) \in Nat
    BY <2>1, FS_CardinalityType
  <2>3. QED  BY <1>1, <2>2, BoundsAssumption DEF FaultsOK, TypeOK, SystemOK
<1>5. QED  BY <1>1, <1>2, <1>3, <1>4 DEF StillStep, Settled

\* The reconciliation of the open round.
LEMMA ReconcileSteps ==
    ASSUME TypeOK, NEW ok \in BOOLEAN, ReconcilePending(ok)
    PROVE  StillStep(run, run') /\ FaultsOK'
    BY FaultType DEF ReconcilePending, StillStep, Settled, Commit

\* The second part of a settlement.
LEMMA SettleSteps ==
    ASSUME TypeOK, NEW ok \in BOOLEAN, SettleRound(ok)
    PROVE  StillStep(run, run') /\ accepted' \in Facts /\ FaultsOK'
<1>1. accepted' \in Facts
    BY BufferType, FactsType DEF SettleRound, TypeOK, HandlesOK
<1>2. StillStep(run, run') /\ FaultsOK'
    BY FaultType, ReconcileSteps DEF SettleRound, StillStep, Settled
<1>3. QED  BY <1>1, <1>2

\* The end of the run, or the failure to store it.
LEMMA EndSteps ==
    ASSUME TypeOK, NEW t \in Tasks, NEW how \in Terminal, NEW facts \in Facts,
           NEW next \in TaskPc, EndsRun(t, how, facts, next)
    PROVE  /\ (StillStep(run, run') \/ EndStep(run, run')) /\ FaultsOK'
           /\ pc' \in [Tasks -> TaskPc]
           /\ finalization' \in {"clear", "pending", "failed"}
<1>1. (StillStep(run, run') \/ EndStep(run, run')) /\ FaultsOK'
    BY FaultType DEF EndsRun, StillStep, EndStep
<1>2. pc' \in [Tasks -> TaskPc]
    BY DEF EndsRun, TypeOK, TasksOK, Goto, TaskPc
<1>3. finalization' \in {"clear", "pending", "failed"}
    BY DEF EndsRun, TypeOK, SchedulingOK, Finalizing
<1>4. QED  BY <1>1, <1>2, <1>3

\* What a call of the finalization leaves behind.
LEMMA FinalizingType ==
    ASSUME TypeOK, NEW start
    PROVE  Finalizing(start) \in {"clear", "pending", "failed"}
    BY DEF Finalizing

\* The cleanup goes on.
LEMMA GoesOnType ==
    ASSUME TypeOK, NEW cont \in BOOLEAN, NEW fin \in BOOLEAN, CleanupGoesOn(cont, fin)
    PROVE  /\ cleanup' \in {"finalize", "settle", "timer"}
           /\ cleanupCont' = FALSE /\ cleanupFin' = fin
           /\ finalization' \in {"clear", "pending", "failed"}
    BY FinalizingType DEF CleanupGoesOn, TypeOK, SchedulingOK

\* The end of a finalization.
LEMMA FinalizeType ==
    ASSUME TypeOK, NEW ok \in BOOLEAN, NEW restores, FinalizeEnds(ok, restores)
    PROVE  /\ session' \in {"none", "acquiring", "open", "restored"}
           /\ finalization' \in {"clear", "pending", "failed"}
           /\ FaultsOK'
    BY FaultType DEF FinalizeEnds, TypeOK, SchedulingOK

\* An outcome is handed to the tasks.
LEMMA ReturnedType ==
    ASSUME TypeOK, NEW kind \in OutcomeKind, NEW facts \in Facts,
           NEW asked \in SUBSET Calls,
           Returned(kind, facts, asked)
    PROVE  TasksOK' /\ accepted' \in Facts
<1>1. accepted' \in Facts
    BY BufferType, FactsType DEF Returned, TypeOK, HandlesOK
<1>2. TasksOK'
    BY DEF Returned, TypeOK, TasksOK, TaskPc
<1>3. QED  BY <1>1, <1>2

-----------------------------------------------------------------------------
(* The actions. *)

\* The pump starts a queued run.
LEMMA StartRunKeeps ==
    ASSUME TypeOK, StartRun
    PROVE  Started(run, run') /\ LiveOK'
<1>1. Started(run, run')
    BY FaultType DEF StartRun, Started, systemVars
<1>2. TasksOK'
    BY DEF StartRun, TypeOK, TasksOK, taskVars, Goto, TaskPc, Tasks
<1>3. HandlesOK'
    BY DEF StartRun, TypeOK, HandlesOK, handleVars
<1>4. HarnessOK'
    BY DEF StartRun, TypeOK, HarnessOK, harnessVars
<1>5. SchedulingOK'
    BY DEF StartRun, TypeOK, SchedulingOK, sessionVars, cleanupVars, schedVars
<1>6. SystemOK'
    BY FaultType DEF StartRun, TypeOK, SystemOK, FaultsOK, systemVars, Commit
<1>7. QED  BY <1>1, <1>2, <1>3, <1>4, <1>5, <1>6 DEF LiveOK

\* The resources are acquired or not.
LEMMA AcquireKeeps ==
    ASSUME TypeOK, Acquire
    PROVE  StillStep(run, run') /\ LiveOK'
<1>1. StillStep(run, run')
    BY DEF Acquire, StillStep
<1>2. TasksOK'
  <2>1. CASE UNCHANGED taskVars
    BY <2>1 DEF TypeOK, TasksOK, taskVars
  <2>2. CASE \E kind \in OutcomeKind : Returned(kind, NoFacts, {})
    <3>1. PICK kind \in OutcomeKind : Returned(kind, NoFacts, {})
      BY <2>2
    <3>2. QED  BY <3>1, BufferType, FactsType, ReturnedType
  <2>3. QED  BY <2>1, <2>2 DEF Acquire, OutcomeKind
<1>3. HandlesOK'
  <2>1. CASE UNCHANGED accepted
    BY <2>1 DEF Acquire, TypeOK, HandlesOK, handleVars
  <2>2. CASE \E kind \in OutcomeKind : Returned(kind, NoFacts, {})
    <3>1. PICK kind \in OutcomeKind : Returned(kind, NoFacts, {})
      BY <2>2
    <3>2. accepted' \in Facts
      BY <3>1, BufferType, FactsType, ReturnedType
    <3>3. QED  BY <3>2 DEF Acquire, TypeOK, HandlesOK, handleVars
  <2>3. QED  BY <2>1, <2>2 DEF Acquire, OutcomeKind
<1>4. HarnessOK'
    BY FactsType DEF Acquire, TypeOK, HarnessOK, harnessVars, NoFacts
<1>5. SchedulingOK'
    BY DEF Acquire, TypeOK, SchedulingOK, sessionVars, cleanupVars, schedVars
<1>6. SystemOK'
    BY FaultType DEF Acquire, TypeOK, SystemOK, FaultsOK, systemVars
<1>7. QED  BY <1>1, <1>2, <1>3, <1>4, <1>5, <1>6 DEF LiveOK

\* The start leaf.
LEMMA CaptureStartKeeps ==
    ASSUME TypeOK, CaptureStart
    PROVE  StillStep(run, run') /\ LiveOK'
<1>1. StillStep(run, run')
    BY FaultType DEF CaptureStart, StillStep, Checkpointed, systemVars
<1>2. TasksOK'
    BY DEF CaptureStart, TypeOK, TasksOK, taskVars, Goto, TaskPc, Tasks
<1>3. HandlesOK'
    BY DEF CaptureStart, TypeOK, HandlesOK, handleVars
<1>4. HarnessOK'
    BY DEF CaptureStart, TypeOK, HarnessOK, harnessVars
<1>5. SchedulingOK'
    BY DEF CaptureStart, TypeOK, SchedulingOK, sessionVars, cleanupVars, schedVars
<1>6. SystemOK'
    BY FaultType DEF CaptureStart, TypeOK, SystemOK, FaultsOK, systemVars
<1>7. QED  BY <1>1, <1>2, <1>3, <1>4, <1>5, <1>6 DEF LiveOK

\* The input entry.
LEMMA CommitInputKeeps ==
    ASSUME TypeOK, CommitInput
    PROVE  StillStep(run, run') /\ LiveOK'
<1>1. StillStep(run, run')
    BY FaultType DEF CommitInput, StillStep, Checkpointed, Checkpoint, systemVars
<1>2. TasksOK'
    BY DEF CommitInput, TypeOK, TasksOK, taskVars, HarnessKeeps
<1>3. HandlesOK'
    BY DEF CommitInput, TypeOK, HandlesOK, handleVars, HarnessKeeps
<1>4. HarnessOK'
    BY DEF CommitInput, TypeOK, HarnessOK, harnessVars, HarnessKeeps, Checkpoint
<1>5. SchedulingOK'
    BY DEF CommitInput, TypeOK, SchedulingOK, sessionVars, cleanupVars, schedVars,
       HarnessKeeps
<1>6. SystemOK'
    BY FaultType DEF CommitInput, TypeOK, SystemOK, FaultsOK, systemVars, HarnessKeeps,
       Checkpoint
<1>7. QED  BY <1>1, <1>2, <1>3, <1>4, <1>5, <1>6 DEF LiveOK

\* The round is accepted.
LEMMA ToolRoundKeeps ==
    ASSUME TypeOK, NEW calls \in SUBSET Calls, ToolRound(calls)
    PROVE  StillStep(run, run') /\ LiveOK'
<1>1. StillStep(run, run')
    BY FaultType DEF ToolRound, StillStep, Checkpointed, Checkpoint, systemVars
<1>2. TasksOK'
    BY DEF ToolRound, TypeOK, TasksOK, taskVars, HarnessKeeps
<1>3. HandlesOK'
    BY DEF ToolRound, TypeOK, HandlesOK, handleVars, HarnessKeeps
<1>4. HarnessOK'
    BY DEF ToolRound, TypeOK, HarnessOK, harnessVars, HarnessKeeps, Checkpoint
<1>5. SchedulingOK'
    BY DEF ToolRound, TypeOK, SchedulingOK, sessionVars, cleanupVars, schedVars,
       HarnessKeeps
<1>6. SystemOK'
    BY FaultType DEF ToolRound, TypeOK, SystemOK, FaultsOK, systemVars, HarnessKeeps,
       Checkpoint
<1>7. QED  BY <1>1, <1>2, <1>3, <1>4, <1>5, <1>6 DEF LiveOK

\* The response.
LEMMA RespondKeeps ==
    ASSUME TypeOK, Respond
    PROVE  StillStep(run, run') /\ LiveOK'
<1>1. StillStep(run, run')
    BY FaultType DEF Respond, StillStep, Checkpointed, Checkpoint, systemVars
<1>2. TasksOK'
    BY DEF Respond, TypeOK, TasksOK, taskVars, HarnessKeeps
<1>3. HandlesOK'
    BY DEF Respond, TypeOK, HandlesOK, handleVars, HarnessKeeps
<1>4. HarnessOK'
    BY DEF Respond, TypeOK, HarnessOK, harnessVars, HarnessKeeps, Checkpoint
<1>5. SchedulingOK'
    BY DEF Respond, TypeOK, SchedulingOK, sessionVars, cleanupVars, schedVars,
       HarnessKeeps
<1>6. SystemOK'
    BY FaultType DEF Respond, TypeOK, SystemOK, FaultsOK, systemVars, HarnessKeeps,
       Checkpoint
<1>7. QED  BY <1>1, <1>2, <1>3, <1>4, <1>5, <1>6 DEF LiveOK

\* The round is closed.
LEMMA CloseRoundKeeps ==
    ASSUME TypeOK, CloseRound
    PROVE  StillStep(run, run') /\ LiveOK'
<1>1. StillStep(run, run')
    BY FaultType DEF CloseRound, StillStep, Checkpointed, Checkpoint, RoundCalls,
       systemVars
<1>2. TasksOK'
    BY DEF CloseRound, TypeOK, TasksOK, taskVars, HarnessKeeps
<1>3. HandlesOK'
    BY DEF CloseRound, TypeOK, HandlesOK, handleVars, HarnessKeeps
<1>4. HarnessOK'
    BY DEF CloseRound, TypeOK, HarnessOK, harnessVars, HarnessKeeps, Checkpoint,
       RoundCalls
<1>5. SchedulingOK'
    BY DEF CloseRound, TypeOK, SchedulingOK, sessionVars, cleanupVars, schedVars,
       HarnessKeeps
<1>6. SystemOK'
    BY FaultType DEF CloseRound, TypeOK, SystemOK, FaultsOK, systemVars, HarnessKeeps,
       Checkpoint
<1>7. QED  BY <1>1, <1>2, <1>3, <1>4, <1>5, <1>6 DEF LiveOK

\* The harness ends.
LEMMA HarnessStopsKeeps ==
    ASSUME TypeOK, HarnessStops
    PROVE  StillStep(run, run') /\ LiveOK'
<1>1. StillStep(run, run')
    BY DEF HarnessStops, StillStep, systemVars
<1>2. TasksOK' /\ accepted' \in Facts
  <2> DEFINE kind == IF halted THEN "cancelled"
                     ELSE IF harness = "answered" THEN "completed" ELSE "failed"
  <2>1. kind \in OutcomeKind /\ result \in Facts /\ Returned(kind, result, {})
    BY DEF HarnessStops, OutcomeKind, TypeOK, HarnessOK
  <2>2. QED  BY <2>1, ReturnedType
<1>3. HandlesOK'
    BY <1>2 DEF HarnessStops, TypeOK, HandlesOK, handleVars
<1>4. HarnessOK'
    BY DEF HarnessStops, TypeOK, HarnessOK, harnessVars
<1>5. SchedulingOK'
    BY DEF HarnessStops, TypeOK, SchedulingOK, sessionVars, cleanupVars, schedVars
<1>6. SystemOK'
    BY FaultType DEF HarnessStops, TypeOK, SystemOK, FaultsOK, systemVars
<1>7. QED  BY <1>1, <1>2, <1>3, <1>4, <1>5, <1>6 DEF LiveOK

\* The loop pauses.
LEMMA PauseKeeps ==
    ASSUME TypeOK, Pause
    PROVE  StillStep(run, run') /\ LiveOK'
<1>1. StillStep(run, run')
    BY DEF Pause, StillStep, systemVars
<1>2. TasksOK' /\ accepted' \in Facts
  <2>1. /\ "approval_required" \in OutcomeKind /\ result \in Facts
        /\ pending \in SUBSET Calls /\ Returned("approval_required", result, pending)
    BY DEF Pause, OutcomeKind, TypeOK, HarnessOK
  <2>2. QED  BY <2>1, ReturnedType
<1>3. HandlesOK'
    BY <1>2 DEF Pause, TypeOK, HandlesOK, handleVars
<1>4. HarnessOK'
    BY DEF Pause, TypeOK, HarnessOK, harnessVars
<1>5. SchedulingOK'
    BY DEF Pause, TypeOK, SchedulingOK, sessionVars, cleanupVars, schedVars
<1>6. SystemOK'
    BY DEF Pause, TypeOK, SystemOK, FaultsOK, systemVars
<1>7. QED  BY <1>1, <1>2, <1>3, <1>4, <1>5, <1>6 DEF LiveOK

\* A call needs a confirmation.
LEMMA ToolGatesKeeps ==
    ASSUME TypeOK, NEW c \in Calls, ToolGates(c)
    PROVE  StillStep(run, run') /\ LiveOK'
<1>1. StillStep(run, run')
    BY DEF ToolGates, StillStep, Returns, systemVars
<1>2. TasksOK'
    BY DEF ToolGates, TypeOK, TasksOK, taskVars, ToolKeeps
<1>3. HandlesOK'
    BY BufferType, FactsType DEF ToolGates, TypeOK, HandlesOK, handleVars, Returns,
       ToolKeeps, Fact
<1>4. HarnessOK'
    BY DEF ToolGates, TypeOK, HarnessOK, Returns, ToolKeeps, Fact, FinalFact, Facts
<1>5. SchedulingOK'
    BY DEF ToolGates, TypeOK, SchedulingOK, sessionVars, cleanupVars, schedVars,
       ToolKeeps
<1>6. SystemOK'
    BY DEF ToolGates, TypeOK, SystemOK, FaultsOK, systemVars, Returns, ToolKeeps
<1>7. QED  BY <1>1, <1>2, <1>3, <1>4, <1>5, <1>6 DEF LiveOK

\* A call does not run.
LEMMA ToolRefusedKeeps ==
    ASSUME TypeOK, NEW c \in Calls, ToolRefused(c)
    PROVE  StillStep(run, run') /\ LiveOK'
<1>1. StillStep(run, run')
    BY DEF ToolRefused, StillStep, Returns, systemVars
<1>2. TasksOK'
    BY DEF ToolRefused, TypeOK, TasksOK, taskVars, ToolKeeps
<1>3. HandlesOK'
    BY BufferType, FactsType DEF ToolRefused, TypeOK, HandlesOK, handleVars, Returns,
       ToolKeeps, Fact, FinalFact
<1>4. HarnessOK'
    BY DEF ToolRefused, TypeOK, HarnessOK, Returns, ToolKeeps, Fact, FinalFact, Facts
<1>5. SchedulingOK'
    BY DEF ToolRefused, TypeOK, SchedulingOK, sessionVars, cleanupVars, schedVars,
       ToolKeeps
<1>6. SystemOK'
    BY DEF ToolRefused, TypeOK, SystemOK, FaultsOK, systemVars, Returns, ToolKeeps
<1>7. QED  BY <1>1, <1>2, <1>3, <1>4, <1>5, <1>6 DEF LiveOK

\* A call runs.
LEMMA ToolExecutesKeeps ==
    ASSUME TypeOK, NEW c \in Calls, ToolExecutes(c)
    PROVE  StillStep(run, run') /\ LiveOK'
<1>1. StillStep(run, run')
    BY DEF ToolExecutes, StillStep, systemVars
<1>2. TasksOK'
    BY DEF ToolExecutes, TypeOK, TasksOK, taskVars, ToolKeeps
<1>3. HandlesOK'
    BY DEF ToolExecutes, TypeOK, HandlesOK, handleVars, ToolKeeps
<1>4. HarnessOK'
    BY DEF ToolExecutes, TypeOK, HarnessOK, harnessVars, ToolKeeps
<1>5. SchedulingOK'
    BY DEF ToolExecutes, TypeOK, SchedulingOK, sessionVars, cleanupVars, schedVars,
       ToolKeeps
<1>6. SystemOK'
    BY DEF ToolExecutes, TypeOK, SystemOK, FaultsOK, systemVars, ToolKeeps
<1>7. QED  BY <1>1, <1>2, <1>3, <1>4, <1>5, <1>6 DEF LiveOK

\* A call ends.
LEMMA ToolEndsKeeps ==
    ASSUME TypeOK, NEW c \in Calls, ToolEnds(c)
    PROVE  StillStep(run, run') /\ LiveOK'
<1>1. StillStep(run, run')
    BY DEF ToolEnds, StillStep, Returns, systemVars
<1>2. TasksOK'
    BY DEF ToolEnds, TypeOK, TasksOK, taskVars, ToolKeeps
<1>3. HandlesOK'
    BY BufferType, FactsType DEF ToolEnds, TypeOK, HandlesOK, handleVars, Returns,
       ToolKeeps, Fact, FinalFact
<1>4. HarnessOK'
    BY DEF ToolEnds, TypeOK, HarnessOK, Returns, ToolKeeps, Fact, FinalFact, Facts
<1>5. SchedulingOK'
    BY DEF ToolEnds, TypeOK, SchedulingOK, sessionVars, cleanupVars, schedVars,
       ToolKeeps
<1>6. SystemOK'
    BY DEF ToolEnds, TypeOK, SystemOK, FaultsOK, systemVars, Returns, ToolKeeps
<1>7. QED  BY <1>1, <1>2, <1>3, <1>4, <1>5, <1>6 DEF LiveOK

\* The write of a result.
LEMMA ToolPersistsKeeps ==
    ASSUME TypeOK, NEW c \in Calls, ToolPersists(c)
    PROVE  StillStep(run, run') /\ LiveOK'
<1>1. StillStep(run, run')
  <2>1. CASE run' = run
    BY <2>1 DEF StillStep
  <2>2. CASE run' # run
    <3>1. result[c] \in Fact
      BY DEF TypeOK, HarnessOK, Facts
    <3>2. run' = Merge(run, OneFact(c, result[c])) /\ Compatible(run.fact[c], result[c])
      BY <2>2, FaultType DEF ToolPersists, Commit
    <3>3. OneFact(c, result[c]) \in Facts /\ CanMerge(run, OneFact(c, result[c]))
      BY <3>1, <3>2, FactsType DEF CanMerge, OneFact, NoFacts, Compatible
    <3>4. QED  BY <3>2, <3>3 DEF StillStep, Settled
  <2>3. QED  BY <2>1, <2>2
<1>2. TasksOK'
    BY DEF ToolPersists, TypeOK, TasksOK, taskVars, ToolKeeps
<1>3. HandlesOK'
  <2>1. OneFact(c, result[c]) \in Facts
    BY BufferType, FactsType DEF TypeOK, HarnessOK, Facts
  <2>2. accepted' \in Facts
    BY <2>1, BufferType, FactsType DEF ToolPersists, TypeOK, HandlesOK
  <2>3. QED  BY <2>2 DEF ToolPersists, ToolKeeps, TypeOK, HandlesOK, handleVars
<1>4. HarnessOK'
  <2>1. tool' \in [Calls -> {"unused", "idle", "executing", "persisting", "gated",
                             "approved", "rejected", "delivered", "closed"}]
    BY DEF ToolPersists, TypeOK, HarnessOK
  <2>2. pending' \subseteq Calls
    BY DEF ToolPersists, TypeOK, HarnessOK
  <2>3. result' \in Facts
    BY DEF ToolPersists, TypeOK, HarnessOK, Facts, Fact, FinalFact
  <2>4. QED  BY <2>1, <2>2, <2>3 DEF ToolPersists, ToolKeeps, TypeOK, HarnessOK
<1>5. SchedulingOK'
    BY DEF ToolPersists, TypeOK, SchedulingOK, sessionVars, cleanupVars, schedVars,
       ToolKeeps
<1>6. SystemOK'
    BY FaultType DEF ToolPersists, TypeOK, SystemOK, FaultsOK, systemVars, ToolKeeps
<1>7. QED  BY <1>1, <1>2, <1>3, <1>4, <1>5, <1>6 DEF LiveOK

\* A pause is admitted or released.
LEMMA ApplyPauseKeeps ==
    ASSUME TypeOK, NEW t \in Tasks, ApplyPause(t)
    PROVE  SnapshotStep(run, run') /\ LiveOK'
<1>1. SnapshotStep(run, run')
    BY FaultType DEF ApplyPause, SnapshotStep, StillStep, PauseStep, TypeOK, TasksOK
<1>2. TasksOK'
    BY DEF ApplyPause, TypeOK, TasksOK, taskVars, Goto, TaskPc, EndsTask
<1>3. HandlesOK'
  <2>1. outcome[t].facts \in Facts
    BY DEF TypeOK, TasksOK
  <2>2. accepted' \in Facts
    BY <2>1, BufferType, FactsType DEF ApplyPause, TypeOK, HandlesOK
  <2>3. QED  BY <2>2 DEF ApplyPause, EndsTask, TypeOK, HandlesOK
<1>4. HarnessOK'
    BY FactsType DEF ApplyPause, TypeOK, HarnessOK, harnessVars, EndsTask
<1>5. SchedulingOK'
    BY DEF ApplyPause, TypeOK, SchedulingOK, sessionVars, cleanupVars, EndsTask, Awaken
<1>6. SystemOK'
    BY FaultType DEF ApplyPause, TypeOK, SystemOK, FaultsOK, systemVars
<1>7. QED  BY <1>1, <1>2, <1>3, <1>4, <1>5, <1>6 DEF LiveOK

\* An outcome ends the run.
LEMMA ApplyOutcomeKeeps ==
    ASSUME TypeOK, NEW t \in Tasks, ApplyOutcome(t)
    PROVE  (StillStep(run, run') \/ EndStep(run, run')) /\ LiveOK'
<1>1. /\ (StillStep(run, run') \/ EndStep(run, run')) /\ FaultsOK'
      /\ pc' \in [Tasks -> TaskPc]
      /\ finalization' \in {"clear", "pending", "failed"}
  <2>1. CASE IsTerminal(run)
    BY <2>1 DEF ApplyOutcome, StillStep, TypeOK, TasksOK, SchedulingOK, SystemOK,
       FaultsOK, Goto, TaskPc
  <2>2. CASE ~IsTerminal(run)
    <3> DEFINE how  == outcome[t].kind
               next == IF outcome[t].kind = "completed" THEN "commitFailed" ELSE "caught"
    <3>1. EndsRun(t, how, outcome[t].facts, next)
      BY <2>2 DEF ApplyOutcome
    <3>2. how \in Terminal /\ next \in TaskPc /\ outcome[t].facts \in Facts
      BY DEF ApplyOutcome, TypeOK, TasksOK, Terminal, TaskPc
    <3>3. QED  BY <3>1, <3>2, EndSteps
  <2>3. QED  BY <2>1, <2>2
<1>2. TasksOK'
    BY <1>1 DEF ApplyOutcome, TaskCommitKeeps, TypeOK, TasksOK
<1>3. HandlesOK'
    BY DEF ApplyOutcome, TypeOK, HandlesOK, handleVars, TaskCommitKeeps
<1>4. HarnessOK'
    BY DEF ApplyOutcome, TypeOK, HarnessOK, harnessVars, TaskCommitKeeps
<1>5. SchedulingOK'
    BY <1>1 DEF ApplyOutcome, TaskCommitKeeps, TypeOK, SchedulingOK, cleanupVars
<1>6. SystemOK'
    BY <1>1 DEF ApplyOutcome, TaskCommitKeeps, TypeOK, SystemOK, FaultsOK, systemVars
<1>7. QED  BY <1>1, <1>2, <1>3, <1>4, <1>5, <1>6 DEF LiveOK

\* The continuation was released.
LEMMA ReleasedKeeps ==
    ASSUME TypeOK, NEW t \in Tasks, Released(t)
    PROVE  StillStep(run, run') /\ LiveOK'
<1>1. StillStep(run, run')
    BY DEF Released, StillStep, systemVars
<1>2. TasksOK'
    BY DEF Released, TypeOK, TasksOK, taskVars, Goto, TaskPc, TaskKeeps
<1>3. HandlesOK'
    BY DEF Released, TypeOK, HandlesOK, handleVars, TaskKeeps
<1>4. HarnessOK'
    BY DEF Released, TypeOK, HarnessOK, harnessVars, TaskKeeps
<1>5. SchedulingOK'
    BY DEF Released, TypeOK, SchedulingOK, sessionVars, cleanupVars, schedVars,
       TaskKeeps
<1>6. SystemOK'
    BY DEF Released, TypeOK, SystemOK, FaultsOK, systemVars, TaskKeeps
<1>7. QED  BY <1>1, <1>2, <1>3, <1>4, <1>5, <1>6 DEF LiveOK

\* The catch block.
LEMMA CaughtKeeps ==
    ASSUME TypeOK, NEW t \in Tasks, Caught(t)
    PROVE  (StillStep(run, run') \/ EndStep(run, run')) /\ LiveOK'
<1>1. /\ (StillStep(run, run') \/ EndStep(run, run')) /\ FaultsOK'
      /\ pc' \in [Tasks -> TaskPc]
      /\ finalization' \in {"clear", "pending", "failed"}
  <2>1. CASE IsTerminal(run)
    BY <2>1 DEF Caught, StillStep, TypeOK, TasksOK, SchedulingOK, SystemOK, FaultsOK,
       Goto, TaskPc
  <2>2. CASE ~IsTerminal(run)
    <3> DEFINE how  == IF aborted THEN "cancelled" ELSE "failed"
               next == "flush"
    <3>1. EndsRun(t, how, outcome[t].facts, next)
      BY <2>2 DEF Caught
    <3>2. how \in Terminal /\ next \in TaskPc /\ outcome[t].facts \in Facts
      BY DEF Caught, TypeOK, TasksOK, Terminal, TaskPc
    <3>3. QED  BY <3>1, <3>2, EndSteps
  <2>3. QED  BY <2>1, <2>2
<1>2. TasksOK'
    BY <1>1 DEF Caught, TaskCommitKeeps, TypeOK, TasksOK
<1>3. HandlesOK'
    BY DEF Caught, TypeOK, HandlesOK, handleVars, TaskCommitKeeps
<1>4. HarnessOK'
    BY DEF Caught, TypeOK, HarnessOK, harnessVars, TaskCommitKeeps
<1>5. SchedulingOK'
    BY <1>1 DEF Caught, TaskCommitKeeps, TypeOK, SchedulingOK, cleanupVars
<1>6. SystemOK'
    BY <1>1 DEF Caught, TaskCommitKeeps, TypeOK, SystemOK, FaultsOK, systemVars
<1>7. QED  BY <1>1, <1>2, <1>3, <1>4, <1>5, <1>6 DEF LiveOK

\* The block of a run whose completion was not stored.
LEMMA CompletionCommitFailsKeeps ==
    ASSUME TypeOK, NEW t \in Tasks, CompletionCommitFails(t)
    PROVE  (StillStep(run, run') \/ EndStep(run, run')) /\ LiveOK'
<1>1. /\ (StillStep(run, run') \/ EndStep(run, run')) /\ FaultsOK'
      /\ pc' \in [Tasks -> TaskPc]
      /\ finalization' \in {"clear", "pending", "failed"}
  <2>1. CASE IsTerminal(run)
    BY <2>1 DEF CompletionCommitFails, StillStep, TypeOK, TasksOK, SchedulingOK,
       SystemOK, FaultsOK, Goto, TaskPc
  <2>2. CASE ~IsTerminal(run)
    <3> DEFINE how  == "blocked"
               next == "flush"
    <3>1. EndsRun(t, how, outcome[t].facts, next)
      BY <2>2 DEF CompletionCommitFails
    <3>2. how \in Terminal /\ next \in TaskPc /\ outcome[t].facts \in Facts
      BY DEF CompletionCommitFails, TypeOK, TasksOK, Terminal, TaskPc
    <3>3. QED  BY <3>1, <3>2, EndSteps
  <2>3. QED  BY <2>1, <2>2
<1>2. TasksOK'
    BY <1>1 DEF CompletionCommitFails, TaskCommitKeeps, TypeOK, TasksOK
<1>3. HandlesOK'
    BY DEF CompletionCommitFails, TypeOK, HandlesOK, handleVars
<1>4. HarnessOK'
    BY DEF CompletionCommitFails, TypeOK, HarnessOK, harnessVars
<1>5. SchedulingOK'
    BY <1>1 DEF CompletionCommitFails, Awaken, TypeOK, SchedulingOK, cleanupVars
<1>6. SystemOK'
    BY <1>1 DEF CompletionCommitFails, TaskCommitKeeps, TypeOK, SystemOK, FaultsOK,
       systemVars
<1>7. QED  BY <1>1, <1>2, <1>3, <1>4, <1>5, <1>6 DEF LiveOK

\* Its retry.
LEMMA CompletionRetriesKeeps ==
    ASSUME TypeOK, CompletionRetries
    PROVE  (StillStep(run, run') \/ EndStep(run, run')) /\ LiveOK'
<1>1. (StillStep(run, run') \/ EndStep(run, run'))
    BY FaultType DEF CompletionRetries, StillStep, EndStep, Terminal, TypeOK, HarnessOK
<1>2. TasksOK'
    BY DEF CompletionRetries, TypeOK, TasksOK, taskVars
<1>3. HandlesOK'
    BY DEF CompletionRetries, TypeOK, HandlesOK, handleVars
<1>4. HarnessOK'
    BY DEF CompletionRetries, TypeOK, HarnessOK, harnessVars
<1>5. SchedulingOK'
    BY DEF CompletionRetries, TypeOK, SchedulingOK, cleanupVars, Finalizing, Awaken
<1>6. SystemOK'
    BY FaultType DEF CompletionRetries, TypeOK, SystemOK, FaultsOK, systemVars
<1>7. QED  BY <1>1, <1>2, <1>3, <1>4, <1>5, <1>6 DEF LiveOK

\* The finalization after it.
LEMMA CompletionFinalizedKeeps ==
    ASSUME TypeOK, CompletionFinalized
    PROVE  StillStep(run, run') /\ LiveOK'
<1>1. StillStep(run, run')
    BY DEF CompletionFinalized, StillStep, systemVars
<1>2. TasksOK'
    BY DEF CompletionFinalized, TypeOK, TasksOK, taskVars
<1>3. HandlesOK'
    BY DEF CompletionFinalized, TypeOK, HandlesOK, handleVars
<1>4. HarnessOK'
    BY DEF CompletionFinalized, TypeOK, HarnessOK, harnessVars
<1>5. SchedulingOK'
    BY FinalizeType DEF CompletionFinalized, TypeOK, SchedulingOK, cleanupVars, Awaken
<1>6. SystemOK'
    BY FinalizeType DEF CompletionFinalized, TypeOK, SystemOK, FaultsOK, systemVars
<1>7. QED  BY <1>1, <1>2, <1>3, <1>4, <1>5, <1>6 DEF LiveOK

\* The finalization of a task.
LEMMA TaskFinalizedKeeps ==
    ASSUME TypeOK, NEW t \in Tasks, TaskFinalized(t)
    PROVE  StillStep(run, run') /\ LiveOK'
<1>1. StillStep(run, run')
    BY DEF TaskFinalized, StillStep, systemVars
<1>2. TasksOK'
    BY DEF TaskFinalized, TypeOK, TasksOK, taskVars, Goto, TaskPc
<1>3. HandlesOK'
    BY DEF TaskFinalized, TypeOK, HandlesOK, handleVars
<1>4. HarnessOK'
    BY DEF TaskFinalized, TypeOK, HarnessOK, harnessVars
<1>5. SchedulingOK' /\ FaultsOK'
  <2>1. PICK ok \in BOOLEAN : FinalizeEnds(ok, TaskRestores)
    BY DEF TaskFinalized
  <2>2. /\ session' \in {"none", "acquiring", "open", "restored"}
        /\ finalization' \in {"clear", "pending", "failed"} /\ FaultsOK'
    BY <2>1, FinalizeType
  <2>3. QED  BY <2>2 DEF TaskFinalized, TypeOK, SchedulingOK, cleanupVars, schedVars
<1>6. SystemOK'
    BY <1>5 DEF TaskFinalized, TypeOK, SystemOK, FaultsOK, systemVars
<1>7. QED  BY <1>1, <1>2, <1>3, <1>4, <1>5, <1>6 DEF LiveOK

\* A task flushes the buffer.
LEMMA TaskFlushesKeeps ==
    ASSUME TypeOK, NEW t \in Tasks, TaskFlushes(t)
    PROVE  StillStep(run, run') /\ LiveOK'
<1>1. StillStep(run, run')
    BY FlushSteps DEF TaskFlushes, StillStep, TypeOK, systemVars
<1>2. TasksOK'
    BY DEF TaskFlushes, TypeOK, TasksOK, taskVars, Goto, TaskPc, EndsTask
<1>3. HandlesOK'
    BY FlushSteps DEF TaskFlushes, TypeOK, HandlesOK, handleVars, EndsTask
<1>4. HarnessOK'
    BY DEF TaskFlushes, TypeOK, HarnessOK, harnessVars, EndsTask
<1>5. SchedulingOK'
    BY DEF TaskFlushes, TypeOK, SchedulingOK, sessionVars, cleanupVars, EndsTask, Awaken
<1>6. SystemOK'
    BY FlushSteps DEF TaskFlushes, TypeOK, SystemOK, FaultsOK, systemVars
<1>7. QED  BY <1>1, <1>2, <1>3, <1>4, <1>5, <1>6 DEF LiveOK

\* A task settles the round.
LEMMA TaskSettlesKeeps ==
    ASSUME TypeOK, NEW t \in Tasks, TaskSettles(t)
    PROVE  StillStep(run, run') /\ LiveOK'
<1>1. StillStep(run, run')
    BY SettleSteps DEF TaskSettles, StillStep, TypeOK, systemVars
<1>2. TasksOK'
    BY DEF TaskSettles, TypeOK, TasksOK, taskVars, Goto, TaskPc, EndsTask
<1>3. HandlesOK'
    BY SettleSteps DEF TaskSettles, TypeOK, HandlesOK, handleVars, EndsTask
<1>4. HarnessOK'
    BY DEF TaskSettles, TypeOK, HarnessOK, harnessVars, EndsTask
<1>5. SchedulingOK'
    BY DEF TaskSettles, TypeOK, SchedulingOK, sessionVars, cleanupVars, EndsTask, Awaken
<1>6. SystemOK'
    BY SettleSteps DEF TaskSettles, TypeOK, SystemOK, FaultsOK, systemVars
<1>7. QED  BY <1>1, <1>2, <1>3, <1>4, <1>5, <1>6 DEF LiveOK

\* The leaf is restored.
LEMMA SessionRestoresKeeps ==
    ASSUME TypeOK, SessionRestores
    PROVE  StillStep(run, run') /\ LiveOK'
<1>1. StillStep(run, run')
    BY DEF SessionRestores, StillStep, systemVars
<1>2. TasksOK'
    BY DEF SessionRestores, TypeOK, TasksOK, taskVars
<1>3. HandlesOK'
    BY DEF SessionRestores, TypeOK, HandlesOK, handleVars
<1>4. HarnessOK'
    BY DEF SessionRestores, TypeOK, HarnessOK, harnessVars
<1>5. SchedulingOK'
    BY DEF SessionRestores, TypeOK, SchedulingOK, sessionVars, cleanupVars, schedVars
<1>6. SystemOK'
    BY DEF SessionRestores, TypeOK, SystemOK, FaultsOK, systemVars
<1>7. QED  BY <1>1, <1>2, <1>3, <1>4, <1>5, <1>6 DEF LiveOK

\* The user decides.
LEMMA DecideApprovalKeeps ==
    ASSUME TypeOK, NEW c \in Calls, NEW d \in {"approve_once", "reject"},
           DecideApproval(c, d)
    PROVE  DecideStep(run, run') /\ LiveOK'
<1>1. DecideStep(run, run')
    BY DEF DecideApproval, DecideStep, Commit, systemVars
<1>2. TasksOK'
    BY DEF DecideApproval, TypeOK, TasksOK, Goto, TaskPc, Tasks, NoOutcome, NoFacts,
       Facts, Fact, OutcomeKind
<1>3. HandlesOK'
    BY DEF DecideApproval, TypeOK, HandlesOK, handleVars, NoFacts, Facts, Fact
<1>4. HarnessOK'
    BY DEF DecideApproval, TypeOK, HarnessOK, harnessVars, NoFacts, Facts, Fact
<1>5. SchedulingOK'
    BY DEF DecideApproval, TypeOK, SchedulingOK, sessionVars, cleanupVars, schedVars
<1>6. SystemOK'
    BY FaultType DEF DecideApproval, TypeOK, SystemOK, FaultsOK, systemVars, Commit
<1>7. QED  BY <1>1, <1>2, <1>3, <1>4, <1>5, <1>6 DEF LiveOK

\* The user cancels.
LEMMA CancelKeeps ==
    ASSUME TypeOK, Cancel
    PROVE  (StillStep(run, run') \/ EndStep(run, run')) /\ LiveOK'
<1>1. StillStep(run, run') \/ EndStep(run, run')
  <2>1. CASE IsTerminal(run)
    BY <2>1 DEF Cancel, Commit, StillStep, EndStep
  <2>2. CASE ~IsTerminal(run)
    <3>1. CanEnd(run, "cancelled", NoFacts) /\ NoFacts \in Facts
      BY <2>2 DEF CanEnd, MayEnd, CanMerge, Compatible, NoFacts, Facts, Fact,
         IsTerminal, TypeOK, RunState, Status
    <3>2. QED  BY <2>2, <3>1 DEF Cancel, Commit, StillStep, EndStep, Terminal
  <2>3. QED  BY <2>1, <2>2
<1>2. TasksOK'
    BY DEF Cancel, TypeOK, TasksOK, taskVars, CleanupGoesOn
<1>3. HandlesOK'
    BY DEF Cancel, TypeOK, HandlesOK, handleVars, CleanupGoesOn
<1>4. HarnessOK'
    BY DEF Cancel, TypeOK, HarnessOK, harnessVars
<1>5. SchedulingOK'
  <2> DEFINE fin == ~IsTerminal(run) \/ finalization # "clear"
  <2>1. CASE cleanup \notin {"off", "timer"}
    BY <2>1 DEF Cancel, TypeOK, HandlesOK, SchedulingOK, schedVars
  <2>2. CASE cleanup \in {"off", "timer"} /\ (continuation \/ cleanupCont)
    <3>1. /\ cleanupCont' = TRUE /\ cleanupFin' = fin /\ cleanup' = "release"
          /\ UNCHANGED finalization
      BY <2>2 DEF Cancel
    <3>2. QED  BY <3>1 DEF Cancel, TypeOK, SchedulingOK, schedVars
  <2>3. CASE cleanup \in {"off", "timer"} /\ ~(continuation \/ cleanupCont)
    <3>1. CleanupGoesOn(FALSE, fin)
      BY <2>3 DEF Cancel
    <3>2. fin \in BOOLEAN
      OBVIOUS
    <3>3. /\ cleanup' \in {"finalize", "settle", "timer"}
          /\ cleanupCont' = FALSE /\ cleanupFin' = fin
          /\ finalization' \in {"clear", "pending", "failed"}
      BY <3>1, <3>2, GoesOnType
    <3>4. QED  BY <3>2, <3>3 DEF Cancel, TypeOK, SchedulingOK, schedVars
  <2>4. QED  BY <2>1, <2>2, <2>3
<1>6. SystemOK'
    BY FaultType, BoundsAssumption DEF Cancel, TypeOK, SystemOK, FaultsOK
<1>7. QED  BY <1>1, <1>2, <1>3, <1>4, <1>5, <1>6 DEF LiveOK

\* The cleanup released the continuation.
LEMMA CleanupReleasesKeeps ==
    ASSUME TypeOK, CleanupReleases
    PROVE  StillStep(run, run') /\ LiveOK'
<1>1. StillStep(run, run')
    BY DEF CleanupReleases, StillStep, systemVars
<1>2. TasksOK'
    BY DEF CleanupReleases, TypeOK, TasksOK, taskVars, CleanupKeeps, CleanupGoesOn
<1>3. HandlesOK'
    BY DEF CleanupReleases, TypeOK, HandlesOK, handleVars, CleanupKeeps, CleanupGoesOn
<1>4. HarnessOK'
    BY DEF CleanupReleases, TypeOK, HarnessOK, harnessVars, CleanupKeeps
<1>5. SchedulingOK'
    BY DEF CleanupReleases, TypeOK, SchedulingOK, schedVars, CleanupGoesOn, Finalizing
<1>6. SystemOK'
    BY FaultType DEF CleanupReleases, TypeOK, SystemOK, FaultsOK, systemVars,
       CleanupKeeps
<1>7. QED  BY <1>1, <1>2, <1>3, <1>4, <1>5, <1>6 DEF LiveOK

\* The cleanup finalized the Session.
LEMMA CleanupFinalizedKeeps ==
    ASSUME TypeOK, CleanupFinalized
    PROVE  StillStep(run, run') /\ LiveOK'
<1>1. StillStep(run, run')
    BY DEF CleanupFinalized, StillStep, systemVars
<1>2. TasksOK'
    BY DEF CleanupFinalized, TypeOK, TasksOK, taskVars, CleanupKeeps
<1>3. HandlesOK'
    BY DEF CleanupFinalized, TypeOK, HandlesOK, handleVars, CleanupKeeps
<1>4. HarnessOK'
    BY DEF CleanupFinalized, TypeOK, HarnessOK, harnessVars, CleanupKeeps
<1>5. SchedulingOK' /\ FaultsOK'
  <2>1. PICK ok \in BOOLEAN : FinalizeEnds(ok, LaterRestores)
    BY DEF CleanupFinalized
  <2>2. /\ session' \in {"none", "acquiring", "open", "restored"}
        /\ finalization' \in {"clear", "pending", "failed"} /\ FaultsOK'
    BY <2>1, FinalizeType
  <2>3. QED  BY <2>2 DEF CleanupFinalized, TypeOK, SchedulingOK, schedVars
<1>6. SystemOK'
    BY <1>5 DEF CleanupFinalized, TypeOK, SystemOK, FaultsOK, systemVars, CleanupKeeps
<1>7. QED  BY <1>1, <1>2, <1>3, <1>4, <1>5, <1>6 DEF LiveOK

\* The cleanup leaves the rest to an execution, or goes on.
LEMMA CleanupSettlesKeeps ==
    ASSUME TypeOK, CleanupSettles
    PROVE  StillStep(run, run') /\ LiveOK'
<1>1. StillStep(run, run')
    BY DEF CleanupSettles, StillStep, systemVars
<1>2. TasksOK'
    BY DEF CleanupSettles, TypeOK, TasksOK, taskVars, CleanupKeeps
<1>3. HandlesOK'
    BY DEF CleanupSettles, TypeOK, HandlesOK, handleVars, CleanupKeeps
<1>4. HarnessOK'
    BY DEF CleanupSettles, TypeOK, HarnessOK, harnessVars, CleanupKeeps
<1>5. SchedulingOK'
    BY DEF CleanupSettles, TypeOK, SchedulingOK, sessionVars, Awaken
<1>6. SystemOK'
    BY FaultType DEF CleanupSettles, TypeOK, SystemOK, FaultsOK, systemVars,
       CleanupKeeps
<1>7. QED  BY <1>1, <1>2, <1>3, <1>4, <1>5, <1>6 DEF LiveOK

\* The cleanup flushes the buffer.
LEMMA CleanupFlushesKeeps ==
    ASSUME TypeOK, CleanupFlushes
    PROVE  StillStep(run, run') /\ LiveOK'
<1>1. StillStep(run, run')
    BY FlushSteps DEF CleanupFlushes, StillStep, TypeOK, systemVars
<1>2. TasksOK'
    BY DEF CleanupFlushes, TypeOK, TasksOK, taskVars, CleanupKeeps
<1>3. HandlesOK'
    BY FlushSteps DEF CleanupFlushes, TypeOK, HandlesOK, handleVars, CleanupKeeps
<1>4. HarnessOK'
    BY DEF CleanupFlushes, TypeOK, HarnessOK, harnessVars, CleanupKeeps
<1>5. SchedulingOK'
    BY DEF CleanupFlushes, TypeOK, SchedulingOK, sessionVars, cleanupVars, schedVars,
       CleanupKeeps
<1>6. SystemOK'
    BY FlushSteps DEF CleanupFlushes, TypeOK, SystemOK, FaultsOK, systemVars,
       CleanupKeeps
<1>7. QED  BY <1>1, <1>2, <1>3, <1>4, <1>5, <1>6 DEF LiveOK

\* The cleanup settles the round.
LEMMA CleanupChecksKeeps ==
    ASSUME TypeOK, CleanupChecks
    PROVE  StillStep(run, run') /\ LiveOK'
<1>1. StillStep(run, run')
    BY SettleSteps DEF CleanupChecks, StillStep, TypeOK, systemVars
<1>2. TasksOK'
    BY DEF CleanupChecks, TypeOK, TasksOK, taskVars, CleanupKeeps
<1>3. HandlesOK'
    BY SettleSteps DEF CleanupChecks, TypeOK, HandlesOK, handleVars, CleanupKeeps
<1>4. HarnessOK'
    BY DEF CleanupChecks, TypeOK, HarnessOK, harnessVars, CleanupKeeps
<1>5. SchedulingOK'
    BY DEF CleanupChecks, TypeOK, SchedulingOK, sessionVars, Awaken
<1>6. SystemOK'
    BY SettleSteps DEF CleanupChecks, TypeOK, SystemOK, FaultsOK, systemVars,
       CleanupKeeps
<1>7. QED  BY <1>1, <1>2, <1>3, <1>4, <1>5, <1>6 DEF LiveOK

\* The cleanup starts again.
LEMMA CleanupRetriesKeeps ==
    ASSUME TypeOK, CleanupRetries
    PROVE  StillStep(run, run') /\ LiveOK'
<1>1. StillStep(run, run')
    BY DEF CleanupRetries, StillStep, systemVars
<1>2. TasksOK'
    BY DEF CleanupRetries, TypeOK, TasksOK, taskVars, CleanupKeeps, CleanupGoesOn
<1>3. HandlesOK'
    BY DEF CleanupRetries, TypeOK, HandlesOK, handleVars, CleanupKeeps, CleanupGoesOn
<1>4. HarnessOK'
    BY DEF CleanupRetries, TypeOK, HarnessOK, harnessVars, CleanupKeeps
<1>5. SchedulingOK'
    BY DEF CleanupRetries, TypeOK, SchedulingOK, schedVars, CleanupGoesOn, Finalizing
<1>6. SystemOK'
    BY FaultType DEF CleanupRetries, TypeOK, SystemOK, FaultsOK, systemVars,
       CleanupKeeps
<1>7. QED  BY <1>1, <1>2, <1>3, <1>4, <1>5, <1>6 DEF LiveOK

\* The pump looks at the run.
LEMMA PumpStartsKeeps ==
    ASSUME TypeOK, PumpStarts
    PROVE  StillStep(run, run') /\ LiveOK'
<1>1. StillStep(run, run')
    BY DEF PumpStarts, StillStep, systemVars
<1>2. TasksOK'
    BY DEF PumpStarts, TypeOK, TasksOK, taskVars, PumpKeeps
<1>3. HandlesOK'
    BY DEF PumpStarts, TypeOK, HandlesOK, handleVars, PumpKeeps
<1>4. HarnessOK'
    BY DEF PumpStarts, TypeOK, HarnessOK, harnessVars, PumpKeeps
<1>5. SchedulingOK'
    BY DEF PumpStarts, TypeOK, SchedulingOK, cleanupVars, PumpKeeps, Finalizing
<1>6. SystemOK'
    BY FaultType DEF PumpStarts, TypeOK, SystemOK, FaultsOK, systemVars, PumpKeeps
<1>7. QED  BY <1>1, <1>2, <1>3, <1>4, <1>5, <1>6 DEF LiveOK

\* The pump flushes the buffer.
LEMMA PumpFlushesKeeps ==
    ASSUME TypeOK, PumpFlushes
    PROVE  StillStep(run, run') /\ LiveOK'
<1>1. StillStep(run, run')
    BY FlushSteps DEF PumpFlushes, StillStep, TypeOK, systemVars
<1>2. TasksOK'
    BY DEF PumpFlushes, TypeOK, TasksOK, taskVars, PumpKeeps
<1>3. HandlesOK'
    BY FlushSteps DEF PumpFlushes, TypeOK, HandlesOK, handleVars, PumpKeeps
<1>4. HarnessOK'
    BY DEF PumpFlushes, TypeOK, HarnessOK, harnessVars, PumpKeeps
<1>5. SchedulingOK'
    BY DEF PumpFlushes, TypeOK, SchedulingOK, sessionVars, cleanupVars, schedVars,
       PumpKeeps
<1>6. SystemOK'
    BY FlushSteps DEF PumpFlushes, TypeOK, SystemOK, FaultsOK, systemVars, PumpKeeps
<1>7. QED  BY <1>1, <1>2, <1>3, <1>4, <1>5, <1>6 DEF LiveOK

\* The pump settles the round.
LEMMA PumpSettlesKeeps ==
    ASSUME TypeOK, PumpSettles
    PROVE  StillStep(run, run') /\ LiveOK'
<1>1. StillStep(run, run')
    BY SettleSteps DEF PumpSettles, StillStep, TypeOK, systemVars
<1>2. TasksOK'
    BY DEF PumpSettles, TypeOK, TasksOK, taskVars, PumpKeeps
<1>3. HandlesOK'
    BY SettleSteps DEF PumpSettles, TypeOK, HandlesOK, handleVars, PumpKeeps
<1>4. HarnessOK'
    BY DEF PumpSettles, TypeOK, HarnessOK, harnessVars, PumpKeeps
<1>5. SchedulingOK'
    BY DEF PumpSettles, TypeOK, SchedulingOK, sessionVars, cleanupVars, schedVars,
       PumpKeeps
<1>6. SystemOK'
    BY SettleSteps DEF PumpSettles, TypeOK, SystemOK, FaultsOK, systemVars, PumpKeeps
<1>7. QED  BY <1>1, <1>2, <1>3, <1>4, <1>5, <1>6 DEF LiveOK

\* The pump finalized the Session.
LEMMA PumpFinalizedKeeps ==
    ASSUME TypeOK, PumpFinalized
    PROVE  StillStep(run, run') /\ LiveOK'
<1>1. StillStep(run, run')
    BY DEF PumpFinalized, StillStep, systemVars
<1>2. TasksOK'
    BY DEF PumpFinalized, TypeOK, TasksOK, taskVars, PumpKeeps
<1>3. HandlesOK'
    BY DEF PumpFinalized, TypeOK, HandlesOK, handleVars, PumpKeeps
<1>4. HarnessOK'
    BY DEF PumpFinalized, TypeOK, HarnessOK, harnessVars, PumpKeeps
<1>5. SchedulingOK' /\ FaultsOK'
  <2>1. PICK ok \in BOOLEAN : FinalizeEnds(ok, LaterRestores)
    BY DEF PumpFinalized
  <2>2. /\ session' \in {"none", "acquiring", "open", "restored"}
        /\ finalization' \in {"clear", "pending", "failed"} /\ FaultsOK'
    BY <2>1, FinalizeType
  <2>3. QED  BY <2>2 DEF PumpFinalized, TypeOK, SchedulingOK, cleanupVars, PumpKeeps
<1>6. SystemOK'
    BY <1>5 DEF PumpFinalized, TypeOK, SystemOK, FaultsOK, systemVars, PumpKeeps
<1>7. QED  BY <1>1, <1>2, <1>3, <1>4, <1>5, <1>6 DEF LiveOK

\* The pump starts again.
LEMMA PumpRetriesKeeps ==
    ASSUME TypeOK, PumpRetries
    PROVE  StillStep(run, run') /\ LiveOK'
<1>1. StillStep(run, run')
    BY DEF PumpRetries, StillStep, systemVars
<1>2. TasksOK'
    BY DEF PumpRetries, TypeOK, TasksOK, taskVars, PumpKeeps
<1>3. HandlesOK'
    BY DEF PumpRetries, TypeOK, HandlesOK, handleVars, PumpKeeps
<1>4. HarnessOK'
    BY DEF PumpRetries, TypeOK, HarnessOK, harnessVars, PumpKeeps
<1>5. SchedulingOK'
    BY DEF PumpRetries, TypeOK, SchedulingOK, sessionVars, cleanupVars, schedVars,
       PumpKeeps
<1>6. SystemOK'
    BY FaultType DEF PumpRetries, TypeOK, SystemOK, FaultsOK, systemVars, PumpKeeps
<1>7. QED  BY <1>1, <1>2, <1>3, <1>4, <1>5, <1>6 DEF LiveOK

\* The process stops.
LEMMA CrashKeeps ==
    ASSUME TypeOK, Crash
    PROVE  StillStep(run, run') /\ LiveOK'
<1>1. StillStep(run, run')
    BY DEF Crash, StillStep, systemVars
<1>2. TasksOK'
    BY DEF Crash, TasksOK, NoOutcome, NoFacts, Facts, Fact, OutcomeKind, TaskPc
<1>3. HandlesOK'
    BY DEF Crash, TypeOK, HandlesOK, handleVars, NoFacts, Facts, Fact
<1>4. HarnessOK'
    BY DEF Crash, TypeOK, HarnessOK, harnessVars, NoFacts, Facts, Fact
<1>5. SchedulingOK'
    BY DEF Crash, TypeOK, SchedulingOK, sessionVars, cleanupVars, schedVars
<1>6. SystemOK'
    BY FaultType, BoundsAssumption DEF Crash, TypeOK, SystemOK, FaultsOK
<1>7. QED  BY <1>1, <1>2, <1>3, <1>4, <1>5, <1>6 DEF LiveOK

\* A lost approval is blocked.
LEMMA RecoverApprovalKeeps ==
    ASSUME TypeOK, RecoverApproval
    PROVE  (StillStep(run, run') \/ EndStep(run, run')) /\ LiveOK'
<1>1. (StillStep(run, run') \/ EndStep(run, run'))
    BY FaultType DEF RecoverApproval, StillStep, EndStep, Commit, Isolates, systemVars
<1>2. TasksOK'
    BY DEF RecoverApproval, TypeOK, TasksOK, taskVars, RecoveryKeeps
<1>3. HandlesOK'
    BY DEF RecoverApproval, TypeOK, HandlesOK, handleVars, RecoveryKeeps
<1>4. HarnessOK'
    BY DEF RecoverApproval, TypeOK, HarnessOK, harnessVars, RecoveryKeeps
<1>5. SchedulingOK'
    BY DEF RecoverApproval, TypeOK, SchedulingOK, sessionVars, cleanupVars, schedVars,
       RecoveryKeeps
<1>6. SystemOK'
    BY FaultType DEF RecoverApproval, TypeOK, SystemOK, FaultsOK, RecoveryKeeps,
       Isolates
<1>7. QED  BY <1>1, <1>2, <1>3, <1>4, <1>5, <1>6 DEF LiveOK

\* An open round is reconciled.
LEMMA RecoverRoundKeeps ==
    ASSUME TypeOK, RecoverRound
    PROVE  StillStep(run, run') /\ LiveOK'
<1>1. StillStep(run, run')
    BY ReconcileSteps DEF RecoverRound, StillStep, systemVars
<1>2. TasksOK'
    BY DEF RecoverRound, TypeOK, TasksOK, taskVars, RecoveryKeeps
<1>3. HandlesOK'
    BY DEF RecoverRound, TypeOK, HandlesOK, handleVars, RecoveryKeeps
<1>4. HarnessOK'
    BY DEF RecoverRound, TypeOK, HarnessOK, harnessVars, RecoveryKeeps
<1>5. SchedulingOK'
    BY DEF RecoverRound, TypeOK, SchedulingOK, sessionVars, cleanupVars, schedVars,
       RecoveryKeeps
<1>6. SystemOK'
    BY ReconcileSteps DEF RecoverRound, TypeOK, SystemOK, FaultsOK, systemVars,
       RecoveryKeeps
<1>7. QED  BY <1>1, <1>2, <1>3, <1>4, <1>5, <1>6 DEF LiveOK

\* A running run is blocked.
LEMMA RecoverRunningKeeps ==
    ASSUME TypeOK, RecoverRunning
    PROVE  (StillStep(run, run') \/ EndStep(run, run')) /\ LiveOK'
<1>1. StillStep(run, run') \/ EndStep(run, run')
  <2>1. run.status = "running" => CanEnd(run, "blocked", NoFacts) /\ NoFacts \in Facts
    BY DEF CanEnd, MayEnd, CanMerge, Compatible, NoFacts, Facts, Fact
  <2>2. QED
    BY <2>1, FaultType DEF RecoverRunning, Commit, StillStep, EndStep, Terminal
<1>2. TasksOK'
    BY DEF RecoverRunning, TypeOK, TasksOK, taskVars, RecoveryKeeps
<1>3. HandlesOK'
    BY DEF RecoverRunning, TypeOK, HandlesOK, handleVars, RecoveryKeeps
<1>4. HarnessOK'
    BY DEF RecoverRunning, TypeOK, HarnessOK, harnessVars, RecoveryKeeps
<1>5. SchedulingOK'
    BY DEF RecoverRunning, TypeOK, SchedulingOK, sessionVars, cleanupVars, schedVars,
       RecoveryKeeps
<1>6. SystemOK'
    BY FaultType DEF RecoverRunning, TypeOK, SystemOK, FaultsOK, RecoveryKeeps, Isolates
<1>7. QED  BY <1>1, <1>2, <1>3, <1>4, <1>5, <1>6 DEF LiveOK

\* The recovery ends.
LEMMA RecoveredKeeps ==
    ASSUME TypeOK, Recovered
    PROVE  StillStep(run, run') /\ LiveOK'
<1>1. StillStep(run, run')
    BY DEF Recovered, StillStep, systemVars
<1>2. TasksOK'
    BY DEF Recovered, TypeOK, TasksOK, taskVars, RecoveryKeeps
<1>3. HandlesOK'
    BY DEF Recovered, TypeOK, HandlesOK, handleVars, RecoveryKeeps
<1>4. HarnessOK'
    BY DEF Recovered, TypeOK, HarnessOK, harnessVars, RecoveryKeeps
<1>5. SchedulingOK'
    BY DEF Recovered, TypeOK, SchedulingOK, sessionVars, cleanupVars, schedVars,
       RecoveryKeeps
<1>6. SystemOK'
    BY FaultType DEF Recovered, TypeOK, SystemOK, FaultsOK, systemVars, RecoveryKeeps
<1>7. QED  BY <1>1, <1>2, <1>3, <1>4, <1>5, <1>6 DEF LiveOK

-----------------------------------------------------------------------------
(* The theorems. *)

\* Every step of the run is a step of its snapshot, and keeps the types of the rest.
LEMMA NextKeeps ==
    ASSUME TypeOK, [Next]_vars
    PROVE  SnapshotStep(run, run') /\ TypeOK'
<1>1. SnapshotStep(run, run') /\ LiveOK'
  <2>1. CASE StartRun
    BY <2>1, StartRunKeeps DEF SnapshotStep
  <2>2. CASE Harness
    BY <2>2, AcquireKeeps, CaptureStartKeeps, CommitInputKeeps, ToolRoundKeeps,
       RespondKeeps, CloseRoundKeeps, HarnessStopsKeeps, PauseKeeps DEF Harness,
       SnapshotStep
  <2>3. CASE \E c \in Calls : Tool(c)
    BY <2>3, ToolGatesKeeps, ToolRefusedKeeps, ToolExecutesKeeps, ToolEndsKeeps,
       ToolPersistsKeeps DEF Tool, SnapshotStep
  <2>4. CASE \E t \in Tasks : Task(t)
    BY <2>4, ApplyPauseKeeps, ApplyOutcomeKeeps, ReleasedKeeps, CaughtKeeps,
       CompletionCommitFailsKeeps, TaskFinalizedKeeps, TaskFlushesKeeps,
       TaskSettlesKeeps DEF Task, SnapshotStep
  <2>5. CASE Completion
    BY <2>5, CompletionRetriesKeeps, CompletionFinalizedKeeps DEF Completion,
       SnapshotStep
  <2>6. CASE User
    BY <2>6, CancelKeeps, DecideApprovalKeeps DEF User, SnapshotStep
  <2>7. CASE Cleanup
    BY <2>7, CleanupReleasesKeeps, CleanupFinalizedKeeps, CleanupSettlesKeeps,
       CleanupFlushesKeeps, CleanupChecksKeeps, CleanupRetriesKeeps DEF Cleanup,
       SnapshotStep
  <2>8. CASE SessionRestores
    BY <2>8, SessionRestoresKeeps DEF SnapshotStep
  <2>9. CASE Pump
    BY <2>9, PumpStartsKeeps, PumpFlushesKeeps, PumpSettlesKeeps, PumpFinalizedKeeps,
       PumpRetriesKeeps DEF Pump, SnapshotStep
  <2>10. CASE Crash
    BY <2>10, CrashKeeps DEF SnapshotStep
  <2>11. CASE Recovery
    BY <2>11, RecoverApprovalKeeps, RecoverRoundKeeps, RecoverRunningKeeps,
       RecoveredKeeps DEF Recovery, SnapshotStep
  <2>12. CASE UNCHANGED vars
    <3>1. SnapshotStep(run, run')
      BY <2>12 DEF vars, SnapshotStep, StillStep
    <3>2. TasksOK' /\ HandlesOK'
      BY <2>12 DEF vars, taskVars, handleVars, TypeOK, TasksOK, HandlesOK
    <3>3. HarnessOK'
      BY <2>12 DEF vars, harnessVars, TypeOK, HarnessOK
    <3>4. SchedulingOK' /\ SystemOK'
      BY <2>12 DEF vars, sessionVars, cleanupVars, schedVars, systemVars, TypeOK,
         SchedulingOK, SystemOK
    <3>5. QED  BY <3>1, <3>2, <3>3, <3>4 DEF LiveOK
  <2>13. QED
    BY <2>1, <2>2, <2>3, <2>4, <2>5, <2>6, <2>7, <2>8, <2>9, <2>10, <2>11, <2>12 DEF
       Next
<1>2. run' \in RunState
  BY <1>1, SnapshotStepKeeps DEF TypeOK
<1>3. QED  BY <1>1, <1>2 DEF TypeOK, LiveOK

\* A run starts well typed.
LEMMA InitType == Init => TypeOK
<1> SUFFICES ASSUME Init PROVE TypeOK
  OBVIOUS
<1>1. run \in RunState
  BY FactsType DEF Init, InitialRun, RunState, Status, Phase, Decision
<1>2. TasksOK /\ HandlesOK
  BY FactsType DEF Init, TasksOK, HandlesOK, NoOutcome, OutcomeKind, TaskPc
<1>3. HarnessOK
  BY FactsType DEF Init, HarnessOK
<1>4. SchedulingOK
  BY DEF Init, SchedulingOK
<1>5. SystemOK
  BY BoundsAssumption DEF Init, SystemOK
<1>6. QED  BY <1>1, <1>2, <1>3, <1>4, <1>5 DEF TypeOK

\* The snapshot of a run and everything its tasks keep in memory have their types,
\* for any set of calls and any bounds.
THEOREM TypeCorrect == Spec => []TypeOK
<1>1. Init => TypeOK
  BY InitType
<1>2. TypeOK /\ [Next]_vars => TypeOK'
  BY NextKeeps
<1>3. QED  BY <1>1, <1>2, PTL DEF Spec

\* A run that ended stays as it ended, and the final fact of a tool call is never
\* replaced, whatever results, cancels, retries and recoveries come after.
THEOREM FinalStands == Spec => Final
<1>1. TypeOK /\ [Next]_vars =>
        [/\ IsTerminal(run) => run'.status = run.status
         /\ \A c \in Calls : run.fact[c] \in FinalFact => run'.fact[c] = run.fact[c]]_vars
  BY NextKeeps, SnapshotStepKeeps DEF TypeOK, KeepsFinal
<1>2. QED  BY <1>1, TypeCorrect, PTL DEF Spec, Final

-----------------------------------------------------------------------------
(* The confirmation gate. *)

\* The task has work to do on an outcome of the loop.
InLoop(t) == pc[t] \in {"loop", "apply"}

\* Somebody finalizes the Session, or cleans up after a cancel.
Finalizers == cleanup # "off" \/ pump = "finalize" \/ \E t \in Tasks : pc[t] = "finalize"

\* The tools and the pending confirmations stay.
ToolsStay == UNCHANGED <<tool, result, pending, effect>>

\* No task enters the loop, and what stops or finalizes a run finds it ended.
ScheduleStays ==
    /\ Live => Live'
    /\ Live' => Live \/ IsTerminal(run')
    /\ halted' => halted \/ IsTerminal(run')
    /\ continuation' = continuation \/ IsTerminal(run')
    /\ harness' # "off" => harness # "off"
    /\ UNCHANGED outcome
    /\ \A t \in Tasks : pc'[t] # pc[t] =>
            pc'[t] \notin {"loop", "apply"} /\ (pc[t] # "off" \/ harness # "off")
    /\ Finalizers' => Finalizers \/ IsTerminal(run')

Quiet ==
    /\ StillStep(run, run') \/ EndStep(run, run')
    /\ ToolsStay /\ ScheduleStays

-----------------------------------------------------------------------------
(* What quiet steps keep. *)

\* Transitions that only record or end keep the decisions and an end.
LEMMA RunMoves ==
    ASSUME run \in RunState, StillStep(run, run') \/ EndStep(run, run')
    PROVE  /\ run'.decision = run.decision
           /\ IsTerminal(run) => IsTerminal(run')
           /\ ~IsTerminal(run') =>
                /\ run'.status = run.status
                /\ run'.requests = run.requests
           /\ run'.status \in {"queued", "awaiting_approval"} => ~IsTerminal(run')
    BY StillStepKeeps, EndStepKeeps DEF IsTerminal, Terminal

\* The gates, when the tools stay.
LEMMA ToolsStayKeep ==
    ASSUME GateInv, ToolsStay, run'.decision = run.decision
    PROVE  GateHonoured' /\ GateIsClosed'
    BY DEF GateInv, ToolsStay, GateHonoured, GateIsClosed

\* The schedule, when pending confirmations go only while the harness stops.
LEMMA ScheduleStaysKeeps ==
    ASSUME GateInv, ScheduleStays, StillStep(run, run') \/ EndStep(run, run'),
           pending \subseteq pending' \/ halted
    PROVE  AwaitingIsLive' /\ OneTaskInLoop' /\ HaltedIsOver'
<1>1. AwaitingIsLive'
  <2> SUFFICES ASSUME Live', run'.status = "awaiting_approval"
               PROVE  continuation' /\ run'.requests \subseteq pending'
    BY DEF AwaitingIsLive
  <2>1. ~IsTerminal(run') /\ run.status = "awaiting_approval" /\ ~IsTerminal(run)
        /\ run'.requests = run.requests
    BY RunMoves DEF GateInv, TypeOK
  <2>2. Live /\ continuation' = continuation /\ ~halted
    BY <2>1 DEF ScheduleStays, GateInv, HaltedIsOver
  <2>3. QED  BY <2>1, <2>2 DEF GateInv, AwaitingIsLive
<1>2. OneTaskInLoop'
  <2>1. \A t \in Tasks : InLoop(t)' => InLoop(t) /\ pc'[t] = pc[t]
    BY DEF ScheduleStays, InLoop
  <2>2. ASSUME NEW t \in Tasks, NEW u \in Tasks, InLoop(t)', InLoop(u)'
        PROVE  t = u
    BY <2>1, <2>2 DEF GateInv, OneTaskInLoop, InLoop
  <2>3. ASSUME Live', run'.status = "awaiting_approval", NEW t \in Tasks
        PROVE  ~InLoop(t)'
    <3>1. run.status = "awaiting_approval" /\ Live
      BY <2>3, RunMoves DEF GateInv, TypeOK, ScheduleStays
    <3>2. QED  BY <2>1, <3>1 DEF GateInv, OneTaskInLoop, InLoop
  <2>4. ASSUME NEW t \in Tasks, pc'[t] = "apply",
               outcome'[t].kind = "approval_required", ~IsTerminal(run')
        PROVE  outcome'[t].requests \subseteq pending'
    <3>1. pc[t] = "apply" /\ outcome' = outcome /\ ~IsTerminal(run)
      BY <2>1, <2>4, RunMoves DEF GateInv, TypeOK, ScheduleStays, InLoop
    <3>2. ~halted
      BY <3>1 DEF GateInv, HaltedIsOver
    <3>3. QED  BY <2>4, <3>1, <3>2 DEF GateInv, OneTaskInLoop
  <2>5. QED  BY <2>2, <2>3, <2>4 DEF OneTaskInLoop, InLoop
<1>3. HaltedIsOver'
  <2>1. ASSUME halted', ~IsTerminal(run')
        PROVE  run'.status = "running" /\ \A t \in Tasks : pc'[t] \notin {"loop", "apply"}
    <3>1. halted /\ ~IsTerminal(run) /\ run'.status = run.status
      BY <2>1, RunMoves DEF GateInv, TypeOK, ScheduleStays
    <3>2. QED  BY <3>1 DEF GateInv, HaltedIsOver, ScheduleStays
  <2>2. Finalizers' => IsTerminal(run')
    BY RunMoves DEF GateInv, TypeOK, HaltedIsOver, ScheduleStays, Finalizers
  <2>3. ASSUME ~Live' \/ run'.status = "queued"
        PROVE  harness' = "off" /\ \A t \in Tasks : pc'[t] = "off"
    <3>1. ~Live \/ run.status = "queued"
      BY <2>3, RunMoves DEF GateInv, TypeOK, ScheduleStays
    <3>2. harness = "off" /\ \A t \in Tasks : pc[t] = "off"
      BY <3>1 DEF GateInv, HaltedIsOver
    <3>3. QED  BY <3>2 DEF ScheduleStays
  <2>4. QED  BY <2>1, <2>2, <2>3 DEF HaltedIsOver, Finalizers
<1>4. QED  BY <1>1, <1>2, <1>3

\* A quiet step keeps the whole invariant.
LEMMA QuietKeeps ==
    ASSUME GateInv, TypeOK', Quiet
    PROVE  GateInv'
<1>1. GateHonoured' /\ GateIsClosed'
    BY ToolsStayKeep, RunMoves DEF Quiet, GateInv, TypeOK
<1>2. AwaitingIsLive' /\ OneTaskInLoop' /\ HaltedIsOver'
    BY ScheduleStaysKeeps DEF Quiet, ToolsStay
<1>3. QED  BY <1>1, <1>2 DEF GateInv

-----------------------------------------------------------------------------
(* The quiet actions. *)

\* The end of a run, or the failure to store it, moves its task only.
LEMMA EndsRunMoves ==
    ASSUME TypeOK, NEW t \in Tasks, NEW how \in Terminal, NEW facts,
           NEW next \in {"flush", "caught", "commitFailed"}, pc[t] # "off",
           EndsRun(t, how, facts, next)
    PROVE  \A u \in Tasks : pc'[u] # pc[u] =>
                /\ pc'[u] \notin {"loop", "apply"} /\ pc[u] # "off"
                /\ pc'[u] = "finalize" => IsTerminal(run')
<1>1. CASE CanEnd(run, how, facts) /\ run' = Ended(run, how, facts)
  <2>1. IsTerminal(run')
    BY <1>1 DEF Ended, Merge, RunState, IsTerminal, TypeOK
  <2>2. QED  BY <2>1 DEF EndsRun, Goto, TypeOK, TasksOK
<1>2. CASE Goto(t, next)
    BY <1>2 DEF Goto, TypeOK, TasksOK
<1>3. QED  BY <1>1, <1>2 DEF EndsRun, Commit

\* The entries of the harness.
LEMMA HarnessQuiet ==
    ASSUME GateInv,
           CaptureStart \/ CommitInput \/ Respond
    PROVE  Quiet
<1>0. TypeOK
    BY DEF GateInv
<1>1. CASE CaptureStart
    BY <1>0, <1>1, CaptureStartKeeps DEF CaptureStart, Quiet, ToolsStay, ScheduleStays,
       Finalizers, Live, taskVars, handleVars, cleanupVars, schedVars, systemVars, Goto,
       TypeOK, TasksOK
<1>2. CASE CommitInput
    BY <1>0, <1>2, CommitInputKeeps DEF CommitInput, Quiet, ToolsStay, ScheduleStays,
       Finalizers, Live, taskVars, handleVars, cleanupVars, schedVars, systemVars,
       HarnessKeeps
<1>3. CASE Respond
    BY <1>0, <1>3, RespondKeeps DEF Respond, Quiet, ToolsStay, ScheduleStays,
       Finalizers, Live, taskVars, handleVars, cleanupVars, schedVars, systemVars,
       HarnessKeeps
<1>4. QED  BY <1>1, <1>2, <1>3

\* What the tasks do apart from admitting a pause.
LEMMA TaskQuiet ==
    ASSUME GateInv, NEW t \in Tasks,
           ApplyOutcome(t) \/ Released(t) \/ Caught(t)
           \/ CompletionCommitFails(t) \/ TaskFinalized(t) \/ TaskFlushes(t)
           \/ TaskSettles(t)
    PROVE  Quiet
<1>0. TypeOK
    BY DEF GateInv
<1>1. CASE ApplyOutcome(t)
  <2> DEFINE how  == outcome[t].kind
             next == IF outcome[t].kind = "completed" THEN "commitFailed" ELSE "caught"
  <2>1. \/ UNCHANGED pc
        \/ Goto(t, "flush")
        \/ ~IsTerminal(run) /\ EndsRun(t, how, outcome[t].facts, next)
    BY <1>1 DEF ApplyOutcome
  <2>2. pc[t] # "off" /\ how \in Terminal
    BY <1>1 DEF ApplyOutcome, Terminal
  <2>3. \A u \in Tasks : pc'[u] # pc[u] =>
            /\ pc'[u] \notin {"loop", "apply"} /\ pc[u] # "off"
            /\ pc'[u] = "finalize" => IsTerminal(run')
    <3>1. CASE UNCHANGED pc \/ Goto(t, "flush")
      BY <1>0, <2>2, <3>1 DEF Goto, TypeOK, TasksOK
    <3>2. CASE EndsRun(t, how, outcome[t].facts, next)
      <4>1. next \in {"flush", "caught", "commitFailed"}
        OBVIOUS
      <4>2. QED  BY <1>0, <2>2, <3>2, <4>1, EndsRunMoves
    <3>3. QED  BY <2>1, <3>1, <3>2
  <2>4. /\ ToolsStay
        /\ UNCHANGED <<outcome, halted, continuation, harness, proc, cleanup>>
        /\ pump' = "finalize" => pump = "finalize"
    BY <1>1 DEF ApplyOutcome, TaskCommitKeeps, ToolsStay, handleVars, harnessVars,
       cleanupVars, systemVars
  <2>5. Finalizers' => Finalizers \/ IsTerminal(run')
    BY <2>3, <2>4 DEF Finalizers
  <2>6. ScheduleStays
    BY <2>3, <2>4, <2>5 DEF ScheduleStays, Live
  <2>7. QED  BY <1>0, <1>1, <2>4, <2>6, ApplyOutcomeKeeps DEF Quiet
<1>2. CASE Released(t)
    BY <1>0, <1>2, ReleasedKeeps DEF Released, Quiet, ToolsStay, ScheduleStays,
       Finalizers, Live, handleVars, harnessVars, cleanupVars, schedVars, systemVars,
       Goto, TaskKeeps, TypeOK, TasksOK
<1>3. CASE Caught(t)
  <2> DEFINE how  == IF aborted THEN "cancelled" ELSE "failed"
             next == "flush"
  <2>1. \/ UNCHANGED pc
        \/ Goto(t, "flush")
        \/ ~IsTerminal(run) /\ EndsRun(t, how, outcome[t].facts, next)
    BY <1>3 DEF Caught
  <2>2. pc[t] # "off" /\ how \in Terminal
    BY <1>3 DEF Caught, Terminal
  <2>3. \A u \in Tasks : pc'[u] # pc[u] =>
            /\ pc'[u] \notin {"loop", "apply"} /\ pc[u] # "off"
            /\ pc'[u] = "finalize" => IsTerminal(run')
    <3>1. CASE UNCHANGED pc \/ Goto(t, "flush")
      BY <1>0, <2>2, <3>1 DEF Goto, TypeOK, TasksOK
    <3>2. CASE EndsRun(t, how, outcome[t].facts, next)
      <4>1. next \in {"flush", "caught", "commitFailed"}
        OBVIOUS
      <4>2. QED  BY <1>0, <2>2, <3>2, <4>1, EndsRunMoves
    <3>3. QED  BY <2>1, <3>1, <3>2
  <2>4. /\ ToolsStay
        /\ UNCHANGED <<outcome, halted, continuation, harness, proc, cleanup>>
        /\ pump' = "finalize" => pump = "finalize"
    BY <1>3 DEF Caught, TaskCommitKeeps, ToolsStay, handleVars, harnessVars,
       cleanupVars, systemVars
  <2>5. Finalizers' => Finalizers \/ IsTerminal(run')
    BY <2>3, <2>4 DEF Finalizers
  <2>6. ScheduleStays
    BY <2>3, <2>4, <2>5 DEF ScheduleStays, Live
  <2>7. QED  BY <1>0, <1>3, <2>4, <2>6, CaughtKeeps DEF Quiet
<1>4. CASE CompletionCommitFails(t)
  <2> DEFINE how  == "blocked"
             next == "flush"
  <2>1. \/ UNCHANGED pc
        \/ Goto(t, "flush")
        \/ ~IsTerminal(run) /\ EndsRun(t, how, outcome[t].facts, next)
    BY <1>4 DEF CompletionCommitFails
  <2>2. pc[t] # "off" /\ how \in Terminal
    BY <1>4 DEF CompletionCommitFails, Terminal
  <2>3. \A u \in Tasks : pc'[u] # pc[u] =>
            /\ pc'[u] \notin {"loop", "apply"} /\ pc[u] # "off"
            /\ pc'[u] = "finalize" => IsTerminal(run')
    <3>1. CASE UNCHANGED pc \/ Goto(t, "flush")
      BY <1>0, <2>2, <3>1 DEF Goto, TypeOK, TasksOK
    <3>2. CASE EndsRun(t, how, outcome[t].facts, next)
      <4>1. next \in {"flush", "caught", "commitFailed"}
        OBVIOUS
      <4>2. QED  BY <1>0, <2>2, <3>2, <4>1, EndsRunMoves
    <3>3. QED  BY <2>1, <3>1, <3>2
  <2>4. /\ ToolsStay
        /\ UNCHANGED <<outcome, halted, continuation, harness, proc, cleanup>>
        /\ pump' = "finalize" => pump = "finalize"
    BY <1>4 DEF CompletionCommitFails, Awaken, ToolsStay, handleVars, harnessVars,
       cleanupVars, systemVars
  <2>5. Finalizers' => Finalizers \/ IsTerminal(run')
    BY <2>3, <2>4 DEF Finalizers
  <2>6. ScheduleStays
    BY <2>3, <2>4, <2>5 DEF ScheduleStays, Live
  <2>7. QED  BY <1>0, <1>4, <2>4, <2>6, CompletionCommitFailsKeeps DEF Quiet
<1>5. CASE TaskFinalized(t)
    BY <1>0, <1>5, TaskFinalizedKeeps DEF TaskFinalized, Quiet, ToolsStay,
       ScheduleStays, Finalizers, Live, handleVars, harnessVars, systemVars, Goto,
       TypeOK, TasksOK
<1>6. CASE TaskFlushes(t)
    BY <1>0, <1>6, TaskFlushesKeeps DEF TaskFlushes, Quiet, ToolsStay, ScheduleStays,
       Finalizers, Live, harnessVars, cleanupVars, systemVars, Goto, EndsTask, Awaken,
       TypeOK, TasksOK
<1>7. CASE TaskSettles(t)
    BY <1>0, <1>7, TaskSettlesKeeps DEF TaskSettles, Quiet, ToolsStay, ScheduleStays,
       Finalizers, Live, harnessVars, cleanupVars, systemVars, Goto, EndsTask, Awaken,
       TypeOK, TasksOK
<1>8. QED  BY <1>1, <1>2, <1>3, <1>4, <1>5, <1>6, <1>7

\* The retry of a completion.
LEMMA CompletionQuiet ==
    ASSUME GateInv,
           CompletionRetries \/ CompletionFinalized
    PROVE  Quiet
<1>0. TypeOK
    BY DEF GateInv
<1>1. CASE CompletionRetries
    BY <1>0, <1>1, CompletionRetriesKeeps DEF CompletionRetries, Quiet, ToolsStay,
       ScheduleStays, Finalizers, Live, taskVars, handleVars, harnessVars, cleanupVars,
       systemVars
<1>2. CASE CompletionFinalized
    BY <1>0, <1>2, CompletionFinalizedKeeps DEF CompletionFinalized, Quiet, ToolsStay,
       ScheduleStays, Finalizers, Live, taskVars, handleVars, harnessVars, cleanupVars,
       systemVars, Awaken
<1>3. QED  BY <1>1, <1>2

\* The cancel, and what finalizes or settles after it.
LEMMA CancelQuiet ==
    ASSUME GateInv,
           Cancel \/ SessionRestores
    PROVE  Quiet
<1>0. TypeOK
    BY DEF GateInv
<1>1. CASE Cancel
  <2>1. IsTerminal(run')
    BY <1>1 DEF Cancel, Commit, Ended, IsTerminal, Terminal
  <2>2. ToolsStay /\ UNCHANGED <<pc, outcome, harness, proc>>
    BY <1>1 DEF Cancel, ToolsStay, taskVars
  <2>3. ScheduleStays
    BY <2>1, <2>2 DEF ScheduleStays, Live
  <2>4. QED  BY <1>0, <1>1, <2>2, <2>3, CancelKeeps DEF Quiet
<1>2. CASE SessionRestores
    BY <1>2, SessionRestoresKeeps DEF SessionRestores, Quiet, ToolsStay, ScheduleStays,
       Live, taskVars, systemVars, GateInv, HaltedIsOver
<1>3. QED  BY <1>1, <1>2

\* The cleanup.
LEMMA CleanupQuiet ==
    ASSUME GateInv,
           CleanupReleases \/ CleanupFinalized \/ CleanupSettles
           \/ CleanupFlushes \/ CleanupChecks \/ CleanupRetries
    PROVE  Quiet
<1>0. TypeOK
    BY DEF GateInv
<1>1. CASE CleanupReleases
    BY <1>0, <1>1, CleanupReleasesKeeps DEF CleanupReleases, Quiet, ToolsStay,
       ScheduleStays, Finalizers, Live, taskVars, harnessVars, systemVars, CleanupKeeps
<1>2. CASE CleanupFinalized
    BY <1>0, <1>2, CleanupFinalizedKeeps DEF CleanupFinalized, Quiet, ToolsStay,
       ScheduleStays, Finalizers, Live, taskVars, harnessVars, systemVars, CleanupKeeps
<1>3. CASE CleanupSettles
    BY <1>0, <1>3, CleanupSettlesKeeps DEF CleanupSettles, Quiet, ToolsStay,
       ScheduleStays, Finalizers, Live, taskVars, harnessVars, systemVars, CleanupKeeps
<1>4. CASE CleanupFlushes
    BY <1>0, <1>4, CleanupFlushesKeeps DEF CleanupFlushes, Quiet, ToolsStay,
       ScheduleStays, Finalizers, Live, taskVars, harnessVars, systemVars, CleanupKeeps
<1>5. CASE CleanupChecks
    BY <1>0, <1>5, CleanupChecksKeeps DEF CleanupChecks, Quiet, ToolsStay,
       ScheduleStays, Finalizers, Live, taskVars, harnessVars, systemVars, CleanupKeeps
<1>6. CASE CleanupRetries
    BY <1>0, <1>6, CleanupRetriesKeeps DEF CleanupRetries, Quiet, ToolsStay,
       ScheduleStays, Finalizers, Live, taskVars, harnessVars, systemVars, CleanupKeeps
<1>7. QED  BY <1>1, <1>2, <1>3, <1>4, <1>5, <1>6

\* The pump.
LEMMA PumpQuiet ==
    ASSUME GateInv,
           PumpStarts \/ PumpFlushes \/ PumpSettles \/ PumpFinalized
           \/ PumpRetries
    PROVE  Quiet
<1>0. TypeOK
    BY DEF GateInv
<1>1. CASE PumpStarts
    BY <1>0, <1>1, PumpStartsKeeps DEF PumpStarts, Quiet, ToolsStay, ScheduleStays,
       Finalizers, Live, taskVars, handleVars, harnessVars, cleanupVars, systemVars,
       PumpKeeps
<1>2. CASE PumpFlushes
    BY <1>0, <1>2, PumpFlushesKeeps DEF PumpFlushes, Quiet, ToolsStay, ScheduleStays,
       Finalizers, Live, taskVars, handleVars, harnessVars, cleanupVars, systemVars,
       PumpKeeps
<1>3. CASE PumpSettles
    BY <1>0, <1>3, PumpSettlesKeeps DEF PumpSettles, Quiet, ToolsStay, ScheduleStays,
       Finalizers, Live, taskVars, handleVars, harnessVars, cleanupVars, systemVars,
       PumpKeeps
<1>4. CASE PumpFinalized
    BY <1>0, <1>4, PumpFinalizedKeeps DEF PumpFinalized, Quiet, ToolsStay,
       ScheduleStays, Finalizers, Live, taskVars, handleVars, harnessVars, systemVars,
       PumpKeeps
<1>5. CASE PumpRetries
    BY <1>0, <1>5, PumpRetriesKeeps DEF PumpRetries, Quiet, ToolsStay, ScheduleStays,
       Finalizers, Live, taskVars, handleVars, harnessVars, cleanupVars, systemVars,
       PumpKeeps
<1>6. QED  BY <1>1, <1>2, <1>3, <1>4, <1>5

\* The recovery.
LEMMA RecoveryQuiet ==
    ASSUME GateInv,
           RecoverApproval \/ RecoverRound \/ RecoverRunning \/ Recovered
    PROVE  Quiet
<1>0. TypeOK
    BY DEF GateInv
<1>1. CASE RecoverApproval
    BY <1>0, <1>1, RecoverApprovalKeeps DEF RecoverApproval, Quiet, ToolsStay,
       ScheduleStays, Finalizers, Live, taskVars, handleVars, harnessVars, cleanupVars,
       schedVars, RecoveryKeeps, Isolates
<1>2. CASE RecoverRound
    BY <1>0, <1>2, RecoverRoundKeeps DEF RecoverRound, Quiet, ToolsStay, ScheduleStays,
       Finalizers, Live, taskVars, handleVars, harnessVars, cleanupVars, schedVars,
       RecoveryKeeps
<1>3. CASE RecoverRunning
    BY <1>0, <1>3, RecoverRunningKeeps DEF RecoverRunning, Quiet, ToolsStay,
       ScheduleStays, Finalizers, Live, taskVars, handleVars, harnessVars, cleanupVars,
       schedVars, RecoveryKeeps, Isolates
<1>4. CASE Recovered
    BY <1>0, <1>4, RecoveredKeeps DEF Recovered, Quiet, ToolsStay, ScheduleStays, Live,
       taskVars, harnessVars, RecoveryKeeps
<1>5. QED  BY <1>1, <1>2, <1>3, <1>4

-----------------------------------------------------------------------------
(* The actions that move a tool. *)

\* What the gate asks of one call.
ClosedAt(c) ==
    /\ tool[c] \in {"unused", "idle", "gated", "approved", "rejected"} =>
            effect[c] = "none"
    /\ tool[c] = "persisting" /\ result[c] = "approval" => effect[c] = "none"
    /\ tool[c] = "executing" => effect[c] = "started"
    /\ tool[c] = "approved" => run.decision[c] = "approve_once"
    /\ c \in pending => tool[c] = "gated"
    /\ c \in Gated /\ effect[c] # "none" => run.decision[c] = "approve_once"

CallStays(c) ==
    /\ tool'[c] = tool[c] /\ result'[c] = result[c] /\ effect'[c] = effect[c]
    /\ c \in pending' => c \in pending

\* The gates are what is asked of every call.
LEMMA GateOfAllCalls ==
    Gated \subseteq Calls =>
        (GateHonoured /\ GateIsClosed <=> \A c \in Calls : ClosedAt(c))
    BY DEF GateHonoured, GateIsClosed, ClosedAt

\* A step that records and moves some calls only.
LEMMA CallsMove ==
    ASSUME GateInv, TypeOK', StillStep(run, run'), ScheduleStays,
           pending \subseteq pending' \/ halted,
           \A c \in Calls : ClosedAt(c)' \/ CallStays(c)
    PROVE  GateInv'
<1>1. run'.decision = run.decision
    BY RunMoves DEF GateInv, TypeOK
<1>2. \A c \in Calls : ClosedAt(c)
    BY GateOfAllCalls, BoundsAssumption DEF GateInv
<1>3. \A c \in Calls : CallStays(c) => ClosedAt(c)'
    BY <1>1, <1>2 DEF CallStays, ClosedAt
<1>4. GateHonoured' /\ GateIsClosed'
    BY <1>3, BoundsAssumption DEF GateHonoured, GateIsClosed, ClosedAt
<1>5. QED  BY <1>4, ScheduleStaysKeeps DEF GateInv

\* Nothing but the calls of the harness moves.
LEMMA OnlyCalls ==
    ASSUME harness' # "off" => harness # "off",
           UNCHANGED <<halted, continuation, proc, outcome, pc, cleanup, pump>>
    PROVE  ScheduleStays
    BY DEF ScheduleStays, Live, Finalizers

\* The harness accepts a round of calls that were not used yet, or closes one.
LEMMA RoundGate ==
    ASSUME GateInv, TypeOK',
           (\E calls \in SUBSET Calls : ToolRound(calls)) \/ CloseRound
    PROVE  GateInv'
<1>0. TypeOK /\ \A c \in Calls : ClosedAt(c)
    BY GateOfAllCalls, BoundsAssumption DEF GateInv
<1>1. CASE \E calls \in SUBSET Calls : ToolRound(calls)
  <2>1. PICK calls \in SUBSET Calls : ToolRound(calls)
    BY <1>1
  <2>2. StillStep(run, run') /\ UNCHANGED <<result, pending, effect>>
    BY <1>0, <2>1, ToolRoundKeeps DEF ToolRound
  <2>3. ScheduleStays
    BY <2>1, OnlyCalls DEF ToolRound, HarnessKeeps, taskVars, handleVars, cleanupVars,
       schedVars, systemVars
  <2>4. \A c \in Calls : tool'[c] = tool[c] \/ (tool[c] = "unused" /\ tool'[c] = "idle")
    BY <2>1 DEF ToolRound
  <2>5. run'.decision = run.decision
    BY <1>0, <2>2, RunMoves DEF TypeOK
  <2>6. \A c \in Calls : ClosedAt(c)'
    BY <1>0, <2>2, <2>4, <2>5 DEF ClosedAt
  <2>7. QED  BY <2>2, <2>3, <2>6, CallsMove
<1>2. CASE CloseRound
  <2>1. StillStep(run, run') /\ UNCHANGED <<result, pending, effect>>
    BY <1>0, <1>2, CloseRoundKeeps DEF CloseRound
  <2>2. ScheduleStays
    BY <1>2, OnlyCalls DEF CloseRound, HarnessKeeps, taskVars, handleVars, cleanupVars,
       schedVars, systemVars
  <2>3. \A c \in Calls : tool'[c] = tool[c] \/ (tool[c] # "gated" /\ tool'[c] = "closed")
    BY <1>2 DEF CloseRound, RoundCalls
  <2>4. run'.decision = run.decision
    BY <1>0, <2>1, RunMoves DEF TypeOK
  <2>5. \A c \in Calls : ClosedAt(c)'
    BY <1>0, <2>1, <2>3, <2>4 DEF ClosedAt
  <2>6. QED  BY <2>1, <2>2, <2>5, CallsMove
<1>3. QED  BY <1>1, <1>2

\* A tool moves.
LEMMA ToolGate ==
    ASSUME GateInv, TypeOK', NEW c \in Calls, Tool(c)
    PROVE  GateInv'
<1>0. TypeOK /\ ClosedAt(c)
    BY GateOfAllCalls, BoundsAssumption DEF GateInv
<1>1. StillStep(run, run')
    BY <1>0, ToolGatesKeeps, ToolRefusedKeeps, ToolExecutesKeeps, ToolEndsKeeps,
       ToolPersistsKeeps DEF Tool
<1>2. ScheduleStays
    BY OnlyCalls DEF Tool, ToolGates, ToolRefused, ToolExecutes, ToolEnds, ToolPersists,
       ToolKeeps, taskVars, handleVars, cleanupVars, schedVars, systemVars
<1>3. ASSUME NEW d \in Calls, d # c
      PROVE  CallStays(d)
  <2>1. CASE ToolGates(c) \/ ToolRefused(c)
    BY <1>3, <2>1 DEF CallStays, ToolGates, ToolRefused, Returns, TypeOK, HarnessOK,
       Facts
  <2>2. CASE ToolExecutes(c) \/ ToolEnds(c)
    BY <1>3, <2>2 DEF CallStays, ToolExecutes, ToolEnds, Returns, TypeOK, HarnessOK,
       Facts
  <2>3. CASE ToolPersists(c)
    BY <1>0, <1>3, <2>3 DEF CallStays, ToolPersists, TypeOK, HarnessOK, Facts
  <2>4. QED  BY <2>1, <2>2, <2>3 DEF Tool
<1>4. pending \subseteq pending' \/ halted
    BY <1>0 DEF Tool, ToolGates, ToolRefused, ToolExecutes, ToolEnds, ToolPersists,
       ClosedAt
<1>5. run'.decision = run.decision
    BY <1>0, <1>1, RunMoves DEF TypeOK
<1>6. ClosedAt(c)'
  <2>1. CASE ToolGates(c)
    BY <1>0, <2>1 DEF ToolGates, Returns, ClosedAt, TypeOK, HarnessOK
  <2>2. CASE ToolRefused(c)
    BY <1>0, <1>5, <2>2 DEF ToolRefused, Returns, ClosedAt, TypeOK, HarnessOK
  <2>3. CASE ToolExecutes(c)
    BY <1>0, <1>5, <2>3 DEF ToolExecutes, ClosedAt, TypeOK, HarnessOK
  <2>4. CASE ToolEnds(c)
    <3>1. /\ tool'[c] \in {"persisting", "delivered"} /\ tool[c] = "executing"
          /\ result'[c] \in {"reported", "unaccepted"} /\ pending' = pending
      BY <1>0, <2>4 DEF ToolEnds, Returns, TypeOK, HarnessOK, Facts
    <3>2. QED  BY <1>0, <1>5, <3>1 DEF ClosedAt
  <2>5. CASE ToolPersists(c)
    BY <1>0, <1>5, <2>5 DEF ToolPersists, ClosedAt, TypeOK, HarnessOK
  <2>6. QED  BY <2>1, <2>2, <2>3, <2>4, <2>5 DEF Tool
<1>7. \A d \in Calls : ClosedAt(d)' \/ CallStays(d)
    BY <1>3, <1>6
<1>8. QED  BY <1>1, <1>2, <1>4, <1>7, CallsMove

-----------------------------------------------------------------------------
(* The actions that move a task into the loop or out of it. *)

\* The loop hands an outcome to its task; a pause carries the pending confirmations.
LEMMA ReturnGate ==
    ASSUME GateInv, TypeOK', StillStep(run, run'), ToolsStay, harness # "off",
           UNCHANGED <<halted, continuation, proc, cleanup, pump>>,
           NEW kind, NEW facts, NEW asked, Returned(kind, facts, asked),
           kind = "approval_required" => asked = pending
    PROVE  GateInv'
<1>0. TypeOK /\ pending' = pending /\ (Live <=> Live')
    BY DEF GateInv, ToolsStay, Live
<1>1. /\ run'.decision = run.decision /\ run'.status = run.status
      /\ run'.requests = run.requests /\ (IsTerminal(run) <=> IsTerminal(run'))
    BY <1>0, StillStepKeeps DEF TypeOK, IsTerminal
<1>2. \A t \in Tasks :
        \/ /\ pc[t] = "loop" /\ pc'[t] \in {"apply", "caught"}
           /\ outcome'[t].kind = kind /\ outcome'[t].requests = asked
        \/ pc'[t] = pc[t] /\ pc[t] # "loop" /\ outcome'[t] = outcome[t]
    BY DEF Returned
<1>3. GateHonoured' /\ GateIsClosed'
    BY <1>1, ToolsStayKeep
<1>4. AwaitingIsLive'
    BY <1>0, <1>1 DEF GateInv, AwaitingIsLive
<1>5. OneTaskInLoop'
  <2>1. \A t \in Tasks : InLoop(t)' => InLoop(t)
    BY <1>2 DEF InLoop
  <2>2. \A t \in Tasks, u \in Tasks : InLoop(t)' /\ InLoop(u)' => t = u
    BY <2>1 DEF GateInv, OneTaskInLoop, InLoop
  <2>3. Live' /\ run'.status = "awaiting_approval" => \A t \in Tasks : ~InLoop(t)'
    BY <1>0, <1>1, <2>1 DEF GateInv, OneTaskInLoop, InLoop
  <2>4. ASSUME NEW t \in Tasks, pc'[t] = "apply",
               outcome'[t].kind = "approval_required", ~IsTerminal(run')
        PROVE  outcome'[t].requests \subseteq pending'
    BY <1>0, <1>1, <1>2, <2>4 DEF GateInv, OneTaskInLoop
  <2>5. QED  BY <2>2, <2>3, <2>4 DEF OneTaskInLoop, InLoop
<1>6. HaltedIsOver'
  <2>1. Live' /\ run'.status # "queued"
    BY <1>0, <1>1 DEF GateInv, HaltedIsOver
  <2>2. halted' /\ ~IsTerminal(run') =>
            run'.status = "running" /\ \A t \in Tasks : pc'[t] \notin {"loop", "apply"}
    BY <1>1, <1>2 DEF GateInv, HaltedIsOver
  <2>3. Finalizers' => IsTerminal(run')
    BY <1>1, <1>2 DEF GateInv, HaltedIsOver, Finalizers
  <2>4. QED  BY <2>1, <2>2, <2>3 DEF HaltedIsOver, Finalizers
<1>7. QED  BY <1>3, <1>4, <1>5, <1>6 DEF GateInv

\* The harness starts, ends, or pauses with the confirmations it waits for.
LEMMA HarnessGate ==
    ASSUME GateInv, TypeOK', Acquire \/ HarnessStops \/ Pause
    PROVE  GateInv'
<1>0. TypeOK
    BY DEF GateInv
<1>1. CASE Acquire
  <2>1. /\ StillStep(run, run') /\ ToolsStay /\ harness # "off"
        /\ UNCHANGED <<halted, continuation, proc, cleanup, pump>>
    BY <1>0, <1>1, AcquireKeeps DEF Acquire, ToolsStay, handleVars, cleanupVars,
       schedVars, systemVars
  <2>2. CASE UNCHANGED taskVars
    <3>1. ScheduleStays
      BY <2>1, <2>2 DEF ScheduleStays, Live, Finalizers, taskVars
    <3>2. QED  BY <2>1, <3>1, QuietKeeps DEF Quiet
  <2>3. CASE \E kind \in {"cancelled", "failed"} : Returned(kind, NoFacts, {})
    <3>1. PICK kind \in {"cancelled", "failed"} : Returned(kind, NoFacts, {})
      BY <2>3
    <3>2. QED  BY <2>1, <3>1, ReturnGate
  <2>4. QED  BY <1>1, <2>2, <2>3 DEF Acquire
<1>2. CASE HarnessStops
  <2> DEFINE kind == IF halted THEN "cancelled"
                     ELSE IF harness = "answered" THEN "completed" ELSE "failed"
  <2>1. /\ StillStep(run, run') /\ ToolsStay /\ harness # "off"
        /\ UNCHANGED <<halted, continuation, proc, cleanup, pump>>
        /\ Returned(kind, result, {})
    BY <1>0, <1>2, HarnessStopsKeeps DEF HarnessStops, ToolsStay, handleVars,
       cleanupVars, schedVars, systemVars
  <2>2. QED  BY <2>1, ReturnGate
<1>3. CASE Pause
  <2>1. /\ StillStep(run, run') /\ ToolsStay /\ harness # "off"
        /\ UNCHANGED <<halted, continuation, proc, cleanup, pump>>
        /\ Returned("approval_required", result, pending)
    BY <1>0, <1>3, PauseKeeps DEF Pause, ToolsStay, handleVars, harnessVars,
       cleanupVars, schedVars, systemVars
  <2>2. QED  BY <2>1, ReturnGate
<1>4. QED  BY <1>1, <1>2, <1>3

\* The queued run starts: nothing else is under way.
LEMMA StartGate ==
    ASSUME GateInv, TypeOK', StartRun
    PROVE  GateInv'
<1>1. /\ run'.decision = run.decision /\ run'.status = "running" /\ ~IsTerminal(run')
      /\ ~IsTerminal(run) /\ run.status = "queued" /\ Live'
    BY DEF StartRun, Commit, Start, IsTerminal, Terminal, Live, systemVars
<1>2. \A t \in Tasks : pc[t] = "off" /\ (InLoop(t)' => t = "execute")
                       /\ pc'[t] \in {"off", "loop"}
    BY <1>1 DEF StartRun, Goto, GateInv, HaltedIsOver, TypeOK, TasksOK, InLoop
<1>3. ~halted /\ ~Finalizers
    BY <1>1 DEF GateInv, HaltedIsOver, Finalizers
<1>4. ToolsStay /\ UNCHANGED <<halted, outcome, cleanup, pump>>
    BY DEF StartRun, ToolsStay, cleanupVars, schedVars
<1>5. GateHonoured' /\ GateIsClosed'
    BY <1>1, <1>4, ToolsStayKeep
<1>6. AwaitingIsLive'
    BY <1>1 DEF AwaitingIsLive
<1>7. OneTaskInLoop'
    BY <1>1, <1>2 DEF OneTaskInLoop, InLoop
<1>8. HaltedIsOver'
    BY <1>1, <1>2, <1>3, <1>4 DEF HaltedIsOver, Finalizers
<1>9. QED  BY <1>5, <1>6, <1>7, <1>8 DEF GateInv

\* A pause is admitted while its confirmations are pending, or the harness is stopped.
LEMMA PauseGate ==
    ASSUME GateInv, TypeOK', NEW t \in Tasks, ApplyPause(t)
    PROVE  GateInv'
<1>0. TypeOK
    BY DEF GateInv
<1>1. /\ pc[t] = "apply" /\ outcome[t].kind = "approval_required" /\ ToolsStay
      /\ pending' = pending
      /\ UNCHANGED <<outcome, harness, proc, cleanup>>
      /\ pump' = "finalize" => pump = "finalize"
    BY DEF ApplyPause, ToolsStay, cleanupVars, systemVars, EndsTask, Awaken
<1>2. /\ pc'[t] \in {"releaseOk", "releaseErr", "off", "flush"}
      /\ \A u \in Tasks \ {t} : pc'[u] = pc[u]
    BY <1>0 DEF ApplyPause, EndsTask, Goto, TypeOK, TasksOK
<1>3. /\ Live /\ Live' /\ run.status # "queued"
      /\ ~IsTerminal(run) => run.status = "running" /\ ~halted /\ ~Finalizers
    BY <1>1 DEF GateInv, HaltedIsOver, OneTaskInLoop, TypeOK, RunState, Status,
       IsTerminal, Finalizers, Live
<1>4. \A u \in Tasks : ~InLoop(u)'
    BY <1>1, <1>2 DEF GateInv, OneTaskInLoop, InLoop
<1>5. OneTaskInLoop'
    BY <1>4 DEF OneTaskInLoop, InLoop
<1>6. Finalizers' => Finalizers
    BY <1>1, <1>2 DEF Finalizers
<1>7. CASE run' = run
  <2>1. GateHonoured' /\ GateIsClosed'
    BY <1>1, <1>7, ToolsStayKeep
  <2>2. continuation' = continuation \/ ~IsTerminal(run)
    BY DEF ApplyPause
  <2>3. AwaitingIsLive'
    BY <1>3, <1>7 DEF AwaitingIsLive, IsTerminal, Terminal
  <2>4. HaltedIsOver'
    BY <1>3, <1>4, <1>6, <1>7 DEF HaltedIsOver, Finalizers, InLoop
  <2>5. QED  BY <2>1, <2>3, <2>4, <1>5 DEF GateInv
<1>8. CASE run' # run
  <2>1. /\ ~IsTerminal(run)
        /\ run' = Paused(run, outcome[t].facts, outcome[t].requests)
        /\ continuation' = TRUE /\ halted' = halted
    BY <1>8 DEF ApplyPause, Commit, Throws
  <2>2. /\ run'.status = "awaiting_approval" /\ run'.requests = outcome[t].requests
        /\ run'.decision = run.decision
    BY <1>0, <2>1 DEF Paused, Merge, TypeOK, RunState
  <2>3. GateHonoured' /\ GateIsClosed'
    BY <1>1, <2>2, ToolsStayKeep
  <2>4. AwaitingIsLive'
    BY <1>1, <2>1, <2>2 DEF GateInv, OneTaskInLoop, AwaitingIsLive
  <2>5. HaltedIsOver'
    BY <1>3, <1>6, <2>1, <2>2 DEF HaltedIsOver, Finalizers
  <2>6. QED  BY <2>3, <2>4, <2>5, <1>5 DEF GateInv
<1>9. QED  BY <1>7, <1>8

\* A decision is taken for a call that waits for it, which did not run.
LEMMA DecideGate ==
    ASSUME GateInv, TypeOK', NEW c \in Calls, NEW d \in {"approve_once", "reject"},
           DecideApproval(c, d)
    PROVE  GateInv'
<1>0. TypeOK /\ \A k \in Calls : ClosedAt(k)
    BY GateOfAllCalls, BoundsAssumption DEF GateInv
<1>1. /\ Live /\ Live' /\ run.status = "awaiting_approval" /\ c \in run.requests
      /\ ~IsTerminal(run)
    BY DEF DecideApproval, CanDecide, Live, systemVars, IsTerminal, Terminal
<1>2. c \in pending /\ tool[c] = "gated" /\ effect[c] = "none"
    BY <1>0, <1>1 DEF GateInv, AwaitingIsLive, ClosedAt
<1>3. /\ run'.status = "running" /\ ~IsTerminal(run')
      /\ run'.decision = [run.decision EXCEPT ![c] = d]
    BY <1>0 DEF DecideApproval, Commit, Decided, TypeOK, RunState, IsTerminal, Terminal
<1>4. /\ UNCHANGED <<result, effect, halted, cleanup, pump>> /\ pending' = pending \ {c}
      /\ tool' = [tool EXCEPT ![c] =
                    IF d = "approve_once" THEN "approved" ELSE "rejected"]
    BY DEF DecideApproval, cleanupVars, schedVars
<1>5. \A k \in Calls : ClosedAt(k)'
  <2>1. ASSUME NEW k \in Calls, k # c
        PROVE  ClosedAt(k)'
    BY <1>0, <1>3, <1>4, <2>1 DEF ClosedAt, TypeOK, HarnessOK, RunState
  <2>2. ClosedAt(c)'
    BY <1>0, <1>2, <1>3, <1>4 DEF ClosedAt, TypeOK, HarnessOK, RunState
  <2>3. QED  BY <2>1, <2>2
<1>6. GateHonoured' /\ GateIsClosed'
    BY <1>5, BoundsAssumption DEF GateHonoured, GateIsClosed, ClosedAt
<1>7. AwaitingIsLive'
    BY <1>3 DEF AwaitingIsLive
<1>8. \A t \in Tasks : ~InLoop(t) /\ (InLoop(t)' => t = "decide") /\ pc'[t] # "apply"
                       /\ (pc'[t] = "finalize" => pc[t] = "finalize")
    BY <1>1 DEF GateInv, OneTaskInLoop, InLoop, DecideApproval, Goto
<1>9. OneTaskInLoop'
    BY <1>3, <1>8 DEF OneTaskInLoop, InLoop
<1>10. ~halted /\ ~Finalizers
    BY <1>1 DEF GateInv, HaltedIsOver, Finalizers
<1>11. HaltedIsOver'
    BY <1>1, <1>3, <1>4, <1>8, <1>10 DEF HaltedIsOver, Finalizers
<1>12. QED  BY <1>6, <1>7, <1>9, <1>11 DEF GateInv

\* The snapshot and the effects of the tools survive a crash, and nothing else.
LEMMA CrashGate ==
    ASSUME GateInv, TypeOK', Crash
    PROVE  GateInv'
<1>1. GateHonoured'
    BY DEF GateInv, GateHonoured, Crash
<1>2. GateIsClosed'
    BY DEF GateIsClosed, Crash
<1>3. AwaitingIsLive' /\ OneTaskInLoop' /\ HaltedIsOver'
    BY DEF AwaitingIsLive, OneTaskInLoop, HaltedIsOver, Crash, Live
<1>4. QED  BY <1>1, <1>2, <1>3 DEF GateInv

-----------------------------------------------------------------------------
(* The theorems. *)

\* Every step of the run keeps the gates closed.
LEMMA GateSteps ==
    ASSUME GateInv, TypeOK', [Next]_vars
    PROVE  GateInv'
<1>1. CASE StartRun
    BY <1>1, StartGate
<1>2. CASE Harness
    BY <1>2, HarnessGate, HarnessQuiet, RoundGate, QuietKeeps DEF Harness
<1>3. CASE \E c \in Calls : Tool(c)
    BY <1>3, ToolGate
<1>4. CASE \E t \in Tasks : Task(t)
    BY <1>4, PauseGate, TaskQuiet, QuietKeeps DEF Task
<1>5. CASE Completion \/ Cleanup \/ Pump \/ Recovery \/ SessionRestores
    BY <1>5, CompletionQuiet, CleanupQuiet, PumpQuiet, RecoveryQuiet, CancelQuiet,
       QuietKeeps DEF Completion, Cleanup, Pump, Recovery
<1>6. CASE User
    BY <1>6, CancelQuiet, DecideGate, QuietKeeps DEF User
<1>7. CASE Crash
    BY <1>7, CrashGate
<1>8. CASE UNCHANGED vars
  <2>1. Quiet
    BY <1>8 DEF vars, taskVars, handleVars, harnessVars, cleanupVars, schedVars,
       systemVars, Quiet, StillStep, ToolsStay, ScheduleStays, Live, Finalizers
  <2>2. QED  BY <2>1, QuietKeeps
<1>9. QED  BY <1>1, <1>2, <1>3, <1>4, <1>5, <1>6, <1>7, <1>8 DEF Next

\* GateInv holds of every reachable state, for any set of calls and any bounds.
THEOREM GateInvariant == Spec => []GateInv
<1>1. Init => GateInv
  <2> SUFFICES ASSUME Init PROVE GateInv
    OBVIOUS
  <2>1. TypeOK
    BY InitType
  <2>2. GateHonoured /\ GateIsClosed
    BY BoundsAssumption DEF Init, GateHonoured, GateIsClosed
  <2>3. AwaitingIsLive /\ OneTaskInLoop /\ HaltedIsOver
    BY DEF Init, InitialRun, AwaitingIsLive, OneTaskInLoop, HaltedIsOver
  <2>4. QED  BY <2>1, <2>2, <2>3 DEF GateInv
<1>2. GateInv /\ [Next]_vars => GateInv'
    BY GateSteps, NextKeeps DEF GateInv
<1>3. QED  BY <1>1, <1>2, PTL DEF Spec

\* No call that needs a confirmation ever runs without a stored approval, whatever
\* crashes, cancels, refused writes and late results come between the two.
THEOREM GateIsHonoured == Spec => []GateHonoured
<1>1. GateInv => GateHonoured
    BY DEF GateInv
<1>2. QED  BY <1>1, GateInvariant, PTL

\* A run that waits for its user always has a continuation to hand the decision to, and
\* every confirmation it asks for is still pending in the loop.
THEOREM AwaitingHasContinuation == Spec => []AwaitingIsLive
<1>1. GateInv => AwaitingIsLive
    BY DEF GateInv
<1>2. QED  BY <1>1, GateInvariant, PTL

=============================================================================
