------------------------ MODULE OrdinaryRunEnd_proofs ------------------------
(***************************************************************************)
(* How a run of OrdinaryRun comes to rest, for any finite set of calls and *)
(* any bounds.  A run that is running is being executed, or its response   *)
(* waits to be stored (RunningIsExecuted); a run that is stable has        *)
(* nothing at work (StableIsQuiet); a run whose response reached the       *)
(* transcript is never recorded as failed (ResponseIsNotFailure).          *)
(*                                                                         *)
(* Three invariants build on GateInv and FactInv.  CallInv: a result is    *)
(* accepted once, and one that was not is explained by a write that failed *)
(* or by a record that says something else.  ExecutionInv: one task at a   *)
(* time has the outcome of the run in its hands.  OutcomeInv: a task that  *)
(* is through with a run that is still running met two faults or has an    *)
(* outcome that contradicts the record, which stands because final facts   *)
(* do (ContradictionStands).                                               *)
(*                                                                         *)
(* Then where the harness is.  CleanupInv and HarnessInv: it has the       *)
(* Session, and a task that goes on beside it had paused it.  AgreeInv:    *)
(* until the first task has settled its pause nothing contradicts          *)
(* anything.  EndInv: who ends a run whose harness is at work.  HeldInv:   *)
(* the harness is held by a continuation or a task, or was forsaken by     *)
(* one, and then the run is not stable (Forsaken).                         *)
(*                                                                         *)
(* Last, what a response leaves to be done.  ModelInv: the model is asked  *)
(* only when every call before is over.  RefusalInv: a harness whose run   *)
(* failed does not answer any more.  AbortInv: only a run that was         *)
(* cancelled is aborted.  ResponseInv: no failure that is still to be      *)
(* stored agrees with the record.                                          *)
(***************************************************************************)
EXTENDS OrdinaryRunFacts_proofs

-----------------------------------------------------------------------------
(* Faults are counted. *)

FaultsGrow == faults' \in Nat /\ faults' >= faults

LEMMA FaultGrows ==
    ASSUME TypeOK
    PROVE  /\ faults \in Nat
           /\ Fault \/ UNCHANGED faults => FaultsGrow
           /\ \A r : Commit(r) => FaultsGrow
           /\ \A can : Throws(can) => FaultsGrow
    BY DEF TypeOK, SystemOK, Fault, Commit, Throws, FaultsGrow

LEMMA FlushGrows ==
    ASSUME TypeOK, FlushAccepted
    PROVE  FaultsGrow
<1>1. PICK F \in SUBSET {c \in Calls : accepted[c] \notin {"none", run.fact[c]}} :
        faults' = faults + Cardinality(F)
    BY DEF FlushAccepted
<1>2. Cardinality(F) \in Nat
    BY <1>1, BoundsAssumption, FS_Subset, FS_CardinalityType
<1>3. QED  BY <1>1, <1>2 DEF FaultsGrow, TypeOK, SystemOK

LEMMA SettleGrows ==
    ASSUME TypeOK
    PROVE  /\ \A ok \in BOOLEAN : ReconcilePending(ok) \/ SettleRound(ok) => FaultsGrow
           /\ \A ok \in BOOLEAN, restores \in BOOLEAN :
                FinalizeEnds(ok, restores) => FaultsGrow
           /\ \A t \in Tasks, how \in Terminal, facts \in Facts, next \in TaskPc :
                EndsRun(t, how, facts, next) => FaultsGrow
<1>1. \A ok \in BOOLEAN : ReconcilePending(ok) => FaultsGrow
    BY FaultGrows DEF ReconcilePending
<1>2. \A ok \in BOOLEAN : SettleRound(ok) => FaultsGrow
    BY <1>1, FaultGrows DEF SettleRound
<1>3. \A ok \in BOOLEAN, restores \in BOOLEAN :
            FinalizeEnds(ok, restores) => FaultsGrow
    BY FaultGrows DEF FinalizeEnds
<1>4. \A t \in Tasks, how \in Terminal, facts \in Facts, next \in TaskPc :
            EndsRun(t, how, facts, next) => FaultsGrow
    BY FaultGrows DEF EndsRun
<1>5. QED  BY <1>1, <1>2, <1>3, <1>4

\* No step takes a fault back.
LEMMA FaultSteps ==
    ASSUME TypeOK, [Next]_vars
    PROVE  FaultsGrow
<1>0. TaskRestores \in BOOLEAN /\ LaterRestores \in BOOLEAN
    BY DEF TaskRestores, LaterRestores
<1>1. CASE StartRun \/ Harness
    BY <1>1, FaultGrows DEF StartRun, Harness, Acquire, CaptureStart, CommitInput,
       ToolRound, Respond, CloseRound, Checkpoint, HarnessStops, Pause
<1>2. CASE \E c \in Calls : Tool(c)
    BY <1>2, FaultGrows DEF Tool, ToolGates, ToolRefused, ToolExecutes, ToolEnds,
       ToolPersists, Returns
<1>3. CASE \E t \in Tasks : Task(t)
  <2>1. PICK t \in Tasks : Task(t)
    BY <1>3
  <2>2. CASE ApplyPause(t) \/ Released(t)
    BY <2>2, FaultGrows DEF ApplyPause, Released
  <2>3. CASE ApplyOutcome(t) \/ Caught(t) \/ CompletionCommitFails(t)
    <3>1. UNCHANGED faults \/ \E how \in Terminal, next \in TaskPc :
                                EndsRun(t, how, outcome[t].facts, next)
      BY <2>3 DEF ApplyOutcome, Caught, CompletionCommitFails, Terminal, TaskPc
    <3>2. outcome[t].facts \in Facts
      BY DEF TypeOK, TasksOK
    <3>3. QED  BY <3>1, <3>2, FaultGrows, SettleGrows
  <2>4. CASE TaskFinalized(t) \/ TaskFlushes(t) \/ TaskSettles(t)
    BY <1>0, <2>4, FlushGrows, SettleGrows DEF TaskFinalized, TaskFlushes, TaskSettles
  <2>5. QED  BY <2>1, <2>2, <2>3, <2>4 DEF Task
<1>4. CASE Completion \/ User \/ SessionRestores
    BY <1>0, <1>4, FaultGrows, SettleGrows DEF Completion, CompletionRetries,
       CompletionFinalized, User, Cancel, DecideApproval, SessionRestores
<1>5. CASE Cleanup \/ Pump
    BY <1>0, <1>5, FaultGrows, FlushGrows, SettleGrows DEF Cleanup, CleanupReleases,
       CleanupFinalized, CleanupSettles, CleanupFlushes, CleanupChecks, CleanupRetries,
       Pump, PumpStarts, PumpFlushes, PumpSettles, PumpFinalized, PumpRetries
<1>6. CASE Crash \/ Recovery \/ UNCHANGED vars
    BY <1>6, FaultGrows, SettleGrows DEF Crash, Recovery, RecoverApproval,
       RecoverRound, RecoverRunning, Recovered, Isolates, vars
<1>7. QED  BY <1>1, <1>2, <1>3, <1>4, <1>5, <1>6 DEF Next

-----------------------------------------------------------------------------
(* The books of a call. *)

\* What is said of a call before its result: nothing, or that it waits.
Early == {"none", "approval"}

\* The call has no part in the harness (any more).
AtRest(c) == tool[c] \in {"unused", "delivered", "closed"}

\* The buffer has another final result than the snapshot.
Clashes(c) ==
    /\ run.fact[c] \in FinalFact /\ accepted[c] \in FinalFact
    /\ accepted[c] # run.fact[c]

\* A result is accepted once, and a call that was not delivered has an accepted one.
ResultBooks(c) ==
    /\ tool[c] = "unused" => result[c] = "none" /\ accepted[c] = "none"
    /\ tool[c] \in {"idle", "gated", "approved", "rejected", "executing"} =>
          result[c] \in Early /\ accepted[c] \in Early
    /\ tool[c] = "persisting" =>
          /\ result[c] \in {"approval", "refused", "reported"}
          /\ accepted[c] \in {"none", result[c]}
    /\ tool[c] = "gated" => result[c] = "approval"
    /\ tool[c] \notin {"delivered", "closed"} =>
          run.fact[c] # "unaccepted" /\ \A f \in Noted(c) : f # "unaccepted"

\* A result that cannot be remembered is one that was not stored: its write failed, or it
\* came after the call was settled.
MismatchBooks(c) ==
    ~Remembers(c, result[c]) =>
        /\ result[c] = "unaccepted"
        /\ faults > 0 \/ (Clashes(c) /\ run.fact[c] # "unaccepted")

ToolsAtRest == harness # "tools" => \A c \in Calls : AtRest(c)

\* All of it: inductive (with GateInv and FactInv).
CallInv ==
    /\ \A c \in Calls : ResultBooks(c) /\ MismatchBooks(c)
    /\ ToolsAtRest

\* The call stays, and its entries are copied from each other.
CallCopies(c) ==
    /\ tool'[c] = tool[c] /\ result'[c] = result[c]
    /\ accepted'[c] \in {"none", accepted[c], result[c]}
    /\ run'.fact[c] \in {run.fact[c], "unknown", "lost"} \cup Noted(c)
    /\ \A f \in Noted(c)' : f = "none" \/ f \in Noted(c)

LEMMA CopiesKeep ==
    ASSUME KeepsFinal(run, run'), FaultsGrow, faults \in Nat,
           NEW c \in Calls, CallCopies(c), ResultBooks(c), MismatchBooks(c)
    PROVE  ResultBooks(c)' /\ MismatchBooks(c)'
<1>1. ResultBooks(c)'
  <2>1. tool'[c] \notin {"delivered", "closed"} =>
            run'.fact[c] # "unaccepted" /\ \A f \in Noted(c)' : f # "unaccepted"
    BY DEF CallCopies, ResultBooks
  <2>2. QED  BY <2>1 DEF CallCopies, ResultBooks, Early
<1>2. MismatchBooks(c)'
  <2>1. ASSUME ~Remembers(c, result[c])'
        PROVE  ~Remembers(c, result[c]) /\ accepted'[c] = accepted[c]
    BY <2>1 DEF CallCopies, Remembers
  <2>2. faults > 0 => faults' > 0
    BY DEF FaultsGrow
  <2>3. ASSUME accepted'[c] = accepted[c], Clashes(c)
        PROVE  Clashes(c)' /\ run'.fact[c] = run.fact[c]
    BY <2>3 DEF Clashes, KeepsFinal
  <2>4. QED  BY <2>1, <2>2, <2>3 DEF CallCopies, MismatchBooks
<1>3. QED  BY <1>1, <1>2

\* Steps that leave the tools alone.
LEMMA CalmCopies ==
    ASSUME GateInv, CallInv, KeepsFinal(run, run'), FaultsGrow, Calm,
           \A c \in Calls : accepted'[c] \in {"none", accepted[c], result[c]},
           harness = "tools" => harness' = "tools"
    PROVE  CallInv'
<1>1. ASSUME NEW c \in Calls
      PROVE  CallCopies(c)
    BY DEF Calm, ToolsStay, FactsFromBooks, BooksFromBooks, CallCopies
<1>2. ToolsAtRest'
    BY DEF CallInv, ToolsAtRest, AtRest, Calm, ToolsStay
<1>3. QED  BY <1>1, <1>2, CopiesKeep, FaultGrows DEF CallInv, GateInv

\* What they do with the buffer and the harness.
LEMMA HarnessCopies ==
    ASSUME StartRun \/ CaptureStart \/ CommitInput \/ Respond
           \/ Acquire \/ HarnessStops \/ Pause
    PROVE  /\ \A c \in Calls : accepted'[c] \in {"none", accepted[c], result[c]}
           /\ harness = "tools" => harness' = "tools" \/ StartRun
<1>1. ASSUME NEW kind, NEW facts \in {result, NoFacts}, NEW asked,
             Returned(kind, facts, asked)
      PROVE  \A c \in Calls : accepted'[c] \in {"none", accepted[c], result[c]}
    BY <1>1 DEF Returned, Remembered, NoFacts
<1>2. QED
    BY <1>1 DEF StartRun, CaptureStart, CommitInput, Respond, Acquire, HarnessStops,
       Pause, HarnessKeeps, harnessVars

LEMMA TaskCopies ==
    ASSUME GateInv, NEW t \in Tasks, Task(t)
    PROVE  BufferShrinks /\ harness' = harness
<1>1. CASE ApplyPause(t)
    BY <1>1 DEF ApplyPause, Forgotten, BufferShrinks
<1>2. CASE TaskFlushes(t) \/ TaskSettles(t)
    BY <1>2 DEF TaskFlushes, TaskSettles, FlushAccepted, SettleRound, NoFacts,
       BufferShrinks, harnessVars
<1>3. CASE ~(ApplyPause(t) \/ TaskFlushes(t) \/ TaskSettles(t))
    BY <1>3 DEF Task, ApplyOutcome, Released, Caught, CompletionCommitFails,
       TaskFinalized, TaskCommitKeeps, TaskKeeps, harnessVars, BufferShrinks
<1>4. QED  BY <1>1, <1>2, <1>3

LEMMA OtherCopies ==
    ASSUME Completion \/ Cancel \/ SessionRestores \/ Cleanup \/ Pump \/ Recovery
    PROVE  BufferShrinks /\ harness' = harness
<1>1. CASE Completion \/ Cancel \/ SessionRestores
    BY <1>1 DEF Completion, CompletionRetries, CompletionFinalized, Cancel,
       SessionRestores, harnessVars, BufferShrinks
<1>2. CASE Cleanup
    BY <1>2 DEF Cleanup, CleanupReleases, CleanupFinalized, CleanupSettles,
       CleanupFlushes, CleanupChecks, CleanupRetries, CleanupKeeps, FlushAccepted,
       SettleRound, NoFacts, harnessVars, BufferShrinks
<1>3. CASE Pump
    BY <1>3 DEF Pump, PumpStarts, PumpFlushes, PumpSettles, PumpFinalized, PumpRetries,
       PumpKeeps, FlushAccepted, SettleRound, NoFacts, harnessVars, BufferShrinks
<1>4. CASE Recovery
    BY <1>4 DEF Recovery, RecoverApproval, RecoverRound, RecoverRunning, Recovered,
       RecoveryKeeps, harnessVars, BufferShrinks
<1>5. QED  BY <1>1, <1>2, <1>3, <1>4

\* A call of a new round was not used, and one of a closed round was delivered.
LEMMA RoundCopies ==
    ASSUME GateInv, CallInv, KeepsFinal(run, run'), FaultsGrow,
           (\E calls \in SUBSET Calls : ToolRound(calls)) \/ CloseRound
    PROVE  CallInv'
<1>0. TypeOK
    BY DEF GateInv
<1>1. UNCHANGED <<result, accepted, outcome>>
    BY DEF ToolRound, CloseRound, HarnessKeeps, taskVars
<1>2. run'.fact = run.fact
    BY <1>0 DEF ToolRound, CloseRound, Checkpoint, Commit, Throws, RoundAccepted,
       RoundClosed, TypeOK, RunState
<1>3. \A c \in Calls :
        \/ tool'[c] = tool[c]
        \/ tool[c] = "unused" /\ tool'[c] = "idle"
        \/ tool'[c] = "closed"
    BY DEF ToolRound, CloseRound
<1>4. ASSUME NEW c \in Calls
      PROVE  ResultBooks(c)' /\ MismatchBooks(c)'
  <2>1. ResultBooks(c) /\ MismatchBooks(c)
    BY DEF CallInv
  <2>2. Noted(c)' = Noted(c)
    BY <1>1 DEF Noted
  <2>3. ResultBooks(c)'
    BY <1>1, <1>2, <1>3, <2>1, <2>2 DEF ResultBooks, Early
  <2>4. MismatchBooks(c)'
    BY <1>1, <1>2, <2>1, FaultGrows, <1>0 DEF MismatchBooks, Remembers, Clashes, FaultsGrow
  <2>5. QED  BY <2>3, <2>4
<1>5. ToolsAtRest'
  <2>1. CASE CloseRound
    BY <1>0, <2>1 DEF CloseRound, RoundCalls, ToolsAtRest, AtRest, Checkpoint
  <2>2. CASE \E calls \in SUBSET Calls : ToolRound(calls)
    BY <2>2 DEF ToolRound, CallInv, ToolsAtRest, AtRest
  <2>3. QED  BY <2>1, <2>2
<1>6. QED  BY <1>4, <1>5 DEF CallInv

\* A tool that moves.
LEMMA ToolCopies ==
    ASSUME GateInv, BooksAreTrue, CallInv, KeepsFinal(run, run'), FaultsGrow,
           NEW c \in Calls, Tool(c)
    PROVE  CallInv'
<1>0. TypeOK /\ faults \in Nat
    BY FaultGrows DEF GateInv
<1>1. ResultBooks(c) /\ MismatchBooks(c) /\ ~AtRest(c) /\ harness = "tools"
  <2>1. ~AtRest(c)
    BY DEF Tool, ToolGates, ToolRefused, ToolExecutes, ToolEnds, ToolPersists, AtRest
  <2>2. QED  BY <2>1 DEF CallInv, ToolsAtRest
<1>2. UNCHANGED <<outcome, harness>> /\ FactsFromBooks
    BY ToolMoves
<1>3. ASSUME NEW d \in Calls \ {c}
      PROVE  ResultBooks(d)' /\ MismatchBooks(d)'
  <2>1. CallCopies(d)
    BY <1>2, ToolMoves DEF CallCopies, FactsFromBooks, Noted
  <2>2. QED  BY <1>0, <2>1, CopiesKeep DEF CallInv
<1>4. ASSUME NEW f \in {"approval", "refused", "reported"}, Returns(c, f),
             tool[c] \in {"idle", "gated", "rejected", "executing"}
      PROVE  ResultBooks(c)' /\ MismatchBooks(c)'
  <2>1. Remembers(c, f)
    BY <1>1, <1>4 DEF ResultBooks, Remembers, Early
  <2>2. /\ run' = run /\ tool'[c] = "persisting" /\ result'[c] = f /\ accepted'[c] = f
    BY <1>0, <1>4, <2>1 DEF Returns, Remembered, OneFact, NoFacts, TypeOK, HarnessOK,
       Facts
  <2>3. \A g \in Noted(c)' : g \in Noted(c) \/ g = f
    BY <1>2, <2>2 DEF Noted
  <2>4. ResultBooks(c)'
    BY <1>1, <1>4, <2>2, <2>3 DEF ResultBooks
  <2>5. MismatchBooks(c)'
    BY <2>2 DEF MismatchBooks, Remembers
  <2>6. QED  BY <2>4, <2>5
<1>5. CASE ToolGates(c) \/ ToolRefused(c) \/ ToolEnds(c)
  <2>1. /\ tool[c] \in {"idle", "gated", "rejected", "executing"}
        /\ \E f \in {"approval", "refused", "reported"} : Returns(c, f)
    BY <1>5 DEF ToolGates, ToolRefused, ToolEnds
  <2>2. ResultBooks(c)' /\ MismatchBooks(c)'
    BY <1>4, <2>1
  <2>3. QED  BY <1>1, <1>2, <1>3, <2>2 DEF CallInv, ToolsAtRest
<1>6. CASE ToolExecutes(c)
  <2>1. /\ tool[c] \in {"idle", "approved"} /\ tool'[c] = "executing"
        /\ UNCHANGED <<run, faults, accepted, result>>
    BY <1>0, <1>6 DEF ToolExecutes, TypeOK, HarnessOK
  <2>2. Noted(c)' = Noted(c)
    BY <1>2, <2>1 DEF Noted
  <2>3. ResultBooks(c)' /\ MismatchBooks(c)'
    BY <1>1, <2>1, <2>2 DEF ResultBooks, MismatchBooks, Remembers, Clashes
  <2>4. QED  BY <1>1, <1>2, <1>3, <2>3 DEF CallInv, ToolsAtRest
<1>7. CASE ToolPersists(c)
  <2>1. tool[c] = "persisting" /\ run.fact[c] # "unaccepted"
        /\ result[c] \in {"approval", "refused", "reported"}
        /\ accepted[c] \in {"none", result[c]}
        /\ \A g \in Noted(c) : g # "unaccepted"
    BY <1>1, <1>7 DEF ToolPersists, ResultBooks
  <2>2. ASSUME tool'[c] = "gated" \/ result' = result
        PROVE  ResultBooks(c)' /\ MismatchBooks(c)'
    <3>1. /\ result'[c] = result[c] /\ accepted'[c] \in {"none", accepted[c]}
          /\ tool'[c] \in {"gated", "delivered"}
          /\ tool'[c] = "gated" => result[c] = "approval"
      BY <1>0, <1>7, <2>1, <2>2 DEF ToolPersists, Forgotten, TypeOK, HarnessOK, Facts
    <3>2. run'.fact[c] # "unaccepted"
      BY <1>2, <2>1 DEF FactsFromBooks
    <3>3. \A g \in Noted(c)' : g \in Noted(c) \/ g = "none"
      BY <1>2, <3>1 DEF Noted
    <3>4. ResultBooks(c)'
      BY <2>1, <3>1, <3>2, <3>3 DEF ResultBooks, Early
    <3>5. MismatchBooks(c)'
      BY <2>1, <3>1 DEF MismatchBooks, Remembers
    <3>6. QED  BY <3>4, <3>5
  <2>3. ASSUME ~(tool'[c] = "gated" \/ result' = result)
        PROVE  ResultBooks(c)' /\ MismatchBooks(c)'
    <3>1. /\ result'[c] = "unaccepted" /\ tool'[c] = "delivered"
          /\ UNCHANGED accepted /\ run' = run
          /\ run.fact[c] # result[c]
          /\ Fault \/ ~Compatible(run.fact[c], result[c])
      BY <1>0, <1>7, <2>3 DEF ToolPersists, Throws, Disowned, TypeOK, HarnessOK, Facts
    <3>2. ResultBooks(c)'
      BY <3>1 DEF ResultBooks
    <3>3. ASSUME ~Remembers(c, result[c])'
          PROVE  faults' > 0 \/ (Clashes(c)' /\ run'.fact[c] # "unaccepted")
      <4>1. accepted[c] = result[c] /\ result[c] \in FinalFact
        BY <2>1, <3>1, <3>3 DEF Remembers, FinalFact
      <4>2. CASE Fault
        BY <1>0, <4>2 DEF Fault
      <4>3. CASE ~Compatible(run.fact[c], result[c])
        <5>1. run.fact[c] \in FinalFact
          BY <1>0, <4>1, <4>3 DEF Compatible, TypeOK, RunState, Facts, Fact
        <5>2. QED  BY <2>1, <3>1, <4>1, <5>1 DEF Clashes
      <4>4. QED  BY <3>1, <4>2, <4>3
    <3>4. MismatchBooks(c)'
      BY <3>1, <3>3 DEF MismatchBooks
    <3>5. QED  BY <3>2, <3>4
  <2>4. QED  BY <1>1, <1>2, <1>3, <2>2, <2>3 DEF CallInv, ToolsAtRest
<1>8. QED  BY <1>5, <1>6, <1>7 DEF Tool

\* The user decides a call that is gated.
LEMMA DecisionCopies ==
    ASSUME GateInv, CallInv, KeepsFinal(run, run'), FaultsGrow,
           NEW c \in Calls, NEW d \in {"approve_once", "reject"}, DecideApproval(c, d)
    PROVE  CallInv'
<1>0. TypeOK /\ faults \in Nat
    BY FaultGrows DEF GateInv
<1>1. /\ Live /\ run.status = "awaiting_approval" /\ c \in run.requests
      /\ UNCHANGED <<result, accepted, harness, faults>>
      /\ outcome' = [outcome EXCEPT !["decide"] = NoOutcome]
    BY DEF DecideApproval, CanDecide, Commit
<1>2. run'.fact = run.fact
    BY <1>0 DEF DecideApproval, Commit, Decided, TypeOK, RunState
<1>3. tool[c] = "gated" /\ harness = "tools"
    BY <1>1 DEF GateInv, AwaitingIsLive, GateIsClosed, CallInv, ToolsAtRest, AtRest
<1>4. /\ tool'[c] \in {"approved", "rejected"}
      /\ \A k \in Calls \ {c} : tool'[k] = tool[k]
    BY <1>0 DEF DecideApproval, TypeOK, HarnessOK
<1>5. \A k \in Calls : \A f \in Noted(k)' : f \in Noted(k) \/ f = "none"
    BY <1>0, <1>1 DEF Noted, NoOutcome, NoFacts, TypeOK, TasksOK
<1>6. \A k \in Calls \ {c} : ResultBooks(k)' /\ MismatchBooks(k)'
  <2>1. \A k \in Calls \ {c} : CallCopies(k)
    BY <1>1, <1>2, <1>4, <1>5 DEF CallCopies
  <2>2. QED  BY <1>0, <2>1, CopiesKeep DEF CallInv
<1>7. ResultBooks(c)' /\ MismatchBooks(c)'
  <2>1. ResultBooks(c)
    BY DEF CallInv
  <2>2. ResultBooks(c)'
    BY <1>1, <1>2, <1>3, <1>4, <1>5, <2>1 DEF ResultBooks, Early
  <2>3. Remembers(c, result[c])'
    BY <1>1, <1>3, <2>1 DEF ResultBooks, Remembers, Early
  <2>4. QED  BY <2>2, <2>3 DEF MismatchBooks
<1>8. QED  BY <1>1, <1>3, <1>6, <1>7 DEF CallInv, ToolsAtRest

\* Every step keeps the books of the calls.
LEMMA CallSteps ==
    ASSUME GateInv, FactInv, CallInv, [Next]_vars
    PROVE  CallInv'
<1>0. KeepsFinal(run, run') /\ BooksAreTrue /\ FaultsGrow
    BY NextKeeps, SnapshotStepKeeps, FaultSteps DEF GateInv, TypeOK, FactInv
<1>1. CASE StartRun \/ Acquire \/ HarnessStops \/ Pause \/ CaptureStart \/ CommitInput
           \/ Respond
  <2>1. Calm
    BY <1>1, StartCalm, ReturnCalm, HarnessCalm
  <2>2. StartRun => harness # "tools"
    BY DEF StartRun, GateInv, HaltedIsOver
  <2>3. QED  BY <1>0, <1>1, <2>1, <2>2, HarnessCopies, CalmCopies
<1>2. CASE (\E calls \in SUBSET Calls : ToolRound(calls)) \/ CloseRound
    BY <1>0, <1>2, RoundCopies
<1>3. CASE \E c \in Calls : Tool(c)
    BY <1>0, <1>3, ToolCopies
<1>4. CASE \E t \in Tasks : Task(t)
  <2>1. PICK t \in Tasks : Task(t)
    BY <1>4
  <2>2. Calm
    BY <1>0, <2>1, PauseCalm, TaskCalm DEF Task
  <2>3. QED  BY <1>0, <2>1, <2>2, TaskCopies, CalmCopies DEF BufferShrinks
<1>5. CASE Completion \/ Cancel \/ SessionRestores \/ Cleanup \/ Pump \/ Recovery
  <2>1. Calm
    BY <1>0, <1>5, CompletionCalm, CleanupCalm, PumpCalm, RecoveryCalm DEF Completion,
       Cleanup, Pump, Recovery
  <2>2. QED  BY <1>0, <1>5, <2>1, OtherCopies, CalmCopies DEF BufferShrinks
<1>6. CASE \E c \in Calls, d \in {"approve_once", "reject"} : DecideApproval(c, d)
    BY <1>0, <1>6, DecisionCopies
<1>7. CASE Crash
    BY <1>7 DEF Crash, CallInv, ResultBooks, MismatchBooks, ToolsAtRest, AtRest,
       Remembers, NoFacts
<1>8. CASE UNCHANGED vars
    BY <1>8 DEF vars, taskVars, harnessVars, CallInv, ResultBooks, MismatchBooks,
       ToolsAtRest, AtRest, Remembers, Clashes, Noted
<1>9. QED
    BY <1>1, <1>2, <1>3, <1>4, <1>5, <1>6, <1>7, <1>8 DEF Next, Harness, User

\* CallInv holds of every reachable state, for any set of calls and any bounds.
THEOREM CallInvariant == Spec => []CallInv
<1>1. Init => CallInv
    BY DEF Init, InitialRun, NoFacts, NoOutcome, CallInv, ResultBooks, MismatchBooks,
       Remembers, ToolsAtRest, AtRest, Early, Noted
<1>2. GateInv /\ FactInv /\ CallInv /\ [Next]_vars => CallInv'
    BY CallSteps
<1>3. QED  BY <1>1, <1>2, GateInvariant, FactInvariant, PTL DEF Spec

-----------------------------------------------------------------------------
(* Who has the run in hand. *)

\* A task that still has the loop, its outcome, or the Session to care for.
Holds(t) == pc[t] \in {"loop", "apply", "releaseOk", "releaseErr", "caught",
                       "commitFailed", "finalize"}

Pauses(t) == outcome[t].kind = "approval_required"

\* One task at a time executes the run, and a response that is retried is nobody's.
OneTaskHolds == \A t \in Tasks : Holds(t) => execution = t /\ retry = "off"

\* The task that executes the run is at work, and has its controller.
ExecutionIsAtWork == \A t \in Tasks : execution = t => pc[t] # "off" /\ controller

\* A decision takes over from the first task, which may still be settling its pause.
DecisionTakesOver ==
    /\ pc["decide"] # "off" => execution = "decide" /\ reserved
    /\ execution = "execute" => outcome["decide"].kind = "none"
    /\ pc["decide"] \notin {"off", "loop"} => outcome["decide"].kind # "none"
    /\ execution = "decide" /\ pc["execute"] # "off" => Pauses("execute")

\* While the run waits for a confirmation, a task may only settle its pause.
WaitsAtRest ==
    run.status = "awaiting_approval" /\ Live =>
        /\ retry = "off"
        /\ \A t \in Tasks : ~Holds(t) /\ (pc[t] # "off" => Pauses(t))

\* Nothing happened yet to a run that is queued.
QueuedIsUntouched ==
    run.status = "queued" =>
        /\ execution = "none" /\ retry = "off" /\ ~controller
        /\ \A t \in Tasks : outcome[t].kind = "none"

\* All of it: inductive (with GateInv).
ExecutionInv ==
    /\ OneTaskHolds /\ ExecutionIsAtWork /\ DecisionTakesOver /\ WaitsAtRest
    /\ QueuedIsUntouched
    /\ retry = "finalize" => IsTerminal(run)
    /\ continuation => run.status \notin {"queued", "running"}
    /\ harness \in {"acquire", "start"} => pc["execute"] = "loop"

\* The tasks go on in their course, and the run with them or without them.
Steady ==
    /\ StillStep(run, run') \/ EndStep(run, run')
    /\ UNCHANGED <<execution, reserved, outcome>>
    /\ execution # "none" /\ controller => controller'
    /\ run'.status = "queued" => controller' = controller
    /\ \A t \in Tasks :
            \/ pc'[t] = pc[t]
            \/ /\ pc[t] \notin {"off", "loop"} /\ pc'[t] \notin {"off", "loop"}
               /\ Holds(t)' => Holds(t)
    /\ \/ retry' = retry
       \/ IsTerminal(run') /\ \A t \in Tasks : ~Holds(t)'
       \/ /\ retry' = "timer"
          /\ \E t \in Tasks : Holds(t) /\ \A u \in Tasks : Holds(u)' => Holds(u) /\ u # t
    /\ continuation' => continuation
    /\ Live' => Live \/ IsTerminal(run')
    /\ harness' \in {"acquire", "start"} => harness \in {"acquire", "start"}

LEMMA SteadyKeeps ==
    ASSUME GateInv, ExecutionInv, Steady
    PROVE  ExecutionInv'
<1>0. TypeOK
    BY DEF GateInv
<1>1. /\ IsTerminal(run) => IsTerminal(run')
      /\ ~IsTerminal(run') => run'.status = run.status
      /\ run'.status \in {"queued", "running", "awaiting_approval"} => ~IsTerminal(run')
  <2>1. IsTerminal(run) => IsTerminal(run')
    BY <1>0, RunMoves DEF Steady, TypeOK
  <2>2. ~IsTerminal(run') => run'.status = run.status
    BY <1>0, RunMoves DEF Steady, TypeOK
  <2>3. QED  BY <2>1, <2>2 DEF IsTerminal, Terminal
<1>2. \A t \in Tasks :
        /\ Holds(t)' => Holds(t) /\ execution = t /\ retry = "off"
        /\ pc'[t] = "off" <=> pc[t] = "off"
        /\ pc'[t] = "loop" <=> pc[t] = "loop"
    BY DEF Steady, ExecutionInv, OneTaskHolds, Holds
<1>3. OneTaskHolds'
  <2>1. ASSUME NEW t \in Tasks, Holds(t)'
        PROVE  retry' = "off"
    <3>1. Holds(t) /\ execution = t /\ retry = "off"
      BY <1>2, <2>1
    <3>2. \A u \in Tasks : Holds(u) => u = t
      BY <3>1 DEF ExecutionInv, OneTaskHolds
    <3>3. QED  BY <2>1, <3>1, <3>2 DEF Steady
  <2>2. QED  BY <1>2, <2>1 DEF Steady, OneTaskHolds
<1>4. ExecutionIsAtWork'
    BY <1>2 DEF ExecutionInv, ExecutionIsAtWork, Steady, Tasks
<1>5. DecisionTakesOver'
    BY <1>2 DEF ExecutionInv, DecisionTakesOver, Steady, Pauses, Tasks
<1>6. WaitsAtRest'
  <2> SUFFICES ASSUME run'.status = "awaiting_approval", Live'
               PROVE  retry' = "off" /\ \A t \in Tasks : ~Holds(t)' /\ (pc'[t] # "off" => Pauses(t)')
    BY DEF WaitsAtRest
  <2>1. run.status = "awaiting_approval" /\ Live /\ ~IsTerminal(run')
    BY <1>1 DEF Steady
  <2>2. retry = "off" /\ \A t \in Tasks : ~Holds(t) /\ (pc[t] # "off" => Pauses(t))
    BY <2>1 DEF ExecutionInv, WaitsAtRest
  <2>3. QED  BY <1>2, <2>1, <2>2 DEF Steady, Pauses
<1>7. QueuedIsUntouched'
  <2> SUFFICES ASSUME run'.status = "queued"
               PROVE  /\ execution' = "none" /\ retry' = "off" /\ ~controller'
                      /\ \A t \in Tasks : outcome'[t].kind = "none"
    BY DEF QueuedIsUntouched
  <2>1. run.status = "queued" /\ ~IsTerminal(run')
    BY <1>1
  <2>2. \A t \in Tasks : ~Holds(t)
    BY <2>1 DEF GateInv, HaltedIsOver, Holds
  <2>3. QED  BY <2>1, <2>2 DEF Steady, ExecutionInv, QueuedIsUntouched
<1>8. retry' = "finalize" => IsTerminal(run')
    BY <1>1 DEF Steady, ExecutionInv
<1>9. continuation' => run'.status \notin {"queued", "running"}
    BY <1>1 DEF Steady, ExecutionInv
<1>10. harness' \in {"acquire", "start"} => pc'["execute"] = "loop"
    BY <1>2 DEF Steady, ExecutionInv, Tasks
<1>11. QED  BY <1>3, <1>4, <1>5, <1>6, <1>7, <1>8, <1>9, <1>10 DEF ExecutionInv

\* The end of the run, or the failure to store it, is a step of its task.
LEMMA EndsRunSteady ==
    ASSUME TypeOK, NEW t \in Tasks, NEW how, NEW facts,
           NEW next \in {"flush", "caught", "commitFailed"},
           pc[t] \in {"apply", "caught", "commitFailed"},
           EndsRun(t, how, facts, next)
    PROVE  \A u \in Tasks :
            \/ pc'[u] = pc[u]
            \/ /\ pc[u] \notin {"off", "loop"} /\ pc'[u] \notin {"off", "loop"}
               /\ Holds(u)' => Holds(u)
<1>1. \E p \in {"flush", "caught", "commitFailed", "finalize"} : Goto(t, p)
    BY DEF EndsRun
<1>2. QED  BY <1>1 DEF Goto, TypeOK, TasksOK, Holds

\* What the tasks do, unless they pause or end.
LEMMA TaskSteady ==
    ASSUME GateInv, ExecutionInv, NEW t \in Tasks,
           \/ ApplyOutcome(t) \/ Caught(t) \/ Released(t) \/ TaskFinalized(t)
           \/ CompletionCommitFails(t)
           \/ TaskFlushes(t) /\ run.status # "awaiting_approval"
    PROVE  Steady
<1>0. TypeOK /\ Quiet
    BY TaskQuiet DEF GateInv
<1>1. /\ UNCHANGED <<execution, reserved, outcome, controller>>
      /\ Live' = Live /\ harness' = harness
  <2>1. CASE ApplyOutcome(t) \/ Caught(t) \/ CompletionCommitFails(t)
    BY <2>1 DEF ApplyOutcome, Caught, CompletionCommitFails, TaskCommitKeeps,
       handleVars, harnessVars, systemVars, Live
  <2>2. CASE Released(t) \/ TaskFinalized(t)
    BY <2>2 DEF Released, TaskFinalized, TaskKeeps, handleVars, harnessVars, systemVars,
       Live
  <2>3. CASE TaskFlushes(t) /\ run.status # "awaiting_approval"
    BY <2>3 DEF TaskFlushes, harnessVars, systemVars, Live
  <2>4. QED  BY <2>1, <2>2, <2>3
<1>2. continuation' = continuation
    BY DEF ApplyOutcome, Caught, Released, TaskFinalized, CompletionCommitFails,
       TaskFlushes, TaskCommitKeeps, handleVars
<1>3. \A u \in Tasks :
            \/ pc'[u] = pc[u]
            \/ /\ pc[u] \notin {"off", "loop"} /\ pc'[u] \notin {"off", "loop"}
               /\ Holds(u)' => Holds(u)
  <2>1. CASE ApplyOutcome(t)
    <3> DEFINE next == IF outcome[t].kind = "completed" THEN "commitFailed" ELSE "caught"
    <3>1. next \in {"flush", "caught", "commitFailed"} /\ pc[t] = "apply"
      BY <2>1 DEF ApplyOutcome
    <3>2. CASE EndsRun(t, outcome[t].kind, outcome[t].facts, next)
      BY <1>0, <3>1, <3>2, EndsRunSteady
    <3>3. CASE Goto(t, "flush")
      BY <1>0, <3>1, <3>3 DEF Goto, TypeOK, TasksOK, Holds
    <3>4. QED  BY <2>1, <3>2, <3>3 DEF ApplyOutcome
  <2>2. CASE Caught(t)
    <3>1. pc[t] = "caught"
      BY <2>2 DEF Caught
    <3>2. CASE \E how : EndsRun(t, how, outcome[t].facts, "flush")
      BY <1>0, <3>1, <3>2, EndsRunSteady
    <3>3. CASE Goto(t, "flush")
      BY <1>0, <3>1, <3>3 DEF Goto, TypeOK, TasksOK, Holds
    <3>4. QED  BY <2>2, <3>2, <3>3 DEF Caught
  <2>3. CASE CompletionCommitFails(t)
    <3>1. pc[t] = "commitFailed"
      BY <2>3 DEF CompletionCommitFails
    <3>2. CASE EndsRun(t, "blocked", outcome[t].facts, "flush")
      BY <1>0, <3>1, <3>2, EndsRunSteady
    <3>3. CASE Goto(t, "flush")
      BY <1>0, <3>1, <3>3 DEF Goto, TypeOK, TasksOK, Holds
    <3>4. QED  BY <2>3, <3>2, <3>3 DEF CompletionCommitFails
  <2>4. CASE Released(t)
    BY <1>0, <2>4 DEF Released, Goto, TypeOK, TasksOK, Holds
  <2>5. CASE TaskFinalized(t)
    BY <1>0, <2>5 DEF TaskFinalized, Goto, TypeOK, TasksOK, Holds
  <2>6. CASE TaskFlushes(t) /\ run.status # "awaiting_approval"
    <3>1. pc[t] = "flush" /\ Goto(t, "check")
      BY <1>0, <2>6, FlushSteps, StillStepKeeps DEF TaskFlushes, TypeOK
    <3>2. QED  BY <1>0, <3>1 DEF Goto, TypeOK, TasksOK, Holds
  <2>7. QED  BY <2>1, <2>2, <2>3, <2>4, <2>5, <2>6
<1>4. \/ retry' = retry
      \/ /\ retry' = "timer"
         /\ \E v \in Tasks : Holds(v) /\ \A u \in Tasks : Holds(u)' => Holds(u) /\ u # v
  <2>1. CASE CompletionCommitFails(t) /\ retry' # retry
    <3>1. /\ pc[t] = "commitFailed" /\ retry' = "timer" /\ run' = run
          /\ EndsRun(t, "blocked", outcome[t].facts, "flush") /\ ~IsTerminal(run)
      BY <2>1 DEF CompletionCommitFails
    <3>2. Ended(run, "blocked", outcome[t].facts) # run
      BY <1>0, <3>1 DEF Ended, Merge, TypeOK, RunState, IsTerminal, Terminal
    <3>3. Goto(t, "flush")
      BY <3>1, <3>2 DEF EndsRun, Commit
    <3>4. Holds(t) /\ ~Holds(t)'
      BY <1>0, <3>1, <3>3 DEF Goto, Holds, TypeOK, TasksOK
    <3>5. QED  BY <1>3, <3>1, <3>4 DEF Holds
  <2>2. CASE ~CompletionCommitFails(t)
    BY <2>2 DEF ApplyOutcome, Caught, Released, TaskFinalized, TaskFlushes,
       TaskCommitKeeps, TaskKeeps, schedVars
  <2>3. QED  BY <2>1, <2>2
<1>5. QED  BY <1>0, <1>1, <1>2, <1>3, <1>4 DEF Steady, Quiet

\* Nothing of the tasks moves.
LEMMA TasksStaySteady ==
    ASSUME StillStep(run, run') \/ EndStep(run, run'), UNCHANGED taskVars,
           execution # "none" /\ controller => controller',
           run'.status = "queued" => controller' = controller,
           UNCHANGED retry, continuation' => continuation,
           Live' => Live \/ IsTerminal(run'),
           harness' \in {"acquire", "start"} => harness \in {"acquire", "start"}
    PROVE  Steady
    BY DEF Steady, taskVars

\* The entries of the harness and its tools.
LEMMA HarnessSteady ==
    ASSUME GateInv,
           \/ CommitInput \/ Respond \/ CloseRound
           \/ \E calls \in SUBSET Calls : ToolRound(calls)
           \/ \E c \in Calls : Tool(c)
    PROVE  Steady
<1>0. TypeOK
    BY DEF GateInv
<1>1. CASE CommitInput \/ Respond \/ CloseRound \/ \E calls \in SUBSET Calls : ToolRound(calls)
  <2>1. StillStep(run, run')
    BY <1>0, <1>1, CommitInputKeeps, RespondKeeps, CloseRoundKeeps, ToolRoundKeeps
  <2>2. HarnessKeeps /\ harness' \in {"model", "answered", "tools", "broken"}
    BY <1>1 DEF CommitInput, Respond, CloseRound, ToolRound, Checkpoint
  <2>3. QED  BY <2>1, <2>2, TasksStaySteady DEF HarnessKeeps, handleVars, schedVars,
       systemVars, Live
<1>2. CASE \E c \in Calls : Tool(c)
  <2>1. PICK c \in Calls : Tool(c)
    BY <1>2
  <2>2. StillStep(run, run')
    BY <1>0, <2>1, ToolGatesKeeps, ToolRefusedKeeps, ToolExecutesKeeps, ToolEndsKeeps,
       ToolPersistsKeeps DEF Tool
  <2>3. ToolKeeps
    BY <2>1 DEF Tool, ToolGates, ToolRefused, ToolExecutes, ToolEnds, ToolPersists
  <2>4. QED  BY <2>2, <2>3, TasksStaySteady DEF ToolKeeps, handleVars, schedVars,
       systemVars, Live
<1>3. QED  BY <1>1, <1>2

\* The retry of a completion.
LEMMA CompletionSteady ==
    ASSUME GateInv, ExecutionInv, Completion
    PROVE  Steady
<1>0. TypeOK /\ Quiet
    BY CompletionQuiet DEF GateInv, Completion
<1>1. retry # "off"
    BY DEF Completion, CompletionRetries, CompletionFinalized
<1>2. \A t \in Tasks : ~Holds(t)
    BY <1>1 DEF ExecutionInv, OneTaskHolds
<1>3. UNCHANGED <<taskVars, controller, continuation, harness, proc>>
    BY DEF Completion, CompletionRetries, CompletionFinalized, handleVars, harnessVars,
       systemVars
<1>4. retry' = retry \/ IsTerminal(run')
  <2>1. CASE CompletionRetries
    <3>1. Ended(run, "blocked", result).status = "blocked"
      BY <1>0 DEF Ended, Merge, TypeOK, RunState
    <3>2. QED  BY <2>1, <3>1 DEF CompletionRetries, Commit, IsTerminal, Terminal
  <2>2. CASE CompletionFinalized
    BY <2>2 DEF CompletionFinalized, ExecutionInv
  <2>3. QED  BY <2>1, <2>2 DEF Completion
<1>5. QED  BY <1>0, <1>2, <1>3, <1>4 DEF Steady, Quiet, taskVars, Holds, Live

\* The cleanup keeps the controller of an execution.
LEMMA GoesOnKeepsController ==
    ASSUME NEW cont, NEW fin, CleanupGoesOn(cont, fin)
    PROVE  execution # "none" /\ controller => controller'
    BY DEF CleanupGoesOn

LEMMA CancelSteady ==
    ASSUME GateInv, Cancel \/ SessionRestores \/ Cleanup \/ Pump \/ Recovery
    PROVE  Steady
<1>0. TypeOK /\ Quiet
    BY CancelQuiet, CleanupQuiet, PumpQuiet, RecoveryQuiet DEF GateInv, Cleanup, Pump,
       Recovery
<1>1. harness' = harness
    BY OtherCopies
<1>2. CASE Cancel
  <2>1. IsTerminal(run')
    BY <1>2 DEF Cancel, Commit, Ended, IsTerminal, Terminal
  <2>2. UNCHANGED taskVars /\ UNCHANGED retry /\ ~continuation'
    BY <1>2 DEF Cancel, schedVars
  <2>3. execution # "none" /\ controller => controller'
    BY <1>2, GoesOnKeepsController DEF Cancel
  <2>4. QED  BY <1>0, <1>1, <2>1, <2>2, <2>3, TasksStaySteady DEF Quiet, IsTerminal,
       Terminal
<1>3. CASE SessionRestores \/ Pump
    BY <1>0, <1>1, <1>3, TasksStaySteady DEF SessionRestores, Pump, PumpStarts,
       PumpFlushes, PumpSettles, PumpFinalized, PumpRetries, PumpKeeps, handleVars,
       schedVars, systemVars, Quiet, Live
<1>4. CASE Cleanup
  <2>1. IsTerminal(run) /\ run' \in RunState /\ IsTerminal(run')
    <3>1. cleanup # "off"
      BY <1>4 DEF Cleanup, CleanupReleases, CleanupFinalized, CleanupSettles,
         CleanupFlushes, CleanupChecks, CleanupRetries
    <3>2. QED  BY <1>0, <3>1, RunMoves, NextKeeps, <1>4 DEF GateInv, HaltedIsOver, Quiet, TypeOK, Next
  <2>2. execution # "none" /\ controller => controller'
    BY <1>4, GoesOnKeepsController DEF Cleanup, CleanupReleases, CleanupFinalized,
       CleanupSettles, CleanupFlushes, CleanupChecks, CleanupRetries
  <2>3. UNCHANGED <<taskVars, continuation, retry, proc>>
    BY <1>4 DEF Cleanup, CleanupReleases, CleanupFinalized, CleanupSettles,
       CleanupFlushes, CleanupChecks, CleanupRetries, CleanupKeeps, schedVars, systemVars
  <2>4. QED  BY <1>0, <1>1, <2>1, <2>2, <2>3, TasksStaySteady DEF Quiet, IsTerminal,
       Terminal, Live
<1>5. CASE Recovery
  <2>1. UNCHANGED <<taskVars, handleVars, schedVars>>
    BY <1>5 DEF Recovery, RecoverApproval, RecoverRound, RecoverRunning, Recovered,
       RecoveryKeeps
  <2>2. QED  BY <1>0, <1>1, <2>1, TasksStaySteady DEF Quiet, ScheduleStays, handleVars,
       schedVars
<1>6. QED  BY <1>2, <1>3, <1>4, <1>5

-----------------------------------------------------------------------------
(* The steps that change hands. *)

\* A task ends when it has nothing of the run in hand.
LEMMA EndsTaskKeeps ==
    ASSUME GateInv, ExecutionInv, NEW t \in Tasks,
           pc[t] \in {"flush", "check"}, ~Holds(t),
           StillStep(run, run'), EndsTask(t),
           UNCHANGED <<outcome, continuation, retry, harness, proc>>
    PROVE  ExecutionInv'
<1>0. TypeOK /\ run' \in RunState
    BY StillStepKeeps DEF GateInv, TypeOK
<1>1. /\ run'.status = run.status /\ (IsTerminal(run) <=> IsTerminal(run'))
      /\ Live' = Live /\ run.status # "queued"
    BY <1>0, StillStepKeeps DEF TypeOK, IsTerminal, Live, GateInv, HaltedIsOver
<1>2. /\ pc' = [pc EXCEPT ![t] = "off"]
      /\ controller' = (controller /\ Pauses(t))
      /\ reserved' = (reserved /\ t # "decide")
      /\ execution' = IF execution = t THEN "none" ELSE execution
    BY DEF EndsTask, Goto, Pauses
<1>3. pc'[t] = "off" /\ \A u \in Tasks \ {t} : pc'[u] = pc[u]
    BY <1>0, <1>2 DEF TypeOK, TasksOK
<1>4. OneTaskHolds'
    BY <1>2, <1>3 DEF ExecutionInv, OneTaskHolds, Holds
<1>5. DecisionTakesOver'
    BY <1>2, <1>3 DEF ExecutionInv, DecisionTakesOver, Pauses, Tasks
<1>6. ExecutionIsAtWork'
  <2> SUFFICES ASSUME NEW u \in Tasks, execution' = u
               PROVE  pc'[u] # "off" /\ controller'
    BY DEF ExecutionIsAtWork
  <2>1. execution = u /\ u # t /\ pc[u] # "off" /\ controller
    BY <1>2 DEF ExecutionInv, ExecutionIsAtWork, Tasks
  <2>2. Pauses(t)
    BY <2>1 DEF ExecutionInv, DecisionTakesOver, Tasks
  <2>3. QED  BY <1>2, <1>3, <2>1, <2>2
<1>7. WaitsAtRest' /\ QueuedIsUntouched'
    BY <1>1, <1>3 DEF ExecutionInv, WaitsAtRest, QueuedIsUntouched, Holds, Pauses
<1>8. harness' \in {"acquire", "start"} => pc'["execute"] = "loop"
    BY <1>3 DEF ExecutionInv, Tasks
<1>9. QED  BY <1>1, <1>4, <1>5, <1>6, <1>7, <1>8 DEF ExecutionInv

LEMMA TaskEnds ==
    ASSUME GateInv, ExecutionInv, NEW t \in Tasks,
           TaskSettles(t) \/ (TaskFlushes(t) /\ run.status = "awaiting_approval")
    PROVE  ExecutionInv'
<1>1. pc[t] \in {"flush", "check"} /\ EndsTask(t)
      /\ UNCHANGED <<outcome, continuation, retry, harness, proc>>
    BY DEF TaskSettles, TaskFlushes, harnessVars, systemVars
<1>2. StillStep(run, run')
    BY SettleSteps, FlushSteps DEF TaskSettles, TaskFlushes, GateInv
<1>3. QED  BY <1>1, <1>2, EndsTaskKeeps DEF Holds

\* The loop hands its outcome to the task that waits for it.
LEMMA ReturnHolds ==
    ASSUME GateInv, ExecutionInv, NEW kind \in OutcomeKind \ {"none"}, NEW facts, NEW asked,
           Returned(kind, facts, asked), run' = run,
           UNCHANGED <<controller, continuation, retry, proc>>,
           harness' \notin {"acquire", "start"}
    PROVE  ExecutionInv'
<1>0. TypeOK
    BY DEF GateInv
<1>1. \A t \in Tasks :
        \/ /\ pc[t] = "loop" /\ pc'[t] \in {"apply", "caught"}
           /\ outcome'[t].kind = kind
        \/ pc'[t] = pc[t] /\ pc[t] # "loop" /\ outcome'[t] = outcome[t]
    BY DEF Returned
<1>2. UNCHANGED <<execution, reserved>> /\ Live' = Live
    BY DEF Returned, Live
<1>3. \A t \in Tasks : (Holds(t)' <=> Holds(t)) /\ (pc'[t] = "off" <=> pc[t] = "off")
    BY <1>1 DEF Holds
<1>4. OneTaskHolds' /\ ExecutionIsAtWork'
    BY <1>2, <1>3 DEF ExecutionInv, OneTaskHolds, ExecutionIsAtWork
<1>5. DecisionTakesOver'
  <2>1. pc["execute"] = "loop" => execution = "execute"
    BY DEF ExecutionInv, OneTaskHolds, Holds, Tasks
  <2>2. QED
    BY <1>1, <1>2, <1>3, <2>1 DEF ExecutionInv, DecisionTakesOver, Pauses, Tasks, OutcomeKind
<1>6. WaitsAtRest'
    BY <1>1, <1>2, <1>3 DEF ExecutionInv, WaitsAtRest, Pauses, Holds
<1>7. QueuedIsUntouched'
  <2>1. run.status = "queued" => \A t \in Tasks : pc[t] = "off"
    BY DEF GateInv, HaltedIsOver
  <2>2. QED  BY <1>1, <1>2, <2>1 DEF ExecutionInv, QueuedIsUntouched
<1>8. QED  BY <1>4, <1>5, <1>6, <1>7 DEF ExecutionInv

LEMMA HarnessHolds ==
    ASSUME GateInv, ExecutionInv, Acquire \/ CaptureStart \/ HarnessStops \/ Pause
    PROVE  ExecutionInv'
<1>0. TypeOK
    BY DEF GateInv
<1>1. CASE HarnessStops \/ Pause
  <2>1. /\ run' = run /\ UNCHANGED <<controller, continuation, retry, proc>>
        /\ harness' \notin {"acquire", "start"}
        /\ \E kind \in OutcomeKind \ {"none"}, asked \in {{}, pending} :
                Returned(kind, result, asked)
    BY <1>1 DEF HarnessStops, Pause, OutcomeKind, handleVars, schedVars, systemVars,
       harnessVars
  <2>2. QED  BY <2>1, ReturnHolds
<1>2. CASE Acquire
  <2>1. run' = run /\ UNCHANGED <<controller, continuation, retry, proc>>
        /\ harness = "acquire" /\ StillStep(run, run')
    BY <1>0, <1>2, AcquireKeeps DEF Acquire, handleVars, schedVars, systemVars
  <2>2. CASE UNCHANGED taskVars
    <3>1. Steady
      BY <2>1, <2>2, TasksStaySteady DEF Live
    <3>2. QED  BY <3>1, SteadyKeeps
  <2>3. CASE harness' = "off" /\ \E kind \in {"cancelled", "failed"} : Returned(kind, NoFacts, {})
    <3>1. PICK kind \in {"cancelled", "failed"} : Returned(kind, NoFacts, {})
      BY <2>3
    <3>2. kind \in OutcomeKind \ {"none"}
      BY <3>1 DEF OutcomeKind
    <3>3. QED  BY <2>1, <2>3, <3>1, <3>2, ReturnHolds
  <2>4. QED  BY <1>2, <2>2, <2>3 DEF Acquire
<1>3. CASE CaptureStart
  <2>1. /\ StillStep(run, run') /\ harness = "start" /\ run.status # "queued"
        /\ UNCHANGED <<controller, continuation, retry, proc, reserved, execution, outcome>>
    BY <1>0, <1>3, CaptureStartKeeps DEF CaptureStart, handleVars, schedVars, systemVars,
       taskVars, GateInv, HaltedIsOver
  <2>2. CASE UNCHANGED <<taskVars, harness>>
    <3>1. Steady
      BY <2>1, <2>2, TasksStaySteady DEF Live
    <3>2. QED  BY <3>1, SteadyKeeps
  <2>3. CASE harness' = "off" /\ Goto("execute", "caught")
    <3>1. pc["execute"] = "loop" /\ pc'["execute"] = "caught" /\ pc'["decide"] = pc["decide"]
      BY <1>0, <2>1, <2>3 DEF ExecutionInv, Goto, TypeOK, TasksOK, Tasks
    <3>2. \A t \in Tasks : (Holds(t)' <=> Holds(t)) /\ (pc'[t] = "off" <=> pc[t] = "off")
      BY <3>1 DEF Holds, Tasks
    <3>3. run'.status = run.status /\ Live' = Live
      BY <1>0, <2>1, StillStepKeeps DEF TypeOK, Live
    <3>4. OneTaskHolds' /\ ExecutionIsAtWork'
      BY <2>1, <3>2 DEF ExecutionInv, OneTaskHolds, ExecutionIsAtWork
    <3>5. DecisionTakesOver'
      BY <2>1, <3>1, <3>2 DEF ExecutionInv, DecisionTakesOver, Pauses, Tasks
    <3>6. WaitsAtRest' /\ QueuedIsUntouched'
      BY <2>1, <3>2, <3>3 DEF ExecutionInv, WaitsAtRest, QueuedIsUntouched, Pauses
    <3>7. QED  BY <2>1, <2>3, <3>3, <3>4, <3>5, <3>6 DEF ExecutionInv, IsTerminal
  <2>4. QED  BY <1>3, <2>2, <2>3 DEF CaptureStart
<1>4. QED  BY <1>1, <1>2, <1>3

\* The queued run starts.
LEMMA StartHolds ==
    ASSUME GateInv, ExecutionInv, StartRun
    PROVE  ExecutionInv'
<1>0. TypeOK
    BY DEF GateInv
<1>1. /\ run.status = "queued" /\ run'.status = "running" /\ ~IsTerminal(run')
      /\ pc' = [pc EXCEPT !["execute"] = "loop"] /\ execution' = "execute" /\ controller'
      /\ UNCHANGED <<outcome, retry, continuation>>
    BY <1>0 DEF StartRun, Commit, Start, Goto, schedVars, TypeOK, RunState, IsTerminal,
       Terminal
<1>2. /\ \A t \in Tasks : pc[t] = "off" /\ outcome[t].kind = "none"
      /\ retry = "off" /\ ~continuation
    BY <1>1 DEF GateInv, HaltedIsOver, ExecutionInv, QueuedIsUntouched
<1>3. pc'["execute"] = "loop" /\ pc'["decide"] = "off"
    BY <1>0, <1>1, <1>2 DEF TypeOK, TasksOK, Tasks
<1>4. OneTaskHolds' /\ ExecutionIsAtWork' /\ DecisionTakesOver'
    BY <1>1, <1>2, <1>3 DEF OneTaskHolds, ExecutionIsAtWork, DecisionTakesOver, Holds,
       Tasks
<1>5. WaitsAtRest' /\ QueuedIsUntouched'
    BY <1>1 DEF WaitsAtRest, QueuedIsUntouched
<1>6. QED  BY <1>1, <1>2, <1>3, <1>4, <1>5 DEF ExecutionInv

\* A task admits its pause, or releases the loop.
LEMMA PauseHolds ==
    ASSUME GateInv, ExecutionInv, NEW t \in Tasks, ApplyPause(t)
    PROVE  ExecutionInv'
<1>0. TypeOK
    BY DEF GateInv
<1>1. /\ pc[t] = "apply" /\ Pauses(t) /\ Holds(t)
      /\ UNCHANGED <<outcome, harness, proc, retry>>
    BY DEF ApplyPause, Pauses, Holds, systemVars
<1>2. /\ execution = t /\ retry = "off" /\ controller
      /\ \A u \in Tasks \ {t} : ~Holds(u)
      /\ Live /\ run.status \notin {"queued", "awaiting_approval"}
    BY <1>1 DEF ExecutionInv, OneTaskHolds, ExecutionIsAtWork, GateInv, HaltedIsOver,
       OneTaskInLoop
<1>3. \A u \in Tasks \ {t} : pc[u] # "off" => Pauses(u)
    BY <1>2 DEF ExecutionInv, DecisionTakesOver, Tasks
<1>4. CASE /\ run' = run /\ \E p \in {"releaseOk", "releaseErr"} : Goto(t, p)
           /\ UNCHANGED <<continuation, execution, reserved, controller>>
  <2>1. StillStep(run, run')
    BY <1>4 DEF StillStep
  <2>2. \A u \in Tasks :
            \/ pc'[u] = pc[u]
            \/ /\ pc[u] \notin {"off", "loop"} /\ pc'[u] \notin {"off", "loop"}
               /\ Holds(u)' => Holds(u)
    BY <1>0, <1>1, <1>4 DEF Goto, TypeOK, TasksOK
  <2>3. Steady
    BY <1>1, <1>4, <2>1, <2>2 DEF Steady, Live
  <2>4. QED  BY <2>3, SteadyKeeps
<1>5. CASE /\ ~IsTerminal(run) /\ run' = Paused(run, outcome[t].facts, outcome[t].requests)
           /\ \/ EndsTask(t)
              \/ Goto(t, "flush") /\ UNCHANGED <<execution, reserved, controller>>
  <2>1. run'.status = "awaiting_approval" /\ ~IsTerminal(run')
    BY <1>0, <1>5 DEF Paused, Merge, TypeOK, RunState, IsTerminal, Terminal
  <2>2. /\ pc'[t] \in {"off", "flush"} /\ \A u \in Tasks \ {t} : pc'[u] = pc[u]
        /\ controller'
        /\ \/ pc'[t] = "off" /\ execution' = "none" /\ reserved' = (reserved /\ t # "decide")
           \/ pc'[t] = "flush" /\ execution' = t /\ reserved' = reserved
    BY <1>0, <1>1, <1>2, <1>5 DEF EndsTask, Goto, Pauses, TypeOK, TasksOK
  <2>3. \A u \in Tasks : ~Holds(u)' /\ (pc'[u] # "off" => Pauses(u)')
    BY <1>1, <1>2, <1>3, <2>2 DEF Holds, Pauses
  <2>4. OneTaskHolds' /\ ExecutionIsAtWork'
    BY <2>2, <2>3 DEF OneTaskHolds, ExecutionIsAtWork, Tasks
  <2>5. DecisionTakesOver'
    BY <1>1, <1>2, <2>2, <2>3 DEF ExecutionInv, DecisionTakesOver, Tasks
  <2>6. WaitsAtRest' /\ QueuedIsUntouched'
    BY <1>1, <1>2, <2>1, <2>3 DEF WaitsAtRest, QueuedIsUntouched
  <2>7. harness' \in {"acquire", "start"} => pc'["execute"] = "loop"
    <3>1. harness \notin {"acquire", "start"}
      BY <1>1, <1>2 DEF ExecutionInv, OneTaskHolds, Holds, Tasks
    <3>2. QED  BY <1>1, <3>1
  <2>8. QED  BY <1>1, <1>2, <2>1, <2>4, <2>5, <2>6, <2>7 DEF ExecutionInv
<1>6. QED  BY <1>4, <1>5 DEF ApplyPause, Throws, Commit

\* A decision takes the run over.
LEMMA DecideHolds ==
    ASSUME GateInv, ExecutionInv, NEW c \in Calls, NEW d \in {"approve_once", "reject"},
           DecideApproval(c, d)
    PROVE  ExecutionInv'
<1>0. TypeOK
    BY DEF GateInv
<1>1. /\ Live /\ run.status = "awaiting_approval" /\ ~reserved
      /\ execution' = "decide" /\ reserved' /\ controller' /\ ~continuation'
      /\ pc' = [pc EXCEPT !["decide"] = "loop"]
      /\ outcome' = [outcome EXCEPT !["decide"] = NoOutcome]
      /\ UNCHANGED <<harness, retry>>
    BY DEF DecideApproval, CanDecide, Goto, schedVars
<1>2. run'.status = "running"
    BY <1>0 DEF DecideApproval, Commit, Decided, TypeOK, RunState
<1>3. retry = "off" /\ \A t \in Tasks : ~Holds(t) /\ (pc[t] # "off" => Pauses(t))
    BY <1>1 DEF ExecutionInv, WaitsAtRest
<1>4. /\ pc'["decide"] = "loop" /\ pc'["execute"] = pc["execute"]
      /\ outcome'["execute"] = outcome["execute"]
    BY <1>0, <1>1 DEF TypeOK, TasksOK, Tasks
<1>5. OneTaskHolds' /\ ExecutionIsAtWork'
    BY <1>1, <1>3, <1>4 DEF OneTaskHolds, ExecutionIsAtWork, Holds, Tasks
<1>6. DecisionTakesOver'
    BY <1>1, <1>3, <1>4 DEF DecisionTakesOver, Pauses, Tasks
<1>7. WaitsAtRest' /\ QueuedIsUntouched'
    BY <1>2 DEF WaitsAtRest, QueuedIsUntouched
<1>8. harness' \in {"acquire", "start"} => pc'["execute"] = "loop"
    BY <1>1, <1>3, <1>4 DEF ExecutionInv, Holds, Tasks
<1>9. QED  BY <1>1, <1>3, <1>5, <1>6, <1>7, <1>8 DEF ExecutionInv

\* Every step hands the run over in order.
LEMMA ExecutionSteps ==
    ASSUME GateInv, ExecutionInv, [Next]_vars
    PROVE  ExecutionInv'
<1>1. CASE StartRun
    BY <1>1, StartHolds
<1>2. CASE Harness
    BY <1>2, HarnessHolds, HarnessSteady, SteadyKeeps DEF Harness
<1>3. CASE \E c \in Calls : Tool(c)
    BY <1>3, HarnessSteady, SteadyKeeps
<1>4. CASE \E t \in Tasks : Task(t)
    BY <1>4, PauseHolds, TaskEnds, TaskSteady, SteadyKeeps DEF Task
<1>5. CASE Completion \/ Cleanup \/ Pump \/ Recovery \/ SessionRestores
    BY <1>5, CompletionSteady, CancelSteady, SteadyKeeps
<1>6. CASE User
    BY <1>6, CancelSteady, DecideHolds, SteadyKeeps DEF User
<1>7. CASE Crash
    BY <1>7 DEF Crash, ExecutionInv, OneTaskHolds, ExecutionIsAtWork, DecisionTakesOver,
       WaitsAtRest, QueuedIsUntouched, Holds, Live, Tasks, NoOutcome
<1>8. CASE UNCHANGED vars
    BY <1>8 DEF vars, taskVars, handleVars, harnessVars, schedVars, systemVars,
       ExecutionInv, OneTaskHolds, ExecutionIsAtWork, DecisionTakesOver, WaitsAtRest,
       QueuedIsUntouched, Holds, Pauses, Live, IsTerminal
<1>9. QED  BY <1>1, <1>2, <1>3, <1>4, <1>5, <1>6, <1>7, <1>8 DEF Next

\* ExecutionInv holds of every reachable state, for any set of calls and any bounds.
THEOREM ExecutionInvariant == Spec => []ExecutionInv
<1>1. Init => ExecutionInv
    BY DEF Init, InitialRun, NoOutcome, ExecutionInv, OneTaskHolds, ExecutionIsAtWork,
       DecisionTakesOver, WaitsAtRest, QueuedIsUntouched, Holds, Tasks
<1>2. GateInv /\ ExecutionInv /\ [Next]_vars => ExecutionInv'
    BY ExecutionSteps
<1>3. QED  BY <1>1, <1>2, GateInvariant, PTL DEF Spec

-----------------------------------------------------------------------------
(* What a task knows when it is through with a run that is still running. *)

\* No end of the run can be stored with the facts of the outcome.
Contradicted(t) == ~CanMerge(run, outcome[t].facts)

\* The outcome says of a call that it waits, and it is going to be refused.
Unanswered(t) ==
    \E c \in Calls :
        /\ outcome[t].facts[c] = "approval"
        /\ tool[c] = "gated" \/ (tool[c] = "persisting" /\ result[c] # "approval")

OutcomeBooks(t) ==
    /\ pc[t] = "apply" /\ Pauses(t) =>
          /\ outcome[t].requests # {}
          /\ \A c \in outcome[t].requests : outcome[t].facts[c] = "approval"
    /\ pc[t] = "releaseOk" => IsTerminal(run)
    /\ pc[t] = "releaseErr" /\ run.status = "running" =>
          faults > 0 \/ Contradicted(t) \/ Unanswered(t)
    /\ pc[t] = "caught" /\ run.status = "running" => faults > 0 \/ Contradicted(t)
    /\ pc[t] \in {"flush", "check"} /\ execution = t /\ run.status = "running" =>
          retry # "off" \/ faults > 1 \/ Contradicted(t)

\* All of it: inductive (with GateInv, CallInv and ExecutionInv).
OutcomeInv == RunningIsExecuted /\ \A t \in Tasks : OutcomeBooks(t)

\* A contradiction is one with a final fact.
LEMMA ContradictionIsFinal ==
    ASSUME TypeOK, NEW facts \in Facts
    PROVE  ~CanMerge(run, facts) <=>
            \E c \in Calls : run.fact[c] \in FinalFact /\ facts[c] \notin {"none", run.fact[c]}
<1>1. \A c \in Calls : /\ run.fact[c] \in {"none", "approval"} \cup FinalFact
                       /\ facts[c] \in {"none", "approval"} \cup FinalFact
    BY DEF TypeOK, RunState, Facts, Fact
<1>2. QED  BY <1>1 DEF CanMerge, Compatible, FinalFact

\* So it stands.
LEMMA ContradictionStands ==
    ASSUME TypeOK, TypeOK', KeepsFinal(run, run'), NEW facts \in Facts,
           ~CanMerge(run, facts)
    PROVE  ~CanMerge(run', facts)
<1>1. PICK c \in Calls : run.fact[c] \in FinalFact /\ facts[c] \notin {"none", run.fact[c]}
    BY ContradictionIsFinal
<1>2. run'.fact[c] = run.fact[c]
    BY <1>1 DEF KeepsFinal
<1>3. QED  BY <1>1, <1>2 DEF CanMerge, Compatible, FinalFact

\* A run that is running was running, and a response that is retried still is.
Running ==
    run'.status = "running" =>
        /\ run.status = "running"
        /\ retry # "off" => retry' # "off"

LEMMA SteadyRuns ==
    ASSUME GateInv, ExecutionInv, Steady
    PROVE  Running
<1>1. run'.status = "running" => run.status = "running" /\ ~IsTerminal(run')
    BY RunMoves DEF Steady, GateInv, TypeOK, IsTerminal, Terminal
<1>2. QED  BY <1>1 DEF Steady, Running

\* A task that the step leaves alone.
LEMMA RestsKeep ==
    ASSUME TypeOK, TypeOK', KeepsFinal(run, run'), FaultsGrow, Running,
           NEW t \in Tasks, OutcomeBooks(t),
           pc'[t] = pc[t], outcome'[t] = outcome[t], execution' = t => execution = t,
           pc[t] = "releaseErr" /\ Unanswered(t) /\ run'.status = "running" =>
                Unanswered(t)' \/ faults' > 0 \/ Contradicted(t)'
    PROVE  OutcomeBooks(t)'
<1>0. faults \in Nat /\ outcome[t].facts \in Facts
    BY FaultGrows DEF TypeOK, TasksOK
<1>1. (faults > 0 => faults' > 0) /\ (faults > 1 => faults' > 1)
    BY <1>0 DEF FaultsGrow
<1>2. Contradicted(t) => Contradicted(t)'
    BY <1>0, ContradictionStands DEF Contradicted
<1>3. IsTerminal(run) => IsTerminal(run')
    BY DEF KeepsFinal, IsTerminal
<1>4. Pauses(t)' = Pauses(t)
    BY DEF Pauses
<1>5. QED  BY <1>1, <1>2, <1>3, <1>4 DEF OutcomeBooks, Running

\* A task that has nothing in hand after the step.
LEMMA IdleKeeps ==
    ASSUME NEW t, pc'[t] \notin {"apply", "releaseOk", "releaseErr", "caught"},
           pc'[t] \in {"flush", "check"} => execution' # t
    PROVE  OutcomeBooks(t)'
    BY DEF OutcomeBooks

\* The run goes on being executed, or left behind.
LEMMA ExecutedKeeps ==
    ASSUME TypeOK, TypeOK', KeepsFinal(run, run'), FaultsGrow, Running,
           RunningIsExecuted, UNCHANGED outcome,
           execution # "none" => execution' # "none",
           run'.status = "running" /\ Live' => Live
    PROVE  RunningIsExecuted'
<1>0. faults \in Nat /\ LastOutcome.facts \in Facts
    BY FaultGrows DEF TypeOK, TasksOK, LastOutcome, Tasks
<1>1. faults > 1 => faults' > 1
    BY <1>0 DEF FaultsGrow
<1>2. LastOutcome' = LastOutcome
    BY DEF LastOutcome
<1>3. ~CanMerge(run, LastOutcome.facts) => ~CanMerge(run', LastOutcome.facts)
    BY <1>0, ContradictionStands
<1>4. QED  BY <1>1, <1>2, <1>3 DEF RunningIsExecuted, Running

\* A steady step, as far as it leaves the tasks alone.
LEMMA SteadyExecuted ==
    ASSUME GateInv, ExecutionInv, TypeOK', KeepsFinal(run, run'), FaultsGrow, Steady,
           RunningIsExecuted
    PROVE  RunningIsExecuted'
<1>1. run'.status = "running" /\ Live' => Live
    BY DEF Steady, IsTerminal, Terminal
<1>2. QED  BY <1>1, SteadyRuns, ExecutedKeeps DEF Steady, GateInv

LEMMA ToolsStayRests ==
    ASSUME GateInv, ExecutionInv, TypeOK', KeepsFinal(run, run'), FaultsGrow, Steady,
           UNCHANGED <<tool, result>>, NEW t \in Tasks, OutcomeBooks(t), pc'[t] = pc[t]
    PROVE  OutcomeBooks(t)'
<1>1. Unanswered(t) => Unanswered(t)'
    BY DEF Unanswered, Steady
<1>2. QED  BY <1>1, SteadyRuns, RestsKeep DEF Steady, GateInv

\* A refusal that comes in contradicts the pause that said the call waits.
LEMMA ToolAnswers ==
    ASSUME GateInv, CallInv, TypeOK', NEW c \in Calls, Tool(c), NEW t \in Tasks,
           run'.status = "running", run.status = "running", Unanswered(t), outcome' = outcome
    PROVE  Unanswered(t)' \/ faults' > 0 \/ Contradicted(t)'
<1>0. TypeOK /\ faults \in Nat
    BY FaultGrows DEF GateInv
<1>1. PICK k \in Calls :
        /\ outcome[t].facts[k] = "approval"
        /\ tool[k] = "gated" \/ (tool[k] = "persisting" /\ result[k] # "approval")
    BY DEF Unanswered
<1>2. CASE tool'[k] = tool[k] /\ result'[k] = result[k]
    BY <1>1, <1>2 DEF Unanswered
<1>3. CASE ToolRefused(c) /\ k = c
  <2>1. tool[c] = "gated"
    BY <1>1, <1>3 DEF ToolRefused
  <2>2. Remembers(c, "refused")
    BY <2>1 DEF CallInv, ResultBooks, Remembers, Early
  <2>3. tool'[c] = "persisting" /\ result'[c] = "refused"
    BY <1>0, <1>3, <2>2 DEF ToolRefused, Returns, TypeOK, HarnessOK, Facts
  <2>4. QED  BY <1>1, <1>3, <2>3 DEF Unanswered
<1>4. CASE ToolPersists(c) /\ k = c
  <2>1. /\ tool[c] = "persisting" /\ result[c] \in {"refused", "reported"}
        /\ ~Disowned(c)
    BY <1>1, <1>4 DEF ToolPersists, CallInv, ResultBooks, Disowned
  <2>2. CASE run' = Merge(run, OneFact(c, result[c]))
    <3>1. run'.fact[c] = result[c]
      BY <1>0, <2>1, <2>2 DEF Merge, OneFact, NoFacts, TypeOK, RunState
    <3>2. QED  BY <1>1, <1>4, <2>1, <3>1 DEF Contradicted, CanMerge, Compatible, FinalFact
  <2>3. CASE run' = run /\ (Fault \/ ~Compatible(run.fact[c], result[c]))
    <3>1. CASE Fault
      BY <1>0, <3>1 DEF Fault
    <3>2. CASE ~Compatible(run.fact[c], result[c])
      <4>1. run.fact[c] \in FinalFact
        BY <1>0, <2>1, <3>2 DEF Compatible, FinalFact, TypeOK, RunState, Facts, Fact
      <4>2. QED
        BY <1>1, <1>4, <2>3, <4>1 DEF Contradicted, CanMerge, Compatible, FinalFact
    <3>3. QED  BY <2>3, <3>1, <3>2
  <2>4. QED  BY <1>4, <2>1, <2>2, <2>3 DEF ToolPersists, Throws, Commit
<1>5. QED
  <2>1. CASE k # c
    <3>1. tool'[k] = tool[k] /\ result'[k] = result[k]
      BY <1>0, <2>1 DEF Tool, ToolGates, ToolRefused, ToolExecutes, ToolEnds,
         ToolPersists, Returns, TypeOK, HarnessOK, Facts
    <3>2. QED  BY <1>2, <3>1
  <2>2. CASE k = c
    BY <1>1, <1>3, <1>4, <2>2 DEF Tool, ToolGates, ToolExecutes, ToolEnds
  <2>3. QED  BY <2>1, <2>2

\* The entries of the harness and its tools.
LEMMA HarnessOutcome ==
    ASSUME GateInv, CallInv, ExecutionInv, OutcomeInv,
           TypeOK', KeepsFinal(run, run'), FaultsGrow,
           \/ CommitInput \/ Respond \/ CloseRound
           \/ \E calls \in SUBSET Calls : ToolRound(calls)
           \/ \E c \in Calls : Tool(c)
    PROVE  OutcomeInv'
<1>1. Steady /\ UNCHANGED taskVars
    BY HarnessSteady DEF CommitInput, Respond, CloseRound, ToolRound, HarnessKeeps, Tool,
       ToolGates, ToolRefused, ToolExecutes, ToolEnds, ToolPersists, ToolKeeps
<1>2. Running
    BY <1>1, SteadyRuns
<1>3. ASSUME NEW t \in Tasks, Unanswered(t), run'.status = "running"
      PROVE  Unanswered(t)' \/ faults' > 0 \/ Contradicted(t)'
  <2>1. CASE \E c \in Calls : Tool(c)
    BY <1>1, <1>2, <1>3, <2>1, ToolAnswers DEF Running, taskVars
  <2>2. CASE CommitInput \/ Respond
    BY <1>1, <1>3, <2>2 DEF CommitInput, Respond, Unanswered, taskVars
  <2>3. CASE CloseRound \/ \E calls \in SUBSET Calls : ToolRound(calls)
    <3>1. result' = result /\ \A c \in Calls :
                tool'[c] = tool[c] \/ tool[c] \in {"unused", "delivered"}
      BY <2>3 DEF CloseRound, ToolRound, RoundCalls
    <3>2. QED  BY <1>1, <1>3, <3>1 DEF Unanswered, taskVars
  <2>4. QED  BY <2>1, <2>2, <2>3
<1>4. \A t \in Tasks : OutcomeBooks(t)'
    BY <1>1, <1>2, <1>3, RestsKeep DEF OutcomeInv, taskVars, GateInv
<1>5. QED  BY <1>1, <1>4, SteadyExecuted DEF OutcomeInv

\* What leaves the tasks and the tools alone.
LEMMA OtherOutcome ==
    ASSUME GateInv, ExecutionInv, OutcomeInv,
           TypeOK', KeepsFinal(run, run'), FaultsGrow,
           Completion \/ Cancel \/ SessionRestores \/ Cleanup \/ Pump \/ Recovery
    PROVE  OutcomeInv'
<1>1. Steady
    BY CompletionSteady, CancelSteady
<1>2. ToolsStay
    BY CompletionQuiet, CancelQuiet, CleanupQuiet, PumpQuiet, RecoveryQuiet DEF Quiet,
       Completion, Cleanup, Pump, Recovery
<1>3. UNCHANGED taskVars
    BY DEF Completion, CompletionRetries, CompletionFinalized, Cancel, SessionRestores,
       Cleanup, CleanupReleases, CleanupFinalized, CleanupSettles, CleanupFlushes,
       CleanupChecks, CleanupRetries, CleanupKeeps, Pump, PumpStarts, PumpFlushes,
       PumpSettles, PumpFinalized, PumpRetries, PumpKeeps, Recovery, RecoverApproval,
       RecoverRound, RecoverRunning, Recovered, RecoveryKeeps
<1>4. \A t \in Tasks : OutcomeBooks(t)'
    BY <1>1, <1>2, <1>3, ToolsStayRests DEF OutcomeInv, ToolsStay, taskVars
<1>5. QED  BY <1>1, <1>4, SteadyExecuted DEF OutcomeInv

\* An end of the run that is not stored: the write failed, or the outcome contradicts
\* the record.
LEMMA EndIsRefused ==
    ASSUME GateInv, NEW t \in Tasks, NEW how \in {"cancelled", "failed"}, NEW next,
           EndsRun(t, how, outcome[t].facts, next), run'.status = "running"
    PROVE  /\ run' = run /\ Goto(t, next)
           /\ Contradicted(t) \/ faults' = faults + 1
<1>1. Ended(run, how, outcome[t].facts).status = how
    BY DEF Ended, Merge, GateInv, TypeOK, RunState
<1>2. /\ Throws(CanEnd(run, how, outcome[t].facts)) /\ Goto(t, next)
    BY <1>1 DEF EndsRun, Commit
<1>3. QED  BY <1>2 DEF Throws, Fault, CanEnd, MayEnd, Contradicted

\* What the tasks do, unless they pause or end.
LEMMA TaskOutcome ==
    ASSUME GateInv, CallInv, ExecutionInv, OutcomeInv,
           TypeOK', KeepsFinal(run, run'), FaultsGrow, NEW t \in Tasks,
           \/ ApplyOutcome(t) \/ Caught(t) \/ Released(t) \/ TaskFinalized(t)
           \/ CompletionCommitFails(t)
           \/ TaskFlushes(t) /\ run.status # "awaiting_approval"
    PROVE  OutcomeInv'
<1>0. TypeOK /\ faults \in Nat /\ outcome[t].facts \in Facts
    BY FaultGrows DEF GateInv, TypeOK, TasksOK
<1>1. Steady /\ ToolsStay
    BY TaskSteady, TaskQuiet DEF Quiet
<1>2. \E p \in TaskPc : Goto(t, p)
    BY DEF ApplyOutcome, Caught, Released, TaskFinalized, CompletionCommitFails,
       TaskFlushes, EndsTask, EndsRun, TaskPc
<1>3. \A u \in Tasks \ {t} : pc'[u] = pc[u]
    BY <1>0, <1>2 DEF Goto, TypeOK, TasksOK
<1>4. \A u \in Tasks \ {t} : OutcomeBooks(u)'
    BY <1>1, <1>3, ToolsStayRests DEF OutcomeInv, ToolsStay
<1>5. /\ Running /\ outcome' = outcome /\ execution' = execution
      /\ run'.status = "running" => ~IsTerminal(run)
      /\ OutcomeBooks(t)
    BY <1>1, SteadyRuns DEF Steady, OutcomeInv, Running, IsTerminal, Terminal
<1>6. /\ Contradicted(t) => Contradicted(t)'
      /\ faults > 0 => faults' > 0
      /\ faults > 1 => faults' > 1
    BY <1>0, <1>5, ContradictionStands DEF Contradicted, FaultsGrow
<1>7. OutcomeBooks(t)'
  <2>1. CASE run'.status # "running"
    <3>1. pc'[t] \notin {"apply", "releaseOk"}
      BY <1>0 DEF ApplyOutcome, Caught, Released, TaskFinalized, CompletionCommitFails,
         TaskFlushes, EndsTask, EndsRun, Goto, TypeOK, TasksOK
    <3>2. QED  BY <2>1, <3>1 DEF OutcomeBooks
  <2>2. CASE ApplyOutcome(t) /\ run'.status = "running"
    <3>1. /\ ~IsTerminal(run) /\ outcome[t].kind \in {"completed", "cancelled", "failed"}
          /\ EndsRun(t, outcome[t].kind, outcome[t].facts,
                     IF outcome[t].kind = "completed" THEN "commitFailed" ELSE "caught")
      BY <1>5, <2>2 DEF ApplyOutcome
    <3>2. CASE outcome[t].kind = "completed"
      <4>1. Ended(run, "completed", outcome[t].facts).status = "completed"
        BY <1>0 DEF Ended, Merge, TypeOK, RunState
      <4>2. pc'[t] = "commitFailed"
        BY <1>0, <2>2, <3>1, <3>2, <4>1 DEF EndsRun, Commit, Goto, TypeOK, TasksOK
      <4>3. QED  BY <4>2 DEF OutcomeBooks
    <3>3. CASE outcome[t].kind # "completed"
      <4>1. Goto(t, "caught") /\ (Contradicted(t) \/ faults' = faults + 1)
        BY <2>2, <3>1, <3>3, EndIsRefused
      <4>2. pc'[t] = "caught" /\ (Contradicted(t)' \/ faults' > 0)
        BY <1>0, <1>6, <4>1 DEF Goto, TypeOK, TasksOK
      <4>3. QED  BY <4>2 DEF OutcomeBooks
    <3>4. QED  BY <3>2, <3>3
  <2>3. CASE Caught(t) /\ run'.status = "running"
    <3>1. /\ pc[t] = "caught" /\ ~IsTerminal(run)
          /\ \E how \in {"cancelled", "failed"} : EndsRun(t, how, outcome[t].facts, "flush")
      BY <1>5, <2>3 DEF Caught
    <3>2. Goto(t, "flush") /\ (Contradicted(t) \/ faults' = faults + 1)
      BY <2>3, <3>1, EndIsRefused
    <3>3. faults > 0 \/ Contradicted(t)
      BY <1>5, <2>3, <3>1 DEF OutcomeBooks, Running
    <3>4. pc'[t] = "flush" /\ (Contradicted(t)' \/ faults' > 1)
      BY <1>0, <1>6, <3>2, <3>3 DEF Goto, TypeOK, TasksOK
    <3>5. QED  BY <3>4 DEF OutcomeBooks
  <2>4. CASE Released(t) /\ run'.status = "running"
    <3>1. pc[t] = "releaseErr" /\ pc'[t] = "caught" /\ harness = "off"
      BY <1>0, <1>5, <2>4 DEF Released, OutcomeBooks, Goto, TypeOK, TasksOK
    <3>2. ~Unanswered(t)
      BY <3>1 DEF CallInv, ToolsAtRest, AtRest, Unanswered
    <3>3. faults > 0 \/ Contradicted(t)
      BY <1>5, <2>4, <3>1, <3>2 DEF OutcomeBooks, Running
    <3>4. QED  BY <1>6, <3>1, <3>3 DEF OutcomeBooks
  <2>5. CASE TaskFinalized(t) /\ run'.status = "running"
    BY <1>5, <2>5 DEF TaskFinalized, GateInv, HaltedIsOver
  <2>6. CASE CompletionCommitFails(t) /\ run'.status = "running"
    <3>1. Ended(run, "blocked", outcome[t].facts).status = "blocked"
      BY <1>0 DEF Ended, Merge, TypeOK, RunState
    <3>2. run' = run /\ retry' = "timer" /\ Goto(t, "flush")
      BY <1>5, <2>6, <3>1 DEF CompletionCommitFails, EndsRun, Commit, Throws
    <3>3. pc'[t] = "flush" /\ retry' # "off"
      BY <1>0, <3>2 DEF Goto, TypeOK, TasksOK
    <3>4. QED  BY <3>3 DEF OutcomeBooks
  <2>7. CASE TaskFlushes(t) /\ run.status # "awaiting_approval" /\ run'.status = "running"
    <3>1. pc[t] = "flush" /\ pc'[t] = "check"
      BY <1>0, <2>7 DEF TaskFlushes, Goto, TypeOK, TasksOK
    <3>2. execution = t => retry # "off" \/ faults > 1 \/ Contradicted(t)
      BY <1>5, <2>7, <3>1 DEF OutcomeBooks, Running
    <3>3. QED  BY <1>5, <1>6, <2>7, <3>1, <3>2 DEF OutcomeBooks, Running
  <2>8. QED  BY <2>1, <2>2, <2>3, <2>4, <2>5, <2>6, <2>7
<1>8. QED  BY <1>1, <1>4, <1>7, SteadyExecuted DEF OutcomeInv

\* A task ends.
LEMMA EndsOutcome ==
    ASSUME GateInv, CallInv, ExecutionInv, OutcomeInv,
           TypeOK', KeepsFinal(run, run'), FaultsGrow, NEW t \in Tasks,
           TaskSettles(t) \/ (TaskFlushes(t) /\ run.status = "awaiting_approval")
    PROVE  OutcomeInv'
<1>0. TypeOK /\ faults \in Nat /\ outcome[t].facts \in Facts
    BY FaultGrows DEF GateInv, TypeOK, TasksOK
<1>1. /\ pc[t] \in {"flush", "check"} /\ EndsTask(t)
      /\ UNCHANGED <<outcome, retry, tool, result, proc>>
      /\ pc[t] = "check" \/ run.status = "awaiting_approval"
    BY DEF TaskSettles, TaskFlushes, harnessVars, systemVars
<1>2. run'.status = run.status
    BY <1>0, SettleSteps, FlushSteps, StillStepKeeps DEF TaskSettles, TaskFlushes, TypeOK
<1>3. /\ pc'[t] = "off" /\ \A u \in Tasks \ {t} : pc'[u] = pc[u]
      /\ execution' = IF execution = t THEN "none" ELSE execution
    BY <1>0, <1>1 DEF EndsTask, Goto, TypeOK, TasksOK
<1>4. Running
    BY <1>1, <1>2 DEF Running
<1>5. \A u \in Tasks : OutcomeBooks(u)'
  <2>1. OutcomeBooks(t)'
    BY <1>3, IdleKeeps
  <2>2. ASSUME NEW u \in Tasks \ {t}
        PROVE  OutcomeBooks(u)'
    <3>1. Unanswered(u) => Unanswered(u)'
      BY <1>1 DEF Unanswered
    <3>2. OutcomeBooks(u) /\ pc'[u] = pc[u] /\ outcome'[u] = outcome[u]
          /\ (execution' = u => execution = u)
      BY <1>1, <1>3 DEF OutcomeInv, Tasks
    <3>3. QED  BY <1>0, <1>4, <3>1, <3>2, RestsKeep
  <2>3. QED  BY <2>1, <2>2
<1>6. RunningIsExecuted'
  <2>1. CASE execution # t
    BY <1>0, <1>1, <1>3, <1>4, <2>1, ExecutedKeeps DEF OutcomeInv, Live
  <2>2. CASE execution = t /\ run'.status = "running"
    <3>1. retry # "off" \/ faults > 1 \/ Contradicted(t)
      BY <1>1, <1>2, <2>2 DEF OutcomeInv, OutcomeBooks
    <3>2. LastOutcome' = outcome[t]
      BY <1>1, <1>2, <2>2 DEF ExecutionInv, DecisionTakesOver, LastOutcome, Tasks
    <3>3. Contradicted(t) => ~CanMerge(run', LastOutcome'.facts)
      BY <1>0, <3>2, ContradictionStands DEF Contradicted
    <3>4. QED  BY <1>0, <1>1, <3>1, <3>3 DEF RunningIsExecuted, FaultsGrow
  <2>3. QED  BY <2>1, <2>2 DEF RunningIsExecuted
<1>7. QED  BY <1>5, <1>6 DEF OutcomeInv

\* The loop hands its outcome to the task that waits for it.
LEMMA ReturnOutcome ==
    ASSUME GateInv, CallInv, ExecutionInv, OutcomeInv,
           TypeOK', KeepsFinal(run, run'), FaultsGrow,
           NEW kind \in OutcomeKind \ {"none"}, NEW facts \in {result, NoFacts}, NEW asked,
           Returned(kind, facts, asked), run' = run, UNCHANGED <<tool, result, retry, proc>>,
           kind = "approval_required" => facts = result /\ asked = pending /\ pending # {}
    PROVE  OutcomeInv'
<1>0. TypeOK
    BY DEF GateInv
<1>1. \A t \in Tasks :
        \/ /\ pc[t] = "loop"
           /\ outcome'[t] = [kind |-> kind, facts |-> facts, requests |-> asked]
           /\ \/ pc'[t] = "apply"
              \/ pc'[t] = "caught" /\ \E c \in Calls : ~Remembers(c, facts[c])
        \/ pc[t] # "loop" /\ pc'[t] = pc[t] /\ outcome'[t] = outcome[t]
    BY DEF Returned
<1>2. execution' = execution /\ Running
    BY DEF Returned, Running
<1>3. ASSUME NEW t \in Tasks, pc[t] = "loop"
      PROVE  OutcomeBooks(t)'
  <2>1. outcome'[t].kind = kind /\ outcome'[t].facts = facts /\ outcome'[t].requests = asked
    BY <1>1, <1>3
  <2>2. CASE pc'[t] = "apply"
    <3>1. \A c \in pending : c \in Calls /\ result[c] = "approval"
      BY <1>0 DEF TypeOK, HarnessOK, GateInv, GateIsClosed, CallInv, ResultBooks
    <3>2. QED  BY <2>1, <2>2, <3>1 DEF OutcomeBooks, Pauses
  <2>3. CASE pc'[t] = "caught" /\ \E c \in Calls : ~Remembers(c, facts[c])
    <3>1. PICK c \in Calls : ~Remembers(c, facts[c])
      BY <2>3
    <3>2. facts = result
      BY <3>1 DEF Remembers, NoFacts
    <3>3. /\ result[c] = "unaccepted"
          /\ faults > 0 \/ (run.fact[c] \in FinalFact /\ run.fact[c] # "unaccepted")
      BY <3>1, <3>2 DEF CallInv, MismatchBooks, Clashes
    <3>4. faults' > 0 \/ Contradicted(t)'
      <4>1. CASE faults > 0
        BY <1>0, <4>1, FaultGrows DEF FaultsGrow
      <4>2. CASE run.fact[c] \in FinalFact /\ run.fact[c] # "unaccepted"
        BY <2>1, <3>2, <3>3, <4>2 DEF Contradicted, CanMerge, Compatible, FinalFact
      <4>3. QED  BY <3>3, <4>1, <4>2
    <3>5. QED  BY <2>3, <3>4 DEF OutcomeBooks
  <2>4. QED  BY <1>1, <1>3, <2>2, <2>3
<1>4. ASSUME NEW t \in Tasks, pc[t] # "loop"
      PROVE  OutcomeBooks(t)'
  <2>1. Unanswered(t) => Unanswered(t)'
    BY <1>1, <1>4 DEF Unanswered
  <2>2. OutcomeBooks(t) /\ pc'[t] = pc[t] /\ outcome'[t] = outcome[t]
    BY <1>1, <1>4 DEF OutcomeInv
  <2>3. QED  BY <1>0, <1>2, <2>1, <2>2, RestsKeep
<1>5. RunningIsExecuted'
  <2>1. CASE \E t \in Tasks : pc[t] = "loop"
    <3>1. execution # "none"
      BY <2>1 DEF ExecutionInv, OneTaskHolds, Holds, Tasks
    <3>2. QED  BY <1>2, <3>1 DEF RunningIsExecuted
  <2>2. CASE \A t \in Tasks : pc[t] # "loop"
    <3>1. outcome' = outcome
      BY <1>0, <1>1, <2>2 DEF Returned, TypeOK, TasksOK
    <3>2. QED  BY <1>0, <1>2, <3>1, ExecutedKeeps DEF OutcomeInv, Live
  <2>3. QED  BY <2>1, <2>2
<1>6. QED  BY <1>3, <1>4, <1>5 DEF OutcomeInv

\* The start leaf is stored, or its failure is caught.
LEMMA CaptureOutcome ==
    ASSUME GateInv, CallInv, ExecutionInv, OutcomeInv,
           TypeOK', KeepsFinal(run, run'), FaultsGrow, CaptureStart
    PROVE  OutcomeInv'
<1>0. TypeOK /\ faults \in Nat
    BY FaultGrows DEF GateInv
<1>1. /\ UNCHANGED <<tool, result, retry, proc, outcome, execution, continuation>>
      /\ harness = "start" /\ pc["execute"] = "loop" /\ execution = "execute"
      /\ run'.status = run.status
    BY <1>0, CaptureStartKeeps, StillStepKeeps DEF CaptureStart, ExecutionInv,
       OneTaskHolds, Holds, Tasks, TypeOK, taskVars, schedVars, systemVars, handleVars
<1>2. Running /\ RunningIsExecuted'
    BY <1>1 DEF Running, RunningIsExecuted
<1>3. ASSUME NEW t \in Tasks, pc'[t] = pc[t]
      PROVE  OutcomeBooks(t)'
  <2>1. Unanswered(t) => Unanswered(t)'
    BY <1>1 DEF Unanswered
  <2>2. QED  BY <1>0, <1>1, <1>2, <1>3, <2>1, RestsKeep DEF OutcomeInv
<1>4. CASE UNCHANGED taskVars
    BY <1>2, <1>3, <1>4 DEF OutcomeInv, taskVars
<1>5. CASE Goto("execute", "caught") /\ Throws(CanCaptureStart(run))
  <2>1. pc'["execute"] = "caught" /\ pc'["decide"] = pc["decide"]
    BY <1>0, <1>5 DEF Goto, TypeOK, TasksOK, Tasks
  <2>2. run'.status = "running" => faults' > 0
    BY <1>0, <1>1, <1>5 DEF Throws, Fault, CaptureStart, CanCaptureStart, MayCheckpoint
  <2>3. OutcomeBooks("execute")'
    BY <2>1, <2>2 DEF OutcomeBooks
  <2>4. OutcomeBooks("decide")'
    BY <1>3, <2>1 DEF Tasks
  <2>5. QED  BY <1>2, <2>3, <2>4 DEF OutcomeInv, Tasks
<1>6. QED  BY <1>4, <1>5 DEF CaptureStart

\* A task admits its pause, or releases the loop: then a call that was to wait is going
\* to be refused.
LEMMA PauseOutcome ==
    ASSUME GateInv, CallInv, ExecutionInv, OutcomeInv,
           TypeOK', KeepsFinal(run, run'), FaultsGrow, NEW t \in Tasks, ApplyPause(t)
    PROVE  OutcomeInv'
<1>0. TypeOK /\ faults \in Nat
    BY FaultGrows DEF GateInv
<1>1. /\ pc[t] = "apply" /\ Pauses(t) /\ Holds(t)
      /\ UNCHANGED <<outcome, tool, result, retry, proc>>
    BY DEF ApplyPause, Pauses, Holds, systemVars
<1>2. /\ execution = t /\ run.status # "awaiting_approval"
      /\ \A u \in Tasks \ {t} : ~Holds(u)
    BY <1>1 DEF ExecutionInv, OneTaskHolds, GateInv, HaltedIsOver, OneTaskInLoop
<1>3. \A p \in TaskPc : Goto(t, p) => pc'[t] = p /\ \A u \in Tasks \ {t} : pc'[u] = pc[u]
    BY <1>0 DEF Goto, TypeOK, TasksOK
<1>4. CASE /\ run' = run /\ execution' = execution
           /\ \/ Goto(t, "releaseOk") /\ IsTerminal(run)
              \/ /\ Goto(t, "releaseErr") /\ ~IsTerminal(run)
  <2>1. Running /\ RunningIsExecuted'
    BY <1>1, <1>2, <1>4 DEF Running, RunningIsExecuted, Tasks
  <2>2. ASSUME NEW u \in Tasks \ {t}
        PROVE  OutcomeBooks(u)'
    BY <1>2, <1>3, <1>4, IdleKeeps DEF Holds, TaskPc
  <2>3. OutcomeBooks(t)'
    <3>1. CASE Goto(t, "releaseOk") /\ IsTerminal(run)
      BY <1>3, <1>4, <3>1 DEF OutcomeBooks, TaskPc, IsTerminal
    <3>2. CASE Goto(t, "releaseErr") /\ ~IsTerminal(run)
      <4>1. /\ outcome[t].requests # {} /\ outcome[t].requests \subseteq pending
            /\ \A c \in outcome[t].requests : outcome[t].facts[c] = "approval"
        BY <1>1, <3>2 DEF OutcomeInv, OutcomeBooks, GateInv, OneTaskInLoop, Pauses
      <4>2. \A c \in pending : c \in Calls /\ tool[c] = "gated"
        BY <1>0 DEF TypeOK, HarnessOK, GateInv, GateIsClosed
      <4>3. Unanswered(t)'
        BY <1>1, <4>1, <4>2 DEF Unanswered
      <4>4. pc'[t] = "releaseErr"
        BY <1>3, <3>2 DEF TaskPc
      <4>5. QED  BY <4>3, <4>4 DEF OutcomeBooks
    <3>3. QED  BY <1>4, <3>1, <3>2
  <2>4. QED  BY <2>1, <2>2, <2>3 DEF OutcomeInv
<1>5. CASE /\ run' = Paused(run, outcome[t].facts, outcome[t].requests)
           /\ EndsTask(t) \/ (Goto(t, "flush") /\ execution' = execution)
  <2>1. run'.status = "awaiting_approval"
    BY <1>0, <1>5 DEF Paused, Merge, TypeOK, RunState
  <2>2. pc'[t] \in {"off", "flush"} /\ \A u \in Tasks \ {t} : pc'[u] = pc[u]
    BY <1>3, <1>5 DEF EndsTask, TaskPc
  <2>3. \A u \in Tasks : OutcomeBooks(u)'
    BY <1>2, <2>1, <2>2 DEF OutcomeBooks, Holds
  <2>4. QED  BY <2>1, <2>3 DEF OutcomeInv, RunningIsExecuted
<1>6. QED  BY <1>4, <1>5 DEF ApplyPause, Throws, Commit

\* The run starts, is taken over by a decision, or is lost with the process.
LEMMA HandsOutcome ==
    ASSUME GateInv, ExecutionInv, OutcomeInv,
           \/ StartRun \/ Crash
           \/ \E c \in Calls, d \in {"approve_once", "reject"} : DecideApproval(c, d)
    PROVE  OutcomeInv'
<1>0. TypeOK
    BY DEF GateInv
<1>1. CASE StartRun
  <2>1. execution' = "execute" /\ pc' = [pc EXCEPT !["execute"] = "loop"]
        /\ \A t \in Tasks : pc[t] = "off"
    BY <1>1 DEF StartRun, Goto, GateInv, HaltedIsOver
  <2>2. \A t \in Tasks : pc'[t] \in {"off", "loop"}
    BY <1>0, <2>1 DEF TypeOK, TasksOK, Tasks
  <2>3. QED  BY <2>1, <2>2, IdleKeeps DEF OutcomeInv, RunningIsExecuted
<1>2. CASE Crash
  <2>1. ~Live' /\ \A t \in Tasks : pc'[t] = "off"
    BY <1>2 DEF Crash, Live
  <2>2. QED  BY <2>1, IdleKeeps DEF OutcomeInv, RunningIsExecuted
<1>3. CASE \E c \in Calls, d \in {"approve_once", "reject"} : DecideApproval(c, d)
  <2>1. /\ Live /\ run.status = "awaiting_approval"
        /\ execution' = "decide" /\ pc' = [pc EXCEPT !["decide"] = "loop"]
    BY <1>3 DEF DecideApproval, CanDecide, Goto
  <2>2. \A t \in Tasks : ~Holds(t)
    BY <2>1 DEF ExecutionInv, WaitsAtRest
  <2>3. pc'["decide"] = "loop" /\ pc'["execute"] = pc["execute"]
    BY <1>0, <2>1 DEF TypeOK, TasksOK, Tasks
  <2>4. \A t \in Tasks : OutcomeBooks(t)'
    BY <2>1, <2>2, <2>3, IdleKeeps DEF Holds, Tasks
  <2>5. QED  BY <2>1, <2>4 DEF OutcomeInv, RunningIsExecuted
<1>4. QED  BY <1>1, <1>2, <1>3

LEMMA HarnessReturns ==
    ASSUME GateInv, CallInv, ExecutionInv, OutcomeInv,
           TypeOK', KeepsFinal(run, run'), FaultsGrow, Acquire \/ HarnessStops \/ Pause
    PROVE  OutcomeInv'
<1>0. TypeOK
    BY DEF GateInv
<1>1. run' = run /\ UNCHANGED <<tool, result, retry, proc>>
    BY DEF Acquire, HarnessStops, Pause, schedVars, systemVars, harnessVars
<1>2. CASE HarnessStops
  <2>1. \E kind \in OutcomeKind \ {"none", "approval_required"} : Returned(kind, result, {})
    BY <1>2 DEF HarnessStops, OutcomeKind
  <2>2. QED  BY <1>1, <2>1, ReturnOutcome
<1>3. CASE Pause
  <2>1. Returned("approval_required", result, pending) /\ pending # {}
        /\ "approval_required" \in OutcomeKind \ {"none"}
    BY <1>3 DEF Pause, OutcomeKind
  <2>2. QED  BY <1>1, <2>1, ReturnOutcome
<1>4. CASE Acquire
  <2>1. CASE UNCHANGED taskVars
    <3>1. /\ harness = "acquire" /\ StillStep(run, run')
          /\ UNCHANGED <<controller, continuation, proc>>
      BY <1>0, <1>1, <1>4, AcquireKeeps DEF Acquire, handleVars, systemVars
    <3>2. Steady
      BY <1>1, <2>1, <3>1, TasksStaySteady DEF Live
    <3>3. \A t \in Tasks : OutcomeBooks(t)'
      BY <1>1, <2>1, <3>2, ToolsStayRests DEF OutcomeInv, taskVars
    <3>4. QED  BY <3>2, <3>3, SteadyExecuted DEF OutcomeInv
  <2>2. CASE \E kind \in {"cancelled", "failed"} : Returned(kind, NoFacts, {})
    <3>1. PICK kind \in {"cancelled", "failed"} : Returned(kind, NoFacts, {})
      BY <2>2
    <3>2. kind \in OutcomeKind \ {"none"} /\ kind # "approval_required"
      BY <3>1 DEF OutcomeKind
    <3>3. QED  BY <1>1, <3>1, <3>2, ReturnOutcome
  <2>3. QED  BY <1>4, <2>1, <2>2 DEF Acquire
<1>5. QED  BY <1>2, <1>3, <1>4

\* Every step keeps the books of the outcomes.
LEMMA OutcomeSteps ==
    ASSUME GateInv, CallInv, ExecutionInv, OutcomeInv, [Next]_vars
    PROVE  OutcomeInv'
<1>0. TypeOK' /\ KeepsFinal(run, run') /\ FaultsGrow
    BY NextKeeps, SnapshotStepKeeps, FaultSteps DEF GateInv, TypeOK
<1>1. CASE StartRun \/ Crash
    BY <1>1, HandsOutcome
<1>2. CASE Harness
    BY <1>0, <1>2, HarnessReturns, CaptureOutcome, HarnessOutcome DEF Harness
<1>3. CASE \E c \in Calls : Tool(c)
    BY <1>0, <1>3, HarnessOutcome
<1>4. CASE \E t \in Tasks : Task(t)
    BY <1>0, <1>4, PauseOutcome, EndsOutcome, TaskOutcome DEF Task
<1>5. CASE Completion \/ Cleanup \/ Pump \/ Recovery \/ SessionRestores
    BY <1>0, <1>5, OtherOutcome
<1>6. CASE User
    BY <1>0, <1>6, OtherOutcome, HandsOutcome DEF User
<1>7. CASE UNCHANGED vars
  <2>1. UNCHANGED <<run, faults, tool, result, pc, outcome, execution, retry, proc>>
    BY <1>7 DEF vars, taskVars, harnessVars, schedVars, systemVars
  <2>2. \A t \in Tasks : OutcomeBooks(t) => OutcomeBooks(t)'
    BY <2>1 DEF OutcomeBooks, Pauses, Contradicted, Unanswered
  <2>3. RunningIsExecuted'
    BY <2>1 DEF OutcomeInv, RunningIsExecuted, Live, LastOutcome
  <2>4. QED  BY <2>2, <2>3 DEF OutcomeInv
<1>8. QED  BY <1>1, <1>2, <1>3, <1>4, <1>5, <1>6, <1>7 DEF Next

\* OutcomeInv holds of every reachable state, for any set of calls and any bounds.
THEOREM OutcomeInvariant == Spec => []OutcomeInv
<1>1. Init => OutcomeInv
    BY DEF Init, InitialRun, OutcomeInv, RunningIsExecuted, OutcomeBooks
<1>2. GateInv /\ CallInv /\ ExecutionInv /\ OutcomeInv /\ [Next]_vars => OutcomeInv'
    BY OutcomeSteps
<1>3. QED  BY <1>1, <1>2, GateInvariant, CallInvariant, ExecutionInvariant, PTL DEF Spec

\* A run that is running is being executed, its response waits to be stored, or two
\* writes failed or the last outcome contradicts the record (runExecution, its catch
\* block and handleCompletedCommitFailure).
THEOREM RunningHasItsExecution == Spec => []RunningIsExecuted
<1>1. OutcomeInv => RunningIsExecuted
    BY DEF OutcomeInv
<1>2. QED  BY <1>1, OutcomeInvariant, PTL

-----------------------------------------------------------------------------
(* What a cancel leaves to the cleanup. *)

\* The steps that move the status of a run.
LEMMA StatusMoves ==
    ASSUME TypeOK, [Next]_vars, run'.status # run.status
    PROVE  \/ StartRun \/ Cancel \/ CompletionRetries \/ RecoverApproval \/ RecoverRunning
           \/ \E c \in Calls, d \in {"approve_once", "reject"} : DecideApproval(c, d)
           \/ \E t \in Tasks :
                ApplyPause(t) \/ ApplyOutcome(t) \/ Caught(t) \/ CompletionCommitFails(t)
<1>0. StillStep(run, run') => run'.status = run.status
    BY StillStepKeeps DEF TypeOK
<1>1. CASE Harness
    BY <1>0, <1>1, AcquireKeeps, CaptureStartKeeps, CommitInputKeeps, ToolRoundKeeps,
       RespondKeeps, CloseRoundKeeps, HarnessStopsKeeps, PauseKeeps DEF Harness
<1>2. CASE \E c \in Calls : Tool(c)
    BY <1>0, <1>2, ToolGatesKeeps, ToolRefusedKeeps, ToolExecutesKeeps, ToolEndsKeeps,
       ToolPersistsKeeps DEF Tool
<1>3. CASE \E t \in Tasks : Task(t)
    BY <1>0, <1>3, ReleasedKeeps, TaskFinalizedKeeps, TaskFlushesKeeps, TaskSettlesKeeps
       DEF Task
<1>4. CASE Cleanup
    BY <1>0, <1>4, CleanupReleasesKeeps, CleanupFinalizedKeeps, CleanupSettlesKeeps,
       CleanupFlushesKeeps, CleanupChecksKeeps, CleanupRetriesKeeps DEF Cleanup
<1>5. CASE Pump
    BY <1>0, <1>5, PumpStartsKeeps, PumpFlushesKeeps, PumpSettlesKeeps,
       PumpFinalizedKeeps, PumpRetriesKeeps DEF Pump
<1>6. CASE Completion \/ SessionRestores \/ Crash \/ Recovery
    BY <1>0, <1>6, CompletionFinalizedKeeps, SessionRestoresKeeps, CrashKeeps,
       RecoverRoundKeeps, RecoveredKeeps DEF Completion, Recovery
<1>7. CASE UNCHANGED vars
    BY <1>7 DEF vars
<1>8. QED  BY <1>1, <1>2, <1>3, <1>4, <1>5, <1>6, <1>7 DEF Next, User

\* A continuation belongs to a run that waits.
ContinuationWaits == continuation => Live /\ ~IsTerminal(run)

\* A cleanup that has a continuation to release has not gone on yet.
ReleaseComesFirst == cleanupCont => cleanup \in {"release", "timer"}

\* The pump settles only runs that ended without a cancel.
PumpSettlesEnds == pump \in {"flush", "check"} => IsTerminal(run) /\ run.status # "cancelled"

\* Nothing is said of a call of a run that is queued.
QueuedIsSilent ==
    run.status = "queued" =>
        Live /\ \A c \in Calls : \A f \in Noted(c) \cup {run.fact[c]} : f = "none"

\* All of it: inductive (with GateInv, CallInv and ExecutionInv).
CleanupInv == ContinuationWaits /\ ReleaseComesFirst /\ PumpSettlesEnds /\ QueuedIsSilent

\* What makes a continuation, and what becomes of one.
LEMMA ContinuationMoves ==
    ASSUME GateInv, [Next]_vars, continuation'
    PROVE  (\E t \in Tasks : ApplyPause(t)) \/ (continuation /\ ~Cancel /\ (Live => Live'))
<1>1. CASE StartRun \/ Harness \/ \E c \in Calls : Tool(c)
    BY <1>1 DEF StartRun, Harness, Acquire, CaptureStart, CommitInput, ToolRound, Respond,
       CloseRound, HarnessStops, Pause, HarnessKeeps, Tool, ToolGates, ToolRefused,
       ToolExecutes, ToolEnds, ToolPersists, ToolKeeps, handleVars, systemVars, Live, Cancel
<1>2. CASE \E t \in Tasks : Task(t)
    BY <1>2 DEF Task, ApplyOutcome, Released, Caught, CompletionCommitFails,
       TaskFinalized, TaskFlushes, TaskSettles, TaskCommitKeeps, TaskKeeps, handleVars,
       systemVars, Live, Cancel
<1>3. CASE Completion \/ SessionRestores \/ Cleanup \/ Pump
    BY <1>3 DEF Completion, CompletionRetries, CompletionFinalized, SessionRestores,
       Cleanup, CleanupReleases, CleanupFinalized, CleanupSettles, CleanupFlushes,
       CleanupChecks, CleanupRetries, CleanupKeeps, Pump, PumpStarts, PumpFlushes,
       PumpSettles, PumpFinalized, PumpRetries, PumpKeeps, handleVars, systemVars, Live, Cancel
<1>4. CASE User \/ Crash
    BY <1>4 DEF User, Cancel, DecideApproval, Crash
<1>5. CASE Recovery
    BY <1>5 DEF Recovery, RecoverApproval, RecoverRound, RecoverRunning, Recovered,
       RecoveryKeeps, handleVars, Live, Cancel
<1>6. CASE UNCHANGED vars
    BY <1>6 DEF vars, handleVars, systemVars, Live, Cancel
<1>7. QED  BY <1>1, <1>2, <1>3, <1>4, <1>5, <1>6 DEF Next

LEMMA ContinuationStays ==
    ASSUME GateInv, ExecutionInv, ContinuationWaits, [Next]_vars
    PROVE  ContinuationWaits'
<1> SUFFICES ASSUME continuation'
             PROVE  Live' /\ ~IsTerminal(run')
    BY DEF ContinuationWaits
<1>0. TypeOK
    BY DEF GateInv
<1>1. CASE \E t \in Tasks : ApplyPause(t) /\ continuation' /\ ~continuation
  <2>1. PICK t \in Tasks : ApplyPause(t) /\ continuation' /\ ~continuation
    BY <1>1
  <2>2. /\ pc[t] = "apply" /\ UNCHANGED proc
        /\ run' = Paused(run, outcome[t].facts, outcome[t].requests)
    BY <2>1 DEF ApplyPause, Commit, systemVars
  <2>3. run'.status = "awaiting_approval"
    BY <1>0, <2>2 DEF Paused, Merge, TypeOK, RunState
  <2>4. Live
    BY <2>2 DEF GateInv, HaltedIsOver
  <2>5. QED  BY <2>2, <2>3, <2>4 DEF Live, IsTerminal, Terminal
<1>2. CASE continuation
  <2>1. Live /\ run.status = "awaiting_approval"
    BY <1>0, <1>2 DEF ContinuationWaits, ExecutionInv, TypeOK, RunState, Status,
       IsTerminal, Terminal
  <2>2. retry = "off" /\ \A t \in Tasks : ~Holds(t)
    BY <2>1 DEF ExecutionInv, WaitsAtRest
  <2>3. ~\E t \in Tasks : ApplyPause(t)
    BY <2>2 DEF ApplyPause, Holds
  <2>4. ~Cancel /\ Live'
    BY <2>1, <2>3, ContinuationMoves
  <2>5. CASE run'.status # run.status
    BY <1>0, <2>1, <2>2, <2>4, <2>5, StatusMoves DEF StartRun, DecideApproval,
       CompletionRetries, RecoverApproval, RecoverRunning, ApplyPause, ApplyOutcome,
       Caught, CompletionCommitFails, Holds, Live
  <2>6. CASE run'.status = run.status
    BY <2>1, <2>4, <2>6 DEF IsTerminal, Terminal
  <2>7. QED  BY <2>5, <2>6
<1>3. QED  BY <1>1, <1>2, ContinuationMoves

LEMMA ReleaseStaysFirst ==
    ASSUME GateInv, ContinuationWaits, ReleaseComesFirst, [Next]_vars
    PROVE  ReleaseComesFirst'
<1>1. CASE StartRun \/ Harness \/ \E c \in Calls : Tool(c)
    BY <1>1 DEF StartRun, Harness, Acquire, CaptureStart, CommitInput, ToolRound, Respond,
       CloseRound, HarnessStops, Pause, HarnessKeeps, Tool, ToolGates, ToolRefused,
       ToolExecutes, ToolEnds, ToolPersists, ToolKeeps, cleanupVars, ReleaseComesFirst
<1>2. CASE \E t \in Tasks : Task(t)
    BY <1>2 DEF Task, ApplyPause, ApplyOutcome, Released, Caught, CompletionCommitFails,
       TaskFinalized, TaskFlushes, TaskSettles, TaskCommitKeeps, TaskKeeps, cleanupVars,
       ReleaseComesFirst
<1>3. CASE Completion \/ SessionRestores \/ Pump \/ Recovery \/ UNCHANGED vars
    BY <1>3 DEF Completion, CompletionRetries, CompletionFinalized, SessionRestores,
       Pump, PumpStarts, PumpFlushes, PumpSettles, PumpFinalized, PumpRetries, PumpKeeps,
       Recovery, RecoverApproval, RecoverRound, RecoverRunning, Recovered,
       RecoveryKeeps, cleanupVars, vars, ReleaseComesFirst
<1>4. CASE Cleanup
    BY <1>4 DEF Cleanup, CleanupReleases, CleanupFinalized, CleanupSettles,
       CleanupFlushes, CleanupChecks, CleanupRetries, CleanupGoesOn, cleanupVars,
       ReleaseComesFirst
<1>5. CASE Cancel
  <2>1. cleanup \notin {"off", "timer"} => ~continuation
    BY DEF GateInv, HaltedIsOver, ContinuationWaits
  <2>2. QED  BY <1>5, <2>1 DEF Cancel, CleanupGoesOn, ReleaseComesFirst
<1>6. CASE Crash \/ \E c \in Calls, d \in {"approve_once", "reject"} : DecideApproval(c, d)
    BY <1>6 DEF Crash, DecideApproval, cleanupVars, ReleaseComesFirst
<1>7. QED  BY <1>1, <1>2, <1>3, <1>4, <1>5, <1>6 DEF Next, User

\* The pump goes to work on what it finds.
LEMMA PumpMoves ==
    ASSUME [Next]_vars, pump' \in {"flush", "check"}
    PROVE  pump \in {"flush", "check"} \/ (pump = "due" /\ SettlementBlocked /\ run' = run)
<1>1. CASE StartRun \/ Harness \/ \E c \in Calls : Tool(c)
    BY <1>1 DEF StartRun, Harness, Acquire, CaptureStart, CommitInput, ToolRound, Respond,
       CloseRound, HarnessStops, Pause, HarnessKeeps, Tool, ToolGates, ToolRefused,
       ToolExecutes, ToolEnds, ToolPersists, ToolKeeps, schedVars
<1>2. CASE \E t \in Tasks : Task(t)
    BY <1>2 DEF Task, ApplyPause, ApplyOutcome, Released, Caught, CompletionCommitFails,
       TaskFinalized, TaskFlushes, TaskSettles, TaskCommitKeeps, TaskKeeps, schedVars,
       EndsTask, Awaken
<1>3. CASE Completion \/ SessionRestores \/ Recovery \/ UNCHANGED vars \/ Crash \/ User
    BY <1>3 DEF Completion, CompletionRetries, CompletionFinalized, SessionRestores,
       Recovery, RecoverApproval, RecoverRound, RecoverRunning, Recovered,
       RecoveryKeeps, schedVars, vars, Crash, User, Cancel, DecideApproval, Awaken
<1>4. CASE Cleanup
    BY <1>4 DEF Cleanup, CleanupReleases, CleanupFinalized, CleanupSettles,
       CleanupFlushes, CleanupChecks, CleanupRetries, schedVars, Awaken
<1>5. CASE Pump
    BY <1>5 DEF Pump, PumpStarts, PumpFlushes, PumpSettles, PumpFinalized, PumpRetries
<1>6. QED  BY <1>1, <1>2, <1>3, <1>4, <1>5 DEF Next

\* A run that stays queued is left alone.
LEMMA QueuedStays ==
    ASSUME GateInv, CallInv, ExecutionInv, CleanupInv, [Next]_vars, run'.status = "queued"
    PROVE  /\ run.status = "queued" /\ Live' = Live
           /\ UNCHANGED <<run, accepted, tool, result, outcome>>
<1>0. TypeOK
    BY DEF GateInv
<1>1. run.status = "queued"
  <2>1. SnapshotStep(run, run')
    BY <1>0, NextKeeps
  <2>2. CASE StillStep(run, run') \/ EndStep(run, run')
    BY <1>0, <2>2, RunMoves DEF TypeOK
  <2>3. ~Started(run, run')
    BY <1>0 DEF Started, Start, TypeOK, RunState
  <2>4. ~PauseStep(run, run')
    <3>1. \A facts, asked : Paused(run, facts, asked).status = "awaiting_approval"
      BY <1>0 DEF Paused, Merge, TypeOK, RunState
    <3>2. QED  BY <3>1 DEF PauseStep
  <2>5. ~DecideStep(run, run')
    <3>1. \A c, d : Decided(run, c, d).status = "running"
      BY <1>0 DEF Decided, TypeOK, RunState
    <3>2. QED  BY <3>1 DEF DecideStep
  <2>6. QED  BY <2>1, <2>2, <2>3, <2>4, <2>5 DEF SnapshotStep
<1>2. /\ Live /\ harness = "off" /\ cleanup = "off" /\ retry = "off"
      /\ pump \notin {"flush", "check", "finalize"}
      /\ \A t \in Tasks : pc[t] = "off"
      /\ \A c \in Calls : AtRest(c)
    BY <1>1 DEF CleanupInv, QueuedIsSilent, PumpSettlesEnds, GateInv, HaltedIsOver,
       IsTerminal, Terminal, ExecutionInv, QueuedIsUntouched, CallInv, ToolsAtRest
<1>3. ~StartRun
    BY <1>0 DEF StartRun, Commit, Start, TypeOK, RunState
<1>4. ~Harness
    BY <1>2 DEF Harness, Acquire, CaptureStart, CommitInput, ToolRound, Respond,
       CloseRound, HarnessStops, Pause
<1>5. ~\E c \in Calls : Tool(c)
    BY <1>2 DEF Tool, ToolGates, ToolRefused, ToolExecutes, ToolEnds, ToolPersists, AtRest
<1>6. ~\E t \in Tasks : Task(t)
    BY <1>2 DEF Task, ApplyPause, ApplyOutcome, Released, Caught, CompletionCommitFails,
       TaskFinalized, TaskFlushes, TaskSettles
<1>7. ~Completion /\ ~Cleanup /\ ~Recovery /\ ~Crash
    BY <1>1, <1>2 DEF Completion, CompletionRetries, CompletionFinalized, Cleanup,
       CleanupReleases, CleanupFinalized, CleanupSettles, CleanupFlushes, CleanupChecks,
       CleanupRetries, Recovery, RecoverApproval, RecoverRound, RecoverRunning,
       Recovered, Crash, Live
<1>8. ~User
  <2>1. ~Cancel
    BY <1>0, <1>1 DEF Cancel, Commit, Ended, Merge, TypeOK, RunState, IsTerminal, Terminal
  <2>2. QED  BY <1>1, <2>1 DEF User, DecideApproval, CanDecide
<1>9. SessionRestores \/ Pump \/ UNCHANGED vars
    BY <1>3, <1>4, <1>5, <1>6, <1>7, <1>8 DEF Next
<1>10. QED
    BY <1>1, <1>2, <1>9 DEF SessionRestores, Pump, PumpStarts, PumpFlushes, PumpSettles,
       PumpFinalized, PumpRetries, PumpKeeps, vars, taskVars, harnessVars, systemVars, Live

LEMMA CleanupSteps ==
    ASSUME GateInv, CallInv, ExecutionInv, CleanupInv, [Next]_vars
    PROVE  CleanupInv'
<1>0. KeepsFinal(run, run') /\ TypeOK
    BY NextKeeps, SnapshotStepKeeps DEF GateInv, TypeOK
<1>1. ContinuationWaits' /\ ReleaseComesFirst'
    BY ContinuationStays, ReleaseStaysFirst DEF CleanupInv
<1>2. PumpSettlesEnds'
    BY <1>0, PumpMoves DEF CleanupInv, PumpSettlesEnds, KeepsFinal, SettlementBlocked,
       IsTerminal
<1>3. QueuedIsSilent'
  <2>1. UNCHANGED <<accepted, result, outcome>> => \A c \in Calls : Noted(c)' = Noted(c)
    BY DEF Noted
  <2>2. QED  BY <2>1, QueuedStays DEF CleanupInv, QueuedIsSilent
<1>4. QED  BY <1>1, <1>2, <1>3 DEF CleanupInv

-----------------------------------------------------------------------------
(* Where the harness is, and the Session and the tasks with it. *)

\* A harness at work has the Session, no response of its run waits to be stored, and
\* the task that goes on without it had paused it.
HarnessIsOwned ==
    harness # "off" =>
        /\ session # "none" /\ retry = "off"
        /\ \A t \in Tasks :
            /\ pc[t] # "commitFailed"
            /\ pc[t] \in {"apply", "caught", "finalize"} => Pauses(t)

\* The Session stays open as long as the run does.
SessionIsOpen == harness \notin {"off", "acquire"} /\ ~IsTerminal(run) => session = "open"

\* Only a pause is released.
PauseIsReleased == \A t \in Tasks : pc[t] \in {"releaseOk", "releaseErr"} => Pauses(t)

\* All of it: inductive (with GateInv and ExecutionInv).
HarnessInv == HarnessIsOwned /\ SessionIsOpen /\ PauseIsReleased

\* The harness goes on while the tasks and the Session stay.
LEMMA HarnessGoesOn ==
    ASSUME HarnessInv, IsTerminal(run) => IsTerminal(run'),
           UNCHANGED <<pc, outcome, session, retry>>,
           harness' # "off" => harness # "off",
           harness' \notin {"off", "acquire"} => harness \notin {"off", "acquire"}
    PROVE  HarnessInv'
    BY DEF HarnessInv, HarnessIsOwned, SessionIsOpen, PauseIsReleased, Pauses

LEMMA TaskOwned ==
    ASSUME GateInv, HarnessInv, IsTerminal(run) => IsTerminal(run'),
           NEW t \in Tasks, Task(t)
    PROVE  HarnessInv'
<1>0. TypeOK /\ outcome' = outcome /\ harness' = harness
    BY TaskCopies DEF GateInv, Task, ApplyPause, ApplyOutcome, Released, Caught,
       CompletionCommitFails, TaskFinalized, TaskFlushes, TaskSettles, TaskCommitKeeps
<1>1. \E p \in TaskPc : Goto(t, p)
    BY DEF Task, ApplyPause, ApplyOutcome, Caught, Released, TaskFinalized,
       CompletionCommitFails, TaskFlushes, TaskSettles, EndsTask, EndsRun, TaskPc
<1>2. \A u \in Tasks \ {t} : pc'[u] = pc[u]
    BY <1>0, <1>1 DEF Goto, TypeOK, TasksOK
<1>3. \/ session' = session /\ retry' = retry
      \/ harness = "off"
    BY DEF Task, ApplyPause, ApplyOutcome, Released, Caught, CompletionCommitFails,
       TaskFinalized, FinalizeEnds, TaskFlushes, TaskSettles, TaskCommitKeeps, TaskKeeps,
       schedVars, sessionVars, HarnessInv, HarnessIsOwned
<1>4. harness # "off" =>
        /\ pc'[t] # "commitFailed"
        /\ pc'[t] \in {"apply", "caught", "finalize"} => Pauses(t)
  <2> SUFFICES ASSUME harness # "off"
               PROVE  /\ pc'[t] # "commitFailed"
                      /\ pc'[t] \in {"apply", "caught", "finalize"} => Pauses(t)
    OBVIOUS
  <2>1. pc[t] \in {"apply", "caught", "finalize", "releaseOk", "releaseErr"} => Pauses(t)
    BY DEF HarnessInv, HarnessIsOwned, PauseIsReleased
  <2>2. ~ApplyOutcome(t) /\ ~CompletionCommitFails(t) /\ ~Released(t)
    BY <2>1 DEF ApplyOutcome, CompletionCommitFails, Released, HarnessInv,
       HarnessIsOwned, Pauses
  <2>3. CASE ApplyPause(t) \/ TaskFlushes(t) \/ TaskSettles(t) \/ TaskFinalized(t)
    BY <1>0, <2>3 DEF ApplyPause, TaskFlushes, TaskSettles, TaskFinalized, EndsTask,
       Goto, TypeOK, TasksOK
  <2>4. CASE Caught(t)
    BY <1>0, <2>1, <2>4 DEF Caught, EndsRun, Goto, TypeOK, TasksOK
  <2>5. QED  BY <2>2, <2>3, <2>4 DEF Task
<1>5. pc'[t] \in {"releaseOk", "releaseErr"} => Pauses(t)
  <2>1. CASE ApplyPause(t)
    BY <2>1 DEF ApplyPause, Pauses
  <2>2. CASE ~ApplyPause(t)
    BY <1>0, <2>2 DEF Task, ApplyOutcome, Released, Caught, CompletionCommitFails,
       TaskFinalized, TaskFlushes, TaskSettles, EndsTask, EndsRun, Goto, TypeOK, TasksOK
  <2>3. QED  BY <2>1, <2>2
<1>6. \A u \in Tasks : Pauses(u)' = Pauses(u)
    BY <1>0 DEF Pauses
<1>7. QED
    BY <1>0, <1>2, <1>3, <1>4, <1>5, <1>6 DEF HarnessInv, HarnessIsOwned, SessionIsOpen,
       PauseIsReleased

LEMMA HarnessInvSteps ==
    ASSUME GateInv, ExecutionInv, HarnessInv, [Next]_vars
    PROVE  HarnessInv'
<1>0. TypeOK /\ (IsTerminal(run) => IsTerminal(run'))
    BY NextKeeps, SnapshotStepKeeps DEF GateInv, TypeOK, KeepsFinal, IsTerminal
<1>1. CASE StartRun
  <2>1. /\ harness' = "acquire" /\ session' = "acquiring" /\ retry' = "off"
        /\ \A t \in Tasks : pc'[t] \in {"off", "loop"}
    BY <1>0, <1>1 DEF StartRun, schedVars, ExecutionInv, QueuedIsUntouched, Goto, TypeOK,
       TasksOK, GateInv, HaltedIsOver
  <2>2. QED  BY <2>1 DEF HarnessInv, HarnessIsOwned, SessionIsOpen, PauseIsReleased
<1>2. ASSUME NEW kind, NEW facts, NEW asked, Returned(kind, facts, asked),
             UNCHANGED <<session, retry>>,
             harness' = "off" \/ (harness' = harness /\ kind = "approval_required")
      PROVE  HarnessInv'
  <2>1. \A t \in Tasks :
            \/ pc'[t] \in {"apply", "caught"} /\ outcome'[t].kind = kind
            \/ pc'[t] = pc[t] /\ outcome'[t] = outcome[t]
    BY <1>2 DEF Returned
  <2>2. QED
    BY <1>0, <1>2, <2>1 DEF HarnessInv, HarnessIsOwned, SessionIsOpen, PauseIsReleased,
       Pauses
<1>3. CASE HarnessStops \/ Pause
    BY <1>2, <1>3 DEF HarnessStops, Pause, sessionVars, schedVars, harnessVars
<1>4. CASE Acquire
  <2>1. CASE harness' = "start" /\ session' = "open" /\ UNCHANGED taskVars
    BY <1>0, <1>4, <2>1 DEF Acquire, taskVars, schedVars, HarnessInv, HarnessIsOwned,
       SessionIsOpen, PauseIsReleased, Pauses
  <2>2. CASE harness' = "off" /\ \E kind : Returned(kind, NoFacts, {})
    <3>1. \A t \in Tasks :
            pc'[t] \in {"apply", "caught"} \/ (pc'[t] = pc[t] /\ outcome'[t] = outcome[t])
      BY <2>2 DEF Returned
    <3>2. QED  BY <2>2, <3>1 DEF HarnessInv, HarnessIsOwned, SessionIsOpen,
         PauseIsReleased, Pauses
  <2>3. QED  BY <1>4, <2>1, <2>2 DEF Acquire
<1>5. CASE CaptureStart
  <2>1. CASE UNCHANGED <<taskVars, harness>>
    BY <1>0, <1>5, <2>1, HarnessGoesOn DEF CaptureStart, taskVars, sessionVars, schedVars
  <2>2. CASE harness' = "off" /\ Goto("execute", "caught") /\ UNCHANGED outcome
    BY <1>0, <2>2 DEF HarnessInv, HarnessIsOwned, SessionIsOpen, PauseIsReleased, Pauses,
       Goto, TypeOK, TasksOK
  <2>3. QED  BY <1>5, <2>1, <2>2 DEF CaptureStart
<1>6. CASE CommitInput \/ Respond \/ CloseRound \/ \E calls \in SUBSET Calls : ToolRound(calls)
    BY <1>0, <1>6, HarnessGoesOn DEF CommitInput, Respond, CloseRound, ToolRound,
       HarnessKeeps, taskVars, sessionVars, schedVars
<1>7. CASE \E c \in Calls : Tool(c)
    BY <1>0, <1>7, HarnessGoesOn DEF Tool, ToolGates, ToolRefused, ToolExecutes, ToolEnds,
       ToolPersists, ToolKeeps, taskVars, sessionVars, schedVars
<1>8. CASE \E t \in Tasks : Task(t)
    BY <1>0, <1>8, TaskOwned
<1>9. CASE Completion
  <2>1. harness' = "off" /\ UNCHANGED <<pc, outcome>>
    BY <1>9 DEF Completion, CompletionRetries, CompletionFinalized, HarnessInv,
       HarnessIsOwned, harnessVars, taskVars
  <2>2. QED  BY <2>1 DEF HarnessInv, HarnessIsOwned, SessionIsOpen, PauseIsReleased, Pauses
<1>10. CASE SessionRestores
  <2>1. IsTerminal(run')
    BY <1>0, <1>10 DEF SessionRestores, GateInv, HaltedIsOver
  <2>2. QED  BY <1>10, <2>1 DEF SessionRestores, taskVars, schedVars, HarnessInv,
       HarnessIsOwned, SessionIsOpen, PauseIsReleased, Pauses
<1>11. CASE Cancel
    BY <1>0, <1>11, HarnessGoesOn DEF Cancel, taskVars, schedVars
<1>12. CASE Cleanup \/ Pump
  <2>1. UNCHANGED <<taskVars, harness, retry>> /\ (session' = session \/ harness = "off")
    BY <1>12 DEF Cleanup, CleanupReleases, CleanupFinalized, CleanupSettles,
       CleanupFlushes, CleanupChecks, CleanupRetries, CleanupKeeps, Pump, PumpStarts,
       PumpFlushes, PumpSettles, PumpFinalized, PumpRetries, PumpKeeps, FinalizeEnds,
       harnessVars, sessionVars, schedVars
  <2>2. QED  BY <1>0, <2>1 DEF taskVars, HarnessInv, HarnessIsOwned, SessionIsOpen,
       PauseIsReleased, Pauses
<1>13. CASE Recovery \/ UNCHANGED vars
  <2>1. UNCHANGED <<taskVars, harness, session, retry>>
    BY <1>13 DEF Recovery, RecoverApproval, RecoverRound, RecoverRunning, Recovered,
       RecoveryKeeps, vars, harnessVars, sessionVars, schedVars
  <2>2. QED  BY <1>0, <2>1, HarnessGoesOn DEF taskVars
<1>14. CASE \E c \in Calls, d \in {"approve_once", "reject"} : DecideApproval(c, d)
  <2>1. /\ UNCHANGED <<session, retry, harness>> /\ run.status = "awaiting_approval"
        /\ pc' = [pc EXCEPT !["decide"] = "loop"]
        /\ outcome' = [outcome EXCEPT !["decide"] = NoOutcome]
    BY <1>14 DEF DecideApproval, CanDecide, Goto, sessionVars, schedVars
  <2>2. pc'["decide"] = "loop" /\ pc'["execute"] = pc["execute"]
        /\ outcome'["execute"] = outcome["execute"]
    BY <1>0, <2>1 DEF TypeOK, TasksOK, Tasks
  <2>3. QED  BY <1>0, <2>1, <2>2 DEF HarnessInv, HarnessIsOwned, SessionIsOpen,
       PauseIsReleased, Pauses, IsTerminal, Terminal, Tasks
<1>15. CASE Crash
    BY <1>15 DEF Crash, HarnessInv, HarnessIsOwned, SessionIsOpen, PauseIsReleased
<1>16. QED
    BY <1>1, <1>3, <1>4, <1>5, <1>6, <1>7, <1>8, <1>9, <1>10, <1>11, <1>12, <1>13, <1>14,
       <1>15 DEF Next, Harness, User

\* Both hold of every reachable state.
THEOREM HarnessInvariant == Spec => [](CleanupInv /\ HarnessInv)
<1>1. Init => CleanupInv /\ HarnessInv
    BY DEF Init, InitialRun, NoFacts, NoOutcome, Noted, Live, CleanupInv, ContinuationWaits,
       ReleaseComesFirst, PumpSettlesEnds, QueuedIsSilent, HarnessInv, HarnessIsOwned,
       SessionIsOpen, PauseIsReleased
<1>2. GateInv /\ CallInv /\ ExecutionInv /\ CleanupInv /\ HarnessInv /\ [Next]_vars
        => (CleanupInv /\ HarnessInv)'
    BY CleanupSteps, HarnessInvSteps
<1>3. QED  BY <1>1, <1>2, GateInvariant, CallInvariant, ExecutionInvariant, PTL DEF Spec

-----------------------------------------------------------------------------
(* What the tasks say of a call while nothing contradicts anything. *)

\* All that is said of a call is its last result, or that it waits.
Agrees(c) == \A f \in Noted(c) \cup {run.fact[c]} : f \in Early \cup {result[c]}

\* The first task did not settle its pause yet, and no write failed.
Undisputed ==
    /\ faults = 0 /\ ~IsTerminal(run) /\ pc["execute"] # "off"
    /\ \/ execution = "execute" \/ run.status = "awaiting_approval"
       \/ pc["decide"] \in {"loop", "apply"}

\* Inductive (with GateInv, CallInv, ExecutionInv and CleanupInv).
AgreeInv == Undisputed => \A c \in Calls : Agrees(c)

\* A task is started by the run or by a decision only.
LEMMA TasksGoOn ==
    ASSUME TypeOK, ExecutionInv, [Next]_vars, ~StartRun,
           ~\E c \in Calls, d \in {"approve_once", "reject"} : DecideApproval(c, d)
    PROVE  /\ \A t \in Tasks :
                /\ pc[t] = "off" => pc'[t] = "off"
                /\ InLoop(t)' => InLoop(t)
           /\ execution' \in {execution, "none"}
<1>1. ASSUME UNCHANGED taskVars
      PROVE  /\ \A t \in Tasks :
                  (pc[t] = "off" => pc'[t] = "off") /\ (InLoop(t)' => InLoop(t))
             /\ execution' \in {execution, "none"}
    BY <1>1 DEF taskVars, InLoop
<1>2. CASE Harness
  <2>1. ASSUME NEW kind, NEW facts, NEW asked, Returned(kind, facts, asked)
        PROVE  /\ \A t \in Tasks :
                    (pc[t] = "off" => pc'[t] = "off") /\ (InLoop(t)' => InLoop(t))
               /\ execution' \in {execution, "none"}
    BY <2>1 DEF Returned, InLoop
  <2>2. CASE HarnessStops \/ Pause \/ Acquire
    BY <1>1, <2>1, <2>2 DEF HarnessStops, Pause, Acquire
  <2>3. CASE CaptureStart
    <3>1. CASE Goto("execute", "caught") /\ UNCHANGED execution
      BY <2>3, <3>1 DEF CaptureStart, ExecutionInv, Goto, InLoop, TypeOK, TasksOK
    <3>2. QED  BY <1>1, <2>3, <3>1 DEF CaptureStart
  <2>4. QED
    BY <1>1, <1>2, <2>2, <2>3 DEF Harness, CommitInput, ToolRound, Respond, CloseRound,
       HarnessKeeps
<1>3. CASE \E c \in Calls : Tool(c)
    BY <1>1, <1>3 DEF Tool, ToolGates, ToolRefused, ToolExecutes, ToolEnds, ToolPersists,
       ToolKeeps
<1>4. CASE \E t \in Tasks : Task(t)
  <2>1. PICK t \in Tasks : Task(t)
    BY <1>4
  <2>2. pc[t] # "off" /\ \E p \in TaskPc \ {"loop", "apply"} : Goto(t, p)
    BY <2>1 DEF Task, ApplyPause, ApplyOutcome, Caught, Released, TaskFinalized,
       CompletionCommitFails, TaskFlushes, TaskSettles, EndsTask, EndsRun, TaskPc
  <2>3. execution' \in {execution, "none"}
    BY <2>1 DEF Task, ApplyPause, ApplyOutcome, Caught, Released, TaskFinalized,
       CompletionCommitFails, TaskFlushes, TaskSettles, EndsTask, TaskCommitKeeps
  <2>4. QED  BY <2>2, <2>3 DEF Goto, InLoop, TypeOK, TasksOK
<1>5. CASE Completion \/ SessionRestores \/ Cancel \/ Recovery \/ UNCHANGED vars
    BY <1>1, <1>5 DEF Completion, CompletionRetries, CompletionFinalized, SessionRestores,
       Cancel, Recovery, RecoverApproval, RecoverRound, RecoverRunning, Recovered,
       RecoveryKeeps, vars
<1>6. CASE Cleanup \/ Pump
    BY <1>1, <1>6 DEF Cleanup, CleanupReleases, CleanupFinalized, CleanupSettles,
       CleanupFlushes, CleanupChecks, CleanupRetries, CleanupKeeps, Pump, PumpStarts,
       PumpFlushes, PumpSettles, PumpFinalized, PumpRetries, PumpKeeps
<1>7. CASE Crash
    BY <1>7 DEF Crash, InLoop
<1>8. QED  BY <1>2, <1>3, <1>4, <1>5, <1>6, <1>7 DEF Next, User

\* What is undisputed was so before, or the run starts.
LEMMA DisputeStands ==
    ASSUME GateInv, ExecutionInv, [Next]_vars, Undisputed', ~StartRun
    PROVE  Undisputed
<1>0. TypeOK /\ faults = 0 /\ ~IsTerminal(run)
  <2>1. faults = 0
    BY FaultSteps, FaultGrows DEF GateInv, FaultsGrow, Undisputed
  <2>2. IsTerminal(run) => IsTerminal(run')
    BY NextKeeps, SnapshotStepKeeps DEF GateInv, TypeOK, KeepsFinal, IsTerminal
  <2>3. QED  BY <2>1, <2>2 DEF GateInv, Undisputed
<1>1. CASE \E c \in Calls, d \in {"approve_once", "reject"} : DecideApproval(c, d)
  <2>1. run.status = "awaiting_approval" /\ Goto("decide", "loop")
    BY <1>1 DEF DecideApproval, CanDecide
  <2>2. pc'["execute"] = pc["execute"]
    BY <1>0, <2>1 DEF Goto, TypeOK, TasksOK, Tasks
  <2>3. QED  BY <1>0, <2>1, <2>2 DEF Undisputed
<1>2. CASE ~\E c \in Calls, d \in {"approve_once", "reject"} : DecideApproval(c, d)
  <2>1. /\ \A t \in Tasks : (pc[t] = "off" => pc'[t] = "off") /\ (InLoop(t)' => InLoop(t))
        /\ execution' \in {execution, "none"}
    BY <1>0, <1>2, TasksGoOn
  <2>2. run'.status = "awaiting_approval" =>
            run.status = "awaiting_approval" \/ \E t \in Tasks : ApplyPause(t)
    <3> SUFFICES ASSUME run'.status = "awaiting_approval", run.status # "awaiting_approval"
                 PROVE  \E t \in Tasks : ApplyPause(t)
      OBVIOUS
    <3>1. ASSUME EndStep(run, run')
          PROVE  FALSE
      BY <1>0, <3>1, RunMoves DEF TypeOK
    <3>2. ~Cancel /\ ~CompletionRetries
      <4>1. Cancel => EndStep(run, run') \/ StillStep(run, run')
        BY <1>0, CancelKeeps
      <4>2. CompletionRetries => EndStep(run, run') \/ StillStep(run, run')
        BY <1>0, CompletionRetriesKeeps
      <4>3. QED  BY <1>0, <3>1, <4>1, <4>2, StillStepKeeps DEF TypeOK
    <3>3. ~RecoverApproval /\ ~RecoverRunning
      <4>1. RecoverRunning => EndStep(run, run') \/ StillStep(run, run')
        BY <1>0, RecoverRunningKeeps
      <4>2. QED  BY <1>0, <3>1, <4>1, StillStepKeeps DEF RecoverApproval, TypeOK
    <3>4. ~\E t \in Tasks : ApplyOutcome(t) \/ Caught(t) \/ CompletionCommitFails(t)
      <4>1. ASSUME NEW t \in Tasks, ApplyOutcome(t) \/ Caught(t) \/ CompletionCommitFails(t)
            PROVE  EndStep(run, run') \/ StillStep(run, run')
        BY <1>0, <4>1, ApplyOutcomeKeeps, CaughtKeeps, CompletionCommitFailsKeeps
      <4>2. QED  BY <1>0, <3>1, <4>1, StillStepKeeps DEF TypeOK
    <3>5. QED  BY <1>0, <1>2, <3>2, <3>3, <3>4, StatusMoves
  <2>3. ASSUME NEW t \in Tasks, ApplyPause(t)
        PROVE  execution = t /\ pc[t] = "apply"
    BY <2>3 DEF ApplyPause, ExecutionInv, OneTaskHolds, Holds
  <2>4. execution' = "execute" => execution = "execute"
    BY <2>1
  <2>5. QED  BY <1>0, <2>1, <2>2, <2>3, <2>4 DEF Undisputed, InLoop, Tasks
<1>3. QED  BY <1>1, <1>2

\* A call whose entries are copied from each other.
LEMMA CopiesAgree ==
    ASSUME NEW c \in Calls, Agrees(c), result'[c] = result[c],
           run'.fact[c] \in {run.fact[c]} \cup Noted(c),
           \A f \in Noted(c)' : f = "none" \/ f \in Noted(c)
    PROVE  Agrees(c)'
    BY DEF Agrees, Early

\* The facts of the snapshot come from the books alone.
CopiedFacts == \A c \in Calls : run'.fact[c] \in {run.fact[c]} \cup Noted(c)

LEMMA MergeCopies ==
    ASSUME TypeOK, NEW facts, AreNoted(facts), run'.fact = Merge(run, facts).fact
    PROVE  CopiedFacts
    BY DEF Merge, AreNoted, CopiedFacts, TypeOK, RunState

LEMMA FlushCopies ==
    ASSUME TypeOK, FlushAccepted
    PROVE  CopiedFacts
<1> DEFINE stays(F, c) == c \in F \/ ~Compatible(run.fact[c], accepted[c])
           facts(F)    == [c \in Calls |-> IF stays(F, c) THEN "none" ELSE accepted[c]]
<1>1. PICK F \in SUBSET {c \in Calls : accepted[c] \notin {"none", run.fact[c]}} :
        run' = Merge(run, facts(F))
    BY DEF FlushAccepted
<1>2. AreNoted(facts(F))
    BY DEF AreNoted, Noted
<1> HIDE DEF facts
<1>3. QED  BY <1>1, <1>2, MergeCopies

\* No round is settled before the first task has settled its pause.
LEMMA TaskCopiesFacts ==
    ASSUME GateInv, ExecutionInv, Undisputed, Undisputed', NEW t \in Tasks, Task(t)
    PROVE  CopiedFacts
<1>0. TypeOK /\ ~IsTerminal(run) /\ ~IsTerminal(run')
    BY DEF GateInv, Undisputed
<1>1. CASE ApplyPause(t)
  <2>1. CASE run' = run
    BY <2>1 DEF CopiedFacts
  <2>2. CASE run' = Paused(run, outcome[t].facts, outcome[t].requests)
    <3>1. AreNoted(outcome[t].facts)
      BY DEF AreNoted, Noted
    <3>2. outcome[t].facts \in Facts
      BY <1>0 DEF TypeOK, TasksOK
    <3>3. Merge(run, outcome[t].facts) \in RunState
      BY <1>0, <3>2, MergeKeeps DEF TypeOK
    <3>4. run'.fact = Merge(run, outcome[t].facts).fact
      BY <2>2, <3>3 DEF Paused, RunState
    <3>5. QED  BY <1>0, <3>1, <3>4, MergeCopies
  <2>3. QED  BY <1>1, <2>1, <2>2 DEF ApplyPause, Commit, Throws
<1>2. CASE ApplyOutcome(t) \/ Caught(t) \/ CompletionCommitFails(t)
  <2>1. \A how \in Terminal : Ended(run, how, outcome[t].facts).status = how
    BY <1>0 DEF Ended, Merge, TypeOK, RunState
  <2>2. \A how \in Terminal : \A next :
            EndsRun(t, how, outcome[t].facts, next) => run' = run \/ IsTerminal(run')
    BY <2>1 DEF EndsRun, Commit, Throws, IsTerminal
  <2>3. run' = run
    BY <1>0, <1>2, <2>2 DEF ApplyOutcome, Caught, CompletionCommitFails, Terminal
  <2>4. QED  BY <2>3 DEF CopiedFacts
<1>3. CASE Released(t) \/ TaskFinalized(t)
    BY <1>3 DEF Released, TaskFinalized, CopiedFacts
<1>4. CASE TaskFlushes(t)
    BY <1>0, <1>4, FlushCopies DEF TaskFlushes
<1>5. CASE TaskSettles(t)
  <2>1. t = "decide"
    BY <1>0, <1>5 DEF TaskSettles, EndsTask, Goto, Undisputed, Tasks, TypeOK, TasksOK
  <2>2. run.status = "awaiting_approval"
    BY <1>5, <2>1 DEF TaskSettles, ExecutionInv, DecisionTakesOver, Undisputed
  <2>3. run' = run
    BY <1>0, <1>5, <2>2 DEF TaskSettles, SettleRound, Commit
  <2>4. QED  BY <2>3 DEF CopiedFacts
<1>6. QED  BY <1>1, <1>2, <1>3, <1>4, <1>5 DEF Task

LEMMA OtherCopiesFacts ==
    ASSUME GateInv, CleanupInv, Undisputed, Undisputed',
           Completion \/ Cancel \/ SessionRestores \/ Cleanup \/ Pump \/ Recovery
    PROVE  CopiedFacts
<1>0. TypeOK /\ ~IsTerminal(run) /\ ~IsTerminal(run') /\ pc["execute"] # "off"
    BY DEF GateInv, Undisputed
<1>1. cleanup = "off" /\ pump \notin {"flush", "check"} /\ Live
    BY <1>0 DEF GateInv, HaltedIsOver, CleanupInv, PumpSettlesEnds, Tasks
<1>2. ~Cancel /\ ~Cleanup /\ ~Recovery
  <2>1. ~Cancel
    BY <1>0 DEF Cancel, Commit, Ended, Merge, TypeOK, RunState, IsTerminal, Terminal
  <2>2. QED
    BY <1>1, <2>1 DEF Cleanup, CleanupReleases, CleanupFinalized, CleanupSettles,
       CleanupFlushes, CleanupChecks, CleanupRetries, Recovery, RecoverApproval,
       RecoverRound, RecoverRunning, Recovered, Live
<1>3. CASE Completion
  <2>1. Ended(run, "blocked", result).status = "blocked"
    BY <1>0 DEF Ended, Merge, TypeOK, RunState
  <2>2. run' = run
    BY <1>0, <1>3, <2>1 DEF Completion, CompletionRetries, CompletionFinalized, Commit,
       Throws, IsTerminal, Terminal
  <2>3. QED  BY <2>2 DEF CopiedFacts
<1>4. CASE SessionRestores \/ Pump
    BY <1>1, <1>4 DEF SessionRestores, Pump, PumpStarts, PumpFlushes, PumpSettles,
       PumpFinalized, PumpRetries, CopiedFacts
<1>5. QED  BY <1>2, <1>3, <1>4

\* A tool that moves: its result is the first one, and it can be stored.
LEMMA ToolAgrees ==
    ASSUME GateInv, BooksAreTrue, CallInv, NEW c \in Calls, Tool(c), faults' = 0,
           \A d \in Calls : Agrees(d)
    PROVE  \A d \in Calls : Agrees(d)'
<1>0. TypeOK /\ faults \in Nat
    BY FaultGrows DEF GateInv
<1>1. UNCHANGED outcome
    BY ToolMoves
<1>2. ResultBooks(c) /\ Agrees(c)
    BY DEF CallInv
<1>3. ASSUME NEW d \in Calls, result'[d] = result[d], accepted'[d] \in {"none", accepted[d]},
             run'.fact[d] \in {run.fact[d]} \cup Noted(d)
      PROVE  Agrees(d)'
  <2>1. \A f \in Noted(d)' : f = "none" \/ f \in Noted(d)
    BY <1>1, <1>3 DEF Noted
  <2>2. QED  BY <1>3, <2>1, CopiesAgree
<1>4. ASSUME NEW f \in {"approval", "refused", "reported"}, Returns(c, f),
             tool[c] \in {"idle", "gated", "rejected", "executing"}
      PROVE  \A d \in Calls : Agrees(d)'
  <2>1. Remembers(c, f) /\ result[c] \in Early
    BY <1>2, <1>4 DEF ResultBooks, Remembers, Early
  <2>2. /\ run' = run /\ result' = [result EXCEPT ![c] = f]
        /\ accepted' = [d \in Calls |-> IF d = c THEN f ELSE accepted[d]]
    BY <1>0, <1>4, <2>1 DEF Returns, Remembered, OneFact, NoFacts, TypeOK, HandlesOK, Facts
  <2>3. \A d \in Calls \ {c} : result'[d] = result[d] /\ accepted'[d] = accepted[d]
    BY <1>0, <2>2 DEF TypeOK, HarnessOK, Facts
  <2>4. result'[c] = f /\ accepted'[c] = f
    BY <1>0, <2>2 DEF TypeOK, HarnessOK, Facts
  <2>5. \A g \in Noted(c)' : g \in Noted(c) \/ g = f
    BY <1>1, <2>4 DEF Noted
  <2>6. Agrees(c)'
    BY <1>2, <2>1, <2>2, <2>4, <2>5 DEF Agrees
  <2>7. QED  BY <1>3, <2>2, <2>3, <2>6
<1>5. CASE ToolGates(c) \/ ToolRefused(c) \/ ToolEnds(c)
  <2>1. /\ tool[c] \in {"idle", "gated", "rejected", "executing"}
        /\ \E f \in {"approval", "refused", "reported"} : Returns(c, f)
    BY <1>5 DEF ToolGates, ToolRefused, ToolEnds
  <2>2. QED  BY <1>4, <2>1
<1>6. CASE ToolExecutes(c)
    BY <1>3, <1>6 DEF ToolExecutes
<1>7. CASE ToolPersists(c)
  <2>1. Compatible(run.fact[c], result[c])
    <3>1. run.fact[c] \in Early \cup {result[c]}
      BY <1>2 DEF Agrees
    <3>2. result[c] \in {"approval", "refused", "reported"}
      BY <1>2, <1>7 DEF ToolPersists, ResultBooks
    <3>3. QED  BY <3>1, <3>2 DEF Compatible, Early, FinalFact
  <2>2. /\ run' = run \/ run' = Merge(run, OneFact(c, result[c]))
        /\ accepted' = Forgotten(run', OneFact(c, result[c])) /\ UNCHANGED result
    BY <1>0, <1>7, <2>1 DEF ToolPersists, Throws, Fault, Commit
  <2>3. AreNoted(OneFact(c, result[c]))
    BY DEF AreNoted, OneFact, NoFacts, Noted
  <2>4. CopiedFacts
    BY <1>0, <2>2, <2>3, MergeCopies DEF CopiedFacts
  <2>5. QED  BY <1>3, <2>2, <2>4 DEF Forgotten, CopiedFacts
<1>8. QED  BY <1>5, <1>6, <1>7 DEF Tool

LEMMA AgreeSteps ==
    ASSUME GateInv, FactInv, CallInv, ExecutionInv, CleanupInv, AgreeInv, [Next]_vars
    PROVE  AgreeInv'
<1> SUFFICES ASSUME Undisputed'
             PROVE  \A c \in Calls : Agrees(c)'
    BY DEF AgreeInv
<1>0. TypeOK /\ BooksAreTrue
    BY DEF GateInv, FactInv
<1>1. CASE StartRun
  <2>1. \A c \in Calls : \A f \in Noted(c) \cup {run.fact[c]} : f = "none"
    BY <1>1 DEF StartRun, CleanupInv, QueuedIsSilent
  <2>2. UNCHANGED <<accepted, result, outcome>> /\ run'.fact = run.fact
    BY <1>0, <1>1 DEF StartRun, Commit, Start, TypeOK, RunState
  <2>3. \A c \in Calls : Noted(c)' = Noted(c)
    BY <2>2 DEF Noted
  <2>4. QED  BY <2>1, <2>2, <2>3 DEF Agrees, Early
<1>2. CASE ~StartRun
  <2>0. Undisputed /\ \A c \in Calls : Agrees(c)
    BY <1>2, DisputeStands DEF AgreeInv
  <2>1. ASSUME Calm, CopiedFacts
        PROVE  \A c \in Calls : Agrees(c)'
    BY <2>0, <2>1, CopiesAgree DEF Calm, ToolsStay, BooksFromBooks, CopiedFacts
  <2>2. CASE Acquire \/ HarnessStops \/ Pause \/ CaptureStart \/ CommitInput \/ Respond
    <3>1. Calm
      BY <2>2, ReturnCalm, HarnessCalm
    <3>2. run'.fact = run.fact
      BY <1>0, <2>2 DEF Acquire, HarnessStops, Pause, CaptureStart, CommitInput, Respond,
         Checkpoint, Commit, Throws, StartCaptured, InputCommitted, Responded, TypeOK,
         RunState
    <3>3. QED  BY <2>1, <3>1, <3>2 DEF CopiedFacts
  <2>3. CASE (\E calls \in SUBSET Calls : ToolRound(calls)) \/ CloseRound
    <3>1. UNCHANGED <<accepted, result, outcome>> /\ run'.fact = run.fact
      BY <1>0, <2>3 DEF ToolRound, CloseRound, Checkpoint, Commit, Throws, RoundAccepted,
         RoundClosed, HarnessKeeps, taskVars, TypeOK, RunState
    <3>2. \A c \in Calls : Noted(c)' = Noted(c)
      BY <3>1 DEF Noted
    <3>3. QED  BY <2>0, <3>1, <3>2 DEF Agrees
  <2>4. CASE \E c \in Calls : Tool(c)
    BY <1>0, <2>0, <2>4, ToolAgrees DEF Undisputed
  <2>5. CASE \E t \in Tasks : Task(t)
    <3>1. PICK t \in Tasks : Task(t)
      BY <2>5
    <3>2. Calm
      BY <1>0, <3>1, PauseCalm, TaskCalm DEF Task
    <3>3. QED  BY <2>0, <2>1, <3>1, <3>2, TaskCopiesFacts
  <2>6. CASE Completion \/ Cancel \/ SessionRestores \/ Cleanup \/ Pump \/ Recovery
    <3>1. Calm
      BY <1>0, <2>6, CompletionCalm, CleanupCalm, PumpCalm, RecoveryCalm DEF Completion,
         Cleanup, Pump, Recovery
    <3>2. QED  BY <2>0, <2>1, <2>6, <3>1, OtherCopiesFacts
  <2>7. CASE \E c \in Calls, d \in {"approve_once", "reject"} : DecideApproval(c, d)
    <3>1. UNCHANGED <<accepted, result>> /\ run'.fact = run.fact
          /\ outcome' = [outcome EXCEPT !["decide"] = NoOutcome]
      BY <1>0, <2>7 DEF DecideApproval, Commit, Decided, TypeOK, RunState
    <3>2. \A c \in Calls : \A f \in Noted(c)' : f \in Noted(c) \/ f = "none"
      BY <1>0, <3>1 DEF Noted, NoOutcome, NoFacts, TypeOK, TasksOK
    <3>3. QED  BY <2>0, <3>1, <3>2 DEF Agrees, Early
  <2>8. CASE Crash
    BY <2>8 DEF Crash, Undisputed, Tasks
  <2>9. CASE UNCHANGED vars
    <3>1. \A c \in Calls : Noted(c)' = Noted(c)
      BY <2>9 DEF vars, taskVars, harnessVars, Noted
    <3>2. QED  BY <2>0, <2>9, <3>1 DEF Agrees, vars, harnessVars
  <2>10. QED
    BY <1>2, <2>2, <2>3, <2>4, <2>5, <2>6, <2>7, <2>8, <2>9 DEF Next, Harness, User
<1>3. QED  BY <1>1, <1>2

-----------------------------------------------------------------------------
(* Who ends a run, and what is under way when it has ended. *)

\* A task that holds a run that ended without a cancel finalizes it.
EndIsFinalized == IsTerminal(run) /\ cancels = 0 => \A t \in Tasks : Holds(t) => pc[t] = "finalize"

\* Without a fault only a cancel ends a run whose harness is at work, and its cleanup
\* waits for the harness.
CancelAwaitsHarness ==
    faults = 0 /\ harness # "off" /\ IsTerminal(run) =>
        run.status = "cancelled" /\ cancels > 0 /\ (cleanup = "finalize" \/ cleanupCont)

\* A task finalizes such a run only after a fault.
FinalizesAfterFault == \A t \in Tasks : pc[t] = "finalize" /\ harness # "off" => faults > 0

\* All of it: inductive (with the invariants before).
EndInv == EndIsFinalized /\ CancelAwaitsHarness /\ FinalizesAfterFault

LEMMA CancelsGrow ==
    ASSUME TypeOK, [Next]_vars
    PROVE  /\ cancels' = cancels \/ (Cancel /\ cancels' = cancels + 1)
           /\ cancels \in Nat /\ cancels' \in Nat /\ cancels' >= cancels
<1>1. CASE StartRun \/ Harness \/ \E c \in Calls : Tool(c)
    BY <1>1 DEF StartRun, Harness, Acquire, CaptureStart, CommitInput,
       ToolRound, Respond, CloseRound, HarnessStops, Pause, HarnessKeeps, Tool, ToolGates,
       ToolRefused, ToolExecutes, ToolEnds, ToolPersists, ToolKeeps, systemVars, TypeOK,
       SystemOK
<1>2. CASE \E t \in Tasks : Task(t)
    BY <1>2 DEF Task, ApplyPause, ApplyOutcome, Released, Caught,
       CompletionCommitFails, TaskFinalized, TaskFlushes, TaskSettles, TaskCommitKeeps,
       TaskKeeps, systemVars, TypeOK, SystemOK
<1>3. CASE Completion \/ SessionRestores \/ Crash \/ User \/ UNCHANGED vars \/ Recovery
  <2>1. cancels' = cancels \/ (Cancel /\ cancels' = cancels + 1)
    <3>1. CASE Completion \/ SessionRestores \/ Crash
      BY <3>1 DEF Completion, CompletionRetries, CompletionFinalized, SessionRestores,
         Crash, systemVars
    <3>2. CASE User \/ UNCHANGED vars
      BY <3>2 DEF User, Cancel, DecideApproval, systemVars, vars
    <3>3. CASE Recovery
      BY <3>3 DEF Recovery, RecoverApproval, RecoverRound, RecoverRunning, Recovered,
         RecoveryKeeps
    <3>4. QED  BY <1>3, <3>1, <3>2, <3>3
  <2>2. QED  BY <2>1 DEF TypeOK, SystemOK
<1>4. CASE Cleanup \/ Pump
    BY <1>4 DEF Cleanup, CleanupReleases, CleanupFinalized,
       CleanupSettles, CleanupFlushes, CleanupChecks, CleanupRetries, CleanupKeeps, Pump,
       PumpStarts, PumpFlushes, PumpSettles, PumpFinalized, PumpRetries, PumpKeeps,
       systemVars, TypeOK, SystemOK
<1>5. QED  BY <1>1, <1>2, <1>3, <1>4 DEF Next

\* The harness is started with the run.
LEMMA HarnessStarts ==
    ASSUME [Next]_vars, harness' # "off"
    PROVE  harness # "off" \/ StartRun
<1>1. CASE Harness \/ \E c \in Calls : Tool(c)
    BY <1>1 DEF Harness, Acquire, CaptureStart, CommitInput, ToolRound, Respond,
       CloseRound, HarnessStops, Pause, Tool, ToolGates, ToolRefused, ToolExecutes,
       ToolEnds, ToolPersists, ToolKeeps
<1>2. CASE \E t \in Tasks : Task(t)
    BY <1>2 DEF Task, ApplyPause, ApplyOutcome, Released, Caught, CompletionCommitFails,
       TaskFinalized, TaskFlushes, TaskSettles, TaskCommitKeeps, TaskKeeps, harnessVars
<1>3. CASE Completion \/ SessionRestores \/ Cleanup \/ Pump \/ Recovery \/ Cancel
    BY <1>3, OtherCopies
<1>4. CASE Crash \/ UNCHANGED vars \/ User
    BY <1>4, OtherCopies DEF Crash, vars, harnessVars, User, DecideApproval
<1>5. QED  BY <1>1, <1>2, <1>3, <1>4 DEF Next

\* A task that catches while no write failed cannot end the run.
LEMMA CaughtIsContradicted ==
    ASSUME GateInv, ExecutionInv, OutcomeInv, NEW t \in Tasks, pc[t] = "caught",
           faults = 0, ~IsTerminal(run)
    PROVE  run.status = "running" /\ Contradicted(t)
<1>1. Live /\ run.status # "queued"
    BY DEF GateInv, HaltedIsOver
<1>2. run.status # "awaiting_approval"
    BY <1>1 DEF ExecutionInv, WaitsAtRest, Holds
<1>3. run.status = "running"
    BY <1>1, <1>2 DEF GateInv, TypeOK, RunState, Status, Terminal, IsTerminal
<1>4. QED  BY <1>3 DEF OutcomeInv, OutcomeBooks

\* So that a run whose harness is at work is not ended by its tasks.
LEMMA TaskEndsNone ==
    ASSUME GateInv, ExecutionInv, HarnessInv, OutcomeInv, faults = 0, harness # "off",
           NEW t \in Tasks,
           ApplyOutcome(t) \/ Caught(t) \/ CompletionCommitFails(t)
    PROVE  Caught(t) /\ run' = run /\ Goto(t, "flush")
<1>1. Caught(t)
    BY DEF ApplyOutcome, CompletionCommitFails, HarnessInv, HarnessIsOwned, Pauses
<1>2. CASE IsTerminal(run)
    BY <1>1, <1>2 DEF Caught
<1>3. CASE ~IsTerminal(run)
    BY <1>1, <1>3, CaughtIsContradicted DEF Caught, Contradicted, EndsRun, CanEnd, Throws
<1>4. QED  BY <1>1, <1>2, <1>3

LEMMA OnlyCancelEnds ==
    ASSUME GateInv, ExecutionInv, HarnessInv, OutcomeInv, [Next]_vars,
           faults = 0, harness # "off", ~IsTerminal(run), IsTerminal(run')
    PROVE  Cancel
<1>0. TypeOK /\ Live /\ run'.status # run.status
    BY DEF GateInv, HaltedIsOver, IsTerminal
<1>1. ~StartRun /\ ~\E c \in Calls, d \in {"approve_once", "reject"} : DecideApproval(c, d)
  <2>1. Start(run).status = "running"
    BY <1>0 DEF Start, TypeOK, RunState
  <2>2. \A c, d : Decided(run, c, d).status = "running"
    BY <1>0 DEF Decided, TypeOK, RunState
  <2>3. run'.status # "running"
    BY DEF IsTerminal, Terminal
  <2>4. ~StartRun
    BY <2>1, <2>3 DEF StartRun, Commit
  <2>5. ASSUME NEW c \in Calls, NEW d \in {"approve_once", "reject"}, DecideApproval(c, d)
        PROVE  FALSE
    <3>1. run' = Decided(run, c, d)
      BY <2>5 DEF DecideApproval, Commit
    <3>2. QED  BY <2>2, <2>3, <3>1
  <2>6. QED  BY <2>4, <2>5
<1>2. ~RecoverApproval /\ ~RecoverRunning /\ ~CompletionRetries
    BY <1>0 DEF RecoverApproval, RecoverRunning, CompletionRetries, Live, HarnessInv,
       HarnessIsOwned
<1>3. ~\E t \in Tasks : ApplyPause(t)
  <2>1. \A facts, asked : Paused(run, facts, asked).status = "awaiting_approval"
    BY <1>0 DEF Paused, Merge, TypeOK, RunState
  <2>2. QED  BY <1>0, <2>1 DEF ApplyPause, Commit, Throws, IsTerminal, Terminal
<1>4. ~\E t \in Tasks : ApplyOutcome(t) \/ Caught(t) \/ CompletionCommitFails(t)
    BY <1>0, TaskEndsNone
<1>5. QED  BY <1>0, <1>1, <1>2, <1>3, <1>4, StatusMoves

\* The cleanup goes on waiting for the harness.
LEMMA CleanupAwaits ==
    ASSUME ReleaseComesFirst, [Next]_vars, faults = 0, faults' = 0,
           harness # "off", harness' # "off", cleanup = "finalize" \/ cleanupCont
    PROVE  cleanup' = "finalize" \/ cleanupCont'
<1>1. CASE StartRun \/ Harness \/ \E c \in Calls : Tool(c)
    BY <1>1 DEF StartRun, Harness, Acquire, CaptureStart, CommitInput, ToolRound, Respond,
       CloseRound, HarnessStops, Pause, HarnessKeeps, Tool, ToolGates, ToolRefused,
       ToolExecutes, ToolEnds, ToolPersists, ToolKeeps, cleanupVars
<1>2. CASE \E t \in Tasks : Task(t)
    BY <1>2 DEF Task, ApplyPause, ApplyOutcome, Released, Caught, CompletionCommitFails,
       TaskFinalized, TaskFlushes, TaskSettles, TaskCommitKeeps, TaskKeeps, cleanupVars
<1>3. CASE Completion \/ SessionRestores \/ Recovery \/ UNCHANGED vars \/ Crash
  <2>1. CASE Completion \/ SessionRestores
    BY <2>1 DEF Completion, CompletionRetries, CompletionFinalized, SessionRestores,
       cleanupVars
  <2>2. CASE UNCHANGED vars \/ Crash
    BY <2>2 DEF cleanupVars, vars, Crash
  <2>3. CASE Recovery
    BY <2>3 DEF Recovery, RecoverApproval, RecoverRound, RecoverRunning, Recovered,
       RecoveryKeeps, cleanupVars
  <2>4. QED  BY <1>3, <2>1, <2>2, <2>3
<1>4. CASE Cleanup
    BY <1>4 DEF Cleanup, CleanupReleases, CleanupFinalized, CleanupSettles,
       CleanupFlushes, CleanupChecks, CleanupRetries, FinalizeEnds, Fault,
       ReleaseComesFirst
<1>5. CASE User
    BY <1>5 DEF User, Cancel, DecideApproval, cleanupVars
<1>6. CASE Pump
    BY <1>6 DEF Pump, PumpStarts, PumpFlushes, PumpSettles, PumpFinalized, PumpRetries,
       PumpKeeps, cleanupVars
<1>7. QED  BY <1>1, <1>2, <1>3, <1>4, <1>5, <1>6 DEF Next

\* The cancel of a run whose harness is at work.
LEMMA CancelStarts ==
    ASSUME GateInv, HarnessInv, Cancel, harness # "off", ~IsTerminal(run)
    PROVE  run'.status = "cancelled" /\ (cleanup' = "finalize" \/ cleanupCont')
<1>1. cleanup = "off" /\ session # "none"
    BY DEF GateInv, HaltedIsOver, HarnessInv, HarnessIsOwned
<1>2. run'.status = "cancelled"
    BY DEF Cancel, Commit, Ended, Merge, GateInv, TypeOK, RunState
<1>3. QED  BY <1>1, <1>2 DEF Cancel, CleanupGoesOn, FinalizeStart

\* The tasks that hold a run after a step.
LEMMA HoldsMoves ==
    ASSUME TypeOK, ExecutionInv, [Next]_vars, ~StartRun,
           ~\E c \in Calls, d \in {"approve_once", "reject"} : DecideApproval(c, d)
    PROVE  \A t \in Tasks : Holds(t)' => Holds(t)
<1>1. ASSUME UNCHANGED taskVars
      PROVE  \A t \in Tasks : Holds(t)' => Holds(t)
    BY <1>1 DEF taskVars, Holds
<1>2. CASE Harness
  <2>1. ASSUME NEW kind, NEW facts, NEW asked, Returned(kind, facts, asked)
        PROVE  \A t \in Tasks : Holds(t)' => Holds(t)
    BY <2>1 DEF Returned, Holds
  <2>2. CASE HarnessStops \/ Pause \/ Acquire
    BY <1>1, <2>1, <2>2 DEF HarnessStops, Pause, Acquire
  <2>3. CASE CaptureStart
    <3>1. CASE Goto("execute", "caught")
      BY <2>3, <3>1 DEF CaptureStart, ExecutionInv, Goto, Holds, TypeOK, TasksOK
    <3>2. QED  BY <1>1, <2>3, <3>1 DEF CaptureStart
  <2>4. QED
    BY <1>1, <1>2, <2>2, <2>3 DEF Harness, CommitInput, ToolRound, Respond, CloseRound,
       HarnessKeeps
<1>3. CASE \E c \in Calls : Tool(c)
    BY <1>1, <1>3 DEF Tool, ToolGates, ToolRefused, ToolExecutes, ToolEnds, ToolPersists,
       ToolKeeps
<1>4. CASE \E t \in Tasks : Task(t)
  <2>1. PICK t \in Tasks : Task(t)
    BY <1>4
  <2>2. Holds(t) \/ \E p \in {"off", "flush", "check"} : Goto(t, p)
    BY <2>1 DEF Task, ApplyPause, ApplyOutcome, Caught, Released, TaskFinalized,
       CompletionCommitFails, TaskFlushes, TaskSettles, EndsTask, Holds
  <2>3. \E p \in TaskPc : Goto(t, p)
    BY <2>1 DEF Task, ApplyPause, ApplyOutcome, Caught, Released, TaskFinalized,
       CompletionCommitFails, TaskFlushes, TaskSettles, EndsTask, EndsRun, TaskPc
  <2>4. QED  BY <2>2, <2>3 DEF Goto, Holds, TypeOK, TasksOK
<1>5. CASE Completion \/ SessionRestores \/ Cancel \/ Recovery \/ UNCHANGED vars
    BY <1>1, <1>5 DEF Completion, CompletionRetries, CompletionFinalized, SessionRestores,
       Cancel, Recovery, RecoverApproval, RecoverRound, RecoverRunning, Recovered,
       RecoveryKeeps, vars
<1>6. CASE Cleanup \/ Pump
    BY <1>1, <1>6 DEF Cleanup, CleanupReleases, CleanupFinalized, CleanupSettles,
       CleanupFlushes, CleanupChecks, CleanupRetries, CleanupKeeps, Pump, PumpStarts,
       PumpFlushes, PumpSettles, PumpFinalized, PumpRetries, PumpKeeps
<1>7. CASE Crash
    BY <1>7 DEF Crash, Holds
<1>8. QED  BY <1>2, <1>3, <1>4, <1>5, <1>6, <1>7 DEF Next, User

\* A task that ends the run it holds finalizes it, or is through with it.
LEMMA TaskEndFinalizes ==
    ASSUME GateInv, ExecutionInv, NEW t \in Tasks, ~IsTerminal(run), IsTerminal(run'),
           ApplyOutcome(t) \/ Caught(t) \/ CompletionCommitFails(t)
    PROVE  \A u \in Tasks : Holds(u)' => pc'[u] = "finalize"
<1>0. TypeOK /\ run' # run
    BY DEF GateInv
<1>1. \E p \in {"finalize", "flush"} : Goto(t, p)
    BY <1>0 DEF ApplyOutcome, Caught, CompletionCommitFails, EndsRun, Commit, Throws
<1>2. \A u \in Tasks \ {t} : ~Holds(u)
    BY DEF ExecutionInv, OneTaskHolds, ApplyOutcome, Caught, CompletionCommitFails, Holds
<1>3. QED  BY <1>0, <1>1, <1>2 DEF Goto, Holds, TypeOK, TasksOK

LEMMA EndIsFinalizedSteps ==
    ASSUME GateInv, ExecutionInv, EndIsFinalized, [Next]_vars
    PROVE  EndIsFinalized'
<1> SUFFICES ASSUME IsTerminal(run'), cancels' = 0, NEW t \in Tasks, Holds(t)'
             PROVE  pc'[t] = "finalize"
    BY DEF EndIsFinalized
<1>0. TypeOK /\ cancels = 0 /\ ~Cancel
  <2>1. TypeOK
    BY DEF GateInv
  <2>2. cancels = 0
    BY <2>1, CancelsGrow
  <2>3. ~Cancel
    BY <2>2 DEF Cancel
  <2>4. QED  BY <2>1, <2>2, <2>3
<1>1. ~StartRun /\ ~\E c \in Calls, d \in {"approve_once", "reject"} : DecideApproval(c, d)
  <2>1. run'.status # "running"
    BY DEF IsTerminal, Terminal
  <2>2. ~StartRun
    BY <1>0, <2>1 DEF StartRun, Commit, Start, TypeOK, RunState
  <2>3. ASSUME NEW c \in Calls, NEW d \in {"approve_once", "reject"}, DecideApproval(c, d)
        PROVE  FALSE
    BY <1>0, <2>1, <2>3 DEF DecideApproval, Commit, Decided, TypeOK, RunState
  <2>4. QED  BY <2>2, <2>3
<1>2. Holds(t)
    BY <1>0, <1>1, HoldsMoves
<1>3. CASE IsTerminal(run)
  <2>1. pc[t] = "finalize"
    BY <1>0, <1>2, <1>3 DEF EndIsFinalized
  <2>2. CASE \E u \in Tasks : Task(u)
    <3>1. PICK u \in Tasks : Task(u)
      BY <2>2
    <3>2. CASE u = t
      <4>1. Goto(t, "flush")
        BY <2>1, <3>1, <3>2 DEF Task, ApplyPause, ApplyOutcome, Released, Caught,
           CompletionCommitFails, TaskFinalized, TaskFlushes, TaskSettles
      <4>2. QED  BY <1>0, <4>1 DEF Goto, Holds, TypeOK, TasksOK
    <3>3. CASE u # t
      <4>1. \E p \in TaskPc : Goto(u, p)
        BY <3>1 DEF Task, ApplyPause, ApplyOutcome, Caught, Released, TaskFinalized,
           CompletionCommitFails, TaskFlushes, TaskSettles, EndsTask, EndsRun, TaskPc
      <4>2. QED  BY <1>0, <2>1, <3>3, <4>1 DEF Goto, TypeOK, TasksOK
    <3>4. QED  BY <3>2, <3>3
  <2>3. CASE ~\E u \in Tasks : Task(u)
    <3>1. CASE Harness
      <4>1. ASSUME NEW kind, NEW facts, NEW asked, Returned(kind, facts, asked)
            PROVE  pc'[t] = pc[t]
        BY <2>1, <4>1 DEF Returned
      <4>2. CASE CaptureStart
        BY <1>0, <2>1, <4>2 DEF CaptureStart, ExecutionInv, Goto, TypeOK, TasksOK, taskVars
      <4>3. QED
        BY <2>1, <3>1, <4>1, <4>2 DEF Harness, Acquire, CommitInput, ToolRound, Respond,
           CloseRound, HarnessStops, Pause, HarnessKeeps, taskVars
    <3>2. CASE Cleanup \/ Pump
      BY <2>1, <3>2 DEF Cleanup, CleanupReleases, CleanupFinalized, CleanupSettles,
         CleanupFlushes, CleanupChecks, CleanupRetries, CleanupKeeps, Pump, PumpStarts,
         PumpFlushes, PumpSettles, PumpFinalized, PumpRetries, PumpKeeps, taskVars
    <3>3. CASE Completion \/ SessionRestores \/ Recovery \/ UNCHANGED vars
      BY <2>1, <3>3 DEF Completion, CompletionRetries, CompletionFinalized, SessionRestores,
         Recovery, RecoverApproval, RecoverRound, RecoverRunning, Recovered,
         RecoveryKeeps, vars, taskVars
    <3>4. CASE \E c \in Calls : Tool(c)
      BY <2>1, <3>4 DEF Tool, ToolGates, ToolRefused, ToolExecutes, ToolEnds,
         ToolPersists, ToolKeeps, taskVars
    <3>5. CASE Crash
      BY <3>5 DEF Crash, Holds
    <3>6. QED
      BY <1>0, <1>1, <2>3, <3>1, <3>2, <3>3, <3>4, <3>5 DEF Next, User
  <2>4. QED  BY <2>2, <2>3
<1>4. CASE ~IsTerminal(run)
  <2>1. run'.status # run.status
    BY <1>4 DEF IsTerminal
  <2>2. Live /\ retry = "off"
    BY <1>2 DEF GateInv, HaltedIsOver, ExecutionInv, OneTaskHolds, Holds
  <2>3. ~CompletionRetries /\ ~RecoverApproval /\ ~RecoverRunning
    BY <2>2 DEF CompletionRetries, RecoverApproval, RecoverRunning, Live
  <2>4. ~\E u \in Tasks : ApplyPause(u)
    <3>1. \A facts, asked : Paused(run, facts, asked).status = "awaiting_approval"
      BY <1>0 DEF Paused, Merge, TypeOK, RunState
    <3>2. QED  BY <1>4, <3>1 DEF ApplyPause, Commit, Throws, IsTerminal, Terminal
  <2>5. QED
    BY <1>0, <1>1, <1>4, <2>1, <2>3, <2>4, StatusMoves, TaskEndFinalizes
<1>5. QED  BY <1>3, <1>4

LEMMA EndInvSteps ==
    ASSUME GateInv, ExecutionInv, OutcomeInv, CleanupInv, HarnessInv, EndInv, [Next]_vars
    PROVE  EndInv'
<1>0. TypeOK /\ KeepsFinal(run, run')
    BY NextKeeps, SnapshotStepKeeps DEF GateInv, TypeOK
<1>1. EndIsFinalized'
    BY EndIsFinalizedSteps DEF EndInv
<1>2. faults' = 0 => faults = 0
    BY <1>0, FaultSteps, FaultGrows DEF FaultsGrow
<1>3. ~StartRun \/ ~IsTerminal(run')
    BY <1>0 DEF StartRun, Commit, Start, TypeOK, RunState, IsTerminal, Terminal
<1>4. CancelAwaitsHarness'
  <2> SUFFICES ASSUME faults' = 0, harness' # "off", IsTerminal(run')
               PROVE  /\ run'.status = "cancelled" /\ cancels' > 0
                      /\ cleanup' = "finalize" \/ cleanupCont'
    BY DEF CancelAwaitsHarness
  <2>1. faults = 0 /\ harness # "off"
    BY <1>2, <1>3, HarnessStarts
  <2>2. CASE IsTerminal(run)
    <3>1. run.status = "cancelled" /\ cancels > 0 /\ (cleanup = "finalize" \/ cleanupCont)
      BY <2>1, <2>2 DEF EndInv, CancelAwaitsHarness
    <3>2. run'.status = "cancelled" /\ cancels' > 0
      BY <1>0, <2>2, <3>1, CancelsGrow DEF KeepsFinal
    <3>3. QED  BY <2>1, <3>1, <3>2, CleanupAwaits DEF CleanupInv
  <2>3. CASE ~IsTerminal(run)
    <3>1. Cancel
      BY <2>1, <2>3, OnlyCancelEnds
    <3>2. cancels' > 0
      BY <1>0, <3>1 DEF Cancel, TypeOK, SystemOK
    <3>3. QED  BY <2>1, <2>3, <3>1, <3>2, CancelStarts
  <2>4. QED  BY <2>2, <2>3
<1>5. FinalizesAfterFault'
  <2> SUFFICES ASSUME NEW t \in Tasks, pc'[t] = "finalize", harness' # "off", faults' = 0
               PROVE  FALSE
    BY <1>0, FaultSteps DEF FinalizesAfterFault, FaultsGrow
  <2>1. ~StartRun
    BY <1>0 DEF StartRun, Goto, TypeOK, TasksOK, GateInv, HaltedIsOver
  <2>2. faults = 0 /\ harness # "off"
    BY <1>2, <2>1, HarnessStarts
  <2>3. pc[t] # "finalize"
    BY <2>2 DEF EndInv, FinalizesAfterFault
  <2>4. CASE \E u \in Tasks : Task(u)
    <3>1. PICK u \in Tasks : Task(u)
      BY <2>4
    <3>2. CASE ApplyOutcome(u) \/ Caught(u) \/ CompletionCommitFails(u)
      <4>1. Goto(u, "flush")
        BY <2>2, <3>2, TaskEndsNone
      <4>2. QED  BY <1>0, <2>3, <4>1 DEF Goto, TypeOK, TasksOK
    <3>3. CASE ~(ApplyOutcome(u) \/ Caught(u) \/ CompletionCommitFails(u))
      <4>1. \E p \in TaskPc \ {"finalize"} : Goto(u, p)
        BY <3>1, <3>3 DEF Task, ApplyPause, Released, TaskFinalized, TaskFlushes,
           TaskSettles, EndsTask, TaskPc
      <4>2. QED  BY <1>0, <2>3, <4>1 DEF Goto, TypeOK, TasksOK
    <3>4. QED  BY <3>2, <3>3
  <2>5. CASE Harness
    <3>1. ASSUME NEW kind, NEW facts, NEW asked, Returned(kind, facts, asked)
          PROVE  FALSE
      BY <2>3, <3>1 DEF Returned
    <3>2. CASE CaptureStart
      BY <1>0, <2>3, <3>2 DEF CaptureStart, Goto, TypeOK, TasksOK, taskVars
    <3>3. QED
      BY <2>3, <2>5, <3>1, <3>2 DEF Harness, Acquire, CommitInput, ToolRound, Respond,
         CloseRound, HarnessStops, Pause, HarnessKeeps, taskVars
  <2>6. CASE Cleanup \/ Pump
    BY <2>3, <2>6 DEF Cleanup, CleanupReleases, CleanupFinalized, CleanupSettles,
       CleanupFlushes, CleanupChecks, CleanupRetries, CleanupKeeps, Pump, PumpStarts,
       PumpFlushes, PumpSettles, PumpFinalized, PumpRetries, PumpKeeps, taskVars
  <2>7. CASE Completion \/ SessionRestores \/ Recovery \/ UNCHANGED vars
    BY <2>3, <2>7 DEF Completion, CompletionRetries, CompletionFinalized, SessionRestores,
       Recovery, RecoverApproval, RecoverRound, RecoverRunning, Recovered,
       RecoveryKeeps, vars, taskVars
  <2>8. CASE \E c \in Calls : Tool(c)
    BY <2>3, <2>8 DEF Tool, ToolGates, ToolRefused, ToolExecutes, ToolEnds,
       ToolPersists, ToolKeeps, taskVars
  <2>9. CASE Crash \/ User
    BY <1>0, <2>3, <2>9 DEF Crash, User, Cancel, DecideApproval, Goto, TypeOK, TasksOK,
       taskVars
  <2>10. QED
    BY <2>1, <2>4, <2>5, <2>6, <2>7, <2>8, <2>9 DEF Next
<1>6. QED  BY <1>1, <1>4, <1>5 DEF EndInv

-----------------------------------------------------------------------------
(* Who holds the harness. *)

\* A harness that its task left behind: by a fault and what came on top of it, or because
\* its pause contradicts what is recorded.  A run that ended then keeps its controller, or
\* a result in its buffer that cannot be stored.
Forsaken ==
    IF faults > 0 THEN faults > 1 \/ cancels > 0 \/ run.status = "running"
    ELSE \/ /\ run.status = "running"
            /\ \E c \in Calls : Clashes(c)
            /\ \E t \in Tasks :
                /\ \A u \in Tasks \ {t} : pc[u] = "off"
                /\ pc[t] # "off" => Pauses(t) /\ execution = t
         \/ /\ IsTerminal(run)
            /\ \/ controller /\ \A t \in Tasks : pc[t] # "off" => Pauses(t)
               \/ (\E c \in Calls : Clashes(c)) /\ \A t \in Tasks : pc[t] = "off"

\* A harness at work is held by a continuation or a task, or was left behind.
HarnessIsHeld ==
    harness # "off" =>
        continuation \/ cleanupCont \/ (\E t \in Tasks : Holds(t)) \/ Forsaken

\* Without a fault only the pause of a result that cannot be remembered is caught.
CaughtClashes ==
    \A t \in Tasks : pc[t] = "caught" /\ harness # "off" /\ faults = 0 /\ ~IsTerminal(run) =>
        (\E c \in Calls : Clashes(c)) /\ \A u \in Tasks \ {t} : pc[u] = "off"

\* All of it: inductive (with the invariants before).
HeldInv == HarnessIsHeld /\ CaughtClashes

\* Neither the start nor a decision.
GoesOn ==
    ~StartRun /\ ~\E c \in Calls, d \in {"approve_once", "reject"} : DecideApproval(c, d)

\* The outcome of a task stays, and so does the execution of a task that goes on.
LEMMA TasksKeepOutcome ==
    ASSUME TypeOK, [Next]_vars, GoesOn, harness' # "off"
    PROVE  /\ \A t \in Tasks : pc[t] # "loop" => outcome'[t] = outcome[t]
           /\ \A t \in Tasks : execution = t => execution' = t \/ pc'[t] = "off"
<1>1. ASSUME UNCHANGED <<outcome, execution>>
      PROVE  /\ \A t \in Tasks : pc[t] # "loop" => outcome'[t] = outcome[t]
             /\ \A t \in Tasks : execution = t => execution' = t \/ pc'[t] = "off"
    BY <1>1
<1>2. CASE Harness
  <2>1. ASSUME NEW kind, NEW facts, NEW asked, Returned(kind, facts, asked)
        PROVE  /\ \A t \in Tasks : pc[t] # "loop" => outcome'[t] = outcome[t]
               /\ \A t \in Tasks : execution = t => execution' = t \/ pc'[t] = "off"
    BY <2>1 DEF Returned
  <2>2. CASE HarnessStops \/ Pause \/ Acquire
    BY <1>1, <2>1, <2>2 DEF HarnessStops, Pause, Acquire, taskVars
  <2>3. QED
    BY <1>1, <1>2, <2>2 DEF Harness, CaptureStart, CommitInput, ToolRound, Respond,
       CloseRound, HarnessKeeps, taskVars
<1>3. CASE \E c \in Calls : Tool(c)
    BY <1>1, <1>3 DEF Tool, ToolGates, ToolRefused, ToolExecutes, ToolEnds, ToolPersists,
       ToolKeeps, taskVars
<1>4. CASE \E t \in Tasks : Task(t)
  <2>1. PICK t \in Tasks : Task(t)
    BY <1>4
  <2>2. outcome' = outcome /\ (execution' = execution \/ EndsTask(t))
    BY <2>1 DEF Task, ApplyPause, ApplyOutcome, Caught, Released, TaskFinalized,
       CompletionCommitFails, TaskFlushes, TaskSettles, TaskCommitKeeps
  <2>3. CASE EndsTask(t)
    BY <2>2, <2>3 DEF EndsTask, Goto, TypeOK, TasksOK
  <2>4. QED  BY <1>1, <2>2, <2>3
<1>5. CASE Completion \/ SessionRestores \/ Cancel \/ Recovery \/ UNCHANGED vars
    BY <1>1, <1>5 DEF Completion, CompletionRetries, CompletionFinalized, SessionRestores,
       Cancel, Recovery, RecoverApproval, RecoverRound, RecoverRunning, Recovered,
       RecoveryKeeps, vars, taskVars
<1>6. CASE Cleanup \/ Pump
    BY <1>1, <1>6 DEF Cleanup, CleanupReleases, CleanupFinalized, CleanupSettles,
       CleanupFlushes, CleanupChecks, CleanupRetries, CleanupKeeps, Pump, PumpStarts,
       PumpFlushes, PumpSettles, PumpFinalized, PumpRetries, PumpKeeps, taskVars
<1>7. ~Crash
    BY DEF Crash
<1>8. QED  BY <1>2, <1>3, <1>4, <1>5, <1>6, <1>7 DEF Next, User, GoesOn

\* The controller of a run that was cancelled stays with its pauses.
LEMMA ControllerStays ==
    ASSUME [Next]_vars, harness # "off", harness' # "off", ReleaseComesFirst,
           cleanup = "finalize" \/ cleanupCont,
           controller, \A t \in Tasks : pc[t] # "off" => Pauses(t)
    PROVE  controller'
<1>1. CASE StartRun \/ Harness \/ \E c \in Calls : Tool(c)
    BY <1>1 DEF StartRun, Harness, Acquire, CaptureStart, CommitInput, ToolRound, Respond,
       CloseRound, HarnessStops, Pause, HarnessKeeps, Tool, ToolGates, ToolRefused,
       ToolExecutes, ToolEnds, ToolPersists, ToolKeeps, handleVars
<1>2. CASE \E t \in Tasks : Task(t)
  <2>1. PICK t \in Tasks : Task(t)
    BY <1>2
  <2>2. pc[t] # "off" /\ (controller' = controller \/ EndsTask(t))
    BY <2>1 DEF Task, ApplyPause, ApplyOutcome, Caught, Released, TaskFinalized,
       CompletionCommitFails, TaskFlushes, TaskSettles, TaskCommitKeeps, handleVars
  <2>3. QED  BY <2>2 DEF EndsTask, Pauses
<1>3. CASE Completion \/ SessionRestores \/ Recovery \/ UNCHANGED vars \/ Crash
  <2>1. CASE Completion \/ SessionRestores \/ Crash
    BY <2>1 DEF Completion, CompletionRetries, CompletionFinalized, SessionRestores,
       handleVars, Crash
  <2>2. CASE Recovery \/ UNCHANGED vars
    BY <2>2 DEF Recovery, RecoverApproval, RecoverRound, RecoverRunning, Recovered,
       RecoveryKeeps, handleVars, vars
  <2>3. QED  BY <1>3, <2>1, <2>2
<1>4. CASE Cleanup
    BY <1>4 DEF Cleanup, CleanupReleases, CleanupFinalized, CleanupSettles,
       CleanupFlushes, CleanupChecks, CleanupRetries, ReleaseComesFirst
<1>5. CASE Pump
    BY <1>5 DEF Pump, PumpStarts, PumpFlushes, PumpSettles, PumpFinalized, PumpRetries,
       PumpKeeps, handleVars
<1>6. CASE User
    BY <1>6 DEF User, Cancel, DecideApproval
<1>7. QED  BY <1>1, <1>2, <1>3, <1>4, <1>5, <1>6 DEF Next

\* A continuation is taken over by a decision, or by the cleanup, which keeps it until the
\* harness has stopped.
LEMMA HandleStands ==
    ASSUME TypeOK, [Next]_vars, harness # "off", harness' # "off", continuation \/ cleanupCont
    PROVE  continuation' \/ cleanupCont' \/ \E t \in Tasks : Holds(t)'
<1>1. CASE StartRun \/ Harness \/ \E c \in Calls : Tool(c)
    BY <1>1 DEF StartRun, Harness, Acquire, CaptureStart, CommitInput, ToolRound, Respond,
       CloseRound, HarnessStops, Pause, HarnessKeeps, Tool, ToolGates, ToolRefused,
       ToolExecutes, ToolEnds, ToolPersists, ToolKeeps, handleVars, cleanupVars
<1>2. CASE \E t \in Tasks : Task(t)
  <2>1. cleanupCont' = cleanupCont /\ (continuation => continuation')
    BY <1>2 DEF Task, ApplyPause, ApplyOutcome, Caught, Released, TaskFinalized,
       CompletionCommitFails, TaskFlushes, TaskSettles, TaskCommitKeeps, TaskKeeps,
       handleVars, cleanupVars
  <2>2. QED  BY <2>1
<1>3. CASE Completion \/ SessionRestores \/ Recovery \/ UNCHANGED vars \/ Crash
  <2>1. CASE Completion \/ SessionRestores \/ Crash
    BY <2>1 DEF Completion, CompletionRetries, CompletionFinalized, SessionRestores,
       handleVars, cleanupVars, Crash
  <2>2. CASE Recovery
    BY <2>2 DEF Recovery, RecoverApproval, RecoverRound, RecoverRunning, Recovered,
       RecoveryKeeps, handleVars, cleanupVars
  <2>3. CASE UNCHANGED vars
    BY <2>3 DEF handleVars, cleanupVars, vars
  <2>4. QED  BY <1>3, <2>1, <2>2, <2>3
<1>4. CASE Cleanup
    BY <1>4 DEF Cleanup, CleanupReleases, CleanupFinalized, CleanupSettles,
       CleanupFlushes, CleanupChecks, CleanupRetries, CleanupGoesOn, CleanupKeeps
<1>5. CASE Pump
    BY <1>5 DEF Pump, PumpStarts, PumpFlushes, PumpSettles, PumpFinalized, PumpRetries,
       PumpKeeps, handleVars, cleanupVars
<1>6. CASE Cancel
    BY <1>6 DEF Cancel
<1>7. CASE \E c \in Calls, d \in {"approve_once", "reject"} : DecideApproval(c, d)
  <2>1. Goto("decide", "loop")
    BY <1>7 DEF DecideApproval
  <2>2. Holds("decide")'
    BY <2>1 DEF Goto, Holds, TypeOK, TasksOK, Tasks
  <2>3. QED  BY <2>2 DEF Tasks
<1>8. QED  BY <1>1, <1>2, <1>3, <1>4, <1>5, <1>6, <1>7 DEF Next, User

\* How a task lets go of a run whose harness is at work.
LEMMA HoldsStands ==
    ASSUME GateInv, ExecutionInv, HarnessInv, [Next]_vars,
           harness # "off", harness' # "off", NEW t \in Tasks, Holds(t)
    PROVE  \/ Holds(t)' \/ continuation'
           \/ Caught(t) /\ Goto(t, "flush") /\ (IsTerminal(run) \/ run' = run)
           \/ pc[t] = "finalize" /\ Fault
<1>0. TypeOK
    BY DEF GateInv
<1>1. ASSUME pc'[t] = pc[t]
      PROVE  Holds(t)'
    BY <1>1 DEF Holds
<1>2. CASE StartRun
    BY <1>0, <1>2 DEF StartRun, GateInv, HaltedIsOver
<1>3. CASE Harness
  <2>1. ASSUME NEW kind, NEW facts, NEW asked, Returned(kind, facts, asked)
        PROVE  Holds(t)'
    BY <2>1 DEF Returned, Holds
  <2>2. CASE CaptureStart
    BY <1>0, <1>1, <2>2 DEF CaptureStart, taskVars
  <2>3. QED
    BY <1>1, <1>3, <2>1, <2>2 DEF Harness, Acquire, CommitInput, ToolRound, Respond,
       CloseRound, HarnessStops, Pause, HarnessKeeps, taskVars
<1>4. CASE \E c \in Calls : Tool(c)
    BY <1>1, <1>4 DEF Tool, ToolGates, ToolRefused, ToolExecutes, ToolEnds, ToolPersists,
       ToolKeeps, taskVars
<1>5. CASE \E u \in Tasks : Task(u)
  <2>1. PICK u \in Tasks : Task(u)
    BY <1>5
  <2>2. CASE u # t
    <3>1. \E p \in TaskPc : Goto(u, p)
      BY <2>1 DEF Task, ApplyPause, ApplyOutcome, Caught, Released, TaskFinalized,
         CompletionCommitFails, TaskFlushes, TaskSettles, EndsTask, EndsRun, TaskPc
    <3>2. QED  BY <1>0, <1>1, <2>2, <3>1 DEF Goto, TypeOK, TasksOK
  <2>3. CASE u = t
    <3>1. ~ApplyOutcome(t) /\ ~CompletionCommitFails(t) /\ ~Released(t)
      BY DEF ApplyOutcome, CompletionCommitFails, Released, HarnessInv, HarnessIsOwned,
         Pauses
    <3>2. CASE ApplyPause(t)
      <4>1. continuation' \/ Goto(t, "releaseOk") \/ Goto(t, "releaseErr")
        BY <3>2 DEF ApplyPause
      <4>2. QED  BY <1>0, <4>1 DEF Goto, Holds, TypeOK, TasksOK
    <3>3. CASE TaskFinalized(t)
      BY <3>3 DEF TaskFinalized, FinalizeEnds
    <3>4. ~TaskFlushes(t) /\ ~TaskSettles(t)
      BY DEF TaskFlushes, TaskSettles, Holds
    <3>5. CASE Caught(t)
      <4>1. CASE IsTerminal(run)
        BY <3>5, <4>1 DEF Caught
      <4>2. CASE ~IsTerminal(run)
        <5>1. session' = session /\ session # "none"
          BY <3>5 DEF Caught, TaskCommitKeeps, HarnessInv, HarnessIsOwned
        <5>2. Goto(t, "finalize") \/ (Goto(t, "flush") /\ run' = run)
          BY <3>5, <4>2, <5>1 DEF Caught, EndsRun, FinalizeStart, Throws
        <5>3. QED  BY <1>0, <3>5, <5>2 DEF Goto, Holds, TypeOK, TasksOK
      <4>3. QED  BY <4>1, <4>2
    <3>6. QED  BY <2>1, <2>3, <3>1, <3>2, <3>3, <3>4, <3>5 DEF Task
  <2>4. QED  BY <2>2, <2>3
<1>6. CASE Completion \/ SessionRestores \/ Recovery \/ UNCHANGED vars
    BY <1>1, <1>6 DEF Completion, CompletionRetries, CompletionFinalized, SessionRestores,
       Recovery, RecoverApproval, RecoverRound, RecoverRunning, Recovered,
       RecoveryKeeps, vars, taskVars
<1>7. CASE Cleanup \/ Pump
    BY <1>1, <1>7 DEF Cleanup, CleanupReleases, CleanupFinalized, CleanupSettles,
       CleanupFlushes, CleanupChecks, CleanupRetries, CleanupKeeps, Pump, PumpStarts,
       PumpFlushes, PumpSettles, PumpFinalized, PumpRetries, PumpKeeps, taskVars
<1>8. CASE Cancel \/ Crash
    BY <1>1, <1>8 DEF Cancel, Crash, taskVars
<1>9. CASE \E c \in Calls, d \in {"approve_once", "reject"} : DecideApproval(c, d)
  <2>1. Goto("decide", "loop")
    BY <1>9 DEF DecideApproval
  <2>2. QED  BY <1>0, <1>1, <2>1 DEF Goto, Holds, TypeOK, TasksOK, Tasks
<1>10. QED
    BY <1>2, <1>3, <1>4, <1>5, <1>6, <1>7, <1>8, <1>9 DEF Next, User

\* A run that nobody holds is ended by a cancel only.
LEMMA LeftRunning ==
    ASSUME GateInv, HarnessInv, [Next]_vars, ~Cancel, harness # "off",
           run.status = "running", \A t \in Tasks : ~Holds(t)
    PROVE  run'.status = "running"
<1>1. TypeOK /\ Live
    BY DEF GateInv, HaltedIsOver
<1>2. ~StartRun /\ ~RecoverApproval /\ ~RecoverRunning /\ ~CompletionRetries
    BY <1>1 DEF StartRun, RecoverApproval, RecoverRunning, CompletionRetries, Live,
       HarnessInv, HarnessIsOwned
<1>3. ~\E c \in Calls, d \in {"approve_once", "reject"} : DecideApproval(c, d)
    BY DEF DecideApproval, CanDecide
<1>4. ~\E t \in Tasks :
            ApplyPause(t) \/ ApplyOutcome(t) \/ Caught(t) \/ CompletionCommitFails(t)
    BY DEF ApplyPause, ApplyOutcome, Caught, CompletionCommitFails, Holds
<1>5. QED  BY <1>1, <1>2, <1>3, <1>4, StatusMoves

\* A result that is remembered does not replace another one, and a flush that cannot store
\* a result keeps it.
LEMMA BufferStands ==
    ASSUME TypeOK, NEW c \in Calls, Clashes(c)
    PROVE  /\ \A facts : accepted' = Remembered(facts) => accepted'[c] = accepted[c]
           /\ FlushAccepted => accepted'[c] = accepted[c]
<1>1. \A facts : accepted' = Remembered(facts) => accepted'[c] = accepted[c]
    BY DEF Remembered, Remembers, Clashes, FinalFact
<1>2. ~Compatible(run.fact[c], accepted[c])
    BY DEF Compatible, Clashes, FinalFact
<1>3. FlushAccepted => accepted'[c] = accepted[c]
    BY <1>2 DEF FlushAccepted
<1>4. QED  BY <1>1, <1>3

\* A clash stands as long as the harness is at work: the round is not settled under it.
LEMMA ClashStands ==
    ASSUME GateInv, FactInv, CallInv, CleanupInv, HarnessInv, EndInv, [Next]_vars,
           faults = 0, harness # "off", harness' # "off", ~\E t \in Tasks : ApplyPause(t),
           NEW c \in Calls, Clashes(c), ~IsTerminal(run) \/ \A t \in Tasks : pc[t] = "off"
    PROVE  Clashes(c)'
<1>0. TypeOK /\ KeepsFinal(run, run')
    BY NextKeeps, SnapshotStepKeeps DEF GateInv, TypeOK
<1>1. SUFFICES accepted'[c] = accepted[c]
    BY <1>0 DEF Clashes, KeepsFinal
<1>2. CASE StartRun
    BY <1>2 DEF StartRun
<1>3. CASE Harness
  <2>1. ASSUME NEW kind, NEW facts, NEW asked, Returned(kind, facts, asked)
        PROVE  accepted'[c] = accepted[c]
    BY <1>0, <2>1, BufferStands DEF Returned
  <2>2. QED
    BY <1>3, <2>1 DEF Harness, Acquire, CaptureStart, CommitInput, ToolRound, Respond,
       CloseRound, HarnessStops, Pause, HarnessKeeps
<1>4. CASE \E d \in Calls : Tool(d)
  <2>1. PICK d \in Calls : Tool(d)
    BY <1>4
  <2>2. CASE ToolGates(d) \/ ToolRefused(d) \/ ToolEnds(d)
    BY <1>0, <2>2, BufferStands DEF ToolGates, ToolRefused, ToolEnds, Returns
  <2>3. CASE ToolExecutes(d)
    BY <2>3 DEF ToolExecutes
  <2>4. CASE ToolPersists(d)
    <3>1. accepted' = accepted \/ accepted' = Forgotten(run', OneFact(d, result[d]))
      BY <2>4 DEF ToolPersists
    <3>2. CASE d = c
      <4>1. accepted[c] = result[c]
        BY <2>4, <3>2 DEF ToolPersists, CallInv, ResultBooks, Clashes, FinalFact
      <4>2. run'.fact[c] # result[c] /\ OneFact(d, result[d])[c] = result[c]
        BY <1>0, <3>2, <4>1 DEF Clashes, KeepsFinal, OneFact, NoFacts
      <4>3. QED  BY <3>1, <4>2 DEF Forgotten
    <3>3. CASE d # c
      BY <3>1, <3>3 DEF Forgotten, OneFact, NoFacts
    <3>4. QED  BY <3>2, <3>3
  <2>5. QED  BY <2>1, <2>2, <2>3, <2>4 DEF Tool
<1>5. CASE \E t \in Tasks : Task(t)
  <2>1. PICK t \in Tasks : Task(t)
    BY <1>5
  <2>2. CASE TaskFlushes(t)
    BY <1>0, <2>2, BufferStands DEF TaskFlushes
  <2>3. CASE TaskSettles(t)
    <3>1. ~IsTerminal(run)
      BY <2>3 DEF TaskSettles
    <3>2. session = "open" \/ run.round = {}
      BY <3>1 DEF HarnessInv, SessionIsOpen, FactInv, RoundsInTurn, BetweenRounds
    <3>3. QED  BY <2>3, <3>2 DEF TaskSettles, SettleRound, ReconcilePending
  <2>4. CASE ~(TaskFlushes(t) \/ TaskSettles(t))
    BY <2>1, <2>4 DEF Task, ApplyOutcome, Released, Caught, CompletionCommitFails,
       TaskFinalized, TaskCommitKeeps
  <2>5. QED  BY <2>2, <2>3, <2>4
<1>6. CASE Completion \/ SessionRestores \/ Cancel
    BY <1>6 DEF Completion, CompletionRetries, CompletionFinalized, SessionRestores, Cancel
<1>7. CASE Cleanup
  <2>1. cleanup \notin {"flush", "check"}
    BY DEF GateInv, HaltedIsOver, EndInv, CancelAwaitsHarness, CleanupInv,
       ReleaseComesFirst
  <2>2. QED  BY <1>7, <2>1 DEF Cleanup, CleanupReleases, CleanupFinalized,
       CleanupSettles, CleanupFlushes, CleanupChecks, CleanupRetries
<1>8. CASE Pump
  <2>1. pump \notin {"flush", "check"}
    BY DEF EndInv, CancelAwaitsHarness, CleanupInv, PumpSettlesEnds
  <2>2. QED  BY <1>8, <2>1 DEF Pump, PumpStarts, PumpFlushes, PumpSettles,
       PumpFinalized, PumpRetries
<1>9. CASE Recovery \/ Crash \/ UNCHANGED vars
    BY <1>9 DEF Recovery, RecoverApproval, RecoverRound, RecoverRunning, Recovered,
       RecoveryKeeps, Crash, vars
<1>10. CASE \E d \in Calls, how \in {"approve_once", "reject"} : DecideApproval(d, how)
    BY <1>10 DEF DecideApproval
<1>11. QED
    BY <1>2, <1>3, <1>4, <1>5, <1>6, <1>7, <1>8, <1>9, <1>10 DEF Next, User

\* A pause is caught when it has a result that the buffer contradicts, and nobody else
\* is at work then.
LEMMA CaughtSteps ==
    ASSUME GateInv, FactInv, CallInv, ExecutionInv, CleanupInv, HarnessInv, AgreeInv,
           EndInv, HeldInv, [Next]_vars
    PROVE  CaughtClashes'
<1> SUFFICES ASSUME NEW t \in Tasks, pc'[t] = "caught", harness' # "off", faults' = 0,
                    ~IsTerminal(run')
             PROVE  (\E c \in Calls : Clashes(c)') /\ \A u \in Tasks \ {t} : pc'[u] = "off"
    BY DEF CaughtClashes
<1>0. TypeOK /\ faults = 0 /\ ~IsTerminal(run)
  <2>1. IsTerminal(run) => IsTerminal(run')
    BY NextKeeps, SnapshotStepKeeps DEF GateInv, TypeOK, KeepsFinal, IsTerminal
  <2>2. TypeOK /\ faults = 0
    BY FaultSteps, FaultGrows DEF GateInv, FaultsGrow
  <2>3. QED  BY <2>1, <2>2
<1>1. GoesOn
  <2>1. ~StartRun
    BY <1>0 DEF StartRun, Goto, TypeOK, TasksOK, GateInv, HaltedIsOver
  <2>2. ASSUME NEW c \in Calls, NEW d \in {"approve_once", "reject"}, DecideApproval(c, d)
        PROVE  FALSE
    <3>1. Live /\ run.status = "awaiting_approval" /\ Goto("decide", "loop")
      BY <2>2 DEF DecideApproval, CanDecide
    <3>2. \A u \in Tasks : pc[u] # "caught"
      BY <3>1 DEF ExecutionInv, WaitsAtRest, Holds
    <3>3. QED  BY <1>0, <3>1, <3>2 DEF Goto, TypeOK, TasksOK
  <2>3. QED  BY <2>1, <2>2 DEF GoesOn
<1>2. harness # "off"
    BY <1>1, HarnessStarts DEF GoesOn
<1>3. CASE pc[t] = "caught"
  <2>1. (\E c \in Calls : Clashes(c)) /\ \A u \in Tasks \ {t} : pc[u] = "off"
    BY <1>0, <1>2, <1>3 DEF HeldInv, CaughtClashes
  <2>2. ~\E u \in Tasks : ApplyPause(u)
    BY <1>3, <2>1 DEF ApplyPause
  <2>3. \E c \in Calls : Clashes(c)'
    BY <1>0, <1>2, <2>1, <2>2, ClashStands
  <2>4. \A u \in Tasks \ {t} : pc'[u] = "off"
    BY <1>0, <1>1, <2>1, TasksGoOn DEF GoesOn
  <2>5. QED  BY <2>3, <2>4
<1>4. CASE pc[t] # "caught"
  <2>1. Pause
    <3>1. ~\E u \in Tasks : Task(u)
      <4>1. ASSUME NEW u \in Tasks, Task(u)
            PROVE  FALSE
        <5>1. CASE ApplyOutcome(u) \/ Released(u)
          BY <1>2, <5>1 DEF ApplyOutcome, Released, HarnessInv, HarnessIsOwned, Pauses
        <5>2. CASE ~(ApplyOutcome(u) \/ Released(u))
          <6>1. \E p \in TaskPc \ {"caught"} : Goto(u, p)
            BY <4>1, <5>2 DEF Task, ApplyPause, Caught, CompletionCommitFails,
               TaskFinalized, TaskFlushes, TaskSettles, EndsTask, EndsRun, TaskPc
          <6>2. QED  BY <1>0, <1>4, <6>1 DEF Goto, TypeOK, TasksOK
        <5>3. QED  BY <5>1, <5>2
      <4>2. QED  BY <4>1
    <3>2. CASE Harness
      BY <1>4, <3>2 DEF Harness, Acquire, CaptureStart, CommitInput, ToolRound, Respond,
         CloseRound, HarnessStops, HarnessKeeps, taskVars
    <3>3. CASE Cleanup \/ Pump
      BY <1>4, <3>3 DEF Cleanup, CleanupReleases, CleanupFinalized, CleanupSettles,
         CleanupFlushes, CleanupChecks, CleanupRetries, CleanupKeeps, Pump, PumpStarts,
         PumpFlushes, PumpSettles, PumpFinalized, PumpRetries, PumpKeeps, taskVars
    <3>4. CASE Completion \/ SessionRestores \/ Recovery \/ UNCHANGED vars
      BY <1>4, <3>4 DEF Completion, CompletionRetries, CompletionFinalized,
         SessionRestores, Recovery, RecoverApproval, RecoverRound, RecoverRunning,
         Recovered, RecoveryKeeps, vars, taskVars
    <3>5. CASE \E c \in Calls : Tool(c)
      BY <1>4, <3>5 DEF Tool, ToolGates, ToolRefused, ToolExecutes, ToolEnds,
         ToolPersists, ToolKeeps, taskVars
    <3>6. CASE Crash \/ Cancel
      BY <1>4, <3>6 DEF Crash, Cancel, taskVars
    <3>7. QED
      BY <1>1, <3>1, <3>2, <3>3, <3>4, <3>5, <3>6 DEF Next, User, GoesOn
  <2>2. pc[t] = "loop" /\ \E c \in Calls : ~Remembers(c, result[c])
    BY <1>4, <2>1 DEF Pause, Returned
  <2>3. PICK c \in Calls : ~Remembers(c, result[c])
    BY <2>2
  <2>4. Clashes(c) /\ result[c] = "unaccepted" /\ run.fact[c] # "unaccepted"
    BY <1>0, <2>3 DEF CallInv, MismatchBooks
  <2>5. Clashes(c)'
    <3>1. ~\E u \in Tasks : ApplyPause(u)
      BY <2>1, <2>2 DEF Pause, Returned, ApplyPause, Goto, TypeOK, TasksOK, ExecutionInv,
         OneTaskHolds, Holds
    <3>2. QED  BY <1>0, <1>2, <2>4, <3>1, ClashStands
  <2>6. ~Agrees(c)
    BY <2>4 DEF Agrees, Clashes, FinalFact, Early
  <2>7. execution = t
    BY <2>2 DEF ExecutionInv, OneTaskHolds, Holds
  <2>8. CASE t = "execute"
    <3>1. pc["decide"] = "off"
      BY <2>7, <2>8 DEF ExecutionInv, DecisionTakesOver
    <3>2. QED  BY <2>1, <2>5, <2>8, <3>1 DEF Pause, Returned, Tasks
  <2>9. CASE t = "decide"
    <3>1. ~Undisputed
      BY <2>6 DEF AgreeInv
    <3>2. pc["execute"] = "off"
      BY <1>0, <2>2, <2>9, <3>1 DEF Undisputed
    <3>3. QED  BY <2>1, <2>5, <2>9, <3>2 DEF Pause, Returned, Tasks
  <2>10. QED  BY <2>8, <2>9 DEF Tasks
<1>5. QED  BY <1>3, <1>4

\* A task that lets go of a harness at work forsakes it.
LEMMA HoldsForsakes ==
    ASSUME GateInv, ExecutionInv, HarnessInv, EndInv, HeldInv, [Next]_vars,
           harness # "off", harness' # "off", NEW t \in Tasks, Holds(t)
    PROVE  continuation' \/ Holds(t)' \/ Forsaken'
<1>0. TypeOK /\ FaultsGrow
    BY FaultSteps DEF GateInv
<1>1. CASE pc[t] = "finalize" /\ Fault
  <2>1. faults > 0
    BY <1>1 DEF EndInv, FinalizesAfterFault
  <2>2. faults' > 1 /\ faults' > 0
    BY <1>0, <1>1, <2>1 DEF Fault, TypeOK, SystemOK
  <2>3. QED  BY <2>2 DEF Forsaken
<1>2. CASE Caught(t) /\ Goto(t, "flush") /\ (IsTerminal(run) \/ run' = run)
  <2>1. pc[t] = "caught" /\ execution = t /\ controller /\ Pauses(t)
    BY <1>2 DEF Caught, ExecutionInv, OneTaskHolds, ExecutionIsAtWork, HarnessInv,
       HarnessIsOwned
  <2>2. UNCHANGED <<outcome, execution, controller, accepted>>
    BY <1>2 DEF Caught, TaskCommitKeeps, handleVars
  <2>3. \A u \in Tasks : pc[u] # "off" => Pauses(u)
    BY <2>1 DEF ExecutionInv, DecisionTakesOver, Tasks
  <2>4. \A u \in Tasks \ {t} : pc'[u] = pc[u]
    BY <1>0, <1>2 DEF Goto, TypeOK, TasksOK
  <2>5. CASE IsTerminal(run)
    <3>1. cancels > 0
      BY <1>0, <2>1, <2>5 DEF EndInv, EndIsFinalized, Holds, TypeOK, SystemOK
    <3>2. cancels' > 0
      BY <1>0, <3>1, CancelsGrow
    <3>3. IsTerminal(run')
      BY <1>2, <2>5 DEF Caught
    <3>4. \A u \in Tasks : pc'[u] # "off" => Pauses(u)'
      BY <2>1, <2>2, <2>3, <2>4 DEF Pauses
    <3>5. QED  BY <2>1, <2>2, <3>2, <3>3, <3>4 DEF Forsaken
  <2>6. CASE ~IsTerminal(run)
    <3>1. run' = run
      BY <1>2, <2>6
    <3>2. run.status = "running"
      <4>1. Live /\ run.status # "queued"
        BY DEF GateInv, HaltedIsOver
      <4>2. run.status # "awaiting_approval"
        BY <4>1 DEF ExecutionInv, WaitsAtRest
      <4>3. QED  BY <1>0, <2>6, <4>1, <4>2 DEF TypeOK, RunState, Status, Terminal, IsTerminal
    <3>3. CASE faults' = 0
      <4>1. faults = 0
        BY <1>0, <3>3, FaultGrows DEF FaultsGrow, TypeOK, SystemOK
      <4>2. (\E c \in Calls : Clashes(c)) /\ \A u \in Tasks \ {t} : pc[u] = "off"
        BY <2>1, <2>6, <4>1 DEF HeldInv, CaughtClashes
      <4>3. (\E c \in Calls : Clashes(c)') /\ \A u \in Tasks \ {t} : pc'[u] = "off"
        BY <2>2, <2>4, <3>1, <4>2 DEF Clashes
      <4>4. Pauses(t)' /\ execution' = t
        BY <2>1, <2>2 DEF Pauses
      <4>5. QED  BY <3>1, <3>2, <3>3, <4>3, <4>4 DEF Forsaken
    <3>4. CASE faults' # 0
      BY <1>0, <3>1, <3>2, <3>4 DEF Forsaken, FaultsGrow
    <3>5. QED  BY <3>3, <3>4
  <2>7. QED  BY <2>5, <2>6
<1>3. QED  BY <1>1, <1>2, HoldsStands

\* And it stays forsaken.
LEMMA ForsakenStands ==
    ASSUME GateInv, FactInv, CallInv, ExecutionInv, CleanupInv, HarnessInv, EndInv,
           [Next]_vars, harness # "off", harness' # "off", ~continuation, ~cleanupCont,
           \A t \in Tasks : ~Holds(t), Forsaken
    PROVE  Forsaken'
<1>0. TypeOK /\ FaultsGrow /\ KeepsFinal(run, run')
    BY NextKeeps, SnapshotStepKeeps, FaultSteps DEF GateInv, TypeOK
<1>1. GoesOn /\ ~\E t \in Tasks : ApplyPause(t)
    BY DEF GoesOn, StartRun, DecideApproval, ApplyPause, Holds, GateInv, HaltedIsOver
<1>2. cancels' >= cancels /\ cancels \in Nat /\ cancels' \in Nat
    BY <1>0, CancelsGrow
<1>3. CASE faults' # 0
  <2> SUFFICES ASSUME ~(faults' > 1), ~(cancels' > 0)
               PROVE  run'.status = "running"
    BY <1>0, <1>3 DEF Forsaken, FaultsGrow
  <2>1. cancels = 0 /\ ~Cancel
    <3>1. cancels = 0 /\ cancels' = 0
      BY <1>2
    <3>2. Cancel => cancels' = cancels + 1
      BY DEF Cancel
    <3>3. QED  BY <3>1, <3>2
  <2>2. run.status = "running"
    <3>1. CASE faults > 0
      BY <1>0, <2>1, <3>1 DEF Forsaken, FaultsGrow, TypeOK, SystemOK
    <3>2. CASE ~(faults > 0)
      <4>1. faults = 0
        BY <1>0, <3>2 DEF TypeOK, SystemOK
      <4>2. ~IsTerminal(run)
        BY <2>1, <4>1 DEF EndInv, CancelAwaitsHarness
      <4>3. QED  BY <3>2, <4>2 DEF Forsaken
    <3>3. QED  BY <3>1, <3>2
  <2>3. QED  BY <2>1, <2>2, LeftRunning
<1>4. CASE faults' = 0
  <2>1. faults = 0 /\ ~(faults > 0) /\ ~(faults' > 0)
    BY <1>0, <1>4 DEF FaultsGrow, TypeOK, SystemOK
  <2>2. /\ \A t \in Tasks : (pc[t] = "off" => pc'[t] = "off") /\ pc[t] # "loop"
        /\ \A t \in Tasks : outcome'[t] = outcome[t]
        /\ \A t \in Tasks : execution = t => execution' = t \/ pc'[t] = "off"
    BY <1>0, <1>1, TasksGoOn, TasksKeepOutcome DEF GoesOn, Holds
  <2>3. CASE run.status = "running"
    <3>1. ~IsTerminal(run)
      BY <2>3 DEF IsTerminal, Terminal
    <3>2. PICK c \in Calls, t \in Tasks :
              /\ Clashes(c)
              /\ \A u \in Tasks \ {t} : pc[u] = "off"
              /\ pc[t] # "off" => Pauses(t) /\ execution = t
      BY <2>1, <3>1 DEF Forsaken
    <3>3. Clashes(c)'
      BY <1>1, <2>1, <3>1, <3>2, ClashStands
    <3>4. /\ \A u \in Tasks \ {t} : pc'[u] = "off"
          /\ pc'[t] # "off" => Pauses(t)' /\ execution' = t
      BY <2>2, <3>2 DEF Pauses
    <3>5. CASE ~Cancel
      <4>1. run'.status = "running"
        BY <2>3, <3>5, LeftRunning
      <4>2. QED  BY <2>1, <3>3, <3>4, <4>1 DEF Forsaken
    <3>6. CASE Cancel
      <4>1. IsTerminal(run')
        BY <1>0, <3>1, <3>6, CancelStarts DEF IsTerminal, Terminal
      <4>2. CASE pc[t] = "off"
        BY <2>1, <2>2, <3>3, <3>4, <4>1, <4>2 DEF Forsaken
      <4>3. CASE pc[t] # "off"
        <5>1. controller /\ execution # "none"
          BY <3>2, <4>3 DEF ExecutionInv, ExecutionIsAtWork, Tasks
        <5>2. controller'
          BY <3>6, <5>1 DEF Cancel, CleanupGoesOn
        <5>3. \A u \in Tasks : pc'[u] # "off" => Pauses(u)'
          BY <3>4
        <5>4. QED  BY <2>1, <4>1, <5>2, <5>3 DEF Forsaken
      <4>4. QED  BY <4>2, <4>3
    <3>7. QED  BY <3>5, <3>6
  <2>4. CASE run.status # "running"
    <3>1. IsTerminal(run) /\ IsTerminal(run')
      BY <1>0, <2>1, <2>4 DEF Forsaken, KeepsFinal, IsTerminal
    <3>2. CASE controller /\ \A t \in Tasks : pc[t] # "off" => Pauses(t)
      <4>1. cleanup = "finalize" \/ cleanupCont
        BY <2>1, <3>1 DEF EndInv, CancelAwaitsHarness
      <4>2. controller'
        BY <3>2, <4>1, ControllerStays DEF CleanupInv
      <4>3. \A t \in Tasks : pc'[t] # "off" => Pauses(t)'
        BY <2>2, <3>2 DEF Pauses
      <4>4. QED  BY <2>1, <3>1, <4>2, <4>3 DEF Forsaken
    <3>3. CASE (\E c \in Calls : Clashes(c)) /\ \A t \in Tasks : pc[t] = "off"
      <4>1. \E c \in Calls : Clashes(c)'
        BY <1>1, <2>1, <3>3, ClashStands
      <4>2. QED  BY <2>1, <2>2, <3>1, <3>3, <4>1 DEF Forsaken
    <3>4. QED  BY <2>1, <2>4, <3>2, <3>3 DEF Forsaken
  <2>5. QED  BY <2>3, <2>4
<1>5. QED  BY <1>3, <1>4

\* The start of a run holds its harness.
LEMMA HeldSteps ==
    ASSUME GateInv, FactInv, CallInv, ExecutionInv, CleanupInv, HarnessInv, AgreeInv,
           EndInv, HeldInv, [Next]_vars
    PROVE  HeldInv'
<1>0. TypeOK
    BY DEF GateInv
<1>1. HarnessIsHeld'
  <2> SUFFICES ASSUME harness' # "off"
               PROVE  \/ continuation' \/ cleanupCont'
                      \/ (\E t \in Tasks : Holds(t)') \/ Forsaken'
    BY DEF HarnessIsHeld
  <2>1. CASE StartRun
    <3>1. pc'["execute"] = "loop"
      BY <1>0, <2>1 DEF StartRun, Goto, TypeOK, TasksOK, Tasks
    <3>2. QED  BY <3>1 DEF Holds, Tasks
  <2>2. CASE ~StartRun
    <3>1. harness # "off"
      BY <2>2, HarnessStarts
    <3>2. CASE continuation \/ cleanupCont
      BY <1>0, <3>1, <3>2, HandleStands
    <3>3. CASE \E t \in Tasks : Holds(t)
      BY <3>1, <3>3, HoldsForsakes
    <3>4. CASE ~continuation /\ ~cleanupCont /\ \A t \in Tasks : ~Holds(t)
      <4>1. Forsaken
        BY <3>1, <3>4 DEF HeldInv, HarnessIsHeld
      <4>2. QED  BY <3>1, <3>4, <4>1, ForsakenStands
    <3>5. QED  BY <3>2, <3>3, <3>4
  <2>3. QED  BY <2>1, <2>2
<1>2. QED  BY <1>1, CaughtSteps DEF HeldInv

\* All of them hold of every reachable state.
THEOREM QuietInvariant == Spec => [](AgreeInv /\ EndInv /\ HeldInv)
<1>1. Init => AgreeInv /\ EndInv /\ HeldInv
    BY DEF Init, InitialRun, Tasks, AgreeInv, Undisputed, EndInv, EndIsFinalized,
       CancelAwaitsHarness, FinalizesAfterFault, Holds, HeldInv, HarnessIsHeld,
       CaughtClashes
<1>2. GateInv /\ FactInv /\ CallInv /\ ExecutionInv /\ OutcomeInv
        /\ (CleanupInv /\ HarnessInv) /\ (AgreeInv /\ EndInv /\ HeldInv) /\ [Next]_vars
        => (AgreeInv /\ EndInv /\ HeldInv)'
    BY AgreeSteps, EndInvSteps, HeldSteps
<1>3. QED  BY <1>1, <1>2, GateInvariant, FactInvariant, CallInvariant, ExecutionInvariant,
         OutcomeInvariant, HarnessInvariant, PTL DEF Spec

\* isStableTerminalState: a run whose listeners may read it (memory, experience) has no
\* harness at work and no tool under way, so that nothing more is written for it, unless a
\* second fault, or a cancel on top of a fault, left the harness behind.
THEOREM StableRunsAreQuiet == Spec => []StableIsQuiet
<1>1. GateInv /\ CallInv /\ ExecutionInv /\ (AgreeInv /\ EndInv /\ HeldInv) => StableIsQuiet
  <2> SUFFICES ASSUME GateInv, CallInv, ExecutionInv, HeldInv, Live, Stable,
                      faults = 0 \/ (faults = 1 /\ cancels = 0)
               PROVE  /\ harness = "off"
                      /\ \A c \in Calls : tool[c] \in {"unused", "delivered", "closed"}
    BY DEF StableIsQuiet
  <2>1. \A t \in Tasks : ~Holds(t)
    BY DEF Stable, ExecutionInv, OneTaskHolds, Tasks
  <2>2. ~Forsaken
    <3>1. \A c \in Calls : ~Clashes(c)
      BY DEF Stable, NoFacts, Clashes, FinalFact
    <3>2. run.status # "running" /\ ~controller
      BY DEF Stable, IsTerminal, Terminal
    <3>3. QED  BY <3>1, <3>2 DEF Forsaken
  <2>3. harness = "off"
    BY <2>1, <2>2 DEF HeldInv, HarnessIsHeld, Stable
  <2>4. QED  BY <2>3 DEF CallInv, ToolsAtRest, AtRest
<1>2. QED  BY <1>1, GateInvariant, CallInvariant, ExecutionInvariant, QuietInvariant, PTL

-----------------------------------------------------------------------------
(* A response is never recorded as a failure. *)

\* A call that is over in a harness that goes on has its final fact.
ClosedIsFinal ==
    harness \notin {"off", "broken"} =>
        \A c \in Calls : tool[c] = "closed" => run.fact[c] \in FinalFact

\* While the model is at work no call is open, and every result was accepted.
ModelIsClean ==
    harness \in {"acquire", "start", "model", "answered"} =>
        \A c \in Calls : tool[c] \in {"unused", "closed"} /\ result[c] # "unaccepted"

\* A run that is queued has no calls and no response yet.
QueuedIsNew ==
    run.status = "queued" =>
        /\ run.phase # "completion_candidate"
        /\ \A c \in Calls : tool[c] = "unused" /\ result[c] = "none"

\* All of it: inductive (with GateInv, CallInv, ExecutionInv and CleanupInv).
ModelInv == ClosedIsFinal /\ ModelIsClean /\ QueuedIsNew

\* A harness whose run failed, or whose pause is caught, has a result that was not
\* accepted, which ends it.
RefusalInv ==
    harness # "off" /\ (run.status = "failed" \/ \E t \in Tasks : pc[t] = "caught") =>
        harness \in {"tools", "broken"} /\ \E c \in Calls : result[c] = "unaccepted"

\* Only a run that was cancelled is aborted, and a pause that is released asked for
\* something.
AbortInv ==
    /\ aborted => IsTerminal(run)
    /\ \A t \in Tasks :
        /\ pc[t] = "apply" /\ outcome[t].kind = "cancelled" => IsTerminal(run)
        /\ pc[t] = "releaseErr" => \E c \in Calls : outcome[t].facts[c] = "approval"

\* After the response the harness is over, and no task has a failure to store that the
\* record would accept.
ResponseInv ==
    run.phase = "completion_candidate" =>
        /\ harness \in {"answered", "off"} /\ run.status # "failed"
        /\ ~IsTerminal(run) => \A t \in Tasks :
            /\ pc[t] = "apply" => outcome[t].kind # "failed"
            /\ pc[t] \in {"caught", "releaseErr"} => Pauses(t) /\ Contradicted(t)

\* What moves the harness, and what it keeps of a call otherwise.
LEMMA HarnessStays ==
    ASSUME GateInv, CallInv, [Next]_vars, ~StartRun, ~Harness, ~Crash
    PROVE  /\ harness' = harness
           /\ harness # "tools" => UNCHANGED <<tool, result>>
           /\ \A c \in Calls : /\ tool'[c] = "closed" => tool[c] = "closed"
                               /\ result[c] = "unaccepted" => result'[c] = "unaccepted"
<1>0. TypeOK
    BY DEF GateInv
<1>1. CASE \E c \in Calls : Tool(c)
  <2>1. PICK c \in Calls : Tool(c)
    BY <1>1
  <2>2. harness' = harness /\ harness = "tools"
    BY <2>1 DEF CallInv, ToolsAtRest, AtRest, Tool, ToolGates, ToolRefused, ToolExecutes,
       ToolEnds, ToolPersists, ToolKeeps
  <2>3. \A d \in Calls \ {c} : tool'[d] = tool[d] /\ result'[d] = result[d]
    BY <1>0, <2>1 DEF Tool, ToolGates, ToolRefused, ToolExecutes, ToolEnds, ToolPersists,
       Returns, TypeOK, HarnessOK, Facts
  <2>4. tool'[c] # "closed"
    BY <1>0, <2>1 DEF Tool, ToolGates, ToolRefused, ToolExecutes, ToolEnds, ToolPersists,
       Returns, TypeOK, HarnessOK
  <2>5. result[c] # "unaccepted"
    BY <2>1 DEF CallInv, ResultBooks, Early, Tool, ToolGates, ToolRefused, ToolExecutes,
       ToolEnds, ToolPersists
  <2>6. QED  BY <2>2, <2>3, <2>4, <2>5
<1>2. CASE \E t \in Tasks : Task(t)
    BY <1>2 DEF Task, ApplyPause, ApplyOutcome, Released, Caught, CompletionCommitFails,
       TaskFinalized, TaskFlushes, TaskSettles, TaskCommitKeeps, TaskKeeps, harnessVars
<1>3. CASE Completion \/ SessionRestores \/ Cleanup \/ Pump \/ Recovery \/ Cancel
  <2>1. UNCHANGED <<tool, result>>
    <3>1. CASE Completion \/ SessionRestores \/ Cancel
      BY <3>1 DEF Completion, CompletionRetries, CompletionFinalized, SessionRestores,
         Cancel, harnessVars
    <3>2. CASE Cleanup
      BY <3>2 DEF Cleanup, CleanupReleases, CleanupFinalized, CleanupSettles,
         CleanupFlushes, CleanupChecks, CleanupRetries, CleanupKeeps, harnessVars
    <3>3. CASE Pump
      BY <3>3 DEF Pump, PumpStarts, PumpFlushes, PumpSettles, PumpFinalized, PumpRetries,
         PumpKeeps, harnessVars
    <3>4. CASE Recovery
      BY <3>4 DEF Recovery, RecoverApproval, RecoverRound, RecoverRunning, Recovered,
         RecoveryKeeps, harnessVars
    <3>5. QED  BY <1>3, <3>1, <3>2, <3>3, <3>4
  <2>2. QED  BY <1>3, <2>1, OtherCopies
<1>4. CASE UNCHANGED vars
    BY <1>4 DEF vars, harnessVars
<1>5. CASE \E c \in Calls, d \in {"approve_once", "reject"} : DecideApproval(c, d)
  <2>1. PICK c \in Calls, d \in {"approve_once", "reject"} : DecideApproval(c, d)
    BY <1>5
  <2>2. Live /\ run.status = "awaiting_approval" /\ c \in run.requests
    BY <2>1 DEF DecideApproval, CanDecide
  <2>3. tool[c] = "gated"
    BY <2>2 DEF GateInv, AwaitingIsLive, GateIsClosed
  <2>4. harness = "tools"
    BY <2>3 DEF CallInv, ToolsAtRest, AtRest
  <2>5. /\ harness' = harness /\ result' = result
        /\ tool' = [tool EXCEPT ![c] = IF d = "approve_once" THEN "approved" ELSE "rejected"]
    BY <2>1 DEF DecideApproval
  <2>6. QED  BY <1>0, <2>4, <2>5 DEF TypeOK, HarnessOK
<1>6. QED  BY <1>1, <1>2, <1>3, <1>4, <1>5 DEF Next, User

\* A round is closed only with final facts, and with results that were accepted.
LEMMA ModelSteps ==
    ASSUME GateInv, CallInv, ExecutionInv, CleanupInv, ModelInv, [Next]_vars
    PROVE  ModelInv'
<1>0. TypeOK /\ KeepsFinal(run, run')
    BY NextKeeps, SnapshotStepKeeps DEF GateInv, TypeOK
<1>1. QueuedIsNew'
    BY QueuedStays DEF ModelInv, QueuedIsNew
<1>2. CASE StartRun
    BY <1>1, <1>2 DEF StartRun, ModelInv, QueuedIsNew, ClosedIsFinal, ModelIsClean
<1>3. CASE ~StartRun /\ ~Harness /\ ~Crash
    BY <1>0, <1>1, <1>3, HarnessStays DEF ModelInv, ClosedIsFinal, ModelIsClean, KeepsFinal
<1>4. CASE CloseRound
  <2>1. CASE harness' = "broken"
    BY <1>1, <2>1 DEF ModelInv, ClosedIsFinal, ModelIsClean
  <2>2. CASE harness' # "broken"
    <3>1. /\ harness' = "model" /\ harness = "tools" /\ result' = result
          /\ \A c \in Calls : result[c] # "unaccepted"
          /\ CanCloseRound(run, RoundCalls)
          /\ tool' = [c \in Calls |-> IF c \in RoundCalls THEN "closed" ELSE tool[c]]
      BY <1>4, <2>2 DEF CloseRound, Checkpoint, Throws
    <3>2. \A c \in Calls : tool'[c] \in {"unused", "closed"}
      BY <3>1 DEF RoundCalls
    <3>3. \A c \in Calls : tool'[c] = "closed" => run.fact[c] \in FinalFact
      BY <3>1 DEF CanCloseRound, ModelInv, ClosedIsFinal
    <3>4. QED
      BY <1>0, <1>1, <3>1, <3>2, <3>3 DEF ModelInv, ClosedIsFinal, ModelIsClean, KeepsFinal
  <2>3. QED  BY <2>1, <2>2
<1>5. CASE \E calls \in SUBSET Calls : ToolRound(calls)
  <2>1. PICK calls \in SUBSET Calls : ToolRound(calls)
    BY <1>5
  <2>2. harness' \in {"tools", "broken"} /\ harness = "model"
    BY <2>1 DEF ToolRound, Checkpoint
  <2>3. \A c \in Calls : tool'[c] = "closed" => tool[c] = "closed"
    BY <2>1 DEF ToolRound
  <2>4. QED
    BY <1>0, <1>1, <2>2, <2>3 DEF ModelInv, ClosedIsFinal, ModelIsClean, KeepsFinal
<1>6. CASE Acquire \/ CaptureStart \/ CommitInput \/ Respond \/ HarnessStops \/ Pause
  <2>1. /\ UNCHANGED <<tool, result>>
        /\ \/ harness' \in {harness, "off", "broken"}
           \/ /\ harness' \in {"start", "model", "answered"}
              /\ harness \in {"acquire", "start", "model"}
    BY <1>6 DEF Acquire, CaptureStart, CommitInput, Respond, Checkpoint, HarnessStops,
       Pause, harnessVars
  <2>2. QED
    BY <1>0, <1>1, <2>1 DEF ModelInv, ClosedIsFinal, ModelIsClean, KeepsFinal
<1>7. CASE Crash
    BY <1>1, <1>7 DEF Crash, ModelInv, ClosedIsFinal, ModelIsClean
<1>8. QED  BY <1>2, <1>3, <1>4, <1>5, <1>6, <1>7 DEF Harness

\* How a task comes to have an outcome to apply, a pause to release or to catch.
LEMMA TaskMoves ==
    ASSUME TypeOK, [Next]_vars, NEW t \in Tasks, pc'[t] \in {"apply", "releaseErr", "caught"}
    PROVE  \/ pc'[t] = pc[t] /\ outcome'[t] = outcome[t]
           \/ pc[t] = "loop" /\ pc'[t] # "releaseErr" /\ (HarnessStops \/ Pause \/ Acquire)
           \/ CaptureStart /\ pc'[t] = "caught" /\ harness' = "off"
           \/ /\ outcome'[t] = outcome[t]
              /\ \/ ApplyPause(t) /\ pc'[t] = "releaseErr"
                 \/ ApplyOutcome(t) /\ pc'[t] = "caught"
                 \/ Released(t) /\ pc[t] = "releaseErr" /\ pc'[t] = "caught"
<1>1. CASE UNCHANGED <<pc, outcome>>
    BY <1>1
<1>2. CASE HarnessStops \/ Pause \/ Acquire
  <2>1. ASSUME NEW kind, NEW facts, NEW asked, Returned(kind, facts, asked)
        PROVE  \/ pc'[t] = pc[t] /\ outcome'[t] = outcome[t]
               \/ pc[t] = "loop" /\ pc'[t] # "releaseErr"
    BY <2>1 DEF Returned
  <2>2. QED  BY <1>1, <1>2, <2>1 DEF HarnessStops, Pause, Acquire, taskVars
<1>3. CASE CaptureStart
  <2>1. CASE Goto("execute", "caught") /\ harness' = "off" /\ outcome' = outcome
    BY <1>3, <2>1 DEF Goto, TypeOK, TasksOK
  <2>2. QED  BY <1>1, <1>3, <2>1 DEF CaptureStart, taskVars
<1>4. CASE StartRun
    BY <1>4 DEF StartRun, Goto, TypeOK, TasksOK, Tasks
<1>5. CASE Harness /\ ~(HarnessStops \/ Pause \/ Acquire \/ CaptureStart)
    BY <1>1, <1>5 DEF Harness, CommitInput, ToolRound, Respond, CloseRound, HarnessKeeps,
       taskVars
<1>6. CASE \E c \in Calls : Tool(c)
    BY <1>1, <1>6 DEF Tool, ToolGates, ToolRefused, ToolExecutes, ToolEnds, ToolPersists,
       ToolKeeps, taskVars
<1>7. CASE \E u \in Tasks : Task(u)
  <2>1. PICK u \in Tasks : Task(u)
    BY <1>7
  <2>2. outcome' = outcome
    BY <2>1 DEF Task, ApplyPause, ApplyOutcome, Caught, Released, TaskFinalized,
       CompletionCommitFails, TaskFlushes, TaskSettles, TaskCommitKeeps
  <2>3. CASE u # t
    <3>1. \E p \in TaskPc : Goto(u, p)
      BY <2>1 DEF Task, ApplyPause, ApplyOutcome, Caught, Released, TaskFinalized,
         CompletionCommitFails, TaskFlushes, TaskSettles, EndsTask, EndsRun, TaskPc
    <3>2. QED  BY <2>2, <2>3, <3>1 DEF Goto, TypeOK, TasksOK
  <2>4. CASE u = t
    <3>1. CASE ApplyPause(t)
      <4>1. \E p \in TaskPc \ {"apply", "caught"} : Goto(t, p)
        BY <3>1 DEF ApplyPause, EndsTask, TaskPc
      <4>2. QED  BY <2>2, <3>1, <4>1 DEF Goto, TypeOK, TasksOK
    <3>2. CASE ApplyOutcome(t) \/ Released(t)
      <4>1. \E p \in TaskPc \ {"apply", "releaseErr"} : Goto(t, p)
        BY <3>2 DEF ApplyOutcome, Released, EndsRun, TaskPc
      <4>2. pc'[t] = "caught"
        BY <4>1 DEF Goto, TypeOK, TasksOK
      <4>3. Released(t) => pc[t] = "releaseErr"
        BY <4>2 DEF Released, Goto, TypeOK, TasksOK
      <4>4. QED  BY <2>2, <3>2, <4>2, <4>3
    <3>3. CASE ~(ApplyPause(t) \/ ApplyOutcome(t) \/ Released(t))
      <4>1. \E p \in TaskPc \ {"apply", "releaseErr", "caught"} : Goto(t, p)
        BY <2>1, <2>4, <3>3 DEF Task, Caught, TaskFinalized, CompletionCommitFails,
           TaskFlushes, TaskSettles, EndsTask, EndsRun, TaskPc
      <4>2. QED  BY <4>1 DEF Goto, TypeOK, TasksOK
    <3>4. QED  BY <3>1, <3>2, <3>3
  <2>5. QED  BY <2>3, <2>4
<1>8. CASE Completion \/ SessionRestores \/ Cancel \/ Recovery \/ UNCHANGED vars
    BY <1>1, <1>8 DEF Completion, CompletionRetries, CompletionFinalized, SessionRestores,
       Cancel, Recovery, RecoverApproval, RecoverRound, RecoverRunning, Recovered,
       RecoveryKeeps, vars, taskVars
<1>9. CASE Cleanup \/ Pump
    BY <1>1, <1>9 DEF Cleanup, CleanupReleases, CleanupFinalized, CleanupSettles,
       CleanupFlushes, CleanupChecks, CleanupRetries, CleanupKeeps, Pump, PumpStarts,
       PumpFlushes, PumpSettles, PumpFinalized, PumpRetries, PumpKeeps, taskVars
<1>10. CASE Crash
    BY <1>10 DEF Crash
<1>11. CASE \E c \in Calls, d \in {"approve_once", "reject"} : DecideApproval(c, d)
  <2>1. Goto("decide", "loop") /\ outcome' = [outcome EXCEPT !["decide"] = NoOutcome]
    BY <1>11 DEF DecideApproval
  <2>2. t = "execute" /\ pc'[t] = pc[t] /\ outcome'[t] = outcome[t]
    BY <2>1 DEF Goto, TypeOK, TasksOK, Tasks
  <2>3. QED  BY <2>2
<1>12. QED
    BY <1>2, <1>3, <1>4, <1>5, <1>6, <1>7, <1>8, <1>9, <1>10, <1>11 DEF Next, User

\* A run fails only by a task that has a failure to store.
LEMMA FailsByTask ==
    ASSUME TypeOK, [Next]_vars, run'.status = "failed", run.status # "failed"
    PROVE  /\ ~IsTerminal(run)
           /\ \E t \in Tasks :
                \/ ApplyOutcome(t) /\ outcome[t].kind = "failed"
                \/ Caught(t) /\ CanMerge(run, outcome[t].facts)
<1>0. /\ run'.status # run.status /\ ~IsTerminal(run)
  <2>1. KeepsFinal(run, run')
    BY NextKeeps, SnapshotStepKeeps DEF TypeOK
  <2>2. QED  BY <2>1 DEF KeepsFinal
<1>1. /\ \A how, facts : Ended(run, how, facts).status = how
      /\ \A facts, asked : Paused(run, facts, asked).status = "awaiting_approval"
      /\ \A c, d : Decided(run, c, d).status = "running"
      /\ Start(run).status = "running"
    BY DEF Ended, Paused, Decided, Start, Merge, TypeOK, RunState
<1>2. Ended(CloseLostApprovals(ReconcileRound(run)), "blocked", NoFacts).status = "blocked"
    BY DEF Ended, CloseLostApprovals, ReconcileRound, Merge, TypeOK, RunState
<1>3. ~StartRun /\ ~Cancel /\ ~CompletionRetries /\ ~RecoverApproval /\ ~RecoverRunning
  <2>1. StartRun => run' = Start(run)
    BY DEF StartRun, Commit
  <2>2. Cancel => run' = Ended(run, "cancelled", NoFacts)
    BY <1>0 DEF Cancel, Commit
  <2>3. ~CompletionRetries /\ ~RecoverApproval /\ ~RecoverRunning
    BY <1>0, <1>1, <1>2 DEF CompletionRetries, RecoverApproval, RecoverRunning, Commit, Throws
  <2>4. QED  BY <1>1, <2>1, <2>2, <2>3
<1>4. ASSUME NEW c \in Calls, NEW d \in {"approve_once", "reject"}, DecideApproval(c, d)
      PROVE  FALSE
  <2>1. run' = Decided(run, c, d)
    BY <1>4 DEF DecideApproval, Commit
  <2>2. QED  BY <1>1, <2>1
<1>5. ASSUME NEW t \in Tasks, ApplyPause(t) \/ CompletionCommitFails(t)
      PROVE  FALSE
    BY <1>0, <1>1, <1>5 DEF ApplyPause, CompletionCommitFails, EndsRun, Commit, Throws
<1>6. PICK t \in Tasks : ApplyOutcome(t) \/ Caught(t)
    BY <1>0, <1>3, <1>4, <1>5, StatusMoves
<1>7. CASE ApplyOutcome(t)
  <2>1. run' = Ended(run, outcome[t].kind, outcome[t].facts)
    BY <1>0, <1>7 DEF ApplyOutcome, EndsRun, Commit, Throws
  <2>2. QED  BY <1>0, <1>1, <1>7, <2>1
<1>8. CASE Caught(t)
    BY <1>0, <1>8 DEF Caught, EndsRun, CanEnd, Throws
<1>9. QED  BY <1>0, <1>6, <1>7, <1>8

\* A pause is caught because of a result that was not accepted.
LEMMA RefusalSteps ==
    ASSUME GateInv, CallInv, HarnessInv, RefusalInv, [Next]_vars
    PROVE  RefusalInv'
<1> SUFFICES ASSUME harness' # "off",
                    run'.status = "failed" \/ \E t \in Tasks : pc'[t] = "caught"
             PROVE  harness' \in {"tools", "broken"} /\ \E c \in Calls : result'[c] = "unaccepted"
    BY DEF RefusalInv
<1>0. TypeOK
    BY DEF GateInv
<1>1. ~StartRun /\ ~Crash
  <2>1. ASSUME StartRun
        PROVE  FALSE
    <3>1. run'.status = "running"
      BY <1>0, <2>1 DEF StartRun, Commit, Start, TypeOK, RunState
    <3>2. \A t \in Tasks : pc'[t] # "caught"
      BY <1>0, <2>1 DEF StartRun, Goto, TypeOK, TasksOK, GateInv, HaltedIsOver
    <3>3. QED  BY <3>1, <3>2
  <2>2. QED  BY <2>1 DEF Crash
<1>2. harness # "off"
    BY <1>1, HarnessStarts
<1>3. CASE run.status = "failed" \/ \E t \in Tasks : pc[t] = "caught"
  <2>1. harness \in {"tools", "broken"} /\ \E c \in Calls : result[c] = "unaccepted"
    BY <1>2, <1>3 DEF RefusalInv
  <2>2. CASE ~Harness
    BY <1>1, <2>1, <2>2, HarnessStays
  <2>3. CASE Harness
    <3>1. result' = result
      BY <2>3 DEF Harness, Acquire, CaptureStart, CommitInput, ToolRound, Respond,
         CloseRound, HarnessStops, Pause, harnessVars
    <3>2. harness' \in {"tools", "broken"}
      BY <2>1, <2>3 DEF Harness, Acquire, CaptureStart, CommitInput, ToolRound, Respond,
         CloseRound, Checkpoint, HarnessStops, Pause, harnessVars
    <3>3. QED  BY <2>1, <3>1, <3>2
  <2>4. QED  BY <2>2, <2>3
<1>4. CASE run.status # "failed" /\ \A t \in Tasks : pc[t] # "caught"
  <2>1. \A t \in Tasks : ~ApplyOutcome(t) /\ ~Caught(t)
    BY <1>2, <1>4 DEF ApplyOutcome, Caught, HarnessInv, HarnessIsOwned, Pauses
  <2>2. run'.status # "failed"
    BY <1>0, <1>4, <2>1, FailsByTask
  <2>3. PICK t \in Tasks : pc'[t] = "caught"
    BY <2>2
  <2>4. pc[t] = "loop" /\ Pause
    <3>1. ~Released(t)
      BY <1>2 DEF Released
    <3>2. pc[t] = "loop" /\ (HarnessStops \/ Pause \/ Acquire)
      BY <1>0, <1>4, <2>1, <2>3, <3>1, TaskMoves
    <3>3. ~HarnessStops
      BY DEF HarnessStops
    <3>4. ~Acquire
      BY <2>3, <3>2 DEF Acquire, taskVars
    <3>5. QED  BY <3>2, <3>3, <3>4
  <2>5. PICK c \in Calls : ~Remembers(c, result[c])
    BY <2>3, <2>4 DEF Pause, Returned
  <2>6. result[c] = "unaccepted"
    BY <2>5 DEF CallInv, MismatchBooks
  <2>7. QED  BY <2>4, <2>6 DEF Pause, harnessVars
<1>5. QED  BY <1>3, <1>4

\* The signal is raised by a cancel.
LEMMA AbortSteps ==
    ASSUME GateInv, OutcomeInv, AbortInv, [Next]_vars
    PROVE  AbortInv'
<1>0. TypeOK /\ (IsTerminal(run) => IsTerminal(run'))
    BY NextKeeps, SnapshotStepKeeps DEF GateInv, TypeOK, KeepsFinal, IsTerminal
<1>1. aborted' => aborted \/ Cancel
  <2>1. CASE StartRun \/ Harness \/ \E c \in Calls : Tool(c)
    BY <2>1 DEF StartRun, Harness, Acquire, CaptureStart, CommitInput, ToolRound, Respond,
       CloseRound, HarnessStops, Pause, HarnessKeeps, Tool, ToolGates, ToolRefused,
       ToolExecutes, ToolEnds, ToolPersists, ToolKeeps, handleVars
  <2>2. CASE \E t \in Tasks : Task(t)
    BY <2>2 DEF Task, ApplyPause, ApplyOutcome, Caught, Released, TaskFinalized,
       CompletionCommitFails, TaskFlushes, TaskSettles, TaskCommitKeeps, handleVars
  <2>3. CASE Completion \/ SessionRestores \/ Crash
    BY <2>3 DEF Completion, CompletionRetries, CompletionFinalized, SessionRestores,
       handleVars, Crash
  <2>4. CASE Recovery \/ UNCHANGED vars
    BY <2>4 DEF Recovery, RecoverApproval, RecoverRound, RecoverRunning, Recovered,
       RecoveryKeeps, handleVars, vars
  <2>5. CASE Cleanup \/ Pump
    BY <2>5 DEF Cleanup, CleanupReleases, CleanupFinalized, CleanupSettles,
       CleanupFlushes, CleanupChecks, CleanupRetries, CleanupKeeps, Pump, PumpStarts,
       PumpFlushes, PumpSettles, PumpFinalized, PumpRetries, PumpKeeps, handleVars
  <2>6. CASE User
    BY <2>6 DEF User, DecideApproval
  <2>7. QED  BY <2>1, <2>2, <2>3, <2>4, <2>5, <2>6 DEF Next
<1>2. Cancel => IsTerminal(run')
  <2>1. \A how, facts : Ended(run, how, facts).status = how
    BY <1>0 DEF Ended, Merge, TypeOK, RunState
  <2>2. QED  BY <2>1 DEF Cancel, Commit, IsTerminal, Terminal
<1>3. ASSUME NEW t \in Tasks, pc'[t] = "apply", outcome'[t].kind = "cancelled"
      PROVE  IsTerminal(run')
  <2>1. CASE pc[t] = "apply" /\ outcome'[t] = outcome[t]
    BY <1>0, <1>3, <2>1 DEF AbortInv
  <2>2. CASE pc[t] = "loop" /\ (HarnessStops \/ Pause \/ Acquire)
    <3>1. IsTerminal(run)
      BY <1>0, <1>3, <2>2 DEF HarnessStops, Pause, Acquire, Returned, taskVars, AbortInv,
         GateInv, HaltedIsOver
    <3>2. QED  BY <1>0, <3>1
  <2>3. QED  BY <1>0, <1>3, <2>1, <2>2, TaskMoves
<1>4. ASSUME NEW t \in Tasks, pc'[t] = "releaseErr"
      PROVE  \E c \in Calls : outcome'[t].facts[c] = "approval"
  <2>1. outcome'[t] = outcome[t] /\ (pc[t] = "releaseErr" \/ ApplyPause(t))
    BY <1>0, <1>4, TaskMoves
  <2>2. CASE pc[t] = "releaseErr"
    BY <2>1, <2>2 DEF AbortInv
  <2>3. CASE ApplyPause(t)
    <3>1. outcome[t].requests # {} /\ outcome[t].requests \subseteq Calls
          /\ \A c \in outcome[t].requests : outcome[t].facts[c] = "approval"
      BY <1>0, <2>3 DEF ApplyPause, OutcomeInv, OutcomeBooks, Pauses, TypeOK, TasksOK
    <3>2. QED  BY <2>1, <3>1
  <2>4. QED  BY <2>1, <2>2, <2>3
<1>5. QED  BY <1>0, <1>1, <1>2, <1>3, <1>4 DEF AbortInv

\* The phase of a snapshot that a step writes, unless it records a response.
LEMMA PhaseMoves ==
    ASSUME TypeOK, [Next]_vars, run'.phase = "completion_candidate",
           run.phase # "completion_candidate"
    PROVE  Respond /\ run' = Responded(run) /\ harness' = "answered" /\ harness = "model"
<1> DEFINE Plain(s) == s.phase # "completion_candidate"
<1>1. /\ Plain(run) /\ Plain(Start(run)) /\ Plain(StartCaptured(run))
      /\ Plain(InputCommitted(run)) /\ Plain(RoundClosed(run)) /\ Plain(ReconcileRound(run))
      /\ Plain(RoundClosed(ReconcileRound(run))) /\ Plain(CloseLostApprovals(run))
      /\ \A calls : Plain(RoundAccepted(run, calls))
      /\ \A facts : Plain(Merge(run, facts))
      /\ \A facts, asked : Plain(Paused(run, facts, asked))
      /\ \A c, d : Plain(Decided(run, c, d))
  <2>1. /\ Plain(run) /\ Plain(Start(run)) /\ Plain(StartCaptured(run))
        /\ Plain(InputCommitted(run)) /\ Plain(RoundClosed(run)) /\ Plain(ReconcileRound(run))
        /\ Plain(RoundClosed(ReconcileRound(run))) /\ Plain(CloseLostApprovals(run))
    BY DEF TypeOK, RunState, Start, StartCaptured, InputCommitted, RoundClosed,
       ReconcileRound, CloseLostApprovals
  <2>2. /\ \A calls : Plain(RoundAccepted(run, calls))
        /\ \A facts : Plain(Merge(run, facts))
        /\ \A facts, asked : Plain(Paused(run, facts, asked))
    BY DEF TypeOK, RunState, RoundAccepted, Merge, Paused
  <2>3. \A c, d : Plain(Decided(run, c, d))
    BY DEF TypeOK, RunState, Decided
  <2>4. QED  BY <2>1, <2>2, <2>3
<1>2. /\ \A how, facts : Plain(Ended(run, how, facts))
      /\ Plain(Ended(CloseLostApprovals(ReconcileRound(run)), "blocked", NoFacts))
    BY DEF TypeOK, RunState, Ended, EndPhase, Merge, CloseLostApprovals, ReconcileRound
<1>3. ~Plain(run')
    OBVIOUS
<1> HIDE DEF Plain
<1>4. FlushAccepted => Plain(run')
    BY <1>1 DEF FlushAccepted
<1>5. \A ok \in BOOLEAN : ReconcilePending(ok) \/ SettleRound(ok) => Plain(run')
    BY <1>1 DEF ReconcilePending, SettleRound, Commit, Fault
<1>6. ~StartRun
    BY <1>1, <1>3 DEF StartRun, Commit
<1>7. ~\E c \in Calls : Tool(c)
    BY <1>1, <1>3 DEF Tool, ToolGates, ToolRefused, ToolExecutes, ToolEnds, ToolPersists,
       Returns, Commit, Throws
<1>8. ~\E t \in Tasks : Task(t)
    BY <1>1, <1>2, <1>3, <1>4, <1>5 DEF Task, ApplyPause, ApplyOutcome, Caught, Released,
       TaskFinalized, CompletionCommitFails, TaskFlushes, TaskSettles, EndsRun, Commit,
       Throws
<1>9. ~Completion /\ ~SessionRestores /\ ~Crash /\ ~UNCHANGED vars
    BY <1>1, <1>2, <1>3 DEF Completion, CompletionRetries, CompletionFinalized,
       SessionRestores, Crash, vars, Commit, Throws
<1>10. ~Cleanup /\ ~Pump
    BY <1>1, <1>3, <1>4, <1>5 DEF Cleanup, CleanupReleases, CleanupFinalized,
       CleanupSettles, CleanupFlushes, CleanupChecks, CleanupRetries, Pump, PumpStarts,
       PumpFlushes, PumpSettles, PumpFinalized, PumpRetries
<1>11. ~User
  <2>1. Cancel => Plain(run')
    <3>1. Cancel => run' \in {run, Ended(run, "cancelled", NoFacts)}
      BY DEF Cancel, Commit
    <3>2. QED  BY <1>1, <1>2, <3>1
  <2>2. \A c \in Calls, d \in {"approve_once", "reject"} : DecideApproval(c, d) => Plain(run')
    BY <1>1 DEF DecideApproval, Commit
  <2>3. QED  BY <1>3, <2>1, <2>2 DEF User
<1>12. ~Recovery
    BY <1>1, <1>2, <1>3, <1>5 DEF Recovery, RecoverApproval, RecoverRound, RecoverRunning,
       Recovered, Commit
<1>13. Harness
    BY <1>6, <1>7, <1>8, <1>9, <1>10, <1>11, <1>12 DEF Next
<1>14. QED
    BY <1>1, <1>3, <1>13 DEF Harness, Acquire, CaptureStart, CommitInput, ToolRound,
       Respond, CloseRound, Checkpoint, HarnessStops, Pause, Commit, Throws

\* So a run with a response does not fail.
LEMMA ResponseStands ==
    ASSUME TypeOK, ResponseInv, [Next]_vars, run.phase = "completion_candidate"
    PROVE  run'.status # "failed"
    BY FailsByTask DEF ResponseInv, ApplyOutcome, Caught, Contradicted

\* The response comes from a harness that is at rest with its tasks, and what they have to
\* apply, to release or to catch after it contradicts the record or is not a failure.
LEMMA ResponseSteps ==
    ASSUME GateInv, FactInv, CallInv, HarnessInv, OutcomeInv, ModelInv, RefusalInv, AbortInv,
           ResponseInv, [Next]_vars
    PROVE  ResponseInv'
<1> SUFFICES ASSUME run'.phase = "completion_candidate"
             PROVE  /\ harness' \in {"answered", "off"} /\ run'.status # "failed"
                    /\ ~IsTerminal(run') => \A t \in Tasks :
                        /\ pc'[t] = "apply" => outcome'[t].kind # "failed"
                        /\ pc'[t] \in {"caught", "releaseErr"} =>
                              Pauses(t)' /\ Contradicted(t)'
    BY DEF ResponseInv
<1>0. TypeOK /\ TypeOK' /\ KeepsFinal(run, run') /\ (IsTerminal(run) => IsTerminal(run'))
    BY NextKeeps, SnapshotStepKeeps DEF GateInv, TypeOK, KeepsFinal, IsTerminal
<1>1. CASE run.phase # "completion_candidate"
  <2>1. Respond /\ run' = Responded(run) /\ harness' = "answered" /\ harness = "model"
    BY <1>0, <1>1, PhaseMoves
  <2>2. UNCHANGED <<pc, outcome>>
    BY <2>1 DEF Respond, HarnessKeeps, taskVars
  <2>3. run.status # "failed" /\ \A t \in Tasks : pc[t] # "caught"
    BY <2>1 DEF RefusalInv
  <2>4. run'.status = run.status /\ run'.fact = run.fact
    BY <1>0, <2>1 DEF Responded, TypeOK, RunState
  <2>5. ASSUME NEW t \in Tasks
        PROVE  /\ pc[t] = "apply" => outcome[t].kind # "failed"
               /\ pc[t] = "releaseErr" => Pauses(t) /\ Contradicted(t)
    <3>1. pc[t] = "apply" => outcome[t].kind # "failed"
      BY <2>1 DEF HarnessInv, HarnessIsOwned, Pauses
    <3>2. ASSUME pc[t] = "releaseErr"
          PROVE  Pauses(t) /\ Contradicted(t)
      <4>1. PICK c \in Calls : outcome[t].facts[c] = "approval"
        BY <3>2 DEF AbortInv
      <4>2. tool[c] # "unused"
        BY <4>1 DEF FactInv, BooksAreTrue, TrueOf, Noted
      <4>3. run.fact[c] \in FinalFact
        BY <2>1, <4>2 DEF ModelInv, ModelIsClean, ClosedIsFinal
      <4>4. QED  BY <3>2, <4>1, <4>3 DEF Contradicted, CanMerge, Compatible, FinalFact,
           HarnessInv, PauseIsReleased
    <3>3. QED  BY <3>1, <3>2
  <2>6. QED  BY <2>1, <2>2, <2>3, <2>4, <2>5 DEF Pauses, Contradicted, CanMerge
<1>2. CASE run.phase = "completion_candidate"
  <2>1. harness \in {"answered", "off"} /\ run.status # "failed"
    BY <1>2 DEF ResponseInv
  <2>2. run'.status # "failed"
    BY <1>0, <1>2, ResponseStands
  <2>3. harness' \in {"answered", "off"}
    <3>1. ~StartRun
      BY <1>2 DEF StartRun, ModelInv, QueuedIsNew
    <3>2. CASE Harness
      BY <2>1, <3>2 DEF Harness, Acquire, CaptureStart, CommitInput, ToolRound, Respond,
         CloseRound, HarnessStops, Pause
    <3>3. CASE ~Harness
      BY <2>1, <3>1, <3>3, HarnessStays DEF Crash
    <3>4. QED  BY <3>2, <3>3
  <2>4. ASSUME ~IsTerminal(run'), NEW t \in Tasks, pc'[t] \in {"apply", "releaseErr", "caught"}
        PROVE  /\ pc'[t] = "apply" => outcome'[t].kind # "failed"
               /\ pc'[t] \in {"caught", "releaseErr"} => Pauses(t)' /\ Contradicted(t)'
    <3>1. ~IsTerminal(run) /\ outcome[t].facts \in Facts
      BY <1>0, <2>4 DEF TypeOK, TasksOK
    <3>2. ASSUME outcome'[t] = outcome[t], Contradicted(t)
          PROVE  Contradicted(t)'
      BY <1>0, <3>1, <3>2, ContradictionStands DEF Contradicted
    <3>3. CASE pc'[t] = pc[t] /\ outcome'[t] = outcome[t]
      BY <1>2, <2>4, <3>1, <3>2, <3>3 DEF ResponseInv, Pauses
    <3>4. CASE Released(t) /\ pc[t] = "releaseErr" /\ pc'[t] = "caught"
               /\ outcome'[t] = outcome[t]
      BY <1>2, <3>1, <3>2, <3>4 DEF ResponseInv, Pauses
    <3>5. CASE pc[t] = "loop" /\ pc'[t] # "releaseErr" /\ (HarnessStops \/ Pause \/ Acquire)
      <4>1. HarnessStops /\ harness = "answered"
        BY <2>1, <3>5 DEF HarnessStops, Pause, Acquire
      <4>2. \A c \in Calls : Remembers(c, result[c])
        BY <4>1 DEF ModelInv, ModelIsClean, CallInv, MismatchBooks
      <4>3. pc'[t] = "apply" /\ outcome'[t].kind # "failed"
        BY <3>5, <4>1, <4>2 DEF HarnessStops, Returned
      <4>4. QED  BY <4>3
    <3>6. ~CaptureStart
      BY <2>1 DEF CaptureStart
    <3>7. ~ApplyPause(t)
      <4>1. ASSUME ApplyPause(t)
            PROVE  FALSE
        <5>1. outcome[t].requests # {} /\ outcome[t].requests \subseteq pending
          BY <3>1, <4>1 DEF ApplyPause, OutcomeInv, OutcomeBooks, Pauses, GateInv,
             OneTaskInLoop
        <5>2. \E c \in Calls : tool[c] = "gated"
          BY <1>0, <5>1 DEF GateInv, GateIsClosed, TypeOK, HarnessOK
        <5>3. QED  BY <2>1, <5>2 DEF CallInv, ToolsAtRest, AtRest
      <4>2. QED  BY <4>1
    <3>8. CASE ApplyOutcome(t) /\ pc'[t] = "caught"
      <4>1. outcome[t].kind = "completed"
        BY <1>2, <3>1, <3>8 DEF ApplyOutcome, ResponseInv, AbortInv
      <4>2. \E p \in TaskPc \ {"caught"} : Goto(t, p)
        BY <3>8, <4>1 DEF ApplyOutcome, EndsRun, TaskPc
      <4>3. QED  BY <1>0, <3>8, <4>2 DEF Goto, TypeOK, TasksOK
    <3>9. QED
      BY <1>0, <2>4, <3>3, <3>4, <3>5, <3>6, <3>7, <3>8, TaskMoves
  <2>5. QED  BY <2>2, <2>3, <2>4
<1>3. QED  BY <1>1, <1>2

\* All four hold of every reachable state.
THEOREM ResponseInvariant == Spec => [](ModelInv /\ RefusalInv /\ AbortInv /\ ResponseInv)
<1>1. Init => ModelInv /\ RefusalInv /\ AbortInv /\ ResponseInv
    BY DEF Init, InitialRun, NoFacts, NoOutcome, ModelInv, ClosedIsFinal, ModelIsClean,
       QueuedIsNew, RefusalInv, AbortInv, ResponseInv
<1>2. GateInv /\ FactInv /\ CallInv /\ ExecutionInv /\ OutcomeInv /\ (CleanupInv /\ HarnessInv)
        /\ (ModelInv /\ RefusalInv /\ AbortInv /\ ResponseInv) /\ [Next]_vars
        => (ModelInv /\ RefusalInv /\ AbortInv /\ ResponseInv)'
    BY ModelSteps, RefusalSteps, AbortSteps, ResponseSteps
<1>3. QED  BY <1>1, <1>2, GateInvariant, FactInvariant, CallInvariant, ExecutionInvariant,
         OutcomeInvariant, HarnessInvariant, PTL DEF Spec

\* handleCompletedCommitFailure: a run whose response reached the transcript is never
\* recorded as failed, whatever is aborted, caught, retried or recovered after it.
THEOREM ResponsesAreNotFailures == Spec => ResponseIsNotFailure
<1>1. TypeOK /\ ResponseInv /\ [Next]_vars =>
        [run.phase = "completion_candidate" => run'.status # "failed"]_vars
    BY ResponseStands
<1>2. QED  BY <1>1, TypeCorrect, ResponseInvariant, PTL DEF Spec, ResponseIsNotFailure

=============================================================================
