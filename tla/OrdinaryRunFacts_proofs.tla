------------------------ MODULE OrdinaryRunFacts_proofs ------------------------
(***************************************************************************)
(* What the snapshot of OrdinaryRun says of a call is true, for any finite *)
(* set of calls and any bounds: FactInv is inductive (with GateInv).       *)
(*                                                                         *)
(* A fact reaches the snapshot from one of the books of the process: the   *)
(* buffer of accepted results, the results of the loop, the outcomes it    *)
(* handed out.  All entries of the books are true, and stay true while     *)
(* the call moves on (TrueOf).  Only the facts `unknown` and `lost` are    *)
(* made up, by a settlement, and `lost` only for a confirmation that was   *)
(* not approved, whose call cannot have run.                               *)
(*                                                                         *)
(* Most actions are calm: they leave the tools alone and copy entries      *)
(* between the books and the snapshot (CalmKeeps).  The scheduling barrier *)
(* of the run comes last.                                                  *)
(***************************************************************************)
EXTENDS OrdinaryRun_proofs

\* The call did not run, and its refusal was not written down either.
Unrun(c) ==
    \/ tool[c] \in {"unused", "idle", "gated", "approved", "rejected"}
    \/ tool[c] = "persisting" /\ result[c] = "approval"

\* Fact f may be said of call c.
TrueOf(c, f) ==
    /\ f = "reported" => effect[c] = "ended"
    /\ f = "refused"  => effect[c] = "none" /\ ~Unrun(c)
    /\ f = "lost"     => effect[c] = "none" /\ tool[c] \notin {"unused", "idle", "approved"}
    /\ f = "approval" => c \in Gated /\ tool[c] \notin {"unused", "idle"}

\* What the process has noted of a call.
Noted(c) == {accepted[c], result[c]} \cup {outcome[t].facts[c] : t \in Tasks}

BooksAreTrue ==
    \A c \in Calls :
        /\ TrueOf(c, run.fact[c])
        /\ \A f \in Noted(c) : f # "lost" /\ TrueOf(c, f)

\* A call that was taken up is in the round that was written ahead of it, until it has
\* a final fact.
WrittenAhead ==
    \A c \in Calls :
        effect[c] # "none" \/ tool[c] \notin {"unused", "closed"} =>
            run.fact[c] \in FinalFact \/ c \in run.round

\* No round is open when the model may ask for one.
BetweenRounds == harness \in {"acquire", "start", "model"} \/ run.status = "queued"

RoundsInTurn == BetweenRounds => run.round = {}

\* The user is not asked about a call whose confirmation was lost.
AsksForOpen ==
    run.status = "awaiting_approval" => \A c \in run.requests : run.fact[c] # "lost"

\* All of it: inductive.
FactInv == BooksAreTrue /\ WrittenAhead /\ RoundsInTurn /\ AsksForOpen

\* A call whose confirmation may be closed as lost.
MayBeLost(c) == run.fact[c] = "approval" /\ run.decision[c] # "approve_once"

\* The facts of the snapshot come from the books or from a settlement, and open rounds
\* are closed with final facts only.
FactsFromBooks ==
    /\ \A c \in Calls :
        /\ \/ run'.fact[c] \in {run.fact[c], "unknown"} \cup Noted(c)
           \/ run'.fact[c] = "lost" /\ MayBeLost(c)
        /\ c \in run.round => c \in run'.round \/ run'.fact[c] \in FinalFact
    /\ run.round = {} => run'.round = {}
    /\ run'.status = "awaiting_approval" =>
        \A c \in run'.requests :
            run'.fact[c] = "lost" =>
                run.status = "awaiting_approval" /\ c \in run.requests
                /\ run.fact[c] = "lost"

\* The books are copied from each other.
BooksFromBooks == \A c \in Calls : \A f \in Noted(c)' : f = "none" \/ f \in Noted(c)

Calm ==
    /\ ToolsStay /\ FactsFromBooks /\ BooksFromBooks
    /\ BetweenRounds' => BetweenRounds

-----------------------------------------------------------------------------
(* What keeps the invariant. *)

\* A call moves so that what was said of it stays true, and what is noted of it now is
\* true as well.
MovesTruly(c) ==
    /\ \A f \in {run'.fact[c]} \cup Noted(c) : TrueOf(c, f) => TrueOf(c, f)'
    /\ \A f \in Noted(c)' : f \in Noted(c) \/ (f # "lost" /\ TrueOf(c, f)')
    /\ effect'[c] # "none" \/ tool'[c] \notin {"unused", "closed"} =>
            effect[c] # "none" \/ tool[c] \notin {"unused", "closed"}

LEMMA MovesKeep ==
    ASSUME GateInv, FactInv, KeepsFinal(run, run'), FactsFromBooks,
           BetweenRounds' => BetweenRounds \/ run'.round = {},
           \A c \in Calls : MovesTruly(c)
    PROVE  FactInv'
<1>1. ASSUME NEW c \in Calls, MayBeLost(c)
      PROVE  TrueOf(c, "lost")
    BY <1>1 DEF GateInv, GateHonoured, GateIsClosed, FactInv, BooksAreTrue, MayBeLost,
       TrueOf
<1>2. BooksAreTrue'
  <2>1. ASSUME NEW c \in Calls
        PROVE  TrueOf(c, run.fact[c])'
    <3>1. \/ run'.fact[c] = run.fact[c] \/ run'.fact[c] = "unknown"
          \/ run'.fact[c] \in Noted(c) \/ (run'.fact[c] = "lost" /\ MayBeLost(c))
      BY DEF FactsFromBooks
    <3>2. TrueOf(c, "unknown")
      BY DEF TrueOf
    <3>3. TrueOf(c, run.fact[c]) /\ \A f \in Noted(c) : TrueOf(c, f)
      BY DEF FactInv, BooksAreTrue
    <3>4. TrueOf(c, run'.fact[c])
      BY <1>1, <3>1, <3>2, <3>3
    <3>5. QED  BY <3>4 DEF MovesTruly
  <2>2. ASSUME NEW c \in Calls, NEW f \in Noted(c)'
        PROVE  f # "lost" /\ TrueOf(c, f)'
    <3>1. CASE f \in Noted(c)
      BY <3>1 DEF MovesTruly, FactInv, BooksAreTrue
    <3>2. CASE f # "lost" /\ TrueOf(c, f)'
      BY <3>2
    <3>3. QED  BY <3>1, <3>2 DEF MovesTruly
  <2>3. QED  BY <2>1, <2>2 DEF BooksAreTrue
<1>3. WrittenAhead'
    BY DEF MovesTruly, FactsFromBooks, FactInv, WrittenAhead, KeepsFinal
<1>4. RoundsInTurn'
    BY DEF FactsFromBooks, FactInv, RoundsInTurn
<1>5. AsksForOpen'
    BY DEF FactsFromBooks, FactInv, AsksForOpen
<1>6. QED  BY <1>2, <1>3, <1>4, <1>5 DEF FactInv

\* Calm steps keep it.
LEMMA CalmKeeps ==
    ASSUME GateInv, FactInv, KeepsFinal(run, run'), Calm
    PROVE  FactInv'
<1>1. \A c \in Calls : \A f : TrueOf(c, f) => TrueOf(c, f)'
    BY DEF Calm, ToolsStay, TrueOf, Unrun
<1>2. \A c \in Calls : TrueOf(c, "none")
    BY DEF TrueOf
<1>3. ASSUME NEW c \in Calls
      PROVE  MovesTruly(c)
    BY <1>1, <1>2 DEF Calm, BooksFromBooks, ToolsStay, MovesTruly
<1>4. QED  BY <1>3, MovesKeep DEF Calm

-----------------------------------------------------------------------------
(* Where the facts of the snapshot come from. *)

\* All of these facts are in the books.
AreNoted(facts) == \A c \in Calls : facts[c] = "none" \/ facts[c] \in Noted(c)

\* A snapshot with the same facts, round and confirmations, or one that asks for none.
LEMMA SameFacts ==
    ASSUME UNCHANGED <<run.fact, run.round>>,
           run'.status = "awaiting_approval" =>
                run.status = "awaiting_approval" /\ run'.requests = run.requests
    PROVE  FactsFromBooks
    BY DEF FactsFromBooks

\* A merge of facts of the books.
LEMMA MergeFacts ==
    ASSUME TypeOK, BooksAreTrue, NEW facts, AreNoted(facts), run' = Merge(run, facts)
    PROVE  FactsFromBooks
<1>1. /\ run'.round = run.round /\ run'.status = run.status
      /\ run'.requests = run.requests
      /\ \A c \in Calls : run'.fact[c] =
            IF facts[c] = "none" THEN run.fact[c] ELSE facts[c]
    BY DEF Merge, TypeOK, RunState
<1>2. \A c \in Calls : \A f \in Noted(c) : f # "lost"
    BY DEF BooksAreTrue
<1>3. \A c \in Calls : run'.fact[c] \in {run.fact[c]} \cup Noted(c)
    BY <1>1 DEF AreNoted
<1>4. \A c \in run.requests : run'.fact[c] = "lost" => run.fact[c] = "lost"
    BY <1>2, <1>3 DEF TypeOK, RunState
<1>5. QED  BY <1>1, <1>3, <1>4 DEF FactsFromBooks

\* The end of a run, with facts of the books.
LEMMA EndFacts ==
    ASSUME TypeOK, BooksAreTrue, NEW how \in Terminal, NEW facts, AreNoted(facts),
           run' = Ended(run, how, facts)
    PROVE  FactsFromBooks
<1>1. /\ run'.round = run.round /\ run'.status # "awaiting_approval"
      /\ \A c \in Calls : run'.fact[c] =
            IF facts[c] = "none" THEN run.fact[c] ELSE facts[c]
    BY DEF Ended, Merge, TypeOK, RunState, Terminal
<1>2. QED  BY <1>1 DEF FactsFromBooks, AreNoted

\* The reconciliation of the open round of a run that is not waiting.
LEMMA ReconcileFacts ==
    ASSUME TypeOK, run.status # "awaiting_approval",
           run' = ReconcileRound(run) \/ run' = RoundClosed(ReconcileRound(run))
    PROVE  FactsFromBooks
<1>1. /\ run'.round \in {run.round, {}} /\ run'.status = run.status
      /\ \A c \in Calls : run'.fact[c] =
            IF c \notin run.round \/ run.fact[c] \in FinalFact THEN run.fact[c]
            ELSE IF run.fact[c] = "approval" THEN Interrupted(run, c) ELSE "unknown"
  <2> DEFINE noted == ReconcileRound(run)
  <2>1. /\ noted.round = run.round /\ noted.status = run.status
        /\ noted.fact = [c \in Calls |->
              IF c \notin run.round \/ run.fact[c] \in FinalFact THEN run.fact[c]
              ELSE IF run.fact[c] = "approval" THEN Interrupted(run, c) ELSE "unknown"]
    BY DEF ReconcileRound, TypeOK, RunState
  <2>2. /\ RoundClosed(noted).round = {} /\ RoundClosed(noted).status = noted.status
        /\ RoundClosed(noted).fact = noted.fact
    BY ReconcileKeeps DEF RoundClosed, TypeOK, RunState
  <2>3. QED  BY <2>1, <2>2
<1>2. QED  BY <1>1 DEF FactsFromBooks, MayBeLost, Interrupted, FinalFact

\* The confirmations of a run that is not waiting any more are closed.
LEMMA CloseLostFacts ==
    ASSUME TypeOK, run.status # "awaiting_approval", run' = CloseLostApprovals(run)
    PROVE  FactsFromBooks
<1>1. /\ run'.round = run.round /\ run'.status = run.status
      /\ \A c \in Calls : run'.fact[c] =
            IF run.fact[c] = "approval" THEN Interrupted(run, c) ELSE run.fact[c]
    BY DEF CloseLostApprovals, TypeOK, RunState
<1>2. QED  BY <1>1 DEF FactsFromBooks, MayBeLost, Interrupted

\* The start of the run and the entries of its Session.
LEMMA CheckpointFacts ==
    ASSUME TypeOK,
           \/ run' = run \/ run' = StartCaptured(run) \/ run' = InputCommitted(run)
           \/ run' = Responded(run) \/ run' = Start(run)
    PROVE  FactsFromBooks
    BY SameFacts DEF StartCaptured, InputCommitted, Responded, Start, TypeOK, RunState

\* Only the buffer changes, and loses entries.
LEMMA BufferLoses ==
    ASSUME \A c \in Calls : accepted'[c] \in {"none", accepted[c]},
           UNCHANGED <<result, outcome>>
    PROVE  BooksFromBooks
    BY DEF BooksFromBooks, Noted

\* The flush of the buffer.
LEMMA FlushFacts ==
    ASSUME TypeOK, BooksAreTrue, FlushAccepted
    PROVE  /\ FactsFromBooks
           /\ \A c \in Calls : accepted'[c] \in {"none", accepted[c]}
<1> DEFINE stays(F, c) == c \in F \/ ~Compatible(run.fact[c], accepted[c])
           facts(F)    == [c \in Calls |-> IF stays(F, c) THEN "none" ELSE accepted[c]]
<1>1. PICK F \in SUBSET {c \in Calls : accepted[c] \notin {"none", run.fact[c]}} :
        /\ run' = Merge(run, facts(F))
        /\ accepted' = [c \in Calls |-> IF stays(F, c) THEN accepted[c] ELSE "none"]
    BY DEF FlushAccepted
<1>2. AreNoted(facts(F))
    BY DEF AreNoted, Noted
<1> HIDE DEF facts
<1>3. FactsFromBooks
    BY <1>1, <1>2, MergeFacts
<1>4. QED  BY <1>1, <1>3

\* The reconciliation and the second part of a settlement.
LEMMA ReconcilePendingFacts ==
    ASSUME TypeOK, run.status # "awaiting_approval",
           NEW ok \in BOOLEAN, ReconcilePending(ok)
    PROVE  FactsFromBooks
    BY ReconcileFacts, CheckpointFacts DEF ReconcilePending, Commit

LEMMA SettleFacts ==
    ASSUME TypeOK, NEW ok \in BOOLEAN, SettleRound(ok)
    PROVE  /\ FactsFromBooks
           /\ \A c \in Calls : accepted'[c] \in {"none", accepted[c]}
<1>1. \A c \in Calls : accepted'[c] \in {"none", accepted[c]}
    BY DEF SettleRound, NoFacts
<1>2. FactsFromBooks
    BY ReconcilePendingFacts, CloseLostFacts, CheckpointFacts DEF SettleRound, Commit,
       IsTerminal, Terminal
<1>3. QED  BY <1>1, <1>2

\* The end of the run with the facts of the outcome, or the failure to store it.
LEMMA EndsRunFacts ==
    ASSUME TypeOK, BooksAreTrue, NEW t \in Tasks, NEW how \in Terminal, NEW next,
           EndsRun(t, how, outcome[t].facts, next)
    PROVE  FactsFromBooks
<1>1. AreNoted(outcome[t].facts)
    BY DEF AreNoted, Noted
<1>2. QED  BY <1>1, EndFacts, CheckpointFacts DEF EndsRun, Commit, Throws

-----------------------------------------------------------------------------
(* The quiet actions are calm. *)

\* The buffer loses entries only.
BufferShrinks == \A c \in Calls : accepted'[c] \in {"none", accepted[c]}

LEMMA QuietIsCalm ==
    ASSUME GateInv, Quiet, harness' = harness \/ BetweenRounds,
           FactsFromBooks, BufferShrinks
    PROVE  Calm
<1>1. ToolsStay /\ BooksFromBooks
    BY BufferLoses DEF Quiet, ToolsStay, ScheduleStays, BufferShrinks
<1>2. run'.status = "queued" => run.status = "queued"
    BY RunMoves DEF GateInv, TypeOK, Quiet
<1>3. QED  BY <1>1, <1>2 DEF Calm, BetweenRounds

\* No facts are in the books.
LEMMA NoneNoted == AreNoted(NoFacts)
    BY DEF AreNoted, NoFacts

LEMMA HarnessCalm ==
    ASSUME GateInv, CaptureStart \/ CommitInput \/ Respond
    PROVE  Calm
<1>1. harness \in {"start", "model"} /\ UNCHANGED accepted
    BY DEF CaptureStart, CommitInput, Respond, HarnessKeeps
<1>2. FactsFromBooks
    BY CheckpointFacts DEF CaptureStart, CommitInput, Respond, Checkpoint, Commit,
       Throws, GateInv
<1>3. QED  BY <1>1, <1>2, HarnessQuiet, QuietIsCalm DEF BetweenRounds, BufferShrinks

\* The tasks.
LEMMA TaskCalm ==
    ASSUME GateInv, BooksAreTrue, NEW t \in Tasks,
           ApplyOutcome(t) \/ Released(t) \/ Caught(t)
           \/ CompletionCommitFails(t) \/ TaskFinalized(t) \/ TaskFlushes(t)
           \/ TaskSettles(t)
    PROVE  Calm
<1>0. TypeOK
    BY DEF GateInv
<1>1. harness' = harness
    BY DEF ApplyOutcome, Released, Caught, CompletionCommitFails, TaskFinalized,
       TaskFlushes, TaskSettles, TaskCommitKeeps, TaskKeeps, harnessVars
<1>2. CASE ApplyOutcome(t) \/ Caught(t) \/ CompletionCommitFails(t)
  <2>1. run' = run \/ \E how \in Terminal, next \in TaskPc :
                        EndsRun(t, how, outcome[t].facts, next)
    BY <1>2 DEF ApplyOutcome, Caught, CompletionCommitFails, Terminal, TaskPc
  <2>2. FactsFromBooks
    BY <1>0, <2>1, EndsRunFacts, CheckpointFacts
  <2>3. UNCHANGED accepted
    BY <1>2 DEF ApplyOutcome, Caught, CompletionCommitFails, TaskCommitKeeps
  <2>4. QED  BY <1>1, <2>2, <2>3, TaskQuiet, QuietIsCalm DEF BufferShrinks
<1>3. CASE Released(t) \/ TaskFinalized(t)
    BY <1>0, <1>1, <1>3, TaskQuiet, CheckpointFacts, QuietIsCalm DEF Released,
       TaskFinalized, BufferShrinks
<1>4. CASE TaskFlushes(t) \/ TaskSettles(t)
    BY <1>0, <1>1, <1>4, TaskQuiet, FlushFacts, SettleFacts, QuietIsCalm DEF
       TaskFlushes, TaskSettles, BufferShrinks
<1>5. QED  BY <1>2, <1>3, <1>4

\* The retry of a completion, the cancel and the restore.
LEMMA CompletionCalm ==
    ASSUME GateInv, BooksAreTrue,
           CompletionRetries \/ CompletionFinalized \/ Cancel \/ SessionRestores
    PROVE  Calm
<1>0. TypeOK
    BY DEF GateInv
<1>1. harness' = harness /\ UNCHANGED accepted
    BY DEF CompletionRetries, CompletionFinalized, Cancel, SessionRestores, harnessVars
<1>2. AreNoted(result)
    BY DEF AreNoted, Noted
<1>3. \/ run' = run
      \/ \E how \in Terminal, facts \in {result, NoFacts} : run' = Ended(run, how, facts)
    BY DEF CompletionRetries, CompletionFinalized, Cancel, SessionRestores, Commit,
       Throws, Terminal
<1>4. FactsFromBooks
    BY <1>0, <1>2, <1>3, NoneNoted, EndFacts, CheckpointFacts
<1>5. QED
    BY <1>1, <1>4, CompletionQuiet, CancelQuiet, QuietIsCalm DEF BufferShrinks

\* The cleanup and the pump.
LEMMA CleanupCalm ==
    ASSUME GateInv, BooksAreTrue,
           CleanupReleases \/ CleanupFinalized \/ CleanupSettles
           \/ CleanupFlushes \/ CleanupChecks \/ CleanupRetries
    PROVE  Calm
<1>0. TypeOK
    BY DEF GateInv
<1>1. harness' = harness
    BY DEF CleanupReleases, CleanupFinalized, CleanupSettles, CleanupFlushes,
       CleanupChecks, CleanupRetries, CleanupKeeps, harnessVars
<1>2. CASE CleanupFlushes \/ CleanupChecks
    BY <1>0, <1>1, <1>2, CleanupQuiet, FlushFacts, SettleFacts, QuietIsCalm DEF
       CleanupFlushes, CleanupChecks, BufferShrinks
<1>3. CASE CleanupReleases \/ CleanupFinalized \/ CleanupSettles \/ CleanupRetries
  <2>1. run' = run /\ UNCHANGED accepted
    BY <1>3 DEF CleanupReleases, CleanupFinalized, CleanupSettles, CleanupRetries
  <2>2. QED
    BY <1>0, <1>1, <1>3, <2>1, CleanupQuiet, CheckpointFacts, QuietIsCalm DEF
       BufferShrinks
<1>4. QED  BY <1>2, <1>3

LEMMA PumpCalm ==
    ASSUME GateInv, BooksAreTrue,
           PumpStarts \/ PumpFlushes \/ PumpSettles \/ PumpFinalized \/ PumpRetries
    PROVE  Calm
<1>0. TypeOK
    BY DEF GateInv
<1>1. harness' = harness
    BY DEF PumpStarts, PumpFlushes, PumpSettles, PumpFinalized, PumpRetries, PumpKeeps,
       harnessVars
<1>2. CASE PumpFlushes \/ PumpSettles
    BY <1>0, <1>1, <1>2, PumpQuiet, FlushFacts, SettleFacts, QuietIsCalm DEF
       PumpFlushes, PumpSettles, BufferShrinks
<1>3. CASE PumpStarts \/ PumpFinalized \/ PumpRetries
  <2>1. run' = run /\ UNCHANGED accepted
    BY <1>3 DEF PumpStarts, PumpFinalized, PumpRetries
  <2>2. QED
    BY <1>0, <1>1, <1>3, <2>1, PumpQuiet, CheckpointFacts, QuietIsCalm DEF
       BufferShrinks
<1>4. QED  BY <1>2, <1>3

\* The recovery: a round of calls and the confirmations a run waits for are closed.
LEMMA RecoveryCalm ==
    ASSUME GateInv, BooksAreTrue,
           RecoverApproval \/ RecoverRound \/ RecoverRunning \/ Recovered
    PROVE  Calm
<1>0. TypeOK
    BY DEF GateInv
<1>1. harness' = harness /\ UNCHANGED accepted
    BY DEF RecoverApproval, RecoverRound, RecoverRunning, Recovered, RecoveryKeeps,
       harnessVars
<1>2. FactsFromBooks
  <2>1. CASE RecoverApproval /\ run' # run
    <3> DEFINE noted  == ReconcileRound(run)
               closed == CloseLostApprovals(noted)
    <3>1. run' = Ended(closed, "blocked", NoFacts)
      BY <2>1 DEF RecoverApproval, Commit
    <3>2. noted \in RunState /\ closed \in RunState
      BY <1>0, ReconcileKeeps, CloseLostKeeps DEF TypeOK
    <3>3. /\ noted.round = run.round /\ noted.decision = run.decision
          /\ noted.fact = [c \in Calls |->
                IF c \notin run.round \/ run.fact[c] \in FinalFact THEN run.fact[c]
                ELSE IF run.fact[c] = "approval" THEN Interrupted(run, c) ELSE "unknown"]
      BY <1>0 DEF ReconcileRound, TypeOK, RunState
    <3>4. /\ closed.round = noted.round
          /\ closed.fact = [c \in Calls |->
                IF noted.fact[c] = "approval" THEN Interrupted(noted, c) ELSE noted.fact[c]]
      BY <3>2 DEF CloseLostApprovals, RunState
    <3>5. /\ run'.round = closed.round /\ run'.status = "blocked"
          /\ run'.fact = [c \in Calls |-> closed.fact[c]]
      BY <3>1, <3>2 DEF Ended, Merge, NoFacts, RunState
    <3>6. \A c \in Calls : Interrupted(noted, c) = Interrupted(run, c)
      BY <3>3 DEF Interrupted
    <3>7. \A c \in Calls :
            \/ run'.fact[c] \in {run.fact[c], "unknown"}
            \/ run'.fact[c] = "lost" /\ MayBeLost(c)
      BY <3>3, <3>4, <3>5, <3>6 DEF Interrupted, MayBeLost
    <3>8. QED  BY <3>3, <3>4, <3>5, <3>7 DEF FactsFromBooks
  <2>2. CASE RecoverRound
    BY <1>0, <2>2, ReconcilePendingFacts DEF RecoverRound
  <2>3. CASE RecoverRunning
    BY <1>0, <2>3, NoneNoted, EndFacts, CheckpointFacts DEF RecoverRunning, Commit,
       Terminal
  <2>4. CASE run' = run
    BY <1>0, <2>4, CheckpointFacts
  <2>5. QED  BY <2>1, <2>2, <2>3, <2>4 DEF Recovered
<1>3. QED  BY <1>1, <1>2, RecoveryQuiet, QuietIsCalm DEF BufferShrinks

-----------------------------------------------------------------------------
(* The other actions. *)

\* The start of the run is calm as well.
LEMMA StartCalm ==
    ASSUME GateInv, StartRun
    PROVE  Calm
<1>1. run' = Start(run) /\ run.status = "queued"
    BY DEF StartRun, Commit
<1>2. FactsFromBooks
    BY <1>1, CheckpointFacts DEF GateInv
<1>3. BooksFromBooks /\ ToolsStay
    BY DEF StartRun, BooksFromBooks, Noted, ToolsStay
<1>4. QED  BY <1>1, <1>2, <1>3 DEF Calm, BetweenRounds

\* An outcome that is handed to a task copies the results of the loop.
LEMMA ReturnedBooks ==
    ASSUME NEW kind, NEW facts, NEW asked, AreNoted(facts), UNCHANGED result,
           Returned(kind, facts, asked)
    PROVE  BooksFromBooks
<1>1. \A c \in Calls : accepted'[c] \in {accepted[c], facts[c]}
    BY DEF Returned, Remembered
<1>2. \A t \in Tasks : outcome'[t].facts \in {outcome[t].facts, facts}
    BY DEF Returned
<1>3. ASSUME NEW c \in Calls, NEW f \in Noted(c)'
      PROVE  f = "none" \/ f \in Noted(c)
  <2>1. f \in {accepted[c], result[c], facts[c]} \cup {outcome[t].facts[c] : t \in Tasks}
    BY <1>1, <1>2 DEF Noted
  <2>2. QED  BY <2>1 DEF AreNoted, Noted
<1>4. QED  BY <1>3 DEF BooksFromBooks

\* The harness acquires its resources, ends, or pauses.
LEMMA ReturnCalm ==
    ASSUME GateInv, Acquire \/ HarnessStops \/ Pause
    PROVE  Calm
<1>1. run' = run /\ ToolsStay /\ (harness' = "off" \/ harness' = harness \/ BetweenRounds)
    BY DEF Acquire, HarnessStops, Pause, ToolsStay, harnessVars, BetweenRounds
<1>2. FactsFromBooks
    BY <1>1, CheckpointFacts DEF GateInv
<1>3. AreNoted(result)
    BY DEF AreNoted, Noted
<1>4. BooksFromBooks
  <2>1. CASE UNCHANGED <<taskVars, accepted>>
    BY <1>1, <2>1, BufferLoses DEF taskVars, ToolsStay
  <2>2. CASE ~UNCHANGED <<taskVars, accepted>>
    <3>1. \E kind \in OutcomeKind, facts \in {result, NoFacts}, asked \in {{}, pending} :
                Returned(kind, facts, asked)
      BY <2>2 DEF Acquire, HarnessStops, Pause, OutcomeKind
    <3>2. QED  BY <1>1, <1>3, <3>1, NoneNoted, ReturnedBooks DEF ToolsStay
  <2>3. QED  BY <2>1, <2>2
<1>5. QED  BY <1>1, <1>2, <1>4 DEF Calm, BetweenRounds

\* A pause asks for confirmations that are open.
LEMMA PauseCalm ==
    ASSUME GateInv, BooksAreTrue, NEW t \in Tasks, ApplyPause(t)
    PROVE  Calm
<1>0. TypeOK
    BY DEF GateInv
<1>1. ToolsStay /\ UNCHANGED <<outcome, harness>>
    BY DEF ApplyPause, ToolsStay
<1>2. BufferShrinks
    BY DEF ApplyPause, Forgotten, BufferShrinks
<1>3. CASE run' = run
    BY <1>0, <1>1, <1>2, <1>3, CheckpointFacts, BufferLoses DEF Calm, BetweenRounds,
       ToolsStay, BufferShrinks
<1>4. CASE run' # run
  <2> DEFINE o == outcome[t]
             m == Merge(run, o.facts)
  <2>1. run' = Paused(run, o.facts, o.requests) /\ CanPause(run, o.facts, o.requests)
    BY <1>4 DEF ApplyPause, Commit, Throws
  <2>2. o.facts \in Facts /\ o.requests \subseteq Calls
    BY <1>0 DEF TypeOK, TasksOK
  <2>3. m \in RunState
    BY <1>0, <2>2, MergeKeeps DEF TypeOK
  <2>4. /\ run'.fact = m.fact /\ run'.round = m.round
        /\ run'.status = "awaiting_approval" /\ run'.requests = o.requests
    BY <2>1, <2>3 DEF Paused, RunState
  <2>5. /\ m.round = run.round
        /\ \A c \in Calls : m.fact[c] = IF o.facts[c] = "none" THEN run.fact[c] ELSE o.facts[c]
    BY <1>0 DEF Merge, TypeOK, RunState
  <2>6. \A c \in Calls : m.fact[c] \in {run.fact[c]} \cup Noted(c)
    BY <2>5 DEF Noted
  <2>7. \A c \in run'.requests : run'.fact[c] = "approval"
    BY <2>1 DEF CanPause, ApprovalFactsMatch
  <2>8. FactsFromBooks
    BY <2>4, <2>5, <2>6, <2>7 DEF FactsFromBooks
  <2>9. QED
    BY <1>1, <1>2, <2>4, <2>8, BufferLoses DEF Calm, BetweenRounds, ToolsStay,
       BufferShrinks
<1>5. QED  BY <1>3, <1>4

\* Calls of a new round were not used yet; it is written ahead of them.
LEMMA RoundAhead ==
    ASSUME GateInv, FactInv, KeepsFinal(run, run'),
           NEW calls \in SUBSET Calls, ToolRound(calls)
    PROVE  FactInv'
<1>0. TypeOK
    BY DEF GateInv
<1>1. /\ UNCHANGED <<result, effect, accepted, outcome>>
      /\ run.round = {} /\ run.status # "queued" /\ harness = "model"
    BY DEF ToolRound, HarnessKeeps, taskVars, FactInv, RoundsInTurn, BetweenRounds,
       GateInv, HaltedIsOver
<1>2. \A c \in Calls : Noted(c)' = Noted(c)
    BY <1>1 DEF Noted
<1>3. /\ run'.fact = run.fact /\ run'.status = run.status /\ run'.requests = run.requests
      /\ run'.round \in {run.round, calls}
      /\ harness' = "tools" => run'.round = calls
      /\ harness' \in {"tools", "broken"}
    BY <1>0 DEF ToolRound, Checkpoint, Commit, Throws, RoundAccepted, TypeOK, RunState
<1>4. \A c \in Calls : tool'[c] =
            IF c \in calls /\ harness' = "tools" THEN "idle" ELSE tool[c]
    BY DEF ToolRound
<1>5. \A c \in calls : tool[c] = "unused"
    BY DEF ToolRound
<1>6. \A c \in Calls : \A f : TrueOf(c, f) => TrueOf(c, f)'
    BY <1>1, <1>4, <1>5 DEF TrueOf, Unrun
<1>7. BooksAreTrue'
    BY <1>2, <1>3, <1>6 DEF FactInv, BooksAreTrue
<1>8. WrittenAhead'
    BY <1>1, <1>3, <1>4 DEF FactInv, WrittenAhead
<1>9. RoundsInTurn' /\ AsksForOpen'
    BY <1>1, <1>3 DEF FactInv, RoundsInTurn, BetweenRounds, AsksForOpen
<1>10. QED  BY <1>7, <1>8, <1>9 DEF FactInv

\* A round is closed when its calls have their final facts.
LEMMA RoundEnds ==
    ASSUME GateInv, FactInv, KeepsFinal(run, run'), CloseRound
    PROVE  FactInv'
<1>0. TypeOK
    BY DEF GateInv
<1>1. /\ UNCHANGED <<result, effect, accepted, outcome>>
      /\ run.status # "queued" /\ harness = "tools"
    BY DEF CloseRound, HarnessKeeps, taskVars, GateInv, HaltedIsOver
<1>2. \/ run' = run /\ harness' = "broken"
      \/ CanCloseRound(run, RoundCalls) /\ run' = RoundClosed(run)
    BY DEF CloseRound, Checkpoint, Commit, Throws
<1>3. run'.fact = run.fact /\ run'.status = run.status /\ run'.requests = run.requests
    BY <1>0, <1>2 DEF RoundClosed, TypeOK, RunState
<1>4. \/ run'.round = run.round /\ harness' = "broken"
      \/ run'.round = {} /\ \A c \in run.round : run.fact[c] \in FinalFact
    BY <1>0, <1>2 DEF RoundClosed, CanCloseRound, TypeOK, RunState
<1>5. FactsFromBooks
    BY <1>3, <1>4 DEF FactsFromBooks
<1>6. \A c \in Calls : tool'[c] = tool[c]
                        \/ (tool[c] = "delivered" /\ tool'[c] = "closed")
    BY DEF CloseRound, RoundCalls
<1>7. \A c \in Calls : \A f : TrueOf(c, f) => TrueOf(c, f)'
    BY <1>1, <1>6 DEF TrueOf, Unrun
<1>8. ASSUME NEW c \in Calls
      PROVE  MovesTruly(c)
    BY <1>1, <1>6, <1>7 DEF MovesTruly, Noted
<1>9. QED  BY <1>1, <1>3, <1>4, <1>5, <1>8, MovesKeep DEF BetweenRounds

\* A tool moves: what is stored of it comes from the books, and the other calls stay.
LEMMA ToolMoves ==
    ASSUME GateInv, BooksAreTrue, NEW c \in Calls, Tool(c)
    PROVE  /\ UNCHANGED <<outcome, harness>>
           /\ FactsFromBooks
           /\ BetweenRounds' => BetweenRounds
           /\ \A d \in Calls \ {c} :
                /\ tool'[d] = tool[d] /\ result'[d] = result[d] /\ effect'[d] = effect[d]
                /\ accepted'[d] \in {"none", accepted[d]}
<1>0. TypeOK
    BY DEF GateInv
<1>1. /\ UNCHANGED <<outcome, harness>>
      /\ ToolPersists(c) \/ run' = run
    BY DEF Tool, ToolGates, ToolRefused, ToolExecutes, ToolEnds, ToolPersists, Returns,
       ToolKeeps, taskVars
<1>2. AreNoted(OneFact(c, result[c]))
    BY DEF AreNoted, OneFact, NoFacts, Noted
<1>3. run' = run \/ run' = Merge(run, OneFact(c, result[c]))
    BY <1>1 DEF ToolPersists, Commit, Throws
<1>4. FactsFromBooks
    BY <1>0, <1>2, <1>3, MergeFacts, CheckpointFacts
<1>5. BetweenRounds' => BetweenRounds
    BY <1>0, <1>1, <1>3 DEF BetweenRounds, Merge, TypeOK, RunState
<1>6. \A d \in Calls \ {c} :
        /\ tool'[d] = tool[d] /\ result'[d] = result[d] /\ effect'[d] = effect[d]
        /\ accepted'[d] \in {"none", accepted[d]}
  <2>1. CASE ToolGates(c) \/ ToolRefused(c) \/ ToolEnds(c)
    BY <1>0, <2>1 DEF ToolGates, ToolRefused, ToolEnds, Returns, Remembered, OneFact,
       NoFacts, TypeOK, HarnessOK, Facts
  <2>2. CASE ToolExecutes(c)
    BY <1>0, <2>2 DEF ToolExecutes, TypeOK, HarnessOK
  <2>3. CASE ToolPersists(c)
    BY <1>0, <2>3 DEF ToolPersists, Forgotten, TypeOK, HarnessOK, Facts
  <2>4. QED  BY <2>1, <2>2, <2>3 DEF Tool
<1>7. QED  BY <1>1, <1>4, <1>5, <1>6

\* What is noted of a tool that moves is what it did.
LEMMA ToolTells ==
    ASSUME GateInv, FactInv, KeepsFinal(run, run'), NEW c \in Calls, Tool(c)
    PROVE  FactInv'
<1>0. TypeOK
    BY DEF GateInv
<1>1. UNCHANGED <<outcome, harness>>
    BY ToolMoves DEF FactInv
<1>4. FactsFromBooks
    BY ToolMoves DEF FactInv
<1>5. BetweenRounds' => BetweenRounds
    BY ToolMoves DEF FactInv
<1>6. \A d \in Calls \ {c} :
        /\ tool'[d] = tool[d] /\ result'[d] = result[d] /\ effect'[d] = effect[d]
        /\ accepted'[d] \in {"none", accepted[d]}
    BY ToolMoves DEF FactInv
<1>7. \A d \in Calls : TrueOf(d, "none")
    BY DEF TrueOf
<1>8. ASSUME NEW d \in Calls \ {c}
      PROVE  MovesTruly(d)
  <2>1. \A f : TrueOf(d, f) => TrueOf(d, f)'
    BY <1>6 DEF TrueOf, Unrun
  <2>2. \A f \in Noted(d)' : f \in Noted(d) \/ f = "none"
    BY <1>1, <1>6 DEF Noted
  <2>3. QED  BY <1>6, <1>7, <2>1, <2>2 DEF MovesTruly
<1>9. MovesTruly(c)
  <2>1. /\ tool[c] = "executing" => effect[c] = "started"
        /\ tool[c] \in {"unused", "idle", "gated", "approved", "rejected"} =>
                effect[c] = "none"
    BY DEF GateInv, GateIsClosed
  <2>2. CASE ToolGates(c)
    <3>1. /\ tool[c] = "idle" /\ c \in Gated /\ effect'[c] = effect[c]
          /\ tool'[c] \in {"persisting", "delivered"}
          /\ tool'[c] = "persisting" => result'[c] = "approval"
          /\ result'[c] \in {"approval", "unaccepted"}
          /\ accepted'[c] \in {accepted[c], "approval"}
      BY <1>0, <2>2 DEF ToolGates, Returns, Remembered, OneFact, NoFacts, TypeOK,
         HarnessOK, Facts
    <3>2. \A f : TrueOf(c, f) => TrueOf(c, f)'
      BY <3>1 DEF TrueOf, Unrun
    <3>3. TrueOf(c, "approval")' /\ TrueOf(c, "unaccepted")'
      BY <3>1 DEF TrueOf
    <3>4. QED  BY <1>1, <3>1, <3>2, <3>3 DEF MovesTruly, Noted
  <2>3. CASE ToolRefused(c)
    <3>1. /\ tool[c] \in {"idle", "gated", "rejected"} /\ effect'[c] = "none"
          /\ effect[c] = "none"
          /\ tool'[c] \in {"persisting", "delivered"}
          /\ result'[c] \in {"refused", "unaccepted"}
          /\ accepted'[c] \in {accepted[c], "refused"}
      BY <1>0, <2>1, <2>3 DEF ToolRefused, Returns, Remembered, OneFact, NoFacts, TypeOK,
         HarnessOK, Facts
    <3>2. \A f : TrueOf(c, f) => TrueOf(c, f)'
      BY <3>1 DEF TrueOf, Unrun
    <3>3. TrueOf(c, "refused")' /\ TrueOf(c, "unaccepted")'
      BY <3>1 DEF TrueOf, Unrun
    <3>4. QED  BY <1>1, <3>1, <3>2, <3>3 DEF MovesTruly, Noted
  <2>4. CASE ToolExecutes(c)
    <3>1. /\ tool[c] \in {"idle", "approved"} /\ effect[c] = "none"
          /\ tool'[c] = "executing" /\ UNCHANGED <<accepted, result>>
      BY <1>0, <2>1, <2>4 DEF ToolExecutes, TypeOK, HarnessOK
    <3>2. \A f : TrueOf(c, f) => TrueOf(c, f)'
      BY <3>1 DEF TrueOf, Unrun
    <3>3. QED  BY <1>1, <3>1, <3>2 DEF MovesTruly, Noted
  <2>5. CASE ToolEnds(c)
    <3>1. /\ tool[c] = "executing" /\ effect'[c] = "ended" /\ effect[c] = "started"
          /\ tool'[c] \in {"persisting", "delivered"}
          /\ result'[c] \in {"reported", "unaccepted"}
          /\ accepted'[c] \in {accepted[c], "reported"}
      BY <1>0, <2>1, <2>5 DEF ToolEnds, Returns, Remembered, OneFact, NoFacts, TypeOK,
         HarnessOK, Facts
    <3>2. \A f : TrueOf(c, f) => TrueOf(c, f)'
      BY <3>1 DEF TrueOf, Unrun
    <3>3. TrueOf(c, "reported")' /\ TrueOf(c, "unaccepted")'
      BY <3>1 DEF TrueOf
    <3>4. QED  BY <1>1, <3>1, <3>2, <3>3 DEF MovesTruly, Noted
  <2>6. CASE ToolPersists(c)
    <3>1. /\ tool[c] = "persisting" /\ effect' = effect
          /\ tool'[c] \in {"gated", "delivered"}
          /\ tool'[c] = "gated" => result[c] = "approval"
          /\ result'[c] \in {result[c], "unaccepted"}
          /\ accepted'[c] \in {accepted[c], "none"}
      BY <1>0, <2>6 DEF ToolPersists, Forgotten, TypeOK, HarnessOK, Facts
    <3>2. \A f : TrueOf(c, f) => TrueOf(c, f)'
      BY <3>1 DEF TrueOf, Unrun
    <3>3. TrueOf(c, "none")' /\ TrueOf(c, "unaccepted")'
      BY <3>1 DEF TrueOf
    <3>4. QED  BY <1>1, <3>1, <3>2, <3>3 DEF MovesTruly, Noted
  <2>7. QED  BY <2>2, <2>3, <2>4, <2>5, <2>6 DEF Tool
<1>10. QED  BY <1>4, <1>5, <1>8, <1>9, MovesKeep

\* The user decides a call whose confirmation is open.
LEMMA DecisionTells ==
    ASSUME GateInv, FactInv, KeepsFinal(run, run'),
           NEW c \in Calls, NEW d \in {"approve_once", "reject"}, DecideApproval(c, d)
    PROVE  FactInv'
<1>0. TypeOK
    BY DEF GateInv
<1>1. /\ Live /\ run.status = "awaiting_approval" /\ c \in run.requests
      /\ UNCHANGED <<result, effect, accepted, harness>>
      /\ outcome' = [outcome EXCEPT !["decide"] = NoOutcome]
    BY DEF DecideApproval, CanDecide
<1>2. /\ run'.fact = run.fact /\ run'.round = run.round
      /\ run'.status = "running" /\ run'.requests = {}
    BY <1>0 DEF DecideApproval, Commit, Decided, TypeOK, RunState
<1>3. FactsFromBooks /\ (BetweenRounds' => BetweenRounds)
    BY <1>1, <1>2 DEF FactsFromBooks, BetweenRounds
<1>4. tool[c] = "gated" /\ run.fact[c] # "lost"
    BY <1>1 DEF GateInv, AwaitingIsLive, GateIsClosed, FactInv, AsksForOpen
<1>5. /\ tool'[c] \in {"approved", "rejected"}
      /\ \A k \in Calls \ {c} : tool'[k] = tool[k]
    BY <1>0 DEF DecideApproval, TypeOK, HarnessOK
<1>6. \A k \in Calls : \A f \in Noted(k)' : f \in Noted(k) \/ f = "none"
    BY <1>0, <1>1 DEF Noted, NoOutcome, NoFacts, TypeOK, TasksOK
<1>7. ASSUME NEW k \in Calls
      PROVE  MovesTruly(k)
  <2>1. \A f \in {run'.fact[c]} \cup Noted(c) : f # "lost"
    BY <1>2, <1>4 DEF FactInv, BooksAreTrue
  <2>2. \A f : TrueOf(k, f) /\ (f # "lost" \/ k # c) => TrueOf(k, f)'
    BY <1>1, <1>4, <1>5 DEF TrueOf, Unrun
  <2>3. TrueOf(k, "none")'
    BY DEF TrueOf
  <2>4. QED  BY <1>1, <1>4, <1>5, <1>6, <2>1, <2>2, <2>3 DEF MovesTruly
<1>8. QED  BY <1>3, <1>7, MovesKeep

\* After a crash only the snapshot tells anything.
LEMMA CrashTells ==
    ASSUME GateInv, FactInv, KeepsFinal(run, run'), Crash
    PROVE  FactInv'
<1>1. run' = run /\ run.status # "queued" /\ harness' = "off" /\ effect' = effect
    BY DEF Crash
<1>2. FactsFromBooks
    BY <1>1, CheckpointFacts DEF GateInv
<1>3. \A c \in Calls : tool'[c] = "closed" /\ \A f \in Noted(c)' : f = "none"
    BY DEF Crash, Noted, NoFacts, NoOutcome
<1>4. ASSUME NEW c \in Calls
      PROVE  MovesTruly(c)
  <2>1. \A f : TrueOf(c, f) => TrueOf(c, f)'
    BY <1>1, <1>3 DEF TrueOf, Unrun
  <2>2. TrueOf(c, "none")'
    BY DEF TrueOf
  <2>3. QED  BY <1>1, <1>3, <2>1, <2>2 DEF MovesTruly
<1>5. QED  BY <1>1, <1>2, <1>4, MovesKeep DEF BetweenRounds

-----------------------------------------------------------------------------
(* The theorems. *)

\* Every step keeps the facts true.
LEMMA FactSteps ==
    ASSUME GateInv, FactInv, [Next]_vars
    PROVE  FactInv'
<1>0. KeepsFinal(run, run') /\ BooksAreTrue
    BY NextKeeps, SnapshotStepKeeps DEF GateInv, TypeOK, FactInv
<1>1. CASE Calm
    BY <1>0, <1>1, CalmKeeps
<1>2. CASE Harness
    BY <1>0, <1>1, <1>2, ReturnCalm, HarnessCalm, RoundAhead, RoundEnds DEF Harness
<1>3. CASE \E c \in Calls : Tool(c)
    BY <1>0, <1>3, ToolTells
<1>4. CASE StartRun \/ (\E t \in Tasks : Task(t)) \/ Completion
    BY <1>0, <1>1, <1>4, StartCalm, PauseCalm, TaskCalm, CompletionCalm DEF Task,
       Completion
<1>5. CASE User
    BY <1>0, <1>1, <1>5, CompletionCalm, DecisionTells DEF User
<1>6. CASE Cleanup \/ SessionRestores \/ Pump \/ Recovery
    BY <1>0, <1>1, <1>6, CleanupCalm, CompletionCalm, PumpCalm, RecoveryCalm DEF
       Cleanup, Pump, Recovery
<1>7. CASE Crash
    BY <1>0, <1>7, CrashTells
<1>8. CASE UNCHANGED vars
  <2>1. FactsFromBooks /\ BooksFromBooks
    BY <1>8, CheckpointFacts DEF vars, taskVars, harnessVars, GateInv, BooksFromBooks,
       Noted
  <2>2. Calm
    BY <1>8, <2>1 DEF vars, harnessVars, Calm, ToolsStay, BetweenRounds
  <2>3. QED  BY <1>1, <2>2
<1>9. QED  BY <1>2, <1>3, <1>4, <1>5, <1>6, <1>7, <1>8 DEF Next

\* FactInv holds of every reachable state, for any set of calls and any bounds.
THEOREM FactInvariant == Spec => []FactInv
<1>1. Init => FactInv
    BY DEF Init, InitialRun, NoFacts, NoOutcome, FactInv, BooksAreTrue, Noted, TrueOf,
       WrittenAhead, RoundsInTurn, AsksForOpen
<1>2. FactInv /\ GateInv /\ [Next]_vars => FactInv'
    BY FactSteps
<1>3. QED  BY <1>1, <1>2, GateInvariant, PTL DEF Spec

\* The snapshot never says of a call what it did not do: a reported result comes from a
\* tool that ended, and a call that is recorded as refused or lost never ran, in this
\* process or in one that crashed.
THEOREM FactsAreHonest == Spec => []HonestFacts
<1>1. FactInv => HonestFacts
    BY DEF FactInv, BooksAreTrue, TrueOf, HonestFacts
<1>2. QED  BY <1>1, FactInvariant, PTL

\* A run that its listeners may read accounts for every call that had an effect, whatever
\* results were late, lost or not stored.
THEOREM EffectsAreRecorded == Spec => []NoSilentEffect
<1>1. TypeOK /\ FactInv => NoSilentEffect
  <2> SUFFICES ASSUME TypeOK, FactInv, Stable, NEW c \in Calls, effect[c] # "none"
               PROVE  run.fact[c] \in {"reported", "unknown", "unaccepted"}
    BY DEF NoSilentEffect
  <2>1. run.fact[c] \in FinalFact
    BY DEF FactInv, WrittenAhead, Stable
  <2>2. run.fact[c] \notin {"refused", "lost"}
    BY DEF FactInv, BooksAreTrue, TrueOf
  <2>3. QED  BY <2>1, <2>2 DEF FinalFact
<1>2. QED  BY <1>1, FactInvariant, TypeCorrect, PTL

-----------------------------------------------------------------------------
(* The scheduling barrier: while a run that ended still holds the writer of  *)
(* the Session, its finalization is under way or failed, or the cleanup that *)
(* a cancellation scheduled is going to ask for it (BarrierInv).  So the     *)
(* barrier is not cleared, and the next turn of the conversation waits.      *)


\* The run's lease may still write to the Session.
Writes == session \in {"acquiring", "open"}

\* The cleanup finalizes the Session when it has released the continuation.
CleanupOwes == cleanupCont /\ cleanupFin /\ cleanup \in {"release", "timer"}

FinalizationOwed ==
    Writes /\ IsTerminal(run) /\ cancels < 2 => finalization # "clear" \/ CleanupOwes

\* All of it: inductive (with GateInv).
BarrierInv ==
    /\ FinalizationOwed
    /\ cancels = 0 => cleanup = "off" /\ ~cleanupCont
    /\ ~Live => session = "none"
    /\ harness = "acquire" => session = "acquiring"

\* A step after which nothing is forgotten: what the cleanup owes it still owes or has
\* asked for, and the run ends only when its finalization is asked for.
Tidy ==
    /\ cancels' = cancels
    /\ cleanup = "off" /\ ~cleanupCont => cleanup' = "off" /\ ~cleanupCont'
    /\ CleanupOwes /\ Writes' => CleanupOwes' \/ finalization' # "clear"
    /\ Writes' => /\ Writes
                  /\ \/ finalization' # "clear"
                     \/ finalization' = finalization /\ (IsTerminal(run') => IsTerminal(run))
    /\ ~Live' => ~Live /\ session' = session
    /\ harness' = "acquire" => harness = "acquire" /\ (Writes => session' = session)

LEMMA TidyKeeps ==
    ASSUME BarrierInv, Tidy
    PROVE  BarrierInv'
<1>1. FinalizationOwed'
    BY DEF BarrierInv, Tidy, FinalizationOwed
<1>2. QED  BY <1>1 DEF BarrierInv, Tidy, Writes

-----------------------------------------------------------------------------
(* Tidy steps. *)

\* Neither the Session nor the cleanup is touched.
LEMMA SessionStays ==
    ASSUME UNCHANGED <<cancels, cleanupVars, session, finalization>>,
           IsTerminal(run') => IsTerminal(run) \/ ~Writes,
           ~Live' => ~Live, harness' = "acquire" => harness = "acquire"
    PROVE  Tidy
    BY DEF Tidy, CleanupOwes, Writes, cleanupVars

\* A call of the finalization is noted as long as there is a writer.
LEMMA FinalizingIsNoted ==
    ASSUME Writes
    PROVE  \A r : Finalizing(FinalizeStart(r)) # "clear"
    BY DEF Writes, FinalizeStart, Finalizing

\* The harness and its tools.
LEMMA HarnessTidy ==
    ASSUME GateInv, CaptureStart \/ CommitInput \/ Respond \/ CloseRound \/ HarnessStops
                    \/ Pause \/ \E calls \in SUBSET Calls : ToolRound(calls)
    PROVE  Tidy
<1>0. TypeOK
    BY DEF GateInv
<1>1. StillStep(run, run')
    BY <1>0, CaptureStartKeeps, CommitInputKeeps, RespondKeeps, CloseRoundKeeps,
       HarnessStopsKeeps, PauseKeeps, ToolRoundKeeps
<1>2. IsTerminal(run') => IsTerminal(run)
    BY <1>0, <1>1, StillStepKeeps DEF TypeOK, IsTerminal
<1>3. /\ UNCHANGED <<cancels, cleanupVars, session, finalization, proc>>
      /\ harness' = "acquire" => harness = "acquire"
    BY DEF CaptureStart, CommitInput, Respond, CloseRound, HarnessStops, Pause, ToolRound,
       Checkpoint, HarnessKeeps, harnessVars, sessionVars, systemVars
<1>4. QED  BY <1>2, <1>3, SessionStays DEF Live

LEMMA ToolTidy ==
    ASSUME GateInv, NEW c \in Calls, Tool(c)
    PROVE  Tidy
<1>0. TypeOK
    BY DEF GateInv
<1>1. StillStep(run, run')
    BY <1>0, ToolGatesKeeps, ToolRefusedKeeps, ToolExecutesKeeps, ToolEndsKeeps,
       ToolPersistsKeeps DEF Tool
<1>2. IsTerminal(run') => IsTerminal(run)
    BY <1>0, <1>1, StillStepKeeps DEF TypeOK, IsTerminal
<1>3. UNCHANGED <<cancels, cleanupVars, session, finalization, proc, harness>>
    BY DEF Tool, ToolGates, ToolRefused, ToolExecutes, ToolEnds, ToolPersists, ToolKeeps,
       sessionVars, systemVars
<1>4. QED  BY <1>2, <1>3, SessionStays DEF Live

\* The lease is taken, or it is not.
LEMMA AcquireTidy ==
    ASSUME BarrierInv, Acquire
    PROVE  Tidy
    BY DEF Acquire, BarrierInv, Tidy, CleanupOwes, Writes, cleanupVars, systemVars, Live

\* The tasks, apart from the ends of runs and of finalizations, and the decision.
LEMMA TaskTidy ==
    ASSUME GateInv,
           \/ \E t \in Tasks : ApplyPause(t) \/ Released(t) \/ TaskFlushes(t) \/ TaskSettles(t)
           \/ \E c \in Calls, d \in {"approve_once", "reject"} : DecideApproval(c, d)
    PROVE  Tidy
<1>0. TypeOK
    BY DEF GateInv
<1>1. \/ StillStep(run, run')
      \/ run'.status \in {"awaiting_approval", "running"}
    BY <1>0, ReleasedKeeps, TaskFlushesKeeps, TaskSettlesKeeps DEF ApplyPause, Commit,
       Throws, StillStep, Paused, Merge, DecideApproval, Decided, TypeOK, RunState
<1>2. IsTerminal(run') => IsTerminal(run)
    BY <1>0, <1>1, StillStepKeeps DEF TypeOK, IsTerminal, Terminal
<1>3. UNCHANGED <<cancels, cleanupVars, session, finalization, proc, harness>>
    BY DEF ApplyPause, Released, TaskFlushes, TaskSettles, DecideApproval, TaskKeeps,
       harnessVars, sessionVars, systemVars
<1>4. QED  BY <1>2, <1>3, SessionStays DEF Live

\* A run that ends asks for its finalization.
LEMMA EndTidy ==
    ASSUME GateInv,
           CompletionRetries \/ \E t \in Tasks :
                ApplyOutcome(t) \/ Caught(t) \/ CompletionCommitFails(t)
    PROVE  Tidy
<1>1. UNCHANGED <<cancels, cleanupVars, session, proc, harness>>
    BY DEF CompletionRetries, ApplyOutcome, Caught, CompletionCommitFails, TaskCommitKeeps,
       harnessVars, systemVars
<1>2. \/ run' = run /\ finalization' = finalization
      \/ finalization' = Finalizing(FinalizeStart(run'))
    BY DEF CompletionRetries, ApplyOutcome, Caught, CompletionCommitFails, EndsRun, Throws
<1>3. Writes => finalization' # "clear" \/ (run' = run /\ finalization' = finalization)
    BY <1>2, FinalizingIsNoted
<1>4. QED  BY <1>1, <1>3 DEF Tidy, CleanupOwes, Writes, cleanupVars, Live

\* A finalization ends, whoever asked for it: the writer is gone, or it failed.
LEMMA FinalizedTidy ==
    ASSUME BarrierInv,
           CompletionFinalized \/ PumpFinalized \/ CleanupFinalized \/ SessionRestores
           \/ \E t \in Tasks : TaskFinalized(t)
    PROVE  Tidy
<1>1. \/ session' = "none" /\ harness = "off"
      \/ session' = session /\ finalization' = "failed"
      \/ session' = "restored" /\ session = "open" /\ finalization' = finalization
    BY DEF CompletionFinalized, PumpFinalized, CleanupFinalized, SessionRestores,
       TaskFinalized, FinalizeEnds
<1>2. /\ UNCHANGED <<cancels, harness, proc, run, cleanupCont, cleanupFin>>
      /\ cleanup' = cleanup \/ cleanup = "finalize"
    BY DEF CompletionFinalized, PumpFinalized, CleanupFinalized, SessionRestores,
       TaskFinalized, cleanupVars, harnessVars, systemVars, CleanupKeeps, PumpKeeps
<1>3. Live' <=> Live
    BY <1>2 DEF Live
<1>4. ~Live => session = "none" /\ session' = "none"
    BY <1>1 DEF BarrierInv
<1>5. harness = "acquire" => session = "acquiring"
    BY DEF BarrierInv
<1>6. QED  BY <1>1, <1>2, <1>3, <1>4, <1>5 DEF Tidy, CleanupOwes, Writes

\* The pump.
LEMMA PumpTidy ==
    ASSUME GateInv, PumpStarts \/ PumpFlushes \/ PumpSettles \/ PumpRetries
    PROVE  Tidy
<1>0. TypeOK
    BY DEF GateInv
<1>1. StillStep(run, run')
    BY <1>0, PumpStartsKeeps, PumpFlushesKeeps, PumpSettlesKeeps, PumpRetriesKeeps
<1>2. IsTerminal(run') => IsTerminal(run)
    BY <1>0, <1>1, StillStepKeeps DEF TypeOK, IsTerminal
<1>3. UNCHANGED <<cancels, cleanupVars, session, proc, harness>>
    BY DEF PumpStarts, PumpFlushes, PumpSettles, PumpRetries, PumpKeeps, sessionVars,
       harnessVars, systemVars
<1>4. \/ finalization' = finalization
      \/ finalization' = Finalizing(FinalizeStart(run))
    BY DEF PumpStarts, PumpFlushes, PumpSettles, PumpRetries, sessionVars
<1>5. Writes => finalization' # "clear" \/ finalization' = finalization
    BY <1>4, FinalizingIsNoted
<1>6. QED  BY <1>2, <1>3, <1>5 DEF Tidy, CleanupOwes, Writes, cleanupVars, Live

\* The cleanup: what it owes it has asked for when it goes on.
LEMMA CleanupTidy ==
    ASSUME GateInv, CleanupReleases \/ CleanupSettles \/ CleanupFlushes \/ CleanupChecks
                    \/ CleanupRetries
    PROVE  Tidy
<1>0. TypeOK
    BY DEF GateInv
<1>1. StillStep(run, run')
    BY <1>0, CleanupReleasesKeeps, CleanupSettlesKeeps, CleanupFlushesKeeps,
       CleanupChecksKeeps, CleanupRetriesKeeps
<1>2. IsTerminal(run') => IsTerminal(run)
    BY <1>0, <1>1, StillStepKeeps DEF TypeOK, IsTerminal
<1>3. UNCHANGED <<cancels, session, proc, harness>> /\ cleanup # "off"
    BY DEF CleanupReleases, CleanupSettles, CleanupFlushes, CleanupChecks, CleanupRetries,
       CleanupKeeps, sessionVars, harnessVars, systemVars
<1>4. CASE \E cont \in BOOLEAN : CleanupGoesOn(cont, cleanupFin)
  <2>1. IF cleanupFin THEN finalization' = Finalizing(FinalizeStart(run'))
        ELSE finalization' = finalization
    BY <1>4 DEF CleanupGoesOn
  <2>2. Writes => IF cleanupFin THEN finalization' # "clear" ELSE finalization' = finalization
    BY <2>1, FinalizingIsNoted
  <2>3. QED  BY <1>2, <1>3, <2>2 DEF Tidy, CleanupOwes, Writes, Live
<1>5. CASE ~\E cont \in BOOLEAN : CleanupGoesOn(cont, cleanupFin)
  <2>1. continuation \in BOOLEAN
    BY <1>0 DEF TypeOK, HandlesOK
  <2>2. /\ UNCHANGED <<finalization, cleanupCont, cleanupFin>>
        /\ cleanup \in {"release", "timer"} => cleanup' \in {"release", "timer"}
    BY <1>5, <2>1 DEF CleanupReleases, CleanupSettles, CleanupFlushes, CleanupChecks,
       CleanupRetries, sessionVars
  <2>3. QED  BY <1>2, <1>3, <2>2 DEF Tidy, CleanupOwes, Writes, Live
<1>6. QED  BY <1>4, <1>5

\* The recovery finds no writer.
LEMMA RecoveryTidy ==
    ASSUME GateInv, BarrierInv, Recovery
    PROVE  Tidy
<1>1. /\ UNCHANGED <<cancels, cleanupVars, session, finalization, harness>> /\ ~Live
    BY DEF Recovery, RecoverApproval, RecoverRound, RecoverRunning, Recovered,
       RecoveryKeeps, sessionVars, harnessVars, Live
<1>2. QED  BY <1>1, SessionStays DEF BarrierInv, Writes

-----------------------------------------------------------------------------
(* The cancel, the start and the crash. *)

\* The first cancel asks for the finalization or leaves it to the cleanup.
LEMMA CancelOwes ==
    ASSUME GateInv, BarrierInv, Cancel
    PROVE  BarrierInv'
<1>0. TypeOK
    BY DEF GateInv
<1>1. /\ UNCHANGED <<session, harness, proc>> /\ Live
      /\ cancels' = cancels + 1 /\ cancels \in Nat /\ IsTerminal(run')
    BY <1>0, BoundsAssumption DEF Cancel, TypeOK, SystemOK, Commit, Ended, Merge, IsTerminal,
       Terminal
<1>2. ASSUME cancels = 0, Writes
      PROVE  finalization' # "clear" \/ CleanupOwes'
  <2> DEFINE fin == ~IsTerminal(run) \/ finalization # "clear"
  <2>1. cleanup = "off" /\ ~cleanupCont /\ fin
    BY <1>2 DEF BarrierInv, FinalizationOwed, CleanupOwes
  <2>2. CASE continuation
    BY <2>1, <2>2 DEF Cancel, CleanupOwes
  <2>3. CASE ~continuation
    <3>1. CleanupGoesOn(FALSE, fin)
      BY <2>1, <2>3 DEF Cancel
    <3>2. finalization' = Finalizing(FinalizeStart(run'))
      BY <2>1, <3>1 DEF CleanupGoesOn
    <3>3. QED  BY <1>2, <3>2, FinalizingIsNoted
  <2>4. QED  BY <2>2, <2>3
<1>3. FinalizationOwed'
    BY <1>1, <1>2 DEF FinalizationOwed, Writes
<1>4. QED  BY <1>1, <1>3 DEF BarrierInv, Live

\* Every step keeps the invariant.
LEMMA BarrierSteps ==
    ASSUME GateInv, BarrierInv, [Next]_vars
    PROVE  BarrierInv'
<1>1. CASE Tidy
    BY <1>1, TidyKeeps
<1>2. CASE StartRun
    BY <1>2 DEF StartRun, Commit, Start, IsTerminal, Terminal, BarrierInv, FinalizationOwed,
       cleanupVars, systemVars, Live
<1>3. CASE Harness \/ \E c \in Calls : Tool(c)
    BY <1>1, <1>3, HarnessTidy, AcquireTidy, ToolTidy DEF Harness
<1>4. CASE (\E t \in Tasks : Task(t)) \/ Completion
    BY <1>1, <1>4, TaskTidy, EndTidy, FinalizedTidy DEF Task, Completion
<1>5. CASE User
    BY <1>1, <1>5, CancelOwes, TaskTidy DEF User
<1>6. CASE Cleanup \/ SessionRestores \/ Pump \/ Recovery
    BY <1>1, <1>6, CleanupTidy, FinalizedTidy, PumpTidy, RecoveryTidy DEF Cleanup, Pump
<1>7. CASE Crash
    BY <1>7 DEF Crash, BarrierInv, FinalizationOwed, Writes
<1>8. CASE UNCHANGED vars
  <2>1. Tidy
    BY <1>8, SessionStays DEF vars, sessionVars, systemVars, harnessVars, Live
  <2>2. QED  BY <1>1, <2>1
<1>9. QED  BY <1>2, <1>3, <1>4, <1>5, <1>6, <1>7, <1>8 DEF Next

-----------------------------------------------------------------------------
(* The theorems. *)

\* BarrierInv holds of every reachable state, for any set of calls and any bounds.
THEOREM BarrierInvariant == Spec => []BarrierInv
<1>1. Init => BarrierInv
    BY DEF Init, BarrierInv, FinalizationOwed, Writes, Live
<1>2. BarrierInv /\ GateInv /\ [Next]_vars => BarrierInv'
    BY BarrierSteps
<1>3. QED  BY <1>1, <1>2, GateInvariant, PTL DEF Spec

\* The next turn of the conversation does not start while this run's writer can still move
\* the Session, whatever failed or was retried after the run ended, unless the user
\* cancelled it twice.
THEOREM BarrierFollowsRestore == Spec => []BarrierAfterRestore
<1>1. TypeOK /\ BarrierInv => BarrierAfterRestore
    BY DEF BarrierInv, FinalizationOwed, CleanupOwes, Writes, BarrierAfterRestore,
       BarrierCleared, TypeOK, SchedulingOK
<1>2. QED  BY <1>1, BarrierInvariant, TypeCorrect, PTL

=============================================================================
