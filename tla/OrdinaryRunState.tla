-------------------------- MODULE OrdinaryRunState --------------------------
(***************************************************************************)
(* The durable state of one Ordinary run and its pure transitions          *)
(* (src/app/ordinary-agent/state.ts).                                      *)
(*                                                                         *)
(* A run is one turn of a conversation.  Its snapshot holds the status,    *)
(* the phase of its Session branch, the tool round the Session has         *)
(* accepted but not closed (a write-ahead record: every call of the round  *)
(* may have been executed), one fact per tool call, the confirmations it   *)
(* waits for and those that were decided.  Each transition is an operator  *)
(* on the snapshot with an operator Can... for the exceptions it throws.   *)
(*                                                                         *)
(* The run is the first turn of its conversation: the leaf it starts from  *)
(* is null.  Every tool call is a root call (no nested calls).             *)
(***************************************************************************)
EXTENDS Naturals, FiniteSets

CONSTANT Calls   \* identities of the run's tool calls

Terminal == {"completed", "failed", "cancelled", "blocked"}
Status   == {"queued", "running", "awaiting_approval"} \cup Terminal
Phase    == {"not_started", "started", "rollbackable", "completion_candidate"}

\* What is recorded of a tool call.  `approval` is the only fact that is not final.
\* reported: its result; refused: it did not run (blocked, rejected or cancelled
\* first); unaccepted: a result that could not be stored; lost: its confirmation
\* was lost, so it did not run; unknown: it may have run, nobody knows.
FinalFact == {"reported", "refused", "unaccepted", "lost", "unknown"}
Fact      == {"none", "approval"} \cup FinalFact
Facts     == [Calls -> Fact]
NoFacts   == [c \in Calls |-> "none"]

Decision == {"none", "approve_once", "reject"}

RunState ==
    [status : Status, phase : Phase, round : SUBSET Calls, fact : Facts,
     requests : SUBSET Calls, decision : [Calls -> Decision]]

InitialRun ==
    [status |-> "queued", phase |-> "not_started", round |-> {}, fact |-> NoFacts,
     requests |-> {}, decision |-> [c \in Calls |-> "none"]]

IsTerminal(r) == r.status \in Terminal

-----------------------------------------------------------------------------
(* Tool facts. *)

\* A faulty Compatible: the last writer wins.
CompatibleAlways(have, new) == new \in Fact /\ have \in Fact

\* A fact may repeat what is recorded, or close an approval; anything else is a
\* conflict and nothing of the batch is stored.
Compatible(have, new) ==
    new = "none" \/ have \in {"none", new} \/ (have = "approval" /\ new \in FinalFact)

CanMerge(r, facts) == \A c \in Calls : Compatible(r.fact[c], facts[c])

Merge(r, facts) ==
    [r EXCEPT !.fact = [c \in Calls |-> IF facts[c] = "none" THEN @[c] ELSE facts[c]]]

OneFact(c, f) == [NoFacts EXCEPT ![c] = f]

\* A faulty Interrupted: the decision is not looked at.
InterruptedAsLost(r, c) == IF c \in Calls THEN "lost" ELSE r.fact[c]

\* An approval whose live continuation is gone.
Interrupted(r, c) == IF r.decision[c] = "approve_once" THEN "unknown" ELSE "lost"

\* Every open call of the accepted round gets a final fact, without replay.
ReconcileRound(r) ==
    [r EXCEPT !.fact =
        [c \in Calls |->
            IF c \notin r.round \/ @[c] \in FinalFact THEN @[c]
            ELSE IF @[c] = "approval" THEN Interrupted(r, c) ELSE "unknown"]]

CloseLostApprovals(r) ==
    [r EXCEPT !.fact =
        [c \in Calls |-> IF @[c] = "approval" THEN Interrupted(r, c) ELSE @[c]]]

-----------------------------------------------------------------------------
(* Transitions. *)

\* A pause asks for approval facts only, and for every one that is undecided.
ApprovalFactsMatch(r) ==
    LET open == {c \in Calls : r.fact[c] = "approval"} IN
    /\ r.requests \subseteq open
    /\ \A c \in open : c \in r.requests \/ r.decision[c] # "none"

Start(r) == [r EXCEPT !.status = "running"]

Paused(r, facts, asked) ==
    [Merge(r, facts) EXCEPT !.status = "awaiting_approval", !.requests = asked]

CanPause(r, facts, asked) ==
    /\ r.status = "running" /\ asked # {}
    /\ CanMerge(r, facts)
    /\ ApprovalFactsMatch(Paused(r, facts, asked))

CanDecide(r, c) == r.status = "awaiting_approval" /\ c \in r.requests

\* A faulty Decided: the run goes on waiting for its other confirmations.
DecidedWaits(r, c, d) == [r EXCEPT !.requests = @ \ {c}, !.decision[c] = d]

Decided(r, c, d) ==
    [r EXCEPT !.status = "running", !.requests = {}, !.decision[c] = d]

\* A response that was not accepted is rolled back to the leaf before it; the
\* response of a completed run becomes its end leaf.
EndPhase(r) == IF r.phase = "completion_candidate" THEN "rollbackable" ELSE r.phase

\* A faulty MayEnd: only a run that waits can be blocked.
MayEndUnlessRunning(r, how) ==
    CASE how = "completed" -> /\ r.status = "running"
                              /\ r.phase = "completion_candidate" /\ r.round = {}
      [] how = "blocked"   -> r.status = "awaiting_approval"
      [] OTHER             -> r.status \in {"queued", "running", "awaiting_approval"}

MayEnd(r, how) ==
    CASE how = "completed" -> /\ r.status = "running"
                              /\ r.phase = "completion_candidate" /\ r.round = {}
      [] how = "failed"    -> r.status \in {"queued", "running"}
      [] OTHER             -> r.status \in {"queued", "running", "awaiting_approval"}

CanEnd(r, how, facts) == MayEnd(r, how) /\ CanMerge(r, facts)

Ended(r, how, facts) ==
    [Merge(r, facts) EXCEPT !.status = how, !.requests = {}, !.phase = EndPhase(r)]

-----------------------------------------------------------------------------
(* Checkpoints of the Session branch. *)

MayCheckpoint(r) == r.status \in {"running", "failed", "cancelled", "blocked"}

CanCaptureStart(r) == MayCheckpoint(r) /\ r.phase = "not_started"
StartCaptured(r)   == [r EXCEPT !.phase = "started"]

CanCommitInput(r) == MayCheckpoint(r) /\ r.phase = "started"
InputCommitted(r) == [r EXCEPT !.phase = "rollbackable"]

\* The round is accepted before any of its tools runs.  A late checkpoint of a run
\* that was cancelled, failed or blocked meanwhile is accepted too.
CanAcceptRound(r) == MayCheckpoint(r) /\ r.phase = "rollbackable"
\* A faulty RoundAccepted: nothing is written ahead of the tools.
RoundUnrecorded(r, calls) == [r EXCEPT !.round = @ \ calls]

RoundAccepted(r, calls) == [r EXCEPT !.round = calls]

CanCloseRound(r, calls) ==
    /\ MayCheckpoint(r) /\ r.phase = "rollbackable"
    /\ r.round # {} /\ r.round = calls
    /\ \A c \in calls : r.fact[c] \in FinalFact
RoundClosed(r) == [r EXCEPT !.round = {}]

CanRespond(r) == MayCheckpoint(r) /\ r.phase = "rollbackable" /\ r.round = {}
Responded(r)  == [r EXCEPT !.phase = "completion_candidate"]

=============================================================================
