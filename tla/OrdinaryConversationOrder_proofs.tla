------------------ MODULE OrdinaryConversationOrder_proofs ------------------
(***************************************************************************)
(* Proofs about the conversation, second part: no run is stored without    *)
(* its conversation, the turns are served in order, and of the runs of one *)
(* submission at most one stands.                                          *)
(*                                                                         *)
(* OwnedBooks says what an operation that creates the conversation, or     *)
(* takes it back, has stored, and that the cleanup covers it.              *)
(***************************************************************************)
EXTENDS OrdinaryConversation_proofs

\* What the cleanup has been asked for covers what is stored.
SweepBooks ==
    /\ doomed => Stored \subseteq sweep.asked
    /\ sweep.pc \in {"runs", "control"} /\ sweep.mode # "tombstone" /\ ~sweep.failed =>
           Stored \subseteq sweep.todo
    /\ sweep.pc = "control" => sweep.todo = {} /\ ~sweep.failed
    /\ sweep.pc # "off" /\ sweep.mode = "tombstone" => control = "deleted"

\* The submission that created the conversation has stored its own run at most.
OpBooks ==
    /\ op.created => /\ op.after = 0 /\ op.pc \in {"store", "start", "failed", "await"}
                     /\ op.pc = "await" => op.then = "throw"
    /\ op.created /\ op.pc = "store" => Stored = {}
    /\ op.created /\ op.pc \in {"start", "failed"} => Stored \subseteq {op.run}
    /\ op.pc = "failed" => op.created
    /\ op.pc \in {"reconcile", "control"} \/ (op.pc = "await" /\ op.then = "settle") => op.after = 0
    /\ op.pc = "reconcile" => birth

BirthBooks ==
    /\ control = "none" => Stored = {}
    /\ birth => Stored = {} /\ ~doomed /\ op.pc \in {"idle", "reconcile"}
    /\ doomed => \A r, q \in Stored : r = q

\* Without a process, or with the conversation unavailable, there is nothing in memory.
DownBooks ==
    proc \in {"down", "isolated"} =>
        /\ live = {} /\ open = {} /\ ~doomed /\ ~birth
        /\ sweep = NoSweep /\ pump.pc = "idle" /\ op.pc = "idle"

OwnedBooks == SweepBooks /\ OpBooks /\ BirthBooks /\ DownBooks

OwnedInv == ConversationInv /\ OwnedBooks

\* The operation stays where it is; what it has left to cancel may shrink.
OpStays ==
    /\ op'.pc = op.pc /\ op'.then = op.then /\ op'.created = op.created
    /\ op'.after = op.after /\ op'.run = op.run /\ op'.key = op.key

-----------------------------------------------------------------------------
(* Nothing is stored without the document of its conversation. *)

LEMMA InitOwned == Init => OwnedBooks
<1> SUFFICES ASSUME Init PROVE OwnedBooks
    OBVIOUS
<1>1. Stored = {}
    BY DEF Init, NoView, Absent, Stored, Present, Terminal
<1>2. QED
    BY <1>1 DEF Init, OwnedBooks, SweepBooks, OpBooks, BirthBooks, DownBooks, NoSweep, NoOp, NoPump

\* The cleanup of an uncommitted conversation is asked for all that is stored of it.
LEMMA ScheduleOwned ==
    ASSUME OwnedInv, NEW runs \in SUBSET Runs, Schedule("uncommitted", runs),
           doomed \/ Stored \subseteq runs, control # "deleted", UNCHANGED <<run, control>>
    PROVE  SweepBooks' /\ doomed'
<1> USE DEF OwnedInv, ConversationInv, OwnedBooks
<1>1. Stored' = Stored
    BY DEF Stored
<1>2. CASE SweepActive
  <2>1. sweep' = [sweep EXCEPT !.fresh = @ /\ "uncommitted" = "tombstone"] /\ doomed'
      BY <1>2 DEF Schedule
  <2>2. sweep.mode # "tombstone" /\ doomed
      BY <1>2 DEF SweepActive, SweepBooks, DeletionBooks
  <2>3. /\ sweep'.pc = sweep.pc /\ sweep'.mode = sweep.mode /\ sweep'.asked = sweep.asked
        /\ sweep'.todo = sweep.todo /\ sweep'.failed = sweep.failed
      BY <2>1 DEF TypeOK, SweepRecord
  <2>4. QED  BY <1>1, <2>1, <2>2, <2>3 DEF SweepBooks
<1>3. CASE ~SweepActive
  <2> DEFINE all == runs \union (IF doomed THEN sweep.asked ELSE {})
  <2>1. /\ sweep' = [pc |-> "runs", mode |-> "uncommitted", asked |-> all, todo |-> all,
                     failed |-> FALSE, fresh |-> TRUE]
        /\ doomed'
      BY <1>3 DEF Schedule
  <2>2. Stored \subseteq all
      BY DEF SweepBooks
  <2>3. QED  BY <1>1, <2>1, <2>2 DEF SweepBooks
<1>4. QED  BY <1>2, <1>3

\* The cleanup behind a tombstone.
LEMMA ScheduleBuried ==
    ASSUME OwnedInv, NEW runs \in SUBSET Runs, Schedule("tombstone", runs),
           control = "deleted", UNCHANGED control
    PROVE  SweepBooks' /\ ~doomed'
<1> USE DEF OwnedInv, ConversationInv, OwnedBooks
<1>1. ~doomed /\ (sweep.pc # "off" => sweep.mode = "tombstone" /\ sweep.pc # "control")
    BY DEF DeletionBooks
<1>2. ~doomed' /\ sweep'.pc # "control" /\ (sweep'.pc # "off" => sweep'.mode = "tombstone")
  <2>1. CASE SweepActive
    <3>1. sweep' = [sweep EXCEPT !.fresh = @ /\ "tombstone" = "tombstone"] /\ ~doomed'
        BY <1>1, <2>1 DEF Schedule
    <3>2. QED  BY <1>1, <3>1 DEF TypeOK, SweepRecord
  <2>2. CASE ~SweepActive
    <3>1. sweep'.pc = "list" /\ sweep'.mode = "tombstone" /\ ~doomed'
        BY <1>1, <2>2 DEF Schedule
    <3>2. QED  BY <3>1
  <2>3. QED  BY <2>1, <2>2
<1>3. QED  BY <1>2 DEF SweepBooks

\* What an operation that leaves the runs alone has to keep.
LEMMA PlainOwned ==
    ASSUME OwnedInv, Live, UNCHANGED <<run, proc>>, SweepBooks', OpBooks',
           control' = "none" => control = "none",
           birth' => Stored = {} /\ ~doomed' /\ op'.pc \in {"idle", "reconcile"},
           doomed' => doomed \/ \E r \in Nat : Stored \subseteq {r}
    PROVE  OwnedBooks'
<1> USE DEF OwnedInv, OwnedBooks
<1>1. Stored' = Stored /\ proc' \notin {"down", "isolated"}
    BY DEF Stored, Live
<1>2. BirthBooks'
    BY <1>1 DEF BirthBooks
<1>3. DownBooks'
    BY <1>1 DEF DownBooks
<1>4. QED  BY <1>2, <1>3

LEMMA NoOpOwned == op' = NoOp => OpBooks'
BY DEF OpBooks, NoOp

LEMMA SweepSame == SweepBooks /\ UNCHANGED <<run, control, sweep, doomed>> => SweepBooks'
BY DEF SweepBooks, Stored

\* What an earlier birth left is cleaned up first, or there is nothing of it.
LEMMA SettleOwned ==
    ASSUME OwnedInv, NEW o \in OpRecord, ~o.created, o.after = 0, SettleCleanup(o),
           UNCHANGED <<run, control>>
    PROVE  SweepBooks' /\ OpBooks' /\ doomed' = doomed
<1> USE DEF OwnedInv, ConversationInv, OwnedBooks
<1>1. CASE doomed
  <2>1. /\ op' = [o EXCEPT !.pc = "await", !.then = "settle"] /\ sweep.asked \in SUBSET Runs
        /\ Schedule("uncommitted", sweep.asked) /\ control # "deleted"
      BY <1>1 DEF SettleCleanup, TypeOK, SweepRecord, DeletionBooks
  <2>2. op'.pc = "await" /\ op'.then = "settle" /\ ~op'.created /\ op'.after = 0
      BY <2>1 DEF OpRecord
  <2>3. SweepBooks' /\ doomed'
      BY <1>1, <2>1, ScheduleOwned
  <2>4. QED  BY <1>1, <2>2, <2>3 DEF OpBooks, TypeOK
<1>2. CASE ~doomed
  <2>1. op' = [o EXCEPT !.pc = Body(o.kind)] /\ UNCHANGED <<sweep, doomed>>
      BY <1>2 DEF SettleCleanup, sweepVars
  <2>2. op'.pc \in {"control", "tombstone", "move"} /\ ~op'.created /\ op'.after = 0
      BY <2>1 DEF OpRecord, Body
  <2>3. QED  BY <2>1, <2>2, SweepSame DEF OpBooks
<1>3. QED  BY <1>1, <1>2

LEMMA BeginsOwned ==
    ASSUME OwnedInv, NEW kind \in {"submit", "delete", "rollback"}, NEW key \in Nat,
           Begins(kind, key)
    PROVE  OwnedBooks'
<1> USE DEF OwnedInv, ConversationInv, OwnedBooks
<1> DEFINE o == [NoOp EXCEPT !.kind = kind, !.key = key]
<1>1. /\ Live /\ UNCHANGED <<control, birth, run, proc>>
      /\ \/ birth /\ op' = [o EXCEPT !.pc = "reconcile", !.then = "settle"] /\ UNCHANGED <<sweep, doomed>>
         \/ ~birth /\ SettleCleanup(o)
    BY DEF Begins, OpHolds, OpKeeps, pumpVars, sweepVars, Live
<1>2. o \in OpRecord /\ ~o.created /\ o.after = 0
  <2>1. NoOp \in OpRecord
      BY BoundsAssumption DEF NoOp, OpRecord
  <2>2. QED  BY <2>1 DEF OpRecord, NoOp
<1> HIDE DEF o
<1>3. CASE birth /\ op' = [o EXCEPT !.pc = "reconcile", !.then = "settle"] /\ UNCHANGED <<sweep, doomed>>
  <2>1. op'.pc = "reconcile" /\ ~op'.created /\ op'.after = 0
      BY <1>2, <1>3 DEF OpRecord
  <2>2. OpBooks'
      BY <1>1, <1>3, <2>1 DEF OpBooks
  <2>3. QED  BY <1>1, <1>3, <2>1, <2>2, PlainOwned, SweepSame DEF BirthBooks
<1>4. CASE ~birth /\ SettleCleanup(o)
    BY <1>1, <1>2, <1>4, SettleOwned, PlainOwned
<1>5. QED  BY <1>1, <1>3, <1>4

LEMMA PlainOperationsOwned ==
    ASSUME OwnedInv,
           \/ OpReconciles \/ OpAwaits \/ OpControls \/ OpRechecks \/ OpJoins \/ OpTakesBack \/ OpBuries
    PROVE  OwnedBooks'
<1> USE DEF OwnedInv, ConversationInv, OwnedBooks
<1>1. Live /\ UNCHANGED <<run, proc>> /\ Stored' = Stored
    BY DEF OpReconciles, OpAwaits, OpControls, OpRechecks, OpJoins, OpTakesBack, OpBuries, OpHolds,
           OpKeeps, Stored
<1>2. op \in OpRecord /\ (birth => Stored = {} /\ ~doomed /\ op.pc \in {"idle", "reconcile"})
    BY DEF TypeOK, BirthBooks
<1>3. ASSUME Returns, SweepBooks', control' = "none" => control = "none",
             birth' => birth, UNCHANGED doomed
      PROVE  OwnedBooks'
    BY <1>1, <1>2, <1>3, NoOpOwned, PlainOwned DEF Returns, NoOp, Settled
<1>4. CASE OpReconciles
  <2>1. UNCHANGED control /\ op.pc = "reconcile" /\ op.after = 0 /\ ~op.created
      BY <1>4 DEF OpReconciles, OpBooks
  <2>2. CASE Returns /\ UNCHANGED <<birth, sweep, doomed>>
      BY <1>1, <1>3, <2>1, <2>2, SweepSame
  <2>3. CASE birth' = FALSE /\ (SettleCleanup(op) \/ (Returns /\ UNCHANGED <<sweep, doomed>>))
    <3>1. CASE Returns /\ UNCHANGED <<sweep, doomed>>
        BY <1>1, <1>3, <2>1, <2>3, <3>1, SweepSame
    <3>2. CASE SettleCleanup(op)
        BY <1>1, <1>2, <2>1, <2>3, <3>2, SettleOwned, PlainOwned
    <3>3. QED  BY <2>3, <3>1, <3>2
  <2>4. CASE /\ control = "live" /\ birth' = FALSE /\ Schedule("uncommitted", Stored) /\ Goto("await")
    <3>1. SweepBooks' /\ doomed'
        BY <1>1, <2>1, <2>4, ScheduleOwned DEF Stored
    <3>2. op'.pc = "await" /\ op'.after = 0 /\ ~op'.created
        BY <1>2, <2>1, <2>4 DEF Goto, OpRecord
    <3>3. OpBooks'
        BY <3>2 DEF OpBooks
    <3>4. Stored \subseteq {0}
        BY <1>2, <2>1 DEF OpBooks
    <3>5. QED  BY <1>1, <2>1, <2>4, <3>1, <3>3, <3>4, PlainOwned
  <2>5. QED  BY <1>4, <2>2, <2>3, <2>4 DEF OpReconciles, sweepVars
<1>5. CASE OpAwaits
  <2>1. UNCHANGED <<control, birth, sweep, doomed>> /\ op.pc = "await"
      BY <1>5 DEF OpAwaits, sweepVars
  <2>2. CASE Returns
      BY <1>1, <1>3, <2>1, <2>2, SweepSame
  <2>3. CASE op.then = "settle" /\ ~doomed /\ Goto(Body(op.kind))
    <3>1. op.after = 0 /\ ~op.created
        BY <2>1, <2>3 DEF OpBooks
    <3>2. op'.pc \in {"control", "tombstone", "move"} /\ op'.after = 0 /\ ~op'.created
        BY <1>2, <2>3, <3>1 DEF Goto, OpRecord, Body
    <3>3. OpBooks'
        BY <3>2 DEF OpBooks
    <3>4. QED  BY <1>1, <1>2, <2>1, <2>3, <3>3, PlainOwned, SweepSame
  <2>4. QED  BY <1>5, <2>2, <2>3 DEF OpAwaits
<1>6. CASE OpControls
  <2>1. UNCHANGED <<sweep, doomed>> /\ op.pc = "control" /\ op.after = 0 /\ ~op.created /\ ~doomed
      BY <1>6 DEF OpControls, sweepVars, OpBooks, DeletionBooks, Settled
  <2>2. ~birth
      BY <1>2, <2>1
  <2>3. SweepBooks /\ ~doomed' /\ sweep.pc # "off" => control = "deleted"
      BY <2>1 DEF SweepBooks, DeletionBooks
  <2>4. CASE Returns /\ UNCHANGED <<control, birth>>
      BY <1>1, <1>3, <2>1, <2>4, SweepSame
  <2>5. CASE /\ control = "live" /\ UNCHANGED <<control, birth>>
             /\ op' = [op EXCEPT !.pc = "store", !.after = Greatest(Visible(Documents))]
    <3>1. op'.pc = "store" /\ ~op'.created
        BY <1>2, <2>1, <2>5 DEF OpRecord
    <3>2. OpBooks'
        BY <3>1 DEF OpBooks
    <3>3. QED  BY <1>1, <2>1, <2>2, <2>5, <3>2, PlainOwned, SweepSame
  <2>6. CASE /\ control = "none" /\ control' = "live" /\ UNCHANGED birth
             /\ op' = [op EXCEPT !.pc = "store", !.created = TRUE]
    <3>1. op'.pc = "store" /\ op'.after = 0 /\ op'.created /\ Stored' = {}
        BY <1>1, <1>2, <2>1, <2>6 DEF OpRecord, BirthBooks
    <3>2. OpBooks'
        BY <3>1 DEF OpBooks
    <3>3. SweepBooks'
        BY <2>1, <3>1, <2>6 DEF SweepBooks
    <3>4. QED  BY <1>1, <2>1, <2>2, <2>6, <3>2, <3>3, PlainOwned
  <2>7. CASE /\ control = "none" /\ control' \in {"none", "live"}
             /\ birth' = TRUE /\ op' = [op EXCEPT !.pc = "reconcile", !.then = "throw"]
    <3>1. op'.pc = "reconcile" /\ op'.after = 0 /\ ~op'.created /\ Stored' = {} /\ Stored = {}
        BY <1>1, <1>2, <2>1, <2>7 DEF OpRecord, BirthBooks
    <3>2. OpBooks'
        BY <2>7, <3>1 DEF OpBooks
    <3>3. SweepBooks'
        BY <2>1, <3>1, <2>7 DEF SweepBooks
    <3>4. QED  BY <1>1, <2>1, <2>7, <3>1, <3>2, <3>3, PlainOwned DEF Settled
  <2>8. CASE control = "none" /\ control' = "live" /\ Returns /\ UNCHANGED birth
    <3>1. SweepBooks'
        BY <1>1, <2>1, <2>3, <2>8 DEF SweepBooks
    <3>2. QED  BY <1>1, <1>3, <2>1, <2>8, <3>1
  <2>9. QED  BY <1>6, <2>4, <2>5, <2>6, <2>7, <2>8 DEF OpControls
<1>7. CASE OpRechecks \/ OpJoins
  <2>1. UNCHANGED <<control, birth, sweep, doomed>> /\ op.pc \in {"recheck", "join"}
      BY <1>7 DEF OpRechecks, OpJoins, sweepVars
  <2>2. CASE Returns
      BY <1>1, <1>3, <2>1, <2>2, SweepSame
  <2>3. CASE Goto("join")
    <3>1. op'.pc = "join" /\ ~op'.created
        BY <1>2, <2>1, <2>3 DEF Goto, OpRecord, OpBooks
    <3>2. OpBooks'
        BY <3>1 DEF OpBooks
    <3>3. ~birth
        BY <1>2, <2>1 DEF Settled
    <3>4. QED  BY <1>1, <2>1, <3>2, <3>3, PlainOwned, SweepSame
  <2>4. QED  BY <1>7, <2>2, <2>3 DEF OpRechecks, OpJoins
<1>8. CASE OpTakesBack
  <2>1. /\ UNCHANGED <<control, birth>> /\ op.pc = "failed" /\ control = "live" /\ op.created
        /\ ~birth /\ Stored \subseteq {op.run} /\ op.after = 0
      BY <1>2, <1>8 DEF OpTakesBack, DeletionBooks, OpBooks, Settled
  <2>2. CASE Returns /\ UNCHANGED <<sweep, doomed>>
      BY <1>1, <1>3, <2>1, <2>2, SweepSame
  <2>3. CASE /\ \E runs \in SUBSET Runs : Stored \subseteq runs /\ Schedule("uncommitted", runs)
             /\ op' = [op EXCEPT !.pc = "await", !.then = "throw"]
    <3>1. SweepBooks' /\ doomed'
        BY <1>1, <2>1, <2>3, ScheduleOwned
    <3>2. op'.pc = "await" /\ op'.then = "throw" /\ op'.after = 0
        BY <1>2, <2>1, <2>3 DEF OpRecord
    <3>3. OpBooks'
        BY <3>2 DEF OpBooks
    <3>4. op.run \in Nat
        BY <1>2, BoundsAssumption DEF OpRecord
    <3>5. QED  BY <1>1, <2>1, <3>1, <3>3, <3>4, PlainOwned
  <2>4. /\ Leftover(op.run) \in SUBSET Runs /\ Stored \subseteq Leftover(op.run)
        /\ op.run # 0 => {op.run} \in SUBSET Runs
      BY <1>2, <2>1, BoundsAssumption DEF Leftover, Stored, OpRecord, Runs
  <2>5. QED  BY <1>8, <2>1, <2>2, <2>3, <2>4 DEF OpTakesBack, sweepVars
<1>9. CASE OpBuries
  <2>1. UNCHANGED <<birth, sweep, doomed>> /\ op.pc = "tombstone" /\ ~doomed /\ ~op.created /\ ~birth
      BY <1>2, <1>9 DEF OpBuries, sweepVars, OpBooks, DeletionBooks, Settled
  <2>2. CASE Returns /\ UNCHANGED control
      BY <1>1, <1>3, <2>1, <2>2, SweepSame
  <2>3. CASE control' = "deleted" /\ op' = [op EXCEPT !.pc = "cancel", !.left = Unfinished]
    <3>1. op'.pc = "cancel" /\ ~op'.created
        BY <1>2, <2>1, <2>3 DEF OpRecord
    <3>2. OpBooks'
        BY <3>1 DEF OpBooks
    <3>3. SweepBooks'
        BY <1>1, <2>1, <2>3 DEF SweepBooks
    <3>4. QED  BY <1>1, <2>1, <2>3, <3>2, <3>3, PlainOwned
  <2>4. QED  BY <1>9, <2>2, <2>3 DEF OpBuries
<1>10. QED  BY <1>4, <1>5, <1>6, <1>7, <1>8, <1>9

\* The runs that are stored stay stored, or one is removed.
LEMMA StoredShrinks ==
    ASSUME NEW r, run' \in [Runs -> RunRecord], \A q \in Runs : q # r => run'[q].status = run[q].status,
           run[r].status \in Present \/ run'[r].status \notin Present
    PROVE  Stored' \subseteq Stored
BY DEF Stored

\* A step that keeps or removes runs and leaves the operation and the cleanup alone.
LEMMA CalmOwned ==
    ASSUME OwnedInv, Live, UNCHANGED <<control, proc, birth, sweep, doomed>>, Stored' \subseteq Stored,
           OpStays \/ op' = NoOp
    PROVE  OwnedBooks'
<1> USE DEF OwnedInv, OwnedBooks
<1>1. SweepBooks' /\ BirthBooks'
    BY DEF SweepBooks, BirthBooks, NoOp, OpStays
<1>2. OpBooks'
    BY NoOpOwned DEF OpBooks, OpStays
<1>3. DownBooks'
    BY DEF DownBooks, Live
<1>4. QED  BY <1>1, <1>2, <1>3

LEMMA PumpAndTailOwned ==
    ASSUME OwnedInv,
           Pump \/ (\E r \in Runs : Cancel(r) \/ Execution(r) \/ CleanupFinalizes(r)) \/ OpMoves
    PROVE  OwnedBooks' /\ Stored' = Stored
<1> USE DEF OwnedInv, ConversationInv
<1>1. CASE Pump
  <2>1. Live /\ UNCHANGED <<control, proc, birth, sweep, doomed, op>>
      BY <1>1 DEF Pump, PumpChooses, PumpFinalizes, PumpStarts, PumpTimer, PumpKeeps, sweepVars
  <2>2. UNCHANGED run \/ \E r \in Runs : run[r].status = "queued" /\ Running(r)
      BY <1>1 DEF Pump, PumpChooses, PumpFinalizes, PumpStarts, PumpTimer, DeletionBooks
  <2>3. Stored' = Stored
      BY <2>2 DEF Stored, Running, Present, TypeOK, RunRecord
  <2>4. QED  BY <2>1, <2>3, CalmOwned DEF OpStays
<1>2. CASE \E r \in Runs : Cancel(r) \/ Execution(r) \/ CleanupFinalizes(r)
  <2>1. PICK r \in Runs : Cancel(r) \/ Execution(r) \/ CleanupFinalizes(r)
      BY <1>2
  <2>2. Live /\ UNCHANGED <<control, proc, birth, sweep, doomed, op>>
      BY <2>1 DEF Cancel, Execution, RunAdvances, RunEnds, RunFinalizes, ExecutionEnds, CleanupFinalizes,
           TailKeeps, sweepVars, Live
  <2>3. \/ UNCHANGED run
        \/ \E p \in {"started", "entered"} : run' = [run EXCEPT ![r].phase = p]
        \/ /\ run[r].status \in {"running", "queued"}
           /\ \E s \in Terminal : run' = [run EXCEPT ![r].status = s]
      BY <2>1 DEF Cancel, CanCancel, Cancelled, Execution, RunAdvances, RunEnds, RunFinalizes, ExecutionEnds,
           CleanupFinalizes, Terminal
  <2>4. Stored' = Stored
      BY <2>3 DEF Stored, Present, TypeOK, RunRecord
  <2>5. QED  BY <2>2, <2>4, CalmOwned DEF OpStays
<1>3. CASE OpMoves
  <2>1. Live /\ UNCHANGED <<control, proc, birth, sweep, doomed, run>> /\ op' = NoOp
      BY <1>3 DEF OpMoves, OpKeeps, Returns, sweepVars
  <2>2. Stored' = Stored
      BY <2>1 DEF Stored
  <2>3. QED  BY <2>1, <2>2, CalmOwned
<1>4. QED  BY <1>1, <1>2, <1>3

\* The submission that creates a conversation stores the first run of it.
LEMMA StoresOwned ==
    ASSUME OwnedInv, OpStores
    PROVE  OwnedBooks'
<1> USE DEF OwnedInv, ConversationInv, OwnedBooks
<1>1. /\ Live /\ UNCHANGED <<control, proc, birth, sweep, doomed>> /\ op.pc = "store"
      /\ op \in OpRecord
    BY DEF OpStores, OpKeeps, sweepVars, TypeOK
<1>2. ~birth /\ ~doomed /\ control = "live" /\ (sweep.pc # "off" => sweep.mode = "tombstone")
    BY <1>1 DEF BirthBooks, DeletionBooks, Settled
<1>3. SweepBooks' /\ BirthBooks' /\ DownBooks'
    BY <1>1, <1>2 DEF SweepBooks, BirthBooks, DownBooks, Live, DeletionBooks
<1>4. CASE Throws /\ UNCHANGED run
  <2>1. CASE op' = NoOp
      BY <1>3, <2>1, NoOpOwned
  <2>2. CASE op.created /\ op' = [op EXCEPT !.pc = "failed"]
    <3>1. op'.pc = "failed" /\ op'.created /\ op'.after = 0 /\ Stored' = {}
        BY <1>1, <1>4, <2>2 DEF OpRecord, OpBooks, Stored
    <3>2. OpBooks'
        BY <3>1 DEF OpBooks
    <3>3. QED  BY <1>3, <3>2
  <2>3. QED  BY <1>4, <2>1, <2>2 DEF Throws, Returns
<1>5. ASSUME NEW r \in Runs,
             run' = run \/ run' = [run EXCEPT ![r] = [status |-> "queued", phase |-> "none",
                                                      behind |-> op.after, key |-> op.key]],
             \/ op' = [op EXCEPT !.pc = IF op.after = 0 THEN "start" ELSE "recheck", !.run = r]
             \/ op.created /\ op' = [op EXCEPT !.pc = "failed", !.run = r]
             \/ op' = NoOp
      PROVE  OwnedBooks'
  <2>1. Stored' \subseteq Stored \union {r}
      BY <1>5 DEF Stored, TypeOK
  <2>2. CASE op' = [op EXCEPT !.pc = IF op.after = 0 THEN "start" ELSE "recheck", !.run = r]
    <3>1. /\ op'.pc \in {"start", "recheck"} /\ op'.run = r /\ op'.after = op.after
          /\ op'.created = op.created /\ (op'.pc = "recheck" => op.after # 0)
        BY <1>1, <2>2 DEF OpRecord
    <3>2. op'.created => Stored' \subseteq {r} /\ op.after = 0
        BY <1>1, <2>1, <3>1 DEF OpBooks
    <3>3. OpBooks'
        BY <3>1, <3>2 DEF OpBooks
    <3>4. QED  BY <1>3, <3>3
  <2>3. CASE op.created /\ op' = [op EXCEPT !.pc = "failed", !.run = r]
    <3>1. /\ op'.pc = "failed" /\ op'.run = r /\ op'.after = op.after /\ op'.created
        BY <1>1, <2>3 DEF OpRecord
    <3>2. Stored' \subseteq {r} /\ op.after = 0
        BY <1>1, <2>1, <2>3 DEF OpBooks
    <3>3. OpBooks'
        BY <3>1, <3>2 DEF OpBooks
    <3>4. QED  BY <1>3, <3>3
  <2>4. CASE op' = NoOp
      BY <1>3, <2>4, NoOpOwned
  <2>5. QED  BY <1>5, <2>2, <2>3, <2>4
<1>6. CASE Unused # {} /\ ~(Throws /\ UNCHANGED run)
  <2> DEFINE r == Least(Unused)
             stored == [run EXCEPT ![r] = [status |-> "queued", phase |-> "none",
                                           behind |-> op.after, key |-> op.key]]
  <2>1. r \in Runs
      BY <1>6, Chosen DEF Unused
  <2>2. /\ run' \in {run, stored}
        /\ \/ op' = [op EXCEPT !.pc = IF op.after = 0 THEN "start" ELSE "recheck", !.run = r]
           \/ op' = IF op.created THEN [op EXCEPT !.pc = "failed", !.run = r] ELSE NoOp
      BY <1>6 DEF OpStores
  <2>3. QED  BY <1>5, <2>1, <2>2
<1>7. QED  BY <1>4, <1>6 DEF OpStores

LEMMA StartsOwned ==
    ASSUME OwnedInv, OpStarts
    PROVE  OwnedBooks'
<1> USE DEF OwnedInv, ConversationInv, OwnedBooks
<1>1. /\ Live /\ UNCHANGED <<control, proc, birth, sweep, doomed>> /\ op.pc = "start" /\ op \in OpRecord
    BY DEF OpStarts, sweepVars, TypeOK
<1>2. ASSUME Returns \/ Throws, Stored' = Stored
      PROVE  OwnedBooks'
  <2>1. Stored' = Stored
      BY <1>2
  <2>2. CASE op' = NoOp
      BY <1>1, <2>1, <2>2, CalmOwned
  <2>3. CASE op.created /\ op' = [op EXCEPT !.pc = "failed"]
    <3>1. op'.pc = "failed" /\ op'.created /\ op'.after = 0 /\ op'.run = op.run
        BY <1>1, <2>3 DEF OpRecord, OpBooks
    <3>2. OpBooks'
        BY <1>1, <2>1, <2>3, <3>1 DEF OpBooks
    <3>3. SweepBooks' /\ BirthBooks' /\ DownBooks'
        BY <1>1, <2>1 DEF SweepBooks, BirthBooks, DownBooks, Live, DeletionBooks
    <3>4. QED  BY <3>2, <3>3
  <2>4. QED  BY <1>2, <2>2, <2>3 DEF Throws, Returns
<1>3. Stored' = Stored
  <2>1. CASE run[op.run].status = "queued" /\ Running(op.run)
      BY <2>1 DEF Stored, Running, Present, TypeOK, RunRecord
  <2>2. CASE UNCHANGED run
      BY <2>2 DEF Stored
  <2>3. QED  BY <2>1, <2>2 DEF OpStarts
<1>4. QED  BY <1>2, <1>3 DEF OpStarts

\* A deletion does not store anything.
LEMMA CancelsOwned ==
    ASSUME OwnedInv, OpCancels
    PROVE  OwnedBooks' /\ Stored' = Stored
<1> USE DEF OwnedInv, ConversationInv, OwnedBooks
<1>1. /\ Live /\ UNCHANGED <<control, proc, birth>> /\ op.pc = "cancel" /\ control = "deleted"
    BY DEF OpCancels, DeletionBooks
<1>2. CASE /\ UNCHANGED run \/ \E r \in Unfinished : Cancelled(r)
           /\ op' = [op EXCEPT !.left = op'.left] /\ UNCHANGED sweepVars
  <2>1. Stored' = Stored
    <3>1. CASE UNCHANGED run
        BY <3>1 DEF Stored
    <3>2. CASE \E r \in Unfinished : Cancelled(r)
      <4>1. PICK r \in Unfinished : Cancelled(r)
          BY <3>2
      <4>2. /\ r \in Runs /\ run[r].status \in Present
            /\ run' = [run EXCEPT ![r].status = "cancelled"]
          BY <4>1 DEF Unfinished, Cancelled, TypeOK, Present
      <4>3. QED  BY <4>2 DEF Stored, TypeOK, RunRecord, Present, Terminal
    <3>3. QED  BY <1>2, <3>1, <3>2
  <2>2. OpStays
      BY <1>2 DEF OpStays, TypeOK, OpRecord
  <2>3. QED  BY <1>1, <1>2, <2>1, <2>2, CalmOwned DEF sweepVars
<1>3. CASE Returns /\ Schedule("tombstone", known) /\ UNCHANGED run
  <2>1. SweepBooks' /\ ~doomed'
      BY <1>1, <1>3, ScheduleBuried DEF TypeOK
  <2>2. Stored' = Stored
      BY <1>3 DEF Stored
  <2>3. birth => op.pc \in {"idle", "reconcile"}
      BY DEF BirthBooks
  <2>4. QED  BY <1>1, <1>3, <2>1, <2>2, <2>3, NoOpOwned, PlainOwned DEF Returns
<1>4. CASE Returns /\ UNCHANGED <<run, sweepVars>>
  <2>1. Stored' = Stored
      BY <1>4 DEF Stored
  <2>2. QED  BY <1>1, <1>4, <2>1, CalmOwned DEF sweepVars, Returns
<1>5. (\E r \in op.left : /\ op' = [op EXCEPT !.left = @ \ {r}]
                          /\ IF r \in Unfinished THEN Cancelled(r) ELSE Recancelled(r)) =>
          /\ UNCHANGED run \/ \E r \in Unfinished : Cancelled(r)
          /\ op' = [op EXCEPT !.left = op'.left]
    BY DEF Recancelled, TypeOK, OpRecord
<1>6. QED  BY <1>2, <1>3, <1>4, <1>5 DEF OpCancels

\* The cleanup removes the document last, when nothing is stored any more.
LEMMA SweepOwned ==
    ASSUME OwnedInv, Sweep
    PROVE  OwnedBooks'
<1> USE DEF OwnedInv, ConversationInv, OwnedBooks
<1>1. /\ Live /\ UNCHANGED <<proc, birth, op>> /\ sweep \in SweepRecord
      /\ sweep.pc # "off"
    BY DEF Sweep, SweepLists, SweepRun, SweepSession, SweepControl, SweepRetries, SweepKeeps, TypeOK
<1>2. ~birth \/ ~doomed
    BY DEF BirthBooks
<1>3. ASSUME Stored' \subseteq Stored, SweepBooks', doomed' => doomed,
             control' = control \/ (control' = "none" /\ Stored' = {} /\ doomed)
      PROVE  OwnedBooks'
  <2>1. OpBooks'
      BY <1>1, <1>3 DEF OpBooks
  <2>2. BirthBooks'
      BY <1>1, <1>3 DEF BirthBooks
  <2>3. QED  BY <1>1, <1>3, <2>1, <2>2 DEF DownBooks, Live
<1>4. ASSUME NEW f \in BOOLEAN, SweepEnds(f), Stored' \subseteq Stored,
             sweep.mode = "tombstone" => control' = control
      PROVE  SweepBooks' /\ (doomed' => doomed)
  <2>1. CASE f
    <3>1. /\ sweep'.pc = "retry" /\ sweep'.mode = sweep.mode /\ sweep'.asked = sweep.asked
          /\ doomed' = doomed
        BY <1>1, <1>4, <2>1 DEF SweepEnds, SweepRecord, TypeOK
    <3>2. QED  BY <1>1, <1>4, <3>1 DEF SweepBooks
  <2>2. CASE ~f
    <3>1. /\ sweep'.pc = "off" /\ (doomed' => doomed /\ sweep'.asked = sweep.asked)
        BY <1>1, <1>4, <2>2 DEF SweepEnds, NoSweep
    <3>2. QED  BY <1>4, <3>1 DEF SweepBooks
  <2>3. QED  BY <2>1, <2>2
<1>5. CASE SweepLists
  <2>1. UNCHANGED <<run, control, doomed>> /\ Stored' = Stored /\ sweep.pc = "list"
      BY <1>5 DEF SweepLists, diskVars, Stored
  <2>2. /\ sweep'.pc = "runs" /\ sweep'.mode = sweep.mode /\ sweep'.asked = sweep.asked
        /\ sweep'.failed \/ Stored \subseteq sweep'.todo
      BY <1>1, <1>5 DEF SweepLists, SweepRecord
  <2>3. SweepBooks'
      BY <1>1, <2>1, <2>2 DEF SweepBooks
  <2>4. QED  BY <1>3, <2>1, <2>3
<1>6. CASE \E r \in Runs : SweepRun(r)
  <2>1. PICK r \in Runs : SweepRun(r)
      BY <1>6
  <2>2. /\ sweep'.pc = "runs" /\ sweep.pc = "runs" /\ sweep'.mode = sweep.mode
        /\ sweep'.asked = sweep.asked /\ sweep'.todo = sweep.todo \ {r}
        /\ sweep'.failed \/ (sweep'.failed = sweep.failed /\ run' = Gone(r))
        /\ run' = run \/ run' = Gone(r)
        /\ UNCHANGED <<control, doomed>>
      BY <1>1, <2>1 DEF SweepRun, SweepRecord
  <2>3. Stored' \subseteq Stored /\ (run' = Gone(r) => r \notin Stored')
      BY <2>2 DEF Stored, Gone, TypeOK, RunRecord, Present, Terminal
  <2>4. SweepBooks'
      BY <1>1, <2>2, <2>3 DEF SweepBooks
  <2>5. QED  BY <1>3, <2>2, <2>3, <2>4
<1>7. CASE SweepSession
  <2>1. UNCHANGED <<run, control>> /\ Stored' = Stored /\ sweep.pc = "runs" /\ sweep.todo = {}
        /\ sweep.failed \in BOOLEAN
      BY <1>1, <1>7 DEF SweepSession, SweepRecord, Stored
  <2>2. CASE \E f \in BOOLEAN : SweepEnds(f)
      BY <1>3, <1>4, <2>1, <2>2
  <2>3. CASE /\ sweep.mode # "tombstone" /\ ~sweep.failed
             /\ sweep' = [sweep EXCEPT !.pc = "control"] /\ UNCHANGED doomed
    <3>1. Stored = {}
        BY <2>1, <2>3 DEF SweepBooks
    <3>2. sweep'.pc = "control" /\ sweep'.todo = {} /\ ~sweep'.failed /\ sweep'.mode # "tombstone"
        BY <1>1, <2>1, <2>3 DEF SweepRecord
    <3>3. SweepBooks'
        BY <2>1, <3>1, <3>2 DEF SweepBooks
    <3>4. QED  BY <1>3, <2>1, <2>3, <3>3
  <2>4. QED  BY <1>7, <2>1, <2>2, <2>3 DEF SweepSession
<1>8. CASE SweepControl
  <2>1. UNCHANGED run /\ Stored' = Stored
      BY <1>8 DEF SweepControl, Stored
  <2>2. CASE UNCHANGED control /\ SweepEnds(TRUE)
      BY <1>3, <1>4, <2>1, <2>2
  <2>3. CASE sweep.pc = "control" /\ control' = "none" /\ SweepEnds(FALSE)
    <3>1. sweep.mode # "tombstone" /\ Stored = {} /\ doomed
        BY <2>3 DEF SweepBooks, DeletionBooks
    <3>2. QED  BY <1>3, <1>4, <2>1, <2>3, <3>1
  <2>4. QED  BY <1>8, <2>2, <2>3 DEF SweepControl
<1>9. CASE SweepRetries
  <2>1. UNCHANGED <<run, control>> /\ Stored' = Stored /\ Schedule(sweep.mode, sweep.asked)
        /\ sweep.asked \in SUBSET Runs /\ sweep.mode \in {"none", "tombstone", "uncommitted"}
      BY <1>1, <1>9 DEF SweepRetries, diskVars, Stored, SweepRecord
  <2>2. CASE sweep.mode = "tombstone"
      BY <1>1, <1>3, <2>1, <2>2, ScheduleBuried DEF SweepBooks
  <2>3. CASE sweep.mode = "uncommitted"
    <3>1. doomed /\ control # "deleted"
        BY <1>1, <2>3 DEF DeletionBooks
    <3>2. QED  BY <1>3, <2>1, <2>3, <3>1, ScheduleOwned
  <2>4. CASE sweep.mode = "none"
    <3>1. doomed /\ sweep' = [pc |-> "runs", mode |-> "none", asked |-> sweep.asked,
                              todo |-> sweep.asked, failed |-> FALSE, fresh |-> TRUE]
          /\ doomed' = doomed
        BY <1>1, <1>9, <2>1, <2>4 DEF DeletionBooks, Schedule, SweepRetries, SweepActive
    <3>2. SweepBooks'
        BY <2>1, <3>1 DEF SweepBooks
    <3>3. QED  BY <1>3, <2>1, <3>1, <3>2
  <2>5. QED  BY <2>1, <2>2, <2>3, <2>4
<1>10. QED  BY <1>5, <1>6, <1>7, <1>8, <1>9 DEF Sweep

LEMMA RecoveryOwned ==
    ASSUME OwnedInv, Crash \/ Recovery
    PROVE  OwnedBooks'
<1> USE DEF OwnedInv, ConversationInv, OwnedBooks
<1>1. CASE Crash
  <2>1. /\ live' = {} /\ open' = {} /\ ~doomed' /\ ~birth' /\ sweep' = NoSweep /\ pump' = NoPump
        /\ op' = NoOp /\ UNCHANGED run /\ Stored' = Stored
        /\ control' = control \/ control' = "deleted"
      BY <1>1 DEF Crash, Stored
  <2>2. QED
      BY <2>1, NoOpOwned DEF SweepBooks, BirthBooks, DownBooks, NoSweep, NoPump, NoOp
<1>2. CASE RecoverRemains
  <2>1. /\ proc = "down" /\ proc' = "recovering" /\ UNCHANGED <<control, run, op, birth>>
        /\ Stored' = Stored /\ Stored \in SUBSET Runs
      BY <1>2 DEF RecoverRemains, RecoverKeeps, diskVars, Stored
  <2>2. op.pc = "idle" /\ ~birth
      BY <2>1 DEF DownBooks
  <2>3. OpBooks' /\ DownBooks'
      BY <2>1 DEF OpBooks, DownBooks
  <2>4. CASE control = "deleted"
    <3>1. SweepBooks' /\ ~doomed'
        BY <1>2, <2>1, <2>4, ScheduleBuried DEF RecoverRemains
    <3>2. QED  BY <2>1, <2>2, <2>3, <2>4, <3>1 DEF BirthBooks
  <2>5. CASE control = "live"
    <3>1. Schedule("uncommitted", {}) /\ Stored = {}
        BY <1>2, <2>5 DEF RecoverRemains
    <3>2. SweepBooks'
        BY <2>1, <2>5, <3>1, ScheduleOwned
    <3>3. QED  BY <2>1, <2>2, <2>3, <2>5, <3>1, <3>2 DEF BirthBooks
  <2>6. CASE control = "none"
    <3>1. UNCHANGED <<sweep, doomed>>
        BY <1>2, <2>6 DEF RecoverRemains, sweepVars
    <3>2. QED  BY <2>1, <2>3, <3>1, SweepSame DEF BirthBooks
  <2>7. QED  BY <2>4, <2>5, <2>6 DEF TypeOK
<1>3. CASE RecoverRuns
  <2>1. /\ proc = "down" /\ control = "live" /\ run' = Recovered
        /\ UNCHANGED <<control, sweep, doomed, live, open, op, birth>>
        /\ \/ proc' = "isolated" /\ UNCHANGED pump
           \/ proc' = "recovering"
      BY <1>3 DEF RecoverRuns, RecoverKeeps, sweepVars, pumpVars, tailVars
  <2>2. Stored' = Stored
      BY <2>1 DEF Stored, Recovered, Present, Terminal, TypeOK
  <2>3. OpBooks' /\ SweepBooks' /\ BirthBooks'
      BY <2>1, <2>2 DEF OpBooks, SweepBooks, BirthBooks
  <2>4. DownBooks'
      BY <2>1 DEF DownBooks
  <2>5. QED  BY <2>3, <2>4
<1>4. CASE RecoveryEnds
  <2>1. Live /\ UNCHANGED <<control, run, birth, sweep, doomed, op>> /\ proc' = "live" /\ Stored' = Stored
      BY <1>4 DEF RecoveryEnds, RecoverKeeps, diskVars, sweepVars, Live, Stored
  <2>2. OpBooks' /\ SweepBooks' /\ BirthBooks' /\ DownBooks'
      BY <2>1 DEF OpBooks, SweepBooks, BirthBooks, DownBooks
  <2>3. QED  BY <2>2
<1>5. QED  BY <1>1, <1>2, <1>3, <1>4 DEF Recovery

LEMMA StepOwned ==
    ASSUME OwnedInv, Next
    PROVE  OwnedInv'
<1>1. ConversationInv'
    BY StepKeeps DEF OwnedInv
<1>2. CASE Delete \/ Rollback \/ \E key \in Submissions : Submit(key)
  <2>1. PICK kind \in {"submit", "delete", "rollback"}, key \in Nat : Begins(kind, key)
    <3>1. Submissions \subseteq Nat
        BY DEF Submissions
    <3>2. QED  BY <1>2, <3>1 DEF Delete, Rollback, Submit
  <2>2. QED  BY <1>1, <2>1, BeginsOwned DEF OwnedInv
<1>3. CASE Operation
    BY <1>1, <1>3, PlainOperationsOwned, StoresOwned, StartsOwned, CancelsOwned, PumpAndTailOwned
       DEF Operation, OwnedInv
<1>4. CASE Pump \/ Sweep \/ Crash \/ Recovery
    BY <1>1, <1>4, PumpAndTailOwned, SweepOwned, RecoveryOwned DEF OwnedInv
<1>5. CASE \E r \in Runs : Cancel(r) \/ Execution(r) \/ CleanupFinalizes(r)
    BY <1>1, <1>5, PumpAndTailOwned DEF OwnedInv
<1>6. QED  BY <1>2, <1>3, <1>4, <1>5 DEF Next

\* What the birth of a conversation leaves stored is known to its cleanup, at any moment
\* (cleanupFailedInitialConversationBirth, scheduleConversationCleanup).
THEOREM OwnedInvariant == Spec => []OwnedInv
<1>1. Init => OwnedInv
    BY InitConversation, InitOwned DEF OwnedInv
<1>2. OwnedInv /\ [Next]_vars => OwnedInv'
  <2> SUFFICES ASSUME OwnedInv, UNCHANGED vars PROVE OwnedInv'
      BY StepOwned
  <2>1. /\ UNCHANGED <<control, session, branch, run, proc, known, live, open, owed, cleanup, pump, timer>>
        /\ UNCHANGED <<op, birth, buried, sweep, doomed, missed, confirmed, upsets>>
      BY DEF vars, diskVars, tailVars, pumpVars, sweepVars
  <2>2. ConversationInv'
      BY <2>1 DEF OwnedInv, ConversationInv, TypeOK, DeletionBooks, Unfinished
  <2>3. OwnedBooks'
      BY <2>1 DEF OwnedInv, OwnedBooks, SweepBooks, OpBooks, BirthBooks, DownBooks, Stored
  <2>4. QED  BY <2>2, <2>3 DEF OwnedInv
<1>3. QED  BY <1>1, <1>2, PTL DEF Spec

\* No run is on disk without the document of its conversation, whatever fails at its birth
\* and wherever the process stops (submitTurn, recoverPersistedRuns).
THEOREM RunsHaveTheirConversation == Spec => []RunsAreOwned
<1>1. OwnedInv => RunsAreOwned
    BY DEF OwnedInv, OwnedBooks, BirthBooks, RunsAreOwned
<1>2. QED  BY <1>1, OwnedInvariant, PTL

-----------------------------------------------------------------------------
(* What is held is stored, in the order of the submissions; only a run that *)
(* is held is executed; and a run whose finalization is not owed any more   *)
(* has given the Session back.                                              *)

RunFacts ==
    /\ known \subseteq Stored /\ live \subseteq known
    /\ \A r \in Runs :
          /\ run[r].behind < r
          /\ run[r].status \in {"queued", "absent"} => run[r].phase = "none"
          /\ run[r].status \in Terminal /\ owed[r] = "no" => r \notin open
          /\ r \in open => run[r].status \in Terminal \union {"running", "gone"}
    /\ \A r, q \in Runs : run[r].status = "absent" /\ r < q => run[q].status = "absent"

WorkBooks ==
    /\ op.pc = "store" => \A r \in Unused : op.after < r
    /\ op.pc = "start" => op.after = 0 /\ op.run \in known /\ run[op.run].behind = 0
    /\ Live => \/ \A r \in Runs : run[r].status = "running" => r \in live
               \/ control = "deleted" /\ known = {}
    /\ sweep.pc # "off" /\ sweep.mode = "tombstone" => Unfinished = {}
    /\ proc = "down" => known = {}

RunInv == OwnedInv /\ RunFacts /\ WorkBooks

LEMMA InitRuns == Init => RunFacts /\ WorkBooks
<1> SUFFICES ASSUME Init PROVE RunFacts /\ WorkBooks
    OBVIOUS
<1>1. \A r \in Runs : run[r].status = "absent" /\ run[r].behind = 0 /\ run[r].phase = "none" /\ r > 0
    BY DEF Init, NoView, Absent, Runs
<1>2. known = {} /\ live = {} /\ open = {} /\ op.pc = "idle" /\ sweep.pc = "off" /\ proc = "live"
    BY DEF Init, NoOp, NoSweep
<1>3. RunFacts
    BY <1>1, <1>2 DEF RunFacts, Terminal
<1>4. WorkBooks
    BY <1>1, <1>2 DEF WorkBooks
<1>5. QED  BY <1>3, <1>4

\* Only runs that are held are visible.
LEMMA SeenIsKnown == TypeOK => Visible(Documents) \subseteq known
<1> SUFFICES ASSUME TypeOK, NEW r \in Visible(Documents) PROVE r \in known
    OBVIOUS
<1>1. r \in Runs
    BY Chosen
<1>2. r \in OnBranch(Documents) \/ Pends(Documents, r)
    BY DEF Visible, Chain, Loose
<1>3. r \notin known => Documents[r] = Absent
    BY <1>1 DEF Documents
<1>4. QED  BY <1>2, <1>3 DEF OnBranch, Pends, Absent, Terminal

\* A step that leaves the runs and their executions alone.
LEMMA PlainRuns ==
    ASSUME RunInv, UNCHANGED <<run, known, live, proc>>, open' \subseteq open,
           \A r \in Runs : run[r].status \in Terminal /\ owed'[r] = "no" => r \notin open',
           control = "deleted" => control' = "deleted",
           op'.pc = "store" => \A r \in Unused : op'.after < r,
           op'.pc = "start" => op.pc = "start" /\ op'.run = op.run /\ op'.after = op.after,
           sweep'.pc # "off" /\ sweep'.mode = "tombstone" =>
               Unfinished = {} \/ (sweep.pc # "off" /\ sweep.mode = "tombstone")
    PROVE  RunFacts' /\ WorkBooks'
<1> USE DEF RunInv
<1>1. Unused' = Unused /\ Stored' = Stored /\ Unfinished' = Unfinished
    BY DEF Unused, Stored, Unfinished
<1>2. RunFacts'
    BY <1>1 DEF RunFacts
<1>3. WorkBooks'
    BY <1>1 DEF WorkBooks, Live
<1>4. QED  BY <1>2, <1>3

\* The cleanup that is scheduled goes on behind the tombstone, or is new.
LEMMA ScheduleMode ==
    ASSUME TypeOK, NEW mode \in {"none", "tombstone", "uncommitted"}, NEW runs, Schedule(mode, runs)
    PROVE  sweep'.pc # "off" /\ sweep'.mode = "tombstone" =>
               mode = "tombstone" \/ (sweep.pc # "off" /\ sweep.mode = "tombstone")
<1>1. CASE SweepActive
  <2>1. sweep' = [sweep EXCEPT !.fresh = @ /\ mode = "tombstone"]
      BY <1>1 DEF Schedule
  <2>2. QED  BY <1>1, <2>1 DEF SweepActive, TypeOK, SweepRecord
<1>2. CASE ~SweepActive
  <2>1. sweep'.mode = mode
      BY <1>2 DEF Schedule
  <2>2. QED  BY <2>1
<1>3. QED  BY <1>1, <1>2

\* The operations that leave the runs alone.
LEMMA PlainOperationsRuns ==
    ASSUME RunInv,
           \/ OpReconciles \/ OpAwaits \/ OpControls \/ OpRechecks \/ OpJoins \/ OpTakesBack \/ OpBuries
           \/ OpMoves
           \/ \E kind \in {"submit", "delete", "rollback"}, key \in Nat : Begins(kind, key)
    PROVE  RunFacts' /\ WorkBooks'
<1> USE DEF RunInv, OwnedInv, ConversationInv
<1>1. UNCHANGED <<run, known, live, open, owed, proc>>
    BY DEF OpReconciles, OpAwaits, OpControls, OpRechecks, OpJoins, OpTakesBack, OpBuries, OpHolds,
           OpKeeps, OpMoves, Begins, tailVars
<1>2. \A r \in Runs : run[r].status \in Terminal /\ owed'[r] = "no" => r \notin open'
    BY <1>1 DEF RunFacts
<1>3. control = "deleted" => control' = "deleted"
    BY DEF OpReconciles, OpAwaits, OpControls, OpRechecks, OpJoins, OpTakesBack, OpBuries, OpMoves, Begins,
           OpHolds
<1>4. sweep'.pc # "off" /\ sweep'.mode = "tombstone" => sweep.pc # "off" /\ sweep.mode = "tombstone"
  <2>1. UNCHANGED sweep \/ \E runs : Schedule("uncommitted", runs)
      BY DEF OpReconciles, OpAwaits, OpControls, OpRechecks, OpJoins, OpTakesBack, OpBuries, OpMoves,
             Begins, SettleCleanup, sweepVars
  <2>2. QED  BY <2>1, ScheduleMode
<1>5. /\ op'.pc # "start"
      /\ op'.pc = "store" => \A r \in Unused : op'.after < r
  <2>1. CASE OpControls
    <3>1. op.after = 0 /\ op \in OpRecord
        BY <2>1 DEF OpControls, OwnedBooks, OpBooks, TypeOK
    <3>2. /\ op'.pc # "start"
          /\ op'.pc = "store" => op'.after = 0 \/ op'.after = Greatest(Visible(Documents))
      <4>1. \/ op' = NoOp
            \/ op' = [op EXCEPT !.pc = "store", !.after = Greatest(Visible(Documents))]
            \/ op' = [op EXCEPT !.pc = "store", !.created = TRUE]
            \/ op' = [op EXCEPT !.pc = "reconcile", !.then = "throw"]
          BY <2>1 DEF OpControls, Returns
      <4> DEFINE last == Greatest(Visible(Documents))
      <4> HIDE DEF last
      <4>2. op' = [op EXCEPT !.pc = "store", !.after = last] => op'.pc = "store" /\ op'.after = last
          BY <3>1 DEF OpRecord
      <4>3. op' = [op EXCEPT !.pc = "store", !.created = TRUE] => op'.pc = "store" /\ op'.after = 0
          BY <3>1 DEF OpRecord
      <4>4. op' = [op EXCEPT !.pc = "reconcile", !.then = "throw"] => op'.pc = "reconcile"
          BY <3>1 DEF OpRecord
      <4>5. op' = NoOp => op'.pc = "idle"
          BY DEF NoOp
      <4>6. \/ op' = [op EXCEPT !.pc = "store", !.after = last]
            \/ op' = [op EXCEPT !.pc = "store", !.created = TRUE]
            \/ op' = [op EXCEPT !.pc = "reconcile", !.then = "throw"]
            \/ op' = NoOp
          BY <4>1 DEF last
      <4>7. op'.pc # "start" /\ (op'.pc = "store" => op'.after = 0 \/ op'.after = last)
          BY <4>2, <4>3, <4>4, <4>5, <4>6
      <4>8. QED  BY <4>7 DEF last
    <3>3. Visible(Documents) \in SUBSET Runs
        BY Chosen
    <3>4. Greatest(Visible(Documents)) # 0 => Greatest(Visible(Documents)) \in known
        BY <3>3, GreatestRun, SeenIsKnown DEF Greatest
    <3>5. \A q \in known, r \in Unused : q < r
      <4>1. SUFFICES ASSUME NEW q \in known, NEW r \in Unused PROVE q < r
          OBVIOUS
      <4>2. q \in Runs /\ r \in Runs /\ run[q].status # "absent" /\ run[r].status = "absent"
          BY DEF RunFacts, Stored, Unused, Present, Terminal
      <4>3. ~(r < q) /\ r # q /\ q \in Nat /\ r \in Nat
          BY <4>2 DEF RunFacts, Runs
      <4>4. QED  BY <4>3
    <3>6. \A r \in Unused : 0 < r
        BY DEF Unused, Runs
    <3>7. QED  BY <3>2, <3>4, <3>5, <3>6
  <2>2. CASE ~OpControls
    <3>1. op' = NoOp \/ (\E pc \in {"await", "tombstone", "move", "control", "join", "cancel", "reconcile"} :
                             op'.pc = pc)
      <4>1. op \in OpRecord /\ NoOp \in OpRecord
          BY BoundsAssumption DEF TypeOK, NoOp, OpRecord
      <4>2. ASSUME NEW o \in OpRecord, SettleCleanup(o)
            PROVE  op'.pc \in {"await", "control", "tombstone", "move"}
          BY <4>2, SettleKeeps
      <4>3. CASE \E kind \in {"submit", "delete", "rollback"}, key \in Nat : Begins(kind, key)
        <5>1. PICK kind \in {"submit", "delete", "rollback"}, key \in Nat : Begins(kind, key)
            BY <4>3
        <5> DEFINE o == [NoOp EXCEPT !.kind = kind, !.key = key]
        <5>2. o \in OpRecord
            BY <4>1 DEF OpRecord
        <5>3. op' = [o EXCEPT !.pc = "reconcile", !.then = "settle"] \/ SettleCleanup(o)
            BY <5>1 DEF Begins
        <5> HIDE DEF o
        <5>4. [o EXCEPT !.pc = "reconcile", !.then = "settle"].pc = "reconcile"
            BY <5>2 DEF OpRecord
        <5>5. QED  BY <4>2, <5>2, <5>3, <5>4
      <4>4. CASE OpReconciles
          BY <4>1, <4>2, <4>4 DEF OpReconciles, Returns, Goto, OpRecord
      <4>5. CASE OpAwaits \/ OpRechecks \/ OpJoins \/ OpTakesBack \/ OpMoves
          BY <4>1, <4>5 DEF OpAwaits, OpRechecks, OpJoins, OpTakesBack, OpMoves, Returns, Goto,
             Body, OpRecord
      <4>6. CASE OpBuries
          BY <4>1, <4>6 DEF OpBuries, Returns, OpRecord
      <4>7. QED  BY <2>2, <4>3, <4>4, <4>5, <4>6
    <3>2. QED  BY <3>1 DEF NoOp
  <2>3. QED  BY <2>1, <2>2
<1>6. QED  BY <1>1, <1>2, <1>3, <1>4, <1>5, PlainRuns

LEMMA FinalizationFacts ==
    ASSUME TypeOK, RunFacts, NEW r, Finalizes(r) \/ FinalizationFails(r)
    PROVE  /\ open' \subseteq open
           /\ \A q \in Runs : run[q].status \in Terminal /\ owed'[q] = "no" => q \notin open'
BY DEF Finalizes, FinalizationFails, TypeOK, RunFacts

\* A run that was queued starts.
LEMMA RunningRuns ==
    ASSUME RunInv, Live, NEW r \in known, run[r].status = "queued", Running(r),
           UNCHANGED <<known, proc, owed, control, sweep>>,
           op'.pc \notin {"store", "start"} \/ OpStays
    PROVE  RunFacts' /\ WorkBooks'
<1> USE DEF RunInv, OwnedInv, ConversationInv
<1>1. /\ run' = [run EXCEPT ![r].status = "running"] /\ live' = live \union {r} /\ open' = open \union {r}
      /\ r \in Runs /\ run \in [Runs -> RunRecord]
    BY DEF Running, TypeOK
<1>2. /\ \A q \in Runs : q # r => run'[q] = run[q]
      /\ run'[r].status = "running" /\ run'[r].phase = run[r].phase /\ run'[r].behind = run[r].behind
    BY <1>1 DEF RunRecord
<1>3. Stored' = Stored
    BY <1>1, <1>2 DEF Stored, Present
<1>4. RunFacts'
  <2>1. known' \subseteq Stored' /\ live' \subseteq known'
      BY <1>1, <1>3 DEF RunFacts
  <2>2. \A q \in Runs :
          /\ run'[q].behind < q
          /\ run'[q].status \in {"queued", "absent"} => run'[q].phase = "none"
          /\ run'[q].status \in Terminal /\ owed'[q] = "no" => q \notin open'
          /\ q \in open' => run'[q].status \in Terminal \union {"running", "gone"}
      BY <1>1, <1>2 DEF RunFacts, Terminal
  <2>3. \A q, p \in Runs : run'[q].status = "absent" /\ q < p => run'[p].status = "absent"
    <3>1. \A q \in Runs : run'[q].status = "absent" <=> run[q].status = "absent"
        BY <1>2
    <3>2. QED  BY <3>1 DEF RunFacts
  <2>4. QED  BY <2>1, <2>2, <2>3 DEF RunFacts
<1>5. Unused' = Unused /\ Unfinished' = Unfinished
    BY <1>1, <1>2 DEF Unused, Unfinished
<1>6. WorkBooks'
  <2>1. Live' => \/ \A q \in Runs : run'[q].status = "running" => q \in live'
                 \/ control' = "deleted" /\ known' = {}
      BY <1>1, <1>2 DEF WorkBooks
  <2>2. op.pc = "start" => run'[op.run].behind = 0
      BY <1>1, <1>2 DEF WorkBooks, RunFacts, Stored
  <2>3. QED  BY <1>5, <2>1, <2>2 DEF WorkBooks, Live, OpStays
<1>7. QED  BY <1>4, <1>6

LEMMA PumpRuns ==
    ASSUME RunInv, Pump
    PROVE  RunFacts' /\ WorkBooks'
<1> USE DEF RunInv, OwnedInv, ConversationInv
<1>1. Live /\ UNCHANGED <<control, proc, known, sweep, op>>
    BY DEF Pump, PumpChooses, PumpFinalizes, PumpStarts, PumpTimer, PumpKeeps, sweepVars
<1>2. CASE PumpStarts /\ run[pump.cand].status = "queued" /\ Running(pump.cand)
  <2>1. UNCHANGED owed /\ pump.cand \in known
      BY <1>2 DEF PumpStarts, DeletionBooks
  <2>2. QED  BY <1>1, <1>2, <2>1, RunningRuns DEF OpStays
<1>3. CASE UNCHANGED <<run, live>> /\ (UNCHANGED <<open, owed>> \/ PumpFinalizes)
  <2>1. open' \subseteq open /\ \A q \in Runs : run[q].status \in Terminal /\ owed'[q] = "no" => q \notin open'
      BY <1>3, FinalizationFacts DEF PumpFinalizes, RunFacts
  <2>2. QED  BY <1>1, <1>3, <2>1, PlainRuns DEF WorkBooks
<1>4. QED  BY <1>2, <1>3 DEF Pump, PumpChooses, PumpFinalizes, PumpStarts, PumpTimer

\* One run ends, or goes on from phase to phase.
LEMMA OneRunGoesOn ==
    ASSUME RunInv, Live, NEW r \in Runs, run[r].status \in {"queued", "running"},
           \/ \E s \in Terminal : run' = [run EXCEPT ![r].status = s]
           \/ run[r].status = "running" /\ \E p \in {"started", "entered"} : run' = [run EXCEPT ![r].phase = p],
           owed' = [owed EXCEPT ![r] = owed'[r]], run'[r].status \in Terminal => owed'[r] # "no",
           UNCHANGED <<known, live, open, proc, control, sweep>>, OpStays
    PROVE  RunFacts' /\ WorkBooks'
<1> USE DEF RunInv, OwnedInv, ConversationInv
<1>1. /\ \A q \in Runs : q # r => run'[q] = run[q] /\ owed'[q] = owed[q]
      /\ run'[r].behind = run[r].behind
      /\ run'[r].status \in Terminal \/ (run'[r].status = "running" /\ run[r].status = "running")
  <2>1. /\ \A q \in Runs : q # r => run'[q] = run[q]
        /\ run'[r].behind = run[r].behind
        /\ run'[r].status \in Terminal \/ (run'[r].status = "running" /\ run[r].status = "running")
      BY DEF TypeOK, RunRecord
  <2>2. \A q \in Runs : q # r => owed'[q] = owed[q]
      BY DEF TypeOK
  <2>3. QED  BY <2>1, <2>2
<1>2. Stored' = Stored /\ Unused' = Unused /\ Unfinished' \subseteq Unfinished
  <2>1. Stored' = Stored
      BY <1>1 DEF Stored, Present
  <2>2. Unused' = Unused
      BY <1>1 DEF Unused, Terminal
  <2>3. Unfinished' \subseteq Unfinished
      BY <1>1 DEF Unfinished, TypeOK
  <2>4. QED  BY <2>1, <2>2, <2>3
<1>3. RunFacts'
  <2>1. \A q \in Runs :
          /\ run'[q].behind < q
          /\ run'[q].status \in {"queued", "absent"} => run'[q].phase = "none"
          /\ run'[q].status \in Terminal /\ owed'[q] = "no" => q \notin open'
          /\ q \in open' => run'[q].status \in Terminal \union {"running", "gone"}
      BY <1>1 DEF RunFacts, Terminal
  <2>2. \A q, p \in Runs : run'[q].status = "absent" /\ q < p => run'[p].status = "absent"
    <3>1. \A q \in Runs : run'[q].status = "absent" <=> run[q].status = "absent"
        BY <1>1 DEF Terminal
    <3>2. QED  BY <3>1 DEF RunFacts
  <2>3. QED  BY <1>2, <2>1, <2>2 DEF RunFacts
<1>4. WorkBooks'
  <2>1. Live' => \/ \A q \in Runs : run'[q].status = "running" => q \in live'
                 \/ control' = "deleted" /\ known' = {}
      BY <1>1 DEF WorkBooks, Terminal
  <2>2. op.pc = "start" => run'[op.run].behind = 0
      BY <1>1 DEF WorkBooks, RunFacts, Stored
  <2>3. QED  BY <1>2, <2>1, <2>2 DEF WorkBooks, Live, OpStays
<1>5. QED  BY <1>3, <1>4

LEMMA TailRuns ==
    ASSUME RunInv, NEW r \in Runs, Cancel(r) \/ Execution(r) \/ CleanupFinalizes(r)
    PROVE  RunFacts' /\ WorkBooks'
<1> USE DEF RunInv, OwnedInv, ConversationInv
<1>1. Live /\ UNCHANGED <<control, proc, known, op, sweep>>
    BY DEF Cancel, Execution, RunAdvances, RunEnds, RunFinalizes, ExecutionEnds, CleanupFinalizes,
           TailKeeps, sweepVars, Live
<1>2. CASE RunAdvances(r)
  <2>1. UNCHANGED <<live, open, owed>> /\ run[r].status = "running"
        /\ \E p \in {"started", "entered"} : run' = [run EXCEPT ![r].phase = p]
      BY <1>2 DEF RunAdvances, tailVars
  <2>2. run'[r].status = "running" /\ owed' = [owed EXCEPT ![r] = owed'[r]]
      BY <2>1 DEF TypeOK, RunRecord
  <2>3. QED  BY <1>1, <2>1, <2>2, OneRunGoesOn DEF Terminal, OpStays
<1>3. CASE RunEnds(r) \/ Cancel(r)
  <2>1. /\ UNCHANGED <<live, open>> /\ run[r].status \in {"queued", "running"}
        /\ \E s \in Terminal : run' = [run EXCEPT ![r].status = s]
        /\ owed' = [owed EXCEPT ![r] = owed'[r]] /\ owed'[r] # "no"
      BY <1>3 DEF RunEnds, Cancel, CanCancel, Cancelled, Terminal, TypeOK
  <2>2. QED  BY <1>1, <2>1, OneRunGoesOn DEF OpStays
<1>4. CASE RunFinalizes(r) \/ CleanupFinalizes(r)
  <2>1. open' \subseteq open /\ \A q \in Runs : run[q].status \in Terminal /\ owed'[q] = "no" => q \notin open'
      BY <1>4, FinalizationFacts DEF RunFinalizes, CleanupFinalizes
  <2>2. UNCHANGED <<run, live>>
      BY <1>4 DEF RunFinalizes, CleanupFinalizes
  <2>3. QED  BY <1>1, <2>1, <2>2, PlainRuns DEF WorkBooks
<1>5. CASE ExecutionEnds(r)
  <2>1. UNCHANGED <<run, open, owed>> /\ live' = live \ {r} /\ run[r].status # "running"
      BY <1>5 DEF ExecutionEnds
  <2>2. Unused' = Unused /\ Stored' = Stored /\ Unfinished' = Unfinished
      BY <1>1, <2>1 DEF Unused, Stored, Unfinished
  <2>3. RunFacts'
      BY <1>1, <2>1, <2>2 DEF RunFacts
  <2>4. WorkBooks'
      BY <1>1, <2>1, <2>2 DEF WorkBooks, Live
  <2>5. QED  BY <2>3, <2>4
<1>6. QED  BY <1>2, <1>3, <1>4, <1>5 DEF Execution

\* The new run is behind an older one, and the oldest that was not used.
LEMMA StoresRuns ==
    ASSUME RunInv, OpStores
    PROVE  RunFacts' /\ WorkBooks'
<1> USE DEF RunInv, OwnedInv, ConversationInv
<1>1. /\ Live /\ UNCHANGED <<live, open, owed, proc, control, sweep>> /\ op.pc = "store" /\ op \in OpRecord
      /\ control = "live" /\ ~doomed
    BY DEF OpStores, OpKeeps, tailVars, sweepVars, TypeOK, DeletionBooks, Settled
<1>2. /\ \A r \in Runs : run[r].status \in Terminal /\ owed'[r] = "no" => r \notin open'
      /\ sweep.pc = "off" \/ sweep.mode # "tombstone"
    BY <1>1 DEF RunFacts, OwnedBooks, SweepBooks
<1>3. CASE UNCHANGED <<run, known>>
  <2>1. op'.pc \notin {"store", "start"}
    <3>1. CASE Throws
        BY <1>1, <3>1 DEF Throws, Returns, NoOp, OpRecord
    <3>2. CASE op' = NoOp \/ \E r : op' = [op EXCEPT !.pc = "failed", !.run = r]
      <4>1. op' = NoOp => op'.pc = "idle"
          BY DEF NoOp
      <4>2. ASSUME NEW r, op' = [op EXCEPT !.pc = "failed", !.run = r] PROVE op'.pc = "failed"
          BY <1>1, <4>2 DEF OpRecord
      <4>3. QED  BY <3>2, <4>1, <4>2
    <3>3. ASSUME Unused # {}, known' = known \union {Least(Unused)}
          PROVE  FALSE
      <4>1. Least(Unused) \in Unused
          BY <3>3, Chosen
      <4>2. QED  BY <1>3, <3>3, <4>1 DEF Unused, RunFacts, Stored, Present, Terminal
    <3>4. QED  BY <3>1, <3>2, <3>3 DEF OpStores
  <2>2. QED  BY <1>1, <1>2, <1>3, <2>1, PlainRuns
<1>4. ASSUME ~UNCHANGED <<run, known>>
      PROVE  RunFacts' /\ WorkBooks'
  <2> DEFINE r == Least(Unused)
             new == [status |-> "queued", phase |-> "none", behind |-> op.after, key |-> op.key]
  <2>1. /\ run' \in {run, [run EXCEPT ![r] = new]} /\ Unused # {}
        /\ \/ /\ run' = [run EXCEPT ![r] = new] /\ known' = known \union {r}
              /\ op' = [op EXCEPT !.pc = IF op.after = 0 THEN "start" ELSE "recheck", !.run = r]
           \/ /\ known' = known
              /\ op' = IF op.created THEN [op EXCEPT !.pc = "failed", !.run = r] ELSE NoOp
      BY <1>4 DEF OpStores
  <2>2. r \in Unused /\ r \in Runs /\ run[r].status = "absent" /\ \A q \in Unused : r <= q
    <3>1. Unused \in SUBSET Nat /\ Unused # {}
        BY <2>1 DEF Unused, Runs
    <3>2. \E q \in Unused : \A p \in Unused : q <= p
        BY <3>1, FirstRun
    <3>3. r \in Unused /\ \A q \in Unused : r <= q
        BY <3>1, <3>2 DEF Least
    <3>4. QED  BY <3>3 DEF Unused
  <2> HIDE DEF r
  <2>3. run' = [run EXCEPT ![r] = new]
    <3>1. CASE run' = run
      <4>1. known' = known
          BY <1>4, <2>1, <3>1, <2>2 DEF TypeOK
      <4>2. QED  BY <1>4, <3>1, <4>1
    <3>2. QED  BY <2>1, <3>1
  <2>4. /\ \A q \in Runs : q # r => run'[q] = run[q]
        /\ run'[r] = new /\ new.status = "queued" /\ new.phase = "none" /\ new.behind = op.after
      BY <2>2, <2>3 DEF TypeOK
  <2>5. /\ op'.pc # "store"
        /\ op'.pc = "start" => op'.after = 0 /\ op.after = 0 /\ op'.run = r /\ known' = known \union {r}
    <3>1. CASE op' = [op EXCEPT !.pc = IF op.after = 0 THEN "start" ELSE "recheck", !.run = r]
               /\ known' = known \union {r}
      <4>1. op.after = 0 => op'.pc = "start" /\ op'.after = 0 /\ op'.run = r
          BY <1>1, <3>1 DEF OpRecord
      <4>2. op.after # 0 => op'.pc = "recheck"
          BY <1>1, <3>1 DEF OpRecord
      <4>3. QED  BY <3>1, <4>1, <4>2
    <3>2. CASE op' = [op EXCEPT !.pc = "failed", !.run = r]
      <4>1. op'.pc = "failed"
          BY <1>1, <3>2 DEF OpRecord
      <4>2. QED  BY <4>1
    <3>3. CASE op' = NoOp
      <4>1. op'.pc = "idle"
          BY <3>3 DEF NoOp
      <4>2. QED  BY <4>1
    <3>4. QED  BY <2>1, <3>1, <3>2, <3>3
  <2> HIDE DEF new
  <2>6. known' \subseteq known \union {r} /\ known \subseteq known' /\ r \notin open /\ r \notin known
    <3>1. r \notin open /\ r \notin known
        BY <2>2 DEF RunFacts, Stored, Present, Terminal
    <3>2. QED  BY <2>1, <3>1
  <2>7. Stored' = Stored \union {r}
      BY <2>2, <2>4 DEF Stored, Present
  <2>8. RunFacts'
    <3>1. known' \subseteq Stored' /\ live' \subseteq known'
        BY <1>1, <2>6, <2>7 DEF RunFacts
    <3>2. \A q \in Runs :
            /\ run'[q].behind < q
            /\ run'[q].status \in {"queued", "absent"} => run'[q].phase = "none"
            /\ run'[q].status \in Terminal /\ owed'[q] = "no" => q \notin open'
            /\ q \in open' => run'[q].status \in Terminal \union {"running", "gone"}
      <4>1. op.after < r
          BY <1>1, <2>2 DEF WorkBooks
      <4>2. QED  BY <1>1, <2>4, <2>6, <4>1 DEF RunFacts, Terminal
    <3>3. \A q, p \in Runs : run'[q].status = "absent" /\ q < p => run'[p].status = "absent"
      <4>1. SUFFICES ASSUME NEW q \in Runs, NEW p \in Runs, run'[q].status = "absent", q < p
                     PROVE  run'[p].status = "absent"
          OBVIOUS
      <4>2. q # r /\ run[q].status = "absent" /\ q \in Unused
          BY <2>4, <4>1 DEF Unused
      <4>3. r < p /\ p # r
          BY <2>2, <4>1, <4>2 DEF Runs
      <4>4. QED  BY <2>4, <4>1, <4>2, <4>3 DEF RunFacts
    <3>4. QED  BY <3>1, <3>2, <3>3 DEF RunFacts
  <2>9. WorkBooks'
    <3>1. Live' => \/ \A q \in Runs : run'[q].status = "running" => q \in live'
                   \/ control' = "deleted" /\ known' = {}
        BY <1>1, <2>4 DEF WorkBooks
    <3>2. op'.pc = "start" => op'.run \in known' /\ run'[op'.run].behind = 0
        BY <2>4, <2>5
    <3>3. proc' # "down"
        BY <1>1 DEF Live
    <3>4. QED  BY <1>1, <1>2, <2>5, <3>1, <3>2, <3>3 DEF WorkBooks
  <2>10. QED  BY <2>8, <2>9
<1>5. QED  BY <1>3, <1>4

LEMMA StartsAndCancelsRuns ==
    ASSUME RunInv, OpStarts \/ OpCancels
    PROVE  RunFacts' /\ WorkBooks'
<1> USE DEF RunInv, OwnedInv, ConversationInv
<1>1. Live /\ UNCHANGED <<control, proc, known>> /\ op \in OpRecord
    BY DEF OpStarts, OpCancels, TypeOK
<1>2. CASE OpStarts
  <2>1. UNCHANGED <<owed, sweep>> /\ op.run \in known
      BY <1>2 DEF OpStarts, sweepVars, WorkBooks
  <2>2. CASE run[op.run].status = "queued" /\ Running(op.run) /\ (Returns \/ Throws)
    <3>1. op'.pc \notin {"store", "start"}
        BY <1>1, <2>2 DEF Throws, Returns, NoOp, OpRecord
    <3>2. QED  BY <1>1, <2>1, <2>2, <3>1, RunningRuns
  <2>3. CASE Throws /\ UNCHANGED <<run, live, open>>
    <3>1. op'.pc \notin {"store", "start"}
        BY <1>1, <2>3 DEF Throws, Returns, NoOp, OpRecord
    <3>2. \A q \in Runs : run[q].status \in Terminal /\ owed'[q] = "no" => q \notin open'
        BY <2>1, <2>3 DEF RunFacts
    <3>3. QED  BY <1>1, <2>1, <2>3, <3>1, <3>2, PlainRuns
  <2>4. QED  BY <1>2, <2>2, <2>3 DEF OpStarts
<1>3. CASE OpCancels
  <2>1. UNCHANGED <<live, open>>
      BY <1>3 DEF OpCancels
  <2>2. CASE /\ \E r \in Unfinished : Cancelled(r)
             /\ \E q : op' = [op EXCEPT !.left = @ \ {q}]
             /\ UNCHANGED sweepVars
    <3>1. PICK r \in Unfinished : Cancelled(r) /\ OpStays /\ UNCHANGED sweep
        BY <1>1, <2>2 DEF sweepVars, OpStays, OpRecord
    <3>2. /\ r \in Runs /\ run[r].status \in {"queued", "running"}
          /\ \E s \in Terminal : run' = [run EXCEPT ![r].status = s]
          /\ owed' = [owed EXCEPT ![r] = owed'[r]] /\ owed'[r] # "no"
        BY <3>1 DEF Cancelled, Terminal, Unfinished, TypeOK
    <3>3. QED  BY <1>1, <2>1, <3>1, <3>2, OneRunGoesOn
  <2>3. CASE Returns /\ UNCHANGED <<run, owed>>
             /\ (UNCHANGED sweepVars \/ (Unfinished = {} /\ Schedule("tombstone", known)))
    <3>1. op'.pc \notin {"store", "start"}
        BY <2>3 DEF Returns, NoOp
    <3>2. \A q \in Runs : run[q].status \in Terminal /\ owed'[q] = "no" => q \notin open'
        BY <2>1, <2>3 DEF RunFacts
    <3>3. QED  BY <1>1, <2>1, <2>3, <3>1, <3>2, PlainRuns DEF sweepVars
  <2>4. CASE /\ \E q : op' = [op EXCEPT !.left = @ \ {q}] /\ Recancelled(q)
             /\ UNCHANGED sweepVars
    <3>1. OpStays /\ UNCHANGED <<run, owed, sweep>> /\ op.pc = "cancel"
        BY <1>1, <1>3, <2>4 DEF sweepVars, OpStays, OpRecord, Recancelled, OpCancels
    <3>2. \A q \in Runs : run[q].status \in Terminal /\ owed'[q] = "no" => q \notin open'
        BY <2>1, <3>1 DEF RunFacts
    <3>3. QED  BY <1>1, <2>1, <3>1, <3>2, PlainRuns DEF OpStays
  <2>5. op.left = {} => Unfinished = {}
      BY <1>3 DEF DeletionBooks, OpCancels
  <2>6. QED  BY <1>3, <2>2, <2>3, <2>4, <2>5 DEF OpCancels
<1>4. QED  BY <1>2, <1>3

LEMMA SweepRuns ==
    ASSUME RunInv, Sweep
    PROVE  RunFacts' /\ WorkBooks'
<1> USE DEF RunInv, OwnedInv, ConversationInv
<1>1. /\ Live /\ UNCHANGED <<proc, live, open, owed, op>> /\ sweep \in SweepRecord
      /\ control = "deleted" => control' = "deleted"
    BY DEF Sweep, SweepLists, SweepRun, SweepSession, SweepControl, SweepRetries, SweepKeeps, TypeOK,
           diskVars, tailVars, DeletionBooks
<1>2. sweep'.pc # "off" /\ sweep'.mode = "tombstone" => sweep.pc # "off" /\ sweep.mode = "tombstone"
  <2>1. ASSUME NEW f \in BOOLEAN, SweepEnds(f), sweep.pc # "off"
        PROVE  sweep'.pc # "off" => sweep'.mode = sweep.mode
    <3>1. sweep.pc # "off" /\ sweep.mode # "tombstone" => doomed
        BY DEF DeletionBooks
    <3>2. QED  BY <2>1, <3>1, SweepEndsKeeps
  <2>2. CASE SweepLists \/ \E r \in Runs : SweepRun(r)
      BY <1>1, <2>2 DEF SweepLists, SweepRun, SweepRecord
  <2>3. CASE SweepSession
    <3>1. sweep.pc # "off" /\ sweep.failed \in BOOLEAN
          /\ ((\E f \in BOOLEAN : SweepEnds(f)) \/ sweep' = [sweep EXCEPT !.pc = "control"])
        BY <1>1, <2>3 DEF SweepSession, SweepRecord
    <3>2. QED  BY <1>1, <2>1, <3>1 DEF SweepRecord
  <2>4. CASE SweepControl
      BY <2>1, <2>4 DEF SweepControl
  <2>5. CASE SweepRetries
      BY <1>1, <2>5, ScheduleMode DEF SweepRetries, SweepRecord
  <2>6. QED  BY <2>2, <2>3, <2>4, <2>5 DEF Sweep
<1>3. CASE UNCHANGED <<run, known>>
  <2>1. \A q \in Runs : run[q].status \in Terminal /\ owed'[q] = "no" => q \notin open'
      BY <1>1 DEF RunFacts
  <2>2. QED  BY <1>1, <1>2, <1>3, <2>1, PlainRuns DEF WorkBooks
<1>4. CASE \E r \in Runs : SweepRun(r) /\ run' = Gone(r) /\ known' = known \ {r}
  <2>1. PICK r \in Runs : SweepRun(r) /\ run' = Gone(r) /\ known' = known \ {r}
      BY <1>4
  <2>2. r \notin live /\ sweep.pc = "runs"
      BY <2>1 DEF SweepRun, SweepWaits
  <2>3. /\ \A q \in Runs : q # r => run'[q] = run[q]
        /\ run'[r].behind = run[r].behind /\ run'[r].phase = run[r].phase
        /\ run'[r].status = "gone" \/ (run'[r].status = run[r].status /\ run[r].status \in {"absent", "gone"})
      BY <2>1 DEF Gone, TypeOK, RunRecord, Present, Terminal
  <2>4. Stored' = Stored \ {r} /\ Unused' = Unused /\ Unfinished' \subseteq Unfinished
    <3>1. Stored' = Stored \ {r}
        BY <2>3 DEF Stored, Present, Terminal
    <3>2. Unused' = Unused
        BY <2>1, <2>3 DEF Unused, Gone, Present, Terminal, TypeOK
    <3>3. Unfinished' \subseteq Unfinished
        BY <2>1, <2>3 DEF Unfinished, TypeOK
    <3>4. QED  BY <3>1, <3>2, <3>3
  <2>5. RunFacts'
    <3>1. known' \subseteq Stored' /\ live' \subseteq known'
        BY <1>1, <2>1, <2>2, <2>4 DEF RunFacts
    <3>2. \A q \in Runs :
            /\ run'[q].behind < q
            /\ run'[q].status \in {"queued", "absent"} => run'[q].phase = "none"
            /\ run'[q].status \in Terminal /\ owed'[q] = "no" => q \notin open'
            /\ q \in open' => run'[q].status \in Terminal \union {"running", "gone"}
        BY <1>1, <2>3 DEF RunFacts, Terminal
    <3>3. \A q, p \in Runs : run'[q].status = "absent" /\ q < p => run'[p].status = "absent"
      <4>1. \A q \in Runs : run'[q].status = "absent" <=> run[q].status = "absent"
          BY <2>4 DEF Unused
      <4>2. QED  BY <4>1 DEF RunFacts
    <3>4. QED  BY <3>1, <3>2, <3>3 DEF RunFacts
  <2>6. op.pc # "start"
    <3>1. sweep.mode = "tombstone" => control = "deleted"
        BY <2>2 DEF OwnedBooks, SweepBooks
    <3>2. sweep.mode # "tombstone" => doomed
        BY <2>2 DEF DeletionBooks
    <3>3. QED  BY <3>1, <3>2 DEF DeletionBooks, Settled
  <2>7. Live' => \/ \A q \in Runs : run'[q].status = "running" => q \in live'
                 \/ control' = "deleted" /\ known' = {}
      BY <1>1, <2>1, <2>3 DEF WorkBooks
  <2>8. WorkBooks'
      BY <1>1, <1>2, <2>4, <2>6, <2>7 DEF WorkBooks, Live
  <2>9. QED  BY <2>5, <2>8
<1>5. QED  BY <1>3, <1>4 DEF Sweep, SweepLists, SweepRun, SweepSession, SweepControl, SweepRetries, diskVars

LEMMA RecoveryRuns ==
    ASSUME RunInv, Crash \/ Recovery
    PROVE  RunFacts' /\ WorkBooks'
<1> USE DEF RunInv, OwnedInv, ConversationInv
<1>1. CASE Crash
  <2>1. /\ known' = {} /\ live' = {} /\ open' = {} /\ UNCHANGED run /\ proc' = "down"
        /\ sweep' = NoSweep /\ op' = NoOp
      BY <1>1 DEF Crash
  <2>2. RunFacts'
      BY <2>1 DEF RunFacts
  <2>3. WorkBooks'
      BY <2>1 DEF WorkBooks, NoSweep, NoOp, Live
  <2>4. QED  BY <2>2, <2>3
<1>2. CASE RecoverRemains
  <2>1. /\ proc = "down" /\ UNCHANGED <<control, run, known, live, open, owed, op>>
        /\ control = "deleted" \/ Stored = {}
      BY <1>2 DEF RecoverRemains, RecoverKeeps, diskVars, tailVars
  <2>2. known = {} /\ op.pc = "idle"
      BY <2>1 DEF WorkBooks, OwnedBooks, DownBooks
  <2>3. RunFacts'
      BY <2>1 DEF RunFacts, Stored
  <2>4. \A r \in Runs : Stored = {} => run[r].status # "running"
      BY DEF Stored, Present
  <2>5. Unfinished' = {}
      BY <2>1, <2>2 DEF Unfinished
  <2>6. WorkBooks'
      BY <2>1, <2>2, <2>4, <2>5 DEF WorkBooks
  <2>7. QED  BY <2>3, <2>6
<1>3. CASE RecoverRuns
  <2>1. /\ proc = "down" /\ proc' # "down" /\ control = "live" /\ run' = Recovered /\ known' = Stored
        /\ UNCHANGED <<control, live, open, owed, op, sweep>>
      BY <1>3 DEF RecoverRuns, RecoverKeeps, tailVars, sweepVars
  <2>2. live = {} /\ open = {} /\ op.pc = "idle" /\ sweep.pc = "off"
      BY <2>1 DEF OwnedBooks, DownBooks, NoSweep
  <2>3. \A r \in Runs : /\ run'[r].behind = run[r].behind /\ run'[r].phase = run[r].phase
                        /\ run'[r].status = run[r].status
                           \/ (run[r].status = "running" /\ run'[r].status = "failed")
                        /\ run'[r].status # "running"
      BY <2>1 DEF Recovered, TypeOK, RunRecord
  <2>4. Stored' = Stored
      BY <2>3 DEF Stored, Present, Terminal
  <2>5. RunFacts'
    <3>1. \A q, p \in Runs : run'[q].status = "absent" /\ q < p => run'[p].status = "absent"
      <4>1. \A q \in Runs : run'[q].status = "absent" <=> run[q].status = "absent"
          BY <2>3
      <4>2. QED  BY <4>1 DEF RunFacts
    <3>2. \A q \in Runs :
            /\ run'[q].behind < q
            /\ run'[q].status \in {"queued", "absent"} => run'[q].phase = "none"
        BY <2>3 DEF RunFacts
    <3>3. QED  BY <2>1, <2>2, <2>4, <3>1, <3>2 DEF RunFacts
  <2>6. WorkBooks'
      BY <2>1, <2>2, <2>3 DEF WorkBooks
  <2>7. QED  BY <2>5, <2>6
<1>4. CASE RecoveryEnds
  <2>1. Live /\ UNCHANGED <<control, run, known, live, open, owed, sweep, op>> /\ proc' = "live"
      BY <1>4 DEF RecoveryEnds, RecoverKeeps, diskVars, sweepVars, tailVars, Live
  <2>2. RunFacts'
      BY <2>1 DEF RunFacts, Stored
  <2>3. WorkBooks'
      BY <2>1 DEF WorkBooks, Unused, Unfinished, Live
  <2>4. QED  BY <2>2, <2>3
<1>5. QED  BY <1>1, <1>2, <1>3, <1>4 DEF Recovery

LEMMA StepRuns ==
    ASSUME RunInv, Next
    PROVE  RunInv'
<1>1. OwnedInv'
    BY StepOwned DEF RunInv
<1>2. CASE Delete \/ Rollback \/ \E key \in Submissions : Submit(key)
  <2>1. PICK kind \in {"submit", "delete", "rollback"}, key \in Nat : Begins(kind, key)
    <3>1. Submissions \subseteq Nat
        BY DEF Submissions
    <3>2. QED  BY <1>2, <3>1 DEF Delete, Rollback, Submit
  <2>2. QED  BY <1>1, <2>1, PlainOperationsRuns DEF RunInv
<1>3. CASE Operation
    BY <1>1, <1>3, PlainOperationsRuns, StoresRuns, StartsAndCancelsRuns DEF Operation, RunInv
<1>4. CASE Pump \/ Sweep \/ Crash \/ Recovery
    BY <1>1, <1>4, PumpRuns, SweepRuns, RecoveryRuns DEF RunInv
<1>5. CASE \E r \in Runs : Cancel(r) \/ Execution(r) \/ CleanupFinalizes(r)
    BY <1>1, <1>5, TailRuns DEF RunInv
<1>6. QED  BY <1>2, <1>3, <1>4, <1>5 DEF Next

-----------------------------------------------------------------------------
(* What is visible, as a function of a branch and of documents, so that the *)
(* same can be said of two states.                                          *)

Entered(b, d) == {r \in b : d[r].phase = "entered"}

LooseIn(B, d) == {r \in Runs \ B : Pends(d, r)}

Linked(last, L, d) ==
    {r \in L : \A C \in SUBSET L : (\A q \in L : d[q].behind \in {last} \union C => q \in C) => r \in C}

Tail(b, d) == Linked(Greatest(Entered(b, d)), LooseIn(Entered(b, d), d), d)

Seen(b, d) == Entered(b, d) \union Tail(b, d)

LEMMA SeenIs ==
    /\ Visible(Documents) = Seen(branch, Documents) /\ OnBranch(Documents) = Entered(branch, Documents)
    /\ Visible(pump.view) = Seen(branch, pump.view) /\ OnBranch(pump.view) = Entered(branch, pump.view)
    /\ Chain(Documents) = Tail(branch, Documents) /\ Chain(pump.view) = Tail(branch, pump.view)
BY DEF Visible, OnBranch, Chain, ChainClosed, Loose, Seen, Entered, Tail, Linked, LooseIn

LEMMA SeenWillBe ==
    /\ Visible(Documents)' = Seen(branch', Documents') /\ OnBranch(Documents)' = Entered(branch', Documents')
    /\ Visible(pump.view)' = Seen(branch', pump'.view) /\ OnBranch(pump.view)' = Entered(branch', pump'.view)
    /\ Chain(Documents)' = Tail(branch', Documents') /\ Chain(pump.view)' = Tail(branch', pump'.view)
BY DEF Visible, OnBranch, Chain, ChainClosed, Loose, Seen, Entered, Tail, Linked, LooseIn

\* What is linked to a linked run is linked.
LEMMA LinkedCloses ==
    ASSUME NEW last, NEW L, NEW d, NEW q \in L, d[q].behind \in {last} \union Linked(last, L, d)
    PROVE  q \in Linked(last, L, d)
<1>1. SUFFICES ASSUME NEW C \in SUBSET L, \A p \in L : d[p].behind \in {last} \union C => p \in C
               PROVE  q \in C
    BY DEF Linked
<1>2. Linked(last, L, d) \subseteq C
    BY <1>1 DEF Linked
<1>3. QED  BY <1>1, <1>2

\* Up to some run, two documents that agree on the linked runs of one link the same.
LEMMA LinkedAgree ==
    ASSUME NEW last, NEW n \in Nat, NEW K \in SUBSET Runs, NEW L \in SUBSET Runs, NEW d, NEW e,
           \A q \in K : d[q].behind \in Nat /\ d[q].behind < q,
           \A q \in Linked(last, K, d) : q <= n => q \in L /\ e[q].behind = d[q].behind,
           NEW r \in Linked(last, K, d), r <= n
    PROVE  r \in Linked(last, L, e)
<1> DEFINE C == {q \in K : q \in Linked(last, K, d) /\ (q <= n => q \in Linked(last, L, e))}
<1>1. \A q \in K : d[q].behind \in {last} \union C => q \in C
  <2>1. SUFFICES ASSUME NEW q \in K, d[q].behind \in {last} \union C PROVE q \in C
      OBVIOUS
  <2>2. q \in Linked(last, K, d)
    <3>1. d[q].behind \in {last} \union Linked(last, K, d)
        BY <2>1
    <3>2. QED  BY <3>1, LinkedCloses
  <2>3. ASSUME q <= n PROVE q \in Linked(last, L, e)
    <3>1. q \in L /\ e[q].behind = d[q].behind
        BY <2>2, <2>3
    <3>2. d[q].behind <= n
        BY <2>3 DEF Runs
    <3>3. e[q].behind \in {last} \union Linked(last, L, e)
        BY <2>1, <3>1, <3>2
    <3>4. QED  BY <3>1, <3>3, LinkedCloses
  <2>4. QED  BY <2>2, <2>3
<1>2. r \in C
    BY <1>1 DEF Linked
<1>3. QED  BY <1>2

\* What follows the branch is behind it.
LEMMA LinkedAbove ==
    ASSUME NEW last \in Nat, NEW K \in SUBSET Runs, NEW d,
           \A q \in K : d[q].behind \in Nat /\ d[q].behind < q,
           NEW r \in Linked(last, K, d)
    PROVE  last < r
<1> DEFINE C == {q \in K : last < q}
<1>1. \A q \in K : d[q].behind \in {last} \union C => q \in C
    BY DEF Runs
<1>2. r \in C
    BY <1>1 DEF Linked
<1>3. QED  BY <1>2

\* The branch is visible, and before everything else that is.
LEMMA BranchFirst ==
    ASSUME NEW b \in SUBSET Runs, NEW d, \A q \in Runs : d[q].behind \in Nat /\ d[q].behind < q
    PROVE  /\ Entered(b, d) \in SUBSET Runs /\ LooseIn(Entered(b, d), d) \in SUBSET Runs
           /\ Greatest(Entered(b, d)) \in Nat
           /\ Seen(b, d) \in SUBSET Runs
           /\ \A q \in Entered(b, d), r \in Seen(b, d) \ Entered(b, d) : q < r
           /\ \A r \in Tail(b, d) : r \in LooseIn(Entered(b, d), d) /\ Greatest(Entered(b, d)) < r
<1>1. Entered(b, d) \in SUBSET Runs /\ LooseIn(Entered(b, d), d) \in SUBSET Runs
    BY DEF Entered, LooseIn
<1>2. /\ Greatest(Entered(b, d)) \in Nat
      /\ \A q \in Entered(b, d) : q <= Greatest(Entered(b, d))
    BY <1>1, GreatestRun, BoundsAssumption
<1>3. \A r \in Tail(b, d) : r \in LooseIn(Entered(b, d), d)
    BY DEF Tail, Linked
<1>4. \A r \in Tail(b, d) : Greatest(Entered(b, d)) < r
    BY <1>1, <1>2, LinkedAbove DEF Tail
<1>5. \A q \in Entered(b, d), r \in Seen(b, d) \ Entered(b, d) : q < r
  <2>1. SUFFICES ASSUME NEW q \in Entered(b, d), NEW r \in Seen(b, d) \ Entered(b, d) PROVE q < r
      OBVIOUS
  <2>2. r \in Tail(b, d)
      BY DEF Seen
  <2>3. q \in Nat /\ r \in Nat
      BY <1>1, <1>3, <2>2 DEF Runs
  <2>4. q <= Greatest(Entered(b, d)) /\ Greatest(Entered(b, d)) < r
      BY <1>2, <1>4, <2>2
  <2>5. QED  BY <1>2, <2>3, <2>4
<1>6. QED  BY <1>1, <1>2, <1>3, <1>4, <1>5 DEF Seen

\* Two documents over the same entries, one with no more that is visible than the other.
LEMMA SeenWithin ==
    ASSUME NEW b \in SUBSET Runs, NEW c \in SUBSET Runs, NEW d, NEW e, NEW n \in Nat,
           \A q \in Runs : d[q].behind \in Nat /\ d[q].behind < q,
           Entered(b, d) = Entered(c, e),
           \A q \in Tail(b, d) : q <= n => Pends(e, q) /\ e[q].behind = d[q].behind,
           NEW r \in Seen(b, d), r <= n
    PROVE  r \in Seen(c, e)
<1> DEFINE K == LooseIn(Entered(b, d), d)
           L == LooseIn(Entered(c, e), e)
           last == Greatest(Entered(b, d))
<1>1. K \in SUBSET Runs /\ L \in SUBSET Runs
    BY DEF LooseIn
<1>2. r \in Linked(last, K, d) => r \in Linked(last, L, e)
  <2>1. \A q \in K : d[q].behind \in Nat /\ d[q].behind < q
      BY <1>1
  <2>2. \A q \in Linked(last, K, d) : q <= n => q \in L /\ e[q].behind = d[q].behind
    <3>1. \A q \in Linked(last, K, d) : q \in Tail(b, d) /\ q \in Runs \ Entered(b, d)
        BY DEF Tail, Linked, LooseIn
    <3>2. QED  BY <3>1 DEF LooseIn
  <2> HIDE DEF K, L, last
  <2>3. QED  BY <1>1, <2>1, <2>2, LinkedAgree
<1>3. QED  BY <1>2 DEF Seen, Tail

-----------------------------------------------------------------------------
(* The order of the turns.  A run is busy while it has the Session, unless  *)
(* it is hidden; one run is busy at a time, before all that wait; and a     *)
(* candidate that the pump has claimed is still next when it is started,    *)
(* if the view with which it was claimed says so.                           *)

Busy(r) ==
    \/ run[r].status = "running"
    \/ run[r].status \in Terminal /\ r \in open /\ run[r].phase # "started"

NoneBusy == \A r \in Runs : ~Busy(r)

Held == {r \in known : run[r].status = "queued"}

\* The conversation goes on: it is neither deleted nor taken back, or a run still waits.
Serving == Live /\ ((control = "live" /\ ~doomed) \/ Held # {})

QueueBooks ==
    /\ \A r \in live \union open : run[r].phase = "entered" => r \in branch
    /\ \A r, q \in Runs : Busy(r) /\ Busy(q) => r = q
    /\ Serving => \A q \in Runs : Busy(q) =>
                      /\ q \in known /\ q \in Visible(Documents)
                      /\ \A r \in Held \intersect Visible(Documents) : q < r
    /\ op.pc = "store" /\ op.after = 0 => Visible(Documents) = {} /\ NoneBusy
    /\ op.pc = "start" /\ op.run \in Held => Visible(Documents) \subseteq {op.run} /\ NoneBusy

\* In the documents d the candidate c is visible, and what is before it has ended.
Claimable(d, c) ==
    /\ c \in Visible(d)
    /\ \A r \in Visible(d) : r < c => d[r].status \in Terminal

\* The documents d were read when c was claimed.
ViewAges(d, c) ==
    /\ \A r \in Runs : d[r].status # "absent" =>
           /\ r \in known /\ d[r].behind = run[r].behind /\ d[r].status # "gone"
           /\ d[r].phase = "entered" => run[r].phase = "entered"
           /\ d[r].status \in Terminal => run[r] = d[r]
           /\ run[r].status = "queued" => d[r].status = "queued"
    /\ \A r \in Runs : d[r].status = "absent" => d[r].phase = "none" /\ d[r].behind = 0
    /\ \A r \in known : r <= c => d[r].status # "absent"

BranchGrows(d, c) ==
    /\ \A r \in OnBranch(Documents) \ OnBranch(d) : \A q \in OnBranch(d) : q < r
    /\ Claimable(d, c) =>
           /\ \A q \in Runs : Busy(q) => q \in Visible(d) /\ q < c /\ d[q].status \in Terminal
           /\ OnBranch(Documents) = OnBranch(d)

ClaimBooks ==
    pump.pc = "claimed" /\ pump.cand \in Held =>
        ViewAges(pump.view, pump.cand) /\ BranchGrows(pump.view, pump.cand)

OrderInv == RunInv /\ QueueBooks /\ ClaimBooks

LEMMA InitOrder == Init => OrderInv
<1> SUFFICES ASSUME Init PROVE OrderInv
    OBVIOUS
<1>1. /\ live = {} /\ open = {} /\ known = {} /\ op.pc = "idle" /\ pump.pc = "idle"
      /\ \A r \in Runs : run[r].status = "absent"
    BY DEF Init, NoOp, NoPump, NoView, Absent
<1>2. NoneBusy
    BY <1>1 DEF NoneBusy, Busy, Terminal
<1>3. QueueBooks /\ ClaimBooks
    BY <1>1, <1>2 DEF QueueBooks, ClaimBooks, NoneBusy
<1>4. RunInv
    BY InitConversation, InitOwned, InitRuns DEF RunInv, OwnedInv
<1>5. QED  BY <1>3, <1>4 DEF OrderInv

\* The documents, of any state.
LEMMA DocumentsAre ==
    ASSUME NEW k \in SUBSET Runs, NEW s \in [Runs -> RunRecord],
           \A r \in Runs : s[r].behind < r, NEW d, d = [r \in Runs |-> IF r \in k THEN s[r] ELSE Absent]
    PROVE  /\ \A q \in Runs : d[q].behind \in Nat /\ d[q].behind < q
           /\ \A q \in Runs : d[q].phase = "entered" <=> q \in k /\ s[q].phase = "entered"
           /\ \A q \in Runs : Pends(d, q) <=>
                  /\ q \in k
                  /\ \/ s[q].status \in {"queued", "running"}
                     \/ s[q].status \in Terminal /\ s[q].phase = "none"
           /\ \A q \in k : d[q] = s[q]
<1>1. \A q \in k : d[q] = s[q]
    OBVIOUS
<1>2. \A q \in Runs \ k : d[q] = Absent
    OBVIOUS
<1>3. \A q \in Runs : s[q].behind \in Nat
    BY BoundsAssumption DEF RunRecord
<1>4. \A q \in Runs : q > 0
    BY DEF Runs
<1>5. \A q \in Runs : d[q].behind \in Nat /\ d[q].behind < q
    BY <1>1, <1>2, <1>3, <1>4 DEF Absent
<1>6. \A q \in Runs : d[q].phase = "entered" <=> q \in k /\ s[q].phase = "entered"
    BY <1>1, <1>2 DEF Absent
<1>7. \A q \in Runs : Pends(d, q) <=>
          /\ q \in k
          /\ \/ s[q].status \in {"queued", "running"}
             \/ s[q].status \in Terminal /\ s[q].phase = "none"
    BY <1>1, <1>2 DEF Absent, Pends, Terminal
<1>8. QED  BY <1>1, <1>5, <1>6, <1>7

\* The documents before and after a step.
LEMMA DocumentsNow ==
    ASSUME RunInv, NEW d, d = Documents
    PROVE  /\ \A q \in Runs : d[q].behind \in Nat /\ d[q].behind < q
           /\ \A q \in Runs : d[q].phase = "entered" <=> q \in known /\ run[q].phase = "entered"
           /\ \A q \in Runs : Pends(d, q) <=>
                  /\ q \in known
                  /\ \/ run[q].status \in {"queued", "running"}
                     \/ run[q].status \in Terminal /\ run[q].phase = "none"
           /\ \A q \in known : d[q] = run[q]
<1>1. known \in SUBSET Runs /\ run \in [Runs -> RunRecord] /\ \A r \in Runs : run[r].behind < r
    BY DEF RunInv, OwnedInv, ConversationInv, TypeOK, RunFacts
<1>2. d = [r \in Runs |-> IF r \in known THEN run[r] ELSE Absent]
    BY DEF Documents
<1>3. QED  BY <1>1, <1>2, DocumentsAre

LEMMA DocumentsThen ==
    ASSUME RunInv', NEW d, d = Documents'
    PROVE  /\ \A q \in Runs : d[q].behind \in Nat /\ d[q].behind < q
           /\ \A q \in Runs : d[q].phase = "entered" <=> q \in known' /\ run'[q].phase = "entered"
           /\ \A q \in Runs : Pends(d, q) <=>
                  /\ q \in known'
                  /\ \/ run'[q].status \in {"queued", "running"}
                     \/ run'[q].status \in Terminal /\ run'[q].phase = "none"
           /\ \A q \in known' : d[q] = run'[q]
<1>1. known' \in SUBSET Runs /\ run' \in [Runs -> RunRecord] /\ \A r \in Runs : run'[r].behind < r
    BY DEF RunInv, OwnedInv, ConversationInv, TypeOK, RunFacts
<1>2. d = [r \in Runs |-> IF r \in known' THEN run'[r] ELSE Absent]
    BY DEF Documents
<1>3. QED  BY <1>1, <1>2, DocumentsAre

-----------------------------------------------------------------------------
(* The order is kept, one kind of step after the other. *)

\* What is claimed can be said of two states.
LEMMA ClaimableIs ==
    ASSUME NEW d, NEW c
    PROVE  /\ Claimable(d, c) <=>
                  /\ c \in Seen(branch, d)
                  /\ \A r \in Seen(branch, d) : r < c => d[r].status \in Terminal
           /\ Claimable(pump.view, pump.cand)' <=>
                  /\ pump'.cand \in Seen(branch', pump'.view)
                  /\ \A r \in Seen(branch', pump'.view) : r < pump'.cand => pump'.view[r].status \in Terminal
<1>1. Visible(d) = Seen(branch, d)
    BY DEF Visible, OnBranch, Chain, ChainClosed, Loose, Seen, Entered, Tail, Linked, LooseIn
<1>2. QED  BY <1>1, SeenWillBe DEF Claimable

\* The conversation does not go on: nothing waits that is held.
LEMMA NothingWaits ==
    ASSUME OrderInv, Held' = {}, ~Serving', op'.pc \notin {"store", "start"},
           \A r \in live' \union open' : run'[r].phase = "entered" => r \in branch',
           \A r, q \in Runs : Busy(r)' /\ Busy(q)' => r = q
    PROVE  QueueBooks' /\ ClaimBooks'
<1>1. QueueBooks'
    BY DEF QueueBooks
<1>2. ClaimBooks'
    BY DEF ClaimBooks
<1>3. QED  BY <1>1, <1>2

\* A step after which a run is as before, has ended, has started its Session, or is unknown.
Calm ==
    /\ Live /\ UNCHANGED <<branch, known, proc>> /\ live' \subseteq live /\ open' \subseteq open
    /\ \A r \in Runs :
          /\ run'[r].behind = run[r].behind \/ r \notin known
          /\ \/ run'[r] = run[r]
             \/ /\ run[r].status \in {"queued", "running"} /\ run'[r].status \in Terminal
                /\ run'[r].phase = run[r].phase
             \/ /\ run[r].status = "running" /\ run'[r].status = "running"
                /\ run[r].phase = "none" /\ run'[r].phase = "started"
             \/ r \notin known /\ run'[r].status = "queued" /\ run'[r].phase = "none"

LEMMA CalmSees ==
    ASSUME OrderInv, RunInv', Calm
    PROVE  /\ \A r \in Runs : Busy(r)' => Busy(r)
           /\ Held' \subseteq Held
           /\ OnBranch(Documents)' = OnBranch(Documents)
           /\ Visible(Documents)' \subseteq Visible(Documents)
<1> USE DEF OrderInv, RunInv, OwnedInv, ConversationInv
<1> DEFINE d == Documents
           e == Documents'
<1>1. /\ \A q \in Runs : d[q].behind \in Nat /\ d[q].behind < q
      /\ \A q \in Runs : d[q].phase = "entered" <=> q \in known /\ run[q].phase = "entered"
      /\ \A q \in Runs : Pends(d, q) <=>
             /\ q \in known
             /\ \/ run[q].status \in {"queued", "running"}
                \/ run[q].status \in Terminal /\ run[q].phase = "none"
      /\ \A q \in known : d[q] = run[q]
    BY DocumentsNow
<1>2. /\ \A q \in Runs : e[q].behind \in Nat /\ e[q].behind < q
      /\ \A q \in Runs : e[q].phase = "entered" <=> q \in known' /\ run'[q].phase = "entered"
      /\ \A q \in Runs : Pends(e, q) <=>
             /\ q \in known'
             /\ \/ run'[q].status \in {"queued", "running"}
                \/ run'[q].status \in Terminal /\ run'[q].phase = "none"
      /\ \A q \in known' : e[q] = run'[q]
    BY DocumentsThen
<1> HIDE DEF d, e
<1>3. /\ branch \in SUBSET Runs /\ known \in SUBSET Runs /\ branch' = branch /\ known' = known
      /\ MaxRun \in Nat /\ \A r \in Runs : r \in Nat /\ r <= MaxRun
    BY BoundsAssumption DEF TypeOK, Calm, Runs
<1>4. \A r \in Runs : Busy(r)' => Busy(r)
  <2>1. SUFFICES ASSUME NEW r \in Runs, Busy(r)' PROVE Busy(r)
      OBVIOUS
  <2>2. r \in open => run[r].status \in Terminal \union {"running", "gone"}
      BY DEF RunFacts
  <2>3. run'[r].status # "queued" /\ (run'[r].status = "running" \/ (run'[r].status \in Terminal /\ r \in open))
      BY <2>1 DEF Busy, Calm, Terminal
  <2>4. CASE run'[r] = run[r]
      BY <2>1, <2>4 DEF Busy, Calm
  <2>5. CASE run'[r] # run[r]
      BY <2>2, <2>3, <2>5 DEF Busy, Calm, Terminal
  <2>6. QED  BY <2>4, <2>5
<1>5. Held' \subseteq Held
    BY <1>3 DEF Held, Calm, Terminal
<1>6. Entered(branch', e) = Entered(branch, d)
    BY <1>1, <1>2, <1>3 DEF Entered, Calm
<1>7. \A q \in Runs : Pends(e, q) => Pends(d, q) /\ d[q].behind = e[q].behind
  <2>1. SUFFICES ASSUME NEW q \in Runs, Pends(e, q) PROVE Pends(d, q) /\ d[q].behind = e[q].behind
      OBVIOUS
  <2>2. q \in known
      BY <1>2, <1>3, <2>1
  <2>3. d[q].behind = e[q].behind
      BY <1>1, <1>2, <1>3, <2>2 DEF Calm
  <2>4. run[q].status \in {"queued", "running"} \/ (run[q].status \in Terminal /\ run[q].phase = "none")
    <3>1. run'[q].status \in {"queued", "running"} \/ (run'[q].status \in Terminal /\ run'[q].phase = "none")
        BY <1>2, <2>1
    <3>2. QED  BY <2>2, <3>1 DEF Calm, Terminal
  <2>5. QED  BY <1>1, <2>2, <2>3, <2>4
<1>8. Seen(branch', e) \subseteq Seen(branch, d)
  <2>1. SUFFICES ASSUME NEW r \in Seen(branch', e) PROVE r \in Seen(branch, d)
      OBVIOUS
  <2>2. r \in Runs /\ Tail(branch', e) \subseteq LooseIn(Entered(branch', e), e)
      BY <1>2, <1>3, BranchFirst
  <2>3. \A q \in Tail(branch', e) : Pends(d, q) /\ d[q].behind = e[q].behind
      BY <1>7, <2>2 DEF LooseIn
  <2>4. QED  BY <1>2, <1>3, <1>6, <2>2, <2>3, SeenWithin
<1>9. QED  BY <1>4, <1>5, <1>6, <1>8, SeenIs, SeenWillBe DEF d, e

\* A claim that goes on, and one that is new.
ClaimGoesOn == pump.pc = "claimed" /\ pump'.view = pump.view /\ pump'.cand = pump.cand

ClaimIsNew == pump'.view = Documents /\ pump'.cand \in known /\ UNCHANGED run

LEMMA CalmClaim ==
    ASSUME OrderInv, RunInv', Calm, pump'.pc = "claimed" => ClaimGoesOn \/ ClaimIsNew
    PROVE  ClaimBooks'
<1> USE DEF OrderInv, RunInv, OwnedInv, ConversationInv
<1> SUFFICES ASSUME pump'.pc = "claimed", pump'.cand \in Held'
             PROVE  ViewAges(pump.view, pump.cand)' /\ BranchGrows(pump.view, pump.cand)'
    BY DEF ClaimBooks
<1>1. /\ \A r \in Runs : Busy(r)' => Busy(r)
      /\ pump'.cand \in Held
      /\ OnBranch(Documents)' = OnBranch(Documents)
      /\ branch' = branch /\ known' = known
    BY CalmSees DEF Calm
<1>2. CASE ClaimGoesOn
  <2>1. ViewAges(pump.view, pump.cand) /\ BranchGrows(pump.view, pump.cand)
      BY <1>1, <1>2 DEF ClaimGoesOn, ClaimBooks
  <2>2. ViewAges(pump.view, pump.cand)'
      BY <1>1, <1>2, <2>1 DEF ClaimGoesOn, ViewAges, Calm, Terminal
  <2>3. OnBranch(pump.view)' = OnBranch(pump.view) /\ Visible(pump.view)' = Visible(pump.view)
      BY <1>1, <1>2, SeenIs, SeenWillBe DEF ClaimGoesOn
  <2>4. Claimable(pump.view, pump.cand)' => Claimable(pump.view, pump.cand)
      BY <1>2, <2>3 DEF ClaimGoesOn, Claimable
  <2>5. BranchGrows(pump.view, pump.cand)'
      BY <1>1, <1>2, <2>1, <2>3, <2>4 DEF ClaimGoesOn, BranchGrows
  <2>6. QED  BY <2>2, <2>5
<1>3. CASE ClaimIsNew
  <2>1. /\ pump'.view = Documents /\ run' = run /\ Documents' = Documents /\ Serving
        /\ pump'.cand \in Runs
      BY <1>1, <1>3 DEF ClaimIsNew, Documents, Serving, Calm, TypeOK
  <2>2. \A r \in Runs : /\ r \in known => Documents[r] = run[r] /\ run[r].status \in Present
                        /\ r \notin known => Documents[r] = Absent
      BY DEF Documents, RunFacts, Stored
  <2>3. ViewAges(pump.view, pump.cand)'
    <3>1. \A r \in Runs : Documents[r].status # "absent" => r \in known
        BY <2>2 DEF Absent
    <3>2. QED  BY <1>1, <2>1, <2>2, <3>1 DEF ViewAges, Absent, Present, Terminal, TypeOK
  <2>4. OnBranch(pump.view)' = OnBranch(Documents) /\ Visible(pump.view)' = Visible(Documents)
      BY <1>1, <2>1, SeenIs, SeenWillBe
  <2>5. ASSUME Claimable(pump.view, pump.cand)', NEW q \in Runs, Busy(q)'
        PROVE  q \in Visible(pump.view)' /\ q < pump'.cand /\ pump'.view[q].status \in Terminal
    <3>1. Busy(q) /\ q \in Visible(Documents) /\ pump'.cand \in Visible(Documents)
        BY <1>1, <2>1, <2>4, <2>5 DEF QueueBooks, Claimable
    <3>2. q < pump'.cand
        BY <1>1, <2>1, <3>1 DEF QueueBooks
    <3>3. QED  BY <2>1, <2>4, <2>5, <3>1, <3>2 DEF Claimable
  <2>6. BranchGrows(pump.view, pump.cand)'
      BY <1>1, <2>4, <2>5 DEF BranchGrows
  <2>7. QED  BY <2>3, <2>6
<1>4. QED  BY <1>2, <1>3

LEMMA CalmOrder ==
    ASSUME OrderInv, RunInv', Calm,
           pump'.pc = "claimed" => ClaimGoesOn \/ ClaimIsNew,
           control' = "live" /\ ~doomed' => (control = "live" /\ ~doomed) \/ NoneBusy,
           op'.pc = "store" /\ op'.after = 0 =>
               \/ op.pc = "store" /\ op.after = 0
               \/ Visible(Documents) = {} /\ NoneBusy,
           op'.pc = "start" => op.pc = "start" /\ op'.run = op.run
    PROVE  OrderInv'
<1> USE DEF OrderInv, RunInv, OwnedInv, ConversationInv
<1>1. /\ \A r \in Runs : Busy(r)' => Busy(r)
      /\ Held' \subseteq Held
      /\ OnBranch(Documents)' = OnBranch(Documents)
      /\ Visible(Documents)' \subseteq Visible(Documents)
      /\ branch' = branch /\ known' = known /\ proc' = proc
    BY CalmSees DEF Calm
<1>2. \A r \in live' \union open' : run'[r].phase = "entered" => r \in branch'
  <2>1. live \subseteq Runs /\ open \subseteq Runs
      BY DEF TypeOK
  <2>2. QED
      BY <1>1, <2>1 DEF QueueBooks, Calm, RunFacts, Terminal
<1>3. Serving' => Serving \/ NoneBusy
    BY <1>1 DEF Serving, Live
<1>4. ASSUME Serving', NEW q \in Runs, Busy(q)'
      PROVE  q \in known' /\ q \in Visible(Documents)'
             /\ \A r \in Held' \intersect Visible(Documents)' : q < r
  <2>1. Serving /\ Busy(q) /\ q \in known /\ q \in Visible(Documents)
        /\ \A r \in Held \intersect Visible(Documents) : q < r
      BY <1>1, <1>3, <1>4 DEF QueueBooks, NoneBusy
  <2> DEFINE d == Documents
             e == Documents'
  <2>2. /\ \A p \in Runs : d[p].behind \in Nat /\ d[p].behind < p
        /\ \A p \in Runs : Pends(d, p) =>
               /\ p \in known
               /\ \/ run[p].status \in {"queued", "running"}
                  \/ run[p].status \in Terminal /\ run[p].phase = "none"
        /\ \A p \in known : d[p] = run[p]
        /\ \A p \in Runs : d[p].phase = "entered" <=> p \in known /\ run[p].phase = "entered"
      BY DocumentsNow
  <2>3. /\ \A p \in Runs : Pends(e, p) <=>
               /\ p \in known'
               /\ \/ run'[p].status \in {"queued", "running"}
                  \/ run'[p].status \in Terminal /\ run'[p].phase = "none"
        /\ \A p \in known' : e[p] = run'[p]
      BY DocumentsThen
  <2> HIDE DEF d, e
  <2>4. Entered(branch, d) = Entered(branch', e)
      BY <1>1, SeenIs, SeenWillBe DEF d, e
  <2>5. branch \in SUBSET Runs /\ q \in Nat /\ known \in SUBSET Runs
      BY DEF TypeOK, Runs
  <2>6. ASSUME NEW p \in Tail(branch, d), p <= q PROVE Pends(e, p) /\ e[p].behind = d[p].behind
    <3>1. p \in LooseIn(Entered(branch, d), d)
        BY <2>2, <2>5, <2>6, BranchFirst
    <3>2. /\ p \in Runs /\ p \in known /\ p \notin Entered(branch, d)
          /\ \/ run[p].status \in {"queued", "running"}
             \/ run[p].status \in Terminal /\ run[p].phase = "none"
        BY <2>2, <3>1 DEF LooseIn
    <3>3. e[p].behind = d[p].behind
        BY <1>1, <2>2, <2>3, <3>2 DEF Calm
    <3>4. CASE run'[p].status \in {"queued", "running"} \/ run'[p].phase = "none"
        BY <1>1, <2>3, <3>2, <3>3, <3>4 DEF Calm, Terminal
    <3>5. CASE run'[p].status \notin {"queued", "running"} /\ run'[p].phase # "none"
      <4>1. /\ run[p].status \in {"queued", "running"} /\ run'[p].status \in Terminal
            /\ run'[p].phase = run[p].phase /\ run[p].phase # "none"
          BY <3>2, <3>5 DEF Calm, Terminal
      <4>2. run[p].status = "running"
          BY <3>2, <4>1 DEF RunFacts
      <4>3. p = q
          BY <2>1, <3>2, <4>2 DEF Busy, QueueBooks
      <4>4. run[p].phase = "entered"
          BY <1>4, <3>2, <4>1, <4>3 DEF Busy, TypeOK, RunRecord, Terminal
      <4>5. p \in live
          BY <3>2, <4>2 DEF WorkBooks, Calm
      <4>6. p \in branch /\ d[p].phase = "entered"
          BY <2>2, <3>2, <4>4, <4>5 DEF QueueBooks
      <4>7. QED  BY <3>2, <4>6 DEF Entered
    <3>6. QED  BY <3>4, <3>5
  <2>7. q \in Seen(branch', e)
    <3>1. q \in Seen(branch, d)
        BY <2>1, SeenIs DEF d
    <3>2. branch' \in SUBSET Runs /\ q <= q
        BY <1>1, <2>5
    <3>3. QED  BY <2>2, <2>4, <2>5, <2>6, <3>1, <3>2, SeenWithin
  <2>8. q \in Visible(Documents)'
      BY <2>7, SeenWillBe DEF e
  <2>9. QED  BY <1>1, <2>1, <2>8
<1>5. QueueBooks'
  <2>1. \A r, q \in Runs : Busy(r)' /\ Busy(q)' => r = q
      BY <1>1 DEF QueueBooks
  <2>2. op'.pc = "store" /\ op'.after = 0 => Visible(Documents)' = {} /\ NoneBusy'
      BY <1>1 DEF QueueBooks, NoneBusy
  <2>3. op'.pc = "start" /\ op'.run \in Held' => Visible(Documents)' \subseteq {op'.run} /\ NoneBusy'
      BY <1>1 DEF QueueBooks, NoneBusy
  <2>4. QED  BY <1>2, <1>4, <2>1, <2>2, <2>3 DEF QueueBooks
<1>6. QED  BY <1>5, CalmClaim

\* The first entry of a run: it comes last on the branch.
LEMMA EntersOrder ==
    ASSUME OrderInv, RunInv', Live, NEW r \in live, run[r].status = "running", run[r].phase = "started",
           run' = [run EXCEPT ![r].phase = "entered"], branch' = branch \union {r},
           UNCHANGED <<known, live, open, proc, control, doomed, op, pump>>
    PROVE  OrderInv'
<1> USE DEF OrderInv, RunInv, OwnedInv, ConversationInv
<1>1. /\ r \in Runs /\ r \in known /\ run \in [Runs -> RunRecord] /\ branch \in SUBSET Runs
      /\ \A q \in Runs : q \in Nat
    BY DEF TypeOK, RunFacts, Runs
<1>2. /\ \A q \in Runs : q # r => run'[q] = run[q]
      /\ run'[r].status = "running" /\ run'[r].phase = "entered" /\ run'[r].behind = run[r].behind
    BY <1>1 DEF RunRecord
<1>3. /\ \A q \in Runs : Busy(q)' <=> Busy(q)
      /\ Held' = Held /\ (Serving' <=> Serving) /\ Busy(r)
    BY <1>1, <1>2 DEF Busy, Held, Serving, Live, Terminal, TypeOK
<1> DEFINE d == Documents
           e == Documents'
<1>4. /\ \A q \in Runs : d[q].behind \in Nat /\ d[q].behind < q
      /\ \A q \in Runs : d[q].phase = "entered" <=> q \in known /\ run[q].phase = "entered"
    BY DocumentsNow
<1>5. /\ \A q \in Runs : e[q].behind \in Nat /\ e[q].behind < q
      /\ \A q \in Runs : e[q].phase = "entered" <=> q \in known' /\ run'[q].phase = "entered"
    BY DocumentsThen
<1> HIDE DEF d, e
<1>6. OnBranch(Documents)' = OnBranch(Documents) \union {r}
  <2>1. Entered(branch', e) = Entered(branch, d) \union {r}
      BY <1>1, <1>2, <1>4, <1>5 DEF Entered
  <2>2. QED  BY <2>1, SeenIs, SeenWillBe DEF d, e
<1>7. \A q \in Held' \intersect Visible(Documents)' : r < q
  <2>1. SUFFICES ASSUME NEW q \in Held', q \in Seen(branch', e) PROVE r < q
      BY SeenWillBe DEF e
  <2>2. q \in Runs /\ run'[q].status = "queued" /\ branch' \in SUBSET Runs
      BY <1>1 DEF Held, TypeOK
  <2>3. q \notin Entered(branch', e)
      BY <1>5, <2>2 DEF Entered, RunFacts
  <2>4. r \in Entered(branch', e)
      BY <1>6, SeenWillBe DEF e
  <2>5. QED  BY <1>5, <2>1, <2>2, <2>3, <2>4, BranchFirst
<1>8. QueueBooks'
  <2>1. \A q \in live' \union open' : run'[q].phase = "entered" => q \in branch'
      BY <1>2 DEF QueueBooks, TypeOK
  <2>2. \A q, p \in Runs : Busy(q)' /\ Busy(p)' => q = p
      BY <1>3 DEF QueueBooks
  <2>3. \A q \in Runs : Busy(q)' => q = r
      BY <1>1, <1>3 DEF QueueBooks
  <2>4. r \in known' /\ r \in Visible(Documents)'
      BY <1>1, <1>6 DEF Visible
  <2>5. Serving' => \A q \in Runs : Busy(q)' =>
            /\ q \in known' /\ q \in Visible(Documents)'
            /\ \A p \in Held' \intersect Visible(Documents)' : q < p
      BY <1>7, <2>3, <2>4
  <2>6. ~ (op'.pc = "store" /\ op'.after = 0) /\ ~ (op'.pc = "start" /\ op'.run \in Held')
      BY <1>1, <1>3 DEF QueueBooks, NoneBusy
  <2>7. QED  BY <2>1, <2>2, <2>5, <2>6 DEF QueueBooks
<1>9. ClaimBooks'
  <2>1. SUFFICES ASSUME pump.pc = "claimed", pump.cand \in Held
                 PROVE  ViewAges(pump.view, pump.cand)' /\ BranchGrows(pump.view, pump.cand)'
      BY <1>3 DEF ClaimBooks
  <2>2. ViewAges(pump.view, pump.cand) /\ BranchGrows(pump.view, pump.cand) /\ Serving
      BY <2>1 DEF ClaimBooks, Serving
  <2>3. ViewAges(pump.view, pump.cand)'
      BY <1>1, <1>2, <2>2 DEF ViewAges, Terminal
  <2>4. OnBranch(pump.view) \subseteq OnBranch(Documents)
    <3>1. SUFFICES ASSUME NEW q \in Entered(branch, pump.view) PROVE q \in Entered(branch, d)
        BY SeenIs DEF d
    <3>2. q \in Runs /\ q \in branch /\ q \in known /\ run[q].phase = "entered"
        BY <1>1, <2>2 DEF Entered, ViewAges
    <3>3. QED  BY <1>4, <3>2 DEF Entered
  <2>5. \A q \in OnBranch(Documents) : q < r
    <3>1. r \in Visible(Documents) /\ r \notin OnBranch(Documents)
      <4>1. r \notin Entered(branch, d)
          BY <1>1, <1>4 DEF Entered
      <4>2. QED  BY <1>1, <1>3, <2>2, <4>1, SeenIs DEF QueueBooks, d
    <3>2. r \in Seen(branch, d) \ Entered(branch, d)
        BY <3>1, SeenIs DEF d
    <3>3. \A q \in Entered(branch, d) : q < r
        BY <1>1, <1>4, <3>2, BranchFirst
    <3>4. QED  BY <3>3, SeenIs DEF d
  <2>6. OnBranch(pump.view)' = OnBranch(pump.view) /\ Visible(pump.view)' = Visible(pump.view)
    <3>1. pump.view[r].phase # "entered"
        BY <1>1, <2>2 DEF ViewAges
    <3>2. Entered(branch', pump.view) = Entered(branch, pump.view)
        BY <3>1 DEF Entered
    <3>3. Tail(branch', pump.view) = Tail(branch, pump.view)
        BY <3>2 DEF Tail
    <3>4. QED  BY <3>2, <3>3, SeenIs, SeenWillBe DEF Seen
  <2>7. ~ Claimable(pump.view, pump.cand)'
    <3>1. Claimable(pump.view, pump.cand)' => Claimable(pump.view, pump.cand)
        BY <2>6 DEF Claimable
    <3>2. Claimable(pump.view, pump.cand) => pump.view[r].status \in Terminal
        BY <1>1, <1>3, <2>2 DEF BranchGrows
    <3>3. pump.view[r].status \in Terminal => run[r].status \in Terminal
        BY <1>1, <2>2 DEF ViewAges, Terminal
    <3>4. QED  BY <3>1, <3>2, <3>3 DEF Terminal
  <2>8. \A q \in OnBranch(Documents)' \ OnBranch(pump.view)' : \A p \in OnBranch(pump.view)' : p < q
      BY <1>6, <2>2, <2>4, <2>5, <2>6 DEF BranchGrows
  <2>9. QED  BY <2>3, <2>7, <2>8 DEF BranchGrows
<1>10. QED  BY <1>8, <1>9

\* What was claimed is still visible.
LEMMA ClaimedVisible ==
    ASSUME RunInv, NEW c \in Held, NEW d, ViewAges(d, c), Claimable(d, c),
           OnBranch(Documents) = OnBranch(d)
    PROVE  c \in Visible(Documents)
<1> USE DEF RunInv, OwnedInv, ConversationInv
<1> DEFINE e == Documents
<1>1. /\ \A q \in Runs : Pends(e, q) <=>
             /\ q \in known
             /\ \/ run[q].status \in {"queued", "running"}
                \/ run[q].status \in Terminal /\ run[q].phase = "none"
      /\ \A q \in known : e[q] = run[q]
    BY DocumentsNow
<1> HIDE DEF e
<1>2. branch \in SUBSET Runs /\ known \in SUBSET Runs /\ c \in Runs /\ \A q \in Runs : q \in Nat /\ 0 < q
    BY DEF TypeOK, Held, Runs
<1>3. \A q \in Runs : d[q].behind \in Nat /\ d[q].behind < q
  <2>1. \A q \in Runs : run[q].behind \in Nat /\ run[q].behind < q
      BY BoundsAssumption DEF TypeOK, RunRecord, RunFacts
  <2>2. QED  BY <1>2, <2>1 DEF ViewAges
<1>4. Entered(branch, d) = Entered(branch, e)
    BY SeenIs DEF Entered, OnBranch, e
<1>5. c \in Seen(branch, d) /\ \A q \in Seen(branch, d) : q < c => d[q].status \in Terminal
    BY ClaimableIs
<1>6. ASSUME NEW q \in Tail(branch, d), q <= c PROVE Pends(e, q) /\ e[q].behind = d[q].behind
  <2>1. q \in Runs /\ Pends(d, q) /\ q \in Seen(branch, d)
      BY <1>2, <1>3, BranchFirst DEF LooseIn, Seen
  <2>2. d[q].status # "absent"
      BY <2>1 DEF Pends, Terminal
  <2>3. q \in known /\ e[q].behind = d[q].behind
      BY <1>1, <2>1, <2>2 DEF ViewAges
  <2>4. CASE q = c
      BY <1>1, <2>1, <2>3, <2>4 DEF Held
  <2>5. CASE q # c
    <3>1. d[q].status \in Terminal
        BY <1>2, <1>5, <1>6, <2>1, <2>5
    <3>2. run[q] = d[q] /\ run[q].phase = "none"
        BY <2>1, <2>2, <3>1 DEF ViewAges, Pends, Terminal
    <3>3. QED  BY <1>1, <2>1, <2>3, <3>1, <3>2
  <2>6. QED  BY <2>4, <2>5
<1>7. c \in Seen(branch, e)
  <2>1. c \in Nat /\ c <= c
      BY <1>2
  <2>2. QED  BY <1>2, <1>3, <1>4, <1>5, <1>6, <2>1, SeenWithin
<1>8. QED  BY <1>7, SeenIs DEF e

\* A run starts that is visible, while none is busy and none that waits is before it.
LEMMA StartsOrder ==
    ASSUME OrderInv, RunInv', Live, NEW r \in Held, Running(r), NoneBusy,
           r \in Visible(Documents), \A q \in Held \intersect Visible(Documents) : r <= q,
           UNCHANGED <<branch, known, proc>>,
           UNCHANGED op \/ op'.pc \notin {"store", "start"},
           pump'.pc = "claimed" => /\ UNCHANGED pump /\ pump.pc = "claimed" /\ pump.cand # r
                                   /\ Visible(Documents) \subseteq {r}
    PROVE  OrderInv'
<1> USE DEF OrderInv, RunInv, OwnedInv, ConversationInv
<1>1. /\ r \in Runs /\ r \in known /\ run \in [Runs -> RunRecord] /\ run[r].status = "queued"
      /\ run[r].phase = "none" /\ \A q \in Runs : q \in Nat
      /\ run' = [run EXCEPT ![r].status = "running"] /\ live' = live \union {r} /\ open' = open \union {r}
    BY DEF TypeOK, RunFacts, Runs, Held, Running
<1>2. /\ \A q \in Runs : q # r => run'[q] = run[q]
      /\ run'[r].status = "running" /\ run'[r].phase = run[r].phase /\ run'[r].behind = run[r].behind
    BY <1>1 DEF RunRecord
<1>3. \A q \in Runs : Busy(q)' => q = r
  <2>1. SUFFICES ASSUME NEW q \in Runs, q # r PROVE ~Busy(q)'
      OBVIOUS
  <2>2. ~Busy(q)
      BY DEF NoneBusy
  <2>3. QED  BY <1>1, <1>2, <2>1, <2>2 DEF Busy
<1>4. Held' = Held \ {r}
    BY <1>1, <1>2 DEF Held, TypeOK
<1> DEFINE d == Documents
           e == Documents'
<1>5. /\ \A q \in Runs : d[q].behind \in Nat /\ d[q].behind < q
      /\ \A q \in Runs : d[q].phase = "entered" <=> q \in known /\ run[q].phase = "entered"
      /\ \A q \in Runs : Pends(d, q) <=>
             /\ q \in known
             /\ \/ run[q].status \in {"queued", "running"}
                \/ run[q].status \in Terminal /\ run[q].phase = "none"
      /\ \A q \in known : d[q] = run[q]
    BY DocumentsNow
<1>6. /\ \A q \in Runs : e[q].behind \in Nat /\ e[q].behind < q
      /\ \A q \in Runs : e[q].phase = "entered" <=> q \in known' /\ run'[q].phase = "entered"
      /\ \A q \in Runs : Pends(e, q) <=>
             /\ q \in known'
             /\ \/ run'[q].status \in {"queued", "running"}
                \/ run'[q].status \in Terminal /\ run'[q].phase = "none"
      /\ \A q \in known' : e[q] = run'[q]
    BY DocumentsThen
<1> HIDE DEF d, e
<1>7. branch \in SUBSET Runs /\ MaxRun \in Nat /\ \A q \in Runs : q <= MaxRun
    BY BoundsAssumption DEF TypeOK, Runs
<1>8. Entered(branch', e) = Entered(branch, d)
    BY <1>1, <1>2, <1>5, <1>6, <1>7 DEF Entered
<1>9. Seen(branch', e) = Seen(branch, d)
  <2>1. \A q \in Runs : Pends(e, q) <=> Pends(d, q)
      BY <1>1, <1>2, <1>5, <1>6
  <2>2. \A q \in Runs : Pends(d, q) => e[q].behind = d[q].behind
    <3>1. \A q \in known : q \in Runs
        BY DEF TypeOK
    <3>2. ASSUME NEW q \in known PROVE e[q].behind = d[q].behind
      <4>1. e[q] = run'[q] /\ d[q] = run[q]
          BY <1>5, <1>6
      <4>2. QED  BY <1>2, <3>1, <4>1
    <3>3. QED  BY <1>5, <3>2
  <2>3. \A q \in Tail(branch, d) : Pends(e, q) /\ e[q].behind = d[q].behind
      BY <1>5, <1>7, <2>1, <2>2, BranchFirst DEF LooseIn
  <2>4. \A q \in Tail(branch', e) : Pends(d, q) /\ d[q].behind = e[q].behind
      BY <1>6, <1>7, <2>1, <2>2, BranchFirst DEF LooseIn
  <2>5. Seen(branch, d) \subseteq Runs /\ Seen(branch', e) \subseteq Runs
      BY <1>5, <1>6, <1>7, BranchFirst
  <2>6. \A q \in Seen(branch, d) : q \in Seen(branch', e)
      BY <1>5, <1>7, <1>8, <2>3, <2>5, SeenWithin
  <2>7. \A q \in Seen(branch', e) : q \in Seen(branch, d)
      BY <1>6, <1>7, <1>8, <2>4, <2>5, SeenWithin
  <2>8. QED  BY <2>6, <2>7
<1>10. OnBranch(Documents)' = OnBranch(Documents) /\ Visible(Documents)' = Visible(Documents)
    BY <1>8, <1>9, SeenIs, SeenWillBe DEF d, e
<1>11. QueueBooks'
  <2>1. \A q \in live' \union open' : run'[q].phase = "entered" => q \in branch'
      BY <1>1, <1>2 DEF QueueBooks, TypeOK
  <2>2. \A q, p \in Runs : Busy(q)' /\ Busy(p)' => q = p
      BY <1>3
  <2>3. \A p \in Held' \intersect Visible(Documents)' : r < p
    <3>1. \A p \in Held : p \in Runs
        BY DEF Held, TypeOK
    <3>2. QED  BY <1>1, <1>4, <1>10, <3>1
  <2>4. Serving' => \A q \in Runs : Busy(q)' =>
            /\ q \in known' /\ q \in Visible(Documents)'
            /\ \A p \in Held' \intersect Visible(Documents)' : q < p
      BY <1>1, <1>3, <1>10, <2>3
  <2>5. ~ (op'.pc = "store" /\ op'.after = 0)
      BY DEF QueueBooks
  <2>6. ~ (op'.pc = "start" /\ op'.run \in Held')
      BY <1>4 DEF QueueBooks
  <2>7. QED  BY <2>1, <2>2, <2>4, <2>5, <2>6 DEF QueueBooks
<1>12. ClaimBooks'
  <2>1. SUFFICES ASSUME pump'.pc = "claimed", pump'.cand \in Held'
                 PROVE  ViewAges(pump.view, pump.cand)' /\ BranchGrows(pump.view, pump.cand)'
      BY DEF ClaimBooks
  <2>2. /\ pump' = pump /\ pump.pc = "claimed" /\ pump.cand # r /\ Visible(Documents) \subseteq {r}
        /\ pump.cand \in Held
      BY <1>4, <2>1
  <2>3. ViewAges(pump.view, pump.cand) /\ BranchGrows(pump.view, pump.cand)
      BY <2>2 DEF ClaimBooks
  <2>4. ViewAges(pump.view, pump.cand)'
      BY <1>1, <1>2, <2>2, <2>3 DEF ViewAges, Terminal
  <2>5. OnBranch(pump.view)' = OnBranch(pump.view) /\ Visible(pump.view)' = Visible(pump.view)
      BY <2>2, SeenIs, SeenWillBe
  <2>6. ~ Claimable(pump.view, pump.cand)'
    <3>1. Claimable(pump.view, pump.cand)' => Claimable(pump.view, pump.cand)
        BY <2>2, <2>5 DEF Claimable
    <3>2. Claimable(pump.view, pump.cand) => pump.cand \in Visible(Documents)
        BY <2>2, <2>3, ClaimedVisible DEF BranchGrows
    <3>3. QED  BY <2>2, <3>1, <3>2
  <2>7. BranchGrows(pump.view, pump.cand)'
      BY <1>10, <2>2, <2>3, <2>5, <2>6 DEF BranchGrows
  <2>8. QED  BY <2>4, <2>7
<1>13. QED  BY <1>11, <1>12

\* What the pump starts: its candidate is visible, none is busy and none that waits is before
\* it, and the run that it is behind is over.
LEMMA PumpChoice ==
    ASSUME OrderInv, pump.pc = "claimed", NextEligible(pump.view) = pump.cand,
           run[pump.cand].status = "queued"
    PROVE  /\ pump.cand \in Held /\ NoneBusy /\ pump.cand \in Visible(Documents)
           /\ \A q \in Held \intersect Visible(Documents) : pump.cand <= q
           /\ ViewAges(pump.view, pump.cand)
<1> USE DEF OrderInv, RunInv, OwnedInv, ConversationInv
<1> DEFINE c == pump.cand
           d == pump.view
           e == Documents
<1>1. /\ c \in Runs /\ c \in known /\ c \in Held /\ c # 0 /\ known \in SUBSET Runs
      /\ branch \in SUBSET Runs /\ \A q \in Runs : q \in Nat /\ 0 < q
    BY DEF DeletionBooks, Held, Runs, TypeOK
<1>2. ViewAges(d, c) /\ BranchGrows(d, c)
    BY <1>1 DEF ClaimBooks
<1>3. /\ c \in Visible(d) /\ \A r \in Visible(d) : r < c => Cleared(d, r)
      /\ \A r \in Visible(d) : d[r].status = "queued" => c <= r
  <2> DEFINE waits == {r \in Visible(d) : d[r].status = "queued"}
  <2>1. Least(waits) = c /\ \A r \in Visible(d) : r < Least(waits) => Cleared(d, r)
      BY <1>1 DEF NextEligible
  <2>2. waits \in SUBSET Runs
      BY Chosen
  <2>3. waits # {}
      BY <1>1, <2>1 DEF Least
  <2> HIDE DEF waits
  <2>4. c \in waits /\ \A r \in waits : c <= r
      BY <2>1, <2>2, <2>3, LeastRun
  <2>5. QED  BY <2>1, <2>4 DEF waits
<1>4. Claimable(d, c)
    BY <1>3 DEF Claimable, Cleared
<1>5. c \in Visible(e)
    BY <1>1, <1>2, <1>4, ClaimedVisible DEF BranchGrows
<1>6. NoneBusy
  <2>1. SUFFICES ASSUME NEW q \in Runs, Busy(q) PROVE FALSE
      BY DEF NoneBusy
  <2>2. q \in Visible(d) /\ q < c /\ d[q].status \in Terminal
      BY <1>2, <1>4, <2>1 DEF BranchGrows
  <2>3. owed[q] = "no" /\ run[q] = d[q]
      BY <1>2, <1>3, <2>2 DEF Cleared, ViewAges, Terminal
  <2>4. q \notin open
      BY <2>2, <2>3 DEF RunFacts
  <2>5. QED  BY <2>1, <2>2, <2>3, <2>4 DEF Busy, Terminal
<1>7. ASSUME NEW q \in Held, q \in Visible(e), q < c PROVE FALSE
  <2>1. q \in Runs /\ q \in known /\ run[q].status = "queued" /\ q <= q
      BY <1>1 DEF Held
  <2> HIDE DEF c, d, e
  <2>2. /\ \A p \in Runs : e[p].behind \in Nat /\ e[p].behind < p
        /\ \A p \in Runs : Pends(e, p) <=>
               /\ p \in known
               /\ \/ run[p].status \in {"queued", "running"}
                  \/ run[p].status \in Terminal /\ run[p].phase = "none"
        /\ \A p \in known : e[p] = run[p]
    <3>1. e = Documents
        BY DEF e
    <3>2. QED  BY <3>1, DocumentsNow
  <2>3. Entered(branch, e) = Entered(branch, d)
    <3>1. OnBranch(e) = OnBranch(d)
        BY <1>2, <1>4 DEF BranchGrows, e
    <3>2. QED  BY <3>1, SeenIs DEF e, d
  <2>4. ASSUME NEW p \in Tail(branch, e), p <= q PROVE Pends(d, p) /\ d[p].behind = e[p].behind
    <3>1. p \in Runs /\ Pends(e, p)
        BY <1>1, <2>2, BranchFirst DEF LooseIn
    <3>2. /\ p \in known /\ p <= c /\ ~Busy(p) /\ e[p] = run[p]
          /\ \/ run[p].status \in {"queued", "running"}
             \/ run[p].status \in Terminal /\ run[p].phase = "none"
        BY <1>1, <1>6, <1>7, <2>1, <2>2, <2>4, <3>1 DEF NoneBusy
    <3>3. /\ d[p].status # "absent" /\ d[p].behind = run[p].behind
          /\ d[p].status \in Terminal => run[p] = d[p]
          /\ run[p].status = "queued" => d[p].status = "queued"
          /\ d[p].status # "gone"
        BY <1>2, <3>1, <3>2 DEF ViewAges
    <3>4. CASE run[p].status = "queued"
        BY <3>2, <3>3, <3>4 DEF Pends
    <3>5. CASE run[p].status # "queued"
      <4>1. run[p].status \in Terminal /\ run[p].phase = "none"
          BY <3>2, <3>5 DEF Busy
      <4>2. d[p].status \in Present
        <5>1. d \in [Runs -> RunRecord]
            BY DEF d, TypeOK, PumpRecord
        <5>2. QED  BY <3>1, <3>3, <5>1 DEF RunRecord
      <4>3. QED  BY <3>2, <3>3, <4>1, <4>2 DEF Pends, Present
    <3>6. QED  BY <3>4, <3>5
  <2>5. q \in Seen(branch, d)
    <3>1. q \in Seen(branch, e)
        BY <1>7, SeenIs DEF e
    <3>2. QED  BY <1>1, <2>1, <2>2, <2>3, <2>4, <3>1, SeenWithin
  <2>6. q \in Visible(d)
      BY <2>5, SeenIs DEF d
  <2>7. d[q].status = "queued"
      BY <1>1, <1>2, <1>7, <2>1 DEF ViewAges
  <2>8. c <= q
      BY <1>3, <2>6, <2>7
  <2>9. c \in Nat /\ q \in Nat
      BY <1>1, <2>1
  <2>10. QED  BY <1>7, <2>8, <2>9
<1>8. \A q \in Held \intersect Visible(e) : c <= q
  <2>1. \A q \in Held : q \in Nat
      BY <1>1 DEF Held
  <2>2. QED  BY <1>1, <1>7, <2>1
<1>9. QED  BY <1>1, <1>2, <1>5, <1>6, <1>8

\* The run of a submission behind nothing is visible, and alone.
LEMMA FirstChoice ==
    ASSUME OrderInv, op.pc = "start", run[op.run].status = "queued"
    PROVE  /\ op.run \in Held /\ NoneBusy /\ op.run \in Visible(Documents)
           /\ Visible(Documents) \subseteq {op.run} /\ run[op.run].behind = 0
<1> USE DEF OrderInv, RunInv, OwnedInv, ConversationInv
<1> DEFINE r == op.run
           d == Documents
<1>1. /\ r \in Held /\ r \in known /\ r \in Runs /\ run[r].behind = 0 /\ run[r].phase = "none"
      /\ branch \in SUBSET Runs
    BY DEF WorkBooks, Held, TypeOK, RunFacts
<1>2. NoneBusy /\ Visible(Documents) \subseteq {r}
    BY <1>1 DEF QueueBooks
<1>3. /\ \A q \in Runs : d[q].phase = "entered" <=> q \in known /\ run[q].phase = "entered"
      /\ d[r] = run[r] /\ Pends(d, r)
    BY <1>1, DocumentsNow
<1> HIDE DEF d
<1>4. Entered(branch, d) = {}
  <2>1. Entered(branch, d) \subseteq {r}
      BY <1>2, SeenIs DEF Seen, d
  <2>2. r \notin Entered(branch, d)
      BY <1>1, <1>3 DEF Entered
  <2>3. QED  BY <2>1, <2>2
<1>5. r \in Tail(branch, d)
  <2>1. r \in LooseIn({}, d)
      BY <1>1, <1>3 DEF LooseIn
  <2>2. d[r].behind \in {Greatest({})} \union Linked(Greatest({}), LooseIn({}, d), d)
      BY <1>1, <1>3 DEF Greatest
  <2>3. r \in Linked(Greatest({}), LooseIn({}, d), d)
      BY <2>1, <2>2, LinkedCloses
  <2>4. QED  BY <1>4, <2>3 DEF Tail
<1>6. r \in Visible(Documents)
    BY <1>5, SeenIs DEF Seen, d
<1>7. QED  BY <1>1, <1>2, <1>6

\* A run is stored and held: it is the last one.
LEMMA StoredOrder ==
    ASSUME OrderInv, RunInv', Live, op.pc = "store", NEW r \in Unused, \A q \in Unused : r <= q,
           run' = [run EXCEPT ![r] = [status |-> "queued", phase |-> "none",
                                      behind |-> op.after, key |-> op.key]],
           known' = known \union {r}, op'.pc = "start" => op.after = 0 /\ op'.run = r,
           op'.pc # "store",
           UNCHANGED <<branch, live, open, proc, pump, control, doomed>>
    PROVE  OrderInv'
<1> USE DEF OrderInv, RunInv, OwnedInv, ConversationInv
<1>1. /\ r \in Runs /\ run[r].status = "absent" /\ run[r].phase = "none" /\ \A q \in Runs : q \in Nat
      /\ run \in [Runs -> RunRecord] /\ branch \in SUBSET Runs /\ known \in SUBSET Runs
      /\ MaxRun \in Nat /\ \A q \in Runs : q <= MaxRun
    BY BoundsAssumption DEF Unused, TypeOK, Runs, RunFacts
<1>2. /\ \A q \in Runs : q # r => run'[q] = run[q]
      /\ run'[r].status = "queued" /\ run'[r].phase = "none"
    BY <1>1
<1>3. r \notin known /\ \A q \in known : q < r
  <2>1. \A q \in known : q \in Runs /\ run[q].status # "absent"
      BY <1>1 DEF RunFacts, Stored, Present, Terminal
  <2>2. \A q \in known : ~ (r < q) /\ r # q
      BY <1>1, <2>1 DEF RunFacts
  <2>3. QED  BY <1>1, <2>1, <2>2
<1>4. r \notin open /\ r \notin live
    BY <1>1, <1>3 DEF RunFacts, Terminal
<1>5. \A q \in Runs : Busy(q)' <=> Busy(q)
  <2>1. ~Busy(r)' /\ ~Busy(r)
      BY <1>1, <1>2 DEF Busy, Terminal
  <2>2. QED  BY <1>2, <2>1 DEF Busy
<1>6. Held' = Held \union {r}
    BY <1>1, <1>2, <1>3 DEF Held
<1> DEFINE d == Documents
           e == Documents'
<1>7. /\ \A q \in Runs : d[q].behind \in Nat /\ d[q].behind < q
      /\ \A q \in Runs : d[q].phase = "entered" <=> q \in known /\ run[q].phase = "entered"
      /\ \A q \in Runs : Pends(d, q) <=>
             /\ q \in known
             /\ \/ run[q].status \in {"queued", "running"}
                \/ run[q].status \in Terminal /\ run[q].phase = "none"
      /\ \A q \in known : d[q] = run[q]
    BY DocumentsNow
<1>8. /\ \A q \in Runs : e[q].behind \in Nat /\ e[q].behind < q
      /\ \A q \in Runs : e[q].phase = "entered" <=> q \in known' /\ run'[q].phase = "entered"
      /\ \A q \in Runs : Pends(e, q) <=>
             /\ q \in known'
             /\ \/ run'[q].status \in {"queued", "running"}
                \/ run'[q].status \in Terminal /\ run'[q].phase = "none"
      /\ \A q \in known' : e[q] = run'[q]
    BY DocumentsThen
<1> HIDE DEF d, e
<1>9. Entered(branch', e) = Entered(branch, d)
  <2>1. \A q \in Runs : e[q].phase = "entered" <=> d[q].phase = "entered"
      BY <1>1, <1>2, <1>3, <1>7, <1>8
  <2>2. QED  BY <1>1, <2>1 DEF Entered
<1>10. \A q \in Runs : q # r => (Pends(e, q) <=> Pends(d, q))
    BY <1>2, <1>7, <1>8
<1>11. ASSUME NEW q \in known PROVE q # r /\ e[q].behind = d[q].behind
  <2>1. q # r /\ q \in Runs /\ q \in known'
      BY <1>1, <1>3
  <2>2. e[q] = run'[q] /\ d[q] = run[q]
      BY <1>7, <1>8, <2>1
  <2>3. QED  BY <1>2, <2>1, <2>2
<1>12. Seen(branch, d) \subseteq Seen(branch', e)
  <2>1. SUFFICES ASSUME NEW q \in Seen(branch, d) PROVE q \in Seen(branch', e)
      OBVIOUS
  <2>2. \A p \in Tail(branch, d) : p \in Runs /\ Pends(d, p)
      BY <1>1, <1>7, BranchFirst DEF LooseIn
  <2>3. \A p \in Tail(branch, d) : Pends(e, p) /\ e[p].behind = d[p].behind
      BY <1>7, <1>10, <1>11, <2>2
  <2>4. q \in Runs
      BY <1>1, <1>7, BranchFirst
  <2>5. QED  BY <1>1, <1>7, <1>9, <2>3, <2>4, SeenWithin
<1>13. Seen(branch', e) \subseteq Seen(branch, d) \union {r}
  <2>1. SUFFICES ASSUME NEW q \in Seen(branch', e), q # r PROVE q \in Seen(branch, d)
      OBVIOUS
  <2>2. \A p \in Tail(branch', e) : p \in Runs /\ Pends(e, p)
      BY <1>1, <1>8, BranchFirst DEF LooseIn
  <2>3. q \in Runs /\ q < r
    <3>1. q \in Entered(branch', e) \/ q \in Tail(branch', e)
        BY DEF Seen
    <3>2. q \in Runs /\ q \in known'
        BY <1>1, <1>8, <2>2, <3>1 DEF Entered
    <3>3. QED  BY <1>3, <2>1, <3>2
  <2>4. ASSUME NEW p \in Tail(branch', e), p <= q PROVE Pends(d, p) /\ d[p].behind = e[p].behind
    <3>1. p # r
        BY <1>1, <2>2, <2>3, <2>4
    <3>2. Pends(d, p) /\ p \in known
        BY <1>7, <1>10, <2>2, <3>1
    <3>3. QED  BY <1>11, <3>2
  <2>5. q \in Nat /\ q <= q
      BY <1>1, <2>3
  <2>6. QED  BY <1>1, <1>8, <1>9, <2>4, <2>5, SeenWithin
<1>14. /\ OnBranch(Documents)' = OnBranch(Documents)
       /\ Visible(Documents) \subseteq Visible(Documents)'
       /\ Visible(Documents)' \subseteq Visible(Documents) \union {r}
    BY <1>9, <1>12, <1>13, SeenIs, SeenWillBe DEF d, e
<1>15. Serving
    BY DEF Serving, DeletionBooks, Settled
<1>16. QueueBooks'
  <2>1. \A q \in live' \union open' : run'[q].phase = "entered" => q \in branch'
    <3>1. live \subseteq Runs /\ open \subseteq Runs
        BY DEF TypeOK
    <3>2. QED  BY <1>2, <1>4, <3>1 DEF QueueBooks
  <2>2. \A q, p \in Runs : Busy(q)' /\ Busy(p)' => q = p
      BY <1>5 DEF QueueBooks
  <2>3. ASSUME NEW q \in Runs, Busy(q)'
        PROVE  q \in known' /\ q \in Visible(Documents)'
               /\ \A p \in Held' \intersect Visible(Documents)' : q < p
    <3>1. q \in known /\ q \in Visible(Documents) /\ \A p \in Held \intersect Visible(Documents) : q < p
        BY <1>5, <1>15, <2>3 DEF QueueBooks
    <3>2. q < r
        BY <1>3, <3>1
    <3>3. QED  BY <1>6, <1>14, <3>1, <3>2
  <2>4. ~ (op'.pc = "store" /\ op'.after = 0)
      OBVIOUS
  <2>5. op'.pc = "start" /\ op'.run \in Held' => Visible(Documents)' \subseteq {op'.run} /\ NoneBusy'
      BY <1>5, <1>14 DEF QueueBooks, NoneBusy
  <2>6. QED  BY <2>1, <2>2, <2>3, <2>4, <2>5 DEF QueueBooks
<1>17. ClaimBooks'
  <2>1. SUFFICES ASSUME pump.pc = "claimed", pump.cand \in Held'
                 PROVE  ViewAges(pump.view, pump.cand)' /\ BranchGrows(pump.view, pump.cand)'
      BY DEF ClaimBooks
  <2>2. pump.cand # r /\ pump.cand \in Held /\ pump.cand \in known /\ pump.cand \in Runs
      BY <1>1, <1>6, <2>1 DEF DeletionBooks, Held
  <2>3. ViewAges(pump.view, pump.cand) /\ BranchGrows(pump.view, pump.cand)
      BY <2>1, <2>2 DEF ClaimBooks
  <2>4. ViewAges(pump.view, pump.cand)'
    <3>1. \A q \in Runs : pump.view[q].status # "absent" => q \in known /\ q # r
        BY <1>3, <2>3 DEF ViewAges
    <3>2. \A q \in known' : q <= pump.cand => q \in known
        BY <1>1, <1>3, <2>2
    <3>3. QED  BY <1>2, <2>3, <3>1, <3>2 DEF ViewAges
  <2>5. OnBranch(pump.view)' = OnBranch(pump.view) /\ Visible(pump.view)' = Visible(pump.view)
      BY SeenIs, SeenWillBe
  <2>6. Claimable(pump.view, pump.cand)' => Claimable(pump.view, pump.cand)
      BY <2>5 DEF Claimable
  <2>7. BranchGrows(pump.view, pump.cand)'
      BY <1>5, <1>14, <2>3, <2>5, <2>6 DEF BranchGrows
  <2>8. QED  BY <2>4, <2>7
<1>18. QED  BY <1>16, <1>17

LEMMA StoresOrder ==
    ASSUME OrderInv, RunInv', OpStores
    PROVE  OrderInv'
<1> USE DEF OrderInv, RunInv, OwnedInv, ConversationInv
<1>1. /\ Live /\ op.pc = "store" /\ op \in OpRecord
      /\ UNCHANGED <<branch, live, open, proc, pump, control, doomed>>
    BY DEF OpStores, OpKeeps, tailVars, pumpVars, sweepVars, TypeOK
<1>2. ASSUME UNCHANGED <<known>>, op'.pc \notin {"store", "start"},
             \/ UNCHANGED run
             \/ \E r \in Runs \ known : run' = [run EXCEPT ![r] = [status |-> "queued", phase |-> "none",
                                                                   behind |-> op.after, key |-> op.key]]
      PROVE  OrderInv'
  <2>1. Calm
    <3>1. CASE UNCHANGED run
        BY <1>1, <1>2, <3>1 DEF Calm
    <3>2. CASE run' # run
      <4>1. PICK r \in Runs \ known :
                run' = [run EXCEPT ![r] = [status |-> "queued", phase |-> "none",
                                           behind |-> op.after, key |-> op.key]]
          BY <1>2, <3>2
      <4>2. /\ \A q \in Runs : q # r => run'[q] = run[q]
            /\ run'[r].status = "queued" /\ run'[r].phase = "none"
          BY <4>1 DEF TypeOK
      <4>3. QED  BY <1>1, <1>2, <4>2 DEF Calm
    <3>3. QED  BY <3>1, <3>2
  <2>2. pump'.pc = "claimed" => ClaimGoesOn
      BY <1>1 DEF ClaimGoesOn
  <2>3. QED  BY <1>1, <1>2, <2>1, <2>2, CalmOrder
<1>3. CASE Throws /\ UNCHANGED <<run, known>>
  <2>1. op'.pc \notin {"store", "start"}
      BY <1>1, <1>3 DEF Throws, Returns, NoOp, OpRecord
  <2>2. QED  BY <1>2, <1>3, <2>1
<1>4. CASE Unused # {} /\ ~ (Throws /\ UNCHANGED <<run, known>>)
  <2> DEFINE r == Least(Unused)
             stored == [run EXCEPT ![r] = [status |-> "queued", phase |-> "none",
                                           behind |-> op.after, key |-> op.key]]
  <2>1. r \in Unused /\ r \in Runs /\ \A q \in Unused : r <= q
    <3>1. Unused \in SUBSET Runs
        BY DEF Unused
    <3>2. QED  BY <1>4, <3>1, LeastRun
  <2>2. r \notin known
      BY <2>1 DEF Unused, RunFacts, Stored, Present, Terminal
  <2>3. \/ /\ run' = stored /\ known' = known \union {r}
           /\ op' = [op EXCEPT !.pc = IF op.after = 0 THEN "start" ELSE "recheck", !.run = r]
        \/ /\ run' \in {run, stored} /\ UNCHANGED known
           /\ op' = IF op.created THEN [op EXCEPT !.pc = "failed", !.run = r] ELSE NoOp
      BY <1>4 DEF OpStores
  <2> HIDE DEF r
  <2>4. CASE /\ run' = stored /\ known' = known \union {r}
             /\ op' = [op EXCEPT !.pc = IF op.after = 0 THEN "start" ELSE "recheck", !.run = r]
    <3>1. op'.pc # "store" /\ (op'.pc = "start" => op.after = 0) /\ op'.run = r
        BY <1>1, <2>4 DEF OpRecord
    <3>2. QED  BY <1>1, <2>1, <2>4, <3>1, StoredOrder
  <2>5. CASE /\ run' \in {run, stored} /\ UNCHANGED known
             /\ op' = IF op.created THEN [op EXCEPT !.pc = "failed", !.run = r] ELSE NoOp
    <3>1. op'.pc \notin {"store", "start"}
        BY <1>1, <2>5 DEF OpRecord, NoOp
    <3>2. r \in Runs \ known
        BY <2>1, <2>2
    <3>3. QED  BY <1>2, <2>5, <3>1, <3>2
  <2>6. QED  BY <2>3, <2>4, <2>5
<1>5. QED  BY <1>3, <1>4 DEF OpStores

\* What the attempt of the pump reads, and what it starts.
LEMMA RequestClaims ==
    ASSUME NEW d, Request(d), TypeOK, d \in [Runs -> RunRecord]
    PROVE  pump'.pc = "claimed" => ClaimGoesOn
<1>1. CASE pump.pc # "idle"
    BY <1>1 DEF Request, ClaimGoesOn, TypeOK, PumpRecord
<1>2. CASE pump.pc = "idle"
    BY <1>2 DEF Request, NoPump
<1>3. QED  BY <1>1, <1>2

LEMMA PumpOrder ==
    ASSUME OrderInv, RunInv', Pump
    PROVE  OrderInv'
<1> USE DEF OrderInv, RunInv, OwnedInv, ConversationInv
<1>1. /\ Live /\ UNCHANGED <<branch, known, proc, control, doomed, op>> /\ NoPump.pc = "idle"
      /\ Documents \in [Runs -> RunRecord]
    BY Chosen DEF Pump, PumpChooses, PumpFinalizes, PumpStarts, PumpTimer, PumpKeeps, sweepVars, NoPump
<1>2. ASSUME UNCHANGED <<run, live>>, open' \subseteq open,
             pump'.pc = "claimed" => ClaimGoesOn \/ ClaimIsNew
      PROVE  OrderInv'
  <2>1. Calm
      BY <1>1, <1>2 DEF Calm
  <2>2. QED  BY <1>1, <1>2, <2>1, CalmOrder
<1>3. CASE PumpChooses
  <2>1. UNCHANGED <<run, live, open>>
      BY <1>3 DEF PumpChooses
  <2>2. \/ pump' = NoPump
        \/ \E r \in known : Claims(r)
        \/ pump' = [pump EXCEPT !.pc = "finalize", !.cand = Least(FailedTail(pump.view))]
      BY <1>3 DEF PumpChooses, PumpFails, PumpEnds, Startable
  <2>3. pump'.pc = "claimed" => ClaimIsNew
    <3>1. CASE pump' = NoPump
        BY <1>1, <3>1
    <3>2. CASE \E r \in known : Claims(r)
        BY <2>1, <3>2 DEF Claims, ClaimIsNew, TypeOK, PumpRecord
    <3>3. CASE pump' = [pump EXCEPT !.pc = "finalize", !.cand = Least(FailedTail(pump.view))]
        BY <3>3 DEF TypeOK, PumpRecord
    <3>4. QED  BY <2>2, <3>1, <3>2, <3>3
  <2>4. QED  BY <1>2, <2>1, <2>3
<1>4. CASE PumpFinalizes
  <2>1. UNCHANGED <<run, live>> /\ open' \subseteq open
      BY <1>4, FinalizationKeeps DEF PumpFinalizes
  <2>2. pump' = NoPump \/ pump' = [pump EXCEPT !.pc = "reread", !.view = Documents]
      BY <1>4 DEF PumpFinalizes, PumpFails
  <2>3. pump'.pc # "claimed"
      BY <1>1, <2>2 DEF TypeOK, PumpRecord
  <2>4. QED  BY <1>2, <2>1, <2>3
<1>5. CASE PumpTimer
    BY <1>1, <1>2, <1>5, RequestClaims DEF PumpTimer
<1>6. CASE PumpStarts
  <2>1. CASE UNCHANGED <<run, live, open>> /\ (PumpFails \/ PumpEnds)
      BY <1>1, <1>2, <2>1 DEF PumpFails, PumpEnds
  <2>2. CASE /\ NextEligible(pump.view) = pump.cand /\ run[pump.cand].status = "queued"
             /\ Running(pump.cand) /\ pump' = NoPump
    <3>1. pump.pc = "claimed"
        BY <1>6 DEF PumpStarts
    <3>2. QED  BY <1>1, <2>2, <3>1, PumpChoice, StartsOrder
  <2>3. QED  BY <1>6, <2>1, <2>2 DEF PumpStarts
<1>7. QED  BY <1>3, <1>4, <1>5, <1>6 DEF Pump

\* The executions and the cleanups.
LEMMA TailOrder ==
    ASSUME OrderInv, RunInv', NEW r \in Runs, Cancel(r) \/ Execution(r) \/ CleanupFinalizes(r)
    PROVE  OrderInv'
<1> USE DEF OrderInv, RunInv, OwnedInv, ConversationInv
<1>1. /\ Live /\ UNCHANGED <<known, proc, control, doomed, op>> /\ run \in [Runs -> RunRecord]
      /\ Documents \in [Runs -> RunRecord]
    BY Chosen DEF Cancel, Execution, RunAdvances, RunEnds, RunFinalizes, ExecutionEnds, CleanupFinalizes,
                  TailKeeps, sweepVars, Live, TypeOK
<1>2. ASSUME UNCHANGED branch, live' \subseteq live, open' \subseteq open,
             \/ UNCHANGED run
             \/ /\ run[r].status \in {"queued", "running"}
                /\ \E s \in Terminal : run' = [run EXCEPT ![r].status = s]
             \/ /\ run[r].status = "running" /\ run[r].phase = "none"
                /\ run' = [run EXCEPT ![r].phase = "started"],
             UNCHANGED pump \/ Request(Documents)
      PROVE  OrderInv'
  <2>1. \A q \in Runs :
            /\ run'[q].behind = run[q].behind
            /\ \/ run'[q] = run[q]
               \/ /\ run[q].status \in {"queued", "running"} /\ run'[q].status \in Terminal
                  /\ run'[q].phase = run[q].phase
               \/ /\ run[q].status = "running" /\ run'[q].status = "running"
                  /\ run[q].phase = "none" /\ run'[q].phase = "started"
    <3>1. CASE UNCHANGED run
        BY <3>1
    <3>2. CASE /\ run[r].status \in {"queued", "running"}
               /\ \E s \in Terminal : run' = [run EXCEPT ![r].status = s]
        BY <1>1, <3>2 DEF RunRecord
    <3>3. CASE /\ run[r].status = "running" /\ run[r].phase = "none"
               /\ run' = [run EXCEPT ![r].phase = "started"]
        BY <1>1, <3>3 DEF RunRecord
    <3>4. QED  BY <1>2, <3>1, <3>2, <3>3
  <2>2. Calm
      BY <1>1, <1>2, <2>1 DEF Calm
  <2>3. pump'.pc = "claimed" => ClaimGoesOn
      BY <1>1, <1>2, RequestClaims DEF ClaimGoesOn
  <2>4. QED  BY <1>1, <2>2, <2>3, CalmOrder
<1>3. CASE RunAdvances(r)
  <2>1. /\ r \in live /\ run[r].status = "running" /\ UNCHANGED <<live, open, pump>>
        /\ run[r].phase \in {"none", "started"}
      BY <1>1, <1>3 DEF RunAdvances, tailVars, pumpVars, RunRecord
  <2>2. CASE run[r].phase = "none"
      BY <1>2, <1>3, <2>1, <2>2 DEF RunAdvances
  <2>3. CASE run[r].phase = "started"
    <3>1. run' = [run EXCEPT ![r].phase = "entered"] /\ branch' = branch \union {r}
        BY <1>3, <2>3 DEF RunAdvances
    <3>2. QED  BY <1>1, <2>1, <2>3, <3>1, EntersOrder
  <2>4. QED  BY <2>1, <2>2, <2>3
<1>4. CASE RunEnds(r)
  <2>1. /\ run[r].status = "running" /\ UNCHANGED <<branch, live, open, pump>>
        /\ \E s \in Terminal : run' = [run EXCEPT ![r].status = s]
      BY <1>4 DEF RunEnds, pumpVars, Terminal
  <2>2. QED  BY <1>2, <2>1
<1>5. CASE RunFinalizes(r)
  <2>1. UNCHANGED <<run, branch, live, pump>> /\ open' \subseteq open
      BY <1>5, FinalizationKeeps DEF RunFinalizes, pumpVars
  <2>2. QED  BY <1>2, <2>1
<1>6. CASE ExecutionEnds(r)
  <2>1. UNCHANGED <<run, branch, open>> /\ live' \subseteq live /\ (UNCHANGED pump \/ Request(Documents))
      BY <1>6 DEF ExecutionEnds, Wakes, pumpVars
  <2>2. QED  BY <1>2, <2>1
<1>7. CASE Cancel(r)
  <2>1. /\ run[r].status \in {"queued", "running"} /\ UNCHANGED <<branch, live, open, pump>>
        /\ run' = [run EXCEPT ![r].status = "cancelled"] /\ "cancelled" \in Terminal
      BY <1>7 DEF Cancel, CanCancel, Cancelled, pumpVars, Terminal
  <2>2. QED  BY <1>2, <2>1
<1>8. CASE CleanupFinalizes(r)
  <2>1. UNCHANGED <<run, branch, live>> /\ open' \subseteq open /\ (UNCHANGED pump \/ Request(Documents))
      BY <1>8, FinalizationKeeps DEF CleanupFinalizes, Wakes, pumpVars
  <2>2. QED  BY <1>2, <2>1
<1>9. QED  BY <1>3, <1>4, <1>5, <1>6, <1>7, <1>8 DEF Execution

\* A step that leaves the runs alone.
LEMMA PlainOrder ==
    ASSUME OrderInv, RunInv', Live,
           UNCHANGED <<run, branch, known, live, open, proc>>,
           UNCHANGED pump \/ Request(Documents),
           control' = "live" /\ ~doomed' => (control = "live" /\ ~doomed) \/ NoneBusy,
           op'.pc = "store" /\ op'.after = 0 =>
               \/ op.pc = "store" /\ op.after = 0
               \/ Visible(Documents) = {} /\ NoneBusy,
           op'.pc = "start" => op.pc = "start" /\ op'.run = op.run
    PROVE  OrderInv'
<1>1. TypeOK
    BY DEF OrderInv, RunInv, OwnedInv, ConversationInv
<1>2. Calm
    BY DEF Calm
<1>3. pump'.pc = "claimed" => ClaimGoesOn
    BY <1>1, Chosen, RequestClaims DEF ClaimGoesOn
<1>4. QED  BY <1>2, <1>3, CalmOrder

\* Without a run, nothing is visible and nothing is busy.
LEMMA NothingStored ==
    ASSUME RunInv, Live, Stored = {}, control # "deleted"
    PROVE  Visible(Documents) = {} /\ NoneBusy
<1> USE DEF RunInv, OwnedInv, ConversationInv
<1>1. known = {} /\ live = {}
    BY DEF RunFacts
<1>2. \A r \in Runs : run[r].status \notin Present
    BY DEF Stored
<1>3. Visible(Documents) = {}
    BY <1>1, SeenIsKnown
<1>4. NoneBusy
    BY <1>2 DEF NoneBusy, Busy, Present
<1>5. QED  BY <1>3, <1>4

LEMMA PlainOperationsOrder ==
    ASSUME OrderInv, RunInv',
           \/ OpReconciles \/ OpAwaits \/ OpControls \/ OpRechecks \/ OpJoins \/ OpTakesBack \/ OpBuries
           \/ \E kind \in {"submit", "delete", "rollback"}, key \in Nat : Begins(kind, key)
    PROVE  OrderInv'
<1> USE DEF OrderInv, RunInv, OwnedInv, ConversationInv
<1>1. /\ Live /\ UNCHANGED <<run, branch, known, live, open, proc>>
      /\ UNCHANGED pump \/ Request(Documents)
      /\ op \in OpRecord
    BY DEF OpReconciles, OpAwaits, OpControls, OpRechecks, OpJoins, OpTakesBack, OpBuries, Begins, OpHolds,
           OpKeeps, tailVars, pumpVars, Live, TypeOK
<1>2. \A mode, runs : Schedule(mode, runs) => (doomed => doomed')
    BY DEF Schedule
<1>3. NoOp.pc = "idle"
    BY DEF NoOp
<1>4. ASSUME NEW o \in OpRecord, SettleCleanup(o)
      PROVE  (doomed => doomed') /\ op'.pc \notin {"store", "start"}
  <2>1. CASE doomed
    <3>1. op' = [o EXCEPT !.pc = "await", !.then = "settle"] /\ doomed'
        BY <1>2, <1>4, <2>1 DEF SettleCleanup
    <3>2. QED  BY <3>1 DEF OpRecord
  <2>2. CASE ~doomed
    <3>1. op' = [o EXCEPT !.pc = Body(o.kind)]
        BY <1>4, <2>2 DEF SettleCleanup
    <3>2. QED  BY <2>2, <3>1 DEF OpRecord, Body
  <2>3. QED  BY <2>1, <2>2
<1>5. ASSUME UNCHANGED control \/ control' = "deleted", doomed => doomed', op'.pc \notin {"store", "start"}
      PROVE  OrderInv'
    BY <1>1, <1>5, PlainOrder
<1>6. CASE \E kind \in {"submit", "delete", "rollback"}, key \in Nat : Begins(kind, key)
  <2>1. PICK kind \in {"submit", "delete", "rollback"}, key \in Nat : Begins(kind, key)
      BY <1>6
  <2> DEFINE o == [NoOp EXCEPT !.kind = kind, !.key = key]
  <2>2. o \in OpRecord
    <3>1. NoOp \in OpRecord
        BY BoundsAssumption DEF NoOp, OpRecord
    <3>2. QED  BY <3>1 DEF OpRecord
  <2>3. \/ op' = [o EXCEPT !.pc = "reconcile", !.then = "settle"] /\ UNCHANGED doomed
        \/ SettleCleanup(o)
      BY <2>1 DEF Begins, sweepVars
  <2> HIDE DEF o
  <2>4. op' = [o EXCEPT !.pc = "reconcile", !.then = "settle"] => op'.pc = "reconcile"
      BY <2>2 DEF OpRecord
  <2>5. UNCHANGED control
      BY <2>1 DEF Begins
  <2>6. QED  BY <1>4, <1>5, <2>2, <2>3, <2>4, <2>5
<1>7. CASE OpReconciles
  <2>1. UNCHANGED control
      BY <1>7 DEF OpReconciles
  <2>2. Goto("await") => op'.pc = "await"
      BY <1>1 DEF Goto, OpRecord
  <2>3. \/ Returns /\ UNCHANGED doomed
        \/ SettleCleanup(op)
        \/ Schedule("uncommitted", Stored) /\ Goto("await")
      BY <1>7 DEF OpReconciles, sweepVars
  <2>4. QED  BY <1>1, <1>2, <1>3, <1>4, <1>5, <2>1, <2>2, <2>3 DEF Returns
<1>8. CASE OpAwaits
  <2>1. UNCHANGED <<control, doomed>> /\ (Returns \/ Goto(Body(op.kind)))
      BY <1>8 DEF OpAwaits, sweepVars
  <2>2. Goto(Body(op.kind)) => op'.pc \in {"control", "tombstone", "move"}
      BY <1>1 DEF Goto, OpRecord, Body
  <2>3. QED  BY <1>3, <1>5, <2>1, <2>2 DEF Returns
<1>9. CASE OpControls
  <2>1. op.pc = "control" /\ ~doomed /\ UNCHANGED doomed /\ op.after = 0
      BY <1>9 DEF OpControls, sweepVars, DeletionBooks, Settled, OwnedBooks, OpBooks
  <2>2. CASE Returns /\ UNCHANGED control
      BY <1>3, <1>5, <2>1, <2>2 DEF Returns
  <2>3. CASE /\ control = "live" /\ UNCHANGED control
             /\ op' = [op EXCEPT !.pc = "store", !.after = Greatest(Visible(Documents))]
    <3>1. op'.pc = "store" /\ op'.after = Greatest(Visible(Documents))
        BY <1>1, <2>3 DEF OpRecord
    <3>2. Visible(Documents) \in SUBSET Runs /\ \A r \in Runs : 0 < r /\ r \in Nat
        BY Chosen DEF Runs
    <3>3. Greatest(Visible(Documents)) = 0 => Visible(Documents) = {}
        BY <3>2, GreatestRun
    <3>4. Visible(Documents) = {} => NoneBusy
        BY <1>1, <2>1, <2>3 DEF QueueBooks, Serving, NoneBusy
    <3>5. QED  BY <1>1, <2>1, <2>3, <3>1, <3>3, <3>4, PlainOrder
  <2>4. CASE /\ control = "none" /\ control' \in {"none", "live"}
             /\ \/ op' = [op EXCEPT !.pc = "store", !.created = TRUE]
                \/ op' = [op EXCEPT !.pc = "reconcile", !.then = "throw"]
                \/ Returns
    <3>1. Stored = {}
        BY <2>4 DEF OwnedBooks, BirthBooks
    <3>2. Visible(Documents) = {} /\ NoneBusy
        BY <1>1, <2>4, <3>1, NothingStored
    <3>3. op' = [op EXCEPT !.pc = "store", !.created = TRUE] => op'.pc = "store"
        BY <1>1 DEF OpRecord
    <3>4. op' = [op EXCEPT !.pc = "reconcile", !.then = "throw"] => op'.pc = "reconcile"
        BY <1>1 DEF OpRecord
    <3>5. QED  BY <1>1, <1>3, <2>4, <3>2, <3>3, <3>4, PlainOrder DEF Returns
  <2>5. QED  BY <1>9, <2>2, <2>3, <2>4 DEF OpControls
<1>10. CASE OpRechecks \/ OpJoins
  <2>1. UNCHANGED <<control, doomed>> /\ (Returns \/ Goto("join"))
      BY <1>10 DEF OpRechecks, OpJoins, sweepVars
  <2>2. Goto("join") => op'.pc = "join"
      BY <1>1 DEF Goto, OpRecord
  <2>3. QED  BY <1>3, <1>5, <2>1, <2>2 DEF Returns
<1>11. CASE OpTakesBack
  <2>1. /\ UNCHANGED control /\ (doomed => doomed')
        /\ Returns \/ op' = [op EXCEPT !.pc = "await", !.then = "throw"]
      BY <1>2, <1>11 DEF OpTakesBack, sweepVars
  <2>2. op' = [op EXCEPT !.pc = "await", !.then = "throw"] => op'.pc = "await"
      BY <1>1 DEF OpRecord
  <2>3. QED  BY <1>3, <1>5, <2>1, <2>2 DEF Returns
<1>12. CASE OpBuries
  <2>1. /\ UNCHANGED control \/ control' = "deleted"
        /\ UNCHANGED doomed /\ (Returns \/ op' = [op EXCEPT !.pc = "cancel", !.left = Unfinished])
      BY <1>12 DEF OpBuries, sweepVars
  <2>2. op' = [op EXCEPT !.pc = "cancel", !.left = Unfinished] => op'.pc = "cancel"
      BY <1>1 DEF OpRecord
  <2>3. QED  BY <1>3, <1>5, <2>1, <2>2 DEF Returns
<1>13. QED  BY <1>6, <1>7, <1>8, <1>9, <1>10, <1>11, <1>12

\* The run of a submission behind nothing starts; a deletion cancels.
LEMMA StartsAndCancelsOrder ==
    ASSUME OrderInv, RunInv', OpStarts \/ OpCancels
    PROVE  OrderInv'
<1> USE DEF OrderInv, RunInv, OwnedInv, ConversationInv
<1>1. /\ Live /\ UNCHANGED <<branch, known, proc, control>> /\ op \in OpRecord /\ NoOp.pc = "idle"
      /\ run \in [Runs -> RunRecord]
    BY DEF OpStarts, OpCancels, TypeOK, NoOp
<1>2. CASE OpStarts
  <2>1. op.pc = "start" /\ KeyFree(op.run) /\ UNCHANGED doomed
      BY <1>2 DEF OpStarts, sweepVars
  <2>2. CASE /\ run[op.run].status = "queued" /\ Running(op.run) /\ UNCHANGED pump
             /\ Returns \/ Throws
    <3>1. /\ op.run \in Held /\ NoneBusy /\ op.run \in Visible(Documents)
          /\ Visible(Documents) \subseteq {op.run}
        BY <2>1, <2>2, FirstChoice
    <3>2. op.run \in Nat
        BY <3>1, Chosen DEF Runs
    <3>3. \A q \in Held \intersect Visible(Documents) : op.run <= q
        BY <3>1, <3>2
    <3>4. pump'.pc = "claimed" => pump.pc = "claimed" /\ pump.cand # op.run
        BY <2>1, <2>2 DEF KeyFree
    <3>5. op'.pc \notin {"store", "start"}
        BY <1>1, <2>2 DEF Throws, Returns, OpRecord
    <3>6. QED  BY <1>1, <2>2, <3>1, <3>3, <3>4, <3>5, StartsOrder
  <2>3. CASE Request(Documents) /\ Throws /\ UNCHANGED <<run, live, open>>
    <3>1. op'.pc \notin {"store", "start"}
        BY <1>1, <2>3 DEF Throws, Returns, OpRecord
    <3>2. QED  BY <1>1, <2>1, <2>3, <3>1, PlainOrder
  <2>4. QED  BY <1>2, <2>2, <2>3 DEF OpStarts, pumpVars
<1>3. CASE OpCancels
  <2>1. UNCHANGED <<live, open, pump>> /\ op.pc = "cancel" /\ (doomed => doomed')
    <3>1. Schedule("tombstone", known) => (doomed => doomed')
        BY DEF Schedule
    <3>2. QED  BY <1>3, <3>1 DEF OpCancels, pumpVars, sweepVars
  <2>2. CASE UNCHANGED run
    <3>1. op'.pc \notin {"store", "start"}
        BY <1>1, <1>3, <2>1 DEF OpCancels, Returns, OpRecord
    <3>2. QED  BY <1>1, <2>1, <2>2, <3>1, PlainOrder
  <2>3. CASE op'.pc = "cancel" /\ \E r \in Unfinished : Cancelled(r)
    <3>1. PICK r \in Unfinished : Cancelled(r)
        BY <2>3
    <3>2. /\ r \in Runs /\ run[r].status \in {"queued", "running"}
          /\ run' = [run EXCEPT ![r].status = "cancelled"]
        BY <3>1 DEF Unfinished, Cancelled, TypeOK
    <3>3. \A q \in Runs :
              /\ run'[q].behind = run[q].behind
              /\ \/ run'[q] = run[q]
                 \/ /\ run[q].status \in {"queued", "running"} /\ run'[q].status \in Terminal
                    /\ run'[q].phase = run[q].phase
        BY <1>1, <3>2 DEF RunRecord, Terminal
    <3>4. Calm
        BY <1>1, <2>1, <3>3 DEF Calm
    <3>5. pump'.pc = "claimed" => ClaimGoesOn
        BY <2>1 DEF ClaimGoesOn
    <3>6. QED  BY <1>1, <2>1, <2>3, <3>4, <3>5, CalmOrder
  <2>4. \A r : op' = [op EXCEPT !.left = @ \ {r}] => op'.pc = "cancel"
      BY <1>1, <2>1 DEF OpRecord
  <2>5. QED  BY <1>3, <2>2, <2>3, <2>4 DEF OpCancels, Recancelled
<1>4. QED  BY <1>2, <1>3

\* The branch is cut back to a turn while nothing has the Session.
LEMMA MovesOrder ==
    ASSUME OrderInv, RunInv', OpMoves
    PROVE  OrderInv'
<1> USE DEF OrderInv, RunInv, OwnedInv, ConversationInv
<1>1. /\ Live /\ UNCHANGED <<run, known, live, open, proc, control, doomed, pump>>
      /\ op' = NoOp /\ NoOp.pc = "idle"
    BY DEF OpMoves, OpKeeps, tailVars, pumpVars, sweepVars, Returns, NoOp
<1>2. CASE UNCHANGED branch
    BY <1>1, <1>2, PlainOrder
<1>3. CASE control = "live" /\ ~Leased /\ \E t \in Runs : branch' = {r \in branch : r <= t}
  <2>1. live = {} /\ open = {}
      BY <1>3 DEF Leased
  <2>2. \A q \in Runs : ~Busy(q) /\ ~Busy(q)'
    <3>1. \A q \in Runs : run[q].status # "running"
        BY <1>1, <1>3, <2>1 DEF WorkBooks
    <3>2. QED  BY <1>1, <2>1, <3>1 DEF Busy
  <2>3. QueueBooks'
      BY <1>1, <2>1, <2>2 DEF QueueBooks
  <2>4. PICK t \in Runs : branch' = {r \in branch : r <= t}
      BY <1>3
  <2>5. branch \subseteq Runs /\ \A q \in Runs : q \in Nat
      BY DEF TypeOK, Runs
  <2>6. SUFFICES ASSUME pump.pc = "claimed", pump.cand \in Held
                 PROVE  ViewAges(pump.view, pump.cand)' /\ BranchGrows(pump.view, pump.cand)'
      BY <1>1, <2>3 DEF ClaimBooks, Held
  <2> DEFINE d == Documents
             v == pump.view
  <2>7. ViewAges(pump.view, pump.cand) /\ BranchGrows(pump.view, pump.cand)
      BY <2>6 DEF ClaimBooks
  <2>8. ViewAges(pump.view, pump.cand)'
      BY <1>1, <2>7 DEF ViewAges
  <2>9. Documents' = d /\ pump'.view = v
      BY <1>1 DEF Documents
  <2>10. /\ \A q \in Runs : d[q].phase = "entered" <=> q \in known /\ run[q].phase = "entered"
      BY DocumentsNow
  <2>11. \A q \in Runs : v[q].phase = "entered" => d[q].phase = "entered"
      BY <2>7, <2>10 DEF ViewAges
  <2>12. /\ \A r \in Entered(branch, d) \ Entered(branch, v) : \A q \in Entered(branch, v) : q < r
         /\ Claimable(pump.view, pump.cand) => Entered(branch, d) = Entered(branch, v)
      BY <2>7, SeenIs DEF BranchGrows
  <2> HIDE DEF d, v
  <2>13. \A r \in Entered(branch', d) \ Entered(branch', v) : \A q \in Entered(branch', v) : q < r
      BY <2>4, <2>12 DEF Entered
  <2>14. Claimable(pump.view, pump.cand)' => Entered(branch', d) = Entered(branch', v)
    <3>1. SUFFICES ASSUME Claimable(pump.view, pump.cand)', NEW r \in Entered(branch', d) \ Entered(branch', v)
                   PROVE  FALSE
        BY <2>4, <2>5, <2>11 DEF Entered
    <3>2. r \in Runs /\ r <= t /\ r \in Entered(branch, d) \ Entered(branch, v)
        BY <2>4, <2>5, <3>1 DEF Entered
    <3>3. Entered(branch', v) = Entered(branch, v)
      <4>1. \A q \in Entered(branch, v) : q < r /\ q \in Runs
          BY <2>5, <2>12, <3>2 DEF Entered
      <4>2. \A q \in Entered(branch, v) : q <= t
          BY <2>5, <3>2, <4>1
      <4>3. QED  BY <2>4, <4>2 DEF Entered
    <3>4. Tail(branch', v) = Tail(branch, v) /\ Seen(branch', v) = Seen(branch, v)
        BY <3>3 DEF Tail, Seen
    <3>5. Claimable(pump.view, pump.cand)
      <4>1. /\ pump.cand \in Seen(branch', v)
            /\ \A q \in Seen(branch', v) : q < pump.cand => v[q].status \in Terminal
          BY <1>1, <3>1, ClaimableIs DEF v
      <4>2. QED  BY <3>4, <4>1, ClaimableIs DEF v
    <3>6. QED  BY <2>12, <3>2, <3>5
  <2>15. BranchGrows(pump.view, pump.cand)'
    <3>1. OnBranch(Documents)' = Entered(branch', d) /\ OnBranch(pump.view)' = Entered(branch', v)
        BY <2>9, SeenWillBe
    <3>2. QED  BY <2>2, <2>13, <2>14, <3>1 DEF BranchGrows
  <2>16. QED  BY <2>8, <2>15
<1>4. Visible(Documents) \subseteq Runs
    BY Chosen
<1>5. QED  BY <1>2, <1>3, <1>4 DEF OpMoves

\* The cleanup of the conversation.
LEMMA SweepOrder ==
    ASSUME OrderInv, RunInv', Sweep
    PROVE  OrderInv'
<1> USE DEF OrderInv, RunInv, OwnedInv, ConversationInv
<1>1. /\ Live /\ UNCHANGED <<proc, live, open, pump, op>> /\ sweep \in SweepRecord
      /\ run \in [Runs -> RunRecord]
    BY DEF Sweep, SweepLists, SweepRun, SweepSession, SweepControl, SweepRetries, SweepKeeps, tailVars,
           pumpVars, TypeOK
<1>2. \A failed \in BOOLEAN : SweepEnds(failed) => (doomed' <=> doomed /\ (failed \/ ~sweep.fresh))
    BY DEF SweepEnds
<1>3. ASSUME UNCHANGED <<run, branch, known>>, UNCHANGED control \/ control' = "none",
             doomed /\ control' = "live" => doomed'
      PROVE  OrderInv'
    BY <1>1, <1>3, PlainOrder
<1>4. sweep.pc \in {"runs", "control"} =>
          /\ sweep.mode = "tombstone" => control = "deleted" /\ Held = {}
          /\ sweep.mode # "tombstone" => doomed
          /\ op.pc \notin {"store", "start"}
  <2>1. SUFFICES ASSUME sweep.pc \in {"runs", "control"}
                 PROVE  /\ sweep.mode = "tombstone" => control = "deleted" /\ Held = {}
                        /\ sweep.mode # "tombstone" => doomed
                        /\ op.pc \notin {"store", "start"}
      OBVIOUS
  <2>2. sweep.mode = "tombstone" => control = "deleted" /\ Unfinished = {}
      BY <2>1 DEF OwnedBooks, SweepBooks, WorkBooks
  <2>3. Held \subseteq Unfinished
      BY DEF Held, Unfinished
  <2>4. sweep.mode # "tombstone" => doomed
      BY <2>1 DEF DeletionBooks
  <2>5. op.pc \notin {"store", "start"}
      BY <2>2, <2>4 DEF DeletionBooks, Settled
  <2>6. QED  BY <2>2, <2>3, <2>4, <2>5
<1>5. CASE SweepLists
    BY <1>3, <1>5 DEF SweepLists, diskVars
<1>6. CASE SweepControl
  <2>1. \/ UNCHANGED control /\ SweepEnds(TRUE)
        \/ control' = "none"
      BY <1>6 DEF SweepControl
  <2>2. UNCHANGED <<run, branch, known>>
      BY <1>6 DEF SweepControl
  <2>3. SweepEnds(TRUE) => (doomed => doomed')
      BY <1>2
  <2>4. QED  BY <1>3, <2>1, <2>2, <2>3
<1>7. CASE SweepRetries
  <2>1. UNCHANGED <<run, branch, known, control>>
      BY <1>7 DEF SweepRetries, diskVars
  <2>2. doomed => doomed'
      BY <1>7 DEF SweepRetries, Schedule
  <2>3. QED  BY <1>3, <2>1, <2>2
<1>8. CASE SweepSession
  <2>1. UNCHANGED <<control, run, known>> /\ sweep.pc = "runs" /\ sweep.todo = {}
      BY <1>8 DEF SweepSession
  <2>2. CASE SweepEnds(TRUE) /\ UNCHANGED branch
    <3>1. doomed => doomed'
        BY <1>2, <2>2
    <3>2. QED  BY <1>3, <2>1, <2>2, <3>1
  <2>3. CASE /\ ~Leased /\ branch' = {}
             /\ \/ sweep.mode = "tombstone"
                \/ sweep.mode # "tombstone" /\ ~sweep.failed /\ UNCHANGED doomed
    <3>1. live = {} /\ open = {}
        BY <2>3 DEF Leased
    <3>2. Held = {} /\ Held' = Held
      <4>1. sweep.mode # "tombstone" => Stored = {}
          BY <2>1, <2>3 DEF OwnedBooks, SweepBooks
      <4>2. Held \subseteq Stored
          BY DEF Held, RunFacts
      <4>3. QED  BY <1>4, <2>1, <4>1, <4>2 DEF Held
    <3>3. ~Serving'
        BY <1>4, <2>1, <2>3, <3>2 DEF Serving
    <3>4. \A r, q \in Runs : Busy(r)' /\ Busy(q)' => r = q
        BY <1>1, <2>1 DEF Busy, QueueBooks
    <3>5. QED  BY <1>1, <1>4, <2>1, <3>1, <3>2, <3>3, <3>4, NothingWaits
  <2>4. QED  BY <1>8, <2>2, <2>3 DEF SweepSession
<1>9. CASE \E r \in Runs : SweepRun(r)
  <2>1. PICK r \in Runs : SweepRun(r)
      BY <1>9
  <2>2. /\ sweep.pc = "runs" /\ r \notin live /\ UNCHANGED <<control, branch, doomed>>
      BY <2>1 DEF SweepRun, SweepWaits
  <2>3. CASE UNCHANGED <<run, known>>
      BY <1>3, <2>2, <2>3
  <2>4. CASE run' = Gone(r) /\ known' = known \ {r} /\ ~ (UNCHANGED <<run, known>>)
    <3>1. /\ \A q \in Runs : q # r => run'[q] = run[q]
          /\ run'[r].phase = run[r].phase
          /\ run'[r] = run[r] \/ run'[r].status = "gone"
        BY <1>1, <2>4 DEF Gone, RunRecord
    <3>2. r \in Stored
        BY <2>1, <2>4 DEF Gone, Stored, RunFacts
    <3>3. Held' \subseteq Held \ {r}
        BY <2>4, <3>1 DEF Held, TypeOK
    <3>4. Held' = {}
      <4>1. sweep.mode # "tombstone" => Stored \subseteq {r}
          BY <1>4, <2>2, <3>2 DEF OwnedBooks, BirthBooks
      <4>2. Held \subseteq Stored
          BY DEF Held, RunFacts
      <4>3. QED  BY <1>4, <2>2, <3>3, <4>1, <4>2
    <3>5. ~Serving'
        BY <1>4, <2>2, <3>4 DEF Serving
    <3>6. \A q, p \in Runs : Busy(q)' /\ Busy(p)' => q = p
      <4>1. \A q \in Runs : Busy(q)' => Busy(q)
          BY <1>1, <3>1 DEF Busy, Terminal
      <4>2. QED  BY <4>1 DEF QueueBooks
    <3>7. \A q \in live' \union open' : run'[q].phase = "entered" => q \in branch'
      <4>1. live \subseteq Runs /\ open \subseteq Runs
          BY DEF TypeOK
      <4>2. QED  BY <1>1, <2>2, <3>1, <4>1 DEF QueueBooks
    <3>8. QED  BY <1>1, <1>4, <2>2, <3>4, <3>5, <3>6, <3>7, NothingWaits
  <2>5. QED  BY <2>1, <2>3, <2>4 DEF SweepRun
<1>10. QED  BY <1>5, <1>6, <1>7, <1>8, <1>9 DEF Sweep

\* The process stops and is started again.
LEMMA RecoveryOrder ==
    ASSUME OrderInv, RunInv', Crash \/ Recovery
    PROVE  OrderInv'
<1> USE DEF OrderInv, RunInv, OwnedInv, ConversationInv
<1>1. CASE Crash
  <2>1. /\ known' = {} /\ live' = {} /\ open' = {} /\ proc' = "down" /\ op'.pc = "idle" /\ UNCHANGED run
      BY <1>1 DEF Crash, NoOp, diskVars
  <2>2. Held' = {} /\ ~Serving'
      BY <2>1 DEF Held, Serving, Live
  <2>3. \A q, p \in Runs : Busy(q)' /\ Busy(p)' => q = p
    <3>1. \A q \in Runs : Busy(q)' => Busy(q)
        BY <2>1 DEF Busy
    <3>2. QED  BY <3>1 DEF QueueBooks
  <2>4. QED  BY <2>1, <2>2, <2>3, NothingWaits
<1>2. CASE RecoverRemains
  <2>1. /\ proc = "down" /\ UNCHANGED <<control, run, known, live, open, op, pump>>
        /\ control = "deleted" \/ Stored = {}
        /\ control = "live" => doomed'
      BY <1>2 DEF RecoverRemains, RecoverKeeps, diskVars, tailVars, pumpVars, Schedule
  <2>2. known = {} /\ live = {} /\ open = {} /\ op.pc = "idle"
      BY <2>1 DEF WorkBooks, OwnedBooks, DownBooks
  <2>3. Held' = {} /\ ~Serving'
      BY <2>1, <2>2 DEF Held, Serving
  <2>4. \A q, p \in Runs : Busy(q)' /\ Busy(p)' => q = p
    <3>1. \A q \in Runs : Busy(q)' => Busy(q)
        BY <2>1 DEF Busy
    <3>2. QED  BY <3>1 DEF QueueBooks
  <2>5. QED  BY <2>1, <2>2, <2>3, <2>4, NothingWaits
<1>3. CASE RecoverRuns
  <2>1. /\ proc = "down" /\ run' = Recovered /\ UNCHANGED <<live, open, op>>
        /\ UNCHANGED pump \/ Request(Recovered)
      BY <1>3 DEF RecoverRuns, RecoverKeeps, tailVars, pumpVars
  <2>2. live = {} /\ open = {} /\ op.pc = "idle" /\ pump.pc = "idle"
      BY <2>1 DEF OwnedBooks, DownBooks
  <2>3. \A q \in Runs : run'[q].status # "running"
      BY <2>1 DEF Recovered, TypeOK, RunRecord
  <2>4. \A q \in Runs : ~Busy(q)'
      BY <2>1, <2>2, <2>3 DEF Busy
  <2>5. pump'.pc # "claimed"
      BY <2>1, <2>2 DEF Request, NoPump
  <2>6. QueueBooks'
      BY <2>1, <2>2, <2>4 DEF QueueBooks
  <2>7. QED  BY <2>5, <2>6 DEF ClaimBooks
<1>4. CASE RecoveryEnds
  <2>1. /\ Live /\ proc' = "live" /\ UNCHANGED <<control, branch, run, known, live, open, op, doomed, pump>>
      BY <1>4 DEF RecoveryEnds, RecoverKeeps, diskVars, sweepVars, tailVars, pumpVars, Live
  <2>2. /\ Held' = Held /\ (Serving' => Serving) /\ (NoneBusy' <=> NoneBusy)
        /\ \A q \in Runs : Busy(q)' <=> Busy(q)
      BY <2>1 DEF Held, Serving, Live, NoneBusy, Busy
  <2>3. /\ Visible(Documents)' = Visible(Documents) /\ OnBranch(Documents)' = OnBranch(Documents)
        /\ Visible(pump.view)' = Visible(pump.view) /\ OnBranch(pump.view)' = OnBranch(pump.view)
    <3>1. Documents' = Documents
        BY <2>1 DEF Documents
    <3>2. QED  BY <2>1, <3>1, SeenIs, SeenWillBe
  <2>4. QueueBooks'
      BY <2>1, <2>2, <2>3 DEF QueueBooks
  <2>5. ClaimBooks'
    <3>1. Claimable(pump.view, pump.cand)' <=> Claimable(pump.view, pump.cand)
        BY <2>1, <2>3 DEF Claimable
    <3>2. ViewAges(pump.view, pump.cand)' <=> ViewAges(pump.view, pump.cand)
        BY <2>1 DEF ViewAges
    <3>3. BranchGrows(pump.view, pump.cand) => BranchGrows(pump.view, pump.cand)'
        BY <2>1, <2>2, <2>3, <3>1 DEF BranchGrows
    <3>4. QED  BY <2>1, <2>2, <3>2, <3>3 DEF ClaimBooks
  <2>6. QED  BY <2>4, <2>5
<1>5. QED  BY <1>1, <1>2, <1>3, <1>4 DEF Recovery

LEMMA StepOrder ==
    ASSUME OrderInv, Next
    PROVE  OrderInv'
<1>1. RunInv'
    BY StepRuns DEF OrderInv
<1>2. CASE Delete \/ Rollback \/ \E key \in Submissions : Submit(key)
  <2>1. \E kind \in {"submit", "delete", "rollback"}, key \in Nat : Begins(kind, key)
    <3>1. Submissions \subseteq Nat
        BY DEF Submissions
    <3>2. QED  BY <1>2, <3>1 DEF Delete, Rollback, Submit
  <2>2. QED  BY <1>1, <2>1, PlainOperationsOrder
<1>3. CASE Operation
    BY <1>1, <1>3, PlainOperationsOrder, StoresOrder, StartsAndCancelsOrder, MovesOrder DEF Operation
<1>4. CASE Pump \/ Sweep \/ Crash \/ Recovery
    BY <1>1, <1>4, PumpOrder, SweepOrder, RecoveryOrder
<1>5. CASE \E r \in Runs : Cancel(r) \/ Execution(r) \/ CleanupFinalizes(r)
    BY <1>1, <1>5, TailOrder
<1>6. QED  BY <1>2, <1>3, <1>4, <1>5 DEF Next

\* Nothing changes.
LEMMA StutterOrder == OrderInv /\ UNCHANGED vars => OrderInv'
<1> SUFFICES ASSUME OrderInv, UNCHANGED vars PROVE OrderInv'
    OBVIOUS
<1>1. /\ UNCHANGED <<control, session, branch, run, proc, known, live, open, owed, cleanup, pump, timer>>
      /\ UNCHANGED <<op, birth, buried, sweep, doomed, missed, confirmed, upsets>>
    BY DEF vars, diskVars, tailVars, pumpVars, sweepVars
<1>2. OwnedInv'
  <2>1. ConversationInv'
      BY <1>1 DEF OrderInv, RunInv, OwnedInv, ConversationInv, TypeOK, DeletionBooks, Unfinished
  <2>2. OwnedBooks'
      BY <1>1 DEF OrderInv, RunInv, OwnedInv, OwnedBooks, SweepBooks, OpBooks, BirthBooks, DownBooks, Stored
  <2>3. QED  BY <2>1, <2>2 DEF OwnedInv
<1>3. RunFacts' /\ WorkBooks'
    BY <1>1 DEF OrderInv, RunInv, RunFacts, WorkBooks, Stored, Unused, Unfinished, Live
<1>4. /\ Held' = Held /\ (Serving' <=> Serving) /\ (NoneBusy' <=> NoneBusy)
      /\ \A q \in Runs : Busy(q)' <=> Busy(q)
    BY <1>1 DEF Held, Serving, Live, NoneBusy, Busy
<1>5. /\ Visible(Documents)' = Visible(Documents) /\ OnBranch(Documents)' = OnBranch(Documents)
      /\ Visible(pump.view)' = Visible(pump.view) /\ OnBranch(pump.view)' = OnBranch(pump.view)
  <2>1. Documents' = Documents
      BY <1>1 DEF Documents
  <2>2. QED  BY <1>1, <2>1, SeenIs, SeenWillBe
<1>6. QueueBooks'
    BY <1>1, <1>4, <1>5 DEF OrderInv, QueueBooks
<1>7. ClaimBooks'
  <2>1. Claimable(pump.view, pump.cand)' <=> Claimable(pump.view, pump.cand)
      BY <1>1, <1>5 DEF Claimable
  <2>2. ViewAges(pump.view, pump.cand)' <=> ViewAges(pump.view, pump.cand)
      BY <1>1 DEF ViewAges
  <2>3. BranchGrows(pump.view, pump.cand) => BranchGrows(pump.view, pump.cand)'
      BY <1>1, <1>4, <1>5, <2>1 DEF BranchGrows
  <2>4. QED  BY <1>1, <1>4, <2>2, <2>3 DEF OrderInv, ClaimBooks
<1>8. QED  BY <1>2, <1>3, <1>6, <1>7 DEF OrderInv, RunInv

\* One run at a time has the Session, it is visible and before all that wait; and the
\* candidate of the pump is still the next one when it is started, however old the view is
\* with which it was chosen (runConversationActivationAttempt, nextEligibleQueuedRun).
THEOREM OrderInvariant == Spec => []OrderInv
<1>1. OrderInv /\ [Next]_vars => OrderInv'
    BY StepOrder, StutterOrder
<1>2. QED  BY <1>1, InitOrder, PTL DEF Spec

-----------------------------------------------------------------------------
(* Every step is a step of the queue of turns. *)

\* What one run does to its turn.
LEMMA OneTurn ==
    ASSUME NEW r \in Runs,
           \A q \in Runs : q # r => TurnOf(q)' = TurnOf(q),
           \A q \in Runs : run'[q].behind = run[q].behind,
           \/ TurnOf(r)' = TurnOf(r)
           \/ TurnOf(r) \in {"waiting", "active"} /\ TurnOf(r)' = "over"
    PROVE  [Queue!Next]_(Queue!vars)
<1>1. UNCHANGED [q \in Runs |-> run[q].behind]
    OBVIOUS
<1>2. Runs = Queue!Runs
    BY DEF Runs, Queue!Runs
<1>3. CASE TurnOf(r)' = TurnOf(r)
  <2>1. \A q \in Runs : TurnOf(q)' = TurnOf(q)
      BY <1>3
  <2>2. UNCHANGED [q \in Runs |-> TurnOf(q)]
      BY <2>1
  <2>3. QED  BY <1>1, <2>2 DEF Queue!vars
<1>4. CASE TurnOf(r) \in {"waiting", "active"} /\ TurnOf(r)' = "over"
  <2>1. [q \in Runs |-> TurnOf(q)]' = [[q \in Runs |-> TurnOf(q)] EXCEPT ![r] = "over"]
      BY <1>4
  <2>2. [q \in Runs |-> TurnOf(q)][r] \in {"waiting", "active"}
      BY <1>4
  <2>3. Queue!Drop(r) \/ Queue!Finish(r)
      BY <1>1, <2>1, <2>2 DEF Queue!Drop, Queue!Finish, Queue!Moves
  <2>4. QED  BY <1>2, <2>3 DEF Queue!Next
<1>5. QED  BY <1>3, <1>4

LEMMA StartTurn ==
    ASSUME NEW r \in Runs, TurnOf(r) = "waiting", TurnOf(r)' = "active",
           \A q \in Runs : q # r => TurnOf(q)' = TurnOf(q),
           \A q \in Runs : run'[q].behind = run[q].behind,
           \A q \in Runs : TurnOf(q) # "active",
           run[r].behind # 0 => run[r].behind \in Runs /\ TurnOf(run[r].behind) = "over"
    PROVE  [Queue!Next]_(Queue!vars)
<1> DEFINE turn == [q \in Runs |-> TurnOf(q)]
           behind == [q \in Runs |-> run[q].behind]
<1>1. UNCHANGED behind
    OBVIOUS
<1>2. turn' = [turn EXCEPT ![r] = "active"] /\ turn[r] = "waiting"
    OBVIOUS
<1>3. /\ \A q \in Runs : turn[q] # "active"
      /\ behind[r] # 0 => turn[behind[r]] = "over"
    OBVIOUS
<1>4. Runs = Queue!Runs
    BY DEF Runs, Queue!Runs
<1> HIDE DEF turn, behind
<1>5. Queue!Start(r)
    BY <1>1, <1>2, <1>3, <1>4 DEF Queue!Start, Queue!Moves, turn, behind
<1>6. QED  BY <1>4, <1>5 DEF Queue!Next

LEMMA SubmitTurn ==
    ASSUME NEW r \in Runs, TurnOf(r) = "none", TurnOf(r)' = "waiting",
           \A q \in Runs : q # r => TurnOf(q)' = TurnOf(q) /\ run'[q].behind = run[q].behind,
           run'[r].behind \in Nat, run'[r].behind < r
    PROVE  [Queue!Next]_(Queue!vars)
<1> DEFINE turn == [q \in Runs |-> TurnOf(q)]
           behind == [q \in Runs |-> run[q].behind]
<1>1. behind' = [behind EXCEPT ![r] = run'[r].behind]
    OBVIOUS
<1>2. turn' = [turn EXCEPT ![r] = "waiting"] /\ turn[r] = "none"
    OBVIOUS
<1>3. run'[r].behind \in 0 .. r - 1
    BY DEF Runs
<1>4. Runs = Queue!Runs
    BY DEF Runs, Queue!Runs
<1> HIDE DEF turn, behind
<1>5. Queue!Submit(r)
    BY <1>1, <1>2, <1>3 DEF Queue!Submit, Queue!Moves, turn, behind
<1>6. QED  BY <1>4, <1>5 DEF Queue!Next

\* No turn changes: the runs are as before, and so is what has the Session.
LEMMA NoTurn ==
    ASSUME UNCHANGED run, \A r \in Runs : run[r].status \in Terminal => (r \in open' <=> r \in open)
    PROVE  UNCHANGED Queue!vars
<1>1. \A r \in Runs : TurnOf(r)' = TurnOf(r)
    BY DEF TurnOf
<1>2. UNCHANGED [q \in Runs |-> TurnOf(q)] /\ UNCHANGED [q \in Runs |-> run[q].behind]
    BY <1>1
<1>3. QED  BY <1>2 DEF Queue!vars

\* Only the status of one run, or its Session, changes, and it ends if it does anything.
LEMMA OneRunTurns ==
    ASSUME OrderInv, RunInv', NEW r \in Runs, open' \subseteq open,
           \A q \in Runs : q # r => run'[q] = run[q] /\ (q \in open' <=> q \in open),
           run'[r].behind = run[r].behind,
           \/ run'[r].status = run[r].status
           \/ run[r].status \in Present /\ run'[r].status \in Terminal \union {"gone"}
    PROVE  [Queue!Next]_(Queue!vars)
<1> USE DEF OrderInv, RunInv, OwnedInv, ConversationInv
<1>1. \A q \in Runs : q # r => TurnOf(q)' = TurnOf(q)
    BY DEF TurnOf
<1>2. \A q \in Runs : run'[q].behind = run[q].behind
    OBVIOUS
<1>3. run[r].status \in Present \union {"absent", "gone"} /\ (run[r].status = "queued" => r \notin open)
    BY DEF TypeOK, RunRecord, RunFacts, Terminal
<1>4. \/ TurnOf(r)' = TurnOf(r)
      \/ TurnOf(r) \in {"waiting", "active"} /\ TurnOf(r)' = "over"
  <2>1. CASE run[r].status \in {"absent", "gone"}
      BY <2>1 DEF TurnOf, Present, Terminal
  <2>2. CASE run[r].status = "queued"
      BY <1>3, <2>2 DEF TurnOf, Present, Terminal
  <2>3. CASE run[r].status = "running"
    <3>1. TurnOf(r) = "active"
        BY <2>3 DEF TurnOf
    <3>2. TurnOf(r)' \in {"active", "over"}
        BY <2>3 DEF TurnOf, Terminal
    <3>3. QED  BY <3>1, <3>2
  <2>4. CASE run[r].status \in Terminal
    <3>1. TurnOf(r) = IF r \in open THEN "active" ELSE "over"
        BY <2>4 DEF TurnOf, Terminal
    <3>2. TurnOf(r)' = IF run'[r].status \in Terminal /\ r \in open' THEN "active" ELSE "over"
        BY <2>4 DEF TurnOf, Terminal
    <3>3. QED  BY <3>1, <3>2
  <2>5. QED  BY <1>3, <2>1, <2>2, <2>3, <2>4 DEF Present
<1>5. QED  BY <1>1, <1>2, <1>4, OneTurn

\* As long as no run hides its successors, what is active is busy.
LEMMA ActiveIsBusy ==
    ASSUME NEW r \in Runs, ~Hides, TypeOK
    PROVE  TurnOf(r) = "active" <=> Busy(r)
BY DEF TurnOf, Busy, Hides, Terminal, TypeOK, RunRecord, Present

\* A run that is held starts while none is busy.
LEMMA RunningTurns ==
    ASSUME OrderInv, RunInv', ~Hides, NEW r \in Held, Running(r), NoneBusy,
           run[r].behind # 0 =>
               /\ run[run[r].behind].status \in Terminal /\ run[r].behind \notin open
    PROVE  [Queue!Next]_(Queue!vars)
<1> USE DEF OrderInv, RunInv, OwnedInv, ConversationInv
<1>1. /\ r \in Runs /\ run[r].status = "queued" /\ run \in [Runs -> RunRecord] /\ r \in Nat
      /\ \A q \in Runs : run[q].behind \in Nat
  <2>1. r \in Runs /\ run[r].status = "queued"
      BY DEF TypeOK, Held
  <2>2. run \in [Runs -> RunRecord]
      BY DEF TypeOK
  <2>3. r \in Nat
      BY <2>1, BoundsAssumption DEF Runs
  <2>4. \A q \in Runs : run[q].behind \in Nat
      BY <2>2, BoundsAssumption DEF RunRecord
  <2>5. QED  BY <2>1, <2>2, <2>3, <2>4
<1>2. /\ \A q \in Runs : q # r => run'[q] = run[q] /\ (q \in open' <=> q \in open)
      /\ run'[r].status = "running" /\ run'[r].behind = run[r].behind
    BY <1>1 DEF RunRecord, Running
<1>3. TurnOf(r) = "waiting" /\ TurnOf(r)' = "active"
    BY <1>1, <1>2 DEF TurnOf, Terminal
<1>4. \A q \in Runs : q # r => TurnOf(q)' = TurnOf(q)
    BY <1>2 DEF TurnOf
<1>5. \A q \in Runs : TurnOf(q) # "active"
    BY ActiveIsBusy DEF NoneBusy
<1>6. run[r].behind # 0 => run[r].behind \in Runs /\ TurnOf(run[r].behind) = "over"
  <2>1. SUFFICES ASSUME run[r].behind # 0
                 PROVE  run[r].behind \in Runs /\ TurnOf(run[r].behind) = "over"
      OBVIOUS
  <2>2. run[r].behind < r
      BY <1>1 DEF RunFacts
  <2>3. run[r].behind \in Runs
      BY <1>1, <2>1, <2>2, BoundsAssumption DEF Runs
  <2>4. QED  BY <2>1, <2>3 DEF TurnOf, Terminal
<1>7. \A q \in Runs : run'[q].behind = run[q].behind
    BY <1>2
<1>8. QED  BY <1>1, <1>3, <1>4, <1>5, <1>6, <1>7, StartTurn

\* The steps of the pump and of the executions.
LEMMA PumpTurns ==
    ASSUME OrderInv, RunInv', Pump, ~Hides
    PROVE  [Queue!Next]_(Queue!vars)
<1> USE DEF OrderInv, RunInv, OwnedInv, ConversationInv
<1>1. CASE UNCHANGED <<run, open>>
    BY <1>1, NoTurn
<1>2. CASE PumpFinalizes
  <2>1. UNCHANGED run /\ (Finalizes(pump.cand) \/ FinalizationFails(pump.cand))
      BY <1>2 DEF PumpFinalizes
  <2>2. open' \subseteq open /\ \A q \in Runs : q # pump.cand => (q \in open' <=> q \in open)
      BY <2>1, FinalizationKeeps
  <2>3. CASE pump.cand \in Runs
      BY <2>1, <2>2, <2>3, OneRunTurns
  <2>4. CASE pump.cand \notin Runs
      BY <2>1, <2>2, <2>4, NoTurn
  <2>5. QED  BY <2>3, <2>4
<1>3. CASE /\ PumpStarts /\ NextEligible(pump.view) = pump.cand
           /\ ~ (pump.view[pump.cand].behind # 0 /\ ~Cleared(pump.view, pump.view[pump.cand].behind))
           /\ run[pump.cand].status = "queued" /\ Running(pump.cand)
  <2> DEFINE c == pump.cand
             d == pump.view
  <2>1. /\ c \in Held /\ NoneBusy /\ ViewAges(d, c)
      BY <1>3, PumpChoice DEF PumpStarts
  <2>2. /\ c \in Runs /\ c \in known /\ c \in Nat /\ c <= c
        /\ run[c].behind \in Nat /\ run[c].behind < c
    <3>1. c \in Runs /\ c \in known
        BY <2>1 DEF Held, TypeOK
    <3>2. \A q \in Runs : run[q].behind \in Nat /\ run[q].behind < q
        BY BoundsAssumption DEF TypeOK, RunRecord, RunFacts
    <3>3. c \in Nat
        BY <3>1 DEF Runs
    <3>4. QED  BY <3>1, <3>2, <3>3
  <2>3. d[c].behind = run[c].behind
      BY <2>1, <2>2 DEF ViewAges
  <2>4. ASSUME run[c].behind # 0
        PROVE  run[run[c].behind].status \in Terminal /\ run[c].behind \notin open
    <3>1. run[c].behind \in Runs
        BY <2>2, <2>4, BoundsAssumption DEF Runs
    <3>2. d[run[c].behind].status \in Terminal /\ owed[run[c].behind] = "no"
        BY <1>3, <2>3, <2>4 DEF Cleared
    <3>3. run[run[c].behind] = d[run[c].behind]
        BY <2>1, <3>1, <3>2 DEF ViewAges, Terminal
    <3>4. QED  BY <3>1, <3>2, <3>3 DEF RunFacts
  <2>5. QED  BY <1>3, <2>1, <2>4, RunningTurns
<1>4. QED  BY <1>1, <1>2, <1>3 DEF Pump, PumpChooses, PumpStarts, PumpTimer

LEMMA TailTurns ==
    ASSUME OrderInv, RunInv', NEW r \in Runs, Cancel(r) \/ Execution(r) \/ CleanupFinalizes(r)
    PROVE  [Queue!Next]_(Queue!vars)
<1> USE DEF OrderInv, RunInv, OwnedInv, ConversationInv
<1>1. run \in [Runs -> RunRecord]
    BY DEF TypeOK
<1>2. CASE RunAdvances(r)
  <2>1. UNCHANGED open /\ \E p \in {"started", "entered"} : run' = [run EXCEPT ![r].phase = p]
      BY <1>2 DEF RunAdvances, tailVars
  <2>2. /\ \A q \in Runs : q # r => run'[q] = run[q]
        /\ run'[r].behind = run[r].behind /\ run'[r].status = run[r].status
      BY <1>1, <2>1 DEF RunRecord
  <2>3. QED  BY <2>1, <2>2, OneRunTurns
<1>3. CASE RunEnds(r) \/ Cancel(r)
  <2>1. /\ UNCHANGED open /\ run[r].status \in Present
        /\ \E s \in Terminal : run' = [run EXCEPT ![r].status = s]
      BY <1>3 DEF RunEnds, Cancel, Cancelled, CanCancel, Terminal, Present
  <2>2. /\ \A q \in Runs : q # r => run'[q] = run[q]
        /\ run'[r].behind = run[r].behind /\ run'[r].status \in Terminal
      BY <1>1, <2>1 DEF RunRecord
  <2>3. QED  BY <2>1, <2>2, OneRunTurns
<1>4. CASE RunFinalizes(r) \/ CleanupFinalizes(r)
  <2>1. UNCHANGED run /\ (Finalizes(r) \/ FinalizationFails(r))
      BY <1>4 DEF RunFinalizes, CleanupFinalizes
  <2>2. open' \subseteq open /\ \A q \in Runs : q # r => (q \in open' <=> q \in open)
      BY <2>1, FinalizationKeeps
  <2>3. QED  BY <2>1, <2>2, OneRunTurns
<1>5. CASE ExecutionEnds(r)
    BY <1>5, NoTurn DEF ExecutionEnds
<1>6. QED  BY <1>2, <1>3, <1>4, <1>5 DEF Execution

\* The steps of the operations that hold the key.
LEMMA OperationTurns ==
    ASSUME OrderInv, RunInv', Operation, ~Hides
    PROVE  [Queue!Next]_(Queue!vars)
<1> USE DEF OrderInv, RunInv, OwnedInv, ConversationInv
<1>1. run \in [Runs -> RunRecord]
    BY DEF TypeOK
<1>2. CASE UNCHANGED <<run, open>>
    BY <1>2, NoTurn
<1>3. CASE OpStores /\ run' # run
  <2>1. /\ op.pc = "store" /\ UNCHANGED open /\ Unused # {}
        /\ run' = [run EXCEPT ![Least(Unused)] = [status |-> "queued", phase |-> "none",
                                                  behind |-> op.after, key |-> op.key]]
      BY <1>3 DEF OpStores, OpKeeps, tailVars
  <2>2. PICK r \in Runs : r \in Unused /\ r = Least(Unused)
      BY <2>1, Chosen DEF Unused
  <2>3. /\ \A q \in Runs : q # r => run'[q] = run[q]
        /\ run'[r].status = "queued" /\ run'[r].behind = op.after
      BY <1>1, <2>1, <2>2
  <2>4. op.after \in Nat /\ op.after < r
      BY <2>1, <2>2, BoundsAssumption DEF WorkBooks, TypeOK, OpRecord
  <2>5. TurnOf(r) = "none" /\ TurnOf(r)' = "waiting"
    <3>1. run[r].status = "absent"
        BY <2>2 DEF Unused
    <3>2. run'[r].status = "queued"
        BY <2>3
    <3>3. QED  BY <3>1, <3>2 DEF TurnOf, Terminal
  <2>6. \A q \in Runs : q # r => TurnOf(q)' = TurnOf(q) /\ run'[q].behind = run[q].behind
      BY <2>1, <2>3 DEF TurnOf
  <2>7. run'[r].behind \in Nat /\ run'[r].behind < r
      BY <2>3, <2>4
  <2>8. QED  BY <2>2, <2>5, <2>6, <2>7, SubmitTurn
<1>4. CASE OpStarts /\ run[op.run].status = "queued" /\ Running(op.run)
  <2>1. op.run \in Held /\ NoneBusy /\ run[op.run].behind = 0
      BY <1>4, FirstChoice DEF OpStarts
  <2>2. QED  BY <1>4, <2>1, RunningTurns
<1>5. CASE OpCancels /\ \E r \in Unfinished : Cancelled(r)
  <2>1. PICK r \in Unfinished : Cancelled(r)
      BY <1>5
  <2>2. /\ UNCHANGED open /\ r \in Runs /\ run[r].status \in Present /\ "cancelled" \in Terminal
        /\ run' = [run EXCEPT ![r].status = "cancelled"]
      BY <1>5, <2>1 DEF OpCancels, Cancelled, Unfinished, TypeOK, Present, Terminal
  <2>3. /\ \A q \in Runs : q # r => run'[q] = run[q]
        /\ run'[r].behind = run[r].behind /\ run'[r].status \in Terminal
      BY <1>1, <2>2 DEF RunRecord
  <2>4. QED  BY <2>2, <2>3, OneRunTurns
<1>6. CASE UNCHANGED open /\ (OpStores \/ OpCancels)
  <2>1. OpCancels => UNCHANGED run \/ \E r \in Unfinished : Cancelled(r)
      BY DEF OpCancels, Recancelled
  <2>2. QED  BY <1>2, <1>3, <1>5, <1>6, <2>1
<1>7. OpStores \/ OpCancels => UNCHANGED open
    BY DEF OpStores, OpCancels, OpKeeps, tailVars
<1>8. CASE \/ OpReconciles \/ OpAwaits \/ OpControls \/ OpRechecks \/ OpJoins \/ OpTakesBack \/ OpBuries
           \/ OpMoves
    BY <1>2, <1>8 DEF OpReconciles, OpAwaits, OpControls, OpRechecks, OpJoins, OpTakesBack, OpBuries, OpMoves,
                      OpHolds, OpKeeps, tailVars
<1>9. CASE OpStarts
    BY <1>2, <1>4, <1>9 DEF OpStarts
<1>10. QED  BY <1>6, <1>7, <1>8, <1>9 DEF Operation

\* The cleanup removes one run at a time; the process stops, and is started again.
LEMMA SweepTurns ==
    ASSUME OrderInv, RunInv', Sweep
    PROVE  [Queue!Next]_(Queue!vars)
<1> USE DEF OrderInv, RunInv, OwnedInv, ConversationInv
<1>1. UNCHANGED open
    BY DEF Sweep, SweepLists, SweepRun, SweepSession, SweepControl, SweepRetries, SweepKeeps, tailVars
<1>2. CASE UNCHANGED run
    BY <1>1, <1>2, NoTurn
<1>3. CASE \E r \in Runs : run' = Gone(r)
  <2>1. PICK r \in Runs : run' = Gone(r)
      BY <1>3
  <2>2. /\ \A q \in Runs : q # r => run'[q] = run[q]
        /\ run'[r].behind = run[r].behind
        /\ \/ run'[r].status = run[r].status
           \/ run[r].status \in Present /\ run'[r].status = "gone"
      BY <2>1 DEF Gone, TypeOK, RunRecord
  <2>3. QED  BY <1>1, <2>2, OneRunTurns
<1>4. QED  BY <1>2, <1>3 DEF Sweep, SweepLists, SweepRun, SweepSession, SweepControl, SweepRetries, diskVars

LEMMA RecoveryTurns ==
    ASSUME OrderInv, RunInv', Crash \/ Recovery, ~Hides
    PROVE  [Queue!Next]_(Queue!vars)
<1> USE DEF OrderInv, RunInv, OwnedInv, ConversationInv
<1>1. ASSUME open' = {}, NEW r \in Runs,
             \A q \in Runs : q # r => ~Busy(q) /\ run'[q] = run[q],
             run'[r].behind = run[r].behind,
             \/ run'[r].status = run[r].status
             \/ run[r].status \in Present /\ run'[r].status \in Terminal
      PROVE  [Queue!Next]_(Queue!vars)
  <2>1. \A q \in Runs : q # r => TurnOf(q) # "active"
      BY <1>1, ActiveIsBusy
  <2>2. \A q \in Runs : q # r => TurnOf(q)' = TurnOf(q)
      BY <1>1, <2>1 DEF TurnOf
  <2>3. \/ TurnOf(r)' = TurnOf(r)
        \/ TurnOf(r) \in {"waiting", "active"} /\ TurnOf(r)' = "over"
      BY <1>1 DEF TurnOf, Terminal, Present, TypeOK, RunRecord
  <2>4. \A q \in Runs : run'[q].behind = run[q].behind
      BY <1>1
  <2>5. QED  BY <2>2, <2>3, <2>4, OneTurn
<1>2. CASE Crash \/ RecoverRuns
  <2>1. open' = {}
      BY <1>2 DEF Crash, RecoverRuns, RecoverKeeps, tailVars, OwnedBooks, DownBooks
  <2>2. \A q \in Runs :
            /\ run'[q].behind = run[q].behind
            /\ \/ run'[q] = run[q]
               \/ run[q].status = "running" /\ run'[q].status = "failed"
    <3>1. CASE Crash
        BY <3>1 DEF Crash, diskVars
    <3>2. CASE RecoverRuns
      <4>1. run' = [q \in Runs |-> IF run[q].status = "running"
                                   THEN [run[q] EXCEPT !.status = "failed"] ELSE run[q]]
          BY <3>2 DEF RecoverRuns, Recovered
      <4>2. ASSUME NEW q \in Runs
            PROVE  /\ run'[q].behind = run[q].behind
                   /\ \/ run'[q] = run[q]
                      \/ run[q].status = "running" /\ run'[q].status = "failed"
        <5>1. run[q] \in RunRecord
            BY DEF TypeOK
        <5>2. QED  BY <4>1, <5>1 DEF RunRecord
      <4>3. QED  BY <4>2
    <3>3. QED  BY <1>2, <3>1, <3>2
  <2>3. CASE NoneBusy
    <3>1. \A q \in Runs : run'[q] = run[q] /\ TurnOf(q) # "active"
        BY <2>2, <2>3, ActiveIsBusy DEF NoneBusy, Busy
    <3>2. \A q \in Runs : TurnOf(q)' = TurnOf(q)
        BY <2>1, <3>1 DEF TurnOf
    <3>3. UNCHANGED [q \in Runs |-> TurnOf(q)] /\ UNCHANGED [q \in Runs |-> run[q].behind]
        BY <2>2, <3>2
    <3>4. QED  BY <3>3 DEF Queue!vars
  <2>4. CASE ~NoneBusy
    <3>1. PICK r \in Runs : Busy(r)
        BY <2>4 DEF NoneBusy
    <3>2. \A q \in Runs : q # r => ~Busy(q)
        BY <3>1 DEF QueueBooks
    <3>3. \A q \in Runs : q # r => run'[q] = run[q]
        BY <2>2, <3>2 DEF Busy
    <3>4. QED  BY <1>1, <2>1, <2>2, <3>2, <3>3 DEF Present, Terminal
  <2>5. QED  BY <2>3, <2>4
<1>3. CASE RecoverRemains \/ RecoveryEnds
  <2>1. UNCHANGED <<run, open>>
      BY <1>3 DEF RecoverRemains, RecoveryEnds, RecoverKeeps, tailVars, diskVars
  <2>2. QED  BY <2>1, NoTurn
<1>4. QED  BY <1>2, <1>3 DEF Recovery

LEMMA StepTurns ==
    ASSUME OrderInv, Next
    PROVE  [Queue!Next \/ Hides]_(Queue!vars)
<1>1. RunInv'
    BY StepRuns DEF OrderInv
<1>2. SUFFICES ASSUME ~Hides PROVE [Queue!Next]_(Queue!vars)
    OBVIOUS
<1>3. CASE Delete \/ Rollback \/ \E key \in Submissions : Submit(key)
  <2>1. UNCHANGED <<run, open>>
      BY <1>3 DEF Delete, Rollback, Submit, Begins, OpHolds, OpKeeps, tailVars
  <2>2. QED  BY <2>1, NoTurn
<1>4. CASE Operation \/ Pump \/ Sweep \/ Crash \/ Recovery
    BY <1>1, <1>2, <1>4, OperationTurns, PumpTurns, SweepTurns, RecoveryTurns
<1>5. CASE \E r \in Runs : Cancel(r) \/ Execution(r) \/ CleanupFinalizes(r)
    BY <1>1, <1>5, TailTurns
<1>6. QED  BY <1>3, <1>4, <1>5 DEF Next

\* The conversation implements the queue of turns, as long as no run hides its successors: a
\* turn starts once, alone, and after the one it is behind has given the Session back
\* (submitTurn, runConversationActivationAttempt, isSchedulingBarrierCleared).
THEOREM TurnsAreServedInOrder == Spec => ServesInOrder
<1>1. Init => Queue!Init
  <2> SUFFICES ASSUME Init PROVE Queue!Init
      OBVIOUS
  <2>1. \A r \in Runs : TurnOf(r) = "none" /\ run[r].behind = 0
      BY DEF Init, NoView, Absent, TurnOf, Terminal
  <2>2. Runs = Queue!Runs
      BY DEF Runs, Queue!Runs
  <2>3. QED  BY <2>1, <2>2 DEF Queue!Init
<1>2. OrderInv /\ [Next]_vars => [Queue!Next \/ Hides]_(Queue!vars)
  <2>1. OrderInv /\ UNCHANGED vars => UNCHANGED Queue!vars
      BY NoTurn DEF vars, diskVars, tailVars
  <2>2. QED  BY <2>1, StepTurns
<1>3. QED  BY <1>1, <1>2, OrderInvariant, PTL DEF Spec, ServesInOrder

-----------------------------------------------------------------------------
(* Before a second failure a submission is executed once: of two runs of it, *)
(* which only a failure can leave, one has no entries and does not start.    *)

\* A run that has no entries and does not start any more, unless the process stops.
Inert(r) == run[r].phase = "none" /\ (r \notin known \/ run[r].status \in Terminal)

\* A submission is new when its run is stored; what is stored but not held has no entries.
KeyBooks ==
    /\ op.pc = "store" => ~Known(op.key)
    /\ Live /\ control # "deleted" => \A r \in Stored \ known : run[r].phase = "none"

\* Nothing was asked of the pump, and nothing is executed.
Untouched ==
    /\ pump.pc = "idle" /\ ~timer /\ live = {}
    /\ \A r \in Runs : cleanup[r] = "off"

\* The first submission of a conversation, up to the start of its run.
BirthGoesOn ==
    /\ control = "none" \/ (op.created /\ op.pc = "store") => Untouched
    /\ op.created /\ op.pc = "start" =>
           /\ live = {} /\ run[op.run].phase = "none"
           /\ run[op.run].status = "queued" => Untouched
           /\ run[op.run].status \in {"queued", "cancelled"}
    /\ op.pc = "failed" =>
           /\ op.run \in Runs /\ run[op.run].phase = "none" /\ run[op.run].status = "cancelled"

\* Before the first failure every run is held, and nothing is taken back or deleted.
FreshBooks ==
    upsets = 0 =>
        /\ proc = "live" /\ ~birth /\ ~doomed /\ sweep.pc = "off"
        /\ op.kind # "delete" /\ op.pc \notin {"tombstone", "cancel"}
        /\ \A r \in Runs : run[r].status # "absent" => r \in known
        /\ BirthGoesOn

\* Before the second one, of two runs of one submission one does not start.
OnceBooks ==
    upsets < 2 =>
        /\ doomed => \A r \in Stored : Inert(r)
        /\ control # "deleted" => \A r \in Runs : run[r].status = "gone" => run[r].phase = "none"
        /\ \A r, q \in Runs : Twins(r, q) => Live /\ upsets # 0 /\ (Inert(r) \/ Inert(q))

OnceInv == RunInv /\ KeyBooks /\ FreshBooks /\ OnceBooks

LEMMA InitOnce == Init => OnceInv
<1> SUFFICES ASSUME Init PROVE OnceInv
    OBVIOUS
<1>1. RunInv
    BY InitOrder DEF OrderInv
<1>2. \A r \in Runs : run[r].status = "absent"
    BY DEF Init, NoView, Absent
<1>3. /\ known = {} /\ live = {} /\ proc = "live" /\ ~birth /\ ~doomed /\ ~timer /\ pump.pc = "idle"
      /\ sweep.pc = "off" /\ op.kind = "none" /\ op.pc = "idle" /\ \A r \in Runs : cleanup[r] = "off"
    BY DEF Init, NoPump, NoOp, NoSweep
<1>4. KeyBooks
    BY <1>2, <1>3 DEF KeyBooks, Stored, Present, Terminal
<1>5. FreshBooks
    BY <1>2, <1>3 DEF FreshBooks, BirthGoesOn, Untouched
<1>6. OnceBooks
    BY <1>2, <1>3 DEF OnceBooks, Twins
<1>7. QED  BY <1>1, <1>4, <1>5, <1>6 DEF OnceInv

\* Every run that was inert is still, and nothing new is stored.
Onward ==
    \A r \in Runs :
        /\ run'[r].key = run[r].key
        /\ run'[r].status = "absent" <=> run[r].status = "absent"
        /\ r \in known' => r \in known
        /\ run[r].status \in Terminal => run'[r].status \in Terminal \union {"gone"}
        /\ run[r].status = "gone" => run'[r].status = "gone"
        /\ \/ run'[r].phase = run[r].phase
           \/ r \in known /\ run[r].status = "running" /\ run'[r].status = "running"
        /\ run'[r].status \in Present /\ r \notin known' => r \notin known
        /\ run'[r].status = "gone" =>
               run[r].status = "gone" \/ run[r].phase = "none" \/ control = "deleted" \/ ~(upsets < 2)

LEMMA InertStays ==
    ASSUME RunFacts', Onward, NEW r \in Runs, Inert(r)
    PROVE  Inert(r)'
<1>1. r \in known' => run'[r].status # "gone"
  <2>1. known' \subseteq Stored'
      BY DEF RunFacts
  <2>2. QED  BY <2>1 DEF Stored, Present, Terminal
<1>2. run'[r].phase = "none"
    BY DEF Inert, Onward, Terminal
<1>3. r \notin known' \/ run'[r].status \in Terminal
    BY <1>1 DEF Inert, Onward
<1>4. QED  BY <1>2, <1>3 DEF Inert

\* What goes on keeps the books.
LEMMA OnwardOnce ==
    ASSUME OnceInv, RunInv', Onward, Live' <=> Live, upsets \in Nat, upsets' \in {upsets, upsets + 1},
           control = "deleted" => control' = "deleted",
           op'.pc = "store" => ~Known(op'.key) \/ (op.pc = "store" /\ op'.key = op.key),
           doomed' /\ upsets' < 2 => doomed \/ \A r \in Stored : Inert(r)
    PROVE  KeyBooks' /\ OnceBooks'
<1>1. RunFacts' /\ RunFacts /\ run \in [Runs -> RunRecord] /\ run' \in [Runs -> RunRecord]
      /\ known \subseteq Runs /\ known' \subseteq Runs
    BY DEF OnceInv, RunInv, OwnedInv, ConversationInv, TypeOK
<1>2. Stored' \subseteq Stored /\ \A r \in Stored' \ known' : r \in Stored \ known
    BY <1>1 DEF Stored, Present, Onward, RunRecord
<1>3. KeyBooks'
  <2>1. ASSUME NEW key, ~Known(key) PROVE \A r \in known' : run'[r].key # key
      BY <1>1, <2>1 DEF Known, Onward
  <2>2. op'.pc = "store" => ~Known(op'.key)
      BY DEF OnceInv, KeyBooks
  <2>3. op'.pc = "store" => \A r \in known' : run'[r].key # op'.key
      BY <2>1, <2>2
  <2>4. ASSUME Live, control # "deleted", NEW r \in Stored' \ known' PROVE run'[r].phase = "none"
    <3>1. r \in Stored \ known /\ r \in Runs
        BY <1>2, <2>4 DEF Stored
    <3>2. QED  BY <2>4, <3>1 DEF OnceInv, KeyBooks, Onward
  <2>5. QED  BY <2>3, <2>4 DEF KeyBooks, Known
<1>4. OnceBooks'
  <2>1. SUFFICES ASSUME upsets' < 2
                 PROVE  /\ doomed' => \A r \in Stored' : Inert(r)'
                        /\ control' # "deleted" => \A r \in Runs : run'[r].status = "gone" => run'[r].phase = "none"
                        /\ \A r, q \in Runs : Twins(r, q)' => Live' /\ upsets' # 0 /\ (Inert(r)' \/ Inert(q)')
      BY DEF OnceBooks
  <2>2. upsets < 2
      BY <2>1
  <2>3. doomed' => \A r \in Stored' : Inert(r)'
    <3>1. doomed' => \A r \in Stored : Inert(r)
        BY <2>1, <2>2 DEF OnceInv, OnceBooks
    <3>2. \A r \in Stored' : r \in Runs /\ r \in Stored
        BY <1>2 DEF Stored
    <3>3. QED  BY <1>1, <3>1, <3>2, InertStays
  <2>4. ASSUME control' # "deleted", NEW r \in Runs, run'[r].status = "gone" PROVE run'[r].phase = "none"
    <3>1. run[r].phase = "none"
        BY <2>2, <2>4 DEF OnceInv, OnceBooks, Onward
    <3>2. QED  BY <2>4, <3>1 DEF Onward
  <2>5. ASSUME NEW r \in Runs, NEW q \in Runs, Twins(r, q)'
        PROVE  Live' /\ upsets' # 0 /\ (Inert(r)' \/ Inert(q)')
    <3>1. Twins(r, q)
        BY <2>5 DEF Twins, Onward
    <3>2. Live /\ upsets # 0 /\ (Inert(r) \/ Inert(q))
        BY <2>2, <3>1 DEF OnceInv, OnceBooks
    <3>3. QED  BY <1>1, <3>2, InertStays
  <2>6. QED  BY <2>3, <2>4, <2>5
<1>5. QED  BY <1>3, <1>4

LEMMA QuietOnward == UNCHANGED <<run, known>> => Onward
BY DEF Onward

\* A run that is held starts, goes on or ends.
LEMMA OneOnward ==
    ASSUME TypeOK, NEW r \in known, run[r].status \in {"queued", "running"}, UNCHANGED known,
           \/ \E s \in Terminal \union {"running"} : run' = [run EXCEPT ![r].status = s]
           \/ /\ run[r].status = "running"
              /\ \E p \in {"started", "entered"} : run' = [run EXCEPT ![r].phase = p]
    PROVE  Onward
<1>1. /\ r \in Runs /\ \A q \in Runs : q # r => run'[q] = run[q]
      /\ run'[r].key = run[r].key /\ run'[r].status \in Terminal \union {"running"}
      /\ \/ run'[r].phase = run[r].phase
         \/ run[r].status = "running" /\ run'[r].status = "running"
    BY DEF TypeOK, RunRecord
<1>2. QED  BY <1>1 DEF Onward, Terminal

-----------------------------------------------------------------------------

\* The pump has nothing to do before the start of the first run.
LEMMA PumpOnce ==
    ASSUME OnceInv, RunInv', Pump
    PROVE  OnceInv'
<1> USE DEF OnceInv, RunInv, OwnedInv, ConversationInv
<1>1. /\ Live /\ UNCHANGED <<control, proc, known, op, birth, sweep, doomed, cleanup>>
      /\ upsets \in Nat /\ upsets' \in {upsets, upsets + 1}
      /\ pump.pc # "idle" \/ timer
  <2>1. Live /\ UNCHANGED <<control, proc, known, op, birth, sweep, doomed, cleanup>>
      BY DEF Pump, PumpChooses, PumpFinalizes, PumpStarts, PumpTimer, PumpKeeps, sweepVars
  <2>2. upsets' \in {upsets, upsets + 1}
      BY DEF Pump, PumpChooses, PumpFinalizes, PumpStarts, PumpTimer, Upset, Finalizes, FinalizationFails
  <2>3. pump.pc # "idle" \/ timer
      BY DEF Pump, PumpChooses, PumpFinalizes, PumpStarts, PumpTimer
  <2>4. QED  BY <2>1, <2>2, <2>3 DEF TypeOK
<1>2. \/ UNCHANGED <<run, live>>
      \/ Running(pump.cand) /\ run[pump.cand].status = "queued" /\ pump.cand \in known
    BY DEF Pump, PumpChooses, PumpFinalizes, PumpStarts, PumpTimer, DeletionBooks
<1>3. Onward
  <2>1. CASE UNCHANGED run
      BY <1>1, <2>1, QuietOnward
  <2>2. CASE Running(pump.cand) /\ run[pump.cand].status = "queued" /\ pump.cand \in known
    <3>1. \E s \in Terminal \union {"running"} : run' = [run EXCEPT ![pump.cand].status = s]
        BY <2>2 DEF Running
    <3>2. QED  BY <1>1, <2>2, <3>1, OneOnward
  <2>3. QED  BY <1>2, <2>1, <2>2
<1>4. KeyBooks' /\ OnceBooks'
    BY <1>1, <1>3, OnwardOnce DEF Live
<1>5. FreshBooks'
  <2>1. SUFFICES ASSUME upsets' = 0 PROVE FreshBooks'
      BY DEF FreshBooks
  <2>2. upsets = 0 /\ ~Untouched
      BY <1>1, <2>1 DEF Untouched
  <2>3. \A r \in Runs : run'[r].status # "absent" => r \in known'
      BY <1>1, <1>3, <2>2 DEF FreshBooks, Onward
  <2>4. BirthGoesOn'
    <3>1. control # "none" /\ ~(op.created /\ op.pc = "store")
        BY <2>2 DEF FreshBooks, BirthGoesOn
    <3>2. CASE UNCHANGED <<run, live>>
        BY <1>1, <2>2, <3>1, <3>2 DEF FreshBooks, BirthGoesOn
    <3>3. CASE Running(pump.cand) /\ run[pump.cand].status = "queued" /\ pump.cand \in known
      <4>1. ~(op.created /\ op.pc = "start")
        <5>1. SUFFICES ASSUME op.created, op.pc = "start" PROVE FALSE
            OBVIOUS
        <5>2. run[op.run].status # "queued"
            BY <2>2, <5>1 DEF FreshBooks, BirthGoesOn
        <5>3. pump.cand = op.run
            BY <3>3, <5>1 DEF OwnedBooks, OpBooks, RunFacts
        <5>4. QED  BY <3>3, <5>2, <5>3
      <4>2. op.pc = "failed" => op.run \in Runs /\ run[op.run].phase = "none" /\ run[op.run].status = "cancelled"
          BY <2>2 DEF FreshBooks, BirthGoesOn
      <4>3. op.pc = "failed" => run'[op.run] = run[op.run]
          BY <3>3, <4>2 DEF Running, TypeOK
      <4>4. QED  BY <1>1, <3>1, <4>1, <4>2, <4>3 DEF BirthGoesOn
    <3>4. QED  BY <1>2, <3>2, <3>3
  <2>5. QED  BY <1>1, <2>2, <2>3, <2>4 DEF FreshBooks
<1>6. QED  BY <1>4, <1>5

\* Nor do the executions and their cleanups.
LEMMA TailOnce ==
    ASSUME OnceInv, RunInv', NEW r \in Runs, Cancel(r) \/ Execution(r) \/ CleanupFinalizes(r)
    PROVE  OnceInv'
<1> USE DEF OnceInv, RunInv, OwnedInv, ConversationInv
<1>1. /\ Live /\ UNCHANGED <<control, proc, known, op, birth, sweep, doomed>>
      /\ upsets \in Nat /\ upsets' \in {upsets, upsets + 1}
  <2>1. Live /\ UNCHANGED <<control, proc, known, op, birth, sweep, doomed>>
      BY DEF Cancel, Execution, RunAdvances, RunEnds, RunFinalizes, ExecutionEnds, CleanupFinalizes,
             TailKeeps, sweepVars, Live
  <2>2. upsets' \in {upsets, upsets + 1}
      BY DEF Cancel, Execution, RunAdvances, RunEnds, RunFinalizes, ExecutionEnds, CleanupFinalizes,
             Upset, Finalizes, FinalizationFails
  <2>3. QED  BY <2>1, <2>2 DEF TypeOK
<1> DEFINE Goes ==
        /\ r \in known /\ run[r].status \in {"queued", "running"}
        /\ \/ \E s \in Terminal \union {"running"} : run' = [run EXCEPT ![r].status = s]
           \/ /\ run[r].status = "running"
              /\ \E p \in {"started", "entered"} : run' = [run EXCEPT ![r].phase = p]
<1>2. UNCHANGED run \/ Goes
  <2>1. CASE RunAdvances(r)
    <3>1. r \in known /\ run[r].status = "running"
        BY <2>1 DEF RunAdvances, RunFacts
    <3>2. \E p \in {"started", "entered"} : run' = [run EXCEPT ![r].phase = p]
        BY <2>1 DEF RunAdvances
    <3>3. QED  BY <3>1, <3>2
  <2>2. CASE RunEnds(r) \/ Cancel(r)
    <3>1. r \in known /\ run[r].status \in {"queued", "running"}
        BY <2>2 DEF RunEnds, Cancel, CanCancel, RunFacts
    <3>2. \E s \in Terminal \union {"running"} : run' = [run EXCEPT ![r].status = s]
        BY <2>2 DEF RunEnds, Cancel, Cancelled, Terminal
    <3>3. QED  BY <3>1, <3>2
  <2>3. CASE RunFinalizes(r) \/ ExecutionEnds(r) \/ CleanupFinalizes(r)
      BY <2>3 DEF RunFinalizes, ExecutionEnds, CleanupFinalizes
  <2>4. QED  BY <2>1, <2>2, <2>3 DEF Execution
<1>3. Onward
    BY <1>1, <1>2, QuietOnward, OneOnward
<1>4. KeyBooks' /\ OnceBooks'
    BY <1>1, <1>3, OnwardOnce DEF Live
<1>5. FreshBooks'
  <2>1. SUFFICES ASSUME upsets' = 0 PROVE FreshBooks'
      BY DEF FreshBooks
  <2>2. upsets = 0
      BY <1>1, <2>1
  <2>3. \A q \in Runs : run'[q].status # "absent" => q \in known'
      BY <1>1, <1>3, <2>2 DEF FreshBooks, Onward
  <2>4. op.pc = "failed" => op.run \in Runs /\ run[op.run].phase = "none" /\ run[op.run].status = "cancelled"
                            /\ run'[op.run] = run[op.run]
    <3>1. op.pc = "failed" => op.run \in Runs /\ run[op.run].phase = "none" /\ run[op.run].status = "cancelled"
        BY <2>2 DEF FreshBooks, BirthGoesOn
    <3>2. Goes => \A q \in Runs : q # r => run'[q] = run[q]
        BY DEF TypeOK
    <3>3. op.pc = "failed" /\ Goes => op.run # r
        BY <3>1
    <3>4. QED  BY <1>2, <3>1, <3>2, <3>3
  <2>5. BirthGoesOn'
    <3>1. CASE Cancel(r)
      <4>1. r \in Stored
          BY <3>1 DEF Cancel, CanCancel, RunFacts
      <4>2. control # "none" /\ ~(op.created /\ op.pc = "store")
          BY <4>1 DEF OwnedBooks, OpBooks, BirthBooks
      <4>3. op.created /\ op.pc = "start" => /\ live' = {} /\ run'[op.run].phase = "none"
                                             /\ run'[op.run].status = "cancelled"
        <5>1. SUFFICES ASSUME op.created, op.pc = "start"
                       PROVE  live' = {} /\ run'[op.run].phase = "none" /\ run'[op.run].status = "cancelled"
            OBVIOUS
        <5>2. op.run = r /\ live = {} /\ run[r].phase = "none"
            BY <2>2, <4>1, <5>1 DEF OwnedBooks, OpBooks, FreshBooks, BirthGoesOn
        <5>3. UNCHANGED live /\ run' = [run EXCEPT ![r].status = "cancelled"]
            BY <3>1 DEF Cancel, Cancelled
        <5>4. QED  BY <5>2, <5>3 DEF TypeOK, RunRecord
      <4>4. QED  BY <1>1, <2>4, <4>2, <4>3 DEF BirthGoesOn
    <3>2. CASE Execution(r)
      <4>1. live # {}
          BY <3>2 DEF Execution, RunAdvances, RunEnds, RunFinalizes, ExecutionEnds
      <4>2. ~Untouched
          BY <4>1 DEF Untouched
      <4>3. control # "none" /\ ~(op.created /\ op.pc = "store") /\ ~(op.created /\ op.pc = "start")
          BY <2>2, <4>1, <4>2 DEF FreshBooks, BirthGoesOn
      <4>4. QED  BY <1>1, <2>4, <4>3 DEF BirthGoesOn
    <3>3. CASE CleanupFinalizes(r)
      <4>1. ~Untouched /\ UNCHANGED <<run, live>>
          BY <3>3 DEF CleanupFinalizes, Untouched
      <4>2. QED  BY <1>1, <2>2, <4>1 DEF FreshBooks, BirthGoesOn
    <3>4. QED  BY <3>1, <3>2, <3>3
  <2>6. QED  BY <1>1, <2>2, <2>3, <2>5 DEF FreshBooks
<1>6. QED  BY <1>4, <1>5

\* A cleanup removes what has no entries, or what is behind the tombstone.
LEMMA SweepOnce ==
    ASSUME OnceInv, RunInv', Sweep
    PROVE  OnceInv'
<1> USE DEF OnceInv, RunInv, OwnedInv, ConversationInv
<1>1. /\ Live /\ UNCHANGED <<proc, op>> /\ sweep \in SweepRecord /\ sweep.pc # "off"
      /\ control = "deleted" => control' = "deleted"
      /\ upsets \in Nat /\ upsets' \in {upsets, upsets + 1}
  <2>1. /\ Live /\ UNCHANGED <<proc, op>> /\ sweep \in SweepRecord /\ sweep.pc # "off"
        /\ control = "deleted" => control' = "deleted"
      BY DEF Sweep, SweepLists, SweepRun, SweepSession, SweepControl, SweepRetries, SweepKeeps, TypeOK,
             diskVars, DeletionBooks
  <2>2. upsets' \in {upsets, upsets + 1}
      BY DEF Sweep, SweepLists, SweepRun, SweepSession, SweepControl, SweepRetries, Upset
  <2>3. QED  BY <2>1, <2>2 DEF TypeOK
<1>2. doomed' => doomed
  <2>1. ASSUME NEW f, SweepEnds(f) PROVE doomed' => doomed
      BY <2>1 DEF SweepEnds
  <2>2. CASE SweepRetries
      BY <1>1, <2>2 DEF SweepRetries, Schedule, DeletionBooks
  <2>3. CASE SweepSession
      BY <2>1, <2>3 DEF SweepSession
  <2>4. CASE SweepControl
      BY <2>1, <2>4 DEF SweepControl
  <2>5. CASE SweepLists \/ \E r \in Runs : SweepRun(r)
      BY <2>5 DEF SweepLists, SweepRun
  <2>6. QED  BY <2>2, <2>3, <2>4, <2>5 DEF Sweep
<1>3. Onward
  <2>1. CASE UNCHANGED <<run, known>>
      BY <2>1, QuietOnward
  <2>2. CASE \E r \in Runs : SweepRun(r) /\ run' = Gone(r) /\ known' = known \ {r}
    <3>1. PICK r \in Runs : SweepRun(r) /\ run' = Gone(r) /\ known' = known \ {r}
        BY <2>2
    <3>2. /\ \A q \in Runs : q # r => run'[q] = run[q]
          /\ run'[r].key = run[r].key /\ run'[r].phase = run[r].phase
          /\ \/ run[r].status \in Present /\ run'[r].status = "gone"
             \/ run[r].status \notin Present /\ run'[r] = run[r]
        BY <3>1 DEF Gone, TypeOK, RunRecord
    <3>3. run[r].status \in Present => run[r].phase = "none" \/ control = "deleted" \/ ~(upsets < 2)
      <4>1. sweep.pc = "runs"
          BY <3>1 DEF SweepRun
      <4>2. sweep.mode = "tombstone" => control = "deleted"
          BY <4>1 DEF OwnedBooks, SweepBooks
      <4>3. sweep.mode # "tombstone" => doomed
          BY <4>1 DEF DeletionBooks
      <4>4. QED  BY <4>2, <4>3 DEF OnceBooks, Stored, Inert
    <3>4. "gone" \notin Present /\ "absent" \notin Present /\ Terminal \subseteq Present
        BY DEF Present, Terminal
    <3>5. ASSUME NEW q \in Runs
          PROVE  /\ run'[q].key = run[q].key
                 /\ run'[q].status = "absent" <=> run[q].status = "absent"
                 /\ q \in known' => q \in known
                 /\ run[q].status \in Terminal => run'[q].status \in Terminal \union {"gone"}
                 /\ run[q].status = "gone" => run'[q].status = "gone"
                 /\ run'[q].phase = run[q].phase
                 /\ run'[q].status \in Present /\ q \notin known' => q \notin known
                 /\ run'[q].status = "gone" =>
                        run[q].status = "gone" \/ run[q].phase = "none" \/ control = "deleted" \/ ~(upsets < 2)
      <4>1. CASE q # r
          BY <3>1, <3>2, <4>1
      <4>2. CASE q = r
        <5>1. r \in known => run[r].status \in Present
            BY DEF RunFacts, Stored
        <5>2. QED  BY <3>1, <3>2, <3>3, <3>4, <4>2, <5>1
      <4>3. QED  BY <4>1, <4>2
    <3>6. QED  BY <3>5 DEF Onward
  <2>3. QED  BY <2>1, <2>2 DEF Sweep, SweepLists, SweepRun, SweepSession, SweepControl, SweepRetries, diskVars
<1>4. KeyBooks' /\ OnceBooks'
    BY <1>1, <1>2, <1>3, OnwardOnce DEF Live
<1>5. FreshBooks'
    BY <1>1 DEF FreshBooks
<1>6. QED  BY <1>4, <1>5

\* An operation that leaves the runs alone, before the first failure.
LEMMA QuietFresh ==
    ASSUME FreshBooks, upsets = 0, UNCHANGED <<run, known, live, proc>>,
           ~birth', ~doomed', sweep'.pc = "off", op'.kind # "delete",
           op'.pc \notin {"tombstone", "cancel", "start", "failed"},
           control' = "none" \/ (op'.created /\ op'.pc = "store") => Untouched'
    PROVE  FreshBooks'
<1>1. BirthGoesOn'
    BY DEF BirthGoesOn
<1>2. QED  BY <1>1 DEF FreshBooks

LEMMA BeginsOnce ==
    ASSUME OnceInv, RunInv', Delete \/ Rollback \/ \E key \in Submissions : Submit(key)
    PROVE  OnceInv'
<1> USE DEF OnceInv, RunInv, OwnedInv, ConversationInv
<1>1. PICK kind \in {"submit", "delete", "rollback"}, key \in Nat :
          /\ Begins(kind, key)
          /\ (kind = "submit" /\ UNCHANGED upsets) \/ upsets' = upsets + 1
  <2>1. Submissions \subseteq Nat
      BY DEF Submissions
  <2>2. CASE Delete \/ Rollback
      BY <2>2 DEF Delete, Rollback, Upset
  <2>3. CASE \E key \in Submissions : Submit(key)
      BY <2>1, <2>3 DEF Submit
  <2>4. QED  BY <2>2, <2>3
<1> DEFINE o == [NoOp EXCEPT !.kind = kind, !.key = key]
<1>2. /\ Live /\ UNCHANGED <<run, known, live, cleanup, pump, timer, proc, control, birth>>
      /\ upsets \in Nat /\ upsets' \in {upsets, upsets + 1}
      /\ \/ birth /\ op' = [o EXCEPT !.pc = "reconcile", !.then = "settle"] /\ UNCHANGED <<sweep, doomed>>
         \/ SettleCleanup(o)
    BY <1>1 DEF Begins, OpHolds, OpKeeps, tailVars, pumpVars, sweepVars, Live, TypeOK
<1>3. o \in OpRecord /\ o.kind = kind
  <2>1. NoOp \in OpRecord
      BY BoundsAssumption DEF NoOp, OpRecord
  <2>2. QED  BY <2>1 DEF OpRecord
<1> HIDE DEF o
<1>4. (doomed' => doomed) /\ op'.pc # "store"
  <2>1. CASE op' = [o EXCEPT !.pc = "reconcile", !.then = "settle"] /\ UNCHANGED doomed
      BY <1>3, <2>1 DEF OpRecord
  <2>2. CASE SettleCleanup(o)
      BY <1>3, <2>2, SettleKeeps
  <2>3. QED  BY <1>2, <2>1, <2>2
<1>5. KeyBooks' /\ OnceBooks'
  <2>1. Onward
      BY <1>2, QuietOnward
  <2>2. QED  BY <1>2, <1>4, <2>1, OnwardOnce DEF Live
<1>6. FreshBooks'
  <2>1. SUFFICES ASSUME upsets' = 0 PROVE FreshBooks'
      BY DEF FreshBooks
  <2>2. upsets = 0 /\ kind = "submit" /\ ~birth /\ ~doomed /\ sweep.pc = "off"
      BY <1>1, <1>2, <2>1 DEF FreshBooks
  <2>3. op' = [o EXCEPT !.pc = Body(o.kind)] /\ UNCHANGED <<sweep, doomed>>
      BY <1>2, <2>2 DEF SettleCleanup, sweepVars
  <2>4. op'.pc = "control" /\ op'.kind = "submit"
      BY <1>3, <2>2, <2>3 DEF OpRecord, Body
  <2>5. control' = "none" => Untouched'
      BY <1>2, <2>2 DEF FreshBooks, BirthGoesOn, Untouched
  <2>6. QED  BY <1>2, <2>2, <2>3, <2>4, <2>5, QuietFresh
<1>7. QED  BY <1>5, <1>6

\* The operations that leave the runs alone: a submission is new when it is to be stored, and
\* what is taken back has no entries.
LEMMA PlainOperationsOnce ==
    ASSUME OnceInv, RunInv',
           \/ OpReconciles \/ OpAwaits \/ OpControls \/ OpRechecks \/ OpJoins \/ OpTakesBack \/ OpBuries
           \/ OpMoves
    PROVE  OnceInv'
<1> USE DEF OnceInv, RunInv, OwnedInv, ConversationInv
<1>1. /\ Live /\ UNCHANGED <<run, known, live, cleanup, proc>> /\ op \in OpRecord
      /\ upsets \in Nat /\ upsets' \in {upsets, upsets + 1}
      /\ control = "deleted" => control' = "deleted"
  <2>1. Live /\ UNCHANGED <<run, known, live, cleanup, proc>> /\ op \in OpRecord
      BY DEF OpReconciles, OpAwaits, OpControls, OpRechecks, OpJoins, OpTakesBack, OpBuries, OpHolds,
             OpKeeps, OpMoves, tailVars, TypeOK
  <2>2. upsets' \in {upsets, upsets + 1}
      BY DEF OpReconciles, OpAwaits, OpControls, OpRechecks, OpJoins, OpTakesBack, OpBuries, OpMoves, Upset
  <2>3. control = "deleted" => control' = "deleted"
      BY DEF OpReconciles, OpAwaits, OpControls, OpRechecks, OpJoins, OpTakesBack, OpBuries, OpMoves
  <2>4. QED  BY <2>1, <2>2, <2>3 DEF TypeOK
<1>2. Onward
    BY <1>1, QuietOnward
<1>3. ASSUME doomed' /\ upsets' < 2 => doomed \/ \A r \in Stored : Inert(r),
             op'.pc = "store" => ~Known(op'.key),
             upsets' = 0 /\ upsets = 0 => FreshBooks'
      PROVE  OnceInv'
  <2>1. KeyBooks' /\ OnceBooks'
      BY <1>1, <1>2, <1>3, OnwardOnce DEF Live
  <2>2. FreshBooks'
      BY <1>1, <1>3 DEF FreshBooks
  <2>3. QED  BY <2>1, <2>2
<1>4. NoOp.pc = "idle" /\ NoOp.kind = "none"
    BY DEF NoOp
<1>5. UNCHANGED <<pump, timer>> => (Untouched' <=> Untouched)
    BY <1>1 DEF Untouched
<1>6. upsets = 0 => ~birth /\ ~doomed /\ sweep.pc = "off" /\ (control = "none" => Untouched)
    BY DEF FreshBooks, BirthGoesOn
<1>7. CASE OpReconciles
  <2>1. birth /\ Stored = {} /\ upsets # 0
      BY <1>6, <1>7 DEF OpReconciles, OwnedBooks, OpBooks, BirthBooks
  <2>2. op'.pc # "store"
    <3>1. CASE SettleCleanup(op)
        BY <1>1, <3>1, SettleKeeps
    <3>2. CASE Returns \/ Goto("await")
        BY <1>1, <1>4, <3>2 DEF Returns, Goto, OpRecord
    <3>3. QED  BY <1>7, <3>1, <3>2 DEF OpReconciles
  <2>3. QED  BY <1>3, <2>1, <2>2
<1>8. CASE OpAwaits
  <2>1. UNCHANGED <<control, pump, timer, birth, sweep, doomed>>
      BY <1>8 DEF OpAwaits, pumpVars, sweepVars
  <2>2. /\ op'.pc \in {"idle", "control", "move", "tombstone"}
        /\ op'.kind = "none" \/ op'.kind = op.kind
        /\ op.kind # "delete" => op'.pc # "tombstone"
    <3>1. CASE Returns
        BY <1>4, <3>1 DEF Returns
    <3>2. CASE Goto(Body(op.kind))
        BY <1>1, <3>2 DEF Goto, Body, OpRecord
    <3>3. QED  BY <1>8, <3>1, <3>2 DEF OpAwaits
  <2>3. upsets = 0 => FreshBooks'
      BY <1>1, <1>5, <1>6, <2>1, <2>2, QuietFresh DEF FreshBooks
  <2>4. QED  BY <1>3, <2>1, <2>2, <2>3
<1>9. CASE OpControls
  <2>1. op.pc = "control" /\ ~op.created /\ UNCHANGED <<pump, timer, sweep, doomed>>
      BY <1>9 DEF OpControls, pumpVars, sweepVars, OwnedBooks, OpBooks
  <2>2. CASE Returns /\ UNCHANGED <<control, birth>>
    <3>1. upsets = 0 => FreshBooks'
        BY <1>1, <1>4, <1>5, <1>6, <2>1, <2>2, QuietFresh DEF Returns
    <3>2. QED  BY <1>3, <1>4, <2>1, <2>2, <3>1 DEF Returns
  <2>3. CASE /\ control = "live" /\ ~Known(op.key) /\ UNCHANGED <<control, birth>>
             /\ op' = [op EXCEPT !.pc = "store", !.after = Greatest(Visible(Documents))]
    <3>1. op'.pc = "store" /\ op'.key = op.key /\ op'.kind = op.kind /\ ~op'.created
        BY <1>1, <2>1, <2>3 DEF OpRecord
    <3>2. upsets = 0 => FreshBooks'
        BY <1>1, <1>6, <2>1, <2>3, <3>1, QuietFresh DEF FreshBooks
    <3>3. QED  BY <1>3, <2>1, <2>3, <3>1, <3>2
  <2>4. CASE /\ control = "none" /\ ~Known(op.key) /\ UNCHANGED birth
             /\ op' = [op EXCEPT !.pc = "store", !.created = TRUE]
    <3>1. op'.pc = "store" /\ op'.key = op.key /\ op'.kind = op.kind
        BY <1>1, <2>4 DEF OpRecord
    <3>2. upsets = 0 => FreshBooks'
        BY <1>1, <1>5, <1>6, <2>1, <2>4, <3>1, QuietFresh DEF FreshBooks
    <3>3. QED  BY <1>3, <2>1, <2>4, <3>1, <3>2
  <2>5. CASE /\ upsets' = upsets + 1
             /\ op' = [op EXCEPT !.pc = "reconcile", !.then = "throw"] \/ Returns
    <3>1. ~(upsets' = 0 /\ upsets = 0)
        BY <1>1, <2>5
    <3>2. op' = [op EXCEPT !.pc = "reconcile", !.then = "throw"] => op'.pc = "reconcile"
        BY <1>1 DEF OpRecord
    <3>3. op'.pc # "store"
        BY <1>4, <2>5, <3>2 DEF Returns
    <3>4. QED  BY <1>3, <2>1, <3>1, <3>3
  <2>6. QED  BY <1>9, <2>2, <2>3, <2>4, <2>5 DEF OpControls, Upset
<1>10. CASE OpRechecks \/ OpJoins
  <2>1. UNCHANGED <<control, birth, sweep, doomed>> /\ op.pc \in {"recheck", "join"}
      BY <1>10 DEF OpRechecks, OpJoins, sweepVars
  <2>2. op'.pc \in {"idle", "join"} /\ (op'.kind = "none" \/ op'.kind = op.kind)
    <3>1. CASE Returns
        BY <1>4, <3>1 DEF Returns
    <3>2. CASE Goto("join")
        BY <1>1, <3>2 DEF Goto, OpRecord
    <3>3. QED  BY <1>10, <3>1, <3>2 DEF OpRechecks, OpJoins
  <2>3. control # "none"
      BY <2>1 DEF DeletionBooks
  <2>4. upsets = 0 => FreshBooks'
      BY <1>1, <1>6, <2>1, <2>2, <2>3, QuietFresh DEF FreshBooks
  <2>5. QED  BY <1>3, <2>1, <2>2, <2>4
<1>11. CASE OpTakesBack
  <2>1. /\ op.pc = "failed" /\ control = "live" /\ Stored \subseteq {op.run} /\ UNCHANGED <<control, birth>>
      BY <1>11 DEF OpTakesBack, DeletionBooks, OwnedBooks, OpBooks
  <2>2. upsets = 0 => Stored = {op.run} /\ op.run \in known /\ Inert(op.run)
    <3>1. upsets = 0 => op.run \in Runs /\ run[op.run].phase = "none" /\ run[op.run].status = "cancelled"
        BY <2>1 DEF FreshBooks, BirthGoesOn
    <3>2. upsets = 0 => op.run \in Stored /\ op.run \in known
        BY <3>1 DEF FreshBooks, Stored, Present, Terminal
    <3>3. QED  BY <2>1, <3>1, <3>2 DEF Inert, Terminal
  <2>3. CASE Returns /\ UNCHANGED <<sweep, doomed, upsets>>
    <3>1. upsets = 0 => FreshBooks'
        BY <1>1, <1>4, <1>6, <2>1, <2>3, QuietFresh DEF Returns
    <3>2. QED  BY <1>3, <1>4, <2>3, <3>1 DEF Returns
  <2>4. op' = [op EXCEPT !.pc = "await", !.then = "throw"] => op'.pc = "await"
      BY <1>1 DEF OpRecord
  <2>5. CASE /\ op.run \notin Stored \intersect known
             /\ op' = [op EXCEPT !.pc = "await", !.then = "throw"]
    <3>1. \A r \in Stored : Inert(r)
        BY <1>1, <2>1, <2>5 DEF KeyBooks, Inert
    <3>2. upsets # 0
        BY <2>2, <2>5
    <3>3. QED  BY <1>3, <2>4, <2>5, <3>1, <3>2
  <2>6. CASE upsets' = upsets + 1 /\ op' = [op EXCEPT !.pc = "await", !.then = "throw"]
    <3>1. upsets' < 2 => \A r \in Stored : Inert(r)
        BY <1>1, <2>2, <2>6
    <3>2. ~(upsets' = 0 /\ upsets = 0)
        BY <2>6
    <3>3. QED  BY <1>3, <2>4, <2>6, <3>1, <3>2
  <2>7. QED  BY <1>11, <2>3, <2>5, <2>6 DEF OpTakesBack, Upset, sweepVars
<1>12. CASE OpBuries
  <2>1. op.pc = "tombstone" /\ upsets # 0 /\ UNCHANGED <<sweep, doomed>>
      BY <1>12 DEF OpBuries, FreshBooks, sweepVars
  <2>2. op'.pc # "store"
      BY <1>1, <1>4, <1>12 DEF OpBuries, Returns, OpRecord
  <2>3. QED  BY <1>3, <2>1, <2>2
<1>13. CASE OpMoves
  <2>1. op' = NoOp /\ UNCHANGED <<control, pump, timer, birth, sweep, doomed>>
      BY <1>13 DEF OpMoves, Returns, pumpVars, sweepVars
  <2>2. upsets = 0 => FreshBooks'
      BY <1>1, <1>4, <1>5, <1>6, <2>1, QuietFresh
  <2>3. QED  BY <1>3, <1>4, <2>1, <2>2
<1>14. QED  BY <1>7, <1>8, <1>9, <1>10, <1>11, <1>12, <1>13

\* The run that is stored is the only one of its submission, or the other one is inert.
LEMMA StoresOnce ==
    ASSUME OnceInv, RunInv', Runs # {}, OpStores
    PROVE  OnceInv'
<1> USE DEF OnceInv, RunInv, OwnedInv, ConversationInv
<1>1. /\ Live /\ UNCHANGED <<control, proc, live, cleanup, birth, sweep, doomed, pump, timer>>
      /\ op.pc = "store" /\ op \in OpRecord /\ control = "live" /\ ~doomed /\ ~Known(op.key)
      /\ upsets \in Nat /\ upsets' \in {upsets, upsets + 1}
  <2>1. /\ Live /\ UNCHANGED <<control, proc, live, cleanup, birth, sweep, doomed, pump, timer>>
        /\ op.pc = "store"
      BY DEF OpStores, OpKeeps, tailVars, sweepVars, pumpVars
  <2>2. upsets' \in {upsets, upsets + 1}
      BY DEF OpStores, Upset
  <2>3. QED  BY <2>1, <2>2 DEF TypeOK, DeletionBooks, Settled, KeyBooks
<1>2. NoOp.pc = "idle" /\ NoOp.kind = "none"
    BY DEF NoOp
<1>3. upsets = 0 => ~birth /\ sweep.pc = "off" /\ op.kind # "delete" /\ (op.created => Untouched)
    BY <1>1 DEF FreshBooks, BirthGoesOn
<1> DEFINE r == Least(Unused)
           new == [status |-> "queued", phase |-> "none", behind |-> op.after, key |-> op.key]
           stored == [run EXCEPT ![r] = new]
<1>4. /\ \/ /\ Unused = {} \/ op.after # 0
            /\ Throws /\ UNCHANGED <<run, known, upsets>>
         \/ /\ Unused # {} /\ run' = stored /\ known' = known \union {r} /\ UNCHANGED upsets
            /\ op' = [op EXCEPT !.pc = IF op.after = 0 THEN "start" ELSE "recheck", !.run = r]
         \/ /\ Unused # {} /\ run' \in {run, stored} /\ known' = known /\ upsets' = upsets + 1
            /\ op' = IF op.created THEN [op EXCEPT !.pc = "failed", !.run = r] ELSE NoOp
    BY DEF OpStores, Upset
<1>5. Unused # {} => r \in Unused /\ r \in Runs /\ run[r].status = "absent"
    BY Chosen DEF Unused
<1> HIDE DEF r
<1>6. /\ op'.pc # "store"
      /\ op' = [op EXCEPT !.pc = IF op.after = 0 THEN "start" ELSE "recheck", !.run = r] =>
             op'.pc \in {"start", "recheck"} /\ op'.run = r /\ op'.kind = op.kind /\ op'.created = op.created
  <2>1. Throws => op'.pc # "store"
      BY <1>1, <1>2 DEF Throws, Returns, OpRecord
  <2>2. [op EXCEPT !.pc = "failed", !.run = r].pc = "failed"
      BY <1>1 DEF OpRecord
  <2>3. op' = [op EXCEPT !.pc = IF op.after = 0 THEN "start" ELSE "recheck", !.run = r] =>
             op'.pc \in {"start", "recheck"} /\ op'.run = r /\ op'.kind = op.kind /\ op'.created = op.created
      BY <1>1 DEF OpRecord
  <2>4. QED  BY <1>2, <1>4, <2>1, <2>2, <2>3
<1>7. CASE UNCHANGED <<run, known>>
  <2>1. Onward
      BY <1>7, QuietOnward
  <2>2. KeyBooks' /\ OnceBooks'
      BY <1>1, <1>6, <2>1, OnwardOnce DEF Live
  <2>3. ASSUME upsets' = 0 PROVE FreshBooks'
    <3>1. upsets = 0 /\ \A q \in Runs : run[q].status # "absent" => q \in known
        BY <1>1, <2>3 DEF FreshBooks
    <3>2. Unused = {} \/ op.after # 0
      <4>1. Unused # {} => r \notin known
          BY <1>5 DEF RunFacts, Stored, Present, Terminal
      <4>2. QED  BY <1>1, <1>4, <1>7, <2>3, <4>1
    <3>3. ~op.created
      <4>1. SUFFICES ASSUME op.created PROVE FALSE
          OBVIOUS
      <4>2. op.after = 0 /\ known = {}
          BY <1>1, <4>1 DEF OwnedBooks, OpBooks, RunFacts
      <4>3. QED  BY <3>1, <3>2, <4>2 DEF Unused
    <3>4. op' = NoOp
        BY <1>1, <1>4, <2>3, <3>2, <3>3, <3>1, <1>7, <1>5 DEF Throws, Returns, RunFacts, Stored, Present, Terminal
    <3>5. QED  BY <1>1, <1>2, <1>3, <1>7, <3>1, <3>4, QuietFresh DEF FreshBooks
  <2>4. QED  BY <2>2, <2>3 DEF FreshBooks
<1>8. CASE ~UNCHANGED <<run, known>>
  <2>1. Unused # {} /\ run' = stored
    <3>1. CASE run' = run /\ known' = known
        BY <1>8, <3>1
    <3>2. QED  BY <1>4, <1>8, <3>1
  <2>2. /\ r \in Runs /\ run[r].status = "absent" /\ run'[r] = new
        /\ \A q \in Runs : q # r => run'[q] = run[q]
        /\ known' \in {known, known \union {r}}
      BY <1>4, <1>5, <2>1 DEF TypeOK
  <2>3. new.status = "queued" /\ new.phase = "none" /\ new.key = op.key
      OBVIOUS
  <2> HIDE DEF new
  <2>4. Stored' = Stored \union {r}
      BY <2>2, <2>3 DEF Stored, Present
  <2>5. KeyBooks'
      BY <1>1, <1>6, <2>2, <2>3, <2>4 DEF KeyBooks, Live, Stored
  <2>6. OnceBooks'
    <3>1. SUFFICES ASSUME upsets' < 2
                   PROVE  /\ \A q \in Runs : run'[q].status = "gone" => run'[q].phase = "none"
                          /\ \A q, p \in Runs : Twins(q, p)' => Live' /\ upsets' # 0 /\ (Inert(q)' \/ Inert(p)')
        BY <1>1 DEF OnceBooks
    <3>2. upsets < 2 /\ upsets \in Nat
        BY <1>1, <3>1
    <3>3. \A q \in Runs : run'[q].status = "gone" => run'[q].phase = "none"
        BY <1>1, <2>2, <2>3, <3>2 DEF OnceBooks
    <3>4. ASSUME NEW q \in Runs, q # r, run[q].status # "absent", run[q].key = op.key
          PROVE  Inert(q)' /\ upsets' # 0
      <4>1. q \notin known
          BY <1>1, <3>4 DEF Known
      <4>2. run[q].phase = "none"
        <5>1. CASE run[q].status = "gone"
            BY <1>1, <3>2, <5>1 DEF OnceBooks
        <5>2. CASE run[q].status \in Present
            BY <1>1, <4>1, <5>2 DEF KeyBooks, Stored
        <5>3. run \in [Runs -> RunRecord]
            BY DEF TypeOK
        <5>4. QED  BY <3>4, <5>1, <5>2, <5>3 DEF RunRecord
      <4>3. upsets' # 0
          BY <1>1, <3>4, <4>1 DEF FreshBooks
      <4>4. QED  BY <2>2, <3>4, <4>1, <4>2, <4>3 DEF Inert
    <3>5. ASSUME NEW q \in Runs, NEW p \in Runs, Twins(q, p)'
          PROVE  Live' /\ upsets' # 0 /\ (Inert(q)' \/ Inert(p)')
      <4>1. /\ q # p /\ run'[q].key = run'[p].key /\ run'[q].key # 0
            /\ run'[q].status # "absent" /\ run'[p].status # "absent"
          BY <3>5 DEF Twins
      <4>2. CASE q = r
          BY <1>1, <2>2, <2>3, <3>4, <4>1, <4>2 DEF Live
      <4>3. CASE p = r
          BY <1>1, <2>2, <2>3, <3>4, <4>1, <4>3 DEF Live
      <4>4. CASE q # r /\ p # r
        <5>1. Twins(q, p)
            BY <2>2, <4>1, <4>4 DEF Twins
        <5>2. Live /\ upsets # 0 /\ (Inert(q) \/ Inert(p))
            BY <3>2, <5>1 DEF OnceBooks
        <5>3. (Inert(q) => Inert(q)') /\ (Inert(p) => Inert(p)')
            BY <2>2, <4>4 DEF Inert
        <5>4. QED  BY <1>1, <5>2, <5>3 DEF Live
      <4>5. QED  BY <4>2, <4>3, <4>4
    <3>6. QED  BY <3>3, <3>5
  <2>7. ASSUME upsets' = 0 PROVE FreshBooks'
    <3>1. upsets = 0 /\ proc = "live"
        BY <1>1, <2>7 DEF FreshBooks
    <3>2. /\ known' = known \union {r}
          /\ op' = [op EXCEPT !.pc = IF op.after = 0 THEN "start" ELSE "recheck", !.run = r]
        BY <1>4, <1>8, <2>7, <3>1
    <3>3. \A q \in Runs : run'[q].status # "absent" => q \in known'
        BY <2>2, <3>1, <3>2 DEF FreshBooks
    <3>4. op.created => Untouched' /\ live' = {}
        BY <1>1, <1>3, <3>1 DEF Untouched
    <3>5. BirthGoesOn'
        BY <1>1, <1>6, <2>2, <2>3, <3>2, <3>4 DEF BirthGoesOn
    <3>6. QED  BY <1>1, <1>3, <1>6, <3>1, <3>2, <3>3, <3>5 DEF FreshBooks
  <2>8. QED  BY <2>5, <2>6, <2>7 DEF FreshBooks
<1>9. QED  BY <1>7, <1>8

LEMMA StartsAndCancelsOnce ==
    ASSUME OnceInv, RunInv', OpStarts \/ OpCancels
    PROVE  OnceInv'
<1> USE DEF OnceInv, RunInv, OwnedInv, ConversationInv
<1>1. /\ Live /\ UNCHANGED <<control, proc, known>> /\ op \in OpRecord
      /\ upsets \in Nat /\ upsets' \in {upsets, upsets + 1}
  <2>1. Live /\ UNCHANGED <<control, proc, known>>
      BY DEF OpStarts, OpCancels
  <2>2. upsets' \in {upsets, upsets + 1}
      BY DEF OpStarts, OpCancels, Upset
  <2>3. QED  BY <2>1, <2>2 DEF TypeOK
<1>2. NoOp.pc = "idle" /\ NoOp.kind = "none"
    BY DEF NoOp
<1>3. ASSUME Onward, op'.pc # "store", doomed' => doomed, upsets' = 0 /\ upsets = 0 => FreshBooks'
      PROVE  OnceInv'
  <2>1. KeyBooks' /\ OnceBooks'
      BY <1>1, <1>3, OnwardOnce DEF Live
  <2>2. FreshBooks'
      BY <1>1, <1>3 DEF FreshBooks
  <2>3. QED  BY <2>1, <2>2
<1>4. CASE OpStarts
  <2>1. /\ op.pc = "start" /\ control = "live" /\ op.run \in known /\ op.run \in Runs
        /\ UNCHANGED <<birth, sweep, doomed>>
      BY <1>4 DEF OpStarts, DeletionBooks, WorkBooks, sweepVars, TypeOK
  <2>2. CASE /\ run[op.run].status = "queued" /\ Running(op.run)
             /\ Returns \/ (Throws /\ upsets' = upsets + 1)
    <3>1. \E s \in Terminal \union {"running"} : run' = [run EXCEPT ![op.run].status = s]
        BY <2>2 DEF Running
    <3>2. Onward
        BY <1>1, <2>1, <2>2, <3>1, OneOnward
    <3>3. upsets = 0 /\ upsets' = 0 => FreshBooks'
      <4>1. upsets = 0 /\ upsets' = 0 => op' = NoOp
          BY <2>2 DEF Returns
      <4>2. op' = NoOp => BirthGoesOn'
          BY <1>1, <1>2, <2>1 DEF BirthGoesOn
      <4>3. upsets = 0 => \A q \in Runs : run'[q].status # "absent" => q \in known'
          BY <1>1, <3>2 DEF FreshBooks, Onward
      <4>4. QED  BY <1>1, <1>2, <2>1, <4>1, <4>2, <4>3 DEF FreshBooks
    <3>4. op'.pc # "store"
        BY <1>1, <1>2, <2>1, <2>2 DEF Returns, Throws, OpRecord
    <3>5. QED  BY <1>3, <2>1, <3>2, <3>3, <3>4
  <2>3. CASE /\ run[op.run].status # "queued" \/ upsets' = upsets + 1
             /\ Throws /\ UNCHANGED <<run, live, open>>
    <3>1. Onward
        BY <1>1, <2>3, QuietOnward
    <3>2. \/ op.created /\ op'.pc = "failed" /\ op'.run = op.run /\ op'.kind = op.kind
          \/ op' = NoOp
        BY <1>1, <2>3 DEF Throws, Returns, OpRecord
    <3>3. upsets = 0 /\ upsets' = 0 => FreshBooks'
      <4>1. SUFFICES ASSUME upsets = 0, upsets' = 0 PROVE FreshBooks'
          OBVIOUS
      <4>2. op.created => run[op.run].phase = "none" /\ run[op.run].status = "cancelled"
          BY <2>1, <2>3, <4>1 DEF FreshBooks, BirthGoesOn
      <4>3. BirthGoesOn'
          BY <1>1, <1>2, <2>1, <2>3, <3>2, <4>2 DEF BirthGoesOn
      <4>4. QED  BY <1>1, <1>2, <2>1, <2>3, <3>2, <4>1, <4>3 DEF FreshBooks
    <3>4. QED  BY <1>2, <1>3, <2>1, <3>1, <3>2, <3>3
  <2>4. QED  BY <1>4, <2>2, <2>3 DEF OpStarts, Upset
<1>5. CASE OpCancels
  <2>1. op.pc = "cancel" /\ upsets # 0
      BY <1>5 DEF OpCancels, FreshBooks
  <2>2. op'.pc # "store"
      BY <1>1, <1>2, <1>5, <2>1 DEF OpCancels, Returns, OpRecord
  <2>3. doomed' => doomed
      BY <1>5 DEF OpCancels, Schedule, sweepVars
  <2>4. Onward
    <3>1. CASE UNCHANGED run
        BY <1>1, <3>1, QuietOnward
    <3>2. CASE \E r \in Unfinished : Cancelled(r)
      <4>1. PICK r \in Unfinished : Cancelled(r)
          BY <3>2
      <4>2. r \in known /\ run[r].status \in {"queued", "running"}
          BY DEF Unfinished
      <4>3. \E s \in Terminal \union {"running"} : run' = [run EXCEPT ![r].status = s]
          BY <4>1 DEF Cancelled, Terminal
      <4>4. QED  BY <1>1, <4>2, <4>3, OneOnward
    <3>3. QED  BY <1>5, <3>1, <3>2 DEF OpCancels, Recancelled
  <2>5. QED  BY <1>2, <1>3, <2>1, <2>2, <2>3, <2>4
<1>6. QED  BY <1>4, <1>5

\* The process stops: then no submission has two runs, or it stopped before.
LEMMA RecoveryOnce ==
    ASSUME OnceInv, RunInv', Crash \/ Recovery
    PROVE  OnceInv'
<1> USE DEF OnceInv, RunInv, OwnedInv, ConversationInv
<1>1. upsets \in Nat /\ run \in [Runs -> RunRecord]
    BY DEF TypeOK
<1>2. CASE Crash
  <2>1. /\ upsets' = upsets + 1 /\ proc' = "down" /\ op' = NoOp /\ ~doomed' /\ UNCHANGED run
        /\ control' \in {control, "deleted"} /\ NoOp.pc = "idle"
      BY <1>2 DEF Crash, Upset, diskVars, NoOp
  <2>2. KeyBooks' /\ FreshBooks'
      BY <1>1, <2>1 DEF KeyBooks, FreshBooks, Live
  <2>3. upsets' < 2 => upsets = 0
      BY <1>1, <2>1
  <2>4. \A r, q \in Runs : Twins(r, q)' <=> Twins(r, q)
      BY <2>1 DEF Twins
  <2>5. OnceBooks'
      BY <2>1, <2>3, <2>4 DEF OnceBooks
  <2>6. QED  BY <2>2, <2>5
<1>3. CASE RecoverRemains \/ RecoverRuns
  <2>1. /\ proc = "down" /\ op.pc = "idle" /\ ~doomed /\ ~Live /\ upsets # 0
        /\ UNCHANGED <<control, op, upsets>>
      BY <1>3 DEF RecoverRemains, RecoverRuns, RecoverKeeps, OwnedBooks, DownBooks, Live, FreshBooks, diskVars
  <2>2. /\ \A r \in Runs : /\ run'[r].key = run[r].key /\ run'[r].phase = run[r].phase
                           /\ run'[r].status = "gone" <=> run[r].status = "gone"
                           /\ run'[r].status = "absent" <=> run[r].status = "absent"
                           /\ run'[r].status \in Present <=> run[r].status \in Present
    <3>1. CASE UNCHANGED run
        BY <3>1
    <3>2. CASE run' = Recovered
        BY <1>1, <3>2 DEF Recovered, RunRecord, Present, Terminal
    <3>3. QED  BY <1>3, <3>1, <3>2 DEF RecoverRemains, RecoverRuns, diskVars
  <2>3. Stored' = Stored
      BY <2>2 DEF Stored
  <2>4. KeyBooks'
    <3>1. control = "deleted" \/ Stored = {} \/ known' = Stored
        BY <1>3 DEF RecoverRemains, RecoverRuns
    <3>2. QED  BY <2>1, <2>3, <3>1 DEF KeyBooks
  <2>5. FreshBooks'
      BY <2>1 DEF FreshBooks
  <2>6. OnceBooks'
    <3>1. doomed' => Stored = {}
        BY <1>3, <2>1 DEF RecoverRemains, RecoverRuns, Schedule, sweepVars
    <3>2. ASSUME upsets < 2, NEW r \in Runs, NEW q \in Runs, Twins(r, q)' PROVE FALSE
      <4>1. Twins(r, q)
          BY <2>2, <3>2 DEF Twins
      <4>2. QED  BY <2>1, <3>2, <4>1 DEF OnceBooks
    <3>3. QED  BY <2>1, <2>2, <2>3, <3>1, <3>2 DEF OnceBooks
  <2>7. QED  BY <2>4, <2>5, <2>6
<1>4. CASE RecoveryEnds
  <2>1. /\ Live /\ Live' /\ proc = "recovering" /\ UNCHANGED <<run, known, control, op, doomed, upsets>>
      BY <1>4 DEF RecoveryEnds, RecoverKeeps, diskVars, sweepVars, Live
  <2>2. Onward
      BY <2>1, QuietOnward
  <2>3. KeyBooks' /\ OnceBooks'
      BY <1>1, <2>1, <2>2, OnwardOnce
  <2>4. FreshBooks'
      BY <2>1 DEF FreshBooks
  <2>5. QED  BY <2>3, <2>4
<1>5. QED  BY <1>2, <1>3, <1>4 DEF Recovery

LEMMA StepOnce ==
    ASSUME OnceInv, Runs # {}, Next
    PROVE  OnceInv'
<1>1. RunInv'
    BY StepRuns DEF OnceInv
<1>2. CASE Delete \/ Rollback \/ \E key \in Submissions : Submit(key)
    BY <1>1, <1>2, BeginsOnce
<1>3. CASE Operation
    BY <1>1, <1>3, PlainOperationsOnce, StoresOnce, StartsAndCancelsOnce DEF Operation
<1>4. CASE Pump \/ Sweep \/ Crash \/ Recovery
    BY <1>1, <1>4, PumpOnce, SweepOnce, RecoveryOnce
<1>5. CASE \E r \in Runs : Cancel(r) \/ Execution(r) \/ CleanupFinalizes(r)
    BY <1>1, <1>5, TailOnce
<1>6. QED  BY <1>2, <1>3, <1>4, <1>5 DEF Next

LEMMA StutterOnce == OnceInv /\ OrderInv /\ UNCHANGED vars => OnceInv'
<1> SUFFICES ASSUME OnceInv, OrderInv, UNCHANGED vars PROVE OnceInv'
    OBVIOUS
<1>1. RunInv'
    BY StutterOrder DEF OrderInv
<1>2. UNCHANGED <<run, known, live, cleanup, proc, control, op, birth, sweep, doomed, pump, timer, upsets>>
    BY DEF vars, diskVars, tailVars, pumpVars, sweepVars
<1>3. /\ Stored' = Stored /\ (Live' <=> Live) /\ (Untouched' <=> Untouched)
      /\ \A r \in Runs : Inert(r)' <=> Inert(r)
      /\ \A r, q \in Runs : Twins(r, q)' <=> Twins(r, q)
    BY <1>2 DEF Stored, Live, Untouched, Inert, Twins
<1>4. KeyBooks'
    BY <1>2, <1>3 DEF OnceInv, KeyBooks, Known
<1>5. FreshBooks'
    BY <1>2, <1>3 DEF OnceInv, FreshBooks, BirthGoesOn
<1>6. OnceBooks'
  <2>1. doomed' /\ upsets' < 2 => \A q \in Stored' : Inert(q)'
      BY <1>2, <1>3 DEF OnceInv, OnceBooks, Stored
  <2>2. control' # "deleted" /\ upsets' < 2 => \A q \in Runs : run'[q].status = "gone" => run'[q].phase = "none"
      BY <1>2 DEF OnceInv, OnceBooks
  <2>3. ASSUME upsets' < 2, NEW q \in Runs, NEW p \in Runs, Twins(q, p)'
        PROVE  Live' /\ upsets' # 0 /\ (Inert(q)' \/ Inert(p)')
    <3>1. Live /\ upsets # 0 /\ (Inert(q) \/ Inert(p))
        BY <1>2, <1>3, <2>3 DEF OnceInv, OnceBooks
    <3>2. QED  BY <1>2, <1>3, <3>1
  <2>4. QED  BY <2>1, <2>2, <2>3 DEF OnceBooks
<1>7. QED  BY <1>1, <1>4, <1>5, <1>6 DEF OnceInv

-----------------------------------------------------------------------------
(* Of two runs of one submission never both stand, whatever fails.  The     *)
(* older one was not held when the other one was stored, so nothing between *)
(* them is behind it: once it is on the branch nothing links from there to  *)
(* the other one, and once the other one is on the branch the older one is  *)
(* before its end.                                                          *)

\* What is stored but not held has no entries and no successor.
HeldBooks ==
    /\ \A r \in branch : run[r].phase = "entered"
    /\ op.pc = "store" => op.after \in known \union {0}
    /\ Live /\ Held # {} => \A r \in Stored \ known : run[r].phase = "none"
    /\ Live /\ control # "deleted" => \A q \in Stored \ known, s \in Stored : run[s].behind # q

\* As long as the older one stands nothing does up to the other one.
TwinBooks ==
    \A q, c \in Runs : Twins(q, c) /\ q < c =>
        /\ q \in Stored => \A s \in Stored : q < s /\ s <= c => run[s].behind # q
        /\ Stands(q) => \A g \in Runs : q < g /\ g <= c => ~Stands(g)

StandInv == OrderInv /\ OnceInv /\ HeldBooks /\ TwinBooks

LEMMA InitStand == Init => HeldBooks /\ TwinBooks
<1> SUFFICES ASSUME Init PROVE HeldBooks /\ TwinBooks
    OBVIOUS
<1>1. branch = {} /\ known = {} /\ op.pc = "idle" /\ \A r \in Runs : run[r].status = "absent"
    BY DEF Init, NoOp, NoView, Absent
<1>2. Stored = {} /\ Held = {}
    BY <1>1 DEF Stored, Held, Present, Terminal
<1>3. QED  BY <1>1, <1>2 DEF HeldBooks, TwinBooks, Twins

\* A chain of links begins behind the run it starts from.
LEMMA FirstLink ==
    ASSUME NEW last, NEW K \in SUBSET Runs, NEW d,
           \A q \in K : d[q].behind \in Nat /\ d[q].behind < q,
           NEW r \in Linked(last, K, d)
    PROVE  \E s \in K : d[s].behind = last /\ s <= r
<1> DEFINE C == {q \in K : \E s \in K : d[s].behind = last /\ s <= q}
<1>1. ASSUME NEW q \in K, d[q].behind \in {last} \union C PROVE q \in C
  <2>1. CASE d[q].behind = last
      BY <2>1 DEF Runs
  <2>2. CASE d[q].behind \in C
    <3>1. PICK s \in K : d[s].behind = last /\ s <= d[q].behind
        BY <2>2
    <3>2. s \in Nat /\ q \in Nat
        BY DEF Runs
    <3>3. s <= q
        BY <3>1, <3>2
    <3>4. QED  BY <3>1, <3>3
  <2>3. QED  BY <1>1, <2>1, <2>2
<1>2. r \in C
    BY <1>1 DEF Linked
<1>3. QED  BY <1>2

\* Nothing is stored, and nothing comes to stand.
Fades ==
    \A r \in Runs :
        /\ run'[r].key = run[r].key /\ run'[r].behind = run[r].behind
        /\ run'[r].status = "absent" <=> run[r].status = "absent"
        /\ run'[r].status \in Present => run[r].status \in Present
        /\ run'[r].status = "running" => run[r].status = "running"
        /\ run'[r].status = "queued" => run[r].status = "queued"
        /\ run[r].phase = "entered" => run'[r].phase = "entered"
        /\ r \in branch' => r \in branch \/ (run[r].status = "running" /\ run'[r].phase = "entered")

\* What is held then was held before, and what is not goes on as it was.
Lets ==
    \A r \in Runs :
        /\ r \in known' => r \in known
        /\ run'[r].status \in Present /\ r \notin known' => r \notin known
        /\ run'[r].phase = run[r].phase \/ r \in known

LEMMA FadesTwins ==
    ASSUME TwinBooks, Fades
    PROVE  TwinBooks'
<1>1. \A r \in Runs : Stands(r)' => Stands(r)
    BY DEF Fades, Stands
<1>2. \A q, c \in Runs : Twins(q, c)' => Twins(q, c)
    BY DEF Fades, Twins
<1>3. Stored' \subseteq Stored /\ \A r \in Stored' : r \in Runs /\ run'[r].behind = run[r].behind
    BY DEF Fades, Stored
<1>4. QED  BY <1>1, <1>2, <1>3 DEF TwinBooks

LEMMA FadesStand ==
    ASSUME StandInv, TypeOK', Fades, Lets, Live, control = "deleted" => control' = "deleted",
           op'.pc = "store" => op'.after \in known' \union {0}
    PROVE  HeldBooks' /\ TwinBooks'
<1>1. TwinBooks'
    BY FadesTwins DEF StandInv
<1>2. Stored' \subseteq Stored /\ \A r \in Stored' : r \in Runs /\ run'[r].behind = run[r].behind
    BY DEF Fades, Stored
<1>3. Stored' \ known' \subseteq Stored \ known /\ \A r \in Stored' \ known' : run'[r].phase = run[r].phase
    BY <1>2 DEF Lets, Stored
<1>4. Held' # {} => Held # {}
    BY DEF Held, Fades, Lets, TypeOK
<1>5. \A r \in branch' : run'[r].phase = "entered"
    BY DEF StandInv, HeldBooks, Fades, TypeOK
<1>6. Live' /\ Held' # {} => \A r \in Stored' \ known' : run'[r].phase = "none"
    BY <1>3, <1>4 DEF StandInv, HeldBooks
<1>7. Live' /\ control' # "deleted" => \A q \in Stored' \ known', s \in Stored' : run'[s].behind # q
    BY <1>2, <1>3 DEF StandInv, HeldBooks
<1>8. QED  BY <1>1, <1>5, <1>6, <1>7 DEF HeldBooks

LEMMA QuietFades == UNCHANGED <<run, known>> /\ branch' \subseteq branch => Fades /\ Lets
BY DEF Fades, Lets

\* A run that is held ends, or goes on.
LEMMA OneFades ==
    ASSUME TypeOK, NEW r \in known, run[r].status \in {"queued", "running"}, UNCHANGED known,
           \/ (\E s \in Terminal : run' = [run EXCEPT ![r].status = s]) /\ UNCHANGED branch
           \/ /\ run[r].status = "running" /\ run[r].phase # "entered"
              /\ \/ run' = [run EXCEPT ![r].phase = "started"] /\ UNCHANGED branch
                 \/ run' = [run EXCEPT ![r].phase = "entered"] /\ branch' = branch \union {r}
    PROVE  Fades /\ Lets
<1>1. /\ r \in Runs /\ \A q \in Runs : q # r => run'[q] = run[q]
      /\ run'[r].key = run[r].key /\ run'[r].behind = run[r].behind
      /\ branch' \subseteq branch \union {r}
    BY DEF TypeOK, RunRecord
<1>2. /\ run'[r].status \in Terminal \union {run[r].status}
      /\ run'[r].status = "running" => run[r].status = "running"
      /\ run[r].phase = "entered" => run'[r].phase = "entered"
      /\ r \in branch' => r \in branch \/ (run[r].status = "running" /\ run'[r].phase = "entered")
    BY DEF TypeOK, RunRecord, Terminal
<1>3. QED  BY <1>1, <1>2 DEF Fades, Lets, Present, Terminal

\* A run that is held and visible starts while none is busy: one that stands is the last on
\* the branch, and nothing links it to a later run of a submission with the older one there.
LEMMA StartsStand ==
    ASSUME StandInv, TypeOK', NEW x \in Held, Running(x), NoneBusy, x \in Visible(Documents), Live,
           UNCHANGED <<branch, known, control>>, op'.pc = "store" => UNCHANGED op
    PROVE  HeldBooks' /\ TwinBooks'
<1> USE DEF StandInv, OrderInv, RunInv, OwnedInv, ConversationInv
<1> DEFINE e == Documents
           B == Entered(branch, e)
           m == Greatest(B)
<1>1. /\ x \in Runs /\ x \in known /\ run[x].status = "queued" /\ run[x].phase = "none"
      /\ branch \in SUBSET Runs /\ known \in SUBSET Runs /\ known \subseteq Stored
      /\ \A q \in Runs : q \in Nat
    BY DEF Held, TypeOK, RunFacts, Runs
<1>2. /\ \A q \in Runs : q # x => run'[q] = run[q]
      /\ run'[x].status = "running" /\ run'[x].phase = run[x].phase /\ run'[x].behind = run[x].behind
      /\ run'[x].key = run[x].key
    BY <1>1 DEF Running, TypeOK, RunRecord
<1>3. /\ \A q \in Runs : e[q].behind \in Nat /\ e[q].behind < q
      /\ \A q \in Runs : e[q].phase = "entered" <=> q \in known /\ run[q].phase = "entered"
      /\ \A q \in Runs : Pends(e, q) => q \in known
      /\ \A q \in known : e[q] = run[q]
    BY DocumentsNow
<1>4. x \in Seen(branch, e)
    BY SeenIs
<1> HIDE DEF e
<1>5. B \in SUBSET Runs /\ m \in Nat /\ (B # {} => m \in B) /\ \A q \in B : q <= m
    BY <1>1, GreatestRun, BoundsAssumption DEF Entered
<1>6. x \in Tail(branch, e) /\ m < x
  <2>1. x \in Tail(branch, e)
      BY <1>1, <1>3, <1>4 DEF Seen, Entered
  <2>2. QED  BY <1>1, <1>3, <2>1, BranchFirst
<1>7. ASSUME NEW q \in Runs, Stands(q) PROVE q \in B /\ q < x
  <2>1. run[q].status \in Present /\ q \in branch
      BY <1>7 DEF Stands, NoneBusy, Busy
  <2>2. run[q].phase = "entered" /\ q \in Stored
      BY <2>1 DEF HeldBooks, Stored
  <2>3. q \in known
      BY <2>2 DEF HeldBooks
  <2>4. q \in B
      BY <1>3, <2>1, <2>2, <2>3 DEF Entered
  <2>5. QED  BY <1>1, <1>5, <1>6, <2>4
<1>8. \A q \in B : Stands(q)
    BY <1>1, <1>3 DEF Entered, Stands, Stored
<1>9. /\ Stored' = Stored
      /\ \A q \in Runs : run'[q].behind = run[q].behind /\ run'[q].phase = run[q].phase
      /\ \A q, c \in Runs : Twins(q, c)' => Twins(q, c)
      /\ \A q \in Runs : Stands(q)' => Stands(q) \/ q = x
  <2>1. run[x].status \in Present /\ run'[x].status \in Present /\ run'[x].status # "absent"
      BY <1>1, <1>2 DEF Present
  <2>2. Stored' = Stored
      BY <1>1, <1>2, <2>1 DEF Stored
  <2>3. \A q, c \in Runs : Twins(q, c)' => Twins(q, c)
      BY <1>1, <1>2 DEF Twins
  <2>4. \A q \in Runs : Stands(q)' => Stands(q) \/ q = x
      BY <1>2 DEF Stands
  <2>5. QED  BY <1>1, <1>2, <2>2, <2>3, <2>4
<1>10. \A s \in Stored : s \in Runs
    BY DEF Stored
<1>11. HeldBooks'
  <2>1. /\ \A r \in branch' : run'[r].phase = "entered"
        /\ Live' /\ control' # "deleted" => \A q \in Stored' \ known', s \in Stored' : run'[s].behind # q
        /\ \A r \in Stored' \ known' : run'[r].phase = "none"
    <3>1. \A r \in Stored \ known : run[r].phase = "none"
        BY DEF HeldBooks
    <3>2. control' # "deleted" => \A q \in Stored \ known, s \in Stored : run[s].behind # q
        BY DEF HeldBooks
    <3>3. QED  BY <1>1, <1>9, <1>10, <3>1, <3>2 DEF HeldBooks
  <2>2. op'.pc = "store" => op'.after \in known' \union {0}
      BY DEF HeldBooks
  <2>3. QED  BY <2>1, <2>2 DEF HeldBooks
<1>12. TwinBooks'
  <2>1. SUFFICES ASSUME NEW q \in Runs, NEW c \in Runs, Twins(q, c), q < c
                 PROVE  /\ q \in Stored' => \A s \in Stored' : q < s /\ s <= c => run'[s].behind # q
                        /\ Stands(q)' => \A g \in Runs : q < g /\ g <= c => ~Stands(g)'
      BY <1>9 DEF TwinBooks
  <2>2. q \in Stored' => \A s \in Stored' : q < s /\ s <= c => run'[s].behind # q
      BY <1>9, <1>10, <2>1 DEF TwinBooks
  <2>3. ASSUME Stands(q)', NEW g \in Runs, q < g, g <= c, Stands(g)' PROVE FALSE
    <3>1. CASE q = x
      <4>1. Stands(g) /\ g < x
          BY <1>1, <1>7, <1>9, <2>3, <3>1
      <4>2. QED  BY <1>1, <2>3, <3>1, <4>1
    <3>2. CASE q # x
      <4>1. Stands(q) /\ q \in B
          BY <1>7, <1>9, <2>3, <3>2
      <4>2. \A p \in Runs : q < p /\ p <= c => ~Stands(p)
          BY <2>1, <4>1 DEF TwinBooks
      <4>3. g = x
          BY <1>9, <2>3, <4>2
      <4>4. m = q
        <5>1. m \in B /\ m \in Runs /\ q <= m /\ Stands(m)
            BY <1>5, <1>8, <4>1
        <5>2. m < c
            BY <1>1, <1>6, <2>3, <4>3, <5>1
        <5>3. QED  BY <1>1, <4>2, <5>1, <5>2
      <4>5. PICK s \in LooseIn(B, e) : e[s].behind = q /\ s <= x
        <5>1. LooseIn(B, e) \in SUBSET Runs /\ x \in Linked(m, LooseIn(B, e), e)
            BY <1>6 DEF LooseIn, Tail
        <5>2. QED  BY <1>3, <4>4, <5>1, FirstLink
      <4>6. s \in Runs /\ s \in known /\ run[s].behind = q /\ q < s
          BY <1>3, <4>5 DEF LooseIn
      <4>7. s \in Stored /\ s <= c /\ q \in Stored
          BY <1>1, <2>3, <4>1, <4>3, <4>5, <4>6 DEF Stands, Stored
      <4>8. QED  BY <2>1, <4>6, <4>7 DEF TwinBooks
    <3>3. QED  BY <3>1, <3>2
  <2>4. QED  BY <2>2, <2>3
<1>13. QED  BY <1>11, <1>12

\* A run is stored: the submission is not among those that are held, so an older run of it is
\* not held and does not stand.
LEMMA StoresStand ==
    ASSUME StandInv, TypeOK', OpStores
    PROVE  HeldBooks' /\ TwinBooks'
<1> USE DEF StandInv, OrderInv, RunInv, OwnedInv, ConversationInv
<1> DEFINE r == Least(Unused)
           new == [status |-> "queued", phase |-> "none", behind |-> op.after, key |-> op.key]
<1>1. /\ Live /\ UNCHANGED <<control, proc, branch>> /\ op.pc = "store" /\ op \in OpRecord
      /\ control = "live" /\ ~Known(op.key) /\ op.after \in known \union {0}
      /\ known \in SUBSET Runs /\ branch \in SUBSET Runs
      /\ \A q \in Runs : q \in Nat /\ q # 0
    BY DEF OpStores, OpKeeps, TypeOK, DeletionBooks, OnceInv, KeyBooks, HeldBooks, Runs
<1>2. op'.pc # "store"
  <2>1. Throws => op'.pc # "store"
      BY <1>1 DEF Throws, Returns, NoOp, OpRecord
  <2>2. op' = [op EXCEPT !.pc = IF op.after = 0 THEN "start" ELSE "recheck", !.run = r] => op'.pc # "store"
      BY <1>1 DEF OpRecord
  <2>3. op' = (IF op.created THEN [op EXCEPT !.pc = "failed", !.run = r] ELSE NoOp) => op'.pc # "store"
      BY <1>1 DEF OpRecord, NoOp
  <2>4. QED  BY <2>1, <2>2, <2>3 DEF OpStores
<1>3. CASE UNCHANGED <<run, known>>
    BY <1>1, <1>2, <1>3, QuietFades, FadesStand
<1>4. CASE ~UNCHANGED <<run, known>>
  <2>1. Unused # {} /\ run' = [run EXCEPT ![r] = new] /\ known' \in {known, known \union {r}}
      BY <1>4 DEF OpStores
  <2>2. r \in Runs /\ run[r].status = "absent" /\ run[r].phase = "none"
      BY <2>1, Chosen DEF Unused, RunFacts
  <2>3. new.status = "queued" /\ new.phase = "none" /\ new.behind = op.after /\ new.key = op.key
      OBVIOUS
  <2>4. run'[r] = new /\ \A q \in Runs : q # r => run'[q] = run[q]
      BY <2>1, <2>2 DEF TypeOK
  <2> HIDE DEF r, new
  <2>5. /\ Stored' = Stored \union {r} /\ r \notin Stored /\ Stored \in SUBSET Runs
        /\ \A q \in Runs : run[q].status # "absent" => q < r
    <3>1. Stored' = Stored \union {r} /\ r \notin Stored /\ Stored \in SUBSET Runs
        BY <2>2, <2>3, <2>4 DEF Stored, Present, Terminal
    <3>2. \A q \in Runs : run[q].status # "absent" => q < r
        BY <1>1, <2>2 DEF RunFacts
    <3>3. QED  BY <3>1, <3>2
  <2>6. \A s \in Stored : s < r /\ run[s].behind < r
    <3>1. \A s \in Stored : s \in Runs /\ run[s].status # "absent"
        BY DEF Stored, Present, Terminal
    <3>2. \A s \in Runs : run[s].behind \in Nat /\ run[s].behind < s
        BY BoundsAssumption DEF TypeOK, RunRecord, RunFacts
    <3>3. QED  BY <1>1, <2>2, <2>5, <3>1, <3>2
  <2>7. \A q \in Stored \ known : run[q].phase = "none" /\ ~Stands(q) /\ \A s \in Stored : run[s].behind # q
    <3>1. SUFFICES ASSUME NEW q \in Stored \ known
                   PROVE  run[q].phase = "none" /\ ~Stands(q) /\ \A s \in Stored : run[s].behind # q
        OBVIOUS
    <3>2. q \in Runs /\ run[q].phase = "none" /\ \A s \in Stored : run[s].behind # q
        BY <1>1, <2>5 DEF OnceInv, KeyBooks, HeldBooks
    <3>3. q \notin branch
        BY <3>2 DEF HeldBooks
    <3>4. run[q].status # "running"
        BY <1>1, <3>1, <3>2 DEF WorkBooks, RunFacts
    <3>5. QED  BY <3>2, <3>3, <3>4 DEF Stands
  <2>8. r \notin branch
      BY <2>2 DEF HeldBooks
  <2>9. \A q \in Runs : Stands(q)' => q # r /\ Stands(q)
      BY <1>1, <2>3, <2>4, <2>8 DEF Stands
  <2>10. HeldBooks'
    <3>1. \A q \in branch' : run'[q].phase = "entered"
        BY <1>1, <2>4, <2>8 DEF HeldBooks
    <3>2. \A q \in Stored' \ known' : run'[q].phase = "none"
        BY <2>1, <2>3, <2>4, <2>5, <2>7
    <3>3. ASSUME NEW q \in Stored' \ known', NEW s \in Stored' PROVE run'[s].behind # q
      <4>1. CASE s = r
          BY <1>1, <2>1, <2>2, <2>3, <2>4, <2>5, <3>3, <4>1
      <4>2. CASE s # r /\ q = r
          BY <1>1, <2>2, <2>4, <2>5, <2>6, <3>3, <4>2
      <4>3. CASE s # r /\ q # r
        <5>1. s \in Stored /\ q \in Stored \ known /\ run'[s] = run[s]
            BY <2>1, <2>4, <2>5, <3>3, <4>3
        <5>2. QED  BY <2>7, <5>1
      <4>4. QED  BY <4>1, <4>2, <4>3
    <3>4. QED  BY <1>2, <3>1, <3>2, <3>3 DEF HeldBooks
  <2>11. TwinBooks'
    <3>1. SUFFICES ASSUME NEW q \in Runs, NEW c \in Runs, Twins(q, c)', q < c
                   PROVE  /\ q \in Stored' => \A s \in Stored' : q < s /\ s <= c => run'[s].behind # q
                          /\ Stands(q)' => \A g \in Runs : q < g /\ g <= c => ~Stands(g)'
        BY DEF TwinBooks
    <3>2. q # r
      <4>1. CASE c = r
          BY <1>1, <3>1, <4>1
      <4>2. CASE c # r
        <5>1. run[c].status # "absent"
            BY <2>4, <3>1, <4>2 DEF Twins
        <5>2. c < r
            BY <2>5, <5>1
        <5>3. QED  BY <1>1, <3>1, <5>2
      <4>3. QED  BY <4>1, <4>2
    <3>3. CASE c # r
      <4>1. Twins(q, c)
          BY <2>4, <3>1, <3>2, <3>3 DEF Twins
      <4>2. c < r
          BY <2>5, <4>1 DEF Twins
      <4>3. ASSUME q \in Stored', NEW s \in Stored', q < s, s <= c PROVE run'[s].behind # q
        <5>1. s \in Runs /\ s # r
            BY <1>1, <2>2, <2>5, <4>2, <4>3
        <5>2. q \in Stored /\ s \in Stored /\ run'[s] = run[s]
            BY <2>4, <2>5, <3>2, <4>3, <5>1
        <5>3. QED  BY <3>1, <4>1, <4>3, <5>2 DEF TwinBooks
      <4>4. Stands(q)' => \A g \in Runs : q < g /\ g <= c => ~Stands(g)'
          BY <2>9, <3>1, <4>1 DEF TwinBooks
      <4>5. QED  BY <4>3, <4>4
    <3>4. CASE c = r
      <4>1. run[q].key = op.key /\ q \notin known
          BY <1>1, <2>3, <2>4, <3>1, <3>2, <3>4 DEF Twins, Known
      <4>2. ASSUME q \in Stored', NEW s \in Stored' PROVE run'[s].behind # q
        <5>1. q \in Stored \ known
            BY <2>5, <3>2, <4>1, <4>2
        <5>2. CASE s = r
            BY <1>1, <2>3, <2>4, <4>1, <5>2
        <5>3. CASE s # r
            BY <2>4, <2>5, <2>7, <4>2, <5>1, <5>3
        <5>4. QED  BY <5>2, <5>3
      <4>3. ~Stands(q)'
        <5>1. Stands(q) => q \in Stored
            BY DEF Stands, Stored
        <5>2. QED  BY <2>7, <2>9, <4>1, <5>1
      <4>4. QED  BY <4>2, <4>3
    <3>5. QED  BY <3>3, <3>4
  <2>12. QED  BY <2>10, <2>11
<1>5. QED  BY <1>3, <1>4

\* The process stops and is started again: nothing of it stands anew, and all is held.
LEMMA RecoveryStand ==
    ASSUME StandInv, TypeOK', Crash \/ Recovery
    PROVE  HeldBooks' /\ TwinBooks'
<1> USE DEF StandInv, OrderInv, RunInv, OwnedInv, ConversationInv
<1>1. CASE Crash
  <2>1. UNCHANGED <<run, branch>> /\ proc' = "down" /\ op'.pc = "idle"
      BY <1>1 DEF Crash, NoOp
  <2>2. Fades
      BY <2>1 DEF Fades
  <2>3. HeldBooks'
      BY <2>1 DEF HeldBooks, Live
  <2>4. QED  BY <2>2, <2>3, FadesTwins
<1>2. CASE RecoverRemains
  <2>1. /\ proc = "down" /\ UNCHANGED <<control, run, branch, known, op>>
        /\ control = "deleted" \/ Stored = {}
      BY <1>2 DEF RecoverRemains, RecoverKeeps, diskVars
  <2>2. known = {} /\ op.pc = "idle" /\ Stored' = Stored
      BY <2>1 DEF WorkBooks, OwnedBooks, DownBooks, Stored
  <2>3. Fades
      BY <2>1 DEF Fades
  <2>4. HeldBooks'
      BY <2>1, <2>2 DEF HeldBooks, Held
  <2>5. QED  BY <2>3, <2>4, FadesTwins
<1>3. CASE RecoverRuns
  <2>1. proc = "down" /\ run' = Recovered /\ known' = Stored /\ UNCHANGED <<branch, op>>
      BY <1>3 DEF RecoverRuns, RecoverKeeps
  <2>2. /\ op.pc = "idle"
        /\ \A q \in Runs :
              /\ run'[q].key = run[q].key /\ run'[q].behind = run[q].behind /\ run'[q].phase = run[q].phase
              /\ \/ run'[q].status = run[q].status
                 \/ run[q].status = "running" /\ run'[q].status = "failed"
    <3>1. op.pc = "idle"
        BY <2>1 DEF OwnedBooks, DownBooks
    <3>2. ASSUME NEW q \in Runs
          PROVE  /\ run'[q].key = run[q].key /\ run'[q].behind = run[q].behind /\ run'[q].phase = run[q].phase
                 /\ \/ run'[q].status = run[q].status
                    \/ run[q].status = "running" /\ run'[q].status = "failed"
      <4>1. run[q] \in RunRecord
          BY DEF TypeOK
      <4>2. QED  BY <2>1, <4>1 DEF Recovered, RunRecord
    <3>3. QED  BY <3>1, <3>2
  <2>3. Fades /\ Stored' = Stored
      BY <2>1, <2>2 DEF Fades, Stored, Present, Terminal
  <2>4. HeldBooks'
      BY <2>1, <2>2, <2>3 DEF HeldBooks, TypeOK
  <2>5. QED  BY <2>3, <2>4, FadesTwins
<1>4. CASE RecoveryEnds
  <2>1. Live /\ UNCHANGED <<control, run, branch, known, op>>
      BY <1>4 DEF RecoveryEnds, RecoverKeeps, diskVars, Live
  <2>2. QED  BY <2>1, QuietFades, FadesStand DEF HeldBooks
<1>5. QED  BY <1>1, <1>2, <1>3, <1>4 DEF Recovery

\* The pump, the executions and their cleanups.
LEMMA PumpStand ==
    ASSUME StandInv, TypeOK', Pump
    PROVE  HeldBooks' /\ TwinBooks'
<1> USE DEF StandInv, OrderInv, RunInv, OwnedInv, ConversationInv
<1>1. Live /\ UNCHANGED <<branch, known, control, op>>
    BY DEF Pump, PumpChooses, PumpFinalizes, PumpStarts, PumpTimer, PumpKeeps
<1>2. CASE UNCHANGED run
    BY <1>1, <1>2, QuietFades, FadesStand DEF HeldBooks
<1>3. CASE /\ PumpStarts /\ NextEligible(pump.view) = pump.cand
           /\ run[pump.cand].status = "queued" /\ Running(pump.cand)
    BY <1>1, <1>3, PumpChoice, StartsStand DEF PumpStarts
<1>4. QED  BY <1>2, <1>3 DEF Pump, PumpChooses, PumpFinalizes, PumpStarts, PumpTimer

LEMMA TailStand ==
    ASSUME StandInv, TypeOK', NEW r \in Runs, Cancel(r) \/ Execution(r) \/ CleanupFinalizes(r)
    PROVE  HeldBooks' /\ TwinBooks'
<1> USE DEF StandInv, OrderInv, RunInv, OwnedInv, ConversationInv
<1>1. Live /\ UNCHANGED <<known, control, op>>
    BY DEF Cancel, Execution, RunAdvances, RunEnds, RunFinalizes, ExecutionEnds, CleanupFinalizes,
           TailKeeps, Live
<1>2. Fades /\ Lets
  <2>1. CASE RunAdvances(r)
    <3>1. r \in known /\ run[r].status = "running" /\ run[r].phase # "entered"
        BY <2>1 DEF RunAdvances, RunFacts
    <3>2. \/ run' = [run EXCEPT ![r].phase = "started"] /\ UNCHANGED branch
          \/ run' = [run EXCEPT ![r].phase = "entered"] /\ branch' = branch \union {r}
        BY <2>1 DEF RunAdvances
    <3>3. QED  BY <1>1, <3>1, <3>2, OneFades
  <2>2. CASE RunEnds(r) \/ Cancel(r)
    <3>1. r \in known /\ run[r].status \in {"queued", "running"} /\ UNCHANGED branch
        BY <2>2 DEF RunEnds, Cancel, CanCancel, RunFacts
    <3>2. \E s \in Terminal : run' = [run EXCEPT ![r].status = s]
        BY <2>2 DEF RunEnds, Cancel, Cancelled, Terminal
    <3>3. QED  BY <1>1, <3>1, <3>2, OneFades
  <2>3. CASE RunFinalizes(r) \/ ExecutionEnds(r) \/ CleanupFinalizes(r)
      BY <1>1, <2>3, QuietFades DEF RunFinalizes, ExecutionEnds, CleanupFinalizes
  <2>4. QED  BY <2>1, <2>2, <2>3 DEF Execution
<1>3. QED  BY <1>1, <1>2, FadesStand DEF HeldBooks

LEMMA SweepStand ==
    ASSUME StandInv, TypeOK', Sweep
    PROVE  HeldBooks' /\ TwinBooks'
<1> USE DEF StandInv, OrderInv, RunInv, OwnedInv, ConversationInv
<1>1. /\ Live /\ UNCHANGED op /\ sweep.pc # "off"
      /\ control = "deleted" => control' = "deleted"
    BY DEF Sweep, SweepLists, SweepRun, SweepSession, SweepControl, SweepRetries, SweepKeeps,
           diskVars, DeletionBooks
<1>2. op.pc # "store"
    BY <1>1 DEF DeletionBooks, Settled, OwnedBooks, SweepBooks
<1>3. Fades /\ Lets
  <2>1. CASE UNCHANGED <<run, known>>
    <3>1. branch' \subseteq branch
        BY DEF Sweep, SweepLists, SweepRun, SweepSession, SweepControl, SweepRetries, diskVars
    <3>2. QED  BY <2>1, <3>1, QuietFades
  <2>2. CASE \E r \in Runs : run' = Gone(r) /\ known' = known \ {r} /\ UNCHANGED branch
    <3>1. PICK r \in Runs : run' = Gone(r) /\ known' = known \ {r} /\ UNCHANGED branch
        BY <2>2
    <3>2. /\ \A q \in Runs : q # r => run'[q] = run[q]
          /\ run'[r].key = run[r].key /\ run'[r].phase = run[r].phase /\ run'[r].behind = run[r].behind
          /\ \/ run[r].status \in Present /\ run'[r].status = "gone"
             \/ run[r].status \notin Present /\ run'[r] = run[r]
        BY <3>1 DEF Gone, TypeOK, RunRecord
    <3>3. "gone" \notin Present /\ "absent" \notin Present /\ "running" \in Present /\ "queued" \in Present
        BY DEF Present, Terminal
    <3>4. Fades
        BY <3>1, <3>2, <3>3 DEF Fades
    <3>5. Lets
        BY <3>1, <3>2, <3>3 DEF Lets
    <3>6. QED  BY <3>4, <3>5
  <2>3. QED  BY <2>1, <2>2 DEF Sweep, SweepLists, SweepRun, SweepSession, SweepControl, SweepRetries, diskVars
<1>4. QED  BY <1>1, <1>2, <1>3, FadesStand

\* The operations that hold the key: only a submission comes to store, behind what it has seen.
LEMMA PlainOperationsStand ==
    ASSUME StandInv, TypeOK',
           \/ OpReconciles \/ OpAwaits \/ OpControls \/ OpRechecks \/ OpJoins \/ OpTakesBack \/ OpBuries
           \/ OpMoves
           \/ \E kind \in {"submit", "delete", "rollback"}, key \in Nat : Begins(kind, key)
    PROVE  HeldBooks' /\ TwinBooks'
<1> USE DEF StandInv, OrderInv, RunInv, OwnedInv, ConversationInv
<1>1. /\ Live /\ UNCHANGED <<run, known>> /\ branch' \subseteq branch /\ op \in OpRecord
      /\ control = "deleted" => control' = "deleted"
    BY DEF OpReconciles, OpAwaits, OpControls, OpRechecks, OpJoins, OpTakesBack, OpBuries, OpMoves, Begins,
           OpHolds, OpKeeps, Live, TypeOK
<1>2. NoOp.pc = "idle"
    BY DEF NoOp
<1>3. ASSUME op'.pc = "store" => op'.after \in known \union {0}
      PROVE  HeldBooks' /\ TwinBooks'
    BY <1>1, <1>3, QuietFades, FadesStand
<1>4. ASSUME NEW o \in OpRecord, SettleCleanup(o)
      PROVE  op'.pc # "store"
    BY <1>4, SettleKeeps
<1>5. CASE \E kind \in {"submit", "delete", "rollback"}, key \in Nat : Begins(kind, key)
  <2>1. PICK kind \in {"submit", "delete", "rollback"}, key \in Nat : Begins(kind, key)
      BY <1>5
  <2> DEFINE o == [NoOp EXCEPT !.kind = kind, !.key = key]
  <2>2. o \in OpRecord
    <3>1. NoOp \in OpRecord
        BY BoundsAssumption DEF NoOp, OpRecord
    <3>2. QED  BY <3>1 DEF OpRecord
  <2>3. op' = [o EXCEPT !.pc = "reconcile", !.then = "settle"] \/ SettleCleanup(o)
      BY <2>1 DEF Begins
  <2> HIDE DEF o
  <2>4. op' = [o EXCEPT !.pc = "reconcile", !.then = "settle"] => op'.pc # "store"
      BY <2>2 DEF OpRecord
  <2>5. QED  BY <1>3, <1>4, <2>2, <2>3, <2>4
<1>6. CASE OpControls
  <2>1. op.pc = "control" /\ op.after = 0
      BY <1>6 DEF OpControls, OwnedBooks, OpBooks
  <2>2. CASE op' = [op EXCEPT !.pc = "store", !.after = Greatest(Visible(Documents))]
    <3>1. op'.after = Greatest(Visible(Documents))
        BY <1>1, <2>2 DEF OpRecord
    <3>2. Visible(Documents) \in SUBSET Runs /\ Visible(Documents) \subseteq known
        BY Chosen, SeenIsKnown
    <3>3. Greatest(Visible(Documents)) \in known \union {0}
      <4>1. CASE Visible(Documents) = {}
          BY <4>1 DEF Greatest
      <4>2. CASE Visible(Documents) # {}
          BY <3>2, <4>2, GreatestRun
      <4>3. QED  BY <4>1, <4>2
    <3>4. QED  BY <1>3, <3>1, <3>3
  <2>3. CASE op' = [op EXCEPT !.pc = "store", !.created = TRUE]
    <3>1. op'.after = 0
        BY <1>1, <2>1, <2>3 DEF OpRecord
    <3>2. QED  BY <1>3, <3>1
  <2>4. CASE Returns
      BY <1>2, <1>3, <2>4 DEF Returns
  <2>5. CASE op' = [op EXCEPT !.pc = "reconcile", !.then = "throw"]
    <3>1. op'.pc = "reconcile"
        BY <1>1, <2>5 DEF OpRecord
    <3>2. QED  BY <1>3, <3>1
  <2>6. QED  BY <1>6, <2>2, <2>3, <2>4, <2>5 DEF OpControls
<1>7. CASE OpReconciles
  <2>1. Goto("await") => op'.pc # "store"
      BY <1>1 DEF Goto, OpRecord
  <2>2. SettleCleanup(op) \/ Returns \/ Goto("await")
      BY <1>7 DEF OpReconciles
  <2>3. QED  BY <1>1, <1>2, <1>3, <1>4, <2>1, <2>2 DEF Returns
<1>8. CASE OpAwaits \/ OpRechecks \/ OpJoins \/ OpMoves
  <2>1. Goto(Body(op.kind)) \/ Goto("join") => op'.pc # "store"
      BY <1>1 DEF Goto, Body, OpRecord
  <2>2. Goto(Body(op.kind)) \/ Goto("join") \/ Returns
      BY <1>8 DEF OpAwaits, OpRechecks, OpJoins, OpMoves
  <2>3. QED  BY <1>2, <1>3, <2>1, <2>2 DEF Returns
<1>9. CASE OpTakesBack \/ OpBuries
  <2>1. /\ op' = [op EXCEPT !.pc = "await", !.then = "throw"] => op'.pc # "store"
        /\ op' = [op EXCEPT !.pc = "cancel", !.left = Unfinished] => op'.pc # "store"
      BY <1>1 DEF OpRecord
  <2>2. \/ op' = [op EXCEPT !.pc = "await", !.then = "throw"] \/ Returns
        \/ op' = [op EXCEPT !.pc = "cancel", !.left = Unfinished]
      BY <1>9 DEF OpTakesBack, OpBuries
  <2>3. QED  BY <1>2, <1>3, <2>1, <2>2 DEF Returns
<1>10. QED  BY <1>5, <1>6, <1>7, <1>8, <1>9

LEMMA StartsAndCancelsStand ==
    ASSUME StandInv, TypeOK', OpStarts \/ OpCancels
    PROVE  HeldBooks' /\ TwinBooks'
<1> USE DEF StandInv, OrderInv, RunInv, OwnedInv, ConversationInv
<1>1. Live /\ UNCHANGED <<branch, known, control>> /\ op \in OpRecord /\ op.pc \in {"start", "cancel"}
    BY DEF OpStarts, OpCancels, TypeOK
<1>2. op'.pc # "store"
  <2>1. Returns \/ Throws => op'.pc # "store"
      BY <1>1 DEF Returns, Throws, NoOp, OpRecord
  <2>2. \A r : op' = [op EXCEPT !.left = @ \ {r}] => op'.pc # "store"
      BY <1>1 DEF OpRecord
  <2>3. QED  BY <2>1, <2>2 DEF OpStarts, OpCancels
<1>3. CASE UNCHANGED run
    BY <1>1, <1>2, <1>3, QuietFades, FadesStand
<1>4. CASE OpStarts /\ run[op.run].status = "queued" /\ Running(op.run)
    BY <1>1, <1>2, <1>4, FirstChoice, StartsStand DEF OpStarts
<1>5. CASE \E r \in Unfinished : Cancelled(r)
  <2>1. PICK r \in Unfinished : Cancelled(r)
      BY <1>5
  <2>2. r \in known /\ run[r].status \in {"queued", "running"}
      BY DEF Unfinished
  <2>3. \E s \in Terminal : run' = [run EXCEPT ![r].status = s]
      BY <2>1 DEF Cancelled, Terminal
  <2>4. Fades /\ Lets
      BY <1>1, <2>2, <2>3, OneFades
  <2>5. QED  BY <1>1, <1>2, <2>4, FadesStand
<1>6. QED  BY <1>3, <1>4, <1>5 DEF OpStarts, OpCancels, Recancelled

LEMMA StepStand ==
    ASSUME StandInv, TypeOK', Next
    PROVE  HeldBooks' /\ TwinBooks'
<1>1. CASE Delete \/ Rollback \/ \E key \in Submissions : Submit(key)
  <2>1. \E kind \in {"submit", "delete", "rollback"}, key \in Nat : Begins(kind, key)
    <3>1. Submissions \subseteq Nat
        BY DEF Submissions
    <3>2. QED  BY <1>1, <3>1 DEF Delete, Rollback, Submit
  <2>2. QED  BY <2>1, PlainOperationsStand
<1>2. CASE Operation
    BY <1>2, PlainOperationsStand, StoresStand, StartsAndCancelsStand DEF Operation
<1>3. CASE Pump \/ Sweep \/ Crash \/ Recovery
    BY <1>3, PumpStand, SweepStand, RecoveryStand
<1>4. CASE \E r \in Runs : Cancel(r) \/ Execution(r) \/ CleanupFinalizes(r)
    BY <1>4, TailStand
<1>5. QED  BY <1>1, <1>2, <1>3, <1>4 DEF Next

LEMMA StutterStand == HeldBooks /\ TwinBooks /\ UNCHANGED vars => HeldBooks' /\ TwinBooks'
<1> SUFFICES ASSUME HeldBooks, TwinBooks, UNCHANGED vars PROVE HeldBooks' /\ TwinBooks'
    OBVIOUS
<1>1. UNCHANGED <<run, branch, known, proc, control, op>>
    BY DEF vars, diskVars
<1>2. Fades
    BY <1>1 DEF Fades
<1>3. HeldBooks'
    BY <1>1 DEF HeldBooks, Stored, Held, Live
<1>4. QED  BY <1>2, <1>3, FadesTwins

\* Of two runs of one submission, at most one is executed as long as at most one thing went
\* wrong; and after any number of failures and crashes it never is that both run, or have
\* their entries on the branch (submitTurn, cleanupFailedInitialConversationBirth,
\* runUncommittedConversationCleanup, recoverPersistedRuns).
THEOREM SubmissionsStandOnce == Spec => []ExecutedOnce
<1>1. CASE Runs = {}
  <2>1. ExecutedOnce
      BY <1>1 DEF ExecutedOnce
  <2>2. QED  BY <2>1, PTL
<1>2. CASE Runs # {}
  <2>1. OnceInv /\ OrderInv /\ [Next]_vars => OnceInv'
      BY <1>2, StepOnce, StutterOnce
  <2>2. StandInv /\ TypeOK' /\ [Next]_vars => HeldBooks' /\ TwinBooks'
      BY StepStand, StutterStand DEF StandInv
  <2>3. StandInv => ExecutedOnce
    <3>1. SUFFICES ASSUME StandInv, NEW r \in Runs, NEW q \in Runs, Twins(r, q)
                   PROVE  /\ ~(Stands(r) /\ Stands(q))
                          /\ upsets < 2 => run[r].phase = "none" \/ run[q].phase = "none"
        BY DEF ExecutedOnce
    <3>2. upsets < 2 => run[r].phase = "none" \/ run[q].phase = "none"
        BY <3>1 DEF StandInv, OnceInv, OnceBooks, Inert
    <3>3. r \in Nat /\ q \in Nat /\ r # q /\ Twins(q, r)
        BY <3>1 DEF Runs, Twins
    <3>4. ~(Stands(r) /\ Stands(q))
        BY <3>1, <3>3 DEF StandInv, TwinBooks
    <3>5. QED  BY <3>2, <3>4
  <2>4. OrderInv => TypeOK
      BY DEF OrderInv, RunInv, OwnedInv, ConversationInv
  <2>5. QED  BY <2>1, <2>2, <2>3, <2>4, InitOnce, InitStand, OrderInvariant, PTL DEF Spec, StandInv
<1>3. QED  BY <1>1, <1>2

=============================================================================
