--------------------- MODULE OrdinaryConversation_proofs ---------------------
(***************************************************************************)
(* Proofs about the conversation, for any number of runs and of upsets.    *)
(*                                                                         *)
(* ConversationInv is inductive: the types, and the agreement between the  *)
(* operation that holds the key, the cleanup and the tombstone on which it *)
(* rests that a deleted conversation starts nothing more.                  *)
(***************************************************************************)
EXTENDS OrdinaryConversation, TLAPS, WellFoundedInduction

\* The positions of an operation behind what an earlier birth left to do.
Settled == {"control", "store", "start", "recheck", "join", "failed", "tombstone", "cancel", "move"}

DeletionBooks ==
    /\ confirmed => control = "deleted" /\ \A r \in known : run[r].status # "queued"
    /\ pump.pc = "claimed" => /\ pump.cand \in Runs /\ run[pump.cand].status # "absent"
                              /\ run[pump.cand].status = "queued" => pump.cand \in known
    /\ op.pc \in {"store", "start", "recheck", "join", "failed"} => control = "live"
    /\ op.pc = "cancel" => control = "deleted" /\ Unfinished \subseteq op.left
    /\ op.pc \in Settled => ~doomed
    /\ op.pc \in {"start", "recheck"} => op.run \in Runs
    /\ op.pc = "recheck" => op.after \in Runs
    /\ sweep.pc # "off" /\ sweep.mode # "tombstone" => doomed
    /\ sweep.pc = "control" => sweep.mode # "tombstone"
    /\ doomed => control # "deleted"
    /\ proc = "down" => live = {} /\ op.pc = "idle" /\ pump.pc = "idle"

ConversationInv == TypeOK /\ DeletionBooks

-----------------------------------------------------------------------------

\* A set of runs that is not empty has a first and a last one.
LEMMA FirstRun ==
    ASSUME NEW S \in SUBSET Nat, S # {}
    PROVE  \E r \in S : \A q \in S : r <= q
<1> DEFINE Less == OpToRel(<, Nat)
<1>1. IsWellFoundedOn(Less, Nat)
    BY NatLessThanWellFounded
<1>2. \A x, y \in Nat : x < y => <<x, y>> \in Less
    BY DEF OpToRel
<1> HIDE DEF Less
<1>3. PICK r \in S : \A q \in S : ~ (<<q, r>> \in Less)
    BY <1>1, WFMin
<1>4. \A q \in S : ~ (q < r)
    BY <1>2, <1>3
<1>5. QED  BY <1>4

LEMMA LeastRun ==
    ASSUME NEW S \in SUBSET Runs
    PROVE  /\ Least(S) \in 0 .. MaxRun /\ (S # {} => Least(S) \in S)
           /\ \A r \in S : Least(S) <= r
<1>1. S \in SUBSET Nat /\ \A r \in S : r \in 0 .. MaxRun
    BY BoundsAssumption DEF Runs
<1>2. S # {} => \E r \in S : \A q \in S : r <= q
    BY <1>1, FirstRun
<1>3. CASE S = {}
    BY <1>3, BoundsAssumption DEF Least
<1>4. CASE S # {}
    BY <1>1, <1>2, <1>4 DEF Least
<1>5. QED  BY <1>3, <1>4

LEMMA GreatestRun ==
    ASSUME NEW S \in SUBSET Runs
    PROVE  /\ Greatest(S) \in 0 .. MaxRun /\ (S # {} => Greatest(S) \in S)
           /\ \A r \in S : r <= Greatest(S)
<1> DEFINE Mirror == {MaxRun - r : r \in S}
<1>1. Mirror \in SUBSET Nat /\ \A r \in S : r \in 0 .. MaxRun
    BY BoundsAssumption DEF Runs
<1>2. S # {} => \E r \in S : \A q \in S : q <= r
  <2>1. SUFFICES ASSUME S # {} PROVE \E r \in S : \A q \in S : q <= r
      OBVIOUS
  <2> HIDE DEF Mirror
  <2>2. PICK m \in Mirror : \A n \in Mirror : m <= n
    <3>1. Mirror # {}
        BY <2>1 DEF Mirror
    <3>2. QED  BY <1>1, <3>1, FirstRun
  <2> USE DEF Mirror
  <2>3. PICK r \in S : m = MaxRun - r
      BY <2>2
  <2>4. \A q \in S : MaxRun - r <= MaxRun - q
      BY <2>2, <2>3
  <2>5. QED  BY <1>1, <2>4, BoundsAssumption
<1>3. CASE S = {}
    BY <1>3, BoundsAssumption DEF Greatest
<1>4. CASE S # {}
    BY <1>1, <1>2, <1>4 DEF Greatest
<1>5. QED  BY <1>3, <1>4

-----------------------------------------------------------------------------
(* What the helpers return. *)

\* The documents the feature holds, and the runs it chooses among them.
LEMMA Chosen ==
    ASSUME TypeOK, NEW d
    PROVE  /\ Documents \in [Runs -> RunRecord] /\ NoView \in [Runs -> RunRecord]
           /\ Visible(d) \in SUBSET Runs
           /\ NextEligible(d) \in 0 .. MaxRun
           /\ Greatest(Visible(d)) \in 0 .. MaxRun
           /\ Least(FailedTail(d)) \in 0 .. MaxRun
           /\ Least(Unused) \in 0 .. MaxRun /\ (Unused # {} => Least(Unused) \in Unused)
<1>1. Absent \in RunRecord
    BY BoundsAssumption DEF Absent, RunRecord
<1>2. Documents \in [Runs -> RunRecord] /\ NoView \in [Runs -> RunRecord]
    BY <1>1 DEF Documents, NoView, TypeOK
<1>3. Visible(d) \in SUBSET Runs
    BY DEF Visible, OnBranch, Chain, Loose, TypeOK
<1>4. Greatest(Visible(d)) \in 0 .. MaxRun
    BY <1>3, GreatestRun
<1>5. NextEligible(d) \in 0 .. MaxRun
  <2>1. {r \in Visible(d) : d[r].status = "queued"} \in SUBSET Runs
      BY <1>3
  <2>2. Least({r \in Visible(d) : d[r].status = "queued"}) \in 0 .. MaxRun /\ 0 \in 0 .. MaxRun
      BY <2>1, LeastRun, BoundsAssumption
  <2>3. QED  BY <2>2 DEF NextEligible
<1>6. FailedTail(d) \in SUBSET Runs /\ Unused \in SUBSET Runs
    BY <1>3 DEF FailedTail, Unused
<1>7. QED  BY <1>2, <1>3, <1>4, <1>5, <1>6, LeastRun

\* A request to the pump does not disturb a candidate that is claimed.
LEMMA RequestKeeps ==
    ASSUME TypeOK, NEW d \in [Runs -> RunRecord], Request(d)
    PROVE  /\ pump' \in PumpRecord /\ timer' \in BOOLEAN
           /\ pump'.pc = "claimed" => pump.pc = "claimed" /\ pump'.cand = pump.cand
<1>1. NoPump \in PumpRecord
    BY Chosen, BoundsAssumption DEF NoPump, PumpRecord
<1>2. [NoPump EXCEPT !.pc = "read", !.view = d] \in PumpRecord
    BY <1>1 DEF PumpRecord
<1>3. [pump EXCEPT !.merged = TRUE] \in PumpRecord
    BY DEF TypeOK, PumpRecord
<1>4. QED  BY <1>2, <1>3 DEF Request, NoPump, TypeOK, PumpRecord

\* The cleanup that is scheduled. A tombstone dooms nothing.
LEMMA ScheduleKeeps ==
    ASSUME TypeOK, NEW mode \in {"none", "tombstone", "uncommitted"}, NEW runs \in SUBSET Runs,
           Schedule(mode, runs), mode = "none" => doomed,
           sweep.pc # "off" /\ sweep.mode # "tombstone" => doomed
    PROVE  /\ sweep' \in SweepRecord /\ doomed' = (doomed \/ mode = "uncommitted")
           /\ sweep'.pc # "off" /\ sweep'.mode # "tombstone" => doomed'
           /\ sweep'.pc = "control" => sweep.pc = "control" /\ sweep'.mode = sweep.mode
<1>1. CASE SweepActive
  <2>1. sweep' = [sweep EXCEPT !.fresh = @ /\ mode = "tombstone"]
      BY <1>1 DEF Schedule
  <2>2. QED  BY <1>1, <2>1 DEF Schedule, TypeOK, SweepRecord, SweepActive
<1>2. CASE ~SweepActive
  <2>1. PICK all \in SUBSET Runs :
            sweep' = [pc |-> IF mode = "tombstone" THEN "list" ELSE "runs",
                      mode |-> mode, asked |-> all, todo |-> all, failed |-> FALSE, fresh |-> TRUE]
    <3>1. runs \union (IF doomed /\ mode = "uncommitted" THEN sweep.asked ELSE {}) \in SUBSET Runs
        BY DEF TypeOK, SweepRecord
    <3>2. QED  BY <1>2, <3>1 DEF Schedule
  <2>2. doomed' = (doomed \/ mode = "uncommitted")
      BY DEF Schedule
  <2>3. /\ sweep' \in SweepRecord /\ sweep'.pc \in {"list", "runs"}
        /\ sweep'.mode = mode
      BY <2>1 DEF SweepRecord
  <2>4. mode # "tombstone" => doomed'
      BY <2>2
  <2>5. QED  BY <2>2, <2>3, <2>4
<1>3. QED  BY <1>1, <1>2

\* A cleanup that ends is off or waits to be retried.
LEMMA SweepEndsKeeps ==
    ASSUME TypeOK, NEW failed \in BOOLEAN, SweepEnds(failed),
           sweep.pc # "off" /\ sweep.mode # "tombstone" => doomed
    PROVE  /\ sweep' \in SweepRecord /\ doomed' \in BOOLEAN /\ (doomed' => doomed)
           /\ sweep'.pc \in {"off", "retry"}
           /\ sweep'.pc # "off" => sweep'.mode = sweep.mode /\ doomed' = doomed /\ failed
<1>1. NoSweep \in SweepRecord
    BY DEF NoSweep, SweepRecord
<1>2. CASE failed
    BY <1>2 DEF SweepEnds, TypeOK, SweepRecord
<1>3. CASE ~failed
    BY <1>1, <1>3 DEF SweepEnds, TypeOK, SweepRecord, NoSweep
<1>4. QED  BY <1>2, <1>3

\* A finalization touches what is owed and the Session control.
LEMMA FinalizationKeeps ==
    ASSUME TypeOK, NEW r, Finalizes(r) \/ FinalizationFails(r)
    PROVE  /\ owed' \in [Runs -> {"no", "pending", "failed"}] /\ open' \subseteq open
           /\ open' \subseteq Runs /\ upsets' \in 0 .. MaxUpset
           /\ \A q \in Runs : q # r => owed'[q] = owed[q] /\ (q \in open' <=> q \in open)
BY BoundsAssumption DEF Finalizes, FinalizationFails, Upset, TypeOK

\* The runs go on: none is queued again, none becomes unused.
RunsGoOn ==
    /\ run' \in [Runs -> RunRecord]
    /\ \A r \in Runs : run'[r].status \in {"queued", "absent"} => run'[r].status = run[r].status

-----------------------------------------------------------------------------
(* The actions. *)

\* Initially there is nothing.
LEMMA InitConversation == Init => ConversationInv
<1> SUFFICES ASSUME Init PROVE ConversationInv
    OBVIOUS
<1>1. Absent \in RunRecord
    BY BoundsAssumption DEF Absent, RunRecord
<1>2. run \in [Runs -> RunRecord] /\ pump \in PumpRecord
    BY <1>1, BoundsAssumption DEF Init, NoView, NoPump, PumpRecord
<1>3. op \in OpRecord /\ sweep \in SweepRecord /\ upsets \in 0 .. MaxUpset
    BY BoundsAssumption DEF Init, NoOp, OpRecord, NoSweep, SweepRecord
<1>4. TypeOK
    BY <1>2, <1>3 DEF Init, TypeOK
<1>5. DeletionBooks
    BY DEF Init, DeletionBooks, NoOp, NoPump, NoSweep, Settled
<1>6. QED  BY <1>4, <1>5 DEF ConversationInv

\* The pump starts a run only that is held and queued, so none once a deletion is confirmed.
LEMMA PumpKeepsInv ==
    ASSUME ConversationInv, Pump
    PROVE  /\ ConversationInv'
           /\ confirmed => \A r \in Runs : run'[r].status = "running" => run[r].status = "running"
<1> USE DEF ConversationInv
<1>1. /\ UNCHANGED <<control, session, branch, proc, known, cleanup, op, birth, buried, sweep, doomed,
                    confirmed>>
      /\ proc \in {"live", "recovering"}
    BY DEF Pump, PumpChooses, PumpFinalizes, PumpStarts, PumpTimer, PumpKeeps, sweepVars, Live
<1>2. NoPump \in PumpRecord /\ NoPump.pc = "idle"
    BY Chosen, BoundsAssumption DEF NoPump, PumpRecord
<1>3. PumpEnds \/ PumpFails => /\ pump' \in PumpRecord /\ pump'.pc = "idle"
                               /\ timer' \in BOOLEAN /\ missed' \in BOOLEAN
    BY <1>2 DEF PumpEnds, PumpFails, TypeOK
<1>4. ASSUME UNCHANGED run, pump' \in PumpRecord, timer' \in BOOLEAN, missed' \in BOOLEAN,
             owed' \in [Runs -> {"no", "pending", "failed"}], UNCHANGED live, open' \subseteq Runs,
             upsets' \in 0 .. MaxUpset,
             \/ pump'.pc # "claimed"
             \/ pump.pc = "claimed" /\ pump'.cand = pump.cand
             \/ pump'.cand \in known /\ run[pump'.cand].status = "queued"
      PROVE  ConversationInv'
  <2>1. TypeOK'
      BY <1>1, <1>4 DEF TypeOK
  <2>2. DeletionBooks'
      BY <1>1, <1>4 DEF DeletionBooks, TypeOK, Unfinished
  <2>3. QED  BY <2>1, <2>2
<1>5. Upset => upsets' \in 0 .. MaxUpset
    BY BoundsAssumption DEF Upset, TypeOK
<1>6. CASE PumpChooses
  <2>1. UNCHANGED <<run, live, open, owed>> /\ upsets' \in 0 .. MaxUpset
      BY <1>5, <1>6 DEF PumpChooses, TypeOK
  <2>2. \/ PumpFails \/ PumpEnds
        \/ \E r \in known : Claims(r) /\ run[r].status = "queued"
        \/ /\ pump' = [pump EXCEPT !.pc = "finalize", !.cand = Least(FailedTail(pump.view))]
           /\ UNCHANGED <<timer, missed>>
      BY <1>6 DEF PumpChooses, Startable
  <2>3. CASE \E r \in known : Claims(r) /\ run[r].status = "queued"
    <3>1. PICK r \in known : Claims(r) /\ run[r].status = "queued"
        BY <2>3
    <3>2. r \in 0 .. MaxRun
        BY BoundsAssumption DEF TypeOK, Runs
    <3>3. pump' = [pump EXCEPT !.pc = "claimed", !.view = Documents, !.cand = r]
          /\ UNCHANGED <<timer, missed>>
        BY <3>1 DEF Claims
    <3>4. pump' \in PumpRecord /\ pump'.cand = r
        BY <3>2, <3>3, Chosen DEF PumpRecord, TypeOK
    <3>5. QED  BY <1>4, <2>1, <3>1, <3>3, <3>4 DEF TypeOK
  <2>4. CASE /\ pump' = [pump EXCEPT !.pc = "finalize", !.cand = Least(FailedTail(pump.view))]
             /\ UNCHANGED <<timer, missed>>
    <3>1. pump' \in PumpRecord /\ pump'.pc = "finalize"
        BY <2>4, Chosen DEF PumpRecord, TypeOK
    <3>2. QED  BY <1>4, <2>1, <2>4, <3>1 DEF TypeOK
  <2>5. CASE PumpFails \/ PumpEnds
      BY <1>3, <1>4, <2>1, <2>5 DEF TypeOK
  <2>6. QED  BY <2>1, <2>2, <2>3, <2>4, <2>5
<1>7. CASE PumpFinalizes
  <2>1. UNCHANGED <<run, live>>
      BY <1>7 DEF PumpFinalizes
  <2>2. owed' \in [Runs -> {"no", "pending", "failed"}] /\ open' \subseteq Runs /\ upsets' \in 0 .. MaxUpset
      BY <1>7, FinalizationKeeps DEF PumpFinalizes
  <2>3. CASE pump' = [pump EXCEPT !.pc = "reread", !.view = Documents] /\ UNCHANGED <<timer, missed>>
    <3>1. pump' \in PumpRecord /\ pump'.pc = "reread"
        BY <2>3, Chosen DEF PumpRecord, TypeOK
    <3>2. QED  BY <1>4, <2>1, <2>2, <2>3, <3>1 DEF TypeOK
  <2>4. CASE PumpFails
      BY <1>3, <1>4, <2>1, <2>2, <2>4 DEF TypeOK
  <2>5. QED  BY <1>7, <2>3, <2>4 DEF PumpFinalizes
<1>8. CASE PumpStarts
  <2> DEFINE r == pump.cand
  <2>1. /\ pump.pc = "claimed" /\ r \in Runs /\ UNCHANGED owed
        /\ run[r].status = "queued" => r \in known /\ ~confirmed
      BY <1>8 DEF PumpStarts, DeletionBooks
  <2>2. CASE run[r].status = "queued" /\ Running(r) /\ pump' = NoPump /\ missed' = FALSE
             /\ UNCHANGED <<timer, upsets>>
    <3>1. /\ run' = [run EXCEPT ![r].status = "running"]
          /\ live' = live \union {r} /\ open' = open \union {r}
          /\ pump' \in PumpRecord /\ pump'.pc = "idle" /\ missed' \in BOOLEAN
        BY <1>2, <2>2 DEF Running
    <3>2. /\ run' \in [Runs -> RunRecord]
          /\ \A q \in Runs : q # r => run'[q] = run[q]
          /\ run'[r].status = "running"
        BY <2>1, <3>1 DEF TypeOK, RunRecord, Present
    <3>3. TypeOK'
        BY <1>1, <2>1, <2>2, <3>1, <3>2 DEF TypeOK
    <3>4. Unfinished' = Unfinished
        BY <1>1, <2>1, <2>2, <3>2 DEF Unfinished, TypeOK
    <3>5. DeletionBooks'
        BY <1>1, <2>1, <2>2, <3>1, <3>2, <3>4 DEF DeletionBooks
    <3>6. QED  BY <2>1, <2>2, <3>3, <3>5
  <2>3. CASE UNCHANGED <<run, live, open>> /\ (PumpFails \/ PumpEnds) /\ (UNCHANGED upsets \/ Upset)
      BY <1>3, <1>4, <1>5, <2>1, <2>3 DEF TypeOK
  <2>4. QED  BY <1>8, <2>2, <2>3 DEF PumpStarts
<1>9. CASE PumpTimer
  <2>1. Request(Documents) /\ UNCHANGED <<run, live, open, owed, missed, upsets>>
      BY <1>9 DEF PumpTimer
  <2>2. QED  BY <1>4, <2>1, Chosen, RequestKeeps DEF TypeOK
<1>10. QED  BY <1>6, <1>7, <1>8, <1>9 DEF Pump

\* An execution, a cancel and the cleanup behind it start nothing.
LEMMA TailKeepsInv ==
    ASSUME ConversationInv, NEW r \in Runs, Cancel(r) \/ Execution(r) \/ CleanupFinalizes(r)
    PROVE  /\ ConversationInv'
           /\ \A q \in Runs : run'[q].status = "running" => run[q].status = "running"
<1> USE DEF ConversationInv
<1>1. /\ UNCHANGED <<control, session, proc, known, op, birth, buried, sweep, doomed, missed, confirmed>>
      /\ proc \in {"live", "recovering"}
    BY DEF Cancel, Execution, RunAdvances, RunEnds, RunFinalizes, ExecutionEnds, CleanupFinalizes,
           TailKeeps, sweepVars, Live
<1>2. /\ branch' \subseteq Runs /\ live' \subseteq live /\ open' \subseteq Runs /\ upsets' \in 0 .. MaxUpset
      /\ owed' \in [Runs -> {"no", "pending", "failed"}]
      /\ cleanup' \in [Runs -> {"off", "on", "retry"}]
  <2>1. Upset => upsets' \in 0 .. MaxUpset
      BY BoundsAssumption DEF Upset, TypeOK
  <2>2. CASE RunFinalizes(r) \/ CleanupFinalizes(r)
      BY <2>2, FinalizationKeeps DEF RunFinalizes, CleanupFinalizes, TypeOK
  <2>3. QED
      BY <2>1, <2>2 DEF Cancel, Cancelled, Execution, RunAdvances, RunEnds, ExecutionEnds,
         tailVars, TypeOK
<1>3. /\ run' \in [Runs -> RunRecord] /\ \A q \in Runs : q # r => run'[q] = run[q]
      /\ \/ run'[r].status = run[r].status
         \/ run'[r].status \in Terminal
  <2>1. CASE RunAdvances(r)
      BY <2>1 DEF RunAdvances, TypeOK, RunRecord
  <2>2. CASE RunEnds(r) \/ Cancel(r)
    <3>1. \E s \in {"completed", "failed", "cancelled"} : run' = [run EXCEPT ![r].status = s]
        BY <2>2 DEF RunEnds, Cancel, Cancelled
    <3>2. QED  BY <3>1 DEF TypeOK, RunRecord, Terminal, Present
  <2>3. CASE UNCHANGED run
      BY <2>3 DEF TypeOK
  <2>4. QED  BY <2>1, <2>2, <2>3 DEF Execution, RunFinalizes, ExecutionEnds, CleanupFinalizes
<1>4. /\ pump' \in PumpRecord /\ timer' \in BOOLEAN
      /\ pump'.pc = "claimed" => pump.pc = "claimed" /\ pump'.cand = pump.cand
  <2>1. UNCHANGED pumpVars \/ Request(Documents)
      BY DEF Cancel, Execution, RunAdvances, RunEnds, RunFinalizes, ExecutionEnds, CleanupFinalizes,
             Wakes
  <2>2. CASE UNCHANGED pumpVars
      BY <2>2 DEF pumpVars, TypeOK
  <2>3. QED  BY <2>1, <2>2, Chosen, RequestKeeps
<1>5. TypeOK'
    BY <1>1, <1>2, <1>3, <1>4 DEF TypeOK
<1>6. Unfinished' \subseteq Unfinished
    BY <1>1, <1>3 DEF Unfinished, Terminal, TypeOK
<1>7. DeletionBooks'
    BY <1>1, <1>2, <1>3, <1>4, <1>6 DEF DeletionBooks, Terminal, TypeOK
<1>8. QED  BY <1>3, <1>5, <1>7 DEF Terminal

\* The conversation cleanup removes runs and stores; it removes no tombstone.
LEMMA SweepKeepsInv ==
    ASSUME ConversationInv, Sweep
    PROVE  /\ ConversationInv'
           /\ \A q \in Runs : run'[q].status = "running" => run[q].status = "running"
<1> USE DEF ConversationInv
<1>1. UNCHANGED <<proc, live, open, owed, cleanup, pump, timer, op, birth, buried, missed, confirmed>>
      /\ proc \in {"live", "recovering"}
    BY DEF Sweep, SweepLists, SweepRun, SweepSession, SweepControl, SweepRetries, SweepKeeps,
           tailVars, pumpVars, Live
<1>2. /\ session' \in BOOLEAN /\ branch' \subseteq branch /\ known' \subseteq known
      /\ upsets' \in 0 .. MaxUpset
      /\ control' = control \/ (sweep.pc = "control" /\ control' = "none")
  <2>1. Upset => upsets' \in 0 .. MaxUpset
      BY BoundsAssumption DEF Upset, TypeOK
  <2>2. QED
      BY <2>1 DEF Sweep, SweepLists, SweepRun, SweepSession, SweepControl, SweepRetries, diskVars, TypeOK
<1>3. /\ RunsGoOn
      /\ \A q \in live : run'[q] = run[q]
      /\ \A q \in Runs : run'[q].status = "running" => run[q].status = "running"
      /\ \A q \in known \ known' : run'[q].status # "queued"
  <2>1. CASE \E r \in Runs : SweepRun(r)
    <3>1. PICK r \in Runs : SweepRun(r)
        BY <2>1
    <3>2. r \notin live /\ (run' = Gone(r) \/ UNCHANGED <<run, known>>)
          /\ (run' = Gone(r) \/ known' = known) /\ known \ known' \subseteq {r}
          /\ (known' # known => run' = Gone(r))
        BY <3>1 DEF SweepRun, SweepWaits
    <3>3. CASE run' = Gone(r)
      <4>1. run' \in [Runs -> RunRecord]
          BY <3>3 DEF Gone, TypeOK, RunRecord
      <4>2. /\ \A q \in Runs : q # r => run'[q] = run[q]
            /\ run'[r].status = run[r].status \/ run'[r].status = "gone"
            /\ run'[r].status # "queued"
          BY <3>3 DEF Gone, TypeOK, Present
      <4>3. QED  BY <3>2, <4>1, <4>2 DEF RunsGoOn, TypeOK
    <3>4. CASE UNCHANGED <<run, known>>
        BY <3>4 DEF RunsGoOn, TypeOK
    <3>5. QED  BY <3>2, <3>3, <3>4
  <2>2. CASE UNCHANGED <<run, known>>
      BY <2>2 DEF RunsGoOn, TypeOK
  <2>3. QED  BY <2>1, <2>2 DEF Sweep, SweepLists, SweepSession, SweepControl, SweepRetries, diskVars
<1>4. /\ sweep' \in SweepRecord /\ doomed' \in BOOLEAN /\ (doomed' => doomed)
      /\ sweep'.pc # "off" /\ sweep'.mode # "tombstone" => doomed'
      /\ sweep'.pc = "control" => sweep'.mode # "tombstone"
  <2>1. /\ sweep \in SweepRecord /\ doomed \in BOOLEAN
        /\ sweep.pc # "off" /\ sweep.mode # "tombstone" => doomed
        /\ sweep.pc = "control" => sweep.mode # "tombstone"
      BY DEF TypeOK, DeletionBooks
  <2>2. ASSUME NEW f \in BOOLEAN, SweepEnds(f), sweep.pc # "off"
        PROVE  /\ sweep' \in SweepRecord /\ doomed' \in BOOLEAN /\ (doomed' => doomed)
               /\ sweep'.pc # "off" /\ sweep'.mode # "tombstone" => doomed'
               /\ sweep'.pc # "control"
      BY <2>1, <2>2, SweepEndsKeeps
  <2>3. CASE SweepLists
    <3>1. UNCHANGED doomed /\ sweep'.pc = "runs" /\ sweep'.mode = sweep.mode /\ sweep.pc = "list"
        BY <2>1, <2>3 DEF SweepLists, SweepRecord
    <3>2. sweep' \in SweepRecord
        BY <2>1, <2>3 DEF SweepLists, SweepRecord, Stored
    <3>3. QED  BY <2>1, <3>1, <3>2
  <2>4. CASE \E r \in Runs : SweepRun(r)
    <3>1. /\ UNCHANGED doomed /\ sweep' \in SweepRecord
          /\ sweep'.pc = sweep.pc /\ sweep'.mode = sweep.mode
        BY <2>1, <2>4 DEF SweepRun, SweepRecord
    <3>2. QED  BY <2>1, <3>1
  <2>5. CASE SweepSession
    <3>1. sweep.failed \in BOOLEAN /\ sweep.pc = "runs"
        BY <2>1, <2>5 DEF SweepRecord, SweepSession
    <3>2. \/ \E f \in BOOLEAN : SweepEnds(f)
          \/ sweep.mode # "tombstone" /\ sweep' = [sweep EXCEPT !.pc = "control"] /\ UNCHANGED doomed
        BY <2>5, <3>1 DEF SweepSession
    <3>3. QED  BY <2>1, <2>2, <3>1, <3>2 DEF SweepRecord
  <2>6. CASE SweepControl
    <3>1. sweep.pc # "off" /\ \E f \in BOOLEAN : SweepEnds(f)
        BY <2>6 DEF SweepControl
    <3>2. QED  BY <2>2, <3>1
  <2>7. CASE SweepRetries
    <3>1. /\ Schedule(sweep.mode, sweep.asked) /\ sweep.pc = "retry"
          /\ sweep.mode \in {"none", "tombstone", "uncommitted"} /\ sweep.asked \in SUBSET Runs
        BY <2>1, <2>7 DEF SweepRetries, SweepRecord
    <3>2. /\ sweep' \in SweepRecord /\ doomed' = (doomed \/ sweep.mode = "uncommitted")
          /\ sweep'.pc # "off" /\ sweep'.mode # "tombstone" => doomed'
          /\ sweep'.pc = "control" => sweep.pc = "control" /\ sweep'.mode = sweep.mode
        BY <2>1, <3>1, ScheduleKeeps
    <3>3. sweep.mode = "uncommitted" => doomed
        BY <2>1, <3>1
    <3>4. QED  BY <2>1, <3>1, <3>2, <3>3
  <2>8. QED  BY <2>3, <2>4, <2>5, <2>6, <2>7 DEF Sweep
<1>5. sweep.pc = "control" => doomed /\ control # "deleted"
    BY DEF DeletionBooks
<1>6. control' # control => doomed /\ control # "deleted" /\ ~confirmed
    BY <1>2, <1>5 DEF DeletionBooks
<1>7. TypeOK'
    BY <1>1, <1>2, <1>3, <1>4 DEF TypeOK, RunsGoOn
<1>8. DeletionBooks'
  <2>1. /\ confirmed' => control' = "deleted" /\ \A r \in known' : run'[r].status # "queued"
        /\ doomed' => control' # "deleted"
      BY <1>1, <1>2, <1>3, <1>4, <1>6 DEF DeletionBooks, RunsGoOn, TypeOK
  <2>2. pump'.pc = "claimed" => /\ pump'.cand \in Runs /\ run'[pump'.cand].status # "absent"
                                /\ run'[pump'.cand].status = "queued" => pump'.cand \in known'
    <3>1. SUFFICES ASSUME pump.pc = "claimed"
                   PROVE  /\ pump.cand \in Runs /\ run'[pump.cand].status # "absent"
                          /\ run'[pump.cand].status = "queued" => pump.cand \in known'
        BY <1>1
    <3>2. /\ pump.cand \in Runs /\ run[pump.cand].status # "absent"
          /\ run[pump.cand].status = "queued" => pump.cand \in known
        BY <3>1 DEF DeletionBooks
    <3>3. run'[pump.cand].status \in {"queued", "absent"} => run'[pump.cand].status = run[pump.cand].status
        BY <1>3, <3>2 DEF RunsGoOn
    <3>4. QED  BY <1>3, <3>2, <3>3
  <2>3. /\ op'.pc \in {"store", "start", "recheck", "join", "failed"} => control' = "live"
        /\ op'.pc = "cancel" => control' = "deleted" /\ Unfinished' \subseteq op'.left
        /\ op'.pc \in Settled => ~doomed'
        /\ op'.pc \in {"start", "recheck"} => op'.run \in Runs
        /\ op'.pc = "recheck" => op'.after \in Runs
    <3>1. Unfinished' \subseteq Unfinished
        BY <1>2, <1>3 DEF Unfinished, RunsGoOn, TypeOK
    <3>2. QED  BY <1>1, <1>4, <1>6, <3>1 DEF DeletionBooks, Settled
  <2>4. proc' # "down"
      BY <1>1
  <2>5. QED  BY <1>4, <2>1, <2>2, <2>3, <2>4 DEF DeletionBooks
<1>9. QED  BY <1>3, <1>7, <1>8

\* What an operation that leaves the runs alone has to keep.
LEMMA PlainOperation ==
    ASSUME ConversationInv, proc \in {"live", "recovering"},
           UNCHANGED <<branch, run, known, live, open, owed, cleanup, missed, confirmed, proc>>,
           op' \in OpRecord, session' \in BOOLEAN, birth' \in BOOLEAN, buried' \in BOOLEAN,
           upsets' \in 0 .. MaxUpset,
           control' \in {"none", "live", "deleted"}, control = "deleted" => control' = "deleted",
           pump' \in PumpRecord, timer' \in BOOLEAN,
           pump'.pc = "claimed" => pump.pc = "claimed" /\ pump'.cand = pump.cand,
           sweep' \in SweepRecord, doomed' \in BOOLEAN,
           sweep'.pc # "off" /\ sweep'.mode # "tombstone" => doomed',
           sweep'.pc = "control" => sweep'.mode # "tombstone",
           doomed' => control' # "deleted",
           op'.pc \in {"store", "failed", "join"} => control' = "live",
           op'.pc \notin {"start", "recheck"},
           op'.pc = "cancel" => control' = "deleted" /\ Unfinished \subseteq op'.left,
           op'.pc \in Settled => ~doomed'
    PROVE  ConversationInv'
<1> USE DEF ConversationInv
<1>1. TypeOK'
    BY DEF TypeOK
<1>2. /\ confirmed' => control' = "deleted" /\ \A r \in known' : run'[r].status # "queued"
      /\ pump'.pc = "claimed" => /\ pump'.cand \in Runs /\ run'[pump'.cand].status # "absent"
                                 /\ run'[pump'.cand].status = "queued" => pump'.cand \in known'
    BY DEF DeletionBooks
<1>3. /\ op'.pc \in {"store", "start", "recheck", "join", "failed"} => control' = "live"
      /\ Unfinished' = Unfinished
    BY DEF Unfinished
<1>4. QED  BY <1>1, <1>2, <1>3 DEF DeletionBooks

\* What an earlier birth left is cleaned up first, or there is nothing of it.
LEMMA SettleKeeps ==
    ASSUME ConversationInv, NEW o \in OpRecord, SettleCleanup(o)
    PROVE  /\ op' \in OpRecord /\ sweep' \in SweepRecord /\ doomed' = doomed
           /\ op'.pc \in {"await", "control", "tombstone", "move"}
           /\ op'.pc # "await" => ~doomed
           /\ sweep'.pc # "off" /\ sweep'.mode # "tombstone" => doomed'
           /\ sweep'.pc = "control" => sweep'.mode # "tombstone"
<1> USE DEF ConversationInv
<1>1. /\ sweep \in SweepRecord /\ doomed \in BOOLEAN
      /\ sweep.pc # "off" /\ sweep.mode # "tombstone" => doomed
      /\ sweep.pc = "control" => sweep.mode # "tombstone"
    BY DEF TypeOK, DeletionBooks
<1>2. CASE doomed
  <2>1. /\ op' = [o EXCEPT !.pc = "await", !.then = "settle"]
        /\ Schedule("uncommitted", sweep.asked) /\ sweep.asked \in SUBSET Runs
      BY <1>1, <1>2 DEF SettleCleanup, SweepRecord
  <2>2. op' \in OpRecord /\ op'.pc = "await"
      BY <2>1 DEF OpRecord
  <2>3. /\ sweep' \in SweepRecord /\ doomed' = (doomed \/ "uncommitted" = "uncommitted")
        /\ sweep'.pc # "off" /\ sweep'.mode # "tombstone" => doomed'
        /\ sweep'.pc = "control" => sweep.pc = "control" /\ sweep'.mode = sweep.mode
      BY <1>1, <2>1, ScheduleKeeps
  <2>4. QED  BY <1>1, <1>2, <2>2, <2>3
<1>3. CASE ~doomed
  <2>1. op' = [o EXCEPT !.pc = Body(o.kind)] /\ UNCHANGED <<sweep, doomed>>
      BY <1>3 DEF SettleCleanup, sweepVars
  <2>2. Body(o.kind) \in {"control", "tombstone", "move"}
      BY DEF Body
  <2>3. op' \in OpRecord /\ op'.pc = Body(o.kind)
      BY <2>1, <2>2 DEF OpRecord
  <2>4. QED  BY <1>1, <1>3, <2>1, <2>2, <2>3
<1>4. QED  BY <1>2, <1>3

\* An operation takes the key of the conversation.
LEMMA BeginsKeeps ==
    ASSUME ConversationInv, NEW kind \in {"submit", "delete", "rollback"}, NEW key \in Nat,
           Begins(kind, key), upsets' \in 0 .. MaxUpset
    PROVE  ConversationInv' /\ UNCHANGED run
<1> USE DEF ConversationInv
<1> DEFINE o == [NoOp EXCEPT !.kind = kind, !.key = key]
<1>1. /\ proc = "live" /\ UNCHANGED <<control, session, pump, timer, birth, buried, branch, run, known, missed,
                                     confirmed, proc, live, open, owed, cleanup>>
      /\ \/ op' = [o EXCEPT !.pc = "reconcile", !.then = "settle"] /\ UNCHANGED <<sweep, doomed>>
         \/ SettleCleanup(o)
    BY DEF Begins, OpHolds, OpKeeps, pumpVars, sweepVars, tailVars
<1>2. o \in OpRecord
  <2>1. NoOp \in OpRecord
      BY BoundsAssumption DEF NoOp, OpRecord
  <2>2. QED  BY <2>1 DEF OpRecord
<1> HIDE DEF o
<1>3. /\ op' \in OpRecord /\ sweep' \in SweepRecord /\ doomed' = doomed
      /\ op'.pc \in {"await", "control", "tombstone", "move", "reconcile"}
      /\ op'.pc \in Settled => ~doomed
      /\ sweep'.pc # "off" /\ sweep'.mode # "tombstone" => doomed'
      /\ sweep'.pc = "control" => sweep'.mode # "tombstone"
  <2>1. CASE SettleCleanup(o)
      BY <1>2, <2>1, SettleKeeps DEF Settled
  <2>2. CASE op' = [o EXCEPT !.pc = "reconcile", !.then = "settle"] /\ UNCHANGED <<sweep, doomed>>
    <3>1. op' \in OpRecord /\ op'.pc = "reconcile"
        BY <1>2, <2>2 DEF OpRecord
    <3>2. QED  BY <2>2, <3>1 DEF TypeOK, DeletionBooks, Settled
  <2>3. QED  BY <1>1, <2>1, <2>2
<1>4. /\ control' = control /\ control \in {"none", "live", "deleted"} /\ session' \in BOOLEAN
      /\ birth' \in BOOLEAN /\ buried' \in BOOLEAN /\ pump' \in PumpRecord /\ timer' \in BOOLEAN /\ doomed \in BOOLEAN
      /\ pump' = pump /\ (doomed => control # "deleted")
    BY <1>1 DEF TypeOK, DeletionBooks
<1>5. QED  BY <1>1, <1>3, <1>4, PlainOperation

\* The operations that leave the runs alone go on.
LEMMA PlainKeeps ==
    ASSUME ConversationInv,
           \/ OpReconciles \/ OpAwaits \/ OpControls \/ OpRechecks \/ OpJoins \/ OpTakesBack \/ OpBuries
    PROVE  ConversationInv' /\ UNCHANGED run
<1> USE DEF ConversationInv
<1>1. /\ UNCHANGED <<branch, run, known, live, open, owed, cleanup, missed, confirmed, proc>>
      /\ proc \in {"live", "recovering"} /\ buried' \in BOOLEAN
    BY DEF OpReconciles, OpAwaits, OpControls, OpRechecks, OpJoins, OpTakesBack, OpBuries, OpHolds,
           OpKeeps, tailVars, Live, TypeOK
<1>2. /\ control \in {"none", "live", "deleted"} /\ session \in BOOLEAN /\ birth \in BOOLEAN
      /\ pump \in PumpRecord /\ timer \in BOOLEAN /\ upsets \in 0 .. MaxUpset /\ op \in OpRecord
      /\ sweep \in SweepRecord /\ doomed \in BOOLEAN /\ run \in [Runs -> RunRecord]
      /\ sweep.pc # "off" /\ sweep.mode # "tombstone" => doomed
      /\ sweep.pc = "control" => sweep.mode # "tombstone"
      /\ doomed => control # "deleted"
      /\ op.pc \in {"store", "start", "recheck", "join", "failed"} => control = "live"
      /\ op.pc \in Settled => ~doomed
    BY DEF TypeOK, DeletionBooks
<1>3. Upset => upsets' \in 0 .. MaxUpset
    BY BoundsAssumption DEF Upset, TypeOK
<1>4. NoOp \in OpRecord /\ NoOp.pc = "idle"
    BY BoundsAssumption DEF NoOp, OpRecord
<1>5. ASSUME NEW pc \in {"await", "control", "store", "tombstone", "move", "join", "failed"}
      PROVE  Goto(pc) => op' \in OpRecord /\ op'.pc = pc
    BY <1>2, <1>5 DEF Goto, OpRecord
<1>6. ASSUME NEW runs \in SUBSET Runs, Schedule("uncommitted", runs)
      PROVE  /\ sweep' \in SweepRecord /\ doomed' = TRUE
             /\ sweep'.pc = "control" => sweep'.mode # "tombstone"
    BY <1>2, <1>6, ScheduleKeeps
<1>7. CASE OpReconciles
  <2>1. UNCHANGED <<control, pump, timer>> /\ op.pc = "reconcile"
      BY <1>7 DEF OpReconciles, pumpVars
  <2>2. CASE Returns /\ UNCHANGED <<session, birth, sweep, doomed>> /\ (Upset \/ UNCHANGED upsets)
      BY <1>1, <1>2, <1>3, <1>4, <2>1, <2>2, PlainOperation DEF Returns, Settled
  <2>3. CASE /\ session' = FALSE /\ birth' = FALSE /\ UNCHANGED upsets
             /\ SettleCleanup(op) \/ (Returns /\ UNCHANGED <<sweep, doomed>>)
    <3>1. CASE Returns /\ UNCHANGED <<sweep, doomed>>
        BY <1>1, <1>2, <1>4, <2>1, <2>3, <3>1, PlainOperation DEF Returns, Settled
    <3>2. CASE SettleCleanup(op)
      <4>1. /\ op' \in OpRecord /\ sweep' \in SweepRecord /\ doomed' = doomed
            /\ op'.pc \in {"await", "control", "tombstone", "move"}
            /\ op'.pc # "await" => ~doomed
            /\ sweep'.pc # "off" /\ sweep'.mode # "tombstone" => doomed'
            /\ sweep'.pc = "control" => sweep'.mode # "tombstone"
          BY <1>2, <3>2, SettleKeeps
      <4>2. QED  BY <1>1, <1>2, <2>1, <2>3, <4>1, PlainOperation DEF Settled
    <3>3. QED  BY <2>3, <3>1, <3>2
  <2>4. CASE /\ control = "live" /\ birth' = FALSE /\ Schedule("uncommitted", Stored) /\ Goto("await")
             /\ UNCHANGED <<session, upsets>>
    <3>1. Stored \in SUBSET Runs
        BY DEF Stored
    <3>2. QED  BY <1>1, <1>2, <1>5, <1>6, <2>1, <2>4, <3>1, PlainOperation DEF Settled
  <2>5. QED  BY <1>7, <2>2, <2>3, <2>4 DEF OpReconciles, sweepVars
<1>8. CASE OpAwaits
  <2>1. UNCHANGED <<control, session, pump, timer, birth, sweep, doomed, upsets>>
      BY <1>8 DEF OpAwaits, pumpVars, sweepVars
  <2>2. Returns \/ (~doomed /\ \E pc \in {"control", "tombstone", "move"} : Goto(pc))
      BY <1>8 DEF OpAwaits, Body
  <2>3. QED  BY <1>1, <1>2, <1>4, <1>5, <2>1, <2>2, PlainOperation DEF Returns, Settled
<1>9. CASE OpControls
  <2>1. UNCHANGED <<pump, timer, sweep, doomed>> /\ op.pc = "control" /\ ~doomed
      BY <1>2, <1>9 DEF OpControls, pumpVars, sweepVars, Settled
  <2>2. CASE Returns /\ UNCHANGED <<control, session, birth, upsets>>
      BY <1>1, <1>2, <1>4, <2>1, <2>2, PlainOperation DEF Returns, Settled
  <2>3. CASE /\ control = "live"
             /\ op' = [op EXCEPT !.pc = "store", !.after = Greatest(Visible(Documents))]
             /\ UNCHANGED <<control, session, birth, upsets>>
    <3>1. op' \in OpRecord /\ op'.pc = "store"
        BY <1>2, <2>3, Chosen DEF OpRecord
    <3>2. QED  BY <1>1, <1>2, <2>1, <2>3, <3>1, PlainOperation
  <2>4. CASE /\ control = "none" /\ session' = TRUE /\ control' = "live" /\ UNCHANGED <<birth, upsets>>
             /\ op' = [op EXCEPT !.pc = "store", !.created = TRUE]
    <3>1. op' \in OpRecord /\ op'.pc = "store"
        BY <1>2, <2>4 DEF OpRecord
    <3>2. QED  BY <1>1, <1>2, <2>1, <2>4, <3>1, PlainOperation
  <2>5. CASE /\ control = "none" /\ session' = TRUE /\ control' \in {"none", "live"} /\ Upset
             /\ birth' = TRUE /\ op' = [op EXCEPT !.pc = "reconcile", !.then = "throw"]
    <3>1. op' \in OpRecord /\ op'.pc = "reconcile"
        BY <1>2, <2>5 DEF OpRecord
    <3>2. QED  BY <1>1, <1>2, <1>3, <2>1, <2>5, <3>1, PlainOperation DEF Settled
  <2>6. CASE Returns /\ Upset /\ control = "live" /\ UNCHANGED <<control, session, birth>>
      BY <1>1, <1>2, <1>3, <1>4, <2>1, <2>6, PlainOperation DEF Returns, Settled
  <2>7. CASE Returns /\ Upset /\ control' = "live" /\ session' = TRUE /\ UNCHANGED birth
             /\ control = "none"
      BY <1>1, <1>2, <1>3, <1>4, <2>1, <2>7, PlainOperation DEF Returns, Settled
  <2>8. QED  BY <1>9, <2>2, <2>3, <2>4, <2>5, <2>6, <2>7 DEF OpControls
<1>10. CASE OpRechecks
  <2>1. UNCHANGED <<control, session, birth, sweep, doomed, upsets>> /\ op.pc = "recheck"
      BY <1>10 DEF OpRechecks, sweepVars
  <2>2. CASE Returns /\ UNCHANGED <<pump, timer>>
      BY <1>1, <1>2, <1>4, <2>1, <2>2, PlainOperation DEF Returns, Settled
  <2>3. CASE Request(Documents) /\ Goto("join")
    <3>1. /\ pump' \in PumpRecord /\ timer' \in BOOLEAN
          /\ pump'.pc = "claimed" => pump.pc = "claimed" /\ pump'.cand = pump.cand
        BY <2>3, Chosen, RequestKeeps
    <3>2. QED  BY <1>1, <1>2, <1>5, <2>1, <2>3, <3>1, PlainOperation DEF Settled
  <2>4. QED  BY <1>10, <2>2, <2>3 DEF OpRechecks, pumpVars
<1>11. CASE OpJoins
  <2>1. UNCHANGED <<control, session, pump, timer, birth, sweep, doomed, upsets>> /\ Returns
      BY <1>11 DEF OpJoins, pumpVars, sweepVars
  <2>2. QED  BY <1>1, <1>2, <1>4, <2>1, PlainOperation DEF Returns, Settled
<1>12. CASE OpTakesBack
  <2>1. UNCHANGED <<control, session, pump, timer, birth>> /\ op.pc = "failed" /\ control = "live"
      BY <1>2, <1>12 DEF OpTakesBack, pumpVars
  <2>2. CASE Returns /\ UNCHANGED <<sweep, doomed, upsets>>
      BY <1>1, <1>2, <1>4, <2>1, <2>2, PlainOperation DEF Returns, Settled
  <2>3. CASE /\ \E runs \in SUBSET Runs : Schedule("uncommitted", runs)
             /\ op' = [op EXCEPT !.pc = "await", !.then = "throw"] /\ upsets' \in 0 .. MaxUpset
    <3>1. op' \in OpRecord /\ op'.pc = "await"
        BY <1>2, <2>3 DEF OpRecord
    <3>2. QED  BY <1>1, <1>2, <1>6, <2>1, <2>3, <3>1, PlainOperation DEF Settled
  <2>4. /\ Leftover(op.run) \in SUBSET Runs
        /\ op.run # 0 => {op.run} \in SUBSET Runs
      BY <1>2, BoundsAssumption DEF Leftover, Stored, OpRecord, Runs
  <2>5. QED  BY <1>2, <1>3, <1>12, <2>2, <2>3, <2>4 DEF OpTakesBack, sweepVars
<1>13. CASE OpBuries
  <2>1. UNCHANGED <<session, pump, timer, birth, sweep, doomed>> /\ op.pc = "tombstone" /\ ~doomed
      BY <1>2, <1>13 DEF OpBuries, pumpVars, sweepVars, Settled
  <2>2. CASE Returns /\ UNCHANGED control /\ (UNCHANGED upsets \/ Upset)
      BY <1>1, <1>2, <1>3, <1>4, <2>1, <2>2, PlainOperation DEF Returns, Settled
  <2>3. CASE control' = "deleted" /\ op' = [op EXCEPT !.pc = "cancel", !.left = Unfinished]
             /\ UNCHANGED upsets
    <3>1. Unfinished \in SUBSET Runs
        BY DEF Unfinished, TypeOK
    <3>2. op' \in OpRecord /\ op'.pc = "cancel" /\ op'.left = Unfinished
        BY <1>2, <2>3, <3>1 DEF OpRecord
    <3>3. QED  BY <1>1, <1>2, <2>1, <2>3, <3>2, PlainOperation DEF Settled
  <2>4. QED  BY <1>13, <2>2, <2>3 DEF OpBuries
<1>14. QED  BY <1>1, <1>7, <1>8, <1>9, <1>10, <1>11, <1>12, <1>13

\* A run is stored, and held if its save did not throw; no deletion is confirmed meanwhile.
LEMMA StoresKeeps ==
    ASSUME ConversationInv, OpStores
    PROVE  /\ ConversationInv'
           /\ \A q \in Runs : run'[q].status = "running" => run[q].status = "running"
<1> USE DEF ConversationInv
<1>1. /\ UNCHANGED <<control, session, branch, pump, timer, birth, sweep, doomed, missed, confirmed>>
      /\ UNCHANGED <<proc, live, open, owed, cleanup, buried>> /\ proc \in {"live", "recovering"}
      /\ op.pc = "store"
    BY DEF OpStores, OpKeeps, pumpVars, sweepVars, tailVars, Live
<1>2. control = "live" /\ ~confirmed /\ ~doomed
    BY <1>1 DEF DeletionBooks, Settled
<1>3. Upset => upsets' \in 0 .. MaxUpset
    BY BoundsAssumption DEF Upset, TypeOK
<1>4. NoOp \in OpRecord /\ NoOp.pc = "idle" /\ op \in OpRecord
    BY BoundsAssumption DEF NoOp, OpRecord, TypeOK
<1>5. ASSUME op' \in OpRecord, op'.pc \in {"idle", "failed", "start", "recheck"},
             op'.pc \in {"start", "recheck"} => op'.run \in Runs,
             op'.pc = "recheck" => op'.after \in Runs,
             known' \subseteq Runs, known \subseteq known', upsets' \in 0 .. MaxUpset,
             run' \in [Runs -> RunRecord],
             \A q \in Runs : run'[q] = run[q] \/ (run[q].status = "absent" /\ run'[q].status = "queued")
      PROVE  /\ ConversationInv'
             /\ \A q \in Runs : run'[q].status = "running" => run[q].status = "running"
  <2>1. \A q \in live : run'[q] = run[q]
      BY <1>5 DEF TypeOK, Terminal
  <2>2. TypeOK'
      BY <1>1, <1>5, <2>1 DEF TypeOK
  <2>3. pump'.pc = "claimed" => /\ pump'.cand \in Runs /\ run'[pump'.cand].status # "absent"
                                /\ run'[pump'.cand].status = "queued" => pump'.cand \in known'
      BY <1>1, <1>5 DEF DeletionBooks
  <2>4. DeletionBooks'
      BY <1>1, <1>2, <1>5, <2>3 DEF DeletionBooks
  <2>5. QED  BY <1>5, <2>2, <2>4
<1>6. CASE Throws /\ UNCHANGED <<run, known, upsets>>
  <2>1. op' \in OpRecord /\ op'.pc \in {"idle", "failed"}
      BY <1>4, <1>6 DEF Throws, Returns, OpRecord
  <2>2. QED  BY <1>5, <1>6, <2>1 DEF TypeOK
<1>7. ASSUME Unused # {}
      PROVE  /\ Least(Unused) \in Runs /\ run[Least(Unused)].status = "absent"
             /\ [run EXCEPT ![Least(Unused)] = [status |-> "queued", phase |-> "none",
                                                behind |-> op.after, key |-> op.key]]
                    \in [Runs -> RunRecord]
  <2>1. Least(Unused) \in Unused
      BY <1>7, Chosen
  <2>2. [status |-> "queued", phase |-> "none", behind |-> op.after, key |-> op.key] \in RunRecord
      BY <1>4 DEF OpRecord, RunRecord, Present
  <2>3. QED  BY <2>1, <2>2 DEF Unused, TypeOK
<1>8. ASSUME Unused # {},
             LET r == Least(Unused)
                 stored == [run EXCEPT ![r] = [status |-> "queued", phase |-> "none",
                                               behind |-> op.after, key |-> op.key]]
             IN  \/ /\ run' = stored /\ known' = known \union {r}
                    /\ op' = [op EXCEPT !.pc = IF op.after = 0 THEN "start" ELSE "recheck",
                                        !.run = r]
                    /\ UNCHANGED upsets
                 \/ /\ run' \in {run, stored} /\ Upset
                    /\ op' = IF op.created THEN [op EXCEPT !.pc = "failed", !.run = r] ELSE NoOp
                    /\ UNCHANGED known
      PROVE  /\ ConversationInv'
             /\ \A q \in Runs : run'[q].status = "running" => run[q].status = "running"
  <2> DEFINE r == Least(Unused)
             stored == [run EXCEPT ![r] = [status |-> "queued", phase |-> "none",
                                           behind |-> op.after, key |-> op.key]]
  <2>1. /\ r \in Runs /\ r \in 0 .. MaxRun /\ run[r].status = "absent"
        /\ stored \in [Runs -> RunRecord] /\ run \in [Runs -> RunRecord]
      BY <1>7, <1>8, BoundsAssumption DEF Runs, TypeOK
  <2>2. /\ \A q \in Runs : stored[q] = run[q] \/ (run[q].status = "absent" /\ stored[q].status = "queued")
      BY <2>1
  <2>3. /\ run' \in {run, stored} /\ known' \in {known, known \union {r}} /\ upsets' \in 0 .. MaxUpset
        /\ \/ op' = [op EXCEPT !.pc = IF op.after = 0 THEN "start" ELSE "recheck", !.run = r]
           \/ op' = [op EXCEPT !.pc = "failed", !.run = r]
           \/ op' = NoOp
      BY <1>3, <1>8 DEF TypeOK
  <2> HIDE DEF r, stored
  <2>4. /\ op' \in OpRecord /\ op'.pc \in {"idle", "failed", "start", "recheck"}
        /\ op'.pc \in {"start", "recheck"} => op'.run \in Runs
        /\ op'.pc = "recheck" => op'.after \in Runs
    <3>1. CASE op' = [op EXCEPT !.pc = IF op.after = 0 THEN "start" ELSE "recheck", !.run = r]
      <4>1. CASE op.after = 0
        BY <1>4, <2>1, <3>1, <4>1 DEF OpRecord
      <4>2. CASE op.after # 0
        <5>1. op.after \in Runs
          BY <1>4, <4>2, BoundsAssumption DEF OpRecord, Runs
        <5>2. op' = [op EXCEPT !.pc = "recheck", !.run = r]
          BY <3>1, <4>2
        <5>3. op'.pc = "recheck" /\ op'.run = r /\ op'.after = op.after /\ op' \in OpRecord
          BY <1>4, <2>1, <5>2 DEF OpRecord
        <5>4. QED  BY <2>1, <5>1, <5>3
      <4>3. QED  BY <4>1, <4>2
    <3>2. CASE op' = [op EXCEPT !.pc = "failed", !.run = r]
      BY <1>4, <2>1, <3>2 DEF OpRecord
    <3>3. CASE op' = NoOp
      BY <1>4, <3>3
    <3>4. QED  BY <2>3, <3>1, <3>2, <3>3
  <2>5. known' \subseteq Runs /\ known \subseteq known'
      BY <2>1, <2>3 DEF TypeOK
  <2>6. /\ run' \in [Runs -> RunRecord]
        /\ \A q \in Runs : run'[q] = run[q] \/ (run[q].status = "absent" /\ run'[q].status = "queued")
      BY <2>1, <2>2, <2>3
  <2>7. QED  BY <1>5, <2>3, <2>4, <2>5, <2>6
<1>9. QED  BY <1>6, <1>8 DEF OpStores

\* The first run of a conversation is started by its submission; the conversation is live.
LEMMA StartsKeeps ==
    ASSUME ConversationInv, OpStarts
    PROVE  ConversationInv' /\ ~confirmed
<1> USE DEF ConversationInv
<1>1. /\ UNCHANGED <<control, session, branch, known, birth, sweep, doomed, missed, confirmed>>
      /\ UNCHANGED <<proc, owed, cleanup, buried>> /\ proc \in {"live", "recovering"}
      /\ op.pc = "start"
    BY DEF OpStarts, sweepVars, Live
<1>2. control = "live" /\ ~confirmed /\ ~doomed /\ op.run \in Runs
    BY <1>1 DEF DeletionBooks, Settled
<1>3. Upset => upsets' \in 0 .. MaxUpset
    BY BoundsAssumption DEF Upset, TypeOK
<1>4. NoOp \in OpRecord /\ NoOp.pc = "idle" /\ op \in OpRecord
    BY BoundsAssumption DEF NoOp, OpRecord, TypeOK
<1>5. CASE /\ run[op.run].status = "queued" /\ Running(op.run) /\ UNCHANGED pumpVars
           /\ (Returns /\ UNCHANGED upsets) \/ (Upset /\ Throws)
  <2> DEFINE r == op.run
  <2>1. /\ run' = [run EXCEPT ![r].status = "running"]
        /\ live' = live \union {r} /\ open' = open \union {r}
        /\ op' \in OpRecord /\ op'.pc \in {"idle", "failed"}
        /\ UNCHANGED <<pump, timer>> /\ upsets' \in 0 .. MaxUpset
      BY <1>3, <1>4, <1>5 DEF Running, Returns, Throws, OpRecord, pumpVars, TypeOK
  <2>2. /\ run' \in [Runs -> RunRecord]
        /\ \A q \in Runs : q # r => run'[q] = run[q]
        /\ run'[r].status = "running"
      BY <1>2, <2>1 DEF TypeOK, RunRecord, Present
  <2>3. TypeOK'
      BY <1>1, <1>2, <1>4, <2>1, <2>2 DEF TypeOK
  <2>4. DeletionBooks'
      BY <1>1, <1>2, <1>4, <2>1, <2>2 DEF DeletionBooks, Settled
  <2>5. QED  BY <1>2, <2>3, <2>4
<1>6. CASE Request(Documents) /\ Throws /\ UNCHANGED <<run, live, open>> /\ (UNCHANGED upsets \/ Upset)
  <2>1. /\ pump' \in PumpRecord /\ timer' \in BOOLEAN
        /\ pump'.pc = "claimed" => pump.pc = "claimed" /\ pump'.cand = pump.cand
      BY <1>6, Chosen, RequestKeeps
  <2>2. op' \in OpRecord /\ op'.pc \in {"idle", "failed"}
      BY <1>4, <1>6 DEF Throws, Returns, OpRecord
  <2>3. TypeOK'
      BY <1>1, <1>3, <1>6, <2>1, <2>2 DEF TypeOK
  <2>4. DeletionBooks'
      BY <1>1, <1>2, <1>6, <2>1, <2>2 DEF DeletionBooks
  <2>5. QED  BY <1>2, <2>3, <2>4
<1>7. QED  BY <1>5, <1>6 DEF OpStarts

\* A deletion cancels what is held and is confirmed when nothing of it waits any more.
LEMMA CancelsKeeps ==
    ASSUME ConversationInv, OpCancels
    PROVE  /\ ConversationInv'
           /\ \A q \in Runs : run'[q].status = "running" => run[q].status = "running"
<1> USE DEF ConversationInv
<1>1. /\ UNCHANGED <<control, session, branch, known, live, open, proc, pump, timer, birth, buried, missed>>
      /\ proc \in {"live", "recovering"} /\ op.pc = "cancel"
    BY DEF OpCancels, pumpVars, Live
<1>2. control = "deleted" /\ ~doomed
    BY <1>1 DEF DeletionBooks, Settled
<1>3. Upset => upsets' \in 0 .. MaxUpset
    BY BoundsAssumption DEF Upset, TypeOK
<1>4. NoOp \in OpRecord /\ NoOp.pc = "idle" /\ op \in OpRecord
    BY BoundsAssumption DEF NoOp, OpRecord, TypeOK
<1>5. ASSUME NEW r \in op.left, op' = [op EXCEPT !.left = @ \ {r}],
             IF r \in Unfinished THEN Cancelled(r) ELSE Recancelled(r),
             UNCHANGED <<sweepVars, confirmed, upsets>>
      PROVE  /\ ConversationInv'
             /\ \A q \in Runs : run'[q].status = "running" => run[q].status = "running"
  <2>1. /\ r \in Runs /\ run' \in [Runs -> RunRecord]
        /\ \A q \in Runs : q # r => run'[q] = run[q]
        /\ r \in Unfinished => run'[r].status = "cancelled"
        /\ r \notin Unfinished => run' = run
        /\ owed' \in [Runs -> {"no", "pending", "failed"}]
        /\ cleanup' \in [Runs -> {"off", "on", "retry"}]
    <3>1. r \in Runs
        BY <1>4, <1>5 DEF OpRecord
    <3>2. CASE r \in Unfinished
      <4>1. Cancelled(r)
          BY <1>5, <3>2
      <4>2. /\ run' \in [Runs -> RunRecord] /\ \A q \in Runs : q # r => run'[q] = run[q]
            /\ run'[r].status = "cancelled"
            /\ owed' \in [Runs -> {"no", "pending", "failed"}]
            /\ cleanup' \in [Runs -> {"off", "on", "retry"}]
          BY <3>1, <4>1 DEF Cancelled, TypeOK, RunRecord, Present, Terminal
      <4>3. QED  BY <3>1, <3>2, <4>2
    <3>3. CASE r \notin Unfinished
        BY <1>5, <3>1, <3>3 DEF Recancelled, TypeOK
    <3>4. QED  BY <3>1, <3>2, <3>3
  <2>2. op' \in OpRecord /\ op'.pc = "cancel" /\ op'.left = op.left \ {r} /\ op'.after = op.after
        /\ op'.run = op.run
      BY <1>1, <1>4, <1>5 DEF OpRecord
  <2>3. TypeOK'
      BY <1>1, <1>5, <2>1, <2>2 DEF TypeOK, Terminal, sweepVars, Unfinished
  <2>4. Unfinished' \subseteq op'.left
      BY <1>1, <2>1, <2>2 DEF DeletionBooks, Unfinished, TypeOK
  <2>5. DeletionBooks'
    <3>1. /\ UNCHANGED <<control, known, live, open, proc, pump, sweep, doomed, confirmed>>
          /\ proc # "down"
      BY <1>1, <1>5 DEF sweepVars
    <3>2. /\ \A q \in Runs : run'[q].status = "queued" => run[q].status = "queued"
          /\ \A q \in Runs : run[q].status # "absent" => run'[q].status # "absent"
      BY <2>1
    <3>3. known \subseteq Runs
      BY DEF TypeOK
    <3>4. QED  BY <1>1, <1>2, <2>2, <2>4, <3>1, <3>2, <3>3 DEF DeletionBooks
  <2>6. QED  BY <2>1, <2>3, <2>5
<1>6. CASE /\ op.left = {} /\ Returns /\ Schedule("tombstone", known)
           /\ confirmed' = TRUE /\ UNCHANGED <<run, owed, cleanup, upsets>>
  <2>1. /\ sweep' \in SweepRecord /\ doomed' = (doomed \/ "tombstone" = "uncommitted")
        /\ sweep'.pc # "off" /\ sweep'.mode # "tombstone" => doomed'
        /\ sweep'.pc = "control" => sweep.pc = "control" /\ sweep'.mode = sweep.mode
      BY <1>6, ScheduleKeeps DEF DeletionBooks, TypeOK
  <2>2. \A r \in known : run[r].status # "queued"
      BY <1>1, <1>6 DEF Unfinished, DeletionBooks
  <2>3. TypeOK'
      BY <1>1, <1>2, <1>4, <1>6, <2>1 DEF TypeOK, Returns
  <2>4. doomed' = FALSE /\ op'.pc = "idle"
      BY <1>2, <1>4, <1>6, <2>1 DEF Returns
  <2>5. DeletionBooks'
      BY <1>1, <1>2, <1>6, <2>1, <2>2, <2>4 DEF DeletionBooks, Settled
  <2>6. QED  BY <1>6, <2>3, <2>5
<1>7. CASE Upset /\ Returns /\ UNCHANGED <<run, owed, cleanup, sweepVars, confirmed>>
  <2>1. TypeOK'
      BY <1>1, <1>3, <1>4, <1>7 DEF TypeOK, Returns, sweepVars
  <2>2. DeletionBooks'
      BY <1>1, <1>4, <1>7 DEF DeletionBooks, Returns, sweepVars, Settled
  <2>3. QED  BY <1>7, <2>1, <2>2
<1>8. QED  BY <1>5, <1>6, <1>7 DEF OpCancels

\* A rollback moves the branch.
LEMMA MovesKeeps ==
    ASSUME ConversationInv, OpMoves
    PROVE  ConversationInv' /\ UNCHANGED run
<1> USE DEF ConversationInv
<1>1. /\ UNCHANGED <<control, session, run, known, live, open, pump, timer, birth, buried, sweep, doomed,
                    missed, confirmed, upsets>>
      /\ UNCHANGED <<proc, owed, cleanup>> /\ op' = NoOp /\ branch' \subseteq branch
    BY DEF OpMoves, OpKeeps, Returns, pumpVars, sweepVars, tailVars
<1>2. NoOp \in OpRecord /\ NoOp.pc = "idle"
    BY BoundsAssumption DEF NoOp, OpRecord
<1>3. TypeOK'
    BY <1>1, <1>2 DEF TypeOK
<1>4. DeletionBooks'
    BY <1>1, <1>2 DEF DeletionBooks, Settled
<1>5. QED  BY <1>1, <1>3, <1>4

\* A crash leaves the disk; the recovery blocks what was running and schedules the rest.
LEMMA RecoveryKeeps ==
    ASSUME ConversationInv, Crash \/ Recovery
    PROVE  /\ ConversationInv'
           /\ \A q \in Runs : run'[q].status = "running" => run[q].status = "running"
<1> USE DEF ConversationInv
<1>1. CASE Crash
  <2>1. /\ proc' = "down" /\ known' = {} /\ live' = {} /\ open' = {} /\ pump' = NoPump /\ timer' = FALSE
        /\ op' = NoOp /\ birth' = FALSE /\ buried' = FALSE /\ sweep' = NoSweep /\ doomed' = FALSE
        /\ UNCHANGED <<session, branch, run, missed, confirmed>>
        /\ control' \in {control, "deleted"}
        /\ owed' \in [Runs -> {"no", "pending", "failed"}]
        /\ cleanup' \in [Runs -> {"off", "on", "retry"}]
      BY <1>1 DEF Crash, diskVars
  <2>2. upsets' \in 0 .. MaxUpset
      BY <1>1, BoundsAssumption DEF Crash, Upset, TypeOK
  <2>3. NoPump \in PumpRecord /\ NoOp \in OpRecord /\ NoSweep \in SweepRecord
      BY Chosen, BoundsAssumption DEF NoPump, PumpRecord, NoOp, OpRecord, NoSweep, SweepRecord
  <2>4. TypeOK'
      BY <2>1, <2>2, <2>3 DEF TypeOK
  <2>5. DeletionBooks'
      BY <2>1 DEF DeletionBooks, NoPump, NoOp, NoSweep, Settled
  <2>6. QED  BY <2>1, <2>4, <2>5
<1>2. CASE RecoverRemains
  <2>1. /\ proc' = "recovering" /\ UNCHANGED <<control, session, branch, run, known, pump, timer>>
        /\ UNCHANGED <<live, open, owed, cleanup, op, birth, buried, missed, confirmed, upsets>>
        /\ proc = "down"
      BY <1>2 DEF RecoverRemains, RecoverKeeps, diskVars, pumpVars, tailVars
  <2>2. /\ op.pc = "idle" /\ Stored \in SUBSET Runs
        /\ sweep.pc # "off" /\ sweep.mode # "tombstone" => doomed
        /\ sweep.pc = "control" => sweep.mode # "tombstone"
      BY <2>1 DEF DeletionBooks, Stored
  <2>3. /\ sweep' \in SweepRecord /\ doomed' \in BOOLEAN
        /\ sweep'.pc # "off" /\ sweep'.mode # "tombstone" => doomed'
        /\ sweep'.pc = "control" => sweep'.mode # "tombstone"
        /\ doomed' => control # "deleted"
    <3>1. CASE control = "deleted"
      <4>1. /\ Schedule("tombstone", Stored)
          BY <1>2, <3>1 DEF RecoverRemains
      <4>2. /\ sweep' \in SweepRecord /\ doomed' = (doomed \/ "tombstone" = "uncommitted")
            /\ sweep'.pc # "off" /\ sweep'.mode # "tombstone" => doomed'
            /\ sweep'.pc = "control" => sweep.pc = "control" /\ sweep'.mode = sweep.mode
          BY <2>2, <4>1, ScheduleKeeps
      <4>3. ~doomed
          BY <3>1 DEF DeletionBooks
      <4>4. QED  BY <2>2, <4>2, <4>3
    <3>2. CASE control = "live"
      <4>1. Schedule("uncommitted", {}) /\ {} \in SUBSET Runs
          BY <1>2, <3>2 DEF RecoverRemains
      <4>2. /\ sweep' \in SweepRecord /\ doomed' = (doomed \/ "uncommitted" = "uncommitted")
            /\ sweep'.pc # "off" /\ sweep'.mode # "tombstone" => doomed'
            /\ sweep'.pc = "control" => sweep.pc = "control" /\ sweep'.mode = sweep.mode
          BY <2>2, <4>1, ScheduleKeeps
      <4>3. QED  BY <2>2, <3>2, <4>2
    <3>3. CASE control = "none"
      <4>1. UNCHANGED <<sweep, doomed>>
          BY <1>2, <3>3 DEF RecoverRemains, sweepVars
      <4>2. QED  BY <2>2, <3>3, <4>1 DEF TypeOK
    <3>4. QED  BY <3>1, <3>2, <3>3 DEF TypeOK
  <2>4. TypeOK'
      BY <2>1, <2>3 DEF TypeOK
  <2>5. DeletionBooks'
      BY <2>1, <2>2, <2>3 DEF DeletionBooks, Settled
  <2>6. QED  BY <2>1, <2>4, <2>5
<1>3. CASE RecoverRuns
  <2>1. /\ UNCHANGED <<control, session, branch, sweep, doomed>>
        /\ UNCHANGED <<live, open, owed, cleanup, op, birth, buried, missed, confirmed, upsets>>
        /\ proc = "down" /\ control = "live" /\ run' = Recovered /\ known' = Stored
        /\ proc' \in {"isolated", "recovering"}
        /\ UNCHANGED <<pump, timer>> \/ Request(Recovered)
      BY <1>3 DEF RecoverRuns, RecoverKeeps, sweepVars, pumpVars, tailVars
  <2>2. /\ op.pc = "idle" /\ pump.pc = "idle" /\ live = {} /\ ~confirmed /\ Stored \subseteq Runs
      BY <2>1 DEF DeletionBooks, Stored
  <2>3. /\ Recovered \in [Runs -> RunRecord]
        /\ \A q \in Runs : Recovered[q].status # "running"
      BY DEF Recovered, TypeOK, RunRecord, Present, Terminal
  <2>4. pump' \in PumpRecord /\ timer' \in BOOLEAN /\ pump'.pc # "claimed"
    <3>1. CASE UNCHANGED <<pump, timer>>
        BY <2>2, <3>1 DEF TypeOK
    <3>2. CASE Request(Recovered)
        BY <2>2, <2>3, <3>2, RequestKeeps
    <3>3. QED  BY <2>1, <3>1, <3>2
  <2>5. TypeOK'
      BY <2>1, <2>2, <2>3, <2>4 DEF TypeOK
  <2>6. DeletionBooks'
      BY <2>1, <2>2, <2>4 DEF DeletionBooks, Settled
  <2>7. QED  BY <2>1, <2>3, <2>5, <2>6
<1>4. CASE RecoveryEnds
  <2>1. /\ proc' = "live" /\ UNCHANGED <<control, session, branch, run, known, pump, timer, sweep, doomed>>
        /\ UNCHANGED <<live, open, owed, cleanup, op, birth, buried, missed, confirmed, upsets>>
      BY <1>4 DEF RecoveryEnds, RecoverKeeps, diskVars, pumpVars, sweepVars, tailVars
  <2>2. TypeOK' /\ DeletionBooks'
      BY <2>1 DEF TypeOK, DeletionBooks, Unfinished
  <2>3. QED  BY <2>1, <2>2
<1>5. QED  BY <1>1, <1>2, <1>3, <1>4 DEF Recovery

-----------------------------------------------------------------------------

\* Every step keeps the invariant, and starts nothing once a deletion is confirmed.
LEMMA StepKeeps ==
    ASSUME ConversationInv, Next
    PROVE  /\ ConversationInv'
           /\ confirmed => \A r \in Runs : run'[r].status = "running" => run[r].status = "running"
<1>1. CASE Delete \/ Rollback \/ \E key \in Submissions : Submit(key)
  <2>1. PICK kind \in {"submit", "delete", "rollback"}, key \in Nat :
            Begins(kind, key) /\ (UNCHANGED upsets \/ Upset)
    <3>1. Submissions \subseteq Nat
        BY DEF Submissions
    <3>2. QED  BY <1>1, <3>1 DEF Delete, Rollback, Submit
  <2>2. upsets' \in 0 .. MaxUpset
      BY <2>1, BoundsAssumption DEF Upset, ConversationInv, TypeOK
  <2>3. QED  BY <2>1, <2>2, BeginsKeeps
<1>2. CASE Operation
  <2>1. CASE OpReconciles \/ OpAwaits \/ OpControls \/ OpRechecks \/ OpJoins \/ OpTakesBack \/ OpBuries
      BY <2>1, PlainKeeps
  <2>2. QED  BY <1>2, <2>1, StoresKeeps, StartsKeeps, CancelsKeeps, MovesKeeps DEF Operation
<1>3. CASE Pump \/ Sweep \/ Crash \/ Recovery
    BY <1>3, PumpKeepsInv, SweepKeepsInv, RecoveryKeeps
<1>4. CASE \E r \in Runs : Cancel(r) \/ Execution(r) \/ CleanupFinalizes(r)
    BY <1>4, TailKeepsInv
<1>5. QED  BY <1>1, <1>2, <1>3, <1>4 DEF Next

\* The agreement of key, cleanup and tombstone is an invariant, over any number of
\* submissions, cancels, deletions, failures and crashes (ordinary-agent-feature.ts).
THEOREM ConversationInvariant == Spec => []ConversationInv
<1>1. ConversationInv /\ [Next]_vars => ConversationInv'
  <2> SUFFICES ASSUME ConversationInv, [Next]_vars PROVE ConversationInv'
      OBVIOUS
  <2>1. CASE Next
      BY <2>1, StepKeeps
  <2>2. CASE UNCHANGED vars
    <3>1. /\ UNCHANGED <<control, session, branch, run, proc, known, live, open, owed, cleanup, pump, timer>>
          /\ UNCHANGED <<op, birth, buried, sweep, doomed, missed, confirmed, upsets>>
        BY <2>2 DEF vars, diskVars, tailVars, pumpVars, sweepVars
    <3>2. TypeOK' /\ DeletionBooks'
        BY <3>1 DEF ConversationInv, TypeOK, DeletionBooks, Unfinished
    <3>3. QED  BY <3>2 DEF ConversationInv
  <2>3. QED  BY <2>1, <2>2
<1>2. QED  BY <1>1, InitConversation, PTL DEF Spec

\* The conversation keeps its types, and nothing but a run that has started has an
\* execution (launch, cleanupConversation).
THEOREM ConversationTypes == Spec => []TypeOK
BY ConversationInvariant, PTL DEF ConversationInv

\* Once deleteConversation has returned, neither the pump, nor a submission that was under
\* way, nor a recovery starts a run of the conversation.
THEOREM DeletionIsFinal == Spec => NothingStartsAfterDeletion
<1>1. ConversationInv /\ [Next]_vars =>
          [confirmed => \A r \in Runs : run'[r].status = "running" => run[r].status = "running"]_vars
    BY StepKeeps
<1>2. QED  BY <1>1, ConversationInvariant, PTL DEF Spec, NothingStartsAfterDeletion

=============================================================================
