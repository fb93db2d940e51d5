------------------------- MODULE SessionWriteFence -------------------------
(***************************************************************************)
(* The write fence of one Agent Session                                    *)
(* (src/adapters/intelligence/session-write-fence.ts).                     *)
(*                                                                         *)
(* Every run of a conversation appends to the same Session transcript.  A  *)
(* run obtains a *generation* (a lease on the transcript's storage) from   *)
(* the fence, writes through it, and gives it up by `release` or, when the *)
(* run failed or was cancelled, by `revokeTo(leaf)`: the transcript's leaf *)
(* is moved back to the last leaf the run is known to have reached, and    *)
(* nothing the old writer still has under way may land any more.           *)
(*                                                                         *)
(* All storage operations go through one FIFO of promises (`enqueue`).     *)
(* An operation that awaits the storage is two steps here, entering and    *)
(* finishing, so that the synchronous parts of `revoke` and `release`,     *)
(* which run outside of the FIFO, can happen in between.                   *)
(***************************************************************************)
EXTENDS Naturals, Sequences, FiniteSets

CONSTANTS
    MaxGen,      \* bound: generations a fence issues
    MaxEntry,    \* bound: entries appended to the transcript
    MaxQueue,    \* bound: operations waiting in the FIFO
    MaxFault,    \* bound: storage operations that fail
    MaxForeign   \* bound: moves of the leaf that bypass the fence

ASSUME BoundsAssumption ==
    /\ MaxGen \in Nat \ {0}
    /\ MaxEntry \in Nat
    /\ MaxQueue \in Nat
    /\ MaxFault \in Nat
    /\ MaxForeign \in Nat

Gens  == 1 .. MaxGen
Leaf  == 0 .. MaxEntry       \* 0 is the empty transcript (leaf id null)
None  == 0                   \* no current generation
Unset == MaxEntry + 1        \* no recovery target chosen yet (undefined)

GenerationStatus ==
    {"unborn", "active", "revoking", "revoked", "revoke_failed", "released"}

Operation == [op : {"acquire", "idle"}, gen : {None}, leaf : {0}]
        \cup [op : {"write", "release"}, gen : Gens, leaf : {0}]
        \cup [op : {"revoke"}, gen : Gens, leaf : Leaf]

VARIABLES
    queue,          \* the FIFO of operations, `tail`
    entered,        \* the head of the FIFO has started and awaits the storage
    issued,         \* generations issued so far, nextGenerationId - 1
    current,        \* currentGeneration
    status,         \* status of each generation
    recoveryTarget, \* recoveryTargetLeafId of each generation
    revokedLeaf,    \* revokedLeafId of each generation
    revocation,     \* the memoised revocation promise of each generation
    releaseAsked,   \* generations whose releasePromise exists
    leaf,           \* the durable leaf of the transcript
    lastEntry,      \* the newest entry of the transcript
    deleted,        \* the transcript was deleted
    faults,         \* storage failures so far
    foreign         \* moves of the leaf that bypassed the fence so far

fifo     == <<queue, entered>>
perGen   == <<status, recoveryTarget, revokedLeaf, revocation, releaseAsked>>
durable  == <<leaf, lastEntry, deleted>>
bounds   == <<faults, foreign>>
vars     == <<fifo, issued, current, perGen, durable, bounds>>

Init ==
    /\ queue = << >> /\ entered = FALSE
    /\ issued = 0 /\ current = None
    /\ status = [g \in Gens |-> "unborn"]
    /\ recoveryTarget = [g \in Gens |-> Unset]
    /\ revokedLeaf = [g \in Gens |-> Unset]
    /\ revocation = [g \in Gens |-> "none"]
    /\ releaseAsked = {}
    /\ leaf = 0 /\ lastEntry = 0 /\ deleted = FALSE
    /\ faults = 0 /\ foreign = 0

-----------------------------------------------------------------------------
(* The FIFO. *)

Enqueued(op) == Append(queue, op)

Room == Len(queue) < MaxQueue

\* The head of the FIFO is an operation of this kind that has not started.
Ready(op) == queue # << >> /\ Head(queue).op = op /\ ~entered

\* The head of the FIFO is an operation of this kind awaiting the storage.
Awaiting(op) == queue # << >> /\ Head(queue).op = op /\ entered

\* The head starts and awaits the storage.
Enter == entered' = TRUE /\ UNCHANGED queue

\* A faulty Settle, which leaves the FIFO marked as awaiting.
SettleStillEntered == queue' = Tail(queue) /\ UNCHANGED entered

\* The head settles, fulfilled or rejected; the FIFO goes on either way.
Settle == queue' = Tail(queue) /\ entered' = FALSE

Fault == faults < MaxFault /\ faults' = faults + 1 /\ UNCHANGED foreign

\* A generation whose lease was handed out.
Born(g) == status[g] # "unborn"

\* A faulty Closed: an active writer does not keep others out.
ClosedIfFailed == current # None /\ status[current] = "revoke_failed"

\* A faulty Closed: a failed restore does not keep others out.
ClosedIfActive == current # None /\ status[current] = "active"

\* acquire and runWhenIdle refuse while the current generation may still write
\* or its leaf was not restored.
Closed == current # None /\ status[current] \in {"active", "revoke_failed"}

\* A faulty IsActive: a revoked generation may still write.
IsNotReleased(g) == Born(g) /\ status[g] # "released"

\* assertActive
IsActive(g) == status[g] = "active" /\ current = g

-----------------------------------------------------------------------------
(* Calls: what runs at once, in the turn of the caller. *)

\* acquire(openStorage); no more of them than the bound has generations for.
AcquireCall ==
    /\ Room
    /\ issued + Cardinality({i \in DOMAIN queue : queue[i].op = "acquire"}) < MaxGen
    /\ queue' = Enqueued([op |-> "acquire", gen |-> None, leaf |-> 0])
    /\ UNCHANGED <<entered, issued, current, perGen, durable, bounds>>

\* runWhenIdle(operation); its one caller deletes the transcript.
RunWhenIdleCall ==
    /\ Room
    /\ queue' = Enqueued([op |-> "idle", gen |-> None, leaf |-> 0])
    /\ UNCHANGED <<entered, issued, current, perGen, durable, bounds>>

\* appendEntry or setLeafId through the lease of g, at any time.
WriteCall(g) ==
    /\ Born(g) /\ Room
    /\ queue' = Enqueued([op |-> "write", gen |-> g, leaf |-> 0])
    /\ UNCHANGED <<entered, issued, current, perGen, durable, bounds>>

\* revokeTo(target) is rejected at once: released, or another target was chosen.
RevokeRefused(g, t) ==
    \/ status[g] = "released"
    \/ recoveryTarget[g] \notin {Unset, t}

\* revokeTo(target) that has work to do: the target is recorded for good and
\* one restore is queued.  A call that finds the generation revoked, or a
\* revocation promise to share, changes nothing but the recorded target.
RevokeCall(g, t) ==
    /\ Born(g) /\ ~RevokeRefused(g, t)
    /\ recoveryTarget' = [recoveryTarget EXCEPT ![g] = t]
    /\ IF status[g] = "revoked" \/ revocation[g] # "none"
       THEN UNCHANGED <<queue, revocation>>
       ELSE /\ Room
            /\ queue' = Enqueued([op |-> "revoke", gen |-> g, leaf |-> t])
            /\ revocation' = [revocation EXCEPT ![g] = "pending"]
    /\ UNCHANGED <<entered, issued, current, status, revokedLeaf, releaseAsked,
                   durable, bounds>>

\* release(): the promise is memoised, a second call shares it.
ReleaseCall(g) ==
    /\ Born(g) /\ g \notin releaseAsked /\ Room
    /\ releaseAsked' = releaseAsked \cup {g}
    /\ queue' = Enqueued([op |-> "release", gen |-> g, leaf |-> 0])
    /\ UNCHANGED <<entered, issued, current, status, recoveryTarget,
                   revokedLeaf, revocation, durable, bounds>>

-----------------------------------------------------------------------------
(* The operations, one at a time in FIFO order. *)

AcquireRefused ==
    /\ Ready("acquire") /\ Closed
    /\ Settle
    /\ UNCHANGED <<issued, current, perGen, durable, bounds>>

AcquireEnter ==
    /\ Ready("acquire") /\ ~Closed
    /\ Enter
    /\ UNCHANGED <<issued, current, perGen, durable, bounds>>

\* openStorage throws: an I/O fault, or the transcript is gone.
AcquireFails ==
    /\ Awaiting("acquire")
    /\ IF deleted THEN UNCHANGED bounds ELSE Fault
    /\ Settle
    /\ UNCHANGED <<issued, current, perGen, durable>>

\* If the prior generation was revoked, the reopened storage must expose the
\* leaf that was restored.
LeafAgrees ==
    current # None /\ status[current] = "revoked" => leaf = revokedLeaf[current]

AcquireOpens ==
    /\ Awaiting("acquire") /\ ~deleted /\ LeafAgrees
    /\ issued < MaxGen
    /\ issued' = issued + 1
    /\ current' = issued + 1
    /\ status' = [status EXCEPT ![issued + 1] = "active"]
    /\ Settle
    /\ UNCHANGED <<recoveryTarget, revokedLeaf, revocation, releaseAsked,
                   durable, bounds>>

AcquireMismatch ==
    /\ Awaiting("acquire") /\ ~deleted /\ ~LeafAgrees
    /\ status' = [status EXCEPT ![current] = "revoke_failed"]
    /\ Settle
    /\ UNCHANGED <<issued, current, recoveryTarget, revokedLeaf, revocation,
                   releaseAsked, durable, bounds>>

IdleRefused ==
    /\ Ready("idle") /\ Closed
    /\ Settle
    /\ UNCHANGED <<issued, current, perGen, durable, bounds>>

IdleEnter ==
    /\ Ready("idle") /\ ~Closed
    /\ Enter
    /\ UNCHANGED <<issued, current, perGen, durable, bounds>>

IdleDone ==
    /\ Awaiting("idle")
    /\ \/ deleted' = TRUE /\ UNCHANGED bounds
       \/ Fault /\ UNCHANGED deleted
    /\ Settle
    /\ UNCHANGED <<issued, current, perGen, leaf, lastEntry>>

WriteRefused ==
    /\ Ready("write") /\ ~IsActive(Head(queue).gen)
    /\ Settle
    /\ UNCHANGED <<issued, current, perGen, durable, bounds>>

WriteEnter ==
    /\ Ready("write") /\ IsActive(Head(queue).gen)
    /\ Enter
    /\ UNCHANGED <<issued, current, perGen, durable, bounds>>

\* The storage appends an entry, moves the leaf to an older entry, or fails.
WriteDone ==
    /\ Awaiting("write")
    /\ \/ /\ lastEntry < MaxEntry
          /\ lastEntry' = lastEntry + 1 /\ leaf' = lastEntry + 1
          /\ UNCHANGED bounds
       \/ /\ \E l \in 0 .. lastEntry : leaf' = l
          /\ UNCHANGED <<lastEntry, bounds>>
       \/ Fault /\ UNCHANGED <<leaf, lastEntry>>
    /\ Settle
    /\ UNCHANGED <<issued, current, perGen, deleted>>

\* A revoke whose generation was released or revoked meanwhile is fulfilled; one
\* whose generation is not the current one is rejected and its promise forgotten;
\* else the restore starts.  QueuedRevokeOwnsFence says the first two never run.
RevokeStart ==
    /\ Ready("revoke")
    /\ LET g == Head(queue).gen IN
       IF status[g] \in {"released", "revoked"}
       THEN /\ revocation' = [revocation EXCEPT ![g] = "done"]
            /\ Settle /\ UNCHANGED status
       ELSE IF current # g
       THEN /\ revocation' = [revocation EXCEPT ![g] = "none"]
            /\ Settle /\ UNCHANGED status
       ELSE /\ status' = [status EXCEPT ![g] = "revoking"]
            /\ Enter /\ UNCHANGED revocation
    /\ UNCHANGED <<issued, current, recoveryTarget, revokedLeaf, releaseAsked,
                   durable, bounds>>

\* getLeafId, then setLeafId(target) unless the leaf is there already.
RevokeDone ==
    /\ Awaiting("revoke")
    /\ LET g == Head(queue).gen
           t == Head(queue).leaf
       IN  /\ leaf' = t
           /\ status' = [status EXCEPT ![g] = "revoked"]
           /\ revokedLeaf' = [revokedLeaf EXCEPT ![g] = t]
           /\ revocation' = [revocation EXCEPT ![g] = "done"]
    /\ Settle
    /\ UNCHANGED <<issued, current, recoveryTarget, releaseAsked, lastEntry,
                   deleted, bounds>>

\* A faulty RevokeFails: the rejected promise stays memoised.
RevokeFailsMemoised ==
    /\ Awaiting("revoke")
    /\ status' = [status EXCEPT ![Head(queue).gen] = "revoke_failed"]
    /\ Fault /\ Settle
    /\ UNCHANGED <<issued, current, recoveryTarget, revokedLeaf, revocation,
                   releaseAsked, durable>>

RevokeFails ==
    /\ Awaiting("revoke")
    /\ LET g == Head(queue).gen IN
       /\ status' = [status EXCEPT ![g] = "revoke_failed"]
       /\ revocation' = [revocation EXCEPT ![g] = "none"]
    /\ Fault
    /\ Settle
    /\ UNCHANGED <<issued, current, recoveryTarget, revokedLeaf, releaseAsked,
                   durable>>

\* A failed restore, and a restore that was asked for before the release ran,
\* keep the generation; otherwise it lets go of the fence.
KeepsFence(g) ==
    \/ status[g] = "revoke_failed"
    \/ status[g] = "active" /\ revocation[g] # "none"

Release ==
    /\ Ready("release")
    /\ LET g == Head(queue).gen IN
       IF KeepsFence(g)
       THEN UNCHANGED <<status, current>>
       ELSE /\ status' = [status EXCEPT ![g] = IF @ = "active" THEN "released" ELSE @]
            /\ current' = IF current = g THEN None ELSE current
    /\ Settle
    /\ UNCHANGED <<issued, recoveryTarget, revokedLeaf, revocation, releaseAsked,
                   durable, bounds>>

-----------------------------------------------------------------------------
Call ==
    \/ AcquireCall \/ RunWhenIdleCall
    \/ \E g \in Gens :
        \/ WriteCall(g) \/ ReleaseCall(g)
        \/ \E t \in 0 .. lastEntry : RevokeCall(g, t)

Operate ==
    \/ AcquireRefused \/ AcquireEnter \/ AcquireFails \/ AcquireOpens \/ AcquireMismatch
    \/ IdleRefused \/ IdleEnter \/ IdleDone
    \/ WriteRefused \/ WriteEnter \/ WriteDone
    \/ RevokeStart \/ RevokeDone \/ RevokeFails
    \/ Release

\* The transcript file is changed behind the fence's back.
ForeignMove ==
    /\ foreign < MaxForeign /\ ~deleted
    /\ foreign' = foreign + 1
    /\ \E l \in (0 .. lastEntry) \ {leaf} : leaf' = l
    /\ UNCHANGED <<fifo, issued, current, perGen, lastEntry, deleted, faults>>

Next == Call \/ Operate \/ ForeignMove

Spec == Init /\ [][Next]_vars

\* A restore that failed is asked for again, with the same target.
RevokeRetry(g) ==
    /\ status[g] # "revoked" /\ revocation[g] = "none"
    /\ RevokeCall(g, recoveryTarget[g])

\* Promises of the storage settle, and the owner of a generation that chose a
\* recovery target goes on asking for it (retries of the run's finalization).
\* Strong fairness only because the FIFO is bounded here and may be full.
FairSpec ==
    /\ Spec
    /\ WF_vars(Operate)
    /\ \A g \in Gens : SF_vars(RevokeRetry(g))

-----------------------------------------------------------------------------
(* Properties. *)

TypeOK ==
    /\ queue \in Seq(Operation) /\ entered \in BOOLEAN
    /\ entered => queue # << >>
    /\ issued \in 0 .. MaxGen /\ current \in 0 .. issued
    /\ status \in [Gens -> GenerationStatus]
    /\ recoveryTarget \in [Gens -> Leaf \cup {Unset}]
    /\ revokedLeaf \in [Gens -> Leaf \cup {Unset}]
    /\ revocation \in [Gens -> {"none", "pending", "done"}]
    /\ releaseAsked \subseteq Gens
    /\ lastEntry \in Leaf /\ leaf \in Leaf /\ deleted \in BOOLEAN
    /\ faults \in 0 .. MaxFault /\ foreign \in 0 .. MaxForeign

\* The leaf a revoked generation restored stands until a successor opens the
\* transcript, released or not: no write of the old run lands after its restore.
\* (A move of the leaf behind the fence's back is what AcquireMismatch is for.)
RestoredLeafStands ==
    foreign = 0 /\ issued > 0 /\ status[issued] = "revoked" => leaf = revokedLeaf[issued]

\* A restore that is queued or under way is for the generation that holds the
\* fence: neither a release nor a successor overtook it.
QueuedRevokeOwnsFence ==
    \A i \in 1 .. Len(queue) :
        queue[i].op = "revoke" =>
            /\ current = queue[i].gen
            /\ status[current] \in {"active", "revoking", "revoke_failed"}

\* A deleted transcript has no writer, whatever was queued beside the deletion.
DeletedHasNoWriter ==
    deleted => \A g \in Gens : status[g] # "active"

\* A successor is admitted only when every earlier generation gave up writing, and
\* never while a restore that one of them was asked for is still owed.
AdmitsAfterRestore ==
    [][issued' # issued =>
        \A g \in 1 .. issued :
            status[g] = IF recoveryTarget[g] = Unset THEN "released" ELSE "revoked"]_vars

\* The state behind these: what the FIFO, the lease holders and the current generation
\* have to agree on for the synchronous calls to be harmless (inductive with TypeOK).

\* A generation that may still write, or whose leaf is not restored, is the newest one
\* and holds the fence.
OneHolder ==
    /\ current \in {None, issued}
    /\ \A g \in Gens :
        /\ Born(g) <=> g <= issued
        /\ status[g] \in {"active", "revoking", "revoke_failed"} => current = g

\* An operation that awaits the storage still has what it checked when it started.
HeadKeepsItsGround ==
    /\ Awaiting("acquire") \/ Awaiting("idle") => ~Closed
    /\ Awaiting("write") => IsActive(Head(queue).gen)
    /\ entered => Head(queue).op # "release"
    /\ \A g \in Gens :
        status[g] = "revoking" <=> (Awaiting("revoke") /\ Head(queue).gen = g)

\* Each pending revocation promise has its one operation in the FIFO.
OneRevocation ==
    /\ \A i \in 1 .. Len(queue) :
        queue[i].op = "revoke" =>
            /\ revocation[queue[i].gen] = "pending"
            /\ recoveryTarget[queue[i].gen] # Unset
    /\ \A i, j \in 1 .. Len(queue) :
        queue[i].op = "revoke" /\ queue[j].op = "revoke" /\ queue[i].gen = queue[j].gen => i = j

\* A chosen target is owed until it is restored, and a restore had a target.
TargetIsOwed ==
    \A g \in Gens :
        /\ recoveryTarget[g] = Unset => revocation[g] = "none"
        /\ status[g] = "active" /\ recoveryTarget[g] # Unset => revocation[g] = "pending"
        /\ status[g] \in {"revoking", "revoke_failed", "revoked"} => recoveryTarget[g] # Unset
        /\ status[g] \in {"unborn", "released"} => recoveryTarget[g] = Unset

\* All of it: inductive.
FenceInv ==
    /\ TypeOK /\ OneHolder /\ HeadKeepsItsGround /\ OneRevocation /\ TargetIsOwed
    /\ QueuedRevokeOwnsFence /\ DeletedHasNoWriter /\ RestoredLeafStands

\* Once a recovery leaf was chosen for a generation the transcript is restored, in
\* spite of storage failures, releases and calls for another target.
RestoreHappens ==
    \A g \in Gens : recoveryTarget[g] # Unset ~> status[g] = "revoked"

\* The fence implements the single-writer transcript: the writer is the current
\* generation while it is active.  (Only with no foreign moves of the leaf.)
Transcript == INSTANCE SingleWriterTranscript WITH
    writer   <- IF current # None /\ status[current] = "active" THEN current ELSE 0,
    restored <- issued > 0 /\ status[issued] = "revoked"

ImplementsTranscript == Transcript!Spec

=============================================================================
