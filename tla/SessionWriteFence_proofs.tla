----------------------- MODULE SessionWriteFence_proofs -----------------------
(***************************************************************************)
(* Proofs about the write fence, for every value of its bounds.            *)
(*                                                                         *)
(* FenceInv is inductive.  There is one lemma per action; each proves the  *)
(* conjuncts of FenceInv the action can disturb one by one, and those that *)
(* speak of nothing it changes together.                                   *)
(***************************************************************************)
EXTENDS SessionWriteFence, TLAPS, SequenceTheorems

-----------------------------------------------------------------------------
(* The FIFO as a sequence. *)

\* An operation was appended to the FIFO.
Appended(e) ==
    /\ queue' \in Seq(Operation) /\ queue' # << >>
    /\ Len(queue) \in Nat /\ Len(queue') = Len(queue) + 1
    /\ \A i \in 1 .. Len(queue) : queue'[i] = queue[i]
    /\ queue'[Len(queue) + 1] = e
    /\ queue # << >> => Head(queue') = Head(queue)
    /\ queue = << >> => Head(queue') = e

\* The FIFO has a head, and is a head and a tail.
HeadAndTail ==
    /\ queue # << >> /\ Head(queue) = queue[1] /\ Head(queue) \in Operation
    /\ Head(queue).op \in {"write", "release", "revoke"} => Head(queue).gen \in Gens
    /\ Head(queue).leaf \in Leaf
    /\ Len(queue) \in Nat \ {0} /\ Tail(queue) \in Seq(Operation)
    /\ Len(Tail(queue)) = Len(queue) - 1
    /\ \A i \in 1 .. Len(queue) - 1 : Tail(queue)[i] = queue[i + 1]

\* What appending does to a FIFO.
LEMMA FifoAppends ==
    ASSUME NEW q \in Seq(Operation), NEW e \in Operation
    PROVE  /\ Append(q, e) \in Seq(Operation) /\ Append(q, e) # << >>
           /\ Len(q) \in Nat /\ Len(Append(q, e)) = Len(q) + 1
           /\ \A i \in 1 .. Len(q) : Append(q, e)[i] = q[i]
           /\ Append(q, e)[Len(q) + 1] = e
           /\ q # << >> => Head(Append(q, e)) = Head(q)
           /\ q = << >> => Head(Append(q, e)) = e
<1>1. /\ Append(q, e) \in Seq(Operation) /\ Append(q, e) # << >>
      /\ Len(q) \in Nat /\ Len(Append(q, e)) = Len(q) + 1
      /\ \A i \in 1 .. Len(q) : Append(q, e)[i] = q[i]
      /\ Append(q, e)[Len(q) + 1] = e
    OBVIOUS
<1>2. q # << >> => Head(Append(q, e)) = Head(q)
    OBVIOUS
<1>3. q = << >> => Head(Append(q, e)) = e
    OBVIOUS
<1>4. QED  BY <1>1, <1>2, <1>3

\* What the head and the tail of a FIFO are.
LEMMA FifoHead ==
    ASSUME queue \in Seq(Operation), queue # << >>, MaxEntry \in Nat
    PROVE  HeadAndTail
<1>1. /\ Head(queue) \in Operation /\ Head(queue) = queue[1]
      /\ Len(queue) \in Nat \ {0}
      /\ Tail(queue) \in Seq(Operation)
      /\ Len(Tail(queue)) = Len(queue) - 1
      /\ \A i \in 1 .. Len(queue) - 1 : Tail(queue)[i] = queue[i + 1]
    OBVIOUS
<1>2. /\ Head(queue).op \in {"write", "release", "revoke"} => Head(queue).gen \in Gens
      /\ Head(queue).leaf \in Leaf
    BY DEF Operation, Leaf
<1>3. QED  BY <1>1, <1>2 DEF HeadAndTail

\* When the head leaves, the queued restores behind it keep OneRevocation if their
\* revocations are still pending and their targets are still set.
LEMMA SettleKeepsRevocations ==
    ASSUME HeadAndTail, Settle, OneRevocation,
           \A i \in 2 .. Len(queue) :
                queue[i].op = "revoke" =>
                    /\ revocation'[queue[i].gen] = "pending"
                    /\ recoveryTarget'[queue[i].gen] # Unset
    PROVE  OneRevocation'
<1>1. Len(queue') = Len(queue) - 1 /\ Len(queue) \in Nat \ {0}
    BY DEF HeadAndTail, Settle
<1>2. ASSUME NEW i \in 1 .. Len(queue')
      PROVE  i + 1 \in 2 .. Len(queue) /\ queue'[i] = queue[i + 1]
    BY <1>1 DEF HeadAndTail, Settle
<1>3. ASSUME NEW i \in 1 .. Len(queue'), queue'[i].op = "revoke"
      PROVE  /\ revocation'[queue'[i].gen] = "pending"
             /\ recoveryTarget'[queue'[i].gen] # Unset
    BY <1>2, <1>3
<1>4. ASSUME NEW i \in 1 .. Len(queue'), NEW j \in 1 .. Len(queue'),
             queue'[i].op = "revoke", queue'[j].op = "revoke",
             queue'[i].gen = queue'[j].gen
      PROVE  i = j
  <2>1. i + 1 \in 1 .. Len(queue) /\ j + 1 \in 1 .. Len(queue)
    BY <1>1, <1>2
  <2>2. i + 1 = j + 1
    BY <1>2, <1>4, <2>1 DEF OneRevocation
  <2>3. QED  BY <2>2
<1>5. QED  BY <1>3, <1>4 DEF OneRevocation

-----------------------------------------------------------------------------
(* The actions. *)

\* A queued acquire disturbs only the FIFO (AcquireCall).
LEMMA AcquireCallKeeps ==
    ASSUME FenceInv, AcquireCall
    PROVE  FenceInv'
<1>1. [op |-> "acquire", gen |-> None, leaf |-> 0] \in Operation
    BY DEF Operation
<1>2. Appended([op |-> "acquire", gen |-> None, leaf |-> 0])
    BY <1>1, FifoAppends DEF AcquireCall, Enqueued, FenceInv, TypeOK, Appended
<1>3. TypeOK'
    BY <1>2 DEF FenceInv, Appended, AcquireCall, TypeOK, perGen, durable, bounds
<1>4. HeadKeepsItsGround'
    BY <1>2 DEF FenceInv, Appended, AcquireCall, TypeOK, HeadKeepsItsGround, perGen,
       Awaiting, Closed, IsActive
<1>5. OneRevocation'
    BY DEF FenceInv, AcquireCall, OneRevocation, Room, Enqueued, perGen
<1>6. QueuedRevokeOwnsFence'
    BY DEF FenceInv, AcquireCall, QueuedRevokeOwnsFence, Enqueued, perGen
<1>7. /\ OneHolder'
     /\ TargetIsOwed'
     /\ DeletedHasNoWriter'
     /\ RestoredLeafStands'
    BY DEF FenceInv, AcquireCall, OneHolder, TargetIsOwed, DeletedHasNoWriter,
       RestoredLeafStands, perGen, durable, bounds, Born
<1>8. QED  BY <1>3, <1>4, <1>5, <1>6, <1>7 DEF FenceInv

\* A queued deletion disturbs only the FIFO (RunWhenIdleCall).
LEMMA RunWhenIdleCallKeeps ==
    ASSUME FenceInv, RunWhenIdleCall
    PROVE  FenceInv'
<1>1. [op |-> "idle", gen |-> None, leaf |-> 0] \in Operation
    BY DEF Operation
<1>2. Appended([op |-> "idle", gen |-> None, leaf |-> 0])
    BY <1>1, FifoAppends DEF RunWhenIdleCall, Enqueued, FenceInv, TypeOK, Appended
<1>3. TypeOK'
    BY <1>2 DEF FenceInv, Appended, RunWhenIdleCall, TypeOK, perGen, durable, bounds
<1>4. HeadKeepsItsGround'
    BY <1>2 DEF FenceInv, Appended, RunWhenIdleCall, TypeOK, HeadKeepsItsGround, perGen,
       Awaiting, Closed, IsActive
<1>5. OneRevocation'
    BY DEF FenceInv, RunWhenIdleCall, OneRevocation, Room, Enqueued, perGen
<1>6. QueuedRevokeOwnsFence'
    BY <1>2 DEF FenceInv, Appended, RunWhenIdleCall, OneHolder, OneRevocation,
       QueuedRevokeOwnsFence, perGen
<1>7. /\ OneHolder'
     /\ TargetIsOwed'
     /\ DeletedHasNoWriter'
     /\ RestoredLeafStands'
    BY DEF FenceInv, RunWhenIdleCall, OneHolder, TargetIsOwed, DeletedHasNoWriter,
       RestoredLeafStands, perGen, durable, bounds, Born
<1>8. QED  BY <1>3, <1>4, <1>5, <1>6, <1>7 DEF FenceInv

\* A queued write disturbs only the FIFO (WriteCall).
LEMMA WriteCallKeeps ==
    ASSUME FenceInv, NEW g \in Gens, WriteCall(g)
    PROVE  FenceInv'
<1>1. [op |-> "write", gen |-> g, leaf |-> 0] \in Operation
    BY DEF Operation
<1>2. Appended([op |-> "write", gen |-> g, leaf |-> 0])
    BY <1>1 DEF WriteCall, Enqueued, FenceInv, TypeOK, Appended
<1>3. TypeOK'
    BY <1>2 DEF FenceInv, Appended, WriteCall, TypeOK, perGen, durable, bounds
<1>4. HeadKeepsItsGround'
    BY <1>2 DEF FenceInv, Appended, WriteCall, TypeOK, HeadKeepsItsGround, perGen, Leaf,
       Awaiting, Closed, IsActive
<1>5. OneRevocation'
    BY DEF FenceInv, WriteCall, OneRevocation, Enqueued, perGen
<1>6. QueuedRevokeOwnsFence'
    BY <1>2 DEF FenceInv, Appended, WriteCall, OneHolder, OneRevocation,
       QueuedRevokeOwnsFence, perGen
<1>7. /\ OneHolder'
     /\ TargetIsOwed'
     /\ DeletedHasNoWriter'
     /\ RestoredLeafStands'
    BY DEF FenceInv, WriteCall, OneHolder, TargetIsOwed, DeletedHasNoWriter,
       RestoredLeafStands, Born, perGen, durable, bounds
<1>8. QED  BY <1>3, <1>4, <1>5, <1>6, <1>7 DEF FenceInv

\* A queued release disturbs only the FIFO (ReleaseCall).
LEMMA ReleaseCallKeeps ==
    ASSUME FenceInv, NEW g \in Gens, ReleaseCall(g)
    PROVE  FenceInv'
<1>1. [op |-> "release", gen |-> g, leaf |-> 0] \in Operation
    BY DEF Operation
<1>2. Appended([op |-> "release", gen |-> g, leaf |-> 0])
    BY <1>1, FifoAppends DEF ReleaseCall, Enqueued, FenceInv, TypeOK, Appended
<1>3. TypeOK'
    BY <1>2 DEF FenceInv, Appended, ReleaseCall, TypeOK, durable, bounds
<1>4. HeadKeepsItsGround'
    BY <1>2 DEF FenceInv, Appended, ReleaseCall, TypeOK, HeadKeepsItsGround, Leaf,
       Awaiting, Closed, IsActive
<1>5. OneRevocation'
    BY DEF FenceInv, ReleaseCall, OneRevocation, Enqueued
<1>6. QueuedRevokeOwnsFence'
    BY DEF FenceInv, ReleaseCall, QueuedRevokeOwnsFence, Enqueued
<1>7. /\ OneHolder'
     /\ TargetIsOwed'
     /\ DeletedHasNoWriter'
     /\ RestoredLeafStands'
    BY DEF FenceInv, ReleaseCall, OneHolder, TargetIsOwed, DeletedHasNoWriter,
       RestoredLeafStands, Born, durable, bounds
<1>8. QED  BY <1>3, <1>4, <1>5, <1>6, <1>7 DEF FenceInv

\* A refused acquire leaves the FIFO (AcquireRefused).
LEMMA AcquireRefusedKeeps ==
    ASSUME FenceInv, AcquireRefused
    PROVE  FenceInv'
<1>1. HeadAndTail
    BY BoundsAssumption, FifoHead DEF AcquireRefused, Ready, FenceInv, TypeOK
<1>2. TypeOK'
    BY <1>1 DEF FenceInv, HeadAndTail, AcquireRefused, TypeOK, Settle, perGen, durable,
       bounds
<1>3. HeadKeepsItsGround'
    BY DEF FenceInv, AcquireRefused, HeadKeepsItsGround, Ready, Settle, perGen, Awaiting
<1>4. OneRevocation'
    BY <1>1, SettleKeepsRevocations DEF FenceInv, OneRevocation, AcquireRefused, perGen
<1>5. QueuedRevokeOwnsFence'
    BY DEF FenceInv, AcquireRefused, QueuedRevokeOwnsFence, Settle, perGen
<1>6. /\ OneHolder'
     /\ TargetIsOwed'
     /\ DeletedHasNoWriter'
     /\ RestoredLeafStands'
    BY DEF FenceInv, AcquireRefused, OneHolder, TargetIsOwed, DeletedHasNoWriter,
       RestoredLeafStands, Closed, perGen, durable, Born
<1>7. QED  BY <1>2, <1>3, <1>4, <1>5, <1>6 DEF FenceInv

\* An acquire starts only when the fence is not closed (AcquireEnter).
LEMMA AcquireEnterKeeps ==
    ASSUME FenceInv, AcquireEnter
    PROVE  FenceInv'
<1>1. HeadAndTail
    BY BoundsAssumption, FifoHead DEF AcquireEnter, Ready, FenceInv, TypeOK
<1>2. TypeOK'
    BY <1>1 DEF FenceInv, HeadAndTail, AcquireEnter, TypeOK, Enter, perGen, durable,
       bounds
<1>3. HeadKeepsItsGround'
    BY DEF FenceInv, AcquireEnter, HeadKeepsItsGround, Ready, Closed, Enter, perGen,
       Awaiting
<1>4. /\ OneHolder'
     /\ OneRevocation'
     /\ TargetIsOwed'
     /\ QueuedRevokeOwnsFence'
     /\ DeletedHasNoWriter'
     /\ RestoredLeafStands'
    BY DEF FenceInv, AcquireEnter, OneHolder, OneRevocation, TargetIsOwed,
       QueuedRevokeOwnsFence, DeletedHasNoWriter, RestoredLeafStands, Enter, perGen,
       durable, bounds, Born
<1>5. QED  BY <1>2, <1>3, <1>4 DEF FenceInv

\* An acquire whose storage does not open leaves the FIFO (AcquireFails).
LEMMA AcquireFailsKeeps ==
    ASSUME FenceInv, AcquireFails
    PROVE  FenceInv'
<1>1. HeadAndTail
    BY BoundsAssumption, FifoHead DEF AcquireFails, Awaiting, FenceInv, TypeOK
<1>2. TypeOK'
  <2>1. queue' \in Seq(Operation) /\ entered' \in BOOLEAN /\ (entered' => queue' # << >>)
    BY <1>1 DEF HeadAndTail, AcquireFails, Settle
  <2>2. QED
    BY BoundsAssumption, <2>1 DEF FenceInv, AcquireFails, TypeOK, bounds, Fault, perGen,
       durable
<1>3. HeadKeepsItsGround'
    BY DEF FenceInv, AcquireFails, HeadKeepsItsGround, Awaiting, Settle, perGen
<1>4. OneRevocation'
    BY <1>1, SettleKeepsRevocations DEF FenceInv, OneRevocation, AcquireFails, perGen
<1>5. QueuedRevokeOwnsFence'
    BY DEF FenceInv, AcquireFails, QueuedRevokeOwnsFence, Settle, perGen
<1>6. /\ OneHolder'
     /\ TargetIsOwed'
     /\ DeletedHasNoWriter'
     /\ RestoredLeafStands'
    BY DEF FenceInv, AcquireFails, OneHolder, TargetIsOwed, DeletedHasNoWriter,
       RestoredLeafStands, bounds, Fault, perGen, durable, Born
<1>7. QED  BY <1>2, <1>3, <1>4, <1>5, <1>6 DEF FenceInv

\* The new generation is the only holder: the fence was not closed (AcquireOpens).
LEMMA AcquireOpensKeeps ==
    ASSUME FenceInv, AcquireOpens
    PROVE  FenceInv'
<1>1. HeadAndTail
    BY BoundsAssumption, FifoHead DEF AcquireOpens, Awaiting, FenceInv, TypeOK
<1>2. \A i \in 1 .. Len(queue) : queue[i].op # "revoke"
    BY <1>1 DEF HeadAndTail, AcquireOpens, Awaiting, FenceInv, HeadKeepsItsGround,
       QueuedRevokeOwnsFence, Operation, Closed, None, Gens
<1>3. TypeOK'
  <2>1. queue' \in Seq(Operation) /\ entered' \in BOOLEAN /\ (entered' => queue' # << >>)
    BY <1>1 DEF HeadAndTail, AcquireOpens, Settle
  <2>2. QED
    BY BoundsAssumption, <2>1 DEF FenceInv, AcquireOpens, TypeOK, durable, bounds, Gens,
       GenerationStatus
<1>4. OneHolder'
    BY DEF FenceInv, AcquireOpens, TypeOK, OneHolder, HeadKeepsItsGround, Awaiting,
       Gens, None, Born, Closed, IsActive
<1>5. HeadKeepsItsGround'
    BY DEF FenceInv, AcquireOpens, HeadKeepsItsGround, Awaiting, Settle
<1>6. OneRevocation'
    BY <1>2 DEF AcquireOpens, OneRevocation, Settle
<1>7. TargetIsOwed'
    BY DEF FenceInv, AcquireOpens, TypeOK, OneHolder, TargetIsOwed, Born
<1>8. QueuedRevokeOwnsFence'
    BY <1>2 DEF AcquireOpens, QueuedRevokeOwnsFence, Settle
<1>9. DeletedHasNoWriter'
    BY DEF AcquireOpens, DeletedHasNoWriter, durable
<1>10. RestoredLeafStands'
    BY BoundsAssumption DEF FenceInv, AcquireOpens, TypeOK, RestoredLeafStands, Gens
<1>11. QED  BY <1>3, <1>4, <1>5, <1>6, <1>7, <1>8, <1>9, <1>10 DEF FenceInv

\* A transcript with a foreign leaf is closed again (AcquireMismatch).
LEMMA AcquireMismatchKeeps ==
    ASSUME FenceInv, AcquireMismatch
    PROVE  FenceInv'
<1>1. HeadAndTail
    BY BoundsAssumption, FifoHead DEF AcquireMismatch, Awaiting, FenceInv, TypeOK
<1>2. TypeOK'
    BY <1>1 DEF FenceInv, HeadAndTail, AcquireMismatch, TypeOK, Settle, durable, bounds,
       GenerationStatus
<1>3. OneHolder'
    BY DEF FenceInv, AcquireMismatch, TypeOK, OneHolder, Born
<1>4. HeadKeepsItsGround'
    BY DEF FenceInv, AcquireMismatch, HeadKeepsItsGround, Awaiting, Settle
<1>5. OneRevocation'
    BY <1>1, SettleKeepsRevocations DEF FenceInv, OneRevocation, AcquireMismatch
<1>6. TargetIsOwed'
    BY DEF FenceInv, AcquireMismatch, TargetIsOwed, LeafAgrees
<1>7. QueuedRevokeOwnsFence'
    BY DEF FenceInv, AcquireMismatch, OneHolder, QueuedRevokeOwnsFence, Settle
<1>8. DeletedHasNoWriter'
    BY DEF FenceInv, AcquireMismatch, TypeOK, OneHolder, DeletedHasNoWriter
<1>9. RestoredLeafStands'
    BY DEF FenceInv, AcquireMismatch, OneHolder, RestoredLeafStands, LeafAgrees, bounds
<1>10. QED  BY <1>2, <1>3, <1>4, <1>5, <1>6, <1>7, <1>8, <1>9 DEF FenceInv

\* A refused deletion leaves the FIFO (IdleRefused).
LEMMA IdleRefusedKeeps ==
    ASSUME FenceInv, IdleRefused
    PROVE  FenceInv'
<1>1. HeadAndTail
    BY BoundsAssumption, FifoHead DEF IdleRefused, Ready, FenceInv, TypeOK
<1>2. TypeOK'
    BY <1>1 DEF FenceInv, HeadAndTail, IdleRefused, TypeOK, Settle, perGen, durable,
       bounds
<1>3. HeadKeepsItsGround'
    BY DEF FenceInv, IdleRefused, HeadKeepsItsGround, Ready, Settle, perGen, Awaiting
<1>4. OneRevocation'
    BY <1>1, SettleKeepsRevocations DEF FenceInv, OneRevocation, IdleRefused, perGen
<1>5. QueuedRevokeOwnsFence'
    BY DEF FenceInv, IdleRefused, QueuedRevokeOwnsFence, Settle, perGen
<1>6. /\ OneHolder'
     /\ TargetIsOwed'
     /\ DeletedHasNoWriter'
     /\ RestoredLeafStands'
    BY DEF FenceInv, IdleRefused, OneHolder, TargetIsOwed, DeletedHasNoWriter,
       RestoredLeafStands, Closed, perGen, durable, Born
<1>7. QED  BY <1>2, <1>3, <1>4, <1>5, <1>6 DEF FenceInv

\* A deletion starts only when no generation writes (IdleEnter).
LEMMA IdleEnterKeeps ==
    ASSUME FenceInv, IdleEnter
    PROVE  FenceInv'
<1>1. HeadAndTail
    BY BoundsAssumption, FifoHead DEF IdleEnter, Ready, FenceInv, TypeOK
<1>2. TypeOK'
    BY <1>1 DEF FenceInv, HeadAndTail, IdleEnter, TypeOK, Enter, perGen, durable, bounds
<1>3. HeadKeepsItsGround'
    BY DEF FenceInv, IdleEnter, HeadKeepsItsGround, Ready, Closed, Enter, perGen,
       Awaiting
<1>4. /\ OneHolder'
     /\ OneRevocation'
     /\ TargetIsOwed'
     /\ QueuedRevokeOwnsFence'
     /\ DeletedHasNoWriter'
     /\ RestoredLeafStands'
    BY DEF FenceInv, IdleEnter, OneHolder, OneRevocation, TargetIsOwed,
       QueuedRevokeOwnsFence, DeletedHasNoWriter, RestoredLeafStands, Enter, perGen,
       durable, bounds, Born
<1>5. QED  BY <1>2, <1>3, <1>4 DEF FenceInv

\* Nothing became active while the deletion was under way (IdleDone).
LEMMA IdleDoneKeeps ==
    ASSUME FenceInv, IdleDone
    PROVE  FenceInv'
<1>1. HeadAndTail
    BY BoundsAssumption, FifoHead DEF IdleDone, Awaiting, FenceInv, TypeOK
<1>2. TypeOK'
  <2>1. queue' \in Seq(Operation) /\ entered' \in BOOLEAN /\ (entered' => queue' # << >>)
    BY <1>1 DEF HeadAndTail, IdleDone, Settle
  <2>2. deleted' \in BOOLEAN
    BY DEF FenceInv, IdleDone, TypeOK
  <2>3. faults' \in 0 .. MaxFault /\ foreign' \in 0 .. MaxForeign
    BY BoundsAssumption DEF FenceInv, IdleDone, TypeOK, Fault, bounds
  <2>4. QED  BY <2>1, <2>3 DEF FenceInv, TypeOK, IdleDone, perGen
<1>3. HeadKeepsItsGround'
    BY DEF FenceInv, IdleDone, HeadKeepsItsGround, Awaiting, Settle, perGen
<1>4. OneRevocation'
    BY <1>1, SettleKeepsRevocations DEF FenceInv, OneRevocation, IdleDone, perGen
<1>5. QueuedRevokeOwnsFence'
    BY DEF FenceInv, IdleDone, QueuedRevokeOwnsFence, Settle, perGen
<1>6. DeletedHasNoWriter'
  <2>1. \A g \in Gens : status[g] # "active"
    BY DEF FenceInv, HeadKeepsItsGround, OneHolder, IdleDone, Awaiting, Closed, None,
       TypeOK
  <2>2. QED  BY <2>1 DEF IdleDone, DeletedHasNoWriter, perGen
<1>7. /\ OneHolder'
     /\ TargetIsOwed'
     /\ RestoredLeafStands'
    BY DEF FenceInv, IdleDone, OneHolder, TargetIsOwed, RestoredLeafStands, bounds,
       Fault, perGen, Born
<1>8. QED  BY <1>2, <1>3, <1>4, <1>5, <1>6, <1>7 DEF FenceInv

\* A refused write leaves the FIFO (WriteRefused).
LEMMA WriteRefusedKeeps ==
    ASSUME FenceInv, WriteRefused
    PROVE  FenceInv'
<1>1. HeadAndTail
    BY BoundsAssumption, FifoHead DEF WriteRefused, Ready, FenceInv, TypeOK
<1>2. TypeOK'
    BY <1>1 DEF FenceInv, HeadAndTail, WriteRefused, TypeOK, Settle, perGen, durable,
       bounds
<1>3. HeadKeepsItsGround'
    BY DEF FenceInv, WriteRefused, HeadKeepsItsGround, Ready, Settle, perGen, Awaiting
<1>4. OneRevocation'
    BY <1>1, SettleKeepsRevocations DEF FenceInv, OneRevocation, WriteRefused, perGen
<1>5. QueuedRevokeOwnsFence'
    BY DEF FenceInv, WriteRefused, QueuedRevokeOwnsFence, Settle, perGen
<1>6. /\ OneHolder'
     /\ TargetIsOwed'
     /\ DeletedHasNoWriter'
     /\ RestoredLeafStands'
    BY DEF FenceInv, WriteRefused, OneHolder, TargetIsOwed, DeletedHasNoWriter,
       RestoredLeafStands, perGen, durable, bounds, Born
<1>7. QED  BY <1>2, <1>3, <1>4, <1>5, <1>6 DEF FenceInv

\* A write starts only for the active generation (WriteEnter).
LEMMA WriteEnterKeeps ==
    ASSUME FenceInv, WriteEnter
    PROVE  FenceInv'
<1>1. HeadAndTail
    BY BoundsAssumption, FifoHead DEF WriteEnter, Ready, FenceInv, TypeOK
<1>2. TypeOK'
    BY <1>1 DEF FenceInv, HeadAndTail, WriteEnter, TypeOK, Enter, perGen, durable,
       bounds
<1>3. HeadKeepsItsGround'
    BY DEF FenceInv, WriteEnter, HeadKeepsItsGround, Ready, IsActive, Enter, perGen,
       Awaiting
<1>4. /\ OneHolder'
     /\ OneRevocation'
     /\ TargetIsOwed'
     /\ QueuedRevokeOwnsFence'
     /\ DeletedHasNoWriter'
     /\ RestoredLeafStands'
    BY DEF FenceInv, WriteEnter, OneHolder, OneRevocation, TargetIsOwed,
       QueuedRevokeOwnsFence, DeletedHasNoWriter, RestoredLeafStands, Enter, perGen,
       durable, bounds, Born
<1>5. QED  BY <1>2, <1>3, <1>4 DEF FenceInv

\* The writer is still active, so no restored leaf is overwritten (WriteDone).
LEMMA WriteDoneKeeps ==
    ASSUME FenceInv, WriteDone
    PROVE  FenceInv'
<1>1. HeadAndTail
    BY BoundsAssumption, FifoHead DEF WriteDone, Awaiting, FenceInv, TypeOK
<1>2. TypeOK'
  <2>1. queue' \in Seq(Operation) /\ entered' \in BOOLEAN /\ (entered' => queue' # << >>)
    BY <1>1 DEF HeadAndTail, WriteDone, Settle
  <2>2. QED
    BY BoundsAssumption, <2>1 DEF FenceInv, WriteDone, TypeOK, bounds, Fault, perGen,
       GenerationStatus, Leaf, Unset
<1>3. HeadKeepsItsGround'
    BY DEF FenceInv, WriteDone, HeadKeepsItsGround, Awaiting, Settle, perGen
<1>4. OneRevocation'
    BY <1>1, SettleKeepsRevocations DEF FenceInv, OneRevocation, WriteDone, perGen
<1>5. QueuedRevokeOwnsFence'
    BY DEF FenceInv, WriteDone, QueuedRevokeOwnsFence, Settle, perGen
<1>6. RestoredLeafStands'
    BY <1>1 DEF FenceInv, HeadAndTail, WriteDone, OneHolder, HeadKeepsItsGround,
       RestoredLeafStands, Awaiting, perGen, Gens, None, IsActive
<1>7. /\ OneHolder'
     /\ TargetIsOwed'
     /\ DeletedHasNoWriter'
    BY DEF FenceInv, WriteDone, OneHolder, TargetIsOwed, DeletedHasNoWriter, perGen,
       Born
<1>8. QED  BY <1>2, <1>3, <1>4, <1>5, <1>6, <1>7 DEF FenceInv

\* The restore finds its generation in possession of the fence (RevokeStart).
LEMMA RevokeStartKeeps ==
    ASSUME FenceInv, RevokeStart
    PROVE  FenceInv'
<1>1. HeadAndTail
    BY BoundsAssumption, FifoHead DEF RevokeStart, Ready, FenceInv, TypeOK
<1>2. /\ current = Head(queue).gen /\ status[current] \in {"active", "revoking", "revoke_failed"}
     /\ status' = [status EXCEPT ![current] = "revoking"]
     /\ Enter /\ UNCHANGED revocation
    BY DEF RevokeStart, Ready, FenceInv, QueuedRevokeOwnsFence
<1>3. TypeOK'
    BY <1>1, <1>2 DEF FenceInv, HeadAndTail, RevokeStart, TypeOK, Enter, durable,
       bounds, GenerationStatus
<1>4. OneHolder'
    BY <1>2 DEF FenceInv, RevokeStart, OneHolder, Born
<1>5. HeadKeepsItsGround'
    BY <1>2 DEF FenceInv, RevokeStart, TypeOK, HeadKeepsItsGround, Ready, Enter,
       Awaiting
<1>6. OneRevocation'
    BY <1>2 DEF FenceInv, RevokeStart, OneRevocation, Enter
<1>7. TargetIsOwed'
    BY <1>2 DEF FenceInv, RevokeStart, OneRevocation, TargetIsOwed, Ready
<1>8. QueuedRevokeOwnsFence'
    BY <1>2 DEF FenceInv, RevokeStart, QueuedRevokeOwnsFence, Enter
<1>9. DeletedHasNoWriter'
    BY <1>2 DEF FenceInv, TypeOK, OneHolder, DeletedHasNoWriter
<1>10. RestoredLeafStands'
    BY <1>2 DEF FenceInv, RevokeStart, RestoredLeafStands, durable, bounds
<1>11. QED  BY <1>3, <1>4, <1>5, <1>6, <1>7, <1>8, <1>9, <1>10 DEF FenceInv

\* The restored generation owes nothing more (RevokeDone).
LEMMA RevokeDoneKeeps ==
    ASSUME FenceInv, RevokeDone
    PROVE  FenceInv'
<1>1. HeadAndTail
    BY BoundsAssumption, FifoHead DEF RevokeDone, Awaiting, FenceInv, TypeOK
<1>2. TypeOK'
    BY <1>1 DEF FenceInv, HeadAndTail, RevokeDone, TypeOK, Settle, bounds,
       GenerationStatus
<1>3. OneHolder'
    BY DEF FenceInv, RevokeDone, OneHolder, HeadKeepsItsGround, Born
<1>4. HeadKeepsItsGround'
    BY DEF FenceInv, RevokeDone, TypeOK, HeadKeepsItsGround, Awaiting, Settle
<1>5. OneRevocation'
  <2>1. \A i \in 2 .. Len(queue) :
            queue[i].op = "revoke" => queue[i].gen # Head(queue).gen
    BY <1>1 DEF FenceInv, HeadAndTail, OneRevocation, RevokeDone, Awaiting
  <2>2. \A i \in 2 .. Len(queue) :
            queue[i].op = "revoke" =>
                /\ revocation'[queue[i].gen] = "pending"
                /\ recoveryTarget'[queue[i].gen] # Unset
    BY <2>1 DEF FenceInv, TypeOK, OneRevocation, RevokeDone
  <2>3. QED
    BY <1>1, <2>2, SettleKeepsRevocations DEF FenceInv, RevokeDone
<1>6. TargetIsOwed'
    BY DEF FenceInv, RevokeDone, HeadKeepsItsGround, TargetIsOwed
<1>7. QueuedRevokeOwnsFence'
  <2>1. \A i \in 2 .. Len(queue) : queue[i].op # "revoke"
    BY <1>1 DEF FenceInv, HeadAndTail, OneRevocation, QueuedRevokeOwnsFence, RevokeDone,
       Awaiting
  <2>2. \A i \in 1 .. Len(queue') : queue'[i].op # "revoke"
    BY <1>1, <2>1 DEF HeadAndTail, RevokeDone, Settle
  <2>3. QED  BY <2>2 DEF QueuedRevokeOwnsFence
<1>8. DeletedHasNoWriter'
    BY DEF FenceInv, RevokeDone, DeletedHasNoWriter
<1>9. RestoredLeafStands'
    BY <1>1 DEF FenceInv, HeadAndTail, RevokeDone, TypeOK, OneHolder,
       HeadKeepsItsGround, RestoredLeafStands, Awaiting, Gens, None
<1>10. QED  BY <1>2, <1>3, <1>4, <1>5, <1>6, <1>7, <1>8, <1>9 DEF FenceInv

\* A failed restore keeps the fence and its target (RevokeFails).
LEMMA RevokeFailsKeeps ==
    ASSUME FenceInv, RevokeFails
    PROVE  FenceInv'
<1>1. HeadAndTail
    BY BoundsAssumption, FifoHead DEF RevokeFails, Awaiting, FenceInv, TypeOK
<1>2. TypeOK'
  <2>1. queue' \in Seq(Operation) /\ entered' \in BOOLEAN /\ (entered' => queue' # << >>)
    BY <1>1 DEF HeadAndTail, RevokeFails, Settle
  <2>2. /\ status' \in [Gens -> GenerationStatus]
       /\ revocation' \in [Gens -> {"none", "pending", "done"}]
    BY DEF FenceInv, RevokeFails, TypeOK, GenerationStatus
  <2>3. faults' \in 0 .. MaxFault /\ foreign' \in 0 .. MaxForeign
    BY BoundsAssumption DEF FenceInv, RevokeFails, TypeOK, Fault
  <2>4. QED
    BY <2>1, <2>2, <2>3 DEF FenceInv, RevokeFails, TypeOK, durable
<1>3. OneHolder'
    BY DEF FenceInv, RevokeFails, OneHolder, HeadKeepsItsGround, Born
<1>4. HeadKeepsItsGround'
    BY DEF FenceInv, RevokeFails, TypeOK, HeadKeepsItsGround, Awaiting, Settle
<1>5. OneRevocation'
  <2>1. \A i \in 2 .. Len(queue) :
            queue[i].op = "revoke" => queue[i].gen # Head(queue).gen
    BY <1>1 DEF FenceInv, HeadAndTail, OneRevocation, RevokeFails, Awaiting
  <2>2. \A i \in 2 .. Len(queue) :
            queue[i].op = "revoke" =>
                /\ revocation'[queue[i].gen] = "pending"
                /\ recoveryTarget'[queue[i].gen] # Unset
    BY <2>1 DEF FenceInv, TypeOK, OneRevocation, RevokeFails
  <2>3. QED
    BY <1>1, <2>2, SettleKeepsRevocations DEF FenceInv, RevokeFails
<1>6. TargetIsOwed'
    BY DEF FenceInv, RevokeFails, HeadKeepsItsGround, TargetIsOwed
<1>7. QueuedRevokeOwnsFence'
    BY DEF FenceInv, RevokeFails, QueuedRevokeOwnsFence, Settle
<1>8. DeletedHasNoWriter'
    BY <1>1 DEF FenceInv, HeadAndTail, RevokeFails, OneHolder, HeadKeepsItsGround,
       DeletedHasNoWriter, Awaiting
<1>9. RestoredLeafStands'
    BY DEF FenceInv, RevokeFails, RestoredLeafStands, Fault, durable
<1>10. QED  BY <1>2, <1>3, <1>4, <1>5, <1>6, <1>7, <1>8, <1>9 DEF FenceInv

\* A release never lets go of a generation with a restore queued (Release).
LEMMA ReleaseKeeps ==
    ASSUME FenceInv, Release
    PROVE  FenceInv'
<1>1. HeadAndTail
    BY BoundsAssumption, FifoHead DEF Release, Ready, FenceInv, TypeOK
<1>2. TypeOK'
  <2>1. queue' \in Seq(Operation) /\ entered' \in BOOLEAN /\ (entered' => queue' # << >>)
    BY <1>1 DEF HeadAndTail, Release, Settle
  <2>2. status' \in [Gens -> GenerationStatus] /\ current' \in 0 .. issued
    BY DEF FenceInv, Release, TypeOK, None, GenerationStatus
  <2>3. QED
    BY <2>1, <2>2 DEF FenceInv, Release, TypeOK, durable, bounds
<1>3. OneHolder'
    BY DEF FenceInv, Release, TypeOK, OneHolder, HeadKeepsItsGround, Ready, KeepsFence,
       Born, Awaiting
<1>4. HeadKeepsItsGround'
    BY DEF FenceInv, Release, TypeOK, HeadKeepsItsGround, Ready, Settle, Awaiting
<1>5. OneRevocation'
    BY <1>1, SettleKeepsRevocations DEF FenceInv, OneRevocation, Release
<1>6. TargetIsOwed'
    BY DEF FenceInv, Release, TypeOK, TargetIsOwed, KeepsFence
<1>7. QueuedRevokeOwnsFence'
    BY <1>1 DEF FenceInv, HeadAndTail, Release, TypeOK, OneHolder, HeadKeepsItsGround,
       OneRevocation, QueuedRevokeOwnsFence, Ready, KeepsFence, None, Settle, bounds,
       Leaf, Unset, Born, Awaiting, Closed
<1>8. DeletedHasNoWriter'
    BY DEF FenceInv, Release, TypeOK, DeletedHasNoWriter, durable
<1>9. RestoredLeafStands'
    BY BoundsAssumption, <1>1 DEF FenceInv, HeadAndTail, Release, TypeOK,
       RestoredLeafStands, durable, bounds, Gens
<1>10. QED  BY <1>2, <1>3, <1>4, <1>5, <1>6, <1>7, <1>8, <1>9 DEF FenceInv

\* A foreign move is counted, which is what RestoredLeafStands allows for (ForeignMove).
LEMMA ForeignMoveKeeps ==
    ASSUME FenceInv, ForeignMove
    PROVE  FenceInv'
<1>1. TypeOK'
    BY BoundsAssumption DEF FenceInv, ForeignMove, TypeOK, fifo, perGen, Leaf
<1>2. RestoredLeafStands'
    BY DEF FenceInv, ForeignMove, TypeOK, RestoredLeafStands
<1>3. /\ OneHolder'
     /\ HeadKeepsItsGround'
     /\ OneRevocation'
     /\ TargetIsOwed'
     /\ QueuedRevokeOwnsFence'
     /\ DeletedHasNoWriter'
    BY DEF FenceInv, ForeignMove, OneHolder, HeadKeepsItsGround, OneRevocation,
       TargetIsOwed, QueuedRevokeOwnsFence, DeletedHasNoWriter, fifo, perGen, Born,
       Awaiting, Closed, IsActive
<1>4. QED  BY <1>1, <1>2, <1>3 DEF FenceInv

\* The synchronous part of revokeTo queues at most one restore, for the holder (RevokeCall).
LEMMA RevokeCallKeeps ==
    ASSUME FenceInv, NEW g \in Gens, NEW t \in 0 .. lastEntry, RevokeCall(g, t)
    PROVE  FenceInv'
<1> DEFINE e == [op |-> "revoke", gen |-> g, leaf |-> t]
<1>1. t \in Leaf /\ t # Unset /\ e \in Operation
    BY BoundsAssumption DEF FenceInv, TypeOK, Operation, Leaf, Unset
<1>2. /\ status[g] \in {"active", "revoking", "revoke_failed", "revoked"}
      /\ recoveryTarget[g] \in {Unset, t}
    BY DEF FenceInv, TypeOK, RevokeCall, RevokeRefused, Born, GenerationStatus
<1>3. CASE status[g] = "revoked" \/ revocation[g] # "none"
  <2>1. status[g] = "active" => revocation[g] = "pending"
    BY <1>3 DEF FenceInv, TargetIsOwed
  <2>2. UNCHANGED <<queue, revocation>>
    BY <1>3 DEF RevokeCall
  <2>3. TypeOK'
    BY <1>1, <2>2 DEF FenceInv, TypeOK, RevokeCall, durable, bounds
  <2>4. OneRevocation'
    <3>1. \A h \in Gens : recoveryTarget[h] # Unset => recoveryTarget'[h] # Unset
      BY <1>1 DEF RevokeCall
    <3>2. \A i \in 1 .. Len(queue) : queue[i].op = "revoke" => queue[i].gen \in Gens
      BY DEF FenceInv, TypeOK, Operation
    <3>3. QED
      BY <2>2, <3>1, <3>2 DEF FenceInv, OneRevocation
  <2>5. TargetIsOwed'
    BY <1>2, <2>1, <2>2 DEF FenceInv, TargetIsOwed, RevokeCall
  <2>6. /\ OneHolder' /\ HeadKeepsItsGround' /\ QueuedRevokeOwnsFence'
        /\ DeletedHasNoWriter' /\ RestoredLeafStands'
    BY <2>2 DEF FenceInv, OneHolder, HeadKeepsItsGround, QueuedRevokeOwnsFence,
       DeletedHasNoWriter, RestoredLeafStands, RevokeCall, durable, bounds, Born,
       Awaiting, Closed, IsActive
  <2>7. QED  BY <2>3, <2>4, <2>5, <2>6 DEF FenceInv
<1>4. CASE status[g] # "revoked" /\ revocation[g] = "none"
  <2>1. queue' = Append(queue, e) /\ revocation' = [revocation EXCEPT ![g] = "pending"]
    BY <1>4 DEF RevokeCall, Enqueued
  <2>2. Appended(e)
    BY <1>1, <2>1 DEF FenceInv, TypeOK, Appended
  <2>3. TypeOK'
    BY <1>1, <2>2 DEF FenceInv, TypeOK, RevokeCall, Appended, durable, bounds
  <2>4. HeadKeepsItsGround'
    BY <2>2 DEF FenceInv, TypeOK, HeadKeepsItsGround, RevokeCall, Appended, Awaiting,
       Closed, IsActive
  <2>5. OneRevocation'
    <3>1. \A i \in 1 .. Len(queue) : queue[i].op = "revoke" => queue[i].gen # g
      BY <1>4 DEF FenceInv, OneRevocation
    <3>2. \A i \in 1 .. Len(queue) : queue[i] \in Operation
      BY DEF FenceInv, TypeOK
    <3>3. Len(queue) \in Nat /\ Len(queue') = Len(queue) + 1
          /\ \A i \in 1 .. Len(queue) : queue'[i] = queue[i]
          /\ queue'[Len(queue) + 1] = e
      BY <2>2 DEF Appended
    <3>4. ASSUME NEW i \in 1 .. Len(queue'), queue'[i].op = "revoke"
          PROVE  /\ revocation'[queue'[i].gen] = "pending"
                 /\ recoveryTarget'[queue'[i].gen] # Unset
                 /\ i \in 1 .. Len(queue) \/ i = Len(queue) + 1
      BY <1>1, <2>1, <3>1, <3>2, <3>3, <3>4 DEF FenceInv, TypeOK, OneRevocation,
         RevokeCall, Operation
    <3>5. ASSUME NEW i \in 1 .. Len(queue'), NEW j \in 1 .. Len(queue'),
                 queue'[i].op = "revoke", queue'[j].op = "revoke",
                 queue'[i].gen = queue'[j].gen
          PROVE  i = j
      BY <3>1, <3>3, <3>4, <3>5 DEF FenceInv, OneRevocation
    <3>6. QED  BY <3>4, <3>5 DEF OneRevocation
  <2>6. TargetIsOwed'
    BY <1>1, <1>2 DEF FenceInv, TypeOK, TargetIsOwed, RevokeCall
  <2>7. QueuedRevokeOwnsFence'
    BY <1>2, <2>2 DEF FenceInv, OneHolder, QueuedRevokeOwnsFence, RevokeCall, Appended
  <2>8. OneHolder' /\ DeletedHasNoWriter' /\ RestoredLeafStands'
    BY DEF FenceInv, OneHolder, DeletedHasNoWriter, RestoredLeafStands, RevokeCall,
       durable, bounds, Born
  <2>9. QED  BY <2>3, <2>4, <2>5, <2>6, <2>7, <2>8 DEF FenceInv
<1>5. QED  BY <1>3, <1>4

-----------------------------------------------------------------------------
(* The theorems. *)

\* The invariant holds in every state of every behaviour of the fence: the state the
\* code keeps for its FIFO, its leases and its current generation agree.
THEOREM FenceInvariant == Spec => []FenceInv
<1>1. Init => FenceInv
  <2> SUFFICES ASSUME Init PROVE FenceInv
    OBVIOUS
  <2>1. TypeOK
    <3>1. queue \in Seq(Operation)
      BY DEF Init
    <3>2. /\ status \in [Gens -> GenerationStatus]
          /\ recoveryTarget \in [Gens -> Leaf \cup {Unset}]
          /\ revokedLeaf \in [Gens -> Leaf \cup {Unset}]
          /\ revocation \in [Gens -> {"none", "pending", "done"}]
          /\ releaseAsked \subseteq Gens
      BY DEF Init, GenerationStatus
    <3>3. /\ issued \in 0 .. MaxGen /\ current \in 0 .. issued
          /\ lastEntry \in Leaf /\ leaf \in Leaf
          /\ faults \in 0 .. MaxFault /\ foreign \in 0 .. MaxForeign
      BY BoundsAssumption DEF Init, Leaf, None
    <3>4. entered \in BOOLEAN /\ ~entered /\ deleted \in BOOLEAN
      BY DEF Init
    <3>5. QED
      BY <3>1, <3>2, <3>3, <3>4 DEF TypeOK
  <2>2. OneHolder
    BY DEF Init, OneHolder, Born
  <2>3. HeadKeepsItsGround
    BY DEF Init, HeadKeepsItsGround, Awaiting
  <2>4. OneRevocation /\ QueuedRevokeOwnsFence
    BY DEF Init, OneRevocation, QueuedRevokeOwnsFence
  <2>5. TargetIsOwed /\ DeletedHasNoWriter /\ RestoredLeafStands
    BY DEF Init, TargetIsOwed, DeletedHasNoWriter, RestoredLeafStands
  <2>6. QED  BY <2>1, <2>2, <2>3, <2>4, <2>5 DEF FenceInv
<1>2. FenceInv /\ [Next]_vars => FenceInv'
  <2> SUFFICES ASSUME FenceInv, [Next]_vars PROVE FenceInv'
    OBVIOUS
  <2>1. CASE Call
    BY <2>1, AcquireCallKeeps, RunWhenIdleCallKeeps, WriteCallKeeps, ReleaseCallKeeps,
       RevokeCallKeeps DEF Call
  <2>2. CASE Operate
    BY <2>2, AcquireRefusedKeeps, AcquireEnterKeeps, AcquireFailsKeeps,
       AcquireOpensKeeps, AcquireMismatchKeeps, IdleRefusedKeeps, IdleEnterKeeps,
       IdleDoneKeeps, WriteRefusedKeeps, WriteEnterKeeps, WriteDoneKeeps,
       RevokeStartKeeps, RevokeDoneKeeps, RevokeFailsKeeps, ReleaseKeeps DEF Operate
  <2>3. CASE ForeignMove
    BY <2>3, ForeignMoveKeeps
  <2>4. CASE UNCHANGED vars
    BY <2>4 DEF vars, fifo, perGen, durable, bounds, FenceInv, TypeOK, OneHolder,
       HeadKeepsItsGround, OneRevocation, TargetIsOwed, QueuedRevokeOwnsFence,
       DeletedHasNoWriter, RestoredLeafStands, Born, Awaiting, Closed, IsActive
  <2>5. QED  BY <2>1, <2>2, <2>3, <2>4 DEF Next
<1>3. QED  BY <1>1, <1>2, PTL DEF Spec

\* The values of the fence's state, in every behaviour.
THEOREM TypeCorrect == Spec => []TypeOK
<1>1. FenceInv => TypeOK
    BY DEF FenceInv
<1>2. QED  BY <1>1, FenceInvariant, PTL

\* A queued restore is never overtaken by the release of its lease or by a successor.
THEOREM RestoreIsNotOvertaken == Spec => []QueuedRevokeOwnsFence
<1>1. FenceInv => QueuedRevokeOwnsFence
    BY DEF FenceInv
<1>2. QED  BY <1>1, FenceInvariant, PTL

\* After a restore the transcript stands still until the next run opens it.
THEOREM RestoreStands == Spec => []RestoredLeafStands
<1>1. FenceInv => RestoredLeafStands
    BY DEF FenceInv
<1>2. QED  BY <1>1, FenceInvariant, PTL

\* No run can write to a transcript that was deleted.
THEOREM DeletionIsExclusive == Spec => []DeletedHasNoWriter
<1>1. FenceInv => DeletedHasNoWriter
    BY DEF FenceInv
<1>2. QED  BY <1>1, FenceInvariant, PTL

\* A run is admitted to the transcript only after every earlier one gave it up, and
\* after every restore that was asked for was done.
THEOREM AdmissionIsSafe == Spec => AdmitsAfterRestore
<1>1. FenceInv /\ [Next]_vars =>
        [issued' # issued =>
            \A g \in 1 .. issued :
                status[g] = IF recoveryTarget[g] = Unset THEN "released" ELSE "revoked"]_vars
  <2> SUFFICES ASSUME FenceInv, Next, issued' # issued, NEW g \in 1 .. issued
               PROVE  status[g] = IF recoveryTarget[g] = Unset THEN "released" ELSE "revoked"
    OBVIOUS
  <2>1. AcquireOpens
    BY DEF Next, Call, Operate, AcquireCall, RunWhenIdleCall, WriteCall, RevokeCall,
       ReleaseCall, AcquireRefused, AcquireEnter, AcquireFails, AcquireMismatch,
       IdleRefused, IdleEnter, IdleDone, WriteRefused, WriteEnter, WriteDone,
       RevokeStart, RevokeDone, RevokeFails, Release, ForeignMove
  <2>2. ~Closed /\ \A h \in Gens : status[h] # "revoking"
    BY <2>1 DEF AcquireOpens, FenceInv, HeadKeepsItsGround, Awaiting
  <2>3. g \in Gens /\ status[g] \in GenerationStatus /\ Born(g)
    BY BoundsAssumption DEF FenceInv, TypeOK, OneHolder, Gens
  <2>4. status[g] \in {"released", "revoked"}
    BY <2>2, <2>3 DEF FenceInv, OneHolder, Closed, Born, GenerationStatus, None
  <2>5. QED  BY <2>3, <2>4 DEF FenceInv, TargetIsOwed
<1>2. QED  BY <1>1, FenceInvariant, PTL DEF Spec, AdmitsAfterRestore

\* Without moves of the leaf behind its back the fence is a single-writer transcript.
THEOREM FenceImplementsTranscript ==
    ASSUME MaxForeign = 0
    PROVE  Spec => ImplementsTranscript
<1> DEFINE writer   == IF current # None /\ status[current] = "active" THEN current ELSE 0
           restored == issued > 0 /\ status[issued] = "revoked"
<1>1. Init => Transcript!Init
    BY DEF Init, Transcript!Init
<1>2. FenceInv /\ [Next]_vars => [Transcript!Next]_(Transcript!vars)
  <2> SUFFICES ASSUME FenceInv, [Next]_vars PROVE [Transcript!Next]_(Transcript!vars)
    OBVIOUS
  <2>1. CASE UNCHANGED <<issued, current, status, leaf>>
    BY <2>1 DEF Transcript!vars
  <2>2. CASE AcquireOpens
    <3>1. writer = 0 /\ issued < MaxGen
      BY <2>2 DEF AcquireOpens, FenceInv, HeadKeepsItsGround, Closed
    <3>2. issued' = issued + 1 /\ writer' = issued + 1 /\ restored' = FALSE
      BY <2>2, BoundsAssumption DEF AcquireOpens, FenceInv, TypeOK, Gens, None
    <3>3. QED
      BY <2>2, <3>1, <3>2 DEF AcquireOpens, durable, Transcript!Next, Transcript!Open
  <2>3. CASE WriteDone
    <3>1. Awaiting("write") /\ UNCHANGED <<issued, current, status>>
      BY <2>3 DEF WriteDone, perGen
    <3>2. Head(queue).gen \in Gens
      BY <3>1, FifoHead, BoundsAssumption DEF FenceInv, TypeOK, HeadAndTail, Awaiting
    <3>3. writer # 0
      BY <3>1, <3>2, BoundsAssumption DEF FenceInv, HeadKeepsItsGround, IsActive, None,
         Gens
    <3>4. leaf' \in Leaf
      BY <2>3, BoundsAssumption DEF WriteDone, FenceInv, TypeOK, Leaf
    <3>5. QED
      BY <3>1, <3>3, <3>4 DEF Transcript!Next, Transcript!Write
  <2>4. ASSUME Ready("revoke") \/ Awaiting("revoke")
        PROVE  /\ current = Head(queue).gen /\ current = issued
               /\ current \in Gens /\ current # 0 /\ issued > 0
               /\ Head(queue).leaf \in Leaf
               /\ status[current] # "revoked"
    <3>1. HeadAndTail /\ Head(queue).op = "revoke"
      BY <2>4, FifoHead, BoundsAssumption DEF Ready, Awaiting, FenceInv, TypeOK
    <3>2. current = Head(queue).gen /\ status[current] # "revoked"
      BY <3>1 DEF HeadAndTail, FenceInv, QueuedRevokeOwnsFence
    <3>3. QED
      BY <3>1, <3>2 DEF HeadAndTail, FenceInv, TypeOK, OneHolder, None
  <2>5. CASE RevokeStart
    <3>1. /\ status' = [status EXCEPT ![current] = "revoking"]
          /\ UNCHANGED <<issued, current, leaf>>
      BY <2>5 DEF RevokeStart, Ready, FenceInv, QueuedRevokeOwnsFence, durable
    <3>2. writer' = 0 /\ restored = FALSE /\ restored' = FALSE
      BY <2>4, <2>5 DEF RevokeStart, FenceInv, TypeOK
    <3>3. QED
      BY <3>1, <3>2 DEF Transcript!Next, Transcript!Close, Transcript!vars
  <2>6. CASE RevokeDone
    <3>1. /\ status' = [status EXCEPT ![current] = "revoked"]
          /\ leaf' \in Leaf /\ UNCHANGED <<issued, current>>
      BY <2>4, <2>6 DEF RevokeDone
    <3>2. writer = 0 /\ writer' = 0 /\ restored = FALSE /\ restored' = TRUE
      BY <2>4, <2>6 DEF RevokeDone, FenceInv, TypeOK, HeadKeepsItsGround
    <3>3. QED
      BY <3>1, <3>2 DEF Transcript!Next, Transcript!Restore
  <2>7. CASE RevokeFails
    <3>1. /\ status' = [status EXCEPT ![current] = "revoke_failed"]
          /\ UNCHANGED <<issued, current, leaf>>
      BY <2>4, <2>7 DEF RevokeFails, durable
    <3>2. writer = 0 /\ writer' = 0 /\ restored = FALSE /\ restored' = FALSE
      BY <2>4, <2>7 DEF RevokeFails, FenceInv, HeadKeepsItsGround
    <3>3. QED
      BY <3>1, <3>2 DEF Transcript!vars
  <2>8. CASE Release
    <3>1. HeadAndTail /\ Head(queue).gen \in Gens
      BY <2>8, FifoHead, BoundsAssumption DEF Release, Ready, FenceInv, TypeOK,
         HeadAndTail
    <3>2. CASE UNCHANGED <<status, current>>
      BY <2>8, <3>2 DEF Release, durable, Transcript!vars
    <3>3. CASE ~UNCHANGED <<status, current>>
      <4> DEFINE g == Head(queue).gen
      <4>1. /\ status' = [status EXCEPT ![g] = IF @ = "active" THEN "released" ELSE @]
            /\ current' = IF current = g THEN None ELSE current
            /\ UNCHANGED <<issued, leaf>>
        BY <2>8, <3>3 DEF Release, durable
      <4>2. restored' = restored
        BY <4>1
      <4>3. writer' \in {0, writer}
        BY <4>1
      <4>4. QED
        BY <4>1 DEF Transcript!Next, Transcript!Close, Transcript!vars
    <3>4. QED  BY <3>2, <3>3
  <2>9. CASE AcquireMismatch
    <3>1. foreign = 0
      BY DEF FenceInv, TypeOK
    <3>2. QED
      BY <2>9 DEF AcquireMismatch, LeafAgrees, FenceInv, TypeOK, OneHolder,
         RestoredLeafStands, None
  <2>10. CASE ForeignMove
    BY <2>10 DEF ForeignMove, FenceInv, TypeOK
  <2>11. QED
    BY <2>1, <2>2, <2>3, <2>5, <2>6, <2>7, <2>8, <2>9, <2>10 DEF Next, Call, Operate,
       AcquireCall, RunWhenIdleCall, WriteCall, RevokeCall, ReleaseCall, AcquireRefused,
       AcquireEnter, AcquireFails, IdleRefused, IdleEnter, IdleDone, WriteRefused,
       WriteEnter, perGen, durable, vars
<1>3. QED
    BY <1>1, <1>2, FenceInvariant, PTL DEF Spec, ImplementsTranscript, Transcript!Spec

=============================================================================
