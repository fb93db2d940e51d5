------------------------ MODULE SpaceWorkflows_proofs ------------------------
(***************************************************************************)
(* Proofs about the deletion of a Space, for any set of conversations and  *)
(* any bounds.                                                             *)
(*                                                                         *)
(* SpaceInv is inductive.  DiskBooks says what each phase of the deletion  *)
(* journal guarantees of the stores, QueueBooks what the position of an    *)
(* admission, a link job and a deletion in their queues guarantees of each *)
(* other, MarkerBooks that the marker in memory covers the journal.        *)
(***************************************************************************)
EXTENDS SpaceWorkflows, TLAPS, SequenceTheorems

Early == {"prepared", "processes_stopped"}
Cleared == {"knowledge_cleaned", "space_deleted", "cleanup_pending"}

\* What the deletion journal says of the stores.
DiskBooks ==
    /\ record.phase = "none" => record.convs = {}
    /\ record.phase \in Early => Owned \subseteq record.convs
    /\ record.phase \notin Early \union {"none"} => Owned = {}
    /\ record.phase \in Cleared => ~memory
    /\ record.phase \in {"space_deleted", "cleanup_pending"} => ~tree
    /\ NoOrphans

\* What the deletion at work has still to delete.
WorkBooks ==
    removalPc = "work" \/ proc = "removal" =>
        /\ record.phase \in Early => Owned \subseteq todo
        /\ removalPc = "work" /\ record = NoRecord => ~tree

\* The journal the start of the application resumes is not the one of a live deletion.
Quiet ==
    proc # "live" => /\ admission = <<>> /\ ~admitted /\ links = <<>> /\ linkPc = "idle"
                     /\ removals = 0 /\ removalPc = "idle"

IsSubmit(e) == e.kind = "submit"

\* A first message waits in the link FIFO only while it is what is admitted.
SubmitsAdmitted ==
    \A i \in 1 .. Len(links) : IsSubmit(links[i]) =>
        /\ admission # <<>> /\ admitted /\ Head(admission).kind = "submit"
        /\ \A j \in 1 .. Len(links) : IsSubmit(links[j]) => j = i

QueueBooks ==
    /\ admitted => admission # <<>>
    /\ admitted /\ Head(admission).kind # "removal" => record = NoRecord /\ tree
    /\ removalPc \in {"look", "work"} => admitted /\ Head(admission).kind = "removal"
    /\ linkPc # "idle" => links # <<>>
    /\ linkPc \in {"create", "settle"} => IsSubmit(Head(links))
    /\ SubmitsAdmitted

\* A deletion that is waiting or under way keeps the Space closed, and so does its journal.
MarkerBooks ==
    /\ MarkerCoversRecord
    /\ proc = "live" /\ tree /\ (removals > 0 \/ removalPc # "idle") => marked

SpaceInv == TypeOK /\ DiskBooks /\ WorkBooks /\ Quiet /\ QueueBooks /\ MarkerBooks

JobRecord == [kind : {"submit", "delete"}, conv : Convs]

-----------------------------------------------------------------------------
(* The FIFOs as sequences. *)

\* What appending does to a FIFO.
LEMMA FifoAppends ==
    ASSUME NEW S, NEW q \in Seq(S), NEW e \in S
    PROVE  /\ Append(q, e) \in Seq(S) /\ Append(q, e) # <<>>
           /\ Len(q) \in Nat /\ Len(Append(q, e)) = Len(q) + 1
           /\ \A i \in 1 .. Len(q) : Append(q, e)[i] = q[i]
           /\ Append(q, e)[Len(q) + 1] = e
           /\ q # <<>> => Head(Append(q, e)) = Head(q)
<1>1. /\ Append(q, e) \in Seq(S) /\ Append(q, e) # <<>>
      /\ Len(q) \in Nat /\ Len(Append(q, e)) = Len(q) + 1
      /\ \A i \in 1 .. Len(q) : Append(q, e)[i] = q[i]
      /\ Append(q, e)[Len(q) + 1] = e
    OBVIOUS
<1>2. q # <<>> => Head(Append(q, e)) = Head(q)
    OBVIOUS
<1>3. QED  BY <1>1, <1>2

\* What the head and the tail of a FIFO are.
LEMMA FifoHead ==
    ASSUME NEW S, NEW q \in Seq(S), q # <<>>
    PROVE  /\ Head(q) \in S /\ Head(q) = q[1] /\ Len(q) \in Nat \ {0}
           /\ Tail(q) \in Seq(S) /\ Len(Tail(q)) = Len(q) - 1
           /\ \A i \in 1 .. Len(q) - 1 : Tail(q)[i] = q[i + 1]
OBVIOUS

\* When the head of the link FIFO leaves, and with a first message its admission, no other
\* first message is left without one.
LEMMA SubmitsLeave ==
    ASSUME links \in Seq(JobRecord), links # <<>>, SubmitsAdmitted, links' = Tail(links),
           IsSubmit(Head(links)) \/ UNCHANGED <<admission, admitted>>
    PROVE  SubmitsAdmitted'
<1>1. /\ Head(links) = links[1] /\ Len(links) \in Nat \ {0} /\ Len(links') = Len(links) - 1
      /\ \A i \in 1 .. Len(links) - 1 : links'[i] = links[i + 1]
    BY FifoHead
<1>2. ASSUME NEW i \in 1 .. Len(links'), IsSubmit(links'[i])
      PROVE  /\ i + 1 \in 1 .. Len(links) /\ IsSubmit(links[i + 1])
             /\ UNCHANGED <<admission, admitted>>
  <2>1. i + 1 \in 1 .. Len(links) /\ IsSubmit(links[i + 1]) /\ 1 \in 1 .. Len(links) /\ i # 0
      BY <1>1, <1>2
  <2>2. ~IsSubmit(Head(links))
      BY <1>1, <2>1 DEF SubmitsAdmitted
  <2>3. QED  BY <2>1, <2>2
<1>3. ASSUME NEW i \in 1 .. Len(links'), NEW j \in 1 .. Len(links'),
             IsSubmit(links'[i]), IsSubmit(links'[j])
      PROVE  i = j
  <2>1. i + 1 = j + 1
      BY <1>2, <1>3 DEF SubmitsAdmitted
  <2>2. QED  BY <1>1, <2>1
<1>4. QED  BY <1>2, <1>3 DEF SubmitsAdmitted

\* A job that joins the link FIFO is a deletion, or the one first message that was admitted.
LEMMA SubmitsJoin ==
    ASSUME links \in Seq(JobRecord), NEW e \in JobRecord, links' = Append(links, e),
           SubmitsAdmitted, UNCHANGED admission,
           \/ ~IsSubmit(e) /\ UNCHANGED admitted
           \/ ~admitted /\ admitted' /\ admission # <<>> /\ Head(admission).kind = "submit"
    PROVE  SubmitsAdmitted'
<1>1. /\ Len(links) \in Nat /\ Len(links') = Len(links) + 1 /\ links'[Len(links) + 1] = e
      /\ \A i \in 1 .. Len(links) : links'[i] = links[i]
    BY FifoAppends
<1>2. \A i \in 1 .. Len(links') : i \in 1 .. Len(links) \/ i = Len(links) + 1
    BY <1>1
<1>3. CASE ~IsSubmit(e) /\ UNCHANGED admitted
    BY <1>1, <1>2, <1>3 DEF SubmitsAdmitted
<1>4. CASE ~admitted /\ admitted' /\ admission # <<>> /\ Head(admission).kind = "submit"
    BY <1>1, <1>2, <1>4 DEF SubmitsAdmitted
<1>5. QED  BY <1>3, <1>4

-----------------------------------------------------------------------------
(* The actions. *)

\* Initially there is nothing in the queues and nothing in the journals.
LEMMA InitSpace == Init => SpaceInv
<1> SUFFICES ASSUME Init PROVE SpaceInv
    OBVIOUS
<1> USE DEF Init, Idle
<1>1. TypeOK
  <2>1. /\ admission \in Seq(Entry) /\ links \in Seq([kind : {"submit", "delete"}, conv : Convs])
        /\ requests \in 0 .. MaxRequest /\ upsets \in 0 .. MaxUpset
      BY BoundsAssumption
  <2>2. record \in [phase : {"none"} \union SpacePhase, convs : SUBSET Convs]
      BY DEF NoRecord
  <2>3. QED  BY <2>1, <2>2 DEF TypeOK
<1>2. DiskBooks /\ WorkBooks /\ Quiet /\ MarkerBooks
    BY DEF DiskBooks, WorkBooks, Quiet, MarkerBooks, Early, Cleared, NoOrphans, Owned,
           NoRecord, MarkerCoversRecord
<1>3. QueueBooks
    BY DEF QueueBooks, SubmitsAdmitted
<1>4. QED  BY <1>1, <1>2, <1>3 DEF SpaceInv

\* Requests join a queue or set a marker.
LEMMA RequestKeeps ==
    ASSUME SpaceInv, Request \/ \E c \in Convs : TurnQueues(c)
    PROVE  SpaceInv'
<1> USE DEF SpaceInv
<1>1. /\ UNCHANGED <<diskVars, proc, linkPc, removalPc, todo, admitted, lock, upsets>>
      /\ requests' \in 0 .. MaxRequest /\ turn' \subseteq Convs /\ proc = "live"
  <2>1. requests \in 0 .. MaxRequest /\ turn \subseteq Convs
      BY DEF TypeOK
  <2>2. Asked => proc = "live" /\ requests' \in 0 .. MaxRequest
      BY <2>1, BoundsAssumption DEF Asked
  <2>3. CASE \E c \in Convs : AskSubmit(c) \/ AskRemember(c)
      BY <2>1, <2>2, <2>3 DEF AskSubmit, AskRemember, linkVars, removalVars
  <2>4. CASE \E c \in Convs : AskTurn(c)
      BY <2>1, <2>2, <2>4 DEF AskTurn, linkVars, removalVars, queueVars
  <2>5. CASE AskRemoval \/ \E c \in Convs : AskDelete(c)
      BY <2>1, <2>2, <2>5 DEF AskDelete, AskRemoval, linkVars, removalVars, queueVars
  <2>6. CASE \E c \in Convs : TurnQueues(c)
      BY <2>1, <2>6 DEF TurnQueues, linkVars, removalVars, boundVars
  <2>7. QED  BY <2>3, <2>4, <2>5, <2>6 DEF Request
<1>2. /\ tree' = tree /\ memory' = memory /\ conv' = conv /\ link' = link /\ record' = record
      /\ Owned' = Owned
    BY <1>1 DEF diskVars, Owned
<1>3. DiskBooks' /\ WorkBooks' /\ Quiet'
    BY <1>1, <1>2 DEF DiskBooks, WorkBooks, Quiet, NoOrphans
<1>4. CASE UNCHANGED <<linkVars, removalVars>> /\ \E e \in Entry : admission' = Append(admission, e)
  <2>1. /\ admission' \in Seq(Entry) /\ admission' # <<>>
        /\ admission # <<>> => Head(admission') = Head(admission)
      BY <1>4, FifoAppends DEF TypeOK
  <2>2. TypeOK' /\ MarkerBooks'
      BY <1>1, <1>2, <1>4, <2>1 DEF TypeOK, MarkerBooks, MarkerCoversRecord, linkVars, removalVars
  <2>3. QueueBooks'
      BY <1>1, <1>2, <1>4, <2>1 DEF QueueBooks, SubmitsAdmitted, linkVars
  <2>4. QED  BY <1>3, <2>2, <2>3
<1>5. CASE UNCHANGED <<linkVars, removalVars, admission>>
    BY <1>1, <1>2, <1>3, <1>5 DEF TypeOK, MarkerBooks, MarkerCoversRecord, QueueBooks,
       SubmitsAdmitted, linkVars, removalVars
<1>6. CASE \E c \in Convs : AskDelete(c)
  <2>1. PICK c \in Convs : AskDelete(c)
      BY <1>6
  <2>2. /\ links' = Append(links, [kind |-> "delete", conv |-> c])
        /\ [kind |-> "delete", conv |-> c] \in JobRecord
        /\ deleting' = deleting \union {c} /\ UNCHANGED <<removalVars, admission>>
      BY <2>1 DEF AskDelete, JobRecord, queueVars
  <2>3. links \in Seq(JobRecord)
      BY DEF TypeOK, JobRecord
  <2>4. links' \in Seq(JobRecord) /\ links' # <<>> /\ (links # <<>> => Head(links') = Head(links))
      BY <2>2, <2>3, FifoAppends
  <2>5. SubmitsAdmitted'
      BY <1>1, <2>2, <2>3, SubmitsJoin DEF QueueBooks, IsSubmit
  <2>6. TypeOK' /\ MarkerBooks'
      BY <1>1, <1>2, <2>2, <2>4 DEF TypeOK, JobRecord, MarkerBooks, MarkerCoversRecord, removalVars
  <2>7. QueueBooks'
      BY <1>1, <1>2, <2>2, <2>4, <2>5 DEF QueueBooks, removalVars
  <2>8. QED  BY <1>3, <2>6, <2>7
<1>7. CASE AskRemoval
  <2>1. /\ marked' = TRUE /\ removals' = removals + 1
        /\ UNCHANGED <<linkVars, admission>>
      BY <1>7 DEF AskRemoval, queueVars
  <2>2. TypeOK' /\ MarkerBooks'
      BY <1>1, <1>2, <2>1 DEF TypeOK, MarkerBooks, MarkerCoversRecord, linkVars
  <2>3. QueueBooks'
      BY <1>1, <1>2, <2>1 DEF QueueBooks, SubmitsAdmitted, linkVars
  <2>4. QED  BY <1>3, <2>2, <2>3
<1>8. ASSUME NEW c \in Convs PROVE /\ [kind |-> "submit", conv |-> c] \in Entry
                                   /\ [kind |-> "remember", conv |-> c] \in Entry
                                   /\ [kind |-> "turn", conv |-> c] \in Entry
    BY DEF Entry
<1>9. CASE \E c \in Convs : AskSubmit(c) \/ AskRemember(c)
    BY <1>4, <1>8, <1>9 DEF AskSubmit, AskRemember, Admit
<1>10. CASE \E c \in Convs : AskTurn(c)
    BY <1>5, <1>10 DEF AskTurn, queueVars
<1>11. CASE \E c \in Convs : TurnQueues(c)
    BY <1>4, <1>5, <1>8, <1>11 DEF TurnQueues, Admit
<1>12. QED  BY <1>6, <1>7, <1>9, <1>10, <1>11 DEF Request

\* An admission is refused, admitted or finished.
LEMMA AdmissionKeeps ==
    ASSUME SpaceInv, Admission
    PROVE  SpaceInv'
<1> USE DEF SpaceInv
<1>1. /\ UNCHANGED <<tree, conv, link, record, proc, linkPc, deleting, removals, removalPc, todo,
                    lock, turn, requests>>
      /\ memory' \in BOOLEAN /\ upsets' \in 0 .. MaxUpset
      /\ admission # <<>> /\ Owned' = Owned /\ proc = "live"
      /\ memory' = memory \/ (tree /\ record = NoRecord)
  <2>1. CASE AdmissionTurn
      BY <2>1, BoundsAssumption DEF AdmissionTurn, Upset, TypeOK, diskVars, Owned
  <2>2. CASE AdmittedRuns
      BY <2>2 DEF AdmittedRuns, TypeOK, linkVars, removalVars, boundVars, Owned, QueueBooks
  <2>3. QED  BY <2>1, <2>2 DEF Admission
<1>2. /\ admission \in Seq(Entry) /\ links \in Seq(JobRecord)
      /\ Head(admission) \in Entry /\ Tail(admission) \in Seq(Entry)
    BY <1>1, FifoHead DEF TypeOK, JobRecord
<1>3. DiskBooks' /\ WorkBooks' /\ Quiet'
    BY <1>1 DEF DiskBooks, WorkBooks, Quiet, NoOrphans, NoRecord, Early, Cleared
<1>4. CASE Leaves /\ UNCHANGED links /\ (marked' = marked \/ marked' = (marked \/ record # NoRecord))
  <2>1. /\ removalPc \notin {"look", "work"}
        /\ \A i \in 1 .. Len(links) : ~IsSubmit(links[i])
    <3>1. ~admitted \/ Head(admission).kind \in {"turn", "remember"}
        BY <1>4 DEF Admission, AdmissionTurn, AdmittedRuns
    <3>2. QED  BY <3>1 DEF QueueBooks, SubmitsAdmitted
  <2>2. TypeOK' /\ MarkerBooks'
      BY <1>1, <1>2, <1>4 DEF TypeOK, Leaves, MarkerBooks, MarkerCoversRecord
  <2>3. QueueBooks'
      BY <1>1, <1>4, <2>1 DEF QueueBooks, SubmitsAdmitted, Leaves
  <2>4. QED  BY <1>3, <2>2, <2>3
<1>5. CASE /\ Open /\ tree /\ ~admitted /\ admitted' = TRUE /\ UNCHANGED <<admission, marked>>
           /\ Head(admission).kind # "removal"
           /\ links' = IF Head(admission).kind = "submit"
                       THEN Append(links, Head(admission)) ELSE links
  <2>1. links' \in Seq(JobRecord) /\ (links # <<>> => links' # <<>> /\ Head(links') = Head(links))
        /\ SubmitsAdmitted'
    <3>1. CASE Head(admission).kind = "submit"
      <4>1. Head(admission) \in JobRecord
          BY <1>2, <3>1 DEF Entry, JobRecord
      <4>2. links' = Append(links, Head(admission)) /\ UNCHANGED admission
          BY <1>5, <3>1
      <4>3. SubmitsAdmitted'
          BY <1>1, <1>2, <1>5, <3>1, <4>1, <4>2, SubmitsJoin DEF QueueBooks
      <4>4. QED  BY <1>2, <4>1, <4>2, <4>3, FifoAppends
    <3>2. CASE Head(admission).kind # "submit"
        BY <1>1, <1>2, <1>5, <3>2 DEF QueueBooks, SubmitsAdmitted
    <3>3. QED  BY <3>1, <3>2
  <2>2. TypeOK' /\ MarkerBooks'
      BY <1>1, <1>2, <1>5, <2>1 DEF TypeOK, JobRecord, MarkerBooks, MarkerCoversRecord
  <2>3. QueueBooks'
      BY <1>1, <1>5, <2>1 DEF QueueBooks, Open
  <2>4. QED  BY <1>3, <2>2, <2>3
<1>6. CASE AdmissionTurn
    BY <1>4, <1>5, <1>6 DEF AdmissionTurn
<1>7. CASE AdmittedRuns
    BY <1>4, <1>7 DEF AdmittedRuns, linkVars, removalVars
<1>8. QED  BY <1>6, <1>7 DEF Admission

\* The effect of a step of the link coordinator on what SpaceInv speaks of: a conversation
\* becomes live only while its first message is admitted, and the job goes on or leaves.
LEMMA LinkEffect ==
    ASSUME SpaceInv, Link
    PROVE  /\ UNCHANGED <<tree, memory, record, proc, removals, removalPc, todo, marked, turn,
                          requests>>
           /\ proc = "live" /\ links # <<>> /\ removalPc \notin {"look", "work"}
           /\ conv' \in [Convs -> {"none", "live", "deleted"}]
           /\ \A c \in Convs : conv'[c] = "live" => conv[c] = "live" \/ (record = NoRecord /\ tree)
           /\ link' \in [Convs -> {"none", "birth"} \union DeletePhase]
           /\ deleting' \subseteq Convs /\ upsets' \in 0 .. MaxUpset
           /\ \/ LinkLeaves
              \/ /\ UNCHANGED <<links, admission, admitted>> /\ lock' = "link"
                 /\ linkPc' \in {"look", "resume", "finish", "own", "create", "settle"}
                 /\ linkPc' \in {"create", "settle"} => IsSubmit(Head(links))
<1> USE DEF SpaceInv
<1>1. /\ UNCHANGED <<tree, memory, record, proc, removals, removalPc, todo, marked, turn, requests>>
      /\ proc = "live"
    BY DEF Link, LinkLocks, LinkLooks, LinkResumes, LinkOwns, LinkCreates, LinkSettles, LinkKeeps,
           removalVars
<1>2. /\ links # <<>> /\ removalPc \notin {"look", "work"}
      /\ linkPc # "idle" => lock = "link"
    BY DEF Link, LinkLocks, LinkLooks, LinkResumes, LinkOwns, LinkCreates, LinkSettles, TypeOK,
           QueueBooks
<1>3. Head(links) \in JobRecord /\ Job \in JobRecord /\ Job.conv \in Convs
  <2>1. Head(links) \in JobRecord
      BY <1>2, FifoHead DEF TypeOK, JobRecord
  <2>2. QED  BY <2>1 DEF Job, JobRecord
<1> DEFINE c == Job.conv
           Goes(pc) == UNCHANGED <<links, admission, admitted>> /\ linkPc' = pc /\ lock' = lock
<1>4. ASSUME NEW pc, LinkGoes(pc) PROVE Goes(pc)
    BY <1>4 DEF LinkGoes, queueVars
<1>5. /\ \A u \in {upsets'} : Upset => u \in 0 .. MaxUpset
      /\ upsets \in 0 .. MaxUpset /\ deleting \subseteq Convs
      /\ conv \in [Convs -> {"none", "live", "deleted"}]
      /\ link \in [Convs -> {"none", "birth"} \union DeletePhase]
      /\ c \in Convs
    BY <1>3, BoundsAssumption DEF TypeOK, Upset
<1>6. LinkFails(c) => /\ upsets' \in 0 .. MaxUpset /\ LinkLeaves /\ deleting' \subseteq Convs
    BY <1>5 DEF LinkFails, Unmarked
<1>7. Resume(c) \/ (UNCHANGED <<link, conv>> \/ ResumeFails(c)) =>
        /\ conv' \in [Convs -> {"none", "live", "deleted"}]
        /\ \A d \in Convs : conv'[d] = "live" => conv[d] = "live"
        /\ link' \in [Convs -> {"none", "birth"} \union DeletePhase]
    BY <1>5 DEF Resume, ResumeFails, Deletes, DeletePhase
<1> HIDE DEF c
<1>8. CASE LinkLocks
    BY <1>1, <1>2, <1>5, <1>8 DEF LinkLocks
<1>9. CASE LinkLooks
  <2>1. UNCHANGED <<conv, link>> /\ linkPc = "look"
      BY <1>9 DEF LinkLooks
  <2>2. \/ LinkLeaves /\ UNCHANGED <<deleting, upsets>>
        \/ LinkFails(c)
        \/ \E pc \in {"own", "finish", "resume"} : Goes(pc) /\ UNCHANGED <<deleting, upsets>>
      BY <1>4, <1>9 DEF LinkLooks, c
  <2>3. QED  BY <1>1, <1>2, <1>5, <1>6, <2>1, <2>2
<1>10. CASE LinkResumes
  <2>1. linkPc \in {"resume", "finish"} /\ (Resume(c) \/ UNCHANGED <<link, conv>> \/ ResumeFails(c))
      BY <1>10 DEF LinkResumes, c
  <2>2. \/ UNCHANGED <<linkPc, links, admission, admitted, lock, deleting, upsets>>
        \/ LinkFails(c)
        \/ LinkLeaves /\ deleting' = deleting \ {c} /\ UNCHANGED upsets
        \/ Goes("own") /\ UNCHANGED <<deleting, upsets>>
      BY <1>4, <1>10 DEF LinkResumes, c, queueVars
  <2>3. QED  BY <1>1, <1>2, <1>5, <1>6, <1>7, <2>1, <2>2
<1>11. CASE LinkOwns
  <2>1. linkPc = "own" /\ UNCHANGED conv
      BY <1>11 DEF LinkOwns
  <2>2. link' \in [Convs -> {"none", "birth"} \union DeletePhase]
      BY <1>5, <1>11 DEF LinkOwns, c, DeletePhase
  <2>3. \/ Goes("finish") /\ UNCHANGED <<deleting, upsets>>
        \/ Goes("create") /\ IsSubmit(Head(links)) /\ UNCHANGED <<deleting, upsets>>
        \/ LinkLeaves /\ UNCHANGED <<deleting, upsets>>
        \/ LinkFails(c)
      BY <1>4, <1>11 DEF LinkOwns, c, Job, IsSubmit
  <2>4. QED  BY <1>1, <1>2, <1>5, <1>6, <2>1, <2>2, <2>3
<1>12. CASE LinkCreates
  <2>1. /\ linkPc = "create" /\ Goes("settle") /\ UNCHANGED <<link, deleting>>
        /\ upsets' \in 0 .. MaxUpset /\ conv' \in {conv, Born(c)}
      BY <1>4, <1>5, <1>12 DEF LinkCreates, c
  <2>2. IsSubmit(Head(links)) /\ record = NoRecord /\ tree
    <3>1. IsSubmit(Head(links)) /\ 1 \in 1 .. Len(links) /\ Head(links) = links[1]
        BY <1>2, <2>1, FifoHead DEF QueueBooks, TypeOK
    <3>2. admitted /\ Head(admission).kind = "submit"
        BY <3>1 DEF QueueBooks, SubmitsAdmitted
    <3>3. QED  BY <3>1, <3>2 DEF QueueBooks
  <2>3. conv' \in [Convs -> {"none", "live", "deleted"}]
      BY <1>5, <2>1 DEF Born
  <2>4. QED  BY <1>1, <1>2, <1>5, <2>1, <2>2, <2>3
<1>13. CASE LinkSettles
  <2>1. LinkLeaves /\ UNCHANGED <<conv, deleting>> /\ upsets' \in 0 .. MaxUpset
      BY <1>5, <1>13 DEF LinkSettles
  <2>2. link' \in [Convs -> {"none", "birth"} \union DeletePhase]
      BY <1>5, <1>13 DEF LinkSettles, c
  <2>3. QED  BY <1>1, <1>2, <1>5, <2>1, <2>2
<1>14. QED  BY <1>8, <1>9, <1>10, <1>11, <1>12, <1>13 DEF Link

\* A job of the link coordinator goes on or leaves.
LEMMA LinkInv ==
    ASSUME SpaceInv, Link
    PROVE  SpaceInv'
<1> USE DEF SpaceInv
<1>1. /\ UNCHANGED <<tree, memory, record, proc, removals, removalPc, todo, marked, turn, requests>>
      /\ proc = "live" /\ links # <<>> /\ removalPc \notin {"look", "work"}
      /\ conv' \in [Convs -> {"none", "live", "deleted"}]
      /\ \A c \in Convs : conv'[c] = "live" => conv[c] = "live" \/ (record = NoRecord /\ tree)
      /\ link' \in [Convs -> {"none", "birth"} \union DeletePhase]
      /\ deleting' \subseteq Convs /\ upsets' \in 0 .. MaxUpset
    BY LinkEffect
<1>2. Owned' \subseteq Owned \/ (record.phase = "none" /\ tree)
    BY <1>1 DEF Owned, NoRecord
<1>3. DiskBooks' /\ WorkBooks' /\ Quiet' /\ MarkerBooks'
  <2>1. DiskBooks'
      BY <1>1, <1>2 DEF DiskBooks, NoOrphans, Early, Cleared
  <2>2. QED  BY <1>1, <2>1 DEF WorkBooks, Quiet, MarkerBooks, MarkerCoversRecord
<1>4. CASE /\ UNCHANGED <<links, admission, admitted>> /\ lock' = "link"
           /\ linkPc' \in {"look", "resume", "finish", "own", "create", "settle"}
           /\ linkPc' \in {"create", "settle"} => IsSubmit(Head(links))
  <2>1. TypeOK'
      BY <1>1, <1>4 DEF TypeOK
  <2>2. QueueBooks'
      BY <1>1, <1>4 DEF QueueBooks, SubmitsAdmitted
  <2>3. QED  BY <1>3, <2>1, <2>2
<1>5. CASE LinkLeaves
  <2>1. /\ links \in Seq(JobRecord) /\ Tail(links) \in Seq(JobRecord)
        /\ Head(links) = links[1] /\ 1 \in 1 .. Len(links)
      BY <1>1, FifoHead DEF TypeOK, JobRecord
  <2>2. /\ linkPc' = "idle" /\ links' = Tail(links) /\ lock' = "free"
        /\ \/ UNCHANGED <<admission, admitted>>
           \/ IsSubmit(Head(links)) /\ admission' = Tail(admission) /\ admitted' = FALSE
      BY <1>5 DEF LinkLeaves, Job, IsSubmit, Leaves
  <2>3. IsSubmit(Head(links)) => admission # <<>>
      BY <2>1 DEF QueueBooks, SubmitsAdmitted
  <2>4. admission' \in Seq(Entry)
    <3>1. admission \in Seq(Entry)
        BY DEF TypeOK
    <3>2. admission # <<>> => Tail(admission) \in Seq(Entry)
        BY <3>1, FifoHead
    <3>3. QED  BY <2>2, <2>3, <3>1, <3>2
  <2>5. TypeOK'
      BY <1>1, <2>1, <2>2, <2>4 DEF TypeOK, JobRecord
  <2>6. SubmitsAdmitted'
      BY <1>1, <2>1, <2>2, SubmitsLeave DEF QueueBooks
  <2>7. QueueBooks'
      BY <1>1, <2>2, <2>6 DEF QueueBooks
  <2>8. QED  BY <1>3, <2>5, <2>7
<1>6. QED  BY <1>4, <1>5, LinkEffect

\* The deletion of a Space goes on by one call. Its journal, what it has still to delete and
\* the stores stay in agreement; the record goes only when the Space has gone.
LEMMA ResumesKeeps ==
    ASSUME TypeOK, DiskBooks, record # NoRecord, Resumes,
           record.phase \in Early => Owned \subseteq todo,
           UNCHANGED <<link, requests, upsets>>
    PROVE  /\ DiskBooks' /\ (record'.phase \in Early => Owned' \subseteq todo')
           /\ record' = NoRecord => ~tree'
           /\ tree' \in BOOLEAN /\ memory' \in BOOLEAN /\ todo' \subseteq Convs
           /\ conv' \in [Convs -> {"none", "live", "deleted"}]
           /\ record' \in [phase : {"none"} \union SpacePhase, convs : SUBSET Convs]
           /\ tree' => tree
<1> USE DEF DiskBooks, Early, Cleared, NoOrphans, SpacePhase, Works, Reaches
<1>1. CASE Works("prepared")
  <2>1. /\ record' = [record EXCEPT !.phase = "processes_stopped"]
        /\ UNCHANGED <<tree, memory, conv, todo>> /\ Owned' = Owned
      BY <1>1 DEF Resumes, CleansUp, Owned
  <2>2. QED  BY <1>1, <2>1 DEF TypeOK, NoRecord
<1>2. CASE Works("processes_stopped") /\ todo # {}
  <2>1. PICK c \in todo : /\ conv' = [conv EXCEPT ![c] = IF @ = "live" THEN "deleted" ELSE @]
                          /\ todo' = todo \ {c} /\ UNCHANGED <<tree, memory, record>>
      BY <1>2 DEF Resumes, CleansUp
  <2>2. Owned' \subseteq Owned \ {c}
      BY <2>1 DEF Owned, TypeOK
  <2>3. conv' \in [Convs -> {"none", "live", "deleted"}]
      BY <2>1 DEF TypeOK
  <2>4. QED  BY <1>2, <2>1, <2>2, <2>3 DEF TypeOK
<1>3. CASE Works("processes_stopped") /\ todo = {}
  <2>1. /\ record' = [record EXCEPT !.phase = "conversations_deleted"]
        /\ UNCHANGED <<tree, memory, conv, todo>> /\ Owned' = Owned
      BY <1>3 DEF Resumes, CleansUp, Owned
  <2>2. QED  BY <1>3, <2>1 DEF TypeOK, NoRecord
<1>4. CASE Works("conversations_deleted")
  <2>1. /\ record' = [record EXCEPT !.phase = "knowledge_cleaned"] /\ memory' = FALSE
        /\ UNCHANGED <<tree, conv, todo>> /\ Owned' = Owned
      BY <1>4 DEF Resumes, CleansUp, Owned
  <2>2. QED  BY <1>4, <2>1 DEF TypeOK, NoRecord
<1>5. CASE Works("knowledge_cleaned")
  <2>1. /\ record' = [record EXCEPT !.phase = "space_deleted"] /\ tree' = FALSE
        /\ UNCHANGED <<memory, conv, todo>> /\ Owned' = Owned
      BY <1>5 DEF Resumes, CleansUp, Owned
  <2>2. QED  BY <1>5, <2>1 DEF TypeOK, NoRecord
<1>6. CASE Works("space_deleted") \/ Works("cleanup_pending")
  <2>1. record' = NoRecord /\ UNCHANGED <<tree, memory, conv, todo>> /\ Owned' = Owned
      BY <1>6 DEF Resumes, CleansUp, Owned
  <2>2. NoRecord \in [phase : {"none"} \union SpacePhase, convs : SUBSET Convs]
      BY DEF NoRecord
  <2>3. QED  BY <1>6, <2>1, <2>2 DEF TypeOK, NoRecord
<1>7. QED  BY <1>1, <1>2, <1>3, <1>4, <1>5, <1>6 DEF Resumes, CleansUp

\* A call that fails, before or after its effect, leaves the journal and the stores in
\* agreement.
LEMMA ResumesNotKeeps ==
    ASSUME TypeOK, DiskBooks, record # NoRecord, ResumesNot
    PROVE  /\ DiskBooks' /\ record' # NoRecord
           /\ tree' \in BOOLEAN /\ memory' \in BOOLEAN
           /\ conv' \in [Convs -> {"none", "live", "deleted"}]
           /\ record' \in [phase : {"none"} \union SpacePhase, convs : SUBSET Convs]
           /\ tree' => tree
<1> USE DEF DiskBooks, Early, Cleared, NoOrphans, SpacePhase, Works, Reaches
<1>1. CASE UNCHANGED <<conv, record>>
  <2>1. Owned' = Owned
      BY <1>1 DEF Owned
  <2>2. CASE UNCHANGED <<tree, memory>>
      BY <1>1, <2>1, <2>2 DEF TypeOK
  <2>3. CASE Works("conversations_deleted") /\ memory' = FALSE /\ UNCHANGED tree
      BY <1>1, <2>1, <2>3 DEF TypeOK
  <2>4. CASE Works("knowledge_cleaned") /\ tree' = FALSE /\ UNCHANGED memory
      BY <1>1, <2>1, <2>4 DEF TypeOK
  <2>5. CASE UNCHANGED <<tree, memory>> \/ Works("space_deleted")
      BY <1>1, <2>1, <2>2, <2>5 DEF ResumesNot
  <2>6. QED  BY <1>1, <2>2, <2>3, <2>4, <2>5 DEF ResumesNot
<1>2. CASE /\ Works("processes_stopped") /\ UNCHANGED <<tree, memory, record>>
           /\ \E c \in todo : conv' = [conv EXCEPT ![c] = IF @ = "live" THEN "deleted" ELSE @]
  <2>1. Owned' \subseteq Owned /\ conv' \in [Convs -> {"none", "live", "deleted"}]
      BY <1>2 DEF Owned, TypeOK
  <2>2. QED  BY <1>2, <2>1 DEF TypeOK
<1>3. CASE Works("space_deleted") /\ Reaches("cleanup_pending") /\ UNCHANGED <<tree, memory, conv>>
  <2>1. Owned' = Owned
      BY <1>3 DEF Owned
  <2>2. QED  BY <1>3, <2>1 DEF TypeOK, NoRecord
<1>4. QED  BY <1>1, <1>2, <1>3 DEF ResumesNot

\* The deletion coordinator goes on.
LEMMA RemovalInv ==
    ASSUME SpaceInv, Removal
    PROVE  SpaceInv'
<1> USE DEF SpaceInv
<1>1. /\ UNCHANGED <<link, proc, links, linkPc, deleting, turn, requests>> /\ proc = "live"
      /\ linkPc # "idle" => lock = "link"
    BY DEF Removal, RemovalEnters, RemovalLocks, RemovalLooks, RemovalWorks, RemovalKeeps, linkVars,
           diskVars, TypeOK
<1>2. CASE RemovalEnters
  <2>1. /\ UNCHANGED <<tree, memory, conv, record, todo, marked, admitted, lock, upsets>>
        /\ removals > 0 /\ removals' = removals - 1 /\ removalPc = "idle" /\ removalPc' = "queued"
        /\ Owned' = Owned
      BY <1>2 DEF RemovalEnters, diskVars, Owned
  <2>2. PICK e : admission' = Append(admission, e) /\ e = [kind |-> "removal",
                                                          conv |-> CHOOSE c \in Convs : TRUE]
      BY <1>2 DEF RemovalEnters
  <2>3. e \in Entry
      BY <2>2, BoundsAssumption DEF Entry
  <2>4. /\ admission' \in Seq(Entry) /\ admission' # <<>>
        /\ admission # <<>> => Head(admission') = Head(admission)
      BY <2>2, <2>3, FifoAppends DEF TypeOK
  <2>5. TypeOK' /\ DiskBooks' /\ WorkBooks' /\ Quiet' /\ MarkerBooks'
      BY <1>1, <2>1, <2>4 DEF TypeOK, DiskBooks, NoOrphans, WorkBooks, Quiet, MarkerBooks,
         MarkerCoversRecord
  <2>6. QueueBooks'
      BY <1>1, <2>1, <2>4 DEF QueueBooks, SubmitsAdmitted
  <2>7. QED  BY <2>5, <2>6
<1>3. CASE RemovalLocks
  <2>1. /\ UNCHANGED <<tree, memory, conv, record, removals, todo, marked, admission, upsets>>
        /\ removalPc = "queued" /\ removalPc' = "look" /\ lock' = "removal" /\ admitted' = TRUE
        /\ admission # <<>> /\ Head(admission).kind = "removal" /\ Owned' = Owned
        /\ lock # "link"
      BY <1>3 DEF RemovalLocks, diskVars, Owned
  <2>2. TypeOK' /\ DiskBooks' /\ WorkBooks' /\ Quiet' /\ MarkerBooks'
      BY <1>1, <2>1 DEF TypeOK, DiskBooks, NoOrphans, WorkBooks, Quiet, MarkerBooks,
         MarkerCoversRecord
  <2>3. QueueBooks'
      BY <1>1, <2>1 DEF QueueBooks, SubmitsAdmitted
  <2>4. QED  BY <2>2, <2>3
<1>4. ASSUME removalPc \in {"look", "work"}
      PROVE  /\ admission \in Seq(Entry) /\ admission # <<>> /\ Tail(admission) \in Seq(Entry)
             /\ admitted /\ Head(admission).kind = "removal" /\ lock = "removal" /\ linkPc = "idle"
             /\ \A i \in 1 .. Len(links) : ~IsSubmit(links[i])
  <2>1. /\ admission \in Seq(Entry) /\ admission # <<>> /\ admitted /\ lock = "removal"
        /\ Head(admission).kind = "removal" /\ linkPc = "idle"
        /\ \A i \in 1 .. Len(links) : ~IsSubmit(links[i])
      BY <1>4 DEF TypeOK, QueueBooks, SubmitsAdmitted
  <2>2. QED  BY <2>1, FifoHead
<1>5. ASSUME removalPc \in {"look", "work"}, RemovalLeaves, UNCHANGED removals,
             DiskBooks', upsets' \in 0 .. MaxUpset, marked' \in BOOLEAN,
             tree' \in BOOLEAN, memory' \in BOOLEAN, conv' \in [Convs -> {"none", "live", "deleted"}],
             record' \in [phase : {"none"} \union SpacePhase, convs : SUBSET Convs],
             \/ marked' = marked /\ (record' # NoRecord => marked) /\ (tree' => tree)
             \/ ~tree' /\ record' = NoRecord
      PROVE  SpaceInv'
  <2>1. /\ removalPc' = "idle" /\ todo' = {} /\ lock' = "free" /\ admission' = Tail(admission)
        /\ admitted' = FALSE
      BY <1>5 DEF RemovalLeaves, Leaves
  <2>2. TypeOK'
      BY <1>1, <1>4, <1>5, <2>1 DEF TypeOK
  <2>3. WorkBooks' /\ Quiet'
      BY <1>1, <2>1 DEF WorkBooks, Quiet
  <2>4. MarkerBooks'
      BY <1>1, <1>5, <2>1 DEF MarkerBooks, MarkerCoversRecord
  <2>5. QueueBooks'
      BY <1>1, <1>4, <1>5, <2>1 DEF QueueBooks, SubmitsAdmitted
  <2>6. QED  BY <1>5, <2>2, <2>3, <2>4, <2>5
<1>6. ASSUME removalPc \in {"look", "work"}, removalPc' = "work",
             UNCHANGED <<removals, marked, admission, admitted, lock, upsets>>,
             DiskBooks', WorkBooks', todo' \subseteq Convs,
             tree' \in BOOLEAN, memory' \in BOOLEAN, conv' \in [Convs -> {"none", "live", "deleted"}],
             record' \in [phase : {"none"} \union SpacePhase, convs : SUBSET Convs],
             record' # NoRecord => marked, tree' => tree
      PROVE  SpaceInv'
  <2>1. TypeOK'
      BY <1>1, <1>4, <1>6 DEF TypeOK
  <2>2. Quiet' /\ MarkerBooks'
      BY <1>1, <1>6 DEF Quiet, MarkerBooks, MarkerCoversRecord
  <2>3. QueueBooks'
      BY <1>1, <1>4, <1>6 DEF QueueBooks, SubmitsAdmitted
  <2>4. QED  BY <1>6, <2>1, <2>2, <2>3
<1>7. Upset => upsets' \in 0 .. MaxUpset
    BY BoundsAssumption DEF Upset, TypeOK
<1>8. CASE RemovalLooks
  <2>1. UNCHANGED <<tree, memory, conv, removals>> /\ removalPc = "look" /\ Owned' = Owned
      BY <1>8 DEF RemovalLooks, Owned
  <2>2. CASE record = NoRecord /\ ~tree /\ marked' = FALSE /\ RemovalLeaves /\ UNCHANGED <<record, upsets>>
    <3>1. DiskBooks'
        BY <2>1, <2>2 DEF DiskBooks, NoOrphans
    <3>2. QED  BY <1>5, <2>1, <2>2, <3>1 DEF TypeOK
  <2>3. CASE /\ record = NoRecord /\ tree
             /\ record' = [phase |-> "prepared", convs |-> Owned]
             /\ removalPc' = "work" /\ todo' = Owned /\ UNCHANGED <<marked, queueVars, upsets>>
    <3>1. DiskBooks' /\ WorkBooks'
        BY <2>1, <2>3 DEF DiskBooks, WorkBooks, NoOrphans, Early, Cleared, NoRecord
    <3>2. marked /\ Owned \subseteq Convs
        BY <1>1, <2>1, <2>3 DEF MarkerBooks, Owned
    <3>3. record' \in [phase : {"none"} \union SpacePhase, convs : SUBSET Convs]
        BY <2>3, <3>2 DEF SpacePhase
    <3>4. QED  BY <1>6, <2>1, <2>3, <3>1, <3>2, <3>3 DEF TypeOK, queueVars
  <2>4. CASE /\ record # NoRecord /\ removalPc' = "work" /\ todo' = record.convs
             /\ UNCHANGED <<record, marked, queueVars, upsets>>
    <3>1. DiskBooks' /\ WorkBooks'
        BY <2>1, <2>4 DEF DiskBooks, WorkBooks, NoOrphans
    <3>2. marked /\ record.convs \subseteq Convs
        BY <1>1, <2>4 DEF MarkerBooks, MarkerCoversRecord, TypeOK
    <3>3. QED  BY <1>6, <2>1, <2>4, <3>1, <3>2 DEF TypeOK, queueVars
  <2>5. CASE RemovalFails /\ UNCHANGED record
    <3>1. DiskBooks'
        BY <2>1, <2>5 DEF DiskBooks, NoOrphans
    <3>2. record' # NoRecord => marked
        BY <1>1, <2>5 DEF MarkerBooks, MarkerCoversRecord
    <3>3. QED  BY <1>5, <1>7, <2>1, <2>5, <3>1, <3>2 DEF TypeOK, RemovalFails
  <2>6. QED  BY <1>8, <2>2, <2>3, <2>4, <2>5 DEF RemovalLooks
<1>9. CASE RemovalWorks
  <2>1. removalPc = "work" /\ UNCHANGED <<link, removals>>
      BY <1>9 DEF RemovalWorks
  <2>2. record # NoRecord => marked
      BY <1>1 DEF MarkerBooks, MarkerCoversRecord
  <2>3. CASE record # NoRecord /\ Resumes /\ UNCHANGED <<removalPc, marked, queueVars, upsets>>
    <3>1. /\ DiskBooks' /\ (record'.phase \in Early => Owned' \subseteq todo')
          /\ record' = NoRecord => ~tree'
          /\ tree' \in BOOLEAN /\ memory' \in BOOLEAN /\ todo' \subseteq Convs
          /\ conv' \in [Convs -> {"none", "live", "deleted"}]
          /\ record' \in [phase : {"none"} \union SpacePhase, convs : SUBSET Convs]
          /\ tree' => tree
        BY <1>1, <2>1, <2>3, ResumesKeeps DEF WorkBooks
    <3>2. WorkBooks'
        BY <3>1 DEF WorkBooks
    <3>3. QED  BY <1>6, <2>1, <2>2, <2>3, <3>1, <3>2 DEF queueVars
  <2>4. CASE record # NoRecord /\ ResumesNot /\ RemovalFails
    <3>1. /\ DiskBooks' /\ record' # NoRecord
          /\ tree' \in BOOLEAN /\ memory' \in BOOLEAN
          /\ conv' \in [Convs -> {"none", "live", "deleted"}]
          /\ record' \in [phase : {"none"} \union SpacePhase, convs : SUBSET Convs]
          /\ tree' => tree
        BY <2>4, ResumesNotKeeps
    <3>2. QED  BY <1>5, <1>7, <2>1, <2>2, <2>4, <3>1 DEF RemovalFails, TypeOK
  <2>5. CASE /\ record = NoRecord /\ marked' = FALSE /\ RemovalLeaves
             /\ UNCHANGED <<tree, memory, conv, record, upsets>>
    <3>1. ~tree
        BY <2>1, <2>5 DEF WorkBooks
    <3>2. Owned' = Owned
        BY <2>5 DEF Owned
    <3>3. DiskBooks'
        BY <2>5, <3>2 DEF DiskBooks, NoOrphans
    <3>4. QED  BY <1>5, <2>1, <2>5, <3>1, <3>3 DEF TypeOK
  <2>6. QED  BY <1>9, <2>3, <2>4, <2>5 DEF RemovalWorks
<1>10. QED  BY <1>2, <1>3, <1>8, <1>9 DEF Removal

\* A crash empties the memory; nothing is waiting for what has gone.
LEMMA StopsKeeps ==
    ASSUME TypeOK, DiskBooks', Stops, UNCHANGED requests, upsets' \in 0 .. MaxUpset,
           tree' \in BOOLEAN, memory' \in BOOLEAN, conv' \in [Convs -> {"none", "live", "deleted"}],
           link' \in [Convs -> {"none", "birth"} \union DeletePhase],
           record' \in [phase : {"none"} \union SpacePhase, convs : SUBSET Convs]
    PROVE  SpaceInv'
<1>1. /\ proc' = "down" /\ deleting' = {} /\ marked' = FALSE /\ turn' = {}
      /\ admission' = <<>> /\ admitted' = FALSE /\ links' = <<>> /\ linkPc' = "idle"
      /\ removals' = 0 /\ removalPc' = "idle" /\ todo' = {} /\ lock' = "free"
    BY DEF Stops
<1>2. TypeOK'
  <2>1. admission' \in Seq(Entry)' /\ links' \in Seq([kind : {"submit", "delete"}, conv : Convs])
      BY <1>1
  <2>2. requests' \in 0 .. MaxRequest
      BY DEF TypeOK
  <2>3. QED  BY <1>1, <2>1, <2>2 DEF TypeOK
<1>3. WorkBooks' /\ Quiet' /\ QueueBooks' /\ MarkerBooks'
    BY <1>1 DEF WorkBooks, Quiet, QueueBooks, SubmitsAdmitted, MarkerBooks, MarkerCoversRecord
<1>4. QED  BY <1>2, <1>3 DEF SpaceInv

\* The start of the application resumes the journals before it takes requests.
LEMMA RestartKeeps ==
    ASSUME SpaceInv, Crash \/ Restart
    PROVE  SpaceInv'
<1> USE DEF SpaceInv
<1>1. Upset => upsets' \in 0 .. MaxUpset
    BY BoundsAssumption DEF Upset, TypeOK
<1>2. CASE Crash
  <2>1. UNCHANGED <<tree, memory, conv, link, record, requests>> /\ Owned' = Owned
      BY <1>2 DEF Crash, diskVars, Owned
  <2>2. DiskBooks'
      BY <2>1 DEF DiskBooks, NoOrphans
  <2>3. QED  BY <1>1, <1>2, <2>1, <2>2, StopsKeeps DEF Crash, TypeOK
<1>3. ASSUME Restart
      PROVE  /\ proc \in {"down", "links", "removal"}
             /\ admission = <<>> /\ ~admitted /\ links = <<>> /\ linkPc = "idle"
             /\ removals = 0 /\ removalPc = "idle" /\ lock = "free"
    BY <1>3 DEF Restart, Start, ReadyLinks, ReadyRemoval, Quiet, TypeOK
<1>4. ASSUME Restart, proc' \in {"live", "links", "removal"},
             UNCHANGED <<links, linkPc, removals, removalPc, queueVars, turn, requests>>,
             DiskBooks', deleting' \subseteq Convs, upsets' \in 0 .. MaxUpset, marked' \in BOOLEAN,
             todo' \subseteq Convs,
             tree' \in BOOLEAN, memory' \in BOOLEAN, conv' \in [Convs -> {"none", "live", "deleted"}],
             link' \in [Convs -> {"none", "birth"} \union DeletePhase],
             record' \in [phase : {"none"} \union SpacePhase, convs : SUBSET Convs],
             proc' = "live" => record' = NoRecord,
             proc' = "removal" => (record'.phase \in Early => Owned' \subseteq todo')
      PROVE  SpaceInv'
  <2>1. /\ admission' = <<>> /\ admitted' = FALSE /\ links' = <<>> /\ linkPc' = "idle"
        /\ removals' = 0 /\ removalPc' = "idle" /\ lock' = "free" /\ turn' = turn
      BY <1>3, <1>4 DEF queueVars, TypeOK
  <2>2. TypeOK'
    <3>1. admission' \in Seq(Entry)' /\ links' \in Seq([kind : {"submit", "delete"}, conv : Convs])
        BY <2>1
    <3>2. requests' \in 0 .. MaxRequest /\ turn' \subseteq Convs
        BY <1>4, <2>1 DEF TypeOK
    <3>3. QED  BY <1>4, <2>1, <3>1, <3>2 DEF TypeOK
  <2>3. WorkBooks' /\ Quiet' /\ QueueBooks' /\ MarkerBooks'
      BY <1>4, <2>1 DEF WorkBooks, Quiet, QueueBooks, SubmitsAdmitted, MarkerBooks,
         MarkerCoversRecord
  <2>4. QED  BY <1>4, <2>2, <2>3
<1>5. CASE Start
  <2>1. UNCHANGED <<tree, memory, conv, link, record, marked, todo, upsets>> /\ Owned' = Owned
      BY <1>5 DEF Start, diskVars, removalVars, boundVars, Owned
  <2>2. DiskBooks'
      BY <2>1 DEF DiskBooks, NoOrphans
  <2>3. QED  BY <1>4, <1>5, <2>1, <2>2 DEF Restart, Start, TypeOK, removalVars, boundVars
<1>6. CASE ReadyLinks
  <2>1. UNCHANGED <<tree, memory, record, requests>>
      BY <1>6 DEF ReadyLinks
  <2>2. ASSUME NEW c \in Pending, Resume(c) \/ ResumeFails(c)
        PROVE  /\ conv' \in [Convs -> {"none", "live", "deleted"}] /\ Owned' \subseteq Owned
               /\ link' \in [Convs -> {"none", "birth"} \union DeletePhase]
    <3>1. /\ conv' \in [Convs -> {"none", "live", "deleted"}]
          /\ link' \in [Convs -> {"none", "birth"} \union DeletePhase]
          /\ \A d \in Convs : conv'[d] = "live" => conv[d] = "live"
        BY <2>2 DEF Resume, ResumeFails, Deletes, DeletePhase, Pending, TypeOK
    <3>2. QED  BY <3>1 DEF Owned
  <2>3. Owned' \subseteq Owned => DiskBooks'
      BY <2>1 DEF DiskBooks, NoOrphans
  <2>4. CASE /\ \E c \in Pending : Resume(c)
             /\ UNCHANGED <<proc, deleting, marked, todo, upsets>>
             /\ UNCHANGED <<links, linkPc, removals, removalPc, queueVars, turn>>
      BY <1>4, <1>6, <2>1, <2>2, <2>3, <2>4 DEF Restart, ReadyLinks, TypeOK
  <2>5. CASE Upset /\ Stops /\ \E c \in Pending : ResumeFails(c)
      BY <1>1, <2>1, <2>2, <2>3, <2>5, StopsKeeps DEF TypeOK
  <2>6. CASE /\ Pending = {} /\ proc' = "removal" /\ deleting' = {}
             /\ marked' = (record # NoRecord) /\ todo' = record.convs
             /\ UNCHANGED <<conv, link, upsets, links, linkPc, removals, removalPc, queueVars, turn>>
    <3>1. Owned' = Owned
        BY <2>6 DEF Owned
    <3>2. record'.phase \in Early => Owned' \subseteq todo'
        BY <2>1, <2>6, <3>1 DEF DiskBooks
    <3>3. QED  BY <1>4, <1>6, <2>1, <2>3, <2>6, <3>1, <3>2 DEF Restart, TypeOK
  <2>7. QED  BY <1>6, <2>4, <2>5, <2>6 DEF ReadyLinks
<1>7. CASE ReadyRemoval
  <2>1. UNCHANGED <<link, requests>> /\ proc = "removal"
      BY <1>7 DEF ReadyRemoval
  <2>2. CASE /\ record # NoRecord /\ Resumes
             /\ UNCHANGED <<proc, linkVars, removals, removalPc, marked, queueVars, turn, upsets>>
    <3>1. /\ DiskBooks' /\ (record'.phase \in Early => Owned' \subseteq todo')
          /\ tree' \in BOOLEAN /\ memory' \in BOOLEAN /\ todo' \subseteq Convs
          /\ conv' \in [Convs -> {"none", "live", "deleted"}]
          /\ record' \in [phase : {"none"} \union SpacePhase, convs : SUBSET Convs]
        BY <2>1, <2>2, ResumesKeeps DEF WorkBooks
    <3>2. QED  BY <1>4, <1>7, <2>1, <2>2, <3>1 DEF Restart, linkVars, TypeOK
  <2>3. CASE record # NoRecord /\ ResumesNot /\ Upset /\ Stops
      BY <1>1, <2>1, <2>3, ResumesNotKeeps, StopsKeeps DEF TypeOK
  <2>4. CASE /\ record = NoRecord /\ proc' = "live" /\ marked' = FALSE /\ todo' = {}
             /\ UNCHANGED <<tree, memory, conv, record, linkVars, removals, removalPc, queueVars,
                            turn, upsets>>
    <3>1. Owned' = Owned
        BY <2>4 DEF Owned
    <3>2. DiskBooks'
        BY <2>4, <3>1 DEF DiskBooks, NoOrphans
    <3>3. QED  BY <1>4, <1>7, <2>1, <2>4, <3>2 DEF Restart, linkVars, TypeOK
  <2>5. QED  BY <1>7, <2>2, <2>3, <2>4 DEF ReadyRemoval
<1>8. QED  BY <1>2, <1>5, <1>6, <1>7 DEF Restart

-----------------------------------------------------------------------------

\* The agreement of journals, queues and markers is an invariant, over any number of
\* requests, failing calls and crashes (space-conversation-coordinator.ts).
THEOREM SpaceInvariant == Spec => []SpaceInv
<1>1. SpaceInv /\ [Next]_vars => SpaceInv'
  <2> SUFFICES ASSUME SpaceInv, [Next]_vars PROVE SpaceInv'
      OBVIOUS
  <2>1. CASE Next
      BY <2>1, RequestKeeps, AdmissionKeeps, LinkInv, RemovalInv, RestartKeeps DEF Next
  <2>2. CASE UNCHANGED vars
    <3>1. /\ UNCHANGED <<tree, memory, conv, link, record, proc, links, linkPc, deleting>>
          /\ UNCHANGED <<removals, removalPc, todo, marked, admission, admitted, lock, turn,
                         requests, upsets>>
        BY <2>2 DEF vars, diskVars, linkVars, removalVars, queueVars, boundVars
    <3>2. Owned' = Owned
        BY <3>1 DEF Owned
    <3>3. TypeOK'
        BY <3>1 DEF SpaceInv, TypeOK
    <3>4. QED  BY <3>1, <3>2, <3>3 DEF SpaceInv, DiskBooks, NoOrphans, WorkBooks, Quiet, QueueBooks,
                                       SubmitsAdmitted, MarkerBooks, MarkerCoversRecord
  <2>3. QED  BY <2>1, <2>2
<1>2. QED  BY <1>1, InitSpace, PTL DEF Spec

\* The coordinators keep their types, and the lock has the holder who works under it
\* (runExclusive).
THEOREM SpaceTypes == Spec => []TypeOK
BY SpaceInvariant, PTL DEF SpaceInv

\* A Space leaves no conversation and no memory behind (the phases of deleteSpace).
THEOREM SpaceLeavesNoOrphans == Spec => []NoOrphans
BY SpaceInvariant, PTL DEF SpaceInv, DiskBooks

\* While the server answers, an open deletion is marked (ready, deletingSpaceIds).
THEOREM MarkerIsSet == Spec => []MarkerCoversRecord
BY SpaceInvariant, PTL DEF SpaceInv, MarkerBooks

\* Nothing admitted runs beside an open deletion (admit).
THEOREM AdmissionsAreOpen == Spec => []AdmittedIsOpen
BY SpaceInvariant, PTL DEF SpaceInv, QueueBooks, AdmittedIsOpen

\* The two coordinators, their journals and their queues implement the lifetime of a Space:
\* nothing is created in a Space that is being closed, and it goes last and for good.
THEOREM SpaceImplementsLifetime == Spec => ImplementsLifetime
<1> DEFINE space == IF ~tree THEN "gone" ELSE IF record # NoRecord THEN "closing" ELSE "live"
<1>1. Init => Lifetime!Init
    BY DEF Init, Lifetime!Init
<1>2. SpaceInv /\ [Next]_vars => [Lifetime!Next]_(Lifetime!vars)
  <2> SUFFICES ASSUME SpaceInv, [Next]_vars PROVE [Lifetime!Next]_(Lifetime!vars)
      OBVIOUS
  <2> USE DEF SpaceInv
  <2>1. CASE UNCHANGED <<tree, record, conv, memory>>
      BY <2>1 DEF Lifetime!vars
  <2>2. ASSUME UNCHANGED <<tree, record, memory>>, NEW c \in Convs,
               \/ conv' = conv
               \/ conv[c] = "live" /\ conv' = [conv EXCEPT ![c] = "deleted"]
        PROVE  [Lifetime!Next]_(Lifetime!vars)
      BY <2>2 DEF Lifetime!Next, Lifetime!Delete, Lifetime!vars
  <2>3. ASSUME NEW c \in Convs, conv' = [conv EXCEPT ![c] = IF @ = "live" THEN "deleted" ELSE @]
        PROVE  conv' = conv \/ (conv[c] = "live" /\ conv' = [conv EXCEPT ![c] = "deleted"])
      BY <2>3 DEF TypeOK
  <2>4. ASSUME NEW c \in Convs, Resume(c) \/ ResumeFails(c)
        PROVE  conv' = conv \/ (conv[c] = "live" /\ conv' = [conv EXCEPT ![c] = "deleted"])
      BY <2>3, <2>4 DEF Resume, ResumeFails, Deletes
  <2>5. CASE Link
    <3>1. UNCHANGED <<tree, record, memory>> /\ links # <<>>
        BY <2>5, LinkEffect
    <3>2. Job.conv \in Convs
      <4>1. Head(links) \in JobRecord
          BY <3>1, FifoHead DEF TypeOK, JobRecord
      <4>2. QED  BY <4>1 DEF Job, JobRecord
    <3>3. CASE LinkResumes
      <4>1. Resume(Job.conv) \/ ResumeFails(Job.conv) \/ conv' = conv
          BY <3>3 DEF LinkResumes
      <4>2. QED  BY <2>2, <2>4, <3>1, <3>2, <4>1
    <3>4. CASE LinkCreates
      <4>1. record = NoRecord /\ tree
        <5>1. IsSubmit(Head(links)) /\ 1 \in 1 .. Len(links) /\ Head(links) = links[1]
            BY <3>1, <3>4, FifoHead DEF LinkCreates, QueueBooks, TypeOK
        <5>2. QED  BY <5>1 DEF QueueBooks, SubmitsAdmitted
      <4>2. \/ conv' = conv
            \/ conv[Job.conv] = "none" /\ conv' = [conv EXCEPT ![Job.conv] = "live"]
          BY <3>2, <3>4 DEF LinkCreates, Born, TypeOK
      <4>3. QED  BY <3>1, <3>2, <4>1, <4>2 DEF Lifetime!Next, Lifetime!Create, Lifetime!vars
    <3>5. CASE conv' = conv
        BY <2>1, <3>1, <3>5
    <3>6. QED  BY <2>5, <3>3, <3>4, <3>5 DEF Link, LinkLocks, LinkLooks, LinkOwns, LinkSettles
  <2>6. CASE Admission
    <3>1. CASE UNCHANGED memory
        BY <2>1, <2>6, <3>1 DEF Admission, AdmissionTurn, AdmittedRuns, diskVars
    <3>2. CASE memory' = TRUE /\ UNCHANGED <<tree, conv, record>> /\ tree /\ record = NoRecord
        BY <3>2 DEF Lifetime!Next, Lifetime!Remember
    <3>3. QED  BY <2>6, <3>1, <3>2 DEF Admission, AdmissionTurn, AdmittedRuns, QueueBooks, diskVars
  <2>7. ASSUME record # NoRecord, Resumes \/ ResumesNot
        PROVE  [Lifetime!Next]_(Lifetime!vars)
    <3>1. CASE UNCHANGED <<tree, record, memory>>
      <4>1. conv' = conv \/ \E c \in todo : conv' = [conv EXCEPT ![c] = IF @ = "live" THEN "deleted" ELSE @]
          BY <2>7 DEF Resumes, ResumesNot, CleansUp
      <4>2. todo \subseteq Convs /\ Convs # {}
          BY BoundsAssumption DEF TypeOK
      <4>3. QED  BY <2>1, <2>2, <2>3, <3>1, <4>1, <4>2
    <3>2. CASE UNCHANGED <<tree, memory, conv>> /\ record' # NoRecord
        BY <2>7, <3>2 DEF Lifetime!vars
    <3>3. CASE record' = NoRecord /\ UNCHANGED <<tree, memory, conv>> /\ ~tree
        BY <2>7, <3>3 DEF Lifetime!vars
    <3>4. CASE memory' = FALSE /\ UNCHANGED <<tree, conv>> /\ record' # NoRecord
      <4>1. CASE tree
          BY <2>7, <3>4, <4>1 DEF Lifetime!Next, Lifetime!Forget
      <4>2. CASE ~tree
        <5>1. memory' = memory /\ tree' = tree /\ conv' = conv
            BY <3>4, <4>2 DEF DiskBooks, NoOrphans, TypeOK
        <5>2. QED  BY <4>2, <5>1 DEF Lifetime!vars
      <4>3. QED  BY <4>1, <4>2
    <3>5. CASE /\ tree' = FALSE /\ UNCHANGED <<memory, conv>> /\ record' # NoRecord
               /\ ~memory /\ Owned = {}
      <4>1. \A c \in Convs : conv[c] # "live"
          BY <3>5 DEF Owned
      <4>2. QED  BY <2>7, <3>5, <4>1 DEF Lifetime!vars, Lifetime!Next, Lifetime!End
    <3>6. Reaches("processes_stopped") \/ Reaches("conversations_deleted") \/ Reaches("cleanup_pending")
            \/ Reaches("knowledge_cleaned") \/ Reaches("space_deleted") => record' # NoRecord
        BY DEF Reaches, NoRecord, TypeOK
    <3>7. QED
        BY <2>7, <3>1, <3>2, <3>3, <3>4, <3>5, <3>6 DEF Resumes, ResumesNot, CleansUp, Works, DiskBooks,
           Cleared, Early
  <2>8. CASE Removal
    <3>1. CASE RemovalLooks
      <4>1. CASE UNCHANGED record
          BY <2>1, <3>1, <4>1 DEF RemovalLooks
      <4>2. CASE record = NoRecord /\ tree /\ record' # NoRecord /\ UNCHANGED <<tree, memory, conv>>
          BY <4>2 DEF Lifetime!Next, Lifetime!Close
      <4>3. [phase |-> "prepared", convs |-> Owned] # NoRecord
          BY DEF NoRecord
      <4>4. QED  BY <3>1, <4>1, <4>2, <4>3 DEF RemovalLooks
    <3>2. CASE RemovalWorks
        BY <2>1, <2>7, <3>2 DEF RemovalWorks
    <3>3. CASE RemovalEnters \/ RemovalLocks
        BY <2>1, <3>3 DEF RemovalEnters, RemovalLocks, diskVars
    <3>4. QED  BY <2>8, <3>1, <3>2, <3>3 DEF Removal
  <2>9. CASE Restart
    <3>1. CASE Start
        BY <2>1, <3>1 DEF Start, diskVars
    <3>2. CASE ReadyLinks
      <4>1. UNCHANGED <<tree, record, memory>> /\ (conv' = conv \/ \E c \in Convs : Resume(c) \/ ResumeFails(c))
          BY <3>2 DEF ReadyLinks, Pending
      <4>2. QED  BY <2>1, <2>2, <2>4, <4>1
    <3>3. CASE ReadyRemoval
        BY <2>1, <2>7, <3>3 DEF ReadyRemoval
    <3>4. QED  BY <2>9, <3>1, <3>2, <3>3 DEF Restart
  <2>10. CASE Request \/ Crash \/ (\E c \in Convs : TurnQueues(c)) \/ UNCHANGED vars
      BY <2>1, <2>10 DEF Request, AskSubmit, AskRemember, AskTurn, AskDelete, AskRemoval, Crash,
         TurnQueues, diskVars, vars
  <2>11. QED  BY <2>5, <2>6, <2>8, <2>9, <2>10 DEF Next
<1>3. QED
    BY <1>1, <1>2, SpaceInvariant, PTL DEF Spec, ImplementsLifetime, Lifetime!Spec

=============================================================================
