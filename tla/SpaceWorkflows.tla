--------------------------- MODULE SpaceWorkflows ---------------------------
(***************************************************************************)
(* The two coordinators of a Space and its conversations                   *)
(* (app/panel-server/space-conversation-coordinator.ts): the link          *)
(* coordinator creates and deletes single conversations, the deletion      *)
(* coordinator deletes the Space with all of them.  Each has a journal on  *)
(* disk, a FIFO of its own (`serialize`) and a set of markers in memory.   *)
(* Whatever is created in the Space goes through its admission FIFO; both  *)
(* coordinators run their bodies under one lock (`runExclusive`).          *)
(*                                                                         *)
(* The lock order: deletion FIFO, admission FIFO, lock for the Space;      *)
(* admission FIFO, link FIFO, lock for a new conversation.                 *)
(***************************************************************************)
EXTENDS Naturals, Sequences

CONSTANTS
    Convs,        \* the conversations of the Space, by their submission
    MaxRequest,   \* requests of the user
    MaxUpset      \* failing calls and crashes, all together

ASSUME BoundsAssumption == MaxRequest \in Nat /\ MaxUpset \in Nat /\ Convs # {}

VARIABLES
    \* on disk
    tree,       \* the Space exists
    memory,     \* it has notes, memory or knowledge of its own
    conv,       \* the conversation documents: none, live or deleted
    link,       \* the link journal, by conversation: a birth, or the phase of a deletion
    record,     \* the deletion journal of the Space: phase and conversations
    \* in memory
    proc,       \* live, down, or the coordinator whose ready() is running
    deleting,   \* deletingConversationIds
    marked,     \* deletingSpaceIds has the Space
    turn,       \* turns whose first look at the marker of their conversation is over
    admission,  \* the admission FIFO; its head is running once `admitted`
    admitted,
    links,      \* the link FIFO
    linkPc,     \* how far its head is
    removals,   \* deletions of the Space that wait in the deletion FIFO
    removalPc,  \* how far the running one is
    todo,       \* conversations it has still to delete
    lock,       \* who holds the lock
    \* bounds
    requests,
    upsets

diskVars    == <<tree, memory, conv, link, record>>
linkVars    == <<links, linkPc, deleting>>
removalVars == <<removals, removalPc, todo, marked>>
queueVars   == <<admission, admitted, lock>>
boundVars   == <<requests, upsets>>
vars == <<diskVars, proc, linkVars, removalVars, queueVars, turn, boundVars>>

DeletePhase == {"prepared", "processes_stopped", "conversation_deleted", "reference_unlinked"}
SpacePhase  == {"prepared", "processes_stopped", "conversations_deleted", "knowledge_cleaned",
                "space_deleted", "cleanup_pending"}

NoRecord == [phase |-> "none", convs |-> {}]

\* Nothing in memory.
Idle ==
    /\ deleting = {} /\ marked = FALSE /\ turn = {}
    /\ admission = <<>> /\ admitted = FALSE
    /\ links = <<>> /\ linkPc = "idle"
    /\ removals = 0 /\ removalPc = "idle" /\ todo = {} /\ lock = "free"

Init ==
    /\ tree = TRUE /\ memory = FALSE /\ conv = [c \in Convs |-> "none"]
    /\ link = [c \in Convs |-> "none"] /\ record = NoRecord
    /\ proc = "live" /\ Idle
    /\ requests = 0 /\ upsets = 0

Upset == upsets < MaxUpset /\ upsets' = upsets + 1
Asked == proc = "live" /\ requests < MaxRequest /\ requests' = requests + 1

-----------------------------------------------------------------------------
(* Requests. *)

\* admit up to its place in the FIFO: a marked Space is refused at once.
Admit(kind, c) ==
    /\ ~marked
    /\ admission' = Append(admission, [kind |-> kind, conv |-> c])

\* A first message: submit.
AskSubmit(c) ==
    /\ Asked /\ Admit("submit", c)
    /\ UNCHANGED <<diskVars, proc, linkVars, removalVars, admitted, lock, turn, upsets>>

\* Something else that is written for the Space, a memory or a note.
AskRemember(c) ==
    /\ Asked /\ Admit("remember", c)
    /\ UNCHANGED <<diskVars, proc, linkVars, removalVars, admitted, lock, turn, upsets>>

\* A message to a conversation that exists: assertConversationAvailable, and the reads
\* before the Space admits it.
AskTurn(c) ==
    /\ Asked /\ conv[c] = "live" /\ c \notin deleting /\ ~marked
    /\ turn' = turn \union {c}
    /\ UNCHANGED <<diskVars, proc, linkVars, removalVars, queueVars, upsets>>

TurnQueues(c) ==
    /\ proc = "live" /\ c \in turn /\ turn' = turn \ {c}
    /\ IF marked THEN UNCHANGED admission ELSE Admit("turn", c)
    /\ UNCHANGED <<diskVars, proc, linkVars, removalVars, admitted, lock, boundVars>>

\* deleteConversation: the marker at once, the rest in the FIFO.
AskDelete(c) ==
    /\ Asked /\ deleting' = deleting \union {c}
    /\ links' = Append(links, [kind |-> "delete", conv |-> c])
    /\ UNCHANGED <<diskVars, proc, linkPc, removalVars, queueVars, turn, upsets>>

\* deleteSpace: the same.
AskRemoval ==
    /\ Asked /\ marked' = TRUE /\ removals' = removals + 1
    /\ UNCHANGED <<diskVars, proc, linkVars, removalPc, todo, queueVars, turn, upsets>>

-----------------------------------------------------------------------------
(* The admission FIFO. *)

Leaves == admission' = Tail(admission) /\ admitted' = FALSE

\* The second look, when the turn in the FIFO has come: the marker and the journal.
Open == ~marked /\ record = NoRecord

AdmissionTurn ==
    /\ proc = "live" /\ admission # <<>> /\ ~admitted
    /\ Head(admission).kind # "removal"
    /\ IF ~Open \/ ~tree
       THEN /\ Leaves /\ marked' = (marked \/ record # NoRecord)
            /\ UNCHANGED <<links, upsets>>
       ELSE \/ /\ admitted' = TRUE /\ UNCHANGED <<admission, marked, upsets>>
               /\ links' = IF Head(admission).kind = "submit"
                           THEN Append(links, Head(admission)) ELSE links
            \/ Upset /\ Leaves /\ UNCHANGED <<links, marked>>
    /\ UNCHANGED <<diskVars, proc, linkPc, deleting, removals, removalPc, todo, lock,
                   turn, requests>>

\* submitTurn of an existing conversation, or the write, inside the admission.
AdmittedRuns ==
    /\ proc = "live" /\ admission # <<>> /\ admitted /\ Leaves
    /\ \/ Head(admission).kind = "turn" /\ UNCHANGED memory
       \/ Head(admission).kind = "remember" /\ memory' = TRUE
    /\ UNCHANGED <<tree, conv, link, record, proc, linkVars, removalVars, lock, turn, boundVars>>

-----------------------------------------------------------------------------
(* The link coordinator: the head of its FIFO, under the lock. *)

Job == Head(links)

LinkKeeps == UNCHANGED <<tree, memory, record, proc, removalVars, turn, requests>>

\* A faulty LinkLeaves: the lock is left behind.
LinkLeavesLocked ==
    /\ linkPc' = "idle" /\ links' = Tail(links) /\ UNCHANGED lock
    /\ IF Job.kind = "submit" THEN Leaves ELSE UNCHANGED <<admission, admitted>>

\* The job is over: the lock, the FIFO and the admission it was in are left.
LinkLeaves ==
    /\ linkPc' = "idle" /\ links' = Tail(links) /\ lock' = "free"
    /\ IF Job.kind = "submit" THEN Leaves ELSE UNCHANGED <<admission, admitted>>

LinkGoes(pc) == linkPc' = pc /\ UNCHANGED <<links, queueVars>>

LinkLocks ==
    /\ proc = "live" /\ links # <<>> /\ linkPc = "idle" /\ lock = "free"
    /\ lock' = "link" /\ linkPc' = "look"
    /\ UNCHANGED <<conv, link, links, deleting, admission, admitted, upsets>> /\ LinkKeeps

\* The catch of deleteConversation: the marker stays for a deletion in the journal, or if
\* that cannot be read either.
Unmarked(c) ==
    \/ deleting' = IF link[c] \in DeletePhase THEN deleting ELSE deleting \ {c}
    \/ UNCHANGED deleting

LinkFails(c) ==
    /\ Upset /\ LinkLeaves
    /\ IF Job.kind = "delete" THEN Unmarked(c) ELSE UNCHANGED deleting

\* The marker of a submit is looked at; a record that is pending is resumed first.
LinkLooks ==
    /\ proc = "live" /\ linkPc = "look"
    /\ LET c == Job.conv
       IN  \/ /\ Job.kind = "submit" /\ c \in deleting
              /\ LinkLeaves /\ UNCHANGED <<deleting, upsets>>
           \/ /\ ~(Job.kind = "submit" /\ c \in deleting)
              /\ LinkGoes(IF link[c] = "none" THEN "own"
                          ELSE IF Job.kind = "delete" /\ link[c] \in DeletePhase
                          THEN "finish" ELSE "resume")
              /\ UNCHANGED <<deleting, upsets>>
           \/ LinkFails(c)
    /\ UNCHANGED <<conv, link>> /\ LinkKeeps

Deletes(c) ==
    /\ link' = [link EXCEPT ![c] = "conversation_deleted"]
    /\ conv' = [conv EXCEPT ![c] = IF @ = "live" THEN "deleted" ELSE @]

\* One phase of resumeDelete, or resumeBirth of a record without a Space reference.
Resume(c) ==
    \/ link[c] = "prepared" /\ link' = [link EXCEPT ![c] = "processes_stopped"] /\ UNCHANGED conv
    \/ link[c] = "processes_stopped" /\ Deletes(c)
    \/ /\ link[c] = "conversation_deleted"
       /\ link' = [link EXCEPT ![c] = "reference_unlinked"] /\ UNCHANGED conv
    \/ link[c] \in {"birth", "reference_unlinked"}
       /\ link' = [link EXCEPT ![c] = "none"] /\ UNCHANGED conv

\* A phase that fails: the conversation may have been deleted, its checkpoint not saved.
ResumeFails(c) ==
    /\ UNCHANGED link
    /\ \/ UNCHANGED conv
       \/ link[c] = "processes_stopped" /\ conv[c] = "live"
          /\ conv' = [conv EXCEPT ![c] = "deleted"]

LinkResumes ==
    /\ proc = "live" /\ linkPc \in {"resume", "finish"}
    /\ LET c == Job.conv
       IN  \/ /\ link[c] # "none" /\ Resume(c)
              /\ UNCHANGED <<linkPc, links, deleting, queueVars, upsets>>
           \/ link[c] # "none" /\ ResumeFails(c) /\ LinkFails(c)
           \/ /\ link[c] = "none" /\ UNCHANGED <<conv, link, upsets>>
              /\ IF linkPc = "finish" THEN LinkLeaves /\ deleting' = deleting \ {c}
                 ELSE LinkGoes("own") /\ UNCHANGED deleting
    /\ LinkKeeps

\* The birth record, or the deletion record, of the job itself.  A conversation that
\* exists already gets one more turn, one that is deleted stays so.
LinkOwns ==
    /\ proc = "live" /\ linkPc = "own"
    /\ LET c == Job.conv
       IN  \/ /\ Job.kind = "delete" /\ LinkGoes("finish")
              /\ link' = [link EXCEPT ![c] = "prepared"] /\ UNCHANGED <<deleting, upsets>>
           \/ /\ Job.kind = "submit" /\ conv[c] # "live" /\ LinkGoes("create")
              /\ link' = [link EXCEPT ![c] = "birth"] /\ UNCHANGED <<deleting, upsets>>
           \/ /\ Job.kind = "submit" /\ conv[c] = "live" /\ LinkLeaves
              /\ UNCHANGED <<link, deleting, upsets>>
           \/ LinkFails(c) /\ UNCHANGED link
    /\ UNCHANGED conv /\ LinkKeeps

\* A faulty Born: the tombstone of the conversation is not looked at.
BornAgain(c) == [conv EXCEPT ![c] = "live"]

\* A conversation that was deleted is not created again.
Born(c) == [conv EXCEPT ![c] = IF @ = "none" THEN "live" ELSE @]

\* submitTurn of a new conversation; it may throw after the conversation was stored.
LinkCreates ==
    /\ proc = "live" /\ linkPc = "create"
    /\ \/ conv' = Born(Job.conv) /\ UNCHANGED upsets
       \/ conv' \in {conv, Born(Job.conv)} /\ Upset
    /\ LinkGoes("settle") /\ UNCHANGED <<link, deleting>> /\ LinkKeeps

\* The birth record is removed, by the submit or by the resume in its catch.
LinkSettles ==
    /\ proc = "live" /\ linkPc = "settle" /\ LinkLeaves
    /\ \/ link' = [link EXCEPT ![Job.conv] = "none"] /\ UNCHANGED upsets
       \/ Upset /\ UNCHANGED link
    /\ UNCHANGED <<conv, deleting>> /\ LinkKeeps

-----------------------------------------------------------------------------
(* The deletion coordinator. *)

RemovalKeeps == UNCHANGED <<proc, linkVars, turn, requests>>

\* A faulty RemovalEnters: the lock is taken before the admission FIFO.
RemovalEntersLocked ==
    /\ proc = "live" /\ removals > 0 /\ removalPc = "idle" /\ lock = "free"
    /\ removals' = removals - 1 /\ removalPc' = "queued" /\ lock' = "removal"
    /\ admission' = Append(admission, [kind |-> "removal", conv |-> CHOOSE c \in Convs : TRUE])
    /\ UNCHANGED <<diskVars, todo, marked, admitted, upsets>> /\ RemovalKeeps

\* The head of the deletion FIFO queues for admission.
RemovalEnters ==
    /\ proc = "live" /\ removals > 0 /\ removalPc = "idle"
    /\ removals' = removals - 1 /\ removalPc' = "queued"
    /\ admission' = Append(admission, [kind |-> "removal", conv |-> CHOOSE c \in Convs : TRUE])
    /\ UNCHANGED <<diskVars, todo, marked, admitted, lock, upsets>> /\ RemovalKeeps

\* A faulty RemovalLocks: the admissions under way are not waited for.
RemovalLocksAtOnce ==
    /\ proc = "live" /\ removalPc = "queued" /\ lock \in {"free", "removal"}
    /\ lock' = "removal" /\ removalPc' = "look"
    /\ UNCHANGED <<diskVars, removals, todo, marked, admission, admitted, upsets>>
    /\ RemovalKeeps

\* Its turn among the admissions has come, and the lock is free.
RemovalLocks ==
    /\ proc = "live" /\ removalPc = "queued" /\ lock \in {"free", "removal"}
    /\ admission # <<>> /\ Head(admission).kind = "removal"
    /\ lock' = "removal" /\ admitted' = TRUE /\ removalPc' = "look"
    /\ UNCHANGED <<diskVars, removals, todo, marked, admission, upsets>> /\ RemovalKeeps

RemovalLeaves == removalPc' = "idle" /\ todo' = {} /\ lock' = "free" /\ Leaves

\* A faulty RemovalFails: the marker goes with the error.
RemovalFailsUnmarked == Upset /\ RemovalLeaves /\ marked' = FALSE

\* An error leaves the marker, so that nothing is admitted before the deletion is resumed.
RemovalFails == Upset /\ RemovalLeaves /\ UNCHANGED marked

Owned == {c \in Convs : conv[c] = "live"}

\* The journal record, with the conversations the Space has now.
RemovalLooks ==
    /\ proc = "live" /\ removalPc = "look"
    /\ \/ /\ record = NoRecord /\ ~tree /\ marked' = FALSE
          /\ RemovalLeaves /\ UNCHANGED <<record, upsets>>
       \/ /\ record = NoRecord /\ tree
          /\ record' = [phase |-> "prepared", convs |-> Owned]
          /\ removalPc' = "work" /\ todo' = Owned /\ UNCHANGED <<marked, queueVars, upsets>>
       \/ /\ record # NoRecord /\ removalPc' = "work" /\ todo' = record.convs
          /\ UNCHANGED <<record, marked, queueVars, upsets>>
       \/ RemovalFails /\ UNCHANGED record
    /\ UNCHANGED <<tree, memory, conv, link, removals>> /\ RemovalKeeps

\* resume of the deletion, one call at a time.
Works(phase) == record.phase = phase
Reaches(phase) == record' = [record EXCEPT !.phase = phase]

\* A faulty CleansUp: the phases of the owned data and of the Space are swapped.
CleansUpLast ==
    \/ Works("conversations_deleted") /\ tree' = FALSE /\ Reaches("knowledge_cleaned")
       /\ UNCHANGED memory
    \/ Works("knowledge_cleaned") /\ memory' = FALSE /\ Reaches("space_deleted")
       /\ UNCHANGED tree

CleansUp ==
    \/ Works("conversations_deleted") /\ memory' = FALSE /\ Reaches("knowledge_cleaned")
       /\ UNCHANGED tree
    \/ Works("knowledge_cleaned") /\ tree' = FALSE /\ Reaches("space_deleted")
       /\ UNCHANGED memory

Resumes ==
    \/ /\ Works("prepared") /\ Reaches("processes_stopped")
       /\ UNCHANGED <<tree, memory, conv, todo>>
    \/ /\ Works("processes_stopped") /\ todo # {}
       /\ \E c \in todo :
             /\ conv' = [conv EXCEPT ![c] = IF @ = "live" THEN "deleted" ELSE @]
             /\ todo' = todo \ {c}
       /\ UNCHANGED <<tree, memory, record>>
    \/ /\ Works("processes_stopped") /\ todo = {} /\ Reaches("conversations_deleted")
       /\ UNCHANGED <<tree, memory, conv, todo>>
    \/ CleansUp /\ UNCHANGED <<conv, todo>>
    \/ /\ record.phase \in {"space_deleted", "cleanup_pending"} /\ record' = NoRecord
       /\ UNCHANGED <<tree, memory, conv, todo>>

\* A call that fails, before or after its effect; the checkpoint stays what it was, except
\* that a record which could not be removed is marked as a remainder.
ResumesNot ==
    \/ UNCHANGED <<tree, memory, conv, record>>
    \/ /\ Works("processes_stopped") /\ UNCHANGED <<tree, memory, record>>
       /\ \E c \in todo : conv' = [conv EXCEPT ![c] = IF @ = "live" THEN "deleted" ELSE @]
    \/ Works("conversations_deleted") /\ memory' = FALSE /\ UNCHANGED <<tree, conv, record>>
    \/ Works("knowledge_cleaned") /\ tree' = FALSE /\ UNCHANGED <<memory, conv, record>>
    \/ Works("space_deleted") /\ Reaches("cleanup_pending") /\ UNCHANGED <<tree, memory, conv>>

RemovalWorks ==
    /\ proc = "live" /\ removalPc = "work"
    /\ \/ record # NoRecord /\ Resumes /\ UNCHANGED <<removalPc, marked, queueVars, upsets>>
       \/ record # NoRecord /\ ResumesNot /\ RemovalFails
       \/ /\ record = NoRecord /\ marked' = FALSE /\ RemovalLeaves
          /\ UNCHANGED <<tree, memory, conv, record, upsets>>
    /\ UNCHANGED <<link, removals>> /\ RemovalKeeps

-----------------------------------------------------------------------------
(* A crash, and the two ready() of the next start. *)

Stops ==
    /\ proc' = "down" /\ deleting' = {} /\ marked' = FALSE /\ turn' = {}
    /\ admission' = <<>> /\ admitted' = FALSE /\ links' = <<>> /\ linkPc' = "idle"
    /\ removals' = 0 /\ removalPc' = "idle" /\ todo' = {} /\ lock' = "free"

Crash ==
    /\ proc # "down" /\ Upset /\ Stops
    /\ UNCHANGED <<diskVars, requests>>

\* A faulty Start: requests are taken before the journals were read.
StartUnready ==
    /\ proc = "down" /\ proc' = "live"
    /\ deleting' = {c \in Convs : link[c] \in DeletePhase}
    /\ UNCHANGED <<diskVars, links, linkPc, removalVars, queueVars, turn, boundVars>>

\* startLocalPanelServer: the coordinators are made ready before the server listens.
Start ==
    /\ proc = "down" /\ proc' = "links"
    /\ deleting' = {c \in Convs : link[c] \in DeletePhase}
    /\ UNCHANGED <<diskVars, links, linkPc, removalVars, queueVars, turn, boundVars>>

Pending == {c \in Convs : link[c] # "none"}

\* ready() of the link coordinator.  If a record cannot be resumed the start fails.
ReadyLinks ==
    /\ proc = "links"
    /\ \/ /\ \E c \in Pending : Resume(c)
          /\ UNCHANGED <<proc, deleting, marked, todo, upsets>>
          /\ UNCHANGED <<links, linkPc, removals, removalPc, queueVars, turn>>
       \/ /\ Upset /\ Stops /\ \E c \in Pending : ResumeFails(c)
       \/ /\ Pending = {} /\ proc' = "removal" /\ deleting' = {}
          /\ marked' = (record # NoRecord) /\ todo' = record.convs
          /\ UNCHANGED <<conv, link, upsets, links, linkPc, removals, removalPc, queueVars, turn>>
    /\ UNCHANGED <<tree, memory, record, requests>>

\* ready() of the deletion coordinator.
ReadyRemoval ==
    /\ proc = "removal"
    /\ \/ /\ record # NoRecord /\ Resumes
          /\ UNCHANGED <<proc, linkVars, removals, removalPc, marked, queueVars, turn, upsets>>
       \/ record # NoRecord /\ ResumesNot /\ Upset /\ Stops
       \/ /\ record = NoRecord /\ proc' = "live" /\ marked' = FALSE /\ todo' = {}
          /\ UNCHANGED <<tree, memory, conv, record, linkVars, removals, removalPc, queueVars,
                         turn, upsets>>
    /\ UNCHANGED <<link, requests>>

-----------------------------------------------------------------------------

Link == LinkLocks \/ LinkLooks \/ LinkResumes \/ LinkOwns \/ LinkCreates \/ LinkSettles

Removal == RemovalEnters \/ RemovalLocks \/ RemovalLooks \/ RemovalWorks

Admission == AdmissionTurn \/ AdmittedRuns

Restart == Start \/ ReadyLinks \/ ReadyRemoval

Request ==
    \/ \E c \in Convs : AskSubmit(c) \/ AskRemember(c) \/ AskTurn(c) \/ AskDelete(c)
    \/ AskRemoval

Next ==
    \/ Request \/ (\E c \in Convs : TurnQueues(c))
    \/ Admission \/ Link \/ Removal \/ Crash \/ Restart

Spec == Init /\ [][Next]_vars

\* Promises settle and the application is started again; nobody has to ask for anything.
FairSpec ==
    /\ Spec
    /\ WF_vars(Admission) /\ WF_vars(Link) /\ WF_vars(Removal) /\ WF_vars(Restart)
    /\ \A c \in Convs : WF_vars(TurnQueues(c))

-----------------------------------------------------------------------------

Entry == [kind : {"submit", "remember", "turn", "removal"}, conv : Convs]

\* Every variable has its type, and the lock is held by whoever is at work under it
\* (runExclusive).
TypeOK ==
    /\ tree \in BOOLEAN /\ memory \in BOOLEAN
    /\ conv \in [Convs -> {"none", "live", "deleted"}]
    /\ link \in [Convs -> {"none", "birth"} \union DeletePhase]
    /\ record \in [phase : {"none"} \union SpacePhase, convs : SUBSET Convs]
    /\ proc \in {"live", "down", "links", "removal"}
    /\ deleting \subseteq Convs /\ marked \in BOOLEAN /\ turn \subseteq Convs
    /\ admission \in Seq(Entry) /\ admitted \in BOOLEAN
    /\ links \in Seq([kind : {"submit", "delete"}, conv : Convs])
    /\ linkPc \in {"idle", "look", "resume", "finish", "own", "create", "settle"}
    /\ removals \in Nat /\ removalPc \in {"idle", "queued", "look", "work"}
    /\ todo \subseteq Convs /\ lock \in {"free", "link", "removal"}
    /\ lock = "link" <=> linkPc # "idle"
    /\ lock = "removal" <=> removalPc \in {"look", "work"}
    /\ requests \in 0 .. MaxRequest /\ upsets \in 0 .. MaxUpset

\* No conversation and nothing else that is owned by the Space is left behind it.
NoOrphans == ~tree => ~memory /\ Owned = {}

\* A Space with an open deletion is refused by everything that looks at its marker.
MarkerCoversRecord == proc = "live" /\ record # NoRecord => marked

\* The Space implements its abstract lifetime.
Lifetime == INSTANCE SpaceLifetime WITH
    space <- IF ~tree THEN "gone" ELSE IF record # NoRecord THEN "closing" ELSE "live"

ImplementsLifetime == Lifetime!Spec

\* While a turn, a first message or a write is admitted, no deletion of the Space is open:
\* neither looks at it again (admit).
AdmittedIsOpen == admitted /\ Head(admission).kind # "removal" => record = NoRecord

\* Everybody who queues is served: the three FIFOs and the lock never wait in a circle.
QueuesDrain ==
    /\ admission # <<>> ~> admission = <<>>
    /\ links # <<>> ~> links = <<>>
    /\ removals > 0 ~> removals = 0

\* A restart carries every open deletion to its end before it takes requests.
RestartFinishes ==
    proc = "down" ~> proc = "live" /\ record = NoRecord /\ \A c \in Convs : link[c] = "none"

=============================================================================
