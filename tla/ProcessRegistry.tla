-------------------------- MODULE ProcessRegistry --------------------------
(***************************************************************************)
(* The registry of the processes that runs leave in the background         *)
(* (app/runtime-guard/process-registry.ts), with what uses it: the command *)
(* tool that starts a process, waits and then registers it, and the four   *)
(* kinds of cleanup.  A cleanup takes the records once and stops them one  *)
(* after the other; between two of them other cleanups, of its own kind    *)
(* too, run and processes exit by themselves.                              *)
(*                                                                         *)
(* All processes belong to one run; those of `Referenced` also work in a   *)
(* reference of a Space that may be removed.  Every record is owned, as    *)
(* registerCommandProcess makes it.                                        *)
(***************************************************************************)
CONSTANTS
    Procs,       \* the processes
    RunLived,    \* those with the lifetime of the run
    Referenced,  \* those that work in the reference
    NoProc,      \* none of them
    Cleanups,    \* the calls of cleanupByRun, cleanupResourceRecords and stopOwned
    Shutdowns    \* and of cleanupOwnedProcesses that may be under way at once

ASSUME KindsAssumption ==
    RunLived \subseteq Procs /\ Referenced \subseteq Procs /\ NoProc \notin Procs

VARIABLES
    os,         \* the process itself: none, alive, dead, or dead and reported
    rec,        \* its record: status and permission
    accepting,  \* acceptingRegistrations
    cur,        \* of each cleanup: the process it is stopping
    todo,       \* the ones it has still to stop
    taken,      \* of each revocation: the records it took
    pending     \* of each revocation: those it could not confirm as stopped

vars == <<os, rec, accepting, cur, todo, taken, pending>>
taskVars == <<cur, todo, taken, pending>>

Tasks == Cleanups \union Shutdowns

Unresolved == {"running", "killing", "unknown"}
TerminalStatus == {"exited", "killed"}
Statuses == {"none", "refused"} \union Unresolved \union TerminalStatus
Permissions == {"none", "active", "revoked", "stop_pending", "stopped"}
Withdrawn == {"revoked", "stop_pending", "stopped"}

Init ==
    /\ os = [p \in Procs |-> "none"]
    /\ rec = [p \in Procs |-> [status |-> "none", perm |-> "none"]]
    /\ accepting = TRUE
    /\ cur = [t \in Tasks |-> NoProc] /\ todo = [t \in Tasks |-> {}]
    /\ taken = [t \in Tasks |-> {}] /\ pending = [t \in Tasks |-> {}]

-----------------------------------------------------------------------------
(* The life of a process. *)

Spawn(p) ==
    /\ os[p] = "none" /\ os' = [os EXCEPT ![p] = "alive"]
    /\ UNCHANGED <<rec, accepting, taskVars>>

Dies(p) ==
    /\ os[p] = "alive" /\ os' = [os EXCEPT ![p] = "dead"]
    /\ UNCHANGED <<rec, accepting, taskVars>>

\* A faulty Admits: a shutdown does not close the registry.
AdmitsAlways == TRUE

Admits == accepting

\* register, some time after the process started.  An early exit is registered as one if
\* it was seen.  If the registry is closed the command tool terminates the process.
Register(p) ==
    /\ os[p] # "none" /\ rec[p].status = "none"
    /\ \/ /\ Admits /\ rec' = [rec EXCEPT ![p] = [status |-> "running", perm |-> "active"]]
          /\ UNCHANGED os
       \/ /\ Admits /\ rec' = [rec EXCEPT ![p] = [status |-> "exited", perm |-> "active"]]
          /\ os[p] = "dead" /\ os' = [os EXCEPT ![p] = "reported"]
       \/ /\ ~Admits /\ rec' = [rec EXCEPT ![p].status = "refused"]
          /\ os' \in {os, [os EXCEPT ![p] = "dead"]}
    /\ UNCHANGED <<accepting, taskVars>>

Registered == {p \in Procs : rec[p].status \notin {"none", "refused"}}

\* markExited, when the log of the process is closed
MarkExited(p) ==
    /\ os[p] = "dead" /\ p \in Registered
    /\ os' = [os EXCEPT ![p] = "reported"]
    /\ rec' = [rec EXCEPT ![p] = [status |-> "exited", perm |-> "stopped"]]
    /\ UNCHANGED <<accepting, taskVars>>

-----------------------------------------------------------------------------
(* Cleanups. *)

\* cleanupResourceRecords when its loop is over: the permission says what came of each.
Settled(r, mine, open) ==
    [p \in Procs |->
        IF p \notin mine THEN r[p]
        ELSE [r[p] EXCEPT !.perm = IF p \in open THEN "stop_pending" ELSE "stopped"]]

\* The next record of a cleanup, as r has the records, or its end.  A revocation also keeps
\* the records it took, mine, and those of them it could not confirm as stopped, open.
Proceeds(t, left, r, mine, open) ==
    \/ \E p \in left :
        /\ rec' = [r EXCEPT ![p].status = "killing"]
        /\ cur' = [cur EXCEPT ![t] = p] /\ todo' = [todo EXCEPT ![t] = left \ {p}]
        /\ taken' = [taken EXCEPT ![t] = mine] /\ pending' = [pending EXCEPT ![t] = open]
    \/ /\ left = {} /\ rec' = Settled(r, mine, open)
       /\ cur' = [cur EXCEPT ![t] = NoProc] /\ todo' = [todo EXCEPT ![t] = {}]
       /\ taken' = [taken EXCEPT ![t] = {}] /\ pending' = [pending EXCEPT ![t] = {}]

\* The records are taken and the first stop begins in one step.
Begins(t, matching, r, mine) ==
    /\ cur[t] = NoProc
    /\ Proceeds(t, {p \in matching : r[p].status \in Unresolved}, r, mine, {})
    /\ UNCHANGED os

CleanupByRun(t) ==
    Begins(t, Registered \intersect RunLived, rec, {}) /\ UNCHANGED accepting

\* The records of a removed reference, with their permissions taken back
Revoked(matching) ==
    [p \in Procs |->
        IF p \notin matching THEN rec[p]
        ELSE [rec[p] EXCEPT !.perm = IF rec[p].status \in TerminalStatus
                                     THEN "stopped" ELSE "revoked"]]

\* cleanupResourceRecords: the permissions are taken back before anything is awaited.
Revoke(t) ==
    LET matching == Registered \intersect Referenced
    IN  Begins(t, matching, Revoked(matching), matching) /\ UNCHANGED accepting

StopOwned(t, p) ==
    /\ p \in Registered /\ rec[p].status \in Unresolved
    /\ Begins(t, {p}, rec, {}) /\ UNCHANGED accepting

Shutdown(t) == accepting' = FALSE /\ Begins(t, Registered, rec, {})

\* What killTree may answer: the truth, or that it could not find out.
Answers(p) ==
    {"unknown", "failed"} \union IF os[p] \in {"dead", "reported"} THEN TerminalStatus ELSE {}

\* A faulty StatusAfter: a stop that could not be confirmed is taken for one.
StatusAfterAsked(latest, answer) == IF latest.status = "exited" THEN "exited" ELSE "killed"

\* A faulty StatusAfter: the answer is the status.
StatusAfterRaw(latest, answer) == IF latest.status = "exited" THEN "exited" ELSE answer

\* processStatusFromKillTree, unless the process was reported to have exited meanwhile
StatusAfter(latest, answer) ==
    IF latest.status = "exited" THEN "exited"
    ELSE IF answer \in TerminalStatus THEN answer ELSE "unknown"

\* A faulty PermissionAfter: a process that could not be stopped keeps working.
PermissionAfterActive(perm, status) == IF status \in TerminalStatus THEN "stopped" ELSE "active"

PermissionAfter(perm, status) ==
    CASE status \in TerminalStatus -> "stopped"
      [] status \notin TerminalStatus /\ perm \in {"revoked", "stop_pending"} -> "stop_pending"
      [] OTHER -> perm

\* terminateRecord after killTree, and the loop goes on.  The record is read again: the
\* process may have been reported, or its permission taken back, meanwhile.
Answered(t, answer) ==
    LET p      == cur[t]
        latest == rec[p]
        status == StatusAfter(latest, answer)
    IN  /\ UNCHANGED <<os, accepting>>
        /\ Proceeds(t, todo[t],
                    [rec EXCEPT ![p] = [status |-> status,
                                        perm |-> PermissionAfter(latest.perm, status)]],
                    taken[t],
                    IF answer \in TerminalStatus THEN pending[t]
                    ELSE pending[t] \union ({p} \intersect taken[t]))

\* The cleanup is over with the kill it awaits, whatever it has still to do.
Aborted(t) ==
    /\ cur' = [cur EXCEPT ![t] = NoProc] /\ todo' = [todo EXCEPT ![t] = {}]
    /\ taken' = [taken EXCEPT ![t] = {}] /\ pending' = [pending EXCEPT ![t] = {}]
    /\ UNCHANGED <<os, accepting>>

\* A faulty KillReturns: the exception of a failed killTree ends the cleanup.
KillReturnsUncaught(t) ==
    /\ cur[t] # NoProc
    /\ \/ \E answer \in Answers(cur[t]) \ {"failed"} : Answered(t, answer)
       \/ Aborted(t) /\ UNCHANGED rec

\* A faulty KillReturns: the record of a process that could not be stopped is settled, and
\* the cleanup gives up those behind it.
KillReturnsGivesUp(t) ==
    /\ cur[t] # NoProc
    /\ \/ \E answer \in Answers(cur[t]) \ {"failed"} : Answered(t, answer)
       \/ /\ Aborted(t)
          /\ rec' = [rec EXCEPT ![cur[t]] =
                        [status |-> StatusAfter(@, "failed"),
                         perm |-> PermissionAfter(@.perm, StatusAfter(@, "failed"))]]

KillReturns(t) ==
    /\ cur[t] # NoProc
    /\ \E answer \in Answers(cur[t]) : Answered(t, answer)

-----------------------------------------------------------------------------

Life(p) == Spawn(p) \/ Dies(p) \/ Register(p) \/ MarkExited(p)

Next ==
    \/ \E p \in Procs : Life(p)
    \/ \E t \in Cleanups : CleanupByRun(t) \/ Revoke(t) \/ \E p \in Procs : StopOwned(t, p)
    \/ \E t \in Shutdowns : Shutdown(t)
    \/ \E t \in Tasks : KillReturns(t)

Spec == Init /\ [][Next]_vars

\* killTree has a timeout of its own, the command tool comes to its registration and the
\* exit of a child is reported.  Cleanups are not asked for by anybody.
FairSpec ==
    /\ Spec
    /\ \A t \in Tasks : WF_vars(KillReturns(t))
    /\ \A p \in Procs : WF_vars(Register(p)) /\ WF_vars(MarkExited(p))

-----------------------------------------------------------------------------

\* Every variable of the registry and of its cleanups has its type.
TypeOK ==
    /\ os \in [Procs -> {"none", "alive", "dead", "reported"}]
    /\ rec \in [Procs -> [status : Statuses, perm : Permissions]]
    /\ accepting \in BOOLEAN
    /\ cur \in [Tasks -> Procs \union {NoProc}] /\ todo \in [Tasks -> SUBSET Procs]
    /\ taken \in [Tasks -> SUBSET Procs] /\ pending \in [Tasks -> SUBSET Procs]

\* A record that says its process has ended, or was stopped, tells the truth, whichever
\* cleanups and exits met (terminateRecord, cleanupResourceRecords).
StoppedIsDead ==
    \A p \in Procs :
        rec[p].status \in TerminalStatus \/ rec[p].perm = "stopped" =>
            os[p] \in {"dead", "reported"}

\* When the shutdowns have ended, a recorded process that still runs was tried to be stopped
\* and says so (acceptingRegistrations, cleanupOwnedProcesses).
ShutdownMissesNothing ==
    ~accepting /\ (\A t \in Shutdowns : cur[t] = NoProc) =>
        \A p \in Registered : os[p] = "alive" => rec[p].status \in {"unknown", "killing"}

\* A record that is being stopped has a cleanup that will settle it: none is left in
\* "killing" by cleanups that overlap (terminateRecord).
KillingIsOwned ==
    \A p \in Procs : rec[p].status = "killing" => \E t \in Tasks : cur[t] = p

\* A permission that was taken back is never given again, though a stop that began before
\* the revocation ends after it (terminateRecord).
RevocationStands ==
    [][\A p \in Procs : rec[p].perm \in Withdrawn => rec'[p].perm \in Withdrawn]_vars

\* A permission that is being taken back is settled: the process stopped, or said to be
\* still waiting for it (cleanupResourceRecords).
RevocationSettles ==
    \A p \in Procs : rec[p].perm = "revoked" ~> rec[p].perm \in {"stopped", "stop_pending"}

\* "does not kill or relabel naturally exited processes" (process-registry.test.ts)
NaturalExitStands ==
    [][\A p \in Procs : rec[p].status = "exited" => rec'[p].status = "exited"]_vars

=============================================================================
