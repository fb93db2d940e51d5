----------------------- MODULE ProcessRegistry_proofs -----------------------
(***************************************************************************)
(* Proofs about the process registry, for any set of processes.            *)
(*                                                                         *)
(* RegistryInv is inductive.  A cleanup begins, and goes on after a kill,  *)
(* by Proceeds; NextRecord says what that does to the records and to the   *)
(* books of the cleanups, and the two lemmas about cleanups rest on it.    *)
(***************************************************************************)
EXTENDS ProcessRegistry, TLAPS

Record == [status : Statuses, perm : Permissions]
Dead(p) == os[p] \in {"dead", "reported"}

\* The books of the cleanups: who has nothing to stop has nothing left, and they are about
\* registered processes.
Books ==
    /\ \A t \in Tasks : cur[t] = NoProc => todo[t] = {}
    /\ \A t \in Tasks : todo[t] \subseteq Registered /\ cur[t] \in Registered \union {NoProc}
    /\ \A t \in Tasks : taken[t] \subseteq Registered
    /\ \A p \in Procs : rec[p].status = "none" => rec[p].perm = "none"
    /\ \A p \in Registered : os[p] # "none"

\* What the shutdowns have not stopped, one of them has still to stop, or could not stop.
ShutdownCovers ==
    ~accepting => \A p \in Registered :
                      os[p] = "alive" => \/ rec[p].status \in {"unknown", "killing"}
                                         \/ \E t \in Shutdowns : p \in todo[t]

\* What a revocation took is waiting, being stopped, unconfirmed, or dead.
RevokeCovers ==
    \A t \in Tasks : \A p \in taken[t] :
        p = cur[t] \/ p \in todo[t] \/ p \in pending[t] \/ Dead(p)

RegistryInv == TypeOK /\ StoppedIsDead /\ KillingIsOwned /\ Books /\ ShutdownCovers /\ RevokeCovers

USE DEF Record

-----------------------------------------------------------------------------

\* What the next step of a cleanup does to the records and to the books.
Advanced(t, left, r, mine, open) ==
    /\ rec' \in [Procs -> Record]
    /\ cur' \in [Tasks -> Procs \union {NoProc}] /\ todo' \in [Tasks -> SUBSET Procs]
    /\ taken' \in [Tasks -> SUBSET Procs] /\ pending' \in [Tasks -> SUBSET Procs]
    /\ \A u \in Tasks : u # t => /\ cur'[u] = cur[u] /\ todo'[u] = todo[u]
                                /\ taken'[u] = taken[u] /\ pending'[u] = pending[u]
    /\ \A p \in Procs :
          rec'[p].status = r[p].status \/ (rec'[p].status = "killing" /\ cur'[t] = p)
    /\ \A p \in Procs :
          \/ rec'[p].perm = r[p].perm
          \/ /\ left = {} /\ p \in mine
             /\ rec'[p].perm = IF p \in open THEN "stop_pending" ELSE "stopped"
    /\ left = {} => cur'[t] = NoProc /\ todo'[t] = {} /\ taken'[t] = {}
    /\ left # {} => /\ cur'[t] \in left /\ todo'[t] = left \ {cur'[t]}
                    /\ rec'[cur'[t]].status = "killing"
                    /\ taken'[t] = mine /\ pending'[t] = open

LEMMA NextRecord ==
    ASSUME TypeOK, NEW t \in Tasks, NEW left \in SUBSET Procs, NEW r \in [Procs -> Record],
           NEW mine \in SUBSET Procs, NEW open \in SUBSET Procs,
           Proceeds(t, left, r, mine, open)
    PROVE  Advanced(t, left, r, mine, open)
<1> USE KindsAssumption DEF TypeOK, Advanced
<1>1. CASE \E p \in left : /\ rec' = [r EXCEPT ![p].status = "killing"]
                           /\ cur' = [cur EXCEPT ![t] = p]
                           /\ todo' = [todo EXCEPT ![t] = left \ {p}]
                           /\ taken' = [taken EXCEPT ![t] = mine]
                           /\ pending' = [pending EXCEPT ![t] = open]
  <2>1. PICK p \in left : /\ rec' = [r EXCEPT ![p].status = "killing"]
                          /\ cur' = [cur EXCEPT ![t] = p]
                          /\ todo' = [todo EXCEPT ![t] = left \ {p}]
                          /\ taken' = [taken EXCEPT ![t] = mine]
                          /\ pending' = [pending EXCEPT ![t] = open]
      BY <1>1
  <2>2. rec' \in [Procs -> Record]
      BY <2>1 DEF Statuses, Unresolved
  <2>3. \A q \in Procs : /\ rec'[q].perm = r[q].perm
                         /\ q # p => rec'[q].status = r[q].status
                         /\ q = p => rec'[q].status = "killing"
      BY <2>1
  <2>4. /\ cur' \in [Tasks -> Procs \union {NoProc}] /\ todo' \in [Tasks -> SUBSET Procs]
        /\ taken' \in [Tasks -> SUBSET Procs] /\ pending' \in [Tasks -> SUBSET Procs]
        /\ \A u \in Tasks : u # t => /\ cur'[u] = cur[u] /\ todo'[u] = todo[u]
                                    /\ taken'[u] = taken[u] /\ pending'[u] = pending[u]
        /\ cur'[t] = p /\ todo'[t] = left \ {p} /\ taken'[t] = mine /\ pending'[t] = open
      BY <2>1
  <2>5. QED  BY <2>1, <2>2, <2>3, <2>4
<1>2. CASE /\ left = {} /\ rec' = Settled(r, mine, open)
           /\ cur' = [cur EXCEPT ![t] = NoProc] /\ todo' = [todo EXCEPT ![t] = {}]
           /\ taken' = [taken EXCEPT ![t] = {}] /\ pending' = [pending EXCEPT ![t] = {}]
  <2>1. rec' \in [Procs -> Record]
      BY <1>2 DEF Settled, Permissions
  <2>2. \A p \in Procs :
            /\ rec'[p].status = r[p].status
            /\ \/ rec'[p].perm = r[p].perm
               \/ /\ p \in mine
                  /\ rec'[p].perm = IF p \in open THEN "stop_pending" ELSE "stopped"
      BY <1>2 DEF Settled
  <2>3. /\ cur' \in [Tasks -> Procs \union {NoProc}] /\ todo' \in [Tasks -> SUBSET Procs]
        /\ taken' \in [Tasks -> SUBSET Procs] /\ pending' \in [Tasks -> SUBSET Procs]
        /\ \A u \in Tasks : u # t => /\ cur'[u] = cur[u] /\ todo'[u] = todo[u]
                                    /\ taken'[u] = taken[u] /\ pending'[u] = pending[u]
        /\ cur'[t] = NoProc /\ todo'[t] = {} /\ taken'[t] = {}
      BY <1>2
  <2>4. QED  BY <1>2, <2>1, <2>2, <2>3
<1>3. QED  BY <1>1, <1>2 DEF Proceeds

\* Initially nothing is recorded and no cleanup is under way.
LEMMA InitRegistry == Init => RegistryInv
BY KindsAssumption
   DEF Init, RegistryInv, TypeOK, StoppedIsDead, KillingIsOwned, Books, ShutdownCovers,
       RevokeCovers, Registered, Statuses, Permissions, Tasks, TerminalStatus

\* The steps of a process and of its registration.
LEMMA LifeKeeps ==
    ASSUME RegistryInv, NEW p \in Procs, Life(p)
    PROVE  RegistryInv'
<1> USE DEF RegistryInv
<1>1. /\ os' \in [Procs -> {"none", "alive", "dead", "reported"}]
      /\ rec' \in [Procs -> Record]
      /\ UNCHANGED <<accepting, cur, todo, taken, pending>>
      /\ \A q \in Procs : q # p => os'[q] = os[q] /\ rec'[q] = rec[q]
      /\ Dead(p) => os'[p] \in {"dead", "reported"}
      /\ \/ rec'[p] = rec[p] /\ (os[p] = "none" \/ os[p] = "alive") /\ os'[p] # "none"
            /\ (os[p] = "none" \/ os'[p] = "dead")
         \/ rec[p].status = "none" /\ rec'[p].status = "running" /\ rec'[p].perm = "active"
            /\ accepting /\ os'[p] # "none"
         \/ rec[p].status = "none" /\ rec'[p].status = "refused" /\ rec'[p].perm = rec[p].perm
         \/ rec'[p].status = "exited" /\ os'[p] = "reported"
  <2> USE DEF TypeOK, Dead, taskVars
  <2>1. CASE Spawn(p)
      BY <2>1 DEF Spawn
  <2>2. CASE Dies(p)
      BY <2>2 DEF Dies
  <2>3. CASE Register(p)
    <3> USE <2>3 DEF Register, Statuses, Permissions, Unresolved, TerminalStatus
    <3>1. rec' \in [Procs -> Record] /\ os' \in [Procs -> {"none", "alive", "dead", "reported"}]
        OBVIOUS
    <3>2. QED  BY <3>1 DEF Admits
  <2>4. CASE MarkExited(p)
      BY <2>4 DEF MarkExited, Statuses, Permissions, TerminalStatus
  <2>5. QED  BY <2>1, <2>2, <2>3, <2>4 DEF Life
<1>2. \A q \in Registered : q \in Registered' /\ (os'[q] = "alive" => os[q] = "alive")
  BY <1>1 DEF Registered, TypeOK, Books
<1>3. TypeOK'
  BY <1>1 DEF TypeOK
<1>4. StoppedIsDead'
  BY <1>1 DEF StoppedIsDead, TerminalStatus, Dead, Books, TypeOK
<1>5. KillingIsOwned'
  BY <1>1 DEF KillingIsOwned
<1>6. Books'
  <2>1. /\ \A t \in Tasks : cur'[t] = NoProc => todo'[t] = {}
        /\ \A t \in Tasks : todo'[t] \subseteq Registered' /\ cur'[t] \in Registered' \union {NoProc}
        /\ \A t \in Tasks : taken'[t] \subseteq Registered'
      BY <1>1, <1>2 DEF Books
  <2>2. \A q \in Procs : rec'[q].status = "none" => rec'[q].perm = "none"
      BY <1>1 DEF Books
  <2>3. \A q \in Registered' : os'[q] # "none"
      BY <1>1 DEF Books, Registered
  <2>4. QED  BY <2>1, <2>2, <2>3 DEF Books
<1>7. ShutdownCovers'
  BY <1>1, <1>2 DEF ShutdownCovers, Registered, TypeOK
<1>8. RevokeCovers'
  BY <1>1, <1>2 DEF RevokeCovers, Dead, TypeOK
<1>9. QED  BY <1>3, <1>4, <1>5, <1>6, <1>7, <1>8

\* A cleanup begins or goes on.  r has the records as the step leaves them before the next
\* of them is taken up: it is enough that they tell the truth and that the books fit.
Fits(t, left, r, mine, open) ==
    /\ t \in Tasks /\ left \in SUBSET Registered /\ r \in [Procs -> Record]
    /\ mine \in SUBSET Registered /\ open \in SUBSET Procs
    /\ \A p \in Procs : /\ r[p].status \in TerminalStatus \/ r[p].perm = "stopped" => Dead(p)
                        /\ r[p].status \in {"none", "refused"} <=> p \notin Registered
                        /\ r[p].status = "none" => r[p].perm = "none"
                        /\ r[p].status = "killing" => \E u \in Tasks : u # t /\ cur[u] = p
    /\ ~accepting' => \A p \in Registered : os[p] = "alive" =>
                          \/ r[p].status \in {"unknown", "killing"}
                          \/ t \in Shutdowns /\ p \in left
                          \/ \E u \in Shutdowns : u # t /\ p \in todo[u]
    /\ \A p \in mine : p \in left \/ p \in open \/ Dead(p)

LEMMA CleanupKeeps ==
    ASSUME RegistryInv, UNCHANGED os, accepting' \in BOOLEAN,
           NEW t, NEW left, NEW r, NEW mine, NEW open,
           Fits(t, left, r, mine, open), Proceeds(t, left, r, mine, open)
    PROVE  RegistryInv'
<1> USE DEF RegistryInv
<1>1. Advanced(t, left, r, mine, open)
  <2>1. /\ t \in Tasks /\ left \in SUBSET Procs /\ mine \in SUBSET Procs
        /\ r \in [Procs -> Record] /\ open \in SUBSET Procs
      BY DEF Fits, Registered
  <2>2. QED  BY <2>1, NextRecord
<1> USE DEF Advanced, Fits
<1>2. Registered' = Registered
  <2>1. \A p \in Procs : rec'[p].status # r[p].status =>
                              rec'[p].status = "killing" /\ p \in Registered
      BY <1>1, KindsAssumption
  <2>2. \A p \in Procs : rec'[p].status \in {"none", "refused"} <=> p \notin Registered
      BY <2>1
  <2>3. QED  BY <2>2 DEF Registered
<1>3. TypeOK'
  BY <1>1 DEF TypeOK, Registered
<1>4. StoppedIsDead'
  BY <1>1 DEF StoppedIsDead, TerminalStatus, Dead
<1>5. KillingIsOwned'
  BY <1>1 DEF KillingIsOwned
<1>6. Books'
  <2>1. \A p \in Procs : rec'[p].status = "none" => rec'[p].perm = "none"
      BY <1>1, <1>2 DEF Registered
  <2>2. \A u \in Tasks : todo'[u] \subseteq Registered /\ cur'[u] \in Registered \union {NoProc}
      BY <1>1 DEF Books
  <2>3. \A u \in Tasks : cur'[u] = NoProc => todo'[u] = {}
      BY <1>1, KindsAssumption DEF Books, Registered
  <2>4. \A u \in Tasks : taken'[u] \subseteq Registered
      BY <1>1 DEF Books
  <2>5. QED  BY <1>2, <2>1, <2>2, <2>3, <2>4 DEF Books
<1>7. ShutdownCovers'
  BY <1>1, <1>2 DEF ShutdownCovers, Registered, Tasks
<1>8. RevokeCovers'
  BY <1>1 DEF RevokeCovers, Dead
<1>9. QED  BY <1>3, <1>4, <1>5, <1>6, <1>7, <1>8

\* A cleanup that begins.
LEMMA BeginsKeeps ==
    ASSUME RegistryInv,
           \/ \E t \in Cleanups : CleanupByRun(t) \/ Revoke(t) \/ \E p \in Procs : StopOwned(t, p)
           \/ \E t \in Shutdowns : Shutdown(t)
    PROVE  RegistryInv'
<1> USE DEF RegistryInv
<1> DEFINE Left(m, r) == {p \in m : r[p].status \in Unresolved}
<1>1. /\ \A p \in Procs : rec[p].status \in TerminalStatus \/ rec[p].perm = "stopped" => Dead(p)
      /\ \A p \in Procs : rec[p].status \in {"none", "refused"} <=> p \notin Registered
      /\ \A p \in Procs : rec[p].status = "none" => rec[p].perm = "none"
      /\ rec \in [Procs -> Record] /\ accepting \in BOOLEAN /\ Registered \subseteq Procs
  BY DEF StoppedIsDead, Dead, Registered, Books, TypeOK
<1>2. ASSUME NEW t \in Tasks, cur[t] = NoProc
      PROVE  /\ \A p \in Procs : rec[p].status = "killing" => \E u \in Tasks : u # t /\ cur[u] = p
             /\ ~accepting => \A p \in Registered : os[p] = "alive" =>
                                  \/ rec[p].status \in {"unknown", "killing"}
                                  \/ \E u \in Shutdowns : u # t /\ p \in todo[u]
  BY <1>2, KindsAssumption DEF KillingIsOwned, ShutdownCovers, Books
<1>3. ASSUME NEW t \in Tasks, NEW m \in SUBSET Registered, Begins(t, m, rec, {}),
             UNCHANGED accepting
      PROVE  RegistryInv'
  <2>1. cur[t] = NoProc /\ Proceeds(t, Left(m, rec), rec, {}, {}) /\ UNCHANGED os
      BY <1>3 DEF Begins
  <2>2. Left(m, rec) \in SUBSET Registered
      OBVIOUS
  <2> HIDE DEF Left
  <2>3. Fits(t, Left(m, rec), rec, {}, {})
      BY <1>1, <1>2, <1>3, <2>1, <2>2 DEF Fits
  <2>4. QED  BY <1>1, <1>3, <2>1, <2>3, CleanupKeeps
<1>4. CASE \E t \in Cleanups : CleanupByRun(t)
  <2>1. PICK t \in Cleanups : CleanupByRun(t)
      BY <1>4
  <2>2. QED  BY <1>3, <2>1 DEF CleanupByRun, Tasks
<1>5. CASE \E t \in Cleanups, p \in Procs : StopOwned(t, p)
  <2>1. PICK t \in Cleanups, p \in Registered : Begins(t, {p}, rec, {}) /\ UNCHANGED accepting
      BY <1>5 DEF StopOwned
  <2>2. QED  BY <1>3, <2>1 DEF Tasks
<1>6. CASE \E t \in Shutdowns : Shutdown(t)
  <2>1. PICK t \in Shutdowns : Shutdown(t)
      BY <1>6
  <2>2. /\ t \in Tasks /\ accepting' = FALSE /\ UNCHANGED os /\ cur[t] = NoProc
        /\ Proceeds(t, Left(Registered, rec), rec, {}, {})
      BY <2>1 DEF Shutdown, Begins, Tasks
  <2>3. Left(Registered, rec) \in SUBSET Registered
      OBVIOUS
  <2>4. \A p \in Registered : os[p] = "alive" => p \in Left(Registered, rec)
    <3>1. \A p \in Registered : os[p] = "alive" => rec[p].status \in Unresolved
        BY DEF StoppedIsDead, Registered, TypeOK, Statuses
    <3>2. QED  BY <3>1
  <2> HIDE DEF Left
  <2>5. Fits(t, Left(Registered, rec), rec, {}, {})
      BY <1>1, <1>2, <2>1, <2>2, <2>3, <2>4 DEF Fits
  <2>6. QED  BY <2>2, <2>5, CleanupKeeps
<1>7. CASE \E t \in Cleanups : Revoke(t)
  <2> DEFINE m == Registered \intersect Referenced
             r == Revoked(m)
  <2>1. PICK t \in Cleanups : Revoke(t)
      BY <1>7
  <2>2. /\ t \in Tasks /\ UNCHANGED <<accepting, os>> /\ cur[t] = NoProc
        /\ Proceeds(t, Left(m, r), r, m, {})
      BY <2>1 DEF Revoke, Begins, Tasks
  <2>3. /\ Left(m, r) \in SUBSET Registered /\ m \subseteq Registered
        /\ r \in [Procs -> Record]
        /\ \A p \in Procs : /\ r[p].status = rec[p].status
                            /\ \/ r[p].perm = rec[p].perm
                               \/ /\ p \in Registered
                                  /\ r[p].perm = "stopped" => rec[p].status \in TerminalStatus
      BY <1>1 DEF Revoked, Permissions
  <2>4. \A p \in m : p \in Left(m, r) \/ Dead(p)
    <3>1. \A p \in m : r[p].status \in Unresolved \/ rec[p].status \in TerminalStatus
        BY <1>1, <2>3 DEF Registered, Statuses
    <3>2. QED  BY <1>1, <3>1
  <2> HIDE DEF Left, r, m
  <2>5. \A p \in Procs : /\ r[p].status \in TerminalStatus \/ r[p].perm = "stopped" => Dead(p)
                         /\ r[p].status \in {"none", "refused"} <=> p \notin Registered
                         /\ r[p].status = "none" => r[p].perm = "none"
    BY <1>1, <2>3
  <2>6. Fits(t, Left(m, r), r, m, {})
      BY <1>1, <1>2, <2>2, <2>3, <2>4, <2>5 DEF Fits
  <2>7. QED  BY <1>1, <2>2, <2>6, CleanupKeeps
<1>8. QED  BY <1>4, <1>5, <1>6, <1>7

\* A kill that returns.
LEMMA KillReturnsKeeps ==
    ASSUME RegistryInv, NEW t \in Tasks, KillReturns(t)
    PROVE  RegistryInv'
<1> USE DEF RegistryInv
<1>1. PICK answer \in Answers(cur[t]) : Answered(t, answer)
  BY DEF KillReturns
<1> DEFINE p == cur[t]
           status == StatusAfter(rec[p], answer)
           r == [rec EXCEPT ![p] = [status |-> status, perm |-> PermissionAfter(rec[p].perm, status)]]
           open == IF answer \in TerminalStatus THEN pending[t]
                   ELSE pending[t] \union ({p} \intersect taken[t])
<1>2. /\ p \in Registered /\ p \in Procs /\ todo[t] \in SUBSET Registered /\ p # NoProc
      /\ answer \in TerminalStatus => Dead(p)
      /\ answer \in TerminalStatus \/ answer \in {"unknown", "failed"}
  BY DEF KillReturns, Books, Registered, Answers, Dead, TerminalStatus
<1>3. UNCHANGED <<os, accepting>> /\ Proceeds(t, todo[t], r, taken[t], open)
  BY <1>1 DEF Answered
<1>4. /\ status \in TerminalStatus \/ status = "unknown"
      /\ status \in TerminalStatus => Dead(p)
      /\ answer \in TerminalStatus => status \in TerminalStatus
  BY <1>2 DEF StatusAfter, TerminalStatus, StoppedIsDead, Dead
<1>5. /\ PermissionAfter(rec[p].perm, status) \in Permissions
      /\ PermissionAfter(rec[p].perm, status) = "stopped" => Dead(p)
  BY <1>2, <1>4 DEF PermissionAfter, Permissions, StoppedIsDead, Dead, TypeOK
<1> HIDE DEF status
<1>6. /\ r \in [Procs -> Record]
      /\ \A q \in Procs : q # p => r[q] = rec[q]
      /\ r[p].status = status /\ r[p].perm = PermissionAfter(rec[p].perm, status)
  BY <1>2, <1>4, <1>5 DEF TypeOK, Statuses, Unresolved, TerminalStatus
<1> HIDE DEF r
<1>7. \A q \in taken[t] : q \in todo[t] \/ q \in open \/ Dead(q)
  BY <1>2 DEF RevokeCovers
<1>8. taken[t] \in SUBSET Registered /\ open \in SUBSET Procs /\ accepting' \in BOOLEAN
  BY <1>2, <1>3 DEF TypeOK, Books
<1> HIDE DEF open
<1>9. \A q \in Procs :
        /\ r[q].status \in TerminalStatus \/ r[q].perm = "stopped" => Dead(q)
        /\ r[q].status \in {"none", "refused"} <=> q \notin Registered
        /\ r[q].status = "none" => r[q].perm = "none"
        /\ r[q].status = "killing" => \E u \in Tasks : u # t /\ cur[u] = q
  <2>1. ASSUME NEW q \in Procs, q # p
        PROVE  /\ r[q].status \in TerminalStatus \/ r[q].perm = "stopped" => Dead(q)
               /\ r[q].status \in {"none", "refused"} <=> q \notin Registered
               /\ r[q].status = "none" => r[q].perm = "none"
               /\ r[q].status = "killing" => \E u \in Tasks : u # t /\ cur[u] = q
      BY <1>6, <2>1 DEF StoppedIsDead, Dead, Registered, Books, KillingIsOwned
  <2>2. QED  BY <1>2, <1>4, <1>5, <1>6, <2>1 DEF TerminalStatus
<1>10. ~accepting' => \A q \in Registered : os[q] = "alive" =>
                         \/ r[q].status \in {"unknown", "killing"}
                         \/ t \in Shutdowns /\ q \in todo[t]
                         \/ \E u \in Shutdowns : u # t /\ q \in todo[u]
  BY <1>3, <1>4, <1>6, <1>2 DEF ShutdownCovers, Dead, Registered
<1>11. Fits(t, todo[t], r, taken[t], open)
  BY <1>2, <1>6, <1>7, <1>8, <1>9, <1>10 DEF Fits
<1>12. QED  BY <1>3, <1>8, <1>11, CleanupKeeps

-----------------------------------------------------------------------------

\* RegistryInv is an invariant: whatever process.exit, registrations and overlapping
\* cleanups (process-registry.ts, terminateRecord) do between two awaits.
THEOREM RegistryInvariant == Spec => []RegistryInv
<1>1. RegistryInv /\ [Next]_vars => RegistryInv'
  <2> SUFFICES ASSUME RegistryInv, [Next]_vars PROVE RegistryInv'
      OBVIOUS
  <2>1. CASE Next
      BY <2>1, LifeKeeps, BeginsKeeps, KillReturnsKeeps DEF Next
  <2>2. CASE UNCHANGED vars
    <3>1. UNCHANGED <<os, rec, accepting, cur, todo, taken, pending>>
        BY <2>2 DEF vars
    <3>2. Registered' = Registered
        BY <3>1 DEF Registered
    <3>3. QED  BY <3>1, <3>2 DEF RegistryInv, TypeOK, StoppedIsDead, KillingIsOwned, Books,
                                 ShutdownCovers, RevokeCovers, Dead
  <2>3. QED  BY <2>1, <2>2
<1>2. QED  BY <1>1, InitRegistry, PTL DEF Spec

\* The registry and its cleanups keep their types.
THEOREM RegistryTypes == Spec => []TypeOK
BY RegistryInvariant, PTL DEF RegistryInv

\* No record says its process ended while it runs (terminateRecord,
\* cleanupResourceRecords).
THEOREM StoppedTellsTheTruth == Spec => []StoppedIsDead
BY RegistryInvariant, PTL DEF RegistryInv

\* No record is left in "killing" without a cleanup that will settle it (terminateRecord).
THEOREM KillingHasAnOwner == Spec => []KillingIsOwned
BY RegistryInvariant, PTL DEF RegistryInv

\* A shutdown that has ended tried to stop every recorded process that still runs
\* (cleanupOwnedProcesses).
THEOREM ShutdownIsComplete == Spec => []ShutdownMissesNothing
<1>1. RegistryInv => ShutdownMissesNothing
  BY DEF RegistryInv, ShutdownMissesNothing, ShutdownCovers, Books, Tasks
<1>2. QED  BY <1>1, RegistryInvariant, PTL

\* No step gives a withdrawn permission back, whichever stops and exits are under way
\* (terminateRecord, markExited).
THEOREM RevocationIsFinal == Spec => RevocationStands
<1> DEFINE Kept == \A p \in Procs : rec[p].perm \in Withdrawn => rec'[p].perm \in Withdrawn
<1>1. RegistryInv /\ [Next]_vars => [Kept]_vars
  <2> SUFFICES ASSUME RegistryInv, Next PROVE Kept
      BY DEF vars
  <2> USE DEF RegistryInv
  <2>1. ASSUME NEW p \in Procs, Life(p) PROVE Kept
      BY <2>1 DEF Life, Spawn, Dies, Register, MarkExited, Withdrawn, Books, TypeOK
  <2>2. ASSUME NEW t \in Tasks, NEW left \in SUBSET Procs, NEW r \in [Procs -> Record],
               NEW mine \in SUBSET Procs, NEW open \in SUBSET Procs,
               Proceeds(t, left, r, mine, open),
               \A p \in Procs : rec[p].perm \in Withdrawn => r[p].perm \in Withdrawn
        PROVE  Kept
    <3>1. Advanced(t, left, r, mine, open)
        BY <2>2, NextRecord
    <3>2. \A p \in Procs :
              \/ rec'[p].perm = r[p].perm
              \/ /\ left = {} /\ p \in mine
                 /\ rec'[p].perm = IF p \in open THEN "stop_pending" ELSE "stopped"
        BY <3>1 DEF Advanced
    <3>3. \A p \in Procs : \/ rec'[p].perm = r[p].perm
                           \/ rec'[p].perm \in {"stop_pending", "stopped"}
        BY <3>2
    <3>4. QED  BY <2>2, <3>3 DEF Withdrawn
  <2>3. rec \in [Procs -> Record] /\ Registered \subseteq Procs
      BY DEF TypeOK, Registered
  <2>4. ASSUME NEW t \in Tasks, NEW m \in SUBSET Procs, Begins(t, m, rec, {}) PROVE Kept
    <3> DEFINE left == {p \in m : rec[p].status \in Unresolved}
    <3>1. Proceeds(t, left, rec, {}, {}) /\ left \in SUBSET Procs
        BY <2>4 DEF Begins
    <3> HIDE DEF left
    <3>2. {} \in SUBSET Procs
        OBVIOUS
    <3>3. QED  BY <2>2, <2>3, <3>1, <3>2
  <2>5. ASSUME NEW t \in Cleanups, CleanupByRun(t) \/ \E p \in Procs : StopOwned(t, p)
        PROVE  Kept
    <3>1. PICK m \in SUBSET Procs : Begins(t, m, rec, {})
        BY <2>3, <2>5 DEF CleanupByRun, StopOwned
    <3>2. QED  BY <2>4, <3>1 DEF Tasks
  <2>6. ASSUME NEW t \in Shutdowns, Shutdown(t) PROVE Kept
      BY <2>3, <2>4, <2>6 DEF Shutdown, Tasks
  <2>9. ASSUME NEW t \in Cleanups, Revoke(t) PROVE Kept
    <3> DEFINE m == Registered \intersect Referenced
               left == {p \in m : Revoked(m)[p].status \in Unresolved}
    <3>1. Proceeds(t, left, Revoked(m), m, {}) /\ m \subseteq Procs /\ left \subseteq m
          /\ t \in Tasks
        BY <2>3, <2>9 DEF Revoke, Begins, Tasks
    <3>2. /\ Revoked(m) \in [Procs -> Record]
          /\ \A p \in Procs : rec[p].perm \in Withdrawn => Revoked(m)[p].perm \in Withdrawn
        BY <2>3 DEF Revoked, Permissions, Withdrawn
    <3> HIDE DEF m, left
    <3>3. {} \in SUBSET Procs /\ left \in SUBSET Procs /\ m \in SUBSET Procs
        BY <3>1
    <3>4. QED  BY <2>2, <3>1, <3>2, <3>3
  <2>7. ASSUME NEW t \in Tasks, KillReturns(t) PROVE Kept
    <3>1. PICK answer \in Answers(cur[t]) : Answered(t, answer)
        BY <2>7 DEF KillReturns
    <3> DEFINE p == cur[t]
               status == StatusAfter(rec[p], answer)
               r == [rec EXCEPT ![p] = [status |-> status,
                                       perm |-> PermissionAfter(rec[p].perm, status)]]
               open == IF answer \in TerminalStatus THEN pending[t]
                       ELSE pending[t] \union ({p} \intersect taken[t])
    <3>2. /\ Proceeds(t, todo[t], r, taken[t], open) /\ p \in Procs
          /\ todo[t] \in SUBSET Procs /\ taken[t] \in SUBSET Procs /\ open \in SUBSET Procs
        BY <2>7, <3>1 DEF Answered, KillReturns, TypeOK
    <3>3. status \in Statuses
        BY DEF StatusAfter, Statuses, TerminalStatus, Unresolved
    <3>4. /\ PermissionAfter(rec[p].perm, status) \in Permissions
          /\ rec[p].perm \in Withdrawn => PermissionAfter(rec[p].perm, status) \in Withdrawn
        BY <2>3, <3>2 DEF PermissionAfter, Permissions, Withdrawn
    <3> HIDE DEF status
    <3>5. /\ r \in [Procs -> Record]
          /\ \A q \in Procs : rec[q].perm \in Withdrawn => r[q].perm \in Withdrawn
        BY <2>3, <3>2, <3>3, <3>4
    <3> HIDE DEF r, open
    <3>6. QED  BY <2>2, <3>2, <3>5
  <2>8. QED  BY <2>1, <2>5, <2>6, <2>7, <2>9 DEF Next
<1>2. QED  BY <1>1, RegistryInvariant, PTL DEF Spec, RevocationStands

=============================================================================
