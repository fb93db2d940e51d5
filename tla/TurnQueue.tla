----------------------------- MODULE TurnQueue -----------------------------
(***************************************************************************)
(* What a conversation promises about its turns, with no documents, no     *)
(* pump and no cleanups: every turn is queued behind another one (or       *)
(* behind nothing), one turn at a time is active, a turn starts once and   *)
(* only after the one it waits behind is over, and what is over stays over.*)
(***************************************************************************)
EXTENDS Naturals

CONSTANT MaxRun

VARIABLES
    turn,    \* what became of each turn
    behind   \* the turn it was queued behind, 0 for none

Runs == 1 .. MaxRun

vars == <<turn, behind>>

Init == turn = [r \in Runs |-> "none"] /\ behind = [r \in Runs |-> 0]

Moves(r, from, to) ==
    /\ turn[r] = from
    /\ turn' = [turn EXCEPT ![r] = to]

Submit(r) ==
    /\ Moves(r, "none", "waiting")
    /\ \E p \in 0 .. r - 1 : behind' = [behind EXCEPT ![r] = p]

Start(r) ==
    /\ Moves(r, "waiting", "active")
    /\ \A q \in Runs : turn[q] # "active"
    /\ behind[r] # 0 => turn[behind[r]] = "over"
    /\ UNCHANGED behind

Finish(r) == Moves(r, "active", "over") /\ UNCHANGED behind

\* A turn that is cancelled, or deleted, before it started.
Drop(r) == Moves(r, "waiting", "over") /\ UNCHANGED behind

Next == \E r \in Runs : Submit(r) \/ Start(r) \/ Finish(r) \/ Drop(r)

Spec == Init /\ [][Next]_vars

=============================================================================
