--------------------------- MODULE SpaceLifetime ---------------------------
(***************************************************************************)
(* What the deletion of a Space promises, with no journal, no queues and   *)
(* no phases: nothing is created in a Space that is being closed, the      *)
(* Space goes last, and it never comes back.                               *)
(***************************************************************************)

CONSTANT Convs

VARIABLES
    space,   \* live, closing or gone
    conv,    \* its conversations: none, live or deleted
    memory   \* it has notes, memory or knowledge of its own

vars == <<space, conv, memory>>

Init == space = "live" /\ conv = [c \in Convs |-> "none"] /\ memory = FALSE

Create(c) ==
    /\ space = "live" /\ conv[c] = "none"
    /\ conv' = [conv EXCEPT ![c] = "live"]
    /\ UNCHANGED <<space, memory>>

Delete(c) ==
    /\ conv[c] = "live"
    /\ conv' = [conv EXCEPT ![c] = "deleted"]
    /\ UNCHANGED <<space, memory>>

Remember == space = "live" /\ memory' = TRUE /\ UNCHANGED <<space, conv>>

Close == space = "live" /\ space' = "closing" /\ UNCHANGED <<conv, memory>>

Forget == space = "closing" /\ memory' = FALSE /\ UNCHANGED <<space, conv>>

End ==
    /\ space = "closing" /\ ~memory /\ \A c \in Convs : conv[c] # "live"
    /\ space' = "gone" /\ UNCHANGED <<conv, memory>>

Next == (\E c \in Convs : Create(c) \/ Delete(c)) \/ Remember \/ Close \/ Forget \/ End

Spec == Init /\ [][Next]_vars

=============================================================================
