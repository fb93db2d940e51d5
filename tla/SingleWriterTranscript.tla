----------------------- MODULE SingleWriterTranscript -----------------------
(***************************************************************************)
(* What the write fence of a Session promises to the runs of a             *)
(* conversation, with no FIFO, no promises and no failures: the transcript *)
(* has at most one writer; only the writer moves the leaf; after a writer  *)
(* is gone its leaf may be restored once, and from then on the transcript  *)
(* stands still until the next writer is admitted.                         *)
(***************************************************************************)
EXTENDS Naturals

CONSTANTS MaxGen, Leaf

VARIABLES
    writer,    \* the generation that may write, 0 for none
    issued,    \* generations admitted so far
    restored,  \* the leaf of the last writer was restored
    leaf       \* the leaf of the transcript

vars == <<writer, issued, restored, leaf>>

Init == writer = 0 /\ issued = 0 /\ restored = FALSE /\ leaf = 0

\* A new writer, with the transcript as it stands.
Open ==
    /\ writer = 0 /\ issued < MaxGen
    /\ issued' = issued + 1 /\ writer' = issued + 1 /\ restored' = FALSE
    /\ UNCHANGED leaf

Write ==
    /\ writer # 0
    /\ leaf' \in Leaf
    /\ UNCHANGED <<writer, issued, restored>>

\* The writer released its lease, or a restore of its leaf began.
Close ==
    /\ writer # 0 /\ writer' = 0
    /\ UNCHANGED <<issued, restored, leaf>>

Restore ==
    /\ writer = 0 /\ issued > 0 /\ ~restored
    /\ restored' = TRUE /\ leaf' \in Leaf
    /\ UNCHANGED <<writer, issued>>

Next == Open \/ Write \/ Close \/ Restore

Spec == Init /\ [][Next]_vars

=============================================================================
