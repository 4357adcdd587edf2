------------------------------ MODULE LogBook ------------------------------
(***************************************************************************)
(* What a rotating log promises its reader, with no word of files, locks or *)
(* renames: entries are kept in the order they were written, each once, and *)
(* only the oldest are ever dropped.                                        *)
(***************************************************************************)
EXTENDS Naturals, Sequences

VARIABLES
    kept,   \* the entries kept, oldest first; the n-th written is n
    next    \* the entry written next

Init == kept = <<>> /\ next = 1

Write ==
    /\ kept' = Append(kept, next)
    /\ next' = next + 1

DropOldest ==
    /\ \E n \in 1..Len(kept) : kept' = SubSeq(kept, n + 1, Len(kept))
    /\ UNCHANGED next

Next == Write \/ DropOldest

Spec == Init /\ [][Next]_<<kept, next>>

=============================================================================
