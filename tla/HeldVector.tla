----------------------------- MODULE HeldVector ------------------------------
(***************************************************************************)
(* What an extractor promises of the vector it returns.  The pointer is to *)
(* memory of the extractor, so the vector is the caller's only for a time: *)
(* while it is, it is that of the file given, and it does not change.      *)
(***************************************************************************)
CONSTANTS Files, Features(_), NULL

VARIABLE held   \* what the caller may read: [file, vector], or NULL

Init == held = NULL

Return(f) ==
    /\ held = NULL /\ held' # NULL
    /\ held'.file = f
    /\ held' = [file |-> f, vector |-> Features(f)]

Invalidate == held # NULL /\ held' = NULL

Next == (\E f \in Files : Return(f)) \/ Invalidate

Spec == Init /\ [][Next]_held
=============================================================================
