---------------------------- MODULE ExtractionCall ----------------------------
(***************************************************************************)
(* What a caller of the C interface (shared/src/shared.cpp) may rely on,   *)
(* whatever happens inside a call: the array passed in is either left as   *)
(* it was or holds one whole vector, the latter exactly when the call      *)
(* reports success; and that is only for an engine, a source and an array  *)
(* that were given, the array as long as a vector.  FileRun implements it. *)
(***************************************************************************)
EXTENDS Integers

CONSTANTS Vectors,       \* whole vectors
          Dim,           \* their length
          Failures,      \* how else a call may end
          Arguments,     \* [features, source: BOOLEAN, numFeatures: Int, ...]
          NULL

VARIABLES state,         \* "idle", "running" or "dead"
          handle,        \* the engine, or NULL
          args,          \* of the last call
          array,         \* the caller's array: a vector, or NULL for what it held before
          result         \* of the last call

vars == <<state, handle, args, array, result>>

Init == state = "idle" /\ handle = NULL /\ args \in Arguments /\ array = NULL /\ result = "none"

\* Engines come and go between calls only.
Engine ==
    /\ state = "idle"
    /\ handle' \in {"engine", NULL}
    /\ UNCHANGED <<state, args, array, result>>

Begin ==
    /\ state = "idle"
    /\ state' = "running" /\ args' \in Arguments /\ array' = NULL /\ result' = "none"
    /\ UNCHANGED handle

\* A negative length is no length of an array, and nothing is asked of it.
Acceptable ==
    /\ handle # NULL /\ args.features /\ args.source
    /\ args.numFeatures >= 0 => args.numFeatures >= Dim

Succeed ==
    /\ state = "running" /\ Acceptable
    /\ state' = "idle" /\ array' \in Vectors /\ result' = "success"
    /\ UNCHANGED <<handle, args>>

Fail ==
    /\ state = "running"
    /\ state' = "idle" /\ result' \in Failures
    /\ UNCHANGED <<handle, args, array>>

Die ==
    /\ state = "running"
    /\ state' = "dead" /\ result' = "signal"
    /\ UNCHANGED <<handle, args, array>>

Next == Engine \/ Begin \/ Succeed \/ Fail \/ Die

Spec == Init /\ [][Next]_vars
=============================================================================
