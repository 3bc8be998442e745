---------------------------- MODULE StrideWindows ----------------------------
(***************************************************************************)
(* What a sliding byte window promises: of the bytes fed to it, in pieces  *)
(* of any length, it reports the windows of `size' bytes that begin at     *)
(* offsets 0, step, 2*step, ..., each once, in order, none before its last *)
(* byte was fed and all of them by the end.  It is the windowing of the    *)
(* Python reference, tests/src/common/slidingbytewindow.reference.py.      *)
(***************************************************************************)
EXTENDS Naturals, Sequences

CONSTANTS Byte, Lengths   \* the bytes; the window sizes and steps allowed

VARIABLES size, step, data, windows, state

vars == <<size, step, data, windows, state>>

\* The k-th window of the data, k = 0, 1, ...
Window(d, w, s, k) == SubSeq(d, k * s + 1, k * s + w)

NumWindows(d, w, s) == IF Len(d) < w THEN 0 ELSE (Len(d) - w) \div s + 1

AllWindows(d, w, s) == [k \in 1..NumWindows(d, w, s) |-> Window(d, w, s, k - 1)]

Init == size = 0 /\ step = 0 /\ data = <<>> /\ windows = <<>> /\ state = "closed"

Configure ==
    /\ state = "closed"
    /\ size' \in Lengths /\ step' \in Lengths
    /\ UNCHANGED <<data, windows, state>>

Open ==
    /\ state = "closed" /\ state' = "open"
    /\ 0 < step /\ step <= size
    /\ data' = <<>> /\ windows' = <<>>
    /\ UNCHANGED <<size, step>>

Feed ==
    /\ state = "open"
    /\ data' \in Seq(Byte) /\ Len(data') > Len(data)
    /\ SubSeq(data', 1, Len(data)) = data
    /\ UNCHANGED <<size, step, windows, state>>

Report ==
    /\ state = "open"
    /\ Len(windows) < NumWindows(data, size, step)
    /\ windows' = Append(windows, Window(data, size, step, Len(windows)))
    /\ UNCHANGED <<size, step, data, state>>

Finish ==
    /\ state = "open"
    /\ windows' = AllWindows(data, size, step)
    /\ state' = "closed"
    /\ UNCHANGED <<size, step, data>>

Next == Configure \/ Open \/ Feed \/ Report \/ Finish

Spec == Init /\ [][Next]_vars
=============================================================================
