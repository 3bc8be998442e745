-------------------------- MODULE SlidingByteWindow --------------------------
(***************************************************************************)
(* common/src/slidingbytewindow.cpp: a window of windowSize bytes slid by  *)
(* `step' over data that arrives in pieces.  reduce is a loop that copies  *)
(* what fits into the block or, when the block is full, calls the callback *)
(* and erases the first `step' bytes; each iteration is an action here.    *)
(* A full block is reported only when more data arrives or at the end.     *)
(*                                                                         *)
(* Calls come in the order of the phases of a feature type: setters, start,*)
(* reduce any number of times, finalize.                                   *)
(***************************************************************************)
EXTENDS Naturals, Sequences

CONSTANTS Byte,       \* byte values
          Chunks,     \* the pieces reduce may be called with
          MaxWindow,  \* bound: largest window size and step
          MaxFed      \* bound: bytes fed between start and finalize

ASSUME ConstantsAssumption ==
    /\ Chunks \subseteq Seq(Byte)
    /\ MaxWindow \in Nat /\ MaxFed \in Nat

VARIABLES block, windowSize, step, callback,
          buf,        \* what the running reduce call has still to consume
          phase,      \* which of the calls may come next
          fed,        \* history: every byte passed to reduce since start
          windows     \* history: the arguments of the callback since start

vars == <<block, windowSize, step, callback, buf, phase, fed, windows>>
config == <<windowSize, step, callback>>

Init ==
    /\ block = <<>> /\ windowSize = 0 /\ step = 0 /\ callback = FALSE
    /\ buf = <<>> /\ phase = "idle"
    /\ fed = <<>> /\ windows = <<>>

-----------------------------------------------------------------------------
Reset ==
    /\ phase \in {"idle", "final"}
    /\ block' = <<>> /\ windowSize' = 0 /\ step' = 0 /\ callback' = FALSE
    /\ phase' = "idle"
    /\ UNCHANGED <<buf, fed, windows>>

SetWindowSize(n) ==
    /\ phase = "idle"
    /\ windowSize' = n
    /\ UNCHANGED <<block, step, callback, buf, phase, fed, windows>>

SetStep(n) ==
    /\ phase = "idle"
    /\ step' = n
    /\ UNCHANGED <<block, windowSize, callback, buf, phase, fed, windows>>

SetCallback ==
    /\ phase = "idle"
    /\ callback' = TRUE
    /\ UNCHANGED <<block, windowSize, step, buf, phase, fed, windows>>

\* Mutant: the check that the step is within the window is dropped.
ConfiguredAnyStep == windowSize # 0 /\ step # 0 /\ callback

Configured == windowSize # 0 /\ step # 0 /\ callback /\ step <= windowSize

Start ==
    /\ phase \in {"idle", "final"}
    /\ Configured
    /\ block' = <<>>
    /\ phase' = "started"
    /\ fed' = <<>> /\ windows' = <<>>
    /\ UNCHANGED <<config, buf>>

\* LOG_FATAL_ERROR leaves the program.
StartFatal ==
    /\ phase \in {"idle", "final"}
    /\ ~Configured
    /\ phase' = "exited"
    /\ UNCHANGED <<block, config, buf, fed, windows>>

-----------------------------------------------------------------------------
(* reduce *)

Reduce(chunk) ==
    /\ phase = "started" /\ buf = <<>>
    /\ buf' = chunk
    /\ fed' = fed \o chunk
    /\ UNCHANGED <<block, config, phase, windows>>

SpaceInBlock == windowSize - Len(block)

\* Mutant: as much is copied as the window could hold were it empty.
BytesToCopyWholeWindow == IF windowSize < Len(buf) THEN windowSize ELSE Len(buf)

\* Mutant: the block is never filled to its last byte.
BytesToCopyAllButOne ==
    IF SpaceInBlock <= Len(buf) THEN SpaceInBlock - 1 ELSE Len(buf)

BytesToCopy == IF SpaceInBlock < Len(buf) THEN SpaceInBlock ELSE Len(buf)

Copy ==
    /\ buf # <<>> /\ SpaceInBlock > 0
    /\ block' = block \o SubSeq(buf, 1, BytesToCopy)
    /\ buf' = SubSeq(buf, BytesToCopy + 1, Len(buf))
    /\ UNCHANGED <<config, phase, fed, windows>>

\* Mutant: the window is slid by its own length.
SlideWholeWindow ==
    /\ buf # <<>> /\ SpaceInBlock = 0
    /\ windows' = Append(windows, block)
    /\ block' = <<>>
    /\ UNCHANGED <<config, buf, phase, fed>>

\* Mutant: the bytes are erased before the callback sees the block.
SlideEraseFirst ==
    /\ buf # <<>> /\ SpaceInBlock = 0
    /\ block' = SubSeq(block, step + 1, Len(block))
    /\ windows' = Append(windows, block')
    /\ UNCHANGED <<config, buf, phase, fed>>

Slide ==
    /\ buf # <<>> /\ SpaceInBlock = 0
    /\ windows' = Append(windows, block)
    /\ block' = SubSeq(block, step + 1, Len(block))
    /\ UNCHANGED <<config, buf, phase, fed>>

-----------------------------------------------------------------------------
\* Mutant: a window that fills up with the last byte is forgotten.
FinalizeSilent ==
    /\ phase = "started" /\ buf = <<>>
    /\ phase' = "final"
    /\ UNCHANGED <<block, config, buf, fed, windows>>

Finalize ==
    /\ phase = "started" /\ buf = <<>>
    /\ windows' = IF Len(block) = windowSize THEN Append(windows, block) ELSE windows
    /\ phase' = "final"
    /\ UNCHANGED <<block, config, buf, fed>>

Exited == phase = "exited" /\ UNCHANGED vars

Next ==
    \/ Reset
    \/ \E n \in 0..MaxWindow : SetWindowSize(n) \/ SetStep(n)
    \/ SetCallback
    \/ Start \/ StartFatal
    \/ \E c \in Chunks : Len(fed) + Len(c) <= MaxFed /\ Reduce(c)
    \/ Copy \/ Slide
    \/ Finalize
    \/ Exited

Spec == Init /\ [][Next]_vars

\* reduce is a loop of one thread: once called it runs on.
FairSpec == Spec /\ WF_vars(Copy \/ Slide)

-----------------------------------------------------------------------------
(* Properties *)

TypeOK ==
    /\ block \in Seq(Byte) /\ Len(block) <= MaxWindow
    /\ buf \in Seq(Byte) /\ fed \in Seq(Byte)
    /\ windowSize \in 0..MaxWindow /\ step \in 0..MaxWindow
    /\ callback \in BOOLEAN
    /\ phase \in {"idle", "started", "final", "exited"}
    /\ windows \in Seq(Seq(Byte))

\* Neither windowSize - block.size() nor erase(begin, begin + step) leaves its
\* range: once started the block is never larger than the window, and the step
\* never larger than a full block.
BlockWithinWindow ==
    phase = "started" => Len(block) <= windowSize /\ 0 < step /\ step <= windowSize

\* The i-th call of the callback is given the bytes at offset (i-1)*step of the
\* data, whatever the pieces the data came in and wherever they were cut.
WindowsAreStrides ==
    phase \in {"started", "final"} =>
        \A i \in 1..Len(windows) :
            /\ Len(windows[i]) = windowSize
            /\ (i - 1) * step + windowSize <= Len(fed)
            /\ \A j \in 1..windowSize : windows[i][j] = fed[(i - 1) * step + j]

\* At the end no window is missing and none is reported twice: there are as many
\* as the strides of the data.
AllWindowsAtTheEnd ==
    phase = "final" =>
        Len(windows) = IF Len(fed) < windowSize THEN 0
                       ELSE (Len(fed) - windowSize) \div step + 1

\* When the data never filled a window, getLastBlockAnyway returns all of it.
ShortDataIsTheLastBlock ==
    phase = "final" /\ windows = <<>> => block = fed

\* What finalize leaves to the owner is complete: all windows were reported, or the
\* data is in the last block (slidingbytewindow.cpp:70-83).
NothingLostAtTheEnd == AllWindowsAtTheEnd /\ ShortDataIsTheLastBlock

\* A call of reduce consumes its whole argument.
ReduceReturns == (buf # <<>>) ~> (buf = <<>>)

\* The sliding window implements the abstract one.
Strides == INSTANCE StrideWindows WITH
    size <- windowSize, data <- fed,
    state <- IF phase = "started" THEN "open" ELSE "closed",
    Lengths <- 0..MaxWindow

ImplementsStrideWindows == Strides!Spec
=============================================================================
