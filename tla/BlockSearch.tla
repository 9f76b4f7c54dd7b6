---------------------------- MODULE BlockSearch -----------------------------
(***************************************************************************)
(* The search for a block by timestamp (internal/chain/block_search.go),   *)
(* one step per block it asks the node for.  Full mode finds the first     *)
(* block inside the drop interval with it, FSP mode the start of the       *)
(* lookback window.                                                        *)
(***************************************************************************)
EXTENDS Integers

CONSTANTS
    MaxBlock,   \* the newest block of the chain (bound)
    Times,      \* the timestamps a block may have, and a caller may ask for
    Window      \* searchWindowBlocks

Block == 0 .. MaxBlock

ASSUME BlockSearchAssumption ==
    /\ MaxBlock \in Nat
    /\ Times \subseteq Nat
    /\ Window \in Nat \ {0}

VARIABLES
    time,           \* the chain: the timestamp of each block
    start, end,     \* the range asked for
    target,         \* searchTimestamp
    phase,          \* where the search is
    candidate,      \* startCandidate
    late,           \* candidateBlockTime > searchTimestamp
    low, high       \* what is left to bisect

vars == <<time, start, end, target, phase, candidate, late, low, high>>

query == <<time, start, end, target>>

\* Timestamps never decrease, and may repeat.
Chains == {f \in [Block -> Times] : \A b, c \in Block : b <= c => f[b] <= f[c]}

Lesser(a, b) == IF a <= b THEN a ELSE b

Init ==
    /\ time \in Chains
    /\ start \in Block /\ end \in Block /\ target \in Times
    /\ phase = "begin"
    /\ candidate = 0
    /\ late = TRUE
    /\ low = 0 /\ high = 0

-----------------------------------------------------------------------------
\* A given start is trusted: the range is bisected as it is.
BeginGiven ==
    /\ phase = "begin"
    /\ start # 0
    /\ low' = start /\ high' = end
    /\ phase' = "bisect"
    /\ UNCHANGED <<query, candidate, late>>

\* Start 0 means none was given: the range is narrowed first, from its end.
\* candidateBlockTime is MaxUint64, later than any timestamp.
BeginOpen ==
    /\ phase = "begin"
    /\ start = 0
    /\ candidate' = end
    /\ late' = TRUE
    /\ phase' = "narrow"
    /\ UNCHANGED <<query, low, high>>

\* One window back, unless that would pass block 0.
StepBack ==
    /\ phase = "narrow"
    /\ late
    /\ candidate >= Window
    /\ candidate' = candidate - Window
    /\ late' = (time[candidate'] > target)
    /\ UNCHANGED <<query, phase, low, high>>

\* Mutant: the window may reach past the range.
BisectFromUncut(b) ==
    /\ candidate' = b
    /\ low' = b
    /\ high' = b + Window
    /\ phase' = "bisect"

\* The window, cut to the range.
BisectFrom(b) ==
    /\ candidate' = b
    /\ low' = b
    /\ high' = Lesser(b + Window, end)
    /\ phase' = "bisect"

\* Less than a window is left: from block 0.
StepToGenesis ==
    /\ phase = "narrow"
    /\ late
    /\ candidate < Window
    /\ BisectFrom(0)
    /\ UNCHANGED <<query, late>>

\* The candidate is not later than the timestamp: the answer is in its window.
Narrowed ==
    /\ phase = "narrow"
    /\ ~late
    /\ BisectFrom(candidate)
    /\ UNCHANGED <<query, late>>

Middle == low + (high - low) \div 2

\* Mutant: a block that has the timestamp is searched past.
HalvePastEqual ==
    /\ phase = "bisect"
    /\ low < high
    /\ IF time[Middle] > target
       THEN high' = Middle /\ low' = low
       ELSE low' = Middle + 1 /\ high' = high
    /\ UNCHANGED <<query, phase, candidate, late>>

\* Mutant: the half kept ends below the block that was met.
HalveBelow ==
    /\ phase = "bisect"
    /\ low < high
    /\ IF time[Middle] >= target
       THEN high' = Middle - 1 /\ low' = low
       ELSE low' = Middle + 1 /\ high' = high
    /\ UNCHANGED <<query, phase, candidate, late>>

\* Mutant: the half kept begins at the block that was not met.
HalveInPlace ==
    /\ phase = "bisect"
    /\ low < high
    /\ IF time[Middle] >= target
       THEN high' = Middle /\ low' = low
       ELSE low' = Middle /\ high' = high
    /\ UNCHANGED <<query, phase, candidate, late>>

\* One step of the binary search.
Halve ==
    /\ phase = "bisect"
    /\ low < high
    /\ IF time[Middle] >= target
       THEN high' = Middle /\ low' = low
       ELSE low' = Middle + 1 /\ high' = high
    /\ UNCHANGED <<query, phase, candidate, late>>

Return ==
    /\ phase = "bisect"
    /\ low >= high
    /\ phase' = "done"
    /\ UNCHANGED <<query, candidate, late, low, high>>

\* A lookup fails: the error goes to the caller, who may search again.
LookupFails ==
    /\ \/ phase = "narrow" /\ late /\ candidate >= Window
       \/ phase = "bisect" /\ low < high
    /\ phase' = "failed"
    /\ UNCHANGED <<query, candidate, late, low, high>>

Search ==
    \/ BeginGiven
    \/ BeginOpen
    \/ StepBack
    \/ StepToGenesis
    \/ Narrowed
    \/ Halve
    \/ Return

Over == phase \in {"done", "failed"} /\ UNCHANGED vars

Next == Search \/ LookupFails \/ Over

Spec == Init /\ [][Next]_vars

\* The search runs until it returns.
FairSpec == Spec /\ WF_vars(Search)

-----------------------------------------------------------------------------
(***************************************************************************)
(* Properties                                                              *)
(***************************************************************************)

TypeOK ==
    /\ time \in Chains
    /\ start \in Block /\ end \in Block /\ target \in Times
    /\ phase \in {"begin", "narrow", "bisect", "done", "failed"}
    /\ candidate \in Block /\ late \in BOOLEAN
    /\ low \in Block /\ high \in Block

\* What the search promises the caller, with no allowance for the shape of
\* the chain: it answers a block of the range, none before it is later than
\* the timestamp, and it is not earlier itself unless the whole range is
\* (nearestBlockByTimestamp, whatever window the narrowing stopped in).
FindsBound ==
    phase = "done" /\ start <= end =>
        /\ start <= low /\ low <= end
        /\ \A b \in start .. end : b < low => time[b] <= target
        /\ time[low] >= target \/ low = end
        /\ time[low] < target => \A b \in start .. end : time[b] < target

\* Where no two blocks of the range carry the timestamp asked for, or the start
\* was given, the answer is the first block that is not earlier.
FirstUnlessRepeated ==
    phase = "done" /\ start <= end =>
        \/ \A b \in start .. end : b < low => time[b] < target
        \/ /\ start = 0 /\ time[low] = target
           /\ \E b \in start .. end : b # low /\ time[b] = target

\* The search ends, on a chain shorter than a window and for a timestamp older
\* than genesis too (the guard against the unsigned subtraction).
Terminates == <>(phase \in {"done", "failed"})

-----------------------------------------------------------------------------
(***************************************************************************)
(* The invariant behind FindsBound and FirstUnlessRepeated.                *)
(***************************************************************************)

\* Everything above the candidate's window is later than the timestamp.
Narrowing ==
    phase = "narrow" =>
        /\ start = 0 /\ candidate <= end
        /\ late => candidate = end \/ time[candidate] > target
        /\ ~late => /\ time[candidate] <= target
                    /\ candidate + Window <= end
                    /\ candidate + Window = end \/ time[candidate + Window] > target

\* The narrowing stopped inside a run of blocks with the timestamp.
StoppedInside == start = 0 /\ 0 < low /\ time[low] = target /\ time[low - 1] = target

\* What is cut off below is earlier, what is cut off above is not.
Bisecting ==
    phase \in {"bisect", "done"} /\ start <= end =>
        /\ start <= low /\ low <= high /\ high <= end
        /\ StoppedInside \/ \A b \in start .. end : b < low => time[b] < target
        /\ high = end \/ time[high] >= target
        /\ phase = "done" => low = high

SearchInv == TypeOK /\ Narrowing /\ Bisecting
=============================================================================
