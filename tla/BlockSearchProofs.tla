------------------------- MODULE BlockSearchProofs --------------------------
(***************************************************************************)
(* What the search answers on every chain, over every range and with every *)
(* window.                                                                 *)
(***************************************************************************)
EXTENDS BlockSearch, TLAPS

\* The numbers of the search, and the order of the chain.
LEMMA Chain ==
    ASSUME TypeOK
    PROVE  /\ start \in Int /\ end \in Int /\ target \in Int
           /\ candidate \in Int /\ low \in Int /\ high \in Int
           /\ MaxBlock \in Int /\ Window \in Int /\ 0 < Window
           /\ 0 <= start /\ 0 <= end /\ end <= MaxBlock
           /\ 0 <= low /\ low <= MaxBlock /\ high <= MaxBlock /\ 0 <= high
           /\ 0 <= candidate /\ candidate <= MaxBlock
           /\ \A b \in Int : 0 <= b /\ b <= MaxBlock => b \in Block
           /\ \A b \in Block : b \in Int /\ 0 <= b /\ b <= MaxBlock /\ time[b] \in Int
           /\ \A b, c \in Block : b <= c => time[b] <= time[c]
<1>1. /\ MaxBlock \in Int /\ Window \in Int /\ 0 < Window /\ Times \subseteq Int
  BY BlockSearchAssumption
<1>2. /\ \A b \in Int : 0 <= b /\ b <= MaxBlock => b \in Block
      /\ \A b \in Block : b \in Int /\ 0 <= b /\ b <= MaxBlock
  BY <1>1 DEF Block
<1>3. /\ \A b \in Block : time[b] \in Times
      /\ \A b, c \in Block : b <= c => time[b] <= time[c]
  BY DEF TypeOK, Chains
<1> QED BY <1>1, <1>2, <1>3 DEF TypeOK

\* The upper end of the window is cut to the range.
LEMMA LesserOf ==
    ASSUME NEW a, NEW b, a \in Int, b \in Int
    PROVE  /\ Lesser(a, b) \in Int
           /\ Lesser(a, b) = a \/ Lesser(a, b) = b
           /\ Lesser(a, b) <= a /\ Lesser(a, b) <= b
BY DEF Lesser

\* The middle of a range of at least two blocks is in it and not its last.
LEMMA MiddleInside ==
    ASSUME low \in Int, high \in Int, low < high
    PROVE  Middle \in Int /\ low <= Middle /\ Middle < high
<1> DEFINE d == high - low
<1>1. d \in Int /\ 0 < d
  OBVIOUS
<1>2. d \div 2 \in Int /\ 0 <= d \div 2 /\ d \div 2 < d
  <2> HIDE DEF d
  <2> QED BY <1>1
<1> QED BY <1>2 DEF Middle

\* The first step: either the given range, or its end as the candidate.
LEMMA NarrowingStarts ==
    ASSUME SearchInv, BeginGiven \/ BeginOpen
    PROVE  SearchInv'
<1> USE DEF query
<1>1. TypeOK
  BY DEF SearchInv
<1>2. TypeOK'
  BY <1>1 DEF TypeOK, BeginGiven, BeginOpen
<1>3. Narrowing'
  BY <1>1, Chain DEF Narrowing, BeginGiven, BeginOpen
<1>4. Bisecting'
  BY <1>1, Chain DEF Bisecting, BeginGiven, BeginOpen
<1> QED BY <1>2, <1>3, <1>4 DEF SearchInv

\* A step back leaves everything above the candidate's window too late.
LEMMA StepsBack ==
    ASSUME SearchInv, StepBack
    PROVE  SearchInv'
<1> USE DEF query
<1>1. /\ TypeOK /\ phase = "narrow" /\ late /\ candidate >= Window
      /\ candidate' = candidate - Window /\ late' = (time[candidate'] > target)
      /\ start = 0 /\ candidate <= end
      /\ candidate = end \/ time[candidate] > target
      /\ UNCHANGED <<time, start, end, target, phase, low, high>>
  BY DEF SearchInv, StepBack, Narrowing
<1>2. candidate' \in Block /\ candidate' + Window = candidate /\ candidate' <= end
  BY <1>1, Chain
<1>3. TypeOK'
  BY <1>1, <1>2 DEF TypeOK
<1>4. Narrowing'
  <2>1. time[candidate'] \in Int /\ target \in Int
    BY <1>1, <1>2, Chain
  <2>2. late' => time[candidate'] > target
    BY <1>1, Zenon
  <2>3. ~late' => ~(time[candidate'] > target)
    BY <1>1, Zenon
  <2>4. late' => candidate' = end \/ time[candidate'] > target
    BY <2>2
  <2>5. ~late' => time[candidate'] <= target
    BY <2>1, <2>3
  <2>6. candidate' + Window = end \/ time[candidate' + Window] > target
    BY <1>1, <1>2
  <2>7. candidate' + Window <= end
    BY <1>1, <1>2
  <2> QED BY <1>1, <1>2, <2>4, <2>5, <2>6, <2>7 DEF Narrowing
<1>5. Bisecting'
  BY <1>1 DEF Bisecting
<1> QED BY <1>3, <1>4, <1>5 DEF SearchInv

\* Both ways out of the narrowing leave a window that the answer is in.
LEMMA Narrows ==
    ASSUME SearchInv, StepToGenesis \/ Narrowed
    PROVE  SearchInv'
<1> USE DEF query
<1>1. /\ TypeOK /\ phase = "narrow" /\ phase' = "bisect" /\ start = 0 /\ candidate <= end
      /\ UNCHANGED <<time, start, end, target, late>>
      /\ low' = candidate'
      /\ high' = Lesser(low' + Window, end)
  BY DEF SearchInv, StepToGenesis, Narrowed, BisectFrom, Narrowing
<1>2. /\ low' \in Block /\ low' <= end
      /\ low' = 0 \/ time[low'] <= target
      /\ high' = end \/ time[high'] > target
  <2>1. CASE StepToGenesis
    <3>1. low' = 0 /\ candidate < Window /\ (candidate = end \/ time[candidate] > target)
      BY <2>1 DEF SearchInv, StepToGenesis, BisectFrom, Narrowing
    <3>2. high' = end \/ (high' = Window /\ Window <= end)
      BY <1>1, <3>1, Chain, LesserOf
    <3>3. high' = end \/ time[high'] > target
      <4> SUFFICES ASSUME high' = Window, Window <= end, high' # end PROVE time[high'] > target
        BY <3>2
      <4>1. candidate \in Block /\ Window \in Block /\ candidate <= Window
        BY <1>1, <3>1, Chain DEF TypeOK
      <4>2. time[candidate] > target
        BY <1>1, <3>1, Chain
      <4> QED BY <1>1, <4>1, <4>2, Chain
    <3> QED BY <1>1, <3>1, <3>3, Chain
  <2>2. CASE Narrowed
    <3>1. /\ low' = candidate /\ time[candidate] <= target /\ candidate + Window <= end
          /\ candidate + Window = end \/ time[candidate + Window] > target
      BY <2>2 DEF SearchInv, Narrowed, BisectFrom, Narrowing
    <3>2. high' = candidate + Window
      BY <1>1, <3>1, Chain DEF Lesser
    <3> QED BY <1>1, <3>1, <3>2 DEF TypeOK
  <2> QED BY <2>1, <2>2
<1>3. high' \in Int /\ low' <= high' /\ high' <= end /\ high' \in Block
  <2>1. high' \in Int /\ (high' = low' + Window \/ high' = end) /\ high' <= end
    BY <1>1, <1>2, Chain, LesserOf
  <2> QED BY <1>1, <1>2, <2>1, Chain
<1>4. TypeOK'
  BY <1>1, <1>2, <1>3 DEF TypeOK
<1>5. Narrowing'
  BY <1>1 DEF Narrowing
<1>6. Bisecting'
  <2>1. StoppedInside' \/ \A b \in start .. end : b < low' => time[b] < target
    <3> SUFFICES ASSUME NEW c \in start .. end, c < low', ~(time[c] < target)
                 PROVE  StoppedInside'
      OBVIOUS
    <3>1. c \in Int /\ low' \in Int /\ c \in Block /\ low' - 1 \in Block /\ 0 < low'
      BY <1>1, <1>2, Chain
    <3>2. time[c] <= time[low' - 1] /\ time[low' - 1] <= time[low']
      BY <1>1, <1>2, <3>1, Chain
    <3>3. time[c] \in Int /\ time[low' - 1] \in Int /\ time[low'] \in Int /\ target \in Int
      BY <1>1, <1>2, <3>1, Chain
    <3>4. time[low'] <= target
      BY <1>2, <3>1
    <3> QED BY <1>1, <3>1, <3>2, <3>3, <3>4 DEF StoppedInside
  <2>2. high' = end \/ time[high'] >= target
    BY <1>1, <1>2, <1>3, Chain
  <2> QED BY <1>1, <1>2, <1>3, <2>1, <2>2, Chain DEF Bisecting
<1> QED BY <1>4, <1>5, <1>6 DEF SearchInv

LEMMA Halves ==
    ASSUME SearchInv, Halve
    PROVE  SearchInv'
<1> USE DEF query
<1>1. /\ TypeOK /\ phase = "bisect" /\ low < high
      /\ UNCHANGED <<time, start, end, target, phase, candidate, late>>
      /\ Bisecting
  BY DEF SearchInv, Halve
<1>2. Middle \in Int /\ low <= Middle /\ Middle < high /\ Middle \in Block
  BY <1>1, Chain, MiddleInside
<1>3. /\ low' \in Block /\ high' \in Block
      /\ \/ time[Middle] >= target /\ high' = Middle /\ low' = low
         \/ ~(time[Middle] >= target) /\ low' = Middle + 1 /\ high' = high
  BY <1>1, <1>2, Chain DEF Halve, TypeOK
<1>4. TypeOK'
  BY <1>1, <1>3 DEF TypeOK
<1>5. Narrowing'
  BY <1>1 DEF Narrowing
<1>6. Bisecting'
  <2> SUFFICES ASSUME start <= end
               PROVE  /\ start <= low' /\ low' <= high' /\ high' <= end
                      /\ StoppedInside' \/ \A b \in start .. end : b < low' => time[b] < target
                      /\ high' = end \/ time[high'] >= target
    BY <1>1 DEF Bisecting
  <2>1. /\ start <= low /\ low <= high /\ high <= end
        /\ StoppedInside \/ \A b \in start .. end : b < low => time[b] < target
        /\ high = end \/ time[high] >= target
    BY <1>1 DEF Bisecting
  <2>2. CASE time[Middle] >= target /\ high' = Middle /\ low' = low
    BY <1>1, <1>2, <2>1, <2>2, Chain DEF StoppedInside
  <2>3. CASE ~(time[Middle] >= target) /\ low' = Middle + 1 /\ high' = high
    <3>1. \A b \in start .. end : b < low' => time[b] < target
      <4> SUFFICES ASSUME NEW b \in start .. end, b < low' PROVE time[b] < target
        OBVIOUS
      <4>1. b \in Block /\ b <= Middle
        BY <1>1, <1>2, <2>3, Chain
      <4>2. time[b] <= time[Middle] /\ time[b] \in Int /\ time[Middle] \in Int /\ target \in Int
        BY <1>1, <1>2, <4>1, Chain
      <4> QED BY <2>3, <4>2
    <3> QED BY <1>1, <1>2, <2>1, <2>3, <3>1, Chain
  <2> QED BY <1>3, <2>2, <2>3
<1> QED BY <1>4, <1>5, <1>6 DEF SearchInv

\* The end of the search, by an answer or an error.
LEMMA SearchEnds ==
    ASSUME SearchInv, Return \/ LookupFails \/ UNCHANGED vars
    PROVE  SearchInv'
<1> USE DEF query, vars
<1>1. TypeOK
  BY DEF SearchInv
<1>2. TypeOK'
  BY <1>1 DEF TypeOK, Return, LookupFails
<1>3. Narrowing'
  BY DEF SearchInv, Narrowing, Return, LookupFails
<1>4. Bisecting'
  <2>1. CASE Return
    BY <1>1, <2>1, Chain DEF SearchInv, Bisecting, Return, StoppedInside
  <2>2. CASE LookupFails
    BY <2>2 DEF Bisecting, LookupFails
  <2>3. CASE UNCHANGED vars
    BY <2>3 DEF SearchInv, Bisecting, StoppedInside
  <2> QED BY <2>1, <2>2, <2>3
<1> QED BY <1>2, <1>3, <1>4 DEF SearchInv

\* The steps of nearestBlockByTimestamp and of binarySearch keep the window that
\* the answer is in.
THEOREM SearchInductive == Spec => []SearchInv
<1>1. Init => SearchInv
  BY BlockSearchAssumption DEF Init, SearchInv, TypeOK, Block, Narrowing, Bisecting
<1>2. SearchInv /\ [Next]_vars => SearchInv'
  BY NarrowingStarts, StepsBack, Narrows, Halves, SearchEnds DEF Next, Search, Over
<1> QED BY <1>1, <1>2, PTL DEF Spec

\* Every number of the search stays a block of the chain: stepping the candidate
\* back never passes below block 0, and the middle stays inside the window.
THEOREM SearchTyped == Spec => []TypeOK
<1>1. SearchInv => TypeOK
  BY DEF SearchInv
<1> QED BY <1>1, SearchInductive, PTL

\* nearestBlockByTimestamp answers a block of the range that is not earlier
\* than the timestamp, or the range's end, and skips nothing later than it.
THEOREM SearchFindsBound == Spec => []FindsBound
<1>1. SearchInv => FindsBound
  <2> SUFFICES ASSUME SearchInv, phase = "done", start <= end
               PROVE  /\ start <= low /\ low <= end
                      /\ \A b \in start .. end : b < low => time[b] <= target
                      /\ time[low] >= target \/ low = end
                      /\ time[low] < target => \A b \in start .. end : time[b] < target
    BY DEF FindsBound
  <2>1. /\ TypeOK /\ low \in Block
        /\ start <= low /\ low = high /\ high <= end
        /\ StoppedInside \/ \A b \in start .. end : b < low => time[b] < target
        /\ high = end \/ time[high] >= target
    BY DEF SearchInv, Bisecting, TypeOK
  <2>2. /\ \A b \in start .. end : b \in Block /\ b \in Int /\ time[b] \in Int
        /\ target \in Int /\ time[low] \in Int /\ low \in Int /\ end \in Int
    BY <2>1, Chain
  <2>3. \A b \in start .. end : b < low => time[b] <= target
    <3>1. CASE StoppedInside
      BY <2>1, <2>2, <3>1, Chain DEF StoppedInside
    <3>2. CASE \A b \in start .. end : b < low => time[b] < target
      BY <2>2, <3>2
    <3> QED BY <2>1, <3>1, <3>2
  <2>4. time[low] < target => \A b \in start .. end : time[b] < target
    <3> SUFFICES ASSUME time[low] < target, NEW b \in start .. end PROVE time[b] < target
      OBVIOUS
    <3>1. b \in Block /\ b <= low
      BY <2>1, <2>2
    <3>2. time[b] <= time[low]
      BY <2>1, <3>1, Chain
    <3> QED BY <2>2, <3>2
  <2> QED BY <2>1, <2>2, <2>3, <2>4
<1> QED BY <1>1, SearchInductive, PTL

\* It is the first such block, unless the narrowing stopped among several with
\* exactly the timestamp asked for.
THEOREM SearchFindsFirst == Spec => []FirstUnlessRepeated
<1>1. SearchInv => FirstUnlessRepeated
  <2> SUFFICES ASSUME SearchInv, phase = "done", start <= end
               PROVE  \/ \A b \in start .. end : b < low => time[b] < target
                      \/ /\ start = 0 /\ time[low] = target
                         /\ \E b \in start .. end : b # low /\ time[b] = target
    BY DEF FirstUnlessRepeated
  <2>1. /\ TypeOK /\ low = high /\ high <= end
        /\ StoppedInside \/ \A b \in start .. end : b < low => time[b] < target
    BY DEF SearchInv, Bisecting
  <2>2. CASE StoppedInside
    <3>1. low - 1 \in start .. end /\ low - 1 # low
      BY <2>1, <2>2, Chain DEF StoppedInside
    <3> QED BY <2>2, <3>1 DEF StoppedInside
  <2> QED BY <2>1, <2>2
<1> QED BY <1>1, SearchInductive, PTL
=============================================================================
