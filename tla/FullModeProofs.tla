--------------------------- MODULE FullModeProofs ---------------------------
(***************************************************************************)
(* Proofs about full mode, for every chain, configuration and number of    *)
(* faults: type correctness, CoverageSound, NoGaps, the rows' direction,   *)
(* readiness, and what the two floors say of deletions.                    *)
(***************************************************************************)
EXTENDS FullModeInv, EngineProofs

-----------------------------------------------------------------------------
(***************************************************************************)
(* Lemmas about FilledIn, one for each thing that can happen to the blocks *)
(* and the floor.                                                          *)
(***************************************************************************)

\* A lower bound asks for less.
LEMMA FilledLower ==
    ASSUME NEW S, NEW F, NEW h, NEW x, NEW y,
           x \in Int, y \in Int, y <= x,
           FilledIn(S, F, h, x)
    PROVE  FilledIn(S, F, h, y)
BY EngineAssumption DEF FilledIn, Block

\* So does a higher horizon.
LEMMA FilledHorizon ==
    ASSUME NEW S, NEW F, NEW h, NEW k, NEW x,
           h \in Int, k \in Int, h <= k,
           FilledIn(S, F, h, x)
    PROVE  FilledIn(S, F, k, x)
BY EngineAssumption DEF FilledIn, Block

\* Deleting below the horizon leaves nothing missing above it.
LEMMA FilledDelete ==
    ASSUME NEW S, NEW D, NEW F, NEW h, NEW x, h \in Int,
           \A b \in D : BlockTime(b) < h, D \subseteq Block,
           FilledIn(S, F, h, x)
    PROVE  FilledIn(S \ D, F, h, x)
BY EngineAssumption DEF FilledIn, Block

\* Inserting a range from where the database is filled fills it up to its end.
LEMMA FilledInsert ==
    ASSUME NEW S, NEW F, NEW h, NEW lo, NEW hi,
           lo \in Int, hi \in Int, lo <= hi,
           S \subseteq Block, FilledIn(S, F, h, lo)
    PROVE  FilledIn(S \cup (lo .. hi), F, h, hi + 1)
BY EngineAssumption DEF FilledIn, Block

\* Inserting above a bound adds nothing below it.
LEMMA FilledAbove ==
    ASSUME NEW S, NEW F, NEW h, NEW lo, NEW hi, NEW x,
           lo \in Int, hi \in Int, x \in Int, x <= lo, S \subseteq Block, FilledIn(S, F, h, x)
    PROVE  FilledIn(S \cup (lo .. hi), F, h, x)
BY EngineAssumption DEF FilledIn, Block

\* A floor on a stored block asks for no more than the stored block does.
LEMMA FilledFloor ==
    ASSUME NEW S, NEW F, NEW G, NEW h, NEW x,
           G.index \in S \/ G = F,
           FilledIn(S, F, h, x)
    PROVE  FilledIn(S, G, h, x)
BY DEF FilledIn

\* Nor does a floor on a block past retention, up to the next block.
LEMMA FilledPast ==
    ASSUME NEW S, NEW F, NEW G, NEW h, NEW x, h \in Int, x \in Int,
           G.index \in Block, BlockTime(G.index) < h, x <= G.index + 1,
           FilledIn(S, F, h, x)
    PROVE  FilledIn(S, G, h, x)
BY EngineAssumption DEF FilledIn, Block

-----------------------------------------------------------------------------
(***************************************************************************)
(* What the three kinds of write do to the parts of the invariant.         *)
(***************************************************************************)

\* A step that leaves the rows, the coverage rows, the horizon and the ids
\* alone keeps the parts that speak of nothing else.
LEMMA Kept ==
    ASSUME IInv, rows' = rows, First' = First, Last' = Last,
           horizon' = horizon, blockId' = blockId, nextId' = nextId
    PROVE  /\ stored' = stored
           /\ Whole' /\ RowsStored' /\ IdOrder' /\ FilledBelowStored'
<1>1. stored' = stored
  BY DEF stored
<1>2. Whole'
  BY <1>1 DEF IInv, Whole, Covered
<1>3. RowsStored'
  BY <1>1 DEF IInv, RowsStored
<1>4. IdOrder'
  BY <1>1 DEF IInv, IdOrder
<1>5. FilledBelowStored'
  BY <1>1 DEF IInv, FilledBelowStored, Filled
<1> QED BY <1>1, <1>2, <1>3, <1>4, <1>5

\* Type correctness includes that of the engine.
LEMMA Typed == TypeOK => EngineTyped
BY DEF TypeOK, EngineTyped

\* What it says of the numbers.
LEMMA Numbers ==
    ASSUME TypeOK
    PROVE  /\ head \in Block /\ head \in Int /\ cursor \in Nat /\ ixEnd \in Nat
           /\ startIndex \in Nat /\ histLast \in Nat /\ horizon \in Nat
           /\ boundary \in Nat /\ nextId \in Nat /\ dfirst \in Block
           /\ stored \subseteq Block
           /\ Block \subseteq Int
           /\ \A b \in Block : BlockTime(b) \in Nat /\ b >= 0 /\ b <= MaxBlock
           /\ MaxBlock \in Nat
           /\ Last.index \in Nat /\ First.index \in Nat
           /\ Last.exists \in BOOLEAN /\ First.exists \in BOOLEAN
BY Typed, EngineNumbers DEF TypeOK

\* Rows above every stored block keep the ids in order.
LEMMA IdsAssigned ==
    ASSUME TypeOK, IdOrder, NEW lo, NEW hi, lo \in Block, hi \in Block, lo <= hi,
           AssignIds(lo, hi), stored' = stored \cup (lo .. hi),
           \A b \in lo .. hi : b \in stored \/ \A c \in stored : c < b
    PROVE  /\ blockId' \in [Block -> Nat] /\ nextId' \in Nat
           /\ IdOrder'
<1>1. /\ lo \in Int /\ hi \in Int /\ lo .. hi \subseteq Block /\ Block \subseteq Int
      /\ stored \subseteq Block /\ nextId \in Nat
  BY Numbers, EngineAssumption DEF Block
<1>2. nextId' = nextId + (hi - lo + 1)
  BY DEF AssignIds
<1>3. blockId' = [b \in Block |-> IF b \in (lo .. hi) \ stored
                                  THEN nextId + (b - lo) ELSE blockId[b]]
  BY DEF AssignIds
<1>4. \A b \in stored : blockId'[b] = blockId[b] /\ blockId[b] \in Nat
  BY <1>1, <1>3 DEF TypeOK
<1>5. \A b \in (lo .. hi) \ stored : blockId'[b] = nextId + (b - lo)
  BY <1>1, <1>3
<1>6. blockId' \in [Block -> Nat]
  <2>1. \A b \in Block : b \in (lo .. hi) \ stored => nextId + (b - lo) \in Nat
    BY <1>1
  <2>2. \A b \in Block : blockId[b] \in Nat
    BY DEF TypeOK
  <2> QED BY <1>3, <2>1, <2>2
<1>7. \A b \in stored : 0 < blockId[b] /\ blockId[b] < nextId
  BY DEF IdOrder
<1>8. \A b \in stored' : 0 < blockId'[b] /\ blockId'[b] < nextId'
  <2> SUFFICES ASSUME NEW b \in stored' PROVE 0 < blockId'[b] /\ blockId'[b] < nextId'
    OBVIOUS
  <2>1. CASE b \in stored
    BY <1>1, <1>2, <1>4, <1>7, <2>1
  <2>2. CASE b \in (lo .. hi) \ stored
    <3>1. 0 < nextId
      BY DEF IdOrder
    <3> QED BY <1>1, <1>2, <1>5, <2>2, <3>1
  <2> QED BY <2>1, <2>2
<1>9. \A b, c \in stored' : b < c => blockId'[b] < blockId'[c]
  <2> SUFFICES ASSUME NEW b \in stored', NEW c \in stored', b < c
               PROVE  blockId'[b] < blockId'[c]
    OBVIOUS
  <2>1. CASE b \in stored /\ c \in stored
    BY <1>4, <2>1 DEF IdOrder
  <2>2. CASE b \in stored /\ c \in (lo .. hi) \ stored
    BY <1>1, <1>4, <1>5, <1>7, <2>2
  <2>3. CASE b \in (lo .. hi) \ stored /\ c \in stored
    BY <1>1, <2>3
  <2>4. CASE b \in (lo .. hi) \ stored /\ c \in (lo .. hi) \ stored
    BY <1>1, <1>5, <2>4
  <2> QED BY <2>1, <2>2, <2>3, <2>4
<1> QED BY <1>1, <1>2, <1>6, <1>8, <1>9 DEF IdOrder

-----------------------------------------------------------------------------
(***************************************************************************)
(* Each action keeps the invariant.                                        *)
(***************************************************************************)

LEMMA HistoryRangeKeeps ==
    ASSUME IInv, HistoryRange, UNCHANGED <<dropVars, blockId, nextId>>
    PROVE  IInv'
<1> USE DEF plan, dropVars
<1>1. TypeOK /\ MissingRows /\ ObserveTip
  BY DEF IInv, HistoryRange
<1>2. /\ Tip \in Nat /\ Tip <= head /\ Tip \in Block
      /\ states' \in [StateName -> RowType]
      /\ First' = First /\ Last' = Last
      /\ MissingRows'
  BY <1>1, TipObserved, Typed
<1>3. /\ stored' = stored
      /\ Whole' /\ RowsStored' /\ IdOrder' /\ FilledBelowStored'
  BY <1>2, Kept DEF HistoryRange
<1>4. ixEnd' \in Nat /\ ixEnd' <= Tip /\ ixEnd' <= StopIndex
  BY <1>2, EngineAssumption DEF HistoryRange, Lesser
<1>5. TypeOK'
  BY <1>1, <1>2, <1>4 DEF TypeOK, HistoryRange, EnginePc, HistoryPc
<1>6. Ranges'
  BY <1>1, <1>2, <1>3, <1>4, EngineAssumption
     DEF TypeOK, Ranges, HistoryRange, HistoryPc, Tip, IInv, Block
<1>7. DropInside'
  BY <1>3 DEF IInv, DropInside, HistoryRange, ContinuousPc
<1>8. HistoryFilled'
  <2>1. FilledIn(stored, First, horizon, startIndex)
    BY DEF IInv, HistoryFilled, HistoryRange, HistoryPc, Filled
  <2>2. FilledIn(stored, First, horizon, Lesser(startIndex, ixEnd' + 1))
    <3>1. startIndex \in Int /\ ixEnd' + 1 \in Int
      BY <1>1, <1>4 DEF TypeOK
    <3>2. /\ Lesser(startIndex, ixEnd' + 1) \in Int
          /\ Lesser(startIndex, ixEnd' + 1) <= startIndex
      BY <3>1, LesserOf
    <3> QED BY <2>1, <3>1, <3>2, FilledLower
  <2>3. \A c \in stored : c <= ixEnd'
    BY <1>1, <1>2 DEF IInv, Ranges, HistoryRange, Lesser, Tip
  <2> QED
    BY <1>1, <1>2, <1>3, <2>1, <2>2, <2>3
       DEF IInv, HistoryFilled, HistoryRange, HistoryPc, Filled, TypeOK
<1>9. ContinuousFilled'
  BY DEF HistoryRange, ContinuousFilled, ContinuousPc
<1> QED BY <1>2, <1>3, <1>5, <1>6, <1>7, <1>8, <1>9 DEF IInv

\* Nothing about the blocks or the plan of the run changes in these steps.
LEMMA ChainKeeps ==
    ASSUME IInv, Chain
    PROVE  IInv'
<1> USE DEF Chain, ChainGrows, plan, dropVars
<1>1. TypeOK'
  BY EngineAssumption DEF IInv, TypeOK, Block
<1>2. First' = First /\ Last' = Last
  BY DEF First, Last
<1>3. /\ stored' = stored
      /\ Whole' /\ RowsStored' /\ IdOrder' /\ FilledBelowStored'
  BY <1>2, Kept
<1>4. Ranges'
  BY <1>3, Numbers, EngineAssumption DEF IInv, Ranges
<1>5. MissingRows' /\ DropInside'
  BY <1>3 DEF IInv, MissingRows, DropInside
<1>6. HistoryFilled' /\ ContinuousFilled'
  BY <1>2, <1>3 DEF IInv, HistoryFilled, ContinuousFilled, Filled, LastInRound
<1> QED BY <1>1, <1>3, <1>4, <1>5, <1>6 DEF IInv

LEMMA HistoryFailsKeeps ==
    ASSUME IInv, HistoryFails
    PROVE  IInv'
<1> USE DEF HistoryFails, plan, dropVars
<1>1. TypeOK'
  BY EngineAssumption DEF IInv, TypeOK, EnginePc, HistoryPc
<1>2. First' = First /\ Last' = Last
  BY DEF First, Last
<1>3. /\ stored' = stored
      /\ Whole' /\ RowsStored' /\ IdOrder' /\ FilledBelowStored'
  BY <1>2, Kept
<1>4. Ranges'
  BY <1>3 DEF IInv, Ranges, HistoryPc
<1>5. MissingRows' /\ DropInside'
  BY <1>3 DEF IInv, MissingRows, DropInside, HistoryPc, ContinuousPc
<1>6. HistoryFilled' /\ ContinuousFilled'
  BY <1>2, <1>3 DEF IInv, HistoryFilled, ContinuousFilled, Filled, HistoryPc, ContinuousPc
<1> QED BY <1>1, <1>3, <1>4, <1>5, <1>6 DEF IInv

LEMMA ContinuousFailsKeeps ==
    ASSUME IInv, ContinuousFails, UNCHANGED <<dropVars, blockId, nextId>>
    PROVE  IInv'
<1> USE DEF ContinuousFails, plan, dropVars
<1>1. TypeOK'
  BY EngineAssumption DEF IInv, TypeOK, EnginePc, ContinuousPc
<1>2. First' = First /\ Last' = Last
  BY DEF First, Last
<1>3. /\ stored' = stored
      /\ Whole' /\ RowsStored' /\ IdOrder' /\ FilledBelowStored'
  BY <1>2, Kept
<1>4. Ranges'
  BY <1>3 DEF IInv, Ranges, HistoryPc
<1>5. MissingRows' /\ DropInside'
  BY <1>3 DEF IInv, MissingRows, DropInside, ContinuousPc
<1>6. HistoryFilled' /\ ContinuousFilled'
  BY <1>2, <1>3 DEF IInv, HistoryFilled, ContinuousFilled, Filled, HistoryPc, ContinuousPc
<1> QED BY <1>1, <1>3, <1>4, <1>5, <1>6 DEF IInv

LEMMA DropFailsKeeps ==
    ASSUME IInv, DropFails, UNCHANGED <<blockId, nextId>>
    PROVE  IInv'
<1> USE DEF DropFails, plan
<1>1. TypeOK'
  BY EngineAssumption DEF IInv, TypeOK, DropPc, Block
<1>2. First' = First /\ Last' = Last
  BY DEF First, Last
<1>3. /\ stored' = stored
      /\ Whole' /\ RowsStored' /\ IdOrder' /\ FilledBelowStored'
  BY <1>2, Kept
<1>4. Ranges'
  BY <1>3 DEF IInv, Ranges
<1>5. MissingRows' /\ DropInside'
  BY <1>3 DEF IInv, MissingRows, DropInside
<1>6. HistoryFilled' /\ ContinuousFilled'
  BY <1>2, <1>3 DEF IInv, HistoryFilled, ContinuousFilled, Filled, LastInRound
<1> QED BY <1>1, <1>3, <1>4, <1>5, <1>6 DEF IInv

LEMMA ProcessEndsKeeps ==
    ASSUME IInv, ProcessEnds, DropEnds, UNCHANGED <<blockId, nextId>>
    PROVE  IInv'
<1> USE DEF ProcessEnds, DropEnds
<1>1. TypeOK'
  <2>1. "logs" \in Table /\ 0 \in Block
    BY EngineAssumption DEF Table, Block
  <2>2. faults' \in 0 .. MaxFaults
    BY EngineAssumption DEF IInv, TypeOK
  <2>3. synced' \in BOOLEAN /\ pc' \in EnginePc /\ dpc' \in DropPc
    BY DEF EnginePc, DropPc
  <2> QED BY <2>1, <2>2, <2>3 DEF IInv, TypeOK
<1>2. First' = First /\ Last' = Last
  BY DEF First, Last
<1>3. /\ stored' = stored
      /\ Whole' /\ RowsStored' /\ IdOrder' /\ FilledBelowStored'
  BY <1>2, Kept
<1>4. Ranges'
  BY <1>3, Numbers DEF IInv, Ranges, HistoryPc
<1>5. MissingRows' /\ DropInside'
  BY <1>3, Numbers DEF IInv, MissingRows, DropInside
<1>6. HistoryFilled' /\ ContinuousFilled'
  BY DEF HistoryFilled, ContinuousFilled, HistoryPc, ContinuousPc
<1> QED BY <1>1, <1>3, <1>4, <1>5, <1>6 DEF IInv

LEMMA ProcessStartsKeeps ==
    ASSUME IInv, ProcessStarts, UNCHANGED <<dropVars, blockId, nextId>>
    PROVE  IInv'
<1> USE DEF ProcessStarts, plan, dropVars
<1>1. TypeOK'
  BY DEF IInv, TypeOK, EnginePc
<1>2. First' = First /\ Last' = Last
  BY DEF First, Last
<1>3. /\ stored' = stored
      /\ Whole' /\ RowsStored' /\ IdOrder' /\ FilledBelowStored'
  BY <1>2, Kept
<1>4. Ranges'
  BY <1>3 DEF IInv, Ranges, HistoryPc
<1>5. MissingRows' /\ DropInside'
  BY <1>3 DEF IInv, MissingRows, DropInside, ContinuousPc
<1>6. HistoryFilled' /\ ContinuousFilled'
  BY DEF HistoryFilled, ContinuousFilled, HistoryPc, ContinuousPc
<1> QED BY <1>1, <1>3, <1>4, <1>5, <1>6 DEF IInv

LEMMA FinishKeeps ==
    ASSUME IInv, Finish
    PROVE  IInv'
<1> USE DEF Finish, ContinuousReturns, DropEnds, plan
<1>1. TypeOK'
  <2>1. "logs" \in Table /\ 0 \in Block
    BY EngineAssumption DEF Table, Block
  <2> QED BY <2>1, EngineAssumption DEF IInv, TypeOK, EnginePc, DropPc
<1>2. First' = First /\ Last' = Last
  BY DEF First, Last
<1>3. /\ stored' = stored
      /\ Whole' /\ RowsStored' /\ IdOrder' /\ FilledBelowStored'
  BY <1>2, Kept
<1>4. Ranges'
  BY <1>3 DEF IInv, Ranges, HistoryPc
<1>5. MissingRows' /\ DropInside'
  BY <1>3, Numbers DEF IInv, MissingRows, DropInside
<1>6. HistoryFilled' /\ ContinuousFilled'
  BY DEF HistoryFilled, ContinuousFilled, HistoryPc, ContinuousPc
<1> QED BY <1>1, <1>3, <1>4, <1>5, <1>6 DEF IInv

LEMMA StutterKeeps ==
    ASSUME IInv, UNCHANGED fullVars
    PROVE  IInv'
<1> USE DEF fullVars, engineVars, dropVars
<1>1. TypeOK'
  BY DEF IInv, TypeOK
<1>2. First' = First /\ Last' = Last
  BY DEF First, Last
<1>3. /\ stored' = stored
      /\ Whole' /\ RowsStored' /\ IdOrder' /\ FilledBelowStored'
  BY <1>2, Kept
<1>4. Ranges'
  BY <1>3 DEF IInv, Ranges
<1>5. MissingRows' /\ DropInside'
  BY <1>3 DEF IInv, MissingRows, DropInside
<1>6. HistoryFilled' /\ ContinuousFilled'
  BY <1>2, <1>3 DEF IInv, HistoryFilled, ContinuousFilled, Filled, LastInRound
<1> QED BY <1>1, <1>3, <1>4, <1>5, <1>6 DEF IInv


\* The end of the range only moves up, to a confirmed block.
LEMMA HistoryExtendKeeps ==
    ASSUME IInv, HistoryExtend, UNCHANGED <<dropVars, blockId, nextId>>
    PROVE  IInv'
<1> USE DEF plan, dropVars
<1>1. TypeOK /\ MissingRows /\ ObserveTip /\ pc = "hist_extend"
  BY DEF IInv, HistoryExtend
<1>2. /\ Tip \in Nat /\ Tip <= head /\ Tip \in Block
      /\ states' \in [StateName -> RowType]
      /\ First' = First /\ Last' = Last
      /\ MissingRows'
  BY <1>1, TipObserved, Typed
<1>3. /\ stored' = stored
      /\ Whole' /\ RowsStored' /\ IdOrder' /\ FilledBelowStored'
  BY <1>2, Kept DEF HistoryExtend
<1>4. /\ ixEnd' \in Nat /\ ixEnd <= ixEnd'
      /\ ixEnd' = ixEnd \/ (ixEnd' <= Tip /\ ixEnd' <= StopIndex)
  <2>1. Tip \in Int /\ StopIndex \in Int /\ StopIndex \in Nat
    BY <1>2, EngineAssumption
  <2> QED BY <1>1, <1>2, <2>1, LesserOf, Numbers DEF HistoryExtend
<1>5. cursor <= ixEnd
  BY <1>1 DEF IInv, Ranges
<1>6. TypeOK'
  BY <1>1, <1>2, <1>4 DEF TypeOK, HistoryExtend, EnginePc, HistoryPc
<1>7. Ranges'
  BY <1>1, <1>2, <1>3, <1>4, EngineAssumption, Numbers
     DEF Ranges, HistoryExtend, HistoryPc, Tip, IInv
<1>8. DropInside'
  BY <1>1, <1>3 DEF IInv, DropInside, HistoryExtend, ContinuousPc
<1>9. HistoryFilled'
  <2>1. Lesser(cursor, ixEnd + 1) = cursor /\ Lesser(cursor', ixEnd' + 1) = cursor
    BY <1>1, <1>4, <1>5, Numbers DEF Lesser, HistoryExtend
  <2>2. Filled(startIndex) /\ Filled(cursor)
    BY <1>1, <2>1 DEF IInv, HistoryFilled, HistoryPc
  <2>3. \A c \in stored : c <= ixEnd'
    BY <1>1, <1>4, Numbers DEF IInv, HistoryFilled, HistoryPc
  <2>4. \A c \in stored : \A b \in startIndex .. c : b \in stored
    BY <1>1 DEF IInv, HistoryFilled, HistoryPc
  <2>5. \A b \in Block : startIndex <= b /\ b < cursor => b \in stored
    BY <1>1, <1>5, Numbers DEF IInv, HistoryFilled, HistoryPc
  <2> QED
    BY <1>2, <1>3, <2>1, <2>2, <2>3, <2>4, <2>5
       DEF HistoryFilled, HistoryExtend, Filled
<1>10. ContinuousFilled'
  BY DEF HistoryExtend, ContinuousFilled, ContinuousPc
<1> QED BY <1>2, <1>3, <1>6, <1>7, <1>8, <1>9, <1>10 DEF IInv

LEMMA ContinuousRangeKeeps ==
    ASSUME IInv, ContinuousRange, UNCHANGED <<dropVars, blockId, nextId>>
    PROVE  IInv'
<1> USE DEF plan, dropVars
<1>1. TypeOK /\ MissingRows /\ ObserveTip /\ pc = "cont_range"
  BY DEF IInv, ContinuousRange
<1>2. /\ Tip \in Nat /\ Tip <= head /\ Tip \in Block
      /\ states' \in [StateName -> RowType]
      /\ First' = First /\ Last' = Last
      /\ MissingRows'
  BY <1>1, TipObserved, Typed
<1>3. /\ stored' = stored
      /\ Whole' /\ RowsStored' /\ IdOrder' /\ FilledBelowStored'
  BY <1>2, Kept DEF ContinuousRange
<1>4. ixEnd' \in Nat /\ ixEnd' <= Tip
  <2>1. Tip \in Int /\ StopIndex \in Int /\ StopIndex \in Nat
    BY <1>2, EngineAssumption
  <2> QED BY <1>2, <2>1, LesserOf DEF ContinuousRange
<1>5. TypeOK'
  BY <1>1, <1>2, <1>4 DEF TypeOK, ContinuousRange, EnginePc, ContinuousPc
<1>6. Ranges'
  BY <1>1, <1>2, <1>3, <1>4, EngineAssumption, Numbers
     DEF Ranges, ContinuousRange, HistoryPc, Tip, IInv
<1>7. DropInside'
  BY <1>1, <1>3 DEF IInv, DropInside, ContinuousRange, ContinuousPc
<1>8. HistoryFilled'
  BY DEF ContinuousRange, HistoryFilled, HistoryPc
<1>9. ContinuousFilled'
  BY <1>1, <1>2, <1>3 DEF IInv, ContinuousRange, ContinuousFilled, ContinuousPc, Filled
<1> QED BY <1>2, <1>3, <1>5, <1>6, <1>7, <1>8, <1>9 DEF IInv

LEMMA ContinuousPollKeeps ==
    ASSUME IInv, ContinuousPoll, UNCHANGED <<dropVars, blockId, nextId>>
    PROVE  IInv'
<1> USE DEF plan, dropVars
<1>1. TypeOK /\ MissingRows /\ ObserveTip /\ pc = "cont"
  BY DEF IInv, ContinuousPoll
<1>2. /\ Tip \in Nat /\ Tip <= head /\ Tip \in Block
      /\ states' \in [StateName -> RowType]
      /\ First' = First /\ Last' = Last
      /\ MissingRows'
  BY <1>1, TipObserved, Typed
<1>3. /\ stored' = stored
      /\ Whole' /\ RowsStored' /\ IdOrder' /\ FilledBelowStored'
  BY <1>2, Kept DEF ContinuousPoll
<1>4. TypeOK'
  BY <1>1, <1>2 DEF TypeOK, ContinuousPoll
<1>5. Ranges'
  BY <1>1, <1>2, <1>3, EngineAssumption, Numbers
     DEF Ranges, ContinuousPoll, HistoryPc, Tip, IInv
<1>6. DropInside'
  BY <1>1, <1>3 DEF IInv, DropInside, ContinuousPoll, ContinuousPc
<1>7. HistoryFilled'
  BY DEF ContinuousPoll, HistoryFilled, HistoryPc
<1>8. ContinuousFilled'
  BY <1>1, <1>2, <1>3 DEF IInv, ContinuousPoll, ContinuousFilled, ContinuousPc, Filled
<1> QED BY <1>2, <1>3, <1>4, <1>5, <1>6, <1>7, <1>8 DEF IInv

\* The continuous run resumes one past the end of the history run or one past
\* the LastIndexed row; the database is filled up to both.
LEMMA ContinuousStartKeeps ==
    ASSUME IInv, ContinuousStart, UNCHANGED <<dropVars, blockId, nextId>>
    PROVE  IInv'
<1> USE DEF plan, dropVars
<1>1. TypeOK /\ pc = "cont_start" /\ states' = states
  BY DEF IInv, ContinuousStart
<1>2. First' = First /\ Last' = Last
  BY <1>1 DEF First, Last
<1>3. /\ stored' = stored
      /\ Whole' /\ RowsStored' /\ IdOrder' /\ FilledBelowStored'
  BY <1>2, Kept DEF ContinuousStart
<1>4. /\ cursor' \in Nat
      /\ Last.index < cursor' /\ histLast < cursor'
      /\ cursor' = histLast + 1 \/ (Last.exists /\ cursor' = Last.index + 1)
  <2>1. cursor' = ResumeIndex(histLast, Last)
    BY DEF ContinuousStart, Last
  <2>2. ~Last.exists => Last.index = 0
    BY DEF IInv, MissingRows, Last, StateName, NoRow
  <2> QED BY <1>1, <2>1, <2>2, Numbers DEF ResumeIndex, IsSet
<1>5. TypeOK'
  BY <1>1, <1>4 DEF TypeOK, ContinuousStart, EnginePc, ContinuousPc
<1>6. Ranges' /\ MissingRows' /\ DropInside'
  BY <1>1, <1>3 DEF IInv, Ranges, MissingRows, DropInside, ContinuousStart,
                    HistoryPc, ContinuousPc
<1>7. HistoryFilled'
  BY DEF ContinuousStart, HistoryFilled, HistoryPc
<1>8. Filled(cursor')
  <2>1. CASE cursor' = histLast + 1
    BY <1>1, <2>1 DEF IInv, ContinuousFilled, ContinuousPc
  <2>2. CASE Last.exists /\ cursor' = Last.index + 1
    <3>1. CASE Last.index \in stored
      BY <2>2, <3>1 DEF IInv, FilledBelowStored
    <3>2. CASE BlockTime(Last.index) < horizon
      <4>1. Last.index \in Block
        BY <2>2 DEF IInv, RowsStored
      <4>2. \A b \in Block : b < cursor' => BlockTime(b) < horizon
        <5> SUFFICES ASSUME NEW b \in Block, b < cursor' PROVE BlockTime(b) < horizon
          OBVIOUS
        <5>1. b <= Last.index
          BY <1>1, <2>2, Numbers
        <5>2. BlockTime(b) <= BlockTime(Last.index)
          BY <4>1, <5>1, EngineAssumption
        <5> QED BY <1>1, <3>2, <4>1, <5>2, Numbers
      <4> QED BY <1>1, <4>2, Numbers DEF Filled, FilledIn
    <3> QED BY <2>2, <3>1, <3>2 DEF IInv, RowsStored
  <2> QED BY <1>4, <2>1, <2>2
<1>9. ContinuousFilled'
  <2>1. \A c \in stored : c <= histLast + 1 \/ c <= Last.index + 1
    BY <1>1 DEF IInv, ContinuousFilled, ContinuousPc
  <2>2. \A c \in stored : c <= cursor'
    BY <1>1, <1>4, <2>1, Numbers
  <2>3. Filled(histLast + 1)
    BY <1>1 DEF IInv, ContinuousFilled, ContinuousPc
  <2> QED
    BY <1>1, <1>2, <1>3, <1>4, <1>8, <2>1, <2>2, <2>3, Numbers
       DEF ContinuousFilled, ContinuousStart, Filled
<1> QED BY <1>3, <1>5, <1>6, <1>7, <1>9 DEF IInv


\* The first batch's floor and the batch's last block are both stored.
LEMMA HistoryStatesKeeps ==
    ASSUME IInv, HistoryStates, UNCHANGED <<dropVars, blockId, nextId>>
    PROVE  IInv'
<1> DEFINE hi == LastInRound
           FilledNow(x) == FilledIn(stored, First', horizon, x)
<1> USE DEF plan, dropVars
<1>1. TypeOK /\ MissingRows /\ pc = "hist_states" /\ PublishCoverage(cursor, hi)
  BY DEF IInv, HistoryStates
<1>2. cursor <= ixEnd /\ startIndex <= cursor
  BY <1>1 DEF IInv, Ranges, HistoryPc
<1>3. BatchSize \in Int /\ BatchSize > 0 /\ cursor \in Int /\ ixEnd \in Int
  BY <1>1, EngineAssumption, Numbers
<1>4. /\ hi \in Int /\ cursor <= hi /\ hi <= ixEnd
      /\ Lesser(cursor + BatchSize, ixEnd + 1) = hi + 1
  BY <1>2, <1>3 DEF LastInRound, Lesser
<1>5. \A b \in cursor .. hi : b \in stored
  BY <1>1 DEF IInv, HistoryFilled, HistoryPc
<1>6. cursor \in stored /\ hi \in stored /\ cursor \in Block /\ hi \in Block
  BY <1>1, <1>3, <1>4, <1>5, Numbers
<1> HIDE DEF hi
<1>7. /\ states' \in [StateName -> RowType]
      /\ Last'.exists /\ Last'.index = hi
      /\ First'.exists
      /\ First' = First \/ First'.index = cursor
      /\ MissingRows'
  BY <1>1, <1>6, CoveragePublished, Typed
<1>8. /\ stored' = stored /\ horizon' = horizon /\ rows' = rows
      /\ startIndex' = startIndex /\ ixEnd' = ixEnd
      /\ cursor' = cursor + BatchSize /\ pc' \in {"hist", "hist_extend"}
  BY DEF HistoryStates, stored
<1>9. \A x : Filled(x) => FilledNow(x)
  BY <1>6, <1>7, FilledFloor DEF Filled
<1> HIDE DEF FilledNow
<1>10. TypeOK'
  <2>1. cursor' \in Nat
    BY <1>1, <1>3, <1>8, Numbers
  <2> QED BY <1>1, <1>7, <1>8, <2>1 DEF TypeOK, HistoryStates, EnginePc, HistoryPc
<1>11. Ranges'
  <2>1. ShouldUpdateLastIndex => cursor' <= ixEnd
    BY <1>3, <1>8 DEF ShouldUpdateLastIndex
  <2>2. startIndex <= cursor'
    BY <1>1, <1>2, <1>3, <1>8, Numbers
  <2> QED BY <1>1, <1>8, <2>1, <2>2 DEF IInv, Ranges, HistoryStates, HistoryPc
<1>12. DropInside'
  BY <1>1, <1>8 DEF IInv, DropInside, ContinuousPc
<1>13. Whole' /\ IdOrder'
  BY <1>8 DEF IInv, Whole, Covered, IdOrder
<1>14. RowsStored'
  BY <1>1, <1>6, <1>7, <1>8 DEF IInv, RowsStored
<1>15. FilledBelowStored'
  <2>1. \A c \in stored : FilledNow(c + 1)
    BY <1>9 DEF IInv, FilledBelowStored
  <2> QED BY <1>8, <2>1 DEF FilledBelowStored, Filled, FilledNow
<1>16. HistoryFilled'
  <2>1. FilledNow(startIndex) /\ FilledNow(hi + 1)
    BY <1>1, <1>6, <1>9 DEF IInv, HistoryFilled, HistoryPc, FilledBelowStored
  <2>2. /\ \A c \in stored : c <= ixEnd
        /\ \A c \in stored : \A b \in startIndex .. c : b \in stored
        /\ \A b \in Block : startIndex <= b /\ b < cursor /\ b <= ixEnd => b \in stored
    BY <1>1 DEF IInv, HistoryFilled, HistoryPc
  <2>3. \A b \in Block : startIndex <= b /\ b < cursor' /\ b <= ixEnd => b \in stored
    <3> SUFFICES ASSUME NEW b \in Block, startIndex <= b, b < cursor', b <= ixEnd
                 PROVE  b \in stored
      OBVIOUS
    <3>1. CASE b < cursor
      BY <2>2, <3>1
    <3>2. CASE cursor <= b
      <4>1. b \in cursor .. hi
        BY <1>1, <1>3, <1>4, <1>8, <3>2, Numbers DEF Lesser
      <4> QED BY <1>5, <4>1 DEF hi
    <3> QED BY <1>1, <1>3, <3>1, <3>2, Numbers
  <2> QED BY <1>4, <1>8, <2>1, <2>2, <2>3 DEF HistoryFilled, Filled, FilledNow
<1>17. ContinuousFilled'
  BY <1>8 DEF ContinuousFilled, ContinuousPc
<1> QED BY <1>7, <1>10, <1>11, <1>12, <1>13, <1>14, <1>15, <1>16, <1>17 DEF IInv

\* The block just indexed is stored, or the deletion loop has taken it since.
LEMMA ContinuousStatesKeeps ==
    ASSUME IInv, ContinuousStates, UNCHANGED <<dropVars, blockId, nextId>>
    PROVE  IInv'
<1> DEFINE FilledNow(x) == FilledIn(stored, First', horizon, x)
<1> USE DEF plan, dropVars
<1>1. /\ TypeOK /\ MissingRows /\ pc = "cont_states"
      /\ PublishCoverage(cursor, cursor)
  BY DEF IInv, ContinuousStates
<1>2. cursor \in Block /\ cursor \in Int
  <2>1. cursor <= ixEnd /\ ixEnd <= head
    BY <1>1 DEF IInv, Ranges
  <2> QED BY <1>1, <2>1, Numbers DEF Block
<1>3. /\ states' \in [StateName -> RowType]
      /\ Last'.exists /\ Last'.index = cursor
      /\ First'.exists
      /\ First' = First \/ First'.index = cursor
      /\ MissingRows'
  BY <1>1, <1>2, CoveragePublished, Typed
<1>4. /\ stored' = stored /\ horizon' = horizon /\ rows' = rows
      /\ histLast' = histLast /\ ixEnd' = ixEnd
      /\ cursor' = cursor + 1 /\ pc' = "cont"
  BY DEF ContinuousStates, stored
<1>5. cursor \in stored \/ BlockTime(cursor) < horizon
  BY <1>1 DEF IInv, ContinuousFilled, ContinuousPc
<1>6. \A x \in Int : x <= cursor + 1 /\ Filled(x) => FilledNow(x)
  <2> SUFFICES ASSUME NEW x \in Int, x <= cursor + 1, Filled(x)
               PROVE  FilledNow(x)
    OBVIOUS
  <2>1. CASE First' = First \/ cursor \in stored
    BY <1>3, <2>1, FilledFloor DEF Filled
  <2>2. CASE First'.index = cursor /\ BlockTime(cursor) < horizon
    BY <1>1, <1>2, <2>2, FilledPast, Numbers DEF Filled
  <2> QED BY <1>3, <1>5, <2>1, <2>2
<1> HIDE DEF FilledNow
<1>7. /\ \A c \in stored : c <= cursor
      /\ histLast < cursor /\ Filled(cursor) /\ Filled(histLast + 1)
      /\ \A c \in stored : c \in Int
  BY <1>1, Numbers DEF IInv, ContinuousFilled, ContinuousPc
<1>8. TypeOK'
  BY <1>1, <1>2, <1>3, <1>4, Numbers DEF TypeOK, ContinuousStates, EnginePc, ContinuousPc
<1>9. Ranges' /\ DropInside'
  BY <1>1, <1>4 DEF IInv, Ranges, DropInside, ContinuousStates, HistoryPc, ContinuousPc
<1>10. Whole' /\ IdOrder'
  BY <1>4 DEF IInv, Whole, Covered, IdOrder
<1>11. RowsStored'
  BY <1>1, <1>2, <1>3, <1>4, <1>5 DEF IInv, RowsStored
<1>12. FilledBelowStored'
  <2> SUFFICES ASSUME NEW c \in stored PROVE FilledNow(c + 1)
    BY <1>4 DEF FilledBelowStored, Filled, FilledNow
  <2>1. c + 1 \in Int /\ c + 1 <= cursor + 1 /\ Filled(c + 1)
    BY <1>2, <1>7 DEF IInv, FilledBelowStored
  <2> QED BY <1>6, <2>1
<1>13. HistoryFilled'
  BY <1>4 DEF HistoryFilled, HistoryPc
<1>14. FilledNow(cursor + 1)
  <2>1. Filled(cursor + 1)
    <3>1. CASE cursor \in stored
      BY <3>1 DEF IInv, FilledBelowStored
    <3>2. CASE BlockTime(cursor) < horizon
      <4>1. \A b \in Block : b < cursor + 1 => b < cursor \/ b = cursor
        BY <1>1, <1>2, Numbers
      <4>2. BlockTime(cursor) \in Int /\ horizon \in Int
        BY <1>1, <1>2, Numbers
      <4> QED BY <1>7, <3>2, <4>1, <4>2 DEF Filled, FilledIn
    <3> QED BY <1>5, <3>1, <3>2
  <2> QED BY <1>2, <1>6, <2>1
<1>15. FilledNow(histLast + 1)
  BY <1>1, <1>2, <1>6, <1>7, Numbers
<1>16. ContinuousFilled'
  <2>1. \A c \in stored : c <= Last'.index + 1 /\ c <= cursor'
    BY <1>2, <1>3, <1>4, <1>7
  <2>2. Last'.index < cursor' /\ histLast < cursor' /\ cursor' <= Last'.index + 1
    BY <1>1, <1>2, <1>3, <1>4, <1>7, Numbers
  <2> QED BY <1>4, <1>14, <1>15, <2>1, <2>2 DEF ContinuousFilled, Filled, FilledNow
<1> QED BY <1>3, <1>8, <1>9, <1>10, <1>11, <1>12, <1>13, <1>16 DEF IInv


\* New blocks of a batch are above every stored one, so that the ids stay in
\* order, and the range goes in where the database is filled.
LEMMA IndexBatchKeeps ==
    ASSUME IInv, IndexBatch
    PROVE  IInv'
<1> DEFINE hi == LastInRound
           FilledNow(x) == FilledIn(stored', First, horizon, x)
<1> USE DEF plan, dropVars
<1>1. /\ TypeOK /\ pc = "hist" /\ pc' = "hist_states" /\ cursor <= ixEnd
      /\ Insert(cursor, hi) /\ AssignIds(cursor, hi)
      /\ states' = states /\ horizon' = horizon /\ dpc' = dpc /\ cursor' = cursor
      /\ startIndex' = startIndex /\ ixEnd' = ixEnd /\ head' = head
  BY DEF IInv, IndexBatch, HistoryBatch
<1>2. /\ startIndex <= cursor /\ ixEnd <= head
      /\ ixEnd <= head - Confirmations /\ ixEnd <= StopIndex
  BY <1>1 DEF IInv, Ranges, HistoryPc
<1>3. /\ BatchSize \in Int /\ BatchSize > 0 /\ cursor \in Int /\ ixEnd \in Int
      /\ startIndex \in Int /\ head \in Int /\ 0 <= cursor /\ head <= MaxBlock
      /\ Confirmations \in Int /\ StopIndex \in Int /\ MaxBlock \in Int
      /\ \A c \in stored : c \in Int /\ c \in Block
  BY <1>1, EngineAssumption, Numbers
<1>4. hi \in Int /\ cursor <= hi /\ hi <= ixEnd /\ hi' = hi
  BY <1>1, <1>3 DEF LastInRound, Lesser
<1> HIDE DEF hi
<1>5. cursor \in Block /\ hi \in Block
  BY <1>1, <1>2, <1>3, <1>4 DEF Block
<1>6. /\ stored' = stored \cup (cursor .. hi)
      /\ rows' \in [Table -> SUBSET Block]
      /\ \A t \in Table : rows'[t] \subseteq Content(t)
      /\ cursor .. hi \subseteq Block
  BY <1>1, <1>5, Inserted, Typed
<1>7. /\ Filled(startIndex) /\ Filled(Lesser(cursor, ixEnd + 1))
      /\ \A c \in stored : c <= ixEnd
      /\ \A c \in stored : \A b \in startIndex .. c : b \in stored
      /\ \A b \in Block : startIndex <= b /\ b < cursor /\ b <= ixEnd => b \in stored
  BY <1>1 DEF IInv, HistoryFilled, HistoryPc
<1>8. Filled(cursor) /\ Lesser(cursor, ixEnd + 1) = cursor
  BY <1>1, <1>3, <1>7 DEF Lesser
<1>9. /\ blockId' \in [Block -> Nat] /\ nextId' \in Nat
      /\ IdOrder'
  <2>1. \A b \in cursor .. hi : b \in stored \/ \A c \in stored : c < b
    BY <1>2, <1>3, <1>4, <1>7
  <2> QED BY <1>1, <1>4, <1>5, <1>6, <2>1, IdsAssigned DEF IInv
<1>10. First' = First /\ Last' = Last
  BY <1>1 DEF First, Last
<1>11. TypeOK'
  BY <1>1, <1>6, <1>9 DEF TypeOK, IndexBatch, HistoryBatch, EnginePc, HistoryPc
<1>12. \A b \in cursor .. hi : b <= head - Confirmations /\ b <= StopIndex /\ b <= ixEnd
  BY <1>2, <1>3, <1>4
<1>13. Ranges'
  BY <1>1, <1>6, <1>12 DEF IInv, Ranges, HistoryPc
<1>14. MissingRows' /\ DropInside'
  BY <1>1 DEF IInv, MissingRows, DropInside, IndexBatch, HistoryPc, ContinuousPc
<1>15. Whole'
  BY <1>1, <1>5, WholeInserted, Typed DEF IInv
<1>16. RowsStored'
  BY <1>1, <1>6, <1>10 DEF IInv, RowsStored
<1>17. FilledNow(hi + 1) /\ FilledNow(cursor) /\ FilledNow(startIndex)
  <2>1. stored \subseteq Block
    BY <1>1, Numbers
  <2>2. FilledIn(stored, First, horizon, cursor) /\ FilledIn(stored, First, horizon, startIndex)
    BY <1>7, <1>8 DEF Filled
  <2>3. FilledNow(hi + 1)
    BY <1>3, <1>4, <1>6, <2>1, <2>2, FilledInsert
  <2>4. FilledIn(stored \cup (cursor .. hi), First, horizon, cursor)
    <3>1. cursor \in Int /\ hi \in Int /\ cursor <= cursor
      BY <1>3, <1>4
    <3> QED BY <2>1, <2>2, <3>1, FilledAbove
  <2>5. FilledIn(stored \cup (cursor .. hi), First, horizon, startIndex)
    BY <1>2, <1>3, <1>4, <2>1, <2>2, FilledAbove
  <2> QED BY <1>6, <2>3, <2>4, <2>5
<1>18. \A c \in stored' : \A b \in startIndex .. c : b \in stored'
  <2> SUFFICES ASSUME NEW c \in stored', NEW b \in startIndex .. c PROVE b \in stored'
    OBVIOUS
  <2>1. CASE c \in stored
    BY <1>6, <1>7, <2>1
  <2>2. CASE c \in cursor .. hi
    <3>1. b \in Int /\ startIndex <= b /\ b <= c /\ c <= hi
      BY <1>3, <1>4, <2>2
    <3>2. CASE b < cursor
      <4>1. b \in Block /\ b <= ixEnd
        BY <1>2, <1>3, <1>4, <3>1, <3>2, Numbers, <1>1 DEF Block
      <4> QED BY <1>6, <1>7, <3>1, <3>2, <4>1
    <3>3. CASE cursor <= b
      BY <1>3, <1>4, <1>6, <3>1, <3>3
    <3> QED BY <1>3, <3>1, <3>2, <3>3
  <2> QED BY <1>6, <2>1, <2>2
<1>19. FilledBelowStored'
  <2> SUFFICES ASSUME NEW c \in stored' PROVE FilledNow(c + 1)
    BY <1>1, <1>10 DEF FilledBelowStored, Filled, FilledNow
  <2>1. c \in Int
    BY <1>3, <1>6
  <2>2. CASE c <= hi
    BY <1>4, <1>17, <2>1, <2>2, FilledLower
  <2>3. CASE hi < c
    <3> SUFFICES ASSUME NEW b \in Block, b < c + 1, BlockTime(b) >= horizon,
                        (First.exists /\ First.index <= b) \/ \E a \in stored' : a <= b
                 PROVE  b \in stored'
      BY DEF FilledNow, FilledIn
    <3>1. b \in Int
      BY <1>1, Numbers
    <3>2. CASE b <= hi
      BY <1>4, <1>17, <3>1, <3>2 DEF FilledNow, FilledIn
    <3>3. CASE hi < b
      <4>1. b \in startIndex .. c
        BY <1>2, <1>3, <1>4, <2>1, <3>1, <3>3
      <4> QED BY <1>18, <4>1
    <3> QED BY <1>4, <3>1, <3>2, <3>3
  <2> QED BY <1>4, <2>1, <2>2, <2>3
<1> HIDE DEF FilledNow
<1>20. HistoryFilled'
  <2>1. \A c \in stored' : c <= ixEnd
    BY <1>6, <1>7, <1>12
  <2>2. \A b \in Block : startIndex <= b /\ b < cursor /\ b <= ixEnd => b \in stored'
    BY <1>6, <1>7
  <2>3. \A b \in cursor .. hi : b \in stored'
    BY <1>6
  <2>4. LastInRound' = hi
    BY <1>4 DEF hi
  <2> QED
    BY <1>1, <1>8, <1>10, <1>17, <1>18, <2>1, <2>2, <2>3, <2>4
       DEF HistoryFilled, Filled, FilledNow
<1>21. ContinuousFilled'
  BY <1>1 DEF ContinuousFilled, ContinuousPc
<1> QED BY <1>9, <1>11, <1>13, <1>14, <1>15, <1>16, <1>19, <1>20, <1>21 DEF IInv

\* The continuous run's block is above every other.
LEMMA IndexBlockKeeps ==
    ASSUME IInv, IndexBlock
    PROVE  IInv'
<1> DEFINE FilledNow(x) == FilledIn(stored', First, horizon, x)
<1> USE DEF plan, dropVars
<1>1. /\ TypeOK /\ pc = "cont" /\ pc' = "cont_states"
      /\ cursor <= ixEnd /\ cursor <= StopIndex
      /\ Insert(cursor, cursor) /\ AssignIds(cursor, cursor)
      /\ states' = states /\ horizon' = horizon /\ cursor' = cursor
      /\ histLast' = histLast /\ ixEnd' = ixEnd /\ head' = head
  BY DEF IInv, IndexBlock, ContinuousBlock
<1>2. ixEnd <= head /\ ixEnd <= head - Confirmations
  BY <1>1 DEF IInv, Ranges
<1>3. /\ cursor \in Int /\ ixEnd \in Int /\ histLast \in Int /\ 0 <= cursor
      /\ head \in Int /\ head <= MaxBlock
      /\ Confirmations \in Int /\ StopIndex \in Int /\ MaxBlock \in Int
      /\ \A c \in stored : c \in Int /\ c \in Block
  BY <1>1, EngineAssumption, Numbers
<1>4. cursor \in Block
  BY <1>1, <1>2, <1>3 DEF Block
<1>5. /\ stored' = stored \cup (cursor .. cursor)
      /\ rows' \in [Table -> SUBSET Block]
      /\ \A t \in Table : rows'[t] \subseteq Content(t)
  BY <1>1, <1>4, Inserted, Typed
<1>6. \A b \in cursor .. cursor : b = cursor
  BY <1>3
<1>7. /\ Filled(histLast + 1) /\ Filled(cursor) /\ histLast < cursor
      /\ \A c \in stored : c <= cursor
      /\ \A c \in stored : c <= histLast + 1 \/ c <= Last.index + 1
      /\ cursor <= histLast + 1 \/ cursor <= Last.index + 1
      /\ Last.index < cursor
  BY <1>1 DEF IInv, ContinuousFilled, ContinuousPc
<1>8. /\ blockId' \in [Block -> Nat] /\ nextId' \in Nat
      /\ IdOrder'
  <2>1. \A b \in cursor .. cursor : b \in stored \/ \A c \in stored : c < b
    BY <1>3, <1>6, <1>7
  <2> QED BY <1>1, <1>3, <1>4, <1>5, <2>1, IdsAssigned DEF IInv
<1>9. First' = First /\ Last' = Last
  BY <1>1 DEF First, Last
<1>10. TypeOK'
  BY <1>1, <1>5, <1>8 DEF TypeOK, IndexBlock, ContinuousBlock, EnginePc, ContinuousPc
<1>11. Ranges'
  <2>1. cursor <= head - Confirmations
    BY <1>1, <1>2, <1>3
  <2> QED BY <1>1, <1>5, <1>6, <2>1 DEF IInv, Ranges, HistoryPc
<1>12. MissingRows' /\ DropInside'
  BY <1>1, <1>5 DEF IInv, MissingRows, DropInside, IndexBlock, ContinuousPc
<1>13. Whole'
  BY <1>1, <1>4, WholeInserted, Typed DEF IInv
<1>14. RowsStored'
  BY <1>1, <1>5, <1>9 DEF IInv, RowsStored
<1>15. FilledNow(cursor + 1) /\ FilledNow(cursor) /\ FilledNow(histLast + 1)
  <2>1. stored \subseteq Block
    BY <1>1, Numbers
  <2>2. FilledIn(stored, First, horizon, cursor) /\ FilledIn(stored, First, horizon, histLast + 1)
    BY <1>7 DEF Filled
  <2>3. FilledNow(cursor + 1)
    <3>1. cursor \in Int /\ cursor <= cursor
      BY <1>3
    <3>2. FilledIn(stored \cup (cursor .. cursor), First, horizon, cursor + 1)
      BY <2>1, <2>2, <3>1, FilledInsert
    <3> QED BY <1>5, <3>2
  <2>4. FilledIn(stored \cup (cursor .. cursor), First, horizon, cursor)
    <3>1. cursor \in Int /\ cursor <= cursor
      BY <1>3
    <3> QED BY <2>1, <2>2, <3>1, FilledAbove
  <2>5. FilledIn(stored \cup (cursor .. cursor), First, horizon, histLast + 1)
    <3>1. histLast + 1 \in Int /\ histLast + 1 <= cursor
      BY <1>3, <1>7
    <3> QED BY <1>3, <2>1, <2>2, <3>1, FilledAbove
  <2> QED BY <1>5, <2>3, <2>4, <2>5
<1>16. FilledBelowStored'
  <2> SUFFICES ASSUME NEW c \in stored' PROVE FilledNow(c + 1)
    BY <1>1, <1>9 DEF FilledBelowStored, Filled, FilledNow
  <2>1. c \in Int /\ c <= cursor
    BY <1>3, <1>5, <1>6, <1>7
  <2> QED BY <1>3, <1>15, <2>1, FilledLower
<1> HIDE DEF FilledNow
<1>17. HistoryFilled'
  BY <1>1 DEF HistoryFilled, HistoryPc
<1>18. ContinuousFilled'
  <2>1. \A c \in stored' : c <= cursor /\ (c <= histLast + 1 \/ c <= Last.index + 1)
    BY <1>3, <1>5, <1>6, <1>7
  <2>2. cursor \in stored'
    BY <1>3, <1>5
  <2> QED
    BY <1>1, <1>7, <1>9, <1>15, <2>1, <2>2 DEF ContinuousFilled, Filled, FilledNow
<1> QED BY <1>8, <1>10, <1>11, <1>12, <1>13, <1>14, <1>16, <1>17, <1>18 DEF IInv

\* The history run hands over where it ended, with everything stored below.
LEMMA GoContinuousKeeps ==
    ASSUME IInv, GoContinuous
    PROVE  IInv'
<1> USE DEF plan, dropVars
<1>1. /\ TypeOK /\ pc = "hist" /\ pc' = "cont_start" /\ ixEnd < cursor
      /\ histLast' = ixEnd /\ ixEnd' = ixEnd /\ rows' = rows /\ states' = states
      /\ boundary' = boundary /\ horizon' = horizon /\ dtable' = dtable
      /\ dpc' \in {dpc, "idle"} /\ (Interval = 0 => dpc' = dpc)
      /\ dfirst' = dfirst /\ head' = head /\ startIndex' = startIndex
      /\ blockId' = blockId /\ nextId' = nextId /\ dpc = "off"
  <2>1. TypeOK /\ DropInside /\ HistoryReturns
    BY DEF IInv, GoContinuous
  <2>2. dpc = "off"
    BY <2>1 DEF DropInside, HistoryReturns, ContinuousPc
  <2>3. Interval \in Nat
    BY FullModeAssumption
  <2> QED BY <2>1, <2>2, <2>3, Numbers DEF GoContinuous, HistoryReturns, DropStarts
<1>2. First' = First /\ Last' = Last
  BY <1>1 DEF First, Last
<1>3. /\ stored' = stored
      /\ Whole' /\ RowsStored' /\ IdOrder' /\ FilledBelowStored'
  BY <1>1, <1>2, Kept
<1>4. TypeOK'
  BY <1>1 DEF TypeOK, GoContinuous, HistoryReturns, EnginePc, ContinuousPc, DropPc
<1>5. Ranges' /\ MissingRows' /\ DropInside'
  BY <1>1, <1>3 DEF IInv, Ranges, MissingRows, DropInside, HistoryPc, ContinuousPc
<1>6. Filled(ixEnd + 1) /\ \A c \in stored : c <= ixEnd /\ c \in Int
  <2>1. Lesser(cursor, ixEnd + 1) = ixEnd + 1
    BY <1>1, Numbers DEF Lesser
  <2> QED BY <1>1, <2>1, Numbers DEF IInv, HistoryFilled, HistoryPc
<1>7. HistoryFilled'
  BY <1>1 DEF HistoryFilled, HistoryPc
<1>8. ContinuousFilled'
  <2>1. \A c \in stored : c <= ixEnd + 1
    BY <1>1, <1>6, Numbers
  <2> QED BY <1>1, <1>2, <1>3, <1>6, <2>1 DEF ContinuousFilled, Filled
<1> QED BY <1>3, <1>4, <1>5, <1>7, <1>8 DEF IInv


-----------------------------------------------------------------------------
(***************************************************************************)
(* The steps of the deletion loop.                                         *)
(***************************************************************************)

\* A higher boundary only takes more blocks out of what the parts speak of.
LEMMA DropResolvesKeeps ==
    ASSUME IInv, DropResolves(TipAgeBoundary), UNCHANGED <<blockId, nextId>>
    PROVE  IInv'
<1> USE DEF engineVars, plan
<1>1. /\ TypeOK /\ dpc = "idle" /\ dpc' = "delete" /\ dtable' = "logs"
      /\ boundary' = TipAgeBoundary /\ horizon' = Higher(horizon, TipAgeBoundary)
      /\ rows' = rows /\ states' = states /\ pc' = pc /\ dfirst' = dfirst
  BY DEF IInv, DropResolves
<1>2. TipAgeBoundary \in Nat
  <2>1. BlockTime(head) \in Nat /\ Interval \in Nat
    BY <1>1, FullModeAssumption, Numbers
  <2> QED BY <2>1 DEF TipAgeBoundary
<1>3. horizon \in Int /\ horizon' \in Nat /\ horizon <= horizon' /\ boundary' <= horizon'
  BY <1>1, <1>2, Numbers DEF Higher
<1>4. First' = First /\ Last' = Last /\ stored' = stored
  BY <1>1 DEF First, Last, stored
<1>5. \A b \in Block : BlockTime(b) \in Int
  BY EngineAssumption
<1>6. \A x : Filled(x) => FilledIn(stored, First, horizon', x)
  BY <1>3, FilledHorizon DEF Filled
<1>7. TypeOK'
  <2>1. "logs" \in Table
    BY DEF Table
  <2> QED BY <1>1, <1>2, <1>3, <2>1 DEF TypeOK, DropResolves, DropPc
<1>8. Ranges' /\ MissingRows'
  BY <1>1, <1>4 DEF IInv, Ranges, MissingRows, DropResolves
<1>9. DropInside'
  <2>1. Interval # 0
    BY <1>1 DEF IInv, DropInside
  <2> QED BY <1>1, <1>3, <2>1 DEF IInv, DropInside
<1>10. Whole'
  <2>1. \A b \in stored \cup rows["transactions"] : BlockTime(b) \in Int
    BY <1>1, <1>5, Numbers DEF TypeOK, Table
  <2> QED BY <1>1, <1>3, <1>4, <2>1 DEF IInv, Whole, Covered
<1>11. RowsStored'
  BY <1>3, <1>4, <1>5 DEF IInv, RowsStored
<1>12. IdOrder'
  BY <1>4 DEF IInv, IdOrder
<1>13. FilledBelowStored'
  BY <1>4, <1>6 DEF IInv, FilledBelowStored, Filled
<1>14. HistoryFilled' /\ ContinuousFilled'
  <2>1. pc \in ContinuousPc
    BY <1>1 DEF IInv, DropInside
  <2>2. pc' \notin HistoryPc
    BY <1>1, <2>1 DEF ContinuousPc, HistoryPc
  <2>3. /\ cursor' = cursor /\ histLast' = histLast
        /\ cursor \in Block => BlockTime(cursor) \in Int
    BY <1>5 DEF DropResolves
  <2>4. pc = "cont_states" => cursor \in Block
    <3>1. pc = "cont_states" => cursor <= ixEnd /\ ixEnd <= head
      BY DEF IInv, Ranges
    <3> QED BY <1>1, <3>1, Numbers DEF Block
  <2>5. FilledIn(stored, First, horizon', histLast + 1)
    BY <1>6, <2>1 DEF IInv, ContinuousFilled
  <2>6. pc # "cont_start" => FilledIn(stored, First, horizon', cursor)
    BY <1>6, <2>1 DEF IInv, ContinuousFilled
  <2>7. pc = "cont_states" => cursor \in stored \/ BlockTime(cursor) < horizon'
    BY <1>3, <2>1, <2>3, <2>4 DEF IInv, ContinuousFilled
  <2> QED
    BY <1>1, <1>4, <2>1, <2>2, <2>3, <2>5, <2>6, <2>7
       DEF IInv, HistoryFilled, ContinuousFilled, Filled
<1> QED BY <1>7, <1>8, <1>9, <1>10, <1>11, <1>12, <1>13, <1>14 DEF IInv

\* Moving on to the next statement changes nothing the invariant speaks of.
LEMMA DropMovesKeeps ==
    ASSUME IInv, UNCHANGED engineVars, UNCHANGED <<boundary, horizon, blockId, nextId>>,
           dpc # "off", dpc' \in DropPc \ {"off"}, dtable' \in Table, dfirst' \in Block,
           dpc' \in {"check", "first", "write"} => dtable' # "transactions",
           dpc' = "write" /\ dtable' = "blocks" => dfirst' \in stored
    PROVE  IInv'
<1> USE DEF engineVars, plan
<1>1. TypeOK'
  BY DEF IInv, TypeOK
<1>2. First' = First /\ Last' = Last
  BY DEF First, Last
<1>3. /\ stored' = stored
      /\ Whole' /\ RowsStored' /\ IdOrder' /\ FilledBelowStored'
  BY <1>2, Kept
<1>4. Ranges' /\ MissingRows' /\ DropInside'
  BY <1>3 DEF IInv, Ranges, MissingRows, DropInside
<1>5. HistoryFilled' /\ ContinuousFilled'
  BY <1>2, <1>3 DEF IInv, HistoryFilled, ContinuousFilled, Filled, LastInRound
<1> QED BY <1>1, <1>3, <1>4, <1>5 DEF IInv

LEMMA DropTableDoneKeeps ==
    ASSUME IInv, DropTableDone, UNCHANGED <<blockId, nextId>>
    PROVE  IInv'
<1>1. TypeOK
  BY DEF IInv
<1>2. "blocks" \in Table /\ "blocks" # "transactions"
  BY DEF Table
<1>3. /\ dpc = "delete" /\ dpc' \in {"delete", "check"}
      /\ dtable' \in Table
      /\ dpc' = "check" => dtable' # "transactions"
  BY <1>1, <1>2 DEF DropTableDone, TypeOK
<1> QED BY <1>1, <1>3, DropMovesKeeps DEF DropTableDone, TypeOK, DropPc

LEMMA DropChecksFloorKeeps ==
    ASSUME IInv, DropChecksFloor, UNCHANGED <<blockId, nextId>>
    PROVE  IInv'
<1>1. TypeOK /\ dpc = "check" /\ dtable # "transactions"
  BY DEF IInv, DropChecksFloor, DropInside
<1>2. "transactions" \in Table
  BY DEF Table
<1>3. /\ dpc' \in {"delete", "idle", "first"}
      /\ dtable' \in Table
      /\ dpc' = "first" => dtable' # "transactions"
  BY <1>1, <1>2 DEF DropChecksFloor, NextPass, TypeOK
<1> QED BY <1>1, <1>3, DropMovesKeeps DEF DropChecksFloor, TypeOK, DropPc

LEMMA DropFindsFirstKeeps ==
    ASSUME IInv, DropFindsFirst, UNCHANGED <<blockId, nextId>>
    PROVE  IInv'
<1>1. TypeOK /\ dpc = "first" /\ dtable # "transactions"
  BY DEF IInv, DropFindsFirst, DropInside
<1>2. "transactions" \in Table
  BY DEF Table
<1>3. dtable \in Table /\ rows[dtable] \subseteq Block /\ dfirst \in Block
  BY <1>1 DEF TypeOK
<1>4. /\ dpc' \in {"delete", "idle", "write"}
      /\ dtable' \in Table /\ dfirst' \in Block
      /\ dpc' = "write" => dtable' # "transactions" /\ dfirst' \in rows[dtable']
  BY <1>1, <1>2, <1>3 DEF DropFindsFirst, NextPass
<1> QED BY <1>1, <1>4, DropMovesKeeps DEF DropFindsFirst, TypeOK, DropPc, stored


\* A deletion takes rows past retention only.
LEMMA RowsDeleted ==
    ASSUME IInv, DeleteRows
    PROVE  \A t \in Table : rows'[t] \subseteq rows[t]
                           /\ \A b \in rows[t] \ rows'[t] : BlockTime(b) < horizon
BY Typed, DropDeleted DEF IInv, DropInside, DeleteRows

\* What goes is past the horizon, wherever in the run it goes.
LEMMA DeleteRowsKeeps ==
    ASSUME IInv, DeleteRows
    PROVE  IInv'
<1> DEFINE FilledNow(x) == FilledIn(stored', First, horizon, x)
<1> USE DEF plan, dropVars
<1>1. /\ TypeOK /\ dpc = "delete" /\ dpc' = dpc /\ dtable' = dtable
      /\ boundary' = boundary /\ horizon' = horizon /\ dfirst' = dfirst
      /\ head' = head /\ states' = states /\ pc' = pc /\ cursor' = cursor
      /\ ixEnd' = ixEnd /\ startIndex' = startIndex /\ histLast' = histLast
      /\ synced' = synced /\ faults' = faults /\ nextId' = nextId
  BY DEF IInv, DeleteRows, DropDeletes
<1>2. \A t \in Table : rows'[t] \subseteq rows[t]
                       /\ \A b \in rows[t] \ rows'[t] : BlockTime(b) < horizon
  BY RowsDeleted
<1>3. /\ rows' \in [Table -> SUBSET Block]
      /\ \A t \in Table : rows'[t] \subseteq Content(t)
  <2>1. rows' = [t \in Table |-> rows'[t]]
    BY DEF DeleteRows, DropDeletes
  <2>2. \A t \in Table : rows'[t] \subseteq Block /\ rows'[t] \subseteq Content(t)
    BY <1>1, <1>2 DEF TypeOK
  <2> QED BY <2>1, <2>2
<1>4. stored' \subseteq stored /\ \A b \in stored \ stored' : BlockTime(b) < horizon
  BY <1>2 DEF stored, Table
<1>5. /\ stored \subseteq Block /\ horizon \in Int /\ boundary \in Int
      /\ \A b \in Block : BlockTime(b) \in Int
  BY <1>1, Numbers
<1>6. First' = First /\ Last' = Last
  BY <1>1 DEF First, Last
<1>7. \A x : Filled(x) => FilledNow(x)
  <2>1. stored' = stored \ (stored \ stored')
    BY <1>4
  <2>2. stored \ stored' \subseteq Block
    BY <1>5
  <2> SUFFICES ASSUME NEW x, Filled(x) PROVE FilledIn(stored \ (stored \ stored'), First, horizon, x)
    BY <2>1
  <2>3. FilledIn(stored, First, horizon, x)
    BY DEF Filled
  <2> HIDE DEF FilledNow
  <2> QED BY <1>4, <1>5, <2>2, <2>3, FilledDelete
<1> HIDE DEF FilledNow
<1>8. /\ blockId' \in [Block -> Nat]
      /\ \A b \in stored' : blockId'[b] = blockId[b]
  <2>1. blockId' = [b \in Block |-> IF b \in rows'["blocks"] THEN blockId[b] ELSE 0]
    BY DEF DeleteRows
  <2>2. \A b \in Block : blockId[b] \in Nat
    BY <1>1 DEF TypeOK
  <2> QED BY <1>4, <1>5, <2>1, <2>2 DEF stored
<1>9. TypeOK'
  BY <1>1, <1>3, <1>8 DEF TypeOK
<1>10. Ranges' /\ MissingRows'
  BY <1>1, <1>4 DEF IInv, Ranges, MissingRows
<1>11. DropInside'
  BY <1>1 DEF IInv, DropInside
<1>12. Whole'
  <2>1. \A b \in Block : BlockTime(b) >= horizon => ~(BlockTime(b) < horizon)
    BY <1>5
  <2>2. ASSUME NEW b \in stored', BlockTime(b) >= horizon PROVE Covered(b)'
    <3>1. Covered(b) /\ b \in Block
      BY <1>4, <1>5, <2>2 DEF IInv, Whole
    <3> QED BY <1>2, <2>1, <2>2, <3>1 DEF Covered
  <2>3. ASSUME NEW b \in rows'["transactions"] \cap ReceiptLogBlocks, BlockTime(b) >= horizon
        PROVE  b \in rows'["logs"]
    <3>1. "transactions" \in Table /\ "logs" \in Table
      BY DEF Table
    <3>2. b \in rows["transactions"] /\ b \in Block
      BY <1>1, <1>2, <3>1 DEF TypeOK
    <3>3. b \in rows["logs"]
      BY <2>3, <3>2 DEF IInv, Whole
    <3> QED BY <1>2, <2>1, <2>3, <3>1, <3>2, <3>3
  <2> QED BY <1>1, <2>2, <2>3 DEF Whole
<1>13. RowsStored'
  BY <1>1, <1>4, <1>6 DEF IInv, RowsStored
<1>14. IdOrder'
  BY <1>1, <1>4, <1>8 DEF IInv, IdOrder
<1>15. FilledBelowStored'
  <2>1. \A c \in stored' : FilledNow(c + 1)
    BY <1>4, <1>7 DEF IInv, FilledBelowStored
  <2> QED BY <1>1, <1>6, <2>1 DEF FilledBelowStored, Filled, FilledNow
<1>16. pc \in ContinuousPc
  BY <1>1 DEF IInv, DropInside
<1>17. HistoryFilled'
  BY <1>1, <1>16 DEF HistoryFilled, HistoryPc, ContinuousPc
<1>18. ContinuousFilled'
  <2>1. FilledNow(histLast + 1) /\ (pc # "cont_start" => FilledNow(cursor))
    BY <1>7, <1>16 DEF IInv, ContinuousFilled
  <2>2. pc = "cont_states" => cursor \in stored' \/ BlockTime(cursor) < horizon
    BY <1>4, <1>16 DEF IInv, ContinuousFilled
  <2>3. /\ \A c \in stored' : c <= histLast + 1 \/ c <= Last.index + 1
        /\ pc # "cont_start" =>
              /\ \A c \in stored' : c <= cursor
              /\ Last.index < cursor
              /\ histLast < cursor
              /\ cursor <= histLast + 1 \/ cursor <= Last.index + 1
    BY <1>4, <1>16 DEF IInv, ContinuousFilled
  <2> QED BY <1>1, <1>6, <2>1, <2>2, <2>3 DEF ContinuousFilled, Filled, FilledNow
<1> QED BY <1>9, <1>10, <1>11, <1>12, <1>13, <1>14, <1>15, <1>17, <1>18 DEF IInv

\* The block floor goes to a stored block; the log floor is not spoken of.
LEMMA DropRaisesFloorKeeps ==
    ASSUME IInv, DropRaisesFloor, UNCHANGED <<blockId, nextId>>
    PROVE  IInv'
<1> DEFINE FilledNow(x) == FilledIn(stored, First', horizon, x)
<1> USE DEF plan
<1>1. /\ TypeOK /\ dpc = "write" /\ dtable # "transactions"
      /\ dtable = "blocks" => dfirst \in stored
      /\ boundary' = boundary /\ horizon' = horizon /\ dfirst' = 0 /\ rows' = rows
      /\ head' = head /\ pc' = pc /\ cursor' = cursor
      /\ ixEnd' = ixEnd /\ startIndex' = startIndex /\ histLast' = histLast
      /\ synced' = synced /\ faults' = faults
  BY DEF IInv, DropRaisesFloor, DropInside
<1>2. /\ Floor(dtable) \in StateName /\ "BlockFloor" \in StateName
      /\ "LastIndexed" \in StateName /\ Floor(dtable) # "LastIndexed"
      /\ Floor(dtable) = "BlockFloor" => dtable = "blocks"
  BY <1>1 DEF Floor, StateName, TypeOK, Table
<1>3. dfirst \in Nat /\ BlockTime(dfirst) \in Nat /\ 0 \in Block
  BY <1>1, EngineAssumption DEF TypeOK, Block
<1>4. /\ states' \in [StateName -> RowType]
      /\ states'[Floor(dtable)] = Row(dfirst, BlockTime(dfirst))
      /\ \A k \in StateName \ {Floor(dtable)} : states'[k] = states[k]
  BY <1>1, <1>2, <1>3, UpdateRows DEF DropRaisesFloor, TypeOK
<1>5. Row(dfirst, BlockTime(dfirst)).exists /\ Row(dfirst, BlockTime(dfirst)).index = dfirst
  BY DEF Row
<1>6. /\ Last' = Last
      /\ First' = First \/ (First'.index = dfirst /\ dfirst \in stored)
  BY <1>1, <1>2, <1>4, <1>5 DEF First, Last
<1>7. stored' = stored
  BY <1>1 DEF stored
<1>8. \A x : Filled(x) => FilledNow(x)
  BY <1>6, FilledFloor DEF Filled
<1> HIDE DEF FilledNow
<1>9. dpc' \in {"delete", "idle"} /\ dtable' \in Table
  <2>1. "transactions" \in Table
    BY DEF Table
  <2> QED BY <1>1, <2>1 DEF DropRaisesFloor, NextPass, TypeOK
<1>10. TypeOK'
  BY <1>1, <1>3, <1>4, <1>9 DEF TypeOK, DropPc
<1>11. Ranges'
  BY <1>1, <1>7 DEF IInv, Ranges
<1>12. MissingRows'
  BY <1>4, <1>5 DEF IInv, MissingRows
<1>13. DropInside'
  BY <1>1, <1>9 DEF IInv, DropInside
<1>14. Whole' /\ IdOrder'
  BY <1>1, <1>7 DEF IInv, Whole, Covered, IdOrder
<1>15. RowsStored'
  BY <1>1, <1>6, <1>7, Numbers DEF IInv, RowsStored
<1>16. FilledBelowStored'
  <2>1. \A c \in stored : FilledNow(c + 1)
    BY <1>8 DEF IInv, FilledBelowStored
  <2> QED BY <1>1, <1>7, <2>1 DEF FilledBelowStored, Filled, FilledNow
<1>17. pc \in ContinuousPc
  BY <1>1 DEF IInv, DropInside
<1>18. HistoryFilled'
  BY <1>1, <1>17 DEF HistoryFilled, HistoryPc, ContinuousPc
<1>19. ContinuousFilled'
  <2>1. FilledNow(histLast + 1) /\ (pc # "cont_start" => FilledNow(cursor))
    BY <1>8, <1>17 DEF IInv, ContinuousFilled
  <2> QED
    BY <1>1, <1>6, <1>7, <2>1, <1>17 DEF IInv, ContinuousFilled, Filled, FilledNow
<1> QED
  BY <1>10, <1>11, <1>12, <1>13, <1>14, <1>15, <1>16, <1>18, <1>19 DEF IInv

-----------------------------------------------------------------------------
(***************************************************************************)
(* The start of a process.                                                 *)
(***************************************************************************)

\* What a start inside the interval passes over is past retention from then on.
LEMMA StartGivesUp ==
    ASSUME TypeOK, StartInsideInterval, StartIndexAsDocumented
    PROVE  /\ stored = {} /\ Interval # 0
           /\ horizon' \in Nat /\ horizon <= horizon' /\ startIndex' \in Nat
           /\ \A b \in Block : b < startIndex' => BlockTime(b) < horizon'
<1>1. /\ stored \subseteq Block /\ Block \subseteq Int /\ horizon \in Nat /\ head \in Block
      /\ head \in Int /\ StartIndex \in Nat /\ Interval \in Nat
      /\ \A b \in Block : BlockTime(b) \in Int /\ BlockTime(b) >= 0 /\ b >= 0
  BY FullModeAssumption, Numbers
<1>2. TipAgeBoundary \in Nat
  <2>1. BlockTime(head) \in Nat
    BY <1>1, EngineAssumption
  <2> QED BY <1>1, <2>1 DEF TipAgeBoundary
<1>3. /\ stored = {} /\ Interval # 0 /\ StartIndex = 0
      /\ horizon' = Higher(horizon, GivenUp(startIndex'))
  BY <1>1 DEF StartInsideInterval, StartIndexAsDocumented
<1>4. GivenUp(startIndex') \in {TipAgeBoundary, TipAgeBoundary + 1}
  BY DEF GivenUp
<1>5. /\ horizon' \in Nat /\ horizon <= horizon'
      /\ TipAgeBoundary <= horizon' /\ GivenUp(startIndex') <= horizon'
  BY <1>1, <1>2, <1>3, <1>4 DEF Higher
<1>6. /\ startIndex' \in Nat
      /\ \A b \in Block : b < startIndex' => BlockTime(b) < horizon'
  <2>1. CASE StartIndex >= head
    BY <1>1, <1>3, <2>1 DEF StartInsideInterval
  <2>2. CASE ~(StartIndex >= head)
    <3>1. /\ startIndex' \in 0 .. head
          /\ startIndex' \in Nearest(TipAgeBoundary, 0, head)
      BY <1>3, <2>2 DEF StartInsideInterval, Nearest
    <3>2. \A b \in Block : b < startIndex' => b \in 0 .. head
      BY <1>1, <3>1
    <3>3. startIndex' \in Block
      BY <1>1, <3>1, Numbers DEF Block
    <3>4. CASE \A c \in 0 .. head : c < startIndex' => BlockTime(c) < TipAgeBoundary
      BY <1>1, <1>2, <1>5, <3>1, <3>2, <3>4
    <3>5. CASE ~\A c \in 0 .. head : c < startIndex' => BlockTime(c) < TipAgeBoundary
      <4>1. BlockTime(startIndex') = TipAgeBoundary
        BY <1>3, <3>1, <3>5 DEF Nearest
      <4>2. \E c \in 0 .. head : c < startIndex' /\ BlockTime(c) >= TipAgeBoundary
        <5>1. \A c \in 0 .. head : c \in Block
          BY <1>1, EngineAssumption DEF Block
        <5> QED BY <1>1, <1>2, <3>5, <5>1
      <4>3. GivenUp(startIndex') = TipAgeBoundary + 1
        BY <1>3, <4>2 DEF GivenUp
      <4>4. \A b \in Block : b < startIndex' => BlockTime(b) <= TipAgeBoundary
        <5> SUFFICES ASSUME NEW b \in Block, b < startIndex'
                     PROVE  BlockTime(b) <= TipAgeBoundary
          OBVIOUS
        <5>1. b <= startIndex'
          BY <1>1, <3>3
        <5> QED BY <3>3, <4>1, <5>1, EngineAssumption
      <4> QED BY <1>1, <1>2, <1>5, <3>1, <4>3, <4>4
    <3> QED BY <3>4, <3>5
  <2> QED BY <2>1, <2>2
<1> QED BY <1>3, <1>5, <1>6

\* What any start rule has to establish.
LEMMA StartKeeps ==
    ASSUME IInv, Start, StartIndexAsDocumented
    PROVE  IInv'
<1> USE DEF plan
<1>1. /\ TypeOK /\ pc = "start" /\ pc' = "hist_range" /\ dpc = "off"
      /\ head' = head /\ rows' = rows /\ states' = states /\ cursor' = cursor
      /\ ixEnd' = ixEnd /\ histLast' = histLast /\ synced' = synced /\ faults' = faults
      /\ dpc' = dpc /\ dtable' = dtable /\ boundary' = boundary /\ dfirst' = dfirst
      /\ blockId' = blockId /\ nextId' = nextId
  BY DEF IInv, Start, DropInside, ContinuousPc
<1>2. First' = First /\ Last' = Last /\ stored' = stored
  BY <1>1 DEF First, Last, stored
<1>3. /\ stored \subseteq Block /\ Block \subseteq Int /\ horizon \in Nat /\ head \in Block
      /\ head \in Int /\ StartIndex \in Nat /\ Interval \in Nat
      /\ \A b \in Block : BlockTime(b) \in Int /\ BlockTime(b) >= 0 /\ b >= 0
  BY <1>1, FullModeAssumption, Numbers
<1>4. TipAgeBoundary \in Nat
  <2>1. BlockTime(head) \in Nat
    BY <1>3, EngineAssumption
  <2> QED BY <1>3, <2>1 DEF TipAgeBoundary
<1>5. /\ startIndex' \in Nat /\ horizon' \in Nat /\ horizon <= horizon'
      /\ Interval = 0 => horizon' = 0
      /\ FilledIn(stored, First, horizon', startIndex')
      /\ \A c \in stored : \A b \in startIndex' .. c : b \in stored
  <2>1. CASE StartAfterLastRow
    <3>1. PICK b \in stored : /\ \A c \in stored : blockId[c] <= blockId[b]
                              /\ startIndex' = b + 1
      BY <2>1 DEF StartAfterLastRow
    <3>2. \A c \in stored : c \in Int /\ c >= 0 /\ blockId[c] \in Int
      BY <1>1, <1>3 DEF TypeOK
    <3>3. \A c \in stored : c <= b
      BY <3>1, <3>2 DEF IInv, IdOrder
    <3>4. Filled(b + 1)
      BY DEF IInv, FilledBelowStored
    <3>5. \A c \in stored : startIndex' .. c = {}
      BY <3>1, <3>2, <3>3
    <3>6. horizon' = horizon /\ (Interval = 0 => horizon = 0)
      BY <2>1 DEF StartAfterLastRow, IInv, DropInside
    <3> QED BY <1>3, <3>1, <3>2, <3>4, <3>5, <3>6 DEF Filled
  <2>2. CASE StartAsConfigured
    <3>1. stored = {} /\ horizon' = 0 /\ horizon = 0 /\ startIndex' = StartIndex
      BY <2>2 DEF StartAsConfigured, IInv, DropInside
    <3>2. ~First.exists
      <4>1. First.exists => First.index \in Block /\ BlockTime(First.index) < 0
        BY <3>1 DEF IInv, RowsStored
      <4>2. \A b \in Block : ~(BlockTime(b) < 0)
        BY <1>3
      <4> QED BY <4>1, <4>2
    <3> QED BY <1>3, <3>1, <3>2 DEF FilledIn
  <2>3. CASE StartInsideInterval
    <3>1. /\ stored = {} /\ Interval # 0 /\ horizon' \in Nat /\ horizon <= horizon'
          /\ startIndex' \in Nat
          /\ \A b \in Block : b < startIndex' => BlockTime(b) < horizon'
      BY <1>1, <2>3, StartGivesUp
    <3>2. \A b \in Block : b < startIndex' => ~(BlockTime(b) >= horizon')
      BY <1>3, <3>1
    <3> QED BY <1>3, <3>1, <3>2 DEF FilledIn
  <2> QED BY <2>1, <2>2, <2>3 DEF Start
<1>6. TypeOK'
  BY <1>1, <1>5 DEF TypeOK, EnginePc, HistoryPc
<1>7. Ranges' /\ MissingRows'
  BY <1>1, <1>2 DEF IInv, Ranges, MissingRows
<1>8. DropInside'
  BY <1>1, <1>3, <1>5, Numbers DEF IInv, DropInside
<1>9. Whole'
  <2>1. \A b \in Block : BlockTime(b) >= horizon' => BlockTime(b) >= horizon
    BY <1>3, <1>5
  <2>2. stored \subseteq Block /\ rows["transactions"] \subseteq Block
    BY <1>1, <1>3 DEF TypeOK, Table
  <2> QED BY <1>1, <1>2, <2>1, <2>2 DEF IInv, Whole, Covered
<1>10. RowsStored'
  <2>1. \A b \in Block : BlockTime(b) < horizon => BlockTime(b) < horizon'
    BY <1>3, <1>5
  <2> QED BY <1>2, <2>1 DEF IInv, RowsStored
<1>11. IdOrder'
  BY <1>1, <1>2 DEF IInv, IdOrder
<1>12. FilledBelowStored'
  <2>1. \A x : Filled(x) => FilledIn(stored, First, horizon', x)
    BY <1>3, <1>5, FilledHorizon DEF Filled
  <2> QED BY <1>2, <2>1 DEF IInv, FilledBelowStored, Filled
<1>13. HistoryFilled'
  BY <1>1, <1>2, <1>5 DEF HistoryFilled, Filled
<1>14. ContinuousFilled'
  BY <1>1 DEF ContinuousFilled, ContinuousPc
<1> QED
  BY <1>6, <1>7, <1>8, <1>9, <1>10, <1>11, <1>12, <1>13, <1>14 DEF IInv

-----------------------------------------------------------------------------
(***************************************************************************)
(* The theorems.                                                           *)
(***************************************************************************)

LEMMA InitEstablishes ==
    ASSUME Init
    PROVE  IInv
<1> USE DEF Init, EngineInit, DropInit
<1>1. "blocks" \in Table /\ "logs" \in Table /\ 0 \in Block
  BY EngineAssumption DEF Table, Block
<1>2. stored = {} /\ \A t \in Table : rows[t] = {}
  BY <1>1 DEF stored
<1>3. \A n \in StateName : states[n] = NoRow
  BY DEF NoStates
<1>4. ~First.exists /\ ~Last.exists
  BY <1>3 DEF First, Last, StateName, NoRow
<1>5. TypeOK
  <2>1. states \in [StateName -> RowType]
    BY DEF NoStates, NoRow, RowType
  <2>2. rows \in [Table -> SUBSET Block] /\ \A t \in Table : rows[t] \subseteq Content(t)
    BY <1>2
  <2>3. pc \in EnginePc /\ dpc \in DropPc /\ synced \in BOOLEAN
    BY DEF EnginePc, DropPc
  <2>4. faults \in 0 .. MaxFaults
    BY EngineAssumption
  <2>5. head \in Block
    OBVIOUS
  <2> QED BY <1>1, <2>1, <2>2, <2>3, <2>4, <2>5 DEF TypeOK
<1>6. Ranges
  BY <1>2, <1>5, Numbers DEF Ranges, HistoryPc
<1>7. MissingRows
  BY <1>3 DEF MissingRows
<1>8. DropInside
  BY DEF DropInside
<1>9. Whole /\ RowsStored /\ IdOrder /\ FilledBelowStored
  <2>1. rows["transactions"] = {}
    <3>1. "transactions" \in Table
      BY DEF Table
    <3> QED BY <1>2, <3>1
  <2>2. Whole
    BY <1>2, <2>1 DEF Whole
  <2>3. nextId > 0
    OBVIOUS
  <2> QED BY <1>2, <1>4, <2>2, <2>3 DEF RowsStored, IdOrder, FilledBelowStored
<1>10. HistoryFilled /\ ContinuousFilled
  BY DEF HistoryFilled, ContinuousFilled, HistoryPc, ContinuousPc
<1> QED BY <1>5, <1>6, <1>7, <1>8, <1>9, <1>10 DEF IInv

LEMMA NextKeeps ==
    ASSUME StartIndexAsDocumented, IInv, [Next]_fullVars
    PROVE  IInv'
<1>1. CASE Chain
  BY <1>1, ChainKeeps
<1>2. CASE Process
  <2>1. CASE Start
    BY <2>1, StartKeeps
  <2>2. CASE IndexBatch
    BY <2>2, IndexBatchKeeps
  <2>3. CASE IndexBlock
    BY <2>3, IndexBlockKeeps
  <2>4. CASE GoContinuous
    BY <2>4, GoContinuousKeeps
  <2>5. CASE Finish
    BY <2>5, FinishKeeps
  <2>6. CASE IndexingStep
    BY <2>6, HistoryRangeKeeps, HistoryStatesKeeps, HistoryExtendKeeps,
       ContinuousStartKeeps, ContinuousRangeKeeps, ContinuousPollKeeps,
       ContinuousStatesKeeps, ProcessStartsKeeps
       DEF IndexingStep
  <2> QED BY <1>2, <2>1, <2>2, <2>3, <2>4, <2>5, <2>6 DEF Process
<1>3. CASE Dropping
  BY <1>3, DeleteRowsKeeps, DropResolvesKeeps, DropTableDoneKeeps,
     DropChecksFloorKeeps, DropFindsFirstKeeps, DropRaisesFloorKeeps
     DEF Dropping, DropStep
<1>4. CASE Fault
  BY <1>4, HistoryFailsKeeps, ContinuousFailsKeeps, DropFailsKeeps, ProcessEndsKeeps
     DEF Fault
<1>5. CASE UNCHANGED fullVars
  BY <1>5, StutterKeeps
<1> QED BY <1>1, <1>2, <1>3, <1>4, <1>5 DEF Next, Done

\* Everything the runs and theorems rest on holds throughout, for every chain,
\* configuration and number of faults.
THEOREM Inductive ==
    ASSUME StartIndexAsDocumented
    PROVE  Spec => []IInv
<1>1. Init => IInv
  BY InitEstablishes
<1>2. IInv /\ [Next]_fullVars => IInv'
  BY NextKeeps
<1> QED BY <1>1, <1>2, PTL DEF Spec

\* The variables keep their types: the numbers the code keeps in uint64 never
\* go below zero and every row carries a block of the chain.
THEOREM TypeCorrect ==
    ASSUME StartIndexAsDocumented
    PROVE  Spec => []TypeOK
<1>1. IInv => TypeOK
  BY DEF IInv
<1> QED BY <1>1, Inductive, PTL

\* The parts of the invariant that speak of stored blocks make the claim of the
\* coverage rows true.
LEMMA CoverageFromInvariant == IInv => CoverageSound
<1> SUFFICES ASSUME IInv, NEW b \in Block, Claimed(b), BlockTime(b) >= horizon
             PROVE  Covered(b)
  BY DEF CoverageSound
<1>1. /\ First.exists /\ Last.exists /\ First.index <= b /\ b <= Last.index
      /\ First.index \in Block /\ Last.index \in Block
  BY DEF IInv, RowsStored, Claimed, First, Last
<1>2. Last.index \in stored
  <2>1. BlockTime(b) <= BlockTime(Last.index)
    BY <1>1, EngineAssumption
  <2>2. ~(BlockTime(Last.index) < horizon)
    BY <1>1, <2>1, Numbers DEF IInv
  <2> QED BY <1>1, <2>2 DEF IInv, RowsStored
<1>3. Filled(Last.index + 1) /\ b < Last.index + 1
  BY <1>1, <1>2, Numbers DEF IInv, FilledBelowStored
<1>4. b \in stored
  BY <1>1, <1>3 DEF Filled, FilledIn
<1> QED BY <1>4 DEF IInv, Whole

\* A block between the coverage rows is in all three tables or past retention,
\* whatever crashes, errors and deletions interleave (states.go:22-24).
THEOREM CoverageHolds ==
    ASSUME StartIndexAsDocumented
    PROVE  Spec => []CoverageSound
<1> QED BY CoverageFromInvariant, Inductive, PTL

\* The rows a consumer may read have no gap inside retention: the start rule,
\* the resume index and the retries together never skip a block.
THEOREM NoGapsLeft ==
    ASSUME StartIndexAsDocumented
    PROVE  Spec => []NoGaps
<1>1. IInv => NoGaps
  <2> SUFFICES ASSUME IInv, NEW a \in stored, NEW c \in stored, NEW b \in a .. c
               PROVE  b \in stored \/ BlockTime(b) < horizon
    BY DEF NoGaps
  <2>1. a \in Block /\ c \in Block /\ a \in Int /\ c \in Int /\ horizon \in Int
    BY Numbers DEF IInv
  <2>2. b \in Block /\ a <= b /\ b < c + 1
    BY <2>1, EngineAssumption DEF Block
  <2>3. Filled(c + 1)
    BY DEF IInv, FilledBelowStored
  <2>4. BlockTime(b) \in Int
    BY <2>2, EngineAssumption
  <2> QED BY <2>1, <2>2, <2>3, <2>4 DEF Filled, FilledIn
<1> QED BY <1>1, Inductive, PTL

\* Between the two commits of a batch of the history run, only its own second
\* one moves LastIndexed.
LEMMA OnlyHistoryMoves ==
    ASSUME IInv, [Next]_fullVars, pc = "hist_states"
    PROVE  Last' = Last \/ HistoryStates
<1>1. dpc = "off"
  BY DEF IInv, DropInside, ContinuousPc
<1>2. CASE Process
  BY <1>2 DEF Process, Start, IndexBatch, HistoryBatch, IndexBlock, ContinuousBlock,
           GoContinuous, HistoryReturns, Finish, ContinuousReturns, IndexingStep,
           HistoryRange, HistoryExtend, ContinuousStart, ContinuousRange,
           ContinuousPoll, ContinuousStates, ProcessStarts
<1>3. CASE Dropping
  BY <1>1, <1>3 DEF Dropping, DeleteRows, DropDeletes, DropResolves, DropStep,
           DropTableDone, DropChecksFloor, DropFindsFirst, DropRaisesFloor
<1>4. CASE Chain \/ Fault \/ UNCHANGED fullVars
  BY <1>4 DEF Chain, ChainGrows, Fault, HistoryFails, ContinuousFails, DropFails,
           ProcessEnds, fullVars, engineVars, Last
<1> QED BY <1>2, <1>3, <1>4 DEF Next, Done

\* What a repeated history run takes LastIndexed back over is there already.
LEMMA GoesBackOverStored ==
    ASSUME IInv, HistoryStates, NEW b \in Last'.index + 1 .. Last.index
    PROVE  b \in stored \/ BlockTime(b) < horizon
<1> DEFINE hi == LastInRound
<1>1. /\ TypeOK /\ MissingRows /\ RowsStored /\ PublishCoverage(cursor, hi)
      /\ pc \in HistoryPc /\ pc \in HistoryPc \ {"hist_range"} /\ pc = "hist_states"
  BY DEF IInv, HistoryStates, HistoryPc
<1>2. cursor <= ixEnd /\ startIndex <= cursor
  BY <1>1 DEF IInv, Ranges
<1>3. /\ BatchSize \in Int /\ BatchSize > 0 /\ cursor \in Int /\ ixEnd \in Int
      /\ startIndex \in Nat /\ Last.index \in Nat
  BY <1>1, EngineAssumption, Numbers
<1>4. hi \in Int /\ cursor <= hi
  BY <1>2, <1>3 DEF LastInRound, Lesser
<1>5. cursor \in stored /\ hi \in stored
  BY <1>1, <1>3, <1>4 DEF IInv, HistoryFilled
<1>6. cursor \in Block /\ hi \in Block
  BY <1>1, <1>5, Numbers
<1> HIDE DEF hi
<1>7. Last'.index = hi
  BY <1>1, <1>6, CoveragePublished, Typed
<1>8. b \in Int /\ startIndex <= b /\ 0 < b /\ b <= Last.index
  BY <1>2, <1>3, <1>4, <1>7
<1>9. Last.exists
  BY <1>1, <1>3, <1>8 DEF MissingRows, Last, NoRow, StateName
<1>10. /\ Last.index \in Block
       /\ Last.index \in stored \/ BlockTime(Last.index) < horizon
  BY <1>1, <1>9 DEF RowsStored
<1>11. CASE Last.index \in stored
  <2>1. b \in startIndex .. Last.index
    BY <1>3, <1>8
  <2> QED BY <1>1, <1>11, <2>1 DEF IInv, HistoryFilled
<1>12. CASE BlockTime(Last.index) < horizon
  <2>1. b \in Block
    BY <1>8, <1>10, EngineAssumption DEF Block
  <2>2. BlockTime(b) <= BlockTime(Last.index)
    BY <1>8, <1>10, <2>1, EngineAssumption
  <2>3. BlockTime(b) \in Int /\ BlockTime(Last.index) \in Int /\ horizon \in Int
    BY <1>1, <1>10, <2>1, Numbers
  <2> QED BY <1>12, <2>2, <2>3
<1> QED BY <1>10, <1>11, <1>12

\* LastIndexed goes back only where a failed history run is run again, and over
\* blocks it has indexed: the continuous run always resumes above it.
THEOREM LastIndexedOnlyAdvances ==
    ASSUME StartIndexAsDocumented
    PROVE  Spec => LastIndexedAdvances
<1> USE DEF plan, engineVars
<1>1. ASSUME IInv, [Next]_fullVars, pc # "hist_states"
      PROVE  ~(states'["LastIndexed"].index < states["LastIndexed"].index)
  <2>1. TypeOK /\ MissingRows /\ Last.index \in Int
    BY <1>1, Numbers DEF IInv
  <2>2. SUFFICES ~(Last'.index < Last.index)
    BY DEF Last
  <2>3. CASE Last' = Last
    BY <2>1, <2>3
  <2>4. CASE states' = states
    BY <2>3, <2>4 DEF Last
  <2>5. CASE ObserveTip
    BY <2>1, <2>3, <2>5, TipObserved, Typed
  <2>6. CASE ContinuousStates
    <3>1. Last.index < cursor /\ cursor <= ixEnd /\ ixEnd <= head /\ pc = "cont_states"
      BY <1>1, <2>6 DEF IInv, ContinuousStates, ContinuousFilled, ContinuousPc, Ranges
    <3>2. cursor \in Block /\ cursor \in Int
      BY <2>1, <3>1, Numbers DEF Block
    <3>3. Last'.index = cursor
      BY <2>1, <2>6, <3>2, CoveragePublished, Typed DEF ContinuousStates
    <3> QED BY <2>1, <3>1, <3>2, <3>3
  <2>7. CASE DropRaisesFloor
    <3>1. "LastIndexed" \in StateName /\ Floor(dtable) # "LastIndexed"
      BY DEF StateName, Floor
    <3>2. states'["LastIndexed"] = states["LastIndexed"]
      BY <2>1, <2>7, <3>1 DEF DropRaisesFloor, UpdateState, TypeOK
    <3> QED BY <2>3, <3>2 DEF Last
  <2>8. CASE Process
    BY <1>1, <2>4, <2>5, <2>6, <2>8
       DEF Process, Start, IndexBatch, HistoryBatch, IndexBlock, ContinuousBlock,
           GoContinuous, HistoryReturns, Finish, ContinuousReturns, IndexingStep,
           HistoryRange, HistoryStates, HistoryExtend, ContinuousStart,
           ContinuousRange, ContinuousPoll, ProcessStarts
  <2>9. CASE Dropping
    BY <2>4, <2>7, <2>9
       DEF Dropping, DeleteRows, DropDeletes, DropResolves, DropStep,
           DropTableDone, DropChecksFloor, DropFindsFirst
  <2>10. CASE Chain \/ Fault \/ UNCHANGED fullVars
    BY <2>4, <2>10
       DEF Chain, ChainGrows, Fault, HistoryFails, ContinuousFails, DropFails,
           ProcessEnds, fullVars
  <2> QED BY <1>1, <2>8, <2>9, <2>10 DEF Next, Done
<1>2. IInv /\ [Next]_fullVars =>
         [states'["LastIndexed"].index < states["LastIndexed"].index
            => /\ pc = "hist_states"
               /\ \A b \in states'["LastIndexed"].index + 1 .. states["LastIndexed"].index :
                     b \in stored \/ BlockTime(b) < horizon]_fullVars
  <2> SUFFICES ASSUME IInv, [Next]_fullVars, Last'.index < Last.index
               PROVE  /\ pc = "hist_states"
                      /\ \A b \in Last'.index + 1 .. Last.index :
                            b \in stored \/ BlockTime(b) < horizon
    BY DEF Last
  <2>1. pc = "hist_states"
    BY <1>1 DEF Last
  <2>2. CASE HistoryStates
    BY <2>1, <2>2, GoesBackOverStored
  <2>3. CASE Last' = Last
    <3>1. Last.index \in Int
      BY Numbers DEF IInv
    <3> QED BY <2>3, <3>1
  <2>4. Last' = Last \/ HistoryStates
    BY <2>1, OnlyHistoryMoves
  <2> QED BY <2>2, <2>3, <2>4
<1> QED BY <1>2, Inductive, PTL DEF Spec, LastIndexedAdvances

\* GET /health turns ready only over a database that holds everything from the
\* start of the process to the end of its history run: the range extension and
\* every repetition of the run leave nothing out.
THEOREM ReadyIsCaughtUp ==
    ASSUME StartIndexAsDocumented
    PROVE  Spec => ReadyMeansCaughtUp
<1> USE DEF plan, engineVars
<1>1. ASSUME IInv, [Next]_fullVars, ~synced, synced', NEW b \in startIndex .. ixEnd
      PROVE  b \in stored /\ (Covered(b) \/ BlockTime(b) < horizon)
  <2>1. pc = "hist" /\ cursor > ixEnd
    <3>1. CASE Process
      BY <1>1, <3>1
         DEF Process, Start, IndexBatch, HistoryBatch, IndexBlock, ContinuousBlock,
             GoContinuous, HistoryReturns, Finish, ContinuousReturns, IndexingStep,
             HistoryRange, HistoryStates, HistoryExtend, ContinuousStart,
             ContinuousRange, ContinuousPoll, ContinuousStates, ProcessStarts
    <3>2. CASE Dropping
      BY <1>1, <3>2
         DEF Dropping, DeleteRows, DropDeletes, DropResolves, DropStep,
             DropTableDone, DropChecksFloor, DropFindsFirst, DropRaisesFloor
    <3>3. CASE Chain \/ Fault \/ UNCHANGED fullVars
      BY <1>1, <3>3
         DEF Chain, ChainGrows, Fault, HistoryFails, ContinuousFails, DropFails,
             ProcessEnds, fullVars
    <3> QED BY <1>1, <3>1, <3>2, <3>3 DEF Next, Done
  <2>2. /\ startIndex \in Int /\ ixEnd \in Int /\ cursor \in Int /\ horizon \in Int
        /\ startIndex \in Nat /\ ixEnd <= head /\ head \in Block
    BY <1>1, Numbers DEF IInv, Ranges, TypeOK
  <2>3. b \in Block /\ startIndex <= b /\ b < cursor /\ b <= ixEnd
    BY <1>1, <2>1, <2>2, EngineAssumption DEF Block
  <2>4. b \in stored
    BY <1>1, <2>1, <2>3 DEF IInv, HistoryFilled, HistoryPc
  <2>5. BlockTime(b) \in Int
    BY <2>3, EngineAssumption
  <2> QED BY <1>1, <2>2, <2>4, <2>5 DEF IInv, Whole
<1>2. IInv /\ [Next]_fullVars =>
         [~synced /\ synced' =>
            \A b \in startIndex .. ixEnd :
                b \in stored /\ (Covered(b) \/ BlockTime(b) < horizon)]_fullVars
  BY <1>1
<1> QED BY <1>2, Inductive, PTL DEF Spec, ReadyMeansCaughtUp

-----------------------------------------------------------------------------
(***************************************************************************)
(* The log floor.  Beside IInv, LogsInv is kept by every step.             *)
(***************************************************************************)

\* IInv says of every point that nothing is missing from stored blocks on.
LEMMA PointsFilled ==
    ASSUME IInv
    PROVE  \A x \in Points : x \in Int /\ Filled(x)
<1>1. \A c \in stored : c + 1 \in Int /\ Filled(c + 1)
  BY Numbers DEF IInv, FilledBelowStored
<1>2. /\ startIndex \in Int /\ Lesser(cursor, ixEnd + 1) \in Int
      /\ histLast + 1 \in Int /\ cursor \in Int
  BY Numbers DEF IInv, Lesser
<1>3. /\ pc \in HistoryPc => Filled(startIndex)
      /\ pc \in HistoryPc \ {"hist_range"} => Filled(Lesser(cursor, ixEnd + 1))
  BY DEF IInv, HistoryFilled
<1>4. /\ pc \in ContinuousPc => Filled(histLast + 1)
      /\ pc \in ContinuousPc \ {"cont_start"} => Filled(cursor)
  BY DEF IInv, ContinuousFilled
<1> QED BY <1>1, <1>2, <1>3, <1>4 DEF Points

\* Below a point as much is filled.
LEMMA LogsBelow ==
    ASSUME IInv, LogsInv, NEW x \in Points, NEW y, y \in Int, y <= x
    PROVE  FilledFrom(LogAnchors, stored, horizon, y)
<1>1. x \in Int /\ FilledFrom(LogAnchors, stored, horizon, x)
  BY PointsFilled DEF LogsInv
<1> QED BY <1>1 DEF FilledFrom, Block

\* A step after which the floor and the logs have no new anchor: the new
\* points must be filled already, apart from what is now past retention.
LEMMA LogsKept ==
    ASSUME IInv, LogsInv, IInv', LogAnchors' \subseteq LogAnchors, horizon <= horizon',
           \A b \in stored : b \in stored' \/ BlockTime(b) < horizon',
           Interval = 0 => stored \subseteq stored',
           dpc' = "write" /\ dtable' = "logs" => dfirst' \in rows'["logs"],
           \A y \in Points' : FilledFrom(LogAnchors, stored, horizon', y)
    PROVE  LogsInv'
<1>1. /\ horizon \in Int /\ horizon' \in Int
      /\ stored \subseteq Block /\ \A b \in Block : BlockTime(b) \in Int
  <2>1. TypeOK /\ TypeOK'
    BY DEF IInv
  <2>2. horizon' \in Nat
    BY <2>1 DEF TypeOK
  <2> QED BY <2>1, <2>2, Numbers
<1>2. LogAnchors \subseteq Block
  BY DEF LogsInv
<1>3. (\A a \in LogAnchors : a \in stored \/ BlockTime(a) < horizon)'
  BY <1>1, <1>2 DEF LogsInv
<1>4. (\A x \in Points : FilledFrom(LogAnchors, stored, horizon, x))'
  <2> SUFFICES ASSUME NEW y \in Points'
               PROVE  FilledFrom(LogAnchors', stored', horizon', y)
    OBVIOUS
  <2>1. FilledFrom(LogAnchors, stored, horizon', y)
    OBVIOUS
  <2> QED BY <1>1, <2>1 DEF FilledFrom
<1>5. (Interval = 0 => LogAnchors \subseteq stored)'
  BY DEF LogsInv
<1> QED BY <1>2, <1>3, <1>4, <1>5 DEF LogsInv

\* In most steps every point is below an old one.
LEMMA LogsPointsKept ==
    ASSUME IInv, LogsInv, IInv', LogAnchors' \subseteq LogAnchors, horizon <= horizon',
           \A b \in stored : b \in stored' \/ BlockTime(b) < horizon',
           Interval = 0 => stored \subseteq stored',
           dpc' = "write" /\ dtable' = "logs" => dfirst' \in rows'["logs"],
           \A y \in Points' : \E x \in Points : y <= x
    PROVE  LogsInv'
<1>1. horizon \in Int /\ horizon' \in Int /\ \A b \in Block : BlockTime(b) \in Int
  <2>1. TypeOK /\ TypeOK'
    BY DEF IInv
  <2>2. horizon' \in Nat
    BY <2>1 DEF TypeOK
  <2> QED BY <2>1, <2>2, Numbers
<1>2. IInv' => (\A x \in Points : x \in Int /\ Filled(x))'
  BY PointsFilled, PTL
<1>3. ASSUME NEW y \in Points' PROVE FilledFrom(LogAnchors, stored, horizon', y)
  <2>1. PICK x \in Points : y <= x
    OBVIOUS
  <2>2. FilledFrom(LogAnchors, stored, horizon, y)
    BY <1>2, <2>1, LogsBelow
  <2> QED BY <1>1, <2>2 DEF FilledFrom
<1> QED BY <1>3, LogsKept

\* The steps that leave the rows, the log floor and retention alone.
LEMMA LogsQuiet ==
    ASSUME IInv, LogsInv, IInv', rows' = rows, LogsFrom' = LogsFrom, horizon' = horizon,
           dpc' = "write" /\ dtable' = "logs" => dfirst' \in rows["logs"],
           \A y \in Points' : \E x \in Points : y <= x
    PROVE  LogsInv'
<1>1. stored' = stored /\ LogAnchors' = LogAnchors
  BY DEF stored, LogAnchors
<1>2. horizon <= horizon'
  BY Numbers DEF IInv
<1> QED BY <1>1, <1>2, LogsPointsKept

\* Inserting a range at a point: the new anchors are stored blocks.
LEMMA LogsInserted ==
    ASSUME IInv, LogsInv, IInv', NEW lo, NEW hi, lo \in Block, hi \in Block,
           Insert(lo, hi), lo \in Points,
           states' = states, horizon' = horizon, UNCHANGED <<dpc, dtable, dfirst>>,
           \A y \in Points' : y \in Points \/ \E c \in stored' : y = c + 1
    PROVE  LogsInv'
<1>1. /\ stored' = stored \cup (lo .. hi) /\ lo .. hi \subseteq Block
      /\ lo \in Int /\ hi \in Int /\ Block \subseteq Int /\ stored \subseteq Block
      /\ horizon \in Int /\ \A b \in Block : BlockTime(b) \in Int
  BY Inserted, Typed, Numbers DEF IInv
<1>2. rows["logs"] \subseteq rows'["logs"] /\ rows'["logs"] \subseteq rows["logs"] \cup (lo .. hi)
  BY DEF Insert, Table
<1>3. LogsFrom' = LogsFrom
  BY DEF LogsFrom
<1>4. LogAnchors' \subseteq LogAnchors \cup (lo .. hi)
  BY <1>2, <1>3 DEF LogAnchors
<1>5. LogAnchors \subseteq Block /\ \A a \in LogAnchors : a \in stored \/ BlockTime(a) < horizon
  BY DEF LogsInv
<1>6. IInv' => (\A x \in Points : x \in Int /\ Filled(x))'
  BY PointsFilled, PTL
<1>7. ASSUME NEW y \in Points', NEW b \in Block, b < y, BlockTime(b) >= horizon,
             NEW a \in LogAnchors', a <= b
      PROVE  b \in stored'
  <2>1. CASE a \in lo .. hi
    <3>1. FilledIn(stored', First', horizon', y)
      BY <1>6 DEF Filled
    <3> QED BY <1>1, <1>7, <2>1, <3>1 DEF FilledIn
  <2>2. CASE a \in LogAnchors /\ y \in Points
    <3>1. FilledFrom(LogAnchors, stored, horizon, y)
      BY <2>2 DEF LogsInv
    <3> QED BY <1>1, <1>7, <2>2, <3>1 DEF FilledFrom
  <2>3. CASE a \in LogAnchors /\ \E c \in stored' : y = c + 1
    <3>1. PICK c \in stored' : y = c + 1
      BY <2>3
    <3>2. CASE c \in stored
      <4>1. y \in Points
        BY <3>1, <3>2 DEF Points
      <4> QED BY <2>2, <2>3, <4>1
    <3>3. CASE c \in lo .. hi
      <4>1. FilledFrom(LogAnchors, stored, horizon, lo)
        BY DEF LogsInv
      <4>2. CASE b < lo
        BY <1>1, <1>7, <2>3, <4>1, <4>2 DEF FilledFrom
      <4>3. CASE ~(b < lo)
        <5>1. b \in Int /\ c \in Int /\ b <= c
          BY <1>1, <1>7, <3>1, <3>3
        <5>2. b \in lo .. hi
          BY <1>1, <3>3, <4>3, <5>1
        <5> QED BY <1>1, <5>2
      <4> QED BY <4>2, <4>3
    <3> QED BY <1>1, <3>2, <3>3
  <2> QED BY <1>4, <2>1, <2>2, <2>3
<1>8. (\A x \in Points : FilledFrom(LogAnchors, stored, horizon, x))'
  BY <1>7 DEF FilledFrom
<1>9. (\A a \in LogAnchors : a \in stored \/ BlockTime(a) < horizon)'
  BY <1>1, <1>4, <1>5
<1>10. (LogAnchors \subseteq Block)' /\ (Interval = 0 => LogAnchors \subseteq stored)'
  BY <1>1, <1>4, <1>5 DEF LogsInv
<1>11. (dpc = "write" /\ dtable = "logs" => dfirst \in rows["logs"])'
  BY <1>2 DEF LogsInv
<1> QED BY <1>8, <1>9, <1>10, <1>11 DEF LogsInv

LEMMA IndexBatchKeepsLogs ==
    ASSUME IInv, LogsInv, IInv', IndexBatch
    PROVE  LogsInv'
<1> DEFINE hi == LastInRound
<1>1. /\ pc = "hist" /\ pc' = "hist_states" /\ cursor <= ixEnd
      /\ Insert(cursor, hi) /\ states' = states /\ cursor' = cursor /\ ixEnd' = ixEnd
      /\ startIndex' = startIndex /\ horizon' = horizon
      /\ dpc' = dpc /\ dtable' = dtable /\ dfirst' = dfirst
  BY DEF IndexBatch, HistoryBatch, plan, dropVars
<1>2. cursor \in Nat /\ ixEnd \in Nat /\ head \in Block /\ MaxBlock \in Nat /\ ixEnd <= head
  BY Numbers DEF IInv, Ranges
<1>3. cursor \in Block /\ hi \in Block
  <2>1. hi \in Int /\ cursor <= hi /\ hi <= ixEnd
    BY <1>1, <1>2, EngineAssumption DEF LastInRound, Lesser
  <2> HIDE DEF hi
  <2> QED BY <1>1, <1>2, <2>1 DEF Block
<1> HIDE DEF hi
<1>4. Lesser(cursor, ixEnd + 1) = cursor
  BY <1>1, <1>2 DEF Lesser
<1>5. cursor \in Points
  BY <1>1, <1>4 DEF Points, HistoryPc
<1>6. \A y \in Points' : y \in Points \/ \E c \in stored' : y = c + 1
  BY <1>1 DEF Points, HistoryPc, ContinuousPc
<1> QED BY <1>1, <1>3, <1>5, <1>6, LogsInserted

LEMMA IndexBlockKeepsLogs ==
    ASSUME IInv, LogsInv, IInv', IndexBlock
    PROVE  LogsInv'
<1>1. /\ pc = "cont" /\ pc' = "cont_states" /\ cursor <= ixEnd
      /\ Insert(cursor, cursor) /\ states' = states /\ cursor' = cursor
      /\ histLast' = histLast /\ horizon' = horizon
      /\ dpc' = dpc /\ dtable' = dtable /\ dfirst' = dfirst
  BY DEF IndexBlock, ContinuousBlock, plan, dropVars
<1>2. cursor \in Nat /\ ixEnd \in Nat /\ head \in Block /\ MaxBlock \in Nat /\ ixEnd <= head
  BY Numbers DEF IInv, Ranges
<1>3. cursor \in Block
  BY <1>1, <1>2 DEF Block
<1>4. cursor \in Points
  BY <1>1 DEF Points, ContinuousPc
<1>5. \A y \in Points' : y \in Points \/ \E c \in stored' : y = c + 1
  BY <1>1 DEF Points, HistoryPc, ContinuousPc
<1> QED BY <1>1, <1>3, <1>4, <1>5, LogsInserted

\* The tip and the coverage rows are not the log floor.
LEMMA TipLeavesLogs ==
    ASSUME TypeOK, ObserveTip
    PROVE  LogsFrom' = LogsFrom
BY DEF TypeOK, ObserveTip, UpdateState, LogsFrom, StateName

LEMMA CoverageLeavesLogs ==
    ASSUME TypeOK, NEW lo \in Block, NEW hi \in Block, PublishCoverage(lo, hi)
    PROVE  LogsFrom' = LogsFrom
<1>1. lo \in Nat /\ hi \in Nat /\ BlockTime(lo) \in Nat /\ BlockTime(hi) \in Nat
  BY EngineAssumption DEF Block
<1>2. states \in [StateName -> RowType]
  BY DEF TypeOK
<1> QED BY <1>1, <1>2, CoverageRows DEF PublishCoverage, LogsFrom

LEMMA HistoryRangeKeepsLogs ==
    ASSUME IInv, LogsInv, IInv', HistoryRange, UNCHANGED dropVars
    PROVE  LogsInv'
<1> USE DEF plan, dropVars
<1>1. /\ pc = "hist_range" /\ pc' = "hist" /\ cursor' = startIndex
      /\ startIndex' = startIndex /\ rows' = rows /\ stored' = stored
      /\ LogsFrom' = LogsFrom
  BY TipLeavesLogs DEF IInv, HistoryRange, stored
<1>2. startIndex \in Int /\ ixEnd' + 1 \in Int
  <2>1. TypeOK /\ TypeOK'
    BY DEF IInv
  <2> QED BY <2>1 DEF TypeOK
<1>3. Lesser(startIndex, ixEnd' + 1) <= startIndex
  BY <1>2, LesserOf
<1>4. \A c \in stored : c + 1 <= c + 1
  BY Numbers DEF IInv
<1>5. startIndex \in Points /\ \A c \in stored : c + 1 \in Points
  BY <1>1 DEF Points, HistoryPc
<1>6. \A y \in Points' : \E x \in Points : y <= x
  <2>1. \A y \in Points' : \/ \E c \in stored : y = c + 1
                           \/ y = startIndex \/ y = Lesser(startIndex, ixEnd' + 1)
    BY <1>1 DEF Points, HistoryPc, ContinuousPc
  <2>2. startIndex <= startIndex
    BY <1>2
  <2> QED BY <1>3, <1>4, <1>5, <2>1, <2>2
<1>7. dpc' = "write" /\ dtable' = "logs" => dfirst' \in rows["logs"]
  BY DEF LogsInv, HistoryRange
<1>8. horizon' = horizon
  BY DEF HistoryRange
<1> QED BY <1>1, <1>6, <1>7, <1>8, LogsQuiet

LEMMA HistoryExtendKeepsLogs ==
    ASSUME IInv, LogsInv, IInv', HistoryExtend, UNCHANGED dropVars
    PROVE  LogsInv'
<1> USE DEF plan, dropVars
<1>1. /\ pc = "hist_extend" /\ pc' = "hist" /\ cursor' = cursor
      /\ startIndex' = startIndex /\ rows' = rows /\ stored' = stored
      /\ LogsFrom' = LogsFrom
  BY TipLeavesLogs DEF IInv, HistoryExtend, stored
<1>2. cursor <= ixEnd /\ cursor \in Int /\ ixEnd \in Int /\ ixEnd' \in Int
  <2>1. TypeOK /\ TypeOK'
    BY DEF IInv
  <2>2. ixEnd' \in Nat
    BY <2>1 DEF TypeOK
  <2> QED BY <1>1, <2>1, <2>2, Numbers DEF IInv, Ranges
<1>3. Lesser(cursor, ixEnd + 1) = cursor
  BY <1>2 DEF Lesser
<1>4. Lesser(cursor, ixEnd' + 1) <= cursor
  BY <1>2, LesserOf
<1>5. \A c \in stored : c + 1 <= c + 1
  BY Numbers DEF IInv
<1>6. startIndex \in Points /\ cursor \in Points /\ \A c \in stored : c + 1 \in Points
  BY <1>1, <1>3 DEF Points, HistoryPc
<1>7. \A y \in Points' : \E x \in Points : y <= x
  <2>1. \A y \in Points' : \/ \E c \in stored : y = c + 1
                           \/ y = startIndex \/ y = Lesser(cursor, ixEnd' + 1)
    BY <1>1 DEF Points, HistoryPc, ContinuousPc
  <2>2. startIndex <= startIndex
    BY Numbers DEF IInv
  <2> QED BY <1>4, <1>5, <1>6, <2>1, <2>2
<1>8. dpc' = "write" /\ dtable' = "logs" => dfirst' \in rows["logs"]
  BY DEF LogsInv, HistoryExtend
<1>9. horizon' = horizon
  BY DEF HistoryExtend
<1> QED BY <1>1, <1>7, <1>8, <1>9, LogsQuiet

LEMMA HistoryStatesKeepsLogs ==
    ASSUME IInv, LogsInv, IInv', HistoryStates, UNCHANGED dropVars
    PROVE  LogsInv'
<1> DEFINE hi == LastInRound
<1> USE DEF plan, dropVars
<1>1. /\ pc = "hist_states" /\ pc' \in {"hist", "hist_extend"}
      /\ cursor' = cursor + BatchSize /\ ixEnd' = ixEnd
      /\ startIndex' = startIndex /\ rows' = rows /\ stored' = stored
      /\ PublishCoverage(cursor, hi) /\ horizon' = horizon
  BY DEF HistoryStates, stored
<1>2. cursor <= ixEnd /\ cursor \in Int /\ ixEnd \in Int /\ BatchSize \in Int /\ BatchSize > 0
  BY <1>1, Numbers, EngineAssumption DEF IInv, Ranges
<1>3. /\ hi \in Int /\ cursor <= hi /\ Lesser(cursor + BatchSize, ixEnd + 1) = hi + 1
  BY <1>2 DEF LastInRound, Lesser
<1>4. \A b \in cursor .. hi : b \in stored
  BY <1>1 DEF IInv, HistoryFilled, HistoryPc
<1> HIDE DEF hi
<1>5. cursor \in stored /\ hi \in stored /\ cursor \in Block /\ hi \in Block
  BY <1>2, <1>3, <1>4, Numbers DEF IInv
<1>6. LogsFrom' = LogsFrom
  BY <1>1, <1>5, CoverageLeavesLogs DEF IInv
<1>7. \A y \in Points' : y \in Points
  <2>1. \A y \in Points' : \/ \E c \in stored : y = c + 1
                           \/ y = startIndex \/ y = hi + 1
    BY <1>1, <1>3 DEF Points, HistoryPc, ContinuousPc
  <2>2. startIndex \in Points /\ \A c \in stored : c + 1 \in Points
    BY <1>1 DEF Points, HistoryPc
  <2> QED BY <1>5, <2>1, <2>2
<1>8. \A y \in Points' : \E x \in Points : y <= x
  <2>1. IInv' => (\A x \in Points : x \in Int /\ Filled(x))'
    BY PointsFilled, PTL
  <2>2. \A y \in Points' : y <= y
    BY <2>1
  <2> QED BY <1>7, <2>2
<1>9. dpc' = "write" /\ dtable' = "logs" => dfirst' \in rows["logs"]
  BY DEF LogsInv, HistoryStates
<1> QED BY <1>1, <1>6, <1>8, <1>9, LogsQuiet

LEMMA ContinuousStatesKeepsLogs ==
    ASSUME IInv, LogsInv, IInv', ContinuousStates, UNCHANGED dropVars
    PROVE  LogsInv'
<1> USE DEF plan, dropVars
<1>1. /\ pc = "cont_states" /\ pc' = "cont" /\ cursor' = cursor + 1
      /\ histLast' = histLast /\ rows' = rows /\ stored' = stored
      /\ PublishCoverage(cursor, cursor) /\ horizon' = horizon
  BY DEF ContinuousStates, stored
<1>2. /\ cursor \in Nat /\ cursor <= ixEnd /\ ixEnd \in Nat /\ ixEnd <= head /\ head \in Block
      /\ MaxBlock \in Nat /\ horizon \in Int
  BY <1>1, Numbers DEF IInv, Ranges
<1>3. cursor \in Block
  BY <1>2 DEF Block
<1>4. LogsFrom' = LogsFrom /\ LogAnchors' = LogAnchors
  <2>1. LogsFrom' = LogsFrom
    BY <1>1, <1>3, CoverageLeavesLogs DEF IInv
  <2> QED BY <1>1, <2>1 DEF LogAnchors
<1>5. cursor \in stored \/ BlockTime(cursor) < horizon
  BY <1>1 DEF IInv, ContinuousFilled, ContinuousPc
<1>6. /\ cursor \in Points /\ histLast + 1 \in Points
      /\ \A c \in stored : c + 1 \in Points
  BY <1>1 DEF Points, ContinuousPc
<1>7. FilledFrom(LogAnchors, stored, horizon, cursor + 1)
  <2>1. FilledFrom(LogAnchors, stored, horizon, cursor)
    BY <1>6 DEF LogsInv
  <2>2. \A b \in Block : b \in Int /\ BlockTime(b) \in Int
    BY Numbers DEF IInv
  <2>3. \A b \in Block : b < cursor + 1 => b < cursor \/ b = cursor
    BY <1>2, <2>2
  <2>4. BlockTime(cursor) >= horizon => cursor \in stored
    BY <1>2, <1>3, <1>5, <2>2
  <2> QED BY <2>1, <2>3, <2>4 DEF FilledFrom
<1>8. \A y \in Points' : FilledFrom(LogAnchors, stored, horizon', y)
  <2>1. \A y \in Points' : \/ \E c \in stored : y = c + 1
                           \/ y = histLast + 1 \/ y = cursor + 1
    BY <1>1 DEF Points, HistoryPc, ContinuousPc
  <2> QED BY <1>1, <1>6, <1>7, <2>1 DEF LogsInv
<1>9. dpc' = "write" /\ dtable' = "logs" => dfirst' \in rows'["logs"]
  BY <1>1 DEF LogsInv, ContinuousStates
<1> QED BY <1>1, <1>2, <1>4, <1>8, <1>9, LogsKept

\* Steps of which no new point comes.
LEMMA LogsStay ==
    ASSUME IInv, LogsInv, IInv', rows' = rows, LogsFrom' = LogsFrom, horizon' = horizon,
           dpc' = "write" /\ dtable' = "logs" => dfirst' \in rows["logs"],
           Points' \subseteq Points
    PROVE  LogsInv'
<1>1. \A y \in Points : y <= y
  BY PointsFilled
<1> QED BY <1>1, LogsQuiet

\* The continuous run resumes at a point, or past blocks past retention.
LEMMA ContinuousStartKeepsLogs ==
    ASSUME IInv, LogsInv, IInv', ContinuousStart, UNCHANGED dropVars
    PROVE  LogsInv'
<1> USE DEF plan, dropVars
<1>1. /\ pc = "cont_start" /\ pc' = "cont_range" /\ states' = states
      /\ histLast' = histLast /\ rows' = rows /\ stored' = stored /\ horizon' = horizon
      /\ LogAnchors' = LogAnchors
  BY DEF ContinuousStart, stored, LogAnchors, LogsFrom
<1>2. /\ histLast \in Int /\ horizon \in Int /\ Last.index \in Nat
      /\ \A b \in Block : b \in Int /\ BlockTime(b) \in Int
  BY Numbers DEF IInv
<1>3. cursor' = histLast + 1 \/ (Last.exists /\ cursor' = Last.index + 1)
  <2>1. cursor' = ResumeIndex(histLast, Last)
    BY DEF ContinuousStart, Last
  <2>2. ~Last.exists => Last.index = 0
    BY DEF IInv, MissingRows, Last, StateName, NoRow
  <2> QED BY <2>1, <2>2 DEF ResumeIndex, IsSet
<1>4. histLast + 1 \in Points /\ \A c \in stored : c + 1 \in Points
  BY <1>1 DEF Points, ContinuousPc
<1>5. FilledFrom(LogAnchors, stored, horizon, cursor')
  <2>1. CASE cursor' = histLast + 1
    BY <1>4, <2>1 DEF LogsInv
  <2>2. CASE Last.exists /\ cursor' = Last.index + 1
    <3>1. CASE Last.index \in stored
      BY <1>4, <2>2, <3>1 DEF LogsInv
    <3>2. CASE Last.index \in Block /\ BlockTime(Last.index) < horizon
      <4>1. ASSUME NEW b \in Block, b < cursor' PROVE BlockTime(b) < horizon
        <5>1. b <= Last.index
          BY <1>2, <2>2, <4>1
        <5>2. BlockTime(b) <= BlockTime(Last.index)
          BY <3>2, <5>1, EngineAssumption
        <5> QED BY <1>2, <3>2, <5>2
      <4> QED BY <1>2, <4>1 DEF FilledFrom
    <3> QED BY <2>2, <3>1, <3>2 DEF IInv, RowsStored
  <2> QED BY <1>3, <2>1, <2>2
<1>6. \A y \in Points' : FilledFrom(LogAnchors, stored, horizon', y)
  <2>1. \A y \in Points' : \/ \E c \in stored : y = c + 1
                           \/ y = histLast + 1 \/ y = cursor'
    BY <1>1 DEF Points, HistoryPc, ContinuousPc
  <2> QED BY <1>1, <1>4, <1>5, <2>1 DEF LogsInv
<1>7. dpc' = "write" /\ dtable' = "logs" => dfirst' \in rows'["logs"]
  BY <1>1 DEF LogsInv, ContinuousStart
<1> QED BY <1>1, <1>2, <1>6, <1>7, LogsKept

\* The steps of the engine that only move on.
LEMMA EngineMovesKeepsLogs ==
    ASSUME IInv, LogsInv, IInv',
           ContinuousRange \/ ContinuousPoll \/ ProcessStarts, UNCHANGED dropVars
    PROVE  LogsInv'
<1> USE DEF plan, dropVars
<1>1. LogsFrom' = LogsFrom
  BY TipLeavesLogs DEF IInv, ContinuousRange, ContinuousPoll, ProcessStarts, LogsFrom
<1>2. rows' = rows /\ horizon' = horizon /\ stored' = stored
  BY DEF ContinuousRange, ContinuousPoll, ProcessStarts, stored
<1>3. dpc' = "write" /\ dtable' = "logs" => dfirst' \in rows["logs"]
  BY DEF LogsInv
<1>4. Points' \subseteq Points
  BY <1>2 DEF ContinuousRange, ContinuousPoll, ProcessStarts, Points, HistoryPc, ContinuousPc
<1> QED BY <1>1, <1>2, <1>3, <1>4, LogsStay

LEMMA GoContinuousKeepsLogs ==
    ASSUME IInv, LogsInv, IInv', GoContinuous
    PROVE  LogsInv'
<1> USE DEF plan, dropVars
<1>1. /\ pc = "hist" /\ pc' = "cont_start" /\ ixEnd < cursor /\ histLast' = ixEnd
      /\ rows' = rows /\ stored' = stored /\ states' = states /\ LogsFrom' = LogsFrom
  BY Numbers DEF IInv, GoContinuous, HistoryReturns, stored, LogsFrom
<1>2. horizon' = horizon /\ dtable' = dtable /\ dfirst' = dfirst /\ dpc' \in {dpc, "idle"}
  BY DEF GoContinuous, DropStarts
<1>3. Lesser(cursor, ixEnd + 1) = ixEnd + 1
  BY <1>1, Numbers DEF IInv, Lesser
<1>4. Points' \subseteq Points
  <2>1. \A y \in Points' : (\E c \in stored : y = c + 1) \/ y = ixEnd + 1
    BY <1>1 DEF Points, HistoryPc, ContinuousPc
  <2>2. ixEnd + 1 \in Points /\ \A c \in stored : c + 1 \in Points
    BY <1>1, <1>3 DEF Points, HistoryPc
  <2> QED BY <2>1, <2>2
<1>5. dpc' = "write" /\ dtable' = "logs" => dfirst' \in rows["logs"]
  BY <1>2 DEF LogsInv
<1> QED BY <1>1, <1>2, <1>4, <1>5, LogsStay

\* An error, the end of a process, and the steps of the chain.
LEMMA OthersKeepLogs ==
    ASSUME IInv, LogsInv, IInv', Finish \/ Fault \/ Chain \/ UNCHANGED fullVars
    PROVE  LogsInv'
<1> USE DEF plan, dropVars
<1>1. rows' = rows /\ horizon' = horizon /\ states' = states
  BY DEF Finish, ContinuousReturns, DropEnds, Fault, HistoryFails, ContinuousFails,
         DropFails, ProcessEnds, Chain, ChainGrows, fullVars, engineVars
<1>2. LogsFrom' = LogsFrom /\ stored' = stored
  BY <1>1 DEF LogsFrom, stored
<1>3. dpc' = "write" /\ dtable' = "logs" => dfirst' \in rows["logs"]
  BY DEF LogsInv, Finish, DropEnds, Fault, HistoryFails, ContinuousFails,
         DropFails, Chain, fullVars
<1>4. Points' \subseteq Points
  <2>1. CASE Finish \/ ContinuousFails \/ ProcessEnds \/ HistoryFails
    BY <1>2, <2>1 DEF Finish, ContinuousReturns, ContinuousFails, ProcessEnds, HistoryFails,
                      Points, HistoryPc, ContinuousPc
  <2>2. CASE DropFails \/ Chain \/ UNCHANGED fullVars
    <3>1. /\ pc' = pc /\ cursor' = cursor /\ ixEnd' = ixEnd
          /\ startIndex' = startIndex /\ histLast' = histLast
      BY <2>2 DEF DropFails, Chain, ChainGrows, fullVars, engineVars
    <3> QED BY <1>2, <3>1 DEF Points
  <2> QED BY <2>1, <2>2 DEF Fault
<1> QED BY <1>1, <1>2, <1>3, <1>4, LogsStay

LEMMA DeleteRowsKeepsLogs ==
    ASSUME IInv, LogsInv, IInv', DeleteRows
    PROVE  LogsInv'
<1> USE DEF plan, dropVars
<1>1. /\ "logs" \in Table /\ "blocks" \in Table
      /\ \A t \in Table : /\ rows'[t] \subseteq rows[t]
                          /\ \A b \in rows[t] \ rows'[t] : BlockTime(b) < horizon
  BY RowsDeleted DEF Table
<1>2. /\ states' = states /\ pc' = pc /\ cursor' = cursor /\ ixEnd' = ixEnd
      /\ startIndex' = startIndex /\ histLast' = histLast /\ horizon' = horizon
      /\ dpc = "delete" /\ dpc' = dpc
  BY DEF DeleteRows, DropDeletes
<1>3. /\ stored' \subseteq stored
      /\ \A b \in stored : b \in stored' \/ BlockTime(b) < horizon'
  BY <1>1, <1>2 DEF stored
<1>4. LogAnchors' \subseteq LogAnchors
  BY <1>1, <1>2 DEF LogAnchors, LogsFrom
<1>5. Points' \subseteq Points
  BY <1>2, <1>3 DEF Points
<1>6. Interval # 0
  BY <1>2 DEF IInv, DropInside
<1>7. horizon <= horizon' /\ \A y \in Points : y <= y
  BY <1>2, Numbers, PointsFilled DEF IInv
<1> QED BY <1>2, <1>3, <1>4, <1>5, <1>6, <1>7, LogsPointsKept

\* A higher boundary only takes more blocks out.
LEMMA DropResolvesKeepsLogs ==
    ASSUME IInv, LogsInv, IInv', DropResolves(TipAgeBoundary)
    PROVE  LogsInv'
<1> USE DEF plan, engineVars
<1>1. /\ rows' = rows /\ states' = states /\ pc' = pc /\ cursor' = cursor /\ ixEnd' = ixEnd
      /\ startIndex' = startIndex /\ histLast' = histLast /\ dpc' = "delete"
      /\ boundary' = TipAgeBoundary /\ horizon' = Higher(horizon, TipAgeBoundary)
  BY DEF DropResolves
<1>2. horizon <= horizon'
  <2>1. TypeOK /\ TypeOK'
    BY DEF IInv
  <2>2. boundary' \in Int /\ horizon \in Int
    BY <2>1 DEF TypeOK
  <2> QED BY <1>1, <2>2 DEF Higher
<1>3. stored' = stored /\ LogAnchors' = LogAnchors
  BY <1>1 DEF stored, LogAnchors, LogsFrom
<1>4. Points' = Points
  BY <1>1, <1>3 DEF Points
<1>5. \A y \in Points : y <= y
  BY PointsFilled
<1> QED BY <1>1, <1>2, <1>3, <1>4, <1>5, LogsPointsKept

\* The loop looks for the first surviving log among the log rows.
LEMMA DropMovesKeepLogs ==
    ASSUME IInv, LogsInv, IInv', DropTableDone \/ DropChecksFloor \/ DropFindsFirst
    PROVE  LogsInv'
<1> USE DEF plan, engineVars
<1>1. /\ rows' = rows /\ states' = states /\ pc' = pc /\ cursor' = cursor /\ ixEnd' = ixEnd
      /\ startIndex' = startIndex /\ histLast' = histLast /\ horizon' = horizon
  BY DEF DropTableDone, DropChecksFloor, DropFindsFirst
<1>2. LogsFrom' = LogsFrom /\ stored' = stored
  BY <1>1 DEF LogsFrom, stored
<1>3. Points' = Points
  BY <1>1, <1>2 DEF Points
<1>4. dpc' = "write" /\ dtable' = "logs" => dfirst' \in rows["logs"]
  BY DEF DropTableDone, DropChecksFloor, DropFindsFirst, NextPass
<1> QED BY <1>1, <1>2, <1>3, <1>4, LogsStay

\* A log floor is written at a log row.
LEMMA DropRaisesFloorKeepsLogs ==
    ASSUME IInv, LogsInv, IInv', DropRaisesFloor
    PROVE  LogsInv'
<1> USE DEF plan
<1>1. /\ rows' = rows /\ pc' = pc /\ cursor' = cursor /\ ixEnd' = ixEnd
      /\ startIndex' = startIndex /\ histLast' = histLast /\ horizon' = horizon
      /\ dpc = "write" /\ dpc' # "write" /\ stored' = stored
  BY DEF DropRaisesFloor, NextPass, stored
<1>2. \/ LogsFrom' = LogsFrom
      \/ dtable = "logs" /\ LogsFrom' = Row(dfirst, BlockTime(dfirst))
  BY DEF DropRaisesFloor, Floor, UpdateState, LogsFrom, IInv, TypeOK, StateName
<1>3. Row(dfirst, BlockTime(dfirst)).index = dfirst
  BY DEF Row
<1>4. LogAnchors' \subseteq LogAnchors
  <2>1. CASE LogsFrom' = LogsFrom
    BY <1>1, <2>1 DEF LogAnchors
  <2>2. CASE dtable = "logs" /\ LogsFrom' = Row(dfirst, BlockTime(dfirst))
    BY <1>1, <1>3, <2>2 DEF LogsInv, LogAnchors
  <2> QED BY <1>2, <2>1, <2>2
<1>5. Points' = Points
  BY <1>1 DEF Points
<1>6. horizon <= horizon' /\ \A y \in Points : y <= y
  BY <1>1, Numbers, PointsFilled DEF IInv
<1> QED BY <1>1, <1>4, <1>5, <1>6, LogsPointsKept

\* A process starts after every stored block, or gives up what is below its
\* start, or has nothing to lose.
LEMMA StartKeepsLogs ==
    ASSUME IInv, LogsInv, IInv', Start, StartIndexAsDocumented
    PROVE  LogsInv'
<1> USE DEF plan
<1>1. /\ pc = "start" /\ pc' = "hist_range" /\ dpc = "off" /\ dpc' = dpc
      /\ rows' = rows /\ states' = states /\ stored' = stored /\ LogAnchors' = LogAnchors
  BY DEF Start, IInv, DropInside, ContinuousPc, stored, LogAnchors, LogsFrom
<1>2. /\ horizon \in Nat /\ horizon' \in Nat
      /\ \A b \in Block : b \in Int /\ BlockTime(b) \in Int
  <2>1. TypeOK /\ TypeOK'
    BY DEF IInv
  <2> QED BY <2>1, Numbers DEF TypeOK
<1>3. \A c \in stored : c + 1 \in Points
  BY DEF Points
<1>4. \A y \in Points' : (\E c \in stored : y = c + 1) \/ y = startIndex'
  BY <1>1 DEF Points, HistoryPc, ContinuousPc
<1>5. horizon <= horizon' /\ FilledFrom(LogAnchors, stored, horizon', startIndex')
  <2>1. CASE StartAfterLastRow
    BY <1>2, <1>3, <2>1 DEF StartAfterLastRow, LogsInv
  <2>2. CASE StartAsConfigured
    <3>1. LogAnchors = {} /\ horizon' = horizon
      BY <2>2 DEF StartAsConfigured, LogsInv
    <3> QED BY <1>2, <3>1 DEF FilledFrom
  <2>3. CASE StartInsideInterval
    <3>1. horizon <= horizon' /\ \A b \in Block : b < startIndex' => BlockTime(b) < horizon'
      BY <2>3, StartGivesUp DEF IInv
    <3>2. \A b \in Block : b < startIndex' => ~(BlockTime(b) >= horizon')
      BY <1>2, <3>1
    <3> QED BY <3>1, <3>2 DEF FilledFrom
  <2> QED BY <2>1, <2>2, <2>3 DEF Start
<1>6. \A y \in Points' : FilledFrom(LogAnchors, stored, horizon', y)
  <2>1. \A c \in stored : FilledFrom(LogAnchors, stored, horizon, c + 1)
    BY <1>3 DEF LogsInv
  <2>2. \A c \in stored : FilledFrom(LogAnchors, stored, horizon', c + 1)
    BY <1>2, <1>5, <2>1 DEF FilledFrom
  <2> QED BY <1>4, <1>5, <2>2
<1> QED BY <1>1, <1>5, <1>6, LogsKept

LEMMA LogsInvEstablished ==
    ASSUME Init
    PROVE  LogsInv
<1> USE DEF Init, EngineInit, DropInit
<1>1. stored = {} /\ rows["logs"] = {}
  BY DEF stored, Table
<1>2. ~LogsFrom.exists
  BY DEF NoStates, NoRow, LogsFrom, StateName
<1>3. LogAnchors = {}
  BY <1>1, <1>2 DEF LogAnchors
<1> QED BY <1>3 DEF LogsInv, FilledFrom

LEMMA NextKeepsLogs ==
    ASSUME StartIndexAsDocumented, IInv, LogsInv, IInv', [Next]_fullVars
    PROVE  LogsInv'
<1>1. CASE Process
  BY <1>1, StartKeepsLogs, IndexBatchKeepsLogs, IndexBlockKeepsLogs, GoContinuousKeepsLogs,
     OthersKeepLogs, HistoryRangeKeepsLogs, HistoryStatesKeepsLogs, HistoryExtendKeepsLogs,
     ContinuousStartKeepsLogs, ContinuousStatesKeepsLogs, EngineMovesKeepsLogs
     DEF Process, IndexingStep
<1>2. CASE Dropping
  BY <1>2, DeleteRowsKeepsLogs, DropResolvesKeepsLogs, DropMovesKeepLogs,
     DropRaisesFloorKeepsLogs DEF Dropping, DropStep
<1>3. CASE Chain \/ Fault \/ UNCHANGED fullVars
  BY <1>3, OthersKeepLogs
<1> QED BY <1>1, <1>2, <1>3 DEF Next, Done

\* With IInv, what the log floor rests on holds throughout.
THEOREM LogsInductive ==
    ASSUME StartIndexAsDocumented
    PROVE  Spec => []LogsInv
<1>1. Init => LogsInv
  BY LogsInvEstablished
<1>2. IInv /\ IInv' /\ LogsInv /\ [Next]_fullVars => LogsInv'
  BY NextKeepsLogs
<1> QED BY <1>1, <1>2, Inductive, PTL DEF Spec

\* Between the log floor and the top, what is inside retention is stored with
\* its logs, whatever the deletion loop and the indexer did to either.
THEOREM LogFloorHolds ==
    ASSUME StartIndexAsDocumented
    PROVE  Spec => []LogFloorSound
<1>1. ASSUME IInv, LogsInv PROVE LogFloorSound
  <2> SUFFICES ASSUME LogsFrom.exists, NEW b \in LogBlocks, LogsFrom.index <= b,
                      b <= Last.index, BlockTime(b) >= horizon
               PROVE  b \in rows["logs"]
    BY DEF LogFloorSound, LogsFrom, Last
  <2>1. /\ b \in Block /\ b \in Int /\ BlockTime(b) \in Int /\ horizon \in Int
        /\ Last.index \in Int /\ stored \subseteq Block
    BY <1>1, EngineAssumption, Numbers DEF IInv
  <2>2. LogsFrom.index \in LogAnchors
    BY DEF LogAnchors
  <2>3. b \in stored
    <3>1. CASE Last.exists
      <4>1. Last.index \in stored
        <5>1. /\ Last.index \in Block
              /\ Last.index \in stored \/ BlockTime(Last.index) < horizon
          BY <1>1, <3>1 DEF IInv, RowsStored
        <5>2. BlockTime(b) <= BlockTime(Last.index) /\ BlockTime(Last.index) \in Int
          BY <2>1, <5>1, EngineAssumption
        <5> QED BY <2>1, <5>1, <5>2
      <4>2. FilledFrom(LogAnchors, stored, horizon, Last.index + 1)
        BY <1>1, <4>1 DEF LogsInv, Points
      <4> QED BY <2>1, <2>2, <4>2 DEF FilledFrom
    <3>2. CASE ~Last.exists
      <4>1. Last.index = 0
        BY <1>1, <3>2 DEF IInv, MissingRows, Last, StateName, NoRow
      <4>2. LogsFrom.index \in Block
        BY <1>1, <2>2 DEF LogsInv
      <4>3. LogsFrom.index = b
        BY <2>1, <4>1, <4>2, Numbers, <1>1 DEF IInv, Block
      <4> QED BY <1>1, <2>1, <2>2, <4>3 DEF LogsInv
    <3> QED BY <1>1, <3>1, <3>2, Numbers DEF IInv
  <2>4. Covered(b)
    BY <1>1, <2>3 DEF IInv, Whole
  <2>5. "logs" \in Table /\ Content("logs") = LogBlocks
    BY DEF Table, Content
  <2> QED BY <2>4, <2>5 DEF Covered
<1> QED BY <1>1, Inductive, LogsInductive, PTL

-----------------------------------------------------------------------------
(***************************************************************************)
(* The block floor.  Beside IInv, TruthInv is kept by every step.          *)
(***************************************************************************)

LEMMA CutNumbers ==
    ASSUME TypeOK
    PROVE  /\ TipAgeBoundary \in Nat /\ boundary \in Nat /\ Cut \in Nat
           /\ TruthCut = IF BlocksGone THEN 0 ELSE Cut
<1>1. head \in Block /\ boundary \in Nat
  BY DEF TypeOK
<1>2. BlockTime(head) \in Nat /\ Interval \in Nat
  BY <1>1, EngineAssumption, FullModeAssumption
<1>3. TipAgeBoundary \in Nat
  BY <1>2 DEF TipAgeBoundary
<1> QED BY <1>1, <1>3 DEF Cut, TruthCut

\* A step that leaves the rows alone and asks for no more of them than before.
LEMMA TruthKept ==
    ASSUME IInv, TruthInv, IInv', rows' = rows, boundary' <= TipAgeBoundary',
           Cut <= Cut', BlocksGone' => BlocksGone,
           dtable' = "blocks" /\ dpc' \notin {"off", "idle"}
               => dtable = "blocks" /\ dpc \notin {"off", "idle"},
           Last'.exists => StoredOrCut(Last'.index),
           pc' = "cont_states" => StoredOrCut(cursor'),
           \A y \in Points' : FilledFrom(stored, stored, TruthCut, y)
    PROVE  TruthInv'
<1>1. /\ stored' = stored /\ stored \subseteq Block
      /\ \A b \in Block : BlockTime(b) \in Nat
  BY Numbers DEF IInv, stored
<1>2. /\ Cut \in Nat /\ Cut' \in Nat /\ TruthCut = (IF BlocksGone THEN 0 ELSE Cut)
      /\ TruthCut' = (IF BlocksGone' THEN 0 ELSE Cut')
  <2>1. TypeOK' => (Cut \in Nat /\ TruthCut = IF BlocksGone THEN 0 ELSE Cut)'
    BY CutNumbers, PTL
  <2> QED BY <2>1, CutNumbers DEF IInv
<1>3. TruthCut \in Nat /\ TruthCut' \in Nat /\ TruthCut <= TruthCut'
  BY <1>2
<1>4. (\A b \in stored : BlockTime(b) >= TruthCut => Covered(b))'
  <2>1. ASSUME NEW b \in stored', BlockTime(b) >= TruthCut' PROVE Covered(b)'
    <3>1. BlockTime(b) >= TruthCut
      BY <1>1, <1>3, <2>1
    <3>2. Covered(b)
      BY <1>1, <2>1, <3>1 DEF TruthInv
    <3> QED BY <3>2 DEF Covered
  <2> QED BY <2>1
<1>5. (\A b \in rows["transactions"] \cap ReceiptLogBlocks :
          BlockTime(b) >= Cut \/ (dtable = "blocks" /\ dpc \notin {"off", "idle"})
             => b \in rows["logs"])'
  <2>1. \A b \in ReceiptLogBlocks : BlockTime(b) \in Nat
    BY <1>1, EngineAssumption
  <2> QED BY <1>2, <2>1 DEF TruthInv
<1>6. (\A x \in Points : FilledFrom(stored, stored, TruthCut, x))'
  BY <1>1, <1>3 DEF FilledFrom
<1>7. ASSUME NEW b, StoredOrCut(b), BlockTime(b) \in Nat \/ b \in stored
      PROVE  b \in stored' \/ (BlockTime(b) < Cut' /\ (BlocksGone' => \A a \in stored' : b < a))
  BY <1>1, <1>2, <1>7 DEF StoredOrCut
<1>8. (Last.exists => StoredOrCut(Last.index))'
  <2>1. Last'.exists => BlockTime(Last'.index) \in Nat
    BY <1>1 DEF IInv, RowsStored
  <2> QED BY <1>7, <2>1 DEF StoredOrCut
<1>9. (pc = "cont_states" => StoredOrCut(cursor))'
  <2>1. pc' = "cont_states" => cursor' \in Block
    <3>1. /\ pc' = "cont_states" => cursor' <= ixEnd'
          /\ ixEnd' <= head'
      BY DEF IInv, Ranges
    <3>2. cursor' \in Nat /\ ixEnd' \in Nat /\ head' \in Block /\ MaxBlock \in Nat
      BY EngineAssumption DEF IInv, TypeOK
    <3> QED BY <3>1, <3>2 DEF Block
  <2> QED BY <1>1, <1>7, <2>1 DEF StoredOrCut
<1> QED BY <1>4, <1>5, <1>6, <1>8, <1>9 DEF TruthInv

\* A step of the indexer that leaves the rows alone.
LEMMA TruthEngine ==
    ASSUME IInv, TruthInv, IInv', rows' = rows, head' = head, UNCHANGED <<dpc, dtable, boundary>>,
           Last'.exists => StoredOrCut(Last'.index),
           pc' = "cont_states" => StoredOrCut(cursor'),
           \A y \in Points' : FilledFrom(stored, stored, TruthCut, y)
    PROVE  TruthInv'
<1>1. TipAgeBoundary' = TipAgeBoundary /\ Cut' = Cut /\ BlocksGone' = BlocksGone
  <2>1. TipAgeBoundary' = TipAgeBoundary
    BY DEF TipAgeBoundary
  <2>2. BlocksGone' = BlocksGone
    BY Zenon DEF BlocksGone
  <2> QED BY <2>1, <2>2 DEF Cut
<1>2. boundary' <= TipAgeBoundary'
  BY <1>1 DEF TruthInv
<1>3. Cut <= Cut'
  BY <1>1, CutNumbers DEF IInv
<1>4. dtable' = "blocks" /\ dpc' \notin {"off", "idle"}
               => dtable = "blocks" /\ dpc \notin {"off", "idle"}
  OBVIOUS
<1>5. BlocksGone' => BlocksGone
  BY <1>1
<1> QED BY <1>2, <1>3, <1>4, <1>5, TruthKept

\* The case in which neither LastIndexed nor a point is new.
LEMMA TruthStays ==
    ASSUME IInv, TruthInv, IInv', rows' = rows, head' = head, UNCHANGED <<dpc, dtable, boundary>>,
           Last' = Last, pc' = "cont_states" => pc = "cont_states" /\ cursor' = cursor,
           \A y \in Points' : \E x \in Points : y <= x
    PROVE  TruthInv'
<1>1. IInv' => (\A x \in Points : x \in Int /\ Filled(x))'
  BY PointsFilled, PTL
<1>2. \A y \in Points' : FilledFrom(stored, stored, TruthCut, y)
  <2> SUFFICES ASSUME NEW y \in Points' PROVE FilledFrom(stored, stored, TruthCut, y)
    OBVIOUS
  <2>1. PICK x \in Points : y <= x
    OBVIOUS
  <2>2. y \in Int /\ x \in Int /\ FilledFrom(stored, stored, TruthCut, x)
    BY <1>1, PointsFilled DEF TruthInv
  <2> QED BY <2>1, <2>2 DEF FilledFrom, Block
<1>3. /\ Last'.exists => StoredOrCut(Last'.index)
      /\ pc' = "cont_states" => StoredOrCut(cursor')
  BY DEF TruthInv
<1> QED BY <1>2, <1>3, TruthEngine

\* Inserting a range at a point, with nothing missing between it and the other
\* points above.
LEMMA TruthInserted ==
    ASSUME IInv, TruthInv, NEW lo, NEW hi, lo \in Block, hi \in Block, lo <= hi,
           Insert(lo, hi), lo \in Points,
           head' = head, UNCHANGED <<dpc, dtable, boundary>>, Last' = Last,
           \A y \in Points' : y \in Points \/ \E c \in stored' : y = c + 1,
           \A y \in Points : \A b \in Block : hi < b /\ b < y => b \in stored,
           BlocksGone /\ Last.exists => Last.index < lo,
           pc' = "cont_states" => cursor' \in lo .. hi
    PROVE  TruthInv'
<1>1. /\ stored' = stored \cup (lo .. hi) /\ lo .. hi \subseteq Block
      /\ lo \in Int /\ hi \in Int /\ Block \subseteq Int /\ stored \subseteq Block
      /\ \A b \in Block : BlockTime(b) \in Int
  BY Inserted, Typed, Numbers DEF IInv
<1>2. TipAgeBoundary' = TipAgeBoundary /\ Cut' = Cut /\ BlocksGone' = BlocksGone
      /\ TruthCut' = TruthCut
  <2>1. TipAgeBoundary' = TipAgeBoundary
    BY DEF TipAgeBoundary
  <2>2. BlocksGone' = BlocksGone
    BY Zenon DEF BlocksGone
  <2>3. Cut' = Cut
    BY <2>1 DEF Cut
  <2> QED BY <2>1, <2>2, <2>3 DEF TruthCut
<1>3. Cut \in Nat /\ TruthCut = (IF BlocksGone THEN 0 ELSE Cut)
  BY CutNumbers DEF IInv
<1>4. /\ \A t \in Table :
            rows'[t] = rows[t] \cup ((Content(t) \cap (lo .. hi)) \ Ignored(t))
      /\ "transactions" \in Table /\ "logs" \in Table
      /\ Ignored("transactions") = {}
      /\ Ignored("logs") = ReceiptLogBlocks \cap rows["transactions"]
      /\ Content("transactions") = TxBlocks /\ Content("logs") = LogBlocks
      /\ ReceiptLogBlocks \subseteq LogBlocks
  BY EngineAssumption DEF Insert, Table, Content, Ignored
<1>5. \A b \in rows["transactions"] \cap ReceiptLogBlocks :
         BlockTime(b) >= Cut \/ (dtable = "blocks" /\ dpc \notin {"off", "idle"})
            => b \in rows["logs"]
  BY DEF TruthInv
<1>6. ASSUME NEW b \in rows'["transactions"] \cap ReceiptLogBlocks,
             BlockTime(b) >= Cut \/ (dtable = "blocks" /\ dpc \notin {"off", "idle"})
      PROVE  b \in rows'["logs"]
  <2>1. CASE b \in rows["transactions"]
    BY <1>4, <1>5, <1>6, <2>1
  <2>2. CASE b \in lo .. hi /\ b \notin rows["transactions"]
    BY <1>4, <1>6, <2>2
  <2> QED BY <1>4, <2>1, <2>2
<1>7. ASSUME NEW b \in stored', BlockTime(b) >= TruthCut,
             NEW t \in Table, b \in Content(t)
      PROVE  b \in rows'[t]
  <2>1. CASE b \in stored
    <3>1. Covered(b)
      BY <1>7, <2>1 DEF TruthInv
    <3> QED BY <1>4, <1>7, <3>1 DEF Covered
  <2>2. CASE b \in lo .. hi /\ b \notin Ignored(t)
    BY <1>4, <1>7, <2>2
  <2>3. CASE b \in Ignored(t)
    <3>1. t = "logs" /\ b \in ReceiptLogBlocks \cap rows["transactions"]
      BY <2>3 DEF Ignored
    <3>2. BlockTime(b) >= Cut \/ (dtable = "blocks" /\ dpc \notin {"off", "idle"})
      <4>1. CASE BlocksGone
        BY <4>1 DEF BlocksGone
      <4>2. CASE ~BlocksGone
        BY <1>3, <1>7, <4>2
      <4> QED BY <4>1, <4>2
    <3>3. b \in rows["logs"]
      BY <1>5, <3>1, <3>2
    <3> QED BY <1>4, <3>1, <3>3
  <2> QED BY <1>1, <2>1, <2>2, <2>3
<1>8. ASSUME NEW y \in Points', NEW b \in Block, b < y, BlockTime(b) >= TruthCut,
             NEW a \in stored', a <= b
      PROVE  b \in stored'
  <2>1. CASE b \in lo .. hi
    BY <1>1, <2>1
  <2>2. CASE a \in lo .. hi /\ hi < b /\ y \in Points
    BY <1>1, <1>8, <2>2
  <2>3. CASE a \in stored /\ y \in Points
    <3>1. FilledFrom(stored, stored, TruthCut, y)
      BY <2>3 DEF TruthInv
    <3> QED BY <1>1, <1>8, <2>3, <3>1 DEF FilledFrom
  <2>4. CASE y \notin Points /\ b \notin lo .. hi
    <3>1. PICK c \in lo .. hi : y = c + 1
      BY <1>1, <2>4 DEF Points
    <3>2. b < lo /\ a \in stored
      BY <1>1, <1>8, <2>4, <3>1
    <3>3. FilledFrom(stored, stored, TruthCut, lo)
      BY DEF TruthInv
    <3> QED BY <1>1, <1>8, <3>2, <3>3 DEF FilledFrom
  <2> QED BY <1>1, <1>8, <2>1, <2>2, <2>3, <2>4
<1>9. (\A x \in Points : FilledFrom(stored, stored, TruthCut, x))'
  BY <1>2, <1>8 DEF FilledFrom
<1>10. (Last.exists => StoredOrCut(Last.index))'
  <2> SUFFICES ASSUME Last.exists PROVE StoredOrCut(Last.index)'
    OBVIOUS
  <2>1. StoredOrCut(Last.index)
    BY DEF TruthInv
  <2>2. Last.index \in Int
    BY Numbers DEF IInv
  <2>3. BlocksGone => \A a \in lo .. hi : Last.index < a
    BY <1>1, <2>2
  <2> QED BY <1>1, <1>2, <2>1, <2>3 DEF StoredOrCut
<1>11. (pc = "cont_states" => StoredOrCut(cursor))'
  BY <1>1 DEF StoredOrCut
<1>12. (\A b \in stored : BlockTime(b) >= TruthCut => Covered(b))'
  BY <1>2, <1>7 DEF Covered
<1>13. (\A b \in rows["transactions"] \cap ReceiptLogBlocks :
          BlockTime(b) >= Cut \/ (dtable = "blocks" /\ dpc \notin {"off", "idle"})
             => b \in rows["logs"])'
  BY <1>2, <1>6
<1>14. (boundary <= TipAgeBoundary)'
  BY <1>2 DEF TruthInv
<1> QED BY <1>9, <1>10, <1>11, <1>12, <1>13, <1>14 DEF TruthInv

LEMMA IndexBatchKeepsTruth ==
    ASSUME IInv, TruthInv, IInv', IndexBatch
    PROVE  TruthInv'
<1> DEFINE hi == LastInRound
<1>1. /\ pc = "hist" /\ pc' = "hist_states" /\ cursor <= ixEnd
      /\ Insert(cursor, hi) /\ states' = states /\ cursor' = cursor /\ ixEnd' = ixEnd
      /\ startIndex' = startIndex /\ head' = head
      /\ dpc' = dpc /\ dtable' = dtable /\ boundary' = boundary
  BY DEF IndexBatch, HistoryBatch, plan, dropVars
<1>2. /\ cursor \in Nat /\ ixEnd \in Nat /\ head \in Block /\ MaxBlock \in Nat /\ ixEnd <= head
      /\ startIndex <= cursor /\ startIndex \in Nat
  BY <1>1, Numbers DEF IInv, Ranges, HistoryPc
<1>3. cursor \in Block /\ hi \in Block /\ cursor <= hi
  <2>1. hi \in Int /\ cursor <= hi /\ hi <= ixEnd
    BY <1>1, <1>2, EngineAssumption DEF LastInRound, Lesser
  <2> HIDE DEF hi
  <2> QED BY <1>1, <1>2, <2>1 DEF Block
<1> HIDE DEF hi
<1>4. Lesser(cursor, ixEnd + 1) = cursor
  BY <1>1, <1>2 DEF Lesser
<1>5. cursor \in Points
  BY <1>1, <1>4 DEF Points, HistoryPc
<1>6. \A y \in Points' : y \in Points \/ \E c \in stored' : y = c + 1
  BY <1>1 DEF Points, HistoryPc, ContinuousPc
<1>7. \A y \in Points : \A b \in Block : hi < b /\ b < y => b \in stored
  <2>1. \A y \in Points : y = startIndex \/ y = cursor \/ \E c \in stored : y = c + 1
    BY <1>1, <1>4 DEF Points, HistoryPc, ContinuousPc
  <2>2. \A c \in stored : \A b \in startIndex .. c : b \in stored
    BY <1>1 DEF IInv, HistoryFilled, HistoryPc
  <2>3. stored \subseteq Block /\ Block \subseteq Int
    BY Numbers DEF IInv
  <2> QED BY <1>2, <1>3, <2>1, <2>2, <2>3
<1>8. ~BlocksGone
  BY <1>1 DEF IInv, DropInside, BlocksGone, ContinuousPc
<1>9. Last' = Last
  BY <1>1 DEF Last
<1> QED BY <1>1, <1>3, <1>5, <1>6, <1>7, <1>8, <1>9, TruthInserted

LEMMA IndexBlockKeepsTruth ==
    ASSUME IInv, TruthInv, IInv', IndexBlock
    PROVE  TruthInv'
<1>1. /\ pc = "cont" /\ pc' = "cont_states" /\ cursor <= ixEnd
      /\ Insert(cursor, cursor) /\ states' = states /\ cursor' = cursor
      /\ histLast' = histLast /\ head' = head
      /\ dpc' = dpc /\ dtable' = dtable /\ boundary' = boundary
  BY DEF IndexBlock, ContinuousBlock, plan, dropVars
<1>2. cursor \in Nat /\ ixEnd \in Nat /\ head \in Block /\ MaxBlock \in Nat /\ ixEnd <= head
  BY Numbers DEF IInv, Ranges
<1>3. cursor \in Block /\ cursor <= cursor /\ cursor \in cursor .. cursor
  BY <1>1, <1>2 DEF Block
<1>4. cursor \in Points
  BY <1>1 DEF Points, ContinuousPc
<1>5. \A y \in Points' : y \in Points \/ \E c \in stored' : y = c + 1
  BY <1>1 DEF Points, HistoryPc, ContinuousPc
<1>6. (\A c \in stored : c <= cursor) /\ Last.index < cursor /\ histLast < cursor
  BY <1>1 DEF IInv, ContinuousFilled, ContinuousPc
<1>7. \A y \in Points : \A b \in Block : cursor < b /\ b < y => b \in stored
  <2>1. \A y \in Points : y = histLast + 1 \/ y = cursor \/ \E c \in stored : y = c + 1
    BY <1>1 DEF Points, HistoryPc, ContinuousPc
  <2>2. stored \subseteq Block /\ Block \subseteq Int /\ histLast \in Nat
    BY Numbers DEF IInv
  <2> QED BY <1>2, <1>6, <2>1, <2>2
<1>8. Last' = Last
  BY <1>1 DEF Last
<1> QED BY <1>1, <1>3, <1>4, <1>5, <1>6, <1>7, <1>8, TruthInserted

\* Reading the tip, moving on and starting the process are quiet.
LEMMA EngineMovesKeepTruth ==
    ASSUME IInv, TruthInv, IInv',
           HistoryRange \/ HistoryExtend \/ ContinuousRange \/ ContinuousPoll \/ ProcessStarts,
           UNCHANGED dropVars
    PROVE  TruthInv'
<1> USE DEF plan, dropVars
<1>1. Last' = Last
  BY TipObserved, Typed DEF IInv, HistoryRange, HistoryExtend, ContinuousRange,
     ContinuousPoll, ProcessStarts, Last
<1>2. /\ rows' = rows /\ head' = head /\ stored' = stored
      /\ dpc' = dpc /\ dtable' = dtable /\ boundary' = boundary
  BY DEF HistoryRange, HistoryExtend, ContinuousRange, ContinuousPoll, ProcessStarts, stored
<1>3. pc' # "cont_states"
  BY DEF HistoryRange, HistoryExtend, ContinuousRange, ContinuousPoll, ProcessStarts
<1>4. \A y \in Points' : \E x \in Points : y <= x
  <2>1. startIndex \in Int /\ cursor \in Int /\ ixEnd \in Int /\ ixEnd' \in Int
    <3>1. TypeOK /\ TypeOK'
      BY DEF IInv
    <3> QED BY <3>1 DEF TypeOK
  <2>2. \A x \in Points : x <= x
    BY PointsFilled
  <2>3. CASE HistoryRange
    <3>1. \A y \in Points' : \/ \E c \in stored : y = c + 1
                             \/ y = startIndex \/ y = Lesser(startIndex, ixEnd' + 1)
      BY <1>2, <2>3 DEF HistoryRange, Points, HistoryPc, ContinuousPc
    <3>2. startIndex \in Points /\ \A c \in stored : c + 1 \in Points
      BY <2>3 DEF HistoryRange, Points, HistoryPc
    <3>3. Lesser(startIndex, ixEnd' + 1) <= startIndex
      BY <2>1, LesserOf
    <3> QED BY <2>2, <3>1, <3>2, <3>3
  <2>4. CASE HistoryExtend
    <3>1. \A y \in Points' : \/ \E c \in stored : y = c + 1
                             \/ y = startIndex \/ y = Lesser(cursor, ixEnd' + 1)
      BY <1>2, <2>4 DEF HistoryExtend, Points, HistoryPc, ContinuousPc
    <3>2. cursor <= ixEnd
      BY <2>4 DEF HistoryExtend, IInv, Ranges
    <3>3. Lesser(cursor, ixEnd + 1) = cursor
      BY <2>1, <3>2 DEF Lesser
    <3>4. Lesser(cursor, ixEnd' + 1) <= cursor
      BY <2>1, LesserOf
    <3>5. pc \in HistoryPc \ {"hist_range"}
      BY <2>4 DEF HistoryExtend, HistoryPc
    <3>6. startIndex \in Points /\ cursor \in Points /\ \A c \in stored : c + 1 \in Points
      BY <3>3, <3>5 DEF Points
    <3> QED BY <2>2, <3>1, <3>4, <3>6
  <2>5. CASE ContinuousRange \/ ContinuousPoll \/ ProcessStarts
    <3>1. Points' \subseteq Points
      BY <1>2, <2>5 DEF ContinuousRange, ContinuousPoll, ProcessStarts, Points,
                        HistoryPc, ContinuousPc
    <3> QED BY <2>2, <3>1
  <2> QED BY <2>3, <2>4, <2>5
<1> QED BY <1>1, <1>2, <1>3, <1>4, TruthStays

LEMMA HistoryStatesKeepsTruth ==
    ASSUME IInv, TruthInv, IInv', HistoryStates, UNCHANGED dropVars
    PROVE  TruthInv'
<1> DEFINE hi == LastInRound
<1> USE DEF plan, dropVars
<1>1. /\ pc = "hist_states" /\ pc' \in {"hist", "hist_extend"}
      /\ cursor' = cursor + BatchSize /\ ixEnd' = ixEnd
      /\ startIndex' = startIndex /\ rows' = rows /\ stored' = stored /\ head' = head
      /\ PublishCoverage(cursor, hi)
      /\ dpc' = dpc /\ dtable' = dtable /\ boundary' = boundary
  BY DEF HistoryStates, stored
<1>2. cursor <= ixEnd /\ cursor \in Int /\ ixEnd \in Int /\ BatchSize \in Int /\ BatchSize > 0
  BY <1>1, Numbers, EngineAssumption DEF IInv, Ranges
<1>3. /\ hi \in Int /\ cursor <= hi /\ Lesser(cursor + BatchSize, ixEnd + 1) = hi + 1
  BY <1>2 DEF LastInRound, Lesser
<1>4. \A b \in cursor .. hi : b \in stored
  BY <1>1 DEF IInv, HistoryFilled, HistoryPc
<1> HIDE DEF hi
<1>5. cursor \in stored /\ hi \in stored /\ cursor \in Block /\ hi \in Block
  BY <1>2, <1>3, <1>4, Numbers DEF IInv
<1>6. Last'.index = hi
  BY <1>1, <1>5, Typed, CoveragePublished DEF IInv
<1>7. \A y \in Points' : FilledFrom(stored, stored, TruthCut, y)
  <2>1. \A y \in Points' : \/ \E c \in stored : y = c + 1
                           \/ y = startIndex \/ y = hi + 1
    BY <1>1, <1>3 DEF Points, HistoryPc, ContinuousPc
  <2>2. startIndex \in Points /\ \A c \in stored : c + 1 \in Points
    BY <1>1 DEF Points, HistoryPc
  <2> QED BY <1>5, <2>1, <2>2 DEF TruthInv
<1>8. StoredOrCut(Last'.index) /\ pc' # "cont_states"
  BY <1>1, <1>5, <1>6 DEF StoredOrCut
<1> QED BY <1>1, <1>7, <1>8, TruthEngine

LEMMA ContinuousStatesKeepsTruth ==
    ASSUME IInv, TruthInv, IInv', ContinuousStates, UNCHANGED dropVars
    PROVE  TruthInv'
<1> USE DEF plan, dropVars
<1>1. /\ pc = "cont_states" /\ pc' = "cont" /\ cursor' = cursor + 1
      /\ histLast' = histLast /\ rows' = rows /\ stored' = stored /\ head' = head
      /\ PublishCoverage(cursor, cursor)
      /\ dpc' = dpc /\ dtable' = dtable /\ boundary' = boundary
  BY DEF ContinuousStates, stored
<1>2. /\ cursor \in Nat /\ cursor <= ixEnd /\ ixEnd \in Nat /\ ixEnd <= head /\ head \in Block
      /\ MaxBlock \in Nat /\ Block \subseteq Int /\ stored \subseteq Block
      /\ \A b \in Block : BlockTime(b) \in Nat
  BY <1>1, Numbers DEF IInv, Ranges
<1>3. cursor \in Block
  BY <1>2 DEF Block
<1>4. Last'.index = cursor
  BY <1>1, <1>3, Typed, CoveragePublished DEF IInv
<1>5. StoredOrCut(cursor)
  BY <1>1 DEF TruthInv
<1>6. /\ cursor \in Points /\ histLast + 1 \in Points
      /\ \A c \in stored : c + 1 \in Points
  BY <1>1 DEF Points, ContinuousPc
<1>7. FilledFrom(stored, stored, TruthCut, cursor + 1)
  <2>1. FilledFrom(stored, stored, TruthCut, cursor)
    BY <1>6 DEF TruthInv
  <2>2. Cut \in Nat /\ TruthCut = (IF BlocksGone THEN 0 ELSE Cut)
    BY CutNumbers DEF IInv
  <2>3. ASSUME NEW b \in Block, b < cursor + 1, BlockTime(b) >= TruthCut,
               NEW a \in stored, a <= b
        PROVE  b \in stored
    <3>1. CASE b < cursor
      BY <2>1, <2>3, <3>1 DEF FilledFrom
    <3>2. CASE b = cursor
      <4>1. CASE BlocksGone
        BY <1>2, <1>5, <2>3, <3>2, <4>1 DEF StoredOrCut
      <4>2. CASE ~BlocksGone
        BY <1>2, <1>5, <2>2, <2>3, <3>2, <4>2 DEF StoredOrCut
      <4> QED BY <4>1, <4>2
    <3> QED BY <1>2, <2>3, <3>1, <3>2
  <2> QED BY <2>3 DEF FilledFrom
<1>8. \A y \in Points' : FilledFrom(stored, stored, TruthCut, y)
  <2>1. \A y \in Points' : \/ \E c \in stored : y = c + 1
                           \/ y = histLast + 1 \/ y = cursor + 1
    BY <1>1 DEF Points, HistoryPc, ContinuousPc
  <2> QED BY <1>6, <1>7, <2>1 DEF TruthInv
<1> QED BY <1>1, <1>4, <1>5, <1>8, TruthEngine

\* The continuous run resumes at a point, or past a block that is gone.
LEMMA ContinuousStartKeepsTruth ==
    ASSUME IInv, TruthInv, IInv', ContinuousStart, UNCHANGED dropVars
    PROVE  TruthInv'
<1> USE DEF plan, dropVars
<1>1. /\ pc = "cont_start" /\ pc' = "cont_range" /\ states' = states /\ head' = head
      /\ histLast' = histLast /\ rows' = rows /\ stored' = stored /\ Last' = Last
      /\ dpc' = dpc /\ dtable' = dtable /\ boundary' = boundary
  BY DEF ContinuousStart, stored, Last
<1>2. /\ histLast \in Int /\ Last.index \in Nat /\ stored \subseteq Block
      /\ \A b \in Block : b \in Int /\ BlockTime(b) \in Int
  BY Numbers DEF IInv
<1>3. cursor' = histLast + 1 \/ (Last.exists /\ cursor' = Last.index + 1)
  <2>1. cursor' = ResumeIndex(histLast, Last)
    BY DEF ContinuousStart, Last
  <2>2. ~Last.exists => Last.index = 0
    BY DEF IInv, MissingRows, Last, StateName, NoRow
  <2> QED BY <2>1, <2>2 DEF ResumeIndex, IsSet
<1>4. histLast + 1 \in Points /\ \A c \in stored : c + 1 \in Points
  BY <1>1 DEF Points, ContinuousPc
<1>5. FilledFrom(stored, stored, TruthCut, cursor')
  <2>1. CASE cursor' = histLast + 1
    BY <1>4, <2>1 DEF TruthInv
  <2>2. CASE Last.exists /\ cursor' = Last.index + 1
    <3>1. Last.index \in Block /\ StoredOrCut(Last.index)
      BY <2>2 DEF IInv, RowsStored, TruthInv
    <3>2. CASE Last.index \in stored
      BY <1>4, <2>2, <3>2 DEF TruthInv
    <3>3. CASE BlocksGone /\ \A a \in stored : Last.index < a
      <4>1. \A b \in Block : b < cursor' => b <= Last.index
        BY <1>2, <2>2
      <4> QED BY <1>2, <3>3, <4>1 DEF FilledFrom
    <3>4. CASE ~BlocksGone /\ BlockTime(Last.index) < Cut
      <4>1. Cut \in Nat /\ TruthCut = Cut
        BY <3>4, CutNumbers DEF IInv
      <4>2. ASSUME NEW b \in Block, b < cursor' PROVE BlockTime(b) < TruthCut
        <5>1. b <= Last.index
          BY <1>2, <2>2, <4>2
        <5>2. BlockTime(b) <= BlockTime(Last.index)
          BY <3>1, <5>1, EngineAssumption
        <5> QED BY <1>2, <3>1, <3>4, <4>1, <5>2
      <4> QED BY <1>2, <4>1, <4>2 DEF FilledFrom
    <3> QED BY <3>1, <3>2, <3>3, <3>4 DEF StoredOrCut
  <2> QED BY <1>3, <2>1, <2>2
<1>6. \A y \in Points' : FilledFrom(stored, stored, TruthCut, y)
  <2>1. \A y \in Points' : \/ \E c \in stored : y = c + 1
                           \/ y = histLast + 1 \/ y = cursor'
    BY <1>1 DEF Points, HistoryPc, ContinuousPc
  <2> QED BY <1>4, <1>5, <2>1 DEF TruthInv
<1>7. Last'.exists => StoredOrCut(Last'.index)
  BY <1>1 DEF TruthInv
<1> QED BY <1>1, <1>6, <1>7, TruthEngine

\* The boundary rises with the chain.
LEMMA BoundaryRises ==
    ASSUME TypeOK, TypeOK', head <= head'
    PROVE  TipAgeBoundary <= TipAgeBoundary'
<1>1. head \in Block /\ head' \in Block /\ Interval \in Nat
  BY FullModeAssumption DEF TypeOK
<1>2. /\ BlockTime(head) \in Nat /\ BlockTime(head') \in Nat
      /\ BlockTime(head) <= BlockTime(head')
  BY <1>1, EngineAssumption
<1> QED BY <1>1, <1>2 DEF TipAgeBoundary

\* A step that leaves the rows and LastIndexed alone and has no new point, with
\* the deletion loop where it was or between iterations.
LEMMA TruthQuiet ==
    ASSUME IInv, TruthInv, IInv', rows' = rows, head <= head',
           \/ UNCHANGED <<dpc, dtable, boundary>>
           \/ dpc' \in {"off", "idle"} /\ boundary' <= boundary,
           Last' = Last, pc' = "cont_states" => pc = "cont_states" /\ cursor' = cursor,
           Points' \subseteq Points
    PROVE  TruthInv'
<1>1. /\ TipAgeBoundary \in Nat /\ TipAgeBoundary' \in Nat
      /\ TipAgeBoundary <= TipAgeBoundary' /\ boundary \in Nat /\ boundary' \in Nat
      /\ boundary <= TipAgeBoundary
  <2>1. TypeOK' => (TipAgeBoundary \in Nat /\ boundary \in Nat)'
    BY CutNumbers, PTL
  <2> QED BY <2>1, CutNumbers, BoundaryRises DEF IInv, TruthInv
<1>2. boundary' <= TipAgeBoundary'
  BY <1>1
<1>3. Cut <= Cut'
  <2>1. CASE UNCHANGED <<dpc, dtable, boundary>>
    BY <1>1, <2>1 DEF Cut
  <2>2. CASE dpc' \in {"off", "idle"}
    BY <1>1, <2>2 DEF Cut
  <2> QED BY <2>1, <2>2
<1>4. BlocksGone' => BlocksGone
  BY DEF BlocksGone
<1>5. /\ Last'.exists => StoredOrCut(Last'.index)
      /\ pc' = "cont_states" => StoredOrCut(cursor')
      /\ \A y \in Points' : FilledFrom(stored, stored, TruthCut, y)
  BY DEF TruthInv
<1>6. dtable' = "blocks" /\ dpc' \notin {"off", "idle"}
               => dtable = "blocks" /\ dpc \notin {"off", "idle"}
  OBVIOUS
<1> QED BY <1>2, <1>3, <1>4, <1>5, <1>6, TruthKept

LEMMA GoContinuousKeepsTruth ==
    ASSUME IInv, TruthInv, IInv', GoContinuous
    PROVE  TruthInv'
<1> USE DEF plan, dropVars
<1>1. /\ pc = "hist" /\ pc' = "cont_start" /\ ixEnd < cursor /\ histLast' = ixEnd
      /\ rows' = rows /\ stored' = stored /\ Last' = Last /\ head' = head
  BY Numbers DEF IInv, GoContinuous, HistoryReturns, stored, Last
<1>2. \/ UNCHANGED <<dpc, dtable, boundary>>
      \/ dpc' \in {"off", "idle"} /\ boundary' <= boundary
  BY Numbers DEF IInv, GoContinuous, DropStarts
<1>3. Lesser(cursor, ixEnd + 1) = ixEnd + 1
  BY <1>1, Numbers DEF IInv, Lesser
<1>4. Points' \subseteq Points
  <2>1. \A y \in Points' : (\E c \in stored : y = c + 1) \/ y = ixEnd + 1
    BY <1>1 DEF Points, HistoryPc, ContinuousPc
  <2>2. ixEnd + 1 \in Points /\ \A c \in stored : c + 1 \in Points
    BY <1>1, <1>3 DEF Points, HistoryPc
  <2> QED BY <2>1, <2>2
<1>5. head <= head'
  BY <1>1, Numbers DEF IInv
<1> QED BY <1>1, <1>2, <1>4, <1>5, TruthQuiet

\* An error, the end of a process, and the steps of the chain.
LEMMA OthersKeepTruth ==
    ASSUME IInv, TruthInv, IInv', Finish \/ Fault \/ Chain \/ UNCHANGED fullVars
    PROVE  TruthInv'
<1> USE DEF plan, dropVars
<1>1. rows' = rows /\ states' = states
  BY DEF Finish, ContinuousReturns, DropEnds, Fault, HistoryFails, ContinuousFails,
         DropFails, ProcessEnds, Chain, ChainGrows, fullVars, engineVars
<1>2. Last' = Last /\ stored' = stored
  BY <1>1 DEF Last, stored
<1>3. \/ UNCHANGED <<dpc, dtable, boundary>>
      \/ dpc' \in {"off", "idle"} /\ boundary' <= boundary
  <2>1. 0 <= boundary /\ boundary <= boundary
    BY Numbers DEF IInv
  <2> QED BY <2>1 DEF Finish, DropEnds, Fault, HistoryFails, ContinuousFails,
         DropFails, Chain, fullVars
<1>4. /\ Points' \subseteq Points
      /\ pc' = "cont_states" => pc = "cont_states" /\ cursor' = cursor
  <2>1. CASE Finish \/ ContinuousFails \/ ProcessEnds \/ HistoryFails
    BY <1>2, <2>1 DEF Finish, ContinuousReturns, ContinuousFails, ProcessEnds, HistoryFails,
                      Points, HistoryPc, ContinuousPc
  <2>2. CASE DropFails \/ Chain \/ UNCHANGED fullVars
    <3>1. /\ pc' = pc /\ cursor' = cursor /\ ixEnd' = ixEnd
          /\ startIndex' = startIndex /\ histLast' = histLast
      BY <2>2 DEF DropFails, Chain, ChainGrows, fullVars, engineVars
    <3> QED BY <1>2, <3>1 DEF Points
  <2> QED BY <2>1, <2>2 DEF Fault
<1>5. head <= head'
  <2>1. head' \in {head, head + 1}
    BY DEF Finish, ContinuousReturns, Fault, HistoryFails, ContinuousFails,
           DropFails, ProcessEnds, Chain, ChainGrows, fullVars, engineVars
  <2> QED BY <2>1, Numbers DEF IInv
<1> QED BY <1>1, <1>2, <1>3, <1>4, <1>5, TruthQuiet

\* A start resumes at a point, or over an empty table.
LEMMA StartKeepsTruth ==
    ASSUME IInv, TruthInv, IInv', Start
    PROVE  TruthInv'
<1> USE DEF plan
<1>1. /\ pc = "start" /\ pc' = "hist_range" /\ rows' = rows /\ head' = head
      /\ Last' = Last /\ stored' = stored
      /\ dpc' = dpc /\ dtable' = dtable /\ boundary' = boundary
  BY DEF Start, Last, stored
<1>2. \A c \in stored : c + 1 \in Points
  BY DEF Points
<1>3. \A y \in Points' : (\E c \in stored : y = c + 1) \/ y = startIndex'
  BY <1>1 DEF Points, HistoryPc, ContinuousPc
<1>4. stored = {} \/ startIndex' \in Points
  BY <1>2 DEF Start, StartAfterLastRow, StartAsConfigured, StartInsideInterval
<1>5. \A y \in Points' : FilledFrom(stored, stored, TruthCut, y)
  <2>1. CASE stored = {}
    BY <2>1 DEF FilledFrom
  <2>2. CASE startIndex' \in Points
    BY <1>2, <1>3, <2>2 DEF TruthInv
  <2> QED BY <1>4, <2>1, <2>2
<1>6. Last'.exists => StoredOrCut(Last'.index)
  BY <1>1 DEF TruthInv
<1> QED BY <1>1, <1>5, <1>6, TruthEngine

\* The boundary an iteration starts with is the one it might have had.
LEMMA DropResolvesKeepsTruth ==
    ASSUME IInv, TruthInv, IInv', DropResolves(TipAgeBoundary)
    PROVE  TruthInv'
<1> USE DEF plan, engineVars
<1>1. /\ rows' = rows /\ states' = states /\ pc' = pc /\ cursor' = cursor /\ ixEnd' = ixEnd
      /\ startIndex' = startIndex /\ histLast' = histLast /\ head' = head
      /\ dpc = "idle" /\ dpc' = "delete" /\ dtable' = "logs" /\ boundary' = TipAgeBoundary
  BY DEF DropResolves
<1>2. /\ TipAgeBoundary' = TipAgeBoundary /\ TipAgeBoundary \in Nat
      /\ Cut' = Cut /\ ~BlocksGone' /\ Last' = Last /\ stored' = stored
  <2>1. TipAgeBoundary' = TipAgeBoundary
    BY <1>1 DEF TipAgeBoundary
  <2> QED BY <1>1, <2>1, CutNumbers DEF IInv, Cut, BlocksGone, Last, stored
<1>3. Points' = Points
  BY <1>1, <1>2 DEF Points
<1>4. boundary' <= TipAgeBoundary' /\ Cut <= Cut'
  BY <1>1, <1>2, CutNumbers DEF IInv
<1>5. /\ Last'.exists => StoredOrCut(Last'.index)
      /\ pc' = "cont_states" => StoredOrCut(cursor')
      /\ \A y \in Points' : FilledFrom(stored, stored, TruthCut, y)
  BY <1>1, <1>2, <1>3 DEF TruthInv
<1> QED BY <1>1, <1>2, <1>4, <1>5, TruthKept

\* The loop reads the floor, looks for the first survivor and writes it: it
\* has no more rows to account for after than before.
LEMMA DropMovesKeepTruth ==
    ASSUME IInv, TruthInv, IInv', DropChecksFloor \/ DropFindsFirst \/ DropRaisesFloor
    PROVE  TruthInv'
<1> USE DEF plan, engineVars
<1>1. /\ rows' = rows /\ pc' = pc /\ cursor' = cursor /\ ixEnd' = ixEnd
      /\ startIndex' = startIndex /\ histLast' = histLast /\ head' = head
      /\ boundary' = boundary /\ dpc \in {"check", "first", "write"}
      /\ \/ dtable' = dtable /\ dpc' \in {"first", "write"}
         \/ dtable' # "blocks" /\ dpc' = "delete"
         \/ dtable' = dtable /\ dpc' = "idle"
  BY DEF DropChecksFloor, DropFindsFirst, DropRaisesFloor, NextPass
<1>2. Last' = Last
  BY DEF DropChecksFloor, DropFindsFirst, DropRaisesFloor, UpdateState, Floor, Last,
         IInv, TypeOK, StateName
<1>3. TipAgeBoundary' = TipAgeBoundary /\ stored' = stored
  BY <1>1 DEF TipAgeBoundary, stored
<1>4. Points' = Points
  BY <1>1, <1>3 DEF Points
<1>5. /\ boundary \in Nat /\ TipAgeBoundary \in Nat /\ boundary <= TipAgeBoundary
  BY CutNumbers DEF IInv, TruthInv
<1>6. boundary' <= TipAgeBoundary' /\ Cut <= Cut'
  <2>1. Cut = boundary
    BY <1>1 DEF Cut
  <2>2. Cut' = boundary \/ Cut' = TipAgeBoundary
    BY <1>1, <1>3 DEF Cut
  <2> QED BY <1>1, <1>3, <1>5, <2>1, <2>2
<1>7. BlocksGone' => BlocksGone
  BY <1>1 DEF BlocksGone
<1>8. dtable' = "blocks" /\ dpc' \notin {"off", "idle"}
               => dtable = "blocks" /\ dpc \notin {"off", "idle"}
  BY <1>1
<1>9. /\ Last'.exists => StoredOrCut(Last'.index)
      /\ pc' = "cont_states" => StoredOrCut(cursor')
      /\ \A y \in Points' : FilledFrom(stored, stored, TruthCut, y)
  BY <1>1, <1>2, <1>4 DEF TruthInv
<1> QED BY <1>1, <1>6, <1>7, <1>8, <1>9, TruthKept

\* A deletion takes rows older than the boundary only.
LEMMA DeleteRowsKeepsTruth ==
    ASSUME IInv, TruthInv, IInv', DeleteRows
    PROVE  TruthInv'
<1> USE DEF plan, dropVars
<1>1. /\ states' = states /\ pc' = pc /\ cursor' = cursor /\ ixEnd' = ixEnd
      /\ startIndex' = startIndex /\ histLast' = histLast /\ head' = head
      /\ dpc = "delete" /\ dpc' = dpc /\ dtable' = dtable /\ boundary' = boundary
  BY DEF DeleteRows, DropDeletes
<1>2. /\ "logs" \in Table /\ "blocks" \in Table /\ "transactions" \in Table
  BY DEF Table
<1>3. PICK gone \in SUBSET Expired(dtable) : \E cascade \in Cascade(gone) :
             rows' = [t \in Table |-> IF t = dtable THEN rows[t] \ gone
                                     ELSE IF t = "logs" THEN rows[t] \ cascade
                                     ELSE rows[t]]
  BY DEF DeleteRows, DropDeletes
<1>4. PICK cascade \in Cascade(gone) :
             rows' = [t \in Table |-> IF t = dtable THEN rows[t] \ gone
                                     ELSE IF t = "logs" THEN rows[t] \ cascade
                                     ELSE rows[t]]
  BY <1>3
<1>5. /\ \A b \in gone : BlockTime(b) < boundary
      /\ cascade \subseteq gone /\ (dtable # "transactions" => cascade = {})
  BY DEF Expired, Cascade
<1>6. \A t \in Table : /\ rows'[t] \subseteq rows[t]
                       /\ rows[t] \ rows'[t] \subseteq gone
                       /\ dtable = "blocks" /\ t # "blocks" => rows'[t] = rows[t]
  BY <1>4, <1>5
<1>7. /\ boundary \in Nat /\ stored \subseteq Block
      /\ \A b \in Block : b \in Int /\ BlockTime(b) \in Int
      /\ ReceiptLogBlocks \subseteq Block
  BY Numbers, EngineAssumption DEF IInv
<1>8. /\ TipAgeBoundary' = TipAgeBoundary /\ Cut = boundary /\ Cut' = boundary
      /\ TruthCut = boundary /\ TruthCut' = boundary /\ ~BlocksGone /\ ~BlocksGone'
  BY <1>1 DEF TipAgeBoundary, Cut, TruthCut, BlocksGone
<1>9. stored' \subseteq stored /\ stored \ stored' \subseteq gone
  BY <1>2, <1>6 DEF stored
<1>10. (boundary <= TipAgeBoundary)'
  BY <1>1, <1>8 DEF TruthInv
<1>11. (\A b \in stored : BlockTime(b) >= TruthCut => Covered(b))'
  <2> SUFFICES ASSUME NEW b \in stored', BlockTime(b) >= boundary,
                      NEW t \in Table, b \in Content(t)
               PROVE  b \in rows'[t]
    BY <1>8 DEF Covered
  <2>1. Covered(b)
    BY <1>8, <1>9 DEF TruthInv
  <2>2. b \in rows[t]
    BY <2>1 DEF Covered
  <2>3. b \notin gone
    BY <1>5, <1>7, <1>9
  <2> QED BY <1>6, <2>2, <2>3
<1>12. (\A b \in rows["transactions"] \cap ReceiptLogBlocks :
          BlockTime(b) >= Cut \/ (dtable = "blocks" /\ dpc \notin {"off", "idle"})
             => b \in rows["logs"])'
  <2> SUFFICES ASSUME NEW b \in rows'["transactions"] \cap ReceiptLogBlocks,
                      BlockTime(b) >= boundary \/ dtable = "blocks"
               PROVE  b \in rows'["logs"]
    BY <1>1, <1>8
  <2>1. b \in rows["logs"]
    BY <1>1, <1>2, <1>6, <1>8 DEF TruthInv
  <2>2. CASE dtable = "blocks"
    BY <1>2, <1>6, <2>1, <2>2
  <2>3. CASE BlockTime(b) >= boundary
    <3>1. b \notin gone
      BY <1>5, <1>7, <2>3
    <3> QED BY <1>2, <1>6, <2>1, <3>1
  <2> QED BY <2>2, <2>3
<1>13. Points' \subseteq Points
  BY <1>1, <1>9 DEF Points
<1>14. (\A x \in Points : FilledFrom(stored, stored, TruthCut, x))'
  <2> SUFFICES ASSUME NEW x \in Points', NEW b \in Block, b < x, BlockTime(b) >= boundary,
                      NEW a \in stored', a <= b
               PROVE  b \in stored'
    BY <1>8 DEF FilledFrom
  <2>1. FilledFrom(stored, stored, boundary, x)
    BY <1>8, <1>13 DEF TruthInv
  <2>2. b \in stored
    BY <1>9, <2>1 DEF FilledFrom
  <2>3. b \notin gone
    BY <1>5, <1>7
  <2> QED BY <1>9, <2>2, <2>3
<1>15. ASSUME NEW b, StoredOrCut(b) PROVE b \in stored' \/ BlockTime(b) < boundary
  BY <1>5, <1>8, <1>9, <1>15 DEF StoredOrCut
<1>16. (Last.exists => StoredOrCut(Last.index))'
  <2>1. Last' = Last
    BY <1>1 DEF Last
  <2>2. Last.exists => StoredOrCut(Last.index)
    BY DEF TruthInv
  <2> QED BY <1>8, <1>15, <2>1, <2>2 DEF StoredOrCut
<1>17. (pc = "cont_states" => StoredOrCut(cursor))'
  <2>1. pc = "cont_states" => StoredOrCut(cursor)
    BY DEF TruthInv
  <2> QED BY <1>1, <1>8, <1>15, <2>1 DEF StoredOrCut
<1> QED BY <1>10, <1>11, <1>12, <1>14, <1>16, <1>17 DEF TruthInv

\* When a table is done nothing older than the boundary is left in it.
LEMMA DropTableDoneKeepsTruth ==
    ASSUME IInv, TruthInv, IInv', DropTableDone
    PROVE  TruthInv'
<1> USE DEF plan, engineVars
<1>1. /\ rows' = rows /\ states' = states /\ pc' = pc /\ cursor' = cursor /\ ixEnd' = ixEnd
      /\ startIndex' = startIndex /\ histLast' = histLast /\ head' = head
      /\ dpc = "delete" /\ dpc' \in {"delete", "check"} /\ boundary' = boundary
      /\ Expired(dtable) = {}
      /\ \/ dtable = "transactions" /\ dtable' = "blocks" /\ dpc' = "delete"
         \/ dtable # "transactions" /\ dtable' = dtable /\ dpc' = "check"
  BY DEF DropTableDone
<1>2. stored' = stored /\ Last' = Last
  BY <1>1 DEF stored, Last
<1>3. Points' = Points
  BY <1>1, <1>2 DEF Points
<1>4. /\ boundary \in Nat /\ stored \subseteq Block
      /\ \A b \in Block : b \in Int /\ BlockTime(b) \in Nat
      /\ ReceiptLogBlocks \subseteq Block
  BY Numbers, EngineAssumption DEF IInv
<1>5. /\ TipAgeBoundary' = TipAgeBoundary /\ Cut = boundary /\ Cut' = boundary
      /\ TruthCut = boundary /\ ~BlocksGone
      /\ TruthCut' = (IF BlocksGone' THEN 0 ELSE boundary)
  BY <1>1 DEF TipAgeBoundary, Cut, TruthCut, BlocksGone
<1>6. \A b \in rows[dtable] : BlockTime(b) \in Nat => BlockTime(b) >= boundary
  BY <1>1, <1>4 DEF Expired
<1>7. BlocksGone' => \A b \in stored : BlockTime(b) >= boundary
  BY <1>1, <1>4, <1>6 DEF BlocksGone, stored
<1>8. (boundary <= TipAgeBoundary)'
  BY <1>1, <1>5 DEF TruthInv
<1>9. (\A b \in stored : BlockTime(b) >= TruthCut => Covered(b))'
  <2> SUFFICES ASSUME NEW b \in stored, BlockTime(b) >= TruthCut' PROVE Covered(b)'
    BY <1>2
  <2>1. BlockTime(b) >= boundary
    BY <1>5, <1>7
  <2>2. Covered(b)
    BY <1>5, <2>1 DEF TruthInv
  <2> QED BY <1>1, <2>2 DEF Covered
<1>10. (\A b \in rows["transactions"] \cap ReceiptLogBlocks :
          BlockTime(b) >= Cut \/ (dtable = "blocks" /\ dpc \notin {"off", "idle"})
             => b \in rows["logs"])'
  <2> SUFFICES ASSUME NEW b \in rows["transactions"] \cap ReceiptLogBlocks,
                      BlockTime(b) >= boundary \/ dtable' = "blocks"
               PROVE  b \in rows["logs"]
    BY <1>1, <1>5
  <2>1. CASE dtable = "transactions"
    <3>1. BlockTime(b) >= boundary
      BY <1>4, <1>6, <2>1
    <3> QED BY <1>5, <3>1 DEF TruthInv
  <2>2. CASE dtable # "transactions"
    BY <1>1, <1>5, <2>2 DEF TruthInv
  <2> QED BY <2>1, <2>2
<1>11. (\A x \in Points : FilledFrom(stored, stored, TruthCut, x))'
  <2> SUFFICES ASSUME NEW x \in Points, NEW b \in Block, b < x, BlockTime(b) >= TruthCut',
                      NEW a \in stored, a <= b
               PROVE  b \in stored
    BY <1>2, <1>3 DEF FilledFrom
  <2>1. BlockTime(b) >= boundary
    <3>1. BlockTime(a) <= BlockTime(b) /\ BlockTime(a) \in Nat /\ BlockTime(b) \in Nat
      BY <1>4, EngineAssumption
    <3> QED BY <1>4, <1>5, <1>7, <3>1
  <2>2. FilledFrom(stored, stored, boundary, x)
    BY <1>5 DEF TruthInv
  <2> QED BY <2>1, <2>2 DEF FilledFrom
<1>12. ASSUME NEW b \in Block, StoredOrCut(b)
       PROVE  \/ b \in stored
              \/ BlockTime(b) < boundary /\ (BlocksGone' => \A a \in stored : b < a)
  <2>1. ASSUME BlockTime(b) < boundary, BlocksGone', NEW a \in stored PROVE b < a
    <3>1. BlockTime(a) >= boundary /\ BlockTime(a) \in Nat /\ BlockTime(b) \in Nat
      BY <1>4, <1>7, <2>1
    <3>2. ~(a <= b)
      BY <1>4, <2>1, <3>1, EngineAssumption
    <3> QED BY <1>4, <3>2
  <2> QED BY <1>5, <1>12, <2>1 DEF StoredOrCut
<1>13. (Last.exists => StoredOrCut(Last.index))'
  <2>1. Last.exists => Last.index \in Block /\ StoredOrCut(Last.index)
    BY DEF IInv, RowsStored, TruthInv
  <2> QED BY <1>2, <1>5, <1>12, <2>1 DEF StoredOrCut
<1>14. (pc = "cont_states" => StoredOrCut(cursor))'
  <2>1. pc = "cont_states" => cursor \in Block /\ StoredOrCut(cursor)
    <3>1. cursor \in Nat /\ ixEnd \in Nat /\ head \in Block /\ MaxBlock \in Nat
      BY Numbers DEF IInv
    <3> QED BY <3>1 DEF IInv, Ranges, TruthInv, Block
  <2> QED BY <1>1, <1>2, <1>5, <1>12, <2>1 DEF StoredOrCut
<1> QED BY <1>8, <1>9, <1>10, <1>11, <1>13, <1>14 DEF TruthInv

LEMMA TruthInvEstablished ==
    ASSUME Init, IInv
    PROVE  TruthInv
<1>1. /\ stored = {} /\ rows["transactions"] = {} /\ pc = "down" /\ boundary = 0
  BY DEF Init, EngineInit, DropInit, stored, Table
<1>2. ~Last.exists
  BY DEF Init, EngineInit, NoStates, NoRow, Last, StateName
<1>3. boundary <= TipAgeBoundary
  BY <1>1, CutNumbers DEF IInv
<1> QED BY <1>1, <1>2, <1>3 DEF TruthInv, FilledFrom

LEMMA NextKeepsTruth ==
    ASSUME IInv, TruthInv, IInv', [Next]_fullVars
    PROVE  TruthInv'
<1>1. CASE Process
  BY <1>1, StartKeepsTruth, IndexBatchKeepsTruth, IndexBlockKeepsTruth, GoContinuousKeepsTruth,
     OthersKeepTruth, HistoryStatesKeepsTruth, ContinuousStartKeepsTruth,
     ContinuousStatesKeepsTruth, EngineMovesKeepTruth
     DEF Process, IndexingStep
<1>2. CASE Dropping
  BY <1>2, DeleteRowsKeepsTruth, DropResolvesKeepsTruth, DropTableDoneKeepsTruth,
     DropMovesKeepTruth DEF Dropping, DropStep
<1>3. CASE Chain \/ Fault \/ UNCHANGED fullVars
  BY <1>3, OthersKeepTruth
<1> QED BY <1>1, <1>2, <1>3 DEF Next, Done

\* With IInv, what the block floor rests on holds throughout.
THEOREM TruthInductive ==
    ASSUME StartIndexAsDocumented
    PROVE  Spec => []TruthInv
<1>1. Init /\ IInv => TruthInv
  BY TruthInvEstablished
<1>2. IInv /\ IInv' /\ TruthInv /\ [Next]_fullVars => TruthInv'
  BY NextKeepsTruth
<1> QED BY <1>1, <1>2, Inductive, PTL DEF Spec

\* Whatever the indexer inserted while an iteration went from table to table
\* and from statement to statement: when the block floor is written, what the
\* coverage rows claim is exact, with no allowance for retention
\* (dropAndRaiseFloor).
THEOREM FloorIsTrueWhenWritten ==
    ASSUME StartIndexAsDocumented
    PROVE  Spec => DropWritesTruth
<1>1. ASSUME IInv, TruthInv, DropRaisesFloor, dtable = "blocks"
      PROVE  FloorGuarantee'
  <2>1. BlocksGone /\ dfirst \in stored /\ TruthCut = 0 /\ rows' = rows
    <3>1. dpc = "write" /\ rows' = rows
      BY <1>1 DEF DropRaisesFloor
    <3> QED BY <1>1, <3>1 DEF BlocksGone, TruthCut, IInv, DropInside
  <2>2. /\ stored \subseteq Block /\ Block \subseteq Int /\ Last.index \in Nat
        /\ Last.exists \in BOOLEAN /\ \A b \in Block : BlockTime(b) \in Nat /\ b >= 0
    BY <1>1, Numbers DEF IInv
  <2>3. states'["BlockFloor"].index = dfirst /\ states'["LastIndexed"] = Last
    BY <1>1 DEF DropRaisesFloor, Floor, UpdateState, Row, Last, IInv, TypeOK, StateName
  <2> SUFFICES ASSUME NEW b \in Block, Claimed(b)' PROVE Covered(b)'
    BY DEF FloorGuarantee
  <2>4. dfirst <= b /\ b <= Last.index /\ Last.exists
    BY <2>3 DEF Claimed
  <2>5. b \in stored
    <3>1. CASE Last.index \in stored
      <4>1. FilledFrom(stored, stored, 0, Last.index + 1)
        BY <1>1, <2>1, <3>1 DEF TruthInv, Points
      <4> QED BY <2>1, <2>2, <2>4, <4>1 DEF FilledFrom
    <3>2. CASE \A a \in stored : Last.index < a
      BY <2>1, <2>2, <2>4, <3>2
    <3> QED BY <1>1, <2>1, <2>4, <3>1, <3>2 DEF TruthInv, StoredOrCut
  <2>6. Covered(b)
    BY <1>1, <2>1, <2>2, <2>5 DEF TruthInv
  <2> QED BY <2>1, <2>6 DEF Covered
<1>2. IInv /\ TruthInv /\ [Next]_fullVars
         => [DropRaisesFloor /\ dtable = "blocks" => FloorGuarantee']_fullVars
  BY <1>1
<1> QED BY <1>2, Inductive, TruthInductive, PTL DEF Spec, DropWritesTruth
=============================================================================
