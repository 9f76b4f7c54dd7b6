--------------------------- MODULE FspModeProofs ---------------------------
(***************************************************************************)
(* Proofs about FSP mode, for every chain, contract, configuration and     *)
(* number of faults: the inductive invariant, CoverageSound and            *)
(* LogFloorSound; that FSP mode implements the coverage ledger; what       *)
(* readiness says of the plan; and that retention keeps what it promised.  *)
(***************************************************************************)
EXTENDS FspModeInv, EngineProofs, WellFoundedInduction

-----------------------------------------------------------------------------
(***************************************************************************)
(* Lemmas about FilledIn.                                                  *)
(***************************************************************************)

\* It is kept when nothing inside retention is taken away, when new anchors
\* are above old ones or out of range, and when less is asked for.
LEMMA FilledKept ==
    ASSUME NEW G, NEW A, NEW h, NEW x, NEW H, NEW B, NEW k, NEW y,
           h \in Int, k \in Int, x \in Int, y \in Int, A \subseteq Int, B \subseteq Int,
           h <= k, y <= x,
           \A b \in Block : b \in G /\ BlockTime(b) >= k => b \in H,
           \A c \in B : c >= y \/ \E a \in A : a <= c,
           FilledIn(G, A, h, x)
    PROVE  FilledIn(H, B, k, y)
<1> SUFFICES ASSUME NEW b \in Block, b < y, BlockTime(b) >= k, NEW c \in B, c <= b
             PROVE  b \in H
  BY DEF FilledIn
<1>1. b \in Int /\ BlockTime(b) \in Int
  BY EngineAssumption DEF Block
<1>2. PICK a \in A : a <= c
  BY <1>1
<1>3. a <= b /\ b < x /\ BlockTime(b) >= h
  BY <1>1, <1>2
<1>4. b \in G
  BY <1>2, <1>3 DEF FilledIn
<1> QED BY <1>4

\* An anchor at a point adds what is stored from there on.
LEMMA FilledOn ==
    ASSUME NEW G, NEW A, NEW h, NEW lo, NEW hi, NEW B,
           h \in Int, lo \in Int, hi \in Int, A \subseteq Int, B \subseteq Int,
           B \subseteq A \cup {c \in Int : c >= lo},
           \A b \in Block : lo <= b /\ b <= hi /\ BlockTime(b) >= h => b \in G,
           FilledIn(G, A, h, lo)
    PROVE  FilledIn(G, B, h, hi + 1)
<1> SUFFICES ASSUME NEW b \in Block, b < hi + 1, BlockTime(b) >= h, NEW c \in B, c <= b
             PROVE  b \in G
  BY DEF FilledIn
<1>1. b \in Int /\ BlockTime(b) \in Int
  BY EngineAssumption DEF Block
<1>2. CASE lo <= b
  BY <1>1, <1>2
<1>3. CASE b < lo
  BY <1>1, <1>3 DEF FilledIn
<1> QED BY <1>1, <1>2, <1>3

-----------------------------------------------------------------------------
(***************************************************************************)
(* Types.                                                                  *)
(***************************************************************************)

LEMMA Typed == TypeOK => EngineTyped
BY DEF TypeOK, EngineTyped

\* What a process that ends leaves its variables at.
LEMMA Zeros == 0 \in Block /\ "logs" \in Table
BY EngineAssumption DEF Block, Table

LEMMA Numbers ==
    ASSUME TypeOK
    PROVE  /\ head \in Block /\ cursor \in Nat /\ ixEnd \in Nat
           /\ startIndex \in Nat /\ histLast \in Nat /\ horizon \in Nat
           /\ boundary \in Nat /\ dfirst \in Block /\ Block \subseteq Int
           /\ \A b \in Block : BlockTime(b) \in Nat /\ b >= 0 /\ b <= MaxBlock
           /\ stored \subseteq Block /\ rows["logs"] \subseteq LogBlocks
           /\ \A t \in Table : rows[t] \subseteq Block
           /\ Last.index \in Nat /\ First.index \in Nat /\ LogsFrom.index \in Nat
           /\ Last.exists \in BOOLEAN /\ First.exists \in BOOLEAN
           /\ LogsFrom.exists \in BOOLEAN
           /\ planTip \in Block /\ fullStart \in Block /\ eventStart \in Block
<1>1. "logs" \in Table /\ Content("logs") = LogBlocks /\ "LogFloor" \in StateName
  BY DEF Table, Content, StateName
<1>2. LogsFrom \in RowType
  BY <1>1, Typed, EngineNumbers DEF LogsFrom
<1>3. rows["logs"] \subseteq LogBlocks
  BY <1>1 DEF TypeOK
<1>4. \A t \in Table : rows[t] \subseteq Block
  BY DEF TypeOK
<1> QED BY <1>2, <1>3, <1>4, Typed, EngineNumbers DEF TypeOK, RowType

\* Anchors are blocks, and points are numbers.
LEMMA AnchorsTyped ==
    ASSUME TypeOK, RowTimes
    PROVE  /\ Held("blocks") \subseteq Block /\ Held("logs") \subseteq Block
           /\ BlockAnchors \subseteq Block /\ LogAnchors \subseteq Block
           /\ RunPoints \subseteq Int
           /\ First.exists => First.index \in Block
           /\ Last.exists => Last.index \in Block
           /\ LogsFrom.exists => LogsFrom.index \in Block
<1>1. /\ "LastIndexed" \in StateName /\ "BlockFloor" \in StateName /\ "LogFloor" \in StateName
      /\ "blocks" \in Table /\ "logs" \in Table
  BY DEF StateName, Table
<1>2. /\ First.exists => First.index \in Block
      /\ Last.exists => Last.index \in Block
      /\ LogsFrom.exists => LogsFrom.index \in Block
  BY <1>1 DEF RowTimes, First, Last, LogsFrom
<1>3. Held("blocks") \subseteq Block /\ Held("logs") \subseteq Block
  BY <1>1, Numbers DEF Held, Expired
<1>4. BlockAnchors \subseteq Block
  BY <1>2, <1>3, Numbers DEF BlockAnchors
<1>5. LogAnchors \subseteq Block
  BY <1>2, <1>3, <1>4 DEF LogAnchors
<1>6. Lesser(cursor, ixEnd + 1) \in Int
  BY Numbers, LesserOf
<1>7. RunPoints \subseteq Int
  BY <1>6, Numbers DEF RunPoints
<1> QED BY <1>2, <1>3, <1>4, <1>5, <1>7

-----------------------------------------------------------------------------
(***************************************************************************)
(* What the contract yields.                                               *)
(***************************************************************************)

LEMMA SubNat ==
    ASSUME NEW a, NEW b, a \in Nat, b \in Nat
    PROVE  SaturatingSub(a, b) \in Nat /\ SaturatingSub(a, b) <= a
BY DEF SaturatingSub

\* An anchor is a block of the chain, no later than its epoch's start.
LEMMA AnchorTyped ==
    ASSUME NEW e, e \in StartedEpochs
    PROVE  /\ EpochAnchor(e).block \in Block
           /\ EpochAnchor(e).block <= RewardEpochStartBlock(e)
           /\ EpochAnchor(e).timestamp \in Nat
<1> DEFINE first == RandomAcquisitionStartBlock(e)
           start == RewardEpochStartBlock(e)
<1>1. start \in Block /\ first \in 0 .. start
  BY FspEpochsAssumption
<1>2. start \in Nat /\ MaxBlock \in Nat /\ start <= MaxBlock
  BY <1>1, EngineAssumption DEF Block
<1>3. first \in Block /\ first <= start
  BY <1>1, <1>2 DEF Block
<1>4. BlockTime(start) \in Nat /\ BlockTime(first) \in Nat
  BY <1>1, <1>3, EngineAssumption
<1>5. /\ SaturatingSub(start, EventLeadBlocks) \in Nat
      /\ SaturatingSub(start, EventLeadBlocks) <= start
      /\ SaturatingSub(BlockTime(start), EventLeadSeconds) \in Nat
  BY <1>2, <1>4, SubNat, FspEpochsAssumption
<1>6. EpochAnchor(e) = IF first # 0
        THEN Anchor(first, BlockTime(first))
        ELSE Anchor(SaturatingSub(start, EventLeadBlocks),
                    SaturatingSub(BlockTime(start), EventLeadSeconds))
  BY DEF EpochAnchor
<1>7. \A b, t : Anchor(b, t).block = b /\ Anchor(b, t).timestamp = t
  BY DEF Anchor
<1>8. SaturatingSub(start, EventLeadBlocks) \in Block
  BY <1>2, <1>5 DEF Block
<1> HIDE DEF first, start
<1> QED BY <1>2, <1>3, <1>4, <1>5, <1>6, <1>7, <1>8 DEF start

LEMMA EventAnchorTyped ==
    ASSUME NEW s, NEW h, NEW a \in EventAnchor(s, h)
    PROVE  a.block \in Block /\ a.timestamp \in Nat
<1>1. PICK e \in OldestWithData(SaturatingSub(s, 2), s, h) : a = EpochAnchor(e)
  BY DEF EventAnchor
<1>2. e \in StartedEpochs
  BY DEF OldestWithData, HasStartData
<1> QED BY <1>1, <1>2, AnchorTyped

\* The lookback ends at a block no later than where it begins.
LEMMA LookbackTyped ==
    ASSUME NEW base \in Block
    PROVE  LookbackFrom(base) \subseteq Block
BY EngineAssumption DEF LookbackFrom, Nearest, Block

LEMMA FullStartTyped ==
    ASSUME NEW n, NEW tip \in Block, NEW h
    PROVE  FullStartBlock(n, tip, h) \subseteq Block
<1>1. StartEpoch(n, h) \subseteq StartedEpochs
  BY DEF StartEpoch, OldestWithData, HasStartData
<1>2. \A e \in StartEpoch(n, h) : RewardEpochStartBlock(e) \in Block
  BY <1>1, FspEpochsAssumption
<1>3. LookbackFrom(tip) \subseteq Block
  BY LookbackTyped
<1>4. \A e \in StartEpoch(n, h) : LookbackFrom(RewardEpochStartBlock(e)) \subseteq Block
  BY <1>2, LookbackTyped
<1> QED BY <1>3, <1>4 DEF FullStartBlock

LEMMA BoundaryTyped ==
    ASSUME NEW n, NEW h
    PROVE  RetentionBoundary(n, h) \in Nat
<1> DEFINE anchor == EventAnchor(HistoryStartEpochId(CurrentRewardEpochId(h), n), h)
<1>1. CASE anchor = {}
  BY <1>1 DEF RetentionBoundary
<1>2. CASE anchor # {}
  <2>1. (CHOOSE a \in anchor : TRUE) \in anchor
    BY <1>2
  <2>2. (CHOOSE a \in anchor : TRUE).timestamp \in Nat
    BY <2>1, EventAnchorTyped
  <2>3. RetentionBoundary(n, h) =
           SaturatingSub((CHOOSE a \in anchor : TRUE).timestamp, RetentionMargin)
    BY <1>2 DEF RetentionBoundary
  <2> QED BY <2>2, <2>3, SubNat, FspEpochsAssumption
<1> QED BY <1>1, <1>2

-----------------------------------------------------------------------------
(***************************************************************************)
(* What the kinds of write do to the parts of the invariant.               *)
(***************************************************************************)

\* Publishing the tip touches none of the other rows.
LEMMA TipKept ==
    ASSUME TypeOK, MissingRows, RowTimes, ObserveTip
    PROVE  /\ Tip \in Nat /\ Tip <= head /\ Tip \in Block
           /\ states' \in [StateName -> RowType]
           /\ First' = First /\ Last' = Last /\ LogsFrom' = LogsFrom
           /\ MissingRows' /\ RowTimes'
<1>1. /\ Tip \in Nat /\ Tip <= head /\ Tip \in Block
      /\ states' \in [StateName -> RowType]
      /\ First' = First /\ Last' = Last /\ MissingRows'
  BY Typed, TipObserved
<1>2. /\ states' = UpdateState(states, "ChainTip", Tip, BlockTime(Tip))
      /\ BlockTime(Tip) \in Nat /\ states \in [StateName -> RowType]
      /\ "ChainTip" \in StateName /\ "LogFloor" \in StateName \ {"ChainTip"}
  BY <1>1, EngineAssumption DEF ObserveTip, TypeOK, StateName
<1>3. /\ states'["ChainTip"] = Row(Tip, BlockTime(Tip))
      /\ \A k \in StateName \ {"ChainTip"} : states'[k] = states[k]
  BY <1>1, <1>2, UpdateRows
<1>4. LogsFrom' = LogsFrom
  BY <1>2, <1>3 DEF LogsFrom
<1>5. /\ Row(Tip, BlockTime(Tip)).index = Tip
      /\ Row(Tip, BlockTime(Tip)).time = BlockTime(Tip)
  BY DEF Row
<1>6. RowTimes'
  BY <1>1, <1>3, <1>5 DEF RowTimes
<1> QED BY <1>1, <1>4, <1>6

\* Anchors only go when the deletion loop holds fewer rows.
LEMMA AnchorsShrink ==
    ASSUME TypeOK, RowTimes, rows' = rows, First' = First, LogsFrom' = LogsFrom,
           Held("blocks")' \subseteq Held("blocks"), Held("logs")' \subseteq Held("logs")
    PROVE  /\ \A c \in BlockAnchors' : c \in Block /\ \E a \in BlockAnchors : a <= c
           /\ \A c \in LogAnchors' : c \in Block /\ \E a \in LogAnchors : a <= c
<1>1. BlockAnchors' \subseteq BlockAnchors /\ LogAnchors' \subseteq LogAnchors
  BY DEF BlockAnchors, LogAnchors, stored
<1>2. /\ BlockAnchors \subseteq Block /\ LogAnchors \subseteq Block
      /\ \A c \in Block : c <= c
  BY AnchorsTyped, EngineAssumption DEF Block
<1> QED BY <1>1, <1>2

\* What FilledKept says of a step.
LEMMA StepKeepsFilled ==
    ASSUME TypeOK, RowTimes, NEW x, NEW y, x \in Int, y \in Int, y <= x,
           horizon' \in Int, horizon <= horizon',
           \A b \in Block : BlockTime(b) >= horizon' =>
              /\ b \in BlocksHere => b \in BlocksHere'
              /\ b \in EventsHere => b \in EventsHere',
           \A c \in BlockAnchors' : c \in Block /\ (c >= y \/ \E a \in BlockAnchors : a <= c),
           \A c \in LogAnchors' : c \in Block /\ (c >= y \/ \E a \in LogAnchors : a <= c)
    PROVE  /\ FilledIn(BlocksHere, BlockAnchors, horizon, x)
                  => FilledIn(BlocksHere', BlockAnchors', horizon', y)
           /\ FilledIn(EventsHere, LogAnchors, horizon, x)
                  => FilledIn(EventsHere', LogAnchors', horizon', y)
<1>1. /\ BlockAnchors \subseteq Int /\ LogAnchors \subseteq Int
      /\ BlockAnchors' \subseteq Int /\ LogAnchors' \subseteq Int /\ horizon \in Int
  BY AnchorsTyped, Numbers
<1>2. ASSUME NEW b \in Block, b < y, BlockTime(b) >= horizon'
      PROVE  b \in Int /\ b < x /\ BlockTime(b) >= horizon
  BY <1>1, <1>2, EngineAssumption DEF Block
<1>3. ASSUME FilledIn(BlocksHere, BlockAnchors, horizon, x)
      PROVE  FilledIn(BlocksHere', BlockAnchors', horizon', y)
  <2> SUFFICES ASSUME NEW b \in Block, b < y, BlockTime(b) >= horizon',
                      NEW c \in BlockAnchors', c <= b
               PROVE  b \in BlocksHere'
    BY DEF FilledIn
  <2>1. PICK a \in BlockAnchors : a <= c
    BY <1>1, <1>2
  <2>2. b < x /\ BlockTime(b) >= horizon /\ a <= b
    BY <1>1, <1>2, <2>1
  <2> QED BY <1>3, <2>1, <2>2 DEF FilledIn
<1>4. ASSUME FilledIn(EventsHere, LogAnchors, horizon, x)
      PROVE  FilledIn(EventsHere', LogAnchors', horizon', y)
  <2> SUFFICES ASSUME NEW b \in Block, b < y, BlockTime(b) >= horizon',
                      NEW c \in LogAnchors', c <= b
               PROVE  b \in EventsHere'
    BY DEF FilledIn
  <2>1. PICK a \in LogAnchors : a <= c
    BY <1>1, <1>2
  <2>2. b < x /\ BlockTime(b) >= horizon /\ a <= b
    BY <1>1, <1>2, <2>1
  <2> QED BY <1>4, <2>1, <2>2 DEF FilledIn
<1> QED BY <1>3, <1>4

\* A step that moves none of the tables, coverage rows and history variables
\* keeps what is filled, when its anchors are not below, and its points not
\* above those before it, and it makes no new plan.
LEMMA QuietKeeps ==
    ASSUME IInv, RunPoints' \subseteq Int, horizon' \in Int, horizon <= horizon',
           rows' = rows, UNCHANGED passedVars,
           \A c \in BlockAnchors' : c \in Block /\ \E a \in BlockAnchors : a <= c,
           \A c \in LogAnchors' : c \in Block /\ \E a \in LogAnchors : a <= c,
           \A y \in RunPoints' : \E x \in RunPoints : y <= x,
           pc' \in PlannedPc =>
              /\ pc \in PlannedPc /\ startIndex' = startIndex
              /\ UNCHANGED <<eventStart, fullStart>>
              /\ pc \in {"backfill", "log_floor"} => pc' \in {"backfill", "log_floor"}
    PROVE  stored' = stored /\ Whole' /\ BlocksFilled' /\ LogsFilled'
<1>1. /\ stored' = stored /\ BlocksHere' = BlocksHere /\ EventsHere' = EventsHere
  BY DEF stored, BlocksHere, EventsHere, passedVars
<1>2. /\ BlockAnchors \subseteq Int /\ LogAnchors \subseteq Int
      /\ BlockAnchors' \subseteq Int /\ LogAnchors' \subseteq Int
      /\ RunPoints \subseteq Int /\ horizon \in Int /\ startIndex \in Int
      /\ Block \subseteq Int
  BY AnchorsTyped, Numbers DEF IInv
<1>3. Whole'
  <2>1. \A b \in Block : BlockTime(b) \in Int
    BY EngineAssumption
  <2>2. stored \subseteq Block /\ rows["transactions"] \cap ReceiptLogBlocks \subseteq Block
    BY Numbers, EngineAssumption DEF IInv
  <2>3. \A b \in Block : BlockTime(b) >= horizon' => BlockTime(b) >= horizon
    BY <1>2, <2>1
  <2>4. Whole
    BY DEF IInv
  <2>5. \A b \in stored' : BlockTime(b) >= horizon' => Covered(b)'
    BY <1>1, <2>2, <2>3, <2>4 DEF Whole, Covered
  <2>6. \A b \in rows'["transactions"] \cap ReceiptLogBlocks :
           BlockTime(b) >= horizon' => b \in rows'["logs"]
    BY <2>2, <2>3, <2>4 DEF Whole
  <2> QED BY <2>5, <2>6 DEF Whole
<1>4. ASSUME NEW x \in Int, NEW y \in Int, y <= x
      PROVE  /\ FilledIn(BlocksHere, BlockAnchors, horizon, x)
                    => FilledIn(BlocksHere', BlockAnchors', horizon', y)
             /\ FilledIn(EventsHere, LogAnchors, horizon, x)
                    => FilledIn(EventsHere', LogAnchors', horizon', y)
  BY <1>1, <1>2, <1>4, StepKeepsFilled DEF IInv
<1>5. BlocksFilled'
  <2>1. \A y \in RunPoints' : FilledIn(BlocksHere', BlockAnchors', horizon', y)
    BY <1>2, <1>4 DEF IInv, BlocksFilled
  <2>2. pc' \in PlannedPc => FilledIn(BlocksHere', BlockAnchors', horizon', startIndex')
    BY <1>2, <1>4 DEF IInv, BlocksFilled
  <2> QED BY <2>1, <2>2 DEF BlocksFilled
<1>6. LogsFilled'
  <2>1. \A y \in RunPoints' : FilledIn(EventsHere', LogAnchors', horizon', y)
    BY <1>2, <1>4 DEF IInv, LogsFilled
  <2>2. pc' \in PlannedPc => EventsPending \subseteq EventsPending'
    BY <1>1 DEF EventsPending
  <2>3. pc' \in PlannedPc => FilledIn(EventsPending', BlockAnchors', horizon', startIndex')
    <3> SUFFICES ASSUME pc' \in PlannedPc
                 PROVE  FilledIn(EventsPending', BlockAnchors', horizon', startIndex)
      OBVIOUS
    <3>1. FilledIn(EventsPending, BlockAnchors, horizon, startIndex)
      BY DEF IInv, LogsFilled
    <3>2. \A b \in Block : b \in EventsPending /\ BlockTime(b) >= horizon'
                             => b \in EventsPending'
      BY <2>2
    <3>3. startIndex <= startIndex
      BY <1>2
    <3> HIDE DEF EventsPending, BlockAnchors
    <3> QED BY <1>2, <3>1, <3>2, <3>3, FilledKept
  <2> QED BY <2>1, <2>3 DEF LogsFilled
<1> QED BY <1>1, <1>3, <1>5, <1>6

-----------------------------------------------------------------------------
(***************************************************************************)
(* The steps that write nothing.                                           *)
(***************************************************************************)

\* Where no run is under way, the tables say it all.
LEMMA RestKeeps ==
    ASSUME IInv, TypeOK', UNCHANGED <<rows, states, horizon, passedVars>>,
           pc' \in {"down", "start", "plan_epochs", "plan_states", "finished"},
           dpc' = "off", boundary' \in {0, boundary}
    PROVE  IInv'
<1>1. First' = First /\ Last' = Last /\ LogsFrom' = LogsFrom
  BY DEF First, Last, LogsFrom
<1>2. Held("blocks")' = {} /\ Held("logs")' = {}
  BY DEF Held
<1>3. pc' \notin PlannedPc \cup ContinuousPc
  BY DEF PlannedPc, HistoryPc, ContinuousPc
<1>4. RunPoints' \subseteq RunPoints
  BY <1>1, <1>3 DEF RunPoints, PlannedPc, HistoryPc, ContinuousPc
<1>5. RunPoints \subseteq Int
  BY AnchorsTyped DEF IInv
<1>6. Whole' /\ BlocksFilled' /\ LogsFilled'
  <2>1. horizon' \in Int /\ horizon <= horizon' /\ \A x \in RunPoints : x <= x
    BY <1>5, Numbers DEF IInv
  <2>2. /\ \A c \in BlockAnchors' : c \in Block /\ \E a \in BlockAnchors : a <= c
        /\ \A c \in LogAnchors' : c \in Block /\ \E a \in LogAnchors : a <= c
    BY <1>1, <1>2, AnchorsShrink DEF IInv
  <2> QED BY <1>3, <1>4, <1>5, <2>1, <2>2, QuietKeeps
<1>7. MissingRows' /\ RowTimes'
  BY <1>1 DEF IInv, MissingRows, RowTimes
<1>8. Ranges' /\ Backfilling' /\ RunStored' /\ EventsPlanned'
  BY <1>3 DEF Ranges, Backfilling, RunStored, EventsPlanned, PlannedPc, HistoryPc, ContinuousPc
<1>9. DropInside'
  <2>1. boundary' <= horizon'
    BY Numbers DEF IInv, DropInside
  <2> QED BY <2>1 DEF DropInside
<1> QED BY <1>6, <1>7, <1>8, <1>9 DEF IInv

\* The end of a start-up attempt, of a run and of a process.
LEMMA EndsKeep ==
    ASSUME IInv,
           \/ StartupFails
           \/ Finish
           \/ ProcessEnds /\ DropEnds /\ ForgetsPlan
    PROVE  IInv'
<1> USE DEF plan, dropVars, planVars
<1>1. CASE StartupFails
  <2>1. pc \notin ContinuousPc
    BY <1>1 DEF StartupFails, StartupPc, HistoryPc, ContinuousPc
  <2>2. TypeOK'
    BY <1>1, EngineAssumption DEF IInv, TypeOK, StartupFails, passedVars, StartupPc
  <2> QED BY <1>1, <2>1, <2>2, RestKeeps DEF StartupFails, IInv, DropInside
<1>2. CASE Finish
  <2>1. TypeOK'
    BY <1>2, Zeros
       DEF IInv, TypeOK, Finish, ContinuousReturns, DropEnds, passedVars, EnginePc, DropPc
  <2> QED BY <1>2, <2>1, RestKeeps DEF Finish, ContinuousReturns, DropEnds
<1>3. CASE ProcessEnds /\ DropEnds /\ ForgetsPlan
  <2>1. /\ UNCHANGED <<head, rows, states, historyEpochs, passedBlocks, passedLogs, horizon>>
        /\ pc' = "down" /\ synced' = FALSE /\ faults' = faults + 1 /\ faults < MaxFaults
        /\ cursor' = 0 /\ ixEnd' = 0 /\ startIndex' = 0 /\ histLast' = 0
        /\ dpc' = "off" /\ dtable' = "logs" /\ boundary' = 0 /\ dfirst' = 0
        /\ planTip' = 0 /\ fullStart' = 0 /\ eventStart' = 0 /\ anchored' = FALSE
    BY <1>3 DEF ProcessEnds, DropEnds, ForgetsPlan, passedVars
  <2>2. faults' \in 0 .. MaxFaults /\ "off" \in DropPc /\ "down" \in EnginePc
    BY <2>1, EngineAssumption DEF IInv, TypeOK, EnginePc, DropPc
  <2>3. TypeOK'
    BY <2>1, <2>2, Zeros DEF IInv, TypeOK
  <2> QED BY <2>1, <2>3, RestKeeps DEF passedVars
<1> QED BY <1>1, <1>2, <1>3

\* A process starts, and so does a plan: nothing but the plan changes.
LEMMA PlansKeep ==
    ASSUME IInv, StartProcess \/ PlanTip \/ PlanEpochs
    PROVE  IInv'
<1> USE DEF plan, dropVars, planVars
<1>1. pc \notin ContinuousPc
  BY DEF StartProcess, ProcessStarts, PlanTip, PlanEpochs, ContinuousPc
<1>2. CASE StartProcess
  <2>1. TypeOK'
    BY <1>2 DEF IInv, TypeOK, StartProcess, ProcessStarts, passedVars, EnginePc
  <2> QED BY <1>1, <1>2, <2>1, RestKeeps DEF StartProcess, ProcessStarts, IInv, DropInside
<1>3. CASE PlanTip
  <2>1. Tip \in Block
    BY <1>3, EngineAssumption DEF PlanTip, Confirmed, Tip, IInv, TypeOK, Block
  <2>2. TypeOK'
    BY <1>3, <2>1 DEF IInv, TypeOK, PlanTip, passedVars, StartupPc
  <2> QED BY <1>1, <1>3, <2>2, RestKeeps DEF PlanTip, IInv, DropInside
<1>4. CASE PlanEpochs
  <2>1. fullStart' \in Block
    BY <1>4, FullStartTyped DEF PlanEpochs, IInv, TypeOK
  <2>2. \A a \in EventBackfillAnchor(historyEpochs, head) : a.block \in Block
    BY EventAnchorTyped DEF EventBackfillAnchor
  <2>3. eventStart' \in Block /\ anchored' \in BOOLEAN
    BY <1>4, <2>2, Zeros DEF PlanEpochs
  <2>4. TypeOK'
    BY <1>4, <2>1, <2>3 DEF IInv, TypeOK, PlanEpochs, passedVars, StartupPc
  <2> QED BY <1>1, <1>4, <2>4, RestKeeps DEF PlanEpochs, IInv, DropInside
<1> QED BY <1>2, <1>3, <1>4

\* The chain moves below nothing.
LEMMA ChainKeeps ==
    ASSUME IInv, Chain
    PROVE  IInv'
<1> USE DEF Chain, ChainGrows, plan, dropVars, planVars, passedVars
<1>1. TypeOK'
  BY EngineAssumption DEF IInv, TypeOK, Block
<1>2. First' = First /\ Last' = Last /\ LogsFrom' = LogsFrom
  BY DEF First, Last, LogsFrom
<1>3. Held("blocks")' = Held("blocks") /\ Held("logs")' = Held("logs")
  BY DEF Held, Expired
<1>4. RunPoints' = RunPoints
  BY <1>2 DEF RunPoints
<1>5. RunPoints \subseteq Int
  BY AnchorsTyped DEF IInv
<1>6. stored' = stored /\ Whole' /\ BlocksFilled' /\ LogsFilled'
  <2>1. horizon' \in Int /\ horizon <= horizon' /\ \A x \in RunPoints : x <= x
    BY <1>5, Numbers DEF IInv
  <2>2. /\ \A c \in BlockAnchors' : c \in Block /\ \E a \in BlockAnchors : a <= c
        /\ \A c \in LogAnchors' : c \in Block /\ \E a \in LogAnchors : a <= c
    BY <1>2, <1>3, AnchorsShrink DEF IInv
  <2> QED BY <1>4, <1>5, <2>1, <2>2, QuietKeeps
<1>7. MissingRows' /\ RowTimes'
  BY <1>2 DEF IInv, MissingRows, RowTimes
<1>8. Ranges'
  BY <1>1, Numbers DEF IInv, Ranges
<1>9. Backfilling' /\ DropInside'
  BY <1>2 DEF IInv, Backfilling, DropInside
<1>10. RunStored' /\ EventsPlanned'
  BY <1>2, <1>6 DEF IInv, RunStored, EventsPlanned, LastInRound
<1> QED BY <1>1, <1>6, <1>7, <1>8, <1>9, <1>10 DEF IInv

-----------------------------------------------------------------------------
(***************************************************************************)
(* The deletion loop.                                                      *)
(***************************************************************************)

\* Its statements that write no row leave the run where it is.
LEMMA DropMovesKeep ==
    ASSUME IInv, TypeOK',
           UNCHANGED <<rows, states, pc, cursor, ixEnd, plan, planVars, passedVars>>,
           dpc # "off", horizon <= horizon', boundary' <= horizon',
           dpc' \in {"check", "first", "write"} => dtable' # "transactions",
           \A c \in BlockAnchors' : c \in Block /\ \E a \in BlockAnchors : a <= c,
           \A c \in LogAnchors' : c \in Block /\ \E a \in LogAnchors : a <= c,
           UNCHANGED head
    PROVE  IInv'
<1> USE DEF plan, planVars
<1>1. First' = First /\ Last' = Last /\ LogsFrom' = LogsFrom
  BY DEF First, Last, LogsFrom
<1>2. pc \in ContinuousPc
  BY DEF IInv, DropInside
<1>3. pc \notin PlannedPc /\ pc' \notin PlannedPc
  BY <1>2 DEF PlannedPc, HistoryPc, ContinuousPc
<1>4. RunPoints' = RunPoints
  BY <1>1 DEF RunPoints
<1>5. /\ RunPoints \subseteq Int /\ horizon \in Int /\ horizon' \in Int
      /\ \A x \in RunPoints : x <= x
  <2>1. RunPoints \subseteq Int
    BY AnchorsTyped DEF IInv
  <2>2. horizon' \in Nat /\ horizon \in Nat
    BY DEF IInv, TypeOK
  <2> QED BY <2>1, <2>2
<1>6. stored' = stored /\ Whole' /\ BlocksFilled' /\ LogsFilled'
  BY <1>3, <1>4, <1>5, QuietKeeps
<1>7. MissingRows' /\ RowTimes'
  BY <1>1 DEF IInv, MissingRows, RowTimes
<1>8. Ranges' /\ EventsPlanned' /\ Backfilling'
  BY <1>1 DEF IInv, Ranges, EventsPlanned, Backfilling
<1>9. DropInside'
  BY <1>2 DEF DropInside
<1>10. RunStored'
  <2>1. pc = "cont_states" => cursor \in Block
    <3>1. /\ pc = "cont_states" => cursor <= ixEnd /\ ixEnd <= head
          /\ head \in Block /\ cursor \in Nat /\ ixEnd \in Nat
      BY Numbers DEF IInv, Ranges
    <3> QED BY <3>1, EngineAssumption DEF Block
  <2>2. BlockTime(cursor) < horizon /\ cursor \in Block => BlockTime(cursor) < horizon'
    BY <1>5, EngineAssumption
  <2> QED BY <1>1, <1>2, <1>6, <2>1, <2>2
          DEF IInv, RunStored, LastInRound, HistoryPc, ContinuousPc
<1> QED BY <1>6, <1>7, <1>8, <1>9, <1>10 DEF IInv

\* A resolved boundary is not applied to anything yet.
LEMMA DropResolvesKeeps ==
    ASSUME IInv, DropResolves(RetentionBoundary(historyEpochs, head)),
           UNCHANGED <<planVars, passedVars>>
    PROVE  IInv'
<1> DEFINE value == RetentionBoundary(historyEpochs, head)
<1>1. /\ dpc = "idle" /\ dpc' = "delete" /\ dtable' = "logs" /\ dfirst' = dfirst
      /\ boundary' = value /\ horizon' = Higher(horizon, value)
      /\ UNCHANGED <<head, rows, states, pc, cursor, ixEnd, plan, synced, faults>>
  BY DEF DropResolves, engineVars, plan
<1>2. value \in Nat /\ horizon \in Nat
  BY BoundaryTyped DEF IInv, TypeOK
<1> HIDE DEF value
<1>3. horizon' \in Nat /\ horizon <= horizon' /\ boundary' <= horizon' /\ boundary' \in Nat
  BY <1>1, <1>2 DEF Higher
<1>4. TypeOK'
  BY <1>1, <1>3, Zeros DEF IInv, TypeOK, DropPc, plan, planVars, passedVars
<1>5. /\ Held("blocks")' = {} /\ Held("logs")' = {}
      /\ First' = First /\ LogsFrom' = LogsFrom
  BY <1>1 DEF Held, First, LogsFrom
<1>6. /\ \A c \in BlockAnchors' : c \in Block /\ \E a \in BlockAnchors : a <= c
      /\ \A c \in LogAnchors' : c \in Block /\ \E a \in LogAnchors : a <= c
  BY <1>1, <1>5, AnchorsShrink DEF IInv
<1> QED BY <1>1, <1>3, <1>4, <1>6, DropMovesKeep

\* A table that is done holds nothing expired; the first surviving row is one
\* of those held; a failed iteration holds none.
LEMMA DropLetsGoKeeps ==
    ASSUME IInv, DropTableDone \/ DropFindsFirst \/ DropFails,
           UNCHANGED <<planVars, passedVars>>
    PROVE  IInv'
<1>1. /\ UNCHANGED <<head, rows, states, pc, cursor, ixEnd, plan, synced, boundary, horizon>>
      /\ dpc # "off" /\ First' = First /\ LogsFrom' = LogsFrom
  BY DEF DropTableDone, DropFindsFirst, DropFails, engineVars, plan, First, LogsFrom
<1>2. /\ faults' \in 0 .. MaxFaults /\ dfirst' \in Block
  <2>1. CASE DropTableDone \/ DropFails
    BY <2>1, Zeros, EngineAssumption DEF IInv, TypeOK, DropTableDone, DropFails, engineVars
  <2>2. CASE DropFindsFirst
    BY <2>2 DEF IInv, TypeOK, DropFindsFirst, engineVars
  <2> QED BY <2>1, <2>2
<1>3. /\ dpc' \in DropPc /\ dtable' \in Table
      /\ dpc' \in {"check", "first", "write"} => dtable' # "transactions"
  BY DEF IInv, TypeOK, DropInside, DropTableDone, DropFindsFirst, DropFails, NextPass, DropPc, Table
<1>4. TypeOK'
  BY <1>1, <1>2, <1>3 DEF IInv, TypeOK, plan, planVars, passedVars
<1>5. Held("blocks")' \subseteq Held("blocks") /\ Held("logs")' \subseteq Held("logs")
  <2>1. CASE DropTableDone
    <3>1. /\ Expired("blocks")' = Expired("blocks") /\ Expired("logs")' = Expired("logs")
          /\ Expired(dtable) = {}
      BY <1>1, <2>1 DEF Expired, DropTableDone
    <3>2. dpc' = "delete" \/ (dpc' = "check" /\ dtable' = dtable)
      BY <2>1 DEF DropTableDone
    <3> QED BY <3>1, <3>2 DEF Held
  <2>2. CASE DropFindsFirst
    BY <1>1, <2>2 DEF Held, DropFindsFirst, NextPass
  <2>3. CASE DropFails
    BY <1>1, <2>3 DEF Held, DropFails
  <2> QED BY <2>1, <2>2, <2>3
<1>6. /\ \A c \in BlockAnchors' : c \in Block /\ \E a \in BlockAnchors : a <= c
      /\ \A c \in LogAnchors' : c \in Block /\ \E a \in LogAnchors : a <= c
  BY <1>1, <1>5, AnchorsShrink DEF IInv
<1>7. horizon <= horizon' /\ boundary' <= horizon'
  BY <1>1, Numbers DEF IInv, DropInside
<1> QED BY <1>1, <1>3, <1>4, <1>6, <1>7, DropMovesKeep

\* A floor that a boundary has passed is below every block that it has not.
LEMMA PastFloor ==
    ASSUME NEW f, NEW d, NEW c, d \in Int, c \in Block, BlockTime(c) >= d,
           f.index \in Block, f.time = BlockTime(f.index), ~(IsSet(f) /\ d <= f.time)
    PROVE  f.index <= c
<1> DEFINE i == f.index
<1>1. /\ i \in Nat /\ c \in Nat /\ BlockTime(i) \in Int /\ BlockTime(c) \in Int
  BY EngineAssumption DEF Block
<1>2. i # 0 => ~(d <= BlockTime(i))
  BY DEF IsSet
<1>3. c <= i => BlockTime(c) <= BlockTime(i)
  BY EngineAssumption
<1> HIDE DEF i
<1>4. i <= c
  BY <1>1, <1>2, <1>3
<1> QED BY <1>4 DEF i

\* So a floor that is found to be too low is below every row that is left.
LEMMA DropChecksFloorKeeps ==
    ASSUME IInv, DropChecksFloor, UNCHANGED <<planVars, passedVars>>
    PROVE  IInv'
<1> DEFINE floor == states[Floor(dtable)]
<1>1. /\ UNCHANGED <<head, rows, states, pc, cursor, ixEnd, plan, synced, faults,
                     boundary, dfirst, horizon>>
      /\ dpc = "check" /\ First' = First /\ LogsFrom' = LogsFrom
      /\ dtable \in {"blocks", "logs"}
      /\ TypeOK /\ RowTimes /\ MissingRows
  BY DEF DropChecksFloor, engineVars, plan, First, LogsFrom, IInv, TypeOK, Table, DropInside
<1>2. \/ /\ IsSet(floor) /\ boundary <= floor.time
         /\ \/ dtable' = "transactions" /\ dpc' = "delete"
            \/ dtable' = dtable /\ dpc' = "idle"
      \/ /\ ~(IsSet(floor) /\ boundary <= floor.time)
         /\ dtable' = dtable /\ dpc' = "first"
  BY DEF DropChecksFloor, NextPass
<1>3. /\ TypeOK'
      /\ dpc' \in {"check", "first", "write"} => dtable' # "transactions"
  BY <1>1, <1>2 DEF TypeOK, DropPc, Table, plan, planVars, passedVars
<1>4. horizon <= horizon' /\ boundary' <= horizon'
  BY <1>1, Numbers DEF IInv, DropInside
<1>5. /\ Block \subseteq Int /\ rows[dtable] \subseteq Block
      /\ BlockAnchors \subseteq Block /\ LogAnchors \subseteq Block
      /\ \A b \in Block : BlockTime(b) \in Nat /\ b >= 0
      /\ boundary \in Int
  BY <1>1, Numbers, AnchorsTyped DEF Table
<1>6. CASE dpc' # "first"
  <2>1. Held("blocks")' = {} /\ Held("logs")' = {}
    BY <1>2, <1>6 DEF Held
  <2>2. /\ \A c \in BlockAnchors' : c \in Block /\ \E a \in BlockAnchors : a <= c
        /\ \A c \in LogAnchors' : c \in Block /\ \E a \in LogAnchors : a <= c
    BY <1>1, <2>1, AnchorsShrink
  <2> QED BY <1>1, <1>3, <1>4, <2>2, DropMovesKeep
<1>7. CASE dpc' = "first"
  <2>1. ~(IsSet(floor) /\ boundary <= floor.time) /\ dtable' = dtable
    BY <1>2, <1>7
  <2>2. /\ Floor(dtable) \in StateName /\ floor \in RowType
        /\ floor.exists => floor.index \in Block /\ floor.time = BlockTime(floor.index)
        /\ ~floor.exists => floor = NoRow
    <3>1. Floor(dtable) \in StateName
      BY DEF Floor, StateName
    <3> QED BY <1>1, <3>1 DEF TypeOK, RowTimes, MissingRows
  <2>3. ASSUME floor.exists, NEW c \in rows[dtable], BlockTime(c) >= boundary
        PROVE  floor.index <= c
    <3>1. c \in Block /\ floor.index \in Block /\ floor.time = BlockTime(floor.index)
      BY <1>5, <2>2, <2>3
    <3> HIDE DEF floor
    <3> QED BY <1>5, <2>1, <2>3, <3>1, PastFloor
  <2>4. ASSUME NEW c \in rows[dtable]
        PROVE  (floor.exists /\ floor.index <= c) \/ ~floor.exists \/ c \in Expired(dtable)
    <3>1. c \in Block /\ BlockTime(c) \in Int
      <4>1. c \in Block
        BY <1>5, <2>4, Zenon
      <4>2. BlockTime(c) \in Nat
        BY <1>5, <4>1, Zenon
      <4> QED BY <4>1, <4>2
    <3>2. BlockTime(c) >= boundary \/ BlockTime(c) < boundary
      BY <1>5, <3>1
    <3>3. BlockTime(c) < boundary => c \in Expired(dtable)
      BY <2>4 DEF Expired
    <3> HIDE DEF floor
    <3> QED BY <2>3, <2>4, <3>2, <3>3
  <2>5. CASE dtable = "blocks"
    <3>1. /\ floor = First
          /\ Held("blocks") = Expired("blocks") /\ Held("logs") = {}
          /\ Held("blocks")' = rows["blocks"] /\ Held("logs")' = {}
      BY <1>1, <1>7, <2>1, <2>5 DEF Floor, First, Held
    <3>2. /\ BlockAnchors = (IF First.exists THEN {First.index} ELSE stored) \cup Expired("blocks")
          /\ BlockAnchors' = (IF First.exists THEN {First.index} ELSE stored) \cup stored
          /\ LogAnchors = BlockAnchors \cup
                (IF LogsFrom.exists THEN {LogsFrom.index} ELSE Block)
          /\ LogAnchors' = BlockAnchors' \cup
                (IF LogsFrom.exists THEN {LogsFrom.index} ELSE Block)
      BY <1>1, <3>1 DEF BlockAnchors, LogAnchors, stored
    <3>3. \A c \in stored :
             (First.exists /\ First.index <= c) \/ ~First.exists \/ c \in Expired("blocks")
      BY <2>4, <2>5, <3>1 DEF stored
    <3> HIDE DEF floor
    <3>4. \A c \in BlockAnchors' : c \in Block /\ \E a \in BlockAnchors : a <= c
      <4>1. \A c \in Block : c <= c
        BY <1>5
      <4>2. ASSUME NEW c \in stored PROVE c \in Block /\ \E a \in BlockAnchors : a <= c
        BY <1>5, <2>5, <3>2, <3>3, <4>1, <4>2 DEF stored
      <4> QED BY <1>5, <3>2, <4>1, <4>2
    <3>5. \A c \in LogAnchors' : c \in Block /\ \E a \in LogAnchors : a <= c
      <4>1. \A c \in Block : c <= c
        BY <1>5
      <4>2. BlockAnchors \subseteq LogAnchors
        BY <3>2
      <4>3. LogAnchors' \subseteq BlockAnchors' \cup LogAnchors
        BY <3>2
      <4> QED BY <1>5, <3>4, <4>1, <4>2, <4>3
    <3> QED BY <1>1, <1>3, <1>4, <3>4, <3>5, DropMovesKeep
  <2>6. CASE dtable = "logs"
    <3>1. /\ floor = LogsFrom
          /\ Held("logs") = Expired("logs") /\ Held("blocks") = {}
          /\ Held("logs")' = rows["logs"] /\ Held("blocks")' = {}
      BY <1>1, <1>7, <2>1, <2>6 DEF Floor, LogsFrom, Held
    <3>2. /\ BlockAnchors' = BlockAnchors
          /\ LogAnchors = BlockAnchors \cup Expired("logs") \cup
                (IF LogsFrom.exists THEN {LogsFrom.index} ELSE Block)
          /\ LogAnchors' = BlockAnchors \cup rows["logs"] \cup
                (IF LogsFrom.exists THEN {LogsFrom.index} ELSE Block)
      BY <1>1, <3>1 DEF BlockAnchors, LogAnchors, stored
    <3>3. \A c \in rows["logs"] :
             (LogsFrom.exists /\ LogsFrom.index <= c) \/ ~LogsFrom.exists \/ c \in Expired("logs")
      BY <2>4, <2>6, <3>1
    <3> HIDE DEF floor
    <3>4. \A c \in Block : c <= c
      BY <1>5
    <3>5. \A c \in BlockAnchors' : c \in Block /\ \E a \in BlockAnchors : a <= c
      BY <1>5, <3>2, <3>4
    <3>6. \A c \in LogAnchors' : c \in Block /\ \E a \in LogAnchors : a <= c
      <4>1. ASSUME NEW c \in rows["logs"] PROVE c \in Block /\ \E a \in LogAnchors : a <= c
        BY <1>5, <2>6, <3>2, <3>3, <3>4, <4>1
      <4>2. ASSUME NEW c \in LogAnchors PROVE c \in Block /\ \E a \in LogAnchors : a <= c
        BY <1>5, <3>4, <4>2
      <4> QED BY <3>2, <4>1, <4>2
    <3> QED BY <1>1, <1>3, <1>4, <3>5, <3>6, DropMovesKeep
  <2> QED BY <1>1, <2>5, <2>6
<1> QED BY <1>6, <1>7

\* A floor that is raised was held.
LEMMA DropRaisesFloorKeeps ==
    ASSUME IInv, DropRaisesFloor, UNCHANGED <<planVars, passedVars>>
    PROVE  IInv'
<1>1. /\ UNCHANGED <<head, rows, pc, cursor, ixEnd, plan, synced, faults, boundary, horizon>>
      /\ dpc = "write" /\ dfirst' = 0
      /\ states' = UpdateState(states, Floor(dtable), dfirst, BlockTime(dfirst))
      /\ dtable \in {"blocks", "logs"}
      /\ TypeOK /\ RowTimes /\ MissingRows
  BY DEF DropRaisesFloor, plan, IInv, TypeOK, Table, DropInside
<1>2. \/ dtable' = "transactions" /\ dpc' = "delete"
      \/ dtable' = dtable /\ dpc' = "idle"
  BY DEF DropRaisesFloor, NextPass
<1>3. /\ dfirst \in Block /\ dfirst \in Nat /\ BlockTime(dfirst) \in Nat
      /\ states \in [StateName -> RowType] /\ Floor(dtable) \in StateName
  BY <1>1, EngineAssumption DEF TypeOK, Block, Floor, StateName
<1>4. /\ states' \in [StateName -> RowType]
      /\ states'[Floor(dtable)] = Row(dfirst, BlockTime(dfirst))
      /\ \A k \in StateName \ {Floor(dtable)} : states'[k] = states[k]
  BY <1>1, <1>3, UpdateRows
<1>5. /\ Row(dfirst, BlockTime(dfirst)).exists
      /\ Row(dfirst, BlockTime(dfirst)).index = dfirst
      /\ Row(dfirst, BlockTime(dfirst)).time = BlockTime(dfirst)
  BY DEF Row
<1>6. /\ TypeOK'
      /\ dpc' \in {"check", "first", "write"} => dtable' # "transactions"
  BY <1>1, <1>2, <1>4, Zeros DEF TypeOK, DropPc, Table, plan, planVars, passedVars
<1>7. MissingRows' /\ Last' = Last
  BY <1>1, <1>4, <1>5 DEF MissingRows, Last, Floor, StateName
<1>8. /\ First.exists => First'.exists
      /\ Last.exists => First.exists
  BY <1>1, <1>4, <1>5 DEF First, StateName, RowTimes, Last
<1>9. RowTimes'
  BY <1>1, <1>3, <1>4, <1>5, <1>7, <1>8 DEF RowTimes
<1>10. Held("blocks")' = {} /\ Held("logs")' = {}
  BY <1>2 DEF Held
<1>11. BlockAnchors' \subseteq BlockAnchors /\ LogAnchors' \subseteq LogAnchors
  <2>1. CASE dtable = "blocks"
    <3>1. First'.exists /\ First'.index = dfirst /\ LogsFrom' = LogsFrom
      BY <1>4, <1>5, <2>1 DEF First, LogsFrom, Floor, StateName
    <3>2. BlockAnchors' = {dfirst} /\ dfirst \in BlockAnchors
      BY <1>1, <1>10, <2>1, <3>1 DEF BlockAnchors, Held
    <3> QED BY <1>10, <3>1, <3>2 DEF LogAnchors
  <2>2. CASE dtable = "logs"
    <3>1. LogsFrom'.exists /\ LogsFrom'.index = dfirst /\ First' = First
      BY <1>4, <1>5, <2>2 DEF First, LogsFrom, Floor, StateName
    <3>2. BlockAnchors' \subseteq BlockAnchors /\ dfirst \in LogAnchors
      BY <1>1, <1>10, <2>2, <3>1 DEF BlockAnchors, LogAnchors, Held, stored
    <3> QED BY <1>10, <3>1, <3>2 DEF LogAnchors
  <2> QED BY <1>1, <2>1, <2>2
<1>12. /\ \A c \in BlockAnchors' : c \in Block /\ \E a \in BlockAnchors : a <= c
       /\ \A c \in LogAnchors' : c \in Block /\ \E a \in LogAnchors : a <= c
  <2>1. BlockAnchors \subseteq Block /\ LogAnchors \subseteq Block /\ \A c \in Block : c <= c
    BY <1>1, AnchorsTyped, EngineAssumption DEF Block
  <2> QED BY <1>11, <2>1
<1>13. pc \in ContinuousPc /\ pc' = pc
  BY <1>1 DEF IInv, DropInside
<1>14. /\ pc \notin PlannedPc /\ pc' \notin PlannedPc
       /\ pc \notin HistoryPc \cup {"caught_up", "backfill", "log_floor"}
  BY <1>13 DEF PlannedPc, HistoryPc, ContinuousPc
<1>15. RunPoints' = RunPoints /\ RunPoints \subseteq Int /\ horizon \in Int
       /\ \A x \in RunPoints : x <= x
  <2>1. RunPoints' = RunPoints
    BY <1>1, <1>7 DEF RunPoints, plan
  <2> QED BY <1>1, <2>1, AnchorsTyped, Numbers
<1>16. stored' = stored /\ Whole' /\ BlocksFilled' /\ LogsFilled'
  BY <1>1, <1>12, <1>14, <1>15, QuietKeeps
<1>17. Ranges'
  BY <1>1, <1>14 DEF IInv, Ranges, plan, planVars
<1>18. Backfilling' /\ EventsPlanned'
  BY <1>13, <1>14 DEF Backfilling, EventsPlanned
<1>19. DropInside'
  BY <1>1, <1>6, <1>13 DEF IInv, DropInside
<1>20. RunStored'
  BY <1>1, <1>7, <1>13, <1>16 DEF IInv, RunStored, LastInRound, plan
<1> QED BY <1>6, <1>7, <1>9, <1>16, <1>17, <1>18, <1>19, <1>20 DEF IInv

\* What goes is past the horizon.
LEMMA DropDeletesKeeps ==
    ASSUME IInv, DropDeletes, UNCHANGED <<planVars, passedVars>>
    PROVE  IInv'
<1>1. /\ UNCHANGED <<head, states, pc, cursor, ixEnd, plan, synced, faults, dropVars>>
      /\ dpc = "delete" /\ pc \in ContinuousPc
      /\ First' = First /\ Last' = Last /\ LogsFrom' = LogsFrom
      /\ TypeOK /\ RowTimes
  BY DEF DropDeletes, First, Last, LogsFrom, IInv, DropInside
<1>2. /\ \A t \in Table : /\ rows'[t] \subseteq rows[t]
                          /\ \A b \in rows[t] \ rows'[t] : BlockTime(b) < horizon
      /\ rows' \in [Table -> SUBSET Block]
      /\ \A t \in Table : rows'[t] \subseteq Content(t)
  BY <1>1, Typed, DropDeleted DEF IInv, DropInside
<1>3. TypeOK'
  BY <1>1, <1>2 DEF TypeOK, dropVars, plan, planVars, passedVars
<1>4. /\ stored' \subseteq stored /\ rows'["logs"] \subseteq rows["logs"]
      /\ \A b \in Block : BlockTime(b) >= horizon =>
            /\ b \in stored => b \in stored'
            /\ \A t \in Table : b \in rows[t] => b \in rows'[t]
  <2>1. "blocks" \in Table /\ "logs" \in Table
    BY DEF Table
  <2>2. \A b \in Block : BlockTime(b) \in Int /\ horizon \in Int
    BY <1>1, Numbers
  <2> QED BY <1>2, <2>1, <2>2 DEF stored
<1>5. Whole'
  <2>1. Whole /\ horizon' = horizon /\ rows'["transactions"] \subseteq rows["transactions"]
    BY <1>1, <1>2 DEF IInv, dropVars, Table
  <2>2. stored \subseteq Block /\ rows["transactions"] \cap ReceiptLogBlocks \subseteq Block
    BY <1>1, Numbers, EngineAssumption
  <2>3. \A b \in stored' : BlockTime(b) >= horizon => Covered(b)'
    BY <1>4, <2>1, <2>2 DEF Whole, Covered
  <2>4. \A b \in rows'["transactions"] \cap ReceiptLogBlocks :
           BlockTime(b) >= horizon => b \in rows'["logs"]
    BY <1>4, <2>1, <2>2 DEF Whole, Table
  <2> QED BY <2>1, <2>3, <2>4 DEF Whole
<1>6. RunPoints' = RunPoints
  BY <1>1 DEF RunPoints, plan
<1>7. pc' = pc /\ pc \notin PlannedPc
  BY <1>1 DEF PlannedPc, HistoryPc, ContinuousPc
<1>8. /\ RunPoints \subseteq Int /\ horizon \in Int /\ horizon' = horizon
      /\ BlockAnchors \subseteq Block /\ LogAnchors \subseteq Block /\ Block \subseteq Int
  BY <1>1, AnchorsTyped, Numbers DEF dropVars
<1>9. ASSUME NEW x \in RunPoints
      PROVE  /\ FilledIn(BlocksHere', BlockAnchors', horizon', x)
             /\ FilledIn(EventsHere', LogAnchors', horizon', x)
  <2>1. /\ FilledIn(BlocksHere, BlockAnchors, horizon, x)
        /\ FilledIn(EventsHere, LogAnchors, horizon, x)
    BY DEF IInv, BlocksFilled, LogsFilled
  <2>2. \A b \in Block : BlockTime(b) >= horizon' =>
              /\ b \in BlocksHere => b \in BlocksHere'
              /\ b \in EventsHere => b \in EventsHere'
    BY <1>4, <1>8 DEF BlocksHere, EventsHere, passedVars, Table
  <2>3. BlockAnchors' \subseteq BlockAnchors /\ LogAnchors' \subseteq LogAnchors
    <3>1. Held("blocks")' = {} /\ Held("logs")' = {}
      BY <1>1 DEF Held, dropVars
    <3> QED BY <1>1, <1>4, <3>1 DEF BlockAnchors, LogAnchors
  <2>4. \A c \in Block : c <= c
    BY <1>8
  <2>5. /\ \A c \in BlockAnchors' : c \in Block /\ (c >= x \/ \E a \in BlockAnchors : a <= c)
        /\ \A c \in LogAnchors' : c \in Block /\ (c >= x \/ \E a \in LogAnchors : a <= c)
    BY <1>8, <2>3, <2>4
  <2> QED BY <1>1, <1>8, <2>1, <2>2, <2>5, StepKeepsFilled
<1>10. BlocksFilled' /\ LogsFilled'
  BY <1>6, <1>7, <1>9 DEF BlocksFilled, LogsFilled
<1>11. MissingRows' /\ RowTimes'
  BY <1>1 DEF IInv, MissingRows, RowTimes
<1>12. Ranges' /\ EventsPlanned' /\ DropInside'
  BY <1>1 DEF IInv, Ranges, EventsPlanned, DropInside, dropVars, plan, planVars
<1>13. Backfilling'
  BY <1>1 DEF Backfilling, ContinuousPc
<1>14. RunStored'
  <2>1. pc = "cont_states" => cursor \in Block
    <3>1. /\ pc = "cont_states" => cursor <= ixEnd /\ ixEnd <= head
          /\ head \in Block /\ cursor \in Nat /\ ixEnd \in Nat
      BY Numbers DEF IInv, Ranges
    <3> QED BY <3>1, EngineAssumption DEF Block
  <2>2. pc = "cont_states" => cursor \in stored' \/ BlockTime(cursor) < horizon'
    <3>1. cursor \in Block => BlockTime(cursor) < horizon \/ BlockTime(cursor) >= horizon
      <4>1. cursor \in Block => BlockTime(cursor) \in Int
        BY EngineAssumption
      <4> QED BY <1>8, <4>1
    <3> QED BY <1>4, <1>8, <2>1, <3>1 DEF IInv, RunStored
  <2> QED BY <1>1, <1>8, <2>2
          DEF IInv, RunStored, LastInRound, HistoryPc, ContinuousPc, plan
<1> QED BY <1>3, <1>5, <1>10, <1>11, <1>12, <1>13, <1>14 DEF IInv

-----------------------------------------------------------------------------
(***************************************************************************)
(* The steps of a run that write no rows and no coverage.                  *)
(***************************************************************************)

LEMMA PointsTyped == TypeOK /\ RowTimes => RunPoints \subseteq Int
BY AnchorsTyped

LEMMA PointsTypedAfter == TypeOK' /\ RowTimes' => (RunPoints \subseteq Int)'
BY PointsTyped, PTL

LEMMA BeforeEnd ==
    ASSUME NEW a, NEW b, a \in Int, b \in Int, a <= b
    PROVE  Lesser(a, b + 1) = a
<1>1. a <= b + 1
  OBVIOUS
<1> QED BY <1>1 DEF Lesser

\* The points of a catch-up under way, and of a continuous run that has its start.
LEMMA HistoryPoints ==
    pc \in HistoryPc \ {"hist_range"} =>
        RunPoints = (IF Last.exists THEN {Last.index + 1} ELSE {})
                        \cup {startIndex, Lesser(cursor, ixEnd + 1)}
<1> SUFFICES ASSUME pc \in HistoryPc \ {"hist_range"}
             PROVE  RunPoints = (IF Last.exists THEN {Last.index + 1} ELSE {})
                        \cup {startIndex, Lesser(cursor, ixEnd + 1)}
  OBVIOUS
<1>1. pc \in HistoryPc \cup {"caught_up"} /\ pc \notin ContinuousPc
  BY DEF HistoryPc, ContinuousPc
<1> QED BY <1>1 DEF RunPoints

LEMMA HistoryPointsAfter ==
    pc' \in HistoryPc \ {"hist_range"} =>
        RunPoints' = (IF Last'.exists THEN {Last'.index + 1} ELSE {})
                        \cup {startIndex', Lesser(cursor', ixEnd' + 1)}
<1>1. (pc \in HistoryPc \ {"hist_range"} =>
          RunPoints = (IF Last.exists THEN {Last.index + 1} ELSE {})
                        \cup {startIndex, Lesser(cursor, ixEnd + 1)})'
  BY HistoryPoints, PTL
<1> QED BY <1>1 DEF Lesser, HistoryPc

LEMMA ContinuousPoints ==
    pc \in ContinuousPc \ {"cont_start"} =>
        RunPoints = (IF Last.exists THEN {Last.index + 1} ELSE {})
                        \cup {histLast + 1, cursor}
<1> SUFFICES ASSUME pc \in ContinuousPc \ {"cont_start"}
             PROVE  RunPoints = (IF Last.exists THEN {Last.index + 1} ELSE {})
                        \cup {histLast + 1, cursor}
  OBVIOUS
<1>1. pc \in ContinuousPc /\ pc \notin HistoryPc \cup {"caught_up"}
  BY DEF HistoryPc, ContinuousPc
<1> QED BY <1>1 DEF RunPoints

LEMMA ContinuousPointsAfter ==
    pc' \in ContinuousPc \ {"cont_start"} =>
        RunPoints' = (IF Last'.exists THEN {Last'.index + 1} ELSE {})
                        \cup {histLast' + 1, cursor'}
<1>1. (pc \in ContinuousPc \ {"cont_start"} =>
          RunPoints = (IF Last.exists THEN {Last.index + 1} ELSE {})
                        \cup {histLast + 1, cursor})'
  BY ContinuousPoints, PTL
<1> QED BY <1>1 DEF ContinuousPc

\* What is left to show of such a step is where its points are.
LEMMA MovesKeep ==
    ASSUME IInv, TypeOK', RowTimes', UNCHANGED <<rows, horizon, passedVars>>,
           First' = First, Last' = Last, LogsFrom' = LogsFrom,
           dpc' \in {dpc, "idle"}, UNCHANGED <<dtable, boundary, dfirst>>,
           \A y \in RunPoints' : \E x \in RunPoints : y <= x,
           pc' \in PlannedPc =>
              /\ pc \in PlannedPc /\ startIndex' = startIndex
              /\ UNCHANGED <<eventStart, fullStart>>
              /\ pc \in {"backfill", "log_floor"} => pc' \in {"backfill", "log_floor"}
    PROVE  stored' = stored /\ Whole' /\ BlocksFilled' /\ LogsFilled'
<1>1. Held("blocks")' \subseteq Held("blocks") /\ Held("logs")' \subseteq Held("logs")
  BY DEF Held, Expired
<1>2. TypeOK /\ RowTimes
  BY DEF IInv
<1>3. /\ \A c \in BlockAnchors' : c \in Block /\ \E a \in BlockAnchors : a <= c
      /\ \A c \in LogAnchors' : c \in Block /\ \E a \in LogAnchors : a <= c
  BY <1>1, <1>2, AnchorsShrink
<1>4. horizon' \in Int /\ horizon <= horizon'
  BY <1>2, Numbers
<1>5. RunPoints' \subseteq Int
  BY PointsTypedAfter
<1> QED BY <1>3, <1>4, <1>5, QuietKeeps

\* The range of a catch-up begins at the plan's start.
LEMMA HistoryRangeKeeps ==
    ASSUME IInv, HistoryRange, UNCHANGED <<dropVars, planVars, passedVars>>
    PROVE  IInv'
<1>1. /\ UNCHANGED <<head, rows, startIndex, histLast, synced, faults, dropVars, planVars,
                     passedVars>>
      /\ pc = "hist_range" /\ pc' = "hist" /\ cursor' = startIndex
      /\ ixEnd' = Lesser(Tip, StopIndex)
      /\ TypeOK
  BY DEF HistoryRange, plan, IInv
<1>2. /\ Tip \in Nat /\ Tip <= head
      /\ states' \in [StateName -> RowType]
      /\ First' = First /\ Last' = Last /\ LogsFrom' = LogsFrom
      /\ MissingRows' /\ RowTimes'
  BY TipKept DEF IInv, HistoryRange
<1>3. ixEnd' \in Nat /\ ixEnd' <= Tip
  BY <1>1, <1>2, EngineAssumption DEF Lesser
<1>4. TypeOK'
  BY <1>1, <1>2, <1>3 DEF TypeOK, dropVars, planVars, passedVars, EnginePc, HistoryPc
<1>5. /\ startIndex \in Int /\ Lesser(startIndex, ixEnd' + 1) \in Int
      /\ Lesser(startIndex, ixEnd' + 1) <= startIndex
  BY <1>1, <1>3, Numbers, LesserOf
<1>6. \A y \in RunPoints' : \E x \in RunPoints : y <= x
  <2>1. /\ RunPoints \subseteq Int /\ startIndex \in RunPoints
        /\ Last.exists => Last.index + 1 \in RunPoints
    BY <1>1, AnchorsTyped DEF IInv, RunPoints, HistoryPc
  <2>2. \A y \in RunPoints' : \/ Last.exists /\ y = Last.index + 1
                              \/ y = startIndex
                              \/ y = Lesser(startIndex, ixEnd' + 1)
    BY <1>1, <1>2 DEF RunPoints, HistoryPc, ContinuousPc
  <2>3. /\ startIndex <= startIndex
        /\ Last.exists => Last.index + 1 <= Last.index + 1
    BY <1>5, Numbers DEF IInv
  <2> QED BY <1>5, <2>1, <2>2, <2>3
<1>7. stored' = stored /\ Whole' /\ BlocksFilled' /\ LogsFilled'
  BY <1>1, <1>2, <1>4, <1>6, MovesKeep DEF dropVars, planVars, PlannedPc, HistoryPc
<1>8. Ranges' /\ Backfilling'
  BY <1>1, <1>2, <1>3, <1>5, Numbers DEF Ranges, Backfilling, HistoryPc
<1>9. DropInside'
  BY <1>1 DEF IInv, DropInside, dropVars, HistoryPc, ContinuousPc
<1>10. RunStored'
  <2>1. \A b \in Block : ~(startIndex <= b /\ b < startIndex)
    BY <1>1, Numbers
  <2> QED BY <1>1, <2>1 DEF RunStored, ContinuousPc
<1>11. EventsPlanned'
  BY <1>1, <1>2 DEF IInv, EventsPlanned, HistoryPc, planVars
<1> QED BY <1>2, <1>4, <1>7, <1>8, <1>9, <1>10, <1>11 DEF IInv

\* Near its end the catch-up takes in what the chain has grown by.
LEMMA HistoryExtendKeeps ==
    ASSUME IInv, HistoryExtend, UNCHANGED <<dropVars, planVars, passedVars>>
    PROVE  IInv'
<1>1. /\ UNCHANGED <<head, rows, cursor, startIndex, histLast, synced, faults, dropVars,
                     planVars, passedVars>>
      /\ pc = "hist_extend" /\ pc' = "hist"
      /\ ixEnd' = IF Tip > ixEnd /\ StopIndex > ixEnd THEN Lesser(Tip, StopIndex) ELSE ixEnd
      /\ TypeOK
  BY DEF HistoryExtend, plan, IInv
<1>2. /\ Tip \in Nat /\ Tip <= head
      /\ states' \in [StateName -> RowType]
      /\ First' = First /\ Last' = Last /\ LogsFrom' = LogsFrom
      /\ MissingRows' /\ RowTimes'
  BY TipKept DEF IInv, HistoryExtend
<1>3. /\ cursor \in Int /\ ixEnd \in Nat /\ head \in Int /\ startIndex \in Int
      /\ cursor <= ixEnd /\ ixEnd <= head /\ startIndex <= cursor
  <2>1. pc \in HistoryPc \ {"hist_range"}
    BY <1>1 DEF HistoryPc
  <2>2. cursor <= ixEnd /\ ixEnd <= head /\ startIndex <= cursor
    BY <1>1, <2>1 DEF IInv, Ranges
  <2>3. cursor \in Int /\ ixEnd \in Nat /\ head \in Int /\ startIndex \in Int
    BY <1>1, Numbers
  <2> QED BY <2>2, <2>3
<1>4. ixEnd' \in Nat /\ ixEnd' <= head /\ ixEnd <= ixEnd'
  BY <1>1, <1>2, <1>3, EngineAssumption DEF Lesser
<1>5. TypeOK'
  BY <1>1, <1>2, <1>4 DEF TypeOK, dropVars, planVars, passedVars, EnginePc, HistoryPc
<1>6. Lesser(cursor, ixEnd' + 1) = cursor /\ Lesser(cursor, ixEnd + 1) = cursor
  <2>1. cursor \in Int /\ ixEnd \in Int /\ ixEnd' \in Int
    BY <1>3, <1>4
  <2>2. cursor <= ixEnd' /\ cursor <= ixEnd
    BY <1>3, <1>4, <2>1
  <2> QED BY <2>1, <2>2, BeforeEnd
<1>7. RunPoints' = RunPoints
  <2>1. pc \in HistoryPc \ {"hist_range"} /\ pc' \in HistoryPc \ {"hist_range"}
    BY <1>1 DEF HistoryPc
  <2> QED BY <1>1, <1>2, <1>6, <2>1, HistoryPoints, HistoryPointsAfter
<1>8. \A y \in RunPoints' : \E x \in RunPoints : y <= x
  <2>1. RunPoints \subseteq Int
    BY AnchorsTyped DEF IInv
  <2> QED BY <1>7, <2>1
<1>9. stored' = stored /\ Whole' /\ BlocksFilled' /\ LogsFilled'
  BY <1>1, <1>2, <1>5, <1>8, MovesKeep DEF dropVars, planVars, PlannedPc, HistoryPc
<1>10. Ranges' /\ Backfilling'
  BY <1>1, <1>3, <1>4 DEF Ranges, Backfilling
<1>11. DropInside'
  BY <1>1 DEF IInv, DropInside, dropVars, HistoryPc, ContinuousPc
<1>12. RunStored'
  <2>1. \A b \in Block : startIndex <= b /\ b < cursor /\ b <= ixEnd => b \in stored
    BY <1>1 DEF IInv, RunStored, HistoryPc
  <2>2. \A b \in Block : b < cursor => b <= ixEnd
    BY <1>1, <1>3, Numbers
  <2> QED BY <1>1, <1>9, <2>1, <2>2 DEF RunStored, ContinuousPc
<1>13. EventsPlanned'
  BY <1>1, <1>2 DEF IInv, EventsPlanned, HistoryPc, planVars
<1> QED BY <1>2, <1>5, <1>9, <1>10, <1>11, <1>12, <1>13 DEF IInv

\* The steps of a continuous run that write no coverage.
LEMMA ContinuousMovesKeep ==
    ASSUME IInv, TypeOK', MissingRows', RowTimes',
           UNCHANGED <<rows, startIndex, histLast, dropVars, planVars, passedVars>>,
           First' = First, Last' = Last, LogsFrom' = LogsFrom,
           pc \in ContinuousPc, pc' \in ContinuousPc \ {"cont_states"},
           \A y \in RunPoints' : \E x \in RunPoints : y <= x,
           pc' = "cont" => ixEnd' <= head',
           pc' # "cont_start" => histLast < cursor' /\ (Last.exists => Last.index < cursor')
    PROVE  IInv'
<1>1. /\ pc \notin PlannedPc /\ pc' \notin PlannedPc
      /\ pc' \notin {"hist", "hist_states", "hist_extend", "cont_states", "caught_up",
                     "backfill", "log_floor"}
      /\ pc' \notin HistoryPc
  BY DEF PlannedPc, HistoryPc, ContinuousPc
<1>2. stored' = stored /\ Whole' /\ BlocksFilled' /\ LogsFilled'
  BY <1>1, MovesKeep DEF dropVars
<1>3. Ranges' /\ Backfilling'
  BY <1>1 DEF Ranges, Backfilling
<1>4. DropInside'
  BY DEF IInv, DropInside, dropVars
<1>5. RunStored'
  BY <1>1 DEF RunStored
<1>6. EventsPlanned'
  BY <1>1 DEF EventsPlanned
<1> QED BY <1>2, <1>3, <1>4, <1>5, <1>6 DEF IInv

\* A continuous run starts one past the higher of the two tops.
LEMMA ContinuousStartKeeps ==
    ASSUME IInv, ContinuousStart, UNCHANGED <<dropVars, planVars, passedVars>>
    PROVE  IInv'
<1>1. /\ UNCHANGED <<head, rows, states, ixEnd, startIndex, histLast, synced, faults,
                     dropVars, planVars, passedVars>>
      /\ pc = "cont_start" /\ pc' = "cont_range"
      /\ cursor' = ResumeIndex(histLast, Last)
      /\ First' = First /\ Last' = Last /\ LogsFrom' = LogsFrom
      /\ TypeOK /\ RowTimes /\ MissingRows
  BY DEF ContinuousStart, plan, IInv, First, Last, LogsFrom
<1>2. Last.index \in Nat /\ histLast \in Nat
  BY <1>1, Numbers
<1>3. \/ cursor' = Last.index + 1 /\ Last.index # 0 /\ Last.index > histLast
      \/ cursor' = histLast + 1 /\ ~(Last.index # 0 /\ Last.index > histLast)
  BY <1>1 DEF ResumeIndex, IsSet
<1>4. cursor' \in Nat /\ histLast < cursor' /\ Last.index < cursor'
  BY <1>2, <1>3
<1>5. Last.index # 0 => Last.exists
  BY <1>1 DEF MissingRows, Last, NoRow, StateName
<1>6. TypeOK'
  BY <1>1, <1>4 DEF TypeOK, dropVars, planVars, passedVars, EnginePc, ContinuousPc
<1>7. MissingRows' /\ RowTimes'
  BY <1>1 DEF MissingRows, RowTimes
<1>8. RunPoints = (IF Last.exists THEN {Last.index + 1} ELSE {}) \cup {histLast + 1}
  BY <1>1 DEF RunPoints, HistoryPc, ContinuousPc
<1>9. RunPoints' = (IF Last.exists THEN {Last.index + 1} ELSE {}) \cup {histLast + 1, cursor'}
  BY <1>1, ContinuousPointsAfter DEF ContinuousPc
<1>10. \A y \in RunPoints' : \E x \in RunPoints : y <= x
  <2>1. RunPoints' \subseteq RunPoints
    BY <1>3, <1>5, <1>8, <1>9
  <2>2. \A x \in RunPoints : x <= x
    BY <1>1, AnchorsTyped
  <2> QED BY <2>1, <2>2
<1>11. pc \in ContinuousPc /\ pc' \in ContinuousPc \ {"cont_states"} /\ pc' # "cont"
  BY <1>1 DEF ContinuousPc
<1> QED BY <1>1, <1>4, <1>6, <1>7, <1>10, <1>11, ContinuousMovesKeep

\* It looks up its range, and new blocks past its end.
LEMMA ContinuousLooksKeeps ==
    ASSUME IInv, ContinuousRange \/ ContinuousPoll,
           UNCHANGED <<dropVars, planVars, passedVars>>
    PROVE  IInv'
<1>1. /\ UNCHANGED <<head, rows, cursor, startIndex, histLast, synced, faults,
                     dropVars, planVars, passedVars>>
      /\ pc \in {"cont_range", "cont"} /\ pc' = "cont"
      /\ ixEnd' \in {Tip, Lesser(Tip, StopIndex)}
      /\ ObserveTip
      /\ TypeOK /\ RowTimes /\ MissingRows
  BY DEF ContinuousRange, ContinuousPoll, plan, IInv
<1>2. /\ Tip \in Nat /\ Tip <= head
      /\ states' \in [StateName -> RowType]
      /\ First' = First /\ Last' = Last /\ LogsFrom' = LogsFrom
      /\ MissingRows' /\ RowTimes'
  BY <1>1, TipKept
<1>3. ixEnd' \in Nat /\ ixEnd' <= Tip
  BY <1>1, <1>2, EngineAssumption DEF Lesser
<1>4. TypeOK'
  BY <1>1, <1>2, <1>3 DEF TypeOK, dropVars, planVars, passedVars, EnginePc, ContinuousPc
<1>5. /\ pc \in ContinuousPc \ {"cont_start"} /\ pc' \in ContinuousPc \ {"cont_start"}
      /\ pc' \in ContinuousPc \ {"cont_states"}
  BY <1>1 DEF ContinuousPc
<1>6. \A y \in RunPoints' : \E x \in RunPoints : y <= x
  <2>1. RunPoints' = RunPoints
    BY <1>1, <1>2, <1>5, ContinuousPoints, ContinuousPointsAfter
  <2>2. \A x \in RunPoints : x <= x
    BY <1>1, AnchorsTyped
  <2> QED BY <2>1, <2>2
<1>7. histLast < cursor /\ (Last.exists => Last.index < cursor)
  BY <1>5 DEF IInv, RunStored
<1>8. ixEnd' <= head'
  <2>1. head \in Int /\ head' = head
    BY <1>1, Numbers
  <2> QED BY <1>2, <1>3, <2>1
<1> QED BY <1>1, <1>2, <1>4, <1>5, <1>6, <1>7, <1>8, ContinuousMovesKeep

\* An error sends it back to its start.
LEMMA ContinuousFailsKeeps ==
    ASSUME IInv, ContinuousFails, UNCHANGED <<dropVars, planVars, passedVars>>
    PROVE  IInv'
<1>1. /\ UNCHANGED <<head, rows, states, cursor, ixEnd, startIndex, histLast, synced,
                     dropVars, planVars, passedVars>>
      /\ pc \in ContinuousPc /\ pc' = "cont_start"
      /\ faults < MaxFaults /\ faults' = faults + 1
      /\ First' = First /\ Last' = Last /\ LogsFrom' = LogsFrom
      /\ TypeOK /\ RowTimes /\ MissingRows
  BY DEF ContinuousFails, plan, IInv, First, Last, LogsFrom
<1>2. faults' \in 0 .. MaxFaults
  BY <1>1, EngineAssumption DEF TypeOK
<1>3. TypeOK'
  BY <1>1, <1>2 DEF TypeOK, dropVars, planVars, passedVars, EnginePc, ContinuousPc
<1>4. MissingRows' /\ RowTimes'
  BY <1>1 DEF MissingRows, RowTimes
<1>5. RunPoints' \subseteq RunPoints
  <2>1. pc' \in ContinuousPc /\ pc' \notin ContinuousPc \ {"cont_start"}
        /\ pc' \notin HistoryPc \cup {"caught_up"}
    BY <1>1 DEF HistoryPc, ContinuousPc
  <2> QED BY <1>1, <2>1 DEF RunPoints
<1>6. \A y \in RunPoints' : \E x \in RunPoints : y <= x
  <2>1. \A x \in RunPoints : x <= x
    BY <1>1, AnchorsTyped
  <2> QED BY <1>5, <2>1
<1>7. pc' \in ContinuousPc \ {"cont_states"} /\ pc' # "cont"
  BY <1>1 DEF ContinuousPc
<1> QED BY <1>1, <1>3, <1>4, <1>6, <1>7, ContinuousMovesKeep

\* The catch-up is over: the continuous run and the deletion loop begin.
LEMMA CatchUpEndsKeeps ==
    ASSUME IInv, TypeOK', DropStarts,
           UNCHANGED <<rows, states, startIndex, planVars, passedVars>>,
           pc' = "cont_start",
           \E x \in RunPoints : histLast' + 1 <= x,
           Last.exists => Last.index + 1 \in RunPoints
    PROVE  IInv'
<1>1. /\ dpc' = "idle" /\ UNCHANGED <<dtable, boundary, dfirst, horizon>>
      /\ First' = First /\ Last' = Last /\ LogsFrom' = LogsFrom
      /\ TypeOK /\ RowTimes /\ MissingRows
  BY DEF DropStarts, First, Last, LogsFrom, IInv
<1>2. MissingRows' /\ RowTimes'
  BY <1>1 DEF MissingRows, RowTimes
<1>3. /\ pc' \in ContinuousPc /\ pc' \notin ContinuousPc \ {"cont_start"}
      /\ pc' \notin PlannedPc /\ pc' \notin HistoryPc \cup {"caught_up"}
  BY DEF PlannedPc, HistoryPc, ContinuousPc
<1>4. RunPoints' = (IF Last.exists THEN {Last.index + 1} ELSE {}) \cup {histLast' + 1}
  BY <1>1, <1>3 DEF RunPoints
<1>5. \A y \in RunPoints' : \E x \in RunPoints : y <= x
  <2>1. \A x \in RunPoints : x <= x
    BY <1>1, AnchorsTyped
  <2> QED BY <1>4, <2>1
<1>6. stored' = stored /\ Whole' /\ BlocksFilled' /\ LogsFilled'
  BY <1>1, <1>2, <1>3, <1>5, MovesKeep
<1>7. Ranges' /\ Backfilling'
  BY <1>3 DEF Ranges, Backfilling, HistoryPc
<1>8. DropInside'
  BY <1>1, <1>3 DEF IInv, DropInside
<1>9. RunStored' /\ EventsPlanned'
  BY <1>3 DEF RunStored, EventsPlanned, HistoryPc
<1> QED BY <1>1, <1>2, <1>6, <1>7, <1>8, <1>9 DEF IInv

\* What the catch-up returns is the end of its range: all of it is stored.
LEMMA GoContinuousKeeps ==
    ASSUME IInv, GoContinuous
    PROVE  IInv'
<1>1. /\ UNCHANGED <<head, rows, states, cursor, ixEnd, startIndex, faults, planVars,
                     passedVars>>
      /\ pc = "hist" /\ cursor > ixEnd /\ pc' = "cont_start"
      /\ histLast' = ixEnd /\ synced' = TRUE
      /\ DropStarts
      /\ TypeOK /\ RowTimes
  BY DEF GoContinuous, HistoryReturns, IInv
<1>2. /\ dpc' = "idle" /\ UNCHANGED <<dtable, boundary, dfirst, horizon>>
  BY <1>1 DEF DropStarts
<1>3. TypeOK'
  BY <1>1, <1>2 DEF TypeOK, planVars, passedVars, EnginePc, ContinuousPc, DropPc
<1>4. cursor \in Int /\ ixEnd \in Int
  BY <1>1, Numbers
<1>5. Lesser(cursor, ixEnd + 1) = ixEnd + 1
  <2>1. cursor <= ixEnd + 1 => cursor = ixEnd + 1
    BY <1>1, <1>4
  <2> QED BY <2>1 DEF Lesser
<1>6. RunPoints = (IF Last.exists THEN {Last.index + 1} ELSE {})
                        \cup {startIndex, ixEnd + 1}
  BY <1>1, <1>5, HistoryPoints DEF HistoryPc
<1>7. \E x \in RunPoints : histLast' + 1 <= x
  BY <1>1, <1>4, <1>6
<1>8. Last.exists => Last.index + 1 \in RunPoints
  BY <1>6
<1> QED BY <1>1, <1>3, <1>7, <1>8, CatchUpEndsKeeps

\* With nothing to catch up, it is the tip of the plan, which is below the start.
LEMMA NothingToCatchUpKeeps ==
    ASSUME IInv, NothingToCatchUp
    PROVE  IInv'
<1>1. /\ UNCHANGED <<head, rows, states, cursor, ixEnd, startIndex, faults, planVars,
                     passedVars>>
      /\ pc = "caught_up" /\ pc' = "cont_start"
      /\ histLast' = planTip /\ synced' = TRUE
      /\ DropStarts
      /\ TypeOK /\ RowTimes
  BY DEF NothingToCatchUp, IInv
<1>2. /\ dpc' = "idle" /\ UNCHANGED <<dtable, boundary, dfirst, horizon>>
  BY <1>1 DEF DropStarts
<1>3. planTip \in Nat /\ startIndex \in Int /\ planTip < startIndex
  BY <1>1, Numbers, EngineAssumption DEF IInv, Ranges, Block
<1>4. TypeOK'
  BY <1>1, <1>2, <1>3 DEF TypeOK, planVars, passedVars, EnginePc, ContinuousPc, DropPc
<1>5. startIndex \in RunPoints /\ (Last.exists => Last.index + 1 \in RunPoints)
  BY <1>1 DEF RunPoints
<1>6. \E x \in RunPoints : histLast' + 1 <= x
  BY <1>1, <1>3, <1>5
<1> QED BY <1>1, <1>4, <1>5, <1>6, CatchUpEndsKeeps

-----------------------------------------------------------------------------
(***************************************************************************)
(* The writes of coverage rows.                                            *)
(***************************************************************************)

\* The rows they leave carry their blocks' timestamps, and the block floor is
\* no higher than before and than the batch.
LEMMA CoverageKept ==
    ASSUME TypeOK, RowTimes, MissingRows, NEW lo \in Block, NEW hi \in Block,
           PublishCoverage(lo, hi)
    PROVE  /\ states' \in [StateName -> RowType]
           /\ Last'.exists /\ Last'.index = hi
           /\ First'.exists /\ First'.index <= lo
           /\ First.exists => First'.index <= First.index
           /\ (First.exists /\ First'.index = First.index) \/ First'.index = lo
           /\ LogsFrom' = LogsFrom
           /\ MissingRows' /\ RowTimes'
<1>1. lo \in Nat /\ hi \in Nat /\ BlockTime(lo) \in Nat /\ BlockTime(hi) \in Nat
  BY EngineAssumption DEF Block
<1>2. states' = WriteCoverageStates(states, hi, BlockTime(hi), lo, BlockTime(lo))
  BY DEF PublishCoverage
<1>3. states \in [StateName -> RowType] /\ EngineTyped
  BY Typed DEF TypeOK
<1>4. /\ states' \in [StateName -> RowType]
      /\ states'["LastIndexed"] = Row(hi, BlockTime(hi))
      /\ states'["BlockFloor"] \in {states["BlockFloor"], Row(lo, BlockTime(lo))}
      /\ states'["BlockFloor"].exists
      /\ states'["ChainTip"] = states["ChainTip"]
      /\ states'["LogFloor"] = states["LogFloor"]
  BY <1>1, <1>2, <1>3, CoverageRows
<1>5. /\ Row(hi, BlockTime(hi)).exists /\ Row(hi, BlockTime(hi)).index = hi
      /\ Row(hi, BlockTime(hi)).time = BlockTime(hi)
      /\ Row(lo, BlockTime(lo)).index = lo
      /\ Row(lo, BlockTime(lo)).time = BlockTime(lo)
  BY DEF Row
<1>6. MissingRows'
  BY <1>4, <1>5 DEF MissingRows, StateName
<1>7. RowTimes'
  <2>1. \A n \in StateName : states'[n].exists =>
           states'[n].index \in Block /\ states'[n].time = BlockTime(states'[n].index)
    BY <1>4, <1>5 DEF RowTimes, StateName
  <2> QED BY <1>4, <2>1 DEF RowTimes, First, Last
<1>8. First'.index = IF ~First.exists \/ lo < First.index THEN lo ELSE First.index
  BY <1>3, FloorPublished
<1>9. /\ First'.index <= lo
      /\ First.exists => First'.index <= First.index
      /\ (First.exists /\ First'.index = First.index) \/ First'.index = lo
  <2>1. First.index \in Nat /\ First.exists \in BOOLEAN
    BY Numbers
  <2> QED BY <1>1, <1>8, <2>1
<1> QED BY <1>4, <1>5, <1>6, <1>7, <1>9 DEF First, Last, LogsFrom

\* What is stored inside retention has its events.
LEMMA StoredHasEvents ==
    ASSUME Whole, NEW b \in stored, BlockTime(b) >= horizon, stored \subseteq Block
    PROVE  b \in EventsHere
<1>1. Covered(b) /\ b \in Block
  BY DEF Whole
<1>2. "logs" \in Table /\ Content("logs") = LogBlocks /\ EventBlocks \subseteq LogBlocks
  BY FspModeAssumption DEF Table, Content
<1>3. b \in EventBlocks => b \in rows["logs"]
  BY <1>1, <1>2 DEF Covered
<1> QED BY <1>1, <1>3 DEF EventsHere

\* Of a batch that is stored, from a point on, nothing is missing after it.
LEMMA PublishKeeps ==
    ASSUME IInv, NEW lo \in Block, NEW hi \in Block, lo <= hi, PublishCoverage(lo, hi),
           UNCHANGED <<rows, dropVars, planVars, startIndex, passedVars>>,
           lo \in RunPoints,
           \A b \in lo .. hi : b \in stored \/ BlockTime(b) < horizon,
           RunPoints' \subseteq Int,
           \A y \in RunPoints' : y <= hi + 1,
           pc' \in PlannedPc => pc' \in HistoryPc /\ startIndex <= hi + 1
    PROVE  stored' = stored /\ Whole' /\ BlocksFilled' /\ LogsFilled'
<1>1. /\ TypeOK /\ RowTimes /\ MissingRows /\ Whole
      /\ horizon' = horizon /\ rows' = rows /\ stored' = stored
      /\ BlocksHere' = BlocksHere /\ EventsHere' = EventsHere
  BY DEF IInv, dropVars, stored, BlocksHere, EventsHere, passedVars
<1>2. /\ First'.exists /\ LogsFrom' = LogsFrom
      /\ (First.exists /\ First'.index = First.index) \/ First'.index = lo
  BY <1>1, CoverageKept
<1>3. /\ BlockAnchors \subseteq Int /\ LogAnchors \subseteq Int /\ horizon \in Int
      /\ Block \subseteq Int /\ lo \in Int /\ hi \in Int /\ startIndex \in Int
      /\ stored \subseteq Block /\ \A b \in Block : BlockTime(b) \in Int
  <2>1. Block \subseteq Int /\ BlockAnchors \subseteq Block /\ LogAnchors \subseteq Block
    BY <1>1, AnchorsTyped, Numbers
  <2>2. /\ horizon \in Nat /\ startIndex \in Nat /\ stored \subseteq Block
        /\ \A b \in Block : BlockTime(b) \in Nat
    BY <1>1, Numbers
  <2> QED BY <2>1, <2>2
<1>4. Held("blocks")' = Held("blocks") /\ Held("logs")' = Held("logs")
  BY <1>1 DEF Held, Expired, dropVars
<1>5. BlockAnchors' \subseteq BlockAnchors \cup {lo}
  BY <1>2, <1>4 DEF BlockAnchors
<1>6. LogAnchors' \subseteq LogAnchors \cup {lo} /\ BlockAnchors' \subseteq LogAnchors'
  BY <1>2, <1>4, <1>5 DEF LogAnchors
<1>7. ASSUME NEW b \in Block, lo <= b, b <= hi, BlockTime(b) >= horizon
      PROVE  b \in BlocksHere /\ b \in EventsHere
  <2>1. b \in lo .. hi
    BY <1>3, <1>7
  <2>2. b \in stored
    BY <1>3, <1>7, <2>1
  <2> QED BY <1>1, <1>3, <1>7, <2>2, StoredHasEvents DEF BlocksHere
<1>8. /\ FilledIn(BlocksHere, BlockAnchors, horizon, lo)
      /\ FilledIn(EventsHere, LogAnchors, horizon, lo)
  BY DEF IInv, BlocksFilled, LogsFilled
<1>9. ASSUME NEW y \in Int, y <= hi + 1
      PROVE  /\ FilledIn(BlocksHere', BlockAnchors', horizon', y)
             /\ FilledIn(EventsHere', LogAnchors', horizon', y)
             /\ FilledIn(EventsHere', BlockAnchors', horizon', y)
  <2>1. ASSUME NEW b \in Block, b < y, BlockTime(b) >= horizon,
               NEW a, a \in BlockAnchors', a <= b
        PROVE  b \in BlocksHere
    <3>1. CASE lo <= b
      BY <1>3, <1>7, <1>9, <2>1, <3>1
    <3>2. CASE b < lo
      <4>1. a \in BlockAnchors
        BY <1>3, <1>5, <2>1, <3>2
      <4> QED BY <1>8, <2>1, <3>2, <4>1 DEF FilledIn
    <3> QED BY <1>3, <3>1, <3>2
  <2>2. ASSUME NEW b \in Block, b < y, BlockTime(b) >= horizon,
               NEW a, a \in LogAnchors', a <= b
        PROVE  b \in EventsHere
    <3>1. CASE lo <= b
      BY <1>3, <1>7, <1>9, <2>2, <3>1
    <3>2. CASE b < lo
      <4>1. a \in LogAnchors
        BY <1>3, <1>6, <2>2, <3>2
      <4> QED BY <1>8, <2>2, <3>2, <4>1 DEF FilledIn
    <3> QED BY <1>3, <3>1, <3>2
  <2> QED BY <1>1, <1>6, <2>1, <2>2 DEF FilledIn
<1>10. BlocksFilled'
  BY <1>1, <1>3, <1>9 DEF BlocksFilled
<1>11. LogsFilled'
  <2>1. pc' \in PlannedPc => EventsPending' = EventsHere'
    BY DEF EventsPending, HistoryPc
  <2> QED BY <1>1, <1>3, <1>9, <2>1 DEF LogsFilled
<1>12. Whole'
  BY <1>1 DEF Whole, Covered
<1> QED BY <1>1, <1>10, <1>11, <1>12

\* Each batch of the catch-up takes the claims up to its end.
LEMMA HistoryStatesKeeps ==
    ASSUME IInv, HistoryStates, UNCHANGED <<dropVars, planVars, passedVars>>
    PROVE  IInv'
<1> DEFINE hi == LastInRound
<1>1. /\ UNCHANGED <<head, rows, ixEnd, startIndex, histLast, synced, faults, dropVars,
                     planVars, passedVars>>
      /\ pc = "hist_states" /\ pc' \in {"hist", "hist_extend"}
      /\ ShouldUpdateLastIndex \/ pc' = "hist"
      /\ cursor' = cursor + BatchSize
      /\ PublishCoverage(cursor, hi)
      /\ TypeOK /\ RowTimes /\ MissingRows /\ Ranges /\ RunStored
  BY DEF HistoryStates, plan, IInv
<1>2. /\ pc \in HistoryPc \ {"hist_range"} /\ pc' \in HistoryPc \ {"hist_range"}
      /\ pc' \notin ContinuousPc \cup {"caught_up", "backfill", "log_floor"}
      /\ pc \notin ContinuousPc
  BY <1>1 DEF HistoryPc, ContinuousPc
<1>3. /\ cursor \in Nat /\ ixEnd \in Nat /\ head \in Int /\ startIndex \in Nat
      /\ BatchSize \in Nat \ {0} /\ MaxBlock \in Int /\ head <= MaxBlock
      /\ cursor <= ixEnd /\ ixEnd <= head /\ startIndex <= cursor
  <2>1. cursor <= ixEnd /\ ixEnd <= head /\ startIndex <= cursor
    BY <1>1, <1>2 DEF Ranges
  <2>2. head \in Int /\ MaxBlock \in Int /\ head <= MaxBlock
    BY <1>1, Numbers, EngineAssumption
  <2>3. cursor \in Nat /\ ixEnd \in Nat /\ startIndex \in Nat
    BY <1>1, Numbers
  <2> QED BY <2>1, <2>2, <2>3, EngineAssumption
<1>4. /\ hi \in Int /\ cursor <= hi /\ hi <= ixEnd
      /\ hi = cursor + BatchSize - 1 \/ (hi = ixEnd /\ ixEnd <= cursor + BatchSize - 1)
  BY <1>3 DEF LastInRound, Lesser
<1>5. cursor \in Block /\ hi \in Block
  BY <1>3, <1>4 DEF Block
<1> HIDE DEF hi
<1>6. /\ states' \in [StateName -> RowType]
      /\ Last'.exists /\ Last'.index = hi
      /\ First'.exists /\ First'.index <= cursor
      /\ First.exists => First'.index <= First.index
      /\ LogsFrom' = LogsFrom
      /\ MissingRows' /\ RowTimes'
  BY <1>1, <1>5, CoverageKept
<1>7. cursor' \in Nat /\ Lesser(cursor', ixEnd' + 1) = hi + 1
  BY <1>1, <1>3, <1>4 DEF Lesser
<1>8. TypeOK'
  BY <1>1, <1>6, <1>7 DEF TypeOK, dropVars, planVars, passedVars, EnginePc, HistoryPc
<1>9. cursor \in RunPoints
  <2>1. cursor \in Int /\ ixEnd \in Int /\ cursor <= ixEnd
    BY <1>3
  <2>2. Lesser(cursor, ixEnd + 1) = cursor
    BY <2>1, BeforeEnd
  <2> QED BY <1>2, <2>2, HistoryPoints
<1>10. RunPoints' = {hi + 1, startIndex}
  BY <1>1, <1>2, <1>6, <1>7, HistoryPointsAfter
<1>11. /\ RunPoints' \subseteq Int /\ \A y \in RunPoints' : y <= hi + 1
       /\ startIndex <= hi + 1
  BY <1>3, <1>4, <1>10
<1>12. \A b \in cursor .. hi : b \in stored
  BY <1>1 DEF RunStored, hi
<1>13. stored' = stored /\ Whole' /\ BlocksFilled' /\ LogsFilled'
  BY <1>1, <1>2, <1>4, <1>5, <1>9, <1>11, <1>12, PublishKeeps
<1>14. Ranges'
  <2>1. startIndex <= cursor' /\ (pc' = "hist_extend" => cursor' <= ixEnd)
    <3>1. startIndex <= cursor'
      BY <1>1, <1>3
    <3> QED BY <1>1, <3>1 DEF ShouldUpdateLastIndex
  <2> QED BY <1>1, <1>2, <1>3, <2>1 DEF Ranges, ContinuousPc
<1>15. Backfilling' /\ DropInside'
  BY <1>1, <1>2 DEF IInv, Backfilling, DropInside, dropVars
<1>16. RunStored'
  <2>1. ASSUME NEW b \in Block, startIndex <= b, b < cursor', b <= ixEnd
        PROVE  b \in stored
    <3>1. b \in Int
      BY EngineAssumption DEF Block
    <3>2. CASE b < cursor
      BY <1>1, <1>2, <2>1, <3>2 DEF RunStored
    <3>3. CASE cursor <= b
      <4>1. b <= hi
        BY <1>1, <1>3, <1>4, <2>1, <3>1
      <4>2. b \in cursor .. hi
        BY <1>3, <1>4, <3>1, <3>3, <4>1
      <4> QED BY <1>12, <4>2
    <3> QED BY <1>3, <3>1, <3>2, <3>3
  <2> QED BY <1>1, <1>2, <1>13, <2>1 DEF RunStored
<1>17. EventsPlanned'
  <2>1. /\ eventStart \in Int /\ First.index \in Int /\ First'.index \in Int
    <3>1. Block \subseteq Int /\ "BlockFloor" \in StateName
      BY <1>1, Numbers DEF StateName
    <3>2. First'.index \in Block
      BY <1>6, <3>1 DEF RowTimes, First
    <3>3. First.index \in Nat /\ eventStart \in Block
      BY <1>1, Numbers
    <3>4. First.index \in Int
      BY <3>3
    <3>5. eventStart \in Int /\ First'.index \in Int
      BY <3>1, <3>2, <3>3, Zenon
    <3> QED BY <3>4, <3>5
  <2>2. EventsPlanned
    BY DEF IInv
  <2>3. pc \in HistoryPc \cup {"caught_up"} /\ eventStart' = eventStart /\ anchored' = anchored
        /\ startIndex' = startIndex
    BY <1>1, <1>2 DEF planVars
  <2> QED BY <1>6, <2>1, <2>2, <2>3 DEF EventsPlanned
<1> QED BY <1>6, <1>8, <1>13, <1>14, <1>15, <1>16, <1>17 DEF IInv

\* And so does each block of the continuous run.
LEMMA ContinuousStatesKeeps ==
    ASSUME IInv, ContinuousStates, UNCHANGED <<dropVars, planVars, passedVars>>
    PROVE  IInv'
<1>1. /\ UNCHANGED <<head, rows, ixEnd, startIndex, histLast, synced, faults, dropVars,
                     planVars, passedVars>>
      /\ pc = "cont_states" /\ pc' = "cont"
      /\ cursor' = cursor + 1
      /\ PublishCoverage(cursor, cursor)
      /\ TypeOK /\ RowTimes /\ MissingRows /\ Ranges /\ RunStored
  BY DEF ContinuousStates, plan, IInv
<1>2. /\ pc \in ContinuousPc \ {"cont_start"} /\ pc' \in ContinuousPc \ {"cont_start"}
      /\ pc' \notin PlannedPc /\ pc' \notin HistoryPc
  BY <1>1 DEF HistoryPc, ContinuousPc, PlannedPc
<1>3. /\ cursor \in Nat /\ ixEnd \in Nat /\ head \in Int /\ histLast \in Nat
      /\ MaxBlock \in Int /\ head <= MaxBlock
      /\ cursor <= ixEnd /\ ixEnd <= head /\ histLast < cursor
  <2>1. cursor <= ixEnd /\ ixEnd <= head
    BY <1>1 DEF Ranges
  <2>2. histLast < cursor
    BY <1>1, <1>2 DEF RunStored
  <2>3. head \in Int /\ MaxBlock \in Int /\ head <= MaxBlock
    BY <1>1, Numbers, EngineAssumption
  <2>4. cursor \in Nat /\ ixEnd \in Nat /\ histLast \in Nat
    BY <1>1, Numbers
  <2> QED BY <2>1, <2>2, <2>3, <2>4
<1>4. cursor \in Block
  BY <1>3 DEF Block
<1>5. /\ states' \in [StateName -> RowType]
      /\ Last'.exists /\ Last'.index = cursor
      /\ LogsFrom' = LogsFrom
      /\ MissingRows' /\ RowTimes'
  BY <1>1, <1>4, CoverageKept
<1>6. TypeOK'
  BY <1>1, <1>3, <1>5 DEF TypeOK, dropVars, planVars, passedVars, EnginePc, ContinuousPc
<1>7. cursor \in RunPoints
  BY <1>2, ContinuousPoints
<1>8. RunPoints' = {cursor + 1, histLast + 1}
  BY <1>1, <1>2, <1>5, ContinuousPointsAfter
<1>9. RunPoints' \subseteq Int /\ \A y \in RunPoints' : y <= cursor + 1
  BY <1>3, <1>8
<1>10. \A b \in cursor .. cursor : b \in stored \/ BlockTime(b) < horizon
  <2>1. \A b \in cursor .. cursor : b = cursor
    BY <1>3
  <2> QED BY <1>1, <2>1 DEF RunStored
<1>11. cursor <= cursor
  BY <1>3
<1>12. stored' = stored /\ Whole' /\ BlocksFilled' /\ LogsFilled'
  BY <1>1, <1>2, <1>4, <1>7, <1>9, <1>10, <1>11, PublishKeeps
<1>13. Ranges' /\ Backfilling'
  BY <1>1, <1>2, <1>3 DEF Ranges, Backfilling
<1>14. DropInside'
  BY <1>1, <1>2 DEF IInv, DropInside, dropVars
<1>15. RunStored'
  <2>1. histLast < cursor + 1 /\ cursor < cursor + 1
    BY <1>3
  <2> QED BY <1>1, <1>2, <1>5, <2>1 DEF RunStored
<1>16. EventsPlanned'
  BY <1>1, <1>2 DEF EventsPlanned
<1> QED BY <1>5, <1>6, <1>12, <1>13, <1>14, <1>15, <1>16 DEF IInv

-----------------------------------------------------------------------------
(***************************************************************************)
(* The data transactions of the runs.                                      *)
(***************************************************************************)

\* The rows a deletion pass holds are rows of the table.
LEMMA HeldInserted ==
    ASSUME NEW t, NEW D, rows'[t] \subseteq rows[t] \cup D,
           UNCHANGED dropVars
    PROVE  Held(t)' \subseteq Held(t) \cup D
BY DEF Held, Expired, dropVars

\* New rows are anchors from the inserted range on: the points are below it,
\* or there is a block floor and the deletion loop is not running.
LEMMA InsertKeeps ==
    ASSUME IInv, NEW lo \in Block, NEW hi \in Block, Insert(lo, hi), Indexes(lo, hi),
           UNCHANGED <<states, startIndex>>,
           RunPoints' = RunPoints,
           pc' \in PlannedPc => pc' \in HistoryPc /\ startIndex \in RunPoints,
           \A y \in RunPoints : y <= lo \/ (First.exists /\ dpc = "off")
    PROVE  /\ rows' \in [Table -> SUBSET Block]
           /\ \A t \in Table : rows'[t] \subseteq Content(t)
           /\ stored' = stored \cup (lo .. hi)
           /\ Whole' /\ BlocksFilled' /\ LogsFilled'
<1>1. /\ TypeOK /\ RowTimes /\ MissingRows /\ Whole /\ EngineTyped
      /\ horizon' = horizon /\ dpc' = dpc
      /\ First' = First /\ LogsFrom' = LogsFrom
      /\ passedBlocks' = passedBlocks \ (lo .. hi)
      /\ passedLogs' = passedLogs \ (lo .. hi)
      /\ UNCHANGED dropVars
  BY Typed DEF IInv, Indexes, dropVars, First, LogsFrom
<1>2. /\ rows' \in [Table -> SUBSET Block]
      /\ \A t \in Table : rows'[t] \subseteq Content(t)
      /\ stored' = stored \cup (lo .. hi)
      /\ lo .. hi \subseteq Block
  BY <1>1, Inserted
<1>3. Whole'
  BY <1>1, WholeInserted
<1>4. /\ horizon \in Int /\ Block \subseteq Int /\ lo \in Int /\ hi \in Int
      /\ RunPoints \subseteq Int /\ BlockAnchors \subseteq Block /\ LogAnchors \subseteq Block
      /\ \A c \in Block : c <= c
  <2>1. horizon \in Nat /\ Block \subseteq Int
    BY <1>1, Numbers
  <2>2. RunPoints \subseteq Int /\ BlockAnchors \subseteq Block /\ LogAnchors \subseteq Block
    BY <1>1, AnchorsTyped
  <2>3. lo \in Int /\ hi \in Int /\ \A c \in Block : c <= c
    BY <2>1
  <2> QED BY <2>1, <2>2, <2>3
<1>5. /\ \A t \in Table : rows'[t] \subseteq rows[t] \cup (lo .. hi)
      /\ "blocks" \in Table /\ "logs" \in Table
      /\ \A t \in Table : rows[t] \subseteq rows'[t]
  BY DEF Insert, Table
<1>6. /\ Held("blocks")' \subseteq Held("blocks") \cup (lo .. hi)
      /\ Held("logs")' \subseteq Held("logs") \cup (lo .. hi)
  BY <1>1, <1>5, HeldInserted
<1>7. /\ BlockAnchors' \subseteq BlockAnchors \cup (lo .. hi)
      /\ LogAnchors' \subseteq LogAnchors \cup (lo .. hi)
  BY <1>1, <1>2, <1>6 DEF BlockAnchors, LogAnchors
<1>8. dpc = "off" => /\ Held("blocks")' = {} /\ Held("logs")' = {}
                     /\ Held("blocks") = {} /\ Held("logs") = {}
  BY <1>1 DEF Held
<1>9. First.exists /\ dpc = "off" => BlockAnchors' = BlockAnchors /\ LogAnchors' = LogAnchors
  BY <1>1, <1>8 DEF BlockAnchors, LogAnchors
<1>10. \A b \in Block : BlockTime(b) >= horizon' =>
              /\ b \in BlocksHere => b \in BlocksHere'
              /\ b \in EventsHere => b \in EventsHere'
  <2> SUFFICES ASSUME NEW b \in Block, BlockTime(b) >= horizon
               PROVE  /\ b \in BlocksHere => b \in BlocksHere'
                      /\ b \in EventsHere => b \in EventsHere'
    BY <1>1
  <2>1. b \in BlocksHere => b \in BlocksHere'
    BY <1>1, <1>2 DEF BlocksHere
  <2>2. ASSUME b \in lo .. hi, b \in EventBlocks
        PROVE  b \in rows'["logs"]
    <3>1. Covered(b)'
      BY <1>1, <1>2, <1>3, <2>2 DEF Whole
    <3>2. "logs" \in Table /\ Content("logs") = LogBlocks /\ EventBlocks \subseteq LogBlocks
      BY FspModeAssumption DEF Table, Content
    <3> QED BY <2>2, <3>1, <3>2 DEF Covered
  <2>3. b \in EventsHere => b \in EventsHere'
    BY <1>1, <1>5, <2>2 DEF EventsHere
  <2> QED BY <2>1, <2>3
<1>11. ASSUME NEW y \in RunPoints
       PROVE  /\ FilledIn(BlocksHere', BlockAnchors', horizon', y)
              /\ FilledIn(EventsHere', LogAnchors', horizon', y)
  <2>1. /\ \A c \in BlockAnchors' : c \in Block /\ (c >= y \/ \E a \in BlockAnchors : a <= c)
        /\ \A c \in LogAnchors' : c \in Block /\ (c >= y \/ \E a \in LogAnchors : a <= c)
    <3>1. CASE y <= lo
      <4>1. \A c \in lo .. hi : c >= y
        BY <1>4, <3>1
      <4>2. \A c \in lo .. hi : c \in Block
        BY <1>2
      <4> QED BY <1>4, <1>7, <4>1, <4>2
    <3>2. CASE First.exists /\ dpc = "off"
      BY <1>4, <1>9, <3>2
    <3> QED BY <3>1, <3>2
  <2>2. y \in Int /\ y <= y /\ horizon' \in Int /\ horizon <= horizon'
    BY <1>1, <1>4
  <2>3. /\ FilledIn(BlocksHere, BlockAnchors, horizon, y)
        /\ FilledIn(EventsHere, LogAnchors, horizon, y)
    BY DEF IInv, BlocksFilled, LogsFilled
  <2> QED BY <1>1, <1>10, <2>1, <2>2, <2>3, StepKeepsFilled
<1>12. BlocksFilled'
  BY <1>11 DEF BlocksFilled
<1>13. LogsFilled'
  <2>1. pc' \in PlannedPc => EventsPending' = EventsHere'
    BY DEF EventsPending, HistoryPc
  <2>2. BlockAnchors' \subseteq LogAnchors'
    BY DEF LogAnchors
  <2>3. pc' \in PlannedPc => FilledIn(EventsHere', BlockAnchors', horizon', startIndex')
    BY <1>11, <2>2 DEF FilledIn
  <2> QED BY <1>11, <2>1, <2>3 DEF LogsFilled
<1> QED BY <1>2, <1>3, <1>12, <1>13

\* A batch of the catch-up.
LEMMA IndexBatchKeeps ==
    ASSUME IInv, IndexBatch
    PROVE  IInv'
<1> DEFINE hi == LastInRound
<1>1. /\ UNCHANGED <<head, states, cursor, ixEnd, startIndex, histLast, synced, faults,
                     dropVars, planVars>>
      /\ pc = "hist" /\ pc' = "hist_states" /\ cursor <= ixEnd
      /\ Insert(cursor, hi) /\ Indexes(cursor, hi)
      /\ passedBlocks' \subseteq passedBlocks /\ passedLogs' \subseteq passedLogs
      /\ First' = First /\ Last' = Last /\ LogsFrom' = LogsFrom
      /\ TypeOK /\ RowTimes /\ MissingRows /\ Ranges /\ RunStored /\ DropInside
  BY DEF IndexBatch, HistoryBatch, Indexes, plan, IInv, First, Last, LogsFrom
<1>2. /\ pc \in HistoryPc \ {"hist_range"} /\ pc' \in HistoryPc \ {"hist_range"}
      /\ pc' \notin ContinuousPc \cup {"caught_up", "backfill", "log_floor"}
      /\ pc \notin ContinuousPc
  BY <1>1 DEF HistoryPc, ContinuousPc
<1>3. /\ cursor \in Nat /\ ixEnd \in Nat /\ head \in Int /\ startIndex \in Nat
      /\ BatchSize \in Nat \ {0} /\ MaxBlock \in Int /\ head <= MaxBlock
      /\ ixEnd <= head /\ startIndex <= cursor
  <2>1. ixEnd <= head /\ startIndex <= cursor
    BY <1>1, <1>2 DEF Ranges
  <2>2. head \in Int /\ MaxBlock \in Int /\ head <= MaxBlock
    BY <1>1, Numbers, EngineAssumption
  <2>3. cursor \in Nat /\ ixEnd \in Nat /\ startIndex \in Nat
    BY <1>1, Numbers
  <2> QED BY <2>1, <2>2, <2>3, EngineAssumption
<1>4. hi \in Int /\ cursor <= hi /\ hi <= ixEnd
  BY <1>1, <1>3 DEF LastInRound, Lesser
<1>5. cursor \in Block /\ hi \in Block
  BY <1>1, <1>3, <1>4 DEF Block
<1>6. hi' = hi
  BY <1>1 DEF LastInRound
<1> HIDE DEF hi
<1>7. RunPoints = (IF Last.exists THEN {Last.index + 1} ELSE {}) \cup {startIndex, cursor}
  <2>1. cursor \in Int /\ ixEnd \in Int
    BY <1>3
  <2>2. Lesser(cursor, ixEnd + 1) = cursor
    BY <1>1, <2>1, BeforeEnd
  <2> QED BY <1>2, <2>2, HistoryPoints
<1>8. RunPoints' = RunPoints
  BY <1>1, <1>2, HistoryPoints, HistoryPointsAfter
<1>9. \A y \in RunPoints : y <= cursor \/ (First.exists /\ dpc = "off")
  <2>1. Last.exists => First.exists /\ dpc = "off"
    BY <1>1, <1>2 DEF RowTimes, DropInside
  <2>2. cursor <= cursor
    BY <1>3
  <2> QED BY <1>3, <1>7, <2>1, <2>2
<1>10. startIndex \in RunPoints
  BY <1>7
<1>11. /\ rows' \in [Table -> SUBSET Block]
       /\ \A t \in Table : rows'[t] \subseteq Content(t)
       /\ stored' = stored \cup (cursor .. hi)
       /\ Whole' /\ BlocksFilled' /\ LogsFilled'
  BY <1>1, <1>2, <1>5, <1>8, <1>9, <1>10, InsertKeeps
<1>12. TypeOK'
  BY <1>1, <1>11 DEF TypeOK, dropVars, planVars, EnginePc, HistoryPc
<1>13. MissingRows' /\ RowTimes'
  BY <1>1 DEF MissingRows, RowTimes
<1>14. Ranges' /\ Backfilling'
  BY <1>1, <1>2, <1>3 DEF Ranges, Backfilling
<1>15. DropInside'
  BY <1>1, <1>2 DEF DropInside, dropVars
<1>16. RunStored'
  <2>1. \A b \in Block : startIndex <= b /\ b < cursor /\ b <= ixEnd => b \in stored
    BY <1>1, <1>2 DEF RunStored
  <2> QED BY <1>1, <1>2, <1>6, <1>11, <2>1 DEF RunStored, hi
<1>17. EventsPlanned'
  BY <1>1, <1>2 DEF IInv, EventsPlanned, planVars
<1> QED BY <1>11, <1>12, <1>13, <1>14, <1>15, <1>16, <1>17 DEF IInv

\* A block of the continuous run.
LEMMA IndexBlockKeeps ==
    ASSUME IInv, IndexBlock
    PROVE  IInv'
<1>1. /\ UNCHANGED <<head, states, cursor, ixEnd, startIndex, histLast, synced, faults,
                     dropVars, planVars>>
      /\ pc = "cont" /\ pc' = "cont_states" /\ cursor <= ixEnd
      /\ Insert(cursor, cursor) /\ Indexes(cursor, cursor)
      /\ passedBlocks' \subseteq passedBlocks /\ passedLogs' \subseteq passedLogs
      /\ First' = First /\ Last' = Last /\ LogsFrom' = LogsFrom
      /\ TypeOK /\ RowTimes /\ MissingRows /\ Ranges /\ RunStored /\ DropInside
  BY DEF IndexBlock, ContinuousBlock, Indexes, plan, IInv, First, Last, LogsFrom
<1>2. /\ pc \in ContinuousPc \ {"cont_start"} /\ pc' \in ContinuousPc \ {"cont_start"}
      /\ pc' \notin PlannedPc /\ pc' \notin HistoryPc
  BY <1>1 DEF HistoryPc, ContinuousPc, PlannedPc
<1>3. /\ cursor \in Nat /\ ixEnd \in Nat /\ head \in Int /\ histLast \in Nat
      /\ MaxBlock \in Int /\ head <= MaxBlock /\ Last.index \in Nat
      /\ ixEnd <= head /\ histLast < cursor /\ (Last.exists => Last.index < cursor)
  <2>1. ixEnd <= head
    BY <1>1 DEF Ranges
  <2>2. histLast < cursor /\ (Last.exists => Last.index < cursor)
    BY <1>1, <1>2 DEF RunStored
  <2>3. head \in Int /\ MaxBlock \in Int /\ head <= MaxBlock
    BY <1>1, Numbers, EngineAssumption
  <2>4. cursor \in Nat /\ ixEnd \in Nat /\ histLast \in Nat /\ Last.index \in Nat
    BY <1>1, Numbers
  <2> QED BY <2>1, <2>2, <2>3, <2>4
<1>4. cursor \in Block
  BY <1>1, <1>3 DEF Block
<1>5. RunPoints = (IF Last.exists THEN {Last.index + 1} ELSE {}) \cup {histLast + 1, cursor}
  BY <1>2, ContinuousPoints
<1>6. RunPoints' = RunPoints
  BY <1>1, <1>2, <1>5, ContinuousPointsAfter
<1>7. \A y \in RunPoints : y <= cursor \/ (First.exists /\ dpc = "off")
  <2>1. cursor <= cursor /\ histLast + 1 <= cursor /\ (Last.exists => Last.index + 1 <= cursor)
    BY <1>3
  <2> QED BY <1>5, <2>1
<1>8. /\ rows' \in [Table -> SUBSET Block]
      /\ \A t \in Table : rows'[t] \subseteq Content(t)
      /\ stored' = stored \cup (cursor .. cursor)
      /\ Whole' /\ BlocksFilled' /\ LogsFilled'
  BY <1>1, <1>2, <1>4, <1>6, <1>7, InsertKeeps
<1>9. TypeOK'
  BY <1>1, <1>8 DEF TypeOK, dropVars, planVars, EnginePc, ContinuousPc
<1>10. MissingRows' /\ RowTimes'
  BY <1>1 DEF MissingRows, RowTimes
<1>11. Ranges' /\ Backfilling'
  BY <1>1, <1>2, <1>3 DEF Ranges, Backfilling
<1>12. DropInside'
  BY <1>1, <1>2 DEF DropInside, dropVars
<1>13. RunStored'
  <2>1. cursor \in stored'
    BY <1>3, <1>8
  <2> QED BY <1>1, <1>2, <1>3, <2>1 DEF RunStored
<1>14. EventsPlanned'
  BY <1>2 DEF EventsPlanned, HistoryPc, ContinuousPc
<1> QED BY <1>8, <1>9, <1>10, <1>11, <1>12, <1>13, <1>14 DEF IInv

-----------------------------------------------------------------------------
(***************************************************************************)
(* The plan and its backfill.                                              *)
(***************************************************************************)

\* Before a run, the points end at the top, and nothing is held.
LEMMA StartupPoints ==
    ASSUME pc \notin HistoryPc \cup ContinuousPc \cup {"caught_up"}
    PROVE  RunPoints = (IF Last.exists THEN {Last.index + 1} ELSE {})
BY DEF RunPoints

LEMMA StartupAnchors ==
    ASSUME dpc = "off"
    PROVE  /\ Held("blocks") = {} /\ Held("logs") = {}
           /\ BlockAnchors = (IF First.exists THEN {First.index} ELSE stored)
           /\ LogAnchors = BlockAnchors \cup
                 (IF LogsFrom.exists THEN {LogsFrom.index} ELSE Block)
<1>1. Held("blocks") = {} /\ Held("logs") = {}
  BY DEF Held
<1> QED BY <1>1 DEF BlockAnchors, LogAnchors

\* The points after a plan, and after a backfill.
LEMMA PlannedPoints ==
    ASSUME pc' \in {"hist_range", "caught_up"}
    PROVE  RunPoints' = (IF Last'.exists THEN {Last'.index + 1} ELSE {}) \cup {startIndex'}
<1>1. /\ pc' \in HistoryPc \cup {"caught_up"} /\ pc' \notin HistoryPc \ {"hist_range"}
      /\ pc' \notin ContinuousPc
  BY DEF HistoryPc, ContinuousPc
<1> QED BY <1>1 DEF RunPoints

\* Below a plan's start, what is not filled is passed over.
LEMMA PassedOverRest ==
    ASSUME IInv, pc = "plan_states", NEW from, from \in Int,
           NEW b \in Block, b < from, b \notin PassedOver(from), BlockTime(b) >= horizon,
           NEW a \in BlockAnchors, a <= b
    PROVE  b \in BlocksHere /\ b \in EventsHere
<1>1. /\ TypeOK /\ RowTimes /\ dpc = "off"
      /\ pc \notin HistoryPc \cup ContinuousPc \cup {"caught_up"}
  BY DEF IInv, DropInside, HistoryPc, ContinuousPc
<1>2. a \in stored \cup (IF First.exists THEN {First.index} ELSE {})
  BY <1>1, StartupAnchors
<1>3. Last.exists /\ ~(Last.index < b)
  BY <1>2 DEF PassedOver, First, Last
<1>4. b \in Int /\ Last.index \in Int
  BY <1>1, Numbers
<1>5. b < Last.index + 1 /\ Last.index + 1 \in RunPoints
  BY <1>1, <1>3, <1>4, StartupPoints
<1>6. BlockAnchors \subseteq LogAnchors
  BY DEF LogAnchors
<1> QED BY <1>5, <1>6 DEF IInv, BlocksFilled, LogsFilled, FilledIn

\* The facts that either kind of plan starts from.
LEMMA PlanFacts ==
    ASSUME IInv, PlanStates
    PROVE  /\ UNCHANGED <<head, rows, states, histLast, synced, faults, dropVars, planVars>>
           /\ First' = First /\ Last' = Last /\ LogsFrom' = LogsFrom
           /\ stored' = stored
           /\ pc = "plan_states" /\ dpc = "off"
           /\ TypeOK /\ RowTimes /\ MissingRows
           /\ startIndex' \in Nat /\ fullStart <= startIndex'
           /\ startIndex' = fullStart \/ (First.exists /\ First.index <= fullStart)
           /\ passedBlocks' = passedBlocks \cup PassedOver(startIndex')
           /\ BlockAnchors' = BlockAnchors /\ LogAnchors' = LogAnchors
           /\ Whole' /\ MissingRows' /\ RowTimes' /\ DropInside'
           /\ BlocksHere \subseteq BlocksHere'
           /\ FilledIn(BlocksHere', BlockAnchors', horizon', startIndex')
           /\ horizon' = horizon
<1>1. /\ UNCHANGED <<head, rows, states, histLast, synced, faults, dropVars, planVars>>
      /\ First' = First /\ Last' = Last /\ LogsFrom' = LogsFrom /\ stored' = stored
      /\ horizon' = horizon /\ dpc' = dpc
      /\ pc = "plan_states" /\ dpc = "off" /\ pc \notin ContinuousPc
      /\ TypeOK /\ RowTimes /\ MissingRows
      /\ passedBlocks' = passedBlocks \cup PassedOver(startIndex')
      /\ startIndex' = IF Resumes THEN Last.index + 1 ELSE fullStart
  BY DEF PlanStates, IInv, First, Last, LogsFrom, stored, dropVars, DropInside, ContinuousPc
<1>2. fullStart \in Nat /\ Last.index \in Nat /\ First.index \in Nat
  BY <1>1, Numbers, EngineAssumption DEF Block
<1>3. Resumes => First.exists /\ First.index <= fullStart /\ fullStart <= Last.index
  <2>1. First.index # 0 => First.exists
    BY <1>1 DEF MissingRows, First, NoRow, StateName
  <2> QED BY <2>1 DEF Resumes, IsSet, First, Last
<1>4. /\ startIndex' \in Nat /\ fullStart <= startIndex'
      /\ startIndex' = fullStart \/ (First.exists /\ First.index <= fullStart)
  BY <1>1, <1>2, <1>3
<1>5. BlockAnchors' = BlockAnchors /\ LogAnchors' = LogAnchors
  <2>1. Held("blocks")' = Held("blocks") /\ Held("logs")' = Held("logs")
    BY <1>1 DEF Held, Expired, dropVars
  <2> QED BY <1>1, <2>1 DEF BlockAnchors, LogAnchors
<1>6. Whole' /\ MissingRows' /\ RowTimes'
  BY <1>1 DEF IInv, Whole, Covered, MissingRows, RowTimes
<1>7. DropInside'
  BY <1>1 DEF IInv, DropInside, dropVars
<1>8. BlocksHere \subseteq BlocksHere' /\ PassedOver(startIndex') \subseteq BlocksHere'
  BY <1>1 DEF BlocksHere
<1>9. FilledIn(BlocksHere', BlockAnchors', horizon', startIndex')
  <2> SUFFICES ASSUME NEW b \in Block, b < startIndex', BlockTime(b) >= horizon,
                      NEW a \in BlockAnchors, a <= b
               PROVE  b \in BlocksHere'
    BY <1>1, <1>5 DEF FilledIn
  <2>1. startIndex' \in Int
    BY <1>4
  <2>2. b \notin PassedOver(startIndex') => b \in BlocksHere
    BY <1>1, <2>1, PassedOverRest
  <2> QED BY <1>8, <2>2
<1> QED BY <1>1, <1>4, <1>5, <1>6, <1>7, <1>8, <1>9

\* A plan with a backfill.
LEMMA PlanBackfillKeeps ==
    ASSUME IInv, PlanStates, BackfillsEvents
    PROVE  IInv'
<1>1. /\ UNCHANGED <<head, rows, states, histLast, synced, faults, dropVars, planVars>>
      /\ First' = First /\ Last' = Last /\ LogsFrom' = LogsFrom /\ stored' = stored
      /\ pc = "plan_states" /\ dpc = "off" /\ horizon' = horizon
      /\ TypeOK /\ RowTimes
      /\ startIndex' \in Nat /\ fullStart <= startIndex'
      /\ startIndex' = fullStart \/ (First.exists /\ First.index <= fullStart)
      /\ passedBlocks' = passedBlocks \cup PassedOver(startIndex')
      /\ BlockAnchors' = BlockAnchors /\ LogAnchors' = LogAnchors
      /\ Whole' /\ MissingRows' /\ RowTimes' /\ DropInside'
      /\ BlocksHere \subseteq BlocksHere'
      /\ FilledIn(BlocksHere', BlockAnchors', horizon', startIndex')
  BY PlanFacts
<1>2. /\ cursor' = eventStart /\ ixEnd' = fullStart - 1 /\ pc' = "backfill"
      /\ passedLogs' = passedLogs \cup
            (PassedOver(startIndex') \ (eventStart .. fullStart - 1))
      /\ eventStart < fullStart
  BY DEF PlanStates, BackfillsEvents
<1>3. /\ fullStart \in Nat /\ eventStart \in Nat
  BY <1>1, Numbers, EngineAssumption DEF Block
<1>4. cursor' \in Nat /\ ixEnd' \in Nat
  BY <1>2, <1>3
<1>5. passedBlocks' \subseteq Block /\ passedLogs' \subseteq Block
  BY <1>1, <1>2 DEF TypeOK, PassedOver
<1>6. TypeOK'
  BY <1>1, <1>2, <1>4, <1>5 DEF TypeOK, dropVars, planVars, StartupPc
<1>7. /\ pc' \notin HistoryPc \cup ContinuousPc \cup {"caught_up"}
      /\ pc \notin HistoryPc \cup ContinuousPc \cup {"caught_up"}
  BY <1>1, <1>2 DEF HistoryPc, ContinuousPc
<1>8. RunPoints' = RunPoints
  BY <1>1, <1>7 DEF RunPoints
<1>9. EventsHere \subseteq EventsHere'
  BY <1>1, <1>2 DEF EventsHere
<1>10. BlocksFilled'
  <2>1. \A x \in RunPoints' : FilledIn(BlocksHere', BlockAnchors', horizon', x)
    BY <1>1, <1>8 DEF IInv, BlocksFilled, FilledIn
  <2> QED BY <1>1, <2>1 DEF BlocksFilled
<1>11. LogsFilled'
  <2>1. \A x \in RunPoints' : FilledIn(EventsHere', LogAnchors', horizon', x)
    BY <1>1, <1>8, <1>9 DEF IInv, LogsFilled, FilledIn
  <2>2. EventsPending' = EventsHere' \cup (eventStart .. fullStart - 1)
    BY <1>1, <1>2 DEF EventsPending, planVars
  <2>3. FilledIn(EventsPending', BlockAnchors', horizon', startIndex')
    <3> SUFFICES ASSUME NEW b \in Block, b < startIndex', BlockTime(b) >= horizon,
                        NEW a \in BlockAnchors, a <= b
                 PROVE  b \in EventsPending'
      BY <1>1 DEF FilledIn
    <3>1. startIndex' \in Int
      BY <1>1
    <3>2. b \notin PassedOver(startIndex') => b \in EventsHere
      BY <1>1, <3>1, PassedOverRest
    <3>3. b \in PassedOver(startIndex') => b \in EventsPending'
      BY <1>2, <2>2 DEF EventsHere
    <3> QED BY <1>9, <2>2, <3>2, <3>3
  <2> QED BY <2>1, <2>3 DEF LogsFilled
<1>12. Ranges' /\ RunStored' /\ EventsPlanned'
  BY <1>2, <1>7 DEF Ranges, RunStored, EventsPlanned, HistoryPc, ContinuousPc
<1>13. Backfilling'
  <2>1. eventStart <= eventStart /\ \A b \in EventBlocks : ~(eventStart <= b /\ b < eventStart)
    <3>1. EventBlocks \subseteq Int
      BY FspModeAssumption, EngineAssumption DEF Block
    <3> QED BY <1>3, <3>1
  <2>2. /\ eventStart' = eventStart /\ fullStart' = fullStart
    BY <1>1 DEF planVars
  <2> QED BY <1>1, <1>2, <1>3, <2>1, <2>2 DEF Backfilling
<1> QED BY <1>1, <1>6, <1>10, <1>11, <1>12, <1>13 DEF IInv

\* A plan without one.
LEMMA PlanDirectKeeps ==
    ASSUME IInv, PlanStates, ~BackfillsEvents
    PROVE  IInv'
<1>1. /\ UNCHANGED <<head, rows, states, histLast, synced, faults, dropVars, planVars>>
      /\ First' = First /\ Last' = Last /\ LogsFrom' = LogsFrom /\ stored' = stored
      /\ pc = "plan_states" /\ dpc = "off" /\ horizon' = horizon
      /\ TypeOK /\ RowTimes /\ MissingRows
      /\ startIndex' \in Nat /\ fullStart <= startIndex'
      /\ startIndex' = fullStart \/ (First.exists /\ First.index <= fullStart)
      /\ passedBlocks' = passedBlocks \cup PassedOver(startIndex')
      /\ BlockAnchors' = BlockAnchors /\ LogAnchors' = LogAnchors
      /\ Whole' /\ MissingRows' /\ RowTimes' /\ DropInside'
      /\ BlocksHere \subseteq BlocksHere'
      /\ FilledIn(BlocksHere', BlockAnchors', horizon', startIndex')
  BY PlanFacts
<1>2. /\ cursor' = 0 /\ ixEnd' = 0
      /\ pc' = IF startIndex' <= planTip THEN "hist_range" ELSE "caught_up"
      /\ passedLogs' = passedLogs \cup
            {b \in Block : b < startIndex' /\ ~Claimed(b) /\ ~LogClaimed(b)}
  BY DEF PlanStates, AfterBackfill
<1>3. /\ fullStart \in Nat /\ eventStart \in Nat /\ planTip \in Int
      /\ First.index \in Nat /\ LogsFrom.index \in Nat /\ Last.index \in Nat
  BY <1>1, Numbers, EngineAssumption DEF Block
<1>4. pc' \in {"hist_range", "caught_up"} /\ (pc' = "caught_up" => planTip < startIndex')
  BY <1>1, <1>2, <1>3
<1>5. passedBlocks' \subseteq Block /\ passedLogs' \subseteq Block
  BY <1>1, <1>2 DEF TypeOK, PassedOver
<1>6. TypeOK'
  BY <1>1, <1>2, <1>4, <1>5 DEF TypeOK, dropVars, planVars, StartupPc, EnginePc, HistoryPc
<1>7. pc \notin HistoryPc \cup ContinuousPc \cup {"caught_up"}
  BY <1>1 DEF HistoryPc, ContinuousPc
<1>8. /\ RunPoints' = RunPoints \cup {startIndex'}
      /\ Last.exists => Last.index + 1 \in RunPoints
  BY <1>1, <1>4, <1>7, StartupPoints, PlannedPoints
<1>9. EventsHere \subseteq EventsHere'
  BY <1>1, <1>2 DEF EventsHere
<1>10. BlocksFilled'
  <2>1. \A x \in RunPoints : FilledIn(BlocksHere', BlockAnchors', horizon', x)
    BY <1>1 DEF IInv, BlocksFilled, FilledIn
  <2> QED BY <1>1, <1>8, <2>1 DEF BlocksFilled
<1>11. FilledIn(EventsHere', LogAnchors', horizon', startIndex')
  <2> SUFFICES ASSUME NEW b \in Block, b < startIndex', BlockTime(b) >= horizon
               PROVE  b \in EventsHere'
    BY <1>1 DEF FilledIn
  <2>1. CASE ~Claimed(b) /\ ~LogClaimed(b)
    BY <1>2, <2>1 DEF EventsHere
  <2>2. CASE Claimed(b) \/ LogClaimed(b)
    <3>1. Last.exists /\ b <= Last.index
      BY <2>2 DEF Claimed, LogClaimed, Last
    <3>2. \E a \in LogAnchors : a <= b
      BY <2>2 DEF Claimed, LogClaimed, First, LogsFrom, LogAnchors, BlockAnchors
    <3>3. b \in Int
      BY <1>1, Numbers
    <3>4. b < Last.index + 1
      BY <1>3, <3>1, <3>3
    <3>5. FilledIn(EventsHere, LogAnchors, horizon, Last.index + 1)
      BY <1>8, <3>1 DEF IInv, LogsFilled
    <3> QED BY <1>9, <3>2, <3>4, <3>5 DEF FilledIn
  <2> QED BY <2>1, <2>2
<1>12. LogsFilled'
  <2>1. \A x \in RunPoints : FilledIn(EventsHere', LogAnchors', horizon', x)
    BY <1>1, <1>9 DEF IInv, LogsFilled, FilledIn
  <2>2. EventsPending' = EventsHere'
    BY <1>4 DEF EventsPending
  <2>3. BlockAnchors' \subseteq LogAnchors'
    BY DEF LogAnchors
  <2>4. FilledIn(EventsPending', BlockAnchors', horizon', startIndex')
    BY <1>11, <2>2, <2>3 DEF FilledIn
  <2> QED BY <1>8, <1>11, <2>1, <2>4 DEF LogsFilled
<1>13. Ranges' /\ RunStored' /\ Backfilling'
  <2>1. planTip' = planTip
    BY <1>1 DEF planVars
  <2> QED BY <1>4, <2>1 DEF Ranges, RunStored, Backfilling, HistoryPc, ContinuousPc
<1>14. EventsPlanned'
  <2> SUFFICES ASSUME anchored
               PROVE  \/ LogsFrom.exists /\ LogsFrom.index <= eventStart
                      \/ First.exists /\ First.index <= eventStart
                      \/ startIndex' <= eventStart
    BY <1>1 DEF EventsPlanned, planVars
  <2>1. \/ ~(eventStart < fullStart)
        \/ LogsFrom.index # 0 /\ ~(LogsFrom.index > eventStart)
    BY DEF BackfillsEvents, IsSet, LogsFrom
  <2>2. LogsFrom.index # 0 => LogsFrom.exists
    BY <1>1 DEF MissingRows, LogsFrom, NoRow, StateName
  <2> QED BY <1>1, <1>3, <2>1, <2>2
<1> QED BY <1>1, <1>6, <1>10, <1>12, <1>13, <1>14 DEF IInv

\* A chunk of the backfill: the logs it requests are in.
LEMMA BackfillChunkKeeps ==
    ASSUME IInv, BackfillChunk
    PROVE  IInv'
<1>1. /\ UNCHANGED <<head, states, ixEnd, startIndex, histLast, synced, faults, dropVars,
                     planVars, passedVars>>
      /\ First' = First /\ Last' = Last /\ LogsFrom' = LogsFrom
      /\ pc = "backfill" /\ horizon' = horizon
      /\ rows' = [rows EXCEPT !["logs"] = @ \cup (EventBlocks \cap (cursor .. ChunkEnd))]
      /\ cursor' = cursor + LogRange
      /\ pc' = IF cursor' <= ixEnd THEN "backfill" ELSE "log_floor"
      /\ TypeOK /\ RowTimes /\ MissingRows /\ Backfilling /\ DropInside /\ Whole
  BY DEF BackfillChunk, IInv, First, Last, LogsFrom, dropVars, plan
<1>2. /\ cursor \in Nat /\ ixEnd \in Nat /\ LogRange \in Nat \ {0}
      /\ eventStart \in Int /\ fullStart \in Int
      /\ EventBlocks \subseteq LogBlocks /\ EventBlocks \subseteq Block
  <2>1. cursor \in Nat /\ ixEnd \in Nat
    BY <1>1, Numbers
  <2>2. eventStart \in Int /\ fullStart \in Int
    BY <1>1, Numbers, Zenon
  <2> QED BY <2>1, <2>2, FspModeAssumption, EngineAssumption
<1>3. cursor' \in Nat
  BY <1>1, <1>2
<1>4. /\ pc' \in {"backfill", "log_floor"} /\ (pc' = "log_floor" => ixEnd < cursor')
      /\ pc \notin HistoryPc \cup ContinuousPc \cup {"caught_up"}
      /\ pc' \notin HistoryPc \cup ContinuousPc \cup {"caught_up"}
  BY <1>1, <1>2, <1>3 DEF HistoryPc, ContinuousPc
<1>5. /\ rows' \in [Table -> SUBSET Block]
      /\ \A t \in Table : rows'[t] \subseteq Content(t)
      /\ rows'["logs"] = rows["logs"] \cup (EventBlocks \cap (cursor .. ChunkEnd))
      /\ \A t \in Table \ {"logs"} : rows'[t] = rows[t]
  <2>1. rows \in [Table -> SUBSET Block] /\ "logs" \in Table /\ Content("logs") = LogBlocks
    BY <1>1 DEF TypeOK, Table, Content
  <2> QED BY <1>1, <1>2, <2>1 DEF TypeOK
<1>6. /\ stored' = stored /\ rows'["transactions"] = rows["transactions"]
      /\ \A t \in Table : rows[t] \subseteq rows'[t]
  BY <1>5 DEF stored, Table
<1>7. dpc = "off" /\ dpc' = "off"
  BY <1>1, <1>4 DEF DropInside, dropVars
<1>8. BlockAnchors' = BlockAnchors /\ LogAnchors' = LogAnchors
  <2>1. Held("blocks")' = {} /\ Held("logs")' = {} /\ Held("blocks") = {} /\ Held("logs") = {}
    BY <1>7 DEF Held
  <2> QED BY <1>1, <1>6, <2>1 DEF BlockAnchors, LogAnchors
<1>9. RunPoints' = RunPoints
  BY <1>1, <1>4 DEF RunPoints
<1>10. /\ BlocksHere' = BlocksHere /\ EventsHere \subseteq EventsHere'
       /\ EventsPending \subseteq EventsPending'
  <2>1. BlocksHere' = BlocksHere /\ EventsHere \subseteq EventsHere'
    BY <1>1, <1>5, <1>6 DEF BlocksHere, EventsHere, passedVars
  <2> QED BY <1>1, <1>4, <2>1 DEF EventsPending, planVars
<1>11. BlocksFilled' /\ LogsFilled'
  <2>1. pc \in PlannedPc
    BY <1>1 DEF PlannedPc
  <2>2. BlocksFilled'
    BY <1>1, <1>8, <1>9, <1>10, <2>1 DEF IInv, BlocksFilled
  <2>3. \A x \in RunPoints' : FilledIn(EventsHere', LogAnchors', horizon', x)
    BY <1>1, <1>8, <1>9, <1>10 DEF IInv, LogsFilled, FilledIn
  <2>4. FilledIn(EventsPending', BlockAnchors', horizon', startIndex')
    BY <1>1, <1>8, <1>10, <2>1 DEF IInv, LogsFilled, FilledIn
  <2> QED BY <2>2, <2>3, <2>4 DEF LogsFilled
<1>12. Whole'
  BY <1>1, <1>6 DEF Whole, Covered, Table
<1>13. TypeOK'
  BY <1>1, <1>3, <1>4, <1>5 DEF TypeOK, dropVars, planVars, passedVars, StartupPc
<1>14. MissingRows' /\ RowTimes'
  BY <1>1 DEF MissingRows, RowTimes
<1>15. DropInside'
  BY <1>1, <1>7 DEF DropInside, dropVars
<1>16. Ranges' /\ RunStored' /\ EventsPlanned'
  BY <1>4 DEF Ranges, RunStored, EventsPlanned, HistoryPc, ContinuousPc
<1>17. Backfilling'
  <2>1. eventStart <= cursor /\ eventStart <= cursor'
    BY <1>1, <1>2 DEF Backfilling
  <2>2. ASSUME NEW b \in EventBlocks, eventStart <= b, b < cursor', b <= ixEnd
        PROVE  b \in rows'["logs"]
    <3>1. b \in Int
      BY <1>2, EngineAssumption DEF Block
    <3>2. CASE b < cursor
      BY <1>1, <1>5, <2>2, <3>2 DEF Backfilling
    <3>3. CASE cursor <= b
      <4>1. ChunkEnd \in Int /\ b <= ChunkEnd
        BY <1>1, <1>2, <2>2, <3>1 DEF ChunkEnd, Lesser
      <4>2. b \in cursor .. ChunkEnd
        BY <1>2, <3>1, <3>3, <4>1
      <4> QED BY <1>5, <4>2
    <3> QED BY <1>2, <3>1, <3>2, <3>3
  <2>3. eventStart' = eventStart /\ fullStart' = fullStart
    BY <1>1 DEF planVars
  <2> QED BY <1>1, <1>4, <2>1, <2>2, <2>3 DEF Backfilling
<1> QED BY <1>11, <1>12, <1>13, <1>14, <1>15, <1>16, <1>17 DEF IInv

\* The log floor comes to claim what the backfill has brought, what the blocks
\* above it bring along, and what the plan leaves to the catch-up.
LEMMA WriteLogFloorKeeps ==
    ASSUME IInv, WriteLogFloor
    PROVE  IInv'
<1> DEFINE requested == eventStart .. fullStart - 1
<1>1. /\ UNCHANGED <<head, rows, cursor, ixEnd, startIndex, histLast, synced, faults,
                     dropVars, planVars, passedBlocks>>
      /\ stored' = stored /\ horizon' = horizon
      /\ pc = "log_floor"
      /\ states' = UpdateState(states, "LogFloor", eventStart, BlockTime(eventStart))
      /\ passedLogs' = (passedLogs \cup TakenIn(eventStart)) \ requested
      /\ pc' = IF startIndex <= planTip THEN "hist_range" ELSE "caught_up"
      /\ TypeOK /\ RowTimes /\ MissingRows /\ Backfilling /\ DropInside /\ Whole
  BY DEF WriteLogFloor, AfterBackfill, IInv, dropVars, plan, stored
<1>2. /\ eventStart \in Block /\ eventStart \in Nat /\ BlockTime(eventStart) \in Nat
      /\ fullStart \in Int /\ startIndex \in Nat /\ planTip \in Int
      /\ ixEnd \in Int /\ cursor \in Int /\ Block \subseteq Int
      /\ Last.index \in Nat /\ First.index \in Nat /\ LogsFrom.index \in Nat
  <2>1. /\ eventStart \in Block /\ fullStart \in Block /\ planTip \in Block
        /\ Block \subseteq Int /\ \A b \in Block : BlockTime(b) \in Nat /\ b >= 0
    BY <1>1, Numbers
  <2>2. /\ ixEnd \in Nat /\ cursor \in Nat /\ startIndex \in Nat
        /\ Last.index \in Nat /\ First.index \in Nat /\ LogsFrom.index \in Nat
    BY <1>1, Numbers
  <2> QED BY <2>1, <2>2
<1>3. /\ pc' \in {"hist_range", "caught_up"} /\ (pc' = "caught_up" => planTip < startIndex)
      /\ pc \notin HistoryPc \cup ContinuousPc \cup {"caught_up"}
  BY <1>1, <1>2 DEF HistoryPc, ContinuousPc
<1>4. /\ states' \in [StateName -> RowType]
      /\ states'["LogFloor"] = Row(eventStart, BlockTime(eventStart))
      /\ \A k \in StateName \ {"LogFloor"} : states'[k] = states[k]
  <2>1. states \in [StateName -> RowType] /\ "LogFloor" \in StateName
    BY <1>1 DEF TypeOK, StateName
  <2> QED BY <1>1, <1>2, <2>1, UpdateRows
<1>5. /\ Row(eventStart, BlockTime(eventStart)).exists
      /\ Row(eventStart, BlockTime(eventStart)).index = eventStart
      /\ Row(eventStart, BlockTime(eventStart)).time = BlockTime(eventStart)
  BY DEF Row
<1>6. /\ First' = First /\ Last' = Last
      /\ LogsFrom'.exists /\ LogsFrom'.index = eventStart
  BY <1>4, <1>5 DEF First, Last, LogsFrom, StateName
<1>7. MissingRows' /\ RowTimes'
  BY <1>1, <1>2, <1>4, <1>5, <1>6 DEF MissingRows, RowTimes
<1>8. dpc = "off" /\ dpc' = "off"
  BY <1>1, <1>3 DEF DropInside, dropVars
<1>9. /\ BlockAnchors' = BlockAnchors /\ LogAnchors' = BlockAnchors \cup {eventStart}
      /\ BlockAnchors \subseteq LogAnchors
  <2>1. Held("blocks")' = {} /\ Held("logs")' = {} /\ Held("blocks") = {} /\ Held("logs") = {}
    BY <1>8 DEF Held
  <2> QED BY <1>1, <1>6, <2>1 DEF BlockAnchors, LogAnchors
<1>10. /\ Last.exists => Last.index + 1 \in RunPoints
       /\ RunPoints' = (IF Last.exists THEN {Last.index + 1} ELSE {}) \cup {startIndex}
  BY <1>1, <1>3, <1>6, StartupPoints, PlannedPoints
<1>11. ASSUME NEW b \in Block, b \in requested
       PROVE  b \in EventsHere'
  <2>1. b \in EventBlocks => b \in rows["logs"]
    <3>1. eventStart <= b /\ b <= fullStart - 1
      BY <1>11
    <3>2. b < cursor /\ b <= ixEnd
      BY <1>1, <1>2, <3>1 DEF Backfilling
    <3> QED BY <1>1, <3>1, <3>2 DEF Backfilling
  <2> QED BY <1>1, <2>1 DEF EventsHere
<1> HIDE DEF requested
<1>12. ASSUME NEW b \in EventsHere, b \in Block
       PROVE  b \in EventsHere'
  <2>1. CASE b \in requested
    BY <1>11, <1>12, <2>1
  <2>2. CASE b \notin requested
    BY <1>1, <1>12, <2>2 DEF EventsHere
  <2> QED BY <2>1, <2>2
<1>13. ASSUME NEW b \in EventsPending, b \in Block
       PROVE  b \in EventsHere'
  <2>1. b \in EventsHere \/ b \in requested
    BY <1>1 DEF EventsPending, requested
  <2> QED BY <1>11, <1>12, <1>13, <2>1
<1>14. /\ FilledIn(EventsPending, BlockAnchors, horizon, startIndex)
       /\ FilledIn(BlocksHere, BlockAnchors, horizon, startIndex)
       /\ \A x \in RunPoints : FilledIn(EventsHere, LogAnchors, horizon, x)
       /\ \A x \in RunPoints : FilledIn(BlocksHere, BlockAnchors, horizon, x)
  BY <1>1 DEF IInv, BlocksFilled, LogsFilled, PlannedPc
<1>15. ASSUME Last.exists
       PROVE  FilledIn(EventsHere', LogAnchors', horizon', Last.index + 1)
  <2> SUFFICES ASSUME NEW b \in Block, b < Last.index + 1, BlockTime(b) >= horizon,
                      NEW a \in LogAnchors', a <= b
               PROVE  b \in EventsHere'
    BY <1>1 DEF FilledIn
  <2>1. FilledIn(EventsHere, LogAnchors, horizon, Last.index + 1)
    BY <1>10, <1>14, <1>15
  <2>2. CASE \E c \in LogAnchors : c <= b
    BY <1>12, <2>1, <2>2 DEF FilledIn
  <2>3. CASE ~ \E c \in LogAnchors : c <= b
    <3>1. a = eventStart
      BY <1>9, <2>3
    <3>2. ~Claimed(b) /\ ~LogClaimed(b)
      BY <2>3 DEF Claimed, LogClaimed, LogAnchors, BlockAnchors, First, LogsFrom
    <3>3. b <= Last.index
      BY <1>2
    <3>4. b \in TakenIn(eventStart)
      BY <1>15, <3>1, <3>2, <3>3 DEF TakenIn, Last
    <3>5. b \in requested \/ b \in passedLogs'
      BY <1>1, <3>4
    <3> QED BY <1>11, <3>5 DEF EventsHere
  <2> QED BY <2>2, <2>3
<1>16. FilledIn(EventsHere', LogAnchors', horizon', startIndex)
  <2> SUFFICES ASSUME NEW b \in Block, b < startIndex, BlockTime(b) >= horizon,
                      NEW a \in LogAnchors', a <= b
               PROVE  b \in EventsHere'
    BY <1>1 DEF FilledIn
  <2>1. CASE \E c \in BlockAnchors : c <= b
    BY <1>13, <1>14, <2>1 DEF FilledIn
  <2>2. CASE ~ \E c \in BlockAnchors : c <= b
    <3>1. eventStart <= b
      BY <1>9, <2>2
    <3>2. CASE b <= fullStart - 1
      <4>1. b \in requested
        BY <1>2, <3>1, <3>2 DEF requested
      <4> QED BY <1>11, <4>1
    <3>3. CASE ~(b <= fullStart - 1)
      <4>1. b \in Int /\ fullStart <= b
        BY <1>2, <3>3
      <4>2. First.exists /\ First.index <= fullStart
        BY <1>1, <1>2, <4>1 DEF Backfilling
      <4>3. First.index \in BlockAnchors
        BY <4>2 DEF BlockAnchors
      <4> QED BY <1>2, <2>2, <4>1, <4>2, <4>3
    <3> QED BY <3>2, <3>3
  <2> QED BY <2>1, <2>2
<1>17. LogsFilled'
  <2>1. \A x \in RunPoints' : FilledIn(EventsHere', LogAnchors', horizon', x)
    BY <1>10, <1>15, <1>16
  <2>2. EventsPending' = EventsHere'
    BY <1>3 DEF EventsPending
  <2>3. FilledIn(EventsPending', BlockAnchors', horizon', startIndex)
    BY <1>9, <1>16, <2>2 DEF FilledIn
  <2> QED BY <1>1, <2>1, <2>3 DEF LogsFilled
<1>18. BlocksFilled'
  <2>1. BlocksHere' = BlocksHere
    BY <1>1 DEF BlocksHere
  <2> QED BY <1>1, <1>9, <1>10, <1>14, <2>1 DEF BlocksFilled
<1>19. passedLogs' \subseteq Block
  BY <1>1 DEF TypeOK, TakenIn
<1>20. TypeOK'
  BY <1>1, <1>3, <1>4, <1>19
     DEF TypeOK, dropVars, planVars, StartupPc, EnginePc, HistoryPc
<1>21. Whole'
  BY <1>1 DEF Whole, Covered
<1>22. DropInside'
  BY <1>1, <1>8 DEF DropInside, dropVars
<1>23. Ranges' /\ RunStored' /\ Backfilling'
  <2>1. planTip' = planTip
    BY <1>1 DEF planVars
  <2> QED BY <1>1, <1>3, <2>1 DEF Ranges, RunStored, Backfilling, HistoryPc, ContinuousPc
<1>24. EventsPlanned'
  <2>1. eventStart' = eventStart /\ eventStart <= eventStart
    BY <1>1, <1>2 DEF planVars
  <2> QED BY <1>6, <2>1 DEF EventsPlanned
<1> QED BY <1>7, <1>17, <1>18, <1>20, <1>21, <1>22, <1>23, <1>24 DEF IInv

-----------------------------------------------------------------------------
(***************************************************************************)
(* Inductiveness.                                                          *)
(***************************************************************************)

LEMMA InitEstablishes == Init => IInv
<1> SUFFICES ASSUME Init PROVE IInv
  OBVIOUS
<1>1. /\ head \in Block /\ rows = [t \in Table |-> {}] /\ states = NoStates /\ pc = "down"
      /\ cursor = 0 /\ ixEnd = 0 /\ startIndex = 0 /\ histLast = 0 /\ synced = FALSE
      /\ faults = 0 /\ dpc = "off" /\ dtable = "logs" /\ boundary = 0 /\ dfirst = 0
      /\ horizon = 0 /\ historyEpochs \in EpochChoices
      /\ planTip = 0 /\ fullStart = 0 /\ eventStart = 0 /\ anchored = FALSE
      /\ passedBlocks = {} /\ passedLogs = {}
  BY DEF Init, EngineInit, DropInit
<1>2. /\ states \in [StateName -> RowType] /\ \A n \in StateName : states[n] = NoRow
      /\ NoRow.exists = FALSE
      /\ First = NoRow /\ Last = NoRow /\ LogsFrom = NoRow
  BY <1>1 DEF NoStates, NoRow, RowType, First, Last, LogsFrom, StateName
<1>3. /\ \A t \in Table : rows[t] = {}
      /\ stored = {} /\ rows["transactions"] = {}
  BY <1>1 DEF stored, Table
<1>4. TypeOK
  <2>1. /\ rows \in [Table -> SUBSET Block]
        /\ \A t \in Table : rows[t] \subseteq Content(t)
    BY <1>1, <1>3
  <2>2. 0 \in 0 .. MaxFaults /\ "down" \in EnginePc /\ "off" \in DropPc
    BY EngineAssumption DEF EnginePc, DropPc
  <2> QED BY <1>1, <1>2, <2>1, <2>2, Zeros DEF TypeOK
<1>5. MissingRows /\ RowTimes
  BY <1>2 DEF MissingRows, RowTimes
<1>6. pc \notin PlannedPc \cup HistoryPc \cup ContinuousPc \cup {"caught_up"}
  BY <1>1 DEF PlannedPc, HistoryPc, ContinuousPc
<1>7. Ranges /\ Backfilling /\ RunStored /\ EventsPlanned
  BY <1>1 DEF Ranges, Backfilling, RunStored, EventsPlanned, HistoryPc, ContinuousPc
<1>8. DropInside
  BY <1>1 DEF DropInside
<1>9. Whole
  BY <1>3 DEF Whole
<1>10. RunPoints = {}
  BY <1>2, <1>6, StartupPoints
<1>11. BlocksFilled /\ LogsFilled
  BY <1>6, <1>10 DEF BlocksFilled, LogsFilled
<1> QED BY <1>4, <1>5, <1>7, <1>8, <1>9, <1>11 DEF IInv

LEMMA ProcessKeeps ==
    ASSUME IInv, Process
    PROVE  IInv'
<1>1. CASE StartProcess \/ PlanTip \/ PlanEpochs
  BY <1>1, PlansKeep
<1>2. CASE PlanStates
  BY <1>2, PlanBackfillKeeps, PlanDirectKeeps
<1>3. CASE BackfillChunk
  BY <1>3, BackfillChunkKeeps
<1>4. CASE WriteLogFloor
  BY <1>4, WriteLogFloorKeeps
<1>5. CASE NothingToCatchUp
  BY <1>5, NothingToCatchUpKeeps
<1>6. CASE IndexBatch
  BY <1>6, IndexBatchKeeps
<1>7. CASE IndexBlock
  BY <1>7, IndexBlockKeeps
<1>8. CASE GoContinuous
  BY <1>8, GoContinuousKeeps
<1>9. CASE Finish
  BY <1>9, EndsKeep
<1>10. CASE IndexingStep
  <2>1. UNCHANGED <<dropVars, planVars, passedVars>>
    BY <1>10 DEF IndexingStep
  <2>2. CASE HistoryRange
    BY <2>1, <2>2, HistoryRangeKeeps
  <2>3. CASE HistoryStates
    BY <2>1, <2>3, HistoryStatesKeeps
  <2>4. CASE HistoryExtend
    BY <2>1, <2>4, HistoryExtendKeeps
  <2>5. CASE ContinuousStart
    BY <2>1, <2>5, ContinuousStartKeeps
  <2>6. CASE ContinuousRange \/ ContinuousPoll
    BY <2>1, <2>6, ContinuousLooksKeeps
  <2>7. CASE ContinuousStates
    BY <2>1, <2>7, ContinuousStatesKeeps
  <2> QED BY <1>10, <2>2, <2>3, <2>4, <2>5, <2>6, <2>7 DEF IndexingStep
<1> QED BY <1>1, <1>2, <1>3, <1>4, <1>5, <1>6, <1>7, <1>8, <1>9, <1>10 DEF Process, Startup

LEMMA DroppingKeeps ==
    ASSUME IInv, Dropping
    PROVE  IInv'
<1>1. UNCHANGED <<planVars, passedVars>>
  BY DEF Dropping
<1>2. CASE DropResolves(RetentionBoundary(historyEpochs, head))
  BY <1>1, <1>2, DropResolvesKeeps
<1>3. CASE DropDeletes
  BY <1>1, <1>3, DropDeletesKeeps
<1>4. CASE DropTableDone \/ DropFindsFirst
  BY <1>1, <1>4, DropLetsGoKeeps
<1>5. CASE DropChecksFloor
  BY <1>1, <1>5, DropChecksFloorKeeps
<1>6. CASE DropRaisesFloor
  BY <1>1, <1>6, DropRaisesFloorKeeps
<1> QED BY <1>2, <1>3, <1>4, <1>5, <1>6 DEF Dropping, DropStep

LEMMA FaultKeeps ==
    ASSUME IInv, Fault
    PROVE  IInv'
<1>1. CASE StartupFails \/ (ProcessEnds /\ DropEnds /\ ForgetsPlan)
  BY <1>1, EndsKeep
<1>2. CASE ContinuousFails /\ UNCHANGED <<dropVars, planVars, passedVars>>
  BY <1>2, ContinuousFailsKeeps
<1>3. CASE DropFails /\ UNCHANGED <<planVars, passedVars>>
  BY <1>3, DropLetsGoKeeps
<1> QED BY <1>1, <1>2, <1>3 DEF Fault

\* Whatever a process finished with, or a stutter, leaves alone.
LEMMA StutterKeeps ==
    ASSUME IInv, UNCHANGED fspVars
    PROVE  IInv'
<1>1. UNCHANGED <<head, rows, states, pc, cursor, ixEnd, startIndex, histLast, synced, faults,
                  dpc, dtable, boundary, dfirst, horizon, historyEpochs, planTip, fullStart,
                  eventStart, anchored, passedBlocks, passedLogs>>
  BY DEF fspVars, engineVars, dropVars, planVars, passedVars
<1>2. /\ First' = First /\ Last' = Last /\ LogsFrom' = LogsFrom /\ stored' = stored
      /\ LastInRound' = LastInRound
  BY <1>1 DEF First, Last, LogsFrom, stored, LastInRound
<1>3. Held("blocks")' = Held("blocks") /\ Held("logs")' = Held("logs")
  BY <1>1 DEF Held, Expired
<1>4. BlockAnchors' = BlockAnchors /\ LogAnchors' = LogAnchors
  BY <1>2, <1>3 DEF BlockAnchors, LogAnchors
<1>5. BlocksHere' = BlocksHere /\ EventsHere' = EventsHere /\ EventsPending' = EventsPending
  BY <1>1, <1>2 DEF BlocksHere, EventsHere, EventsPending
<1>6. RunPoints' = RunPoints
  BY <1>1, <1>2 DEF RunPoints
<1>7. BlocksFilled' /\ LogsFilled'
  BY <1>1, <1>4, <1>5, <1>6 DEF IInv, BlocksFilled, LogsFilled
<1>8. TypeOK'
  BY <1>1 DEF IInv, TypeOK
<1>9. MissingRows' /\ RowTimes' /\ Ranges' /\ Backfilling'
  BY <1>1, <1>2 DEF IInv, MissingRows, RowTimes, Ranges, Backfilling
<1>10. DropInside' /\ RunStored'
  BY <1>1, <1>2 DEF IInv, DropInside, RunStored
<1>11. EventsPlanned' /\ Whole'
  BY <1>1, <1>2 DEF IInv, EventsPlanned, Whole, Covered
<1> QED BY <1>7, <1>8, <1>9, <1>10, <1>11 DEF IInv

LEMMA NextKeeps ==
    ASSUME IInv, [Next]_fspVars
    PROVE  IInv'
<1>1. CASE Chain
  BY <1>1, ChainKeeps
<1>2. CASE Process
  BY <1>2, ProcessKeeps
<1>3. CASE Dropping
  BY <1>3, DroppingKeeps
<1>4. CASE Fault
  BY <1>4, FaultKeeps
<1>5. CASE UNCHANGED fspVars
  BY <1>5, StutterKeeps
<1> QED BY <1>1, <1>2, <1>3, <1>4, <1>5 DEF Next, Done

-----------------------------------------------------------------------------
(***************************************************************************)
(* The invariant, and what follows from it.                                *)
(***************************************************************************)

\* The inductive invariant holds of every behaviour: whatever plans, catch-ups,
\* backfills, deletions, errors and restarts interleave, nothing is missing
\* between the anchors and the points (IndexStartup, saveData, dropAndRaiseFloor).
THEOREM Inductive == Spec => []IInv
<1>1. Init => IInv
  BY InitEstablishes
<1>2. IInv /\ [Next]_fspVars => IInv'
  BY NextKeeps
<1> QED BY <1>1, <1>2, PTL DEF Spec

\* Every variable of FSP mode keeps its type: what the plan computes from the
\* contract are blocks of the chain, and all arithmetic stays non-negative.
THEOREM TypeCorrect == Spec => []TypeOK
<1>1. IInv => TypeOK
  BY DEF IInv
<1> QED BY <1>1, Inductive, PTL

\* The points say it of the top.
LEMMA CoverageFromInvariant == IInv => CoverageSound
<1> SUFFICES ASSUME IInv, NEW b \in Block,
                    Claimed(b), BlockTime(b) >= horizon, b \notin passedBlocks
             PROVE  Covered(b)
  BY DEF CoverageSound
<1>1. /\ First.exists /\ Last.exists /\ First.index <= b /\ b <= Last.index
  BY DEF Claimed, First, Last
<1>2. Last.index + 1 \in RunPoints /\ First.index \in BlockAnchors
  BY <1>1 DEF RunPoints, BlockAnchors
<1>3. b < Last.index + 1
  <2>1. b \in Int /\ Last.index \in Int
    BY Numbers DEF IInv
  <2> QED BY <1>1, <2>1
<1>4. b \in BlocksHere
  BY <1>1, <1>2, <1>3 DEF IInv, BlocksFilled, FilledIn
<1>5. b \in stored
  BY <1>4 DEF BlocksHere
<1> QED BY <1>5 DEF IInv, Whole

\* Between the coverage rows everything is in, but for what is past retention
\* and what a plan passed over (startup.go:67-73, WriteCoverageStates).
THEOREM CoverageHolds == Spec => []CoverageSound
BY CoverageFromInvariant, Inductive, PTL

\* Between the log floor and the top every FSP event is in, but for what is past
\* retention and what a plan left out (startup.go:78-104).
THEOREM LogFloorHolds == Spec => []LogFloorSound
<1>1. IInv => LogFloorSound
  <2> SUFFICES ASSUME IInv, NEW b \in EventBlocks,
                      LogClaimed(b), BlockTime(b) >= horizon, b \notin passedLogs
               PROVE  b \in rows["logs"]
    BY DEF LogFloorSound
  <2>1. LogsFrom.exists /\ Last.exists /\ LogsFrom.index <= b /\ b <= Last.index
    BY DEF LogClaimed, LogsFrom, Last
  <2>2. Last.index + 1 \in RunPoints /\ LogsFrom.index \in LogAnchors
    BY <2>1 DEF RunPoints, LogAnchors
  <2>3. b \in Block
    BY FspModeAssumption, EngineAssumption
  <2>4. b < Last.index + 1
    <3>1. b \in Int /\ Last.index \in Int
      BY <2>3, Numbers DEF IInv
    <3> QED BY <2>1, <3>1
  <2>5. b \in EventsHere
    BY <2>1, <2>2, <2>3, <2>4 DEF IInv, LogsFilled, FilledIn
  <2> QED BY <2>5 DEF EventsHere
<1> QED BY <1>1, Inductive, PTL

-----------------------------------------------------------------------------
(***************************************************************************)
(* FSP mode implements the coverage ledger.                                *)
(***************************************************************************)

\* What is given up, in the words of the ledger.
Excused == PastRetention \cup passedBlocks

\* The coverage rows, read as the ledger reads them.
LEMMA RowsRead ==
    ASSUME TypeOK
    PROVE  /\ ClaimedFrom = (IF First.exists THEN First.index ELSE -1)
           /\ ClaimedTo = (IF Last.exists THEN Last.index ELSE -1)
           /\ First.index \in Nat /\ Last.index \in Nat
<1>1. First.index \in Nat /\ Last.index \in Nat
  BY Numbers
<1> QED BY <1>1 DEF ClaimedFrom, ClaimedTo, RowIndex, First, Last

\* A step that leaves the rows, the coverage rows and what is given up alone.
LEMMA LedgerUntouched ==
    ASSUME rows' = rows, First' = First, Last' = Last, horizon' = horizon,
           passedBlocks' = passedBlocks
    PROVE  UNCHANGED Ledger!ledger
<1>1. CoveredBlocks' = CoveredBlocks /\ PastRetention' = PastRetention
  BY DEF CoveredBlocks, Covered, PastRetention
<1>2. ClaimedFrom' = ClaimedFrom /\ ClaimedTo' = ClaimedTo
  BY DEF ClaimedFrom, ClaimedTo, RowIndex, First, Last
<1> QED BY <1>1, <1>2 DEF Ledger!ledger

\* What CoverageSound says in the ledger's words.
LEMMA RowsSound ==
    IInv => (ClaimedFrom # -1 /\ ClaimedTo # -1
                => ClaimedFrom .. ClaimedTo \subseteq CoveredBlocks \cup Excused)
<1> SUFFICES ASSUME IInv, ClaimedFrom # -1, ClaimedTo # -1,
                    NEW b \in ClaimedFrom .. ClaimedTo
             PROVE  b \in CoveredBlocks \cup Excused
  OBVIOUS
<1>1. TypeOK /\ RowTimes /\ CoverageSound
  BY CoverageFromInvariant DEF IInv
<1>2. /\ First.exists /\ Last.exists
      /\ ClaimedFrom = First.index /\ ClaimedTo = Last.index
      /\ First.index \in Nat /\ Last.index \in Nat
  BY <1>1, RowsRead
<1>3. Last.index \in Block
  BY <1>1, <1>2, AnchorsTyped
<1>4. b \in Block /\ First.index <= b /\ b <= Last.index
  BY <1>2, <1>3, EngineAssumption DEF Block
<1>5. Claimed(b)
  BY <1>2, <1>4 DEF Claimed, First, Last
<1>6. BlockTime(b) \in Int /\ horizon \in Int
  BY <1>1, <1>4, Numbers
<1>7. BlockTime(b) >= horizon /\ b \notin passedBlocks => Covered(b)
  BY <1>1, <1>4, <1>5 DEF CoverageSound
<1> QED BY <1>4, <1>6, <1>7 DEF CoveredBlocks, PastRetention, Excused

LEMMA RowsSoundAfter ==
    IInv' => (ClaimedFrom # -1 /\ ClaimedTo # -1
                => ClaimedFrom .. ClaimedTo \subseteq CoveredBlocks \cup Excused)'
BY RowsSound, PTL

\* The states transaction of a batch is the ledger's Publish.
LEMMA Publishes ==
    ASSUME IInv, IInv', NEW lo \in Block, NEW hi \in Block, lo <= hi,
           PublishCoverage(lo, hi), rows' = rows, horizon' = horizon,
           passedBlocks' = passedBlocks
    PROVE  Ledger!Publish
<1>1. TypeOK /\ RowTimes /\ MissingRows /\ EngineTyped /\ lo \in Nat /\ hi \in Nat
  BY Typed, EngineAssumption DEF IInv, Block
<1>2. Last'.exists /\ Last'.index = hi /\ First'.exists
  BY <1>1, CoverageKept
<1>3. First'.index = IF ~First.exists \/ lo < First.index THEN lo ELSE First.index
  BY <1>1, FloorPublished
<1>4. /\ ClaimedFrom = (IF First.exists THEN First.index ELSE -1)
      /\ First.index \in Nat
  BY <1>1, RowsRead
<1>5. ClaimedFrom' = First'.index /\ ClaimedTo' = hi
  BY <1>2 DEF ClaimedFrom, ClaimedTo, RowIndex, First, Last
<1>6. ClaimedFrom' = IF ClaimedFrom = -1 \/ lo < ClaimedFrom THEN lo ELSE ClaimedFrom
  BY <1>1, <1>3, <1>4, <1>5
<1>7. CoveredBlocks' = CoveredBlocks /\ Excused' = Excused
  BY DEF CoveredBlocks, Covered, Excused, PastRetention
<1>8. ClaimedFrom' # -1 /\ ClaimedTo' # -1
  BY <1>1, <1>3, <1>4, <1>5
<1>9. ClaimedFrom' .. hi \subseteq CoveredBlocks \cup Excused
  BY <1>5, <1>7, <1>8, RowsSoundAfter
<1> QED BY <1>5, <1>6, <1>7, <1>9 DEF Ledger!Publish, Ledger!Accounted, Ledger!Unset, Excused

\* A floor raised by the deletion loop is the ledger's MoveFloor.
LEMMA FloorMoves ==
    ASSUME IInv, IInv', DropRaisesFloor, passedBlocks' = passedBlocks
    PROVE  Ledger!MoveFloor \/ UNCHANGED Ledger!ledger
<1>1. /\ states \in [StateName -> RowType]
      /\ dfirst \in Block /\ dfirst \in Nat /\ BlockTime(dfirst) \in Nat
  <2>1. states \in [StateName -> RowType] /\ dfirst \in Block
    BY DEF IInv, TypeOK
  <2>2. dfirst \in Nat /\ BlockTime(dfirst) \in Nat
    BY <2>1, EngineAssumption DEF Block
  <2> QED BY <2>1, <2>2
<1>2. /\ rows' = rows /\ horizon' = horizon
      /\ states' = UpdateState(states, Floor(dtable), dfirst, BlockTime(dfirst))
  BY DEF DropRaisesFloor
<1>3. CASE dtable = "logs"
  <2>1. /\ "LogFloor" \in StateName
        /\ "BlockFloor" \in StateName \ {"LogFloor"}
        /\ "LastIndexed" \in StateName \ {"LogFloor"}
    BY DEF StateName
  <2>2. Floor(dtable) = "LogFloor"
    BY <1>3 DEF Floor
  <2>3. states'["BlockFloor"] = states["BlockFloor"] /\ states'["LastIndexed"] = states["LastIndexed"]
    BY <1>1, <1>2, <2>1, <2>2, UpdateRows
  <2> QED BY <1>2, <2>3, LedgerUntouched DEF First, Last
<1>4. CASE dtable # "logs"
  <2>1. /\ "BlockFloor" \in StateName
        /\ "LastIndexed" \in StateName \ {"BlockFloor"}
    BY DEF StateName
  <2>2. Floor(dtable) = "BlockFloor"
    BY <1>4 DEF Floor
  <2>3. states'["BlockFloor"] = Row(dfirst, BlockTime(dfirst))
        /\ states'["LastIndexed"] = states["LastIndexed"]
    BY <1>1, <1>2, <2>1, <2>2, UpdateRows
  <2>4. ClaimedFrom' = dfirst /\ ClaimedTo' = ClaimedTo /\ ClaimedFrom' # -1
    BY <1>1, <2>3 DEF ClaimedFrom, ClaimedTo, RowIndex, Row
  <2>5. CoveredBlocks' = CoveredBlocks /\ Excused' = Excused
    BY <1>2 DEF CoveredBlocks, Covered, Excused, PastRetention
  <2>6. ClaimedTo # -1 => dfirst .. ClaimedTo \subseteq CoveredBlocks \cup Excused
    BY <2>4, <2>5, RowsSoundAfter
  <2> QED
    BY <1>1, <2>4, <2>5, <2>6
       DEF Ledger!MoveFloor, Ledger!Accounted, Ledger!Unset, Excused
<1> QED BY <1>3, <1>4

\* The data transaction of a batch is the ledger's Index: what was passed over
\* and is indexed now is there in full.
LEMMA Inserts ==
    ASSUME IInv, IInv', NEW lo \in Block, NEW hi \in Block, Insert(lo, hi), Indexes(lo, hi),
           states' = states
    PROVE  Ledger!Index
<1>1. /\ EngineTyped /\ horizon' = horizon
      /\ passedBlocks' = passedBlocks \ (lo .. hi)
  BY Typed DEF IInv, Indexes, dropVars
<1>2. \A t \in Table : rows[t] \subseteq rows'[t]
  BY DEF Insert
<1>3. CoveredBlocks \subseteq CoveredBlocks'
  BY <1>2 DEF CoveredBlocks, Covered
<1>4. PastRetention' = PastRetention
  BY <1>1 DEF PastRetention
<1>5. ASSUME NEW b \in passedBlocks, b \in lo .. hi, b \notin PastRetention
      PROVE  b \in CoveredBlocks'
  <2>1. stored' = stored \cup (lo .. hi) /\ lo .. hi \subseteq Block
    BY <1>1, Inserted
  <2>2. b \in Block /\ b \in stored'
    BY <1>5, <2>1
  <2>3. BlockTime(b) \in Int /\ horizon \in Int
    BY <2>2, Numbers DEF IInv
  <2>4. BlockTime(b) >= horizon'
    BY <1>1, <1>5, <2>2, <2>3 DEF PastRetention
  <2>5. Covered(b)'
    BY <2>2, <2>4 DEF IInv, Whole
  <2> QED BY <2>2, <2>5 DEF CoveredBlocks
<1>6. ClaimedFrom' = ClaimedFrom /\ ClaimedTo' = ClaimedTo
  BY DEF ClaimedFrom, ClaimedTo
<1>7. /\ Excused' \subseteq Excused
      /\ Excused \ Excused' \subseteq CoveredBlocks'
  BY <1>1, <1>4, <1>5 DEF Excused
<1> QED BY <1>3, <1>6, <1>7 DEF Ledger!Index, Excused

\* And so is a chunk of a backfill, which brings logs only.
LEMMA ChunkInserts ==
    ASSUME IInv, BackfillChunk
    PROVE  Ledger!Index
<1>1. /\ states' = states /\ horizon' = horizon /\ passedBlocks' = passedBlocks
      /\ rows' = [rows EXCEPT !["logs"] = @ \cup (EventBlocks \cap (cursor .. ChunkEnd))]
      /\ rows \in [Table -> SUBSET Block]
  BY DEF BackfillChunk, dropVars, passedVars, IInv, TypeOK
<1>2. \A t \in Table : rows[t] \subseteq rows'[t]
  BY <1>1
<1>3. CoveredBlocks \subseteq CoveredBlocks'
  BY <1>2 DEF CoveredBlocks, Covered
<1>4. PastRetention' = PastRetention /\ ClaimedFrom' = ClaimedFrom /\ ClaimedTo' = ClaimedTo
  BY <1>1 DEF PastRetention, ClaimedFrom, ClaimedTo
<1> QED BY <1>1, <1>3, <1>4 DEF Ledger!Index

\* A deletion is the ledger's Forget.
LEMMA Forgets ==
    ASSUME IInv, DropDeletes, passedBlocks' = passedBlocks
    PROVE  Ledger!Forget
<1>1. states' = states /\ horizon' = horizon
  BY DEF DropDeletes, dropVars
<1>2. PastRetention' = PastRetention /\ ClaimedFrom' = ClaimedFrom /\ ClaimedTo' = ClaimedTo
  BY <1>1 DEF PastRetention, ClaimedFrom, ClaimedTo
<1>3. \A t \in Table : /\ rows'[t] \subseteq rows[t]
                       /\ \A b \in rows[t] \ rows'[t] : BlockTime(b) < horizon
  BY Typed, DropDeleted DEF IInv, DropInside
<1>4. CoveredBlocks' \subseteq CoveredBlocks
  BY <1>3 DEF CoveredBlocks, Covered
<1>5. CoveredBlocks \ CoveredBlocks' \subseteq PastRetention
  BY <1>3 DEF CoveredBlocks, Covered, PastRetention
<1> QED BY <1>2, <1>4, <1>5 DEF Ledger!Forget

\* A boundary that rises and a plan that passes blocks over are Excuse.
LEMMA Excuses ==
    ASSUME TypeOK, rows' = rows, states' = states, horizon' \in Int, horizon <= horizon',
           passedBlocks \subseteq passedBlocks'
    PROVE  Ledger!Excuse
<1>1. CoveredBlocks' = CoveredBlocks
  BY DEF CoveredBlocks, Covered
<1>2. PastRetention \subseteq PastRetention'
  <2>1. \A b \in Block : BlockTime(b) \in Int /\ horizon \in Int
    BY Numbers
  <2> QED BY <2>1 DEF PastRetention
<1>3. ClaimedFrom' = ClaimedFrom /\ ClaimedTo' = ClaimedTo
  BY DEF ClaimedFrom, ClaimedTo
<1> QED BY <1>1, <1>2, <1>3 DEF Ledger!Excuse

\* The batch a run inserts or publishes is made of blocks of the chain.
LEMMA BatchOfChain ==
    ASSUME IInv, pc \in {"hist", "hist_states"}, cursor <= ixEnd
    PROVE  cursor \in Block /\ LastInRound \in Block /\ cursor <= LastInRound
<1>1. ixEnd <= head
  BY DEF IInv, Ranges
<1>2. /\ cursor \in Nat /\ ixEnd \in Nat /\ head \in Int /\ MaxBlock \in Int /\ head <= MaxBlock
      /\ BatchSize \in Nat \ {0}
  <2>1. cursor \in Nat /\ ixEnd \in Nat /\ head \in Block /\ head \in Int
    BY Typed, EngineNumbers DEF IInv
  <2>2. head <= MaxBlock /\ MaxBlock \in Int
    BY <2>1, EngineAssumption DEF Block
  <2> QED BY <2>1, <2>2, EngineAssumption
<1>3. LastInRound \in Int /\ cursor <= LastInRound /\ LastInRound <= ixEnd
  BY <1>2 DEF LastInRound, Lesser
<1> QED BY <1>1, <1>2, <1>3 DEF Block

LEMMA BlockOfChain ==
    ASSUME IInv, pc \in {"cont", "cont_states"}, cursor <= ixEnd
    PROVE  cursor \in Block /\ cursor <= cursor
<1>1. ixEnd <= head
  BY DEF IInv, Ranges
<1>2. cursor \in Nat /\ ixEnd \in Nat /\ head \in Int /\ MaxBlock \in Int /\ head <= MaxBlock
  <2>1. cursor \in Nat /\ ixEnd \in Nat /\ head \in Block /\ head \in Int
    BY Typed, EngineNumbers DEF IInv
  <2>2. head <= MaxBlock /\ MaxBlock \in Int
    BY <2>1, EngineAssumption DEF Block
  <2> QED BY <2>1, <2>2
<1> QED BY <1>1, <1>2 DEF Block

\* Every other step leaves the ledger alone, or moves a row it does not read.
LEMMA QuietInLedger ==
    ASSUME IInv,
           \/ UNCHANGED <<rows, states, horizon, passedBlocks>>
           \/ ObserveTip /\ UNCHANGED <<rows, horizon, passedBlocks>>
           \/ WriteLogFloor
    PROVE  UNCHANGED Ledger!ledger
<1>1. CASE UNCHANGED <<rows, states, horizon, passedBlocks>>
  BY <1>1, LedgerUntouched DEF First, Last
<1>2. CASE ObserveTip /\ UNCHANGED <<rows, horizon, passedBlocks>>
  BY <1>2, TipKept, LedgerUntouched DEF IInv
<1>3. CASE WriteLogFloor
  <2>1. /\ rows' = rows /\ horizon' = horizon /\ passedBlocks' = passedBlocks
        /\ states' = UpdateState(states, "LogFloor", eventStart, BlockTime(eventStart))
        /\ states \in [StateName -> RowType]
        /\ eventStart \in Nat /\ BlockTime(eventStart) \in Nat
    BY <1>3, EngineAssumption DEF WriteLogFloor, dropVars, IInv, TypeOK, Block
  <2>2. /\ "LogFloor" \in StateName
        /\ "BlockFloor" \in StateName \ {"LogFloor"}
        /\ "LastIndexed" \in StateName \ {"LogFloor"}
    BY DEF StateName
  <2>3. states'["BlockFloor"] = states["BlockFloor"] /\ states'["LastIndexed"] = states["LastIndexed"]
    BY <2>1, <2>2, UpdateRows
  <2> QED BY <2>1, <2>3, LedgerUntouched DEF First, Last
<1> QED BY <1>1, <1>2, <1>3

LEMMA ProcessInLedger ==
    ASSUME IInv, IInv', Process
    PROVE  Ledger!Next \/ UNCHANGED Ledger!ledger
<1> USE DEF plan, dropVars, planVars, passedVars
<1>1. CASE StartProcess \/ PlanTip \/ PlanEpochs
  BY <1>1, QuietInLedger DEF StartProcess, ProcessStarts, PlanTip, PlanEpochs
<1>2. CASE PlanStates
  <2>1. horizon \in Int /\ horizon <= horizon
    BY Numbers DEF IInv
  <2> QED BY <1>2, <2>1, Excuses DEF PlanStates, IInv, Ledger!Next
<1>3. CASE BackfillChunk
  BY <1>3, ChunkInserts DEF Ledger!Next
<1>4. CASE WriteLogFloor
  BY <1>4, QuietInLedger
<1>5. CASE NothingToCatchUp
  BY <1>5, QuietInLedger DEF NothingToCatchUp, DropStarts
<1>6. CASE IndexBatch
  BY <1>6, BatchOfChain, Inserts DEF IndexBatch, HistoryBatch, Ledger!Next
<1>7. CASE IndexBlock
  BY <1>7, BlockOfChain, Inserts DEF IndexBlock, ContinuousBlock, Ledger!Next
<1>8. CASE GoContinuous \/ Finish
  BY <1>8, QuietInLedger
     DEF GoContinuous, HistoryReturns, DropStarts, Finish, ContinuousReturns, DropEnds
<1>9. CASE IndexingStep
  <2>1. UNCHANGED <<dropVars, planVars, passedVars>>
    BY <1>9 DEF IndexingStep
  <2>2. CASE HistoryRange \/ HistoryExtend \/ ContinuousRange \/ ContinuousPoll
    <3>1. ObserveTip /\ UNCHANGED <<rows, horizon, passedBlocks>>
      BY <2>1, <2>2 DEF HistoryRange, HistoryExtend, ContinuousRange, ContinuousPoll
    <3> QED BY <3>1, QuietInLedger
  <2>3. CASE HistoryStates
    <3>1. cursor <= ixEnd
      BY <2>3 DEF HistoryStates, IInv, Ranges
    <3> QED BY <2>1, <2>3, <3>1, BatchOfChain, Publishes DEF HistoryStates, Ledger!Next
  <2>4. CASE ContinuousStart
    BY <2>1, <2>4, QuietInLedger DEF ContinuousStart
  <2>5. CASE ContinuousStates
    <3>1. cursor <= ixEnd
      BY <2>5 DEF ContinuousStates, IInv, Ranges
    <3> QED BY <2>1, <2>5, <3>1, BlockOfChain, Publishes DEF ContinuousStates, Ledger!Next
  <2> QED BY <1>9, <2>2, <2>3, <2>4, <2>5 DEF IndexingStep
<1> QED BY <1>1, <1>2, <1>3, <1>4, <1>5, <1>6, <1>7, <1>8, <1>9 DEF Process, Startup

LEMMA DroppingInLedger ==
    ASSUME IInv, IInv', Dropping
    PROVE  Ledger!Next \/ UNCHANGED Ledger!ledger
<1>1. passedBlocks' = passedBlocks
  BY DEF Dropping, passedVars
<1>2. CASE DropResolves(RetentionBoundary(historyEpochs, head))
  <2>1. RetentionBoundary(historyEpochs, head) \in Nat /\ horizon \in Nat
    BY BoundaryTyped DEF IInv, TypeOK
  <2>2. horizon' \in Int /\ horizon <= horizon'
    BY <1>2, <2>1 DEF DropResolves, Higher
  <2> QED BY <1>1, <1>2, <2>2, Excuses DEF DropResolves, engineVars, IInv, Ledger!Next
<1>3. CASE DropDeletes
  BY <1>1, <1>3, Forgets DEF Ledger!Next
<1>4. CASE DropRaisesFloor
  BY <1>1, <1>4, FloorMoves DEF Ledger!Next
<1>5. CASE DropTableDone \/ DropChecksFloor \/ DropFindsFirst
  BY <1>1, <1>5, QuietInLedger DEF DropTableDone, DropChecksFloor, DropFindsFirst, engineVars
<1> QED BY <1>2, <1>3, <1>4, <1>5 DEF Dropping, DropStep

LEMMA OthersInLedger ==
    ASSUME IInv, Chain \/ Fault \/ Done \/ UNCHANGED fspVars
    PROVE  UNCHANGED Ledger!ledger
<1>1. UNCHANGED <<rows, states, horizon, passedBlocks>>
  BY DEF Chain, ChainGrows, Fault, StartupFails, ContinuousFails, DropFails, ProcessEnds,
         DropEnds, ForgetsPlan, Done, fspVars, engineVars, dropVars, passedVars
<1> QED BY <1>1, QuietInLedger

\* FSP mode is a coverage ledger too, whatever its plans: a block a plan passes
\* over is given up in the step that settles the plan, and taken back only when
\* its rows are in (startup.go:65-73, states.go:120-157).
THEOREM FspModeIsLedger == Spec => ImplementsLedger
<1>1. Init => Ledger!Init
  <2> SUFFICES ASSUME Init PROVE Ledger!Init
    OBVIOUS
  <2>1. "blocks" \in Table /\ Content("blocks") = Block /\ rows["blocks"] = {}
    BY DEF Init, EngineInit, Table, Content
  <2>2. CoveredBlocks = {}
    BY <2>1 DEF CoveredBlocks, Covered
  <2>3. PastRetention = {} /\ passedBlocks = {}
    <3>1. horizon = 0 /\ passedBlocks = {} /\ \A b \in Block : BlockTime(b) \in Nat
      BY EngineAssumption DEF Init, DropInit
    <3> QED BY <3>1 DEF PastRetention
  <2>4. ClaimedFrom = -1 /\ ClaimedTo = -1
    BY DEF Init, EngineInit, NoStates, NoRow, StateName, ClaimedFrom, ClaimedTo, RowIndex
  <2> QED BY <2>2, <2>3, <2>4 DEF Ledger!Init, Ledger!Unset
<1>2. IInv /\ IInv' /\ [Next]_fspVars => [Ledger!Next]_(Ledger!ledger)
  BY ProcessInLedger, DroppingInLedger, OthersInLedger DEF Next
<1> QED BY <1>1, <1>2, Inductive, PTL DEF Spec, ImplementsLedger, Ledger!Spec

\* A step of the ledger leaves accounted for what was.
LEMMA AccountedStays ==
    ASSUME [Ledger!Next]_(Ledger!ledger)
    PROVE  Ledger!Accounted \subseteq Ledger!Accounted'
<1>1. CASE Ledger!Index
  BY <1>1 DEF Ledger!Index, Ledger!Accounted
<1>2. CASE Ledger!Excuse
  BY <1>2 DEF Ledger!Excuse, Ledger!Accounted
<1>3. CASE Ledger!Forget
  BY <1>3 DEF Ledger!Forget, Ledger!Accounted
<1>4. CASE Ledger!Publish \/ Ledger!MoveFloor \/ UNCHANGED Ledger!ledger
  BY <1>4 DEF Ledger!Publish, Ledger!MoveFloor, Ledger!ledger, Ledger!Accounted
<1> QED BY <1>1, <1>2, <1>3, <1>4 DEF Ledger!Next

\* A block between the coverage rows is accounted for.
LEMMA ClaimAccounted ==
    ASSUME IInv, NEW b \in Block, Ledger!Claimed(b)
    PROVE  b \in Ledger!Accounted
<1>1. /\ ClaimedFrom = (IF First.exists THEN First.index ELSE -1)
      /\ ClaimedTo = (IF Last.exists THEN Last.index ELSE -1)
      /\ First.index \in Nat /\ Last.index \in Nat
  BY RowsRead DEF IInv
<1>2. b \in Nat /\ ClaimedFrom # -1 /\ ClaimedFrom <= b /\ b <= ClaimedTo
  BY EngineAssumption DEF Ledger!Claimed, Ledger!Unset, Block
<1>3. ClaimedTo # -1 /\ b \in ClaimedFrom .. ClaimedTo
  BY <1>1, <1>2
<1> QED BY <1>2, <1>3, RowsSound DEF Ledger!Accounted, Excused

\* A consumer that has read the coverage rows finds each block they claim
\* whenever it comes to look, or the block is past retention or one a plan passed
\* over: no outage, reconfiguration, deletion or restart takes it away
\* unannounced (states.go:20-24, WriteCoverageStates).
THEOREM FspModeServesReaders == Spec => Ledger!ReadersServed
<1>1. ASSUME NEW b \in Block
      PROVE  Spec => [](Ledger!Claimed(b) => [](b \in Ledger!Accounted))
  <2>1. IInv => (Ledger!Claimed(b) => b \in Ledger!Accounted)
    BY ClaimAccounted
  <2>2. [Ledger!Next]_(Ledger!ledger) /\ b \in Ledger!Accounted
            => (b \in Ledger!Accounted)'
    BY AccountedStays
  <2>3. Spec => [][Ledger!Next]_(Ledger!ledger)
    BY FspModeIsLedger, PTL DEF ImplementsLedger, Ledger!Spec
  <2> QED BY <2>1, <2>2, <2>3, Inductive, PTL
<1> QED BY <1>1 DEF Ledger!ReadersServed

-----------------------------------------------------------------------------
(***************************************************************************)
(* What ready means.                                                       *)
(***************************************************************************)

\* The events the plan promises are in up to a point at which nothing is
\* missing, if what the run was to index is.
LEMMA PlannedEventsIn ==
    ASSUME IInv, anchored, pc \in HistoryPc \cup {"caught_up"},
           NEW x \in RunPoints,
           \A b \in Block : startIndex <= b /\ b < x => b \in stored
    PROVE  FilledIn(EventsHere, {eventStart}, horizon, x)
<1> SUFFICES ASSUME NEW b \in Block, b < x, BlockTime(b) >= horizon, eventStart <= b
             PROVE  b \in EventsHere
  BY DEF FilledIn
<1>1. /\ b \in Int /\ eventStart \in Int /\ startIndex \in Int /\ x \in Int
      /\ First.index \in Int /\ LogsFrom.index \in Int /\ stored \subseteq Block
  <2>1. TypeOK /\ RowTimes
    BY DEF IInv
  <2>2. Block \subseteq Int /\ eventStart \in Block /\ stored \subseteq Block
    BY <2>1, Numbers
  <2>3. startIndex \in Nat /\ First.index \in Nat /\ LogsFrom.index \in Nat
    BY <2>1, Numbers
  <2>4. x \in Int
    BY <2>1, AnchorsTyped
  <2> QED BY <2>2, <2>3, <2>4
<1>2. FilledIn(EventsHere, LogAnchors, horizon, x) /\ EventsPlanned /\ Whole
  BY DEF IInv, LogsFilled
<1>3. CASE LogsFrom.exists /\ LogsFrom.index <= eventStart
  <2>1. LogsFrom.index \in LogAnchors /\ LogsFrom.index <= b
    BY <1>1, <1>3 DEF LogAnchors
  <2> QED BY <1>2, <2>1 DEF FilledIn
<1>4. CASE First.exists /\ First.index <= eventStart
  <2>1. First.index \in LogAnchors /\ First.index <= b
    BY <1>1, <1>4 DEF LogAnchors, BlockAnchors
  <2> QED BY <1>2, <2>1 DEF FilledIn
<1>5. CASE startIndex <= eventStart
  <2>1. b \in stored
    BY <1>1, <1>5
  <2> QED BY <1>1, <1>2, <2>1, StoredHasEvents
<1> QED BY <1>2, <1>3, <1>4, <1>5 DEF EventsPlanned

\* What holds when the catch-up is found to be over.
LEMMA ReadyAtEnd ==
    ASSUME IInv, GoContinuous \/ NothingToCatchUp
    PROVE  /\ histLast' \in Nat /\ histLast' <= MaxBlock
           /\ \A b \in Block : startIndex <= b /\ b <= histLast' => b \in stored
           /\ anchored => FilledIn(EventsHere, {eventStart}, horizon, histLast' + 1)
<1>1. TypeOK /\ Ranges /\ RunStored
  BY DEF IInv
<1>2. /\ cursor \in Int /\ ixEnd \in Nat /\ startIndex \in Nat /\ planTip \in Nat
      /\ MaxBlock \in Nat /\ head <= MaxBlock /\ head \in Nat /\ planTip <= MaxBlock
      /\ Block \subseteq Int
  <2>1. head \in Block /\ planTip \in Block /\ Block \subseteq Int
    BY <1>1, Numbers
  <2>2. MaxBlock \in Nat /\ head <= MaxBlock /\ head \in Nat /\ planTip <= MaxBlock /\ planTip \in Nat
    BY <2>1, EngineAssumption DEF Block
  <2>3. cursor \in Nat /\ ixEnd \in Nat /\ startIndex \in Nat
    BY <1>1, Numbers
  <2> QED BY <2>1, <2>2, <2>3
<1>3. CASE GoContinuous
  <2>1. pc = "hist" /\ cursor > ixEnd /\ histLast' = ixEnd
    BY <1>3 DEF GoContinuous, HistoryReturns
  <2>2. pc \in HistoryPc \ {"hist_range"} /\ pc \in HistoryPc \cup {"caught_up"}
    BY <2>1 DEF HistoryPc
  <2>3. ixEnd <= head
    BY <1>1, <2>1 DEF Ranges
  <2>4. ASSUME NEW b \in Block, startIndex <= b, b <= ixEnd
        PROVE  b \in stored
    <3>1. b < cursor
      BY <1>2, <2>1, <2>4
    <3> QED BY <1>1, <2>2, <2>4, <3>1 DEF RunStored
  <2>5. ixEnd + 1 \in RunPoints
    <3>1. Lesser(cursor, ixEnd + 1) = ixEnd + 1
      <4>1. cursor <= ixEnd + 1 => cursor = ixEnd + 1
        BY <1>2, <2>1
      <4> QED BY <4>1 DEF Lesser
    <3> QED BY <2>2, <3>1, HistoryPoints
  <2>6. \A b \in Block : startIndex <= b /\ b < ixEnd + 1 => b \in stored
    BY <1>2, <2>4
  <2>7. anchored => FilledIn(EventsHere, {eventStart}, horizon, ixEnd + 1)
    BY <2>2, <2>5, <2>6, PlannedEventsIn
  <2> QED BY <1>2, <2>1, <2>3, <2>4, <2>7
<1>4. CASE NothingToCatchUp
  <2>1. pc = "caught_up" /\ histLast' = planTip
    BY <1>4 DEF NothingToCatchUp
  <2>2. planTip < startIndex
    BY <1>1, <2>1 DEF Ranges
  <2>3. \A b \in Block : startIndex <= b /\ b <= planTip => b \in stored
    BY <1>2, <2>2
  <2>4. startIndex \in RunPoints
    BY <2>1 DEF RunPoints
  <2>5. \A b \in Block : startIndex <= b /\ b < startIndex => b \in stored
    BY <1>2
  <2>6. anchored => FilledIn(EventsHere, {eventStart}, horizon, startIndex)
    BY <2>1, <2>4, <2>5, PlannedEventsIn
  <2>7. \A b \in Block : b < planTip + 1 => b < startIndex
    BY <1>2, <2>2
  <2>8. anchored => FilledIn(EventsHere, {eventStart}, horizon, planTip + 1)
    BY <2>6, <2>7 DEF FilledIn
  <2> QED BY <1>2, <2>1, <2>3, <2>8
<1> QED BY <1>3, <1>4

\* No other step turns a process ready.
LEMMA TurnsReady ==
    ASSUME [Next]_fspVars, ~synced, synced'
    PROVE  GoContinuous \/ NothingToCatchUp
BY DEF Next, Chain, ChainGrows, Process, StartProcess, ProcessStarts, Startup, PlanTip,
       PlanEpochs, PlanStates, BackfillChunk, WriteLogFloor, IndexBatch, HistoryBatch,
       IndexBlock, ContinuousBlock, Finish, ContinuousReturns, IndexingStep, HistoryRange,
       HistoryStates, HistoryExtend, ContinuousStart, ContinuousRange, ContinuousPoll,
       ContinuousStates, Dropping, DropResolves, DropDeletes, DropStep, DropTableDone,
       DropChecksFloor, DropFindsFirst, DropRaisesFloor, Fault, StartupFails,
       ContinuousFails, DropFails, ProcessEnds, Done, fspVars, engineVars

\* What a plan that resumes rests on until its catch-up is over: the block floor
\* is at or below the plan's start.
PlanClaimed ==
    pc \in PlannedPc /\ fullStart < startIndex => First.exists /\ First.index <= fullStart

\* A plan stands until it is over, or made anew.
LEMMA PlanStands ==
    ASSUME [Next]_fspVars, pc' \in PlannedPc, ~PlanStates
    PROVE  pc \in PlannedPc /\ startIndex' = startIndex /\ fullStart' = fullStart
BY DEF PlannedPc, HistoryPc, Next, Chain, ChainGrows, Process, StartProcess, ProcessStarts,
       Startup, PlanTip, PlanEpochs, BackfillChunk, WriteLogFloor, NothingToCatchUp,
       IndexBatch, HistoryBatch, Indexes, IndexBlock, ContinuousBlock, GoContinuous,
       HistoryReturns, Finish, ContinuousReturns, IndexingStep, HistoryRange, HistoryStates,
       HistoryExtend, ContinuousStart, ContinuousRange, ContinuousPoll, ContinuousStates,
       Dropping, DropResolves, DropDeletes, DropStep, DropTableDone, DropChecksFloor,
       DropFindsFirst, DropRaisesFloor, Fault, StartupFails, ContinuousFails, DropFails,
       ProcessEnds, Done, fspVars, engineVars, planVars, plan

\* Meanwhile the block floor stays where it is or is lowered.
LEMMA FloorStands ==
    ASSUME IInv, [Next]_fspVars, pc \in PlannedPc, pc' \in PlannedPc,
           First.exists
    PROVE  First'.exists /\ First'.index <= First.index /\ First'.index \in Nat
<1>1. TypeOK /\ MissingRows /\ dpc = "off" /\ First.index \in Nat
  BY Numbers DEF IInv, DropInside, PlannedPc, HistoryPc, ContinuousPc
<1>2. CASE First' = First
  BY <1>1, <1>2
<1>3. CASE ObserveTip
  BY <1>1, <1>2, <1>3, TipObserved, Typed
<1>4. CASE HistoryStates
  <2>1. states' = WriteCoverageStates(states, LastInRound, BlockTime(LastInRound),
                                     cursor, BlockTime(cursor))
    BY <1>4 DEF HistoryStates, PublishCoverage
  <2>2. states'["BlockFloor"] = states["BlockFloor"]
          \/ /\ states["BlockFloor"].index > cursor
             /\ states'["BlockFloor"] = Row(cursor, BlockTime(cursor))
    BY <1>1, <2>1 DEF WriteCoverageStates, LowerStateFloor, CreateStateIfMissing, UpdateState,
                      StateName, TypeOK, First
  <2>3. CASE /\ states["BlockFloor"].index > cursor
             /\ states'["BlockFloor"] = Row(cursor, BlockTime(cursor))
    BY <1>1, <2>3, Numbers DEF First, Row
  <2> QED BY <1>2, <2>2, <2>3 DEF First
<1>5. CASE WriteLogFloor
  BY <1>1, <1>2, <1>5 DEF WriteLogFloor, UpdateState, First, TypeOK, StateName
<1>6. CASE states' = states
  BY <1>2, <1>6 DEF First
<1>7. states' = states \/ ObserveTip \/ HistoryStates \/ WriteLogFloor
  BY <1>1 DEF PlannedPc, HistoryPc, Next, Chain, ChainGrows, Process, StartProcess,
       ProcessStarts, Startup, PlanTip, PlanEpochs, PlanStates, BackfillChunk,
       NothingToCatchUp, IndexBatch, HistoryBatch, IndexBlock, ContinuousBlock, GoContinuous,
       HistoryReturns, Finish, ContinuousReturns, IndexingStep, HistoryRange, HistoryExtend,
       ContinuousStart, ContinuousRange, ContinuousPoll, ContinuousStates, Dropping,
       DropResolves, DropDeletes, DropStep, DropTableDone, DropChecksFloor, DropFindsFirst,
       DropRaisesFloor, Fault, StartupFails, ContinuousFails, DropFails, ProcessEnds, Done,
       fspVars, engineVars
<1> QED BY <1>3, <1>4, <1>5, <1>6, <1>7

LEMMA PlanClaimedNext ==
    ASSUME IInv, PlanClaimed, [Next]_fspVars
    PROVE  PlanClaimed'
<1> SUFFICES ASSUME pc' \in PlannedPc, fullStart' < startIndex'
             PROVE  First'.exists /\ First'.index <= fullStart'
  BY DEF PlanClaimed
<1>1. CASE PlanStates
  <2>1. Resumes /\ fullStart' = fullStart /\ First' = First
    <3>1. fullStart' = fullStart /\ fullStart \in Int /\ states' = states
      BY <1>1, Numbers DEF PlanStates, planVars, IInv
    <3>2. startIndex' # fullStart
      BY <3>1
    <3> QED BY <1>1, <3>1, <3>2 DEF PlanStates, First
  <2>2. First.index # 0 /\ First.index <= fullStart
    BY <2>1 DEF Resumes, IsSet, First
  <2>3. First.exists
    BY <2>2 DEF IInv, MissingRows, NoRow, StateName, First
  <2> QED BY <2>1, <2>2, <2>3
<1>2. CASE ~PlanStates
  <2>1. pc \in PlannedPc /\ fullStart < startIndex /\ fullStart' = fullStart
    BY <1>2, PlanStands
  <2>2. First.exists /\ First.index <= fullStart
    BY <2>1 DEF PlanClaimed
  <2>3. First'.exists /\ First'.index <= First.index /\ First'.index \in Int
    BY <2>1, <2>2, FloorStands
  <2>4. First.index \in Int /\ fullStart \in Int
    BY Numbers DEF IInv
  <2> QED BY <2>1, <2>2, <2>3, <2>4
<1> QED BY <1>1, <1>2

\* What a plan resumed above is there from the plan's start on, or was passed
\* over by an earlier one.
LEMMA ResumedOverRows ==
    ASSUME IInv, PlanClaimed, pc \in PlannedPc,
           NEW b \in Block, fullStart <= b, b < startIndex, BlockTime(b) >= horizon
    PROVE  b \in BlocksHere
<1>1. /\ b \in Int /\ fullStart \in Int /\ startIndex \in Int /\ First.index \in Int
      /\ FilledIn(BlocksHere, BlockAnchors, horizon, startIndex)
  BY Numbers DEF IInv, BlocksFilled
<1>2. First.exists /\ First.index <= fullStart
  BY <1>1 DEF PlanClaimed
<1>3. First.index \in BlockAnchors /\ First.index <= b
  BY <1>1, <1>2 DEF BlockAnchors
<1> QED BY <1>1, <1>3 DEF FilledIn

\* GET /health turns ready over the whole plan: what the run had to index is
\* stored with its contents; what the plan found there, from its start on, is, or
\* an earlier plan passed over it; and every FSP event from its anchor on is in,
\* is past retention or was left out by a plan (startup.go:65-104, runtime.go).
THEOREM ReadyMeansPlan == Spec => ReadyMeansPlanDone
<1>1. IInv /\ PlanClaimed /\ [Next]_fspVars =>
         [~synced /\ synced' =>
            /\ \A b \in startIndex .. histLast' :
                  b \in rows["blocks"] /\ (Covered(b) \/ BlockTime(b) < horizon)
            /\ \A b \in fullStart .. histLast' :
                  Covered(b) \/ b \in passedBlocks \/ BlockTime(b) < horizon
            /\ anchored => \A b \in EventBlocks \cap (eventStart .. histLast') :
                  b \in rows["logs"] \/ b \in passedLogs \/ BlockTime(b) < horizon]_fspVars
  <2> SUFFICES ASSUME IInv, PlanClaimed, [Next]_fspVars, ~synced, synced'
               PROVE  /\ \A b \in startIndex .. histLast' :
                           b \in rows["blocks"] /\ (Covered(b) \/ BlockTime(b) < horizon)
                      /\ \A b \in fullStart .. histLast' :
                           Covered(b) \/ b \in passedBlocks \/ BlockTime(b) < horizon
                      /\ anchored => \A b \in EventBlocks \cap (eventStart .. histLast') :
                           b \in rows["logs"] \/ b \in passedLogs \/ BlockTime(b) < horizon
    OBVIOUS
  <2>1. /\ histLast' \in Nat /\ histLast' <= MaxBlock
        /\ \A b \in Block : startIndex <= b /\ b <= histLast' => b \in stored
        /\ anchored => FilledIn(EventsHere, {eventStart}, horizon, histLast' + 1)
    BY TurnsReady, ReadyAtEnd
  <2>2. /\ startIndex \in Nat /\ horizon \in Int /\ Whole /\ eventStart \in Nat
        /\ \A b \in Block : BlockTime(b) \in Int
    BY Typed, EngineNumbers, EngineAssumption DEF IInv, TypeOK, Block
  <2>3. ASSUME NEW b \in startIndex .. histLast'
        PROVE  b \in rows["blocks"] /\ (Covered(b) \/ BlockTime(b) < horizon)
    <3>1. b \in Block /\ startIndex <= b /\ b <= histLast'
      BY <2>1, <2>2, EngineAssumption DEF Block
    <3>2. b \in stored
      BY <2>1, <3>1
    <3>3. BlockTime(b) >= horizon => Covered(b)
      BY <2>2, <3>2 DEF Whole
    <3> QED BY <2>2, <3>1, <3>2, <3>3 DEF stored
  <2>4. ASSUME anchored, NEW b \in EventBlocks \cap (eventStart .. histLast')
        PROVE  b \in rows["logs"] \/ b \in passedLogs \/ BlockTime(b) < horizon
    <3>1. b \in Block /\ eventStart <= b /\ b < histLast' + 1
      BY <2>1, <2>2, FspModeAssumption, EngineAssumption
    <3>2. BlockTime(b) >= horizon => b \in EventsHere
      BY <2>1, <2>4, <3>1 DEF FilledIn
    <3> QED BY <2>2, <3>1, <3>2 DEF EventsHere
  <2>5. ASSUME NEW b \in fullStart .. histLast'
        PROVE  Covered(b) \/ b \in passedBlocks \/ BlockTime(b) < horizon
    <3>1. pc \in PlannedPc /\ fullStart \in Nat
      BY TurnsReady DEF GoContinuous, HistoryReturns, NothingToCatchUp, PlannedPc,
                        HistoryPc, IInv, TypeOK, Block
    <3>2. b \in Block /\ b \in Int /\ fullStart <= b /\ b <= histLast'
      BY <2>1, <3>1, EngineAssumption DEF Block
    <3>3. CASE startIndex <= b
      <4>1. b \in startIndex .. histLast'
        BY <2>1, <2>2, <3>2, <3>3
      <4> QED BY <2>3, <4>1
    <3>4. CASE b < startIndex /\ BlockTime(b) >= horizon
      <4>1. b \in stored \/ b \in passedBlocks
        BY <3>1, <3>2, <3>4, ResumedOverRows DEF BlocksHere
      <4> QED BY <2>2, <3>4, <4>1 DEF Whole
    <3> QED BY <2>2, <3>2, <3>3, <3>4
  <2> QED BY <2>3, <2>4, <2>5
<1>2. Init => PlanClaimed
  BY DEF Init, EngineInit, PlanClaimed, PlannedPc, HistoryPc
<1>3. IInv /\ PlanClaimed /\ [Next]_fspVars => PlanClaimed'
  BY PlanClaimedNext
<1> QED BY <1>1, <1>2, <1>3, Inductive, PTL DEF Spec, ReadyMeansPlanDone

-----------------------------------------------------------------------------
(***************************************************************************)
(* How the epochs move with the chain.                                     *)
(***************************************************************************)

LEMMA BelowWellFounded == IsWellFoundedOn({ss \in Nat \X Nat : ss[1] < ss[2]}, Nat)
<1>1. OpToRel(<, Nat) = {ss \in Nat \X Nat : ss[1] < ss[2]}
  BY DEF OpToRel
<1> QED BY <1>1, NatLessThanWellFounded

LEMMA SmallestExists ==
    ASSUME NEW T, T \subseteq Nat, T # {}
    PROVE  \E m \in T : \A n \in T : m <= n
<1> DEFINE R == {ss \in Nat \X Nat : ss[1] < ss[2]}
<1>1. PICK m \in T : \A n \in T : ~(<<n, m>> \in R)
  <2> HIDE DEF R
  <2>1. IsWellFoundedOn(R, Nat)
    BY BelowWellFounded DEF R
  <2> QED BY <2>1, WFMin
<1>2. ASSUME NEW n \in T PROVE m <= n
  <2>1. ~(n < m) /\ n \in Nat /\ m \in Nat
    BY <1>1
  <2> QED BY <2>1
<1> QED BY <1>2

\* Of the epochs that have begun, one is the latest.
LEMMA LatestExists ==
    ASSUME NEW h, h \in Int, NEW d, HasStartData(d, h)
    PROVE  \E e \in StartedEpochs :
              HasStartData(e, h) /\ \A c \in StartedEpochs : HasStartData(c, h) => c <= e
<1> DEFINE S == {e \in StartedEpochs : HasStartData(e, h)}
           T == {MaxBlock - RewardEpochStartBlock(e) : e \in S}
<1>1. \A e \in StartedEpochs : /\ e \in Nat /\ RewardEpochStartBlock(e) \in Nat
                               /\ MaxBlock - RewardEpochStartBlock(e) \in Nat
  BY FspEpochsAssumption, EngineAssumption DEF Block
<1>2. T \subseteq Nat /\ T # {}
  BY <1>1 DEF HasStartData
<1>3. PICK m \in T : \A n \in T : m <= n
  <2> HIDE DEF T
  <2> QED BY <1>2, SmallestExists
<1>4. PICK e \in S : m = MaxBlock - RewardEpochStartBlock(e)
  OBVIOUS
<1>5. ASSUME NEW c \in StartedEpochs, HasStartData(c, h)
      PROVE  c <= e
  <2>1. MaxBlock - RewardEpochStartBlock(e) <= MaxBlock - RewardEpochStartBlock(c)
    BY <1>3, <1>4, <1>5
  <2>2. e \in StartedEpochs /\ MaxBlock \in Nat
    BY <1>4, EngineAssumption
  <2>3. RewardEpochStartBlock(c) <= RewardEpochStartBlock(e)
    BY <1>1, <2>1, <2>2
  <2>4. ~(e < c)
    BY <1>1, <2>2, <2>3, FspEpochsAssumption
  <2> QED BY <1>1, <2>2, <2>4
<1> QED BY <1>4, <1>5

\* The current epoch is the latest that has begun, or none has.
LEMMA CurrentEpoch ==
    ASSUME NEW h, h \in Int
    PROVE  /\ CurrentRewardEpochId(h) \in Nat
           /\ BootstrapEpoch <= CurrentRewardEpochId(h)
           /\ \/ CurrentRewardEpochId(h) = BootstrapEpoch
              \/ HasStartData(CurrentRewardEpochId(h), h)
           /\ \A d \in StartedEpochs : HasStartData(d, h) => d <= CurrentRewardEpochId(h)
<1> DEFINE Latest(e) == /\ e = BootstrapEpoch \/ HasStartData(e, h)
                        /\ \A d \in StartedEpochs : HasStartData(d, h) => d <= e
           current == CurrentRewardEpochId(h)
<1>1. \E e \in StartedEpochs \cup {BootstrapEpoch} : Latest(e)
  <2>1. CASE \E d \in StartedEpochs : HasStartData(d, h)
    BY <2>1, LatestExists
  <2>2. CASE ~\E d \in StartedEpochs : HasStartData(d, h)
    BY <2>2
  <2> QED BY <2>1, <2>2
<1>2. current = CHOOSE e \in StartedEpochs \cup {BootstrapEpoch} : Latest(e)
  BY DEF CurrentRewardEpochId
<1>3. current \in StartedEpochs \cup {BootstrapEpoch} /\ Latest(current)
  <2> HIDE DEF Latest, current
  <2> QED BY <1>1, <1>2
<1>4. current \in Nat
  BY <1>3, FspEpochsAssumption
<1>5. BootstrapEpoch <= current
  <2>1. BootstrapEpoch \in Nat /\ BootstrapEpoch <= BootstrapEpoch
    BY FspEpochsAssumption
  <2>2. \A e \in StartedEpochs : BootstrapEpoch <= e
    BY FspEpochsAssumption
  <2> HIDE DEF current
  <2> QED BY <1>3, <2>1, <2>2
<1> QED BY <1>3, <1>4, <1>5

\* As the chain grows, neither the current epoch nor the window moves back.
LEMMA EpochsAdvance ==
    ASSUME NEW g, NEW h, g \in Int, h \in Int, g <= h
    PROVE  CurrentRewardEpochId(g) <= CurrentRewardEpochId(h)
<1>1. \A e : HasStartData(e, g) => HasStartData(e, h)
  BY FspEpochsAssumption DEF HasStartData, Block
<1>2. \A e : HasStartData(e, g) => e \in StartedEpochs
  BY DEF HasStartData
<1> QED BY <1>1, <1>2, CurrentEpoch

LEMMA WindowAdvances ==
    ASSUME NEW c, NEW d, NEW n, c \in Nat, d \in Nat, n \in Nat, c <= d
    PROVE  /\ HistoryStartEpochId(c, n) \in Nat /\ HistoryStartEpochId(d, n) \in Nat
           /\ HistoryStartEpochId(c, n) <= HistoryStartEpochId(d, n)
           /\ HistoryStartEpochId(d, n) <= d
<1>1. SaturatingSub(n, 1) \in Nat
  BY SubNat
<1> QED BY <1>1 DEF HistoryStartEpochId, SaturatingSub

\* An event backfill is anchored on an epoch of the window.
LEMMA ServedInWindow ==
    ASSUME NEW n, NEW h, n \in Nat, h \in Int
    PROVE  /\ ServedFrom(n, h) \in Nat
           /\ HistoryStartEpochId(CurrentRewardEpochId(h), n) <= ServedFrom(n, h)
<1> DEFINE current == CurrentRewardEpochId(h)
           oldest == HistoryStartEpochId(current, n)
<1>1. current \in Nat
  BY CurrentEpoch
<1>2. oldest \in Nat /\ oldest <= current
  BY <1>1, WindowAdvances
<1>3. \A e \in StartEpoch(n, h) : e \in Nat /\ oldest <= e
  BY <1>1, <1>2 DEF StartEpoch, OldestWithData
<1>4. CASE n = 0 \/ StartEpoch(n, h) = {}
  BY <1>1, <1>2, <1>4 DEF ServedFrom
<1>5. CASE ~(n = 0 \/ StartEpoch(n, h) = {})
  <2>1. ServedFrom(n, h) = CHOOSE e \in StartEpoch(n, h) : TRUE
    BY <1>5 DEF ServedFrom
  <2>2. ServedFrom(n, h) \in StartEpoch(n, h)
    BY <1>5, <2>1
  <2> QED BY <1>3, <2>2
<1> QED BY <1>4, <1>5

\* What retention goes by at one moment is no later than what a plan goes by
\* then or later.
LEMMA AnchorsAdvance ==
    ASSUME NEW g, NEW h, g \in Int, h \in Int, g <= h,
           NEW s, NEW r, s \in Nat, r \in Nat, s <= r,
           NEW d \in OldestWithData(SaturatingSub(s, 2), s, g),
           NEW e \in OldestWithData(SaturatingSub(r, 2), r, h)
    PROVE  d \in StartedEpochs /\ e \in StartedEpochs /\ d <= e
<1>1. /\ d \in StartedEpochs /\ e \in StartedEpochs /\ d \in Nat /\ e \in Nat
      /\ d <= s /\ SaturatingSub(r, 2) <= e /\ RewardEpochStartBlock(d) <= g
      /\ \A c \in SaturatingSub(s, 2) .. s : HasStartData(c, g) => d <= c
  BY FspEpochsAssumption, SubNat DEF OldestWithData, HasStartData
<1>2. SaturatingSub(s, 2) \in Nat /\ SaturatingSub(s, 2) <= SaturatingSub(r, 2)
  BY DEF SaturatingSub
<1>3. ASSUME e < d PROVE FALSE
  <2>1. RewardEpochStartBlock(e) < RewardEpochStartBlock(d)
    BY <1>1, <1>3, FspEpochsAssumption
  <2>2. RewardEpochStartBlock(e) \in Int /\ RewardEpochStartBlock(d) \in Int
    BY <1>1, FspEpochsAssumption DEF Block
  <2>3. HasStartData(e, g)
    BY <1>1, <2>1, <2>2 DEF HasStartData
  <2>4. SaturatingSub(r, 2) \in Nat
    BY SubNat
  <2>5. e \in SaturatingSub(s, 2) .. s
    BY <1>1, <1>2, <1>3, <2>4
  <2> QED BY <1>1, <1>3, <2>3, <2>5
<1> QED BY <1>1, <1>3

\* Retention stays below the anchor of a plan of the same window made then or
\* later.
LEMMA RetentionBelowAnchors ==
    ASSUME AnchorsInOrder, MarginCoversLead,
           NEW n, n \in Nat, NEW g, NEW h, g \in Int, h \in Int, g <= h,
           NEW a \in EventBackfillAnchor(n, h)
    PROVE  RetentionBoundary(n, g) <= BlockTime(a.block)
<1> DEFINE s == HistoryStartEpochId(CurrentRewardEpochId(g), n)
           r == ServedFrom(n, h)
           kept == EventAnchor(s, g)
<1>1. s \in Nat /\ r \in Nat /\ s <= r
  <2>1. /\ CurrentRewardEpochId(g) \in Nat /\ CurrentRewardEpochId(h) \in Nat
        /\ CurrentRewardEpochId(g) <= CurrentRewardEpochId(h)
    BY CurrentEpoch, EpochsAdvance
  <2>2. s \in Nat /\ s <= HistoryStartEpochId(CurrentRewardEpochId(h), n)
    BY <2>1, WindowAdvances
  <2>3. HistoryStartEpochId(CurrentRewardEpochId(h), n) \in Nat
    BY <2>1, WindowAdvances
  <2>4. r \in Nat /\ HistoryStartEpochId(CurrentRewardEpochId(h), n) <= r
    BY ServedInWindow
  <2> HIDE DEF s, r
  <2> QED BY <2>2, <2>3, <2>4
<1>2. PICK e \in OldestWithData(SaturatingSub(r, 2), r, h) : a = EpochAnchor(e)
  BY DEF EventBackfillAnchor, EventAnchor
<1>3. e \in StartedEpochs
  BY DEF OldestWithData, HasStartData
<1>4. a.block \in Block /\ BlockTime(a.block) \in Nat
  BY <1>2, <1>3, AnchorTyped, EngineAssumption
<1>5. CASE kept = {}
  BY <1>4, <1>5 DEF RetentionBoundary
<1>6. CASE kept # {}
  <2>1. PICK k \in kept : RetentionBoundary(n, g) = SaturatingSub(k.timestamp, RetentionMargin)
    <3>1. (CHOOSE k \in kept : TRUE) \in kept
      BY <1>6
    <3>2. RetentionBoundary(n, g) =
             SaturatingSub((CHOOSE k \in kept : TRUE).timestamp, RetentionMargin)
      BY <1>6 DEF RetentionBoundary
    <3> QED BY <3>1, <3>2
  <2>2. PICK d \in OldestWithData(SaturatingSub(s, 2), s, g) : k = EpochAnchor(d)
    BY DEF EventAnchor
  <2>3. d \in StartedEpochs /\ d <= e
    <3> HIDE DEF s, r
    <3> QED BY <1>1, AnchorsAdvance
  <2>4. RetentionBoundary(n, g) <= BlockTime(k.block)
    BY <2>1, <2>2, <2>3 DEF MarginCoversLead
  <2>5. k.block <= a.block
    BY <1>2, <1>3, <2>2, <2>3 DEF AnchorsInOrder
  <2>6. k.block \in Block /\ BlockTime(k.block) \in Nat
    BY <2>2, <2>3, AnchorTyped, EngineAssumption
  <2>7. BlockTime(k.block) <= BlockTime(a.block)
    BY <1>4, <2>5, <2>6, EngineAssumption
  <2> QED BY <1>4, <2>4, <2>6, <2>7, BoundaryTyped
<1> QED BY <1>5, <1>6

-----------------------------------------------------------------------------
(***************************************************************************)
(* Retention and the backfill.                                             *)
(***************************************************************************)

\* A boundary is resolved at the start of an iteration, and only then.
LEMMA ResolvesAtIdle ==
    ASSUME [Next]_fspVars, dpc = "idle", dpc' = "delete"
    PROVE  DropResolves(RetentionBoundary(historyEpochs, head))
BY DEF Next, Chain, ChainGrows, Process, StartProcess, ProcessStarts, Startup, PlanTip,
       PlanEpochs, PlanStates, BackfillChunk, WriteLogFloor, NothingToCatchUp, IndexBatch,
       IndexBlock, Indexes, GoContinuous, DropStarts, Finish, DropEnds, IndexingStep,
       Dropping, DropDeletes, DropStep, DropTableDone, DropChecksFloor, DropFindsFirst,
       DropRaisesFloor, Fault, StartupFails, DropFails, Done, fspVars, dropVars

\* Deletion never gets ahead of what a plan of the same moment would backfill:
\* a boundary that is resolved lies at or below the event anchor of that moment,
\* for every contract and every window, where anchors are in order and the
\* margin covers the nominal lead (the comments on retentionMarginSeconds and
\* fspRetentionBoundary).
THEOREM RetentionBelowBackfill ==
    ASSUME AnchorsInOrder, MarginCoversLead
    PROVE  Spec => RetentionKeepsBackfill
<1>1. IInv /\ [Next]_fspVars =>
         [dpc = "idle" /\ dpc' = "delete" =>
            \A a \in EventBackfillAnchor(historyEpochs, head) :
                boundary' <= BlockTime(a.block)]_fspVars
  <2> SUFFICES ASSUME IInv, [Next]_fspVars, dpc = "idle", dpc' = "delete",
                      NEW a \in EventBackfillAnchor(historyEpochs, head)
               PROVE  boundary' <= BlockTime(a.block)
    OBVIOUS
  <2>1. boundary' = RetentionBoundary(historyEpochs, head)
    BY ResolvesAtIdle DEF DropResolves
  <2>2. historyEpochs \in Nat /\ head \in Int /\ head <= head
    BY FspModeAssumption, EngineAssumption DEF IInv, TypeOK, Block
  <2>3. RetentionBoundary(historyEpochs, head) <= BlockTime(a.block)
    BY <2>2, RetentionBelowAnchors
  <2> QED BY <2>1, <2>3
<1> QED BY <1>1, Inductive, PTL DEF Spec, RetentionKeepsBackfill

-----------------------------------------------------------------------------
(***************************************************************************)
(* The events stay served.                                                 *)
(***************************************************************************)

\* Only where a boundary is resolved does the horizon move.
LEMMA HorizonMoves ==
    ASSUME [Next]_fspVars
    PROVE  \/ DropResolves(RetentionBoundary(historyEpochs, head))
           \/ horizon' = horizon
BY DEF Next, Chain, Process, StartProcess, Startup, PlanTip, PlanEpochs, PlanStates,
       BackfillChunk, WriteLogFloor, NothingToCatchUp, IndexBatch, IndexBlock, Indexes,
       GoContinuous, DropStarts, Finish, DropEnds, IndexingStep, Dropping, DropDeletes,
       DropStep, DropTableDone, DropChecksFloor, DropFindsFirst, DropRaisesFloor, Fault,
       StartupFails, DropFails, Done, fspVars, dropVars

\* The chain never gets shorter.
LEMMA HeadMoves ==
    ASSUME [Next]_fspVars
    PROVE  head' = head \/ head' = head + 1
BY DEF Next, Chain, ChainGrows, Process, StartProcess, ProcessStarts, Startup, PlanTip,
       PlanEpochs, PlanStates, BackfillChunk, WriteLogFloor, NothingToCatchUp, IndexBatch,
       HistoryBatch, IndexBlock, ContinuousBlock, GoContinuous, HistoryReturns, Finish,
       ContinuousReturns, IndexingStep, HistoryRange, HistoryStates, HistoryExtend,
       ContinuousStart, ContinuousRange, ContinuousPoll, ContinuousStates, Dropping,
       DropResolves, DropDeletes, DropStep, DropTableDone, DropChecksFloor, DropFindsFirst,
       DropRaisesFloor, Fault, StartupFails, ContinuousFails, DropFails, ProcessEnds, Done,
       fspVars, engineVars

\* What was deleted was called for by the window, at some moment.
LEMMA WindowKept ==
    ASSUME TypeOK, TypeOK', DroppedForWindow, [Next]_fspVars
    PROVE  DroppedForWindow'
<1> SUFFICES ASSUME OneWindow
             PROVE  \E h \in Block : h <= head' /\ horizon' <= RetentionBoundary(historyEpochs', h)
  BY DEF DroppedForWindow
<1>1. historyEpochs' = historyEpochs
  BY DEF TypeOK, OneWindow
<1>2. head \in Block /\ head' \in Block /\ Block \subseteq Int /\ horizon \in Nat
  BY EngineAssumption DEF TypeOK, Block
<1>3. PICK h \in Block : h <= head /\ horizon <= RetentionBoundary(historyEpochs, h)
  BY DEF DroppedForWindow
<1>4. h <= head'
  BY <1>2, <1>3, HeadMoves
<1>5. CASE horizon' = horizon
  BY <1>1, <1>3, <1>4, <1>5
<1>6. CASE DropResolves(RetentionBoundary(historyEpochs, head))
  <2>1. /\ horizon' = Higher(horizon, RetentionBoundary(historyEpochs, head))
        /\ head' = head
    BY <1>6 DEF DropResolves, engineVars
  <2>2. RetentionBoundary(historyEpochs, head) \in Nat
    BY BoundaryTyped
  <2>3. CASE horizon <= RetentionBoundary(historyEpochs, head)
    <3>1. horizon' = RetentionBoundary(historyEpochs, head)
      BY <2>1, <2>3 DEF Higher
    <3>2. horizon' <= RetentionBoundary(historyEpochs, head) /\ head <= head
      BY <1>2, <2>2, <3>1
    <3> QED BY <1>1, <1>2, <2>1, <3>2
  <2>4. CASE ~(horizon <= RetentionBoundary(historyEpochs, head))
    <3>1. horizon' = horizon
      BY <2>1, <2>4 DEF Higher
    <3> QED BY <1>1, <1>3, <1>4, <3>1
  <2> QED BY <2>3, <2>4
<1> QED BY <1>5, <1>6, HorizonMoves

\* What was served stays served where nothing inside retention goes.
LEMMA ServedKept ==
    ASSUME TypeOK, TypeOK', PlanServed, synced' => synced /\ pc' \in ContinuousPc,
           UNCHANGED <<eventStart, anchored, histLast>>, horizon <= horizon',
           \A b \in Block : b \in EventsHere /\ BlockTime(b) >= horizon' => b \in EventsHere'
    PROVE  PlanServed'
<1> SUFFICES ASSUME synced', anchored'
             PROVE  FilledIn(EventsHere', {eventStart}, horizon', histLast + 1)
  BY DEF PlanServed, FilledIn
<1>1. FilledIn(EventsHere, {eventStart}, horizon, histLast + 1)
  BY DEF PlanServed
<1>2. \A b \in Block : BlockTime(b) >= horizon' => BlockTime(b) >= horizon
  BY EngineAssumption DEF TypeOK
<1> QED BY <1>1, <1>2 DEF FilledIn

\* A process that is not ready has nothing to serve.
LEMMA NotReadyServes == ~synced' => PlanServed'
BY DEF PlanServed

\* The steps of a start and of a catch-up, short of its end, are those of a
\* process that is not ready.
LEMMA StartsServe ==
    ASSUME PlanServed,
           \/ StartProcess \/ PlanTip \/ PlanEpochs \/ PlanStates \/ BackfillChunk
           \/ WriteLogFloor \/ IndexBatch \/ HistoryRange \/ HistoryStates \/ HistoryExtend
           \/ StartupFails
    PROVE  ~synced'
<1>1. pc \in StartupPc \cup HistoryPc \cup {"down"} /\ synced' = synced
  BY DEF StartProcess, ProcessStarts, PlanTip, PlanEpochs, PlanStates, BackfillChunk,
         WriteLogFloor, IndexBatch, HistoryBatch, HistoryRange, HistoryStates, HistoryExtend,
         StartupFails, StartupPc, HistoryPc
<1>2. pc \notin ContinuousPc
  BY <1>1 DEF StartupPc, HistoryPc, ContinuousPc
<1> QED BY <1>1, <1>2 DEF PlanServed

\* A process that turns ready serves what its plan promised.
LEMMA ReadyServes ==
    ASSUME IInv, GoContinuous \/ NothingToCatchUp
    PROVE  PlanServed'
<1>1. anchored => FilledIn(EventsHere, {eventStart}, horizon, histLast' + 1)
  BY ReadyAtEnd
<1>2. UNCHANGED <<rows, planVars, passedVars, horizon>> /\ pc' = "cont_start"
  BY DEF GoContinuous, NothingToCatchUp, HistoryReturns, DropStarts
<1>3. UNCHANGED <<rows, passedLogs, eventStart, anchored, horizon>> /\ pc' \in ContinuousPc
  BY <1>2 DEF planVars, passedVars, ContinuousPc
<1> QED BY <1>1, <1>3 DEF PlanServed, EventsHere, FilledIn

\* Steps of a ready process that leave the tables alone.
LEMMA QuietServes ==
    ASSUME TypeOK, TypeOK', PlanServed,
           UNCHANGED <<rows, passedLogs, eventStart, anchored, histLast, synced>>,
           horizon <= horizon', pc \in ContinuousPc => pc' \in ContinuousPc
    PROVE  PlanServed'
<1>1. synced' => synced /\ pc' \in ContinuousPc
  BY DEF PlanServed
<1>2. EventsHere' = EventsHere
  BY DEF EventsHere
<1> QED BY <1>1, <1>2, ServedKept

\* A block of the continuous run brings the events it is indexed with.
LEMMA BlockServes ==
    ASSUME IInv, IInv', PlanServed, IndexBlock
    PROVE  PlanServed'
<1>1. /\ UNCHANGED <<synced, eventStart, anchored, histLast, horizon>>
      /\ pc' \in ContinuousPc
      /\ Insert(cursor, cursor) /\ passedLogs' = passedLogs \ (cursor .. cursor)
  BY DEF IndexBlock, ContinuousBlock, Indexes, plan, planVars, dropVars, ContinuousPc
<1>2. TypeOK /\ TypeOK' /\ Whole'
  BY DEF IInv
<1>3. horizon \in Int /\ horizon <= horizon'
  BY <1>1, <1>2 DEF TypeOK
<1>4. cursor \in Block
  <2>1. pc = "cont" /\ cursor <= ixEnd
    BY DEF IndexBlock, ContinuousBlock
  <2>2. ixEnd <= head
    BY <2>1 DEF IInv, Ranges
  <2> QED BY <1>2, <2>1, <2>2, Numbers, EngineAssumption DEF Block
<1>5. stored' = stored \cup (cursor .. cursor) /\ rows["logs"] \subseteq rows'["logs"]
  BY <1>1, <1>2, <1>4, Typed, Inserted DEF Insert, Table
<1>6. ASSUME NEW b \in Block, b \in EventsHere, BlockTime(b) >= horizon'
      PROVE  b \in EventsHere'
  <2>1. CASE b \in rows["logs"] \cup (Block \ EventBlocks)
    BY <1>5, <2>1 DEF EventsHere
  <2>2. CASE b \in passedLogs /\ b \notin cursor .. cursor
    BY <1>1, <2>2 DEF EventsHere
  <2>3. CASE b \in cursor .. cursor
    <3>1. b \in stored'
      BY <1>5, <2>3
    <3>2. Covered(b)'
      BY <1>2, <1>6, <3>1 DEF Whole
    <3>3. "logs" \in Table /\ Content("logs") = LogBlocks /\ EventBlocks \subseteq LogBlocks
      BY FspModeAssumption DEF Table, Content
    <3>4. b \in EventBlocks => b \in rows'["logs"]
      BY <3>2, <3>3 DEF Covered
    <3> QED BY <3>4 DEF EventsHere
  <2> QED BY <1>6, <2>1, <2>2, <2>3 DEF EventsHere
<1>7. synced' => synced /\ pc' \in ContinuousPc
  BY <1>1
<1> QED BY <1>1, <1>2, <1>3, <1>6, <1>7, ServedKept

\* A deletion takes nothing inside retention.
LEMMA DeletionServes ==
    ASSUME IInv, IInv', PlanServed, DropDeletes, UNCHANGED <<planVars, passedVars>>
    PROVE  PlanServed'
<1>1. /\ UNCHANGED <<synced, pc, eventStart, anchored, histLast, horizon, passedLogs>>
      /\ TypeOK /\ TypeOK' /\ boundary <= horizon
  BY DEF DropDeletes, plan, planVars, dropVars, passedVars, IInv, DropInside
<1>2. \A b \in rows["logs"] \ rows'["logs"] : BlockTime(b) < horizon
  BY <1>1, Typed, DropDeleted DEF Table
<1>3. horizon \in Int /\ \A b \in Block : BlockTime(b) \in Int
  BY <1>1, EngineAssumption DEF TypeOK
<1>4. ASSUME NEW b \in Block, b \in EventsHere, BlockTime(b) >= horizon'
      PROVE  b \in EventsHere'
  BY <1>1, <1>2, <1>3, <1>4 DEF EventsHere
<1>5. synced' => synced /\ pc' \in ContinuousPc
  BY <1>1 DEF PlanServed
<1> QED BY <1>1, <1>3, <1>4, <1>5, ServedKept

\* The other steps of a process, those of the deletion loop and of the chain,
\* and those that end or stop a run.
LEMMA OthersServe ==
    ASSUME TypeOK, TypeOK', PlanServed,
           \/ Chain \/ Done
           \/ (ContinuousStart \/ ContinuousRange \/ ContinuousPoll \/ ContinuousStates)
                 /\ UNCHANGED <<dropVars, planVars, passedVars>>
           \/ (DropResolves(RetentionBoundary(historyEpochs, head)) \/ DropStep)
                 /\ UNCHANGED <<planVars, passedVars>>
           \/ ContinuousFails /\ UNCHANGED <<dropVars, planVars, passedVars>>
           \/ DropFails /\ UNCHANGED <<planVars, passedVars>>
    PROVE  PlanServed'
<1> USE DEF plan, planVars, passedVars, dropVars
<1>1. UNCHANGED <<rows, passedLogs, eventStart, anchored, histLast, synced>>
  BY DEF Chain, ChainGrows, Done, fspVars, engineVars, ContinuousStart, ContinuousRange,
         ContinuousPoll, ContinuousStates, DropResolves, DropStep, DropTableDone,
         DropChecksFloor, DropFindsFirst, DropRaisesFloor, ContinuousFails, DropFails
<1>2. horizon' = horizon \/ DropResolves(RetentionBoundary(historyEpochs, head))
  BY DEF Chain, Done, fspVars, DropStep, DropTableDone, DropChecksFloor, DropFindsFirst,
         DropRaisesFloor, DropFails
<1>3. horizon <= horizon'
  <2>1. horizon \in Nat /\ RetentionBoundary(historyEpochs, head) \in Nat
    BY BoundaryTyped DEF TypeOK
  <2> QED BY <1>2, <2>1 DEF DropResolves, Higher
<1>4. pc \in ContinuousPc => pc' \in ContinuousPc
  BY DEF Chain, ChainGrows, Done, fspVars, engineVars, ContinuousStart, ContinuousRange,
         ContinuousPoll, ContinuousStates, DropResolves, DropStep, DropTableDone,
         DropChecksFloor, DropFindsFirst, DropRaisesFloor, ContinuousFails, DropFails,
         ContinuousPc
<1> QED BY <1>1, <1>3, <1>4, QuietServes

LEMMA NextServes ==
    ASSUME IInv, IInv', PlanServed, [Next]_fspVars
    PROVE  PlanServed'
<1>1. TypeOK /\ TypeOK'
  BY DEF IInv
<1>2. CASE Chain \/ Done \/ UNCHANGED fspVars
  BY <1>1, <1>2, OthersServe DEF Done, PlanServed, FilledIn, EventsHere, fspVars, engineVars,
     planVars, passedVars, dropVars
<1>3. CASE Process
  <2>1. CASE StartProcess \/ (Startup /\ ~NothingToCatchUp) \/ IndexBatch
    BY <2>1, StartsServe, NotReadyServes DEF Startup
  <2>2. CASE GoContinuous \/ NothingToCatchUp
    BY <2>2, ReadyServes
  <2>3. CASE IndexBlock
    BY <2>3, BlockServes
  <2>4. CASE Finish
    BY <2>4, NotReadyServes DEF Finish, ContinuousReturns
  <2>5. CASE IndexingStep
    <3>1. CASE HistoryRange \/ HistoryStates \/ HistoryExtend
      BY <3>1, StartsServe, NotReadyServes
    <3>2. CASE ContinuousStart \/ ContinuousRange \/ ContinuousPoll \/ ContinuousStates
      BY <1>1, <2>5, <3>2, OthersServe DEF IndexingStep
    <3> QED BY <2>5, <3>1, <3>2 DEF IndexingStep
  <2> QED BY <1>3, <2>1, <2>2, <2>3, <2>4, <2>5 DEF Process, Startup
<1>4. CASE Dropping
  <2>1. CASE DropDeletes
    BY <1>4, <2>1, DeletionServes DEF Dropping
  <2>2. CASE DropResolves(RetentionBoundary(historyEpochs, head)) \/ DropStep
    BY <1>1, <1>4, <2>2, OthersServe DEF Dropping
  <2> QED BY <1>4, <2>1, <2>2 DEF Dropping
<1>5. CASE Fault
  <2>1. CASE StartupFails
    BY <2>1, StartsServe, NotReadyServes
  <2>2. CASE \/ ContinuousFails /\ UNCHANGED <<dropVars, planVars, passedVars>>
             \/ DropFails /\ UNCHANGED <<planVars, passedVars>>
    BY <1>1, <2>2, OthersServe
  <2>3. CASE ProcessEnds
    BY <2>3, NotReadyServes DEF ProcessEnds
  <2> QED BY <1>5, <2>1, <2>2, <2>3 DEF Fault
<1> QED BY <1>2, <1>3, <1>4, <1>5 DEF Next

\* What was promised at the hand-over is kept while the process is ready, and
\* deletion keeps to the window the process is configured with.
THEOREM ServedInductive == Spec => []ServedInv
<1>1. Init => ServedInv
  <2> SUFFICES ASSUME Init PROVE ServedInv
    OBVIOUS
  <2>1. ~synced /\ horizon = 0 /\ head \in Block
    BY DEF Init, EngineInit, DropInit
  <2>2. 0 \in Block /\ 0 <= head /\ RetentionBoundary(historyEpochs, 0) \in Nat
    BY <2>1, EngineAssumption, BoundaryTyped DEF Block
  <2>3. horizon <= RetentionBoundary(historyEpochs, 0)
    BY <2>1, <2>2
  <2> QED BY <2>1, <2>2, <2>3 DEF ServedInv, PlanServed, DroppedForWindow
<1>2. IInv /\ IInv' /\ ServedInv /\ [Next]_fspVars => ServedInv'
  BY NextServes, WindowKept DEF ServedInv, IInv
<1> QED BY <1>1, <1>2, Inductive, PTL DEF Spec

\* The events of the served epochs stay in the database while the process is
\* ready, whatever epochs begin and whatever retention deletes meanwhile, but
\* for those a plan left out (runtime.go; fspRetentionBoundary's comment that
\* retention never deletes a region the backfill guaranteed).
THEOREM EventsStayServed ==
    ASSUME OneWindow, AnchorsInOrder, MarginCoversLead
    PROVE  Spec => []EventsServed
<1>1. IInv /\ ServedInv => EventsServed
  <2> SUFFICES ASSUME IInv, ServedInv, synced, anchored,
                      NEW a \in EventBackfillAnchor(historyEpochs, head),
                      NEW b \in EventBlocks \ passedLogs,
                      eventStart <= b, a.block <= b, b <= histLast
               PROVE  b \in rows["logs"]
    BY DEF EventsServed
  <2>1. /\ horizon \in Nat /\ histLast \in Nat /\ historyEpochs \in Nat /\ head \in Int
        /\ b \in Block /\ EventBlocks \subseteq Block /\ Block \subseteq Int
        /\ \A c \in Block : BlockTime(c) \in Nat
    BY FspModeAssumption, EngineAssumption DEF IInv, TypeOK, Block
  <2>2. PICK h \in Block : h <= head /\ horizon <= RetentionBoundary(historyEpochs, h)
    BY DEF ServedInv, DroppedForWindow
  <2>3. RetentionBoundary(historyEpochs, h) <= BlockTime(a.block)
    BY <2>1, <2>2, RetentionBelowAnchors
  <2>4. a.block \in Block
    BY EventAnchorTyped DEF EventBackfillAnchor
  <2>5. BlockTime(a.block) <= BlockTime(b)
    BY <2>1, <2>4, EngineAssumption
  <2>6. BlockTime(b) >= horizon
    <3>1. /\ RetentionBoundary(historyEpochs, h) \in Nat
          /\ BlockTime(a.block) \in Nat /\ BlockTime(b) \in Nat
      BY <2>1, <2>4, BoundaryTyped
    <3> QED BY <2>1, <2>2, <2>3, <2>5, <3>1
  <2>7. FilledIn(EventsHere, {eventStart}, horizon, histLast + 1)
    BY DEF ServedInv, PlanServed
  <2>8. b < histLast + 1
    BY <2>1
  <2>9. b \in EventsHere
    BY <2>1, <2>6, <2>7, <2>8 DEF FilledIn
  <2> QED BY <2>1, <2>9 DEF EventsHere
<1> QED BY <1>1, Inductive, ServedInductive, PTL
=============================================================================
