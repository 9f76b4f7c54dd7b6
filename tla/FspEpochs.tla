----------------------------- MODULE FspEpochs ------------------------------
(***************************************************************************)
(* From which block FSP mode needs blocks and events, and below which      *)
(* timestamp it may delete (internal/fsp/epochs.go): functions of what the *)
(* FlareSystemsManager contract has recorded.  The contract is read at the *)
(* newest block, confirmed or not, and what it has recorded of an epoch    *)
(* that has begun never changes, so the block it is read at stands for the *)
(* several calls of one decision.                                          *)
(***************************************************************************)
EXTENDS HistoryDrop

CONSTANTS
    StartedEpochs,                   \* the epochs with start data, once they begin
    RewardEpochStartBlock(_),        \* the block at which an epoch begins
    RandomAcquisitionStartBlock(_),  \* that of its first event, 0 if not recorded
    BootstrapEpoch,                  \* the current epoch before any of them
    TxLookback,                      \* fspTxLookbackSeconds
    EventLeadBlocks,                 \* fspEventLeadBlocks
    EventLeadSeconds,                \* fspEventLeadSeconds
    RetentionMargin                  \* retentionMarginSeconds

\* The contract records an epoch's events before its start, and epochs start
\* in order.
ASSUME FspEpochsAssumption ==
    /\ StartedEpochs \subseteq Nat
    /\ BootstrapEpoch \in Nat
    /\ \A e \in StartedEpochs :
          /\ BootstrapEpoch <= e
          /\ RewardEpochStartBlock(e) \in Block
          /\ BlockTime(RewardEpochStartBlock(e)) # 0
          /\ RandomAcquisitionStartBlock(e) \in 0 .. RewardEpochStartBlock(e)
    /\ \A d, e \in StartedEpochs :
          d < e => RewardEpochStartBlock(d) < RewardEpochStartBlock(e)
    /\ TxLookback \in Nat /\ RetentionMargin \in Nat
    /\ EventLeadBlocks \in Nat /\ EventLeadSeconds \in Nat

\* Mutant: the subtraction is not guarded.
UnguardedSub(a, b) == a - b

SaturatingSub(a, b) == IF a <= b THEN 0 ELSE a - b

\* GetRewardEpochStartInfo at block h returns a timestamp, not zero.
HasStartData(e, h) == e \in StartedEpochs /\ RewardEpochStartBlock(e) <= h

\* GetCurrentRewardEpochId at block h.
CurrentRewardEpochId(h) ==
    CHOOSE e \in StartedEpochs \cup {BootstrapEpoch} :
        /\ e = BootstrapEpoch \/ HasStartData(e, h)
        /\ \A d \in StartedEpochs : HasStartData(d, h) => d <= e

\* The first of the epochs lo .. hi that has start data, as a set of at most one.
OldestWithData(lo, hi, h) ==
    {e \in lo .. hi : /\ HasStartData(e, h)
                      /\ \A d \in lo .. hi : HasStartData(d, h) => e <= d}

\* A window of no epochs is the current epoch.
HistoryStartEpochId(current, historyEpochs) ==
    SaturatingSub(current, SaturatingSub(historyEpochs, 1))

\* resolveStartEpoch.
StartEpoch(historyEpochs, h) ==
    LET current == CurrentRewardEpochId(h)
    IN  OldestWithData(HistoryStartEpochId(current, historyEpochs), current, h)

-----------------------------------------------------------------------------
(***************************************************************************)
(* The event anchor                                                        *)
(***************************************************************************)

Anchor(block, timestamp) == [block |-> block, timestamp |-> timestamp]

\* What was recorded of the epoch's first event, or else a nominal lead.
EpochAnchor(e) ==
    LET first == RandomAcquisitionStartBlock(e)
        start == RewardEpochStartBlock(e)
    IN  IF first # 0
        THEN Anchor(first, BlockTime(first))
        ELSE Anchor(SaturatingSub(start, EventLeadBlocks),
                    SaturatingSub(BlockTime(start), EventLeadSeconds))

\* fspEventAnchor: of the epoch two before, or the next one up with data.
EventAnchor(startEpoch, h) ==
    {EpochAnchor(e) : e \in OldestWithData(SaturatingSub(startEpoch, 2), startEpoch, h)}

\* Mutant: the anchor of the oldest epoch served, not of the one two before it.
RetentionBoundaryAtServed(historyEpochs, h) ==
    LET oldest == HistoryStartEpochId(CurrentRewardEpochId(h), historyEpochs)
    IN  IF HasStartData(oldest, h) THEN EpochAnchor(oldest).timestamp ELSE 0

\* fspRetentionBoundary: a margin below the anchor of the configured window,
\* which is not moved up to where the data begins; 0 without an anchor.
RetentionBoundary(historyEpochs, h) ==
    LET current == CurrentRewardEpochId(h)
        anchor == EventAnchor(HistoryStartEpochId(current, historyEpochs), h)
    IN  IF anchor = {} THEN 0
        ELSE SaturatingSub((CHOOSE a \in anchor : TRUE).timestamp, RetentionMargin)

-----------------------------------------------------------------------------
(***************************************************************************)
(* Where a start indexes from                                              *)
(***************************************************************************)

\* findStartBlockByLookback.
LookbackFrom(base) ==
    IF base = 0 THEN {0}
    ELSE Nearest(SaturatingSub(BlockTime(base), TxLookback), 0, base)

\* resolveFullStartBlock, with the contract read at block h: the epochs whose
\* start is above the confirmed tip, and deployments without data, have cases
\* of their own.
FullStartBlock(historyEpochs, tip, h) ==
    LET oldest == StartEpoch(historyEpochs, h)
    IN  IF historyEpochs = 0 \/ oldest = {} THEN LookbackFrom(tip)
        ELSE UNION {IF RewardEpochStartBlock(e) > tip THEN {tip}
                    ELSE LookbackFrom(RewardEpochStartBlock(e)) : e \in oldest}

\* The epoch the event backfill is anchored on.
ServedFrom(historyEpochs, h) ==
    LET oldest == StartEpoch(historyEpochs, h)
    IN  IF historyEpochs = 0 \/ oldest = {} THEN CurrentRewardEpochId(h)
        ELSE CHOOSE e \in oldest : TRUE

\* fspEventBackfillAnchor.
EventBackfillAnchor(historyEpochs, h) == EventAnchor(ServedFrom(historyEpochs, h), h)
=============================================================================
