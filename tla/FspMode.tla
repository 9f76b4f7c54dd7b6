------------------------------ MODULE FspMode -------------------------------
(***************************************************************************)
(* FSP mode (internal/fsp/startup.go, runtime.go, backfill_events.go): a   *)
(* start plans from the contract where full indexing and event coverage    *)
(* begin, requests the logs in between, catches up, and goes on as full    *)
(* mode does, with another retention boundary.  history_epochs may be      *)
(* configured anew whenever the process is started.                        *)
(*                                                                         *)
(* A plan's start moves up with the chain, and it does not look at what    *)
(* lies between the coverage rows and its start.  The blocks it passes     *)
(* over that way are kept in two history variables.                        *)
(***************************************************************************)
EXTENDS FspEpochs

CONSTANTS
    EpochChoices,   \* the values of indexer.history_epochs
    LogRange,       \* indexer.log_range
    EventBlocks     \* the blocks with logs of FspRewardEpochLogs, which are the
                    \* logs a backfill requests: others come with their block only

ASSUME FspModeAssumption ==
    /\ EpochChoices \subseteq Nat /\ EpochChoices # {}
    /\ LogRange \in Nat \ {0}
    /\ EventBlocks \subseteq LogBlocks

VARIABLES
    historyEpochs,  \* what this process is configured with
    planTip,        \* latestConfirmedNumber
    fullStart,      \* fullStartBlock
    eventStart,     \* eventStartBlock, once there is an anchor
    anchored,       \* haveEventAnchor
    passedBlocks,   \* history variable: blocks between what is there and a plan's
                    \* start
    passedLogs      \* history variable: blocks that a plan left without their logs
                    \* where its rows may come to claim them

planVars == <<historyEpochs, planTip, fullStart, eventStart, anchored>>
passedVars == <<passedBlocks, passedLogs>>
fspVars == <<engineVars, dropVars, planVars, passedVars>>

StartupPc == {"start", "plan_epochs", "plan_states", "backfill", "log_floor", "caught_up"}

\* What the log floor claims, beside the blocks: logs up to the top.
LogClaimed(b) ==
    /\ states["LogFloor"].exists /\ states["LastIndexed"].exists
    /\ states["LogFloor"].index <= b /\ b <= states["LastIndexed"].index

-----------------------------------------------------------------------------
(***************************************************************************)
(* IndexStartup                                                            *)
(***************************************************************************)

\* FetchLastBlockIndex, which publishes nothing.
PlanTip ==
    /\ pc = "start"
    /\ Confirmed
    /\ planTip' = Tip
    /\ pc' = "plan_epochs"
    /\ UNCHANGED <<head, rows, states, cursor, ixEnd, plan, synced, faults>>
    /\ UNCHANGED <<dropVars, historyEpochs, fullStart, eventStart, anchored, passedVars>>

\* resolveFullStartBlock and fspEventBackfillAnchor: the contract is read at
\* the newest block, which may have moved on from the tip.
PlanEpochs ==
    /\ pc = "plan_epochs"
    /\ fullStart' \in FullStartBlock(historyEpochs, planTip, head)
    /\ LET anchor == EventBackfillAnchor(historyEpochs, head)
       IN  \/ /\ anchor = {}
              /\ anchored' = FALSE
              /\ eventStart' = 0
           \/ /\ anchored' = TRUE
              /\ \E a \in anchor : eventStart' = a.block
    /\ pc' = "plan_states"
    /\ UNCHANGED <<head, rows, states, cursor, ixEnd, plan, synced, faults>>
    /\ UNCHANGED <<dropVars, historyEpochs, planTip, passedVars>>

\* Mutant: the top alone decides.
ResumesBelowTop ==
    LET last == states["LastIndexed"]
    IN  IsSet(last) /\ fullStart <= last.index

\* The coverage rows take in the planned start.
Resumes ==
    LET first == states["BlockFloor"] last == states["LastIndexed"]
    IN  /\ IsSet(first) /\ IsSet(last)
        /\ first.index <= fullStart /\ fullStart <= last.index

BackfillsEvents ==
    /\ anchored
    /\ eventStart < fullStart
    /\ IsSet(states["LogFloor"]) => states["LogFloor"].index > eventStart

\* Mutant: a catch-up of one block is left out.
AfterBackfillStrict(from) == IF from < planTip THEN "hist_range" ELSE "caught_up"

\* What follows the backfill: the catch-up, unless it starts above the tip.
AfterBackfill(from) == IF from <= planTip THEN "hist_range" ELSE "caught_up"

\* What a plan that starts at a block leaves out above what is there: the top,
\* or, before any run has published one, whatever is stored or claimed.
PassedOver(from) ==
    LET first == states["BlockFloor"] last == states["LastIndexed"]
        there == stored \cup (IF first.exists THEN {first.index} ELSE {})
    IN  {b \in Block : /\ b < from
                       /\ IF last.exists THEN last.index < b
                          ELSE \E a \in there : a <= b}

\* The three rows are read, and the plan is settled.
PlanStates ==
    /\ pc = "plan_states"
    /\ startIndex' = IF Resumes THEN states["LastIndexed"].index + 1 ELSE fullStart
    /\ IF BackfillsEvents
       THEN /\ cursor' = eventStart /\ ixEnd' = fullStart - 1
            /\ pc' = "backfill"
            /\ passedLogs' = passedLogs \cup
                  (PassedOver(startIndex') \ (eventStart .. fullStart - 1))
       ELSE /\ cursor' = 0 /\ ixEnd' = 0
            /\ pc' = AfterBackfill(startIndex')
            /\ passedLogs' = passedLogs \cup
                  {b \in Block : b < startIndex' /\ ~Claimed(b) /\ ~LogClaimed(b)}
    /\ passedBlocks' = passedBlocks \cup PassedOver(startIndex')
    /\ UNCHANGED <<head, rows, states, histLast, synced, faults>>
    /\ UNCHANGED <<dropVars, planVars>>

\* Mutant: the last chunk ends one block short.
ChunkEndShort == Lesser(cursor + LogRange - 1, ixEnd - 1)

ChunkEnd == Lesser(cursor + LogRange - 1, ixEnd)

\* One request for logs of the chunk, and one transaction if there are any.
BackfillChunk ==
    /\ pc = "backfill"
    /\ rows' = [rows EXCEPT !["logs"] = @ \cup (EventBlocks \cap (cursor .. ChunkEnd))]
    /\ cursor' = cursor + LogRange
    /\ pc' = IF cursor' <= ixEnd THEN "backfill" ELSE "log_floor"
    /\ UNCHANGED <<head, states, ixEnd, plan, synced, faults>>
    /\ UNCHANGED <<dropVars, planVars, passedVars>>

\* What a log floor at a block takes in that nothing claimed before: logs up to
\* the top, from blocks the catch-up may only be about to index.
TakenIn(floor) ==
    {b \in Block : /\ states["LastIndexed"].exists
                   /\ floor <= b /\ b <= states["LastIndexed"].index
                   /\ ~Claimed(b) /\ ~LogClaimed(b)}

\* The log floor, once all chunks are in: from now on it claims them.
WriteLogFloor ==
    /\ pc = "log_floor"
    /\ states' = UpdateState(states, "LogFloor", eventStart, BlockTime(eventStart))
    /\ passedLogs' = (passedLogs \cup TakenIn(eventStart)) \ (eventStart .. fullStart - 1)
    /\ pc' = AfterBackfill(startIndex)
    /\ UNCHANGED <<head, rows, cursor, ixEnd, plan, synced, faults>>
    /\ UNCHANGED <<dropVars, planVars, passedBlocks>>

\* Nothing to catch up with: the top is the tip the plan was made at.
NothingToCatchUp ==
    /\ pc = "caught_up"
    /\ histLast' = planTip
    /\ synced' = TRUE
    /\ pc' = "cont_start"
    /\ DropStarts
    /\ UNCHANGED <<head, rows, states, cursor, ixEnd, startIndex, faults>>
    /\ UNCHANGED <<planVars, passedVars>>

-----------------------------------------------------------------------------
(***************************************************************************)
(* The runs                                                                *)
(***************************************************************************)

\* Indexed blocks are no longer passed over.
Indexes(lo, hi) ==
    /\ passedBlocks' = passedBlocks \ (lo .. hi)
    /\ passedLogs' = passedLogs \ (lo .. hi)
    /\ UNCHANGED <<dropVars, planVars>>

IndexBatch == HistoryBatch /\ Indexes(cursor, LastInRound)
IndexBlock == ContinuousBlock /\ Indexes(cursor, cursor)

\* Retention is always on in FSP mode.
GoContinuous == HistoryReturns /\ DropStarts /\ UNCHANGED <<planVars, passedVars>>

Finish == ContinuousReturns /\ DropEnds /\ UNCHANGED <<planVars, passedVars>>

IndexingStep ==
    /\ \/ HistoryRange
       \/ HistoryStates
       \/ HistoryExtend
       \/ ContinuousStart
       \/ ContinuousRange
       \/ ContinuousPoll
       \/ ContinuousStates
    /\ UNCHANGED <<dropVars, planVars, passedVars>>

\* A process starts, perhaps with another history_epochs.
StartProcess ==
    /\ ProcessStarts
    /\ historyEpochs' \in EpochChoices
    /\ UNCHANGED <<planTip, fullStart, eventStart, anchored, dropVars, passedVars>>

\* Any error before the continuous run: boff runs IndexStartup again, and the
\* plan is made anew.
StartupFails ==
    /\ pc \in StartupPc \cup HistoryPc
    /\ faults < MaxFaults
    /\ faults' = faults + 1
    /\ pc' = "start"
    /\ UNCHANGED <<head, rows, states, cursor, ixEnd, plan, synced>>
    /\ UNCHANGED <<dropVars, planVars, passedVars>>

ForgetsPlan ==
    /\ planTip' = 0
    /\ fullStart' = 0
    /\ eventStart' = 0
    /\ anchored' = FALSE
    /\ UNCHANGED <<historyEpochs, passedVars>>

Fault ==
    \/ StartupFails
    \/ ContinuousFails /\ UNCHANGED <<dropVars, planVars, passedVars>>
    \/ DropFails /\ UNCHANGED <<planVars, passedVars>>
    \/ ProcessEnds /\ DropEnds /\ ForgetsPlan

Dropping ==
    /\ \/ DropResolves(RetentionBoundary(historyEpochs, head))
       \/ DropDeletes
       \/ DropStep
    /\ UNCHANGED <<planVars, passedVars>>

Chain == ChainGrows /\ UNCHANGED <<dropVars, planVars, passedVars>>

Startup ==
    \/ PlanTip \/ PlanEpochs \/ PlanStates
    \/ BackfillChunk \/ WriteLogFloor \/ NothingToCatchUp

Process ==
    \/ StartProcess \/ Startup
    \/ IndexBatch \/ IndexBlock \/ GoContinuous \/ Finish \/ IndexingStep

\* A finished process is not started again.
Done == pc = "finished" /\ UNCHANGED fspVars

Next == Chain \/ Process \/ Dropping \/ Fault \/ Done

Init ==
    /\ EngineInit
    /\ DropInit
    /\ historyEpochs \in EpochChoices
    /\ planTip = 0 /\ fullStart = 0 /\ eventStart = 0 /\ anchored = FALSE
    /\ passedBlocks = {} /\ passedLogs = {}

Spec == Init /\ [][Next]_fspVars

\* As in full mode.
FairSpec ==
    /\ Spec
    /\ WF_fspVars(Process)
    /\ WF_fspVars(Dropping)
    /\ WF_fspVars(Chain)

-----------------------------------------------------------------------------
(***************************************************************************)
(* Properties                                                              *)
(***************************************************************************)

TypeOK ==
    /\ head \in Block
    /\ rows \in [Table -> SUBSET Block]
    /\ \A t \in Table : rows[t] \subseteq Content(t)
    /\ states \in [StateName -> RowType]
    /\ pc \in EnginePc \cup StartupPc
    /\ cursor \in Nat /\ ixEnd \in Nat /\ startIndex \in Nat /\ histLast \in Nat
    /\ synced \in BOOLEAN
    /\ faults \in 0 .. MaxFaults
    /\ dpc \in DropPc
    /\ dtable \in Table
    /\ boundary \in Nat /\ horizon \in Nat /\ dfirst \in Block
    /\ historyEpochs \in EpochChoices
    /\ planTip \in Block /\ fullStart \in Block /\ eventStart \in Block
    /\ anchored \in BOOLEAN
    /\ passedBlocks \subseteq Block /\ passedLogs \subseteq Block

\* Whatever epochs, outages, reconfigurations and deletions interleave, a block
\* between the two coverage rows is in all three tables unless it is past
\* retention or a plan passed over it (startup.go:67-73, WriteCoverageStates).
CoverageSound ==
    \A b \in Block : Claimed(b) /\ BlockTime(b) >= horizon /\ b \notin passedBlocks
                        => Covered(b)

Ledger == INSTANCE CoverageLedger WITH
    Blocks <- Block,
    covered <- CoveredBlocks,
    excused <- PastRetention \cup passedBlocks,
    floor <- ClaimedFrom,
    top <- ClaimedTo

\* FSP mode is the coverage ledger that full mode is, with the blocks a plan
\* passes over given up beside those past retention, and taken back only by
\* being indexed (startup.go:65-73, states.go:120-157).
ImplementsLedger == Ledger!Spec

\* The same of the FSP events from the log floor on, but for those a plan left
\* without their logs or without the catch-up that was to bring them
\* (startup.go:78-104).
LogFloorSound ==
    \A b \in EventBlocks : LogClaimed(b) /\ BlockTime(b) >= horizon /\ b \notin passedLogs
                            => b \in rows["logs"]

\* GET /health turns ready only over the plan: all blocks from where the
\* catch-up started, each with its transactions and logs unless deletion had
\* got to it before, and all FSP events from the event anchor on.
ReadyMeansPlanDone ==
    [][~synced /\ synced' =>
        /\ \A b \in startIndex .. histLast' :
              b \in rows["blocks"] /\ (Covered(b) \/ BlockTime(b) < horizon)
        /\ \A b \in fullStart .. histLast' :
              Covered(b) \/ b \in passedBlocks \/ BlockTime(b) < horizon
        /\ anchored => \A b \in EventBlocks \cap (eventStart .. histLast') :
              b \in rows["logs"] \/ b \in passedLogs \/ BlockTime(b) < horizon]_fspVars

\* Deletion slides along with the epochs and stays below what a plan of the
\* same moment would backfill (the comment on fspRetentionBoundary).
RetentionKeepsBackfill ==
    [][dpc = "idle" /\ dpc' = "delete" =>
        \A a \in EventBackfillAnchor(historyEpochs, head) :
            boundary' <= BlockTime(a.block)]_fspVars

\* The events from the anchor of the epochs now served on stay in the database
\* while the process is ready: what its plan backfilled, retention keeps.
EventsServed ==
    synced /\ anchored =>
        \A a \in EventBackfillAnchor(historyEpochs, head) :
            \A b \in EventBlocks \ passedLogs :
                /\ eventStart <= b /\ a.block <= b
                /\ b <= histLast
                => b \in rows["logs"]

\* The index catches up with the confirmed tip again and again: a start, with
\* its plan, its chunks and its catch-up, is left for the continuous run.
CatchesUp ==
    []<>(Confirmed /\ states["LastIndexed"].index = Tip /\ pc \in ContinuousPc)

\* What the coverage rows claim, with no allowance for what plans passed over:
\* from the block floor on everything is indexed (states.go:22-24).
FloorGuarantee == \A b \in Block : Claimed(b) /\ BlockTime(b) >= horizon => Covered(b)

\* The states follow the data: once the coverage rows take in a batch, all of
\* it is in the database (the comment in saveData, database.go:63-64).
StatesUnderstate ==
    [][HistoryStates => \A b \in cursor .. LastInRound : Covered(b)]_fspVars

\* A plan leaves the backfill out only where the region is already covered
\* (the comment in IndexStartup, startup.go:75-78).
SkipsOnlyCovered ==
    [][PlanStates /\ anchored /\ eventStart < fullStart /\ ~BackfillsEvents
        => \A b \in EventBlocks \cap (eventStart .. fullStart - 1) :
              b \in rows["logs"] \/ BlockTime(b) < horizon]_fspVars
=============================================================================
