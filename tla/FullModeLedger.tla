--------------------------- MODULE FullModeLedger ---------------------------
(***************************************************************************)
(* Full mode implements the coverage ledger: every step is a step of the   *)
(* ledger or leaves it alone.  What the steps that move the coverage rows  *)
(* rest on is the inductive invariant, after the step.                     *)
(***************************************************************************)
EXTENDS FullModeProofs

\* The coverage rows, read as the ledger reads them.
LEMMA RowsRead ==
    ASSUME TypeOK
    PROVE  /\ ClaimedFrom = (IF First.exists THEN First.index ELSE -1)
           /\ ClaimedTo = (IF Last.exists THEN Last.index ELSE -1)
           /\ First.index \in Nat /\ Last.index \in Nat
<1>1. First.index \in Nat /\ Last.index \in Nat
  BY Numbers
<1> QED BY <1>1 DEF ClaimedFrom, ClaimedTo, RowIndex, First, Last

\* A step that leaves the rows, the coverage rows and the horizon alone.
LEMMA LedgerUntouched ==
    ASSUME rows' = rows, First' = First, Last' = Last, horizon' = horizon
    PROVE  UNCHANGED Ledger!ledger
<1>1. CoveredBlocks' = CoveredBlocks /\ PastRetention' = PastRetention
  BY DEF CoveredBlocks, Covered, PastRetention
<1>2. ClaimedFrom' = ClaimedFrom /\ ClaimedTo' = ClaimedTo
  BY DEF ClaimedFrom, ClaimedTo, RowIndex, First, Last
<1> QED BY <1>1, <1>2 DEF Ledger!ledger

\* What CoverageSound says in the ledger's words.
LEMMA RowsSound ==
    IInv => (ClaimedFrom # -1 /\ ClaimedTo # -1
                => ClaimedFrom .. ClaimedTo \subseteq CoveredBlocks \cup PastRetention)
<1> SUFFICES ASSUME IInv, ClaimedFrom # -1, ClaimedTo # -1,
                    NEW b \in ClaimedFrom .. ClaimedTo
             PROVE  b \in CoveredBlocks \cup PastRetention
  OBVIOUS
<1>1. /\ First.exists /\ Last.exists
      /\ ClaimedFrom = First.index /\ ClaimedTo = Last.index
      /\ First.index \in Nat /\ Last.index \in Nat
  BY RowsRead DEF IInv
<1>2. Last.index \in Block
  BY <1>1 DEF IInv, RowsStored
<1>3. b \in Block /\ First.index <= b /\ b <= Last.index
  BY <1>1, <1>2, EngineAssumption DEF Block
<1>4. Claimed(b)
  BY <1>1, <1>3 DEF Claimed, First, Last
<1>5. BlockTime(b) \in Int /\ horizon \in Int
  BY <1>3, Numbers DEF IInv
<1>6. BlockTime(b) >= horizon => Covered(b)
  BY <1>3, <1>4, CoverageFromInvariant DEF CoverageSound
<1> QED BY <1>3, <1>5, <1>6 DEF CoveredBlocks, PastRetention

LEMMA RowsSoundAfter ==
    IInv' => (ClaimedFrom # -1 /\ ClaimedTo # -1
                => ClaimedFrom .. ClaimedTo \subseteq CoveredBlocks \cup PastRetention)'
BY RowsSound, PTL

-----------------------------------------------------------------------------
(***************************************************************************)
(* The steps that move the coverage rows.                                  *)
(***************************************************************************)

\* The states transaction of a batch is the ledger's Publish.
LEMMA Publishes ==
    ASSUME IInv, IInv', NEW lo \in Block, NEW hi \in Block, lo <= hi,
           PublishCoverage(lo, hi), rows' = rows, horizon' = horizon
    PROVE  Ledger!Publish
<1>1. /\ TypeOK /\ MissingRows /\ states \in [StateName -> RowType]
      /\ lo \in Nat /\ hi \in Nat /\ BlockTime(lo) \in Nat /\ BlockTime(hi) \in Nat
  <2>1. TypeOK /\ MissingRows
    BY DEF IInv
  <2> QED BY <2>1, EngineAssumption DEF TypeOK, Block
<1>2. Last'.exists /\ Last'.index = hi /\ First'.exists
  BY <1>1, CoveragePublished, Typed
<1>3. First'.index = IF ~First.exists \/ lo < First.index THEN lo ELSE First.index
  BY <1>1, Typed, FloorPublished
<1>4. /\ ClaimedFrom = (IF First.exists THEN First.index ELSE -1)
      /\ First.index \in Nat
  BY <1>1, RowsRead
<1>5. ClaimedFrom' = First'.index /\ ClaimedTo' = hi
  BY <1>2 DEF ClaimedFrom, ClaimedTo, RowIndex, First, Last
<1>6. ClaimedFrom' = IF ClaimedFrom = -1 \/ lo < ClaimedFrom THEN lo ELSE ClaimedFrom
  BY <1>1, <1>3, <1>4, <1>5
<1>7. CoveredBlocks' = CoveredBlocks /\ PastRetention' = PastRetention
  BY DEF CoveredBlocks, Covered, PastRetention
<1>8. ClaimedFrom' # -1 /\ ClaimedTo' # -1
  BY <1>1, <1>3, <1>4, <1>5
<1>9. ClaimedFrom' .. hi \subseteq CoveredBlocks \cup PastRetention
  BY <1>5, <1>7, <1>8, RowsSoundAfter
<1> QED BY <1>5, <1>6, <1>7, <1>9 DEF Ledger!Publish, Ledger!Accounted, Ledger!Unset

\* A floor raised by the deletion loop is the ledger's MoveFloor.
LEMMA FloorMoves ==
    ASSUME IInv, IInv', DropRaisesFloor
    PROVE  Ledger!MoveFloor \/ UNCHANGED Ledger!ledger
<1>1. /\ TypeOK /\ MissingRows /\ states \in [StateName -> RowType]
      /\ dfirst \in Block /\ dfirst \in Nat /\ BlockTime(dfirst) \in Nat
  <2>1. TypeOK /\ MissingRows
    BY DEF IInv
  <2>2. states \in [StateName -> RowType] /\ dfirst \in Block
    BY <2>1 DEF TypeOK
  <2>3. dfirst \in Nat /\ BlockTime(dfirst) \in Nat
    BY <2>2, EngineAssumption DEF Block
  <2> QED BY <2>1, <2>2, <2>3
<1>2. /\ rows' = rows /\ horizon' = horizon
      /\ states' = UpdateState(states, Floor(dtable), dfirst, BlockTime(dfirst))
  BY DEF DropRaisesFloor
<1>3. CASE dtable = "logs"
  <2>1. /\ "LogFloor" \in StateName
        /\ "BlockFloor" \in StateName \ {"LogFloor"}
        /\ "LastIndexed" \in StateName \ {"LogFloor"}
    BY DEF StateName
  <2>2. Floor(dtable) = "LogFloor"
    BY <1>3 DEF Floor
  <2>3. states'["BlockFloor"] = states["BlockFloor"] /\ states'["LastIndexed"] = states["LastIndexed"]
    BY <1>1, <1>2, <2>1, <2>2, UpdateRows
  <2> QED BY <1>2, <2>3, LedgerUntouched DEF First, Last
<1>4. CASE dtable # "logs"
  <2>1. /\ "BlockFloor" \in StateName
        /\ "LastIndexed" \in StateName \ {"BlockFloor"}
    BY DEF StateName
  <2>2. Floor(dtable) = "BlockFloor"
    BY <1>4 DEF Floor
  <2>3. states'["BlockFloor"] = Row(dfirst, BlockTime(dfirst))
        /\ states'["LastIndexed"] = states["LastIndexed"]
    BY <1>1, <1>2, <2>1, <2>2, UpdateRows
  <2>4. ClaimedFrom' = dfirst /\ ClaimedTo' = ClaimedTo /\ ClaimedFrom' # -1
    BY <1>1, <2>3 DEF ClaimedFrom, ClaimedTo, RowIndex, Row
  <2>5. CoveredBlocks' = CoveredBlocks /\ PastRetention' = PastRetention
    BY <1>2 DEF CoveredBlocks, Covered, PastRetention
  <2>6. ClaimedTo # -1 => dfirst .. ClaimedTo \subseteq CoveredBlocks \cup PastRetention
    BY <2>4, <2>5, RowsSoundAfter
  <2> QED
    BY <1>1, <2>4, <2>5, <2>6 DEF Ledger!MoveFloor, Ledger!Accounted, Ledger!Unset
<1> QED BY <1>3, <1>4

-----------------------------------------------------------------------------
(***************************************************************************)
(* The steps that move rows, or give blocks up.                            *)
(***************************************************************************)

\* The data transaction of a batch is the ledger's Index.
LEMMA Inserts ==
    ASSUME TypeOK, NEW lo, NEW hi, Insert(lo, hi),
           states' = states, horizon' = horizon
    PROVE  Ledger!Index
<1>1. \A t \in Table : rows[t] \subseteq rows'[t]
  BY DEF Insert
<1>2. CoveredBlocks \subseteq CoveredBlocks'
  BY <1>1 DEF CoveredBlocks, Covered
<1>3. PastRetention' = PastRetention
  BY DEF PastRetention
<1>4. ClaimedFrom' = ClaimedFrom /\ ClaimedTo' = ClaimedTo
  BY DEF ClaimedFrom, ClaimedTo
<1> QED BY <1>2, <1>3, <1>4 DEF Ledger!Index

\* A deletion is the ledger's Forget.
LEMMA Forgets ==
    ASSUME IInv, DeleteRows
    PROVE  Ledger!Forget
<1>1. states' = states /\ horizon' = horizon
  BY DEF DeleteRows, DropDeletes, dropVars
<1>2. PastRetention' = PastRetention /\ ClaimedFrom' = ClaimedFrom /\ ClaimedTo' = ClaimedTo
  BY <1>1 DEF PastRetention, ClaimedFrom, ClaimedTo
<1>3. CoveredBlocks' \subseteq CoveredBlocks
  BY RowsDeleted DEF CoveredBlocks, Covered
<1>4. CoveredBlocks \ CoveredBlocks' \subseteq PastRetention
  BY RowsDeleted DEF CoveredBlocks, Covered, PastRetention
<1> QED BY <1>2, <1>3, <1>4 DEF Ledger!Forget

\* A boundary that rises is the ledger's Excuse.
LEMMA Excuses ==
    ASSUME TypeOK, rows' = rows, states' = states, horizon' \in Int, horizon <= horizon'
    PROVE  Ledger!Excuse
<1>1. CoveredBlocks' = CoveredBlocks
  BY DEF CoveredBlocks, Covered
<1>2. PastRetention \subseteq PastRetention'
  <2>1. \A b \in Block : BlockTime(b) \in Int /\ horizon \in Int
    BY Numbers
  <2> QED BY <2>1 DEF PastRetention
<1>3. ClaimedFrom' = ClaimedFrom /\ ClaimedTo' = ClaimedTo
  BY DEF ClaimedFrom, ClaimedTo
<1> QED BY <1>1, <1>2, <1>3 DEF Ledger!Excuse

\* Where a process starts, the horizon rises or stays.
LEMMA StartRaisesHorizon ==
    ASSUME TypeOK, Start
    PROVE  horizon' \in Int /\ horizon <= horizon'
<1>1. horizon \in Int /\ BlockTime(head) \in Int
  BY Numbers, EngineAssumption
<1>2. TipAgeBoundary \in Int
  BY <1>1, FullModeAssumption DEF TipAgeBoundary
<1>3. GivenUp(startIndex') \in Int
  BY <1>2 DEF GivenUp
<1>4. CASE horizon' = horizon
  BY <1>1, <1>4
<1>5. CASE horizon' = Higher(horizon, GivenUp(startIndex'))
  BY <1>1, <1>3, <1>5 DEF Higher
<1> QED BY <1>4, <1>5 DEF Start, StartAfterLastRow, StartAsConfigured, StartInsideInterval

-----------------------------------------------------------------------------
(***************************************************************************)
(* The theorem.                                                            *)
(***************************************************************************)

LEMMA ProcessInLedger ==
    ASSUME IInv, IInv', Process
    PROVE  Ledger!Next \/ UNCHANGED Ledger!ledger
<1> USE DEF plan, dropVars
<1>1. TypeOK /\ MissingRows
  BY DEF IInv
<1>2. CASE Start
  BY <1>1, <1>2, Excuses, StartRaisesHorizon DEF Start, Ledger!Next
<1>3. CASE IndexBatch
  BY <1>1, <1>3, Inserts DEF IndexBatch, HistoryBatch, Ledger!Next
<1>4. CASE IndexBlock
  BY <1>1, <1>4, Inserts DEF IndexBlock, ContinuousBlock, Ledger!Next
<1>5. CASE HistoryStates /\ UNCHANGED horizon
  <2>1. /\ cursor \in Block /\ LastInRound \in Block /\ cursor <= LastInRound
    <3>1. pc = "hist_states" /\ cursor \in Nat /\ ixEnd \in Int /\ BatchSize \in Nat
          /\ BatchSize > 0 /\ head \in Block /\ MaxBlock \in Nat
      BY <1>1, <1>5, Numbers, EngineAssumption DEF HistoryStates
    <3>2. cursor <= ixEnd /\ ixEnd <= head
      BY <3>1 DEF IInv, Ranges
    <3> QED BY <3>1, <3>2 DEF LastInRound, Lesser, Block
  <2> QED BY <1>5, <2>1, Publishes DEF HistoryStates, Ledger!Next
<1>6. CASE ContinuousStates /\ UNCHANGED horizon
  <2>1. cursor \in Block /\ cursor <= cursor
    <3>1. pc = "cont_states" /\ cursor \in Nat /\ ixEnd \in Int /\ head \in Block
          /\ MaxBlock \in Nat
      BY <1>1, <1>6, Numbers, EngineAssumption DEF ContinuousStates
    <3>2. cursor <= ixEnd /\ ixEnd <= head
      BY <3>1 DEF IInv, Ranges
    <3> QED BY <3>1, <3>2 DEF Block
  <2> QED BY <1>6, <2>1, Publishes DEF ContinuousStates, Ledger!Next
<1>7. CASE ObserveTip /\ UNCHANGED <<rows, horizon>>
  BY <1>1, <1>7, TipObserved, Typed, LedgerUntouched
<1>8. CASE UNCHANGED <<rows, states, horizon>>
  BY <1>8, LedgerUntouched DEF First, Last
<1> QED
  BY <1>2, <1>3, <1>4, <1>5, <1>6, <1>7, <1>8
     DEF Process, GoContinuous, DropStarts, HistoryReturns, Finish, DropEnds,
         ContinuousReturns, IndexingStep, HistoryRange, HistoryExtend, ContinuousStart,
         ContinuousRange, ContinuousPoll, ProcessStarts

LEMMA DroppingInLedger ==
    ASSUME IInv, IInv', Dropping
    PROVE  Ledger!Next \/ UNCHANGED Ledger!ledger
<1>1. CASE DeleteRows
  BY <1>1, Forgets DEF Ledger!Next
<1>2. CASE DropResolves(TipAgeBoundary)
  <2>1. TypeOK /\ horizon \in Int /\ BlockTime(head) \in Int
    BY Numbers, EngineAssumption DEF IInv
  <2>2. TipAgeBoundary \in Int
    BY <2>1, FullModeAssumption DEF TipAgeBoundary
  <2>3. /\ rows' = rows /\ states' = states
        /\ horizon' = Higher(horizon, TipAgeBoundary)
    BY <1>2 DEF DropResolves, engineVars
  <2>4. horizon' \in Int /\ horizon <= horizon'
    BY <2>1, <2>2, <2>3 DEF Higher
  <2> QED BY <2>1, <2>3, <2>4, Excuses DEF Ledger!Next
<1>3. CASE DropRaisesFloor
  BY <1>3, FloorMoves DEF Ledger!Next
<1>4. CASE UNCHANGED <<rows, states, horizon>>
  BY <1>4, LedgerUntouched DEF First, Last
<1> QED
  BY <1>1, <1>2, <1>3, <1>4
     DEF Dropping, DropStep, DropTableDone, DropChecksFloor, DropFindsFirst, engineVars

LEMMA OthersInLedger ==
    ASSUME Chain \/ Fault \/ Done \/ UNCHANGED fullVars
    PROVE  UNCHANGED Ledger!ledger
<1>1. UNCHANGED <<rows, states, horizon>>
  BY DEF Chain, ChainGrows, Fault, HistoryFails, ContinuousFails, DropFails,
         ProcessEnds, DropEnds, Done, fullVars, engineVars, dropVars
<1> QED BY <1>1, LedgerUntouched DEF First, Last

\* Full mode is a coverage ledger, for every chain, batch size, interval and
\* number of faults: rows are claimed once they are in, deleted once they are
\* past retention, and nothing else moves the coverage rows (states.go:14-36).
THEOREM FullModeIsLedger ==
    ASSUME StartIndexAsDocumented
    PROVE  Spec => ImplementsLedger
<1>1. Init => Ledger!Init
  <2> SUFFICES ASSUME Init PROVE Ledger!Init
    OBVIOUS
  <2>1. "blocks" \in Table /\ Content("blocks") = Block /\ rows["blocks"] = {}
    BY DEF Init, EngineInit, Table, Content
  <2>2. CoveredBlocks = {}
    BY <2>1 DEF CoveredBlocks, Covered
  <2>3. PastRetention = {}
    <3>1. horizon = 0 /\ \A b \in Block : BlockTime(b) \in Nat
      BY EngineAssumption DEF Init, DropInit
    <3> QED BY <3>1 DEF PastRetention
  <2>4. ClaimedFrom = -1 /\ ClaimedTo = -1
    BY DEF Init, EngineInit, NoStates, NoRow, StateName, ClaimedFrom, ClaimedTo, RowIndex
  <2> QED BY <2>2, <2>3, <2>4 DEF Ledger!Init, Ledger!Unset
<1>2. IInv /\ IInv' /\ [Next]_fullVars => [Ledger!Next]_(Ledger!ledger)
  BY ProcessInLedger, DroppingInLedger, OthersInLedger DEF Next
<1> QED BY <1>1, <1>2, Inductive, PTL DEF Spec, ImplementsLedger, Ledger!Spec

\* A step of the ledger leaves accounted for what was.
LEMMA AccountedStays ==
    ASSUME [Ledger!Next]_(Ledger!ledger)
    PROVE  Ledger!Accounted \subseteq Ledger!Accounted'
<1>1. CASE Ledger!Index
  BY <1>1 DEF Ledger!Index, Ledger!Accounted
<1>2. CASE Ledger!Excuse
  BY <1>2 DEF Ledger!Excuse, Ledger!Accounted
<1>3. CASE Ledger!Forget
  BY <1>3 DEF Ledger!Forget, Ledger!Accounted
<1>4. CASE Ledger!Publish \/ Ledger!MoveFloor \/ UNCHANGED Ledger!ledger
  BY <1>4 DEF Ledger!Publish, Ledger!MoveFloor, Ledger!ledger, Ledger!Accounted
<1> QED BY <1>1, <1>2, <1>3, <1>4 DEF Ledger!Next

\* A block between the coverage rows is accounted for.
LEMMA ClaimAccounted ==
    ASSUME IInv, NEW b \in Block, Ledger!Claimed(b)
    PROVE  b \in Ledger!Accounted
<1>1. /\ ClaimedFrom = (IF First.exists THEN First.index ELSE -1)
      /\ ClaimedTo = (IF Last.exists THEN Last.index ELSE -1)
      /\ First.index \in Nat /\ Last.index \in Nat
  BY RowsRead DEF IInv
<1>2. b \in Nat /\ ClaimedFrom # -1 /\ ClaimedFrom <= b /\ b <= ClaimedTo
  BY EngineAssumption DEF Ledger!Claimed, Ledger!Unset, Block
<1>3. ClaimedTo # -1 /\ b \in ClaimedFrom .. ClaimedTo
  BY <1>1, <1>2
<1> QED BY <1>2, <1>3, RowsSound DEF Ledger!Accounted

\* A consumer that has read the coverage rows finds each block they claim
\* whenever it comes to look, or the block is past retention: no deletion, error,
\* repeated run or restart takes it away unannounced (states.go:20-24,
\* dropAndRaiseFloor).
THEOREM FullModeServesReaders ==
    ASSUME StartIndexAsDocumented
    PROVE  Spec => ReadersServed
<1>1. ASSUME NEW b \in Block
      PROVE  Spec => [](Ledger!Claimed(b) => [](b \in Ledger!Accounted))
  <2>1. IInv => (Ledger!Claimed(b) => b \in Ledger!Accounted)
    BY ClaimAccounted
  <2>2. [Ledger!Next]_(Ledger!ledger) /\ b \in Ledger!Accounted
            => (b \in Ledger!Accounted)'
    BY AccountedStays
  <2>3. Spec => [][Ledger!Next]_(Ledger!ledger)
    BY FullModeIsLedger, PTL DEF ImplementsLedger, Ledger!Spec
  <2> QED BY <2>1, <2>2, <2>3, Inductive, PTL
<1> QED BY <1>1 DEF ReadersServed, Ledger!ReadersServed
=============================================================================
