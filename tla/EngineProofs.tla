---------------------------- MODULE EngineProofs ----------------------------
(***************************************************************************)
(* Lemmas about the engine, the states table and the deletion loop, for    *)
(* the proofs about either mode.                                           *)
(***************************************************************************)
EXTENDS EngineInv, TLAPS

LEMMA LesserOf ==
    ASSUME NEW a, NEW b, a \in Int, b \in Int
    PROVE  /\ Lesser(a, b) \in Int
           /\ Lesser(a, b) = a \/ Lesser(a, b) = b
           /\ Lesser(a, b) <= a /\ Lesser(a, b) <= b
BY DEF Lesser

\* What type correctness says of the numbers.
LEMMA EngineNumbers ==
    ASSUME EngineTyped
    PROVE  /\ head \in Block /\ head \in Int /\ cursor \in Nat /\ ixEnd \in Nat
           /\ startIndex \in Nat /\ histLast \in Nat /\ horizon \in Nat
           /\ boundary \in Nat /\ dfirst \in Block
           /\ stored \subseteq Block
           /\ Block \subseteq Int
           /\ \A b \in Block : BlockTime(b) \in Nat /\ b >= 0 /\ b <= MaxBlock
           /\ MaxBlock \in Nat
           /\ \A n \in StateName : states[n] \in RowType
           /\ Last.index \in Nat /\ First.index \in Nat
           /\ Last.exists \in BOOLEAN /\ First.exists \in BOOLEAN
<1>1. stored \subseteq Block
  BY DEF EngineTyped, stored, Table
<1>2. "LastIndexed" \in StateName /\ "BlockFloor" \in StateName
  BY DEF StateName
<1>3. /\ \A n \in StateName : states[n] \in RowType
      /\ Last \in RowType /\ First \in RowType
  BY <1>2 DEF EngineTyped, Last, First
<1>4. head \in Int /\ Block \subseteq Int
  BY EngineAssumption DEF EngineTyped, Block
<1>5. \A b \in Block : BlockTime(b) \in Nat /\ b >= 0 /\ b <= MaxBlock
  BY EngineAssumption DEF Block
<1> QED BY <1>1, <1>3, <1>4, <1>5, EngineAssumption DEF EngineTyped, RowType

-----------------------------------------------------------------------------
(***************************************************************************)
(* Writes to the states table.                                             *)
(***************************************************************************)

LEMMA UpdateRows ==
    ASSUME NEW t, NEW n, NEW i, NEW ts,
           t \in [StateName -> RowType], n \in StateName, i \in Nat, ts \in Nat
    PROVE  /\ UpdateState(t, n, i, ts) \in [StateName -> RowType]
           /\ UpdateState(t, n, i, ts)[n] = Row(i, ts)
           /\ \A k \in StateName \ {n} : UpdateState(t, n, i, ts)[k] = t[k]
BY DEF UpdateState, Row, RowType

\* The floor row a coverage write leaves is the one before it or the new one;
\* it is there, and not above the block written.
LEMMA CoverageRows ==
    ASSUME NEW t, NEW hi, NEW th, NEW lo, NEW tl,
           t \in [StateName -> RowType],
           hi \in Nat, th \in Nat, lo \in Nat, tl \in Nat
    PROVE  /\ WriteCoverageStates(t, hi, th, lo, tl) \in [StateName -> RowType]
           /\ WriteCoverageStates(t, hi, th, lo, tl)["LastIndexed"] = Row(hi, th)
           /\ WriteCoverageStates(t, hi, th, lo, tl)["BlockFloor"]
                 \in {t["BlockFloor"], Row(lo, tl)}
           /\ WriteCoverageStates(t, hi, th, lo, tl)["BlockFloor"].exists
           /\ WriteCoverageStates(t, hi, th, lo, tl)["ChainTip"] = t["ChainTip"]
           /\ WriteCoverageStates(t, hi, th, lo, tl)["LogFloor"] = t["LogFloor"]
<1> DEFINE v == UpdateState(t, "LastIndexed", hi, th)
           w == CreateStateIfMissing(v, "BlockFloor", lo, tl)
           u == LowerStateFloor(v, "BlockFloor", lo, tl)
<1>1. /\ v \in [StateName -> RowType]
      /\ v["LastIndexed"] = Row(hi, th)
      /\ \A k \in StateName \ {"LastIndexed"} : v[k] = t[k]
  <2>1. "LastIndexed" \in StateName
    BY DEF StateName
  <2> QED BY <2>1, UpdateRows
<1>2. /\ w \in [StateName -> RowType]
      /\ w["BlockFloor"] \in {v["BlockFloor"], Row(lo, tl)}
      /\ w["BlockFloor"].exists
      /\ \A k \in StateName \ {"BlockFloor"} : w[k] = v[k]
  <2>1. CASE v["BlockFloor"].exists
    BY <1>1, <2>1 DEF CreateStateIfMissing
  <2>2. CASE ~v["BlockFloor"].exists
    <3>1. w = UpdateState(v, "BlockFloor", lo, tl)
      BY <2>2 DEF CreateStateIfMissing
    <3>2. "BlockFloor" \in StateName
      BY DEF StateName
    <3>3. Row(lo, tl).exists
      BY DEF Row
    <3> HIDE DEF v, w
    <3> QED BY <1>1, <3>1, <3>2, <3>3, UpdateRows
  <2> QED BY <2>1, <2>2
<1>3. /\ u \in [StateName -> RowType]
      /\ u["BlockFloor"] \in {w["BlockFloor"], Row(lo, tl)}
      /\ u["BlockFloor"].exists
      /\ \A k \in StateName \ {"BlockFloor"} : u[k] = w[k]
  <2>1. u = IF w["BlockFloor"].index > lo THEN UpdateState(w, "BlockFloor", lo, tl) ELSE w
    BY DEF LowerStateFloor
  <2>2. "BlockFloor" \in StateName
    BY DEF StateName
  <2>3. Row(lo, tl).exists
    BY DEF Row
  <2> HIDE DEF v, w, u
  <2> QED BY <1>2, <2>1, <2>2, <2>3, UpdateRows
<1>4. u = WriteCoverageStates(t, hi, th, lo, tl)
  BY DEF WriteCoverageStates
<1> HIDE DEF v, w, u
<1> QED BY <1>1, <1>2, <1>3, <1>4 DEF StateName

\* LowerStateFloor leaves the lower of the two floors.
LEMMA FloorLowered ==
    ASSUME NEW t, NEW lo, NEW tl, t \in [StateName -> RowType], lo \in Nat, tl \in Nat
    PROVE  LowerStateFloor(t, "BlockFloor", lo, tl)["BlockFloor"].index =
             IF ~t["BlockFloor"].exists \/ lo < t["BlockFloor"].index
             THEN lo ELSE t["BlockFloor"].index
<1> DEFINE w == CreateStateIfMissing(t, "BlockFloor", lo, tl)
<1>1. "BlockFloor" \in StateName
  BY DEF StateName
<1>2. t["BlockFloor"] \in RowType /\ t["BlockFloor"].index \in Nat
  BY <1>1 DEF RowType
<1>3. Row(lo, tl).index = lo /\ Row(lo, tl) \in RowType
  BY DEF Row, RowType
<1>4. LowerStateFloor(t, "BlockFloor", lo, tl) =
         IF w["BlockFloor"].index > lo THEN UpdateState(w, "BlockFloor", lo, tl) ELSE w
  BY DEF LowerStateFloor
<1>5. CASE t["BlockFloor"].exists
  <2>1. w = t
    BY <1>5 DEF CreateStateIfMissing
  <2>2. UpdateState(t, "BlockFloor", lo, tl)["BlockFloor"] = Row(lo, tl)
    BY <1>1, UpdateRows
  <2> HIDE DEF w
  <2> QED BY <1>2, <1>3, <1>4, <1>5, <2>1, <2>2
<1>6. CASE ~t["BlockFloor"].exists
  <2>1. w = UpdateState(t, "BlockFloor", lo, tl)
    BY <1>6 DEF CreateStateIfMissing
  <2>2. UpdateState(t, "BlockFloor", lo, tl)["BlockFloor"] = Row(lo, tl)
    BY <1>1, UpdateRows
  <2> HIDE DEF w
  <2> QED BY <1>3, <1>4, <1>6, <2>1, <2>2
<1> QED BY <1>5, <1>6

\* Publishing the tip touches neither coverage row.
LEMMA TipObserved ==
    ASSUME EngineTyped, MissingRows, ObserveTip
    PROVE  /\ Tip \in Nat /\ Tip <= head /\ Tip \in Block
           /\ states' \in [StateName -> RowType]
           /\ First' = First /\ Last' = Last
           /\ MissingRows'
<1>1. Tip \in Nat /\ Tip <= head /\ Tip \in Block
  BY EngineAssumption DEF EngineTyped, ObserveTip, Confirmed, Tip, Block
<1>2. BlockTime(Tip) \in Nat
  BY <1>1, EngineAssumption
<1>3. states' = UpdateState(states, "ChainTip", Tip, BlockTime(Tip))
  BY DEF ObserveTip
<1>4. /\ "ChainTip" \in StateName
      /\ "LastIndexed" \in StateName \ {"ChainTip"}
      /\ "BlockFloor" \in StateName \ {"ChainTip"}
  BY DEF StateName
<1>5. states \in [StateName -> RowType]
  BY DEF EngineTyped
<1>6. /\ states' \in [StateName -> RowType]
      /\ states'["ChainTip"] = Row(Tip, BlockTime(Tip))
      /\ \A k \in StateName \ {"ChainTip"} : states'[k] = states[k]
  BY <1>1, <1>2, <1>3, <1>4, <1>5, UpdateRows
<1>7. Row(Tip, BlockTime(Tip)).exists
  BY DEF Row
<1>8. MissingRows'
  BY <1>6, <1>7 DEF MissingRows
<1> QED BY <1>1, <1>4, <1>6, <1>8 DEF First, Last

\* Publishing coverage of lo .. hi.
LEMMA CoveragePublished ==
    ASSUME EngineTyped, MissingRows, NEW lo \in Block, NEW hi \in Block,
           PublishCoverage(lo, hi)
    PROVE  /\ states' \in [StateName -> RowType]
           /\ Last'.exists /\ Last'.index = hi
           /\ First'.exists
           /\ First' = First \/ First'.index = lo
           /\ MissingRows'
<1>1. lo \in Nat /\ hi \in Nat /\ BlockTime(lo) \in Nat /\ BlockTime(hi) \in Nat
  BY EngineAssumption DEF Block
<1>2. states' = WriteCoverageStates(states, hi, BlockTime(hi), lo, BlockTime(lo))
  BY DEF PublishCoverage
<1>3. states \in [StateName -> RowType]
  BY DEF EngineTyped
<1>4. /\ states' \in [StateName -> RowType]
      /\ states'["LastIndexed"] = Row(hi, BlockTime(hi))
      /\ states'["BlockFloor"] \in {states["BlockFloor"], Row(lo, BlockTime(lo))}
      /\ states'["BlockFloor"].exists
      /\ states'["ChainTip"] = states["ChainTip"]
      /\ states'["LogFloor"] = states["LogFloor"]
  BY <1>1, <1>2, <1>3, CoverageRows
<1>5. /\ Row(hi, BlockTime(hi)).exists
      /\ Row(hi, BlockTime(hi)).index = hi
      /\ Row(lo, BlockTime(lo)).index = lo
  BY DEF Row
<1>6. MissingRows'
  BY <1>4, <1>5 DEF MissingRows, StateName
<1> QED BY <1>4, <1>5, <1>6 DEF First, Last

\* The floor it leaves is the lower of the one before and the block written.
LEMMA FloorPublished ==
    ASSUME EngineTyped, NEW lo \in Block, NEW hi \in Block, PublishCoverage(lo, hi)
    PROVE  First'.index = IF ~First.exists \/ lo < First.index THEN lo ELSE First.index
<1> DEFINE v == UpdateState(states, "LastIndexed", hi, BlockTime(hi))
<1>1. /\ states \in [StateName -> RowType]
      /\ lo \in Nat /\ hi \in Nat /\ BlockTime(lo) \in Nat /\ BlockTime(hi) \in Nat
  BY EngineAssumption DEF EngineTyped, Block
<1>2. "LastIndexed" \in StateName /\ "BlockFloor" \in StateName \ {"LastIndexed"}
  BY DEF StateName
<1>3. v \in [StateName -> RowType] /\ v["BlockFloor"] = states["BlockFloor"]
  BY <1>1, <1>2, UpdateRows
<1>4. states' = LowerStateFloor(v, "BlockFloor", lo, BlockTime(lo))
  BY DEF PublishCoverage, WriteCoverageStates
<1> HIDE DEF v
<1>5. states'["BlockFloor"].index =
         IF ~v["BlockFloor"].exists \/ lo < v["BlockFloor"].index
         THEN lo ELSE v["BlockFloor"].index
  BY <1>1, <1>3, <1>4, FloorLowered
<1> QED BY <1>3, <1>5 DEF First

-----------------------------------------------------------------------------
(***************************************************************************)
(* Writes to the three tables.                                             *)
(***************************************************************************)

\* Inserting a range of blocks.
LEMMA Inserted ==
    ASSUME EngineTyped, NEW lo, NEW hi, lo \in Block, hi \in Block, Insert(lo, hi)
    PROVE  /\ stored' = stored \cup (lo .. hi)
           /\ rows' \in [Table -> SUBSET Block]
           /\ \A t \in Table : rows'[t] \subseteq Content(t)
           /\ lo .. hi \subseteq Block
<1>1. lo .. hi \subseteq Block
  BY EngineAssumption DEF Block
<1>2. \A t \in Table : Content(t) \subseteq Block
  BY EngineAssumption DEF Content
<1>3. \A t \in Table :
         rows'[t] = rows[t] \cup ((Content(t) \cap (lo .. hi)) \ Ignored(t))
  BY DEF Insert
<1>4. "blocks" \in Table /\ Content("blocks") = Block /\ Ignored("blocks") = {}
  BY DEF Table, Content, Ignored
<1>5. stored' = stored \cup (lo .. hi)
  BY <1>1, <1>3, <1>4 DEF stored
<1>6. rows' \in [Table -> SUBSET Block]
  BY <1>2 DEF EngineTyped, Insert
<1>7. \A t \in Table : rows'[t] \subseteq Content(t)
  BY <1>3 DEF EngineTyped
<1> QED BY <1>1, <1>5, <1>6, <1>7

\* What INSERT IGNORE leaves out inside retention is there already.
LEMMA WholeInserted ==
    ASSUME EngineTyped, Whole, NEW lo, NEW hi, lo \in Block, hi \in Block, Insert(lo, hi),
           horizon' = horizon
    PROVE  Whole'
<1>1. \A t \in Table :
         rows'[t] = rows[t] \cup ((Content(t) \cap (lo .. hi)) \ Ignored(t))
  BY DEF Insert
<1>2. /\ "transactions" \in Table /\ "logs" \in Table
      /\ Ignored("transactions") = {}
      /\ Ignored("logs") = ReceiptLogBlocks \cap rows["transactions"]
      /\ Content("transactions") = TxBlocks /\ Content("logs") = LogBlocks
  BY DEF Table, Content, Ignored
<1>3. stored' = stored \cup (lo .. hi)
  BY Inserted
<1>4. ReceiptLogBlocks \subseteq LogBlocks
  BY EngineAssumption
<1>5. ASSUME NEW b \in rows'["transactions"] \cap ReceiptLogBlocks, BlockTime(b) >= horizon
      PROVE  b \in rows'["logs"]
  <2>1. CASE b \in rows["transactions"]
    BY <1>1, <1>2, <1>5, <2>1 DEF Whole
  <2>2. CASE b \in lo .. hi /\ b \notin rows["transactions"]
    BY <1>1, <1>2, <1>4, <2>2
  <2> QED BY <1>1, <1>2, <2>1, <2>2
<1>6. ASSUME NEW b \in stored', BlockTime(b) >= horizon,
             NEW t \in Table, b \in Content(t)
      PROVE  b \in rows'[t]
  <2>1. CASE b \in stored
    BY <1>1, <1>6, <2>1 DEF Whole, Covered
  <2>2. CASE b \in lo .. hi /\ b \notin Ignored(t)
    BY <1>1, <1>6, <2>2
  <2>3. CASE b \in Ignored(t)
    <3>1. t = "logs" /\ b \in ReceiptLogBlocks \cap rows["transactions"]
      BY <2>3 DEF Ignored
    <3>2. b \in rows["logs"]
      BY <1>6, <3>1 DEF Whole
    <3> QED BY <1>1, <3>1, <3>2
  <2> QED BY <1>3, <2>1, <2>2, <2>3
<1> QED BY <1>5, <1>6 DEF Whole, Covered

\* A deletion takes rows past retention only.
LEMMA DropDeleted ==
    ASSUME EngineTyped, boundary <= horizon, DropDeletes
    PROVE  /\ \A t \in Table : /\ rows'[t] \subseteq rows[t]
                             /\ \A b \in rows[t] \ rows'[t] : BlockTime(b) < horizon
           /\ rows' \in [Table -> SUBSET Block]
           /\ \A t \in Table : rows'[t] \subseteq Content(t)
<1>1. PICK gone \in SUBSET Expired(dtable) : \E cascade \in Cascade(gone) :
             rows' = [t \in Table |-> IF t = dtable THEN rows[t] \ gone
                                     ELSE IF t = "logs" THEN rows[t] \ cascade
                                     ELSE rows[t]]
  BY DEF DropDeletes
<1>2. PICK cascade \in Cascade(gone) :
             rows' = [t \in Table |-> IF t = dtable THEN rows[t] \ gone
                                     ELSE IF t = "logs" THEN rows[t] \ cascade
                                     ELSE rows[t]]
  BY <1>1
<1>3. \A b \in Expired(dtable) : BlockTime(b) < horizon
  <2>1. boundary \in Int /\ horizon \in Int
    BY EngineNumbers
  <2>2. rows[dtable] \subseteq Block
    BY DEF EngineTyped
  <2>3. \A b \in Block : BlockTime(b) \in Int
    BY EngineAssumption
  <2> QED BY <2>1, <2>2, <2>3 DEF Expired
<1>4. cascade \subseteq gone
  BY DEF Cascade
<1>5. \A t \in Table : /\ rows'[t] \subseteq rows[t]
                       /\ \A b \in rows[t] \ rows'[t] : BlockTime(b) < horizon
  BY <1>1, <1>2, <1>3, <1>4
<1>6. rows' = [t \in Table |-> rows'[t]]
  BY <1>2
<1>7. \A t \in Table : rows'[t] \subseteq Block /\ rows'[t] \subseteq Content(t)
  BY <1>5 DEF EngineTyped
<1> QED BY <1>5, <1>6, <1>7
=============================================================================
