----------------------------- MODULE BatchProofs -----------------------------
(***************************************************************************)
(* What a batch promises, for every chain, configuration, limit and number *)
(* of faults: a log never refers to the row of another transaction and a   *)
(* row never carries the status of another one, what is saved is saved     *)
(* whole, and merging never switches off a built-in entry.                 *)
(*                                                                         *)
(* MergeCollectors and FlattenSeq are recursive functions.  What they do   *)
(* is proved by induction over the numbers in the form of a set (Inducted, *)
(* from the smallest counterexample), and that they are defined at all by  *)
(* building a solution of their equations step by step (Iterated).         *)
(***************************************************************************)
EXTENDS Batch, FiniteSetTheorems, WellFoundedInduction, TLAPS

LEMMA BelowWellFounded == IsWellFoundedOn({ss \in Nat \X Nat : ss[1] < ss[2]}, Nat)
<1>1. OpToRel(<, Nat) = {ss \in Nat \X Nat : ss[1] < ss[2]}
  BY DEF OpToRel
<1> QED
  BY <1>1, NatLessThanWellFounded

\* A set of numbers that is not empty has a smallest one.
LEMMA SmallestExists ==
  ASSUME NEW T, T \subseteq Nat, T # {}
  PROVE  \E m \in T : \A n \in T : m <= n
<1> DEFINE R == {ss \in Nat \X Nat : ss[1] < ss[2]}
<1>1. PICK m \in T : \A n \in T : ~(<<n, m>> \in R)
  <2> HIDE DEF R
  <2>1. IsWellFoundedOn(R, Nat)
    BY BelowWellFounded DEF R
  <2> QED
    BY <2>1, WFMin
<1>2. ASSUME NEW n \in T PROVE m <= n
  <2>1. ~(n < m) /\ n \in Nat /\ m \in Nat
    BY <1>1
  <2> QED
    BY <2>1
<1> QED
  BY <1>2

\* Induction: a set of numbers with 0 and every successor is all of them.
LEMMA Inducted ==
  ASSUME NEW T, 0 \in T, \A n \in Nat : n \in T => n + 1 \in T
  PROVE  Nat \subseteq T
<1> SUFFICES ASSUME Nat \ T # {} PROVE FALSE
  OBVIOUS
<1>1. PICK m \in Nat \ T : \A n \in Nat \ T : m <= n
  <2> DEFINE S == Nat \ T
  <2>1. S \subseteq Nat /\ S # {}
    OBVIOUS
  <2> HIDE DEF S
  <2>2. \E m \in S : \A n \in S : m <= n
    BY <2>1, SmallestExists
  <2> QED
    BY <2>2 DEF S
<1>2. m # 0 /\ m - 1 \in Nat
  OBVIOUS
<1>3. m - 1 \in T
  BY <1>1, <1>2
<1>4. (m - 1) + 1 \in T
  BY <1>2, <1>3
<1> QED
  BY <1>1, <1>4

\* The first n steps of a recursion.
Steps(g, n, S, base, F) ==
    /\ g \in [0 .. n -> S]
    /\ g[0] = base
    /\ \A k \in 0 .. n - 1 : g[k + 1] = F[k][g[k]]

LEMMA StepsExist ==
  ASSUME NEW S, NEW base \in S, NEW F \in [Nat -> [S -> S]], NEW n \in Nat
  PROVE  \E g : Steps(g, n, S, base, F)
<1> DEFINE T == {k \in Nat : \E g : Steps(g, k, S, base, F)}
<1>1. 0 \in T
  <2>1. Steps([k \in 0 .. 0 |-> base], 0, S, base, F)
    BY DEF Steps
  <2> QED
    BY <2>1
<1>2. ASSUME NEW k \in Nat, k \in T PROVE k + 1 \in T
  <2>1. PICK g : Steps(g, k, S, base, F)
    BY <1>2
  <2> DEFINE h == [j \in 0 .. k + 1 |-> IF j = k + 1 THEN F[k][g[k]] ELSE g[j]]
  <2>2. g[k] \in S /\ F[k][g[k]] \in S /\ \A j \in 0 .. k : g[j] \in S
    BY <2>1 DEF Steps
  <2>3. h \in [0 .. k + 1 -> S]
    <3>1. \A j \in 0 .. k + 1 : j = k + 1 \/ j \in 0 .. k
      OBVIOUS
    <3> QED
      BY <2>2, <3>1
  <2>4. h[0] = base
    BY <2>1 DEF Steps
  <2>5. ASSUME NEW j \in 0 .. (k + 1) - 1 PROVE h[j + 1] = F[j][h[j]]
    <3>1. j \in 0 .. k /\ j # k + 1 /\ j \in 0 .. k + 1 /\ j + 1 \in 0 .. k + 1
      OBVIOUS
    <3>2. h[j] = g[j] /\ h[j + 1] = IF j = k THEN F[k][g[k]] ELSE g[j + 1]
      BY <3>1
    <3>3. j # k => j \in 0 .. k - 1
      BY <3>1
    <3> QED
      BY <2>1, <3>2, <3>3 DEF Steps
  <2>6. Steps(h, k + 1, S, base, F)
    BY <2>3, <2>4, <2>5 DEF Steps
  <2> QED
    BY <2>6
<1> HIDE DEF T
<1>3. n \in T
  BY <1>1, <1>2, Inducted
<1> QED
  BY <1>3 DEF T

LEMMA StepsAgree ==
  ASSUME NEW S, NEW base, NEW F, NEW m \in Nat, NEW n \in Nat, m <= n,
         NEW g, Steps(g, m, S, base, F), NEW h, Steps(h, n, S, base, F)
  PROVE  g[m] = h[m]
<1> DEFINE T == {k \in Nat : k <= m => g[k] = h[k]}
<1>1. 0 \in T
  BY DEF Steps
<1>2. ASSUME NEW k \in Nat, k \in T PROVE k + 1 \in T
  <2> SUFFICES ASSUME k + 1 <= m PROVE g[k + 1] = h[k + 1]
    OBVIOUS
  <2>1. g[k] = h[k] /\ k \in 0 .. m - 1 /\ k \in 0 .. n - 1
    BY <1>2
  <2> QED
    BY <2>1 DEF Steps
<1> HIDE DEF T
<1>3. m \in T
  BY <1>1, <1>2, Inducted
<1> QED
  BY <1>3 DEF T

\* A recursion over the numbers has a solution.
Solution(f, S, base, F) ==
    /\ f \in [Nat -> S]
    /\ f[0] = base
    /\ \A n \in Nat : f[n + 1] = F[n][f[n]]

LEMMA Iterated ==
  ASSUME NEW S, NEW base, NEW F, base \in S, F \in [Nat -> [S -> S]]
  PROVE  \E f : Solution(f, S, base, F)
<1> DEFINE G(n) == CHOOSE g : Steps(g, n, S, base, F)
           f == [n \in Nat |-> G(n)[n]]
<1>1. \A n \in Nat : Steps(G(n), n, S, base, F)
  BY StepsExist
<1> HIDE DEF G
<1>2. \A n \in Nat : G(n)[n] \in S
  BY <1>1 DEF Steps
<1>3. f \in [Nat -> S]
  BY <1>2
<1>4. f[0] = base
  BY <1>1 DEF Steps
<1>5. ASSUME NEW n \in Nat PROVE f[n + 1] = F[n][f[n]]
  <2>1. G(n)[n] = G(n + 1)[n]
    BY <1>1, StepsAgree
  <2>2. Steps(G(n + 1), n + 1, S, base, F) /\ n \in 0 .. (n + 1) - 1
    BY <1>1
  <2>3. G(n + 1)[n + 1] = F[n][G(n + 1)[n]]
    BY <2>2 DEF Steps
  <2> QED
    BY <2>1, <2>3
<1> QED
  BY <1>3, <1>4, <1>5 DEF Solution

\* A set of numbers that has a bound has a largest one.
LEMMA LargestExists ==
  ASSUME NEW S, S \subseteq Nat, S # {}, NEW bound \in Nat, \A s \in S : s <= bound
  PROVE  \E m \in S : \A s \in S : s <= m
<1> DEFINE T == {n \in Nat : \A s \in S : s <= n}
           R == {ss \in Nat \X Nat : ss[1] < ss[2]}
<1>1. T \subseteq Nat /\ T # {}
  OBVIOUS
<1>2. PICK m \in T : \A n \in T : ~(<<n, m>> \in R)
  <2> HIDE DEF T, R
  <2>1. IsWellFoundedOn(R, Nat)
    BY BelowWellFounded DEF R
  <2> QED
    BY <1>1, <2>1, WFMin
<1>3. m \in Nat /\ \A s \in S : s <= m
  BY <1>2
<1>4. ASSUME NEW n \in T PROVE m <= n
  <2>1. n \in Nat /\ ~(<<n, m>> \in R)
    BY <1>2
  <2>2. ~(n < m)
    BY <2>1, <1>3
  <2> QED
    BY <2>1, <2>2, <1>3
<1>5. m \in S
  <2> SUFFICES ASSUME m \notin S PROVE FALSE
    OBVIOUS
  <2>1. PICK s \in S : TRUE
    OBVIOUS
  <2>2. m - 1 \in Nat
    BY <1>3, <2>1
  <2>3. \A t \in S : t <= m - 1
    BY <1>3
  <2>4. m - 1 \in T
    BY <2>2, <2>3
  <2>5. m <= m - 1
    BY <1>4, <2>4
  <2> QED
    BY <1>3, <2>5
<1> QED
  BY <1>3, <1>5

-----------------------------------------------------------------------------
(***************************************************************************)
(* What merging and resolving make of the entries.                         *)
(***************************************************************************)

LEMMA MergeInfoTyped ==
  ASSUME NEW base \in CollectorEntry, NEW more \in CollectorEntry
  PROVE  /\ MergeInfo(base, more) \in CollectorEntry
         /\ MergeInfo(base, more).name = base.name
         /\ MergeInfo(base, more).item = base.item
         /\ MergeInfo(base, more).address =
               IF base.address = Empty THEN more.address ELSE base.address
         /\ MergeInfo(base, more).status = (base.status \/ more.status)
         /\ MergeInfo(base, more).events = (base.events \/ more.events)
BY DEF MergeInfo, CollectorEntry

LEMMA CollectTyped ==
  ASSUME NEW entries \in Seq(CollectorEntry), NEW e \in CollectorEntry
  PROVE  Collect(entries, e) \in Seq(CollectorEntry)
<1>1. CASE \E i \in DOMAIN entries : DedupKey(entries[i]) = DedupKey(e)
  <2> DEFINE out == [i \in DOMAIN entries |-> IF DedupKey(entries[i]) = DedupKey(e)
                                   THEN MergeInfo(entries[i], e) ELSE entries[i]]
  <2>1. \A i \in DOMAIN entries : entries[i] \in CollectorEntry
    OBVIOUS
  <2>2. \A i \in DOMAIN entries : out[i] \in CollectorEntry
    BY <2>1, MergeInfoTyped
  <2>3. DOMAIN entries = 1 .. Len(entries) /\ Len(entries) \in Nat
    OBVIOUS
  <2>4. out \in [1 .. Len(entries) -> CollectorEntry]
    BY <2>2, <2>3
  <2>5. Collect(entries, e) = out
    BY <1>1 DEF Collect
  <2> HIDE DEF out
  <2> QED
    BY <2>3, <2>4, <2>5
<1>2. CASE ~\E i \in DOMAIN entries : DedupKey(entries[i]) = DedupKey(e)
  <2>1. Collect(entries, e) = Append(entries, e)
    BY <1>2 DEF Collect
  <2> QED
    BY <2>1
<1> QED
  BY <1>1, <1>2

\* Merging goes through the entries one by one.
LEMMA Merged ==
  ASSUME NEW builtin \in Seq(CollectorEntry), NEW entries \in Seq(CollectorEntry)
  PROVE  \E m \in [0 .. Len(entries) -> Seq(CollectorEntry)] :
            /\ m[0] = builtin
            /\ \A n \in 1 .. Len(entries) : m[n] = Collect(m[n - 1], entries[n])
            /\ MergeCollectors(builtin, entries) = m[Len(entries)]
<1> DEFINE last == Len(entries)
           S == Seq(CollectorEntry)
           F == [n \in Nat |-> [x \in S |-> IF n < last THEN Collect(x, entries[n + 1]) ELSE x]]
           Solves(m) == m = [n \in 0 .. last |->
                               IF n = 0 THEN builtin ELSE Collect(m[n - 1], entries[n])]
<1>1. last \in Nat /\ \A n \in 1 .. last : entries[n] \in CollectorEntry
  OBVIOUS
<1> HIDE DEF last
<1>2. F \in [Nat -> [S -> S]]
  <2>1. ASSUME NEW n \in Nat, NEW x \in S, n < last
        PROVE  Collect(x, entries[n + 1]) \in S
    <3>1. n + 1 \in 1 .. last
      BY <1>1, <2>1
    <3>2. entries[n + 1] \in CollectorEntry
      BY <1>1, <3>1
    <3> QED
      BY <3>2, CollectTyped
  <2> HIDE DEF S
  <2> QED
    BY <2>1
<1>3. PICK f \in [Nat -> S] : f[0] = builtin /\ \A n \in Nat : f[n + 1] = F[n][f[n]]
  <2> HIDE DEF F, S
  <2>1. builtin \in S
    BY DEF S
  <2>2. \E f : Solution(f, S, builtin, F)
    BY <1>2, <2>1, Iterated
  <2> QED
    BY <2>2 DEF Solution
<1> DEFINE g == [n \in 0 .. last |-> f[n]]
<1>4. ASSUME NEW n \in 1 .. last PROVE g[n] = Collect(g[n - 1], entries[n])
  <2>1. n - 1 \in Nat /\ n - 1 < last /\ (n - 1) + 1 = n /\ n \in 0 .. last /\ n - 1 \in 0 .. last
    BY <1>1
  <2>2. f[n - 1] \in S /\ f[n] = F[n - 1][f[n - 1]]
    BY <1>3, <2>1
  <2> HIDE DEF S
  <2> QED
    BY <2>1, <2>2
<1>5. Solves(g)
  <2>1. \A n \in 0 .. last : n = 0 \/ n \in 1 .. last
    BY <1>1
  <2>2. g[0] = builtin
    BY <1>1, <1>3
  <2> QED
    BY <1>4, <2>1, <2>2
<1>6. MergeCollectors(builtin, entries) = (CHOOSE m : Solves(m))[last]
  BY DEF MergeCollectors, last
<1>7. PICK m : Solves(m) /\ MergeCollectors(builtin, entries) = m[last]
  <2> HIDE DEF Solves, g
  <2> QED
    BY <1>5, <1>6
<1>8. m[0] = builtin /\ \A n \in 1 .. last : m[n] = Collect(m[n - 1], entries[n])
  <2>1. 0 \in 0 .. last /\ \A n \in 1 .. last : n \in 0 .. last /\ n # 0
    BY <1>1
  <2> QED
    BY <1>7, <2>1
<1>9. m \in [0 .. last -> S]
  <2> DEFINE T == {n \in Nat : n <= last => m[n] \in S}
  <2>1. 0 \in T
    BY <1>8
  <2>2. ASSUME NEW n \in Nat, n \in T PROVE n + 1 \in T
    <3> SUFFICES ASSUME n + 1 <= last PROVE m[n + 1] \in S
      OBVIOUS
    <3>1. m[n] \in S /\ n + 1 \in 1 .. last /\ (n + 1) - 1 = n
      BY <1>1, <2>2
    <3>2. m[n + 1] = Collect(m[n], entries[n + 1]) /\ entries[n + 1] \in CollectorEntry
      BY <1>1, <1>8, <3>1
    <3> QED
      BY <3>1, <3>2, CollectTyped
  <2> HIDE DEF T
  <2>3. Nat \subseteq T
    BY <2>1, <2>2, Inducted
  <2>4. \A n \in 0 .. last : m[n] \in S
    BY <1>1, <2>3 DEF T
  <2>5. m = [n \in 0 .. last |-> m[n]]
    BY <1>7
  <2> HIDE DEF S
  <2> QED
    BY <2>4, <2>5
<1> QED
  BY <1>7, <1>8, <1>9 DEF last

LEMMA MergeTyped ==
  ASSUME NEW builtin \in Seq(CollectorEntry), NEW entries \in Seq(CollectorEntry)
  PROVE  MergeCollectors(builtin, entries) \in Seq(CollectorEntry)
<1>1. Len(entries) \in 0 .. Len(entries)
  OBVIOUS
<1> QED
  BY <1>1, Merged

\* Flattening goes through the sequences one by one.
LEMMA Flattened ==
  ASSUME NEW S, NEW seqs \in Seq(Seq(S)), Len(seqs) # 0
  PROVE  \E f \in [1 .. Len(seqs) -> Seq(S)] :
            /\ f[1] = seqs[1]
            /\ \A i \in 2 .. Len(seqs) : f[i] = f[i - 1] \o seqs[i]
            /\ FlattenSeq(seqs) = f[Len(seqs)]
<1> DEFINE last == Len(seqs)
           Solves(f) == f = [i \in 1 .. last |-> IF i = 1 THEN seqs[i]
                                                 ELSE f[i - 1] \o seqs[i]]
           F == [n \in Nat |-> [x \in Seq(S) |-> IF n < last THEN x \o seqs[n + 1] ELSE x]]
<1>1. last \in Nat /\ last >= 1 /\ \A i \in 1 .. last : seqs[i] \in Seq(S)
  OBVIOUS
<1> HIDE DEF last
<1>2. F \in [Nat -> [Seq(S) -> Seq(S)]]
  <2>1. ASSUME NEW n \in Nat, NEW x \in Seq(S), n < last
        PROVE  x \o seqs[n + 1] \in Seq(S)
    <3>1. n + 1 \in 1 .. last
      BY <1>1, <2>1
    <3>2. seqs[n + 1] \in Seq(S)
      BY <1>1, <3>1
    <3> QED
      BY <3>2
  <2> QED
    BY <2>1
<1>3. PICK h \in [Nat -> Seq(S)] : h[0] = <<>> /\ \A n \in Nat : h[n + 1] = F[n][h[n]]
  <2> HIDE DEF F
  <2>1. <<>> \in Seq(S)
    OBVIOUS
  <2>2. \E f : Solution(f, Seq(S), <<>>, F)
    BY <1>2, <2>1, Iterated
  <2> QED
    BY <2>2 DEF Solution
<1>4. ASSUME NEW i \in 1 .. last PROVE h[i] = h[i - 1] \o seqs[i]
  <2>1. i - 1 \in Nat /\ i - 1 < last /\ (i - 1) + 1 = i
    BY <1>1
  <2>2. h[i - 1] \in Seq(S) /\ h[i] = F[i - 1][h[i - 1]]
    BY <1>3, <2>1
  <2> QED
    BY <2>1, <2>2
<1>5. h[1] = seqs[1]
  <2>1. 1 \in 1 .. last /\ 1 - 1 = 0
    BY <1>1
  <2>2. h[1] = h[0] \o seqs[1] /\ seqs[1] \in Seq(S)
    BY <1>1, <1>4, <2>1
  <2> QED
    BY <1>3, <2>2
<1> DEFINE g == [i \in 1 .. last |-> h[i]]
<1>6. Solves(g)
  <2>1. \A i \in 1 .. last : i = 1 \/ i - 1 \in 1 .. last
    BY <1>1
  <2> QED
    BY <1>4, <1>5, <2>1
<1>7. FlattenSeq(seqs) = (CHOOSE f : Solves(f))[last]
  BY DEF FlattenSeq, last
<1>8. PICK f : Solves(f) /\ FlattenSeq(seqs) = f[last]
  <2> HIDE DEF Solves, g
  <2> QED
    BY <1>6, <1>7
<1>9. f[1] = seqs[1] /\ \A i \in 2 .. last : f[i] = f[i - 1] \o seqs[i]
  <2>1. 1 \in 1 .. last /\ \A i \in 2 .. last : i \in 1 .. last /\ i # 1
    BY <1>1
  <2>2. \A i \in 1 .. last : f[i] = IF i = 1 THEN seqs[i] ELSE f[i - 1] \o seqs[i]
    BY <1>8
  <2> QED
    BY <2>1, <2>2
<1>10. f \in [1 .. last -> Seq(S)]
  <2> DEFINE T == {n \in Nat : n + 1 <= last => f[n + 1] \in Seq(S)}
  <2>1. 0 \in T
    BY <1>1, <1>9
  <2>2. ASSUME NEW n \in Nat, n \in T PROVE n + 1 \in T
    <3> SUFFICES ASSUME (n + 1) + 1 <= last PROVE f[(n + 1) + 1] \in Seq(S)
      OBVIOUS
    <3>1. f[n + 1] \in Seq(S)
      BY <1>1, <2>2
    <3> DEFINE i == (n + 1) + 1
    <3>2. i \in 2 .. last /\ i \in 1 .. last /\ i - 1 = n + 1
      BY <1>1
    <3> HIDE DEF i
    <3>3. f[i] = f[n + 1] \o seqs[i] /\ seqs[i] \in Seq(S)
      BY <1>1, <1>9, <3>2
    <3> QED
      BY <3>1, <3>3 DEF i
  <2> HIDE DEF T
  <2>3. Nat \subseteq T
    BY <2>1, <2>2, Inducted
  <2>4. ASSUME NEW i \in 1 .. last PROVE f[i] \in Seq(S)
    <3>1. i - 1 \in T /\ (i - 1) + 1 = i /\ i <= last
      BY <1>1, <2>3
    <3> QED
      BY <3>1 DEF T
  <2>5. f = [i \in 1 .. last |-> f[i]]
    BY <1>8
  <2> QED
    BY <2>4, <2>5
<1> QED
  BY <1>8, <1>9, <1>10 DEF last

LEMMA FlattenTyped ==
  ASSUME NEW S, NEW seqs, seqs \in Seq(Seq(S)), Len(seqs) # 0
  PROVE  FlattenSeq(seqs) \in Seq(S)
<1>1. Len(seqs) \in 1 .. Len(seqs)
  OBVIOUS
<1>2. PICK f \in [1 .. Len(seqs) -> Seq(S)] : FlattenSeq(seqs) = f[Len(seqs)]
  BY Flattened
<1> QED
  BY <1>1, <1>2

-----------------------------------------------------------------------------
\* The transactions collected of a batch are finitely many.
LEMMA CollectedFinite ==
  ASSUME lo \in Block, hi \in Block
  PROVE  IsFiniteSet(Collected)
<1> DEFINE Places(b) == {<<b, k>> : k \in {k \in DOMAIN Chain[b] :
                                            Matching(policies, Chain[b][k]) # {}}}
           All == {Places(b) : b \in lo .. hi}
<1>1. Block \subseteq Nat /\ lo .. hi \subseteq Block
  BY BatchAssumption DEF Block
<1>2. IsFiniteSet(lo .. hi)
  BY <1>1, FS_Interval
<1>3. [b \in lo .. hi |-> Places(b)] \in Surjection(lo .. hi, All)
  BY DEF Surjection
<1>4. IsFiniteSet(All)
  <2> HIDE DEF All, Places
  <2> QED
    BY <1>2, <1>3, FS_Surjection
<1>5. ASSUME NEW b \in lo .. hi PROVE IsFiniteSet(Places(b))
  <2>1. Chain[b] \in Seq([hash : STRING, to : STRING, sig : STRING, status : {0, 1},
                          logs : SUBSET [index : Nat, address : STRING, topic : STRING]])
    BY <1>1, BatchAssumption DEF Block
  <2>2. Len(Chain[b]) \in Nat /\ DOMAIN Chain[b] = 1 .. Len(Chain[b])
    BY <2>1
  <2>3. IsFiniteSet(DOMAIN Chain[b])
    BY <2>2, FS_Interval
  <2>4. IsFiniteSet({b} \X DOMAIN Chain[b])
    BY <2>3, FS_Singleton, FS_Product
  <2>5. Places(b) \subseteq {b} \X DOMAIN Chain[b]
    OBVIOUS
  <2> QED
    BY <2>4, <2>5, FS_Subset
<1>6. IsFiniteSet(UNION All)
  BY <1>4, <1>5, FS_UNION
<1> QED
  BY <1>6 DEF Collected

\* A batch numbers its transactions from 1 on.
Numbered == \E n \in Nat : DOMAIN txBatch = 1 .. n /\ Len(txBatch) = n

LEMMA ProcessedNumbered ==
  ASSUME lo \in Block, hi \in Block, BlocksProcessed
  PROVE  Numbered'
<1> DEFINE n == Cardinality(Collected)
           F(i) == LET p == Ith(i)
                       tx == Chain[p[1]][p[2]]
                   IN [tx |-> tx, block |-> p[1], policy |-> PolicyOf(policies, tx)]
<1>1. n \in Nat
  BY CollectedFinite, FS_CardinalityType
<1>2. txBatch' = [i \in 1 .. n |-> F(i)]
  BY DEF BlocksProcessed
<1> HIDE DEF n, F
<1>3. txBatch' \in Seq({F(i) : i \in 1 .. n})
  BY <1>1, <1>2
<1>4. DOMAIN txBatch' = 1 .. n /\ Len(txBatch') = n
  BY <1>1, <1>2, <1>3
<1> QED
  BY <1>1, <1>4 DEF Numbered

-----------------------------------------------------------------------------
\* Blocks of the batch being fetched are blocks of the chain.
InChain == pc = "blocks" => lo \in Block /\ hi \in Block

\* A receipt stands at the index of its own transaction.
ReceiptsOwn ==
    /\ DOMAIN receipts = DOMAIN txBatch
    /\ \A i \in DOMAIN receipts : receipts[i] # NoReceipt => receipts[i] = txBatch[i].tx

Distinct(set) == \A row, other \in set : row.id = other.id => row = other

\* Ids are below the counter, which no restart moves below a row.
RowsNumbered ==
    /\ nextId \in Nat \ {0}
    /\ \A row \in txRows : row.id \in Nat /\ 0 < row.id /\ row.id < nextId
    /\ Distinct(txRows)

\* The ids of rows that are not saved yet are above those of all rows that are.
DataNumbered ==
    /\ \A row \in data.txs : row.id \in Nat /\ 0 < row.id /\ row.id < nextId
    /\ \A row \in data.txs, old \in txRows : old.id < row.id
    /\ Distinct(data.txs)

\* What is about to be saved refers to what is saved with it.
DataRefersToOwn ==
    \A log \in data.logs : log.txId # NoTransaction =>
        \E row \in data.txs : row.id = log.txId /\ row.hash = log.hash

NothingBuilt == pc # "save" => data = NoData

BInv == /\ InChain /\ Numbered /\ ReceiptsOwn /\ RowsNumbered
        /\ DataNumbered /\ DataRefersToOwn /\ NothingBuilt /\ LogsReferToOwn

\* Without rows to save there is nothing to say of them.
LEMMA NoDataNumbered ==
  ASSUME data = NoData
  PROVE  DataNumbered /\ DataRefersToOwn
BY DEF NoData, DataNumbered, DataRefersToOwn, Distinct

\* Between two batches.
LEMMA NoBatchNumbered ==
  ASSUME txBatch = <<>>, receipts = <<>>
  PROVE  Numbered /\ ReceiptsOwn
<1>1. DOMAIN txBatch = 1 .. 0 /\ Len(txBatch) = 0 /\ DOMAIN receipts = 1 .. 0
  OBVIOUS
<1> QED
  BY <1>1 DEF Numbered, ReceiptsOwn

LEMMA BInvInit == Init => BInv
<1> SUFFICES ASSUME Init PROVE BInv
  OBVIOUS
<1>1. txBatch = <<>> /\ receipts = <<>> /\ data = NoData
  BY DEF Init, NoBatch
<1>2. Numbered /\ ReceiptsOwn /\ DataNumbered /\ DataRefersToOwn
  BY <1>1, NoDataNumbered, NoBatchNumbered
<1>3. InChain /\ NothingBuilt
  BY <1>1 DEF Init, InChain, NothingBuilt
<1>4. RowsNumbered /\ LogsReferToOwn
  BY DEF Init, RowsNumbered, Distinct, LogsReferToOwn
<1> QED
  BY <1>2, <1>3, <1>4 DEF BInv

\* A batch is over, whatever happened to it; the tables are looked at elsewhere.
LEMMA Forgotten ==
  ASSUME BatchForgotten, pc' = "idle"
  PROVE  InChain' /\ Numbered' /\ ReceiptsOwn' /\ DataNumbered' /\ DataRefersToOwn'
         /\ NothingBuilt'
<1>1. txBatch' = <<>> /\ receipts' = <<>> /\ data' = NoData
  BY DEF BatchForgotten
<1>2. DOMAIN txBatch' = 1 .. 0 /\ Len(txBatch') = 0 /\ DOMAIN receipts' = 1 .. 0
  BY <1>1
<1>3. Numbered' /\ ReceiptsOwn'
  BY <1>2 DEF Numbered, ReceiptsOwn
<1>4. DataNumbered' /\ DataRefersToOwn'
  BY <1>1 DEF NoData, DataNumbered, DataRefersToOwn, Distinct
<1>5. InChain' /\ NothingBuilt'
  BY <1>1 DEF InChain, NothingBuilt
<1> QED
  BY <1>3, <1>4, <1>5

\* Ids are given out from the counter on, one for each transaction.
LEMMA BuiltRows ==
  ASSUME BInv, RowsBuilt
  PROVE  BInv'
<1>1. PICK n \in Nat : DOMAIN txBatch = 1 .. n /\ Len(txBatch) = n
  BY DEF BInv, Numbered
<1>2. /\ nextId' = nextId + n
      /\ data'.txs = TransactionRows
      /\ data'.logs = ReceiptLogRows \cup FilterLogRows
      /\ pc' = "save"
      /\ UNCHANGED <<lo, hi, txBatch, receipts, txRows, logRows>>
  BY <1>1 DEF RowsBuilt
<1>3. nextId \in Nat \ {0} /\ nextId' \in Nat \ {0} /\ nextId <= nextId'
  BY <1>1, <1>2 DEF BInv, RowsNumbered
<1>4. ASSUME NEW row \in TransactionRows
      PROVE  \E i \in 1 .. n : row.id = nextId + i - 1 /\ row.hash = txBatch[i].tx.hash
                             /\ row = [id |-> nextId + i - 1, hash |-> txBatch[i].tx.hash,
                                       block |-> txBatch[i].block, status |-> receipts[i].status]
  BY <1>1 DEF TransactionRows
<1>5. DataNumbered'
  <2>1. ASSUME NEW row \in TransactionRows
        PROVE  row.id \in Nat /\ 0 < row.id /\ nextId <= row.id /\ row.id < nextId'
    BY <1>2, <1>3, <1>4
  <2>2. \A row \in TransactionRows, old \in txRows : old.id < row.id
    BY <2>1, <1>3 DEF BInv, RowsNumbered
  <2>3. ASSUME NEW row \in TransactionRows, NEW other \in TransactionRows, row.id = other.id
        PROVE  row = other
    <3>1. PICK i \in 1 .. n : row = [id |-> nextId + i - 1, hash |-> txBatch[i].tx.hash,
                                     block |-> txBatch[i].block, status |-> receipts[i].status]
      BY <1>4
    <3>2. PICK j \in 1 .. n : other = [id |-> nextId + j - 1, hash |-> txBatch[j].tx.hash,
                                       block |-> txBatch[j].block, status |-> receipts[j].status]
      BY <1>4
    <3>3. nextId + i - 1 = nextId + j - 1
      BY <2>3, <3>1, <3>2
    <3>4. i = j
      BY <3>3, <1>3
    <3> QED
      BY <3>1, <3>2, <3>4
  <2> QED
    BY <1>2, <2>1, <2>2, <2>3 DEF DataNumbered, Distinct
<1>6. DataRefersToOwn'
  <2>1. ASSUME NEW log \in ReceiptLogRows
        PROVE  \E row \in TransactionRows : row.id = log.txId /\ row.hash = log.hash
    <3>1. PICK i \in DOMAIN txBatch :
             log \in {Row(l, nextId + i - 1) : l \in ReceiptLogs(i)}
      BY DEF ReceiptLogRows
    <3>2. PICK l \in ReceiptLogs(i) : log = Row(l, nextId + i - 1)
      BY <3>1
    <3>3. receipts[i] = txBatch[i].tx /\ l \in LogsOf(receipts[i], txBatch[i].block)
      BY <3>2 DEF ReceiptLogs, BInv, ReceiptsOwn
    <3>4. l.hash = txBatch[i].tx.hash
      BY <3>3 DEF LogsOf
    <3>5. log.txId = nextId + i - 1 /\ log.hash = txBatch[i].tx.hash
      BY <3>2, <3>4 DEF Row
    <3>6. [id |-> nextId + i - 1, hash |-> txBatch[i].tx.hash,
           block |-> txBatch[i].block, status |-> receipts[i].status] \in TransactionRows
      BY DEF TransactionRows
    <3> QED
      BY <3>5, <3>6
  <2>2. \A log \in FilterLogRows : log.txId = NoTransaction
    BY DEF FilterLogRows, Row
  <2> QED
    BY <1>2, <2>1, <2>2 DEF DataRefersToOwn
<1>7. RowsNumbered'
  BY <1>2, <1>3 DEF BInv, RowsNumbered, Distinct
<1>8. LogsReferToOwn'
  BY <1>2 DEF BInv, LogsReferToOwn
<1>9. InChain' /\ Numbered' /\ ReceiptsOwn' /\ NothingBuilt'
  BY <1>2 DEF BInv, InChain, Numbered, ReceiptsOwn, NothingBuilt
<1> QED
  BY <1>5, <1>6, <1>7, <1>8, <1>9 DEF BInv

\* A log that finds a row with its id finds the one that was saved with it.
LEMMA SavedRows ==
  ASSUME BInv, Saved
  PROVE  BInv'
<1>1. /\ txRows' = txRows \cup NewTransactions
      /\ logRows' = logRows \cup NewLogs
      /\ NewTransactions \subseteq data.txs
      /\ nextId' = nextId /\ pc' = "idle" /\ BatchForgotten
  BY DEF Saved, NewTransactions
<1>2. RowsNumbered'
  <2>1. Distinct(txRows \cup NewTransactions)
    BY <1>1 DEF BInv, RowsNumbered, DataNumbered, Distinct
  <2> QED
    BY <1>1, <2>1 DEF BInv, RowsNumbered, DataNumbered
<1>3. ASSUME NEW log \in NewLogs, log.txId # NoTransaction
      PROVE  \E row \in txRows' : row.id = log.txId /\ row.hash = log.hash
  <2>1. PICK d \in data.txs : d.id = log.txId /\ d.hash = log.hash
    BY <1>3 DEF BInv, DataRefersToOwn, NewLogs
  <2>2. PICK tx \in txRows \cup NewTransactions : tx.id = log.txId
    BY <1>3 DEF NewLogs
  <2>3. tx \notin txRows
    BY <2>1, <2>2 DEF BInv, DataNumbered, RowsNumbered
  <2>4. tx = d
    BY <1>1, <2>1, <2>2, <2>3 DEF BInv, DataNumbered, Distinct
  <2> QED
    BY <1>1, <2>1, <2>2, <2>4
<1>4. LogsReferToOwn'
  BY <1>1, <1>2, <1>3 DEF BInv, LogsReferToOwn, RowsNumbered, Distinct
<1> QED
  BY <1>1, <1>2, <1>4, Forgotten DEF BInv

\* The counter starts above every row.
LEMMA CounterRestarts ==
  ASSUME BInv, StoreTransactionId
  PROVE  nextId' \in Nat \ {0} /\ \A row \in txRows : row.id < nextId'
<1>1. CASE txRows = {}
  BY <1>1 DEF StoreTransactionId
<1>2. CASE txRows # {}
  <2> DEFINE ids == {row.id : row \in txRows}
  <2>1. ids \subseteq Nat /\ ids # {} /\ nextId \in Nat /\ \A id \in ids : id <= nextId
    BY <1>2 DEF BInv, RowsNumbered
  <2>2. \E m \in ids : \A id \in ids : id <= m
    <3> HIDE DEF ids
    <3> QED
      BY <2>1, LargestExists
  <2>3. \E m \in ids : \A row \in txRows : row.id <= m
    BY <2>2
  <2>4. PICK m \in ids : nextId' = 1 + m /\ \A row \in txRows : row.id <= m
    <3>1. nextId' = 1 + CHOOSE id \in ids : \A row \in txRows : row.id <= id
      BY <1>2 DEF StoreTransactionId
    <3> HIDE DEF ids
    <3> QED
      BY <2>3, <3>1
  <2>5. m \in Nat /\ \A row \in txRows : row.id \in Nat
    BY <2>1, <2>4
  <2> QED
    BY <2>4, <2>5
<1> QED
  BY <1>1, <1>2

LEMMA BInvNext == BInv /\ [Next]_vars => BInv'
<1> SUFFICES ASSUME BInv, [Next]_vars PROVE BInv'
  OBVIOUS
<1>1. ASSUME NEW first \in Block, NEW last \in Block, BatchStarts(first, last) PROVE BInv'
  <2>1. /\ txBatch' = <<>> /\ receipts' = <<>> /\ lo' = first /\ hi' = last
        /\ pc = "idle" /\ pc' = "blocks"
        /\ UNCHANGED <<data, nextId, txRows, logRows>>
    BY <1>1 DEF BatchStarts
  <2>2. DOMAIN txBatch' = 1 .. 0 /\ Len(txBatch') = 0 /\ DOMAIN receipts' = 1 .. 0
    BY <2>1
  <2>3. Numbered' /\ ReceiptsOwn' /\ InChain'
    BY <2>1, <2>2 DEF Numbered, ReceiptsOwn, InChain
  <2> QED
    BY <2>1, <2>3
    DEF BInv, RowsNumbered, DataNumbered, DataRefersToOwn, NothingBuilt, LogsReferToOwn
<1>2. ASSUME NEW b \in Block, BlockArrives(b) PROVE BInv'
  BY <1>2 DEF BlockArrives, BInv, InChain, Numbered, ReceiptsOwn, RowsNumbered,
              DataNumbered, DataRefersToOwn, NothingBuilt, LogsReferToOwn
<1>3. ASSUME BlocksProcessed PROVE BInv'
  <2>1. pc = "blocks" /\ pc' = "receipts" /\ UNCHANGED <<lo, hi, data, nextId, txRows, logRows>>
    BY <1>3 DEF BlocksProcessed
  <2>2. Numbered'
    BY <1>3, <2>1, ProcessedNumbered DEF BInv, InChain
  <2>3. receipts' = [i \in DOMAIN txBatch' |-> NoReceipt]
    BY <1>3 DEF BlocksProcessed
  <2>4. ReceiptsOwn'
    BY <2>3 DEF ReceiptsOwn
  <2> QED
    BY <2>1, <2>2, <2>4
    DEF BInv, InChain, RowsNumbered, DataNumbered, DataRefersToOwn, NothingBuilt, LogsReferToOwn
<1>4. ASSUME NEW i \in DOMAIN txBatch, ReceiptArrives(i) PROVE BInv'
  <2>1. /\ receipts' = [receipts EXCEPT ![i] = txBatch[i].tx]
        /\ UNCHANGED <<pc, lo, hi, txBatch, data, nextId, txRows, logRows>>
    BY <1>4 DEF ReceiptArrives
  <2>2. ReceiptsOwn'
    BY <2>1 DEF BInv, ReceiptsOwn
  <2> QED
    BY <2>1, <2>2
    DEF BInv, InChain, Numbered, RowsNumbered, DataNumbered, DataRefersToOwn, NothingBuilt,
        LogsReferToOwn
<1>5. ASSUME LogsArrive PROVE BInv'
  <2>1. UNCHANGED <<pc, lo, hi, txBatch, receipts, data, nextId, txRows, logRows>>
    BY <1>5 DEF LogsArrive
  <2> QED
    BY <2>1 DEF BInv, InChain, Numbered, ReceiptsOwn, RowsNumbered,
                DataNumbered, DataRefersToOwn, NothingBuilt, LogsReferToOwn
<1>6. ASSUME BatchFails PROVE BInv'
  <2>1. BatchForgotten /\ pc' = "idle" /\ UNCHANGED <<nextId, txRows, logRows>>
    BY <1>6 DEF BatchFails
  <2>2. RowsNumbered' /\ LogsReferToOwn'
    BY <2>1 DEF BInv, RowsNumbered, LogsReferToOwn
  <2> QED
    BY <2>1, <2>2, Forgotten DEF BInv
<1>7. ASSUME NEW next \in Configs, Restarts(next) PROVE BInv'
  <2>1. BatchForgotten /\ pc' = "idle" /\ StoreTransactionId /\ UNCHANGED <<txRows, logRows>>
    BY <1>7 DEF Restarts
  <2>2. RowsNumbered'
    BY <2>1, CounterRestarts DEF BInv, RowsNumbered
  <2>3. LogsReferToOwn'
    BY <2>1 DEF BInv, LogsReferToOwn
  <2> QED
    BY <2>1, <2>2, <2>3, Forgotten DEF BInv
<1>8. ASSUME NEW b \in Block, LogsDropped(b) PROVE BInv'
  <2>1. /\ logRows' \subseteq logRows
        /\ UNCHANGED <<pc, lo, hi, txBatch, receipts, data, nextId, txRows>>
    BY <1>8 DEF LogsDropped, batch
  <2> QED
    BY <2>1 DEF BInv, InChain, Numbered, ReceiptsOwn, RowsNumbered,
                DataNumbered, DataRefersToOwn, NothingBuilt, LogsReferToOwn
<1>9. ASSUME TransactionsDropped PROVE BInv'
  <2> DEFINE kept == {row \in txRows : row.block > pass}
  <2>1. /\ txRows' = kept /\ kept \subseteq txRows
        /\ logRows' = {row \in logRows :
                          row.txId # NoTransaction => \E tx \in kept : tx.id = row.txId}
        /\ UNCHANGED <<pc, lo, hi, txBatch, receipts, data, nextId>>
    BY <1>9 DEF TransactionsDropped, batch
  <2> HIDE DEF kept
  <2>2. RowsNumbered' /\ DataNumbered'
    BY <2>1 DEF BInv, RowsNumbered, DataNumbered, Distinct
  <2>3. ASSUME NEW log \in logRows', log.txId # NoTransaction
        PROVE  \E row \in txRows' : row.id = log.txId /\ row.hash = log.hash
    <3>1. PICK tx \in kept : tx.id = log.txId
      BY <2>1, <2>3
    <3>2. PICK row \in txRows : row.id = log.txId /\ row.hash = log.hash
      BY <2>1, <2>3 DEF BInv, LogsReferToOwn
    <3>3. tx = row
      BY <2>1, <3>1, <3>2 DEF BInv, LogsReferToOwn
    <3> QED
      BY <2>1, <3>1, <3>2, <3>3
  <2>4. LogsReferToOwn'
    BY <2>1, <2>3 DEF BInv, LogsReferToOwn
  <2> QED
    BY <2>1, <2>2, <2>4
    DEF BInv, InChain, Numbered, ReceiptsOwn, DataRefersToOwn, NothingBuilt
<1>10. ASSUME UNCHANGED vars PROVE BInv'
  BY <1>10 DEF vars, batch, BInv, InChain, Numbered, ReceiptsOwn, RowsNumbered,
               DataNumbered, DataRefersToOwn, NothingBuilt, LogsReferToOwn
<1> QED
  BY <1>1, <1>2, <1>3, <1>4, <1>5, <1>6, <1>7, <1>8, <1>9, <1>10, BuiltRows, SavedRows
  DEF Next, Fetching

\* Ids are never shared and a log refers to the row of its own transaction, for
\* every chain and configuration, whatever fails, restarts and is dropped
\* (storeTransactionID, processTransactions, saveData).
THEOREM LogsRefer == Spec => []LogsReferToOwn
<1>1. BInv => LogsReferToOwn
  BY DEF BInv
<1> QED
  BY <1>1, BInvInit, BInvNext, PTL DEF Spec

-----------------------------------------------------------------------------
(***************************************************************************)
(* Why a row never carries the status of another transaction.              *)
(***************************************************************************)

Earlier(p) == {q \in Collected : Before(q, p)}

\* The collected transactions can be numbered in the order of the chain.
LEMMA RanksCollected ==
  ASSUME lo \in Block, hi \in Block
  PROVE  /\ Cardinality(Collected) \in Nat
         /\ \A p \in Collected :
               Cardinality(Earlier(p)) \in 0 .. Cardinality(Collected) - 1
         /\ \A p, q \in Collected :
               Cardinality(Earlier(p)) = Cardinality(Earlier(q)) => p = q
         /\ \A i \in 1 .. Cardinality(Collected) :
               \E p \in Collected : Cardinality(Earlier(p)) = i - 1
<1> DEFINE n == Cardinality(Collected)
           rank == [p \in Collected |-> Cardinality(Earlier(p))]
<1>1. IsFiniteSet(Collected) /\ n \in Nat
  BY CollectedFinite, FS_CardinalityType
<1>2. ASSUME NEW p \in Collected PROVE p[1] \in Int /\ p[2] \in Int /\ p = <<p[1], p[2]>>
  <2>1. PICK b \in lo .. hi : p \in {<<b, k>> : k \in {k \in DOMAIN Chain[b] :
                                            Matching(policies, Chain[b][k]) # {}}}
    BY DEF Collected
  <2>2. PICK k \in DOMAIN Chain[b] : p = <<b, k>>
    BY <2>1
  <2>3. b \in Block
    BY BatchAssumption DEF Block
  <2>4. Chain[b] \in Seq([hash : STRING, to : STRING, sig : STRING, status : {0, 1},
                          logs : SUBSET [index : Nat, address : STRING, topic : STRING]])
    BY <2>3, BatchAssumption DEF Block
  <2>5. k \in 1 .. Len(Chain[b]) /\ Len(Chain[b]) \in Nat
    BY <2>2, <2>4
  <2> QED
    BY <2>2, <2>5
<1>3. ASSUME NEW p \in Collected
      PROVE  IsFiniteSet(Earlier(p)) /\ Cardinality(Earlier(p)) \in 0 .. n - 1
  <2>1. p \notin Earlier(p) /\ Earlier(p) \subseteq Collected
    BY <1>2 DEF Earlier, Before
  <2>2. IsFiniteSet(Collected \ {p}) /\ Cardinality(Collected \ {p}) = n - 1
    BY <1>1, FS_RemoveElement
  <2>3. Earlier(p) \in SUBSET (Collected \ {p})
    BY <2>1
  <2>4. IsFiniteSet(Earlier(p)) /\ Cardinality(Earlier(p)) <= n - 1
    BY <2>2, <2>3, FS_Subset
  <2>5. Cardinality(Earlier(p)) \in Nat
    BY <2>4, FS_CardinalityType
  <2> QED
    BY <1>1, <2>4, <2>5
<1>4. ASSUME NEW p \in Collected, NEW q \in Collected, Before(p, q)
      PROVE  Cardinality(Earlier(p)) < Cardinality(Earlier(q))
  <2>1. /\ p[1] \in Int /\ p[2] \in Int /\ q[1] \in Int /\ q[2] \in Int
        /\ \A r \in Collected : r[1] \in Int /\ r[2] \in Int
    BY <1>2
  <2>2. Earlier(p) \subseteq Earlier(q)
    BY <1>4, <2>1 DEF Earlier, Before
  <2>3. p \in Earlier(q) /\ p \notin Earlier(p)
    BY <1>4, <2>1 DEF Earlier, Before
  <2>4. Earlier(p) \in SUBSET Earlier(q) /\ Earlier(p) # Earlier(q)
    BY <2>2, <2>3
  <2>5. /\ Cardinality(Earlier(p)) <= Cardinality(Earlier(q))
        /\ Cardinality(Earlier(p)) # Cardinality(Earlier(q))
    BY <1>3, <2>4, FS_Subset
  <2>6. Cardinality(Earlier(p)) \in Int /\ Cardinality(Earlier(q)) \in Int
    BY <1>3
  <2> QED
    BY <2>5, <2>6
<1>5. ASSUME NEW p \in Collected, NEW q \in Collected, rank[p] = rank[q]
      PROVE  p = q
  <2>1. Cardinality(Earlier(p)) = Cardinality(Earlier(q))
    BY <1>5
  <2>2. ~Before(p, q) /\ ~Before(q, p)
    BY <1>3, <1>4, <2>1
  <2>3. p[1] = q[1] /\ p[2] = q[2]
    BY <1>2, <2>2 DEF Before
  <2> QED
    BY <1>2, <2>3
<1>6. rank \in Injection(Collected, 0 .. n - 1)
  <2>1. rank \in [Collected -> 0 .. n - 1]
    BY <1>3
  <2> HIDE DEF rank, n
  <2> QED
    BY <1>5, <2>1 DEF Injection, IsInjective
<1>7. rank \in Surjection(Collected, 0 .. n - 1)
  <2> HIDE DEF rank
  <2> HIDE DEF n
  <2>1. n \in Int /\ n - 1 \in Int /\ 0 \in Int /\ n >= 0
    BY <1>1
  <2>2. /\ IsFiniteSet(0 .. n - 1)
        /\ Cardinality(0 .. n - 1) = IF 0 > n - 1 THEN 0 ELSE n - 1 - 0 + 1
    BY <2>1, FS_Interval
  <2>3. Cardinality(0 .. n - 1) = n
    BY <2>1, <2>2
  <2>4. Cardinality(Collected) = Cardinality(0 .. n - 1)
    BY <2>3 DEF n
  <2> QED
    BY <1>6, <2>2, <2>4, FS_Injection
<1>8. ASSUME NEW i \in 1 .. n PROVE \E p \in Collected : Cardinality(Earlier(p)) = i - 1
  <2>1. PICK p \in Collected : rank[p] = i - 1
    <3> HIDE DEF rank
    <3>1. i - 1 \in 0 .. n - 1
      BY <1>1
    <3> QED
      BY <1>7, <3>1 DEF Surjection
  <2> QED
    BY <2>1
<1> QED
  BY <1>1, <1>3, <1>5, <1>8

LEMMA IthCollected ==
  ASSUME lo \in Block, hi \in Block, NEW i \in 1 .. Cardinality(Collected)
  PROVE  Ith(i) \in Collected /\ Cardinality(Earlier(Ith(i))) = i - 1
<1>1. \E p \in Collected : Cardinality(Earlier(p)) = i - 1
  BY RanksCollected
<1> QED
  BY <1>1 DEF Ith, Earlier

\* A transaction of the chain has this hash and this status.
HasStatus(hash, status) ==
    \E b \in Block : \E k \in DOMAIN Chain[b] :
        Chain[b][k].hash = hash /\ Chain[b][k].status = status

TransactionsOfChain ==
    \A i \in DOMAIN txBatch : HasStatus(txBatch[i].tx.hash, txBatch[i].tx.status)

DataStatusIsOwn ==
    \A row \in data.txs : row.status # UnknownStatus => HasStatus(row.hash, row.status)

RowStatusIsOwn ==
    \A row \in txRows : row.status # UnknownStatus => HasStatus(row.hash, row.status)

SInv == TransactionsOfChain /\ DataStatusIsOwn /\ RowStatusIsOwn

LEMMA NothingOwn ==
  ASSUME txBatch = <<>>, data = NoData
  PROVE  TransactionsOfChain /\ DataStatusIsOwn
<1>1. DOMAIN txBatch = {} /\ data.txs = {}
  BY DEF NoData
<1> QED
  BY <1>1 DEF TransactionsOfChain, DataStatusIsOwn

LEMMA NothingOwnAfter ==
  ASSUME txBatch' = <<>>, data' = NoData
  PROVE  TransactionsOfChain' /\ DataStatusIsOwn'
<1>1. DOMAIN txBatch' = {} /\ data'.txs = {}
  BY DEF NoData
<1> QED
  BY <1>1 DEF TransactionsOfChain, DataStatusIsOwn, HasStatus

LEMMA ProcessedOfChain ==
  ASSUME lo \in Block, hi \in Block, BlocksProcessed
  PROVE  TransactionsOfChain'
<1> DEFINE n == Cardinality(Collected)
           F(i) == LET p == Ith(i)
                       tx == Chain[p[1]][p[2]]
                   IN [tx |-> tx, block |-> p[1], policy |-> PolicyOf(policies, tx)]
<1>1. txBatch' = [i \in 1 .. n |-> F(i)]
  BY DEF BlocksProcessed
<1>2. ASSUME NEW i \in 1 .. n
      PROVE  HasStatus(F(i).tx.hash, F(i).tx.status)
  <2>1. Ith(i) \in Collected
    BY IthCollected
  <2>2. PICK b \in lo .. hi : Ith(i) \in {<<b, k>> : k \in {k \in DOMAIN Chain[b] :
                                            Matching(policies, Chain[b][k]) # {}}}
    BY <2>1 DEF Collected
  <2>3. PICK k \in DOMAIN Chain[b] : Ith(i) = <<b, k>>
    BY <2>2
  <2>4. b \in Block
    BY BatchAssumption DEF Block
  <2>5. F(i).tx = Chain[b][k]
    BY <2>3
  <2> QED
    BY <2>4, <2>5 DEF HasStatus
<1> HIDE DEF n, F
<1>3. DOMAIN txBatch' = 1 .. n /\ \A i \in 1 .. n : txBatch'[i] = F(i)
  BY <1>1
<1> QED
  BY <1>2, <1>3 DEF TransactionsOfChain, HasStatus

LEMMA SInvNext == BInv /\ SInv /\ [Next]_vars => SInv'
<1> SUFFICES ASSUME BInv, SInv, [Next]_vars PROVE SInv'
  OBVIOUS
<1>1. ASSUME UNCHANGED <<txBatch, data, txRows>> PROVE SInv'
  BY <1>1 DEF SInv, TransactionsOfChain, DataStatusIsOwn, RowStatusIsOwn, HasStatus
<1>2. ASSUME BatchForgotten, txRows' \subseteq txRows PROVE SInv'
  <2>1. TransactionsOfChain' /\ DataStatusIsOwn'
    BY <1>2, NothingOwnAfter DEF BatchForgotten
  <2> QED
    BY <1>2, <2>1 DEF SInv, RowStatusIsOwn, HasStatus
<1>3. ASSUME NEW first \in Block, NEW last \in Block, BatchStarts(first, last) PROVE SInv'
  <2>1. data = NoData /\ data' = NoData /\ txBatch' = <<>> /\ txRows' = txRows
    BY <1>3 DEF BatchStarts, BInv, NothingBuilt
  <2> QED
    BY <2>1, NothingOwnAfter DEF SInv, RowStatusIsOwn, HasStatus
<1>4. ASSUME BlocksProcessed PROVE SInv'
  <2>1. TransactionsOfChain'
    BY <1>4, ProcessedOfChain DEF BInv, InChain, BlocksProcessed
  <2>2. data' = data /\ txRows' = txRows
    BY <1>4 DEF BlocksProcessed
  <2> QED
    BY <2>1, <2>2 DEF SInv, DataStatusIsOwn, RowStatusIsOwn, HasStatus
<1>5. ASSUME RowsBuilt PROVE SInv'
  <2>1. data'.txs = TransactionRows /\ txBatch' = txBatch /\ txRows' = txRows
    BY <1>5 DEF RowsBuilt
  <2>2. ASSUME NEW row \in TransactionRows, row.status # UnknownStatus
        PROVE  HasStatus(row.hash, row.status)
    <3>1. PICK i \in DOMAIN txBatch : /\ row.hash = txBatch[i].tx.hash
                                     /\ row.status = receipts[i].status
      BY DEF TransactionRows
    <3>2. receipts[i] # NoReceipt
      BY <2>2, <3>1 DEF NoReceipt
    <3>3. receipts[i] = txBatch[i].tx
      BY <3>2 DEF BInv, ReceiptsOwn
    <3> QED
      BY <3>1, <3>3 DEF SInv, TransactionsOfChain
  <2> QED
    BY <2>1, <2>2 DEF SInv, TransactionsOfChain, DataStatusIsOwn, RowStatusIsOwn, HasStatus
<1>6. ASSUME Saved PROVE SInv'
  <2>1. txRows' \subseteq txRows \cup data.txs /\ BatchForgotten
    BY <1>6 DEF Saved, NewTransactions
  <2>2. TransactionsOfChain' /\ DataStatusIsOwn'
    BY <2>1, NothingOwnAfter DEF BatchForgotten
  <2> QED
    BY <2>1, <2>2 DEF SInv, DataStatusIsOwn, RowStatusIsOwn, HasStatus
<1>7. ASSUME NEW i \in DOMAIN txBatch, ReceiptArrives(i) PROVE SInv'
  BY <1>1, <1>7 DEF ReceiptArrives
<1>8. ASSUME TransactionsDropped PROVE SInv'
  <2>1. txRows' \subseteq txRows /\ UNCHANGED <<txBatch, data>>
    BY <1>8 DEF TransactionsDropped, batch
  <2> QED
    BY <2>1 DEF SInv, TransactionsOfChain, DataStatusIsOwn, RowStatusIsOwn, HasStatus
<1>9. ASSUME LogsArrive \/ \E b \in Block : BlockArrives(b) \/ LogsDropped(b) PROVE SInv'
  BY <1>1, <1>9 DEF LogsArrive, BlockArrives, LogsDropped, batch
<1>10. ASSUME BatchFails \/ \E next \in Configs : Restarts(next) PROVE SInv'
  BY <1>2, <1>10 DEF BatchFails, Restarts
<1>11. ASSUME UNCHANGED vars PROVE SInv'
  BY <1>1, <1>11 DEF vars, batch
<1> QED
  BY <1>3, <1>4, <1>5, <1>6, <1>7, <1>8, <1>9, <1>10, <1>11 DEF Next, Fetching

\* A row that carries a status carries that of its own transaction, for every
\* chain and in whatever order the receipts arrive (fetchReceiptAt, buildDBTx).
THEOREM StatusOwn == Spec => []StatusIsOwn
<1>1. Init => SInv
  BY NothingOwn DEF Init, NoBatch, SInv, RowStatusIsOwn
<1>2. SInv => StatusIsOwn
  BY DEF SInv, RowStatusIsOwn, StatusIsOwn, HasStatus
<1> QED
  BY <1>1, <1>2, BInvInit, BInvNext, SInvNext, PTL DEF Spec

-----------------------------------------------------------------------------
(***************************************************************************)
(* Type correctness.                                                       *)
(***************************************************************************)

LEMMA ResolveAllTyped ==
  ASSUME NEW name \in DOMAIN Registry
  PROVE  ResolveAllByName(name) \in Seq(STRING)
<1> DEFINE upgrade == {u \in Upgrades : u.name = name /\ Registry[name] \in {u.old, u.new}}
<1>1. Registry[name] \in STRING
  BY CollectorsAssumption
<1>2. CASE upgrade = {}
  <2>1. ResolveAllByName(name) = <<Registry[name]>>
    BY <1>2 DEF ResolveAllByName
  <2> QED
    BY <1>1, <2>1
<1>3. CASE upgrade # {}
  <2>1. PICK u \in upgrade : ResolveAllByName(name) = <<u.old, u.new>>
    BY <1>3 DEF ResolveAllByName
  <2>2. u.old \in STRING /\ u.new \in STRING
    BY <2>1, CollectorsAssumption
  <2> QED
    BY <2>1, <2>2
<1> QED
  BY <1>2, <1>3

\* What an entry becomes.
LEMMA EntryResolved ==
  ASSUME NEW e \in CollectorEntry
  PROVE  (IF e.address # Empty THEN <<e>>
          ELSE [j \in DOMAIN ResolveAllByName(e.name) |->
                  [e EXCEPT !.address = ResolveAllByName(e.name)[j]]])
         \in Seq(CollectorEntry)
<1>1. CASE e.address # Empty
  BY <1>1
<1>2. CASE e.address = Empty
  <2>1. e.name \in DOMAIN Registry
    BY <1>2 DEF CollectorEntry
  <2> DEFINE resolved == ResolveAllByName(e.name)
             named == [j \in DOMAIN resolved |-> [e EXCEPT !.address = resolved[j]]]
  <2>2. resolved \in Seq(STRING)
    BY <2>1, ResolveAllTyped
  <2> HIDE DEF resolved
  <2>3. Len(resolved) \in Nat /\ DOMAIN resolved = 1 .. Len(resolved)
    BY <2>2
  <2>4. ASSUME NEW j \in DOMAIN resolved
        PROVE  [e EXCEPT !.address = resolved[j]] \in CollectorEntry
    <3>1. resolved[j] \in STRING
      BY <2>2
    <3> QED
      BY <2>1, <3>1 DEF CollectorEntry
  <2>5. named \in [1 .. Len(resolved) -> CollectorEntry]
    BY <2>3, <2>4
  <2> HIDE DEF named
  <2>6. named \in Seq(CollectorEntry)
    BY <2>3, <2>5
  <2> QED
    BY <1>2, <2>6 DEF named, resolved
<1> QED
  BY <1>1, <1>2

LEMMA ResolveTyped ==
  ASSUME NEW entries \in Seq(CollectorEntry)
  PROVE  Resolve(entries) \in Seq(CollectorEntry)
<1> DEFINE Resolved(e) == IF e.address # Empty THEN <<e>>
                          ELSE [j \in DOMAIN ResolveAllByName(e.name) |->
                                  [e EXCEPT !.address = ResolveAllByName(e.name)[j]]]
           seqs == [i \in DOMAIN entries |-> Resolved(entries[i])]
<1>1. Len(entries) \in Nat /\ DOMAIN entries = 1 .. Len(entries)
      /\ \A i \in DOMAIN entries : entries[i] \in CollectorEntry
  OBVIOUS
<1>2. ASSUME NEW i \in DOMAIN entries PROVE Resolved(entries[i]) \in Seq(CollectorEntry)
  <2>1. entries[i] \in CollectorEntry
    BY <1>1
  <2> QED
    BY <2>1, EntryResolved
<1>3. seqs \in [1 .. Len(entries) -> Seq(CollectorEntry)]
  <2> HIDE DEF Resolved
  <2> QED
    BY <1>1, <1>2
<1>4. Resolve(entries) = FlattenSeq(seqs)
  BY DEF Resolve
<1> HIDE DEF seqs
<1>5. seqs \in Seq(Seq(CollectorEntry)) /\ Len(seqs) = Len(entries)
  BY <1>1, <1>3
<1>6. CASE Len(seqs) = 0
  <2>1. seqs = <<>>
    BY <1>5, <1>6
  <2>2. FlattenSeq(seqs) = seqs
    BY <1>6 DEF FlattenSeq
  <2>3. <<>> \in Seq(CollectorEntry)
    OBVIOUS
  <2> QED
    BY <1>4, <2>1, <2>2, <2>3
<1>7. CASE Len(seqs) # 0
  <2>1. FlattenSeq(seqs) \in Seq(CollectorEntry)
    BY <1>5, <1>7, FlattenTyped
  <2> QED
    BY <1>4, <2>1
<1> QED
  BY <1>6, <1>7

\* The log entries and the transaction entries of a configuration.
LEMMA EntriesTyped ==
  ASSUME NEW c \in Configs
  PROVE  Transactions(c) \in Seq(CollectorEntry) /\ Logs(c) \in Seq(CollectorEntry)
<1>1. c.transactions \in Seq(CollectorEntry) /\ c.logs \in Seq(CollectorEntry)
  BY BatchAssumption
<1> QED
  BY <1>1, CollectorsAssumption, MergeTyped DEF Transactions, Logs

\* What a process collects stays as its start resolved it.
CollectorsTyped ==
    /\ filters \in Seq(CollectorEntry)
    /\ \A target \in DOMAIN policies : target = <<target[1], target[2]>>

LEMMA CollectorsBuilt ==
  ASSUME NEW c \in Configs
  PROVE  /\ Resolve(Logs(c)) \in Seq(CollectorEntry)
         /\ \A target \in DOMAIN Policies(Resolve(Transactions(c))) :
               target = <<target[1], target[2]>>
<1>1. Resolve(Logs(c)) \in Seq(CollectorEntry)
  BY EntriesTyped, ResolveTyped
<1> DEFINE entries == Resolve(Transactions(c))
<1> HIDE DEF entries
<1>2. DOMAIN Policies(entries) = {Target(entries[i]) : i \in DOMAIN entries}
  BY DEF Policies
<1>3. \A target \in DOMAIN Policies(entries) : target = <<target[1], target[2]>>
  BY <1>2 DEF Target
<1> QED
  BY <1>1, <1>3 DEF entries

TInv == TypeOK /\ CollectorsTyped

LEMMA BlockNumbers == Block \subseteq Nat /\ 1 \in Block
<1>1. Chain \in Seq(Seq([hash : STRING, to : STRING, sig : STRING, status : {0, 1},
                          logs : SUBSET [index : Nat, address : STRING, topic : STRING]]))
      /\ Chain # <<>>
  BY BatchAssumption
<1> QED
  BY <1>1 DEF Block

LEMMA TInvInit == Init => TInv
<1> SUFFICES ASSUME Init PROVE TInv
  OBVIOUS
<1>1. CollectorsTyped
  BY CollectorsBuilt DEF Init, CollectorsTyped
<1>2. filter \in 1 .. Len(filters) + 1
  <2>1. Len(filters) \in Nat /\ filter = 1
    BY <1>1 DEF CollectorsTyped, Init, NoBatch
  <2> QED
    BY <2>1
<1>3. TypeOK
  BY <1>2, BlockNumbers, BatchAssumption DEF Init, NoBatch, TypeOK
<1> QED
  BY <1>1, <1>3 DEF TInv

\* Between two batches the variables of a batch are of their types.
LEMMA ForgottenTyped ==
  ASSUME BatchForgotten, Len(filters') \in Nat
  PROVE  /\ lo' \in Block /\ hi' \in Block
         /\ fetched' \subseteq lo' .. hi'
         /\ DOMAIN receipts' = DOMAIN txBatch'
         /\ filter' \in 1 .. Len(filters') + 1
         /\ from' \in lo' .. hi'
BY BlockNumbers DEF BatchForgotten

LEMMA TInvNext == BInv /\ TInv /\ BInv' /\ [Next]_vars => TInv'
<1> SUFFICES ASSUME BInv, TInv, BInv', [Next]_vars PROVE TInv'
  OBVIOUS
<1> DEFINE Rest == /\ DOMAIN receipts' = DOMAIN txBatch' /\ nextId' \in Nat \ {0}
<1>1. Rest
  BY DEF BInv, ReceiptsOwn, RowsNumbered
<1>2. Len(filters) \in Nat /\ DOMAIN filters = 1 .. Len(filters)
  BY DEF TInv, CollectorsTyped
<1>3. ASSUME NEW first \in Block, NEW last \in Block, BatchStarts(first, last) PROVE TInv'
  <2>1. /\ pc' = "blocks" /\ lo' = first /\ hi' = last /\ fetched' = {}
        /\ filter' = 1 /\ from' = first /\ first <= last
        /\ UNCHANGED <<config, policies, filters, pass, faults>>
    BY <1>3 DEF BatchStarts, collectors
  <2>2. from' \in lo' .. hi' /\ filter' \in 1 .. Len(filters') + 1
    BY <1>2, <2>1, BlockNumbers
  <2> QED
    BY <1>1, <2>1, <2>2 DEF TInv, TypeOK, CollectorsTyped
<1>4. ASSUME NEW b \in Block, BlockArrives(b) PROVE TInv'
  <2>1. /\ b \in lo .. hi /\ fetched' = fetched \cup {b}
        /\ UNCHANGED <<config, policies, filters, pc, lo, hi, filter, from, pass, faults>>
    BY <1>4 DEF BlockArrives, InFlight, collectors
  <2> QED
    BY <1>1, <2>1 DEF TInv, TypeOK, CollectorsTyped
<1>5. ASSUME BlocksProcessed PROVE TInv'
  <2>1. /\ pc' = "receipts"
        /\ UNCHANGED <<config, policies, filters, lo, hi, fetched, filter, from, pass, faults>>
    BY <1>5 DEF BlocksProcessed, collectors
  <2> QED
    BY <1>1, <2>1 DEF TInv, TypeOK, CollectorsTyped
<1>6. ASSUME NEW i \in DOMAIN txBatch, ReceiptArrives(i) PROVE TInv'
  <2>1. UNCHANGED <<config, policies, filters, pc, lo, hi, fetched, filter, from, pass, faults>>
    BY <1>6 DEF ReceiptArrives, collectors
  <2> QED
    BY <1>1, <2>1 DEF TInv, TypeOK, CollectorsTyped
<1>7. ASSUME LogsArrive PROVE TInv'
  <2>1. /\ filter \in DOMAIN filters /\ NextRequest
        /\ UNCHANGED <<config, policies, filters, pc, lo, hi, fetched, pass, faults>>
    BY <1>7 DEF LogsArrive, collectors
  <2>2. /\ lo \in Nat /\ hi \in Nat /\ from \in lo .. hi /\ LogRange \in Nat \ {0}
    BY BlockNumbers, BatchAssumption DEF TInv, TypeOK
  <2>3. from' \in lo .. hi /\ filter' \in 1 .. Len(filters) + 1
    BY <1>2, <2>1, <2>2 DEF NextRequest
  <2> QED
    BY <1>1, <2>1, <2>3 DEF TInv, TypeOK, CollectorsTyped
<1>8. ASSUME RowsBuilt PROVE TInv'
  <2>1. /\ pc' = "save"
        /\ UNCHANGED <<config, policies, filters, lo, hi, fetched, filter, from, pass, faults>>
    BY <1>8 DEF RowsBuilt, collectors
  <2> QED
    BY <1>1, <2>1 DEF TInv, TypeOK, CollectorsTyped
<1>9. ASSUME Saved PROVE TInv'
  <2>1. /\ pc' = "idle" /\ BatchForgotten /\ UNCHANGED <<config, policies, filters, pass, faults>>
    BY <1>9 DEF Saved, collectors
  <2> QED
    BY <1>1, <1>2, <2>1, ForgottenTyped DEF TInv, TypeOK, CollectorsTyped
<1>10. ASSUME BatchFails PROVE TInv'
  <2>1. /\ pc' = "idle" /\ BatchForgotten /\ UNCHANGED <<config, policies, filters, pass>>
        /\ faults < MaxFaults /\ faults' = faults + 1
    BY <1>10 DEF BatchFails, collectors
  <2>2. faults' \in 0 .. MaxFaults
    BY <2>1, BatchAssumption DEF TInv, TypeOK
  <2> QED
    BY <1>1, <1>2, <2>1, <2>2, ForgottenTyped DEF TInv, TypeOK, CollectorsTyped
<1>11. ASSUME NEW next \in Configs, Restarts(next) PROVE TInv'
  <2>1. /\ pc' = "idle" /\ BatchForgotten /\ pass' = 0 /\ config' = next
        /\ policies' = Policies(Resolve(Transactions(next)))
        /\ filters' = Resolve(Logs(next))
        /\ faults < MaxFaults /\ faults' = faults + 1
    BY <1>11 DEF Restarts
  <2>2. faults' \in 0 .. MaxFaults
    BY <2>1, BatchAssumption DEF TInv, TypeOK
  <2>3. CollectorsTyped'
    BY <2>1, CollectorsBuilt DEF CollectorsTyped
  <2>4. Len(filters') \in Nat
    BY <2>3 DEF CollectorsTyped
  <2> QED
    BY <1>1, <2>1, <2>2, <2>3, <2>4, ForgottenTyped DEF TInv, TypeOK
<1>12. ASSUME NEW b \in Block, LogsDropped(b) PROVE TInv'
  <2>1. pass' = b /\ UNCHANGED <<config, policies, filters, pc, lo, hi, fetched, filter, from, faults>>
    BY <1>12 DEF LogsDropped, collectors, batch
  <2> QED
    BY <1>1, <2>1 DEF TInv, TypeOK, CollectorsTyped
<1>13. ASSUME TransactionsDropped PROVE TInv'
  <2>1. pass' = 0 /\ UNCHANGED <<config, policies, filters, pc, lo, hi, fetched, filter, from, faults>>
    BY <1>13 DEF TransactionsDropped, collectors, batch
  <2> QED
    BY <1>1, <2>1 DEF TInv, TypeOK, CollectorsTyped
<1>14. ASSUME UNCHANGED vars PROVE TInv'
  BY <1>1, <1>14 DEF vars, collectors, batch, TInv, TypeOK, CollectorsTyped
<1> QED
  BY <1>3, <1>4, <1>5, <1>6, <1>7, <1>8, <1>9, <1>10, <1>11, <1>12, <1>13, <1>14
  DEF Next, Fetching

\* Every variable keeps its type, for every chain and every configuration a
\* process gets past resolving; the request of a batch for logs never leaves its
\* blocks and receipts are as long as the transactions (indexBatch, requestLogs).
THEOREM TypeCorrect == Spec => []TypeOK
<1>1. TInv => TypeOK
  BY DEF TInv
<1> QED
  BY <1>1, BInvInit, BInvNext, TInvInit, TInvNext, PTL DEF Spec

-----------------------------------------------------------------------------
(***************************************************************************)
(* Why a batch that is saved is saved whole.                               *)
(***************************************************************************)

LEMMA IthOnto ==
  ASSUME lo \in Block, hi \in Block, NEW p \in Collected
  PROVE  \E i \in 1 .. Cardinality(Collected) : Ith(i) = p
<1> DEFINE n == Cardinality(Collected)
           r == Cardinality(Earlier(p))
<1>1. n \in Nat /\ r \in 0 .. n - 1
  BY RanksCollected
<1>2. r + 1 \in 1 .. n /\ (r + 1) - 1 = r
  <2> HIDE DEF n, r
  <2> QED
    BY <1>1
<1> DEFINE i == r + 1
<1>3. Ith(i) \in Collected /\ Cardinality(Earlier(Ith(i))) = i - 1
  <2> HIDE DEF i
  <2> QED
    BY <1>2, IthCollected DEF i
<1>4. Cardinality(Earlier(Ith(i))) = Cardinality(Earlier(p))
  BY <1>2, <1>3
<1>5. Ith(i) = p
  <2> HIDE DEF i
  <2> QED
    BY <1>3, <1>4, RanksCollected
<1> QED
  BY <1>2, <1>5

\* What the batch keeps of the transaction at a place of the chain.
Kept(p) == [tx |-> Chain[p[1]][p[2]], block |-> p[1],
            policy |-> PolicyOf(policies, Chain[p[1]][p[2]])]

\* The batch holds all collected transactions and no other.
HoldsCollected ==
    /\ \A p \in Collected : \E i \in DOMAIN txBatch : txBatch[i] = Kept(p)
    /\ \A i \in DOMAIN txBatch : \E p \in Collected : txBatch[i] = Kept(p)

CollectedIn == pc \in {"receipts", "save"} => HoldsCollected

\* The logs of the requests that have been answered are there.
Scanned ==
    pc # "idle" =>
        \A f \in DOMAIN filters : \A b \in lo .. hi :
            f < filter \/ (f = filter /\ b < from) =>
                \A row \in BlockLogs(b) : Passes(filters[f], row.log) => row \in lgBatch

\* The rows about to be saved of the transaction at a place of the chain.
TransactionBuilt(tx) ==
    AskedFor(tx) # {} =>
        \E row \in data.txs : /\ row.hash = tx.hash
                              /\ StatusAskedFor(tx) => row.status = tx.status

LogBuilt(tx, log) ==
    \E row \in data.logs :
        /\ row.hash = tx.hash /\ row.index = log.index
        /\ row.txId # NoTransaction =>
              EventsAskedFor(tx) /\ \E own \in data.txs : own.id = row.txId /\ own.hash = tx.hash

Built(tx) ==
    /\ TransactionBuilt(tx)
    /\ \A log \in tx.logs : FilteredFor(log) \/ EventsAskedFor(tx) => LogBuilt(tx, log)

DataWhole ==
    pc = "save" => \A b \in lo .. hi : \A i \in DOMAIN Chain[b] : Built(Chain[b][i])

WInv == CollectedIn /\ Scanned /\ DataWhole

LEMMA AskedMatching ==
  ASSUME CollectorsTyped, NEW tx
  PROVE  AskedFor(tx) = Matching(policies, tx)
<1>1. ASSUME NEW target \in DOMAIN policies
      PROVE  target = <<target[1], target[2]>>
  BY DEF CollectorsTyped
<1>2. CASE Empty \in {tx.to, tx.sig}
  BY <1>2 DEF AskedFor, Matching
<1>3. CASE Empty \notin {tx.to, tx.sig}
  <2>1. tx.to # Empty /\ tx.sig # Empty
    BY <1>3
  <2>2. Matching(policies, tx) = ({tx.to, Undefined} \X {tx.sig, Undefined}) \cap DOMAIN policies
    BY <1>3 DEF Matching
  <2>3. AskedFor(tx) = {target \in DOMAIN policies : target[1] \in {tx.to, Undefined}
                                                     /\ target[2] \in {tx.sig, Undefined}}
    BY <2>1 DEF AskedFor
  <2> QED
    BY <1>1, <2>2, <2>3
<1> QED
  BY <1>2, <1>3

LEMMA ProcessedHolds ==
  ASSUME lo \in Block, hi \in Block, BlocksProcessed
  PROVE  HoldsCollected'
<1> DEFINE n == Cardinality(Collected)
<1>1. UNCHANGED <<policies, lo, hi>>
  BY DEF BlocksProcessed, collectors
<1>2. Collected' = Collected
  BY <1>1 DEF Collected, Matching
<1>3. \A p : Kept(p)' = Kept(p)
  BY <1>1 DEF Kept, PolicyOf, Matching
<1>4. txBatch' = [i \in 1 .. n |-> Kept(Ith(i))]
  BY DEF BlocksProcessed, Kept
<1> HIDE DEF n
<1>5. DOMAIN txBatch' = 1 .. n /\ \A i \in 1 .. n : txBatch'[i] = Kept(Ith(i))
  BY <1>4
<1>6. ASSUME NEW p \in Collected PROVE \E i \in 1 .. n : txBatch'[i] = Kept(p)
  <2>1. PICK i \in 1 .. n : Ith(i) = p
    BY IthOnto DEF n
  <2> QED
    BY <1>5, <2>1
<1>7. ASSUME NEW i \in 1 .. n PROVE \E p \in Collected : txBatch'[i] = Kept(p)
  <2>1. Ith(i) \in Collected
    BY IthCollected DEF n
  <2> QED
    BY <1>5, <2>1
<1>8. /\ \A p \in Collected' : \E i \in DOMAIN txBatch' : txBatch'[i] = Kept(p)'
      /\ \A i \in DOMAIN txBatch' : \E p \in Collected' : txBatch'[i] = Kept(p)'
  BY <1>2, <1>3, <1>5, <1>6, <1>7
<1> QED
  BY <1>8 DEF HoldsCollected

\* Where a collected transaction is.
LEMMA CollectedPlace ==
  ASSUME NEW p
  PROVE  p \in Collected <=>
            \E b \in lo .. hi : \E k \in DOMAIN Chain[b] :
                p = <<b, k>> /\ Matching(policies, Chain[b][k]) # {}
BY DEF Collected

LEMMA BatchInChain ==
  ASSUME lo \in Block, hi \in Block
  PROVE  lo .. hi \subseteq Block
BY BatchAssumption DEF Block

\* A policy asks for what the entries that match ask for.
LEMMA PolicyAsked ==
  ASSUME CollectorsTyped, NEW tx
  PROVE  /\ PolicyOf(policies, tx).events <=> EventsAskedFor(tx)
         /\ PolicyOf(policies, tx).status \/ PolicyOf(policies, tx).events
               <=> StatusAskedFor(tx)
<1>1. AskedFor(tx) = Matching(policies, tx)
  BY AskedMatching
<1>2. /\ PolicyOf(policies, tx).events
            <=> \E target \in Matching(policies, tx) : policies[target].events
      /\ PolicyOf(policies, tx).status
            <=> \E target \in Matching(policies, tx) : policies[target].status
  BY DEF PolicyOf
<1> QED
  BY <1>1, <1>2, Zenon DEF EventsAskedFor, StatusAskedFor

\* What every transaction of the batch has when its rows are built.
LEMMA ReceiptThere ==
  ASSUME BInv, Awaited = {}, NEW i \in DOMAIN txBatch, NeedsReceipt(i)
  PROVE  receipts[i] # NoReceipt /\ receipts[i] = txBatch[i].tx
<1>1. receipts[i] # NoReceipt
  BY DEF Awaited
<1> QED
  BY <1>1 DEF BInv, ReceiptsOwn

LEMMA ReceiptRowOwn ==
  ASSUME BInv, NEW row \in ReceiptLogRows
  PROVE  \E i \in DOMAIN txBatch :
            /\ row.hash = txBatch[i].tx.hash
            /\ txBatch[i].policy.events
            /\ \E own \in TransactionRows : own.id = row.txId /\ own.hash = row.hash
<1>1. PICK i \in DOMAIN txBatch :
         row \in {Row(log, nextId + i - 1) : log \in ReceiptLogs(i)}
  BY DEF ReceiptLogRows
<1>2. PICK log \in ReceiptLogs(i) : row = Row(log, nextId + i - 1)
  BY <1>1
<1>3. /\ receipts[i] # NoReceipt /\ txBatch[i].policy.events
      /\ log \in LogsOf(receipts[i], txBatch[i].block)
  BY <1>2 DEF ReceiptLogs
<1>4. receipts[i] = txBatch[i].tx
  BY <1>3 DEF BInv, ReceiptsOwn
<1>5. row.hash = txBatch[i].tx.hash /\ row.txId = nextId + i - 1
  BY <1>2, <1>3, <1>4 DEF LogsOf, Row
<1>6. [id |-> nextId + i - 1, hash |-> txBatch[i].tx.hash,
       block |-> txBatch[i].block, status |-> receipts[i].status] \in TransactionRows
  BY DEF TransactionRows
<1> QED
  BY <1>3, <1>5, <1>6

\* The rows that are built leave out nothing that was asked for.
LEMMA RowsWhole ==
  ASSUME BInv, TInv, HoldsCollected, Scanned, RowsBuilt,
         NEW b \in lo .. hi, NEW k \in DOMAIN Chain[b], NEW tx, tx = Chain[b][k]
  PROVE  /\ AskedFor(tx) # {} =>
               \E row \in TransactionRows : /\ row.hash = tx.hash
                                            /\ StatusAskedFor(tx) => row.status = tx.status
         /\ \A log \in tx.logs : FilteredFor(log) \/ EventsAskedFor(tx) =>
               \E row \in ReceiptLogRows \cup FilterLogRows :
                  /\ row.hash = tx.hash /\ row.index = log.index
                  /\ row.txId # NoTransaction =>
                        /\ EventsAskedFor(tx)
                        /\ \E own \in TransactionRows : own.id = row.txId /\ own.hash = tx.hash
<1>1. Awaited = {} /\ filter \notin DOMAIN filters /\ pc = "receipts"
  BY DEF RowsBuilt
<1>2. b \in Block /\ Block \subseteq Nat
  BY BatchInChain, BlockNumbers DEF TInv, TypeOK
<1>3. CollectorsTyped
  BY DEF TInv
<1>4. ASSUME AskedFor(tx) # {}
      PROVE  \E j \in DOMAIN txBatch : /\ txBatch[j].tx = tx /\ txBatch[j].block = b
                                       /\ txBatch[j].policy = PolicyOf(policies, tx)
  <2>1. Matching(policies, tx) # {}
    BY <1>3, <1>4, AskedMatching
  <2>2. <<b, k>> \in Collected
    BY <2>1, CollectedPlace
  <2>3. PICK j \in DOMAIN txBatch : txBatch[j] = Kept(<<b, k>>)
    BY <2>2 DEF HoldsCollected
  <2> QED
    BY <2>3 DEF Kept
<1>5. ASSUME AskedFor(tx) # {}
      PROVE  \E row \in TransactionRows : /\ row.hash = tx.hash
                                          /\ StatusAskedFor(tx) => row.status = tx.status
  <2>1. PICK j \in DOMAIN txBatch : /\ txBatch[j].tx = tx
                                    /\ txBatch[j].policy = PolicyOf(policies, tx)
    BY <1>4, <1>5
  <2> DEFINE row == [id |-> nextId + j - 1, hash |-> txBatch[j].tx.hash,
                     block |-> txBatch[j].block, status |-> receipts[j].status]
  <2>2. row \in TransactionRows
    BY DEF TransactionRows
  <2>3. ASSUME StatusAskedFor(tx) PROVE receipts[j] = tx
    <3>1. NeedsReceipt(j)
      BY <1>3, <2>1, <2>3, PolicyAsked DEF NeedsReceipt
    <3> QED
      BY <1>1, <2>1, <3>1, ReceiptThere
  <2>4. row.hash = tx.hash /\ row.status = receipts[j].status
    BY <2>1
  <2> HIDE DEF row
  <2> QED
    BY <2>2, <2>3, <2>4
<1>6. ASSUME NEW log \in tx.logs, EventsAskedFor(tx)
      PROVE  \E row \in ReceiptLogRows : row.hash = tx.hash /\ row.index = log.index
  <2>1. AskedFor(tx) # {}
    BY <1>6 DEF EventsAskedFor
  <2>2. PICK j \in DOMAIN txBatch : /\ txBatch[j].tx = tx /\ txBatch[j].block = b
                                    /\ txBatch[j].policy = PolicyOf(policies, tx)
    BY <1>4, <2>1
  <2>3. txBatch[j].policy.events
    BY <1>3, <1>6, <2>2, PolicyAsked
  <2>4. receipts[j] # NoReceipt /\ receipts[j] = tx
    BY <1>1, <2>2, <2>3, ReceiptThere DEF NeedsReceipt
  <2> DEFINE l == [hash |-> tx.hash, index |-> log.index, block |-> b, log |-> log]
  <2>5. l \in LogsOf(tx, b)
    BY DEF LogsOf
  <2>6. l \in ReceiptLogs(j)
    BY <2>2, <2>3, <2>4, <2>5 DEF ReceiptLogs
  <2>7. Row(l, nextId + j - 1) \in ReceiptLogRows
    BY <2>6 DEF ReceiptLogRows
  <2>8. Row(l, nextId + j - 1).hash = tx.hash /\ Row(l, nextId + j - 1).index = log.index
    BY DEF Row
  <2> QED
    BY <2>7, <2>8
<1>7. ASSUME NEW log \in tx.logs, FilteredFor(log)
      PROVE  \E row \in ReceiptLogRows \cup FilterLogRows :
                row.hash = tx.hash /\ row.index = log.index
  <2>1. PICK f \in DOMAIN filters : Passes(filters[f], log)
    BY <1>7 DEF FilteredFor
  <2>2. f < filter
    BY <1>1 DEF TInv, TypeOK, CollectorsTyped
  <2> DEFINE l == [hash |-> tx.hash, index |-> log.index, block |-> b, log |-> log]
  <2>3. l \in BlockLogs(b)
    BY DEF BlockLogs, LogsOf
  <2>4. l.log = log /\ l.hash = tx.hash /\ l.index = log.index
    OBVIOUS
  <2> HIDE DEF l
  <2>5. l \in lgBatch
    BY <1>1, <2>1, <2>2, <2>3, <2>4 DEF Scanned
  <2>6. CASE \A row \in ReceiptLogRows : row.hash # l.hash \/ row.index # l.index
    <3>1. Row(l, NoTransaction) \in FilterLogRows
      BY <2>5, <2>6 DEF FilterLogRows
    <3>2. Row(l, NoTransaction).hash = tx.hash /\ Row(l, NoTransaction).index = log.index
      BY <2>4 DEF Row
    <3> QED
      BY <3>1, <3>2
  <2>7. CASE \E row \in ReceiptLogRows : row.hash = l.hash /\ row.index = l.index
    BY <2>4, <2>7
  <2> QED
    BY <2>6, <2>7
<1>8. ASSUME NEW row \in ReceiptLogRows \cup FilterLogRows, row.hash = tx.hash,
             row.txId # NoTransaction
      PROVE  /\ EventsAskedFor(tx)
             /\ \E own \in TransactionRows : own.id = row.txId /\ own.hash = tx.hash
  <2>1. row \in ReceiptLogRows
    BY <1>8 DEF FilterLogRows, Row
  <2>2. PICK i \in DOMAIN txBatch :
            /\ row.hash = txBatch[i].tx.hash
            /\ txBatch[i].policy.events
            /\ \E own \in TransactionRows : own.id = row.txId /\ own.hash = row.hash
    BY <2>1, ReceiptRowOwn
  <2>3. PICK p \in Collected : txBatch[i] = Kept(p)
    BY DEF HoldsCollected
  <2>4. PICK c \in lo .. hi : \E j \in DOMAIN Chain[c] : p = <<c, j>>
    BY <2>3, CollectedPlace
  <2>5. PICK j \in DOMAIN Chain[c] : p = <<c, j>>
    BY <2>4
  <2>6. txBatch[i].tx = Chain[c][j] /\ txBatch[i].policy = PolicyOf(policies, Chain[c][j])
    BY <2>3, <2>5 DEF Kept
  <2>7. c \in Block
    BY BatchInChain DEF TInv, TypeOK
  <2>8. Chain[c][j].hash = Chain[b][k].hash
    BY <1>8, <2>2, <2>6
  <2>9. c = b /\ j = k
    BY <1>2, <2>7, <2>8, BatchAssumption
  <2>10. EventsAskedFor(tx)
    BY <1>3, <2>2, <2>6, <2>9, PolicyAsked
  <2> QED
    BY <1>8, <2>2, <2>10
<1> QED
  BY <1>5, <1>6, <1>7, <1>8

\* The entries ask for the same while the collectors stay.
LEMMA SameAsked ==
  ASSUME UNCHANGED <<policies, filters>>
  PROVE  /\ \A tx : /\ AskedFor(tx)' = AskedFor(tx)
                    /\ StatusAskedFor(tx)' <=> StatusAskedFor(tx)
                    /\ EventsAskedFor(tx)' <=> EventsAskedFor(tx)
         /\ \A log : FilteredFor(log)' <=> FilteredFor(log)
<1>1. \A tx : AskedFor(tx)' = AskedFor(tx)
  BY DEF AskedFor
<1>2. \A tx : /\ StatusAskedFor(tx)' <=> StatusAskedFor(tx)
              /\ EventsAskedFor(tx)' <=> EventsAskedFor(tx)
  BY <1>1 DEF StatusAskedFor, EventsAskedFor
<1>3. \A log : FilteredFor(log)' <=> FilteredFor(log)
  BY DEF FilteredFor, Passes
<1> QED
  BY <1>1, <1>2, <1>3

LEMMA WholeBuilt ==
  ASSUME BInv, TInv, HoldsCollected, Scanned, RowsBuilt
  PROVE  DataWhole'
<1>1. /\ data'.txs = TransactionRows
      /\ data'.logs = ReceiptLogRows \cup FilterLogRows
      /\ UNCHANGED <<policies, filters, lo, hi>>
  BY DEF RowsBuilt, collectors
<1>2. ASSUME NEW b \in lo .. hi, NEW k \in DOMAIN Chain[b]
      PROVE  Built(Chain[b][k])'
  <2> DEFINE tx == Chain[b][k]
  <2>1. /\ AskedFor(tx) # {} =>
              \E row \in TransactionRows : /\ row.hash = tx.hash
                                           /\ StatusAskedFor(tx) => row.status = tx.status
        /\ \A log \in tx.logs : FilteredFor(log) \/ EventsAskedFor(tx) =>
              \E row \in ReceiptLogRows \cup FilterLogRows :
                 /\ row.hash = tx.hash /\ row.index = log.index
                 /\ row.txId # NoTransaction =>
                       /\ EventsAskedFor(tx)
                       /\ \E own \in TransactionRows : own.id = row.txId /\ own.hash = tx.hash
    BY RowsWhole
  <2> HIDE DEF tx
  <2>2. TransactionBuilt(tx)'
    BY <1>1, <2>1, SameAsked DEF TransactionBuilt
  <2>3. ASSUME NEW log \in tx.logs, FilteredFor(log)' \/ EventsAskedFor(tx)'
        PROVE  LogBuilt(tx, log)'
    <3>1. FilteredFor(log) \/ EventsAskedFor(tx)
      BY <1>1, <2>3, SameAsked
    <3> QED
      BY <1>1, <2>1, <3>1, SameAsked DEF LogBuilt
  <2>4. Built(tx)'
    BY <2>2, <2>3 DEF Built
  <2> QED
    BY <2>4 DEF tx
<1> QED
  BY <1>1, <1>2 DEF DataWhole

LEMMA LogsScanned ==
  ASSUME TInv, Scanned, LogsArrive
  PROVE  Scanned'
<1>1. /\ pc # "idle" /\ filter \in DOMAIN filters /\ NextRequest
      /\ lgBatch' = lgBatch \cup
            {row \in UNION {BlockLogs(b) : b \in from .. RequestEnd} :
                Passes(filters[filter], row.log)}
      /\ UNCHANGED <<pc, filters, lo, hi>>
  BY DEF LogsArrive, collectors
<1>2. /\ lo \in Nat /\ hi \in Nat /\ from \in lo .. hi /\ LogRange \in Nat \ {0}
      /\ filter \in Nat /\ DOMAIN filters \subseteq Nat
  BY BlockNumbers, BatchAssumption DEF TInv, TypeOK, CollectorsTyped
<1>3. ASSUME NEW f \in DOMAIN filters, NEW b \in lo .. hi,
             f < filter' \/ (f = filter' /\ b < from')
      PROVE  \/ f < filter \/ (f = filter /\ b < from)
             \/ f = filter /\ b \in from .. RequestEnd
  BY <1>1, <1>2, <1>3 DEF NextRequest, RequestEnd, Lesser
<1>4. ASSUME NEW f \in DOMAIN filters, NEW b \in lo .. hi,
             f < filter' \/ (f = filter' /\ b < from'),
             NEW row \in BlockLogs(b), Passes(filters[f], row.log)
      PROVE  row \in lgBatch'
  <2>1. CASE f < filter \/ (f = filter /\ b < from)
    BY <1>1, <1>4, <2>1 DEF Scanned
  <2>2. CASE f = filter /\ b \in from .. RequestEnd
    BY <1>1, <1>4, <2>2
  <2> QED
    BY <1>3, <1>4, <2>1, <2>2
<1>5. filters' = filters /\ lo' = lo /\ hi' = hi
  BY <1>1
<1> QED
  BY <1>4, <1>5 DEF Scanned, BlockLogs, LogsOf, Passes

LEMMA WInvNext == BInv /\ TInv /\ WInv /\ [Next]_vars => WInv'
<1> SUFFICES ASSUME BInv, TInv, WInv, [Next]_vars PROVE WInv'
  OBVIOUS
<1>1. ASSUME UNCHANGED <<policies, lo, hi, txBatch>>, pc' \in {"receipts", "save"} => pc \in {"receipts", "save"}
      PROVE  CollectedIn'
  <2>1. Collected' = Collected /\ \A p : Kept(p)' = Kept(p)
    BY <1>1 DEF Collected, Matching, Kept, PolicyOf
  <2>2. HoldsCollected => HoldsCollected'
    BY <1>1, <2>1 DEF HoldsCollected
  <2> QED
    BY <1>1, <2>2 DEF WInv, CollectedIn
<1>2. ASSUME UNCHANGED <<filters, lo, hi, filter, from, lgBatch>>, pc # "idle" PROVE Scanned'
  BY <1>2 DEF WInv, Scanned, BlockLogs, LogsOf, Passes
<1>3. ASSUME UNCHANGED <<pc, policies, filters, lo, hi, data>> PROVE DataWhole'
  <2>1. \A tx : TransactionBuilt(tx)' <=> TransactionBuilt(tx)
    BY <1>3, SameAsked DEF TransactionBuilt
  <2>2. \A tx, log : LogBuilt(tx, log)' <=> LogBuilt(tx, log)
    BY <1>3, SameAsked DEF LogBuilt
  <2>3. \A tx : Built(tx)' <=> Built(tx)
    BY <1>3, <2>1, <2>2, SameAsked DEF Built
  <2> QED
    BY <1>3, <2>3 DEF WInv, DataWhole
<1>4. ASSUME pc' = "idle" PROVE WInv'
  BY <1>4 DEF WInv, CollectedIn, Scanned, DataWhole
<1>5. ASSUME UNCHANGED <<pc, policies, filters, lo, hi, txBatch, filter, from, lgBatch, data>>
      PROVE  WInv'
  BY <1>1, <1>2, <1>3, <1>4, <1>5 DEF WInv
<1>6. ASSUME NEW first \in Block, NEW last \in Block, BatchStarts(first, last) PROVE WInv'
  <2>1. pc' = "blocks" /\ lo' = first /\ filter' = 1 /\ from' = first /\ filters' = filters
        /\ first \in Nat /\ last \in Nat /\ hi' = last
    BY <1>6, BlockNumbers DEF BatchStarts, collectors
  <2>2. DOMAIN filters' = 1 .. Len(filters') /\ Len(filters') \in Nat
    BY <2>1 DEF TInv, CollectorsTyped
  <2>3. \A f \in DOMAIN filters', b \in lo' .. hi' : ~(f < filter' \/ (f = filter' /\ b < from'))
    BY <2>1, <2>2
  <2>4. Scanned'
    BY <2>3 DEF Scanned
  <2> QED
    BY <2>1, <2>4 DEF WInv, CollectedIn, DataWhole
<1>7. ASSUME BlocksProcessed PROVE WInv'
  <2>1. pc = "blocks" /\ pc' = "receipts" /\ UNCHANGED <<filters, lo, hi, filter, from, lgBatch>>
    BY <1>7 DEF BlocksProcessed, collectors
  <2>2. HoldsCollected'
    BY <1>7, ProcessedHolds DEF TInv, TypeOK
  <2> QED
    BY <1>2, <2>1, <2>2 DEF WInv, CollectedIn, DataWhole
<1>8. ASSUME LogsArrive PROVE WInv'
  <2>1. pc \in {"blocks", "receipts"} /\ UNCHANGED <<pc, policies, filters, lo, hi, txBatch, data>>
    BY <1>8 DEF LogsArrive, collectors
  <2>2. Scanned'
    BY <1>8, LogsScanned DEF WInv
  <2> QED
    BY <1>1, <1>3, <2>1, <2>2 DEF WInv
<1>9. ASSUME RowsBuilt PROVE WInv'
  <2>1. pc = "receipts" /\ UNCHANGED <<policies, filters, lo, hi, txBatch, filter, from, lgBatch>>
    BY <1>9 DEF RowsBuilt, collectors
  <2>2. DataWhole'
    BY <1>9, <2>1, WholeBuilt DEF WInv, CollectedIn
  <2> QED
    BY <1>1, <1>2, <2>1, <2>2 DEF WInv
<1>10. ASSUME \/ \E b \in Block : BlockArrives(b) \/ LogsDropped(b)
              \/ \E i \in DOMAIN txBatch : ReceiptArrives(i)
              \/ TransactionsDropped
       PROVE  WInv'
  BY <1>5, <1>10
  DEF BlockArrives, LogsDropped, ReceiptArrives, TransactionsDropped, collectors, batch
<1>11. ASSUME Saved \/ BatchFails \/ \E next \in Configs : Restarts(next) PROVE WInv'
  BY <1>4, <1>11 DEF Saved, BatchFails, Restarts
<1>12. ASSUME UNCHANGED vars PROVE WInv'
  BY <1>5, <1>12 DEF vars, collectors, batch
<1> QED
  BY <1>6, <1>7, <1>8, <1>9, <1>10, <1>11, <1>12 DEF Next, Fetching

\* Only the commit ends a batch without a fault.
LEMMA OnlySaved ==
  ASSUME TInv, [Next]_vars, pc = "save", pc' = "idle", faults' = faults
  PROVE  Saved
<1>1. faults \in Nat
  BY BatchAssumption DEF TInv, TypeOK
<1>2. ~BatchFails /\ \A next \in Configs : ~Restarts(next)
  BY <1>1 DEF BatchFails, Restarts
<1>3. ~Fetching
  BY DEF Fetching, BlockArrives, BlocksProcessed, ReceiptArrives, LogsArrive
<1>4. ~RowsBuilt /\ \A first, last \in Block : ~BatchStarts(first, last)
  BY DEF RowsBuilt, BatchStarts
<1>5. pc' # pc
  OBVIOUS
<1>6. ~TransactionsDropped /\ \A b \in Block : ~LogsDropped(b)
  BY <1>5 DEF TransactionsDropped, LogsDropped
<1> QED
  BY <1>2, <1>3, <1>4, <1>5, <1>6 DEF Next, vars

\* The rows of a transaction that has none are not ignored.
LEMMA RowIsNew ==
  ASSUME BInv, NEW row \in data.txs, \A old \in txRows : old.hash # row.hash
  PROVE  row \in NewTransactions
<1>1. \A old \in txRows : old.id # row.id
  BY DEF BInv, RowsNumbered, DataNumbered
<1> QED
  BY <1>1 DEF NewTransactions

\* The commit saves what was built.
LEMMA SavedWhole ==
  ASSUME BInv, Saved, NEW tx, Built(tx)
  PROVE  /\ AskedFor(tx) # {} => HasRow(tx)'
         /\ StatusAskedFor(tx) /\ ~HasRow(tx) =>
               \E row \in txRows' : row.hash = tx.hash /\ row.status = tx.status
         /\ ~(EventsAskedFor(tx) /\ HasRow(tx)) =>
               \A log \in tx.logs :
                   FilteredFor(log) \/ EventsAskedFor(tx) => HasLogRow(tx, log)'
<1>1. txRows' = txRows \cup NewTransactions /\ logRows' = logRows \cup NewLogs
  BY DEF Saved
<1>2. ASSUME NEW row \in data.txs, row.hash = tx.hash, ~HasRow(tx)
      PROVE  row \in NewTransactions
  <2>1. \A old \in txRows : old.hash # row.hash
    BY <1>2 DEF HasRow
  <2> QED
    BY <2>1, RowIsNew
<1>3. ASSUME AskedFor(tx) # {} PROVE HasRow(tx)'
  <2>1. PICK row \in data.txs : row.hash = tx.hash
    BY <1>3 DEF Built, TransactionBuilt
  <2>2. CASE HasRow(tx)
    BY <1>1, <2>2 DEF HasRow
  <2>3. CASE ~HasRow(tx)
    <3>1. row \in txRows'
      BY <1>1, <1>2, <2>1, <2>3
    <3> QED
      BY <2>1, <3>1 DEF HasRow
  <2> QED
    BY <2>2, <2>3
<1>4. ASSUME StatusAskedFor(tx), ~HasRow(tx)
      PROVE  \E row \in txRows' : row.hash = tx.hash /\ row.status = tx.status
  <2>1. AskedFor(tx) # {}
    BY <1>4 DEF StatusAskedFor
  <2>2. PICK row \in data.txs : row.hash = tx.hash /\ row.status = tx.status
    BY <1>4, <2>1 DEF Built, TransactionBuilt
  <2> QED
    BY <1>1, <1>2, <1>4, <2>2
<1>5. ASSUME ~(EventsAskedFor(tx) /\ HasRow(tx)), NEW log \in tx.logs,
             FilteredFor(log) \/ EventsAskedFor(tx)
      PROVE  HasLogRow(tx, log)'
  <2>1. LogBuilt(tx, log)
    BY <1>5 DEF Built
  <2>2. PICK row \in data.logs :
            /\ row.hash = tx.hash /\ row.index = log.index
            /\ row.txId # NoTransaction =>
                  EventsAskedFor(tx) /\ \E own \in data.txs : own.id = row.txId /\ own.hash = tx.hash
    BY <2>1 DEF LogBuilt
  <2>3. CASE \E old \in logRows : old.hash = row.hash /\ old.index = row.index
    BY <1>1, <2>2, <2>3 DEF HasLogRow
  <2>4. CASE ~\E old \in logRows : old.hash = row.hash /\ old.index = row.index
    <3>1. row.txId # NoTransaction => \E own \in NewTransactions : own.id = row.txId
      BY <1>2, <1>5, <2>2
    <3>2. row \in NewLogs
      BY <2>4, <3>1 DEF NewLogs
    <3>3. row \in logRows'
      BY <1>1, <3>2
    <3> QED
      BY <2>2, <3>3 DEF HasLogRow
  <2> QED
    BY <2>3, <2>4
<1> QED
  BY <1>3, <1>4, <1>5

\* A batch that is saved is saved whole, for every chain, configuration and
\* ranges of the requests, in whatever order blocks, receipts and logs arrive
\* (indexBatch, processBlocksBatch, requestLogs, processLogs, saveData).
THEOREM BatchSavedWhole == Spec => SaveIsWhole
<1>1. Init => WInv
  BY DEF Init, WInv, CollectedIn, Scanned, DataWhole
<1> DEFINE Whole ==
      (pc = "save" /\ pc' = "idle" /\ faults' = faults) =>
        \A b \in lo .. hi : \A i \in DOMAIN Chain[b] :
            LET tx == Chain[b][i]
            IN /\ AskedFor(tx) # {} => HasRow(tx)'
               /\ StatusAskedFor(tx) /\ ~HasRow(tx) =>
                     \E row \in txRows' : row.hash = tx.hash /\ row.status = tx.status
               /\ ~(EventsAskedFor(tx) /\ HasRow(tx)) =>
                     \A log \in tx.logs :
                         FilteredFor(log) \/ EventsAskedFor(tx) => HasLogRow(tx, log)'
<1>2. BInv /\ TInv /\ WInv /\ [Next]_vars => Whole
  <2> SUFFICES ASSUME BInv, TInv, WInv, [Next]_vars,
                      pc = "save", pc' = "idle", faults' = faults,
                      NEW b \in lo .. hi, NEW i \in DOMAIN Chain[b]
               PROVE  LET tx == Chain[b][i]
                      IN /\ AskedFor(tx) # {} => HasRow(tx)'
                         /\ StatusAskedFor(tx) /\ ~HasRow(tx) =>
                               \E row \in txRows' : row.hash = tx.hash /\ row.status = tx.status
                         /\ ~(EventsAskedFor(tx) /\ HasRow(tx)) =>
                               \A log \in tx.logs :
                                   FilteredFor(log) \/ EventsAskedFor(tx) => HasLogRow(tx, log)'
    BY DEF Whole
  <2>1. Saved
    BY OnlySaved
  <2>2. Built(Chain[b][i])
    BY DEF WInv, DataWhole
  <2> QED
    BY <2>1, <2>2, SavedWhole
<1>3. [Next]_vars /\ BInv /\ TInv /\ WInv => [Whole]_vars
  BY <1>2
<1> HIDE DEF Whole
<1>4. Spec => [][Whole]_vars
  BY <1>1, <1>3, BInvInit, BInvNext, TInvInit, TInvNext, WInvNext, PTL DEF Spec
<1> QED
  BY <1>4 DEF SaveIsWhole, Whole

-----------------------------------------------------------------------------
(***************************************************************************)
(* Why merging never switches off what FSP mode needs.                     *)
(***************************************************************************)

\* x is an element of s.
In(x, s) == \E i \in DOMAIN s : s[i] = x

LEMMA InConcatenation ==
  ASSUME NEW S, NEW s, NEW t, s \in Seq(S), t \in Seq(S), NEW x
  PROVE  In(x, s \o t) <=> In(x, s) \/ In(x, t)
<1>1. /\ Len(s) \in Nat /\ Len(t) \in Nat /\ DOMAIN s = 1 .. Len(s) /\ DOMAIN t = 1 .. Len(t)
      /\ DOMAIN (s \o t) = 1 .. Len(s) + Len(t)
      /\ \A i \in 1 .. Len(s) + Len(t) :
            (s \o t)[i] = IF i <= Len(s) THEN s[i] ELSE t[i - Len(s)]
  OBVIOUS
<1>2. ASSUME In(x, s \o t) PROVE In(x, s) \/ In(x, t)
  <2>1. PICK i \in 1 .. Len(s) + Len(t) : (s \o t)[i] = x
    BY <1>1, <1>2 DEF In
  <2>2. CASE i <= Len(s)
    BY <1>1, <2>1, <2>2 DEF In
  <2>3. CASE ~(i <= Len(s))
    <3>1. i - Len(s) \in 1 .. Len(t) /\ t[i - Len(s)] = x
      BY <1>1, <2>1, <2>3
    <3> QED
      BY <1>1, <3>1 DEF In
  <2> QED
    BY <2>2, <2>3
<1>3. ASSUME In(x, s) PROVE In(x, s \o t)
  <2>1. PICK i \in 1 .. Len(s) : s[i] = x
    BY <1>1, <1>3 DEF In
  <2>2. i \in 1 .. Len(s) + Len(t) /\ (s \o t)[i] = x
    BY <1>1, <2>1
  <2> QED
    BY <1>1, <2>2 DEF In
<1>4. ASSUME In(x, t) PROVE In(x, s \o t)
  <2>1. PICK i \in 1 .. Len(t) : t[i] = x
    BY <1>1, <1>4 DEF In
  <2> DEFINE j == i + Len(s)
  <2>2. j \in 1 .. Len(s) + Len(t) /\ ~(j <= Len(s)) /\ j - Len(s) = i
    BY <1>1, <2>1
  <2> HIDE DEF j
  <2>3. (s \o t)[j] = x
    BY <1>1, <2>1, <2>2
  <2> QED
    BY <1>1, <2>2, <2>3 DEF In
<1> QED
  BY <1>2, <1>3, <1>4

\* Flattening keeps the elements.
LEMMA InFlattened ==
  ASSUME NEW S, NEW seqs, seqs \in Seq(Seq(S)), Len(seqs) # 0, NEW x
  PROVE  In(x, FlattenSeq(seqs)) <=> \E i \in DOMAIN seqs : In(x, seqs[i])
<1> DEFINE last == Len(seqs)
<1>1. PICK f \in [1 .. last -> Seq(S)] :
            /\ f[1] = seqs[1]
            /\ \A i \in 2 .. last : f[i] = f[i - 1] \o seqs[i]
            /\ FlattenSeq(seqs) = f[last]
  BY Flattened
<1>2. last \in Nat /\ last >= 1 /\ DOMAIN seqs = 1 .. last
      /\ \A i \in 1 .. last : seqs[i] \in Seq(S)
  OBVIOUS
<1> HIDE DEF last
<1> DEFINE T == {n \in Nat : n + 1 <= last =>
                    (In(x, f[n + 1]) <=> \E i \in 1 .. n + 1 : In(x, seqs[i]))}
<1>3. 0 \in T
  <2>1. 0 + 1 = 1 /\ \A i : i \in 1 .. 1 <=> i = 1
    OBVIOUS
  <2> QED
    BY <1>1, <2>1
<1>4. ASSUME NEW n \in Nat, n \in T PROVE n + 1 \in T
  <2> SUFFICES ASSUME (n + 1) + 1 <= last
               PROVE  In(x, f[(n + 1) + 1]) <=> \E i \in 1 .. (n + 1) + 1 : In(x, seqs[i])
    OBVIOUS
  <2> DEFINE m == n + 1
             k == m + 1
  <2>1. m \in 1 .. last /\ k \in 2 .. last /\ k \in 1 .. last /\ k - 1 = m
    BY <1>2
  <2>2. \A i : i \in 1 .. k <=> i \in 1 .. m \/ i = k
    BY <2>1
  <2>3. In(x, f[m]) <=> \E i \in 1 .. m : In(x, seqs[i])
    BY <1>2, <1>4
  <2> HIDE DEF m, k, T
  <2>4. f[k] = f[m] \o seqs[k] /\ f[m] \in Seq(S) /\ seqs[k] \in Seq(S)
    BY <1>1, <1>2, <2>1
  <2>5. In(x, f[k]) <=> In(x, f[m]) \/ In(x, seqs[k])
    BY <2>4, InConcatenation
  <2>6. In(x, f[k]) <=> \E i \in 1 .. k : In(x, seqs[i])
    BY <2>2, <2>3, <2>5
  <2> QED
    BY <2>6 DEF m, k
<1> HIDE DEF T
<1>5. last - 1 \in T /\ (last - 1) + 1 = last
  <2>1. Nat \subseteq T
    BY <1>3, <1>4, Inducted
  <2>2. last - 1 \in Nat /\ (last - 1) + 1 = last
    BY <1>2
  <2> QED
    BY <2>1, <2>2
<1>6. In(x, f[last]) <=> \E i \in 1 .. last : In(x, seqs[i])
  <2> DEFINE n == last - 1
  <2>1. n \in T /\ n + 1 = last /\ last <= last
    BY <1>2, <1>5
  <2> HIDE DEF n
  <2> QED
    BY <2>1 DEF T
<1> QED
  BY <1>1, <1>2, <1>6

\* Resolving leaves an entry that gives its address and takes any other one to
\* the addresses of its contract.
ResolvesTo(e, x) ==
    IF e.address # Empty THEN x = e
    ELSE \E address \in ToSet(ResolveAllByName(e.name)) : x = [e EXCEPT !.address = address]

LEMMA InResolved ==
  ASSUME NEW entries, entries \in Seq(CollectorEntry), NEW x
  PROVE  In(x, Resolve(entries)) <=> \E i \in DOMAIN entries : ResolvesTo(entries[i], x)
<1> DEFINE Resolved(e) == IF e.address # Empty THEN <<e>>
                          ELSE [j \in DOMAIN ResolveAllByName(e.name) |->
                                  [e EXCEPT !.address = ResolveAllByName(e.name)[j]]]
           seqs == [i \in DOMAIN entries |-> Resolved(entries[i])]
<1>1. ASSUME NEW e PROVE In(x, Resolved(e)) <=> ResolvesTo(e, x)
  <2>1. CASE e.address # Empty
    <3>1. In(x, <<e>>) <=> x = e
      BY DEF In
    <3> QED
      BY <2>1, <3>1 DEF ResolvesTo
  <2>2. CASE e.address = Empty
    <3> DEFINE all == ResolveAllByName(e.name)
    <3>1. Resolved(e) = [j \in DOMAIN all |-> [e EXCEPT !.address = all[j]]]
      BY <2>2
    <3>2. ResolvesTo(e, x) <=> \E address \in ToSet(all) : x = [e EXCEPT !.address = address]
      BY <2>2 DEF ResolvesTo
    <3>3. ToSet(all) = {all[j] : j \in DOMAIN all}
      BY DEF ToSet
    <3>4. DOMAIN Resolved(e) = DOMAIN all
          /\ \A j \in DOMAIN all : Resolved(e)[j] = [e EXCEPT !.address = all[j]]
      BY <3>1
    <3> HIDE DEF all, Resolved
    <3>5. In(x, Resolved(e)) <=> \E j \in DOMAIN all : x = [e EXCEPT !.address = all[j]]
      BY <3>4 DEF In
    <3>6. (\E j \in DOMAIN all : x = [e EXCEPT !.address = all[j]])
             <=> \E address \in ToSet(all) : x = [e EXCEPT !.address = address]
      BY <3>3
    <3> QED
      BY <3>2, <3>5, <3>6
  <2> QED
    BY <2>1, <2>2
<1>2. Len(entries) \in Nat /\ DOMAIN entries = 1 .. Len(entries)
  OBVIOUS
<1>3. Resolve(entries) = FlattenSeq(seqs)
  BY DEF Resolve
<1>4. seqs \in Seq(Seq(CollectorEntry))
  <2>1. ASSUME NEW i \in DOMAIN entries PROVE Resolved(entries[i]) \in Seq(CollectorEntry)
    <3>1. entries[i] \in CollectorEntry
      OBVIOUS
    <3> HIDE DEF Resolved
    <3> QED
      BY <3>1, EntryResolved DEF Resolved
  <2> HIDE DEF Resolved
  <2>2. seqs \in [1 .. Len(entries) -> Seq(CollectorEntry)]
    BY <1>2, <2>1
  <2> HIDE DEF seqs
  <2> QED
    BY <1>2, <2>2
<1>5. DOMAIN seqs = DOMAIN entries /\ Len(seqs) = Len(entries)
  <2> HIDE DEF Resolved
  <2>1. DOMAIN seqs = DOMAIN entries
    OBVIOUS
  <2> HIDE DEF seqs
  <2> QED
    BY <1>2, <1>4, <2>1
<1>6. \A i \in DOMAIN entries : In(x, seqs[i]) <=> ResolvesTo(entries[i], x)
  <2> HIDE DEF Resolved
  <2> QED
    BY <1>1
<1> HIDE DEF seqs
<1>7. CASE Len(entries) = 0
  <2>1. FlattenSeq(seqs) = seqs /\ DOMAIN entries = {}
    BY <1>2, <1>5, <1>7 DEF FlattenSeq
  <2> QED
    BY <1>3, <1>5, <2>1 DEF In
<1>8. CASE Len(entries) # 0
  <2>1. In(x, FlattenSeq(seqs)) <=> \E i \in DOMAIN seqs : In(x, seqs[i])
    BY <1>4, <1>5, <1>8, InFlattened
  <2> QED
    BY <1>3, <1>5, <1>6, <2>1
<1> QED
  BY <1>7, <1>8

LEMMA SameKey ==
  ASSUME NEW a \in CollectorEntry, NEW b \in CollectorEntry, DedupKey(a) = DedupKey(b)
  PROVE  /\ a.item = b.item
         /\ a.name = b.name
         /\ a.name = Empty => a.address = b.address
<1>1. ContractKey(a) = ContractKey(b) /\ a.item = b.item
  BY DEF DedupKey
<1>2. "name" # "addr"
  OBVIOUS
<1>3. CASE a.name # Empty
  <2>1. b.name # Empty
    BY <1>1, <1>2, <1>3 DEF ContractKey
  <2> QED
    BY <1>1, <1>3, <2>1 DEF ContractKey
<1>4. CASE a.name = Empty
  <2>1. b.name = Empty
    BY <1>1, <1>2, <1>4 DEF ContractKey
  <2> QED
    BY <1>1, <1>4, <2>1 DEF ContractKey
<1> QED
  BY <1>3, <1>4

LEMMA MergeInfoKey ==
  ASSUME NEW base \in CollectorEntry, NEW more \in CollectorEntry,
         DedupKey(base) = DedupKey(more)
  PROVE  DedupKey(MergeInfo(base, more)) = DedupKey(base)
<1>1. /\ MergeInfo(base, more).name = base.name
      /\ MergeInfo(base, more).item = base.item
      /\ base.name = Empty => MergeInfo(base, more).address = base.address
  BY MergeInfoTyped, SameKey
<1> QED
  BY <1>1 DEF DedupKey, ContractKey

\* x has the flags of e.
Carries(x, e) == (e.status => x.status) /\ (e.events => x.events)

LEMMA MergeInfoCarries ==
  ASSUME NEW base, NEW more, base \in CollectorEntry, more \in CollectorEntry
  PROVE  Carries(MergeInfo(base, more), base)
<1>1. MergeInfo(base, more).status = (base.status \/ more.status)
  BY MergeInfoTyped
<1>2. MergeInfo(base, more).events = (base.events \/ more.events)
  BY MergeInfoTyped
<1>3. base.status => MergeInfo(base, more).status
  BY <1>1, Zenon
<1>4. base.events => MergeInfo(base, more).events
  BY <1>2, Zenon
<1> QED
  BY <1>3, <1>4 DEF Carries

\* The built-in entry e stands among the entries, and addresses were given by users.
Stands(entries, e, users) ==
    /\ \E k \in DOMAIN entries : DedupKey(entries[k]) = DedupKey(e)
    /\ \A k \in DOMAIN entries :
          DedupKey(entries[k]) = DedupKey(e) => Carries(entries[k], e)
    /\ \A k \in DOMAIN entries : entries[k].address # Empty =>
          \E j \in DOMAIN users : /\ DedupKey(users[j]) = DedupKey(entries[k])
                                  /\ users[j].address = entries[k].address

LEMMA CollectStands ==
  ASSUME NEW users, users \in Seq(CollectorEntry), NEW j \in DOMAIN users,
         NEW entries, entries \in Seq(CollectorEntry),
         NEW e, Stands(entries, e, users)
  PROVE  Stands(Collect(entries, users[j]), e, users)
<1> DEFINE more == users[j]
<1>1. /\ more \in CollectorEntry
      /\ \A k \in DOMAIN entries : entries[k] \in CollectorEntry
  OBVIOUS
<1>2. CASE \E k \in DOMAIN entries : DedupKey(entries[k]) = DedupKey(more)
  <2> DEFINE out == [k \in DOMAIN entries |-> IF DedupKey(entries[k]) = DedupKey(more)
                                              THEN MergeInfo(entries[k], more) ELSE entries[k]]
  <2>1. Collect(entries, more) = out
    BY <1>2 DEF Collect
  <2>2. ASSUME NEW k \in DOMAIN entries
        PROVE  /\ DedupKey(out[k]) = DedupKey(entries[k])
               /\ Carries(out[k], entries[k])
               /\ out[k].address = entries[k].address
                  \/ (DedupKey(more) = DedupKey(entries[k]) /\ out[k].address = more.address)
    <3>1. CASE DedupKey(entries[k]) = DedupKey(more)
      <4>1. out[k] = MergeInfo(entries[k], more)
        BY <3>1
      <4> HIDE DEF out, more
      <4>2. entries[k] \in CollectorEntry /\ more \in CollectorEntry
        BY <1>1
      <4>3. DedupKey(out[k]) = DedupKey(entries[k])
        BY <3>1, <4>1, <4>2, MergeInfoKey
      <4>4. out[k].address = IF entries[k].address = Empty THEN more.address
                             ELSE entries[k].address
        BY <4>1, <4>2, MergeInfoTyped
      <4>5. Carries(out[k], entries[k])
        BY <4>1, <4>2, MergeInfoCarries
      <4> QED
        BY <3>1, <4>3, <4>4, <4>5
    <3>2. CASE DedupKey(entries[k]) # DedupKey(more)
      <4>1. out[k] = entries[k]
        BY <3>2
      <4> HIDE DEF out, more
      <4> QED
        BY <4>1 DEF Carries
    <3> QED
      BY <3>1, <3>2
  <2>3. DOMAIN out = DOMAIN entries
    OBVIOUS
  <2> HIDE DEF out
  <2>4. \E k \in DOMAIN out : DedupKey(out[k]) = DedupKey(e)
    BY <2>2, <2>3 DEF Stands
  <2>5. \A k \in DOMAIN out : DedupKey(out[k]) = DedupKey(e) => Carries(out[k], e)
    BY <2>2, <2>3 DEF Stands, Carries
  <2>6. ASSUME NEW k \in DOMAIN out, out[k].address # Empty
        PROVE  \E i \in DOMAIN users : /\ DedupKey(users[i]) = DedupKey(out[k])
                                       /\ users[i].address = out[k].address
    <3>1. CASE out[k].address = entries[k].address
      BY <2>2, <2>3, <2>6, <3>1 DEF Stands
    <3>2. CASE DedupKey(more) = DedupKey(entries[k]) /\ out[k].address = more.address
      BY <2>2, <2>3, <3>2
    <3> QED
      BY <2>2, <2>3, <3>1, <3>2
  <2>7. Stands(out, e, users)
    BY <2>4, <2>5, <2>6 DEF Stands
  <2> QED
    BY <2>1, <2>7
<1>3. CASE ~\E k \in DOMAIN entries : DedupKey(entries[k]) = DedupKey(more)
  <2> DEFINE out == Append(entries, more)
             last == Len(entries) + 1
  <2>1. Collect(entries, more) = out
    BY <1>3 DEF Collect
  <2>2. /\ \A k \in DOMAIN out : k \in DOMAIN entries \/ k = last
        /\ \A k \in DOMAIN entries : k \in DOMAIN out /\ out[k] = entries[k]
        /\ out[last] = more
    BY <1>1
  <2>3. DedupKey(more) # DedupKey(e)
    BY <1>3 DEF Stands
  <2> HIDE DEF out, last
  <2>4. \E k \in DOMAIN out : DedupKey(out[k]) = DedupKey(e)
    BY <2>2 DEF Stands
  <2>5. \A k \in DOMAIN out : DedupKey(out[k]) = DedupKey(e) => Carries(out[k], e)
    BY <2>2, <2>3 DEF Stands
  <2>6. \A k \in DOMAIN out : out[k].address # Empty =>
            \E i \in DOMAIN users : /\ DedupKey(users[i]) = DedupKey(out[k])
                                    /\ users[i].address = out[k].address
    BY <2>2 DEF Stands
  <2>7. Stands(out, e, users)
    BY <2>4, <2>5, <2>6 DEF Stands
  <2> QED
    BY <2>1, <2>7
<1> QED
  BY <1>2, <1>3

\* After merging the built-in entries stand.
LEMMA MergeStands ==
  ASSUME NEW users, users \in Seq(CollectorEntry), NEW i \in DOMAIN FspTransactions
  PROVE  Stands(MergeCollectors(FspTransactions, users), FspTransactions[i], users)
<1> DEFINE e == FspTransactions[i]
           last == Len(users)
<1>1. FspTransactions \in Seq(CollectorEntry)
      /\ \A k \in DOMAIN FspTransactions : FspTransactions[k] \in CollectorEntry
  BY CollectorsAssumption
<1>2. PICK m \in [0 .. last -> Seq(CollectorEntry)] :
          /\ m[0] = FspTransactions
          /\ \A n \in 1 .. last : m[n] = Collect(m[n - 1], users[n])
          /\ MergeCollectors(FspTransactions, users) = m[last]
  BY <1>1, Merged
<1>3. last \in Nat /\ DOMAIN users = 1 .. last
  OBVIOUS
<1> HIDE DEF last
<1>4. Stands(FspTransactions, e, users)
  <2>1. \A k \in DOMAIN FspTransactions :
            DedupKey(FspTransactions[k]) = DedupKey(e) => k = i
    <3> SUFFICES ASSUME NEW k \in DOMAIN FspTransactions,
                        DedupKey(FspTransactions[k]) = DedupKey(e)
                 PROVE  k = i
      OBVIOUS
    <3>1. FspTransactions[k].name = e.name /\ FspTransactions[k].item = e.item
      BY <1>1, SameKey
    <3> QED
      BY <3>1, CollectorsAssumption
  <2>2. \A k \in DOMAIN FspTransactions : FspTransactions[k].address = Empty
    BY CollectorsAssumption
  <2> QED
    BY <2>1, <2>2 DEF Stands, Carries
<1> HIDE DEF e
<1> DEFINE T == {n \in Nat : n <= last => Stands(m[n], e, users)}
<1>5. 0 \in T
  BY <1>2, <1>4
<1>6. ASSUME NEW n \in Nat, n \in T PROVE n + 1 \in T
  <2> SUFFICES ASSUME n + 1 <= last PROVE Stands(m[n + 1], e, users)
    OBVIOUS
  <2>1. n \in 0 .. last /\ n + 1 \in 1 .. last /\ (n + 1) - 1 = n
    BY <1>3
  <2>2. m[n] \in Seq(CollectorEntry) /\ Stands(m[n], e, users)
    BY <1>2, <1>6, <2>1
  <2>3. m[n + 1] = Collect(m[n], users[n + 1])
    BY <1>2, <2>1
  <2> QED
    BY <1>3, <2>1, <2>2, <2>3, CollectStands
<1> HIDE DEF T
<1>7. last \in T
  <2>1. Nat \subseteq T
    BY <1>5, <1>6, Inducted
  <2> QED
    BY <1>3, <2>1
<1>8. Stands(m[last], e, users)
  BY <1>3, <1>7 DEF T
<1> QED
  BY <1>2, <1>8 DEF e

\* The policy of a target is that of the last entry for it.
LEMMA PolicyLast ==
  ASSUME NEW entries, entries \in Seq(CollectorEntry), NEW target
  PROVE  /\ target \in DOMAIN Policies(entries)
               <=> \E i \in DOMAIN entries : Target(entries[i]) = target
         /\ target \in DOMAIN Policies(entries) =>
               \E x : /\ In(x, entries) /\ Target(x) = target
                      /\ Policies(entries)[target] = [status |-> x.status, events |-> x.events]
<1> DEFINE Of == {i \in DOMAIN entries : Target(entries[i]) = target}
           IsLast(i) == /\ Target(entries[i]) = target
                      /\ \A j \in DOMAIN entries : Target(entries[j]) = target => j <= i
<1>1. target \in DOMAIN Policies(entries) <=> \E i \in DOMAIN entries : Target(entries[i]) = target
  BY DEF Policies
<1>2. ASSUME target \in DOMAIN Policies(entries)
      PROVE  \E x : /\ In(x, entries) /\ Target(x) = target
                    /\ Policies(entries)[target] = [status |-> x.status, events |-> x.events]
  <2>1. Len(entries) \in Nat /\ DOMAIN entries = 1 .. Len(entries)
    OBVIOUS
  <2>2. Of \subseteq Nat /\ Of # {} /\ \A s \in Of : s <= Len(entries)
    BY <1>1, <1>2, <2>1
  <2>3. \E m \in Of : \A s \in Of : s <= m
    <3> HIDE DEF Of
    <3> QED
      BY <2>1, <2>2, LargestExists
  <2>4. \E i \in DOMAIN entries : IsLast(i)
    BY <2>3
  <2> DEFINE last == CHOOSE i \in DOMAIN entries : IsLast(i)
  <2>5. last \in DOMAIN entries /\ IsLast(last)
    <3> HIDE DEF IsLast
    <3> QED
      BY <2>4
  <2>6. Policies(entries)[target] =
            [status |-> entries[last].status, events |-> entries[last].events]
    BY <1>2 DEF Policies
  <2>7. Target(entries[last]) = target
    BY <2>5
  <2> HIDE DEF last, IsLast, Of
  <2> QED
    BY <2>5, <2>6, <2>7 DEF In
<1> QED
  BY <1>1, <1>2

\* A built-in entry keeps its flags wherever its contract stands.
LEMMA BuiltinPolicies ==
  ASSUME NamesApart, NEW c \in Configs, c.mode = "fsp",
         NEW i \in DOMAIN FspTransactions, NEW e, e = FspTransactions[i],
         NEW addresses, addresses = ToSet(ResolveAllByName(e.name)),
         \A j \in DOMAIN c.transactions :
            ~(/\ c.transactions[j].item = e.item /\ c.transactions[j].address # Empty
              /\ (c.transactions[j].name = e.name \/ c.transactions[j].address \in addresses)),
         NEW address \in addresses,
         NEW built, built = Policies(Resolve(Transactions(c)))
  PROVE  /\ <<address, e.item>> \in DOMAIN built
         /\ e.status => built[<<address, e.item>>].status
         /\ e.events => built[<<address, e.item>>].events
<1> DEFINE users == c.transactions
           merged == MergeCollectors(FspTransactions, users)
           target == <<address, e.item>>
<1>1. /\ users \in Seq(CollectorEntry) /\ e \in CollectorEntry
      /\ e.name # Empty /\ e.address = Empty /\ e.name \in DOMAIN Registry
  <2>1. users \in Seq(CollectorEntry)
    BY BatchAssumption
  <2>2. e.name # Empty /\ e.address = Empty
    BY CollectorsAssumption
  <2>3. FspTransactions \in Seq(CollectorEntry)
    BY CollectorsAssumption
  <2>4. e \in CollectorEntry
    BY <2>3
  <2>5. e.name \in DOMAIN Registry
    BY <2>2, <2>4 DEF CollectorEntry
  <2> QED
    BY <2>1, <2>2, <2>4, <2>5
<1>2. merged \in Seq(CollectorEntry) /\ merged = Transactions(c)
  BY <1>1, CollectorsAssumption, MergeTyped DEF Transactions
<1>3. Stands(merged, e, users)
  BY <1>1, MergeStands
<1>4. \A j \in DOMAIN users : users[j] \in CollectorEntry
  BY <1>1
<1> HIDE DEF merged
<1>5. \A k \in DOMAIN merged : merged[k] \in CollectorEntry
  BY <1>2
<1>6. ASSUME NEW k \in DOMAIN merged, merged[k].item = e.item, merged[k].address \in addresses
      PROVE  merged[k].address = Empty
  <2> SUFFICES ASSUME merged[k].address # Empty PROVE FALSE
    OBVIOUS
  <2>1. PICK j \in DOMAIN users : /\ DedupKey(users[j]) = DedupKey(merged[k])
                                  /\ users[j].address = merged[k].address
    BY <1>3 DEF Stands
  <2>2. users[j].item = merged[k].item
    BY <1>4, <1>5, <2>1, SameKey
  <2> QED
    BY <1>6, <2>1, <2>2
<1>7. ASSUME NEW k \in DOMAIN merged, DedupKey(merged[k]) = DedupKey(e)
      PROVE  /\ merged[k].address = Empty /\ merged[k].item = e.item
             /\ merged[k].name = e.name
  <2>1. merged[k].item = e.item /\ merged[k].name = e.name
    BY <1>1, <1>5, <1>7, SameKey
  <2>2. ASSUME merged[k].address # Empty PROVE FALSE
    <3>1. PICK j \in DOMAIN users : /\ DedupKey(users[j]) = DedupKey(merged[k])
                                    /\ users[j].address = merged[k].address
      BY <1>3, <2>2 DEF Stands
    <3>2. users[j].item = e.item /\ users[j].name = e.name
      BY <1>4, <1>5, <2>1, <3>1, SameKey
    <3> QED
      BY <2>2, <3>1, <3>2
  <2> QED
    BY <2>1, <2>2
<1>8. Resolve(merged) \in Seq(CollectorEntry) /\ built = Policies(Resolve(merged))
  BY <1>2, ResolveTyped
<1>9. target \in DOMAIN built
  <2>1. PICK k \in DOMAIN merged : DedupKey(merged[k]) = DedupKey(e)
    BY <1>3 DEF Stands
  <2> DEFINE x == [merged[k] EXCEPT !.address = address]
  <2>2. ResolvesTo(merged[k], x)
    BY <1>7, <2>1 DEF ResolvesTo
  <2>3. x.address = address /\ x.item = e.item
    <3>1. merged[k] \in CollectorEntry /\ merged[k].item = e.item
      BY <1>5, <1>7, <2>1
    <3> QED
      BY <3>1 DEF CollectorEntry
  <2> HIDE DEF x
  <2>4. In(x, Resolve(merged))
    BY <1>2, <2>2, InResolved
  <2>5. \E n \in DOMAIN Resolve(merged) : Target(Resolve(merged)[n]) = target
    BY <2>3, <2>4 DEF In, Target
  <2> QED
    BY <1>8, <2>5, PolicyLast
<1>10. PICK x : /\ In(x, Resolve(merged)) /\ Target(x) = target
                /\ built[target] = [status |-> x.status, events |-> x.events]
  BY <1>8, <1>9, PolicyLast
<1>11. PICK k \in DOMAIN merged : ResolvesTo(merged[k], x)
  BY <1>2, <1>10, InResolved
<1>12. x.address = address /\ x.item = e.item
  BY <1>10 DEF Target
<1>13. merged[k].address = Empty
  <2> SUFFICES ASSUME merged[k].address # Empty PROVE FALSE
    OBVIOUS
  <2>1. x = merged[k]
    BY <1>11 DEF ResolvesTo
  <2> QED
    BY <1>6, <1>12, <2>1
<1>14. PICK other \in ToSet(ResolveAllByName(merged[k].name)) :
          x = [merged[k] EXCEPT !.address = other]
  BY <1>11, <1>13 DEF ResolvesTo
<1>15. /\ other = address /\ merged[k].item = e.item
       /\ x.status = merged[k].status /\ x.events = merged[k].events
  <2>1. merged[k] \in CollectorEntry
    BY <1>5
  <2>2. /\ x.address = other /\ x.item = merged[k].item
        /\ x.status = merged[k].status /\ x.events = merged[k].events
    BY <1>14, <2>1 DEF CollectorEntry
  <2> QED
    BY <1>12, <2>2
<1>16. merged[k].name = e.name
  <2>1. merged[k].name \in DOMAIN Registry
    BY <1>5, <1>13 DEF CollectorEntry
  <2>2. address \in ToSet(ResolveAllByName(merged[k].name)) \cap ToSet(ResolveAllByName(e.name))
    BY <1>14, <1>15
  <2> QED
    BY <1>1, <2>1, <2>2 DEF NamesApart
<1>17. DedupKey(merged[k]) = DedupKey(e)
  BY <1>1, <1>15, <1>16 DEF DedupKey, ContractKey
<1>18. Carries(merged[k], e)
  BY <1>3, <1>17 DEF Stands
<1>19. (e.status => x.status) /\ (e.events => x.events)
  BY <1>15, <1>18, Zenon DEF Carries
<1>20. built[target].status = x.status /\ built[target].events = x.events
  BY <1>10
<1> HIDE DEF target
<1>21. target \in DOMAIN built /\ (e.status => built[target].status)
       /\ (e.events => built[target].events)
  BY <1>9, <1>19, <1>20, Zenon
<1> QED
  BY <1>21 DEF target

\* The policies are those of the configuration of the process.
PInv == config \in Configs /\ policies = Policies(Resolve(Transactions(config)))

LEMMA PInvNext == PInv /\ [Next]_vars => PInv'
<1> SUFFICES ASSUME PInv, [Next]_vars PROVE PInv'
  OBVIOUS
<1>1. ASSUME NEW next \in Configs, Restarts(next) PROVE PInv'
  BY <1>1 DEF Restarts, PInv
<1>2. ASSUME UNCHANGED <<config, policies>> PROVE PInv'
  <2>1. config' = config /\ policies' = policies
    BY <1>2
  <2> QED
    BY <2>1, Zenon DEF PInv
<1>3. ASSUME ~\E next \in Configs : Restarts(next) PROVE UNCHANGED <<config, policies>>
  BY <1>3 DEF Next, Fetching, vars, collectors, BatchStarts, BlockArrives, BlocksProcessed,
              ReceiptArrives, LogsArrive, RowsBuilt, Saved, BatchFails, LogsDropped,
              TransactionsDropped
<1> QED
  BY <1>1, <1>2, <1>3

\* Merging never switches off what FSP mode needs, for every configuration and
\* every registry that keeps its contracts apart (mergeFspCollectors,
\* ResolveContractAddresses, buildTransactionPolicies).
THEOREM BuiltinsStayOn == ASSUME NamesApart PROVE Spec => []BuiltinsKept
<1>1. Init => PInv
  BY DEF Init, PInv
<1>2. PInv => BuiltinsKept
  BY BuiltinPolicies DEF PInv, BuiltinsKept
<1> QED
  BY <1>1, <1>2, PInvNext, PTL DEF Spec
=============================================================================
