---------------------------- MODULE RpcPoolProofs ----------------------------
(***************************************************************************)
(* The slots of the RPC client, for every number of callers, every cap and *)
(* every way the node and the contexts may behave.  Each step moves at     *)
(* most one caller into or out of the calls at the node, and moves the     *)
(* channel's count with it.                                                *)
(***************************************************************************)
EXTENDS RpcPool, FiniteSetTheorems, TLAPS

\* The capacity of the channel is a positive number, whatever the configuration says.
LEMMA SlotsPositive == Slots \in Nat \ {0}
  BY RpcPoolAssumption DEF Slots

\* A caller that pauses has an attempt left.
Paused == \A c \in Caller : pc[c] = "backoff" => attempt[c] < MaxAttempts

Inv == TypeOK /\ Paused /\ sem = Cardinality(Calling)

LEMMA InvInit == Init => Inv
<1> SUFFICES ASSUME Init PROVE Inv
  OBVIOUS
<1>1. TypeOK
  <2>1. 0 \in 0 .. Slots /\ 0 \in 0 .. MaxAttempts
    BY SlotsPositive, RpcPoolAssumption
  <2>2. /\ pc \in [Caller -> {"idle", "acquire", "calling", "backoff"}]
        /\ attempt \in [Caller -> 0 .. MaxAttempts]
    BY <2>1 DEF Init
  <2>3. /\ timedOut \in [Caller -> BOOLEAN] /\ hung \in [Caller -> BOOLEAN]
        /\ sem \in 0 .. Slots /\ cancelled \in BOOLEAN
    BY <2>1 DEF Init
  <2> QED
    BY <2>2, <2>3 DEF TypeOK
<1>2. Calling = {}
  BY DEF Init, Calling
<1>3. Cardinality(Calling) = 0
  BY <1>2, FS_EmptySet
<1>4. Paused
  BY DEF Init, Paused
<1> QED
  BY <1>1, <1>3, <1>4 DEF Init, Inv

\* The calls at the node are a finite set.
LEMMA CallingFinite == IsFiniteSet(Calling)
<1>1. Calling \subseteq Caller
  BY DEF Calling
<1> QED
  BY <1>1, FS_Subset, RpcPoolAssumption

\* A step that leaves the callers at the node alone, and the count.
LEMMA NobodyMoves ==
  ASSUME Inv, TypeOK', Paused', UNCHANGED sem,
         \A c \in Caller : pc[c] = "calling" <=> pc'[c] = "calling"
  PROVE  Inv'
<1>1. Calling' = Calling
  BY DEF Calling
<1> QED
  BY <1>1 DEF Inv

\* A caller that leaves the node gives its slot back.
LEMMA CallerLeaves ==
  ASSUME Inv, NEW c \in Caller, pc[c] = "calling", Release,
         NEW where \in {"idle", "backoff"}, pc' = [pc EXCEPT ![c] = where]
  PROVE  /\ sem' \in 0 .. Slots
         /\ sem' = Cardinality(Calling')
<1>1. Calling' = Calling \ {c} /\ c \in Calling
  BY DEF Inv, TypeOK, Calling
<1>2. Cardinality(Calling \ {c}) = Cardinality(Calling) - 1
  BY <1>1, CallingFinite, FS_RemoveElement
<1> QED
  BY <1>1, <1>2, SlotsPositive DEF Inv, TypeOK, Release

\* What an attempt that fails leaves, wherever it failed.
LEMMA FailedTyped ==
  ASSUME Inv, NEW c \in Caller, Fails(c)
  PROVE  /\ \E where \in {"idle", "backoff"} : pc' = [pc EXCEPT ![c] = where]
         /\ pc' \in [Caller -> {"idle", "acquire", "calling", "backoff"}]
         /\ attempt' \in [Caller -> 0 .. MaxAttempts]
         /\ timedOut' \in [Caller -> BOOLEAN]
         /\ hung' \in [Caller -> BOOLEAN]
         /\ cancelled' \in BOOLEAN
         /\ Paused'
<1>1. timedOut' \in [Caller -> BOOLEAN] /\ hung' \in [Caller -> BOOLEAN]
  BY DEF Inv, TypeOK, Fails, AttemptOver
<1>2. CASE GivesUp(c)
  <2>1. /\ pc' = [pc EXCEPT ![c] = "idle"]
        /\ attempt' = [attempt EXCEPT ![c] = 0]
        /\ cancelled' = (cancelled \/ c \in Group)
    BY <1>2 DEF Fails
  <2>2. cancelled' \in BOOLEAN
    BY <2>1, Zenon
  <2>3. 0 \in 0 .. MaxAttempts
    BY RpcPoolAssumption
  <2>4. Paused'
    BY <2>1 DEF Inv, TypeOK, Paused
  <2> QED
    BY <1>1, <2>1, <2>2, <2>3, <2>4 DEF Inv, TypeOK
<1>3. CASE ~GivesUp(c)
  <2>1. pc' = [pc EXCEPT ![c] = "backoff"] /\ UNCHANGED <<attempt, cancelled>>
    BY <1>3 DEF Fails
  <2>2. attempt[c] < MaxAttempts
    BY <1>3, RpcPoolAssumption DEF GivesUp, Inv, TypeOK
  <2>3. Paused'
    BY <2>1, <2>2 DEF Inv, TypeOK, Paused
  <2> QED
    BY <1>1, <2>1, <2>3 DEF Inv, TypeOK
<1> QED
  BY <1>2, <1>3

LEMMA InvNext == Inv /\ [Next]_vars => Inv'
<1> SUFFICES ASSUME Inv, [Next]_vars PROVE Inv'
  OBVIOUS
<1> USE RpcPoolAssumption, SlotsPositive
<1>0. TypeOK /\ Paused
  BY DEF Inv
<1>1. ASSUME NEW c \in Caller, Begin(c) PROVE Inv'
  <2>1. TypeOK'
    <3>1. 1 \in 0 .. MaxAttempts
      OBVIOUS
    <3> QED
      BY <1>0, <1>1, <3>1 DEF Begin, TypeOK
  <2>2. Paused'
    BY <1>0, <1>1 DEF Begin, TypeOK, Paused
  <2>3. \A d \in Caller : pc[d] = "calling" <=> pc'[d] = "calling"
    BY <1>0, <1>1 DEF Begin, TypeOK
  <2> QED
    BY <1>1, <2>1, <2>2, <2>3, NobodyMoves DEF Begin
<1>2. ASSUME NEW c \in Caller, Acquire(c) PROVE Inv'
  <2>1. TypeOK'
    BY <1>0, <1>2 DEF Acquire, TypeOK
  <2>2. Paused'
    BY <1>0, <1>2 DEF Acquire, TypeOK, Paused
  <2>3. Calling' = Calling \cup {c} /\ c \notin Calling
    BY <1>0, <1>2 DEF Acquire, TypeOK, Calling
  <2>4. Cardinality(Calling \cup {c}) = Cardinality(Calling) + 1
    BY <2>3, CallingFinite, FS_AddElement
  <2> QED
    BY <1>2, <2>1, <2>2, <2>3, <2>4 DEF Acquire, Inv
<1>3. ASSUME NEW c \in Caller, AcquireCancelled(c) PROVE Inv'
  <2>1. Fails(c) /\ pc[c] = "acquire" /\ UNCHANGED sem
    BY <1>3 DEF AcquireCancelled
  <2>2. TypeOK' /\ Paused'
    BY <1>0, <2>1, FailedTyped DEF TypeOK
  <2>3. PICK where \in {"idle", "backoff"} : pc' = [pc EXCEPT ![c] = where]
    BY <2>1, FailedTyped
  <2>4. \A d \in Caller : pc[d] = "calling" <=> pc'[d] = "calling"
    BY <1>0, <2>1, <2>3 DEF TypeOK
  <2> QED
    BY <2>1, <2>2, <2>4, NobodyMoves
<1>4. ASSUME NEW c \in Caller, Answers(c) PROVE Inv'
  <2>1. sem' \in 0 .. Slots /\ sem' = Cardinality(Calling')
    BY <1>4, CallerLeaves DEF Answers
  <2>2. TypeOK'
    <3>1. 0 \in 0 .. MaxAttempts
      OBVIOUS
    <3> QED
      BY <1>0, <1>4, <2>1, <3>1 DEF Answers, AttemptOver, TypeOK
  <2>3. Paused'
    BY <1>0, <1>4 DEF Answers, TypeOK, Paused
  <2> QED
    BY <2>1, <2>2, <2>3 DEF Inv
<1>5. ASSUME NEW c \in Caller, CallFails(c) PROVE Inv'
  <2>1. Fails(c) /\ pc[c] = "calling" /\ Release
    BY <1>5 DEF CallFails
  <2>2. PICK where \in {"idle", "backoff"} : pc' = [pc EXCEPT ![c] = where]
    BY <2>1, FailedTyped
  <2>3. sem' \in 0 .. Slots /\ sem' = Cardinality(Calling')
    BY <2>1, <2>2, CallerLeaves
  <2>4. TypeOK' /\ Paused'
    BY <2>1, <2>3, FailedTyped DEF TypeOK
  <2> QED
    BY <2>3, <2>4 DEF Inv
<1>6. ASSUME NEW c \in Caller, Hangs(c) PROVE Inv'
  <2>1. TypeOK' /\ Paused'
    BY <1>0, <1>6 DEF Hangs, TypeOK, Paused
  <2> QED
    BY <1>6, <2>1, NobodyMoves DEF Hangs
<1>7. ASSUME NEW c \in Caller, TimesOut(c) PROVE Inv'
  <2>1. TypeOK' /\ Paused'
    BY <1>0, <1>7 DEF TimesOut, TypeOK, Paused
  <2> QED
    BY <1>7, <2>1, NobodyMoves DEF TimesOut
<1>8. ASSUME NEW c \in Caller, Retries(c) PROVE Inv'
  <2>1. attempt[c] + 1 \in 0 .. MaxAttempts
    BY <1>0, <1>8 DEF Retries, TypeOK, Paused
  <2>2. TypeOK'
    BY <1>0, <1>8, <2>1 DEF Retries, TypeOK
  <2>3. Paused'
    BY <1>0, <1>8 DEF Retries, TypeOK, Paused
  <2>4. \A d \in Caller : pc[d] = "calling" <=> pc'[d] = "calling"
    BY <1>0, <1>8 DEF Retries, TypeOK
  <2> QED
    BY <1>8, <2>2, <2>3, <2>4, NobodyMoves DEF Retries
<1>9. ASSUME NEW c \in Caller, BackoffCancelled(c) PROVE Inv'
  <2>1. TypeOK'
    <3>1. 0 \in 0 .. MaxAttempts
      OBVIOUS
    <3> QED
      BY <1>0, <1>9, <3>1 DEF BackoffCancelled, TypeOK
  <2>2. Paused'
    BY <1>0, <1>9 DEF BackoffCancelled, TypeOK, Paused
  <2>3. \A d \in Caller : pc[d] = "calling" <=> pc'[d] = "calling"
    BY <1>0, <1>9 DEF BackoffCancelled, TypeOK
  <2> QED
    BY <1>9, <2>1, <2>2, <2>3, NobodyMoves DEF BackoffCancelled
<1>10. ASSUME GroupReturns PROVE Inv'
  <2>1. TypeOK' /\ Paused'
    BY <1>0, <1>10 DEF GroupReturns, TypeOK, Paused
  <2> QED
    BY <1>10, <2>1, NobodyMoves DEF GroupReturns
<1>11. ASSUME UNCHANGED vars PROVE Inv'
  BY <1>11 DEF vars, Inv, TypeOK, Paused, Calling
<1> QED
  BY <1>1, <1>2, <1>3, <1>4, <1>5, <1>6, <1>7, <1>8, <1>9, <1>10, <1>11 DEF Next

LEMMA InvAlways == Spec => []Inv
  BY InvInit, InvNext, PTL DEF Spec

\* Every variable keeps its type: the channel never holds more than its capacity,
\* and an operation never makes more attempts than it has.
THEOREM TypeCorrect == Spec => []TypeOK
<1>1. Inv => TypeOK
  BY DEF Inv
<1> QED
  BY <1>1, InvAlways, PTL

\* One slot per call at the node, whatever fails, hangs, times out or is
\* cancelled, for every number of callers (acquire, release).
THEOREM SlotsConserved == Spec => []SlotsMatchCalls
<1>1. Inv => SlotsMatchCalls
  BY SlotsPositive DEF Inv, TypeOK, SlotsMatchCalls
<1> QED
  BY <1>1, InvAlways, PTL
=============================================================================
