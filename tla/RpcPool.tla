------------------------------- MODULE RpcPool -------------------------------
(***************************************************************************)
(* The RPC client's cap on simultaneous calls (internal/chain) under its   *)
(* callers.  A caller is a goroutine that performs one operation after the *)
(* other; an operation is a call that internal/boff tries until it         *)
(* succeeds or its time is up.  Block, header, receipt and log fetches put *)
(* a timeout on each attempt, the search for a block and the contract      *)
(* calls do not, and are not tried again here.  Some callers share an      *)
(* errgroup: the first operation of theirs that fails for good cancels the *)
(* others.  The node may answer, fail or never answer.                     *)
(***************************************************************************)
EXTENDS Integers, FiniteSets

CONSTANTS
    Caller,         \* the goroutines that call the node
    Timed,          \* those whose attempts carry RPCTimeout, and are retried
    Group,          \* those of them that fetch for one batch, in one errgroup
    RpcConcurrency, \* indexer.rpc_concurrency
    MaxAttempts     \* attempts before BackoffMaxElapsedTime is over (bound)

ASSUME RpcPoolAssumption ==
    /\ IsFiniteSet(Caller)
    /\ Timed \subseteq Caller
    /\ Group \subseteq Timed
    /\ RpcConcurrency \in Int
    /\ MaxAttempts \in Nat \ {0}

\* The capacity DialRPCNode gives the channel.
Slots == IF RpcConcurrency < 1 THEN 1 ELSE RpcConcurrency

VARIABLES
    pc,         \* "idle", "acquire", "calling" or "backoff", per caller
    attempt,    \* the attempts of the operation so far, this one included
    timedOut,   \* the deadline of the attempt has passed
    hung,       \* the node will not answer the call
    sem,        \* the elements in the channel Client.sem
    cancelled   \* the context of the group is cancelled

vars == <<pc, attempt, timedOut, hung, sem, cancelled>>

\* ctx.Done() of the attempt is closed.
Done(c) == timedOut[c] \/ (c \in Group /\ cancelled)

-----------------------------------------------------------------------------
\* A goroutine begins an operation: the first attempt, with a context of its own.
Begin(c) ==
    /\ pc[c] = "idle"
    /\ pc' = [pc EXCEPT ![c] = "acquire"]
    /\ attempt' = [attempt EXCEPT ![c] = 1]
    /\ UNCHANGED <<timedOut, hung, sem, cancelled>>

\* Mutant: the channel holds one element more.
AcquireOver(c) ==
    /\ pc[c] = "acquire"
    /\ sem <= Slots
    /\ sem' = sem + 1
    /\ pc' = [pc EXCEPT ![c] = "calling"]
    /\ UNCHANGED <<attempt, timedOut, hung, cancelled>>

\* acquire: the send on the channel, which blocks while it is full ...
Acquire(c) ==
    /\ pc[c] = "acquire"
    /\ sem < Slots
    /\ sem' = sem + 1
    /\ pc' = [pc EXCEPT ![c] = "calling"]
    /\ UNCHANGED <<attempt, timedOut, hung, cancelled>>

\* What an attempt that ends leaves behind it.
AttemptOver(c) ==
    /\ timedOut' = [timedOut EXCEPT ![c] = FALSE]
    /\ hung' = [hung EXCEPT ![c] = FALSE]

\* boff gives up when its time is over or its own context is done.
GivesUp(c) ==
    \/ c \notin Timed
    \/ attempt[c] >= MaxAttempts
    \/ c \in Group /\ cancelled

\* An error: another attempt after a pause, or the end of the operation, which
\* in a group cancels the others.
Fails(c) ==
    /\ AttemptOver(c)
    /\ IF GivesUp(c)
       THEN /\ pc' = [pc EXCEPT ![c] = "idle"]
            /\ attempt' = [attempt EXCEPT ![c] = 0]
            /\ cancelled' = (cancelled \/ c \in Group)
       ELSE /\ pc' = [pc EXCEPT ![c] = "backoff"]
            /\ UNCHANGED <<attempt, cancelled>>

\* ... or the end of the context: the caller has no slot and gives none back.
AcquireCancelled(c) ==
    /\ pc[c] = "acquire"
    /\ Done(c)
    /\ Fails(c)
    /\ UNCHANGED sem

\* Mutant: the deferred release is missing.
ReleaseForgotten == sem' = sem

\* The deferred receive from the channel.
Release == sem > 0 /\ sem' = sem - 1

\* The node answers, ...
Answers(c) ==
    /\ pc[c] = "calling"
    /\ ~hung[c]
    /\ Release
    /\ AttemptOver(c)
    /\ pc' = [pc EXCEPT ![c] = "idle"]
    /\ attempt' = [attempt EXCEPT ![c] = 0]
    /\ UNCHANGED cancelled

\* ... reports an error, or the context ends first.
CallFails(c) ==
    /\ pc[c] = "calling"
    /\ ~hung[c] \/ Done(c)
    /\ Release
    /\ Fails(c)

\* The node takes the call and never answers.
Hangs(c) ==
    /\ pc[c] = "calling"
    /\ ~hung[c]
    /\ hung' = [hung EXCEPT ![c] = TRUE]
    /\ UNCHANGED <<pc, attempt, timedOut, sem, cancelled>>

\* Mutant: the deadline is set when the call is made, not while it waits for a slot.
TimesOutCalling(c) ==
    /\ c \in Timed
    /\ pc[c] = "calling"
    /\ ~timedOut[c]
    /\ timedOut' = [timedOut EXCEPT ![c] = TRUE]
    /\ UNCHANGED <<pc, attempt, hung, sem, cancelled>>

\* RPCTimeout runs from before the slot is asked for.
TimesOut(c) ==
    /\ c \in Timed
    /\ pc[c] \in {"acquire", "calling"}
    /\ ~timedOut[c]
    /\ timedOut' = [timedOut EXCEPT ![c] = TRUE]
    /\ UNCHANGED <<pc, attempt, hung, sem, cancelled>>

\* The pause of the backoff is over.
Retries(c) ==
    /\ pc[c] = "backoff"
    /\ ~(c \in Group /\ cancelled)
    /\ pc' = [pc EXCEPT ![c] = "acquire"]
    /\ attempt' = [attempt EXCEPT ![c] = @ + 1]
    /\ UNCHANGED <<timedOut, hung, sem, cancelled>>

\* The pause ends with the group's context.
BackoffCancelled(c) ==
    /\ pc[c] = "backoff"
    /\ c \in Group /\ cancelled
    /\ pc' = [pc EXCEPT ![c] = "idle"]
    /\ attempt' = [attempt EXCEPT ![c] = 0]
    /\ UNCHANGED <<timedOut, hung, sem, cancelled>>

\* eg.Wait returns once every goroutine has, and the next batch has a new group.
GroupReturns ==
    /\ cancelled
    /\ \A c \in Group : pc[c] = "idle"
    /\ cancelled' = FALSE
    /\ UNCHANGED <<pc, attempt, timedOut, hung, sem>>

-----------------------------------------------------------------------------
Init ==
    /\ pc = [c \in Caller |-> "idle"]
    /\ attempt = [c \in Caller |-> 0]
    /\ timedOut = [c \in Caller |-> FALSE]
    /\ hung = [c \in Caller |-> FALSE]
    /\ sem = 0
    /\ cancelled = FALSE

Next ==
    \/ \E c \in Caller :
        \/ Begin(c) \/ Acquire(c) \/ AcquireCancelled(c)
        \/ Answers(c) \/ CallFails(c) \/ Hangs(c) \/ TimesOut(c)
        \/ Retries(c) \/ BackoffCancelled(c)
    \/ GroupReturns

Spec == Init /\ [][Next]_vars

\* The clock runs, contexts end calls, a node that has not hung answers in the
\* end.  Go serves the senders that wait on a channel in their order, so a slot
\* that is free again and again does not pass a waiter by.  Nobody has to begin
\* an operation, and a call that has hung is nobody's duty.
Fairness ==
    \A c \in Caller :
        /\ SF_vars(Acquire(c))
        /\ WF_vars(AcquireCancelled(c))
        /\ WF_vars(Answers(c) \/ CallFails(c))
        /\ WF_vars(TimesOut(c))
        /\ WF_vars(Retries(c))
        /\ WF_vars(BackoffCancelled(c))

FairSpec == Spec /\ Fairness

-----------------------------------------------------------------------------
(***************************************************************************)
(* Properties                                                              *)
(***************************************************************************)

\* Type invariant.
TypeOK ==
    /\ pc \in [Caller -> {"idle", "acquire", "calling", "backoff"}]
    /\ attempt \in [Caller -> 0 .. MaxAttempts]
    /\ timedOut \in [Caller -> BOOLEAN]
    /\ hung \in [Caller -> BOOLEAN]
    /\ sem \in 0 .. Slots
    /\ cancelled \in BOOLEAN

Calling == {c \in Caller : pc[c] = "calling"}

\* The channel holds one element per call at the node, so there are never more
\* of them than rpc_concurrency allows, "enforced process-wide" (README.md:49), no
\* slot is lost by a call that fails or is cancelled, and none is given back by a
\* caller that never had one (acquire, release and the deferred calls).
SlotsMatchCalls ==
    /\ sem = Cardinality(Calling)
    /\ Cardinality(Calling) <= Slots

\* An operation whose attempts are timed ends, with a result or an error, even if
\* the node never answers again and every slot is held by calls that have hung:
\* the time a caller waits for its slot counts (acquire, boff).
TimedOperationsEnd ==
    \A c \in Timed : pc[c] = "acquire" ~> pc[c] = "idle"

\* Only a call without a timeout can block others for good: unless one of those
\* hangs, every operation ends, untimed ones that wait behind a full channel too.
UntimedHangs == \E c \in Caller \ Timed : hung[c]
OperationsEnd ==
    \/ <>UntimedHangs
    \/ \A c \in Caller : pc[c] = "acquire" ~> pc[c] = "idle"

\* "RPCTimeout bounds a single RPC attempt (block, receipt, eth_getLogs, contract
\* call)" (config.go:38): whoever makes the call, the attempt ends.
EveryAttemptEnds ==
    \A c \in Caller : pc[c] = "calling" ~> pc[c] # "calling"
=============================================================================
