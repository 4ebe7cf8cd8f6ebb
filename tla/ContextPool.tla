---------------------------- MODULE ContextPool -----------------------------
(***************************************************************************)
(* The pool of krb5_contexts of internal/krb5c/krb5c.go: acquire, release  *)
(* and Close, over the two buffered channels c.sem and c.free, each of     *)
(* capacity MaxConcurrent.  A channel operation is one step.  An idle      *)
(* context's place in c.free does not matter, so c.free is a set.          *)
(***************************************************************************)
EXTENDS Naturals, FiniteSets

CONSTANTS
    Workers,        \* goroutines running operations, the loop included
    Contexts,       \* krb5_contexts the library could ever allocate
    MaxConcurrent,  \* Options.MaxConcurrent
    Nil

ASSUME PoolAssumption ==
    /\ MaxConcurrent \in Nat \ {0}
    /\ IsFiniteSet(Workers)
    /\ IsFiniteSet(Contexts) /\ Contexts # {}
    /\ Nil \notin Contexts

VARIABLES
    sem,        \* tokens in c.sem
    free,       \* contexts in c.free
    closed,     \* has c.free been closed?
    live,       \* contexts allocated and not freed
    pc, ctx,    \* of each worker
    drained,    \* tokens Close has put into c.sem
    closer      \* how far Close is

vars == <<sem, free, closed, live, pc, ctx, drained, closer>>

-----------------------------------------------------------------------------

\* Open hands its own context to the pool without a token.
Init ==
    /\ sem = 0
    /\ live = {CHOOSE k \in Contexts : TRUE}
    /\ free = live
    /\ closed = FALSE
    /\ pc = [p \in Workers |-> "idle"]
    /\ ctx = [p \in Workers |-> Nil]
    /\ drained = 0
    /\ closer = "open"

slotFreeOffByOne == sem <= MaxConcurrent

slotFree == sem < MaxConcurrent

-----------------------------------------------------------------------------
(* acquire                                                                 *)

AcquireSlot(p) ==
    /\ pc[p] = "idle"
    /\ slotFree
    /\ sem' = sem + 1
    /\ pc' = [pc EXCEPT ![p] = "take"]
    /\ UNCHANGED <<free, closed, live, ctx, drained, closer>>

leaveIn(k) == UNCHANGED free

receive(k) == free' = free \ {k}

\* The select: an idle context, or none.  A closed channel yields nil.
Take(p) ==
    /\ pc[p] = "take"
    /\ \/ /\ free # {}
          /\ \E k \in free : ctx' = [ctx EXCEPT ![p] = k] /\ receive(k)
          /\ pc' = [pc EXCEPT ![p] = "use"]
       \/ /\ free = {}
          /\ pc' = [pc EXCEPT ![p] = IF closed THEN "use" ELSE "create"]
          /\ UNCHANGED <<free, ctx>>
    /\ UNCHANGED <<sem, closed, live, drained, closer>>

\* newKctx, which may fail: the token is then given back.  Which context it
\* is does not matter, only that it is a new one.
fresh == CHOOSE k \in Contexts \ live : TRUE

Create(p) ==
    /\ pc[p] = "create"
    /\ Contexts \ live # {}
    /\ live' = live \cup {fresh}
    /\ ctx' = [ctx EXCEPT ![p] = fresh]
    /\ pc' = [pc EXCEPT ![p] = "use"]
    /\ UNCHANGED <<sem, free, closed, drained, closer>>

CreateFailsLeaks(p) ==
    /\ pc[p] = "create"
    /\ pc' = [pc EXCEPT ![p] = "idle"]
    /\ UNCHANGED <<sem, free, closed, live, ctx, drained, closer>>

CreateFails(p) ==
    /\ pc[p] = "create"
    /\ sem' = sem - 1
    /\ pc' = [pc EXCEPT ![p] = "idle"]
    /\ UNCHANGED <<free, closed, live, ctx, drained, closer>>

-----------------------------------------------------------------------------
(* release                                                                 *)

releaseTokenFirst(l) ==
    CASE l = "use" -> "drop"
      [] l = "drop" -> "put"
      [] l = "put" -> "idle"

\* The order of release: back into c.free first, then the token.
releaseNext(l) ==
    CASE l = "use" -> "put"
      [] l = "put" -> "drop"
      [] l = "drop" -> "idle"

Finish(p) ==
    /\ pc[p] = "use"
    /\ pc' = [pc EXCEPT ![p] = releaseNext("use")]
    /\ UNCHANGED <<sem, free, closed, live, ctx, drained, closer>>

\* The send blocks while c.free is full, and panics if it is closed.
Put(p) ==
    /\ pc[p] = "put"
    /\ Cardinality(free) < MaxConcurrent
    /\ ~closed
    /\ free' = free \cup {ctx[p]}
    /\ ctx' = [ctx EXCEPT ![p] = Nil]
    /\ pc' = [pc EXCEPT ![p] = releaseNext("put")]
    /\ UNCHANGED <<sem, closed, live, drained, closer>>

Drop(p) ==
    /\ pc[p] = "drop"
    /\ sem > 0
    /\ sem' = sem - 1
    /\ pc' = [pc EXCEPT ![p] = releaseNext("drop")]
    /\ UNCHANGED <<free, closed, live, ctx, drained, closer>>

-----------------------------------------------------------------------------
(* Close, run once: fill c.sem, close c.free, free what is in it.          *)

allButOneSlot == MaxConcurrent - 1

allSlots == MaxConcurrent

Close ==
    /\ closer = "open"
    /\ closer' = "drain"
    /\ UNCHANGED <<sem, free, closed, live, pc, ctx, drained>>

Drain ==
    /\ closer = "drain"
    /\ drained < allSlots
    /\ slotFree
    /\ sem' = sem + 1
    /\ drained' = drained + 1
    /\ UNCHANGED <<free, closed, live, pc, ctx, closer>>

CloseFree ==
    /\ closer = "drain"
    /\ drained = allSlots
    /\ closed' = TRUE
    /\ closer' = "range"
    /\ UNCHANGED <<sem, free, live, pc, ctx, drained>>

FreeOne ==
    /\ closer = "range"
    /\ \E k \in free : receive(k) /\ live' = live \ {k}
    /\ UNCHANGED <<sem, closed, pc, ctx, drained, closer>>

CloseReturns ==
    /\ closer = "range"
    /\ free = {}
    /\ closer' = "closed"
    /\ UNCHANGED <<sem, free, closed, live, pc, ctx, drained>>

-----------------------------------------------------------------------------

WorkerStep(p) ==
    \/ AcquireSlot(p) \/ Take(p) \/ Create(p) \/ CreateFails(p)
    \/ Finish(p) \/ Put(p) \/ Drop(p)

CloserStep == Close \/ Drain \/ CloseFree \/ FreeOne \/ CloseReturns

Next == CloserStep \/ \E p \in Workers : WorkerStep(p)

Spec == Init /\ [][Next]_vars

-----------------------------------------------------------------------------
(* Properties.                                                             *)

\* Every channel, context and program counter keeps its type.
TypeOK ==
    /\ sem \in 0..MaxConcurrent
    /\ free \in SUBSET Contexts
    /\ closed \in BOOLEAN
    /\ live \in SUBSET Contexts
    /\ pc \in [Workers -> {"idle", "take", "create", "use", "put", "drop"}]
    /\ ctx \in [Workers -> Contexts \cup {Nil}]
    /\ drained \in 0..MaxConcurrent
    /\ closer \in {"open", "drain", "range", "closed"}

using == {p \in Workers : pc[p] \in {"use", "put"}}

\* A krb5_context is never used by two goroutines at once, never offered to
\* another one while it is in use, and never used once freed.
ContextsExclusive ==
    /\ \A p \in using : ctx[p] \in live \ free
    /\ \A p, q \in using : ctx[p] = ctx[q] => p = q

\* There are never more contexts than MaxConcurrent, although a worker that
\* found no idle one creates its own while others release theirs.
PoolBounded == Cardinality(live) <= MaxConcurrent

\* release never waits, nor sends on a closed channel: a context always fits
\* into c.free, and its token is there to take.
ReleaseNeverBlocks ==
    /\ \A p \in Workers : pc[p] = "put" => ~closed /\ Cardinality(free) < MaxConcurrent
    /\ \A p \in Workers : pc[p] = "drop" => sem > 0

\* Close waits for the operations in flight, and leaves no context behind.
CloseWaits ==
    /\ closed => \A p \in Workers : pc[p] = "idle"
    /\ closer = "closed" => live = {}

Service == INSTANCE BoundedService
               WITH busy <- using, stopped <- closed

\* The pool implements BoundedService, the operations between acquire and the
\* end of release's first send being the busy ones.
ImplementsService == Service!Spec

=============================================================================
