------------------------- MODULE ContextPoolProofs --------------------------
(***************************************************************************)
(* Safety of ContextPool, and its refinement of BoundedService, for every  *)
(* number of goroutines, contexts and slots.                               *)
(***************************************************************************)
EXTENDS ContextPool, FiniteSetTheorems, TLAPS

(***************************************************************************)
(* The pool's properties follow from three counts.  c.sem holds one token  *)
(* for each goroutine between its two channel operations on it and one for *)
(* each that Close has put there.  A context that is allocated is idle or  *)
(* in use.  And a goroutine that has found no idle context, and is about   *)
(* to create one, has its place among the MaxConcurrent already: this is   *)
(* why contexts released meanwhile do not make the pool grow.              *)
(***************************************************************************)

holding == {p \in Workers : pc[p] # "idle"}

creating == {p \in Workers : pc[p] = "create"}

TokensCounted == sem = Cardinality(holding) + drained

LiveCounted == Cardinality(live) = Cardinality(free) + Cardinality(using)

PlacesCounted == Cardinality(free) + Cardinality(using) + Cardinality(creating) <= MaxConcurrent

IdleAreLive == free \subseteq live

NoContextLeft == \A p \in Workers \ using : ctx[p] = Nil

CloserInOrder ==
    /\ closed <=> closer \in {"range", "closed"}
    /\ closed => drained = MaxConcurrent
    /\ closer = "closed" => free = {}

PoolInv ==
    /\ TypeOK
    /\ TokensCounted
    /\ LiveCounted
    /\ PlacesCounted
    /\ IdleAreLive
    /\ NoContextLeft
    /\ CloserInOrder
    /\ ContextsExclusive

-----------------------------------------------------------------------------
(* Counting.                                                               *)

\* Every set that is counted is finite, so its cardinality is a number.
LEMMA Counts ==
    ASSUME TypeOK
    PROVE  /\ IsFiniteSet(holding) /\ Cardinality(holding) \in Nat
           /\ IsFiniteSet(using) /\ Cardinality(using) \in Nat
           /\ IsFiniteSet(creating) /\ Cardinality(creating) \in Nat
           /\ IsFiniteSet(free) /\ Cardinality(free) \in Nat
           /\ IsFiniteSet(live) /\ Cardinality(live) \in Nat
<1>1. /\ holding \in SUBSET Workers /\ using \in SUBSET Workers /\ creating \in SUBSET Workers
      /\ free \in SUBSET Contexts /\ live \in SUBSET Contexts
  BY DEF holding, using, creating, TypeOK
<1>2. IsFiniteSet(Workers) /\ IsFiniteSet(Contexts)
  BY PoolAssumption DEF PoolAssumption
<1> QED  BY <1>1, <1>2, FS_Subset, FS_CardinalityType

\* One element more.
LEMMA OneMore ==
    ASSUME NEW S, NEW x, IsFiniteSet(S), x \notin S
    PROVE  Cardinality(S \cup {x}) = Cardinality(S) + 1
BY FS_AddElement

\* One element less.
LEMMA OneLess ==
    ASSUME NEW S, NEW x, IsFiniteSet(S), x \in S
    PROVE  Cardinality(S \ {x}) = Cardinality(S) - 1
BY FS_RemoveElement

\* A set with an element counts at least one.
LEMMA AtLeastOne ==
    ASSUME NEW S, NEW x \in S, IsFiniteSet(S)
    PROVE  Cardinality(S) >= 1
<1>1. Cardinality(S) \in Nat
  BY FS_CardinalityType
<1>2. Cardinality(S) # 0
  BY FS_EmptySet
<1> QED  BY <1>1, <1>2

\* Users and creators of contexts have tokens of their own.
LEMMA HoldersFit ==
    ASSUME TypeOK
    PROVE  /\ using \subseteq holding /\ creating \subseteq holding
           /\ Cardinality(using) + Cardinality(creating) <= Cardinality(holding)
           /\ \A p \in holding \ (using \cup creating) :
                 Cardinality(using) + Cardinality(creating) + 1 <= Cardinality(holding)
<1>1. using \subseteq holding /\ creating \subseteq holding /\ using \cap creating = {}
  BY DEF holding, using, creating
<1>2. /\ IsFiniteSet(using \cup creating)
      /\ Cardinality(using \cup creating) = Cardinality(using) + Cardinality(creating)
  <2>1. Cardinality(using \cap creating) = 0
    BY <1>1, FS_EmptySet
  <2>2. /\ IsFiniteSet(using \cup creating)
        /\ Cardinality(using \cup creating) =
              Cardinality(using) + Cardinality(creating) - Cardinality(using \cap creating)
    BY Counts, FS_Union
  <2> QED  BY <2>1, <2>2, Counts
<1>3. Cardinality(using \cup creating) <= Cardinality(holding)
  BY <1>1, Counts, FS_Subset
<1>4. ASSUME NEW p \in holding \ (using \cup creating)
      PROVE  Cardinality(using) + Cardinality(creating) + 1 <= Cardinality(holding)
  <2>1. (using \cup creating) \cup {p} \in SUBSET holding
    BY <1>1
  <2>2. Cardinality((using \cup creating) \cup {p}) <= Cardinality(holding)
    BY <2>1, Counts, FS_Subset
  <2>3. Cardinality((using \cup creating) \cup {p}) = Cardinality(using \cup creating) + 1
    BY <1>2, OneMore
  <2> QED  BY <1>2, <2>2, <2>3
<1> QED  BY <1>1, <1>2, <1>3, <1>4

\* Once Close has every token, nobody else has one.
LEMMA NobodyLeft ==
    ASSUME PoolInv, drained = MaxConcurrent
    PROVE  holding = {} /\ using = {} /\ creating = {}
<1>1. Cardinality(holding) = 0
  <2>1. /\ sem \in 0..MaxConcurrent /\ sem = Cardinality(holding) + drained
        /\ Cardinality(holding) \in Nat /\ MaxConcurrent \in Nat
    BY Counts, PoolAssumption DEF PoolInv, TypeOK, TokensCounted, PoolAssumption
  <2> QED  BY <2>1
<1>2. holding = {}
  BY <1>1, Counts, FS_EmptySet DEF PoolInv
<1> QED  BY <1>2, HoldersFit DEF PoolInv

-----------------------------------------------------------------------------
(* The invariant.                                                          *)

\* It holds when Open has handed its context to the pool.
LEMMA PoolInit == Init => PoolInv
<1> SUFFICES ASSUME Init PROVE PoolInv
  OBVIOUS
<1>1. PICK k \in Contexts : live = {k}
  BY PoolAssumption DEF PoolAssumption, Init
<1>2. MaxConcurrent \in Nat \ {0}
  BY PoolAssumption DEF PoolAssumption
<1>0. /\ sem = 0 /\ free = live /\ closed = FALSE /\ drained = 0 /\ closer = "open"
      /\ pc = [p \in Workers |-> "idle"] /\ ctx = [p \in Workers |-> Nil]
  BY DEF Init
<1>3. TypeOK
  <2>1. sem \in 0..MaxConcurrent /\ drained \in 0..MaxConcurrent
    BY <1>0, <1>2
  <2>2. /\ free \in SUBSET Contexts /\ live \in SUBSET Contexts
        /\ closer \in {"open", "drain", "range", "closed"}
    BY <1>0, <1>1
  <2>3. closed \in BOOLEAN
    BY <1>0, Zenon
  <2>4. /\ pc \in [Workers -> {"idle", "take", "create", "use", "put", "drop"}]
        /\ ctx \in [Workers -> Contexts \cup {Nil}]
    BY <1>0
  <2> QED  BY <2>1, <2>2, <2>3, <2>4 DEF TypeOK
<1>4. holding = {} /\ using = {} /\ creating = {}
  BY <1>0 DEF holding, using, creating
<1>5. Cardinality(free) = 1 /\ Cardinality(live) = 1
  BY <1>0, <1>1, FS_Singleton
<1>6. TokensCounted /\ LiveCounted /\ PlacesCounted
  BY <1>0, <1>2, <1>4, <1>5, FS_EmptySet DEF TokensCounted, LiveCounted, PlacesCounted
<1>7. IdleAreLive /\ NoContextLeft /\ CloserInOrder /\ ContextsExclusive
  BY <1>0, <1>4 DEF IdleAreLive, NoContextLeft, CloserInOrder, ContextsExclusive
<1> QED  BY <1>3, <1>6, <1>7 DEF PoolInv

\* acquire's send on c.sem.
LEMMA AcquireSlotInv ==
    ASSUME PoolInv, NEW p \in Workers, AcquireSlot(p)
    PROVE  PoolInv'
<1> USE DEF PoolInv
<1>1. /\ pc[p] = "idle" /\ sem < MaxConcurrent /\ sem' = sem + 1
      /\ pc' = [pc EXCEPT ![p] = "take"]
      /\ UNCHANGED <<free, closed, live, ctx, drained, closer>>
  BY DEF AcquireSlot, slotFree
<1>2. MaxConcurrent \in Nat \ {0}
  BY PoolAssumption DEF PoolAssumption
<1>3. TypeOK'
  BY <1>1, <1>2 DEF TypeOK
<1>4. holding' = holding \cup {p} /\ p \notin holding /\ using' = using /\ creating' = creating
  BY <1>1 DEF TypeOK, holding, using, creating
<1>5. TokensCounted'
  <2>1. Cardinality(holding') = Cardinality(holding) + 1
    BY <1>4, OneMore, Counts
  <2>2. sem = Cardinality(holding) + drained /\ sem \in Nat /\ drained \in Nat
    BY <1>2 DEF TokensCounted, TypeOK
  <2> QED  BY <1>1, <2>1, <2>2, Counts DEF TokensCounted
<1>6. LiveCounted' /\ PlacesCounted' /\ IdleAreLive' /\ CloserInOrder'
  BY <1>1, <1>4 DEF LiveCounted, PlacesCounted, IdleAreLive, CloserInOrder
<1>7. NoContextLeft' /\ ContextsExclusive'
  BY <1>1, <1>4 DEF NoContextLeft, ContextsExclusive
<1> QED  BY <1>3, <1>5, <1>6, <1>7

\* acquire's select, which finds an idle context or none.
LEMMA TakeInv ==
    ASSUME PoolInv, NEW p \in Workers, Take(p)
    PROVE  PoolInv'
<1> USE DEF PoolInv
<1>1. pc[p] = "take" /\ UNCHANGED <<sem, closed, live, drained, closer>>
  BY DEF Take
<1>2. p \in holding \ (using \cup creating)
  BY <1>1 DEF holding, using, creating
<1>3. ~closed
  BY <1>2, NobodyLeft DEF CloserInOrder
<1>4. MaxConcurrent \in Nat \ {0}
  BY PoolAssumption DEF PoolAssumption
<1>5. CASE free # {}
  <2>1. PICK k \in free : ctx' = [ctx EXCEPT ![p] = k] /\ free' = free \ {k}
    BY <1>5 DEF Take, receive
  <2>2. pc' = [pc EXCEPT ![p] = "use"]
    BY <1>5 DEF Take
  <2>3. TypeOK'
    BY <1>1, <2>1, <2>2 DEF TypeOK
  <2>4. holding' = holding /\ using' = using \cup {p} /\ creating' = creating /\ p \notin using
    BY <1>1, <2>2 DEF TypeOK, holding, using, creating
  <2>5. /\ Cardinality(using') = Cardinality(using) + 1
        /\ Cardinality(free') = Cardinality(free) - 1
    BY <2>1, <2>4, OneMore, OneLess, Counts
  <2>6. TokensCounted' /\ IdleAreLive' /\ CloserInOrder'
    BY <1>1, <1>3, <2>1, <2>4 DEF TokensCounted, IdleAreLive, CloserInOrder
  <2>7. LiveCounted' /\ PlacesCounted'
    BY <1>1, <2>4, <2>5, Counts DEF LiveCounted, PlacesCounted
  <2>8. NoContextLeft'
    BY <2>1, <2>4 DEF NoContextLeft, TypeOK
  <2>9. ContextsExclusive'
    <3>1. ctx'[p] = k /\ \A q \in using : ctx'[q] = ctx[q]
      BY <2>1, <2>4 DEF TypeOK, using
    <3> QED  BY <1>1, <2>1, <2>4, <3>1 DEF ContextsExclusive, IdleAreLive
  <2> QED  BY <2>3, <2>6, <2>7, <2>8, <2>9
<1>6. CASE free = {}
  <2>1. pc' = [pc EXCEPT ![p] = "create"] /\ UNCHANGED <<free, ctx>>
    BY <1>3, <1>6 DEF Take
  <2>2. TypeOK'
    BY <1>1, <2>1 DEF TypeOK
  <2>3. holding' = holding /\ using' = using /\ creating' = creating \cup {p} /\ p \notin creating
    BY <1>1, <2>1 DEF TypeOK, holding, using, creating
  <2>4. Cardinality(creating') = Cardinality(creating) + 1
    BY <2>3, OneMore, Counts
  <2>5. TokensCounted' /\ LiveCounted' /\ IdleAreLive' /\ CloserInOrder'
    BY <1>1, <2>1, <2>3 DEF TokensCounted, LiveCounted, IdleAreLive, CloserInOrder
  <2>6. PlacesCounted'
    <3>1. Cardinality(free') = 0
      BY <1>6, <2>1, FS_EmptySet
    <3>2. Cardinality(using) + Cardinality(creating) + 1 <= Cardinality(holding)
      BY <1>2, HoldersFit
    <3>3. Cardinality(holding) <= MaxConcurrent
      BY <1>4, Counts DEF TokensCounted, TypeOK
    <3> QED  BY <1>4, <2>3, <2>4, <3>1, <3>2, <3>3, Counts DEF PlacesCounted
  <2>7. NoContextLeft' /\ ContextsExclusive'
    BY <1>1, <2>1, <2>3 DEF NoContextLeft, ContextsExclusive
  <2> QED  BY <2>2, <2>5, <2>6, <2>7
<1> QED  BY <1>5, <1>6

\* newKctx succeeds.
LEMMA CreateInv ==
    ASSUME PoolInv, NEW p \in Workers, Create(p)
    PROVE  PoolInv'
<1> USE DEF PoolInv
<1>1. /\ pc[p] = "create"
      /\ live' = live \cup {fresh}
      /\ ctx' = [ctx EXCEPT ![p] = fresh]
      /\ pc' = [pc EXCEPT ![p] = "use"]
      /\ UNCHANGED <<sem, free, closed, drained, closer>>
  BY DEF Create
<1>2. fresh \in Contexts \ live
  BY DEF Create, fresh
<1>3. TypeOK'
  BY <1>1, <1>2 DEF TypeOK
<1>4. /\ holding' = holding
      /\ using' = using \cup {p} /\ p \notin using
      /\ creating' = creating \ {p} /\ p \in creating
  BY <1>1 DEF TypeOK, holding, using, creating
<1>5. /\ Cardinality(using') = Cardinality(using) + 1
      /\ Cardinality(creating') = Cardinality(creating) - 1
      /\ Cardinality(live') = Cardinality(live) + 1
  BY <1>1, <1>2, <1>4, OneMore, OneLess, Counts
<1>6. TokensCounted' /\ IdleAreLive' /\ CloserInOrder'
  BY <1>1, <1>4 DEF TokensCounted, IdleAreLive, CloserInOrder
<1>7. LiveCounted'
  BY <1>1, <1>5, Counts DEF LiveCounted
<1>8. PlacesCounted'
  <2>1. MaxConcurrent \in Nat
    BY PoolAssumption DEF PoolAssumption
  <2> QED  BY <1>1, <1>5, <2>1, Counts DEF PlacesCounted
<1>9. NoContextLeft'
  BY <1>1, <1>4 DEF NoContextLeft, TypeOK
<1>10. ContextsExclusive'
  <2>1. ctx'[p] = fresh /\ \A q \in using : ctx'[q] = ctx[q]
    BY <1>1, <1>4 DEF TypeOK, using
  <2> QED  BY <1>1, <1>2, <1>4, <2>1 DEF ContextsExclusive, IdleAreLive
<1> QED  BY <1>3, <1>6, <1>7, <1>8, <1>9, <1>10

\* newKctx fails, or release takes its token back: the goroutine has no
\* context any more, and one token less is in c.sem.
LEMMA GiveBackInv ==
    ASSUME PoolInv, NEW p \in Workers, pc[p] \in {"create", "drop"},
           sem' = sem - 1,
           pc' = [pc EXCEPT ![p] = "idle"],
           UNCHANGED <<free, closed, live, ctx, drained, closer>>
    PROVE  PoolInv'
<1> USE DEF PoolInv
<1>1. MaxConcurrent \in Nat
  BY PoolAssumption DEF PoolAssumption
<1>2. /\ holding' = holding \ {p} /\ p \in holding
      /\ using' = using
      /\ creating' = creating \ {p}
  BY DEF TypeOK, holding, using, creating
<1>3. Cardinality(holding') = Cardinality(holding) - 1 /\ Cardinality(holding) >= 1
  BY <1>2, OneLess, AtLeastOne, Counts
<1>4. sem = Cardinality(holding) + drained /\ sem \in 0..MaxConcurrent /\ drained \in 0..MaxConcurrent
  BY DEF TokensCounted, TypeOK
<1>5. sem' \in 0..MaxConcurrent
  BY <1>1, <1>3, <1>4, Counts
<1>6. TypeOK'
  BY <1>5 DEF TypeOK
<1>7. TokensCounted'
  BY <1>3, <1>4, <1>1, Counts DEF TokensCounted
<1>8. Cardinality(creating') <= Cardinality(creating) /\ Cardinality(creating') \in Nat
  BY <1>2, Counts, FS_Subset, FS_CardinalityType
<1>9. LiveCounted' /\ IdleAreLive' /\ CloserInOrder'
  BY <1>2 DEF LiveCounted, IdleAreLive, CloserInOrder
<1>10. PlacesCounted'
  BY <1>1, <1>2, <1>8, Counts DEF PlacesCounted
<1>11. NoContextLeft' /\ ContextsExclusive'
  BY <1>2 DEF NoContextLeft, ContextsExclusive
<1> QED  BY <1>6, <1>7, <1>9, <1>10, <1>11

\* The operation ends.
LEMMA FinishInv ==
    ASSUME PoolInv, NEW p \in Workers, Finish(p)
    PROVE  PoolInv'
<1> USE DEF PoolInv
<1>1. /\ pc[p] = "use" /\ pc' = [pc EXCEPT ![p] = "put"]
      /\ UNCHANGED <<sem, free, closed, live, ctx, drained, closer>>
  BY DEF Finish, releaseNext
<1>2. TypeOK'
  BY <1>1 DEF TypeOK
<1>3. holding' = holding /\ using' = using /\ creating' = creating
  BY <1>1 DEF TypeOK, holding, using, creating
<1> QED
  BY <1>1, <1>2, <1>3 DEF TokensCounted, LiveCounted, PlacesCounted, IdleAreLive, NoContextLeft,
                          CloserInOrder, ContextsExclusive

\* release's send on c.free.
LEMMA PutInv ==
    ASSUME PoolInv, NEW p \in Workers, Put(p)
    PROVE  PoolInv'
<1> USE DEF PoolInv
<1>1. /\ pc[p] = "put" /\ ~closed
      /\ free' = free \cup {ctx[p]}
      /\ ctx' = [ctx EXCEPT ![p] = Nil]
      /\ pc' = [pc EXCEPT ![p] = "drop"]
      /\ UNCHANGED <<sem, closed, live, drained, closer>>
  BY DEF Put, releaseNext
<1>2. p \in using /\ ctx[p] \in live \ free
  BY <1>1 DEF using, ContextsExclusive
<1>3. TypeOK'
  BY <1>1, <1>2 DEF TypeOK
<1>4. holding' = holding /\ using' = using \ {p} /\ creating' = creating
  BY <1>1 DEF TypeOK, holding, using, creating
<1>5. /\ Cardinality(using') = Cardinality(using) - 1
      /\ Cardinality(free') = Cardinality(free) + 1
  BY <1>1, <1>2, <1>4, OneMore, OneLess, Counts
<1>6. TokensCounted' /\ IdleAreLive' /\ CloserInOrder'
  BY <1>1, <1>2, <1>4 DEF TokensCounted, IdleAreLive, CloserInOrder
<1>7. LiveCounted' /\ PlacesCounted'
  BY <1>1, <1>4, <1>5, Counts DEF LiveCounted, PlacesCounted
<1>8. NoContextLeft'
  BY <1>1, <1>4 DEF NoContextLeft, TypeOK
<1>9. ContextsExclusive'
  <2>1. \A q \in using' : q \in using /\ ctx'[q] = ctx[q] /\ ctx[q] # ctx[p]
    BY <1>1, <1>2, <1>4 DEF TypeOK, using, ContextsExclusive
  <2> QED  BY <1>1, <2>1 DEF ContextsExclusive
<1> QED  BY <1>3, <1>6, <1>7, <1>8, <1>9

\* Close's sends on c.sem.
LEMMA DrainInv ==
    ASSUME PoolInv, Drain
    PROVE  PoolInv'
<1> USE DEF PoolInv
<1>1. /\ closer = "drain" /\ drained < MaxConcurrent /\ sem < MaxConcurrent
      /\ sem' = sem + 1 /\ drained' = drained + 1
      /\ UNCHANGED <<free, closed, live, pc, ctx, closer>>
  BY DEF Drain, slotFree, allSlots
<1>2. MaxConcurrent \in Nat
  BY PoolAssumption DEF PoolAssumption
<1>3. TypeOK'
  BY <1>1, <1>2 DEF TypeOK
<1>4. holding' = holding /\ using' = using /\ creating' = creating
  BY <1>1 DEF holding, using, creating
<1>5. TokensCounted'
  BY <1>1, <1>2, <1>4, Counts DEF TokensCounted, TypeOK
<1>6. LiveCounted' /\ PlacesCounted' /\ IdleAreLive' /\ NoContextLeft' /\ ContextsExclusive'
  BY <1>1, <1>4 DEF LiveCounted, PlacesCounted, IdleAreLive, NoContextLeft, ContextsExclusive
<1>7. CloserInOrder'
  BY <1>1 DEF CloserInOrder
<1> QED  BY <1>3, <1>5, <1>6, <1>7

\* Close frees one of the contexts in c.free.
LEMMA FreeOneInv ==
    ASSUME PoolInv, FreeOne
    PROVE  PoolInv'
<1> USE DEF PoolInv
<1>1. closer = "range" /\ UNCHANGED <<sem, closed, pc, ctx, drained, closer>>
  BY DEF FreeOne
<1>2. PICK k \in free : free' = free \ {k} /\ live' = live \ {k}
  BY DEF FreeOne, receive
<1>3. using = {}
  BY <1>1, NobodyLeft DEF CloserInOrder
<1>4. TypeOK'
  BY <1>1, <1>2 DEF TypeOK
<1>5. holding' = holding /\ using' = using /\ creating' = creating
  BY <1>1 DEF holding, using, creating
<1>6. /\ Cardinality(free') = Cardinality(free) - 1
      /\ Cardinality(live') = Cardinality(live) - 1
  BY <1>2, OneLess, Counts DEF IdleAreLive
<1>7. TokensCounted' /\ IdleAreLive' /\ NoContextLeft' /\ CloserInOrder'
  BY <1>1, <1>2, <1>5 DEF TokensCounted, IdleAreLive, NoContextLeft, CloserInOrder
<1>8. LiveCounted'
  BY <1>5, <1>6, Counts DEF LiveCounted
<1>9. PlacesCounted'
  <2>1. MaxConcurrent \in Nat
    BY PoolAssumption DEF PoolAssumption
  <2> QED  BY <1>5, <1>6, <2>1, Counts DEF PlacesCounted
<1>10. ContextsExclusive'
  BY <1>3, <1>5 DEF ContextsExclusive
<1> QED  BY <1>4, <1>7, <1>8, <1>9, <1>10

\* Close moves on: its call, the closing of c.free, its return.
LEMMA CloserMovesInv ==
    ASSUME PoolInv, Close \/ CloseFree \/ CloseReturns
    PROVE  PoolInv'
<1> USE DEF PoolInv
<1>1. UNCHANGED <<sem, free, live, pc, ctx, drained>>
  BY DEF Close, CloseFree, CloseReturns
<1>2. holding' = holding /\ using' = using /\ creating' = creating
  BY <1>1 DEF holding, using, creating
<1>3. TypeOK' /\ CloserInOrder'
  <2>1. CASE Close
    BY <1>1, <2>1 DEF TypeOK, CloserInOrder, Close
  <2>2. CASE CloseFree
    <3>1. drained = MaxConcurrent /\ closed' = TRUE /\ closer' = "range"
      BY <2>2 DEF CloseFree, allSlots
    <3>2. closed' \in BOOLEAN
      BY <3>1, Zenon
    <3> QED  BY <1>1, <3>1, <3>2 DEF TypeOK, CloserInOrder
  <2>3. CASE CloseReturns
    BY <1>1, <2>3 DEF TypeOK, CloserInOrder, CloseReturns
  <2> QED  BY <2>1, <2>2, <2>3
<1> QED
  BY <1>1, <1>2, <1>3 DEF TokensCounted, LiveCounted, PlacesCounted, IdleAreLive, NoContextLeft,
                          ContextsExclusive

\* Every step preserves the invariant.
LEMMA PoolNext ==
    ASSUME PoolInv, [Next]_vars
    PROVE  PoolInv'
<1>1. ASSUME NEW p \in Workers, CreateFails(p) \/ Drop(p) PROVE PoolInv'
  <2>1. /\ pc[p] \in {"create", "drop"}
        /\ sem' = sem - 1
        /\ pc' = [pc EXCEPT ![p] = "idle"]
        /\ UNCHANGED <<free, closed, live, ctx, drained, closer>>
    BY <1>1 DEF CreateFails, Drop, releaseNext
  <2> QED  BY <2>1, GiveBackInv
<1>2. ASSUME NEW p \in Workers, WorkerStep(p) PROVE PoolInv'
  BY <1>1, <1>2, AcquireSlotInv, TakeInv, CreateInv, FinishInv, PutInv DEF WorkerStep
<1>3. CASE CloserStep
  BY <1>3, DrainInv, FreeOneInv, CloserMovesInv DEF CloserStep
<1>4. CASE UNCHANGED vars
  <2>1. holding' = holding /\ using' = using /\ creating' = creating
    BY <1>4 DEF vars, holding, using, creating
  <2> QED
    BY <1>4, <2>1 DEF vars, PoolInv, TypeOK, TokensCounted, LiveCounted, PlacesCounted,
                      IdleAreLive, NoContextLeft, CloserInOrder, ContextsExclusive
<1> QED  BY <1>2, <1>3, <1>4 DEF Next

\* And so it always holds.
LEMMA PoolAlways == Spec => []PoolInv
BY PoolInit, PoolNext, PTL DEF Spec

-----------------------------------------------------------------------------
(* What it gives.                                                          *)

(***************************************************************************)
(* Every channel, context and program counter keeps its type.              *)
(***************************************************************************)
THEOREM PoolTypes == Spec => []TypeOK
BY PoolAlways, PTL DEF PoolInv

(***************************************************************************)
(* However many goroutines call acquire and release, no krb5_context is    *)
(* used by two of them at once, offered while in use, or used once freed.  *)
(***************************************************************************)
THEOREM ExclusionSafety == Spec => []ContextsExclusive
BY PoolAlways, PTL DEF PoolInv

\* Every context is idle or in use, and has a place among MaxConcurrent.
LEMMA InvBounds == PoolInv => PoolBounded
<1> SUFFICES ASSUME PoolInv PROVE Cardinality(live) <= MaxConcurrent
  BY DEF PoolBounded
<1>1. MaxConcurrent \in Nat
  BY PoolAssumption DEF PoolAssumption
<1> QED  BY <1>1, Counts DEF PoolInv, LiveCounted, PlacesCounted

(***************************************************************************)
(* acquire creates a context only if fewer than MaxConcurrent exist, also  *)
(* when others are released between its look into c.free and the creation. *)
(***************************************************************************)
THEOREM BoundSafety == Spec => []PoolBounded
BY PoolAlways, InvBounds, PTL

\* The context being put back is not yet counted in c.free, and the token
\* being taken back is still in c.sem.
LEMMA InvReleases == PoolInv => ReleaseNeverBlocks
<1> SUFFICES ASSUME PoolInv PROVE ReleaseNeverBlocks
  OBVIOUS
<1>0. MaxConcurrent \in Nat
  BY PoolAssumption DEF PoolAssumption
<1>1. ASSUME NEW p \in Workers, pc[p] = "put"
      PROVE  ~closed /\ Cardinality(free) < MaxConcurrent
  <2>1. p \in using /\ p \in holding
    BY <1>1 DEF using, holding
  <2>2. ~closed
    BY <2>1, NobodyLeft DEF PoolInv, CloserInOrder
  <2>3. Cardinality(using) >= 1
    BY <2>1, AtLeastOne, Counts DEF PoolInv
  <2> QED  BY <1>0, <2>2, <2>3, Counts DEF PoolInv, PlacesCounted
<1>2. ASSUME NEW p \in Workers, pc[p] = "drop" PROVE sem > 0
  <2>1. p \in holding
    BY <1>2 DEF holding
  <2>2. Cardinality(holding) >= 1
    BY <2>1, AtLeastOne, Counts DEF PoolInv
  <2> QED  BY <1>0, <2>2, Counts DEF PoolInv, TokensCounted, TypeOK
<1> QED  BY <1>1, <1>2 DEF ReleaseNeverBlocks

(***************************************************************************)
(* release never waits and never sends on a closed channel: neither the    *)
(* capacity of c.free nor a Close in progress can hold it up.              *)
(***************************************************************************)
THEOREM ReleaseSafety == Spec => []ReleaseNeverBlocks
BY PoolAlways, InvReleases, PTL

\* Close has every token when it closes c.free.
LEMMA InvCloses == PoolInv => CloseWaits
<1> SUFFICES ASSUME PoolInv PROVE CloseWaits
  OBVIOUS
<1>1. closed => holding = {} /\ using = {}
  BY NobodyLeft DEF PoolInv, CloserInOrder
<1>2. closed => \A p \in Workers : pc[p] = "idle"
  BY <1>1 DEF holding
<1>3. closer = "closed" => live = {}
  <2> SUFFICES ASSUME closer = "closed" PROVE live = {}
    OBVIOUS
  <2>1. closed /\ free = {}
    BY DEF PoolInv, CloserInOrder
  <2>2. Cardinality(live) = 0
    BY <1>1, <2>1, FS_EmptySet DEF PoolInv, LiveCounted
  <2> QED  BY <2>2, Counts, FS_EmptySet DEF PoolInv
<1> QED  BY <1>2, <1>3 DEF CloseWaits

(***************************************************************************)
(* Close waits until no goroutine is between acquire and the end of        *)
(* release, and has freed every context when it returns.                   *)
(***************************************************************************)
THEOREM CloseSafety == Spec => []CloseWaits
BY PoolAlways, InvCloses, PTL

-----------------------------------------------------------------------------
(* The refinement.                                                         *)

\* A goroutine that gets a context enters, one that has put it back leaves,
\* the closing of c.free stops the service, and every other step is a stutter.
LEMMA ServiceStep ==
    ASSUME PoolInv, [Next]_vars
    PROVE  [Service!Next]_<<using, closed>>
<1> USE DEF PoolInv, TypeOK
<1>0. MaxConcurrent \in Nat
  BY PoolAssumption DEF PoolAssumption
<1>1. ASSUME NEW p \in Workers, using' = using \cup {p}, UNCHANGED closed,
             p \in holding \ using
      PROVE  Service!Enter(p)
  <2>1. ~closed
    BY <1>1, NobodyLeft DEF CloserInOrder
  <2>2. Cardinality(using) < Cardinality(holding)
    <3>1. Cardinality(using \cup {p}) = Cardinality(using) + 1
      BY <1>1, OneMore, Counts
    <3>2. using \cup {p} \in SUBSET holding
      BY <1>1, HoldersFit
    <3>3. Cardinality(using \cup {p}) <= Cardinality(holding)
      BY <3>2, Counts, FS_Subset
    <3> QED  BY <3>1, <3>3, Counts
  <2>3. Cardinality(using) < MaxConcurrent
    BY <1>0, <2>2, Counts DEF TokensCounted
  <2>4. closed' = closed /\ p \notin using /\ using' = using \cup {p}
    BY <1>1
  <2>5. Service!Cardinality(using) = Cardinality(using)
    BY Zenon DEF Service!Cardinality, Cardinality
  <2> QED  BY <2>1, <2>3, <2>4, <2>5 DEF Service!Enter
<1>2. ASSUME NEW p \in Workers, Take(p) \/ Create(p)
      PROVE  Service!Enter(p) \/ UNCHANGED <<using, closed>>
  <2>1. p \in holding \ using /\ UNCHANGED closed
    BY <1>2 DEF Take, Create, holding, using
  <2>2. ~closed
    BY <2>1, NobodyLeft DEF CloserInOrder
  <2>3. pc' = [pc EXCEPT ![p] = "use"] \/ pc' = [pc EXCEPT ![p] = "create"]
    BY <1>2, <2>2 DEF Take, Create
  <2>4. CASE pc' = [pc EXCEPT ![p] = "use"]
    <3>1. using' = using \cup {p}
      BY <2>4 DEF using
    <3> QED  BY <1>1, <2>1, <3>1
  <2>5. CASE pc' = [pc EXCEPT ![p] = "create"]
    <3>1. using' = using
      BY <2>1, <2>5 DEF using, holding
    <3> QED  BY <2>1, <3>1
  <2> QED  BY <2>3, <2>4, <2>5
<1>3. ASSUME NEW p \in Workers, Put(p) PROVE Service!Leave(p)
  <2>1. pc[p] = "put" /\ pc' = [pc EXCEPT ![p] = "drop"] /\ UNCHANGED closed
    BY <1>3 DEF Put, releaseNext
  <2>2. p \in using /\ using' = using \ {p}
    BY <2>1 DEF using
  <2> QED  BY <2>1, <2>2 DEF Service!Leave
<1>4. ASSUME NEW p \in Workers, AcquireSlot(p) \/ CreateFails(p) \/ Finish(p) \/ Drop(p)
      PROVE  UNCHANGED <<using, closed>>
  <2>1. /\ UNCHANGED closed
        /\ \/ pc[p] = "use" /\ pc' = [pc EXCEPT ![p] = "put"]
           \/ pc[p] \in {"idle", "create", "drop"}
              /\ (pc' = [pc EXCEPT ![p] = "take"] \/ pc' = [pc EXCEPT ![p] = "idle"])
    BY <1>4 DEF AcquireSlot, CreateFails, Finish, Drop, releaseNext
  <2> QED  BY <2>1 DEF using
<1>5. CASE CloseFree
  <2>1. drained = MaxConcurrent /\ closed' = TRUE /\ using' = using
    BY <1>5 DEF CloseFree, allSlots, using
  <2>2. using = {}
    BY <2>1, NobodyLeft
  <2> QED  BY <2>1, <2>2 DEF Service!Next, Service!Stop
<1>6. CASE Close \/ Drain \/ FreeOne \/ CloseReturns
  BY <1>6 DEF Close, Drain, FreeOne, CloseReturns, using
<1>7. CASE UNCHANGED vars
  BY <1>7 DEF vars, using
<1> QED  BY <1>2, <1>3, <1>4, <1>5, <1>6, <1>7 DEF Next, WorkerStep, CloserStep, Service!Next

(***************************************************************************)
(* The pool implements BoundedService: at most MaxConcurrent operations at *)
(* a time, closed only while none runs, and none begins afterwards.        *)
(***************************************************************************)
THEOREM PoolImplementsService == Spec => ImplementsService
<1>1. Init => Service!Init
  BY DEF Init, Service!Init, using
<1>2. PoolInv /\ [Next]_vars => [Service!Next]_<<using, closed>>
  BY ServiceStep
<1> QED  BY <1>1, <1>2, PoolAlways, PTL DEF Spec, ImplementsService, Service!Spec

=============================================================================
