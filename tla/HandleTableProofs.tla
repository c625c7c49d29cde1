------------------------- MODULE HandleTableProofs -------------------------
(***************************************************************************)
(* The invariants of HandleTable for every number of slots, generations,   *)
(* kinds and values, that a stale handle never comes back to life, and     *)
(* that the table implements ObjectStore.                                  *)
(***************************************************************************)
EXTENDS HandleTable, HandleTableOpsProofs

(***************************************************************************)
(* The inductive invariant.  The free list alone is not inductive (a slot  *)
(* on it must also be one no live handle names), nor is the history (its   *)
(* freshness rests on the free list), so all of them go together.          *)
(***************************************************************************)

IInv ==
  /\ TypeOK
  /\ FreeListExact
  /\ LiveCountExact
  /\ IssuedExact
  /\ RebuiltHandlesWereIssued

\* What the type invariant says of each field of the table.
LEMMA TableFields ==
  ASSUME TypeOK
  PROVE  /\ table.len \in 0 .. MaxSlots
         /\ table.slots \in [SlotIds(table) -> Slot]
         /\ table.free \in Seq(SlotIds(table))
         /\ table.live \in Nat
         /\ table = [len |-> table.len, slots |-> table.slots,
                     free |-> table.free, live |-> table.live]
  BY DEF TypeOK, TableOfLen, SlotIds

\* Slot numbers fit the u32 field, and there are finitely many of them.
LEMMA OccupiedFinite ==
  ASSUME TypeOK
  PROVE  /\ SlotIds(table) \subseteq 0 .. SLOT_SPACE - 1
         /\ IsFiniteSet(SlotIds(table))
         /\ IsFiniteSet(Occupied(table))
<1>1. table.len \in Nat /\ table.len <= SLOT_SPACE
  BY TableFields, MaxSlotsAssumption, SlotSpaceAssumption
<1>2. IsFiniteSet(SlotIds(table))
  BY <1>1, FS_Interval DEF SlotIds
<1>3. Occupied(table) \subseteq SlotIds(table)
  BY DEF Occupied
<1> QED
  BY <1>1, <1>2, <1>3, FS_Subset, SlotSpaceAssumption DEF SlotIds

\* The slot on top of the free list is one that insert may take.
LEMMA TopIsFree ==
  ASSUME IInv, InsertReuses(table)
  PROVE  /\ Len(table.free) \in Nat \ {0}
         /\ Top(table) \in SlotIds(table)
         /\ table.slots[Top(table)].value = None
         /\ table.slots[Top(table)].retired = FALSE
<1>1. table.free \in Seq(SlotIds(table)) /\ table.free # << >>
  BY TableFields DEF IInv, InsertReuses
<1>2. Len(table.free) \in Nat \ {0}
  BY <1>1, EmptySeq, LenProperties
<1>3. Top(table) \in Range(table.free)
  BY <1>1, <1>2, LenProperties DEF Top, Range
<1>4. Top(table) \in SlotIds(table) \ (Occupied(table) \cup Retired(table))
  BY <1>3 DEF IInv, FreeListExact
<1>5. table.slots[Top(table)] \in Slot
  BY <1>4, TableFields DEF IInv
<1> QED
  BY <1>2, <1>4, <1>5 DEF Occupied, Retired, Slot

\* What insert changes in the slot it reuses, and what it keeps.
LEMMA ReusedSlotFields ==
  ASSUME NEW x \in Slot, NEW v \in Value, NEW k \in Kind
  PROVE  /\ ReusedSlot(x, k, v) \in Slot
         /\ ReusedSlot(x, k, v).generation = x.generation
         /\ ReusedSlot(x, k, v).kind = k
         /\ ReusedSlot(x, k, v).value = v
         /\ ReusedSlot(x, k, v).retired = x.retired
  BY DEF Slot, ReusedSlot

\* What freeing does to a slot: bumped or, on its last generation, retired.
LEMMA FreedSlotFields ==
  ASSUME NEW x \in Slot
  PROVE  /\ FreedSlot(x) \in Slot
         /\ FreedSlot(x).value = None
         /\ Exhausted(x) => /\ x.generation = GENERATION_MAX
                            /\ FreedSlot(x).generation = x.generation
                            /\ FreedSlot(x).retired
         /\ ~Exhausted(x) => /\ FreedSlot(x).generation = x.generation + 1
                             /\ FreedSlot(x).retired = x.retired
<1>1. x.generation \in 0 .. GENERATION_MAX
  BY DEF Slot
<1>2. CASE Exhausted(x)
  <2>1. FreedSlot(x) = [x EXCEPT !.value = None, !.retired = TRUE]
    BY <1>2 DEF FreedSlot
  <2>2. x.generation = GENERATION_MAX
    BY <1>1, <1>2, GenerationAssumption DEF Exhausted
  <2> QED
    BY <1>2, <2>1, <2>2 DEF Slot
<1>3. CASE ~Exhausted(x)
  <2>1. FreedSlot(x) = [x EXCEPT !.value = None, !.generation = x.generation + 1]
    BY <1>3 DEF FreedSlot
  <2>2. x.generation + 1 \in 0 .. GENERATION_MAX
    BY <1>1, <1>3, GenerationAssumption DEF Exhausted
  <2> QED
    BY <1>3, <2>1, <2>2 DEF Slot
<1> QED
  BY <1>2, <1>3

(***************************************************************************)
(* Freeing a set S of live slots, the common core of remove, clear and     *)
(* retain: q lists the slots that go back on the free list.                *)
(***************************************************************************)
Freeing(S, q) ==
  /\ S \subseteq Occupied(table)
  /\ q \in Seq(SlotIds(table))
  /\ IsInjective(q)
  /\ Range(q) = Reusable(table, S)
  /\ table' = [len   |-> table.len,
               slots |-> [i \in SlotIds(table) |->
                            IF i \in S THEN FreedSlot(table.slots[i])
                                       ELSE table.slots[i]],
               free  |-> table.free \o q,
               live  |-> table.live - Cardinality(S)]
  /\ UNCHANGED issued

\* Freeing live slots preserves the inductive invariant.
LEMMA FreeingPreserves ==
  ASSUME IInv, NEW S, NEW q, Freeing(S, q)
  PROVE  IInv'
<1>1. /\ table'.len = table.len
      /\ SlotIds(table)' = SlotIds(table)
      /\ table'.slots \in [SlotIds(table) -> Slot]
      /\ S \subseteq Occupied(table)
      /\ S \subseteq SlotIds(table)
      /\ issued' = issued
  BY TableFields, FreedSlotFields DEF SlotIds, IInv, Occupied, Freeing
<1>2. /\ \A i \in S : table'.slots[i] = FreedSlot(table.slots[i])
      /\ \A i \in SlotIds(table) \ S : table'.slots[i] = table.slots[i]
      /\ \A i \in SlotIds(table) : table.slots[i] \in Slot
  BY <1>1, TableFields DEF Freeing, IInv
<1>3. /\ Occupied(table)' = Occupied(table) \ S
      /\ Cardinality(Occupied(table)') = Cardinality(Occupied(table)) - Cardinality(S)
      /\ Cardinality(Occupied(table)') \in Nat
  <2>1. Occupied(table)' = Occupied(table) \ S
    BY <1>1, <1>2, FreedSlotFields DEF Occupied
  <2>2. IsFiniteSet(Occupied(table))
    BY OccupiedFinite DEF IInv
  <2>3. Occupied(table) \cap S = S
    BY <1>1
  <2>4. /\ IsFiniteSet(Occupied(table) \ S)
        /\ Cardinality(Occupied(table) \ S)
              = Cardinality(Occupied(table)) - Cardinality(Occupied(table) \cap S)
    BY <2>2, FS_Difference
  <2>5. Cardinality(Occupied(table) \ S) \in Nat
    BY <2>4, FS_CardinalityType
  <2> QED
    BY <2>1, <2>3, <2>4, <2>5
<1>4. /\ q \in Seq(SlotIds(table))
      /\ table.free \in Seq(SlotIds(table))
      /\ table'.free = table.free \o q
      /\ table'.free \in Seq(SlotIds(table))
  BY TableFields, ConcatProperties DEF IInv, Freeing
<1>5. TypeOK'
  <2>1. table' \in TableOfLen(table.len)
    BY <1>1, <1>3, <1>4, TableFields
    DEF TableOfLen, SlotIds, IInv, LiveCountExact, Freeing
  <2> QED
    BY <2>1, <1>1, TableFields DEF TypeOK, IInv
<1>6. LiveCountExact'
  BY <1>3 DEF LiveCountExact, IInv, Freeing
<1>7. /\ Retired(table)' = Retired(table) \cup (S \ Reusable(table, S))
      /\ Reusable(table, S) \subseteq S
      /\ Retired(table) \cap Occupied(table) = {}
      /\ Retired(table) \subseteq SlotIds(table)
      /\ Occupied(table) \subseteq SlotIds(table)
  <2>1. Retired(table) \cap Occupied(table) = {}
    BY DEF IInv, IssuedExact
  <2>2. ASSUME NEW i \in SlotIds(table)
        PROVE  table'.slots[i].retired
                 <=> table.slots[i].retired \/ i \in S \ Reusable(table, S)
    <3>1. CASE i \notin S
      BY <1>2, <3>1
    <3>2. CASE i \in S /\ Exhausted(table.slots[i])
      BY <1>2, <3>2, FreedSlotFields DEF Reusable
    <3>3. CASE i \in S /\ ~Exhausted(table.slots[i])
      <4>1. table'.slots[i].retired = table.slots[i].retired
        BY <1>2, <3>3, FreedSlotFields
      <4>2. i \in Reusable(table, S)
        BY <3>3 DEF Reusable
      <4> QED
        BY <4>1, <4>2
    <3> QED
      BY <3>1, <3>2, <3>3
  <2> QED
    BY <1>1, <2>1, <2>2 DEF Retired, Reusable, Occupied
<1>8. FreeListExact'
  <2>1. /\ IsInjective(table.free) /\ IsInjective(q)
        /\ Range(table.free) = SlotIds(table) \ (Occupied(table) \cup Retired(table))
        /\ Range(q) = Reusable(table, S)
    BY DEF IInv, FreeListExact, Freeing
  <2>2. Range(table.free) \cap Range(q) = {}
    BY <1>1, <1>7, <2>1
  <2>3. IsInjective(table.free \o q)
    BY <1>4, <2>1, <2>2, ConcatInjective
  <2>4. Range(table.free \o q) = Range(table.free) \cup Range(q)
    BY <1>4, RangeConcatenation
  <2> QED
    BY <1>1, <1>3, <1>4, <1>7, <2>1, <2>3, <2>4 DEF FreeListExact
<1>9. IssuedExact'
  <2>1. ASSUME NEW i \in SlotIds(table), NEW g \in 0 .. GENERATION_MAX
        PROVE  (\/ g < table'.slots[i].generation
                \/ g = table'.slots[i].generation
                     /\ (table'.slots[i].value # None \/ table'.slots[i].retired))
               <=> (\/ g < table.slots[i].generation
                    \/ g = table.slots[i].generation
                         /\ (table.slots[i].value # None \/ table.slots[i].retired))
    <3>1. CASE i \notin S
      BY <1>2, <3>1
    <3>2. CASE i \in S
      <4>1. /\ table.slots[i] \in Slot
            /\ table.slots[i].generation \in 0 .. GENERATION_MAX
            /\ table.slots[i].value # None
            /\ i \notin Retired(table)
            /\ table'.slots[i] = FreedSlot(table.slots[i])
        BY <1>1, <1>2, <1>7, <3>2 DEF Slot, Occupied
      <4>2. CASE Exhausted(table.slots[i])
        BY <4>1, <4>2, FreedSlotFields
      <4>3. CASE ~Exhausted(table.slots[i])
        <5>1. /\ table'.slots[i].value = None
              /\ table'.slots[i].generation = table.slots[i].generation + 1
          BY <4>1, <4>3, FreedSlotFields
        <5>2. ~table'.slots[i].retired
          BY <1>1, <1>7, <3>2, <4>1, <4>3 DEF Retired, Reusable
        <5> QED
          BY <4>1, <5>1, <5>2
      <4> QED
        BY <4>2, <4>3
    <3> QED
      BY <3>1, <3>2
  <2>2. {n \in [slot : SlotIds(table), generation : 0 .. GENERATION_MAX] :
          LET slot == table'.slots[n.slot] IN
          \/ n.generation < slot.generation
          \/ n.generation = slot.generation /\ (slot.value # None \/ slot.retired)}
        = {n \in [slot : SlotIds(table), generation : 0 .. GENERATION_MAX] :
          LET slot == table.slots[n.slot] IN
          \/ n.generation < slot.generation
          \/ n.generation = slot.generation /\ (slot.value # None \/ slot.retired)}
    BY <2>1
  <2>3. Retired(table)' \cap Occupied(table)' = {}
    BY <1>3, <1>7
  <2> QED
    BY <1>1, <2>2, <2>3 DEF IssuedExact, IInv
<1>10. RebuiltHandlesWereIssued'
  <2>1. \A i \in Occupied(table)' : HandleAt(table, i)' = HandleAt(table, i)
    BY <1>1, <1>2, <1>3 DEF HandleAt, Occupied
  <2> QED
    BY <1>1, <1>3, <2>1 DEF IInv, RebuiltHandlesWereIssued
<1> QED
  BY <1>5, <1>6, <1>8, <1>9, <1>10 DEF IInv

\* remove frees the one slot its handle names.
LEMMA RemoveIsFreeing ==
  ASSUME IInv, NEW h \in Handle, RemoveHandle(h)
  PROVE  \E S, q : Freeing(S, q)
<1> DEFINE s == h.slot
           q == IF Exhausted(table.slots[s]) THEN << >> ELSE <<s>>
<1>1. s \in Occupied(table) /\ s \in SlotIds(table)
  BY TableFields DEF RemoveHandle, Resolves, Occupied, SlotIds, IInv, Handle
<1>2. Cardinality({s}) = 1
  BY FS_Singleton
<1>3. /\ q \in Seq(SlotIds(table))
      /\ IsInjective(q)
      /\ Range(q) = Reusable(table, {s})
  <2>1. CASE Exhausted(table.slots[s])
    BY <2>1 DEF IsInjective, Range, Reusable
  <2>2. CASE ~Exhausted(table.slots[s])
    BY <1>1, <2>2 DEF IsInjective, Range, Reusable
  <2> QED
    BY <2>1, <2>2
<1>4. Remove(table, h).free = table.free \o q
  <2>1. table.free \in Seq(SlotIds(table))
    BY TableFields DEF IInv
  <2>2. CASE Exhausted(table.slots[s])
    BY <2>1, <2>2, TableFields, ConcatEmptySeq DEF Remove, IInv
  <2>3. CASE ~Exhausted(table.slots[s])
    BY <1>1, <2>1, <2>3, TableFields, AppendIsConcat DEF Remove, IInv
  <2> QED
    BY <2>2, <2>3
<1>5. Remove(table, h).slots = [i \in SlotIds(table) |->
                                  IF i \in {s} THEN FreedSlot(table.slots[i])
                                               ELSE table.slots[i]]
  BY <1>1, TableFields DEF Remove, IInv
<1>6. Remove(table, h) = [len |-> table.len, slots |-> Remove(table, h).slots,
                          free |-> Remove(table, h).free, live |-> table.live - 1]
  BY TableFields DEF Remove, IInv
<1>7. Freeing({s}, q)
  BY <1>1, <1>2, <1>3, <1>4, <1>5, <1>6 DEF Freeing, RemoveHandle
<1> QED
  BY <1>7

\* The order in which clear and retain push slots lists each exactly once.
LEMMA AscendingOrderFacts ==
  ASSUME TypeOK, NEW S \in SUBSET SlotIds(table),
         NEW q \in AscendingOrders(S)
  PROVE  /\ q \in Seq(SlotIds(table))
         /\ IsInjective(q)
         /\ Range(q) = S
         /\ [k \in DOMAIN q |-> AsU32(q[k])] = q
<1>1. IsFiniteSet(S)
  BY OccupiedFinite, FS_Subset
<1>2. Cardinality(S) \in Nat
  BY <1>1, FS_CardinalityType
<1>3. /\ q \in [1 .. Cardinality(S) -> S]
      /\ IsInjective(q)
      /\ \A x \in S : \E k \in 1 .. Cardinality(S) : q[k] = x
  BY DEF AscendingOrders, Bijection, Injection, Surjection
<1>4. q \in Seq(SlotIds(table))
  BY <1>2, <1>3, IsASeq
<1>5. Range(q) = S
  BY <1>3 DEF Range
<1>6. \A k \in DOMAIN q : AsU32(q[k]) = q[k]
  BY <1>3, OccupiedFinite, CastIsIdentity
<1> QED
  BY <1>3, <1>4, <1>5, <1>6

\* The loop that clear and retain share frees the slots it is given.
LEMMA FreeAllIsFreeing ==
  ASSUME TypeOK, NEW S \in SUBSET Occupied(table),
         NEW q \in AscendingOrders(Reusable(table, S)),
         table' = FreeAll(table, S, q, table.live - Cardinality(S)),
         UNCHANGED issued
  PROVE  Freeing(S, q)
<1>1. Reusable(table, S) \in SUBSET SlotIds(table)
  BY DEF Reusable, Occupied
<1>2. /\ q \in Seq(SlotIds(table)) /\ IsInjective(q) /\ Range(q) = Reusable(table, S)
      /\ [k \in DOMAIN q |-> AsU32(q[k])] = q
  BY <1>1, AscendingOrderFacts
<1> QED
  BY <1>2 DEF FreeAll, Freeing

\* clear frees every live slot; resetting the count to 0 is the same as
\* subtracting because the count is exact.
LEMMA ClearIsFreeing ==
  ASSUME IInv, ClearTable
  PROVE  \E S, q : Freeing(S, q)
<1>1. PICK q \in AscendingOrders(Reusable(table, Occupied(table))) :
        table' = Clear(table, q)
  BY DEF ClearTable
<1>3. table.live - Cardinality(Occupied(table)) = 0
  BY TableFields DEF IInv, LiveCountExact
<1>4. TypeOK
  BY DEF IInv
<1>5. Freeing(Occupied(table), q)
  BY <1>1, <1>3, <1>4, FreeAllIsFreeing DEF Clear, ClearTable
<1> QED
  BY <1>5

\* retain frees the slots its predicate rejects.
LEMMA RetainIsFreeing ==
  ASSUME IInv, NEW rejected, RetainSome(rejected)
  PROVE  \E S, q : Freeing(S, q)
<1>1. PICK q \in AscendingOrders(Reusable(table, rejected)) :
        table' = Retain(table, rejected, q)
  BY DEF RetainSome
<1>2. rejected \in SUBSET Occupied(table)
  BY DEF RetainSome
<1>3. TypeOK
  BY DEF IInv
<1>4. Freeing(rejected, q)
  BY <1>1, <1>2, <1>3, FreeAllIsFreeing DEF Retain, RetainSome
<1> QED
  BY <1>4

\* insert into a free slot: the name is new because the slot was neither
\* live nor retired under its current generation.
LEMMA ReusingInsertPreserves ==
  ASSUME IInv, NEW k \in Kind, NEW v \in Value, InsertValue(k, v), InsertReuses(table)
  PROVE  IInv'
<1> DEFINE s == Top(table)
           h == [kind |-> k, generation |-> table.slots[s].generation, slot |-> s]
<1>1. /\ s \in SlotIds(table)
      /\ table.slots[s] \in Slot
      /\ table.slots[s].value = None
      /\ s \notin Retired(table)
      /\ s \notin Occupied(table)
  BY TopIsFree, TableFields DEF IInv, Retired, Occupied
<1>2. /\ table'.len = table.len
      /\ table'.slots = [table.slots EXCEPT ![s] = ReusedSlot(table.slots[s], k, v)]
      /\ table'.free = SubSeq(table.free, 1, Len(table.free) - 1)
      /\ table'.live = table.live + 1
      /\ table' = [len |-> table'.len, slots |-> table'.slots,
                   free |-> table'.free, live |-> table'.live]
      /\ SlotIds(table)' = SlotIds(table)
  BY DEF InsertValue, Insert, SlotIds
<1>3. /\ \A i \in SlotIds(table) \ {s} : table'.slots[i] = table.slots[i]
      /\ table'.slots[s] \in Slot
      /\ table'.slots[s].generation = table.slots[s].generation
      /\ table'.slots[s].kind = k
      /\ table'.slots[s].value = v
      /\ table'.slots[s].retired = table.slots[s].retired
      /\ table'.slots \in [SlotIds(table) -> Slot]
  BY <1>1, <1>2, ReusedSlotFields, TableFields DEF IInv
<1>4. h \in Handle /\ issued' = issued \cup {h}
  <2>1. InsertHandle(table, k) = h
    BY <1>1, HandleFields DEF InsertHandle, Slot
  <2>2. h \in Handle
    BY <1>1, OccupiedFinite DEF Handle, Slot, IInv
  <2> QED
    BY <2>1, <2>2 DEF InsertValue
<1>5. Occupied(table)' = Occupied(table) \cup {s} /\ Retired(table)' = Retired(table)
  <2>1. v # None
    BY ValueAssumption
  <2>2. Occupied(table)' = Occupied(table) \cup {s}
    BY <1>1, <1>2, <1>3, <2>1 DEF Occupied
  <2>3. Retired(table)' = Retired(table)
    BY <1>1, <1>2, <1>3 DEF Retired
  <2> QED
    BY <2>2, <2>3
<1>6. /\ table'.free \in Seq(SlotIds(table))
      /\ IsInjective(table'.free)
      /\ Range(table'.free) = Range(table.free) \ {s}
  <2>1. /\ table.free \in Seq(SlotIds(table))
        /\ table.free # << >>
        /\ IsInjective(table.free)
    BY TableFields DEF IInv, FreeListExact, InsertReuses
  <2> QED
    BY <1>2, <2>1, PopInjective DEF Top
<1>7. TypeOK'
  <2>1. table'.live \in Nat /\ table.len \in 0 .. MaxSlots
    BY <1>2, TableFields DEF IInv
  <2>2. table' \in TableOfLen(table.len)
    BY <1>2, <1>3, <1>6, <2>1 DEF TableOfLen, SlotIds
  <2> QED
    BY <1>4, <2>1, <2>2 DEF TypeOK, IInv
<1>8. FreeListExact'
  BY <1>2, <1>5, <1>6 DEF FreeListExact, IInv
<1>9. LiveCountExact'
  <2>1. Cardinality(Occupied(table) \cup {s}) = Cardinality(Occupied(table)) + 1
    BY <1>1, OccupiedFinite, FS_AddElement DEF IInv
  <2> QED
    BY <1>2, <1>5, <2>1 DEF LiveCountExact, IInv
<1>10. NameOf(h) \notin {NameOf(g) : g \in issued}
  <2>1. ~table.slots[s].retired
    BY <1>1 DEF Retired
  <2>2. NameOf(h) = [slot |-> s, generation |-> table.slots[s].generation]
    BY DEF NameOf
  <2>3. table.slots[s].generation \in Int
    BY <1>1 DEF Slot
  <2> QED
    BY <1>1, <2>1, <2>2, <2>3 DEF IInv, IssuedExact
<1>11. IssuedExact'
  <2>1. {NameOf(g) : g \in issued'} = {NameOf(g) : g \in issued} \cup {NameOf(h)}
    BY <1>4
  <2>2. ASSUME NEW i \in SlotIds(table), NEW g \in 0 .. GENERATION_MAX
        PROVE  (\/ g < table'.slots[i].generation
                \/ g = table'.slots[i].generation
                     /\ (table'.slots[i].value # None \/ table'.slots[i].retired))
               <=> (\/ \/ g < table.slots[i].generation
                       \/ g = table.slots[i].generation
                            /\ (table.slots[i].value # None \/ table.slots[i].retired)
                    \/ i = s /\ g = table.slots[s].generation)
    <3>1. CASE i # s
      BY <1>3, <3>1
    <3>2. CASE i = s
      BY <1>1, <1>3, <3>2, ValueAssumption
    <3> QED
      BY <3>1, <3>2
  <2>3. {n \in [slot : SlotIds(table), generation : 0 .. GENERATION_MAX] :
          LET slot == table'.slots[n.slot] IN
          \/ n.generation < slot.generation
          \/ n.generation = slot.generation /\ (slot.value # None \/ slot.retired)}
        = {n \in [slot : SlotIds(table), generation : 0 .. GENERATION_MAX] :
          LET slot == table.slots[n.slot] IN
          \/ n.generation < slot.generation
          \/ n.generation = slot.generation /\ (slot.value # None \/ slot.retired)}
          \cup {NameOf(h)}
    <3>1. NameOf(h) = [slot |-> s, generation |-> table.slots[s].generation]
      BY DEF NameOf
    <3>2. NameOf(h) \in [slot : SlotIds(table), generation : 0 .. GENERATION_MAX]
      BY <1>1, <3>1 DEF Slot
    <3>3. \A n \in [slot : SlotIds(table), generation : 0 .. GENERATION_MAX] :
             n = NameOf(h) <=> n.slot = s /\ n.generation = table.slots[s].generation
      BY <3>1
    <3> QED
      BY <2>2, <3>2, <3>3
  <2> QED
    BY <1>1, <1>2, <1>5, <2>1, <2>3 DEF IssuedExact, IInv
<1>12. RebuiltHandlesWereIssued'
  <2>1. \A i \in Occupied(table) : HandleAt(table, i)' = HandleAt(table, i)
    BY <1>1, <1>3 DEF HandleAt, Occupied
  <2>2. HandleAt(table', s) = h
    <3>1. AsU32(s) = s
      BY <1>1, OccupiedFinite, CastIsIdentity DEF IInv
    <3> QED
      BY <1>1, <1>3, <3>1, HandleFields DEF HandleAt, Slot
  <2>3. \A i \in Occupied(table)' : HandleAt(table, i)' \in issued'
    BY <1>4, <1>5, <2>1, <2>2 DEF IInv, RebuiltHandlesWereIssued
  <2>4. \A f, g \in issued' : NameOf(f) = NameOf(g) => f = g
    BY <1>4, <1>10 DEF IInv, RebuiltHandlesWereIssued
  <2> QED
    BY <2>3, <2>4 DEF RebuiltHandlesWereIssued
<1> QED
  BY <1>7, <1>8, <1>9, <1>11, <1>12 DEF IInv

\* insert into an appended slot: the name is new because the slot is.
LEMMA AppendingInsertPreserves ==
  ASSUME IInv, NEW k \in Kind, NEW v \in Value, InsertValue(k, v), ~InsertReuses(table)
  PROVE  IInv'
<1> DEFINE s == table.len
           h == [kind |-> k, generation |-> 0, slot |-> s]
<1>1. /\ s \in Nat /\ s < MaxSlots /\ s + 1 \in 0 .. MaxSlots
      /\ s \in 0 .. SLOT_SPACE - 1
      /\ 0 \in 0 .. GENERATION_MAX
      /\ v # None
  BY TableFields, MaxSlotsAssumption, SlotSpaceAssumption, GenerationAssumption,
     ValueAssumption DEF IInv, InsertValue
<1>2. /\ table'.len = s + 1
      /\ table'.slots = [i \in 0 .. s |-> IF i < s THEN table.slots[i] ELSE FreshSlot(k, v)]
      /\ table'.free = table.free
      /\ table'.live = table.live + 1
      /\ table' = [len |-> table'.len, slots |-> table'.slots,
                   free |-> table'.free, live |-> table'.live]
  BY DEF InsertValue, Insert
<1>3. /\ SlotIds(table) = 0 .. s - 1
      /\ SlotIds(table)' = 0 .. s
      /\ SlotIds(table)' = SlotIds(table) \cup {s}
      /\ s \notin SlotIds(table)
  BY <1>1, <1>2 DEF SlotIds
<1>4. /\ FreshSlot(k, v) \in Slot
      /\ FreshSlot(k, v).generation = 0
      /\ FreshSlot(k, v).kind = k
      /\ FreshSlot(k, v).value = v
      /\ FreshSlot(k, v).retired = FALSE
  BY <1>1 DEF FreshSlot, Slot
<1>5. /\ \A i \in SlotIds(table) : table'.slots[i] = table.slots[i]
      /\ \A i \in SlotIds(table) : table.slots[i] \in Slot
      /\ table'.slots[s] = FreshSlot(k, v)
      /\ table'.slots \in [0 .. s -> Slot]
  BY <1>1, <1>2, <1>3, <1>4, TableFields DEF IInv
<1>6. h \in Handle /\ issued' = issued \cup {h}
  <2>1. InsertHandle(table, k) = h
    BY <1>1, CastIsIdentity, HandleFields DEF InsertHandle
  <2>2. h \in Handle
    BY <1>1 DEF Handle
  <2> QED
    BY <2>1, <2>2 DEF InsertValue
<1>7. /\ Occupied(table)' = Occupied(table) \cup {s}
      /\ Retired(table)' = Retired(table)
      /\ s \notin Occupied(table)
      /\ Retired(table) \subseteq SlotIds(table)
  <2>1. Occupied(table)' = Occupied(table) \cup {s}
    BY <1>1, <1>3, <1>4, <1>5 DEF Occupied
  <2>2. Retired(table)' = Retired(table)
    BY <1>3, <1>4, <1>5 DEF Retired
  <2> QED
    BY <1>3, <2>1, <2>2 DEF Occupied, Retired
<1>8. TypeOK'
  <2>1. table'.free = << >> /\ table'.live \in Nat
    BY <1>2, TableFields DEF IInv, InsertReuses
  <2>2. /\ table'.slots \in [0 .. (s + 1) - 1 -> Slot]
        /\ table'.free \in Seq(0 .. (s + 1) - 1)
    <3>1. (s + 1) - 1 = s
      BY <1>1
    <3>2. << >> \in Seq(0 .. s)
      OBVIOUS
    <3> QED
      BY <1>5, <2>1, <3>1, <3>2
  <2>3. table' \in TableOfLen(s + 1)
    <3> HIDE DEF h
    <3>1. table'.len \in {s + 1}
      BY <1>2
    <3> QED
      BY <1>2, <2>1, <2>2, <3>1 DEF TableOfLen
  <2> QED
    BY <1>1, <1>6, <2>3 DEF TypeOK, IInv
<1>9. FreeListExact'
  BY <1>2, <1>3, <1>7 DEF FreeListExact, IInv
<1>10. LiveCountExact'
  <2>1. Cardinality(Occupied(table) \cup {s}) = Cardinality(Occupied(table)) + 1
    BY <1>7, OccupiedFinite, FS_AddElement DEF IInv
  <2> QED
    BY <1>2, <1>7, <2>1 DEF LiveCountExact, IInv
<1>11. /\ NameOf(h) = [slot |-> s, generation |-> 0]
       /\ NameOf(h) \notin {NameOf(g) : g \in issued}
  BY <1>3 DEF NameOf, IInv, IssuedExact
<1>12. IssuedExact'
  <2>1. {NameOf(g) : g \in issued'} = {NameOf(g) : g \in issued} \cup {NameOf(h)}
    BY <1>6
  <2>2. {n \in [slot : SlotIds(table)', generation : 0 .. GENERATION_MAX] :
          LET slot == table'.slots[n.slot] IN
          \/ n.generation < slot.generation
          \/ n.generation = slot.generation /\ (slot.value # None \/ slot.retired)}
        = {n \in [slot : SlotIds(table), generation : 0 .. GENERATION_MAX] :
          LET slot == table.slots[n.slot] IN
          \/ n.generation < slot.generation
          \/ n.generation = slot.generation /\ (slot.value # None \/ slot.retired)}
          \cup {NameOf(h)}
    <3>1. \A n \in [slot : {s}, generation : 0 .. GENERATION_MAX] :
             n = NameOf(h) <=> ~(n.generation < 0) /\ n.generation = 0
      BY <1>11
    <3>2. NameOf(h) \in [slot : {s}, generation : 0 .. GENERATION_MAX]
      BY <1>1, <1>11
    <3>3. \A n : n \in [slot : SlotIds(table)', generation : 0 .. GENERATION_MAX] <=>
             \/ n \in [slot : SlotIds(table), generation : 0 .. GENERATION_MAX]
             \/ n \in [slot : {s}, generation : 0 .. GENERATION_MAX]
      BY <1>3
    <3>4. \A n \in [slot : SlotIds(table), generation : 0 .. GENERATION_MAX] :
             /\ table'.slots[n.slot] = table.slots[n.slot]
             /\ n # NameOf(h)
      BY <1>3, <1>5, <1>11
    <3>5. \A n \in [slot : {s}, generation : 0 .. GENERATION_MAX] :
             /\ n.generation \in 0 .. GENERATION_MAX
             /\ table'.slots[n.slot].generation = 0
             /\ table'.slots[n.slot].value # None
      BY <1>1, <1>4, <1>5
    <3> QED
      BY <3>1, <3>2, <3>3, <3>4, <3>5, GenerationAssumption
  <2>3. Retired(table)' \cap Occupied(table)' = {}
    BY <1>3, <1>7 DEF IInv, IssuedExact
  <2> QED
    BY <2>1, <2>2, <2>3 DEF IssuedExact, IInv
<1>13. RebuiltHandlesWereIssued'
  <2>1. \A i \in Occupied(table) : HandleAt(table', i) = HandleAt(table, i)
    BY <1>5 DEF HandleAt, Occupied
  <2>2. HandleAt(table', s) = h
    BY <1>1, <1>4, <1>5, CastIsIdentity, HandleFields DEF HandleAt
  <2>3. \A i \in Occupied(table)' : HandleAt(table', i) \in issued'
    BY <1>6, <1>7, <2>1, <2>2 DEF IInv, RebuiltHandlesWereIssued
  <2>4. \A f, g \in issued' : NameOf(f) = NameOf(g) => f = g
    BY <1>6, <1>11 DEF IInv, RebuiltHandlesWereIssued
  <2> QED
    BY <2>3, <2>4 DEF RebuiltHandlesWereIssued
<1> QED
  BY <1>8, <1>9, <1>10, <1>12, <1>13 DEF IInv

\* A write through get_mut changes one value and nothing the table keeps
\* its books on.
LEMMA WritePreserves ==
  ASSUME IInv, NEW h \in Handle, NEW v \in Value, WriteThrough(h, v)
  PROVE  IInv'
<1> DEFINE s == h.slot
<1>1. s \in Occupied(table) /\ s \in SlotIds(table) /\ v # None
  BY TableFields, ValueAssumption
  DEF WriteThrough, Resolves, Occupied, SlotIds, IInv, Handle
<1>2. /\ table'.len = table.len
      /\ table'.slots = [table.slots EXCEPT ![s] = WrittenSlot(table.slots[s], v)]
      /\ table'.free = table.free
      /\ table'.live = table.live
      /\ table' = [len |-> table'.len, slots |-> table'.slots,
                   free |-> table'.free, live |-> table'.live]
      /\ SlotIds(table)' = SlotIds(table)
      /\ issued' = issued
  BY DEF WriteThrough, Set, SlotIds
<1>3. /\ \A i \in SlotIds(table) : table'.slots[i].generation = table.slots[i].generation
      /\ \A i \in SlotIds(table) : table'.slots[i].kind = table.slots[i].kind
      /\ \A i \in SlotIds(table) : table'.slots[i].retired = table.slots[i].retired
      /\ \A i \in SlotIds(table) : table'.slots[i].value # None
                                     <=> table.slots[i].value # None
      /\ table'.slots \in [SlotIds(table) -> Slot]
  <2>1. table.slots[s] \in Slot /\ table.slots[s].value # None
    BY <1>1, TableFields DEF IInv, Occupied
  <2>2. LET x == WrittenSlot(table.slots[s], v)
        IN  /\ x \in Slot
            /\ x.generation = table.slots[s].generation
            /\ x.kind = table.slots[s].kind
            /\ x.value = v
            /\ x.retired = table.slots[s].retired
    BY <2>1 DEF WrittenSlot, Slot
  <2> QED
    BY <1>1, <1>2, <2>1, <2>2, TableFields DEF IInv
<1>4. Occupied(table)' = Occupied(table) /\ Retired(table)' = Retired(table)
  BY <1>2, <1>3 DEF Occupied, Retired
<1>5. TypeOK'
  <2>1. table' \in TableOfLen(table.len)
    BY <1>2, <1>3, TableFields DEF TableOfLen, SlotIds, IInv
  <2> QED
    BY <1>2, <2>1, TableFields DEF TypeOK, IInv
<1>6. FreeListExact' /\ LiveCountExact'
  BY <1>2, <1>4 DEF FreeListExact, LiveCountExact, IInv
<1>7. IssuedExact'
  BY <1>2, <1>3, <1>4 DEF IssuedExact, IInv
<1>8. RebuiltHandlesWereIssued'
  <2>1. \A i \in Occupied(table)' : HandleAt(table', i) = HandleAt(table, i)
    BY <1>3, <1>4 DEF HandleAt, Occupied
  <2> QED
    BY <1>2, <1>4, <2>1 DEF IInv, RebuiltHandlesWereIssued
<1> QED
  BY <1>5, <1>6, <1>7, <1>8 DEF IInv

---------------------------------------------------------------------------
(***************************************************************************)
(* The theorems.                                                           *)
(***************************************************************************)

\* A new table satisfies the inductive invariant.
LEMMA InitEstablishes ==
  Init => IInv
<1> SUFFICES ASSUME Init PROVE IInv
  OBVIOUS
<1>1. /\ table.len = 0 /\ table.free = << >> /\ table.live = 0
      /\ table.slots = [i \in {} |-> None]
      /\ table = [len |-> 0, slots |-> [i \in {} |-> None], free |-> << >>, live |-> 0]
      /\ issued = {}
  BY DEF Init, EmptyTable
<1>2. SlotIds(table) = {} /\ Occupied(table) = {} /\ Retired(table) = {}
  BY <1>1 DEF SlotIds, Occupied, Retired
<1>3. TypeOK
  <2>1. table \in TableOfLen(0) /\ 0 \in 0 .. MaxSlots
    BY <1>1, MaxSlotsAssumption DEF TableOfLen
  <2> QED
    BY <1>1, <2>1 DEF TypeOK
<1>4. FreeListExact
  BY <1>1, <1>2 DEF FreeListExact, IsInjective, Range
<1>5. LiveCountExact
  BY <1>1, <1>2, FS_EmptySet DEF LiveCountExact
<1>6. IssuedExact /\ RebuiltHandlesWereIssued
  BY <1>1, <1>2 DEF IssuedExact, RebuiltHandlesWereIssued
<1> QED
  BY <1>3, <1>4, <1>5, <1>6 DEF IInv

\* Every operation of the table preserves the inductive invariant.
LEMMA NextPreserves ==
  IInv /\ [Next]_vars => IInv'
<1> SUFFICES ASSUME IInv, [Next]_vars PROVE IInv'
  OBVIOUS
<1>1. ASSUME NEW k \in Kind, NEW v \in Value, InsertValue(k, v)
      PROVE  IInv'
  BY <1>1, ReusingInsertPreserves, AppendingInsertPreserves
<1>2. ASSUME NEW k \in Kind, NEW v \in Value, NEW max_live \in 0 .. MaxSlots,
             TryInsertValue(k, v, max_live)
      PROVE  IInv'
  BY <1>1, <1>2 DEF TryInsertValue
<1>3. ASSUME NEW h \in Handle, NEW v \in Value, WriteThrough(h, v)
      PROVE  IInv'
  BY <1>3, WritePreserves
<1>4. ASSUME NEW h \in Handle, RemoveHandle(h)
      PROVE  IInv'
  BY <1>4, RemoveIsFreeing, FreeingPreserves
<1>5. CASE ClearTable
  BY <1>5, ClearIsFreeing, FreeingPreserves
<1>6. ASSUME NEW rejected \in SUBSET SlotIds(table), RetainSome(rejected)
      PROVE  IInv'
  BY <1>6, RetainIsFreeing, FreeingPreserves
<1>7. CASE UNCHANGED vars
  BY <1>7 DEF vars, IInv, TypeOK, FreeListExact, LiveCountExact, IssuedExact,
              RebuiltHandlesWereIssued
<1> QED
  BY <1>1, <1>2, <1>3, <1>4, <1>5, <1>6, <1>7 DEF Next

\* The inductive invariant holds of every table, of any size and with any
\* number of generations.
THEOREM Invariance == Spec => []IInv
  BY InitEstablishes, NextPreserves, PTL DEF Spec

\* The slots the code indexes exist and every field stays in its range.
THEOREM TypeCorrect == Spec => []TypeOK
<1>1. IInv => TypeOK
  BY DEF IInv
<1> QED
  BY <1>1, Invariance, PTL

\* insert can trust the free list: each reusable slot is on it exactly once,
\* a live or a retired slot never.
THEOREM FreeListCorrect == Spec => []FreeListExact
<1>1. IInv => FreeListExact
  BY DEF IInv
<1> QED
  BY <1>1, Invariance, PTL

\* The cached count of live objects is exact after remove, clear and retain.
THEOREM LiveCountCorrect == Spec => []LiveCountExact
<1>1. IInv => LiveCountExact
  BY DEF IInv
<1> QED
  BY <1>1, Invariance, PTL

\* No slot is ever given out twice under one generation.
THEOREM IssuedCorrect == Spec => []IssuedExact
<1>1. IInv => IssuedExact
  BY DEF IInv
<1> QED
  BY <1>1, Invariance, PTL

\* iter and retain rebuild exactly the handles that insert returned.
THEOREM RebuiltCorrect == Spec => []RebuiltHandlesWereIssued
<1>1. IInv => RebuiltHandlesWereIssued
  BY DEF IInv
<1> QED
  BY <1>1, Invariance, PTL

---------------------------------------------------------------------------
\* What no operation ever undoes: a slot that exists goes on existing, its
\* generation never goes back and a retired slot stays retired.
Monotone ==
  \A i \in SlotIds(table) :
    /\ i < table'.len
    /\ table.slots[i].generation <= table'.slots[i].generation
    /\ table.slots[i].retired => table'.slots[i].retired

\* Freeing slots is monotone: a freed slot is bumped or retired.
LEMMA FreeingMonotone ==
  ASSUME IInv, NEW S, NEW q, Freeing(S, q)
  PROVE  Monotone
<1>1. /\ table.len \in Nat
      /\ table'.len = table.len
      /\ \A i \in SlotIds(table) : table.slots[i] \in Slot
      /\ \A i \in SlotIds(table) :
           table'.slots[i] = IF i \in S THEN FreedSlot(table.slots[i]) ELSE table.slots[i]
  BY TableFields DEF IInv, Freeing
<1>2. SUFFICES ASSUME NEW i \in SlotIds(table)
               PROVE  /\ table.slots[i].generation <= table'.slots[i].generation
                      /\ table.slots[i].retired => table'.slots[i].retired
  BY <1>1 DEF Monotone, SlotIds
<1>3. table.slots[i] \in Slot /\ table.slots[i].generation \in Nat
  BY <1>1 DEF Slot
<1>4. CASE i \notin S
  BY <1>1, <1>3, <1>4
<1>5. CASE i \in S
  <2>1. table'.slots[i] = FreedSlot(table.slots[i])
    BY <1>1, <1>5
  <2>2. CASE Exhausted(table.slots[i])
    BY <1>3, <2>1, <2>2, FreedSlotFields
  <2>3. CASE ~Exhausted(table.slots[i])
    <3>1. /\ table'.slots[i].generation = table.slots[i].generation + 1
          /\ table'.slots[i].retired = table.slots[i].retired
      BY <1>3, <2>1, <2>3, FreedSlotFields
    <3>2. table.slots[i].generation <= table'.slots[i].generation
      BY <1>3, <3>1
    <3> QED
      BY <3>1, <3>2
  <2> QED
    BY <2>2, <2>3
<1> QED
  BY <1>4, <1>5

\* insert is monotone: it keeps the generation of the slot it reuses.
LEMMA InsertMonotone ==
  ASSUME IInv, NEW k \in Kind, NEW v \in Value, InsertValue(k, v)
  PROVE  Monotone
<1>1. /\ table.len \in Nat
      /\ \A i \in SlotIds(table) : /\ table.slots[i] \in Slot
                                   /\ table.slots[i].generation \in Nat
      /\ table.slots \in [SlotIds(table) -> Slot]
  BY TableFields DEF IInv, Slot
<1>2. CASE InsertReuses(table)
  <2>1. Top(table) \in SlotIds(table)
    BY <1>2, TopIsFree
  <2>2. /\ table'.len = table.len
        /\ \A i \in SlotIds(table) :
             table'.slots[i] = IF i = Top(table)
                               THEN ReusedSlot(table.slots[i], k, v) ELSE table.slots[i]
    BY <1>1, <1>2, <2>1 DEF InsertValue, Insert
  <2>3. \A i \in SlotIds(table) :
          /\ table'.slots[i].generation = table.slots[i].generation
          /\ table'.slots[i].retired = table.slots[i].retired
    BY <1>1, <2>2, ReusedSlotFields
  <2> QED
    BY <1>1, <2>2, <2>3 DEF Monotone, SlotIds
<1>3. CASE ~InsertReuses(table)
  <2>1. /\ table'.len = table.len + 1
        /\ \A i \in SlotIds(table) : table'.slots[i] = table.slots[i]
    BY <1>1, <1>3 DEF InsertValue, Insert, SlotIds
  <2> QED
    BY <1>1, <2>1 DEF Monotone, SlotIds
<1> QED
  BY <1>2, <1>3

\* Every step is monotone.
LEMMA NextMonotone ==
  ASSUME IInv, [Next]_vars
  PROVE  Monotone
<1>1. ASSUME NEW h \in Handle, NEW v \in Value, WriteThrough(h, v)
      PROVE  Monotone
  <2>1. /\ table.len \in Nat
        /\ table'.len = table.len
        /\ table.slots \in [SlotIds(table) -> Slot]
        /\ \A i \in SlotIds(table) : /\ table.slots[i] \in Slot
                                     /\ table.slots[i].generation \in Nat
        /\ table'.slots = [table.slots EXCEPT ![h.slot] = WrittenSlot(@, v)]
    BY <1>1, TableFields DEF IInv, Slot, WriteThrough, Set
  <2>2. \A x \in Slot : /\ WrittenSlot(x, v).generation = x.generation
                        /\ WrittenSlot(x, v).retired = x.retired
    BY DEF WrittenSlot, Slot
  <2>3. \A i \in SlotIds(table) :
          /\ table'.slots[i].generation = table.slots[i].generation
          /\ table'.slots[i].retired = table.slots[i].retired
    BY <2>1, <2>2
  <2> QED
    BY <2>1, <2>3 DEF Monotone, SlotIds
<1>2. ASSUME NEW h \in Handle, RemoveHandle(h)
      PROVE  Monotone
  BY <1>2, RemoveIsFreeing, FreeingMonotone
<1>3. CASE ClearTable
  BY <1>3, ClearIsFreeing, FreeingMonotone
<1>4. ASSUME NEW rejected \in SUBSET SlotIds(table), RetainSome(rejected)
      PROVE  Monotone
  BY <1>4, RetainIsFreeing, FreeingMonotone
<1>5. CASE UNCHANGED vars
  <2>1. /\ table' = table
        /\ table.len \in Nat
        /\ \A i \in SlotIds(table) : table.slots[i].generation \in Nat
    BY <1>5, TableFields DEF vars, IInv, Slot
  <2> QED
    BY <2>1 DEF Monotone, SlotIds
<1> QED
  BY <1>1, <1>2, <1>3, <1>4, <1>5, InsertMonotone DEF Next, TryInsertValue

\* A handle that was given out and no longer resolves never does again, for
\* any sequence of operations: slots are reused, names are not.
THEOREM StaleHandlesStayStale == Spec => StaleForever
<1>1. ASSUME IInv, IInv', Monotone, NEW h \in issued, ~Resolves(table, h)
      PROVE  ~Resolves(table', h)
  <2>1. /\ h.slot \in SlotIds(table)
        /\ h.generation \in 0 .. GENERATION_MAX
        /\ \/ h.generation < table.slots[h.slot].generation
           \/ /\ h.generation = table.slots[h.slot].generation
              /\ table.slots[h.slot].value # None \/ table.slots[h.slot].retired
    <3>1. NameOf(h) \in {NameOf(g) : g \in issued}
      OBVIOUS
    <3>2. NameOf(h).slot = h.slot /\ NameOf(h).generation = h.generation
      BY DEF NameOf
    <3> QED
      BY <1>1, <3>1, <3>2 DEF IInv, IssuedExact
  <2>2. h.slot < table.len /\ table.slots[h.slot] \in Slot
    BY <1>1, <2>1, TableFields DEF IInv, SlotIds
  <2>3. /\ table'.slots[h.slot].generation \in Nat
        /\ h.slot \in SlotIds(table')
    <3>1. /\ table'.len \in Nat
          /\ table'.slots \in [SlotIds(table') -> Slot]
      BY <1>1, TableFields DEF IInv, TypeOK, TableOfLen, SlotIds
    <3>2. h.slot \in SlotIds(table')
      BY <1>1, <2>1, <3>1 DEF Monotone, SlotIds
    <3> QED
      BY <3>1, <3>2 DEF Slot
  <2>4. CASE h.generation < table.slots[h.slot].generation
    <3>1. table.slots[h.slot].generation <= table'.slots[h.slot].generation
      BY <1>1, <2>1 DEF Monotone
    <3>2. table.slots[h.slot].generation \in Nat
      BY <2>2 DEF Slot
    <3> QED
      BY <2>1, <2>3, <2>4, <3>1, <3>2 DEF Resolves
  <2>5. CASE h.generation = table.slots[h.slot].generation
    <3>1. table.slots[h.slot].retired
      BY <1>1, <2>1, <2>2, <2>5 DEF Resolves
    <3>2. table'.slots[h.slot].retired
      BY <1>1, <2>1, <3>1 DEF Monotone
    <3>3. h.slot \in Retired(table')
      BY <2>3, <3>2 DEF Retired
    <3>4. Retired(table') \cap Occupied(table') = {}
      BY <1>1 DEF IInv, IssuedExact
    <3> QED
      BY <2>3, <3>3, <3>4 DEF Resolves, Occupied
  <2> QED
    BY <2>1, <2>4, <2>5
<1>2. IInv /\ [Next]_vars
        => [\A h \in issued : ~Resolves(table, h) => ~Resolves(table', h)]_vars
  BY <1>1, NextPreserves, NextMonotone
<1> QED
  BY <1>2, Invariance, PTL DEF Spec, StaleForever

---------------------------------------------------------------------------
(***************************************************************************)
(* HandleTable implements ObjectStore: a slot that is reused, retired or   *)
(* freed in bulk never shows through the names of the objects.             *)
(***************************************************************************)

Name == [slot : 0 .. SLOT_SPACE - 1, generation : 0 .. GENERATION_MAX]

Used == {NameOf(h) : h \in issued}

\* The refinement mapping of a table t, by the names that resolve in it.
ObjectsOf(t) == [n \in {m \in Name : Resolves(t, m)} |-> t.slots[n.slot].value]

\* A live slot is reachable under the name of the handle rebuilt for it, and
\* every name that resolves is the one of a live slot.
LEMMA ObjectsByName ==
  ASSUME NEW t, t.len \in 0 .. SLOT_SPACE,
         \A i \in SlotIds(t) : t.slots[i].generation \in 0 .. GENERATION_MAX
  PROVE  [n \in {NameOf(HandleAt(t, i)) : i \in Occupied(t)} |-> t.slots[n.slot].value]
           = ObjectsOf(t)
<1>1. ASSUME NEW i \in Occupied(t)
      PROVE  /\ NameOf(HandleAt(t, i)) = [slot |-> i, generation |-> t.slots[i].generation]
             /\ i \in 0 .. SLOT_SPACE - 1
             /\ t.slots[i].generation \in 0 .. GENERATION_MAX
             /\ t.slots[i].value # None
             /\ i < t.len
  <2>1. /\ i \in SlotIds(t) /\ i \in 0 .. SLOT_SPACE - 1 /\ i < t.len
        /\ t.slots[i].value # None
    BY SlotSpaceAssumption DEF Occupied, SlotIds
  <2>2. t.slots[i].generation \in 0 .. GENERATION_MAX
    BY <2>1
  <2>3. HandleAt(t, i) = [kind |-> t.slots[i].kind,
                          generation |-> t.slots[i].generation, slot |-> i]
    BY <2>1, <2>2, HandleFields, CastIsIdentity DEF HandleAt
  <2> QED
    BY <2>1, <2>2, <2>3 DEF NameOf
<1>2. ASSUME NEW i \in Occupied(t)
      PROVE  NameOf(HandleAt(t, i)) \in {m \in Name : Resolves(t, m)}
  BY <1>1 DEF Name, Resolves
<1>3. ASSUME NEW m \in Name, Resolves(t, m)
      PROVE  m.slot \in Occupied(t) /\ m = NameOf(HandleAt(t, m.slot))
  <2>1. m.slot \in Occupied(t)
    BY <1>3 DEF Name, Resolves, Occupied, SlotIds
  <2>2. m = [slot |-> m.slot, generation |-> m.generation]
    BY DEF Name
  <2> QED
    BY <1>1, <1>3, <2>1, <2>2 DEF Resolves
<1>4. {NameOf(HandleAt(t, i)) : i \in Occupied(t)} = {m \in Name : Resolves(t, m)}
  BY <1>2, <1>3
<1> QED
  BY <1>4 DEF ObjectsOf

\* The mapping of the specification, before and after a step.
LEMMA ObjectsMapped ==
  ASSUME IInv, IInv'
  PROVE  Objects = ObjectsOf(table) /\ Objects' = ObjectsOf(table')
<1>1. /\ table.len \in 0 .. SLOT_SPACE
      /\ \A i \in SlotIds(table) : table.slots[i].generation \in 0 .. GENERATION_MAX
  BY TableFields, MaxSlotsAssumption, SlotSpaceAssumption DEF IInv, Slot
<1>2. /\ table'.len \in 0 .. SLOT_SPACE
      /\ table'.slots \in [SlotIds(table') -> Slot]
  BY MaxSlotsAssumption, SlotSpaceAssumption DEF IInv, TypeOK, TableOfLen, SlotIds
<1>3. \A i \in SlotIds(table') : table'.slots[i].generation \in 0 .. GENERATION_MAX
  BY <1>2 DEF Slot
<1> QED
  BY <1>1, <1>2, <1>3, ObjectsByName DEF Objects

---------------------------------------------------------------------------
\* Freeing live slots destroys exactly the objects of their names.
LEMMA FreeingDestroys ==
  ASSUME IInv, IInv', NEW S, NEW q, Freeing(S, q)
  PROVE  \E D \in SUBSET Name : Abstract!Destroy(D)
<1> DEFINE D == {m \in Name : Resolves(table, m) /\ m.slot \in S}
<1>1. /\ Objects = ObjectsOf(table) /\ Objects' = ObjectsOf(table')
      /\ DOMAIN Objects = {m \in Name : Resolves(table, m)}
      /\ Used' = Used
  BY ObjectsMapped DEF ObjectsOf, Freeing, Used
<1>2. /\ table'.len = table.len
      /\ \A i \in SlotIds(table) :
           table'.slots[i] = IF i \in S THEN FreedSlot(table.slots[i]) ELSE table.slots[i]
      /\ \A i \in SlotIds(table) : table.slots[i] \in Slot
  BY TableFields DEF IInv, Freeing
<1>3. ASSUME NEW m \in Name
      PROVE  /\ Resolves(table', m) <=> Resolves(table, m) /\ m.slot \notin S
             /\ Resolves(table', m) => table'.slots[m.slot].value = table.slots[m.slot].value
  <2>1. CASE m.slot < table.len
    <3>1. m.slot \in SlotIds(table)
      BY <2>1, TableFields DEF Name, SlotIds, IInv
    <3>2. FreedSlot(table.slots[m.slot]).value = None
      BY <1>2, <3>1, FreedSlotFields
    <3> QED
      BY <1>2, <3>1, <3>2 DEF Resolves
  <2>2. CASE ~(m.slot < table.len)
    BY <1>2, <2>2 DEF Resolves
  <2> QED
    BY <2>1, <2>2
<1>4. DOMAIN Objects \ D = {m \in Name : Resolves(table', m)}
  BY <1>1, <1>3
<1>5. Objects' = [n \in DOMAIN Objects \ D |-> Objects[n]]
  <2>1. Objects' = [n \in DOMAIN Objects \ D |-> table'.slots[n.slot].value]
    BY <1>1, <1>4 DEF ObjectsOf
  <2>2. \A n \in DOMAIN Objects \ D : table'.slots[n.slot].value = Objects[n]
    BY <1>1, <1>3, <1>4 DEF ObjectsOf
  <2> QED
    BY <2>1, <2>2
<1>6. D \in SUBSET Name /\ D \subseteq DOMAIN Objects
  BY <1>1
<1>7. Abstract!Destroy(D)
  BY <1>1, <1>5, <1>6 DEF Abstract!Destroy, Used
<1> QED
  BY <1>6, <1>7

\* A write through a handle that resolves changes the object of its name.
LEMMA WriteWrites ==
  ASSUME IInv, IInv', NEW h \in Handle, NEW v \in Value, WriteThrough(h, v)
  PROVE  \E n \in Name : Abstract!Write(n, v)
<1> DEFINE n == NameOf(h)
<1>1. /\ Objects = ObjectsOf(table) /\ Objects' = ObjectsOf(table')
      /\ DOMAIN Objects = {m \in Name : Resolves(table, m)}
      /\ Used' = Used
  BY ObjectsMapped DEF ObjectsOf, WriteThrough, Used
<1>2. /\ n \in Name /\ n.slot = h.slot /\ n.generation = h.generation
      /\ h.slot \in SlotIds(table)
      /\ table.slots[h.slot] \in Slot
      /\ table.slots[h.slot].generation = h.generation
      /\ v # None
  BY TableFields, ValueAssumption
  DEF Handle, NameOf, Name, WriteThrough, Resolves, SlotIds, IInv
<1>3. LET x == WrittenSlot(table.slots[h.slot], v)
      IN  x.generation = h.generation /\ x.value = v
  BY <1>2 DEF WrittenSlot, Slot
<1>4. /\ table'.len = table.len
      /\ table'.slots[h.slot].generation = table.slots[h.slot].generation
      /\ table'.slots[h.slot].value = v
      /\ \A i \in SlotIds(table) \ {h.slot} : table'.slots[i] = table.slots[i]
  BY <1>2, <1>3, TableFields DEF WriteThrough, Set, IInv
<1>5. ASSUME NEW m \in Name
      PROVE  /\ Resolves(table', m) <=> Resolves(table, m)
             /\ Resolves(table, m) /\ m # n => table'.slots[m.slot].value = table.slots[m.slot].value
  <2>1. CASE m.slot < table.len
    <3>1. m.slot \in SlotIds(table)
      BY <2>1, TableFields DEF Name, SlotIds, IInv
    <3>2. m.slot = h.slot /\ m.generation = h.generation => m = n
      BY <1>2 DEF Name
    <3>3. CASE m.slot = h.slot
      BY <1>2, <1>4, <3>1, <3>2, <3>3 DEF Resolves, WriteThrough
    <3>4. CASE m.slot # h.slot
      BY <1>4, <3>1, <3>4 DEF Resolves
    <3> QED
      BY <3>3, <3>4
  <2>2. CASE ~(m.slot < table.len)
    BY <1>4, <2>2 DEF Resolves
  <2> QED
    BY <2>1, <2>2
<1>6. n \in DOMAIN Objects
  BY <1>1, <1>2 DEF Resolves, WriteThrough
<1>7. Objects' = [Objects EXCEPT ![n] = v]
  <2>1. /\ Objects' = [m \in DOMAIN Objects |-> table'.slots[m.slot].value]
        /\ Objects = [m \in DOMAIN Objects |-> table.slots[m.slot].value]
    BY <1>1, <1>5 DEF ObjectsOf
  <2>2. \A m \in DOMAIN Objects :
          table'.slots[m.slot].value = IF m = n THEN v ELSE Objects[m]
    BY <1>1, <1>2, <1>4, <1>5, <2>1
  <2> HIDE DEF n
  <2> QED
    BY <1>6, <2>1, <2>2
<1>8. Abstract!Write(n, v)
  BY <1>1, <1>6, <1>7 DEF Abstract!Write, Used
<1> QED
  BY <1>2, <1>8

---------------------------------------------------------------------------
\* What an insert does to the names: the new object's name is fresh, it
\* resolves to the new value and all others resolve as before.
LEMMA InsertNames ==
  ASSUME IInv, NEW k \in Kind, NEW v \in Value, InsertValue(k, v)
  PROVE  \E n \in Name :
           /\ n \notin Used
           /\ Used' = Used \cup {n}
           /\ table'.slots[n.slot].value = v
           /\ \A m \in Name :
                /\ Resolves(table', m) <=> Resolves(table, m) \/ m = n
                /\ Resolves(table, m) =>
                     table'.slots[m.slot].value = table.slots[m.slot].value
<1>1. CASE InsertReuses(table)
  <2> DEFINE s == Top(table)
             g == table.slots[s].generation
             n == [slot |-> s, generation |-> g]
  <2>1. /\ s \in SlotIds(table) /\ s \in 0 .. SLOT_SPACE - 1 /\ s < table.len
        /\ table.slots[s] \in Slot
        /\ g \in 0 .. GENERATION_MAX
        /\ table.slots[s].value = None
        /\ table.slots[s].retired = FALSE
        /\ v # None
    <3>1. /\ s \in SlotIds(table)
          /\ table.slots[s].value = None
          /\ table.slots[s].retired = FALSE
      BY <1>1, TopIsFree
    <3>2. table.slots[s] \in Slot /\ s \in 0 .. SLOT_SPACE - 1
      BY <3>1, TableFields, OccupiedFinite DEF IInv
    <3>3. s < table.len /\ g \in 0 .. GENERATION_MAX
      BY <3>1, <3>2, TableFields DEF SlotIds, Slot, IInv
    <3> QED
      BY <3>1, <3>2, <3>3, ValueAssumption
  <2>2. /\ n \in Name /\ n.slot = s /\ n.generation = g
        /\ \A m \in Name : m.slot = s /\ m.generation = g => m = n
    BY <2>1 DEF Name
  <2>3. n \notin Used
    BY <2>1, <2>2 DEF IInv, IssuedExact, Used
  <2>4. Used' = Used \cup {n}
    <3>1. InsertHandle(table, k) = [kind |-> k, generation |-> g, slot |-> s]
      BY <1>1, <2>1, HandleFields DEF InsertHandle
    <3>2. NameOf(InsertHandle(table, k)) = n
      BY <3>1 DEF NameOf
    <3> QED
      BY <3>2 DEF InsertValue, Used
  <2>5. /\ table'.len = table.len
        /\ \A i \in SlotIds(table) \ {s} : table'.slots[i] = table.slots[i]
        /\ table'.slots[s].generation = g
        /\ table'.slots[s].value = v
    BY <1>1, <2>1, ReusedSlotFields, TableFields DEF InsertValue, Insert, IInv
  <2>6. ASSUME NEW m \in Name
        PROVE  /\ Resolves(table', m) <=> Resolves(table, m) \/ m = n
               /\ Resolves(table, m) =>
                     table'.slots[m.slot].value = table.slots[m.slot].value
    <3>1. CASE m.slot = s
      BY <2>1, <2>2, <2>5, <3>1 DEF Resolves
    <3>2. CASE m.slot # s /\ m.slot < table.len
      <4>1. m.slot \in SlotIds(table) \ {s}
        BY <3>2, TableFields DEF Name, SlotIds, IInv
      <4> QED
        BY <2>2, <2>5, <3>2, <4>1 DEF Resolves
    <3>3. CASE m.slot # s /\ ~(m.slot < table.len)
      BY <2>2, <2>5, <3>3 DEF Resolves
    <3> QED
      BY <3>1, <3>2, <3>3
  <2> QED
    BY <2>2, <2>3, <2>4, <2>5, <2>6
<1>2. CASE ~InsertReuses(table)
  <2> DEFINE s == table.len
             n == [slot |-> s, generation |-> 0]
  <2>1. /\ s \in Nat /\ s \in 0 .. SLOT_SPACE - 1
        /\ 0 \in 0 .. GENERATION_MAX
        /\ v # None
    BY <1>2, TableFields, MaxSlotsAssumption, SlotSpaceAssumption, GenerationAssumption,
       ValueAssumption DEF IInv, InsertValue
  <2>2. /\ n \in Name /\ n.slot = s /\ n.generation = 0
        /\ \A m \in Name : m.slot = s /\ m.generation = 0 => m = n
    BY <2>1 DEF Name
  <2>3. n \notin Used
    BY <2>1, <2>2 DEF IInv, IssuedExact, Used, SlotIds
  <2>4. Used' = Used \cup {n}
    <3>1. InsertHandle(table, k) = [kind |-> k, generation |-> 0, slot |-> s]
      BY <1>2, <2>1, HandleFields, CastIsIdentity DEF InsertHandle
    <3>2. NameOf(InsertHandle(table, k)) = n
      BY <3>1 DEF NameOf
    <3> QED
      BY <3>2 DEF InsertValue, Used
  <2>5. /\ table'.len = s + 1
        /\ \A i \in 0 .. s - 1 : table'.slots[i] = table.slots[i]
        /\ table'.slots[s].generation = 0
        /\ table'.slots[s].value = v
    BY <1>2, <2>1 DEF InsertValue, Insert, FreshSlot
  <2>6. ASSUME NEW m \in Name
        PROVE  /\ Resolves(table', m) <=> Resolves(table, m) \/ m = n
               /\ Resolves(table, m) =>
                     table'.slots[m.slot].value = table.slots[m.slot].value
    <3>0. m.slot \in Nat
      BY DEF Name
    <3>1. CASE m.slot = s
      BY <2>1, <2>2, <2>5, <3>1 DEF Resolves
    <3>2. CASE m.slot < s
      <4>1. m.slot \in 0 .. s - 1 /\ m # n
        BY <2>1, <2>2, <3>0, <3>2
      <4> QED
        BY <2>1, <2>5, <3>0, <3>2, <4>1 DEF Resolves
    <3>3. CASE m.slot > s
      BY <2>1, <2>2, <2>5, <3>0, <3>3 DEF Resolves
    <3> QED
      BY <2>1, <3>0, <3>1, <3>2, <3>3
  <2> QED
    BY <2>2, <2>3, <2>4, <2>5, <2>6
<1> QED
  BY <1>1, <1>2

\* An insert creates an object under a name never given out before.
LEMMA InsertCreates ==
  ASSUME IInv, IInv', NEW k \in Kind, NEW v \in Value, InsertValue(k, v)
  PROVE  \E n \in Name : Abstract!Create(n, v)
<1>1. PICK n \in Name :
        /\ n \notin Used
        /\ Used' = Used \cup {n}
        /\ table'.slots[n.slot].value = v
        /\ \A m \in Name :
             /\ Resolves(table', m) <=> Resolves(table, m) \/ m = n
             /\ Resolves(table, m) =>
                  table'.slots[m.slot].value = table.slots[m.slot].value
  BY InsertNames
<1>2. /\ Objects = ObjectsOf(table) /\ Objects' = ObjectsOf(table')
      /\ DOMAIN Objects = {m \in Name : Resolves(table, m)}
  BY ObjectsMapped DEF ObjectsOf
<1>3. DOMAIN Objects \cup {n} = {m \in Name : Resolves(table', m)}
  BY <1>1, <1>2
<1>4. Objects' = [m \in DOMAIN Objects \cup {n} |-> IF m = n THEN v ELSE Objects[m]]
  <2>1. Objects' = [m \in DOMAIN Objects \cup {n} |-> table'.slots[m.slot].value]
    BY <1>2, <1>3 DEF ObjectsOf
  <2>2. \A m \in DOMAIN Objects \cup {n} :
          table'.slots[m.slot].value = IF m = n THEN v ELSE Objects[m]
    BY <1>1, <1>2 DEF ObjectsOf
  <2> QED
    BY <2>1, <2>2
<1>5. Abstract!Create(n, v)
  BY <1>1, <1>4 DEF Abstract!Create, Used
<1> QED
  BY <1>5

---------------------------------------------------------------------------
\* Every operation of the table is an operation of the store, or changes
\* nothing of it.
LEMMA StepRefines ==
  ASSUME IInv, IInv', [Next]_vars
  PROVE  [Abstract!Next]_<<Objects, Used>>
<1> USE DEF Abstract!Next
<1>0. ASSUME NEW D \in SUBSET Name, Abstract!Destroy(D)
      PROVE  Abstract!Next
  BY <1>0 DEF Name
<1>1. ASSUME NEW k \in Kind, NEW v \in Value, InsertValue(k, v)
      PROVE  Abstract!Next
  BY <1>1, InsertCreates DEF Name
<1>2. ASSUME NEW k \in Kind, NEW v \in Value, NEW max_live \in 0 .. MaxSlots,
             TryInsertValue(k, v, max_live)
      PROVE  Abstract!Next
  BY <1>1, <1>2 DEF TryInsertValue
<1>3. ASSUME NEW h \in Handle, NEW v \in Value, WriteThrough(h, v)
      PROVE  Abstract!Next
  BY <1>3, WriteWrites DEF Name
<1>4. ASSUME NEW h \in Handle, RemoveHandle(h)
      PROVE  Abstract!Next
  BY <1>0, <1>4, RemoveIsFreeing, FreeingDestroys
<1>5. CASE ClearTable
  BY <1>0, <1>5, ClearIsFreeing, FreeingDestroys
<1>6. ASSUME NEW rejected, RetainSome(rejected)
      PROVE  Abstract!Next
  BY <1>0, <1>6, RetainIsFreeing, FreeingDestroys
<1>7. CASE UNCHANGED vars
  BY <1>7 DEF vars, Objects, Used, Occupied, SlotIds, HandleAt
<1> QED
  BY <1>1, <1>2, <1>3, <1>4, <1>5, <1>6, <1>7 DEF Next

\* The handle table implements the abstract store: an object is created
\* under a name never used before, is reachable under that name and no other
\* until remove, clear or retain destroys it, and the name then stays dead.
THEOREM TableImplementsStore == Spec => ImplementsObjectStore
<1>1. Init => Abstract!Init
  BY DEF Init, EmptyTable, Abstract!Init, Objects, Occupied, SlotIds
<1>2. IInv /\ IInv' /\ [Next]_vars => [Abstract!Next]_<<Objects, Used>>
  BY StepRefines
<1> QED
  BY <1>1, <1>2, Invariance, PTL
  DEF Spec, ImplementsObjectStore, Abstract!Spec, Used
===========================================================================
