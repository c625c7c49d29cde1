-------------------------- MODULE HandleTableOps --------------------------
(***************************************************************************)
(* The generational handle table of crates/graftx-handles as pure          *)
(* operators on a table value, so that a backend can own several tables.   *)
(*                                                                         *)
(* A table is a record: `len` and `slots` are the Vec<Slot<T>> (slots is   *)
(* indexed 0 .. len-1 as in the code), `free` is the Vec<u32> used as a    *)
(* stack (its last element is the top) and `live` is the cached count.     *)
(* An Option<T> that is None is the value None.                            *)
(***************************************************************************)
EXTENDS Integers, Sequences, FiniteSets, Functions

CONSTANTS
  GENERATION_MAX, \* Handle::GENERATION_MAX, 2^24 - 1 in the code
  SLOT_SPACE,     \* number of values of the u32 slot field, 2^32 in the code
  None            \* Option::None

ASSUME GenerationAssumption == GENERATION_MAX \in Nat
ASSUME SlotSpaceAssumption == SLOT_SPACE \in Nat \ {0}

(***************************************************************************)
(* Handles.                                                                *)
(***************************************************************************)

\* The `as u32` casts of a slot index.
AsU32(n) == n % SLOT_SPACE

\* Handle::new masks the generation to the width of its field.
NewHandle(kind, generation, slot) ==
  [kind       |-> kind,
   generation |-> generation % (GENERATION_MAX + 1),
   slot       |-> slot]

\* Resolution never looks at the kind byte: what identifies an object within
\* its table is the pair of slot and generation.
NameOf(h) == [slot |-> h.slot, generation |-> h.generation]

---------------------------------------------------------------------------
(***************************************************************************)
(* Tables.                                                                 *)
(***************************************************************************)

EmptyTable ==
  [len |-> 0, slots |-> [i \in {} |-> None], free |-> << >>, live |-> 0]

SlotIds(t) == 0 .. (t.len - 1)

Occupied(t) == {i \in SlotIds(t) : t.slots[i].value # None}

Retired(t) == {i \in SlotIds(t) : t.slots[i].retired}

\* The handle that iter, iter_kind and retain rebuild for a live slot.
HandleAt(t, i) == NewHandle(t.slots[i].kind, t.slots[i].generation, AsU32(i))

\* A mutant: the generation of the handle is not compared.
ResolvesAnyGeneration(t, h) ==
  /\ h.slot < t.len
  /\ t.slots[h.slot].value # None

\* get, get_mut, is_live and contains: range, then generation, then occupancy.
Resolves(t, h) ==
  /\ h.slot < t.len
  /\ t.slots[h.slot].generation = h.generation
  /\ t.slots[h.slot].value # None

Get(t, h) == t.slots[h.slot].value

\* A write through get_mut.
WrittenSlot(slot, v) == [slot EXCEPT !.value = v]

Set(t, h, v) ==
  [len   |-> t.len,
   slots |-> [t.slots EXCEPT ![h.slot] = WrittenSlot(@, v)],
   free  |-> t.free,
   live  |-> t.live]

---------------------------------------------------------------------------
\* insert: the top of the free list is reused under its current generation,
\* otherwise a slot of generation 0 is appended.
Top(t) == t.free[Len(t.free)]

InsertReuses(t) == t.free # << >>

InsertHandle(t, kind) ==
  IF InsertReuses(t)
  THEN NewHandle(kind, t.slots[Top(t)].generation, Top(t))
  ELSE NewHandle(kind, 0, AsU32(t.len))

FreshSlot(kind, v) ==
  [generation |-> 0, kind |-> kind, value |-> v, retired |-> FALSE]

\* A mutant: the kind of the previous object is kept.
ReusedSlotOldKind(slot, kind, v) == [slot EXCEPT !.value = v]

ReusedSlot(slot, kind, v) == [slot EXCEPT !.value = v, !.kind = kind]

Insert(t, kind, v) ==
  IF InsertReuses(t)
  THEN [len   |-> t.len,
        slots |-> [t.slots EXCEPT ![Top(t)] = ReusedSlot(@, kind, v)],
        free  |-> SubSeq(t.free, 1, Len(t.free) - 1),
        live  |-> t.live + 1]
  ELSE [len   |-> t.len + 1,
        slots |-> [i \in 0 .. t.len |->
                     IF i < t.len THEN t.slots[i] ELSE FreshSlot(kind, v)],
        free  |-> t.free,
        live  |-> t.live + 1]

---------------------------------------------------------------------------
\* A mutant: the last generation is missed by one.
ExhaustedTooLate(slot) == slot.generation > GENERATION_MAX

\* How remove, clear and retain free one slot: a slot whose generation is
\* exhausted is retired, any other is bumped and becomes reusable.
Exhausted(slot) == slot.generation >= GENERATION_MAX

\* A mutant: a freed slot keeps its generation.
FreedSlotNoBump(slot) == [slot EXCEPT !.value = None]

FreedSlot(slot) ==
  IF Exhausted(slot)
  THEN [slot EXCEPT !.value = None, !.retired = TRUE]
  ELSE [slot EXCEPT !.value = None, !.generation = @ + 1]

\* A mutant: a retired slot is pushed on the free list too.
RemoveReusesRetired(t, h) ==
  [len   |-> t.len,
   slots |-> [t.slots EXCEPT ![h.slot] = FreedSlot(@)],
   free  |-> Append(t.free, h.slot),
   live  |-> t.live - 1]

Remove(t, h) ==
  [len   |-> t.len,
   slots |-> [t.slots EXCEPT ![h.slot] = FreedSlot(@)],
   free  |-> IF Exhausted(t.slots[h.slot]) THEN t.free ELSE Append(t.free, h.slot),
   live  |-> t.live - 1]

\* clear and retain free the slots of S in index order; q is the order in
\* which the reusable ones among them are pushed on the free list.
Reusable(t, S) == {i \in S : ~Exhausted(t.slots[i])}

AscendingOrders(S) ==
  {q \in Bijection(1 .. Cardinality(S), S) :
     \A i, j \in 1 .. Cardinality(S) : i < j => q[i] < q[j]}

\* A mutant: the bulk operations drop values without ending their handles.
FreeAllNoBump(t, S, q, live) ==
  [len   |-> t.len,
   slots |-> [i \in SlotIds(t) |->
                IF i \in S THEN FreedSlotNoBump(t.slots[i]) ELSE t.slots[i]],
   free  |-> t.free \o [k \in DOMAIN q |-> AsU32(q[k])],
   live  |-> live]

FreeAll(t, S, q, live) ==
  [len   |-> t.len,
   slots |-> [i \in SlotIds(t) |->
                IF i \in S THEN FreedSlot(t.slots[i]) ELSE t.slots[i]],
   free  |-> t.free \o [k \in DOMAIN q |-> AsU32(q[k])],
   live  |-> live]

\* A mutant: retain forgets to lower the count.
RetainKeepsCount(t, rejected, q) == FreeAll(t, rejected, q, t.live)

\* clear resets the count, retain subtracts what it removed.
Clear(t, q) == FreeAll(t, Occupied(t), q, 0)

Retain(t, rejected, q) ==
  FreeAll(t, rejected, q, t.live - Cardinality(rejected))
===========================================================================
