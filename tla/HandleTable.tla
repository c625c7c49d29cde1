---------------------------- MODULE HandleTable ----------------------------
(***************************************************************************)
(* One HandleTable<T> and everything its owner can do with it.  A table is *)
(* reached through &mut only, so every call is one atomic step.  Calls     *)
(* that return without changing the table (get, a remove of a stale handle *)
(* or a try_insert at the quota) are stuttering steps.                     *)
(***************************************************************************)
EXTENDS HandleTableOps

CONSTANTS
  Kind,     \* kind bytes the owner tags its inserts with
  Value,    \* the values of type T
  MaxSlots  \* bound: the table never allocates more slots than this

ASSUME ValueAssumption == None \notin Value
\* The code numbers slots with a u32; MaxSlots = SLOT_SPACE is the last table
\* whose indices the cast does not fold onto one another.
ASSUME MaxSlotsAssumption == MaxSlots \in Nat /\ MaxSlots <= SLOT_SPACE

VARIABLES
  table,  \* the HandleTable
  issued  \* history: every handle that insert has returned

vars == <<table, issued>>

\* Any handle a caller may present, forged and stale ones included.
Handle ==
  [kind : Kind, generation : 0 .. GENERATION_MAX, slot : 0 .. SLOT_SPACE - 1]

Slot ==
  [generation : 0 .. GENERATION_MAX, kind : Kind,
   value : Value \cup {None}, retired : BOOLEAN]

TableOfLen(n) ==
  [len : {n}, slots : [0 .. n - 1 -> Slot], free : Seq(0 .. n - 1), live : Nat]

---------------------------------------------------------------------------
Init ==
  /\ table = EmptyTable
  /\ issued = {}

InsertValue(k, v) ==
  /\ InsertReuses(table) \/ table.len < MaxSlots
  /\ table' = Insert(table, k, v)
  /\ issued' = issued \cup {InsertHandle(table, k)}

TryInsertValue(k, v, max_live) ==
  /\ table.live < max_live
  /\ InsertValue(k, v)

WriteThrough(h, v) ==
  /\ Resolves(table, h)
  /\ table' = Set(table, h, v)
  /\ UNCHANGED issued

RemoveHandle(h) ==
  /\ Resolves(table, h)
  /\ table' = Remove(table, h)
  /\ UNCHANGED issued

ClearTable ==
  /\ \E q \in AscendingOrders(Reusable(table, Occupied(table))) :
       table' = Clear(table, q)
  /\ UNCHANGED issued

\* `rejected` are the live slots for which the caller's predicate is false.
RetainSome(rejected) ==
  /\ rejected \subseteq Occupied(table)
  /\ \E q \in AscendingOrders(Reusable(table, rejected)) :
       table' = Retain(table, rejected, q)
  /\ UNCHANGED issued

Next ==
  \/ \E k \in Kind, v \in Value : InsertValue(k, v)
  \/ \E k \in Kind, v \in Value, max_live \in 0 .. MaxSlots :
       TryInsertValue(k, v, max_live)
  \/ \E h \in Handle, v \in Value : WriteThrough(h, v)
  \/ \E h \in Handle : RemoveHandle(h)
  \/ ClearTable
  \/ \E rejected \in SUBSET SlotIds(table) : RetainSome(rejected)

Spec == Init /\ [][Next]_vars

---------------------------------------------------------------------------
\* The table is well formed: the slots the code indexes exist, the counters
\* are in range and every handle given out fits its fields.
TypeOK ==
  /\ \E n \in 0 .. MaxSlots : table \in TableOfLen(n)
  /\ issued \subseteq Handle

\* The free list holds each slot that is neither live nor retired exactly
\* once (insert trusts it blindly: a live slot on it would be overwritten, a
\* duplicate would give one slot to two objects, a missing one is leaked).
FreeListExact ==
  /\ IsInjective(table.free)
  /\ Range(table.free) = SlotIds(table) \ (Occupied(table) \cup Retired(table))

\* The cached count that len, is_empty and the try_insert quota read is the
\* number of live slots, whichever of remove, clear and retain freed them.
LiveCountExact == table.live = Cardinality(Occupied(table))

\* A slot has been given out under every generation below its current one,
\* and under the current one exactly when it is live or retired: nothing is
\* given out twice, and a retired slot is never live again.
IssuedExact ==
  /\ Retired(table) \cap Occupied(table) = {}
  /\ {NameOf(h) : h \in issued} =
       {n \in [slot : SlotIds(table), generation : 0 .. GENERATION_MAX] :
          LET slot == table.slots[n.slot] IN
          \/ n.generation < slot.generation
          \/ n.generation = slot.generation /\ (slot.value # None \/ slot.retired)}

\* The handle iter and retain rebuild for a live slot is the very handle its
\* insert returned, kind byte included, although the slot may have been
\* reused under another kind; and no two handles given out share a name.
RebuiltHandlesWereIssued ==
  /\ \A i \in Occupied(table) : HandleAt(table, i) \in issued
  /\ \A g, h \in issued : NameOf(g) = NameOf(h) => g = h

\* A handle that was given out and has gone stale never resolves again.
StaleForever ==
  [][\A h \in issued : ~Resolves(table, h) => ~Resolves(table', h)]_vars

\* The objects of the table, by name.
Objects ==
  [n \in {NameOf(HandleAt(table, i)) : i \in Occupied(table)} |->
     table.slots[n.slot].value]

Abstract == INSTANCE ObjectStore WITH
  Name  <- [slot : 0 .. SLOT_SPACE - 1, generation : 0 .. GENERATION_MAX],
  store <- Objects,
  used  <- {NameOf(h) : h \in issued}

\* The table implements the abstract store: slot reuse, generations,
\* retirement and the bulk operations never show through the handles.
ImplementsObjectStore == Abstract!Spec
===========================================================================
