\* Three slots, all the u32 can number, and two generations per slot: every
\* slot can be reused and retired. Two kinds, so that reuse can change it.
SPECIFICATION Spec
CONSTANTS
  GENERATION_MAX = 1
  SLOT_SPACE = 3
  MaxSlots = 3
  None = None
  Kind = {1, 2}
  Value = {a, b}
INVARIANTS
  TypeOK
  FreeListExact
  LiveCountExact
  IssuedExact
  RebuiltHandlesWereIssued
PROPERTIES
  StaleForever
  ImplementsObjectStore
