--------------------------- MODULE BackendProofs ---------------------------
(***************************************************************************)
(* What minting, changing and releasing objects does to a backend's        *)
(* tables, whatever its families are: K gives the kind byte of each.       *)
(***************************************************************************)
EXTENDS Backend, HandleTableOpsProofs

\* No two families share a kind byte.
KindsApart(K) ==
  /\ K \in [DOMAIN K -> Nat]
  /\ \A f, g \in DOMAIN K : K[f] = K[g] => f = g

\* Each family has a well-formed table of its own kind, and has given out
\* every handle of that kind which the client holds.
Sound(K) ==
  /\ tables = [f \in DOMAIN K |-> tables[f]]
  /\ \A f \in DOMAIN K : WellFormed(tables[f], {K[f]}, ObjectState)
  /\ issued \subseteq Handle
  /\ \A f \in DOMAIN K : \A h \in issued : h.kind = K[f] => Known(tables[f], h)

\* Handles and the objects of a table.
LEMMA HandleTypes ==
  ASSUME NEW h \in Handle
  PROVE  h.slot \in Nat /\ h.generation \in Nat
  BY SlotSpaceAssumption, GenerationAssumption DEF Handle

LEMMA LiveObjectsTyped ==
  ASSUME NEW K, NEW t, WellFormed(t, K, ObjectState)
  PROVE  LiveObjects(t) \subseteq ObjectState
<1>1. ASSUME NEW i \in Occupied(t) PROVE t.slots[i].value \in ObjectState
  <2>1. i \in SlotIds(t) /\ t.slots[i].value # None
    BY DEF Occupied
  <2>2. t.slots[i] \in SlotOf(K, ObjectState)
    BY <2>1 DEF WellFormed
  <2> QED
    BY <2>1, <2>2 DEF SlotOf
<1> QED
  BY <1>1 DEF LiveObjects

LEMMA GetIsLive ==
  ASSUME NEW K, NEW t, WellFormed(t, K, ObjectState),
         NEW h, h.slot \in Nat, Resolves(t, h)
  PROVE  Get(t, h) \in LiveObjects(t) /\ Get(t, h) \in ObjectState
<1>1. h.slot \in Occupied(t)
  BY DEF Resolves, Occupied, SlotIds, WellFormed
<1> QED
  BY <1>1, LiveObjectsTyped DEF LiveObjects, Get

\* The handles of a family's live objects are those of its kind that resolve.
LEMMA LiveHandlesResolve ==
  ASSUME NEW k \in Nat, NEW V, NEW t, WellFormed(t, {k}, V)
  PROVE  LiveHandles(t) = {h \in Handle : h.kind = k /\ Resolves(t, h)}
<1>1. ASSUME NEW i \in Occupied(t)
      PROVE  /\ HandleAt(t, i) = [kind |-> k, generation |-> t.slots[i].generation, slot |-> i]
             /\ HandleAt(t, i) \in Handle /\ Resolves(t, HandleAt(t, i))
  <2>1. /\ i \in SlotIds(t) /\ i \in 0 .. SLOT_SPACE - 1 /\ i < t.len
        /\ t.slots[i].value # None
    BY SlotSpaceAssumption DEF Occupied, SlotIds, WellFormed
  <2>2. t.slots[i] \in SlotOf({k}, V)
    BY <2>1 DEF WellFormed
  <2>3. t.slots[i].kind = k /\ t.slots[i].generation \in 0 .. GENERATION_MAX
    BY <2>2 DEF SlotOf
  <2>4. HandleAt(t, i) = [kind |-> k, generation |-> t.slots[i].generation, slot |-> i]
    BY <2>1, <2>3, HandleFields, CastIsIdentity DEF HandleAt
  <2> QED
    BY <2>1, <2>3, <2>4 DEF Handle, Resolves
<1>2. ASSUME NEW h \in Handle, h.kind = k, Resolves(t, h)
      PROVE  h.slot \in Occupied(t) /\ h = HandleAt(t, h.slot)
  <2>1. h.slot \in Occupied(t)
    BY <1>2, HandleTypes DEF Resolves, Occupied, SlotIds, WellFormed
  <2>2. h = [kind |-> h.kind, generation |-> h.generation, slot |-> h.slot]
    BY DEF Handle
  <2> QED
    BY <1>1, <1>2, <2>1, <2>2 DEF Resolves
<1> QED
  BY <1>1, <1>2 DEF LiveHandles

---------------------------------------------------------------------------
\* Two tables before and after a step in which nothing of them changes.
LEMMA LaterReflexive ==
  ASSUME NEW t PROVE Later(t, t)
  BY DEF Later

\* A fresh object: an unused handle, everything else as it was.
LEMMA MintFacts ==
  ASSUME NEW K, KindsApart(K), Sound(K), NEW f \in DOMAIN K,
         MaxSlots[f] \in 0 .. SLOT_SPACE, NEW owner \in Handle \cup {None},
         Mint(f, K[f], owner)
  PROVE  LET h == InsertHandle(tables[f], K[f])
         IN  /\ Sound(K)'
             /\ h \in Handle /\ h.kind = K[f]
             /\ h \notin issued /\ issued' = issued \cup {h}
             /\ \A g \in DOMAIN K : Later(tables[g], tables'[g])
             /\ \A g \in DOMAIN K \ {f} : tables'[g] = tables[g]
             /\ \A g \in DOMAIN K, x \in Handle : Resolves(tables[g], x) =>
                  Resolves(tables'[g], x) /\ Get(tables'[g], x) = Get(tables[g], x)
             /\ LiveObjects(tables'[f]) = LiveObjects(tables[f]) \cup {Object(owner)}
             /\ LiveHandles(tables'[f]) = LiveHandles(tables[f]) \cup {h}
             /\ Get(tables'[f], h) = Object(owner)
<1> DEFINE t == tables[f]
           k == K[f]
           o == Object(owner)
           u == Insert(t, k, o)
           h == InsertHandle(t, k)
<1>1. /\ WellFormed(t, {k}, ObjectState) /\ k \in Nat /\ k \in {k}
      /\ o \in ObjectState
      /\ InsertReuses(t) \/ t.len < SLOT_SPACE
  <2>1. WellFormed(t, {K[f]}, ObjectState) /\ K[f] \in Nat
    BY DEF Sound, KindsApart
  <2>2. Object(owner) \in ObjectState
    BY CountAssumption DEF Object, ObjectState
  <2>3. InsertReuses(t) \/ t.len < MaxSlots[f]
    BY DEF Mint, Room
  <2>4. t.len \in 0 .. SLOT_SPACE
    BY <2>1 DEF WellFormed
  <2> QED
    BY <2>1, <2>2, <2>3, <2>4, SlotSpaceAssumption
<1> HIDE DEF t, k, o
<1>2. /\ WellFormed(u, {k}, ObjectState)
      /\ h \in HandleOf({k}) /\ h.kind = k
      /\ ~Known(t, h)
      /\ SlotIds(u) = SlotIds(t) \cup {h.slot}
      /\ \A i \in SlotIds(t) \ {h.slot} : u.slots[i] = t.slots[i]
      /\ u.slots[h.slot].value = o
  BY <1>1, InsertFacts, NoneAssumption
<1>3. /\ Later(t, u) /\ Known(u, h)
      /\ Occupied(u) = Occupied(t) \cup {h.slot} /\ h.slot \notin Occupied(t)
      /\ Resolves(u, h) /\ Get(u, h) = o
      /\ \A g : g.slot \in Nat /\ Resolves(t, g) =>
                  Resolves(u, g) /\ Get(u, g) = Get(t, g) /\ g.slot # h.slot
      /\ \A g : g.slot \in Nat /\ Resolves(u, g) =>
                  Resolves(t, g) \/ (g.slot = h.slot /\ g.generation = h.generation)
  BY <1>1, InsertResolves, NoneAssumption
<1>4. /\ tables' = [tables EXCEPT ![f] = u] /\ issued' = issued \cup {h}
      /\ tables = [g \in DOMAIN K |-> tables[g]]
  BY DEF Mint, Sound, t, k, o
<1> HIDE DEF u, h
<1> USE DEF t, k, o
<1>5. /\ tables'[f] = u
      /\ \A g \in DOMAIN K \ {f} : tables'[g] = tables[g]
      /\ tables' = [g \in DOMAIN K |-> tables'[g]]
  BY <1>4
<1>6. h \in Handle
  BY <1>1, <1>2 DEF HandleOf, Handle
<1>7. h \notin issued
  BY <1>2 DEF Sound
<1>8. \A g \in DOMAIN K : Later(tables[g], tables'[g])
  BY <1>3, <1>5, LaterReflexive
<1>9. ASSUME NEW g \in DOMAIN K, NEW x \in Handle, Resolves(tables[g], x)
      PROVE  Resolves(tables'[g], x) /\ Get(tables'[g], x) = Get(tables[g], x)
  <2>1. CASE g = f
    BY <1>3, <1>5, <1>9, <2>1, HandleTypes
  <2>2. CASE g # f
    BY <1>5, <1>9, <2>2
  <2> QED
    BY <2>1, <2>2
<1>10. LiveObjects(u) = LiveObjects(t) \cup {Object(owner)}
  <2>1. \A i \in Occupied(t) : u.slots[i] = t.slots[i]
    BY <1>2, <1>3 DEF Occupied
  <2> QED
    BY <1>2, <1>3, <2>1 DEF LiveObjects
<1>11. LiveHandles(u) = LiveHandles(t) \cup {h}
  <2>1. /\ LiveHandles(u) = {x \in Handle : x.kind = K[f] /\ Resolves(u, x)}
        /\ LiveHandles(t) = {x \in Handle : x.kind = K[f] /\ Resolves(t, x)}
    BY <1>1, <1>2, LiveHandlesResolve
  <2>2. ASSUME NEW x \in Handle, x.kind = K[f]
        PROVE  Resolves(u, x) <=> Resolves(t, x) \/ x = h
    <3>1. x.slot = h.slot /\ x.generation = h.generation => x = h
      BY <1>2, <1>6, <2>2 DEF Handle
    <3> QED
      BY <1>3, <3>1, HandleTypes
  <2> QED
    BY <1>2, <1>6, <2>1, <2>2
<1>12. Sound(K)'
  <2>1. \A g \in DOMAIN K : WellFormed(tables'[g], {K[g]}, ObjectState)
    BY <1>2, <1>5 DEF Sound
  <2>2. issued' \subseteq Handle
    BY <1>4, <1>6 DEF Sound
  <2>3. ASSUME NEW g \in DOMAIN K, NEW x \in issued', x.kind = K[g]
        PROVE  Known(tables'[g], x)
    <3>1. CASE x \in issued
      <4>1. Known(tables[g], x) /\ x.generation \in Nat
        BY <2>3, <3>1, HandleTypes DEF Sound
      <4>2. WellFormed(tables[g], {K[g]}, ObjectState)
        BY DEF Sound
      <4> QED
        BY <1>8, <2>1, <4>1, <4>2, LaterKnows
    <3>2. CASE x = h
      <4>1. g = f
        BY <1>2, <2>3, <3>2 DEF KindsApart
      <4> QED
        BY <1>3, <1>5, <3>2, <4>1
    <3> QED
      BY <1>4, <3>1, <3>2
  <2> QED
    BY <1>5, <2>1, <2>2, <2>3 DEF Sound
<1> QED
  BY <1>2, <1>3, <1>4, <1>5, <1>6, <1>7, <1>8, <1>9, <1>10, <1>11, <1>12 DEF h

\* What the handles of a table name after a step in which none was minted.
LEMMA SoundLater ==
  ASSUME NEW K, Sound(K), issued' = issued,
         tables' = [f \in DOMAIN K |-> tables'[f]],
         \A f \in DOMAIN K : WellFormed(tables'[f], {K[f]}, ObjectState),
         \A f \in DOMAIN K : Later(tables[f], tables'[f])
  PROVE  Sound(K)'
<1>1. ASSUME NEW f \in DOMAIN K, NEW x \in issued', x.kind = K[f]
      PROVE  Known(tables'[f], x)
  <2>1. Known(tables[f], x) /\ x.generation \in Nat
    BY <1>1, HandleTypes DEF Sound
  <2>2. WellFormed(tables[f], {K[f]}, ObjectState)
    BY DEF Sound
  <2> QED
    BY <2>1, <2>2, LaterKnows
<1> QED
  BY <1>1 DEF Sound

\* A write through a handle that resolves.
Writes(f, h, o) ==
  /\ Resolves(tables[f], h)
  /\ tables' = [tables EXCEPT ![f] = Set(tables[f], h, o)]
  /\ issued' = issued

\* A write to a live object: all handles resolve as before, and only the
\* object written to differs.
LEMMA WriteFacts ==
  ASSUME NEW K, Sound(K), NEW f \in DOMAIN K, NEW h \in Handle, NEW o \in ObjectState,
         Writes(f, h, o)
  PROVE  /\ Sound(K)'
         /\ \A g \in DOMAIN K : Later(tables[g], tables'[g])
         /\ \A g \in DOMAIN K : tables'[g].live = tables[g].live
         /\ \A g \in DOMAIN K \ {f} : tables'[g] = tables[g]
         /\ \A g \in DOMAIN K, x \in Handle :
              Resolves(tables'[g], x) <=> Resolves(tables[g], x)
         /\ LiveObjects(tables'[f]) \subseteq LiveObjects(tables[f]) \cup {o}
         /\ LiveHandles(tables'[f]) = LiveHandles(tables[f])
         /\ Get(tables'[f], h) = o
         /\ \A x \in Handle : Resolves(tables[f], x) =>
              Get(tables'[f], x) = IF x.slot = h.slot THEN o ELSE Get(tables[f], x)
<1> DEFINE t == tables[f]
           k == K[f]
           u == Set(t, h, o)
<1>1. /\ WellFormed(t, {k}, ObjectState) /\ h.slot \in Nat /\ Resolves(t, h)
      /\ tables' = [tables EXCEPT ![f] = u] /\ issued' = issued
      /\ tables = [g \in DOMAIN K |-> tables[g]]
  BY HandleTypes DEF Sound, Writes
<1> HIDE DEF t, k
<1>2. /\ WellFormed(u, {k}, ObjectState)
      /\ u.live = t.live
      /\ Later(t, u)
      /\ SlotIds(u) = SlotIds(t)
      /\ Occupied(u) = Occupied(t)
      /\ h.slot \in Occupied(t)
      /\ u.slots[h.slot].value = o
      /\ \A i \in SlotIds(t) \ {h.slot} : u.slots[i] = t.slots[i]
      /\ \A i \in SlotIds(t) : /\ u.slots[i].generation = t.slots[i].generation
                               /\ u.slots[i].kind = t.slots[i].kind
      /\ \A g : g.slot \in Nat => (Resolves(u, g) <=> Resolves(t, g))
  BY <1>1, SetFacts, NoneAssumption
<1> HIDE DEF u
<1>3. /\ tables'[f] = u
      /\ \A g \in DOMAIN K \ {f} : tables'[g] = tables[g]
      /\ tables' = [g \in DOMAIN K |-> tables'[g]]
  BY <1>1
<1>4. LiveObjects(u) \subseteq LiveObjects(t) \cup {o}
  BY <1>2 DEF LiveObjects, Occupied
<1>5. LiveHandles(u) = LiveHandles(t)
  BY <1>2 DEF LiveHandles, HandleAt, Occupied
<1>6. Get(u, h) = o
  BY <1>2 DEF Get
<1>7. ASSUME NEW x \in Handle, Resolves(t, x)
      PROVE  Get(u, x) = IF x.slot = h.slot THEN o ELSE Get(t, x)
  <2>1. x.slot \in SlotIds(t)
    BY <1>1, <1>7, HandleTypes DEF Resolves, SlotIds, WellFormed
  <2> QED
    BY <1>2, <2>1 DEF Get
<1> USE DEF t, k
<1>8. \A g \in DOMAIN K : Later(tables[g], tables'[g])
  BY <1>2, <1>3, LaterReflexive
<1>9. \A g \in DOMAIN K : WellFormed(tables'[g], {K[g]}, ObjectState)
  BY <1>2, <1>3 DEF Sound
<1>10. Sound(K)'
  BY <1>1, <1>3, <1>8, <1>9, SoundLater
<1>11. ASSUME NEW g \in DOMAIN K, NEW x \in Handle
       PROVE  Resolves(tables'[g], x) <=> Resolves(tables[g], x)
  BY <1>2, <1>3, HandleTypes
<1> QED
  BY <1>2, <1>3, <1>4, <1>5, <1>6, <1>7, <1>8, <1>10, <1>11

\* Counting a call against an object.
LEMMA CountWrites ==
  ASSUME NEW K, Sound(K), NEW f \in DOMAIN K, NEW h \in Handle, Count(f, h)
  PROVE  LET o == Counted(Get(tables[f], h))
         IN  /\ o \in ObjectState
             /\ o.count = SatInc(Get(tables[f], h).count)
             /\ o.owner = Get(tables[f], h).owner /\ o.bound = Get(tables[f], h).bound
             /\ Get(tables[f], h) \in LiveObjects(tables[f])
             /\ Writes(f, h, o)
<1>1. WellFormed(tables[f], {K[f]}, ObjectState) /\ Resolves(tables[f], h) /\ h.slot \in Nat
  BY HandleTypes DEF Sound, Count
<1>2. Get(tables[f], h) \in LiveObjects(tables[f]) /\ Get(tables[f], h) \in ObjectState
  BY <1>1, GetIsLive
<1>3. \A n \in 0 .. COUNT_MAX : SatInc(n) \in 0 .. COUNT_MAX
  BY CountAssumption DEF SatInc
<1>4. tables = [g \in DOMAIN K |-> tables[g]]
  BY DEF Sound
<1>5. tables' = [tables EXCEPT ![f] = Set(tables[f], h, Counted(Get(tables[f], h)))]
  BY <1>4 DEF Count
<1>6. issued' = issued
  BY DEF Count
<1> DEFINE b == Get(tables[f], h)
<1>7. b \in ObjectState
  BY <1>2
<1> HIDE DEF b
<1>8. LET o == Counted(b)
      IN  o \in ObjectState /\ o.count = SatInc(b.count) /\ o.owner = b.owner /\ o.bound = b.bound
  BY <1>3, <1>7 DEF ObjectState, Counted
<1> QED
  BY <1>1, <1>2, <1>5, <1>6, <1>8 DEF b, Writes

\* A release takes away the object the handle resolves to: every other handle
\* resolves as before.
LEMMA ReleaseFacts ==
  ASSUME NEW K, KindsApart(K), Sound(K), NEW f \in DOMAIN K, NEW h \in Handle, Release(f, h)
  PROVE  /\ Sound(K)' /\ issued' = issued
         /\ \A g \in DOMAIN K : Later(tables[g], tables'[g])
         /\ \A g \in DOMAIN K : ~(tables'[g].live > tables[g].live)
         /\ \A g \in DOMAIN K \ {f} : tables'[g] = tables[g]
         /\ LiveObjects(tables'[f]) \subseteq LiveObjects(tables[f])
         /\ \A x \in Handle :
              Resolves(tables'[f], x) <=> Resolves(tables[f], x) /\ x.slot # h.slot
         /\ \A x \in Handle : Resolves(tables'[f], x) =>
              Get(tables'[f], x) = Get(tables[f], x)
         /\ LiveHandles(tables'[f]) \subseteq LiveHandles(tables[f])
         /\ Gone(f) = {[h EXCEPT !.kind = K[f]]}
<1> DEFINE t == tables[f]
           k == K[f]
           u == Remove(t, h)
           n == [h EXCEPT !.kind = K[f]]
<1>1. /\ WellFormed(t, {k}, ObjectState) /\ h.slot \in Nat /\ Resolves(t, h) /\ k \in Nat
      /\ tables' = [tables EXCEPT ![f] = u] /\ issued' = issued
      /\ tables = [g \in DOMAIN K |-> tables[g]]
  BY HandleTypes DEF Sound, Release, KindsApart
<1> HIDE DEF t, k
<1>2. /\ WellFormed(u, {k}, ObjectState)
      /\ u.live = t.live - 1
      /\ Later(t, u)
      /\ SlotIds(u) = SlotIds(t)
      /\ Occupied(u) = Occupied(t) \ {h.slot}
      /\ h.slot \in Occupied(t)
      /\ \A i \in SlotIds(t) \ {h.slot} : u.slots[i] = t.slots[i]
      /\ \A g : g.slot \in Nat /\ Resolves(u, g) =>
                  Resolves(t, g) /\ g.slot # h.slot /\ Get(u, g) = Get(t, g)
      /\ \A g : g.slot \in Nat /\ Resolves(t, g) /\ g.slot # h.slot => Resolves(u, g)
  BY <1>1, RemoveFacts
<1> HIDE DEF u
<1>3. /\ tables'[f] = u
      /\ \A g \in DOMAIN K \ {f} : tables'[g] = tables[g]
      /\ tables' = [g \in DOMAIN K |-> tables'[g]]
  BY <1>1
<1>4. LiveObjects(u) \subseteq LiveObjects(t)
  BY <1>2 DEF LiveObjects, Occupied
<1>5. \A x \in Handle : Resolves(u, x) <=> Resolves(t, x) /\ x.slot # h.slot
  BY <1>2, HandleTypes
<1>6. \A x \in Handle : Resolves(u, x) => Get(u, x) = Get(t, x)
  BY <1>2, HandleTypes
<1>7. ~(u.live > t.live)
  BY <1>1, <1>2 DEF WellFormed
<1>8. /\ LiveHandles(u) = {x \in Handle : x.kind = k /\ Resolves(u, x)}
      /\ LiveHandles(t) = {x \in Handle : x.kind = k /\ Resolves(t, x)}
  BY <1>1, <1>2, LiveHandlesResolve
<1>9. /\ n \in Handle /\ n.kind = k /\ n.slot = h.slot /\ n.generation = h.generation
  BY <1>1 DEF Handle, k
<1> HIDE DEF n
<1>10. Resolves(t, n)
  BY <1>1, <1>9 DEF Resolves
<1>11. ASSUME NEW x \in Handle, x.kind = k, Resolves(t, x), x.slot = h.slot
       PROVE  x = n
  <2>1. x.generation = n.generation
    BY <1>10, <1>11, <1>9 DEF Resolves
  <2> QED
    BY <1>9, <1>11, <2>1 DEF Handle
<1>12. LiveHandles(t) \ LiveHandles(u) = {n}
  BY <1>5, <1>8, <1>9, <1>10, <1>11
<1>13. LiveHandles(u) \subseteq LiveHandles(t)
  BY <1>5, <1>8
<1> USE DEF t, k
<1>14. \A g \in DOMAIN K : Later(tables[g], tables'[g])
  BY <1>2, <1>3, LaterReflexive
<1>15. \A g \in DOMAIN K : WellFormed(tables'[g], {K[g]}, ObjectState)
  BY <1>2, <1>3 DEF Sound
<1>16. Sound(K)'
  BY <1>1, <1>3, <1>14, <1>15, SoundLater
<1>17. \A g \in DOMAIN K : ~(tables'[g].live > tables[g].live)
  <2>1. \A g \in DOMAIN K : tables[g].live \in Int
    BY DEF Sound, WellFormed
  <2> QED
    BY <1>3, <1>7, <2>1
<1>18. Gone(f) = {n}
  BY <1>3, <1>12 DEF Gone
<1> QED
  BY <1>1, <1>3, <1>4, <1>5, <1>6, <1>13, <1>14, <1>16, <1>17, <1>18 DEF n

\* A release through the handle of an object takes away just this object.
LEMMA ReleaseGone ==
  ASSUME NEW K, KindsApart(K), Sound(K), NEW f \in DOMAIN K,
         NEW h \in issued, h.kind = K[f], Release(f, h)
  PROVE  TakenAway = {h}
<1>1. h \in Handle /\ DOMAIN tables = DOMAIN K
  BY DEF Sound
<1>2. [h EXCEPT !.kind = K[f]] = h
  BY <1>1 DEF Handle
<1>3. Gone(f) = {h} /\ \A g \in DOMAIN K \ {f} : tables'[g] = tables[g]
  BY <1>1, <1>2, ReleaseFacts
<1>4. \A g \in DOMAIN K \ {f} : Gone(g) = {}
  BY <1>3 DEF Gone
<1> QED
  BY <1>1, <1>3, <1>4 DEF TakenAway

\* A step that leaves the tables and the handles given out alone.
LEMMA StutterFacts ==
  ASSUME NEW K, Sound(K), UNCHANGED <<tables, issued>>
  PROVE  /\ Sound(K)'
         /\ \A f \in DOMAIN K : Later(tables[f], tables'[f])
         /\ \A f \in DOMAIN K : tables'[f] = tables[f] /\ ~(tables'[f].live > tables[f].live)
<1>1. \A f \in DOMAIN K : tables[f].live \in Int
  BY DEF Sound, WellFormed
<1>2. \A f \in DOMAIN K : Later(tables[f], tables'[f])
  BY LaterReflexive
<1>3. Sound(K)'
  BY DEF Sound
<1> QED
  BY <1>1, <1>2, <1>3

\* A backend starts with empty tables.
LEMMA EmptySound ==
  ASSUME NEW K, tables = [f \in DOMAIN K |-> EmptyTable], issued = {}
  PROVE  Sound(K) /\ \A f \in DOMAIN K : LiveObjects(tables[f]) = {} /\ LiveHandles(tables[f]) = {}
  BY EmptyWellFormed DEF Sound, LiveObjects, LiveHandles

\* Through any step, a handle a table has given out stays so, and one that
\* resolves no more never does again.
LEMMA KnownForGood ==
  ASSUME NEW K, Sound(K), Sound(K)', NEW f \in DOMAIN K, Later(tables[f], tables'[f]),
         NEW h \in Handle, Known(tables[f], h)
  PROVE  Known(tables'[f], h) /\ (~Resolves(tables[f], h) => ~Resolves(tables'[f], h))
<1> DEFINE t == tables[f]
           u == tables'[f]
           k == K[f]
<1>1. WellFormed(t, {k}, ObjectState) /\ WellFormed(u, {k}, ObjectState)
  BY DEF Sound
<1>2. h.generation \in Nat /\ Known(t, h) /\ Later(t, u)
  BY HandleTypes
<1> HIDE DEF t, u, k
<1>3. Known(u, h) /\ (~Resolves(t, h) => ~Resolves(u, h))
  BY <1>1, <1>2, LaterKnows
<1> QED
  BY <1>3 DEF t, u

\* What resolves was given out.
LEMMA ResolvesKnown ==
  ASSUME NEW K, Sound(K), NEW f \in DOMAIN K, NEW h \in Handle, Resolves(tables[f], h)
  PROVE  Known(tables[f], h)
<1>1. WellFormed(tables[f], {K[f]}, ObjectState) /\ h.slot \in Nat
  BY HandleTypes DEF Sound
<1> QED
  BY <1>1 DEF Resolves, Known, SlotIds, WellFormed

===========================================================================
