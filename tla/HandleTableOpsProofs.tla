----------------------- MODULE HandleTableOpsProofs -----------------------
(***************************************************************************)
(* What insert, a write and remove do to a table, for any table value: the *)
(* facts that the proofs about one table and about the backends share.     *)
(***************************************************************************)
EXTENDS HandleTableOps, FiniteSetTheorems, SequenceTheorems, TLAPS

\* Reducing a number that is already in range leaves it alone.
LEMMA ModSmall ==
  ASSUME NEW n \in Nat \ {0}, NEW x \in 0 .. n - 1
  PROVE  x % n = x
  OBVIOUS

\* The `as u32` casts lose nothing on a slot number the field can hold.
LEMMA CastIsIdentity ==
  ASSUME NEW i \in 0 .. SLOT_SPACE - 1
  PROVE  AsU32(i) = i
  BY ModSmall, SlotSpaceAssumption DEF AsU32

\* Nor does the mask of Handle::new on a generation that is in range.
LEMMA HandleFields ==
  ASSUME NEW k, NEW g \in 0 .. GENERATION_MAX, NEW s
  PROVE  NewHandle(k, g, s) = [kind |-> k, generation |-> g, slot |-> s]
<1>1. g % (GENERATION_MAX + 1) = g
  <2>1. GENERATION_MAX + 1 \in Nat \ {0} /\ g \in 0 .. (GENERATION_MAX + 1) - 1
    BY GenerationAssumption
  <2> QED
    BY <2>1, ModSmall
<1> QED
  BY <1>1 DEF NewHandle

\* Pushing new and distinct elements on a stack without duplicates keeps it so.
LEMMA ConcatInjective ==
  ASSUME NEW D, NEW f \in Seq(D), NEW q \in Seq(D),
         IsInjective(f), IsInjective(q), Range(f) \cap Range(q) = {}
  PROVE  IsInjective(f \o q)
<1>1. /\ Len(f) \in Nat /\ DOMAIN f = 1 .. Len(f)
      /\ Len(q) \in Nat /\ DOMAIN q = 1 .. Len(q)
      /\ DOMAIN (f \o q) = 1 .. Len(f) + Len(q)
      /\ \A j \in 1 .. Len(f) + Len(q) :
           (f \o q)[j] = IF j <= Len(f) THEN f[j] ELSE q[j - Len(f)]
  BY ConcatProperties, LenProperties
<1>2. \A j \in 1 .. Len(f), k \in 1 .. Len(q) : f[j] # q[k]
  BY <1>1 DEF Range
<1>3. SUFFICES ASSUME NEW j \in 1 .. Len(f) + Len(q), NEW k \in 1 .. Len(f) + Len(q),
                      (f \o q)[j] = (f \o q)[k]
               PROVE  j = k
  BY <1>1 DEF IsInjective
<1>4. /\ j <= Len(f) => j \in 1 .. Len(f)
      /\ k <= Len(f) => k \in 1 .. Len(f)
      /\ ~(j <= Len(f)) => j - Len(f) \in 1 .. Len(q)
      /\ ~(k <= Len(f)) => k - Len(f) \in 1 .. Len(q)
  BY <1>1
<1>5. CASE j <= Len(f) /\ k <= Len(f)
  BY <1>1, <1>3, <1>4, <1>5 DEF IsInjective
<1>6. CASE ~(j <= Len(f)) /\ ~(k <= Len(f))
  <2>1. q[j - Len(f)] = q[k - Len(f)]
    BY <1>1, <1>3, <1>6
  <2>2. j - Len(f) = k - Len(f)
    BY <1>1, <1>4, <1>6, <2>1 DEF IsInjective
  <2> QED
    BY <1>1, <2>2
<1>7. CASE j <= Len(f) /\ ~(k <= Len(f))
  BY <1>1, <1>2, <1>3, <1>4, <1>7
<1>8. CASE ~(j <= Len(f)) /\ k <= Len(f)
  BY <1>1, <1>2, <1>3, <1>4, <1>8
<1> QED
  BY <1>5, <1>6, <1>7, <1>8

\* Popping the top of an injective stack removes exactly that element.
LEMMA PopInjective ==
  ASSUME NEW D, NEW f \in Seq(D), f # << >>, IsInjective(f)
  PROVE  LET g == SubSeq(f, 1, Len(f) - 1)
         IN  /\ g \in Seq(D)
             /\ IsInjective(g)
             /\ Range(g) = Range(f) \ {f[Len(f)]}
<1> DEFINE g == SubSeq(f, 1, Len(f) - 1)
<1>1. Len(f) \in Nat \ {0} /\ DOMAIN f = 1 .. Len(f)
  BY EmptySeq, LenProperties
<1>2. \A i \in 1 .. Len(f) - 1 : f[i] \in D
  BY <1>1, ElementOfSeq
<1>3. /\ g \in Seq(D)
      /\ DOMAIN g = 1 .. Len(f) - 1
      /\ \A i \in 1 .. Len(f) - 1 : g[i] = f[i]
  BY <1>1, <1>2, SubSeqProperties, LenProperties
<1>4. IsInjective(g)
  BY <1>1, <1>3 DEF IsInjective
<1>5. \A i \in 1 .. Len(f) - 1 : f[i] # f[Len(f)]
  BY <1>1 DEF IsInjective
<1>6. Range(g) = {f[i] : i \in 1 .. Len(f) - 1}
  BY <1>3 DEF Range
<1>7. Range(f) = {f[i] : i \in 1 .. Len(f) - 1} \cup {f[Len(f)]}
  BY <1>1 DEF Range
<1>8. Range(g) = Range(f) \ {f[Len(f)]}
  BY <1>5, <1>6, <1>7
<1> QED
  BY <1>3, <1>4, <1>8



---------------------------------------------------------------------------
(***************************************************************************)
(* Tables of objects of V under kinds of K.                                *)
(***************************************************************************)
HandleOf(K) ==
  [kind : K, generation : 0 .. GENERATION_MAX, slot : 0 .. SLOT_SPACE - 1]

SlotOf(K, V) ==
  [generation : 0 .. GENERATION_MAX, kind : K, value : V \cup {None},
   retired : BOOLEAN]

\* What the operations rely on: the slots on the free list are distinct and
\* free, and a retired slot holds nothing.
WellFormed(t, K, V) ==
  /\ t.len \in 0 .. SLOT_SPACE
  /\ t.slots \in [SlotIds(t) -> SlotOf(K, V)]
  /\ t.free \in Seq(SlotIds(t))
  /\ t.live \in Int
  /\ IsInjective(t.free)
  /\ \A i \in Range(t.free) : t.slots[i].value = None /\ ~t.slots[i].retired
  /\ \A i \in SlotIds(t) : t.slots[i].retired => t.slots[i].value = None

\* The names the table has given out, told by its slots alone.
Known(t, h) ==
  /\ h.slot \in SlotIds(t)
  /\ \/ h.generation < t.slots[h.slot].generation
     \/ /\ h.generation = t.slots[h.slot].generation
        /\ t.slots[h.slot].value # None \/ t.slots[h.slot].retired

\* u is the table t after some more operations.
Later(t, u) ==
  \A i \in SlotIds(t) :
    /\ i \in SlotIds(u)
    /\ \/ t.slots[i].generation < u.slots[i].generation
       \/ /\ t.slots[i].generation = u.slots[i].generation
          /\ t.slots[i].retired => u.slots[i].retired
          /\ t.slots[i].value # None => u.slots[i].value # None \/ u.slots[i].retired

LEMMA EmptyWellFormed ==
  ASSUME NEW K, NEW V
  PROVE  WellFormed(EmptyTable, K, V) /\ Occupied(EmptyTable) = {}
<1>1. /\ EmptyTable.len = 0 /\ EmptyTable.slots = [i \in {} |-> None]
      /\ EmptyTable.free = << >> /\ EmptyTable.live = 0
  BY DEF EmptyTable
<1>2. SlotIds(EmptyTable) = {}
  BY <1>1 DEF SlotIds
<1>3. IsInjective(<< >>) /\ Range(<< >>) = {}
  BY DEF IsInjective, Range
<1>4. << >> \in Seq(SlotIds(EmptyTable))
  BY EmptySeq
<1> QED
  BY <1>1, <1>2, <1>3, <1>4, SlotSpaceAssumption DEF WellFormed, Occupied

\* A name given out stays given out, and once it resolves no more it never
\* resolves again.
LEMMA LaterKnows ==
  ASSUME NEW K, NEW V, NEW t, NEW u, WellFormed(t, K, V), WellFormed(u, K, V),
         Later(t, u), NEW h, h.generation \in Nat, Known(t, h)
  PROVE  Known(u, h) /\ (~Resolves(t, h) => ~Resolves(u, h))
<1> DEFINE x == t.slots[h.slot]
           y == u.slots[h.slot]
<1>1. /\ h.slot \in SlotIds(t) /\ h.slot \in SlotIds(u)
      /\ x.generation \in Nat /\ y.generation \in Nat
      /\ y.retired => y.value = None
      /\ h.slot < t.len
  <2>1. h.slot \in SlotIds(t) /\ h.slot \in SlotIds(u)
    BY DEF Known, Later
  <2>2. /\ x \in SlotOf(K, V) /\ y \in SlotOf(K, V)
        /\ y.retired => y.value = None
    BY <2>1 DEF WellFormed
  <2>3. x.generation \in Nat /\ y.generation \in Nat
    BY <2>2, GenerationAssumption DEF SlotOf
  <2>4. h.slot < t.len
    BY <2>1 DEF WellFormed, SlotIds
  <2> QED
    BY <2>1, <2>2, <2>3, <2>4
<1>2. \/ x.generation < y.generation
      \/ /\ x.generation = y.generation
         /\ x.retired => y.retired
         /\ x.value # None => y.value # None \/ y.retired
  BY <1>1 DEF Later
<1>3. \/ h.generation < x.generation
      \/ h.generation = x.generation /\ (x.value # None \/ x.retired)
  BY DEF Known
<1> HIDE DEF x, y
<1>4. \/ h.generation < y.generation
      \/ h.generation = y.generation /\ (y.value # None \/ y.retired)
  BY <1>1, <1>2, <1>3
<1>5. ~Resolves(t, h) => \/ h.generation < x.generation
                         \/ h.generation = x.generation /\ x.retired
  BY <1>1, <1>3 DEF Resolves, x
<1>6. ~Resolves(t, h) => \/ h.generation < y.generation
                         \/ h.generation = y.generation /\ y.retired
  BY <1>1, <1>2, <1>5
<1> QED
  BY <1>1, <1>4, <1>6 DEF Known, Resolves, y

\* The top of the free list is a slot that holds nothing.
LEMMA TopOfFree ==
  ASSUME NEW K, NEW V, NEW t, WellFormed(t, K, V), InsertReuses(t)
  PROVE  /\ Top(t) \in SlotIds(t)
         /\ t.slots[Top(t)] \in SlotOf(K, V)
         /\ t.slots[Top(t)].value = None
         /\ ~t.slots[Top(t)].retired
<1>1. Len(t.free) \in Nat \ {0} /\ t.free \in Seq(SlotIds(t))
  BY EmptySeq DEF WellFormed, InsertReuses
<1>2. Len(t.free) \in DOMAIN t.free /\ t.free[Len(t.free)] \in SlotIds(t)
  BY <1>1, LenProperties
<1>3. Top(t) \in Range(t.free)
  BY <1>2 DEF Range, Top
<1> QED
  BY <1>2, <1>3 DEF WellFormed, Top

\* insert gives out a name that was not known and fills the slot it names,
\* which held nothing; no other slot is touched.
LEMMA InsertFacts ==
  ASSUME NEW K, NEW V, None \notin V, NEW t, WellFormed(t, K, V),
         NEW k \in K, NEW v \in V, InsertReuses(t) \/ t.len < SLOT_SPACE
  PROVE  LET u == Insert(t, k, v)
             h == InsertHandle(t, k)
         IN  /\ WellFormed(u, K, V)
             /\ u.live = t.live + 1
             /\ h \in HandleOf(K) /\ h.kind = k
             /\ ~Known(t, h)
             /\ SlotIds(u) = SlotIds(t) \cup {h.slot}
             /\ \A i \in SlotIds(t) \ {h.slot} : u.slots[i] = t.slots[i]
             /\ h.slot \in SlotIds(t) =>
                  /\ t.slots[h.slot].value = None
                  /\ ~t.slots[h.slot].retired
                  /\ t.slots[h.slot].generation = h.generation
             /\ u.slots[h.slot].generation = h.generation
             /\ u.slots[h.slot].kind = k
             /\ u.slots[h.slot].value = v
<1> DEFINE u == Insert(t, k, v)
           h == InsertHandle(t, k)
<1>0. /\ t.len \in 0 .. SLOT_SPACE /\ t.slots \in [SlotIds(t) -> SlotOf(K, V)]
      /\ t.free \in Seq(SlotIds(t)) /\ t.live \in Int /\ IsInjective(t.free)
      /\ \A i \in Range(t.free) : t.slots[i].value = None /\ ~t.slots[i].retired
      /\ \A i \in SlotIds(t) : t.slots[i].retired => t.slots[i].value = None
      /\ v # None
  BY DEF WellFormed
<1>1. CASE InsertReuses(t)
  <2> DEFINE s == Top(t)
             x == t.slots[s]
             y == ReusedSlot(x, k, v)
  <2>1. /\ s \in SlotIds(t) /\ x \in SlotOf(K, V) /\ x.value = None /\ x.retired = FALSE
        /\ s \in 0 .. SLOT_SPACE - 1 /\ x.generation \in 0 .. GENERATION_MAX
    <3>1. s \in SlotIds(t) /\ x \in SlotOf(K, V) /\ x.value = None /\ ~x.retired
      BY <1>1, TopOfFree
    <3>2. x.retired \in BOOLEAN /\ x.generation \in 0 .. GENERATION_MAX
      BY <3>1 DEF SlotOf
    <3>3. s \in 0 .. SLOT_SPACE - 1
      BY <1>0, <3>1, SlotSpaceAssumption DEF SlotIds
    <3> QED
      BY <3>1, <3>2, <3>3
  <2>2. /\ y \in SlotOf(K, V) /\ y.generation = x.generation /\ y.kind = k
        /\ y.value = v /\ y.retired = FALSE
    BY <2>1 DEF ReusedSlot, SlotOf
  <2>3. h = [kind |-> k, generation |-> x.generation, slot |-> s]
    BY <1>1, <2>1, HandleFields DEF InsertHandle
  <2>4. /\ u.len = t.len /\ u.slots = [t.slots EXCEPT ![s] = y]
        /\ u.free = SubSeq(t.free, 1, Len(t.free) - 1) /\ u.live = t.live + 1
    BY <1>1 DEF Insert
  <2> HIDE DEF u, h, y
  <2>5. /\ h.slot = s /\ h.generation = x.generation /\ h.kind = k /\ h \in HandleOf(K)
    BY <2>1, <2>3 DEF HandleOf
  <2>6. /\ SlotIds(u) = SlotIds(t)
        /\ u.slots[s] = y
        /\ \A i \in SlotIds(t) \ {s} : u.slots[i] = t.slots[i]
        /\ u.slots \in [SlotIds(u) -> SlotOf(K, V)]
    BY <1>0, <2>1, <2>2, <2>4 DEF SlotIds
  <2>7. /\ u.free \in Seq(SlotIds(u)) /\ IsInjective(u.free)
        /\ Range(u.free) = Range(t.free) \ {s}
    <3>1. Top(t) = t.free[Len(t.free)] /\ t.free # << >>
      BY <1>1 DEF Top, InsertReuses
    <3> QED
      BY <1>0, <2>4, <2>6, <3>1, PopInjective
  <2>8. Range(t.free) \subseteq SlotIds(t)
    BY <1>0, LenProperties DEF Range
  <2>9. WellFormed(u, K, V)
    BY <1>0, <2>1, <2>2, <2>4, <2>6, <2>7, <2>8 DEF WellFormed
  <2>10. ~Known(t, h)
    BY <2>1, <2>5 DEF Known
  <2> QED
    BY <2>1, <2>2, <2>4, <2>5, <2>6, <2>9, <2>10 DEF u, h
<1>2. CASE ~InsertReuses(t)
  <2> DEFINE s == t.len
             y == FreshSlot(k, v)
  <2>1. /\ s \in 0 .. SLOT_SPACE - 1 /\ s \in Nat /\ s \notin SlotIds(t)
        /\ 0 \in 0 .. GENERATION_MAX
    BY <1>0, <1>2, SlotSpaceAssumption, GenerationAssumption DEF SlotIds
  <2>2. /\ y \in SlotOf(K, V) /\ y.generation = 0 /\ y.kind = k
        /\ y.value = v /\ y.retired = FALSE
    BY <2>1 DEF FreshSlot, SlotOf
  <2>3. h = [kind |-> k, generation |-> 0, slot |-> s]
    BY <1>2, <2>1, HandleFields, CastIsIdentity DEF InsertHandle
  <2>4. /\ u.len = t.len + 1
        /\ u.slots = [i \in 0 .. s |-> IF i < s THEN t.slots[i] ELSE y]
        /\ u.free = t.free /\ u.live = t.live + 1
    BY <1>2 DEF Insert
  <2> HIDE DEF u, h, y
  <2>5. /\ h.slot = s /\ h.generation = 0 /\ h.kind = k /\ h \in HandleOf(K)
    BY <2>1, <2>3 DEF HandleOf
  <2>6. SlotIds(u) = 0 .. s /\ SlotIds(u) = SlotIds(t) \cup {s} /\ SlotIds(t) = 0 .. s - 1
    BY <2>1, <2>4 DEF SlotIds
  <2>7. /\ u.slots[s] = y
        /\ \A i \in SlotIds(t) : u.slots[i] = t.slots[i]
        /\ u.slots \in [SlotIds(u) -> SlotOf(K, V)]
    BY <1>0, <2>1, <2>2, <2>4, <2>6
  <2>8. u.free \in Seq(SlotIds(u)) /\ Range(t.free) \subseteq SlotIds(t)
    BY <1>0, <2>4, <2>6, SeqMonotonic, LenProperties DEF Range
  <2>9. WellFormed(u, K, V)
    <3>1. u.len \in 0 .. SLOT_SPACE /\ u.live \in Int
      BY <1>0, <2>1, <2>4, SlotSpaceAssumption
    <3> QED
      BY <1>0, <2>1, <2>2, <2>4, <2>6, <2>7, <2>8, <3>1 DEF WellFormed
  <2>10. ~Known(t, h)
    BY <2>1, <2>5 DEF Known
  <2> QED
    BY <2>1, <2>2, <2>4, <2>5, <2>6, <2>7, <2>9, <2>10 DEF u, h
<1> QED
  BY <1>1, <1>2

\* All names resolve as before an insert, the new one to the new value.
LEMMA InsertResolves ==
  ASSUME NEW K, NEW V, None \notin V, NEW t, WellFormed(t, K, V),
         NEW k \in K, NEW v \in V, InsertReuses(t) \/ t.len < SLOT_SPACE
  PROVE  LET u == Insert(t, k, v)
             h == InsertHandle(t, k)
         IN  /\ Later(t, u)
             /\ Known(u, h)
             /\ Occupied(u) = Occupied(t) \cup {h.slot}
             /\ h.slot \notin Occupied(t)
             /\ Resolves(u, h) /\ Get(u, h) = v
             /\ \A g : g.slot \in Nat /\ Resolves(t, g) =>
                         Resolves(u, g) /\ Get(u, g) = Get(t, g) /\ g.slot # h.slot
             /\ \A g : g.slot \in Nat /\ Resolves(u, g) =>
                         Resolves(t, g) \/ (g.slot = h.slot /\ g.generation = h.generation)
<1> DEFINE u == Insert(t, k, v)
           h == InsertHandle(t, k)
<1>1. /\ WellFormed(u, K, V)
      /\ h \in HandleOf(K)
      /\ SlotIds(u) = SlotIds(t) \cup {h.slot}
      /\ \A i \in SlotIds(t) \ {h.slot} : u.slots[i] = t.slots[i]
      /\ h.slot \in SlotIds(t) =>
           /\ t.slots[h.slot].value = None
           /\ ~t.slots[h.slot].retired
           /\ t.slots[h.slot].generation = h.generation
      /\ u.slots[h.slot].generation = h.generation
      /\ u.slots[h.slot].value = v
      /\ v # None
  BY InsertFacts
<1> HIDE DEF u, h
<1>2. t.len \in Nat /\ u.len \in Nat /\ h.slot \in Nat
  BY <1>1 DEF WellFormed, HandleOf
<1>3. /\ \A i \in Nat : i < t.len <=> i \in SlotIds(t)
      /\ \A i \in Nat : i < u.len <=> i \in SlotIds(u)
  BY <1>2 DEF SlotIds
<1>4. Later(t, u)
  BY <1>1 DEF Later
<1>5. Known(u, h)
  BY <1>1 DEF Known
<1>6. Occupied(u) = Occupied(t) \cup {h.slot} /\ h.slot \notin Occupied(t)
  BY <1>1 DEF Occupied
<1>7. Resolves(u, h) /\ Get(u, h) = v
  BY <1>1, <1>2, <1>3 DEF Resolves, Get
<1>8. ASSUME NEW g, g.slot \in Nat, Resolves(t, g)
      PROVE  Resolves(u, g) /\ Get(u, g) = Get(t, g) /\ g.slot # h.slot
  <2>1. g.slot \in SlotIds(t) /\ t.slots[g.slot].value # None
    BY <1>3, <1>8 DEF Resolves
  <2>2. g.slot # h.slot
    BY <1>1, <2>1
  <2> QED
    BY <1>1, <1>3, <1>8, <2>1, <2>2 DEF Resolves, Get
<1>9. ASSUME NEW g, g.slot \in Nat, Resolves(u, g)
      PROVE  Resolves(t, g) \/ (g.slot = h.slot /\ g.generation = h.generation)
  <2>1. g.slot \in SlotIds(t) \cup {h.slot}
    BY <1>1, <1>3, <1>9 DEF Resolves
  <2>2. CASE g.slot = h.slot
    BY <1>1, <1>9, <2>2 DEF Resolves
  <2>3. CASE g.slot # h.slot
    BY <1>1, <1>3, <1>9, <2>1, <2>3 DEF Resolves
  <2> QED
    BY <2>2, <2>3
<1> QED
  BY <1>4, <1>5, <1>6, <1>7, <1>8, <1>9 DEF u, h

\* A write through a handle changes the value of its slot and nothing else.
LEMMA SetFacts ==
  ASSUME NEW K, NEW V, None \notin V, NEW t, WellFormed(t, K, V),
         NEW h, h.slot \in Nat, Resolves(t, h), NEW v \in V
  PROVE  LET u == Set(t, h, v)
         IN  /\ WellFormed(u, K, V)
             /\ u.live = t.live
             /\ Later(t, u)
             /\ SlotIds(u) = SlotIds(t)
             /\ Occupied(u) = Occupied(t)
             /\ h.slot \in Occupied(t)
             /\ u.slots[h.slot].value = v
             /\ \A i \in SlotIds(t) \ {h.slot} : u.slots[i] = t.slots[i]
             /\ \A i \in SlotIds(t) : /\ u.slots[i].generation = t.slots[i].generation
                                      /\ u.slots[i].kind = t.slots[i].kind
             /\ \A g : g.slot \in Nat => (Resolves(u, g) <=> Resolves(t, g))
<1> DEFINE u == Set(t, h, v)
           x == t.slots[h.slot]
           y == WrittenSlot(x, v)
<1>0. /\ t.len \in 0 .. SLOT_SPACE /\ t.slots \in [SlotIds(t) -> SlotOf(K, V)]
      /\ t.free \in Seq(SlotIds(t)) /\ t.live \in Int /\ IsInjective(t.free)
      /\ \A i \in Range(t.free) : t.slots[i].value = None /\ ~t.slots[i].retired
      /\ \A i \in SlotIds(t) : t.slots[i].retired => t.slots[i].value = None
      /\ v # None
  BY DEF WellFormed
<1>1. h.slot \in SlotIds(t) /\ x \in SlotOf(K, V) /\ x.value # None
  BY <1>0 DEF Resolves, SlotIds
<1>2. /\ y \in SlotOf(K, V) /\ y.generation = x.generation /\ y.kind = x.kind
      /\ y.value = v /\ y.retired = x.retired
  BY <1>1 DEF WrittenSlot, SlotOf
<1>3. /\ u.len = t.len /\ u.slots = [t.slots EXCEPT ![h.slot] = y]
      /\ u.free = t.free /\ u.live = t.live
  BY DEF Set
<1> HIDE DEF u, y
<1>4. /\ SlotIds(u) = SlotIds(t)
      /\ u.slots[h.slot] = y
      /\ \A i \in SlotIds(t) \ {h.slot} : u.slots[i] = t.slots[i]
      /\ u.slots \in [SlotIds(u) -> SlotOf(K, V)]
  BY <1>0, <1>1, <1>2, <1>3 DEF SlotIds
<1>5. Range(t.free) \subseteq SlotIds(t)
  BY <1>0, LenProperties DEF Range
<1>6. WellFormed(u, K, V)
  BY <1>0, <1>1, <1>2, <1>3, <1>4, <1>5 DEF WellFormed
<1>7. Later(t, u) /\ Occupied(u) = Occupied(t) /\ h.slot \in Occupied(t)
  BY <1>0, <1>1, <1>2, <1>4 DEF Later, Occupied
<1>8. \A i \in SlotIds(t) : /\ u.slots[i].generation = t.slots[i].generation
                            /\ u.slots[i].kind = t.slots[i].kind
  BY <1>1, <1>2, <1>4
<1>9. ASSUME NEW g, g.slot \in Nat
      PROVE  Resolves(u, g) <=> Resolves(t, g)
  <2>1. g.slot < t.len <=> g.slot \in SlotIds(t)
    BY <1>0, <1>9 DEF SlotIds
  <2> QED
    BY <1>0, <1>1, <1>2, <1>3, <1>4, <2>1 DEF Resolves
<1> QED
  BY <1>2, <1>3, <1>4, <1>6, <1>7, <1>8, <1>9 DEF u

\* remove empties the slot the handle names: the generation moves on, or the
\* slot is retired. No other slot is touched.
LEMMA RemoveFacts ==
  ASSUME NEW K, NEW V, NEW t, WellFormed(t, K, V),
         NEW h, h.slot \in Nat, Resolves(t, h)
  PROVE  LET u == Remove(t, h)
         IN  /\ WellFormed(u, K, V)
             /\ u.live = t.live - 1
             /\ Later(t, u)
             /\ SlotIds(u) = SlotIds(t)
             /\ Occupied(u) = Occupied(t) \ {h.slot}
             /\ h.slot \in Occupied(t)
             /\ \A i \in SlotIds(t) \ {h.slot} : u.slots[i] = t.slots[i]
             /\ \A g : g.slot \in Nat /\ Resolves(u, g) =>
                         Resolves(t, g) /\ g.slot # h.slot /\ Get(u, g) = Get(t, g)
             /\ \A g : g.slot \in Nat /\ Resolves(t, g) /\ g.slot # h.slot =>
                         Resolves(u, g)
<1> DEFINE u == Remove(t, h)
           x == t.slots[h.slot]
           y == FreedSlot(x)
<1>0. /\ t.len \in 0 .. SLOT_SPACE /\ t.slots \in [SlotIds(t) -> SlotOf(K, V)]
      /\ t.free \in Seq(SlotIds(t)) /\ t.live \in Int /\ IsInjective(t.free)
      /\ \A i \in Range(t.free) : t.slots[i].value = None /\ ~t.slots[i].retired
      /\ \A i \in SlotIds(t) : t.slots[i].retired => t.slots[i].value = None
  BY DEF WellFormed
<1>1. /\ h.slot \in SlotIds(t) /\ x \in SlotOf(K, V) /\ x.value # None
      /\ x.retired = FALSE
  <2>1. h.slot \in SlotIds(t) /\ x \in SlotOf(K, V) /\ x.value # None
    BY <1>0 DEF Resolves, SlotIds
  <2> QED
    BY <1>0, <2>1 DEF SlotOf
<1>2. /\ y \in SlotOf(K, V) /\ y.value = None
      /\ Exhausted(x) => y.generation = x.generation /\ y.retired = TRUE
      /\ ~Exhausted(x) => y.generation = x.generation + 1 /\ y.retired = FALSE
  <2>1. x.generation \in 0 .. GENERATION_MAX
    BY <1>1 DEF SlotOf
  <2>2. CASE Exhausted(x)
    <3>1. y = [x EXCEPT !.value = None, !.retired = TRUE]
      BY <2>2 DEF FreedSlot
    <3> QED
      BY <1>1, <2>2, <3>1 DEF SlotOf
  <2>3. CASE ~Exhausted(x)
    <3>1. y = [x EXCEPT !.value = None, !.generation = x.generation + 1]
      BY <2>3 DEF FreedSlot
    <3>2. x.generation + 1 \in 0 .. GENERATION_MAX
      BY <2>1, <2>3, GenerationAssumption DEF Exhausted
    <3> QED
      BY <1>1, <2>3, <3>1, <3>2 DEF SlotOf
  <2> QED
    BY <2>2, <2>3
<1>3. /\ u.len = t.len /\ u.slots = [t.slots EXCEPT ![h.slot] = y]
      /\ u.free = IF Exhausted(x) THEN t.free ELSE Append(t.free, h.slot)
      /\ u.live = t.live - 1
  BY DEF Remove
<1> HIDE DEF u, y
<1>4. /\ SlotIds(u) = SlotIds(t)
      /\ u.slots[h.slot] = y
      /\ \A i \in SlotIds(t) \ {h.slot} : u.slots[i] = t.slots[i]
      /\ u.slots \in [SlotIds(u) -> SlotOf(K, V)]
  BY <1>0, <1>1, <1>2, <1>3 DEF SlotIds
<1>5. Range(t.free) \subseteq SlotIds(t) /\ h.slot \notin Range(t.free)
  BY <1>0, <1>1, LenProperties DEF Range
<1>6. /\ u.free \in Seq(SlotIds(u)) /\ IsInjective(u.free)
      /\ Range(u.free) = Range(t.free) \cup (IF Exhausted(x) THEN {} ELSE {h.slot})
  <2>1. CASE Exhausted(x)
    BY <1>0, <1>3, <1>4, <2>1
  <2>2. CASE ~Exhausted(x)
    <3> DEFINE f == t.free
               a == Append(f, h.slot)
    <3>1. /\ a \in Seq(SlotIds(t)) /\ Len(a) = Len(f) + 1 /\ Len(f) \in Nat
          /\ \A i \in 1 .. Len(f) : a[i] = f[i]
          /\ a[Len(f) + 1] = h.slot
          /\ DOMAIN f = 1 .. Len(f)
      BY <1>0, <1>1, AppendProperties, LenProperties
    <3> HIDE DEF a, f
    <3>2. DOMAIN a = 1 .. Len(f) + 1
      BY <3>1, LenProperties
    <3>3. Range(a) = Range(f) \cup {h.slot}
      BY <3>1, <3>2 DEF Range
    <3>4. ASSUME NEW i \in 1 .. Len(f) + 1, NEW j \in 1 .. Len(f) + 1, a[i] = a[j]
          PROVE  i = j
      <4>1. \A m \in 1 .. Len(f) : f[m] \in Range(f) /\ f[m] # h.slot
        BY <1>5, <3>1 DEF Range, f
      <4>2. CASE i = Len(f) + 1 /\ j = Len(f) + 1
        BY <4>2
      <4>3. CASE i \in 1 .. Len(f) /\ j = Len(f) + 1
        BY <3>1, <3>4, <4>1, <4>3
      <4>4. CASE j \in 1 .. Len(f) /\ i = Len(f) + 1
        BY <3>1, <3>4, <4>1, <4>4
      <4>5. CASE i \in 1 .. Len(f) /\ j \in 1 .. Len(f)
        <5>1. f[i] = f[j]
          BY <3>1, <3>4, <4>5
        <5> QED
          BY <1>0, <3>1, <4>5, <5>1 DEF IsInjective, f
      <4> QED
        BY <3>1, <4>2, <4>3, <4>4, <4>5
    <3>5. IsInjective(a)
      BY <3>2, <3>4 DEF IsInjective
    <3> QED
      BY <1>3, <1>4, <2>2, <3>1, <3>3, <3>5 DEF a, f
  <2> QED
    BY <2>1, <2>2
<1>7. WellFormed(u, K, V)
  <2>1. \A i \in Range(u.free) : u.slots[i].value = None /\ ~u.slots[i].retired
    BY <1>0, <1>1, <1>2, <1>4, <1>5, <1>6
  <2>2. \A i \in SlotIds(u) : u.slots[i].retired => u.slots[i].value = None
    BY <1>0, <1>2, <1>4
  <2> QED
    BY <1>0, <1>3, <1>4, <1>6, <2>1, <2>2 DEF WellFormed
<1>8. Later(t, u)
  <2>1. x.generation \in Nat
    BY <1>1, GenerationAssumption DEF SlotOf
  <2>2. ASSUME NEW i \in SlotIds(t)
        PROVE  /\ i \in SlotIds(u)
               /\ \/ t.slots[i].generation < u.slots[i].generation
                  \/ /\ t.slots[i].generation = u.slots[i].generation
                     /\ t.slots[i].retired => u.slots[i].retired
                     /\ t.slots[i].value # None => u.slots[i].value # None \/ u.slots[i].retired
    <3>1. CASE i = h.slot /\ Exhausted(x)
      BY <1>2, <1>4, <3>1
    <3>2. CASE i = h.slot /\ ~Exhausted(x)
      BY <1>2, <1>4, <2>1, <3>2
    <3>3. CASE i # h.slot
      BY <1>4, <3>3
    <3> QED
      BY <3>1, <3>2, <3>3
  <2> QED
    BY <2>2 DEF Later
<1>9. Occupied(u) = Occupied(t) \ {h.slot} /\ h.slot \in Occupied(t)
  BY <1>1, <1>2, <1>4 DEF Occupied
<1>10. ASSUME NEW g, g.slot \in Nat, Resolves(u, g)
       PROVE  Resolves(t, g) /\ g.slot # h.slot /\ Get(u, g) = Get(t, g)
  <2>1. g.slot \in SlotIds(t)
    BY <1>0, <1>3, <1>10 DEF SlotIds, Resolves
  <2>2. g.slot # h.slot
    BY <1>2, <1>4, <1>10 DEF Resolves
  <2> QED
    BY <1>3, <1>4, <1>10, <2>1, <2>2 DEF Resolves, Get
<1>11. ASSUME NEW g, g.slot \in Nat, Resolves(t, g), g.slot # h.slot
       PROVE  Resolves(u, g)
  <2>1. g.slot \in SlotIds(t) \ {h.slot}
    BY <1>0, <1>11 DEF SlotIds, Resolves
  <2> QED
    BY <1>3, <1>4, <1>11, <2>1 DEF Resolves
<1> QED
  BY <1>3, <1>4, <1>7, <1>8, <1>9, <1>10, <1>11 DEF u
===========================================================================
