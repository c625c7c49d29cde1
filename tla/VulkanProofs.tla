---------------------------- MODULE VulkanProofs ----------------------------
(***************************************************************************)
(* Proofs about the Vulkan backend.                                        *)
(***************************************************************************)
EXTENDS VulkanBackend, BackendProofs

\* The recorded parent of an object is a handle, and the parents of all but
\* command buffers are live.
Owned ==
  \A f \in DOMAIN OWNER : \A o \in LiveObjects(tables[f]) :
    /\ o.owner \in Handle
    /\ f # "CommandBuffer" => Resolves(tables[OWNER[f]], o.owner)

\* The memory a buffer is bound to and the pool of a command buffer, gone or
\* not, were given out by the tables of memory and of pools.
BoundKnown ==
  \A o \in LiveObjects(tables["Buffer"]) :
    o.bound # None => Known(tables["Memory"], o.bound)

PoolKnown ==
  \A o \in LiveObjects(tables["CommandBuffer"]) :
    Known(tables["CommandPool"], o.owner)

IInv == Sound(KIND) /\ Owned /\ BoundKnown /\ PoolKnown

---------------------------------------------------------------------------
LEMMA Kinds ==
  /\ Family = {"Instance", "PhysicalDevice", "Device", "Queue", "Memory", "Buffer",
               "CommandPool", "CommandBuffer"}
  /\ DOMAIN KIND = Family
  /\ KindsApart(KIND)
  /\ DOMAIN OWNER = Family \ {"Instance"}
  /\ \A f \in DOMAIN OWNER : OWNER[f] \in {"Instance", "PhysicalDevice", "Device", "CommandPool"}
  /\ \A f \in DOMAIN OWNER \ {"CommandBuffer"} :
       OWNER[f] \in {"Instance", "PhysicalDevice", "Device"}
  /\ OWNER["CommandBuffer"] = "CommandPool"
<1>1. /\ Family = {"Instance", "PhysicalDevice", "Device", "Queue", "Memory", "Buffer",
                   "CommandPool", "CommandBuffer"}
      /\ DOMAIN KIND = Family
  BY DEF Family, KIND
<1>2. KindsApart(KIND)
  BY <1>1 DEF KIND, KindsApart
<1> QED
  BY <1>1, <1>2 DEF OWNER

\* A step of the backend mints an object under a parent that it looked up,
\* binds, counts or releases one, or leaves all tables alone.
MintStep ==
  \E f \in Family : \E owner \in Handle \cup {None} :
    /\ Mint(f, KIND[f], owner)
    /\ f \in DOMAIN OWNER => owner \in Handle /\ Resolves(tables[OWNER[f]], owner)

BindStep == \E h, m \in issued : BIND_BUFFER_MEMORY(h, m)

CountStep == \E h \in issued : Count("CommandBuffer", h)

ReleaseStep == \E f \in {"Buffer", "Memory", "CommandPool"}, h \in issued : Release(f, h)

LEMMA Steps ==
  ASSUME issued \subseteq Handle, [Next]_backendVars
  PROVE  MintStep \/ BindStep \/ CountStep \/ ReleaseStep \/ UNCHANGED <<tables, issued>>
<1>1. \A f : Arg(f) \subseteq issued
  BY DEF Arg, Presented
<1>2. \A h \in issued : h \in Handle
  OBVIOUS
<1>3. ASSUME CREATE_INSTANCE PROVE MintStep
  BY <1>3, Kinds DEF CREATE_INSTANCE, MintStep, KIND
<1>4. ASSUME NEW f \in DOMAIN OWNER, NEW h \in issued, MintUnder(f, KIND[f], OWNER[f], h)
      PROVE  MintStep
  BY <1>2, <1>4, Kinds DEF MintUnder, MintStep
<1>5. ASSUME NEW h \in issued,
             \/ ENUMERATE_PHYSICAL_DEVICES(h)
             \/ CREATE_DEVICE(h)
             \/ GET_DEVICE_QUEUE(h)
             \/ ALLOCATE_MEMORY(h)
             \/ CREATE_BUFFER(h)
             \/ CREATE_COMMAND_POOL(h)
             \/ ALLOCATE_COMMAND_BUFFER(h)
      PROVE  MintStep
  <2>1. \E f \in DOMAIN OWNER : MintUnder(f, KIND[f], OWNER[f], h)
    BY <1>5 DEF ENUMERATE_PHYSICAL_DEVICES, CREATE_DEVICE, GET_DEVICE_QUEUE,
         ALLOCATE_MEMORY, CREATE_BUFFER, CREATE_COMMAND_POOL, ALLOCATE_COMMAND_BUFFER,
         KIND, OWNER
  <2> QED
    BY <1>4, <2>1
<1>6. ASSUME NEW h \in issued,
             (\E s, d : CMD_COPY_BUFFER(h, s, d)) \/ CMD_DRAW(h)
      PROVE  CountStep
  BY <1>6 DEF CMD_COPY_BUFFER, CMD_DRAW, CountStep
<1>7. ASSUME NEW h \in issued,
             DESTROY_BUFFER(h) \/ FREE_MEMORY(h) \/ DESTROY_COMMAND_POOL(h)
      PROVE  ReleaseStep
  BY <1>7 DEF DESTROY_BUFFER, FREE_MEMORY, DESTROY_COMMAND_POOL, ReleaseStep
<1>8. ASSUME Reject \/ UNCHANGED backendVars \/ \E q, h : QUEUE_SUBMIT(q, h)
      PROVE  UNCHANGED <<tables, issued>>
  BY <1>8 DEF Reject, backendVars, QUEUE_SUBMIT, Check
<1> QED
  BY <1>1, <1>3, <1>5, <1>6, <1>7, <1>8 DEF Next, BindStep

---------------------------------------------------------------------------
\* Objects as the invariant and the tables' type say they are.
LEMMA ObjectTypes ==
  ASSUME IInv, NEW f \in Family, NEW o \in LiveObjects(tables[f])
  PROVE  o \in ObjectState
<1>1. WellFormed(tables[f], {KIND[f]}, ObjectState)
  BY Kinds DEF IInv, Sound
<1> QED
  BY <1>1, LiveObjectsTyped

\* Objects keep what they record as long as the tables they refer to only
\* move on, and those of the parents lose nothing.
LEMMA KeepReferences ==
  ASSUME IInv, Sound(KIND)', \A f \in Family : Later(tables[f], tables'[f]),
         \A f \in {"Instance", "PhysicalDevice", "Device"}, x \in Handle :
            Resolves(tables[f], x) => Resolves(tables'[f], x)
  PROVE  /\ \A f \in DOMAIN OWNER : \A o \in LiveObjects(tables[f]) :
              /\ o.owner \in Handle
              /\ f # "CommandBuffer" => Resolves(tables'[OWNER[f]], o.owner)
         /\ \A o \in LiveObjects(tables["Buffer"]) :
              o.bound # None => o.bound \in Handle /\ Known(tables'["Memory"], o.bound)
         /\ \A o \in LiveObjects(tables["CommandBuffer"]) :
              Known(tables'["CommandPool"], o.owner)
<1>1. ASSUME NEW f \in DOMAIN OWNER, NEW o \in LiveObjects(tables[f])
      PROVE  /\ o.owner \in Handle
             /\ f # "CommandBuffer" => Resolves(tables'[OWNER[f]], o.owner)
  <2>1. o.owner \in Handle /\ (f # "CommandBuffer" => Resolves(tables[OWNER[f]], o.owner))
    BY DEF IInv, Owned
  <2>2. f # "CommandBuffer" => OWNER[f] \in {"Instance", "PhysicalDevice", "Device"}
    BY Kinds
  <2> QED
    BY <2>1, <2>2
<1>2. ASSUME NEW o \in LiveObjects(tables["Buffer"]), o.bound # None
      PROVE  o.bound \in Handle /\ Known(tables'["Memory"], o.bound)
  <2>1. o \in ObjectState
    BY Kinds, ObjectTypes
  <2>2. o.bound \in Handle /\ Known(tables["Memory"], o.bound)
    BY <1>2, <2>1 DEF IInv, BoundKnown, ObjectState
  <2> QED
    BY <2>2, Kinds, KnownForGood DEF IInv
<1>3. ASSUME NEW o \in LiveObjects(tables["CommandBuffer"])
      PROVE  Known(tables'["CommandPool"], o.owner)
  <2>1. o.owner \in Handle /\ Known(tables["CommandPool"], o.owner)
    BY <1>1, Kinds DEF IInv, PoolKnown
  <2> QED
    BY <2>1, Kinds, KnownForGood DEF IInv
<1> QED
  BY <1>1, <1>2, <1>3

LEMMA MintKeeps ==
  ASSUME IInv, MintStep
  PROVE  /\ IInv'
         /\ \A f \in Family : Later(tables[f], tables'[f])
         /\ issued' # issued
         /\ \A h \in issued : Resolves(tables["Buffer"], h) =>
              Get(tables'["Buffer"], h) = Get(tables["Buffer"], h)
<1>1. PICK f \in Family, owner \in Handle \cup {None} :
        /\ Mint(f, KIND[f], owner)
        /\ f \in DOMAIN OWNER => owner \in Handle /\ Resolves(tables[OWNER[f]], owner)
  BY DEF MintStep
<1>2. MaxSlots[f] \in 0 .. SLOT_SPACE
  BY MaxSlotsAssumption
<1>3. /\ Sound(KIND)'
      /\ issued' # issued
      /\ \A g \in Family : Later(tables[g], tables'[g])
      /\ \A g \in Family \ {f} : tables'[g] = tables[g]
      /\ \A g \in Family, x \in Handle : Resolves(tables[g], x) =>
           Resolves(tables'[g], x) /\ Get(tables'[g], x) = Get(tables[g], x)
      /\ LiveObjects(tables'[f]) = LiveObjects(tables[f]) \cup {Object(owner)}
  <2>1. /\ KindsApart(KIND) /\ Sound(KIND) /\ DOMAIN KIND = Family
        /\ Mint(f, KIND[f], owner)
    BY <1>1, Kinds DEF IInv
  <2> DEFINE h == InsertHandle(tables[f], KIND[f])
  <2>2. /\ Sound(KIND)'
        /\ h \notin issued /\ issued' = issued \cup {h}
        /\ \A g \in Family : Later(tables[g], tables'[g])
        /\ \A g \in Family \ {f} : tables'[g] = tables[g]
        /\ \A g \in Family, x \in Handle : Resolves(tables[g], x) =>
             Resolves(tables'[g], x) /\ Get(tables'[g], x) = Get(tables[g], x)
        /\ LiveObjects(tables'[f]) = LiveObjects(tables[f]) \cup {Object(owner)}
    BY <1>2, <2>1, MintFacts
  <2> HIDE DEF h
  <2> QED
    BY <2>2
<1>4. /\ \A g \in DOMAIN OWNER : \A o \in LiveObjects(tables[g]) :
           /\ o.owner \in Handle
           /\ g # "CommandBuffer" => Resolves(tables'[OWNER[g]], o.owner)
      /\ \A o \in LiveObjects(tables["Buffer"]) :
           o.bound # None => o.bound \in Handle /\ Known(tables'["Memory"], o.bound)
      /\ \A o \in LiveObjects(tables["CommandBuffer"]) :
           Known(tables'["CommandPool"], o.owner)
  BY <1>3, Kinds, KeepReferences
<1>5. Object(owner).owner = owner /\ Object(owner).bound = None
  BY DEF Object
<1>6. \A g \in Family : \A o \in LiveObjects(tables'[g]) :
        o \in LiveObjects(tables[g]) \/ (g = f /\ o = Object(owner))
  BY <1>3
<1>7. f \in DOMAIN OWNER => owner \in Handle /\ Resolves(tables'[OWNER[f]], owner)
  BY <1>1, <1>3, Kinds
<1>8. Owned'
  BY <1>4, <1>5, <1>6, <1>7, Kinds DEF Owned
<1>9. BoundKnown'
  BY <1>4, <1>5, <1>6, Kinds DEF BoundKnown
<1>10. PoolKnown'
  <2>1. ASSUME f = "CommandBuffer" PROVE Known(tables'["CommandPool"], owner)
    <3>1. owner \in Handle /\ Resolves(tables["CommandPool"], owner)
      BY <1>1, <2>1, Kinds
    <3>2. Known(tables["CommandPool"], owner)
      BY <3>1, Kinds, ResolvesKnown DEF IInv
    <3> QED
      BY <1>3, <3>1, <3>2, Kinds, KnownForGood DEF IInv
  <2> QED
    BY <1>4, <1>5, <1>6, <2>1, Kinds DEF PoolKnown
<1>11. \A h \in issued : Resolves(tables["Buffer"], h) =>
         Get(tables'["Buffer"], h) = Get(tables["Buffer"], h)
  BY <1>3, Kinds DEF IInv, Sound
<1> QED
  BY <1>3, <1>8, <1>9, <1>10, <1>11 DEF IInv

\* A write that keeps an object's parent, and its binding if it has one.
LEMMA WriteKeeps ==
  ASSUME IInv, NEW f \in {"Buffer", "CommandBuffer"}, NEW h \in Handle, NEW o \in ObjectState,
         Writes(f, h, o),
         o.owner = Get(tables[f], h).owner,
         \/ o.bound = Get(tables[f], h).bound
         \/ /\ Get(tables[f], h).bound = None
            /\ o.bound \in Handle /\ Resolves(tables["Memory"], o.bound)
  PROVE  /\ IInv'
         /\ \A g \in Family : Later(tables[g], tables'[g])
         /\ \A g \in Family : ~(tables'[g].live > tables[g].live)
         /\ \A x \in issued : /\ Resolves(tables["Buffer"], x)
                              /\ Get(tables["Buffer"], x).bound # None
                              => Get(tables'["Buffer"], x).bound = Get(tables["Buffer"], x).bound
<1> DEFINE b == Get(tables[f], h)
<1>1. Sound(KIND) /\ f \in DOMAIN KIND /\ DOMAIN KIND = Family
  BY Kinds DEF IInv
<1>2. /\ Sound(KIND)'
      /\ \A g \in Family : Later(tables[g], tables'[g])
      /\ \A g \in Family : tables'[g].live = tables[g].live
      /\ \A g \in Family \ {f} : tables'[g] = tables[g]
      /\ \A g \in Family, x \in Handle :
           Resolves(tables'[g], x) <=> Resolves(tables[g], x)
      /\ LiveObjects(tables'[f]) \subseteq LiveObjects(tables[f]) \cup {o}
      /\ \A x \in Handle : Resolves(tables[f], x) =>
           Get(tables'[f], x) = IF x.slot = h.slot THEN o ELSE Get(tables[f], x)
  BY <1>1, WriteFacts
<1>3. /\ \A g \in DOMAIN OWNER : \A x \in LiveObjects(tables[g]) :
           /\ x.owner \in Handle
           /\ g # "CommandBuffer" => Resolves(tables'[OWNER[g]], x.owner)
      /\ \A x \in LiveObjects(tables["Buffer"]) :
           x.bound # None => x.bound \in Handle /\ Known(tables'["Memory"], x.bound)
      /\ \A x \in LiveObjects(tables["CommandBuffer"]) :
           Known(tables'["CommandPool"], x.owner)
  BY <1>2, Kinds, KeepReferences
<1>4. b \in LiveObjects(tables[f])
  <2>1. WellFormed(tables[f], {KIND[f]}, ObjectState) /\ h.slot \in Nat
    BY <1>1, HandleTypes DEF Sound
  <2> QED
    BY <2>1, GetIsLive DEF Writes
<1>5. \A g \in Family : \A x \in LiveObjects(tables'[g]) :
        x \in LiveObjects(tables[g]) \/ (g = f /\ x = o)
  BY <1>2
<1>6. o.bound # None /\ f = "Buffer" => Known(tables'["Memory"], o.bound)
  <2>1. CASE o.bound = b.bound
    BY <1>3, <1>4, <2>1
  <2>2. CASE o.bound \in Handle /\ Resolves(tables["Memory"], o.bound)
    <3>1. Known(tables["Memory"], o.bound)
      BY <1>1, <2>2, Kinds, ResolvesKnown
    <3> QED
      BY <1>1, <1>2, <2>2, <3>1, Kinds, KnownForGood
  <2> QED
    BY <2>1, <2>2
<1>7. Owned'
  BY <1>3, <1>4, <1>5, Kinds DEF Owned
<1>8. BoundKnown'
  BY <1>3, <1>5, <1>6, Kinds DEF BoundKnown
<1>9. PoolKnown'
  BY <1>3, <1>4, <1>5, Kinds DEF PoolKnown
<1>10. ASSUME NEW x \in issued, Resolves(tables["Buffer"], x),
              Get(tables["Buffer"], x).bound # None
       PROVE  Get(tables'["Buffer"], x).bound = Get(tables["Buffer"], x).bound
  <2>1. x \in Handle
    BY DEF IInv, Sound
  <2>2. CASE f = "Buffer" /\ x.slot = h.slot
    <3>1. Get(tables["Buffer"], x) = b /\ Get(tables'["Buffer"], x) = o
      BY <1>2, <1>10, <2>1, <2>2 DEF Get
    <3> QED
      BY <1>10, <3>1
  <2>3. CASE f = "Buffer" /\ x.slot # h.slot
    BY <1>2, <1>10, <2>1, <2>3
  <2>4. CASE f # "Buffer"
    BY <1>2, <2>4, Kinds
  <2> QED
    BY <2>2, <2>3, <2>4
<1>11. \A g \in Family : ~(tables'[g].live > tables[g].live)
  <2>1. \A g \in Family : tables[g].live \in Int
    BY <1>1 DEF Sound, WellFormed
  <2> QED
    BY <1>2, <2>1
<1> QED
  BY <1>2, <1>7, <1>8, <1>9, <1>10, <1>11 DEF IInv

LEMMA BindKeeps ==
  ASSUME IInv, BindStep
  PROVE  /\ IInv'
         /\ \A g \in Family : Later(tables[g], tables'[g])
         /\ \A g \in Family : ~(tables'[g].live > tables[g].live)
         /\ \A x \in issued : /\ Resolves(tables["Buffer"], x)
                              /\ Get(tables["Buffer"], x).bound # None
                              => Get(tables'["Buffer"], x).bound = Get(tables["Buffer"], x).bound
<1>1. PICK h \in issued, m \in issued : BIND_BUFFER_MEMORY(h, m)
  BY DEF BindStep
<1> DEFINE b == Get(tables["Buffer"], h)
           o == [b EXCEPT !.bound = m]
<1>2. /\ h \in Handle /\ m \in Handle /\ Sound(KIND) /\ "Buffer" \in DOMAIN KIND
      /\ tables = [f \in DOMAIN KIND |-> tables[f]]
  BY Kinds DEF IInv, Sound
<1>3. /\ Resolves(tables["Memory"], m) /\ Resolves(tables["Buffer"], h)
      /\ b.bound = None /\ Writes("Buffer", h, o)
  BY <1>1, <1>2 DEF BIND_BUFFER_MEMORY, Writes
<1>4. b \in ObjectState
  <2>1. WellFormed(tables["Buffer"], {KIND["Buffer"]}, ObjectState) /\ h.slot \in Nat
    BY <1>2, HandleTypes DEF Sound
  <2> QED
    BY <1>3, <2>1, GetIsLive
<1>5. o \in ObjectState /\ o.owner = b.owner /\ o.bound = m
  <2> HIDE DEF b
  <2> QED
    BY <1>2, <1>4 DEF ObjectState
<1> HIDE DEF o
<1> QED
  BY <1>2, <1>3, <1>5, WriteKeeps

LEMMA CountKeeps ==
  ASSUME IInv, CountStep
  PROVE  /\ IInv'
         /\ \A g \in Family : Later(tables[g], tables'[g])
         /\ \A g \in Family : ~(tables'[g].live > tables[g].live)
         /\ \A x \in issued : /\ Resolves(tables["Buffer"], x)
                              /\ Get(tables["Buffer"], x).bound # None
                              => Get(tables'["Buffer"], x).bound = Get(tables["Buffer"], x).bound
<1> DEFINE f == "CommandBuffer"
<1>1. PICK h \in issued : Count(f, h)
  BY DEF CountStep
<1> DEFINE o == Counted(Get(tables[f], h))
<1>2. h \in Handle /\ Sound(KIND) /\ f \in DOMAIN KIND /\ f \in {"Buffer", "CommandBuffer"}
  BY Kinds DEF IInv, Sound
<1> HIDE DEF f
<1>3. /\ o \in ObjectState
      /\ o.owner = Get(tables[f], h).owner /\ o.bound = Get(tables[f], h).bound
      /\ Writes(f, h, o)
  BY <1>1, <1>2, CountWrites
<1> HIDE DEF o
<1> QED
  BY <1>2, <1>3, WriteKeeps

LEMMA ReleaseKeeps ==
  ASSUME IInv, ReleaseStep
  PROVE  /\ IInv'
         /\ \A g \in Family : Later(tables[g], tables'[g])
         /\ \A g \in Family : ~(tables'[g].live > tables[g].live)
         /\ \A x \in issued : Resolves(tables'["Buffer"], x) =>
              Get(tables'["Buffer"], x) = Get(tables["Buffer"], x)
<1>1. PICK f \in {"Buffer", "Memory", "CommandPool"}, h \in issued : Release(f, h)
  BY DEF ReleaseStep
<1>2. /\ h \in Handle /\ Sound(KIND) /\ KindsApart(KIND)
      /\ f \in DOMAIN KIND /\ DOMAIN KIND = Family
  BY Kinds DEF IInv, Sound
<1>3. /\ Sound(KIND)' /\ issued' = issued
      /\ \A g \in Family : Later(tables[g], tables'[g])
      /\ \A g \in Family : ~(tables'[g].live > tables[g].live)
      /\ \A g \in Family \ {f} : tables'[g] = tables[g]
      /\ LiveObjects(tables'[f]) \subseteq LiveObjects(tables[f])
      /\ \A x \in Handle : Resolves(tables'[f], x) =>
           Get(tables'[f], x) = Get(tables[f], x)
  BY <1>1, <1>2, ReleaseFacts
<1>4. \A g \in {"Instance", "PhysicalDevice", "Device"} : tables'[g] = tables[g]
  BY <1>3, Kinds
<1>5. /\ \A g \in DOMAIN OWNER : \A x \in LiveObjects(tables[g]) :
           /\ x.owner \in Handle
           /\ g # "CommandBuffer" => Resolves(tables'[OWNER[g]], x.owner)
      /\ \A x \in LiveObjects(tables["Buffer"]) :
           x.bound # None => x.bound \in Handle /\ Known(tables'["Memory"], x.bound)
      /\ \A x \in LiveObjects(tables["CommandBuffer"]) :
           Known(tables'["CommandPool"], x.owner)
  BY <1>3, <1>4, Kinds, KeepReferences
<1>6. \A g \in Family : LiveObjects(tables'[g]) \subseteq LiveObjects(tables[g])
  BY <1>3
<1>7. Owned' /\ BoundKnown' /\ PoolKnown'
  BY <1>5, <1>6, Kinds DEF Owned, BoundKnown, PoolKnown
<1>8. ASSUME NEW x \in issued, Resolves(tables'["Buffer"], x)
      PROVE  Get(tables'["Buffer"], x) = Get(tables["Buffer"], x)
  BY <1>2, <1>3, <1>8, Kinds DEF Sound
<1> QED
  BY <1>3, <1>7, <1>8 DEF IInv

LEMMA StutterKeeps ==
  ASSUME IInv, UNCHANGED <<tables, issued>>
  PROVE  /\ IInv'
         /\ \A g \in Family : Later(tables[g], tables'[g])
         /\ \A g \in Family : ~(tables'[g].live > tables[g].live)
         /\ tables'["Buffer"] = tables["Buffer"]
<1>1. Sound(KIND) /\ DOMAIN KIND = Family
  BY Kinds DEF IInv
<1>2. /\ Sound(KIND)'
      /\ \A g \in Family : Later(tables[g], tables'[g])
      /\ \A g \in Family : ~(tables'[g].live > tables[g].live)
  BY <1>1, StutterFacts
<1>3. Owned' /\ BoundKnown' /\ PoolKnown'
  BY DEF IInv, Owned, BoundKnown, PoolKnown
<1> QED
  BY <1>2, <1>3 DEF IInv

---------------------------------------------------------------------------
LEMMA InitIInv ==
  ASSUME Init PROVE IInv
<1>1. /\ Sound(KIND)
      /\ \A f \in DOMAIN KIND : LiveObjects(tables[f]) = {}
  BY EmptySound DEF Init, Family
<1>2. DOMAIN OWNER \subseteq DOMAIN KIND /\ {"Buffer", "CommandBuffer"} \subseteq DOMAIN KIND
  BY Kinds
<1> QED
  BY <1>1, <1>2 DEF IInv, Owned, BoundKnown, PoolKnown

\* Every step of the backend keeps the invariant, lets the tables only move
\* on, creates objects under new handles only, and leaves bound buffers
\* bound.
LEMMA StepFacts ==
  ASSUME IInv, [Next]_backendVars
  PROVE  /\ IInv'
         /\ \A g \in Family : Later(tables[g], tables'[g])
         /\ (\E g \in Family : tables'[g].live > tables[g].live) => issued' # issued
         /\ \A x \in issued :
              /\ Resolves(tables["Buffer"], x) /\ Resolves(tables'["Buffer"], x)
              /\ Get(tables["Buffer"], x).bound # None
              => Get(tables'["Buffer"], x).bound = Get(tables["Buffer"], x).bound
<1>1. issued \subseteq Handle
  BY DEF IInv, Sound
<1>2. CASE MintStep
  BY <1>2, MintKeeps
<1>3. CASE BindStep
  BY <1>3, BindKeeps
<1>4. CASE CountStep
  BY <1>4, CountKeeps
<1>5. CASE ReleaseStep
  BY <1>5, ReleaseKeeps
<1>6. CASE UNCHANGED <<tables, issued>>
  BY <1>6, StutterKeeps
<1> QED
  BY <1>1, <1>2, <1>3, <1>4, <1>5, <1>6, Steps

\* The tables stay sound and the references between them good.
THEOREM Invariance == Spec => []IInv
<1>1. Init => IInv
  BY InitIInv
<1>2. IInv /\ [Next]_backendVars => IInv'
  BY StepFacts
<1> QED
  BY <1>1, <1>2, PTL DEF Spec

\* What a handler checked before it minted an object under a parent stays
\* true of the object for as long as it lives: instances, physical devices
\* and devices are never removed, and no reused slot can take their place.
THEOREM ParentsCorrect == Spec => []ParentsLive
<1>1. IInv => ParentsLive
  BY DEF IInv, Owned, ParentsLive
<1> QED
  BY <1>1, Invariance, PTL

\* BIND_BUFFER_MEMORY refuses a bound buffer and no other handler writes the
\* binding, so it lasts as long as the handle.
THEOREM BindingCorrect == Spec => BoundForLife
<1>1. IInv /\ [Next]_backendVars =>
        [\A h \in issued :
           LET before == tables["Buffer"]
               after  == tables'["Buffer"]
           IN  /\ Resolves(before, h)
               /\ Resolves(after, h)
               /\ Get(before, h).bound # None
               => Get(after, h).bound = Get(before, h).bound]_backendVars
  BY StepFacts
<1> QED
  BY <1>1, Invariance, PTL DEF Spec, BoundForLife

\* The handle of freed memory in a bound buffer, or of a destroyed pool in a
\* command buffer, never comes to name what takes over the slot.
THEOREM DanglingCorrect == Spec => DanglingStaysDangling
<1> DEFINE A == /\ \A o \in LiveObjects(tables["Buffer"]) :
                     o.bound # None /\ ~Resolves(tables["Memory"], o.bound)
                       => ~Resolves(tables'["Memory"], o.bound)
                /\ \A o \in LiveObjects(tables["CommandBuffer"]) :
                     ~Resolves(tables["CommandPool"], o.owner)
                       => ~Resolves(tables'["CommandPool"], o.owner)
<1>1. ASSUME IInv, [Next]_backendVars PROVE A
  <2>1. /\ Sound(KIND) /\ Sound(KIND)'
        /\ "Memory" \in DOMAIN KIND /\ "CommandPool" \in DOMAIN KIND
        /\ "Buffer" \in Family /\ "CommandBuffer" \in DOMAIN OWNER
        /\ Later(tables["Memory"], tables'["Memory"])
        /\ Later(tables["CommandPool"], tables'["CommandPool"])
    BY <1>1, Kinds, StepFacts DEF IInv
  <2>2. ASSUME NEW o \in LiveObjects(tables["Buffer"]), o.bound # None,
               ~Resolves(tables["Memory"], o.bound)
        PROVE  ~Resolves(tables'["Memory"], o.bound)
    <3>1. o.bound \in Handle /\ Known(tables["Memory"], o.bound)
      BY <1>1, <2>1, <2>2, ObjectTypes DEF ObjectState, IInv, BoundKnown
    <3> QED
      BY <2>1, <2>2, <3>1, KnownForGood
  <2>3. ASSUME NEW o \in LiveObjects(tables["CommandBuffer"]),
               ~Resolves(tables["CommandPool"], o.owner)
        PROVE  ~Resolves(tables'["CommandPool"], o.owner)
    <3>1. o.owner \in Handle /\ Known(tables["CommandPool"], o.owner)
      BY <1>1, <2>1 DEF IInv, Owned, PoolKnown
    <3> QED
      BY <2>1, <2>3, <3>1, KnownForGood
  <2> QED
    BY <2>2, <2>3
<1>2. IInv /\ [Next]_backendVars => [A]_backendVars
  BY <1>1
<1> QED
  BY <1>2, Invariance, PTL DEF Spec, DanglingStaysDangling

\* The kinds of the eight families differ and a slot's generation moves on, so
\* a creating call never answers with a handle the client was given before.
THEOREM ReissueNever == Spec => NeverReissued
<1>1. IInv /\ [Next]_backendVars =>
        [(\E f \in Family : tables'[f].live > tables[f].live) => issued' # issued]_backendVars
  BY StepFacts
<1> QED
  BY <1>1, Invariance, PTL DEF Spec, NeverReissued

\* DESTROY_BUFFER, FREE_MEMORY and DESTROY_COMMAND_POOL take away the object
\* created under the handle they are given, and no other.
THEOREM TeardownCorrect == Spec => DestroysWhatItNames
<1> DEFINE A == \A h \in issued :
                  /\ DESTROY_BUFFER(h) /\ h.kind = KIND.Buffer => TakenAway = {h}
                  /\ FREE_MEMORY(h) /\ h.kind = KIND.Memory => TakenAway = {h}
                  /\ DESTROY_COMMAND_POOL(h) /\ h.kind = KIND.CommandPool =>
                       TakenAway = {h}
<1>1. ASSUME IInv PROVE A
  <2>1. /\ Sound(KIND) /\ KindsApart(KIND)
        /\ {"Buffer", "Memory", "CommandPool"} \subseteq DOMAIN KIND
    BY <1>1, Kinds DEF IInv
  <2>2. /\ KIND["Buffer"] = KIND.Buffer /\ KIND["Memory"] = KIND.Memory
        /\ KIND["CommandPool"] = KIND.CommandPool
    OBVIOUS
  <2> SUFFICES ASSUME NEW h \in issued
               PROVE  /\ DESTROY_BUFFER(h) /\ h.kind = KIND.Buffer => TakenAway = {h}
                      /\ FREE_MEMORY(h) /\ h.kind = KIND.Memory => TakenAway = {h}
                      /\ DESTROY_COMMAND_POOL(h) /\ h.kind = KIND.CommandPool =>
                           TakenAway = {h}
    OBVIOUS
  <2> QED
    BY <2>1, <2>2, ReleaseGone DEF DESTROY_BUFFER, FREE_MEMORY, DESTROY_COMMAND_POOL
<1>2. IInv /\ [Next]_backendVars => [A]_backendVars
  BY <1>1
<1> QED
  BY <1>2, Invariance, PTL DEF Spec, DestroysWhatItNames
===========================================================================
