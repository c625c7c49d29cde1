--------------------------- MODULE VulkanBackend ---------------------------
(***************************************************************************)
(* The Vulkan backend: eight tables, fifteen opcodes.  Handlers run one at *)
(* a time (the session owns its backends), so each is one step; a call     *)
(* that fails is a Reject step of module Backend.                          *)
(***************************************************************************)
EXTENDS Backend

\* A mutant: queues are minted under the kind of devices.
KINDShared ==
  [Instance |-> 1, PhysicalDevice |-> 2, Device |-> 3, Queue |-> 3,
   Memory |-> 5, Buffer |-> 6, CommandPool |-> 7, CommandBuffer |-> 8]

KIND ==
  [Instance |-> 1, PhysicalDevice |-> 2, Device |-> 3, Queue |-> 4,
   Memory |-> 5, Buffer |-> 6, CommandPool |-> 7, CommandBuffer |-> 8]

Family == DOMAIN KIND

\* The bounds keep every slot number within its u32 field.
ASSUME MaxSlotsAssumption == \A f \in Family : MaxSlots[f] \in 0 .. SLOT_SPACE

\* The handles a client may pass where one of family f is expected.
Arg(f) == Presented(KIND, f)

---------------------------------------------------------------------------
Init ==
  /\ tables = [f \in Family |-> EmptyTable]
  /\ issued = {}
  /\ open = TRUE

CREATE_INSTANCE == Mint("Instance", KIND.Instance, None)

\* Each call mints a new handle, for a device enumerated before as well.
ENUMERATE_PHYSICAL_DEVICES(instance) ==
  MintUnder("PhysicalDevice", KIND.PhysicalDevice, "Instance", instance)

CREATE_DEVICE(physical_device) ==
  MintUnder("Device", KIND.Device, "PhysicalDevice", physical_device)

\* A mutant: the device is not looked up.
GET_DEVICE_QUEUEUnchecked(device) == Mint("Queue", KIND.Queue, device)

GET_DEVICE_QUEUE(device) == MintUnder("Queue", KIND.Queue, "Device", device)

ALLOCATE_MEMORY(device) == MintUnder("Memory", KIND.Memory, "Device", device)

CREATE_BUFFER(device) == MintUnder("Buffer", KIND.Buffer, "Device", device)

\* A mutant: a buffer that is bound already is bound again.
BIND_BUFFER_MEMORYAgain(buffer, memory) ==
  /\ open
  /\ Resolves(tables["Memory"], memory)
  /\ Resolves(tables["Buffer"], buffer)
  /\ tables' = [tables EXCEPT !["Buffer"] =
                  Set(@, buffer, [Get(@, buffer) EXCEPT !.bound = memory])]
  /\ UNCHANGED <<issued, open>>

BIND_BUFFER_MEMORY(buffer, memory) ==
  /\ open
  /\ Resolves(tables["Memory"], memory)
  /\ Resolves(tables["Buffer"], buffer)
  /\ Get(tables["Buffer"], buffer).bound = None
  /\ tables' = [tables EXCEPT !["Buffer"] =
                  Set(@, buffer, [Get(@, buffer) EXCEPT !.bound = memory])]
  /\ UNCHANGED <<issued, open>>

CREATE_COMMAND_POOL(device) ==
  MintUnder("CommandPool", KIND.CommandPool, "Device", device)

ALLOCATE_COMMAND_BUFFER(pool) ==
  MintUnder("CommandBuffer", KIND.CommandBuffer, "CommandPool", pool)

QUEUE_SUBMIT(queue, command_buffer) ==
  /\ Check("Queue", queue)
  /\ Check("CommandBuffer", command_buffer)

CMD_COPY_BUFFER(command_buffer, src, dst) ==
  /\ Resolves(tables["Buffer"], src)
  /\ Resolves(tables["Buffer"], dst)
  /\ Count("CommandBuffer", command_buffer)

CMD_DRAW(command_buffer) == Count("CommandBuffer", command_buffer)

DESTROY_BUFFER(buffer) == Release("Buffer", buffer)

\* A mutant: the handle is looked up in the table of another family.
FREE_MEMORYWrongTable(memory) == Release("Buffer", memory)

FREE_MEMORY(memory) == Release("Memory", memory)

DESTROY_COMMAND_POOL(pool) == Release("CommandPool", pool)

Next ==
  \/ CREATE_INSTANCE
  \/ \E h \in Arg("Instance") : ENUMERATE_PHYSICAL_DEVICES(h)
  \/ \E h \in Arg("PhysicalDevice") : CREATE_DEVICE(h)
  \/ \E h \in Arg("Device") :
       \/ GET_DEVICE_QUEUE(h)
       \/ ALLOCATE_MEMORY(h)
       \/ CREATE_BUFFER(h)
       \/ CREATE_COMMAND_POOL(h)
  \/ \E h \in Arg("Buffer"), m \in Arg("Memory") : BIND_BUFFER_MEMORY(h, m)
  \/ \E h \in Arg("CommandPool") :
       \/ ALLOCATE_COMMAND_BUFFER(h)
       \/ DESTROY_COMMAND_POOL(h)
  \/ \E q \in Arg("Queue"), h \in Arg("CommandBuffer") : QUEUE_SUBMIT(q, h)
  \/ \E h \in Arg("CommandBuffer") :
       \/ \E src, dst \in Arg("Buffer") : CMD_COPY_BUFFER(h, src, dst)
       \/ CMD_DRAW(h)
  \/ \E h \in Arg("Buffer") : DESTROY_BUFFER(h)
  \/ \E h \in Arg("Memory") : FREE_MEMORY(h)
  \/ Reject

Spec == Init /\ [][Next]_backendVars

---------------------------------------------------------------------------
\* The tables an object's recorded parent belongs to.
OWNER ==
  [PhysicalDevice |-> "Instance", Device |-> "PhysicalDevice",
   Queue |-> "Device", Memory |-> "Device", Buffer |-> "Device",
   CommandPool |-> "Device", CommandBuffer |-> "CommandPool"]

\* Every object of the driver hierarchy hangs under a live parent: what a
\* handler checked before it minted an object is still true of it, except of
\* command buffers, which outlive the pool DESTROY_COMMAND_POOL removes.
ParentsLive ==
  \A f \in DOMAIN OWNER \ {"CommandBuffer"} :
    \A o \in LiveObjects(tables[f]) : Resolves(tables[OWNER[f]], o.owner)

\* A buffer that was bound once keeps that binding for as long as its handle
\* is good, whatever else is freed, allocated or recorded.
BoundForLife ==
  [][\A h \in issued :
       LET before == tables["Buffer"]
           after  == tables'["Buffer"]
       IN  /\ Resolves(before, h)
           /\ Resolves(after, h)
           /\ Get(before, h).bound # None
           => Get(after, h).bound = Get(before, h).bound]_backendVars

\* FREE_MEMORY leaves bound buffers and DESTROY_COMMAND_POOL leaves allocated
\* command buffers with a handle that names nothing: it must not come to name
\* the memory or the pool that later takes over the slot.
DanglingStaysDangling ==
  [][/\ \A o \in LiveObjects(tables["Buffer"]) :
          o.bound # None /\ ~Resolves(tables["Memory"], o.bound)
            => ~Resolves(tables'["Memory"], o.bound)
     /\ \A o \in LiveObjects(tables["CommandBuffer"]) :
          ~Resolves(tables["CommandPool"], o.owner)
            => ~Resolves(tables'["CommandPool"], o.owner)]_backendVars

\* A call that creates an object hands out a handle the client has not been
\* given before, for an object of this family or of any other.
NeverReissued ==
  [][(\E f \in Family : tables'[f].live > tables[f].live)
       => issued' # issued]_backendVars

\* A teardown call whose handle is of the family it tears down takes away
\* the object that was created under this very handle, and nothing else from
\* any of the tables.
DestroysWhatItNames ==
  [][\A h \in issued :
       /\ DESTROY_BUFFER(h) /\ h.kind = KIND.Buffer =>
            TakenAway = {h}
       /\ FREE_MEMORY(h) /\ h.kind = KIND.Memory =>
            TakenAway = {h}
       /\ DESTROY_COMMAND_POOL(h) /\ h.kind = KIND.CommandPool =>
            TakenAway = {h}]_backendVars
===========================================================================
