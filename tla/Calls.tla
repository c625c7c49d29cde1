------------------------------- MODULE Calls -------------------------------
(***************************************************************************)
(* One client and one session, byte for byte: an application calls a shim, *)
(* the session decodes the frame and routes it to the backend of its API,  *)
(* the backend acts and answers, the shim decodes the answer.  The client, *)
(* the protocol crate and the backends each state opcodes, bodies and      *)
(* kinds for themselves; here they meet.                                   *)
(*                                                                         *)
(* Frames may also come from other programs than this client and server:   *)
(* cut short, longer than their fields, under another frame kind.  The     *)
(* numbering of frames is the subject of module Remoting; here every frame *)
(* carries the same ids.                                                   *)
(***************************************************************************)
EXTENDS Shims, FiniteSets, Functions

CONSTANTS
  GENERATION_MAX, SLOT_SPACE, COUNT_MAX, MaxSlots, Stray, None, \* as in Backend
  Apis,        \* the APIs under study
  Scalar,      \* the value passed for an argument that is not a handle, by name
  Forged,      \* a handle no server gave out
  FOREIGN_MAX, \* bounds the handles issued before a request is mangled
  REQ_ID, SEQ, \* the ids frames carry
  SESSION_ID

VARIABLES
  tables, issued, open, api, returned, \* as in Backend and ApiBackends
  phase,         \* where a call is: "idle", "request", "serving", "reply", "returned"
  call,          \* the shim that was called and its arguments
  wire,          \* the frame on its way
  served,        \* the request as the server read it and the answer it gave
  outcome,       \* what the shim returned
  held,          \* the objects the application believes to own
  clean          \* FALSE once a reply has been mangled

callVars == <<phase, call, wire, served, outcome, held, clean>>
vars == <<tables, issued, open, api, returned, callVars>>

Vk == INSTANCE VulkanBackend
Ab == INSTANCE ApiBackends

\* The families of objects of each backend, with the kinds of their handles.
Kinds ==
  [Vulkan |-> Vk!KIND, OpenGl |-> Ab!KIND_GL, Cuda |-> Ab!KIND_CUDA,
   Hip |-> Ab!KIND_HIP, OpenCl |-> Ab!KIND_CL, LevelZero |-> Ab!KIND_L0,
   Video |-> Ab!KIND_VIDEO, WebGpu |-> Ab!KIND_WGPU, OptiX |-> Ab!KIND_OPTIX,
   Sycl |-> Ab!KIND_SYCL, Amf |-> Ab!KIND_AMF]

Init ==
  /\ api \in Apis
  /\ tables = [f \in DOMAIN Kinds[api] |-> Ab!EmptyTable]
  /\ issued = {}
  /\ open = TRUE
  /\ returned = {}
  /\ phase = "idle"
  /\ call = None
  /\ wire = << >>
  /\ served = None
  /\ outcome = None
  /\ held = {}
  /\ clean = TRUE

---------------------------------------------------------------------------
(***************************************************************************)
(* Frames of other programs.                                               *)
(***************************************************************************)

\* The frame with other bytes from position p on.
Overwrite(w, p, b) ==
  [i \in DOMAIN w |-> IF i \in p .. p + Len(b) - 1 THEN b[i - p + 1] ELSE w[i]]

\* The frame with a header that declares n bytes of body; with another kind.
Declaring(w, n) == Overwrite(w, 25, LE(n, 4))
Labelled(w, k) == Overwrite(w, 5, LE(k, 2))

\* Cut short with a header that declares what is left, or not; longer by a
\* byte, declared or not; under any frame kind and under none.
Mangled(w) ==
  {SubSeq(w, 1, n) : n \in {0, HEADER_LEN - 1, Len(w) - 1}}
    \cup {Declaring(SubSeq(w, 1, n), n - HEADER_LEN) : n \in HEADER_LEN .. Len(w) - 1}
    \cup {Append(w, 0), Declaring(Append(w, 0), Len(w) + 1 - HEADER_LEN)}
    \cup {Labelled(w, k) : k \in 0 .. 3}

---------------------------------------------------------------------------
(***************************************************************************)
(* The application and its shims.                                          *)
(***************************************************************************)

\* The kinds of the handles an application passes under each name. The shims do
\* not look at the kind of an argument: that applications do not take a handle of
\* one family for one of another is an assumption about them.
FITS ==
  [instance |-> {1}, physical_device |-> {2}, device |-> {3, 70},
   queue |-> {4, 90}, memory |-> {5}, buffer |-> {6, 11, 71}, src |-> {6, 21},
   dst |-> {6, 21}, pool |-> {7}, command_buffer |-> {8},
   context |-> {10, 20, 40, 50, 80}, dptr |-> {21, 30}, function |-> {},
   mem |-> {41}, ptr |-> {51, 91}, session |-> {60}, encoder |-> {100},
   handle |-> {80, 81}]

HandleNames(body) ==
  {f.name : f \in {g \in Range(body.written) : g.type = "handle"}}

Names(body) == {f.name : f \in Range(body.written)}

\* The arguments of a call: handles of the right kind that the application was
\* given, good or stale, or a forged one.
Args(body) ==
  LET Candidates(n) == {h \in issued : h.kind \in FITS[n]} \cup {Forged}
      Choices == {a \in [HandleNames(body) -> issued \cup {Forged}] :
                    \A n \in HandleNames(body) : a[n] \in Candidates(n)}
  IN  {[n \in Names(body) |-> IF n \in DOMAIN a THEN a[n] ELSE Scalar[n]] :
         a \in Choices}

\* The first half of a shim: encode and send. A bound: nothing is called after
\* a reply was mangled.
Request(s, args) ==
  /\ phase = "idle"
  /\ open
  /\ clean
  /\ phase' = "request"
  /\ call' = [shim |-> s, args |-> args]
  /\ \E w \in {RequestFrame(s, args, REQ_ID, SEQ)} :
       \/ wire' = w
       \/ Cardinality(issued) <= FOREIGN_MAX /\ wire' \in Mangled(w)
  /\ UNCHANGED <<tables, issued, open, api, returned, served, outcome, held, clean>>

Connect ==
  Request(handshake,
          [proto_major |-> PROTOCOL_MAJOR, proto_minor |-> PROTOCOL_MINOR,
           features |-> 0, max_frame_body |-> DEFAULT_MAX_FRAME_BODY])

Noop == Request(noop, << >>)

\* A bound: nothing is created in a family whose table is full.
MayCreate(s) ==
  s.kind # 0 => \A f \in DOMAIN tables : Kinds[api][f] = s.kind => Ab!Room(f)

CallShim ==
  \E s \in SHIMS[api] :
    /\ MayCreate(s)
    /\ \E args \in Args(s.req) : Request(s, args)

\* The protocol defines three CUDA requests that no shim sends and no backend
\* serves.
CallUnserved ==
  /\ api = "Cuda"
  /\ \E s \in {cuda_launch_kernel, cuda_memcpy_htod, cuda_memcpy_dtoh} :
       \E args \in Args(s.req) : Request(s, args)

\* The second half: look at the frame that was received.
Return ==
  /\ phase = "reply"
  /\ outcome' = Outcome(call.shim, wire)
  /\ phase' = "returned"
  /\ UNCHANGED <<tables, issued, open, api, returned, call, wire, served, held, clean>>

Result == Decode(call.shim.rsp, BodyOf(wire))

\* The shims that end the life of the object they are given.
TEARDOWN ==
  {vk_destroy_buffer, vk_free_memory, vk_destroy_command_pool, gl_delete_buffer,
   cuda_mem_free, hip_free, cl_release_buffer, l0_mem_free, video_destroy_session,
   wgpu_destroy_buffer, optix_destroy, sycl_free, amf_destroy_encoder}

\* The application keeps account of what it owns.
Finish ==
  /\ phase = "returned"
  /\ held' = IF outcome # "Ok" THEN held
             ELSE IF call.shim \in TEARDOWN
             THEN held \ {call.args[n] : n \in DOMAIN call.args}
             ELSE held \cup HandlesIn(call.shim.rsp, Result)
  /\ phase' = "idle"
  /\ call' = None
  /\ wire' = << >>
  /\ served' = None
  /\ outcome' = None
  /\ UNCHANGED <<tables, issued, open, api, returned, clean>>

---------------------------------------------------------------------------
(***************************************************************************)
(* The session and its backends.                                           *)
(***************************************************************************)

\* Session::handle, before it looks at the opcode. The limit is the default:
\* the handshake of this client asks for no other.
WellFramed(h, b) ==
  /\ h.body_len <= DEFAULT_MAX_FRAME_BODY
  /\ h.body_len = Len(b)

\* The opcodes a handler knows, with the body it decodes and the one it
\* encodes; where it does not look at the body, that is Empty.
Arm(op, req, rsp) == [op |-> op, reply |-> op, req |-> req, rsp |-> rsp]

core_arms ==
  {[Arm(core_op.HELLO, Hello, Welcome) EXCEPT !.reply = core_op.WELCOME],
   Arm(core_op.NOOP, Empty, Empty)}

vk_arms ==
  {Arm(vk_op.CREATE_INSTANCE, vk_CreateInstanceRequest,
       vk_CreateInstanceResponse),
   Arm(vk_op.ENUMERATE_PHYSICAL_DEVICES, vk_EnumeratePhysicalDevicesRequest,
       vk_EnumeratePhysicalDevicesResponse),
   Arm(vk_op.CREATE_DEVICE, vk_CreateDeviceRequest, vk_CreateDeviceResponse),
   Arm(vk_op.GET_DEVICE_QUEUE, vk_GetDeviceQueueRequest,
       vk_GetDeviceQueueResponse),
   Arm(vk_op.ALLOCATE_MEMORY, vk_AllocateMemoryRequest,
       vk_AllocateMemoryResponse),
   Arm(vk_op.CREATE_BUFFER, vk_CreateBufferRequest, vk_CreateBufferResponse),
   Arm(vk_op.BIND_BUFFER_MEMORY, vk_BindBufferMemoryRequest, Empty),
   Arm(vk_op.CREATE_COMMAND_POOL, vk_CreateCommandPoolRequest,
       vk_CreateCommandPoolResponse),
   Arm(vk_op.ALLOCATE_COMMAND_BUFFER, vk_AllocateCommandBufferRequest,
       vk_AllocateCommandBufferResponse),
   Arm(vk_op.QUEUE_SUBMIT, vk_QueueSubmitRequest, Empty),
   Arm(vk_op.CMD_COPY_BUFFER, vk_CmdCopyBufferRequest, Empty),
   Arm(vk_op.CMD_DRAW, vk_CmdDrawRequest, Empty),
   Arm(vk_op.DESTROY_BUFFER, vk_DestroyBufferRequest, Empty),
   Arm(vk_op.FREE_MEMORY, vk_FreeMemoryRequest, Empty),
   Arm(vk_op.DESTROY_COMMAND_POOL, vk_DestroyCommandPoolRequest, Empty)}

gl_arms ==
  {Arm(gl_op.CREATE_CONTEXT, Empty, gl_CreateContextResponse),
   Arm(gl_op.MAKE_CURRENT, gl_MakeCurrentRequest, Empty),
   Arm(gl_op.GEN_BUFFER, gl_GenBufferRequest, gl_GenBufferResponse),
   Arm(gl_op.SWAP_BUFFERS, gl_SwapBuffersRequest, Empty),
   Arm(gl_op.DELETE_BUFFER, gl_DeleteBufferRequest, Empty)}

cuda_arms ==
  {Arm(cuda_op.CTX_CREATE, cuda_CtxCreateRequest, cuda_CtxCreateResponse),
   Arm(cuda_op.MEM_ALLOC, cuda_MemAllocRequest, cuda_MemAllocResponse),
   Arm(cuda_op.MEM_FREE, cuda_MemFreeRequest, Empty)}

hip_arms ==
  {Arm(hip_op.MALLOC, hip_MallocRequest, hip_MallocResponse),
   Arm(hip_op.FREE, hip_FreeRequest, Empty),
   Arm(hip_op.STREAM_CREATE, Empty, hip_StreamCreateResponse)}

cl_arms ==
  {Arm(cl_op.CREATE_CONTEXT, Empty, cl_CreateContextResponse),
   Arm(cl_op.CREATE_BUFFER, cl_CreateBufferRequest, cl_CreateBufferResponse),
   Arm(cl_op.RELEASE_BUFFER, cl_ReleaseBufferRequest, Empty)}

l0_arms ==
  {Arm(l0_op.CONTEXT_CREATE, Empty, l0_ContextCreateResponse),
   Arm(l0_op.MEM_ALLOC_DEVICE, l0_MemAllocDeviceRequest,
       l0_MemAllocDeviceResponse),
   Arm(l0_op.MEM_FREE, l0_MemFreeRequest, Empty)}

video_arms ==
  {Arm(video_op.CREATE_DECODE_SESSION, video_CreateDecodeSessionRequest,
       video_CreateDecodeSessionResponse),
   Arm(video_op.DECODE_FRAME, video_DecodeFrameRequest,
       video_DecodeFrameResponse),
   Arm(video_op.DESTROY_SESSION, video_DestroySessionRequest, Empty)}

wgpu_arms ==
  {Arm(wgpu_op.REQUEST_DEVICE, Empty, wgpu_RequestDeviceResponse),
   Arm(wgpu_op.CREATE_BUFFER, wgpu_CreateBufferRequest,
       wgpu_CreateBufferResponse),
   Arm(wgpu_op.DESTROY_BUFFER, wgpu_DestroyBufferRequest, Empty)}

optix_arms ==
  {Arm(optix_op.CONTEXT_CREATE, Empty, optix_ContextCreateResponse),
   Arm(optix_op.PIPELINE_CREATE, optix_PipelineCreateRequest,
       optix_PipelineCreateResponse),
   Arm(optix_op.DESTROY, optix_DestroyRequest, Empty)}

sycl_arms ==
  {Arm(sycl_op.QUEUE_CREATE, Empty, sycl_QueueCreateResponse),
   Arm(sycl_op.MALLOC_DEVICE, sycl_MallocDeviceRequest,
       sycl_MallocDeviceResponse),
   Arm(sycl_op.FREE, sycl_FreeRequest, Empty)}

amf_arms ==
  {Arm(amf_op.CREATE_ENCODER, amf_CreateEncoderRequest,
       amf_CreateEncoderResponse),
   Arm(amf_op.ENCODE_FRAME, amf_EncodeFrameRequest, amf_EncodeFrameResponse),
   Arm(amf_op.DESTROY_ENCODER, amf_DestroyEncoderRequest, Empty)}

\* The session routes an opcode to the backend registered for its API; a
\* backend serves no opcode of another.
ARMS ==
  [Vulkan |-> vk_arms, OpenGl |-> gl_arms, Cuda |-> cuda_arms, Hip |-> hip_arms,
   OpenCl |-> cl_arms, LevelZero |-> l0_arms, Video |-> video_arms,
   WebGpu |-> wgpu_arms, OptiX |-> optix_arms, Sycl |-> sycl_arms, Amf |-> amf_arms]

Routed(op) ==
  {a \in core_arms \cup (IF opcode_api(op) = ApiId[api] THEN ARMS[api] ELSE {}) :
     a.op = op}

\* What the session makes of a frame: the arm it is routed to and the request
\* decoded there. There is none if the frame or the body does not decode.
Understood(w) ==
  IF ~DecodesFrame(w) THEN {}
  ELSE UNION {{[arm |-> a, req_id |-> h.req_id, req |-> Decode(a.req, b), rsp |-> None] :
                 a \in {x \in Routed(h.opcode) : WellFramed(h, b) /\ Decodes(x.req, b)}} :
                h \in {HeaderOf(w)}, b \in {BodyOf(w)}}

Receive ==
  /\ phase = "request"
  /\ served' \in Understood(wire)
  /\ phase' = "serving"
  /\ UNCHANGED <<tables, issued, open, api, returned, call, wire, outcome, held, clean>>

On(op) == served.arm.op = op

\* What each handler does with the request r it has decoded.
CoreDoes(r) ==
  /\ \/ On(core_op.HELLO) /\ r.proto_major = PROTOCOL_MAJOR
     \/ On(core_op.NOOP)
  /\ UNCHANGED <<tables, issued, open>>

VulkanDoes(r) ==
  \/ On(vk_op.CREATE_INSTANCE) /\ Vk!CREATE_INSTANCE
  \/ On(vk_op.ENUMERATE_PHYSICAL_DEVICES) /\ Vk!ENUMERATE_PHYSICAL_DEVICES(r.instance)
  \/ On(vk_op.CREATE_DEVICE) /\ Vk!CREATE_DEVICE(r.physical_device)
  \/ On(vk_op.GET_DEVICE_QUEUE) /\ Vk!GET_DEVICE_QUEUE(r.device)
  \/ On(vk_op.ALLOCATE_MEMORY) /\ Vk!ALLOCATE_MEMORY(r.device)
  \/ On(vk_op.CREATE_BUFFER) /\ Vk!CREATE_BUFFER(r.device)
  \/ On(vk_op.BIND_BUFFER_MEMORY) /\ Vk!BIND_BUFFER_MEMORY(r.buffer, r.memory)
  \/ On(vk_op.CREATE_COMMAND_POOL) /\ Vk!CREATE_COMMAND_POOL(r.device)
  \/ On(vk_op.ALLOCATE_COMMAND_BUFFER) /\ Vk!ALLOCATE_COMMAND_BUFFER(r.pool)
  \/ On(vk_op.QUEUE_SUBMIT) /\ Vk!QUEUE_SUBMIT(r.queue, r.command_buffer)
  \/ On(vk_op.CMD_COPY_BUFFER) /\ Vk!CMD_COPY_BUFFER(r.command_buffer, r.src, r.dst)
  \/ On(vk_op.CMD_DRAW) /\ Vk!CMD_DRAW(r.command_buffer)
  \/ On(vk_op.DESTROY_BUFFER) /\ Vk!DESTROY_BUFFER(r.buffer)
  \/ On(vk_op.FREE_MEMORY) /\ Vk!FREE_MEMORY(r.memory)
  \/ On(vk_op.DESTROY_COMMAND_POOL) /\ Vk!DESTROY_COMMAND_POOL(r.pool)

GlDoes(r) ==
  \/ On(gl_op.CREATE_CONTEXT) /\ Ab!GlCreateContext
  \/ On(gl_op.MAKE_CURRENT) /\ Ab!GlMakeCurrent(r.context)
  \/ On(gl_op.GEN_BUFFER) /\ Ab!GlGenBuffer(r.context)
  \/ On(gl_op.SWAP_BUFFERS) /\ Ab!GlSwapBuffers(r.context)
  \/ On(gl_op.DELETE_BUFFER) /\ Ab!GlDeleteBuffer(r.buffer)

CudaDoes(r) ==
  \/ On(cuda_op.CTX_CREATE) /\ Ab!CudaCtxCreate
  \/ On(cuda_op.MEM_ALLOC) /\ Ab!CudaMemAlloc(r.context)
  \/ On(cuda_op.MEM_FREE) /\ Ab!CudaMemFree(r.dptr)

HipDoes(r) ==
  \/ On(hip_op.MALLOC) /\ Ab!HipMalloc
  \/ On(hip_op.FREE) /\ Ab!HipFree(r.dptr)
  \/ On(hip_op.STREAM_CREATE) /\ Ab!HipStreamCreate

ClDoes(r) ==
  \/ On(cl_op.CREATE_CONTEXT) /\ Ab!ClCreateContext
  \/ On(cl_op.CREATE_BUFFER) /\ Ab!ClCreateBuffer(r.context)
  \/ On(cl_op.RELEASE_BUFFER) /\ Ab!ClReleaseBuffer(r.mem)

L0Does(r) ==
  \/ On(l0_op.CONTEXT_CREATE) /\ Ab!L0ContextCreate
  \/ On(l0_op.MEM_ALLOC_DEVICE) /\ Ab!L0MemAllocDevice(r.context)
  \/ On(l0_op.MEM_FREE) /\ Ab!L0MemFree(r.ptr)

VideoDoes(r) ==
  \/ On(video_op.CREATE_DECODE_SESSION) /\ Ab!VideoCreateDecodeSession
  \/ On(video_op.DESTROY_SESSION) /\ Ab!VideoDestroySession(r.session)

WgpuDoes(r) ==
  \/ On(wgpu_op.REQUEST_DEVICE) /\ Ab!WgpuRequestDevice
  \/ On(wgpu_op.CREATE_BUFFER) /\ Ab!WgpuCreateBuffer(r.device)
  \/ On(wgpu_op.DESTROY_BUFFER) /\ Ab!WgpuDestroyBuffer(r.buffer)

OptixDoes(r) ==
  \/ On(optix_op.CONTEXT_CREATE) /\ Ab!OptixContextCreate
  \/ On(optix_op.PIPELINE_CREATE) /\ Ab!OptixPipelineCreate(r.context)
  \/ On(optix_op.DESTROY) /\ Ab!OptixDestroy(r.handle)

SyclDoes(r) ==
  \/ On(sycl_op.QUEUE_CREATE) /\ Ab!SyclQueueCreate
  \/ On(sycl_op.MALLOC_DEVICE) /\ Ab!SyclMallocDevice(r.queue)
  \/ On(sycl_op.FREE) /\ Ab!SyclFree(r.ptr)

AmfDoes(r) ==
  \/ On(amf_op.CREATE_ENCODER) /\ Ab!AmfCreateEncoder
  \/ On(amf_op.ENCODE_FRAME) /\ Ab!AmfEncodeFrame(r.encoder)
  \/ On(amf_op.DESTROY_ENCODER) /\ Ab!AmfDestroyEncoder(r.encoder)

\* The handle of the object a handler has created.
Minted == CHOOSE h \in issued' \ issued : TRUE

\* What a handler puts in its answer.
Answer(r) ==
  CASE On(core_op.HELLO) ->
         [proto_major |-> PROTOCOL_MAJOR, proto_minor |-> PROTOCOL_MINOR, features |-> 0,
          max_frame_body |-> IF r.max_frame_body < DEFAULT_MAX_FRAME_BODY
                             THEN r.max_frame_body ELSE DEFAULT_MAX_FRAME_BODY,
          session_id |-> SESSION_ID]
    [] On(vk_op.ENUMERATE_PHYSICAL_DEVICES) -> [devices |-> <<Minted>>]
    [] On(video_op.DECODE_FRAME) ->
         [frame_index |-> Ab!Get(tables["VideoSession"], r.session).count]
    [] On(amf_op.ENCODE_FRAME) -> [packet_len |-> r.frame_len]
    [] OTHER -> [n \in Names(served.arm.rsp) |-> Minted]

\* The handler acts, and Session::reply frames its answer.
Act ==
  LET r == served.req
  IN  \/ CoreDoes(r) /\ UNCHANGED returned
      \/ VulkanDoes(r) /\ UNCHANGED returned
      \/ GlDoes(r) /\ UNCHANGED returned
      \/ CudaDoes(r) /\ UNCHANGED returned
      \/ HipDoes(r) /\ UNCHANGED returned
      \/ ClDoes(r) /\ UNCHANGED returned
      \/ L0Does(r) /\ UNCHANGED returned
      \/ VideoDoes(r) /\ UNCHANGED returned
      \/ On(video_op.DECODE_FRAME) /\ Ab!VideoDecodeFrame(r.session)
      \/ WgpuDoes(r) /\ UNCHANGED returned
      \/ OptixDoes(r) /\ UNCHANGED returned
      \/ SyclDoes(r) /\ UNCHANGED returned
      \/ AmfDoes(r) /\ UNCHANGED returned

Serve ==
  /\ phase = "serving"
  /\ Act
  /\ \E v \in {Answer(served.req)} :
       /\ served' = [served EXCEPT !.rsp = v]
       /\ \E w \in {encode_frame(FrameKind.Response, served.arm.reply, served.req_id, SEQ,
                                 Encode(served.arm.rsp, v))} :
            \/ wire' = w /\ UNCHANGED clean
            \/ clean /\ wire' \in Mangled(w) /\ clean' = FALSE
  /\ phase' = "reply"
  /\ UNCHANGED <<api, call, outcome, held>>

\* Whatever is not served is refused: the session ends, the shim's recv fails.
Refuse ==
  /\ \/ phase = "request" /\ Understood(wire) = {}
     \/ phase = "serving" /\ ~ENABLED Act
  /\ Ab!Reject
  /\ phase' = "returned"
  /\ outcome' = "Transport"
  /\ served' = None
  /\ UNCHANGED <<api, returned, call, wire, held, clean>>

---------------------------------------------------------------------------
Next ==
  \/ Connect
  \/ Noop
  \/ CallShim
  \/ CallUnserved
  \/ Receive
  \/ Serve
  \/ Refuse
  \/ Return
  \/ Finish

Spec == Init /\ [][Next]_vars

---------------------------------------------------------------------------
\* A request that is served at all is understood as the caller meant it: the
\* backend reads every argument at its width and in its place, and no frame
\* that lost a byte of an argument is served, whatever its header declares.
AcceptedIsUnderstood == phase \in {"serving", "reply"} => served.req = call.args

\* A call the server has acted on succeeds: the shim finds the opcode, the
\* body and the kinds of handle it expects in the answer, so that the client
\* never fails a call whose effect is there.
AnsweredCallsSucceed ==
  phase = "returned" /\ served # None /\ clean => outcome = "Ok"

\* What a shim returns is what the backend answered, also if the reply was
\* mangled on the way: then the shim fails, or nothing of it was touched.
ResultIsTheServers ==
  phase = "returned" /\ outcome = "Ok" /\ call.shim.rsp # Empty
    => Result = served.rsp

\* Between two calls, the objects the application believes to own are those
\* alive in the tables of the backend, under the same handles: nothing is
\* leaked, lost or destroyed behind its back. This is for an application that
\* passes handles of the right kind (FITS): one that does not can have another
\* object destroyed, since the tables resolve handles of any kind. (OptiX is left
\* out, whose DESTROY takes away another object than it is asked to.)
BooksAgree ==
  phase = "idle" /\ clean /\ api # "OptiX"
    => held = UNION {Ab!LiveHandles(tables[f]) : f \in DOMAIN tables}
===========================================================================
