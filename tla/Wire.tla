------------------------------- MODULE Wire -------------------------------
(***************************************************************************)
(* The wire protocol, byte for byte: opcodes, the frame header, handles    *)
(* and the body of every request and response.  Integers are written in    *)
(* little-endian order at their full width; a body is the concatenation of *)
(* its fields, without tags or padding, so the two ends agree only if they *)
(* name the same fields in the same order.                                 *)
(***************************************************************************)
EXTENDS Integers, Sequences

LOCAL INSTANCE SequencesExt

(***************************************************************************)
(* Integers and handles.                                                   *)
(***************************************************************************)

\* What a byte counts for in its place. No value of the model needs more than
\* four bytes.
Place == <<1, 256, 65536, 16777216>>

\* to_le_bytes: n as w bytes, the lowest first.
LE(n, w) == [i \in 1 .. w |-> IF i <= 4 THEN (n \div Place[i]) % 256 ELSE 0]

\* from_le_bytes.
FromLE(b) ==
  LET upper[i \in 1 .. Len(b) + 1] == IF i > Len(b) THEN 0 ELSE b[i] + 256 * upper[i + 1]
  IN  upper[1]

\* A handle is a u64: the slot in its low word, above it 24 bits of
\* generation, the kind in its top byte.
HandleBytes(h) == LE(h.slot, 4) \o LE(h.generation, 3) \o LE(h.kind, 1)

HandleFrom(b) ==
  [kind       |-> b[8],
   generation |-> FromLE(SubSeq(b, 5, 7)),
   slot       |-> FromLE(SubSeq(b, 1, 4))]

---------------------------------------------------------------------------
(***************************************************************************)
(* Bodies.  `written` are the fields encode appends, `read` those decode   *)
(* takes from the front; bytes behind the last of them are not looked at.  *)
(***************************************************************************)
u16(name) == [name |-> name, type |-> "u16"]
u32(name) == [name |-> name, type |-> "u32"]
u64(name) == [name |-> name, type |-> "u64"]
Handle(name) == [name |-> name, type |-> "handle"]
Handles(name) == [name |-> name, type |-> "handles"]

Body(fields) == [written |-> fields, read |-> fields]

Empty == Body(<< >>)

Width == [u16 |-> 2, u32 |-> 4, u64 |-> 8, handle |-> 8]

FieldBytes(type, v) ==
  CASE type = "handle"  -> HandleBytes(v)
    [] type = "handles" -> LE(Len(v), 4) \o FlattenSeq([i \in DOMAIN v |-> HandleBytes(v[i])])
    [] OTHER            -> LE(v, Width[type])

Encode(body, v) ==
  FlattenSeq([i \in DOMAIN body.written |->
                FieldBytes(body.written[i].type, v[body.written[i].name])])

\* What Reader takes for a field that starts behind the first `at` bytes: a
\* list is as long as its count says.
Taken(type, b, at) ==
  IF type # "handles" THEN Width[type]
  ELSE 4 + (IF at + 4 <= Len(b) THEN 8 * FromLE(SubSeq(b, at + 1, at + 4)) ELSE 0)

Offsets(body, b) ==
  LET at[i \in 1 .. Len(body.read) + 1] ==
        IF i = 1 THEN 0
        ELSE LET before == at[i - 1]
             IN  before + Taken(body.read[i - 1].type, b, before)
  IN  at

\* Every read is bounds-checked: decode succeeds if the last one does.
Decodes(body, b) == Offsets(body, b)[Len(body.read) + 1] <= Len(b)

FieldFrom(type, b) ==
  CASE type = "handle"  -> HandleFrom(b)
    [] type = "handles" -> [i \in 1 .. (Len(b) - 4) \div 8 |->
                              HandleFrom(SubSeq(b, 8 * i - 3, 8 * i + 4))]
    [] OTHER            -> FromLE(b)

Decode(body, b) ==
  LET at == Offsets(body, b)
      index(name) == CHOOSE i \in DOMAIN body.read : body.read[i].name = name
  IN  [name \in {body.read[i].name : i \in DOMAIN body.read} |->
         LET i == index(name)
         IN  FieldFrom(body.read[i].type, SubSeq(b, at[i] + 1, at[i + 1]))]

---------------------------------------------------------------------------
(***************************************************************************)
(* Frames.                                                                 *)
(***************************************************************************)
FrameKind == [Request |-> 0, Response |-> 1, Event |-> 2]

FrameHeader ==
  Body(<<u16("version"), u16("flags"), u16("kind"), u16("reserved"),
         u32("opcode"), u32("req_id"), u64("seq"), u32("body_len")>>)

HEADER_LEN == 28

PROTOCOL_MAJOR == 0
PROTOCOL_MINOR == 0
DEFAULT_MAX_FRAME_BODY == 1048576

\* encode_frame under the header every sender of this repository builds.
encode_frame(kind, op, req_id, seq, b) ==
  Encode(FrameHeader,
         [version |-> PROTOCOL_MAJOR, flags |-> 0, kind |-> kind, reserved |-> 0,
          opcode |-> op, req_id |-> req_id, seq |-> seq, body_len |-> Len(b)]) \o b

HeaderOf(frame) == Decode(FrameHeader, frame)

BodyOf(frame) == SubSeq(frame, HEADER_LEN + 1, Len(frame))

\* decode_frame: the whole header is there and its kind is one of the three.
DecodesFrame(frame) ==
  /\ Len(frame) >= HEADER_LEN
  /\ HeaderOf(frame).kind \in {FrameKind[k] : k \in DOMAIN FrameKind}

Hello ==
  Body(<<u16("proto_major"), u16("proto_minor"), u32("features"),
         u32("max_frame_body")>>)

\* A mutant: decode takes the limit before the features.
WelcomeSwapped ==
  [written |-> <<u16("proto_major"), u16("proto_minor"), u32("features"),
                 u32("max_frame_body"), u64("session_id")>>,
   read    |-> <<u16("proto_major"), u16("proto_minor"), u32("max_frame_body"),
                 u32("features"), u64("session_id")>>]

Welcome ==
  Body(<<u16("proto_major"), u16("proto_minor"), u32("features"),
         u32("max_frame_body"), u64("session_id")>>)

---------------------------------------------------------------------------
(***************************************************************************)
(* Opcodes: the API in the high byte, the call in the low 24 bits.         *)
(***************************************************************************)
ApiId ==
  [Core |-> 0, Vulkan |-> 1, OpenGl |-> 2, Cuda |-> 3, OpenCl |-> 4, Hip |-> 5,
   LevelZero |-> 6, Video |-> 7, WebGpu |-> 8, OptiX |-> 9, Sycl |-> 10, Amf |-> 11]

opcode(a, call) == ApiId[a] * 2 ^ 24 + (call % 2 ^ 24)

opcode_api(op) == op \div 2 ^ 24

Opcodes(a, calls) == [c \in DOMAIN calls |-> opcode(a, calls[c])]

core_op == Opcodes("Core", [HELLO |-> 1, WELCOME |-> 2, NOOP |-> 3])

vk_op ==
  Opcodes("Vulkan",
    [CREATE_INSTANCE |-> 1, DESTROY_INSTANCE |-> 2,
     ENUMERATE_PHYSICAL_DEVICES |-> 3, GET_PHYSICAL_DEVICE_PROPERTIES |-> 4,
     CREATE_DEVICE |-> 5, DESTROY_DEVICE |-> 6, GET_DEVICE_QUEUE |-> 7,
     DEVICE_WAIT_IDLE |-> 8, ALLOCATE_MEMORY |-> 16, CREATE_BUFFER |-> 17,
     BIND_BUFFER_MEMORY |-> 18, DESTROY_BUFFER |-> 19, FREE_MEMORY |-> 20,
     CREATE_COMMAND_POOL |-> 32, ALLOCATE_COMMAND_BUFFER |-> 33,
     QUEUE_SUBMIT |-> 34, CMD_COPY_BUFFER |-> 35, CMD_DRAW |-> 36,
     DESTROY_COMMAND_POOL |-> 37])

gl_op ==
  Opcodes("OpenGl",
    [CREATE_CONTEXT |-> 1, MAKE_CURRENT |-> 2, GEN_BUFFER |-> 3,
     SWAP_BUFFERS |-> 4, DELETE_BUFFER |-> 5])

cuda_op ==
  Opcodes("Cuda",
    [CTX_CREATE |-> 1, MEM_ALLOC |-> 2, MEM_FREE |-> 3, LAUNCH_KERNEL |-> 16,
     MEMCPY_HTOD |-> 17, MEMCPY_DTOH |-> 18])

hip_op == Opcodes("Hip", [MALLOC |-> 1, FREE |-> 2, STREAM_CREATE |-> 3])

cl_op ==
  Opcodes("OpenCl",
    [CREATE_CONTEXT |-> 1, CREATE_BUFFER |-> 2, RELEASE_BUFFER |-> 3])

l0_op ==
  Opcodes("LevelZero",
    [CONTEXT_CREATE |-> 1, MEM_ALLOC_DEVICE |-> 2, MEM_FREE |-> 3])

video_op ==
  Opcodes("Video",
    [CREATE_DECODE_SESSION |-> 1, DECODE_FRAME |-> 2, DESTROY_SESSION |-> 3])

wgpu_op ==
  Opcodes("WebGpu",
    [REQUEST_DEVICE |-> 1, CREATE_BUFFER |-> 2, DESTROY_BUFFER |-> 3])

optix_op ==
  Opcodes("OptiX",
    [CONTEXT_CREATE |-> 1, PIPELINE_CREATE |-> 2, DESTROY |-> 3])

sycl_op ==
  Opcodes("Sycl",
    [QUEUE_CREATE |-> 1, MALLOC_DEVICE |-> 2, FREE |-> 3])

amf_op ==
  Opcodes("Amf",
    [CREATE_ENCODER |-> 1, ENCODE_FRAME |-> 2, DESTROY_ENCODER |-> 3])

---------------------------------------------------------------------------
(***************************************************************************)
(* The bodies, API by API.                                                 *)
(***************************************************************************)

\* Vulkan
vk_CreateInstanceRequest == Body(<<u32("app_api_version")>>)
vk_CreateInstanceResponse == Body(<<Handle("instance")>>)
vk_EnumeratePhysicalDevicesRequest == Body(<<Handle("instance")>>)
vk_EnumeratePhysicalDevicesResponse == Body(<<Handles("devices")>>)
vk_CreateDeviceRequest == Body(<<Handle("physical_device")>>)
vk_CreateDeviceResponse == Body(<<Handle("device")>>)
vk_GetDeviceQueueRequest ==
  Body(<<Handle("device"), u32("queue_family_index"), u32("queue_index")>>)
vk_GetDeviceQueueResponse == Body(<<Handle("queue")>>)
vk_AllocateMemoryRequest == Body(<<Handle("device"), u64("size")>>)
vk_AllocateMemoryResponse == Body(<<Handle("memory")>>)
vk_CreateBufferRequest ==
  Body(<<Handle("device"), u64("size"), u32("usage")>>)
vk_CreateBufferResponse == Body(<<Handle("buffer")>>)
vk_BindBufferMemoryRequest ==
  Body(<<Handle("buffer"), Handle("memory"), u64("offset")>>)
vk_CreateCommandPoolRequest ==
  Body(<<Handle("device"), u32("queue_family_index")>>)
vk_CreateCommandPoolResponse == Body(<<Handle("pool")>>)
vk_AllocateCommandBufferRequest == Body(<<Handle("pool")>>)
vk_AllocateCommandBufferResponse == Body(<<Handle("command_buffer")>>)
vk_QueueSubmitRequest == Body(<<Handle("queue"), Handle("command_buffer")>>)
vk_CmdCopyBufferRequest ==
  Body(<<Handle("command_buffer"), Handle("src"), Handle("dst"), u64("size")>>)
vk_CmdDrawRequest ==
  Body(<<Handle("command_buffer"), u32("vertex_count"), u32("instance_count")>>)
vk_DestroyBufferRequest == Body(<<Handle("buffer")>>)
vk_FreeMemoryRequest == Body(<<Handle("memory")>>)
vk_DestroyCommandPoolRequest == Body(<<Handle("pool")>>)

\* OpenGL
gl_CreateContextResponse == Body(<<Handle("context")>>)
gl_MakeCurrentRequest == Body(<<Handle("context")>>)
gl_GenBufferRequest == Body(<<Handle("context")>>)
gl_GenBufferResponse == Body(<<Handle("buffer")>>)
gl_SwapBuffersRequest == Body(<<Handle("context")>>)
gl_DeleteBufferRequest == Body(<<Handle("buffer")>>)

\* CUDA
cuda_CtxCreateRequest == Body(<<u32("device_ordinal")>>)
cuda_CtxCreateResponse == Body(<<Handle("context")>>)
cuda_MemAllocRequest == Body(<<Handle("context"), u64("size")>>)
cuda_MemAllocResponse == Body(<<Handle("dptr")>>)
cuda_MemFreeRequest == Body(<<Handle("dptr")>>)
cuda_LaunchKernelRequest ==
  Body(<<Handle("function"), u32("grid_x"), u32("grid_y"), u32("grid_z"),
         u32("block_x"), u32("block_y"), u32("block_z")>>)
cuda_MemcpyHtoDRequest == Body(<<Handle("dst"), u64("len")>>)
cuda_MemcpyDtoHRequest == Body(<<Handle("src"), u64("len")>>)
cuda_MemcpyDtoHResponse == Body(<<u64("copied")>>)

\* HIP
hip_MallocRequest == Body(<<u64("size")>>)
hip_MallocResponse == Body(<<Handle("dptr")>>)
hip_FreeRequest == Body(<<Handle("dptr")>>)
hip_StreamCreateResponse == Body(<<Handle("stream")>>)

\* OpenCL
cl_CreateContextResponse == Body(<<Handle("context")>>)
cl_CreateBufferRequest == Body(<<Handle("context"), u64("size")>>)
cl_CreateBufferResponse == Body(<<Handle("mem")>>)
cl_ReleaseBufferRequest == Body(<<Handle("mem")>>)

\* Level Zero
l0_ContextCreateResponse == Body(<<Handle("context")>>)
l0_MemAllocDeviceRequest == Body(<<Handle("context"), u64("size")>>)
l0_MemAllocDeviceResponse == Body(<<Handle("ptr")>>)
l0_MemFreeRequest == Body(<<Handle("ptr")>>)

\* Video decode
\* A mutant: decode takes the height before the width.
video_CreateDecodeSessionRequestSwapped ==
  [written |-> <<u32("codec"), u32("width"), u32("height")>>,
   read    |-> <<u32("codec"), u32("height"), u32("width")>>]
video_CreateDecodeSessionRequest ==
  Body(<<u32("codec"), u32("width"), u32("height")>>)
video_CreateDecodeSessionResponse == Body(<<Handle("session")>>)
video_DecodeFrameRequest == Body(<<Handle("session"), u32("bitstream_len")>>)
video_DecodeFrameResponse == Body(<<u32("frame_index")>>)
video_DestroySessionRequest == Body(<<Handle("session")>>)

\* WebGPU
wgpu_RequestDeviceResponse == Body(<<Handle("device")>>)
wgpu_CreateBufferRequest ==
  Body(<<Handle("device"), u64("size"), u32("usage")>>)
wgpu_CreateBufferResponse == Body(<<Handle("buffer")>>)
wgpu_DestroyBufferRequest == Body(<<Handle("buffer")>>)

\* OptiX
optix_ContextCreateResponse == Body(<<Handle("context")>>)
optix_PipelineCreateRequest == Body(<<Handle("context")>>)
optix_PipelineCreateResponse == Body(<<Handle("pipeline")>>)
optix_DestroyRequest == Body(<<Handle("handle")>>)

\* SYCL
sycl_QueueCreateResponse == Body(<<Handle("queue")>>)
sycl_MallocDeviceRequest == Body(<<Handle("queue"), u64("size")>>)
sycl_MallocDeviceResponse == Body(<<Handle("ptr")>>)
sycl_FreeRequest == Body(<<Handle("ptr")>>)

\* AMF encode
amf_CreateEncoderRequest ==
  Body(<<u32("codec"), u32("width"), u32("height")>>)
amf_CreateEncoderResponse == Body(<<Handle("encoder")>>)
amf_EncodeFrameRequest == Body(<<Handle("encoder"), u32("frame_len")>>)
amf_EncodeFrameResponse == Body(<<u32("packet_len")>>)
amf_DestroyEncoderRequest == Body(<<Handle("encoder")>>)
===========================================================================
