------------------------------- MODULE Shims -------------------------------
(***************************************************************************)
(* The client's shims, one for each API entry point it stands in for.  All *)
(* of them follow one pattern: encode the request, send it under the       *)
(* shim's opcode, wait for a frame, and accept it only if it is a response *)
(* under the expected opcode whose body decodes and whose handles are of   *)
(* the kind the shim was called for.  What differs is the data below.      *)
(***************************************************************************)
EXTENDS Wire

LOCAL INSTANCE Functions

\* A shim that returns what the body `rsp` holds, handles of `kind` only.
Shim(op, req, rsp, kind) ==
  [op |-> op, reply |-> op, req |-> req, rsp |-> rsp, kind |-> kind]

\* A shim whose answer carries no handle, and one that returns nothing: the
\* body of an acknowledgement is not looked at.
Plain(op, req, rsp) == Shim(op, req, rsp, 0)
Ack(op, req) == Plain(op, req, Empty)

\* The frame a shim sends. The ids come from its caller.
RequestFrame(s, args, req_id, seq) ==
  encode_frame(FrameKind.Request, s.op, req_id, seq, Encode(s.req, args))

\* The handles of a decoded answer.
HandlesIn(rsp, v) ==
  UNION {IF rsp.read[i].type = "handle" THEN {v[rsp.read[i].name]}
         ELSE IF rsp.read[i].type = "handles" THEN Range(v[rsp.read[i].name])
         ELSE {} : i \in DOMAIN rsp.read}

\* What a shim returns for the frame it receives.
Outcome(s, frame) ==
  IF ~DecodesFrame(frame) THEN "Protocol"
  ELSE IF HeaderOf(frame).opcode # s.reply \/ HeaderOf(frame).kind # FrameKind.Response
       THEN "UnexpectedReply"
  ELSE IF ~Decodes(s.rsp, BodyOf(frame)) THEN "Protocol"
  ELSE IF \E h \in HandlesIn(s.rsp, Decode(s.rsp, BodyOf(frame))) : h.kind # s.kind
       THEN "BadKind"
  ELSE "Ok"

---------------------------------------------------------------------------
\* Core
handshake ==
  [Plain(core_op.HELLO, Hello, Welcome) EXCEPT !.reply = core_op.WELCOME]
noop == Ack(core_op.NOOP, Empty)

\* Vulkan
vk_KIND ==
  [INSTANCE |-> 1, PHYSICAL_DEVICE |-> 2, DEVICE |-> 3, QUEUE |-> 4,
   DEVICE_MEMORY |-> 5, BUFFER |-> 6, COMMAND_POOL |-> 7, COMMAND_BUFFER |-> 8]
vk_create_instance ==
  Shim(vk_op.CREATE_INSTANCE, vk_CreateInstanceRequest,
       vk_CreateInstanceResponse, vk_KIND.INSTANCE)
vk_enumerate_physical_devices ==
  Shim(vk_op.ENUMERATE_PHYSICAL_DEVICES, vk_EnumeratePhysicalDevicesRequest,
       vk_EnumeratePhysicalDevicesResponse, vk_KIND.PHYSICAL_DEVICE)
vk_create_device ==
  Shim(vk_op.CREATE_DEVICE, vk_CreateDeviceRequest,
       vk_CreateDeviceResponse, vk_KIND.DEVICE)
vk_get_device_queue ==
  Shim(vk_op.GET_DEVICE_QUEUE, vk_GetDeviceQueueRequest,
       vk_GetDeviceQueueResponse, vk_KIND.QUEUE)
vk_allocate_memory ==
  Shim(vk_op.ALLOCATE_MEMORY, vk_AllocateMemoryRequest,
       vk_AllocateMemoryResponse, vk_KIND.DEVICE_MEMORY)
vk_create_buffer ==
  Shim(vk_op.CREATE_BUFFER, vk_CreateBufferRequest,
       vk_CreateBufferResponse, vk_KIND.BUFFER)
vk_bind_buffer_memory ==
  Ack(vk_op.BIND_BUFFER_MEMORY, vk_BindBufferMemoryRequest)
vk_create_command_pool ==
  Shim(vk_op.CREATE_COMMAND_POOL, vk_CreateCommandPoolRequest,
       vk_CreateCommandPoolResponse, vk_KIND.COMMAND_POOL)
vk_allocate_command_buffer ==
  Shim(vk_op.ALLOCATE_COMMAND_BUFFER, vk_AllocateCommandBufferRequest,
       vk_AllocateCommandBufferResponse, vk_KIND.COMMAND_BUFFER)
vk_queue_submit == Ack(vk_op.QUEUE_SUBMIT, vk_QueueSubmitRequest)
vk_cmd_copy_buffer == Ack(vk_op.CMD_COPY_BUFFER, vk_CmdCopyBufferRequest)
vk_cmd_draw == Ack(vk_op.CMD_DRAW, vk_CmdDrawRequest)
vk_destroy_buffer == Ack(vk_op.DESTROY_BUFFER, vk_DestroyBufferRequest)
vk_free_memory == Ack(vk_op.FREE_MEMORY, vk_FreeMemoryRequest)
vk_destroy_command_pool ==
  Ack(vk_op.DESTROY_COMMAND_POOL, vk_DestroyCommandPoolRequest)

\* OpenGL
gl_KIND == [GL_CONTEXT |-> 10, GL_BUFFER |-> 11]
gl_create_context ==
  Shim(gl_op.CREATE_CONTEXT, Empty,
       gl_CreateContextResponse, gl_KIND.GL_CONTEXT)
gl_make_current == Ack(gl_op.MAKE_CURRENT, gl_MakeCurrentRequest)
gl_gen_buffer ==
  Shim(gl_op.GEN_BUFFER, gl_GenBufferRequest,
       gl_GenBufferResponse, gl_KIND.GL_BUFFER)
gl_swap_buffers == Ack(gl_op.SWAP_BUFFERS, gl_SwapBuffersRequest)
gl_delete_buffer == Ack(gl_op.DELETE_BUFFER, gl_DeleteBufferRequest)

\* CUDA
cuda_KIND == [CUDA_CONTEXT |-> 20, CUDA_DEVICE_PTR |-> 21]
cuda_ctx_create ==
  Shim(cuda_op.CTX_CREATE, cuda_CtxCreateRequest,
       cuda_CtxCreateResponse, cuda_KIND.CUDA_CONTEXT)
cuda_mem_alloc ==
  Shim(cuda_op.MEM_ALLOC, cuda_MemAllocRequest,
       cuda_MemAllocResponse, cuda_KIND.CUDA_DEVICE_PTR)
cuda_mem_free == Ack(cuda_op.MEM_FREE, cuda_MemFreeRequest)

\* HIP
hip_KIND == [HIP_DEVICE_PTR |-> 30, HIP_STREAM |-> 31]
hip_malloc ==
  Shim(hip_op.MALLOC, hip_MallocRequest,
       hip_MallocResponse, hip_KIND.HIP_DEVICE_PTR)
hip_free == Ack(hip_op.FREE, hip_FreeRequest)
hip_stream_create ==
  Shim(hip_op.STREAM_CREATE, Empty,
       hip_StreamCreateResponse, hip_KIND.HIP_STREAM)

\* OpenCL
\* A mutant: the client takes buffers for contexts.
cl_KINDSwapped == [CL_CONTEXT |-> 41, CL_MEM |-> 40]
cl_KIND == [CL_CONTEXT |-> 40, CL_MEM |-> 41]
cl_create_context ==
  Shim(cl_op.CREATE_CONTEXT, Empty,
       cl_CreateContextResponse, cl_KIND.CL_CONTEXT)
cl_create_buffer ==
  Shim(cl_op.CREATE_BUFFER, cl_CreateBufferRequest,
       cl_CreateBufferResponse, cl_KIND.CL_MEM)
cl_release_buffer == Ack(cl_op.RELEASE_BUFFER, cl_ReleaseBufferRequest)

\* Level Zero
l0_KIND == [CONTEXT |-> 50, DEVICE_MEM |-> 51]
l0_context_create ==
  Shim(l0_op.CONTEXT_CREATE, Empty, l0_ContextCreateResponse, l0_KIND.CONTEXT)
l0_mem_alloc_device ==
  Shim(l0_op.MEM_ALLOC_DEVICE, l0_MemAllocDeviceRequest,
       l0_MemAllocDeviceResponse, l0_KIND.DEVICE_MEM)
l0_mem_free == Ack(l0_op.MEM_FREE, l0_MemFreeRequest)

\* Video decode
video_KIND == [VIDEO_SESSION |-> 60]
video_create_decode_session ==
  Shim(video_op.CREATE_DECODE_SESSION, video_CreateDecodeSessionRequest,
       video_CreateDecodeSessionResponse, video_KIND.VIDEO_SESSION)
video_decode_frame ==
  Plain(video_op.DECODE_FRAME, video_DecodeFrameRequest,
       video_DecodeFrameResponse)
video_destroy_session ==
  Ack(video_op.DESTROY_SESSION, video_DestroySessionRequest)

\* WebGPU
wgpu_KIND == [WGPU_DEVICE |-> 70, WGPU_BUFFER |-> 71]
wgpu_request_device ==
  Shim(wgpu_op.REQUEST_DEVICE, Empty,
       wgpu_RequestDeviceResponse, wgpu_KIND.WGPU_DEVICE)
wgpu_create_buffer ==
  Shim(wgpu_op.CREATE_BUFFER, wgpu_CreateBufferRequest,
       wgpu_CreateBufferResponse, wgpu_KIND.WGPU_BUFFER)
wgpu_destroy_buffer == Ack(wgpu_op.DESTROY_BUFFER, wgpu_DestroyBufferRequest)

\* OptiX
optix_KIND == [OPTIX_CONTEXT |-> 80, OPTIX_PIPELINE |-> 81]
optix_context_create ==
  Shim(optix_op.CONTEXT_CREATE, Empty,
       optix_ContextCreateResponse, optix_KIND.OPTIX_CONTEXT)
optix_pipeline_create ==
  Shim(optix_op.PIPELINE_CREATE, optix_PipelineCreateRequest,
       optix_PipelineCreateResponse, optix_KIND.OPTIX_PIPELINE)
optix_destroy == Ack(optix_op.DESTROY, optix_DestroyRequest)

\* SYCL
sycl_KIND == [SYCL_QUEUE |-> 90, SYCL_DEVICE_PTR |-> 91]
sycl_queue_create ==
  Shim(sycl_op.QUEUE_CREATE, Empty,
       sycl_QueueCreateResponse, sycl_KIND.SYCL_QUEUE)
sycl_malloc_device ==
  Shim(sycl_op.MALLOC_DEVICE, sycl_MallocDeviceRequest,
       sycl_MallocDeviceResponse, sycl_KIND.SYCL_DEVICE_PTR)
sycl_free == Ack(sycl_op.FREE, sycl_FreeRequest)

\* AMF encode
amf_KIND == [AMF_ENCODER |-> 100]
amf_create_encoder ==
  Shim(amf_op.CREATE_ENCODER, amf_CreateEncoderRequest,
       amf_CreateEncoderResponse, amf_KIND.AMF_ENCODER)
amf_encode_frame ==
  Plain(amf_op.ENCODE_FRAME, amf_EncodeFrameRequest, amf_EncodeFrameResponse)
amf_destroy_encoder == Ack(amf_op.DESTROY_ENCODER, amf_DestroyEncoderRequest)

---------------------------------------------------------------------------
\* Requests the protocol defines and no shim sends.
cuda_launch_kernel == Ack(cuda_op.LAUNCH_KERNEL, cuda_LaunchKernelRequest)
cuda_memcpy_htod == Ack(cuda_op.MEMCPY_HTOD, cuda_MemcpyHtoDRequest)
cuda_memcpy_dtoh ==
  Plain(cuda_op.MEMCPY_DTOH, cuda_MemcpyDtoHRequest, cuda_MemcpyDtoHResponse)

\* The shims of each API.
SHIMS ==
  [Vulkan |-> {vk_create_instance, vk_enumerate_physical_devices,
      vk_create_device, vk_get_device_queue, vk_allocate_memory,
      vk_create_buffer, vk_bind_buffer_memory, vk_create_command_pool,
      vk_allocate_command_buffer, vk_queue_submit, vk_cmd_copy_buffer,
      vk_cmd_draw, vk_destroy_buffer, vk_free_memory, vk_destroy_command_pool},
   OpenGl |-> {gl_create_context, gl_make_current, gl_gen_buffer,
      gl_swap_buffers, gl_delete_buffer},
   Cuda |-> {cuda_ctx_create, cuda_mem_alloc, cuda_mem_free},
   Hip |-> {hip_malloc, hip_free, hip_stream_create},
   OpenCl |-> {cl_create_context, cl_create_buffer, cl_release_buffer},
   LevelZero |-> {l0_context_create, l0_mem_alloc_device, l0_mem_free},
   Video |-> {video_create_decode_session, video_decode_frame,
      video_destroy_session},
   WebGpu |-> {wgpu_request_device, wgpu_create_buffer, wgpu_destroy_buffer},
   OptiX |-> {optix_context_create, optix_pipeline_create, optix_destroy},
   Sycl |-> {sycl_queue_create, sycl_malloc_device, sycl_free},
   Amf |-> {amf_create_encoder, amf_encode_frame, amf_destroy_encoder}]
===========================================================================
