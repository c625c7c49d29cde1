---------------------------- MODULE ApiBackends ----------------------------
(***************************************************************************)
(* The ten small backends: OpenGL, CUDA, HIP, OpenCL, Level Zero, video    *)
(* decode, WebGPU, OptiX, SYCL and AMF encode.  The session routes an      *)
(* opcode to the backend of its API and no backend sees another's tables,  *)
(* so a behaviour follows one of them, chosen in the initial state.        *)
(***************************************************************************)
EXTENDS Backend

CONSTANTS Apis  \* the APIs under study

VARIABLES
  api,      \* the backend this behaviour is about
  returned  \* history: the frame indices DECODE_FRAME returned, by session

apiVars == <<tables, issued, open, api, returned>>

(***************************************************************************)
(* The families of objects of each backend, with the kinds of their        *)
(* handles.                                                                *)
(***************************************************************************)
KIND_GL == [GlContext |-> 10, GlBuffer |-> 11]
KIND_CUDA == [CudaContext |-> 20, CudaDevicePtr |-> 21]
KIND_HIP == [HipDevicePtr |-> 30, HipStream |-> 31]
KIND_CL == [ClContext |-> 40, ClMem |-> 41]
KIND_L0 == [L0Context |-> 50, L0DeviceMem |-> 51]
KIND_VIDEO == [VideoSession |-> 60]
KIND_WGPU == [WgpuDevice |-> 70, WgpuBuffer |-> 71]
\* A mutant: pipelines are minted under the kind of contexts.
KIND_OPTIXShared == [OptixContext |-> 80, OptixPipeline |-> 80]
KIND_OPTIX == [OptixContext |-> 80, OptixPipeline |-> 81]
KIND_SYCL == [SyclQueue |-> 90, SyclDevicePtr |-> 91]
KIND_AMF == [AmfEncoder |-> 100]

KIND ==
  [GlContext |-> KIND_GL.GlContext, GlBuffer |-> KIND_GL.GlBuffer,
   CudaContext |-> KIND_CUDA.CudaContext, CudaDevicePtr |-> KIND_CUDA.CudaDevicePtr,
   HipDevicePtr |-> KIND_HIP.HipDevicePtr, HipStream |-> KIND_HIP.HipStream,
   ClContext |-> KIND_CL.ClContext, ClMem |-> KIND_CL.ClMem,
   L0Context |-> KIND_L0.L0Context, L0DeviceMem |-> KIND_L0.L0DeviceMem,
   VideoSession |-> KIND_VIDEO.VideoSession,
   WgpuDevice |-> KIND_WGPU.WgpuDevice, WgpuBuffer |-> KIND_WGPU.WgpuBuffer,
   OptixContext |-> KIND_OPTIX.OptixContext, OptixPipeline |-> KIND_OPTIX.OptixPipeline,
   SyclQueue |-> KIND_SYCL.SyclQueue, SyclDevicePtr |-> KIND_SYCL.SyclDevicePtr,
   AmfEncoder |-> KIND_AMF.AmfEncoder]

Family == DOMAIN KIND

\* The bounds keep every slot number within its u32 field.
ASSUME MaxSlotsAssumption == \A f \in Family : MaxSlots[f] \in 0 .. SLOT_SPACE

Arg(f) == Presented(KIND, f)

Init ==
  /\ tables = [f \in Family |-> EmptyTable]
  /\ issued = {}
  /\ open = TRUE
  /\ api \in Apis
  /\ returned = {}

---------------------------------------------------------------------------
\* What a handler of API a does to the shared state.
Serve(a, action) ==
  /\ api = a
  /\ action
  /\ UNCHANGED <<api, returned>>

\* OpenGL
GlCreateContext == Mint("GlContext", KIND_GL.GlContext, None)
GlMakeCurrent(context) == Check("GlContext", context)
GlGenBuffer(context) ==
  MintUnder("GlBuffer", KIND_GL.GlBuffer, "GlContext", context)
GlSwapBuffers(context) == Check("GlContext", context)
GlDeleteBuffer(buffer) == Release("GlBuffer", buffer)

Gl ==
  \/ GlCreateContext
  \/ \E h \in Arg("GlContext") :
       GlMakeCurrent(h) \/ GlGenBuffer(h) \/ GlSwapBuffers(h)
  \/ \E h \in Arg("GlBuffer") : GlDeleteBuffer(h)

\* CUDA
CudaCtxCreate == Mint("CudaContext", KIND_CUDA.CudaContext, None)
\* A mutant: the context is not looked up.
CudaMemAllocUnchecked(context) ==
  Mint("CudaDevicePtr", KIND_CUDA.CudaDevicePtr, context)
CudaMemAlloc(context) ==
  MintUnder("CudaDevicePtr", KIND_CUDA.CudaDevicePtr, "CudaContext", context)
CudaMemFree(dptr) == Release("CudaDevicePtr", dptr)

Cuda ==
  \/ CudaCtxCreate
  \/ \E h \in Arg("CudaContext") : CudaMemAlloc(h)
  \/ \E h \in Arg("CudaDevicePtr") : CudaMemFree(h)

\* HIP
HipMalloc == Mint("HipDevicePtr", KIND_HIP.HipDevicePtr, None)
\* A mutant: the device pointer is looked up among the streams.
HipFreeWrongTable(dptr) == Release("HipStream", dptr)
HipFree(dptr) == Release("HipDevicePtr", dptr)
HipStreamCreate == Mint("HipStream", KIND_HIP.HipStream, None)

Hip ==
  \/ HipMalloc
  \/ \E h \in Arg("HipDevicePtr") : HipFree(h)
  \/ HipStreamCreate

\* OpenCL
ClCreateContext == Mint("ClContext", KIND_CL.ClContext, None)
ClCreateBuffer(context) == MintUnder("ClMem", KIND_CL.ClMem, "ClContext", context)
ClReleaseBuffer(mem) == Release("ClMem", mem)

Cl ==
  \/ ClCreateContext
  \/ \E h \in Arg("ClContext") : ClCreateBuffer(h)
  \/ \E h \in Arg("ClMem") : ClReleaseBuffer(h)

\* Level Zero
L0ContextCreate == Mint("L0Context", KIND_L0.L0Context, None)
L0MemAllocDevice(context) ==
  MintUnder("L0DeviceMem", KIND_L0.L0DeviceMem, "L0Context", context)
L0MemFree(ptr) == Release("L0DeviceMem", ptr)

L0 ==
  \/ L0ContextCreate
  \/ \E h \in Arg("L0Context") : L0MemAllocDevice(h)
  \/ \E h \in Arg("L0DeviceMem") : L0MemFree(h)

\* WebGPU
WgpuRequestDevice == Mint("WgpuDevice", KIND_WGPU.WgpuDevice, None)
WgpuCreateBuffer(device) ==
  MintUnder("WgpuBuffer", KIND_WGPU.WgpuBuffer, "WgpuDevice", device)
WgpuDestroyBuffer(buffer) == Release("WgpuBuffer", buffer)

Wgpu ==
  \/ WgpuRequestDevice
  \/ \E h \in Arg("WgpuDevice") : WgpuCreateBuffer(h)
  \/ \E h \in Arg("WgpuBuffer") : WgpuDestroyBuffer(h)

\* SYCL
SyclQueueCreate == Mint("SyclQueue", KIND_SYCL.SyclQueue, None)
SyclMallocDevice(queue) ==
  MintUnder("SyclDevicePtr", KIND_SYCL.SyclDevicePtr, "SyclQueue", queue)
SyclFree(ptr) == Release("SyclDevicePtr", ptr)

Sycl ==
  \/ SyclQueueCreate
  \/ \E h \in Arg("SyclQueue") : SyclMallocDevice(h)
  \/ \E h \in Arg("SyclDevicePtr") : SyclFree(h)

\* OptiX: one opcode destroys pipelines and contexts; the pipelines are
\* tried first, and the contexts only if no pipeline answers to the handle.
OptixContextCreate == Mint("OptixContext", KIND_OPTIX.OptixContext, None)
OptixPipelineCreate(context) ==
  MintUnder("OptixPipeline", KIND_OPTIX.OptixPipeline, "OptixContext", context)
\* A mutant: a handle that names a pipeline and a context removes both.
OptixDestroyBoth(handle) ==
  /\ open
  /\ \E f \in {"OptixPipeline", "OptixContext"} : Resolves(tables[f], handle)
  /\ tables' = [f \in Family |->
                  IF f \in {"OptixPipeline", "OptixContext"} /\ Resolves(tables[f], handle)
                  THEN Remove(tables[f], handle) ELSE tables[f]]
  /\ UNCHANGED <<issued, open>>
OptixDestroy(handle) ==
  \/ Release("OptixPipeline", handle)
  \/ ~Resolves(tables["OptixPipeline"], handle) /\ Release("OptixContext", handle)

Optix ==
  \/ OptixContextCreate
  \/ \E h \in Arg("OptixContext") : OptixPipelineCreate(h)
  \/ \E h \in Arg("OptixContext") \cup Arg("OptixPipeline") : OptixDestroy(h)

\* AMF encode
AmfCreateEncoder == Mint("AmfEncoder", KIND_AMF.AmfEncoder, None)
AmfEncodeFrame(encoder) == Count("AmfEncoder", encoder)
AmfDestroyEncoder(encoder) == Release("AmfEncoder", encoder)

Amf ==
  \/ AmfCreateEncoder
  \/ \E h \in Arg("AmfEncoder") : AmfEncodeFrame(h) \/ AmfDestroyEncoder(h)

\* Video decode: DECODE_FRAME answers with the count before it advances it.
VideoCreateDecodeSession == Mint("VideoSession", KIND_VIDEO.VideoSession, None)
VideoDestroySession(session) == Release("VideoSession", session)

Video ==
  \/ VideoCreateDecodeSession
  \/ \E h \in Arg("VideoSession") : VideoDestroySession(h)

\* A mutant: the answer is the count after the call.
VideoDecodeFrameLate(session) ==
  /\ Count("VideoSession", session)
  /\ returned' = returned \cup
       {[session |-> session, index |-> Get(tables'["VideoSession"], session).count]}

VideoDecodeFrame(session) ==
  /\ Count("VideoSession", session)
  /\ returned' = returned \cup
       {[session |-> session, index |-> Get(tables["VideoSession"], session).count]}

---------------------------------------------------------------------------
Next ==
  \/ Serve("OpenGl", Gl)
  \/ Serve("Cuda", Cuda)
  \/ Serve("Hip", Hip)
  \/ Serve("OpenCl", Cl)
  \/ Serve("LevelZero", L0)
  \/ Serve("WebGpu", Wgpu)
  \/ Serve("Sycl", Sycl)
  \/ Serve("OptiX", Optix)
  \/ Serve("Amf", Amf)
  \/ Serve("Video", Video)
  \/ /\ api = "Video"
     /\ \E h \in Arg("VideoSession") : VideoDecodeFrame(h)
     /\ UNCHANGED api
  \/ Reject /\ UNCHANGED <<api, returned>>

Spec == Init /\ [][Next]_apiVars

---------------------------------------------------------------------------
\* The family of the parent each kind of child records.
OWNER ==
  [GlBuffer |-> "GlContext", CudaDevicePtr |-> "CudaContext",
   ClMem |-> "ClContext", L0DeviceMem |-> "L0Context",
   WgpuBuffer |-> "WgpuDevice", SyclDevicePtr |-> "SyclQueue"]

\* Buffers and allocations hang under a live context, device or queue for as
\* long as they exist: what was checked when they were minted stays true.
\* OptiX pipelines are not among them, for OptiX contexts can be destroyed.
ParentsLive ==
  \A f \in DOMAIN OWNER :
    \A o \in LiveObjects(tables[f]) : Resolves(tables[OWNER[f]], o.owner)

\* The handle a creating call returns was never returned before, neither for
\* an object of the same family nor for one of the other.
NeverReissued ==
  [][(\E f \in Family : tables'[f].live > tables[f].live)
       => issued' # issued]_apiVars

\* A teardown call whose handle is of the family it tears down takes away
\* the object that was created under this very handle, and nothing else from
\* any of the tables.
DestroysWhatItNames ==
  [][\A h \in issued :
       /\ GlDeleteBuffer(h) /\ h.kind = KIND_GL.GlBuffer => TakenAway = {h}
       /\ CudaMemFree(h) /\ h.kind = KIND_CUDA.CudaDevicePtr => TakenAway = {h}
       /\ HipFree(h) /\ h.kind = KIND_HIP.HipDevicePtr => TakenAway = {h}
       /\ ClReleaseBuffer(h) /\ h.kind = KIND_CL.ClMem => TakenAway = {h}
       /\ L0MemFree(h) /\ h.kind = KIND_L0.L0DeviceMem => TakenAway = {h}
       /\ WgpuDestroyBuffer(h) /\ h.kind = KIND_WGPU.WgpuBuffer => TakenAway = {h}
       /\ SyclFree(h) /\ h.kind = KIND_SYCL.SyclDevicePtr => TakenAway = {h}
       /\ AmfDestroyEncoder(h) /\ h.kind = KIND_AMF.AmfEncoder => TakenAway = {h}
       /\ VideoDestroySession(h) /\ h.kind = KIND_VIDEO.VideoSession =>
            TakenAway = {h}]_apiVars

\* The OptiX DESTROY tries two tables with one handle, yet an acknowledged
\* call takes away one object, never one from each.
OptixDestroysOne ==
  [][\A h \in issued : OptixDestroy(h) =>
       Cardinality(Gone("OptixPipeline") \cup Gone("OptixContext")) = 1]_apiVars

\* The indices a decode session has returned are 0, 1, 2, ... without gap or
\* repetition up to its counter, also for a session in a reused slot; only a
\* saturated counter goes on to answer with its last value.
FramesInOrder ==
  \A h \in LiveHandles(tables["VideoSession"]) :
    LET answers == {r.index : r \in {s \in returned : s.session = h}}
        frames  == Get(tables["VideoSession"], h).count
    IN  \/ answers = 0 .. frames - 1
        \/ frames = COUNT_MAX /\ answers = 0 .. COUNT_MAX

---------------------------------------------------------------------------
\* What the test destroy_of_live_context_succeeds asserts of OptiX DESTROY:
\* an acknowledged call for a handle that names a live object leaves that
\* object dead.
OptixDestroysWhatItNames ==
  [][\A f \in {"OptixContext", "OptixPipeline"} :
       \A h \in LiveHandles(tables[f]) :
         OptixDestroy(h) => ~Resolves(tables'[f], h)]_apiVars

\* What HANDLES.md says of the families' tables: a handle issued by one table
\* resolves against no other.
FamiliesApart ==
  \A f, g \in Family : f # g =>
    \A h \in LiveHandles(tables[f]) : ~Resolves(tables[g], h)
===========================================================================
